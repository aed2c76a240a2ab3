------------------------------ MODULE SyncFeed ------------------------------
(***************************************************************************)
(* The feed of sync events, and the clients that follow it: a snapshot,    *)
(* which the server puts together from many reads, and then polls for the  *)
(* events since a revision.  The requests that change something write it   *)
(* first, section by section, and append their event last.  SyncStore      *)
(* holds connection_lock while it appends or reads events; the stores of   *)
(* the sections take no lock.                                              *)
(***************************************************************************)
EXTENDS SharedConnection, Integers, SequencesExt

CONSTANTS
  Threads,      \* worker threads that serve what changes something
  Audiences,    \* the legacy one for all who are not authenticated, and the users
  Clients,      \* the audiences of which a client follows the feed
  Users,        \* per audience, for whom a buddy may be created
  Owner,        \* per audience, whose the buddy and the device are that it has from the start
  Changes,      \* what may be changed: [kind, audience]
  MaxChanges,   \* bound: changes in a behaviour
  None

(* The sections that a request writes before it appends its event.         *)
Kinds == {"buddy", "pair", "message", "heartbeat", "memory", "reminder", "agent"}

(* Mutant: the cost of a message is recorded before its usage.             *)
WritesCostFirst(kind) == CASE kind = "buddy" -> <<"buddies">>
                           [] kind = "pair" -> <<"devices", "agent_machines", "bindings">>
                           [] kind = "message" -> <<"costs", "plan_usage", "traces">>
                           [] kind = "heartbeat" -> <<"heartbeats">>
                           [] kind = "memory" -> <<"state_memory">>
                           [] kind = "reminder" -> <<"desired_states">>
                           [] kind = "agent" -> <<"agents">>

Writes(kind) == CASE kind = "buddy" -> <<"buddies">>
                  [] kind = "pair" -> <<"devices", "agent_machines", "bindings">>
                  [] kind = "message" -> <<"plan_usage", "costs", "traces">>
                  [] kind = "heartbeat" -> <<"heartbeats">>
                  [] kind = "memory" -> <<"state_memory">>
                  [] kind = "reminder" -> <<"desired_states">>
                  [] kind = "agent" -> <<"agents">>
Sections == UNION {Range(Writes(kind)) : kind \in Kinds}

(* A pairing writes its tables in one transaction; every other section has *)
(* one of its own.                                                         *)
Paired == {"devices", "agent_machines", "bindings"}
Together(s) == IF s \in Paired THEN Paired ELSE {s}

(* The sections that are read from dictionaries, which change after the    *)
(* commit, and not from tables.                                            *)
Kept == Paired \union {"heartbeats", "desired_states"}

(* BuddyStore holds connection_lock for its statements; the other stores   *)
(* of the sections do not.                                                 *)
Guarded == {"buddies"}

(* Mutant: the revision is read when everything else has been.             *)
SnapshotRevisionLast ==
  <<"traces", "costs", "buddies", "visible_devices", "visible_machines", "state_memory",
    "desired_states", "devices", "agent_machines", "bindings", "heartbeats", "plan_usage",
    "agents", "revision">>

(* The reads that make up an answer, in their order: the ids of the        *)
(* devices and machines that the audience may see come before most of the  *)
(* sections that they select from.                                         *)
SnapshotReads ==
  <<"traces", "costs", "buddies", "visible_devices", "visible_machines", "state_memory",
    "desired_states", "revision", "devices", "agent_machines", "bindings", "heartbeats",
    "plan_usage", "agents">>

(* Mutant: the events are read before the revision.                        *)
PollEventsFirst == <<"events", "revision">>

PollReads == <<"revision", "events">>

LateSections == {"devices", "agent_machines", "bindings", "heartbeats", "plan_usage", "agents"}

(* What a snapshot shows, and what it selects by.                          *)
Visible == {"visible_devices", "visible_machines"}
Viewed == Sections \union Visible

(* One thing of a section: whose it is, and the id of the buddy or device  *)
(* it belongs to, 0 for those that were there from the start.              *)
Entities == [id : 1 .. MaxChanges, kind : Kinds, audience : Audiences,
             user : UNION Range(Users) \union Range(Owner), of : 0 .. MaxChanges]

ASSUME FeedAssumption ==
  /\ Clients \subseteq Audiences
  /\ Changes \subseteq [kind : Kinds, audience : Audiences]
  /\ DOMAIN Users = Audiences /\ DOMAIN Owner = Audiences
  /\ MaxChanges \in Nat
  /\ None \notin Threads \union Entities

Rows == [Sections -> SUBSET Entities]
NoRows == [s \in Sections |-> {}]
Views == [Viewed -> SUBSET Entities]
NoView == [s \in Viewed |-> {}]
Database == [rows : Rows, events : Seq(Entities)]
EmptyDatabase == [rows |-> NoRows, events |-> <<>>]

VARIABLES
  kept,      \* the dictionaries
  lock,      \* connection_lock: the thread that holds it
  pc,        \* where each thread is in its request
  entity,    \* what it changes
  todo,      \* the sections it has still to write
  clock,     \* changes begun: the identifiers, and the bound
  past,      \* whose usage is of a month gone by
  left,      \* per client, the reads left of the request that is answered
  view,      \* the sections of its last snapshot, and the ids they are selected by
  base,      \* the state_revision of its last snapshot
  since,     \* the last state_revision it was given
  given,     \* the state_revision of the answer under way
  polled,    \* the events it was given since, with their revisions
  asked,     \* history: the revision when its last snapshot was asked for
  torn       \* history: a rollback hit the open transaction of another thread

threadVars == <<pc, entity, todo>>
clientVars == <<left, view, base, since, given, polled, asked>>
vars == <<connectionVars, kept, lock, threadVars, clock, past, clientVars, torn>>

Uncommitted == {"commit", "announce"}
Steps == {"idle", "write", "publish", "append"} \union Uncommitted

Init ==
  /\ working = EmptyDatabase /\ durable = EmptyDatabase
  /\ kept = NoRows
  /\ lock = None
  /\ pc = [t \in Threads |-> "idle"]
  /\ entity = [t \in Threads |-> None]
  /\ todo = [t \in Threads |-> <<>>]
  /\ clock = 0 /\ past = {}
  /\ left = [c \in Clients |-> <<>>]
  /\ view = [c \in Clients |-> NoView]
  /\ base = [c \in Clients |-> 0]
  /\ since = [c \in Clients |-> 0]
  /\ given = [c \in Clients |-> 0]
  /\ polled = [c \in Clients |-> {}]
  /\ asked = [c \in Clients |-> 0]
  /\ torn = FALSE

-----------------------------------------------------------------------------
(* The requests that change something.                                     *)

Goto(t, step) == pc' = [pc EXCEPT ![t] = step]
Finish(t) == /\ Goto(t, "idle")
             /\ entity' = [entity EXCEPT ![t] = None]
             /\ todo' = [todo EXCEPT ![t] = <<>>]

(* What the handler of a change finds it may belong to.                    *)
Owners(kind) == CASE kind \in {"pair", "message", "memory"} -> working.rows["buddies"]
                  [] kind = "heartbeat" -> kept["bindings"]
                  [] kind = "reminder" -> kept["devices"]
                  [] OTHER -> {}

(* A new buddy is of any user of the audience; all else is of the user     *)
(* whose buddy it is.                                                      *)
Belongs(e) ==
  \/ e.of = 0 /\ IF e.kind = "buddy" THEN e.user \in Users[e.audience]
                                     ELSE e.user = Owner[e.audience]
  \/ \E o \in Owners(e.kind) : e.of = o.id /\ e.audience = o.audience /\ e.user = o.user

(* Buddies are read under the lock.  A behaviour ends with a torn          *)
(* transaction.                                                            *)
Receive(t, change) ==
  /\ pc[t] = "idle" /\ clock < MaxChanges /\ ~torn
  /\ change.kind \in {"pair", "message", "memory"} => lock = None
  /\ clock' = clock + 1
  /\ \E e \in Entities :
       /\ e.id = clock' /\ e.kind = change.kind /\ e.audience = change.audience
       /\ Belongs(e)
       /\ entity' = [entity EXCEPT ![t] = e]
  /\ todo' = [todo EXCEPT ![t] = Writes(change.kind)]
  /\ Goto(t, "write")
  /\ UNCHANGED <<connectionVars, kept, lock, past, clientVars, torn>>

WriteSection(t) ==
  LET s == Head(todo[t]) IN
  /\ pc[t] = "write" /\ (s \in Guarded => lock = None)
  /\ lock' = IF s \in Guarded THEN t ELSE lock
  /\ Execute([working EXCEPT !.rows =
       [x \in Sections |-> IF x \in Together(s) THEN @[x] \union {entity[t]} ELSE @[x]]])
  /\ Goto(t, "commit")
  /\ UNCHANGED <<kept, entity, todo, clock, past, clientVars, torn>>

CommitSection(t) ==
  /\ pc[t] = "commit"
  /\ Commit
  /\ lock' = IF lock = t THEN None ELSE lock
  /\ Goto(t, "publish")
  /\ UNCHANGED <<kept, entity, todo, clock, past, clientVars, torn>>

(* The dictionary of the section, if it has one, and on to the next: what  *)
(* was committed together is published one after the other.                *)
Publish(t) ==
  LET s == Head(todo[t]) IN
  /\ pc[t] = "publish"
  /\ kept' = IF s \in Kept THEN [kept EXCEPT ![s] = @ \union {entity[t]}] ELSE kept
  /\ todo' = [todo EXCEPT ![t] = Tail(@)]
  /\ Goto(t, IF Len(todo[t]) = 1 THEN "append"
             ELSE IF todo[t][2] \in Together(s) THEN "publish" ELSE "write")
  /\ UNCHANGED <<connectionVars, lock, entity, clock, past, clientVars, torn>>

(* The revision is the index in the table: a rollback takes the number of  *)
(* an AUTOINCREMENT key back with the row.                                 *)
AppendEvent(t) ==
  /\ pc[t] = "append" /\ lock = None
  /\ lock' = t
  /\ Execute([working EXCEPT !.events = Append(@, entity[t])])
  /\ Goto(t, "announce")
  /\ UNCHANGED <<kept, entity, todo, clock, past, clientVars, torn>>

CommitEvent(t) ==
  /\ pc[t] = "announce"
  /\ Commit
  /\ lock' = IF lock = t THEN None ELSE lock
  /\ Finish(t)
  /\ UNCHANGED <<kept, clock, past, clientVars, torn>>

(* A statement raises, or a commit that has anything to commit.            *)
WriteFails(t) ==
  /\ \/ pc[t] \in {"write", "append"}
     \/ pc[t] \in Uncommitted /\ working # durable
  /\ Rollback
  /\ lock' = IF lock = t THEN None ELSE lock
  /\ torn' = (torn \/ \E u \in Threads \ {t} : pc[u] \in Uncommitted)
  /\ Finish(t)
  /\ UNCHANGED <<kept, clock, past, clientVars>>

(* A new month begins; a usage that is about to be written may be dated    *)
(* from the old one.  Bound: one month that has any usage goes by.         *)
NextMonth ==
  /\ past = {}
  /\ \E dated \in SUBSET {t \in Threads : pc[t] = "write" /\ Head(todo[t]) = "plan_usage"} :
       past' = past \union working.rows["plan_usage"] \union {entity[t] : t \in dated}
  /\ UNCHANGED <<connectionVars, kept, lock, threadVars, clock, clientVars, torn>>

-----------------------------------------------------------------------------
(* The clients.                                                            *)

(* What a snapshot selects from a section: what the audience may see, of   *)
(* the buddies, devices and machines that were read before.  A cost or a   *)
(* trace that was read before the buddies is of one of them.               *)
Sees(c, what, id) == id = 0 \/ \E o \in view[c][what] : o.id = id

Selected(c, s, e) ==
  /\ e.audience = c
  /\ s \in Visible \union {"state_memory", "bindings"} => Sees(c, "buddies", e.of)
  /\ s \in {"heartbeats", "desired_states"} => Sees(c, "visible_devices", e.of)
  /\ s = "devices" => Sees(c, "visible_devices", e.id)
  /\ s = "agent_machines" => Sees(c, "visible_machines", e.id)

(* plan_usage is of this month and of one user: the one who asks, or the   *)
(* one whose all visible buddies are.                                      *)
Counted(c, e) ==
  e \notin past /\ {b.user : b \in view[c]["buddies"]} \union {e.user} \subseteq {Owner[c]}

Source(s) == IF s = "visible_devices" THEN kept["devices"]
             ELSE IF s = "visible_machines" THEN kept["bindings"]
             ELSE IF s \in Kept THEN kept[s] ELSE working.rows[s]

Since(c, revision) ==
  {i \in DOMAIN working.events : i > revision /\ working.events[i].audience = c}

(* Mutant: MAX(revision) of no row at all.                                 *)
VisibleRevisionOrNull(c) == IF Since(c, 0) = {} THEN None ELSE Max(Since(c, 0))

VisibleRevision(c) == IF Since(c, 0) = {} THEN 0 ELSE Max(Since(c, 0))

(* The list of the reads ends with the answer.                             *)
Begin(c, reads, answer) ==
  /\ left[c] = <<>>
  /\ left' = [left EXCEPT ![c] = Append(reads, answer)]
  /\ UNCHANGED <<connectionVars, kept, lock, threadVars, clock, past, view, base, since, given,
                 polled, torn>>

GetSnapshot(c) ==
  /\ Begin(c, SnapshotReads, "snapshot")
  /\ asked' = [asked EXCEPT ![c] = Len(durable.events)]

GetEvents(c) == Begin(c, PollReads, "poll") /\ UNCHANGED asked

Read(c, what) ==
  /\ left[c] # <<>> /\ Head(left[c]) \in what
  /\ left' = [left EXCEPT ![c] = Tail(@)]
  /\ UNCHANGED <<connectionVars, kept, lock, threadVars, clock, past, asked, torn>>

ReadSection(c) ==
  LET s == Head(left[c]) IN
  /\ Read(c, Viewed) /\ (s \in Guarded => lock = None)
  /\ view' = [view EXCEPT ![c][s] =
       {e \in Source(s) : IF s = "plan_usage" THEN Counted(c, e) ELSE Selected(c, s, e)}]
  /\ UNCHANGED <<base, since, given, polled>>

(* visible_state_revision and list_events wait for the lock.               *)
ReadRevision(c) ==
  /\ Read(c, {"revision"}) /\ lock = None
  /\ given' = [given EXCEPT ![c] = VisibleRevision(c)]
  /\ UNCHANGED <<view, base, since, polled>>

ReadEvents(c) ==
  /\ Read(c, {"events"}) /\ lock = None
  /\ polled' = [polled EXCEPT ![c] =
       @ \union {<<i, working.events[i]>> : i \in Since(c, since[c])}]
  /\ UNCHANGED <<view, base, since, given>>

(* The client starts over from a snapshot, or goes on from a poll.         *)
AnswerSnapshot(c) ==
  /\ Read(c, {"snapshot"})
  /\ base' = [base EXCEPT ![c] = given[c]]
  /\ since' = [since EXCEPT ![c] = given[c]]
  /\ polled' = [polled EXCEPT ![c] = {}]
  /\ UNCHANGED <<view, given>>

AnswerPoll(c) ==
  /\ Read(c, {"poll"})
  /\ since' = [since EXCEPT ![c] = given[c]]
  /\ UNCHANGED <<view, base, given, polled>>

-----------------------------------------------------------------------------
(* A snapshot that is cut off leaves its client with nothing; one that was *)
(* polling tries again.                                                    *)
Restart ==
  LET lost == {c \in Clients : "snapshot" \in Range(left[c])} IN
  /\ Rollback
  /\ kept' = [s \in Sections |-> IF s \in Kept THEN durable.rows[s] ELSE {}]
  /\ lock' = None
  /\ pc' = [t \in Threads |-> "idle"]
  /\ entity' = [t \in Threads |-> None]
  /\ todo' = [t \in Threads |-> <<>>]
  /\ left' = [c \in Clients |-> <<>>]
  /\ view' = [c \in Clients |-> IF c \in lost THEN NoView ELSE view[c]]
  /\ base' = [c \in Clients |-> IF c \in lost THEN 0 ELSE base[c]]
  /\ since' = [c \in Clients |-> IF c \in lost THEN 0 ELSE since[c]]
  /\ polled' = [c \in Clients |-> IF c \in lost THEN {} ELSE polled[c]]
  /\ asked' = [c \in Clients |-> IF c \in lost THEN 0 ELSE asked[c]]
  /\ UNCHANGED <<clock, past, given, torn>>

Serve(t) ==
  \/ \E change \in Changes : Receive(t, change)
  \/ WriteSection(t)
  \/ CommitSection(t)
  \/ Publish(t)
  \/ AppendEvent(t)
  \/ CommitEvent(t)
  \/ WriteFails(t)

Follow(c) ==
  \/ GetSnapshot(c)
  \/ GetEvents(c)
  \/ ReadSection(c)
  \/ ReadRevision(c)
  \/ ReadEvents(c)
  \/ AnswerSnapshot(c)
  \/ AnswerPoll(c)

Next == Restart \/ NextMonth \/ (\E t \in Threads : Serve(t)) \/ (\E c \in Clients : Follow(c))

Spec == Init /\ [][Next]_vars

-----------------------------------------------------------------------------
Answers == {"revision", "events", "snapshot", "poll"}

TypeOK ==
  /\ working \in Database /\ durable \in Database
  /\ kept \in Rows
  /\ lock \in Threads \union {None}
  /\ pc \in [Threads -> Steps]
  /\ entity \in [Threads -> Entities \union {None}]
  /\ todo \in [Threads -> Seq(Sections)]
  /\ clock \in 0 .. MaxChanges /\ past \subseteq Entities
  /\ left \in [Clients -> Seq(Viewed \union Answers)]
  /\ view \in [Clients -> Views]
  /\ base \in [Clients -> Nat] /\ since \in [Clients -> Nat] /\ given \in [Clients -> Nat]
  /\ polled \in [Clients -> SUBSET (Nat \X Entities)] /\ asked \in [Clients -> Nat]
  /\ torn \in BOOLEAN

Following == {c \in Clients : left[c] = <<>>}

(* A client that asks for the events since the state_revision it was given *)
(* last misses no event of its audience, and an event it was given keeps   *)
(* its revision, through failing writes and restarts.                      *)
PollsMissNothing ==
  \A c \in Following :
    LET events == {<<i, durable.events[i]>> : i \in DOMAIN durable.events} IN
    /\ polled[c] \subseteq events
    /\ \A e \in events : e[1] \in base[c] + 1 .. since[c] /\ e[2].audience = c => e \in polled[c]

(* What a snapshot shows of what the events announce.                      *)
Shows(c, s, e) == e \in view[c][s] \/ (s = "plan_usage" /\ ~Counted(c, e))

(* A snapshot shows, in every section, all that was announced before it    *)
(* was asked for.  Its late sections, read after the revision, show all    *)
(* that is announced up to the revision and belongs to what it selects:    *)
(* the client that polls from there hears of everything else in them, but  *)
(* for what became visible between the selection and the revision.         *)
SnapshotCovers ==
  torn \/ \A c \in Following : \A i \in DOMAIN durable.events :
    LET e == durable.events[i] IN
    e.audience = c => \A s \in Range(Writes(e.kind)) :
      (i <= asked[c] \/ (i <= base[c] /\ s \in LateSections /\ Selected(c, s, e)))
        => Shows(c, s, e)

(* No snapshot shows a cost of this month that its plan_usage, where it    *)
(* has one, does not count, whatever is written while it is put together.  *)
UsageCoversCosts ==
  torn \/ \A c \in Following : \A e \in view[c]["costs"] : Shows(c, "plan_usage", e)
=============================================================================
