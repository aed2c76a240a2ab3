--------------------------- MODULE DeviceReports ---------------------------
(***************************************************************************)
(* What a paired device reports, heartbeats and events under idempotency   *)
(* keys, and what it is told: the desired state that its owner's reminders *)
(* number.  As in DevicePairing, the registry keeps dictionaries that the  *)
(* requests read and tables that a start of the process loads, and only    *)
(* the reminders take a lock.                                              *)
(***************************************************************************)
EXTENDS SharedConnection, Integers, SequencesExt

CONSTANTS
  Threads,       \* worker threads that serve the routes
  Devices, Keys,
  Requests,      \* the requests that devices and owners may send
  Overlaps,      \* pairs <<r, s>>: s may arrive while r is being served
  MaxRequests,   \* bound: requests in a behaviour
  None

ASSUME ReportAssumption ==
  /\ Requests \subseteq [kind : {"heartbeat", "event"}, device : Devices, key : Keys]
                \union [kind : {"reminder"}, device : Devices, key : {None}]
  /\ Overlaps \subseteq Requests \X Requests
  /\ MaxRequests \in Nat /\ None \notin Nat \union Requests \union Threads

(* The reports, each of which has one row: (device_id, idempotency_key) is *)
(* the primary key of its table and the key of its dictionary.             *)
Reports == {r \in Requests : r.kind # "reminder"}
ReportsOf(kind, d) == {r \in Reports : r.kind = kind /\ r.device = d}

(* A report is known by its created_at, set when the route builds it, and  *)
(* two deliveries of one report are two objects.                           *)
Stamp == 1 .. MaxRequests

Database == [rows : [Reports -> Stamp \union {None}],
             desired : [Devices -> Nat],     \* the revision, or 0 without a row
             feed : [Requests -> Nat]]       \* sync_events, counted
EmptyDatabase == [rows |-> [r \in Reports |-> None],
                  desired |-> [d \in Devices |-> 0],
                  feed |-> [r \in Requests |-> 0]]

(* _heartbeats_by_idempotency and _events_by_idempotency,                  *)
(* _latest_heartbeat_by_device, the events of each device in               *)
(* _device_events, and _desired_state_by_device.                           *)
Registry == [known : [Reports -> Stamp \union {None}],
             latest : [Devices -> Stamp \union {None}],
             events : [Devices -> Seq(Stamp)],
             desired : [Devices -> Nat]]

StampsOf(db, kind, d) == {db.rows[r] : r \in ReportsOf(kind, d)} \ {None}

(* ORDER BY created_at, and the last row of it.  (SetToSortSeq would do,    *)
(* but rests on TLC!SortSeq, of which the prover knows nothing.)           *)
InOrder(stamps) ==
  CHOOSE s \in [1 .. Cardinality(stamps) -> stamps] :
    \A i, j \in 1 .. Cardinality(stamps) : i < j => s[i] < s[j]
Newest(stamps) == IF stamps = {} THEN None ELSE Max(stamps)

(* Mutant: the rows are loaded with the newest first.                      *)
LoadNewestFirst(db) ==
  [known |-> db.rows,
   latest |-> [d \in Devices |->
                 LET stamps == StampsOf(db, "heartbeat", d) IN
                 IF stamps = {} THEN None ELSE Min(stamps)],
   events |-> [d \in Devices |-> Reverse(InOrder(StampsOf(db, "event", d)))],
   desired |-> db.desired]

(* Mutant: the desired states are not loaded.                              *)
LoadReportsOnly(db) ==
  [known |-> db.rows,
   latest |-> [d \in Devices |-> Newest(StampsOf(db, "heartbeat", d))],
   events |-> [d \in Devices |-> InOrder(StampsOf(db, "event", d))],
   desired |-> [d \in Devices |-> 0]]

(* What a start of the process makes of the tables: ORDER BY created_at.   *)
Load(db) ==
  [known |-> db.rows,
   latest |-> [d \in Devices |-> Newest(StampsOf(db, "heartbeat", d))],
   events |-> [d \in Devices |-> InOrder(StampsOf(db, "event", d))],
   desired |-> db.desired]

-----------------------------------------------------------------------------
VARIABLES
  registry,   \* the dictionaries
  lock,       \* _desired_state_lock: the thread that holds it
  pc, req,    \* where each thread is, and the request it serves
  mine,       \* the stamp of the report it built, or the revision it wrote
  clock,      \* requests begun: the time, and the bound
  answers,    \* history: per report the stamps answered with success
  reminders,  \* history: per device the revisions answered to its owner
  torn        \* history: a rollback hit the open transaction of another thread

threadVars == <<pc, req, mine>>
historyVars == <<answers, reminders, torn>>
vars == <<connectionVars, registry, lock, threadVars, clock, historyVars>>

Uncommitted == {"commit", "announce"}
Steps == {"idle", "lookup", "acquire", "read", "persist", "publish", "index", "notify"} \union Uncommitted

Init ==
  /\ working = EmptyDatabase /\ durable = EmptyDatabase
  /\ registry = Load(EmptyDatabase)
  /\ lock = None
  /\ pc = [t \in Threads |-> "idle"]
  /\ req = [t \in Threads |-> None]
  /\ mine = [t \in Threads |-> None]
  /\ clock = 0
  /\ answers = [r \in Reports |-> {}]
  /\ reminders = [d \in Devices |-> <<>>]
  /\ torn = FALSE

-----------------------------------------------------------------------------
Goto(t, step) == pc' = [pc EXCEPT ![t] = step]
Finish(t) == /\ Goto(t, "idle")
             /\ req' = [req EXCEPT ![t] = None]
             /\ mine' = [mine EXCEPT ![t] = None]
Answer(r, x) ==
  IF r.kind = "reminder"
  THEN /\ reminders' = [reminders EXCEPT ![r.device] = Append(@, x)]
       /\ UNCHANGED answers
  ELSE /\ answers' = [answers EXCEPT ![r] = @ \union {x}]
       /\ UNCHANGED reminders

(* The device is paired and the caller authenticated.  A behaviour ends    *)
(* with a torn transaction.                                                *)
Allowed(t, r) ==
  /\ pc[t] = "idle"
  /\ \A u \in Threads : pc[u] # "idle" => <<req[u], r>> \in Overlaps
  /\ clock < MaxRequests
  /\ ~torn

(* Mutant: the report has no created_at yet when the store gets it.        *)
ReceiveUnstamped(t, r) ==
  /\ Allowed(t, r)
  /\ clock' = clock + 1
  /\ req' = [req EXCEPT ![t] = r]
  /\ Goto(t, IF r.kind = "reminder" THEN "acquire" ELSE "lookup")
  /\ UNCHANGED <<connectionVars, registry, lock, mine, historyVars>>

Receive(t, r) ==
  /\ Allowed(t, r)
  /\ clock' = clock + 1
  /\ req' = [req EXCEPT ![t] = r]
  /\ mine' = [mine EXCEPT ![t] = IF r.kind = "reminder" THEN None ELSE clock']
  /\ Goto(t, IF r.kind = "reminder" THEN "acquire" ELSE "lookup")
  /\ UNCHANGED <<connectionVars, registry, lock, historyVars>>

(* Mutant: a report that is found is announced as if it were new.          *)
LookupAnnouncing(t) ==
  LET found == registry.known[req[t]] IN
  /\ pc[t] = "lookup"
  /\ Goto(t, IF found = None THEN "persist" ELSE "notify")
  /\ UNCHANGED <<connectionVars, registry, lock, req, mine, clock, historyVars>>

(* A report that is found is the answer, and is not announced.             *)
Lookup(t) ==
  LET found == registry.known[req[t]] IN
  /\ pc[t] = "lookup"
  /\ IF found = None
     THEN Goto(t, "persist") /\ UNCHANGED <<req, mine, answers, reminders>>
     ELSE Finish(t) /\ Answer(req[t], found)
  /\ UNCHANGED <<connectionVars, registry, lock, clock, torn>>

(* Mutant: the lock is taken after the current revision is read.           *)
AcquireWithoutWaiting(t) ==
  /\ pc[t] = "acquire"
  /\ Goto(t, "read")
  /\ UNCHANGED <<connectionVars, registry, lock, req, mine, clock, historyVars>>

AcquireLock(t) ==
  /\ pc[t] = "acquire" /\ lock = None
  /\ lock' = t
  /\ Goto(t, "read")
  /\ UNCHANGED <<connectionVars, registry, req, mine, clock, historyVars>>

ReadRevision(t) ==
  /\ pc[t] = "read"
  /\ mine' = [mine EXCEPT ![t] = registry.desired[req[t].device] + 1]
  /\ Goto(t, "persist")
  /\ UNCHANGED <<connectionVars, registry, lock, req, clock, historyVars>>

(* INSERT OR REPLACE of a report, or the upsert of the desired state.      *)
Persist(t) ==
  LET r == req[t] IN
  /\ pc[t] = "persist"
  /\ IF r.kind = "reminder"
     THEN Execute([working EXCEPT !.desired[r.device] = mine[t]])
     ELSE Execute([working EXCEPT !.rows[r] = mine[t]])
  /\ Goto(t, "commit")
  /\ UNCHANGED <<registry, lock, req, mine, clock, historyVars>>

CommitReport(t) ==
  /\ pc[t] = "commit"
  /\ Commit
  /\ Goto(t, "publish")
  /\ UNCHANGED <<registry, lock, req, mine, clock, historyVars>>

(* The latest heartbeat, the list of events, or the desired state, whose   *)
(* lock is then released.                                                  *)
Publish(t) ==
  LET d == req[t].device IN
  /\ pc[t] = "publish"
  /\ registry' =
       CASE req[t].kind = "heartbeat" -> [registry EXCEPT !.latest[d] = mine[t]]
         [] req[t].kind = "event" -> [registry EXCEPT !.events[d] = Append(@, mine[t])]
         [] req[t].kind = "reminder" -> [registry EXCEPT !.desired[d] = mine[t]]
  /\ lock' = IF lock = t THEN None ELSE lock
  /\ Goto(t, IF req[t].kind = "reminder" THEN "notify" ELSE "index")
  /\ UNCHANGED <<connectionVars, req, mine, clock, historyVars>>

IndexReport(t) ==
  /\ pc[t] = "index"
  /\ registry' = [registry EXCEPT !.known[req[t]] = mine[t]]
  /\ Goto(t, "notify")
  /\ UNCHANGED <<connectionVars, lock, req, mine, clock, historyVars>>

(* SyncStore.append_event, its commit, and the answer.                     *)
AppendEvent(t) ==
  /\ pc[t] = "notify"
  /\ Execute([working EXCEPT !.feed[req[t]] = @ + 1])
  /\ Goto(t, "announce")
  /\ UNCHANGED <<registry, lock, req, mine, clock, historyVars>>

CommitEvent(t) ==
  /\ pc[t] = "announce"
  /\ Commit
  /\ Finish(t)
  /\ Answer(req[t], mine[t])
  /\ UNCHANGED <<registry, lock, clock, torn>>

(* A statement raises, or a commit that has anything to commit: the blocks *)
(* roll the connection back and release the lock, and the answer is 500.   *)
WriteFails(t) ==
  /\ \/ pc[t] \in {"persist", "notify"}
     \/ pc[t] \in Uncommitted /\ working # durable
  /\ Rollback
  /\ lock' = IF lock = t THEN None ELSE lock
  /\ torn' = (torn \/ \E u \in Threads \ {t} : pc[u] \in Uncommitted)
  /\ Finish(t)
  /\ UNCHANGED <<registry, clock, answers, reminders>>

Restart ==
  /\ Rollback
  /\ registry' = Load(durable)
  /\ lock' = None
  /\ pc' = [t \in Threads |-> "idle"]
  /\ req' = [t \in Threads |-> None]
  /\ mine' = [t \in Threads |-> None]
  /\ UNCHANGED <<clock, historyVars>>

Serve(t) ==
  \/ \E r \in Requests : Receive(t, r)
  \/ Lookup(t)
  \/ AcquireLock(t)
  \/ ReadRevision(t)
  \/ Persist(t)
  \/ CommitReport(t)
  \/ Publish(t)
  \/ IndexReport(t)
  \/ AppendEvent(t)
  \/ CommitEvent(t)
  \/ WriteFails(t)

Next == Restart \/ \E t \in Threads : Serve(t)

Spec == Init /\ [][Next]_vars

-----------------------------------------------------------------------------
TypeOK ==
  /\ working \in Database /\ durable \in Database
  /\ registry \in Registry
  /\ lock \in Threads \union {None}
  /\ pc \in [Threads -> Steps]
  /\ req \in [Threads -> Requests \union {None}]
  /\ mine \in [Threads -> Nat \union {None}]
  /\ clock \in 0 .. MaxRequests
  /\ answers \in [Reports -> SUBSET Stamp]
  /\ reminders \in [Devices -> Seq(Nat)]
  /\ torn \in BOOLEAN

Quiescent == \A t \in Threads : pc[t] = "idle"

(* Between requests the dictionaries hold what a restart would load: the   *)
(* latest heartbeat and the order of the events of a device included.      *)
RestartAgrees == Quiescent /\ ~torn => registry = Load(durable)

(* However often a report is delivered, with whatever contents, across     *)
(* failures and restarts: every answer gives the same report, it is the    *)
(* one in the tables, and the feed announces it at most once.              *)
DeliveredOnce ==
  torn \/ \A r \in Reports :
            /\ durable.feed[r] <= 1
            /\ \A x \in answers[r] : durable.rows[r] = x

(* No two reminders of a device are answered with one revision.            *)
RevisionsDistinct ==
  torn \/ \A d \in Devices : IsInjective(reminders[d])

(* The revision that a device polls never goes back, not even when the     *)
(* process restarts, and is never ahead of the tables.                     *)
RevisionsGrow ==
  [][\A d \in Devices : ~torn' =>
       /\ registry'.desired[d] >= registry.desired[d]
       /\ durable'.desired[d] >= registry'.desired[d]]_vars
=============================================================================
