----------------------------- MODULE StateMemory -----------------------------
(***************************************************************************)
(* The proposals of StateMemoryStore, for one user and buddy: a capture    *)
(* saves a pending proposal, and its owner confirms it, corrects it or     *)
(* rejects it.  Confirming reads the proposal, opens a transaction with an *)
(* UPDATE that claims it if it is still pending, and then reads, writes    *)
(* and records one item after another.  None of the routes takes the lock  *)
(* of the connection, so requests interleave between any two statements,   *)
(* see each other's uncommitted rows and share one transaction.            *)
(***************************************************************************)
EXTENDS SharedConnection, StateDelta, Sequences, FiniteSets

CONSTANTS
  Threads,       \* worker threads that serve the routes
  Proposals,
  Parsed,        \* the deltas the provider reads out of each capture
  Corrections,   \* the lists of deltas an owner may put in their place
  Overlaps,      \* pairs <<r, s>>: s may arrive while r is being served
  MayFail,       \* TRUE: a statement can raise and the process can die
  MaxRows,       \* bound: rows of the history and of the feed
  None

Kinds == {"capture", "confirm", "correct", "reject"}

(* Only a correction carries deltas.                                       *)
Requests ==
  [kind : Kinds \ {"correct"}, proposal : Proposals, deltas : {<<>>}]
    \union [kind : {"correct"}, proposal : Proposals, deltas : Corrections]

ItemStatus == {"active", "consumed", "removed"}
ProposalStatus == {"pending", "confirmed", "rejected"}

(* The rows of the three tables.                                           *)
Proposal == [status : ProposalStatus, deltas : Seq(Delta)]
Item == [id : Nat, name : Names, quantity : Quantities, status : ItemStatus]
Entry == [item : Nat, proposal : Proposals, operation : Operations,
          before : Quantities, after : Quantities]
Found == [found : Item \union {None}, written : Item \union {None}]
Stocked == [quantity : Quantities, status : ItemStatus]

ASSUME MemoryAssumption ==
  /\ IsFiniteSet(Threads)
  /\ Parsed \in [Proposals -> Seq(Delta)]
  /\ Corrections \subseteq Seq(Delta)
  /\ Overlaps \subseteq Requests \X Requests
  /\ MayFail \in BOOLEAN

ASSUME NoneAssumption ==
  /\ None \notin Requests /\ None \notin Proposal /\ None \notin Item
  /\ None \notin Found /\ None \notin Stocked

VARIABLES
  pc,        \* where each thread is in its request
  req,       \* the request it serves
  todo,      \* the deltas it still has to apply
  held,      \* the item row it found for a delta, and the one it wrote
  answered,  \* history: the decisions answered with success
  torn,      \* history: a rollback hit the open transaction of another thread
  parted,    \* history: threads whose deltas another's commit has cut in two
  halved     \* history: one of them failed, and half of its deltas remains

threadVars == <<pc, req, todo, held>>
historyVars == <<answered, torn, parted, halved>>
vars == <<connectionVars, threadVars, historyVars>>

Applying == {"find", "write", "record"}
InTransaction == Applying \union {"commit"}
Uncommitted == InTransaction \union {"announce"}
Steps == {"idle", "claim", "account", "notify", "engage"} \union Uncommitted

EmptyDatabase ==
  [proposals |-> [p \in Proposals |-> None],
   items |-> <<>>,      \* state_memory_items, the latest updated_at last
   history |-> <<>>,    \* state_memory_history
   feed |-> [a \in Kinds \X Proposals |-> 0]]   \* sync_events, counted

Init ==
  /\ working = EmptyDatabase /\ durable = EmptyDatabase
  /\ pc = [t \in Threads |-> "idle"]
  /\ req = [t \in Threads |-> None]
  /\ todo = [t \in Threads |-> <<>>]
  /\ held = [t \in Threads |-> None]
  /\ answered = {}
  /\ torn = FALSE
  /\ parted = {}
  /\ halved = FALSE

-----------------------------------------------------------------------------
Goto(t, step) == pc' = [pc EXCEPT ![t] = step]
Release(t) == /\ req' = [req EXCEPT ![t] = None]
              /\ todo' = [todo EXCEPT ![t] = <<>>]
              /\ held' = [held EXCEPT ![t] = None]
Finish(t) == Goto(t, "idle") /\ Release(t)

Allowed(t, r) ==
  /\ pc[t] = "idle"
  /\ \A u \in Threads : pc[u] # "idle" => <<req[u], r>> \in Overlaps
  /\ Len(working.history) < MaxRows
  /\ \A a \in Kinds \X Proposals : working.feed[a] < MaxRows
  /\ ~torn

(* The rows of an item name, and the one that is read: the latest.         *)
RowsNamed(db, name) == {i \in DOMAIN db.items : db.items[i].name = name}
FindItem(db, name) ==
  IF RowsNamed(db, name) = {} THEN None
  ELSE LET i == CHOOSE i \in RowsNamed(db, name) :
                  \A j \in RowsNamed(db, name) : j <= i
       IN db.items[i]

(* The table when its row of that identifier is changed: it is the latest. *)
Renewed(items, row) ==
  LET k == CHOOSE i \in DOMAIN items : items[i].id = row.id
  IN [i \in 1 .. Len(items) |-> IF i < k THEN items[i]
                                ELSE IF i < Len(items) THEN items[i + 1] ELSE row]

ItemIds(db) == {db.items[i].id : i \in DOMAIN db.items}

(* new_id: an identifier no row has and no request is about to use.        *)
FreshId ==
  LET used == ItemIds(working) \union ItemIds(durable)
                \union {held[t].written.id : t \in {u \in Threads : pc[u] = "record"}}
                \union {held[t].found.id : t \in {u \in Threads : pc[u] = "write" /\ held[u].found # None}}
  IN CHOOSE id \in 1 .. (Cardinality(used) + 1) : id \notin used

-----------------------------------------------------------------------------
(* A commit keeps what other requests have applied of their deltas so far. *)
CommitAll ==
  /\ Commit
  /\ parted' = {u \in Threads : pc[u] \in Applying}
  /\ UNCHANGED <<answered, torn, halved>>

(* save_pending_proposal, under a fresh identifier.                        *)
SavePending(t, r) ==
  /\ r.kind = "capture"
  /\ Allowed(t, r)
  /\ working.proposals[r.proposal] = None
  /\ Execute([working EXCEPT
       !.proposals[r.proposal] = [status |-> "pending", deltas |-> Parsed[r.proposal]]])
  /\ Goto(t, "commit")
  /\ req' = [req EXCEPT ![t] = r]
  /\ UNCHANGED <<todo, held, historyVars>>

(* _get_owned_proposal and _require_pending.  A proposal that is not there *)
(* (404) or no longer pending (409) changes nothing.                       *)
ReadProposal(t, r) ==
  LET proposal == working.proposals[r.proposal] IN
  /\ r.kind # "capture"
  /\ Allowed(t, r)
  /\ proposal # None
  /\ proposal.status = "pending"
  /\ Goto(t, "claim")
  /\ req' = [req EXCEPT ![t] = r]
  /\ todo' = [todo EXCEPT ![t] = IF r.kind = "correct" THEN r.deltas ELSE proposal.deltas]
  /\ UNCHANGED <<connectionVars, held, historyVars>>

StillPending(t) ==
  LET proposal == working.proposals[req[t].proposal] IN
  proposal # None /\ proposal.status = "pending"

(* Mutant: the UPDATE does not ask for status = 'pending'.                 *)
ClaimBlindly(t) ==
  LET p == req[t].proposal IN
  /\ pc[t] = "claim"
  /\ Execute([working EXCEPT !.proposals[p] =
       [status |-> IF req[t].kind = "reject" THEN "rejected" ELSE "confirmed",
        deltas |-> todo[t]]])
  /\ Goto(t, IF req[t].kind = "reject" \/ todo[t] = <<>> THEN "commit" ELSE "find")
  /\ UNCHANGED <<req, todo, held, historyVars>>

(* Mutant: the claim is committed before the deltas are applied.           *)
ClaimAlone(t) ==
  LET p == req[t].proposal IN
  /\ pc[t] = "claim"
  /\ StillPending(t)
  /\ working' = [working EXCEPT !.proposals[p] =
       [status |-> IF req[t].kind = "reject" THEN "rejected" ELSE "confirmed",
        deltas |-> todo[t]]]
  /\ durable' = working'
  /\ Goto(t, IF req[t].kind = "reject" \/ todo[t] = <<>> THEN "commit" ELSE "find")
  /\ UNCHANGED <<req, todo, held, historyVars>>

(* _update_proposal_locked(require_pending=True) found the row.            *)
Claim(t) ==
  LET p == req[t].proposal IN
  /\ pc[t] = "claim"
  /\ StillPending(t)
  /\ Execute([working EXCEPT !.proposals[p] =
       [status |-> IF req[t].kind = "reject" THEN "rejected" ELSE "confirmed",
        deltas |-> todo[t]]])
  /\ Goto(t, IF req[t].kind = "reject" \/ todo[t] = <<>> THEN "commit" ELSE "find")
  /\ UNCHANGED <<req, todo, held, historyVars>>

(* The block exits by an exception: everything since the last commit goes. *)
RollBack(t) ==
  /\ Rollback
  /\ Finish(t)
  /\ torn' = (torn \/ \E u \in Threads \ {t} : pc[u] \in Uncommitted)
  /\ parted' = parted \ {t}
  /\ halved' = (halved \/ t \in parted)
  /\ UNCHANGED answered

(* It did not: rowcount is 0, and "proposal_not_pending" is raised inside  *)
(* the transaction block.                                                  *)
ClaimRefused(t) ==
  /\ pc[t] = "claim"
  /\ ~StillPending(t)
  /\ RollBack(t)

(* _find_item_locked for the next delta; nothing to take from is a skip.   *)
FindForDelta(t) ==
  LET delta == Head(todo[t])
      row == FindItem(working, delta.name)
      skip == row = None /\ delta.operation # "upsert"
  IN /\ pc[t] = "find"
     /\ held' = [held EXCEPT ![t] = [found |-> row, written |-> None]]
     /\ todo' = [todo EXCEPT ![t] = IF skip THEN Tail(@) ELSE @]
     /\ Goto(t, IF ~skip THEN "write" ELSE IF Len(todo[t]) = 1 THEN "commit" ELSE "find")
     /\ UNCHANGED <<connectionVars, req, historyVars>>

(* The row that the next delta makes of the one found.                     *)
RowAfter(t) ==
  LET delta == Head(todo[t])
      row == held[t].found
      after == IF row = None THEN QuantityOfNew(delta) ELSE QuantityAfter(row.quantity, delta)
  IN [id |-> IF row = None THEN FreshId ELSE row.id,
      name |-> delta.name, quantity |-> after, status |-> StatusAfter(delta, after)]

InsertItem(t) ==
  /\ pc[t] = "write" /\ held[t].found = None
  /\ Execute([working EXCEPT !.items = Append(@, RowAfter(t))])
  /\ held' = [held EXCEPT ![t].written = RowAfter(t)]
  /\ Goto(t, "record")
  /\ UNCHANGED <<req, todo, historyVars>>

(* Mutant: the changed item is inserted as a row of its own.               *)
UpdateAsInsert(t) ==
  LET row == [RowAfter(t) EXCEPT !.id = FreshId] IN
  /\ pc[t] = "write" /\ held[t].found # None
  /\ Execute([working EXCEPT !.items = Append(@, row)])
  /\ held' = [held EXCEPT ![t].written = row]
  /\ Goto(t, "record")
  /\ UNCHANGED <<req, todo, historyVars>>

(* An UPDATE whose row is gone changes nothing, and is not noticed.        *)
UpdateItem(t) ==
  LET row == RowAfter(t) IN
  /\ pc[t] = "write" /\ held[t].found # None
  /\ Execute([working EXCEPT !.items =
       IF row.id \in ItemIds(working) THEN Renewed(@, row) ELSE @])
  /\ held' = [held EXCEPT ![t].written = row]
  /\ Goto(t, "record")
  /\ UNCHANGED <<req, todo, historyVars>>

(* Mutant: the entry records what the delta says, not what it did.         *)
RecordRequested(t) ==
  LET row == held[t].written
      found == held[t].found
  IN /\ pc[t] = "record"
     /\ row.id \in ItemIds(working)
     /\ Execute([working EXCEPT !.history = Append(@,
          [item |-> row.id, proposal |-> req[t].proposal,
           operation |-> Head(todo[t]).operation,
           before |-> IF found = None THEN Unknown ELSE found.quantity,
           after |-> Head(todo[t]).quantity])])
     /\ todo' = [todo EXCEPT ![t] = Tail(@)]
     /\ held' = [held EXCEPT ![t] = None]
     /\ Goto(t, IF Len(todo[t]) = 1 THEN "commit" ELSE "find")
     /\ UNCHANGED <<req, historyVars>>

(* INSERT of the history row, whose item must exist (a foreign key).       *)
RecordHistory(t) ==
  LET row == held[t].written
      found == held[t].found
  IN /\ pc[t] = "record"
     /\ row.id \in ItemIds(working)
     /\ Execute([working EXCEPT !.history = Append(@,
          [item |-> row.id, proposal |-> req[t].proposal,
           operation |-> Head(todo[t]).operation,
           before |-> IF found = None THEN Unknown ELSE found.quantity,
           after |-> row.quantity])])
     /\ todo' = [todo EXCEPT ![t] = Tail(@)]
     /\ held' = [held EXCEPT ![t] = None]
     /\ Goto(t, IF Len(todo[t]) = 1 THEN "commit" ELSE "find")
     /\ UNCHANGED <<req, historyVars>>

HistoryRefused(t) ==
  /\ pc[t] = "record"
  /\ held[t].written.id \notin ItemIds(working)
  /\ RollBack(t)

CommitDecision(t) ==
  /\ pc[t] = "commit"
  /\ CommitAll
  /\ Goto(t, IF req[t].kind = "capture" THEN "account" ELSE "notify")
  /\ UNCHANGED <<req, todo, held>>

(* A capture then writes its usage entry, its cost event and its trace, in *)
(* transactions of their own.  The rows are not kept here; each commit is  *)
(* one of whatever is open on the connection.                              *)
RecordCaptureTrace(t) ==
  /\ pc[t] = "account"
  /\ CommitAll
  /\ pc' \in {pc, [pc EXCEPT ![t] = "notify"]}
  /\ UNCHANGED <<req, todo, held>>

(* SyncStore.append_event: one row and its commit under the connection's   *)
(* lock, which no statement above waits for.                               *)
AppendEvent(t) ==
  /\ pc[t] = "notify"
  /\ Execute([working EXCEPT !.feed[<<req[t].kind, req[t].proposal>>] = @ + 1])
  /\ Goto(t, "announce")
  /\ UNCHANGED <<req, todo, held, historyVars>>

CommitEvent(t) ==
  /\ pc[t] = "announce"
  /\ CommitAll
  /\ Goto(t, "engage")
  /\ UNCHANGED <<req, todo, held>>

(* The engagement event, whose row is not kept here either: a rejection    *)
(* has none.  Then the answer.                                             *)
RecordEngagement(t) ==
  /\ pc[t] = "engage"
  /\ IF req[t].kind = "reject" THEN UNCHANGED <<connectionVars, parted>>
     ELSE Commit /\ parted' = {u \in Threads : pc[u] \in Applying}
  /\ answered' = answered \union {<<req[t].kind, req[t].proposal>>}
  /\ Finish(t)
  /\ UNCHANGED <<torn, halved>>

WriteFails(t) ==
  /\ MayFail
  /\ pc[t] \in {"claim", "account", "notify", "engage"} \union Uncommitted
  /\ pc[t] = "engage" => req[t].kind # "reject"
  /\ RollBack(t)

(* The process dies and is started again on the same file.                 *)
Restart ==
  /\ MayFail
  /\ Rollback
  /\ pc' = [t \in Threads |-> "idle"]
  /\ req' = [t \in Threads |-> None]
  /\ todo' = [t \in Threads |-> <<>>]
  /\ held' = [t \in Threads |-> None]
  /\ parted' = {}
  /\ halved' = (halved \/ parted # {})
  /\ UNCHANGED <<answered, torn>>

Serve(t) ==
  \/ \E r \in Requests : SavePending(t, r)
  \/ \E r \in Requests : ReadProposal(t, r)
  \/ Claim(t)
  \/ ClaimRefused(t)
  \/ FindForDelta(t)
  \/ InsertItem(t)
  \/ UpdateItem(t)
  \/ RecordHistory(t)
  \/ HistoryRefused(t)
  \/ CommitDecision(t)
  \/ RecordCaptureTrace(t)
  \/ AppendEvent(t)
  \/ CommitEvent(t)
  \/ RecordEngagement(t)
  \/ WriteFails(t)

Next == Restart \/ \E t \in Threads : Serve(t)

Spec == Init /\ [][Next]_vars

-----------------------------------------------------------------------------
Database ==
  [proposals : [Proposals -> Proposal \union {None}],
   items : Seq(Item), history : Seq(Entry), feed : [Kinds \X Proposals -> Nat]]

TypeOK ==
  /\ working \in Database /\ durable \in Database
  /\ pc \in [Threads -> Steps]
  /\ req \in [Threads -> Requests \union {None}]
  /\ todo \in [Threads -> Seq(Delta)]
  /\ held \in [Threads -> Found \union {None}]
  /\ answered \in SUBSET (Kinds \X Proposals)
  /\ torn \in BOOLEAN /\ parted \in SUBSET Threads /\ halved \in BOOLEAN

Quiescent == \A t \in Threads : pc[t] = "idle"
EntriesOfItem(db, id) == {k \in DOMAIN db.history : db.history[k].item = id}
EntriesOfProposal(db, p) == {k \in DOMAIN db.history : db.history[k].proposal = p}

(* The latest of these entries of the history left that quantity.          *)
Left(db, entries, quantity) ==
  \E k \in entries : /\ \A j \in entries : j <= k
                     /\ db.history[k].after = quantity

(* An entry starts from what the one before it of the same item left.      *)
StartsWhereLeft(db, k) ==
  LET entry == db.history[k]
      earlier == {j \in EntriesOfItem(db, entry.item) : j < k}
  IN IF earlier = {} THEN entry.before = Unknown ELSE Left(db, earlier, entry.before)

(* The history explains the stock: the entries of an item form a chain in  *)
(* which each starts from the quantity the one before it left, and the     *)
(* last leaves what the item holds.                                        *)
Chained(db) == \A k \in DOMAIN db.history : StartsWhereLeft(db, k)
Explained(db) ==
  \A i \in DOMAIN db.items :
    Left(db, EntriesOfItem(db, db.items[i].id), db.items[i].quantity)
HistoryChains == Quiescent => Chained(durable) /\ Explained(durable)

(* A proposal is never applied twice: the history has at most one entry    *)
(* for each of its deltas.                                                 *)
NeverAppliedTwice ==
  Quiescent =>
    \A p \in Proposals :
      EntriesOfProposal(durable, p) # {} =>
        Cardinality(EntriesOfProposal(durable, p)) <= Len(durable.proposals[p].deltas)

(* And it is applied only when it is confirmed.                            *)
AppliedIfConfirmed ==
  Quiescent =>
    \A p \in Proposals :
      EntriesOfProposal(durable, p) # {} => durable.proposals[p].status = "confirmed"

(* A decision that was answered with success is the one in the tables, and *)
(* the feed announces no other decision of that proposal.                  *)
Decided(kind) == CASE kind = "capture" -> ProposalStatus
                   [] kind = "reject" -> {"rejected"}
                   [] OTHER -> {"confirmed"}
AnswersHold ==
  /\ \A a \in answered :
       durable.proposals[a[2]] # None /\ durable.proposals[a[2]].status \in Decided(a[1])
  /\ \A p \in Proposals, k, l \in Kinds \ {"capture"} :
       durable.feed[<<k, p>>] > 0 /\ durable.feed[<<l, p>>] > 0
       => k = l /\ durable.feed[<<k, p>>] = 1

(* A name has one item row, or the stock of the hidden rows is lost.       *)
OneRowPerName ==
  \A i, j \in DOMAIN durable.items : durable.items[i].name = durable.items[j].name => i = j

(* What remains of them when requests race for one proposal: the claim     *)
(* lets one of them through, as long as no rollback of the loser takes the *)
(* winner's open transaction with it.  The history chains as long as no    *)
(* rollback undoes the second half of deltas that another's commit has cut *)
(* in two.                                                                 *)
AppliedOnceUnlessTorn == torn \/ (NeverAppliedTwice /\ AppliedIfConfirmed)
AnswersHoldUnlessTorn == torn \/ AnswersHold
OneRowUnlessTorn == torn \/ (OneRowPerName /\ (halved \/ HistoryChains))

(* The tables implement the ledger: a commit decides a proposal and        *)
(* applies all of its deltas, or neither.                                  *)
StoredStatus ==
  [p \in Proposals |->
     IF durable.proposals[p] = None THEN None ELSE durable.proposals[p].status]
StoredStock ==
  [n \in Names |->
     LET row == FindItem(durable, n) IN
     IF row = None THEN None ELSE [quantity |-> row.quantity, status |-> row.status]]
Ledger == INSTANCE StateLedger WITH status <- StoredStatus, stock <- StoredStock
ImplementsLedger == Ledger!Spec
=============================================================================
