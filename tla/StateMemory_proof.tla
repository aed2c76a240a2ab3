-------------------------- MODULE StateMemory_proof --------------------------
(* Theorems about StateMemory, for every set of threads, proposals and     *)
(* requests, every list of deltas and whatever fails. Three invariants     *)
(* hold whatever overlaps: of types (TypeInv), of the two states of the    *)
(* tables (ConnectionInv) and of decisions (DecisionInv). Those of items   *)
(* (ItemInv) and of the ledger (LedgerInv) need requests that keep apart,  *)
(* which ScopeInv carries along.                                           *)
EXTENDS StateMemory, FiniteSetTheorems, SequenceTheorems, WellFoundedInduction, TLAPS

Busy(t) == pc[t] # "idle"
Decisions == Kinds \ {"capture"}

(* What each step of a request has in hand.                                *)
ThreadOK(t) ==
  /\ Busy(t) => req[t] \in Requests
  /\ pc[t] \in {"claim"} \union Applying => req[t].kind \in Decisions
  /\ pc[t] \in Applying => req[t].kind # "reject" /\ todo[t] # <<>>
  /\ pc[t] = "account" => req[t].kind = "capture"
  /\ pc[t] \in {"write", "record"} => held[t] \in Found
  /\ pc[t] = "record" => held[t].written \in Item

TypeInv == TypeOK /\ \A t \in Threads : ThreadOK(t)

(* The tables only move on, and there is nothing uncommitted on the        *)
(* connection unless a thread is about to commit it.                       *)
Growing ==
  /\ \A p \in Proposals : durable.proposals[p] # None =>
       /\ working.proposals[p] # None
       /\ durable.proposals[p].status # "pending" => working.proposals[p] = durable.proposals[p]
  /\ \A a \in Kinds \X Proposals : durable.feed[a] <= working.feed[a]
Committed == (\A t \in Threads : pc[t] \notin Uncommitted) => working = durable
ConnectionInv == Growing /\ Committed

(* The decision of a proposal, its history and its events agree.           *)
Outcome(kind) == IF kind = "reject" THEN "rejected" ELSE "confirmed"
Has(db, p, outcome) == db.proposals[p] # None /\ db.proposals[p].status = outcome

AppliedSound(db) ==
  \A p \in Proposals : EntriesOfProposal(db, p) # {} =>
    /\ Has(db, p, "confirmed")
    /\ Cardinality(EntriesOfProposal(db, p)) <= Len(db.proposals[p].deltas)
FeedSound(db) ==
  \A p \in Proposals, k \in Decisions : db.feed[<<k, p>>] > 0 =>
    /\ Has(db, p, Outcome(k))
    /\ db.feed[<<k, p>>] = 1
    /\ \A l \in Decisions : db.feed[<<l, p>>] > 0 => l = k
TablesSound(db) == AppliedSound(db) /\ FeedSound(db)

(* One thread decides a proposal, and has announced nothing yet.           *)
Deciding(t) == pc[t] \in InTransaction \union {"notify"} /\ req[t].kind \in Decisions
DecisionMade(t) ==
  Deciding(t) =>
    /\ Has(working, req[t].proposal, Outcome(req[t].kind))
    /\ \A k \in Decisions : working.feed[<<k, req[t].proposal>>] = 0
RoomLeft(t) ==
  pc[t] \in Applying =>
    Cardinality(EntriesOfProposal(working, req[t].proposal)) + Len(todo[t])
      <= Len(working.proposals[req[t].proposal].deltas)
OneDecides ==
  \A t, u \in Threads :
    Deciding(t) /\ Deciding(u) /\ req[t].proposal = req[u].proposal => t = u
DecidingSound == (\A t \in Threads : DecisionMade(t) /\ RoomLeft(t)) /\ OneDecides

(* What a thread has committed stays, and so does what was answered.       *)
Holds(db, kind, p) == db.proposals[p] # None /\ db.proposals[p].status \in Decided(kind)
Kept(t) ==
  /\ pc[t] = "commit" => Holds(working, req[t].kind, req[t].proposal)
  /\ pc[t] \in {"account", "notify", "announce", "engage"} =>
       Holds(durable, req[t].kind, req[t].proposal)
AnswersSound ==
  /\ \A t \in Threads : Kept(t)
  /\ \A a \in answered : Holds(durable, a[1], a[2])

Sound == TablesSound(working) /\ TablesSound(durable) /\ DecidingSound /\ AnswersSound
DecisionInv == torn \/ Sound

-----------------------------------------------------------------------------
(* Requests that overlap are about one proposal or about different items.  *)
DeltasOf(r) == IF r.kind = "correct" THEN r.deltas ELSE Parsed[r.proposal]
NamesIn(deltas) == {deltas[i].name : i \in DOMAIN deltas}
ItemsOf(r) == IF r.kind \in {"capture", "reject"} THEN {} ELSE NamesIn(DeltasOf(r))
ItemsApart ==
  \A r, s \in Requests : <<r, s>> \in Overlaps =>
    r.proposal = s.proposal \/ ItemsOf(r) \intersect ItemsOf(s) = {}
Serial == Overlaps = {}

(* A thread whose deltas a commit has cut in two is still in its           *)
(* transaction: its own commit makes them whole, a rollback halves them.   *)
PartedInv == \A t \in parted : pc[t] \in InTransaction

OverlapInv ==
  \A t, u \in Threads : t # u /\ Busy(t) /\ Busy(u) =>
    <<req[t], req[u]>> \in Overlaps \/ <<req[u], req[t]>> \in Overlaps

(* A pending proposal holds what was captured, and a thread applies the    *)
(* deltas of its request.                                                  *)
Captured(db) == \A p \in Proposals : Has(db, p, "pending") => db.proposals[p].deltas = Parsed[p]
TodoInv ==
  \A t \in Threads : pc[t] \in {"claim"} \union Applying /\ req[t].kind # "reject" =>
    NamesIn(todo[t]) \subseteq ItemsOf(req[t])
ScopeInv == OverlapInv /\ Captured(working) /\ Captured(durable) /\ TodoInv

CurrentDelta(t) == Head(todo[t])
RowIn(db, row) == \E i \in DOMAIN db.items : db.items[i] = row
Distinct(db) ==
  \A i, j \in DOMAIN db.items :
    db.items[i].id = db.items[j].id \/ db.items[i].name = db.items[j].name => i = j
ItemsSound(db) ==
  /\ Distinct(db)
  /\ \A k \in DOMAIN db.history : db.history[k].item \in ItemIds(db)
  /\ halved \/ Chained(db)

(* The row a thread has found is the row of that name until it writes it,  *)
(* and the history is one entry behind until it records it.                *)
FoundSound(t) ==
  pc[t] = "write" =>
    IF held[t].found = None
    THEN RowsNamed(working, CurrentDelta(t).name) = {} /\ CurrentDelta(t).operation = "upsert"
    ELSE RowIn(working, held[t].found) /\ held[t].found.name = CurrentDelta(t).name
BehindByOne(t) ==
  LET entries == EntriesOfItem(working, held[t].written.id) IN
  IF held[t].found = None THEN entries = {}
  ELSE Left(working, entries, held[t].found.quantity)
WrittenSound(t) ==
  pc[t] = "record" =>
    /\ RowIn(working, held[t].written) /\ held[t].written.name = CurrentDelta(t).name
    /\ halved \/ BehindByOne(t)
BeingRecorded(id) == \E t \in Threads : pc[t] = "record" /\ held[t].written.id = id
HistorySound ==
  halved \/ \A i \in DOMAIN working.items :
    \/ BeingRecorded(working.items[i].id)
    \/ Left(working, EntriesOfItem(working, working.items[i].id), working.items[i].quantity)
ItemsGood ==
  /\ ItemsSound(working) /\ ItemsSound(durable)
  /\ \A t \in Threads : FoundSound(t) /\ WrittenSound(t)
  /\ HistorySound
  /\ parted = {} => halved \/ Explained(durable)
ItemInv == torn \/ ItemsGood

-----------------------------------------------------------------------------
(* Where requests do not overlap.                                          *)
StockOf(db) ==
  [n \in Names |->
     LET row == FindItem(db, n) IN
     IF row = None THEN None ELSE [quantity |-> row.quantity, status |-> row.status]]

(* A request in its transaction has decided its proposal on the connection *)
(* and nothing else, and has applied a prefix of its deltas.               *)
Decision(t) ==
  LET p == req[t].proposal IN
  /\ IF req[t].kind = "capture" THEN durable.proposals[p] = None ELSE Has(durable, p, "pending")
  /\ Has(working, p, IF req[t].kind = "capture" THEN "pending" ELSE Outcome(req[t].kind))
  /\ \A q \in Proposals \ {p} : working.proposals[q] = durable.proposals[q]

StageIs(t, k) ==
  StockOf(working) = Ledger!Stages(StockOf(durable), DeltasOf(req[t]))[k]
Remaining(t, k) ==
  /\ Len(todo[t]) = Len(DeltasOf(req[t])) - k
  /\ \A i \in 1 .. Len(todo[t]) : todo[t][i] = DeltasOf(req[t])[k + i]
Progress(t) ==
  /\ pc[t] \in {"find", "write"} =>
       \E k \in 0 .. Len(DeltasOf(req[t])) : Remaining(t, k) /\ StageIs(t, k)
  /\ pc[t] = "record" =>
       \E k \in 0 .. Len(DeltasOf(req[t])) : Remaining(t, k) /\ StageIs(t, k + 1)
  /\ pc[t] = "commit" =>
       IF req[t].kind \in {"confirm", "correct"} THEN StageIs(t, Len(DeltasOf(req[t])))
       ELSE working.items = durable.items
LedgerInv ==
  /\ \A t \in Threads :
       /\ pc[t] = "claim" => todo[t] = DeltasOf(req[t])
       /\ pc[t] \in InTransaction => Decision(t) /\ Progress(t)
  /\ (\A t \in Threads : pc[t] \notin InTransaction) =>
       working.proposals = durable.proposals /\ working.items = durable.items
-----------------------------------------------------------------------------
(* The least and the largest of some numbers, by the well-founded order of *)
(* the natural numbers.                                                    *)
LEMMA LeastNatural ==
  ASSUME NEW S \in SUBSET Nat, S # {}
  PROVE  \E x \in S : \A y \in S : x <= y
<1>1. IsWellFoundedOn(OpToRel(<, Nat), Nat)
  BY NatLessThanWellFounded
<1>2. PICK x \in S : \A y \in S : <<y, x>> \notin OpToRel(<, Nat)
  BY <1>1, WFMin
<1>3. ASSUME NEW y \in S PROVE x <= y
  <2>1. ~(y < x)
    BY <1>2 DEF OpToRel
  <2>2. QED
    BY <2>1
<1>4. QED
  BY <1>3

LEMMA LargestNatural ==
  ASSUME NEW n \in Nat, NEW S \in SUBSET (1 .. n), S # {}
  PROVE  \E x \in S : \A y \in S : y <= x
<1> DEFINE bounds == {m \in Nat : \A y \in S : y <= m}
<1>1. bounds \in SUBSET Nat /\ bounds # {}
  <2>1. n \in bounds
    OBVIOUS
  <2>2. QED
    BY <2>1
<1>2. PICK x \in bounds : \A m \in bounds : x <= m
  BY <1>1, LeastNatural
<1>3. x \in S
  <2> SUFFICES ASSUME x \notin S PROVE FALSE
    OBVIOUS
  <2>1. PICK y \in S : TRUE
    OBVIOUS
  <2>2. y <= x /\ y >= 1 /\ y # x
    BY <1>2
  <2>3. x - 1 \in Nat /\ \A z \in S : z <= x - 1
    BY <1>2, <2>2
  <2>4. x - 1 \in bounds
    BY <2>3
  <2>5. QED
    BY <1>2, <2>4
<1>4. QED
  BY <1>2, <1>3

LEMMA ImageFinite ==
  ASSUME NEW S, IsFiniteSet(S), NEW T, NEW f \in [S -> T]
  PROVE  IsFiniteSet({f[x] : x \in S})
<1>1. f \in Surjection(S, {f[x] : x \in S})
  BY DEF Surjection
<1>2. QED
  BY <1>1, FS_Surjection

(* There is an unused number up to one more than there are used ones.      *)
LEMMA UnusedNumber ==
  ASSUME NEW used, IsFiniteSet(used)
  PROVE  \E id \in 1 .. (Cardinality(used) + 1) : id \notin used
<1> SUFFICES ASSUME \A id \in 1 .. (Cardinality(used) + 1) : id \in used
             PROVE  FALSE
  OBVIOUS
<1>1. Cardinality(used) \in Nat
  BY FS_CardinalityType
<1>2. 1 .. (Cardinality(used) + 1) \in SUBSET used
  OBVIOUS
<1>3. Cardinality(1 .. (Cardinality(used) + 1)) <= Cardinality(used)
  BY <1>2, FS_Subset
<1>4. Cardinality(1 .. (Cardinality(used) + 1)) = Cardinality(used) + 1
  BY <1>1, FS_Interval
<1>5. QED
  BY <1>1, <1>3, <1>4

-----------------------------------------------------------------------------
LEMMA RequestFields ==
  ASSUME NEW r \in Requests
  PROVE  /\ r.kind \in Kinds /\ r.proposal \in Proposals /\ r.deltas \in Seq(Delta)
         /\ r.kind = "correct" => r.deltas \in Corrections
         /\ r # None
<1>1. <<>> \in Seq(Delta)
  OBVIOUS
<1>2. QED
  BY <1>1, MemoryAssumption, NoneAssumption DEF Requests, Kinds

(* The arithmetic of a delta stays within the quantities.                  *)
LEMMA AfterType ==
  ASSUME NEW delta \in Delta
  PROVE  /\ QuantityOfNew(delta) \in Quantities
         /\ \A quantity \in Quantities : QuantityAfter(quantity, delta) \in Quantities
         /\ \A after : StatusAfter(delta, after) \in ItemStatus
<1>1. /\ delta.operation \in Operations /\ delta.quantity \in Quantities
      /\ MaxQuantity \in Nat /\ 0 \in Quantities
  BY QuantityAssumption DEF Delta, Quantities
<1>2. ASSUME NEW quantity \in Quantities PROVE QuantityAfter(quantity, delta) \in Quantities
  <2>1. OrElse(quantity, 0) \in 0 .. MaxQuantity
    BY QuantityAssumption DEF OrElse, Quantities
  <2>2. \A default \in 0 .. MaxQuantity : OrElse(delta.quantity, default) \in 0 .. MaxQuantity
    BY <1>1, QuantityAssumption DEF OrElse, Quantities
  <2>3. \A stock, taken \in 0 .. MaxQuantity : Take(stock, taken) \in 0 .. MaxQuantity
    BY <1>1 DEF Take
  <2>4. Take(OrElse(quantity, 0), OrElse(delta.quantity, OrElse(quantity, 0))) \in Quantities
    BY <2>1, <2>2, <2>3 DEF Quantities
  <2>5. QED
    BY <1>1, <2>4 DEF QuantityAfter, Operations
<1>3. QED
  BY <1>1, <1>2 DEF QuantityOfNew, StatusAfter, ItemStatus

LEMMA RowFields ==
  ASSUME NEW row \in Item
  PROVE  /\ row.id \in Nat /\ row.name \in Names /\ row.quantity \in Quantities
         /\ row.status \in ItemStatus /\ row # None
BY NoneAssumption DEF Item

(* The tables of a database.                                               *)
LEMMA TableTypes ==
  ASSUME NEW db \in Database
  PROVE  /\ db.items \in Seq(Item) /\ Len(db.items) \in Nat
         /\ DOMAIN db.items = 1 .. Len(db.items)
         /\ \A i \in DOMAIN db.items : db.items[i] \in Item
         /\ db.history \in Seq(Entry) /\ Len(db.history) \in Nat
         /\ DOMAIN db.history = 1 .. Len(db.history)
         /\ \A k \in DOMAIN db.history : db.history[k] \in Entry
         /\ \A p \in Proposals : db.proposals[p] \in Proposal \union {None}
         /\ \A a \in Kinds \X Proposals : db.feed[a] \in Nat
BY DEF Database

(* The row that is found under a name is one of that name.                 *)
LEMMA FindItemRow ==
  ASSUME NEW db \in Database, NEW name
  PROVE  \/ RowsNamed(db, name) = {} /\ FindItem(db, name) = None
         \/ \E i \in RowsNamed(db, name) :
              /\ FindItem(db, name) = db.items[i]
              /\ \A j \in RowsNamed(db, name) : j <= i
<1>1. CASE RowsNamed(db, name) = {}
  BY <1>1 DEF FindItem
<1>2. CASE RowsNamed(db, name) # {}
  <2>1. RowsNamed(db, name) \in SUBSET (1 .. Len(db.items)) /\ Len(db.items) \in Nat
    BY TableTypes DEF RowsNamed
  <2>2. \E i \in RowsNamed(db, name) : \A j \in RowsNamed(db, name) : j <= i
    BY <1>2, <2>1, LargestNatural
  <2>3. QED
    BY <1>2, <2>2 DEF FindItem
<1>3. QED
  BY <1>1, <1>2

LEMMA FindItemType ==
  ASSUME NEW db \in Database, NEW name
  PROVE  /\ FindItem(db, name) \in Item \union {None}
         /\ FindItem(db, name) # None => FindItem(db, name).name = name
BY FindItemRow, TableTypes DEF RowsNamed

(* Changing a row keeps the others, in their order.                        *)
LEMMA RenewedRows ==
  ASSUME NEW items \in Seq(Item), NEW row \in Item, \E i \in DOMAIN items : items[i].id = row.id
  PROVE  \E k \in DOMAIN items :
           /\ items[k].id = row.id
           /\ Renewed(items, row) \in Seq(Item)
           /\ Len(Renewed(items, row)) = Len(items)
           /\ DOMAIN Renewed(items, row) = DOMAIN items
           /\ \A j \in DOMAIN items : Renewed(items, row)[j] =
                IF j < k THEN items[j] ELSE IF j < Len(items) THEN items[j + 1] ELSE row
<1> DEFINE k == CHOOSE i \in DOMAIN items : items[i].id = row.id
           new == [j \in 1 .. Len(items) |-> IF j < k THEN items[j]
                                             ELSE IF j < Len(items) THEN items[j + 1] ELSE row]
<1>1. k \in DOMAIN items /\ items[k].id = row.id
  OBVIOUS
<1>2. Renewed(items, row) = new
  BY DEF Renewed
<1>3. /\ Len(items) \in Nat /\ DOMAIN items = 1 .. Len(items)
      /\ \A j \in DOMAIN items : items[j] \in Item
  OBVIOUS
<1>4. ASSUME NEW j \in 1 .. Len(items)
      PROVE  new[j] \in Item
  <2>1. j < Len(items) => j + 1 \in 1 .. Len(items)
    BY <1>3
  <2>2. QED
    BY <1>3, <2>1
<1>5. new \in [1 .. Len(items) -> Item]
  BY <1>4
<1>6. new \in Seq(Item) /\ Len(new) = Len(items)
  <2> HIDE DEF new
  <2>1. QED
    BY <1>3, <1>5, IsASeq
<1>7. DOMAIN new = DOMAIN items
  BY <1>3
<1>8. \A j \in DOMAIN items : new[j] =
        IF j < k THEN items[j] ELSE IF j < Len(items) THEN items[j + 1] ELSE row
  BY <1>3
<1> HIDE DEF new, k
<1>9. QED
  BY <1>1, <1>2, <1>6, <1>7, <1>8

-----------------------------------------------------------------------------
LEMMA IdsFinite ==
  ASSUME NEW db \in Database
  PROVE  IsFiniteSet(ItemIds(db))
<1> DEFINE ids == [i \in 1 .. Len(db.items) |-> db.items[i].id]
<1>1. ItemIds(db) = {ids[i] : i \in 1 .. Len(db.items)}
  BY TableTypes DEF ItemIds
<1>2. ids \in [1 .. Len(db.items) -> Nat]
  BY TableTypes, RowFields
<1>3. IsFiniteSet(1 .. Len(db.items))
  BY TableTypes, FS_Interval
<1> HIDE DEF ids
<1>4. IsFiniteSet({ids[i] : i \in 1 .. Len(db.items)})
  BY <1>2, <1>3, ImageFinite
<1>5. QED
  BY <1>1, <1>4

(* A new identifier is none that is in use.                                *)
LEMMA FreshIdUnused ==
  ASSUME TypeInv
  PROVE  /\ FreshId \in Nat
         /\ FreshId \notin ItemIds(working) /\ FreshId \notin ItemIds(durable)
         /\ \A t \in Threads : pc[t] = "record" => held[t].written.id # FreshId
         /\ \A t \in Threads : pc[t] = "write" /\ held[t].found # None => held[t].found.id # FreshId
<1> DEFINE recording == {t \in Threads : pc[t] = "record"}
           writing == {t \in Threads : pc[t] = "write" /\ held[t].found # None}
           recorded == [t \in recording |-> held[t].written.id]
           found == [t \in writing |-> held[t].found.id]
           used == ItemIds(working) \union ItemIds(durable)
                     \union {recorded[t] : t \in recording} \union {found[t] : t \in writing}
<1>1. working \in Database /\ durable \in Database
  BY DEF TypeInv, TypeOK
<1>2. IsFiniteSet(recording) /\ IsFiniteSet(writing)
  <2>1. recording \in SUBSET Threads /\ writing \in SUBSET Threads
    OBVIOUS
  <2>2. QED
    BY <2>1, MemoryAssumption, FS_Subset
<1>3. IsFiniteSet({recorded[t] : t \in recording})
  <2>1. recorded \in [recording -> Nat]
    BY RowFields DEF TypeInv, ThreadOK
  <2> HIDE DEF recorded, recording
  <2>2. QED
    BY <1>2, <2>1, ImageFinite
<1>4. IsFiniteSet({found[t] : t \in writing})
  <2>1. ASSUME NEW t \in writing PROVE held[t].found.id \in Nat
    <3>1. held[t] \in Found
      BY DEF TypeInv, ThreadOK
    <3>2. held[t].found \in Item
      BY <3>1 DEF Found
    <3>3. QED
      BY <3>2, RowFields
  <2>2. found \in [writing -> Nat]
    BY <2>1
  <2> HIDE DEF found, writing
  <2>3. QED
    BY <1>2, <2>2, ImageFinite
<1>5. IsFiniteSet(used)
  <2>1. IsFiniteSet(ItemIds(working)) /\ IsFiniteSet(ItemIds(durable))
    BY <1>1, IdsFinite
  <2>2. IsFiniteSet(ItemIds(working) \union ItemIds(durable))
    BY <2>1, FS_Union
  <2>3. IsFiniteSet(ItemIds(working) \union ItemIds(durable) \union {recorded[t] : t \in recording})
    BY <1>3, <2>2, FS_Union
  <2> HIDE DEF recorded, found, recording, writing
  <2>4. QED
    BY <1>4, <2>3, FS_Union
<1>6. FreshId = CHOOSE id \in 1 .. (Cardinality(used) + 1) : id \notin used
  <2>1. {held[t].written.id : t \in recording} = {recorded[t] : t \in recording}
    OBVIOUS
  <2>2. {held[t].found.id : t \in writing} = {found[t] : t \in writing}
    OBVIOUS
  <2>3. QED
    BY <2>1, <2>2 DEF FreshId
<1>7. FreshId \in 1 .. (Cardinality(used) + 1) /\ FreshId \notin used
  <2> HIDE DEF used
  <2>1. QED
    BY <1>5, <1>6, UnusedNumber
<1>8. FreshId \in Nat
  <2> HIDE DEF used
  <2>1. QED
    BY <1>7
<1>9. ASSUME NEW t \in Threads, pc[t] = "record" PROVE held[t].written.id # FreshId
  <2>1. t \in recording /\ recorded[t] = held[t].written.id
    BY <1>9
  <2>2. QED
    BY <1>7, <2>1
<1>10. ASSUME NEW t \in Threads, pc[t] = "write", held[t].found # None
       PROVE  held[t].found.id # FreshId
  <2>1. t \in writing /\ found[t] = held[t].found.id
    BY <1>10
  <2>2. QED
    BY <1>7, <2>1
<1>11. QED
  BY <1>7, <1>8, <1>9, <1>10

LEMMA DatabaseOfEmpty == EmptyDatabase \in Database
BY DEF EmptyDatabase, Database

LEMMA InitType == Init => TypeInv
<1> SUFFICES ASSUME Init PROVE TypeInv
  OBVIOUS
<1>1. TypeOK
  <2>1. \A t \in Threads : todo[t] = <<>> /\ <<>> \in Seq(Delta)
    BY DEF Init
  <2>2. todo \in [Threads -> Seq(Delta)]
    BY <2>1 DEF Init
  <2>3. QED
    BY <2>2, DatabaseOfEmpty DEF Init, TypeOK, Steps
<1>2. \A t \in Threads : ThreadOK(t)
  BY DEF Init, ThreadOK, Busy, Applying
<1>3. QED
  BY <1>1, <1>2 DEF TypeInv

(* The deltas a thread has still to apply.                                 *)
LEMMA TodoFields ==
  ASSUME NEW deltas \in Seq(Delta), deltas # <<>>
  PROVE  /\ Len(deltas) \in Nat /\ Len(deltas) >= 1
         /\ Head(deltas) \in Delta /\ Head(deltas) = deltas[1]
         /\ Head(deltas).name \in Names /\ Head(deltas).operation \in Operations
         /\ Head(deltas).quantity \in Quantities
         /\ Tail(deltas) \in Seq(Delta) /\ Len(Tail(deltas)) = Len(deltas) - 1
         /\ \A i \in 1 .. (Len(deltas) - 1) : Tail(deltas)[i] = deltas[i + 1]
         /\ Tail(deltas) = <<>> <=> Len(deltas) = 1
<1>1. /\ Len(deltas) \in Nat /\ Len(deltas) >= 1
      /\ Head(deltas) \in Delta /\ Head(deltas) = deltas[1]
      /\ Tail(deltas) \in Seq(Delta) /\ Len(Tail(deltas)) = Len(deltas) - 1
      /\ \A i \in 1 .. (Len(deltas) - 1) : Tail(deltas)[i] = deltas[i + 1]
  BY HeadTailProperties
<1>2. Tail(deltas) = <<>> <=> Len(Tail(deltas)) = 0
  BY <1>1, EmptySeq
<1>3. QED
  BY <1>1, <1>2 DEF Delta

(* A rollback by one thread, and the death of the process.                 *)
LEMMA RollBackType ==
  ASSUME TypeInv, NEW t \in Threads, RollBack(t)
  PROVE  TypeInv'
<1> USE DEF RollBack, Rollback, Finish, Goto, Release
<1>1. TypeOK'
  BY DEF TypeInv, TypeOK, Steps
<1>2. ASSUME NEW u \in Threads PROVE ThreadOK(u)'
  <2>1. ThreadOK(u)
    BY DEF TypeInv
  <2>2. CASE u = t
    BY <2>2 DEF TypeInv, TypeOK, ThreadOK, Busy, Applying
  <2>3. CASE u # t
    BY <2>1, <2>3 DEF TypeInv, TypeOK, ThreadOK, Busy
  <2>4. QED
    BY <2>2, <2>3
<1>3. QED
  BY <1>1, <1>2 DEF TypeInv

LEMMA RowAfterType ==
  ASSUME TypeInv, NEW t \in Threads, pc[t] = "write"
  PROVE  /\ RowAfter(t) \in Item
         /\ RowAfter(t).name = CurrentDelta(t).name
         /\ RowAfter(t).id = IF held[t].found = None THEN FreshId ELSE held[t].found.id
<1>1. ThreadOK(t) /\ todo[t] \in Seq(Delta)
  BY DEF TypeInv, TypeOK
<1>2. todo[t] # <<>> /\ held[t] \in Found
  BY <1>1 DEF ThreadOK, Applying
<1>3. Head(todo[t]) \in Delta /\ Head(todo[t]).name \in Names
  BY <1>1, <1>2, TodoFields
<1>4. held[t].found # None => held[t].found \in Item
  BY <1>2 DEF Found
<1>5. FreshId \in Nat
  BY FreshIdUnused
<1>6. CASE held[t].found = None
  <2>1. QuantityOfNew(Head(todo[t])) \in Quantities
    BY <1>3, AfterType
  <2>2. \A after : StatusAfter(Head(todo[t]), after) \in ItemStatus
    BY <1>3, AfterType
  <2>3. QED
    BY <1>3, <1>5, <1>6, <2>1, <2>2 DEF RowAfter, Item, CurrentDelta
<1>7. CASE held[t].found # None
  <2>1. held[t].found.id \in Nat /\ held[t].found.quantity \in Quantities
    BY <1>4, <1>7, RowFields
  <2>2. QED
    BY <1>3, <1>7, <2>1, AfterType DEF RowAfter, Item, CurrentDelta
<1>8. QED
  BY <1>6, <1>7

(* A step of t leaves the requests of the other threads alone.             *)
OthersSame(t) ==
  \A u \in Threads \ {t} :
    pc'[u] = pc[u] /\ req'[u] = req[u] /\ todo'[u] = todo[u] /\ held'[u] = held[u]

LEMMA TypeStep ==
  ASSUME TypeInv, NEW t \in Threads, OthersSame(t), TypeOK', ThreadOK(t)'
  PROVE  TypeInv'
<1>1. ASSUME NEW u \in Threads PROVE ThreadOK(u)'
  <2>1. CASE u # t
    BY <2>1 DEF TypeInv, ThreadOK, Busy, OthersSame
  <2>2. QED
    BY <2>1
<1>2. QED
  BY <1>1 DEF TypeInv

LEMMA DatabaseFields ==
  ASSUME NEW db \in Database
  PROVE  /\ \A p \in Proposals, x \in Proposal : [db EXCEPT !.proposals[p] = x] \in Database
         /\ \A x \in Seq(Item) : [db EXCEPT !.items = x] \in Database
         /\ \A x \in Seq(Entry) : [db EXCEPT !.history = x] \in Database
         /\ \A a \in Kinds \X Proposals : [db EXCEPT !.feed[a] = @ + 1] \in Database
<1>1. \A p \in Proposals, x \in Proposal : [db EXCEPT !.proposals[p] = x] \in Database
  BY DEF Database
<1>2. \A x \in Seq(Item) : [db EXCEPT !.items = x] \in Database
  BY DEF Database
<1>3. \A x \in Seq(Entry) : [db EXCEPT !.history = x] \in Database
  BY DEF Database
<1>4. ASSUME NEW a \in Kinds \X Proposals PROVE [db EXCEPT !.feed[a] = @ + 1] \in Database
  <2>1. [db.feed EXCEPT ![a] = @ + 1] \in [Kinds \X Proposals -> Nat]
    BY DEF Database
  <2>2. [db EXCEPT !.feed[a] = @ + 1] = [db EXCEPT !.feed = [db.feed EXCEPT ![a] = @ + 1]]
    BY DEF Database
  <2>3. QED
    BY <2>1, <2>2 DEF Database
<1>5. QED
  BY <1>1, <1>2, <1>3, <1>4

LEMMA SavePendingType ==
  ASSUME TypeInv, NEW t \in Threads, NEW r \in Requests, SavePending(t, r)
  PROVE  TypeInv'
<1> USE DEF SavePending, Execute, Goto
<1>1. r.proposal \in Proposals /\ r.kind \in Kinds
  BY RequestFields
<1>2. [status |-> "pending", deltas |-> Parsed[r.proposal]] \in Proposal
  BY <1>1, MemoryAssumption DEF Proposal, ProposalStatus
<1>3. working' \in Database
  BY <1>1, <1>2, DatabaseFields DEF TypeInv, TypeOK
<1>4. TypeOK'
  BY <1>3 DEF TypeInv, TypeOK, Steps, Uncommitted, InTransaction, Applying, historyVars
<1>5. ThreadOK(t)'
  BY DEF TypeInv, TypeOK, ThreadOK, Busy, Applying
<1>6. OthersSame(t)
  BY DEF TypeInv, TypeOK, OthersSame
<1>7. QED
  BY <1>4, <1>5, <1>6, TypeStep

LEMMA ReadProposalType ==
  ASSUME TypeInv, NEW t \in Threads, NEW r \in Requests, ReadProposal(t, r)
  PROVE  TypeInv'
<1> USE DEF ReadProposal, Goto
<1>1. r.proposal \in Proposals /\ r.kind \in Kinds /\ r.deltas \in Seq(Delta)
  BY RequestFields
<1>2. working.proposals[r.proposal].deltas \in Seq(Delta)
  BY <1>1, TableTypes DEF TypeInv, TypeOK, Proposal
<1>3. TypeOK'
  BY <1>1, <1>2 DEF TypeInv, TypeOK, Steps, connectionVars, historyVars
<1>4. ThreadOK(t)'
  BY <1>1 DEF TypeInv, TypeOK, ThreadOK, Busy, Applying, Decisions
<1>5. OthersSame(t)
  BY DEF TypeInv, TypeOK, OthersSame
<1>6. QED
  BY <1>3, <1>4, <1>5, TypeStep

LEMMA ClaimType ==
  ASSUME TypeInv, NEW t \in Threads, Claim(t)
  PROVE  TypeInv'
<1> USE DEF Claim, Execute, Goto
<1>1. ThreadOK(t) /\ req[t] \in Requests /\ todo[t] \in Seq(Delta)
  BY DEF TypeInv, TypeOK, ThreadOK, Busy
<1>2. req[t].proposal \in Proposals
  BY <1>1, RequestFields
<1>3. [status |-> IF req[t].kind = "reject" THEN "rejected" ELSE "confirmed", deltas |-> todo[t]]
        \in Proposal
  BY <1>1 DEF Proposal, ProposalStatus
<1>4. working' \in Database
  BY <1>2, <1>3, DatabaseFields DEF TypeInv, TypeOK
<1>5. TypeOK'
  BY <1>4 DEF TypeInv, TypeOK, Steps, Uncommitted, InTransaction, Applying, historyVars
<1>6. ThreadOK(t)'
  BY <1>1 DEF TypeInv, TypeOK, ThreadOK, Busy, Applying
<1>7. OthersSame(t)
  BY DEF TypeInv, TypeOK, OthersSame
<1>8. QED
  BY <1>5, <1>6, <1>7, TypeStep

LEMMA FindForDeltaType ==
  ASSUME TypeInv, NEW t \in Threads, FindForDelta(t)
  PROVE  TypeInv'
<1> USE DEF FindForDelta, Goto
<1> DEFINE row == FindItem(working, Head(todo[t]).name)
<1>1. /\ ThreadOK(t) /\ todo[t] \in Seq(Delta) /\ todo[t] # <<>>
      /\ Tail(todo[t]) \in Seq(Delta) /\ Tail(todo[t]) = <<>> <=> Len(todo[t]) = 1
  BY TodoFields DEF TypeInv, TypeOK, ThreadOK, Applying
<1>2. [found |-> row, written |-> None] \in Found
  BY FindItemType DEF Found, TypeInv, TypeOK
<1> HIDE DEF row
<1>3. TypeOK'
  BY <1>1, <1>2 DEF row, TypeInv, TypeOK, Steps, Uncommitted, InTransaction, Applying, connectionVars, historyVars
<1>4. ThreadOK(t)'
  BY <1>1, <1>2 DEF row, TypeInv, TypeOK, ThreadOK, Busy, Applying
<1>5. OthersSame(t)
  BY DEF TypeInv, TypeOK, OthersSame
<1>6. QED
  BY <1>3, <1>4, <1>5, TypeStep

(* The two ways of writing the row of a delta.                             *)
LEMMA WriteType ==
  ASSUME TypeInv, NEW t \in Threads, InsertItem(t) \/ UpdateItem(t)
  PROVE  TypeInv'
<1> USE DEF InsertItem, UpdateItem, Execute, Goto
<1>1. /\ ThreadOK(t) /\ held[t] \in Found /\ pc[t] = "write"
      /\ working \in Database /\ working.items \in Seq(Item)
  BY TableTypes DEF TypeInv, TypeOK, ThreadOK
<1>2. RowAfter(t) \in Item
  BY <1>1, RowAfterType
<1>3. working' \in Database
  <2>1. CASE InsertItem(t)
    BY <1>1, <1>2, <2>1, AppendProperties, DatabaseFields
  <2>2. CASE UpdateItem(t)
    <3>1. RowAfter(t).id \in ItemIds(working) => Renewed(working.items, RowAfter(t)) \in Seq(Item)
      BY <1>1, <1>2, RenewedRows DEF ItemIds
    <3>2. QED
      BY <1>1, <2>2, <3>1, DatabaseFields
  <2>3. QED
    BY <2>1, <2>2
<1>4. held'[t] \in Found /\ held'[t].written \in Item
  <2>1. held' = [held EXCEPT ![t] = [held[t] EXCEPT !.written = RowAfter(t)]]
    OBVIOUS
  <2>2. held'[t] = [held[t] EXCEPT !.written = RowAfter(t)]
    BY <2>1 DEF TypeInv, TypeOK
  <2>3. QED
    BY <1>1, <1>2, <2>2 DEF Found
<1>5. TypeOK'
  BY <1>3, <1>4 DEF TypeInv, TypeOK, Steps, Uncommitted, InTransaction, Applying, historyVars
<1>6. ThreadOK(t)'
  BY <1>1, <1>4 DEF TypeInv, TypeOK, ThreadOK, Busy, Applying
<1>7. OthersSame(t)
  BY DEF TypeInv, TypeOK, OthersSame
<1>8. QED
  BY <1>5, <1>6, <1>7, TypeStep

(* The entry that a thread records.                                        *)
EntryOf(t) ==
  [item |-> held[t].written.id, proposal |-> req[t].proposal,
   operation |-> Head(todo[t]).operation,
   before |-> IF held[t].found = None THEN Unknown ELSE held[t].found.quantity,
   after |-> held[t].written.quantity]

LEMMA EntryType ==
  ASSUME TypeInv, NEW t \in Threads, pc[t] = "record"
  PROVE  EntryOf(t) \in Entry
<1>1. ThreadOK(t) /\ todo[t] \in Seq(Delta)
  BY DEF TypeInv, TypeOK
<1>2. held[t] \in Found /\ held[t].written \in Item /\ todo[t] # <<>> /\ req[t] \in Requests
  BY <1>1 DEF ThreadOK, Applying, Busy
<1>3. held[t].written.id \in Nat /\ held[t].written.quantity \in Quantities
  BY <1>2, RowFields
<1>4. (IF held[t].found = None THEN Unknown ELSE held[t].found.quantity) \in Quantities
  BY <1>2, RowFields DEF Found, Quantities
<1>5. Head(todo[t]).operation \in Operations /\ req[t].proposal \in Proposals
  BY <1>1, <1>2, TodoFields, RequestFields
<1>6. QED
  BY <1>3, <1>4, <1>5 DEF EntryOf, Entry

LEMMA RecordHistoryType ==
  ASSUME TypeInv, NEW t \in Threads, RecordHistory(t)
  PROVE  TypeInv'
<1> USE DEF RecordHistory, Execute, Goto
<1>1. /\ ThreadOK(t) /\ todo[t] \in Seq(Delta) /\ todo[t] # <<>>
      /\ Tail(todo[t]) \in Seq(Delta) /\ Tail(todo[t]) = <<>> <=> Len(todo[t]) = 1
  BY TodoFields DEF TypeInv, TypeOK, ThreadOK, Applying
<1>2. working' = [working EXCEPT !.history = Append(@, EntryOf(t))]
  BY DEF EntryOf
<1>3. working' \in Database
  <2>1. EntryOf(t) \in Entry /\ working \in Database /\ working.history \in Seq(Entry)
    BY EntryType, TableTypes DEF TypeInv, TypeOK
  <2>2. Append(working.history, EntryOf(t)) \in Seq(Entry)
    BY <2>1, AppendProperties
  <2>3. QED
    BY <1>2, <2>1, <2>2, DatabaseFields
<1>4. TypeOK'
  BY <1>1, <1>3 DEF TypeInv, TypeOK, Steps, Uncommitted, InTransaction, Applying, historyVars
<1>5. ThreadOK(t)'
  BY <1>1 DEF TypeInv, TypeOK, ThreadOK, Busy, Applying
<1>6. OthersSame(t)
  BY DEF TypeInv, TypeOK, OthersSame
<1>7. QED
  BY <1>4, <1>5, <1>6, TypeStep

(* The commits, and the event.                                             *)
LEMMA CommitType ==
  ASSUME TypeInv, NEW t \in Threads,
         CommitDecision(t) \/ RecordCaptureTrace(t) \/ CommitEvent(t) \/ RecordEngagement(t)
  PROVE  TypeInv'
<1> USE DEF CommitAll, Commit, Goto, Finish, Release
<1>1. ThreadOK(t)
  BY DEF TypeInv
<1>2. CASE CommitDecision(t) \/ RecordCaptureTrace(t) \/ CommitEvent(t)
  <2> USE <1>2 DEF CommitDecision, RecordCaptureTrace, CommitEvent
  <2>1. TypeOK'
    BY DEF TypeInv, TypeOK, Steps, historyVars
  <2>2. ThreadOK(t)'
    BY <1>1, RequestFields DEF TypeInv, TypeOK, ThreadOK, Busy, Applying
  <2>3. OthersSame(t)
    BY DEF TypeInv, TypeOK, OthersSame
  <2>4. QED
    BY <2>1, <2>2, <2>3, TypeStep
<1>3. CASE RecordEngagement(t)
  <2> USE <1>3 DEF RecordEngagement
  <2>1. req[t].kind \in Kinds /\ req[t].proposal \in Proposals
    BY <1>1, RequestFields DEF ThreadOK, Busy
  <2>2. TypeOK'
    BY <2>1 DEF TypeInv, TypeOK, Steps, connectionVars
  <2>3. ThreadOK(t)'
    BY DEF TypeInv, TypeOK, ThreadOK, Busy, Applying
  <2>4. OthersSame(t)
    BY DEF TypeInv, TypeOK, OthersSame
  <2>5. QED
    BY <2>2, <2>3, <2>4, TypeStep
<1>4. QED
  BY <1>2, <1>3

LEMMA AppendEventType ==
  ASSUME TypeInv, NEW t \in Threads, AppendEvent(t)
  PROVE  TypeInv'
<1> USE DEF AppendEvent, Execute, Goto
<1>1. ThreadOK(t) /\ req[t] \in Requests
  BY DEF TypeInv, ThreadOK, Busy
<1>2. <<req[t].kind, req[t].proposal>> \in Kinds \X Proposals
  BY <1>1, RequestFields
<1>3. working' \in Database
  BY <1>2, DatabaseFields DEF TypeInv, TypeOK
<1>4. TypeOK'
  BY <1>3 DEF TypeInv, TypeOK, Steps, Uncommitted, historyVars
<1>5. ThreadOK(t)'
  BY <1>1 DEF TypeInv, TypeOK, ThreadOK, Busy, Applying
<1>6. OthersSame(t)
  BY DEF TypeInv, TypeOK, OthersSame
<1>7. QED
  BY <1>4, <1>5, <1>6, TypeStep

LEMMA TypeInductive == TypeInv /\ [Next]_vars => TypeInv'
<1> SUFFICES ASSUME TypeInv, [Next]_vars PROVE TypeInv'
  OBVIOUS
<1>1. CASE Restart
  <2>1. \A t \in Threads : ThreadOK(t)'
    BY <1>1 DEF Restart, ThreadOK, Busy, Applying
  <2>2. TypeOK'
    <3>1. <<>> \in Seq(Delta)
      OBVIOUS
    <3>2. QED
      BY <1>1, <3>1 DEF Restart, Rollback, TypeInv, TypeOK, Steps, historyVars
  <2>3. QED
    BY <2>1, <2>2 DEF TypeInv
<1>2. ASSUME NEW t \in Threads, Serve(t) PROVE TypeInv'
  <2>1. ASSUME NEW r \in Requests, SavePending(t, r) \/ ReadProposal(t, r) PROVE TypeInv'
    BY <2>1, SavePendingType, ReadProposalType
  <2>2. CASE ClaimRefused(t) \/ HistoryRefused(t) \/ WriteFails(t)
    BY <2>2, RollBackType DEF ClaimRefused, HistoryRefused, WriteFails
  <2>3. QED
    BY <1>2, <2>1, <2>2, ClaimType, FindForDeltaType, WriteType, RecordHistoryType, CommitType,
       AppendEventType DEF Serve
<1>3. CASE UNCHANGED vars
  BY <1>3 DEF vars, connectionVars, threadVars, historyVars, TypeInv, TypeOK, ThreadOK, Busy
<1>4. QED
  BY <1>1, <1>2, <1>3 DEF Next

(* Every row, request and delta is what it should be: the fields that a    *)
(* step reads of what it holds are there, and quantities stay in range     *)
(* whatever is taken.                                                      *)
THEOREM TypeCorrect == Spec => []TypeOK
<1>1. TypeInv => TypeOK
  BY DEF TypeInv
<1>2. QED
  BY <1>1, InitType, TypeInductive, PTL DEF Spec

LEMMA TypeHolds == Spec => []TypeInv
BY InitType, TypeInductive, PTL DEF Spec

-----------------------------------------------------------------------------
(* The statements that write, each in the transaction of the connection.   *)
Writes(t) ==
  \/ \E r \in Requests : SavePending(t, r)
  \/ Claim(t) \/ InsertItem(t) \/ UpdateItem(t) \/ RecordHistory(t) \/ AppendEvent(t)
Commits(t) == CommitDecision(t) \/ RecordCaptureTrace(t) \/ CommitEvent(t) \/ RecordEngagement(t)
RollsBack(t) == ClaimRefused(t) \/ HistoryRefused(t) \/ WriteFails(t)

LEMMA ServeCases ==
  ASSUME NEW t \in Threads, Serve(t)
  PROVE  \/ Writes(t) \/ Commits(t) \/ RollsBack(t)
         \/ \E r \in Requests : ReadProposal(t, r)
         \/ FindForDelta(t)
BY DEF Serve, Writes, Commits, RollsBack

(* What a write leaves as it was.                                          *)
LEMMA WriteEffect ==
  ASSUME TypeInv, NEW t \in Threads, Writes(t)
  PROVE  /\ durable' = durable /\ pc'[t] \in Uncommitted
         /\ answered' = answered /\ torn' = torn /\ OthersSame(t)
         /\ parted' = parted /\ halved' = halved
<1>1. ASSUME NEW r \in Requests, SavePending(t, r)
      PROVE  /\ durable' = durable /\ pc'[t] \in Uncommitted
             /\ answered' = answered /\ torn' = torn /\ OthersSame(t)
             /\ parted' = parted /\ halved' = halved
  BY <1>1 DEF SavePending, Execute, Goto, historyVars, OthersSame, Uncommitted, InTransaction, Applying,
     TypeInv, TypeOK
<1>2. CASE Claim(t)
  BY <1>2 DEF Claim, Execute, Goto, historyVars, OthersSame, Uncommitted, InTransaction, Applying,
     TypeInv, TypeOK
<1>3. CASE InsertItem(t) \/ UpdateItem(t)
  BY <1>3 DEF InsertItem, UpdateItem, Execute, Goto, historyVars, OthersSame, Uncommitted, InTransaction, Applying,
     TypeInv, TypeOK
<1>4. CASE RecordHistory(t)
  BY <1>4 DEF RecordHistory, Execute, Goto, historyVars, OthersSame, Uncommitted, InTransaction, Applying,
     TypeInv, TypeOK
<1>5. CASE AppendEvent(t)
  BY <1>5 DEF AppendEvent, Execute, Goto, historyVars, OthersSame, Uncommitted, InTransaction, Applying,
     TypeInv, TypeOK
<1>6. QED
  BY <1>1, <1>2, <1>3, <1>4, <1>5 DEF Writes

(* Where a thread is after its commit.                                     *)
CommitStep(t) ==
  \/ /\ pc[t] = "commit" /\ req[t].kind = "capture" /\ pc'[t] = "account"
     /\ answered' = answered /\ req'[t] = req[t]
  \/ /\ pc[t] = "commit" /\ req[t].kind # "capture" /\ pc'[t] = "notify"
     /\ answered' = answered /\ req'[t] = req[t]
  \/ /\ pc[t] = "account" /\ pc'[t] \in {"account", "notify"}
     /\ answered' = answered /\ req'[t] = req[t]
  \/ /\ pc[t] = "announce" /\ pc'[t] = "engage"
     /\ answered' = answered /\ req'[t] = req[t]
  \/ /\ pc[t] = "engage" /\ pc'[t] = "idle"
     /\ answered' = answered \union {<<req[t].kind, req[t].proposal>>}

LEMMA CommitEffect ==
  ASSUME TypeInv, NEW t \in Threads, Commits(t)
  PROVE  /\ working' = working /\ durable' \in {working, durable} /\ torn' = torn /\ OthersSame(t)
         /\ (durable' = working \/ (pc[t] = "engage" /\ pc'[t] = "idle"))
         /\ CommitStep(t)
         /\ halved' = halved
         /\ \/ durable' = working /\ parted' = {u \in Threads : pc[u] \in Applying}
            \/ pc[t] = "engage" /\ durable' = durable /\ parted' = parted
<1>1. CASE CommitDecision(t)
  <2>1. /\ pc[t] = "commit" /\ pc'[t] = (IF req[t].kind = "capture" THEN "account" ELSE "notify")
        /\ working' = working /\ durable' = working /\ torn' = torn /\ answered' = answered
        /\ req'[t] = req[t] /\ OthersSame(t)
        /\ halved' = halved /\ parted' = {u \in Threads : pc[u] \in Applying}
    BY <1>1 DEF CommitDecision, CommitAll, Commit, Goto, historyVars, OthersSame, TypeInv, TypeOK
  <2>2. CommitStep(t)
    BY <2>1 DEF CommitStep
  <2>3. QED
    BY <2>1, <2>2
<1>2. CASE RecordCaptureTrace(t)
  <2>1. /\ pc[t] = "account" /\ pc'[t] \in {"account", "notify"}
        /\ working' = working /\ durable' = working /\ torn' = torn /\ answered' = answered
        /\ req'[t] = req[t] /\ OthersSame(t)
        /\ halved' = halved /\ parted' = {u \in Threads : pc[u] \in Applying}
    BY <1>2 DEF RecordCaptureTrace, CommitAll, Commit, historyVars, OthersSame, TypeInv, TypeOK
  <2>2. CommitStep(t)
    BY <2>1 DEF CommitStep
  <2>3. QED
    BY <2>1, <2>2
<1>3. CASE CommitEvent(t)
  <2>1. /\ pc[t] = "announce" /\ pc'[t] = "engage"
        /\ working' = working /\ durable' = working /\ torn' = torn /\ answered' = answered
        /\ req'[t] = req[t] /\ OthersSame(t)
        /\ halved' = halved /\ parted' = {u \in Threads : pc[u] \in Applying}
    BY <1>3 DEF CommitEvent, CommitAll, Commit, Goto, historyVars, OthersSame, TypeInv, TypeOK
  <2>2. CommitStep(t)
    BY <2>1 DEF CommitStep
  <2>3. QED
    BY <2>1, <2>2
<1>4. CASE RecordEngagement(t)
  <2>1. /\ pc[t] = "engage" /\ pc'[t] = "idle"
        /\ working' = working /\ durable' \in {working, durable} /\ torn' = torn
        /\ answered' = answered \union {<<req[t].kind, req[t].proposal>>} /\ OthersSame(t)
        /\ halved' = halved
        /\ \/ durable' = working /\ parted' = {u \in Threads : pc[u] \in Applying}
           \/ durable' = durable /\ parted' = parted
    BY <1>4 DEF RecordEngagement, Commit, Goto, Finish, Release, connectionVars, OthersSame, TypeInv, TypeOK
  <2>2. CommitStep(t)
    BY <2>1 DEF CommitStep
  <2>3. QED
    BY <2>1, <2>2
<1>5. QED
  BY <1>1, <1>2, <1>3, <1>4 DEF Commits

(* What a rollback leaves.                                                 *)
LEMMA RollBackEffect ==
  ASSUME TypeInv, NEW t \in Threads, RollsBack(t)
  PROVE  /\ working' = durable /\ durable' = durable /\ answered' = answered
         /\ pc'[t] = "idle" /\ OthersSame(t)
         /\ torn' = (torn \/ \E u \in Threads \ {t} : pc[u] \in Uncommitted)
         /\ parted' = parted \ {t} /\ halved' = (halved \/ t \in parted)
BY DEF RollsBack, ClaimRefused, HistoryRefused, WriteFails, RollBack, Rollback, Finish, Goto, Release,
   OthersSame, TypeInv, TypeOK

(* A look at the tables changes neither of them.                           *)
LEMMA ReadEffect ==
  ASSUME TypeInv, NEW t \in Threads,
         FindForDelta(t) \/ \E r \in Requests : ReadProposal(t, r)
  PROVE  /\ working' = working /\ durable' = durable /\ answered' = answered /\ torn' = torn
         /\ OthersSame(t) /\ parted' = parted /\ halved' = halved
         /\ pc[t] \in Uncommitted <=> pc'[t] \in Uncommitted
<1>1. ASSUME NEW r \in Requests, ReadProposal(t, r)
      PROVE  /\ working' = working /\ durable' = durable /\ answered' = answered /\ torn' = torn
             /\ OthersSame(t) /\ parted' = parted /\ halved' = halved
             /\ pc[t] \in Uncommitted <=> pc'[t] \in Uncommitted
  BY <1>1 DEF ReadProposal, Allowed, Goto, connectionVars, historyVars, OthersSame, Uncommitted,
     InTransaction, Applying, TypeInv, TypeOK
<1>2. CASE FindForDelta(t)
  BY <1>2 DEF FindForDelta, Goto, connectionVars, historyVars, OthersSame, Uncommitted, InTransaction, Applying,
     TypeInv, TypeOK
<1>3. QED
  BY <1>1, <1>2

LEMMA RestartEffect ==
  ASSUME TypeInv, Restart
  PROVE  /\ working' = durable /\ durable' = durable /\ answered' = answered /\ torn' = torn
         /\ \A t \in Threads : pc'[t] = "idle"
         /\ parted' = {} /\ halved' = (halved \/ parted # {})
BY DEF Restart, Rollback

(* The proposals and the events in hand after a write.                     *)
LEMMA SavePendingTables ==
  ASSUME TypeInv, NEW t \in Threads, NEW r \in Requests, SavePending(t, r)
  PROVE  /\ r.kind = "capture" /\ r.proposal \in Proposals /\ working.proposals[r.proposal] = None
         /\ working'.proposals = [working.proposals EXCEPT
              ![r.proposal] = [status |-> "pending", deltas |-> Parsed[r.proposal]]]
         /\ working'.items = working.items /\ working'.history = working.history
         /\ working'.feed = working.feed
         /\ pc[t] = "idle" /\ pc'[t] = "commit" /\ req'[t] = r
         /\ \A u \in Threads : Busy(u) => <<req[u], r>> \in Overlaps
BY RequestFields DEF SavePending, Allowed, Execute, Goto, TypeInv, TypeOK, Database, Busy

LEMMA ClaimTables ==
  ASSUME TypeInv, NEW t \in Threads, Claim(t)
  PROVE  LET p == req[t].proposal IN
         /\ req[t] \in Requests /\ req[t].kind \in Decisions /\ p \in Proposals /\ pc[t] = "claim"
         /\ Has(working, p, "pending")
         /\ working'.proposals = [working.proposals EXCEPT
              ![p] = [status |-> Outcome(req[t].kind), deltas |-> todo[t]]]
         /\ working'.items = working.items /\ working'.history = working.history
         /\ working'.feed = working.feed
         /\ req'[t] = req[t] /\ todo'[t] = todo[t] /\ held'[t] = held[t]
         /\ pc'[t] = IF req[t].kind = "reject" \/ todo[t] = <<>> THEN "commit" ELSE "find"
<1>1. ThreadOK(t) /\ pc[t] = "claim"
  BY DEF TypeInv, Claim
<1>2. req[t] \in Requests /\ req[t].kind \in Decisions
  BY <1>1 DEF ThreadOK, Busy
<1>3. req[t].proposal \in Proposals
  BY <1>2, RequestFields
<1>4. QED
  BY <1>1, <1>2, <1>3 DEF Claim, StillPending, Has, Outcome, Execute, Goto, TypeInv, TypeOK, Database

LEMMA ItemTables ==
  ASSUME TypeInv, NEW t \in Threads, InsertItem(t) \/ UpdateItem(t)
  PROVE  /\ working'.proposals = working.proposals /\ working'.history = working.history
         /\ working'.feed = working.feed
         /\ pc[t] = "write" /\ pc'[t] = "record" /\ req'[t] = req[t] /\ todo'[t] = todo[t]
         /\ held'[t] = [held[t] EXCEPT !.written = RowAfter(t)]
BY DEF InsertItem, UpdateItem, Execute, Goto, TypeInv, TypeOK, Database

LEMMA HistoryTables ==
  ASSUME TypeInv, NEW t \in Threads, RecordHistory(t)
  PROVE  /\ working'.proposals = working.proposals /\ working'.items = working.items
         /\ working'.history = Append(working.history, EntryOf(t))
         /\ working'.feed = working.feed
         /\ pc[t] = "record" /\ pc'[t] = (IF Len(todo[t]) = 1 THEN "commit" ELSE "find")
         /\ req'[t] = req[t] /\ todo'[t] = Tail(todo[t])
BY DEF RecordHistory, EntryOf, Execute, Goto, TypeInv, TypeOK, Database

LEMMA EventTables ==
  ASSUME TypeInv, NEW t \in Threads, AppendEvent(t)
  PROVE  /\ working'.proposals = working.proposals /\ working'.items = working.items
         /\ working'.history = working.history
         /\ <<req[t].kind, req[t].proposal>> \in Kinds \X Proposals
         /\ working'.feed = [working.feed EXCEPT ![<<req[t].kind, req[t].proposal>>] = @ + 1]
         /\ pc[t] = "notify" /\ pc'[t] = "announce" /\ req'[t] = req[t]
<1>1. ThreadOK(t) /\ pc[t] = "notify"
  BY DEF TypeInv, AppendEvent
<1>2. req[t] \in Requests
  BY <1>1 DEF ThreadOK, Busy
<1>3. <<req[t].kind, req[t].proposal>> \in Kinds \X Proposals
  BY <1>2, RequestFields
<1>4. QED
  BY <1>1, <1>3 DEF AppendEvent, Execute, Goto, TypeInv, TypeOK, Database

-----------------------------------------------------------------------------
LEMMA InitConnection == Init => ConnectionInv
BY DEF Init, ConnectionInv, Growing, Committed, EmptyDatabase

(* A write of proposals that are not decided, and of events, is growth.    *)
LEMMA WriteConnection ==
  ASSUME TypeInv, ConnectionInv, NEW t \in Threads, Writes(t)
  PROVE  ConnectionInv'
<1>1. Committed'
  BY WriteEffect DEF Committed
<1>2. durable' = durable /\ Growing
  BY WriteEffect DEF ConnectionInv
<1>3. ASSUME NEW p \in Proposals, durable.proposals[p] # None
      PROVE  /\ working'.proposals[p] # None
             /\ durable.proposals[p].status # "pending" => working'.proposals[p] = durable.proposals[p]
  <2>1. /\ working.proposals[p] # None
        /\ durable.proposals[p].status # "pending" => working.proposals[p] = durable.proposals[p]
    BY <1>2, <1>3 DEF Growing
  <2>2. working.proposals \in [Proposals -> Proposal \union {None}] /\ None \notin Proposal
    BY NoneAssumption DEF TypeInv, TypeOK, Database
  <2>3. ASSUME NEW r \in Requests, SavePending(t, r)
        PROVE  working'.proposals[p] = working.proposals[p]
    BY <2>1, <2>2, <2>3, SavePendingTables
  <2>4. ASSUME Claim(t)
        PROVE  /\ p # req[t].proposal => working'.proposals[p] = working.proposals[p]
               /\ p = req[t].proposal => working.proposals[p].status = "pending"
               /\ working'.proposals[p] # None
    <3>1. [status |-> Outcome(req[t].kind), deltas |-> todo[t]] # None
      BY NoneAssumption, ClaimTables, <2>2, <2>4 DEF TypeInv, TypeOK, Proposal, ProposalStatus, Outcome
    <3>2. /\ req[t].proposal \in Proposals /\ working.proposals[req[t].proposal].status = "pending"
          /\ working'.proposals = [working.proposals EXCEPT ![req[t].proposal] =
               [status |-> Outcome(req[t].kind), deltas |-> todo[t]]]
      BY <2>4, ClaimTables DEF Has
    <3>3. CASE p = req[t].proposal
      <4>1. working'.proposals[p] = [status |-> Outcome(req[t].kind), deltas |-> todo[t]]
        BY <2>2, <3>2, <3>3
      <4>2. QED
        BY <3>1, <3>2, <3>3, <4>1
    <3>4. CASE p # req[t].proposal
      BY <2>1, <2>2, <3>2, <3>4
    <3>5. QED
      BY <3>3, <3>4
  <2>5. ASSUME InsertItem(t) \/ UpdateItem(t) \/ RecordHistory(t) \/ AppendEvent(t)
        PROVE  working'.proposals[p] = working.proposals[p]
    BY <2>5, ItemTables, HistoryTables, EventTables
  <2>6. QED
    BY <2>1, <2>3, <2>4, <2>5 DEF Writes
<1>4. ASSUME NEW a \in Kinds \X Proposals PROVE durable.feed[a] <= working'.feed[a]
  <2>1. /\ durable.feed[a] <= working.feed[a]
        /\ durable.feed[a] \in Nat /\ working.feed[a] \in Nat
    BY <1>2, TableTypes DEF Growing, TypeInv, TypeOK
  <2>2. CASE AppendEvent(t)
    <3>1. /\ working.feed \in [Kinds \X Proposals -> Nat]
          /\ <<req[t].kind, req[t].proposal>> \in Kinds \X Proposals
          /\ working'.feed = [working.feed EXCEPT ![<<req[t].kind, req[t].proposal>>] = @ + 1]
      BY <2>2, EventTables DEF TypeInv, TypeOK, Database
    <3>2. working'.feed[a] \in {working.feed[a], working.feed[a] + 1}
      BY <3>1
    <3>3. QED
      BY <2>1, <3>2
  <2>3. CASE ~AppendEvent(t)
    <3>1. working'.feed = working.feed
      BY <2>3, SavePendingTables, ClaimTables, ItemTables, HistoryTables DEF Writes
    <3>2. QED
      BY <2>1, <3>1
  <2>4. QED
    BY <2>2, <2>3
<1>5. QED
  BY <1>1, <1>2, <1>3, <1>4 DEF ConnectionInv, Growing

LEMMA ConnectionInductive == TypeInv /\ ConnectionInv /\ [Next]_vars => ConnectionInv'
<1> SUFFICES ASSUME TypeInv, ConnectionInv, [Next]_vars PROVE ConnectionInv'
  OBVIOUS
<1>1. TypeInv'
  BY TypeInductive
<1>2. working' = durable' => ConnectionInv'
  <2>1. \A a \in Kinds \X Proposals : durable'.feed[a] \in Nat
    BY <1>1, TableTypes DEF TypeInv, TypeOK
  <2>2. QED
    BY <2>1 DEF ConnectionInv, Growing, Committed
<1>3. CASE Restart
  BY <1>2, <1>3, RestartEffect
<1>4. ASSUME NEW t \in Threads, Serve(t) PROVE ConnectionInv'
  <2>1. CASE Writes(t)
    BY <2>1, WriteConnection
  <2>2. CASE Commits(t)
    <3>1. CASE durable' = working
      BY <1>2, <2>2, <3>1, CommitEffect
    <3>2. CASE durable' = durable /\ pc[t] = "engage" /\ pc'[t] = "idle"
      BY <2>2, <3>2, CommitEffect
         DEF ConnectionInv, Growing, Committed, OthersSame, Uncommitted, InTransaction, Applying
    <3>3. QED
      BY <2>2, <3>1, <3>2, CommitEffect
  <2>3. CASE RollsBack(t)
    BY <1>2, <2>3, RollBackEffect
  <2>4. CASE FindForDelta(t) \/ \E r \in Requests : ReadProposal(t, r)
    BY <2>4, ReadEffect DEF ConnectionInv, Growing, Committed, OthersSame
  <2>5. QED
    BY <1>4, <2>1, <2>2, <2>3, <2>4, ServeCases
<1>5. CASE UNCHANGED vars
  BY <1>5 DEF vars, connectionVars, threadVars, ConnectionInv, Growing, Committed
<1>6. QED
  BY <1>3, <1>4, <1>5 DEF Next

LEMMA ConnectionHolds == Spec => []ConnectionInv
BY InitConnection, ConnectionInductive, TypeHolds, PTL DEF Spec

-----------------------------------------------------------------------------
(* One kind of decision leads to one status.                               *)
LEMMA OutcomeHolds ==
  ASSUME NEW db, NEW p, NEW k \in Decisions
  PROVE  Has(db, p, Outcome(k)) <=> Holds(db, k, p)
BY DEF Has, Holds, Outcome, Decided, Decisions, Kinds

LEMMA DurableHolds ==
  ASSUME TypeInv, ConnectionInv, NEW k \in Kinds, NEW p \in Proposals, Holds(durable, k, p)
  PROVE  Holds(working, k, p)
<1>1. /\ working.proposals[p] \in Proposal \union {None}
      /\ durable.proposals[p] # None /\ durable.proposals[p].status \in Decided(k)
  BY TableTypes DEF Holds, TypeInv, TypeOK
<1>2. /\ working.proposals[p] # None
      /\ (durable.proposals[p].status # "pending" => working.proposals[p] = durable.proposals[p])
  BY <1>1 DEF ConnectionInv, Growing
<1>3. CASE durable.proposals[p].status = "pending"
  BY <1>1, <1>2, <1>3 DEF Holds, Decided, Proposal, ProposalStatus
<1>4. QED
  BY <1>1, <1>2, <1>3 DEF Holds

(* What holds of a proposal in hand still holds after a write.             *)
LEMMA WriteHolds ==
  ASSUME TypeInv, NEW t \in Threads, Writes(t),
         NEW k \in Kinds, NEW p \in Proposals, Holds(working, k, p)
  PROVE  Holds(working', k, p)
<1>1. /\ working.proposals \in [Proposals -> Proposal \union {None}]
      /\ working.proposals[p] # None /\ working.proposals[p].status \in Decided(k)
  BY DEF Holds, TypeInv, TypeOK, Database
<1>2. ASSUME NEW r \in Requests, SavePending(t, r) PROVE Holds(working', k, p)
  <2> DEFINE new == [status |-> "pending", deltas |-> Parsed[r.proposal]]
  <2>1. /\ r.proposal \in Proposals /\ working.proposals[r.proposal] = None
        /\ working'.proposals = [working.proposals EXCEPT ![r.proposal] = new]
    BY <1>2, SavePendingTables
  <2> HIDE DEF new
  <2>2. working'.proposals[p] = working.proposals[p]
    BY <1>1, <2>1
  <2>3. QED
    BY <1>1, <2>2 DEF Holds
<1>3. CASE Claim(t)
  <2> DEFINE new == [status |-> Outcome(req[t].kind), deltas |-> todo[t]]
  <2>1. /\ req[t].proposal \in Proposals /\ working.proposals[req[t].proposal].status = "pending"
        /\ working'.proposals = [working.proposals EXCEPT ![req[t].proposal] = new]
    BY <1>3, ClaimTables DEF Has
  <2>2. CASE p = req[t].proposal
    <3>1. working'.proposals[p] = new
      BY <1>1, <2>1, <2>2
    <3>2. k = "capture"
      BY <1>1, <2>1, <2>2 DEF Decided, Kinds
    <3>3. new.status \in ProposalStatus
      BY DEF Outcome, ProposalStatus
    <3>4. new # None
      BY NoneAssumption DEF Outcome, Proposal, ProposalStatus, TypeInv, TypeOK
    <3>5. QED
      BY <3>1, <3>2, <3>3, <3>4 DEF Holds, Decided
  <2>3. CASE p # req[t].proposal
    <3>1. working'.proposals[p] = working.proposals[p]
      BY <1>1, <2>1, <2>3
    <3>2. QED
      BY <1>1, <3>1 DEF Holds
  <2>4. QED
    BY <2>2, <2>3
<1>4. CASE InsertItem(t) \/ UpdateItem(t) \/ RecordHistory(t) \/ AppendEvent(t)
  <2>1. working'.proposals = working.proposals
    BY <1>4, ItemTables, HistoryTables, EventTables
  <2>2. QED
    BY <1>1, <2>1 DEF Holds
<1>5. QED
  BY <1>2, <1>3, <1>4 DEF Writes

(* Tables that differ in their items only.                                 *)
LEMMA TablesSame ==
  ASSUME NEW db, NEW new, TablesSound(db),
         new.proposals = db.proposals, new.history = db.history, new.feed = db.feed
  PROVE  TablesSound(new)
BY DEF TablesSound, AppliedSound, FeedSound, EntriesOfProposal, Has

(* A step of another thread that leaves the proposal of u as it was.       *)
LEMMA DecidingStays ==
  ASSUME NEW t \in Threads, NEW u \in Threads, u # t, OthersSame(t), DecisionMade(u), RoomLeft(u),
         TypeInv,
         Deciding(u) =>
           /\ working'.proposals[req[u].proposal] = working.proposals[req[u].proposal]
           /\ EntriesOfProposal(working', req[u].proposal) = EntriesOfProposal(working, req[u].proposal)
           /\ \A k \in Decisions :
                working'.feed[<<k, req[u].proposal>>] = working.feed[<<k, req[u].proposal>>]
  PROVE  DecisionMade(u)' /\ RoomLeft(u)' /\ (Deciding(u)' <=> Deciding(u))
<1>1. pc'[u] = pc[u] /\ req'[u] = req[u] /\ todo'[u] = todo[u]
  BY DEF OthersSame
<1>2. Deciding(u)' <=> Deciding(u)
  BY <1>1 DEF Deciding
<1>3. DecisionMade(u)'
  BY <1>1, <1>2 DEF DecisionMade, Has
<1>4. pc[u] \in Applying => Deciding(u)
  BY DEF TypeInv, ThreadOK, Deciding, Applying, InTransaction
<1>5. RoomLeft(u)'
  BY <1>1, <1>4 DEF RoomLeft
<1>6. QED
  BY <1>2, <1>3, <1>5

(* The thread that decides a proposal is the one that did.                 *)
LEMMA StillOne ==
  ASSUME OneDecides, NEW t \in Threads, OthersSame(t),
         Deciding(t)' => Deciding(t) /\ req'[t] = req[t]
  PROVE  OneDecides'
<1>1. ASSUME NEW u \in Threads, Deciding(u)' PROVE Deciding(u) /\ req'[u] = req[u]
  <2>1. CASE u = t
    BY <1>1, <2>1
  <2>2. CASE u # t
    BY <1>1, <2>2 DEF OthersSame, Deciding
  <2>3. QED
    BY <2>1, <2>2
<1>2. SUFFICES ASSUME NEW u \in Threads, NEW v \in Threads, Deciding(u)', Deciding(v)',
                      req'[u].proposal = req'[v].proposal
               PROVE  u = v
  BY DEF OneDecides
<1>3. Deciding(u) /\ Deciding(v) /\ req[u].proposal = req[v].proposal
  BY <1>1, <1>2
<1>4. QED
  BY <1>3 DEF OneDecides

(* What was answered, after a write.                                       *)
LEMMA WriteAnswers ==
  ASSUME TypeInv, AnswersSound, NEW t \in Threads, Writes(t), Kept(t)'
  PROVE  AnswersSound'
<1>1. durable' = durable /\ answered' = answered /\ OthersSame(t)
  BY WriteEffect
<1>2. \A a \in answered' : Holds(durable', a[1], a[2])
  BY <1>1 DEF AnswersSound
<1>3. ASSUME NEW u \in Threads, u # t PROVE Kept(u)'
  <2>1. pc'[u] = pc[u] /\ req'[u] = req[u] /\ Kept(u)
    BY <1>1, <1>3 DEF OthersSame, AnswersSound
  <2>2. ASSUME pc[u] = "commit" PROVE Holds(working', req[u].kind, req[u].proposal)
    <3>1. req[u].kind \in Kinds /\ req[u].proposal \in Proposals
      BY <2>2, RequestFields DEF TypeInv, ThreadOK, Busy
    <3>2. QED
      BY <2>1, <2>2, <3>1, WriteHolds DEF Kept
  <2>3. QED
    BY <1>1, <2>1, <2>2 DEF Kept
<1>4. QED
  BY <1>2, <1>3 DEF AnswersSound

-----------------------------------------------------------------------------
(* Each step, as long as no rollback has torn a transaction.               *)
LEMMA NothingApplied ==
  ASSUME TypeInv, NEW db \in Database, TablesSound(db), NEW p \in Proposals,
         db.proposals[p] = None \/ db.proposals[p].status = "pending"
  PROVE  /\ EntriesOfProposal(db, p) = {}
         /\ \A k \in Decisions : db.feed[<<k, p>>] = 0
<1>1. ~Has(db, p, "confirmed") /\ ~Has(db, p, "rejected")
  BY DEF Has
<1>2. EntriesOfProposal(db, p) = {}
  BY <1>1 DEF TablesSound, AppliedSound
<1>3. ASSUME NEW k \in Decisions PROVE db.feed[<<k, p>>] = 0
  <2>1. ~(db.feed[<<k, p>>] > 0)
    BY <1>1 DEF TablesSound, FeedSound, Outcome
  <2>2. db.feed[<<k, p>>] \in Nat
    BY TableTypes DEF Decisions, Kinds
  <2>3. QED
    BY <2>1, <2>2
<1>4. QED
  BY <1>2, <1>3

(* Changing a proposal of which nothing has been applied or announced.     *)
LEMMA TablesOfProposal ==
  ASSUME TypeInv, NEW db \in Database, TablesSound(db), NEW p \in Proposals,
         db.proposals[p] = None \/ db.proposals[p].status = "pending",
         NEW new, NEW x, new.proposals = [db.proposals EXCEPT ![p] = x],
         new.history = db.history, new.feed = db.feed
  PROVE  TablesSound(new)
<1>1. /\ EntriesOfProposal(db, p) = {}
      /\ \A k \in Decisions : db.feed[<<k, p>>] = 0
  BY NothingApplied
<1>2. \A q \in Proposals : EntriesOfProposal(new, q) = EntriesOfProposal(db, q)
  BY DEF EntriesOfProposal
<1>3. db.proposals \in [Proposals -> Proposal \union {None}]
  BY DEF Database
<1>4. \A q \in Proposals : q # p => new.proposals[q] = db.proposals[q]
  BY <1>3
<1>5. AppliedSound(new)
  <2>1. SUFFICES ASSUME NEW q \in Proposals, EntriesOfProposal(new, q) # {}
                 PROVE  /\ Has(new, q, "confirmed")
                        /\ Cardinality(EntriesOfProposal(new, q)) <= Len(new.proposals[q].deltas)
    BY DEF AppliedSound
  <2>2. q # p /\ EntriesOfProposal(db, q) # {}
    BY <1>1, <1>2, <2>1
  <2>3. QED
    BY <1>2, <1>4, <2>2 DEF TablesSound, AppliedSound, Has
<1>6. FeedSound(new)
  <2>1. SUFFICES ASSUME NEW q \in Proposals, NEW k \in Decisions, new.feed[<<k, q>>] > 0
                 PROVE  /\ Has(new, q, Outcome(k))
                        /\ new.feed[<<k, q>>] = 1
                        /\ \A l \in Decisions : new.feed[<<l, q>>] > 0 => l = k
    BY DEF FeedSound
  <2>2. q # p
    BY <1>1, <2>1
  <2>3. QED
    BY <1>4, <2>1, <2>2 DEF TablesSound, FeedSound, Has
<1>7. QED
  BY <1>5, <1>6 DEF TablesSound

LEMMA SavePendingSound ==
  ASSUME TypeInv, Sound, NEW t \in Threads, NEW r \in Requests, SavePending(t, r)
  PROVE  Sound'
<1> DEFINE new == [status |-> "pending", deltas |-> Parsed[r.proposal]]
           p == r.proposal
<1>1. /\ r.kind = "capture" /\ p \in Proposals /\ working.proposals[p] = None
      /\ working'.proposals = [working.proposals EXCEPT ![p] = new]
      /\ working'.history = working.history /\ working'.feed = working.feed
      /\ pc'[t] = "commit" /\ req'[t] = r
  BY SavePendingTables
<1>2. Writes(t)
  BY DEF Writes
<1>3. durable' = durable /\ OthersSame(t)
  BY <1>2, WriteEffect
<1>4. working \in Database /\ working.proposals \in [Proposals -> Proposal \union {None}]
  BY DEF TypeInv, TypeOK, Database
<1>5. TablesSound(working')
  <2> HIDE DEF new, p
  <2>1. QED
    BY <1>1, <1>4, TablesOfProposal DEF Sound
<1>6. new # None /\ new.status = "pending"
  BY <1>1, MemoryAssumption, NoneAssumption DEF Proposal, ProposalStatus
<1> HIDE DEF new
<1>7. working'.proposals[p] = new
  BY <1>1, <1>4
<1>8. Kept(t)'
  BY <1>1, <1>6, <1>7 DEF Kept, Holds, Decided, ProposalStatus
<1>9. ~Deciding(t)' /\ pc'[t] \notin Applying
  BY <1>1 DEF Deciding, Decisions, Applying
<1>10. DecisionMade(t)' /\ RoomLeft(t)'
  BY <1>9 DEF DecisionMade, RoomLeft
<1>11. ASSUME NEW u \in Threads, u # t PROVE DecisionMade(u)' /\ RoomLeft(u)'
  <2>1. Deciding(u) => req[u].proposal # p
    BY <1>1, <1>11 DEF Sound, DecidingSound, DecisionMade, Has
  <2>2. Deciding(u) => working'.proposals[req[u].proposal] = working.proposals[req[u].proposal]
    <3>1. Deciding(u) => req[u].proposal \in Proposals
      BY RequestFields DEF Deciding, TypeInv, ThreadOK, Busy, InTransaction, Applying
    <3>2. QED
      BY <1>1, <1>4, <2>1, <3>1
  <2>3. EntriesOfProposal(working', req[u].proposal) = EntriesOfProposal(working, req[u].proposal)
    BY <1>1 DEF EntriesOfProposal
  <2>4. QED
    BY <1>1, <1>3, <1>11, <2>2, <2>3, DecidingStays DEF Sound, DecidingSound
<1>12. OneDecides'
  BY <1>3, <1>9, StillOne DEF Sound, DecidingSound
<1>13. DecidingSound'
  BY <1>10, <1>11, <1>12 DEF DecidingSound
<1>14. AnswersSound'
  BY <1>2, <1>8, WriteAnswers DEF Sound
<1>15. QED
  BY <1>3, <1>5, <1>13, <1>14 DEF Sound

LEMMA ClaimSound ==
  ASSUME TypeInv, Sound, NEW t \in Threads, Claim(t)
  PROVE  Sound'
<1> DEFINE p == req[t].proposal
           new == [status |-> Outcome(req[t].kind), deltas |-> todo[t]]
<1>1. /\ req[t] \in Requests /\ req[t].kind \in Decisions /\ p \in Proposals /\ pc[t] = "claim"
      /\ Has(working, p, "pending")
      /\ working'.proposals = [working.proposals EXCEPT ![p] = new]
      /\ working'.history = working.history /\ working'.feed = working.feed
      /\ req'[t] = req[t] /\ todo'[t] = todo[t]
  BY ClaimTables
<1>2. pc'[t] \in {"commit", "find"} /\ (pc'[t] = "find" => req[t].kind # "reject")
  BY ClaimTables
<1>3. Writes(t)
  BY DEF Writes
<1>4. durable' = durable /\ OthersSame(t)
  BY <1>3, WriteEffect
<1>5. working \in Database /\ working.proposals \in [Proposals -> Proposal \union {None}]
  BY DEF TypeInv, TypeOK, Database
<1>6. TablesSound(working')
  <2> HIDE DEF new, p
  <2>1. QED
    BY <1>1, <1>5, TablesOfProposal DEF Sound, Has
<1>7. /\ EntriesOfProposal(working, p) = {}
      /\ \A k \in Decisions : working.feed[<<k, p>>] = 0
  BY <1>1, <1>5, NothingApplied DEF Sound, Has
<1>8. /\ new # None /\ new.status = Outcome(req[t].kind)
      /\ Len(new.deltas) = Len(todo[t]) /\ Len(todo[t]) \in Nat
  <2>1. todo[t] \in Seq(Delta)
    BY DEF TypeInv, TypeOK
  <2>2. new \in Proposal
    BY <2>1 DEF Proposal, ProposalStatus, Outcome
  <2>3. QED
    BY <2>1, <2>2, NoneAssumption
<1> HIDE DEF new
<1>9. working'.proposals[p] = new
  BY <1>1, <1>5
<1>10. DecisionMade(t)'
  BY <1>1, <1>7, <1>8, <1>9 DEF DecisionMade, Has
<1>11. RoomLeft(t)'
  <2>1. EntriesOfProposal(working', p) = {}
    BY <1>1, <1>7 DEF EntriesOfProposal
  <2>2. Cardinality(EntriesOfProposal(working', p)) = 0
    BY <2>1, FS_EmptySet
  <2>3. QED
    BY <1>1, <1>8, <1>9, <2>2 DEF RoomLeft
<1>12. Kept(t)'
  <2>1. Has(working', p, Outcome(req[t].kind))
    BY <1>8, <1>9 DEF Has
  <2>2. Holds(working', req[t].kind, p)
    BY <1>1, <2>1, OutcomeHolds
  <2>3. QED
    BY <1>1, <1>2, <2>2 DEF Kept
<1>13. ASSUME NEW u \in Threads, u # t, Deciding(u) PROVE req[u].proposal # p
  <2>1. Outcome(req[u].kind) # "pending"
    BY DEF Outcome
  <2>2. QED
    BY <1>1, <1>13, <2>1 DEF Sound, DecidingSound, DecisionMade, Has
<1>14. ASSUME NEW u \in Threads, u # t
       PROVE  DecisionMade(u)' /\ RoomLeft(u)' /\ (Deciding(u)' <=> Deciding(u)) /\ req'[u] = req[u]
  <2>1. Deciding(u) => working'.proposals[req[u].proposal] = working.proposals[req[u].proposal]
    <3>1. Deciding(u) => req[u].proposal \in Proposals
      BY RequestFields DEF Deciding, TypeInv, ThreadOK, Busy, InTransaction, Applying
    <3>2. QED
      BY <1>1, <1>5, <1>13, <1>14, <3>1
  <2>2. EntriesOfProposal(working', req[u].proposal) = EntriesOfProposal(working, req[u].proposal)
    BY <1>1 DEF EntriesOfProposal
  <2>3. req'[u] = req[u]
    BY <1>4, <1>14 DEF OthersSame
  <2>4. QED
    BY <1>1, <1>4, <1>14, <2>1, <2>2, <2>3, DecidingStays DEF Sound, DecidingSound
<1>15. OneDecides'
  <2>1. SUFFICES ASSUME NEW u \in Threads, NEW v \in Threads, Deciding(u)', Deciding(v)',
                        req'[u].proposal = req'[v].proposal
                 PROVE  u = v
    BY DEF OneDecides
  <2>2. CASE u # t /\ v # t
    BY <1>14, <2>1, <2>2 DEF Sound, DecidingSound, OneDecides
  <2>3. CASE u = t \/ v = t
    BY <1>1, <1>13, <1>14, <2>1, <2>3
  <2>4. QED
    BY <2>2, <2>3
<1>16. DecidingSound'
  BY <1>10, <1>11, <1>14, <1>15 DEF DecidingSound
<1>17. AnswersSound'
  BY <1>3, <1>12, WriteAnswers DEF Sound
<1>18. QED
  BY <1>4, <1>6, <1>16, <1>17 DEF Sound

LEMMA EntriesFinite ==
  ASSUME NEW db \in Database, NEW p
  PROVE  /\ IsFiniteSet(EntriesOfProposal(db, p))
         /\ Cardinality(EntriesOfProposal(db, p)) \in Nat
<1>1. EntriesOfProposal(db, p) \subseteq 1 .. Len(db.history) /\ Len(db.history) \in Nat
  BY TableTypes DEF EntriesOfProposal
<1>2. IsFiniteSet(1 .. Len(db.history))
  BY <1>1, FS_Interval
<1>3. IsFiniteSet(EntriesOfProposal(db, p))
  BY <1>1, <1>2, FS_Subset
<1>4. QED
  BY <1>3, FS_CardinalityType

(* A step that leaves the proposals, the history and the events, and in    *)
(* which the thread stays in hand of what it was deciding.                 *)
LEMMA SameDecisionSound ==
  ASSUME TypeInv, Sound, NEW t \in Threads, OthersSame(t),
         durable' = durable, answered' = answered,
         working'.proposals = working.proposals, working'.history = working.history,
         working'.feed = working.feed,
         Deciding(t)' => Deciding(t) /\ req'[t] = req[t],
         pc'[t] \in Applying =>
           pc[t] \in Applying /\ req'[t] = req[t] /\ Len(todo'[t]) <= Len(todo[t]) /\ Len(todo'[t]) \in Nat,
         Kept(t)'
  PROVE  Sound'
<1>1. TablesSound(working') /\ TablesSound(durable')
  BY TablesSame DEF Sound
<1>2. \A q : EntriesOfProposal(working', q) = EntriesOfProposal(working, q)
  BY DEF EntriesOfProposal
<1>3. DecisionMade(t)'
  BY DEF Sound, DecidingSound, DecisionMade, Has
<1>4. RoomLeft(t)'
  <2>1. SUFFICES ASSUME pc'[t] \in Applying
                 PROVE  Cardinality(EntriesOfProposal(working, req[t].proposal)) + Len(todo'[t])
                          <= Len(working.proposals[req[t].proposal].deltas)
    BY <1>2 DEF RoomLeft
  <2>2. /\ Cardinality(EntriesOfProposal(working, req[t].proposal)) + Len(todo[t])
             <= Len(working.proposals[req[t].proposal].deltas)
        /\ Deciding(t)
    BY <2>1 DEF Sound, DecidingSound, RoomLeft, Deciding, Applying, InTransaction, TypeInv, ThreadOK
  <2>4. Cardinality(EntriesOfProposal(working, req[t].proposal)) \in Nat
    BY EntriesFinite DEF TypeInv, TypeOK
  <2>5. Len(working.proposals[req[t].proposal].deltas) \in Nat /\ Len(todo[t]) \in Nat
    <3>1. req[t].proposal \in Proposals /\ working.proposals[req[t].proposal] # None
      BY <2>2, RequestFields
         DEF Sound, DecidingSound, DecisionMade, Has, Deciding, TypeInv, ThreadOK, Busy, InTransaction, Applying
    <3>2. working.proposals[req[t].proposal] \in Proposal /\ todo[t] \in Seq(Delta)
      BY <3>1, TableTypes DEF TypeInv, TypeOK
    <3>3. QED
      BY <3>2 DEF Proposal
  <2>6. \A c, l, m, r \in Nat : c + l <= r /\ m <= l => c + m <= r
    OBVIOUS
  <2>7. QED
    BY <2>1, <2>2, <2>4, <2>5, <2>6
<1>5. ASSUME NEW u \in Threads, u # t PROVE DecisionMade(u)' /\ RoomLeft(u)'
  BY <1>2, <1>5, DecidingStays DEF Sound, DecidingSound
<1>6. OneDecides'
  BY StillOne DEF Sound, DecidingSound
<1>7. ASSUME NEW u \in Threads, u # t PROVE Kept(u)'
  <2>1. pc'[u] = pc[u] /\ req'[u] = req[u]
    BY <1>7 DEF OthersSame
  <2>2. QED
    BY <1>7, <2>1 DEF Sound, AnswersSound, Kept, Holds
<1>8. \A a \in answered' : Holds(durable', a[1], a[2])
  BY DEF Sound, AnswersSound
<1>9. QED
  BY <1>1, <1>3, <1>4, <1>5, <1>6, <1>7, <1>8 DEF Sound, DecidingSound, AnswersSound

LEMMA ItemSound ==
  ASSUME TypeInv, Sound, NEW t \in Threads, InsertItem(t) \/ UpdateItem(t)
  PROVE  Sound'
<1>1. /\ working'.proposals = working.proposals /\ working'.history = working.history
      /\ working'.feed = working.feed
      /\ pc[t] = "write" /\ pc'[t] = "record" /\ req'[t] = req[t] /\ todo'[t] = todo[t]
  BY ItemTables
<1>2. durable' = durable /\ answered' = answered /\ OthersSame(t)
  BY WriteEffect DEF Writes
<1>3. Deciding(t) /\ pc[t] \in Applying /\ Len(todo[t]) \in Nat
  BY <1>1 DEF Deciding, Applying, InTransaction, TypeInv, TypeOK, ThreadOK
<1>4. Kept(t)'
  BY <1>1 DEF Kept
<1>5. QED
  BY <1>1, <1>2, <1>3, <1>4, SameDecisionSound

LEMMA FindSound ==
  ASSUME TypeInv, Sound, NEW t \in Threads, FindForDelta(t)
  PROVE  Sound'
<1>1. /\ working' = working /\ durable' = durable /\ answered' = answered /\ OthersSame(t)
  BY ReadEffect
<1>2. /\ pc[t] = "find" /\ pc'[t] \in {"write", "commit", "find"} /\ req'[t] = req[t]
      /\ todo'[t] \in {todo[t], Tail(todo[t])}
  BY DEF FindForDelta, Goto, TypeInv, TypeOK
<1>3. Deciding(t) /\ pc[t] \in Applying /\ todo[t] \in Seq(Delta) /\ todo[t] # <<>>
  BY <1>2 DEF Deciding, Applying, InTransaction, TypeInv, TypeOK, ThreadOK
<1>4. Len(todo'[t]) <= Len(todo[t]) /\ Len(todo'[t]) \in Nat
  BY <1>2, <1>3, TodoFields
<1>5. Kept(t)'
  <2>1. Has(working, req[t].proposal, Outcome(req[t].kind)) /\ req[t].kind \in Decisions
    BY <1>3 DEF Sound, DecidingSound, DecisionMade, Deciding
  <2>2. Holds(working, req[t].kind, req[t].proposal)
    BY <2>1, OutcomeHolds
  <2>3. QED
    BY <1>1, <1>2, <2>2 DEF Kept
<1>6. QED
  BY <1>1, <1>2, <1>3, <1>4, <1>5, SameDecisionSound

LEMMA ReadProposalSound ==
  ASSUME TypeInv, Sound, NEW t \in Threads, NEW r \in Requests, ReadProposal(t, r)
  PROVE  Sound'
<1>1. /\ working' = working /\ durable' = durable /\ answered' = answered /\ OthersSame(t)
  BY ReadEffect
<1>2. pc'[t] = "claim"
  BY DEF ReadProposal, Goto, TypeInv, TypeOK
<1>3. ~Deciding(t)' /\ pc'[t] \notin Applying /\ Kept(t)'
  BY <1>2 DEF Deciding, Applying, InTransaction, Kept
<1>4. QED
  BY <1>1, <1>3, SameDecisionSound

(* An entry of the history is of a proposal with a delta to spare.         *)
LEMMA RecordSound ==
  ASSUME TypeInv, Sound, NEW t \in Threads, RecordHistory(t)
  PROVE  Sound'
<1> DEFINE p == req[t].proposal
           entries == EntriesOfProposal(working, p)
<1>1. /\ working'.proposals = working.proposals
      /\ working'.history = Append(working.history, EntryOf(t))
      /\ working'.feed = working.feed
      /\ pc[t] = "record" /\ pc'[t] \in {"commit", "find"}
      /\ req'[t] = req[t] /\ todo'[t] = Tail(todo[t])
  BY HistoryTables
<1>2. /\ req[t] \in Requests /\ req[t].kind \in Decisions /\ req[t].kind # "reject"
      /\ p \in Proposals /\ todo[t] \in Seq(Delta) /\ todo[t] # <<>>
  BY <1>1, RequestFields DEF TypeInv, TypeOK, ThreadOK, Busy, Applying
<1>3. Deciding(t) /\ pc[t] \in Applying
  BY <1>1, <1>2 DEF Deciding, Applying, InTransaction
<1>4. /\ Has(working, p, "confirmed")
      /\ \A k \in Decisions : working.feed[<<k, p>>] = 0
  BY <1>2, <1>3 DEF Sound, DecidingSound, DecisionMade, Outcome
<1>5. Writes(t)
  BY DEF Writes
<1>6. durable' = durable /\ OthersSame(t)
  BY <1>5, WriteEffect
<1>7. Len(todo[t]) \in Nat /\ Len(todo[t]) >= 1 /\ Len(todo'[t]) = Len(todo[t]) - 1
  BY <1>1, <1>2, TodoFields
<1>8. /\ working.history \in Seq(Entry) /\ Len(working.history) \in Nat
      /\ DOMAIN working.history = 1 .. Len(working.history)
      /\ EntryOf(t) \in Entry /\ EntryOf(t).proposal = p
  BY <1>1, TableTypes, EntryType DEF TypeInv, TypeOK, EntryOf
<1> DEFINE n == Len(working.history) + 1
<1>9. /\ DOMAIN working'.history = 1 .. n
      /\ working'.history[n].proposal = p
      /\ \A k \in 1 .. Len(working.history) : working'.history[k] = working.history[k]
  BY <1>1, <1>8
<1>10. EntriesOfProposal(working', p) = entries \union {n} /\ n \notin entries
  <2>1. entries = {j \in 1 .. Len(working.history) : working.history[j].proposal = p}
    BY <1>8 DEF EntriesOfProposal
  <2>2. EntriesOfProposal(working', p) = {j \in 1 .. n : working'.history[j].proposal = p}
    BY <1>9 DEF EntriesOfProposal
  <2>3. n \in 1 .. n /\ n \notin 1 .. Len(working.history)
    BY <1>8
  <2>4. \A j \in 1 .. n : j # n => j \in 1 .. Len(working.history)
    BY <1>8
  <2>5. \A j \in 1 .. Len(working.history) : j \in 1 .. n
    BY <1>8
  <2> HIDE DEF entries, p, n
  <2>6. QED
    BY <1>9, <2>1, <2>2, <2>3, <2>4, <2>5
<1>11. ASSUME NEW q, q # p PROVE EntriesOfProposal(working', q) = EntriesOfProposal(working, q)
  BY <1>8, <1>9, <1>11 DEF EntriesOfProposal
<1>12. IsFiniteSet(entries) /\ Cardinality(entries) \in Nat
  BY EntriesFinite DEF TypeInv, TypeOK
<1>13. Cardinality(EntriesOfProposal(working', p)) = Cardinality(entries) + 1
  BY <1>10, <1>12, FS_AddElement
<1>14. Cardinality(entries) + Len(todo[t]) <= Len(working.proposals[p].deltas)
  BY <1>3 DEF Sound, DecidingSound, RoomLeft
<1>15. Len(working.proposals[p].deltas) \in Nat
  <2>1. working.proposals[p] \in Proposal
    BY <1>2, <1>4, TableTypes DEF Has, TypeInv, TypeOK
  <2>2. QED
    BY <2>1 DEF Proposal
<1> HIDE DEF p, n, entries
<1>16. /\ Cardinality(EntriesOfProposal(working', p)) <= Len(working.proposals[p].deltas)
       /\ Cardinality(EntriesOfProposal(working', p)) + Len(todo'[t]) <= Len(working.proposals[p].deltas)
  <2>1. \A c, l, m, r \in Nat : c + l <= r /\ l >= 1 /\ m = l - 1 => c + 1 <= r /\ c + 1 + m <= r
    OBVIOUS
  <2>2. Len(todo'[t]) \in Nat
    BY <1>7
  <2>3. QED
    BY <1>7, <1>12, <1>13, <1>14, <1>15, <2>1, <2>2
<1>17. TablesSound(working')
  <2>1. AppliedSound(working')
    <3>1. SUFFICES ASSUME NEW q \in Proposals, EntriesOfProposal(working', q) # {}
                   PROVE  /\ Has(working', q, "confirmed")
                          /\ Cardinality(EntriesOfProposal(working', q))
                               <= Len(working'.proposals[q].deltas)
      BY DEF AppliedSound
    <3>2. CASE q = p
      BY <1>1, <1>4, <1>16, <3>2 DEF Has
    <3>3. CASE q # p
      BY <1>1, <1>11, <3>1, <3>3 DEF Sound, TablesSound, AppliedSound, Has
    <3>4. QED
      BY <3>2, <3>3
  <2>2. FeedSound(working')
    BY <1>1 DEF Sound, TablesSound, FeedSound, Has
  <2>3. QED
    BY <2>1, <2>2 DEF TablesSound
<1>18. Kept(t)' /\ DecisionMade(t)' /\ RoomLeft(t)'
  <2>1. Holds(working, req[t].kind, p)
    BY <1>2, <1>4, OutcomeHolds DEF Outcome
  <2>2. Kept(t)'
    BY <1>1, <2>1 DEF Kept, Holds, p
  <2>3. DecisionMade(t)'
    BY <1>1, <1>2, <1>4 DEF DecisionMade, Has, Outcome, p
  <2>4. RoomLeft(t)'
    BY <1>1, <1>16 DEF RoomLeft, p
  <2>5. QED
    BY <2>2, <2>3, <2>4
<1>19. ASSUME NEW u \in Threads, u # t PROVE DecisionMade(u)' /\ RoomLeft(u)'
  <2>1. Deciding(u) => req[u].proposal # p
    BY <1>3, <1>19 DEF Sound, DecidingSound, OneDecides, p
  <2>2. Deciding(u) =>
          EntriesOfProposal(working', req[u].proposal) = EntriesOfProposal(working, req[u].proposal)
    BY <1>11, <2>1
  <2>3. QED
    BY <1>1, <1>6, <1>19, <2>2, DecidingStays DEF Sound, DecidingSound
<1>20. OneDecides'
  BY <1>1, <1>3, <1>6, StillOne DEF Sound, DecidingSound
<1>21. DecidingSound'
  BY <1>18, <1>19, <1>20 DEF DecidingSound
<1>22. AnswersSound'
  BY <1>5, <1>18, WriteAnswers DEF Sound
<1>23. QED
  BY <1>6, <1>17, <1>21, <1>22 DEF Sound

(* The thread that decided a proposal announces it once.                   *)
LEMMA AppendEventSound ==
  ASSUME TypeInv, Sound, NEW t \in Threads, AppendEvent(t)
  PROVE  Sound'
<1> DEFINE p == req[t].proposal
           k == req[t].kind
<1>1. /\ working'.proposals = working.proposals /\ working'.history = working.history
      /\ <<k, p>> \in Kinds \X Proposals
      /\ working'.feed = [working.feed EXCEPT ![<<k, p>>] = @ + 1]
      /\ pc[t] = "notify" /\ pc'[t] = "announce" /\ req'[t] = req[t]
  BY EventTables
<1>2. Writes(t)
  BY DEF Writes
<1>3. durable' = durable /\ OthersSame(t)
  BY <1>2, WriteEffect
<1>4. working.feed \in [Kinds \X Proposals -> Nat]
  BY DEF TypeInv, TypeOK, Database
<1>5. k \in Kinds /\ p \in Proposals
  BY <1>1
<1>6. ASSUME NEW q \in Proposals, NEW l \in Kinds
      PROVE  working'.feed[<<l, q>>] = working.feed[<<l, q>>] + (IF l = k /\ q = p THEN 1 ELSE 0)
  <2>1. <<l, q>> \in Kinds \X Proposals
    OBVIOUS
  <2>2. <<l, q>> = <<k, p>> <=> (l = k /\ q = p)
    OBVIOUS
  <2>3. working.feed[<<l, q>>] \in Nat
    BY <1>4, <2>1
  <2> HIDE DEF k, p
  <2>4. CASE l = k /\ q = p
    BY <1>1, <1>4, <2>1, <2>4
  <2>5. CASE ~(l = k /\ q = p)
    <3>1. working'.feed[<<l, q>>] = working.feed[<<l, q>>]
      BY <1>1, <1>4, <2>1, <2>2, <2>5
    <3>2. QED
      BY <2>3, <2>5, <3>1
  <2>6. QED
    BY <2>4, <2>5
<1>7. ASSUME k \in Decisions
      PROVE  Has(working, p, Outcome(k)) /\ \A l \in Decisions : working.feed[<<l, p>>] = 0
  BY <1>1, <1>7 DEF Sound, DecidingSound, DecisionMade, Deciding
<1>8. ASSUME NEW u \in Threads, u # t, Deciding(u), k \in Decisions PROVE req[u].proposal # p
  BY <1>1, <1>8 DEF Sound, DecidingSound, OneDecides, Deciding
<1>9. \A l \in Decisions : l \in Kinds
  BY DEF Decisions
<1>10. req[t].kind = k /\ req[t].proposal = p
  OBVIOUS
<1> HIDE DEF p, k
<1>11. FeedSound(working')
  <2>1. SUFFICES ASSUME NEW q \in Proposals, NEW l \in Decisions, working'.feed[<<l, q>>] > 0
                 PROVE  /\ Has(working', q, Outcome(l))
                        /\ working'.feed[<<l, q>>] = 1
                        /\ \A m \in Decisions : working'.feed[<<m, q>>] > 0 => m = l
    BY DEF FeedSound
  <2>2. \A m \in Decisions : working.feed[<<m, q>>] \in Nat
    BY <1>4, <1>9
  <2>3. CASE q = p /\ k \in Decisions
    <3>1. \A m \in Decisions : working'.feed[<<m, q>>] = IF m = k THEN 1 ELSE 0
      BY <1>6, <1>7, <1>9, <2>3
    <3>2. QED
      BY <1>1, <1>7, <2>1, <2>3, <3>1 DEF Has
  <2>4. CASE ~(q = p /\ k \in Decisions)
    <3>1. \A m \in Decisions : working'.feed[<<m, q>>] = working.feed[<<m, q>>]
      BY <1>6, <1>9, <2>2, <2>4
    <3>2. QED
      BY <1>1, <2>1, <3>1 DEF Sound, TablesSound, FeedSound, Has
  <2>5. QED
    BY <2>3, <2>4
<1>12. AppliedSound(working')
  BY <1>1 DEF Sound, TablesSound, AppliedSound, EntriesOfProposal, Has
<1>13. ~Deciding(t)' /\ pc'[t] \notin Applying
  BY <1>1 DEF Deciding, InTransaction, Applying
<1>14. DecisionMade(t)' /\ RoomLeft(t)'
  BY <1>13 DEF DecisionMade, RoomLeft
<1>15. Kept(t)'
  BY <1>1, <1>3 DEF Sound, AnswersSound, Kept
<1>16. ASSUME NEW u \in Threads, u # t PROVE DecisionMade(u)' /\ RoomLeft(u)'
  <2>1. EntriesOfProposal(working', req[u].proposal) = EntriesOfProposal(working, req[u].proposal)
    BY <1>1 DEF EntriesOfProposal
  <2>2. ASSUME Deciding(u), NEW l \in Decisions
        PROVE  working'.feed[<<l, req[u].proposal>>] = working.feed[<<l, req[u].proposal>>]
    <3>1. req[u].proposal \in Proposals
      BY <2>2, RequestFields DEF Deciding, TypeInv, ThreadOK, Busy, InTransaction, Applying
    <3>2. working.feed[<<l, req[u].proposal>>] \in Nat
      BY <1>4, <1>9, <3>1
    <3>3. ~(l = k /\ req[u].proposal = p)
      BY <1>8, <1>16, <2>2
    <3>4. QED
      BY <1>6, <1>9, <3>1, <3>2, <3>3
  <2>3. QED
    BY <1>1, <1>3, <1>16, <2>1, <2>2, DecidingStays DEF Sound, DecidingSound
<1>17. OneDecides'
  BY <1>3, <1>13, StillOne DEF Sound, DecidingSound
<1>18. DecidingSound'
  BY <1>14, <1>16, <1>17 DEF DecidingSound
<1>19. AnswersSound'
  BY <1>2, <1>15, WriteAnswers DEF Sound
<1>20. QED
  BY <1>3, <1>11, <1>12, <1>18, <1>19 DEF Sound, TablesSound

LEMMA CommitSound ==
  ASSUME TypeInv, ConnectionInv, Sound, NEW t \in Threads, Commits(t)
  PROVE  Sound'
<1>1. /\ working' = working /\ durable' \in {working, durable} /\ OthersSame(t)
      /\ (durable' = working \/ (pc[t] = "engage" /\ pc'[t] = "idle"))
      /\ CommitStep(t)
  BY CommitEffect
<1>2. TablesSound(working') /\ TablesSound(durable')
  BY <1>1 DEF Sound
<1>3. Deciding(t)' => Deciding(t) /\ req'[t] = req[t]
  BY <1>1 DEF CommitStep, Deciding, InTransaction, Applying, Decisions, TypeInv, ThreadOK
<1>4. pc'[t] \notin Applying
  BY <1>1 DEF CommitStep, Applying
<1>5. DecisionMade(t)' /\ RoomLeft(t)'
  BY <1>1, <1>3, <1>4 DEF Sound, DecidingSound, DecisionMade, RoomLeft
<1>6. ASSUME NEW u \in Threads, u # t PROVE DecisionMade(u)' /\ RoomLeft(u)'
  BY <1>1, <1>6, DecidingStays DEF Sound, DecidingSound
<1>7. OneDecides'
  BY <1>1, <1>3, StillOne DEF Sound, DecidingSound
<1>8. ASSUME NEW k \in Kinds, NEW p \in Proposals, Holds(durable, k, p) PROVE Holds(durable', k, p)
  BY <1>1, <1>8, DurableHolds
<1>9. ASSUME NEW u \in Threads, pc[u] \in {"account", "notify", "announce", "engage"}
      PROVE  /\ Holds(durable', req[u].kind, req[u].proposal)
             /\ <<req[u].kind, req[u].proposal>> \in Kinds \X Proposals
  BY <1>8, <1>9, RequestFields DEF Sound, AnswersSound, Kept, TypeInv, ThreadOK, Busy
<1>10. Kept(t)'
  <2>1. CASE pc[t] = "commit"
    <3>1. durable' = working /\ Holds(working, req[t].kind, req[t].proposal) /\ req'[t] = req[t]
      BY <1>1, <2>1 DEF CommitStep, Sound, AnswersSound, Kept
    <3>2. QED
      BY <1>1, <2>1, <3>1 DEF CommitStep, Kept
  <2>2. CASE pc[t] \in {"account", "announce"}
    <3>1. Holds(durable', req[t].kind, req[t].proposal) /\ req'[t] = req[t]
      BY <1>1, <1>9, <2>2 DEF CommitStep
    <3>2. QED
      BY <1>1, <2>2, <3>1 DEF CommitStep, Kept
  <2>3. CASE pc[t] = "engage"
    BY <1>1, <2>3 DEF CommitStep, Kept
  <2>4. QED
    BY <1>1, <2>1, <2>2, <2>3 DEF CommitStep
<1>11. ASSUME NEW u \in Threads, u # t PROVE Kept(u)'
  <2>1. pc'[u] = pc[u] /\ req'[u] = req[u] /\ Kept(u)
    BY <1>1, <1>11 DEF OthersSame, Sound, AnswersSound
  <2>2. QED
    BY <1>1, <1>9, <2>1 DEF Kept
<1>12. \A a \in answered' : Holds(durable', a[1], a[2])
  <2>1. ASSUME NEW a \in answered PROVE Holds(durable', a[1], a[2])
    <3>1. a[1] \in Kinds /\ a[2] \in Proposals
      BY <2>1 DEF TypeInv, TypeOK
    <3>2. QED
      BY <1>8, <2>1, <3>1 DEF Sound, AnswersSound
  <2>2. CASE answered' = answered
    BY <2>1, <2>2
  <2>3. CASE pc[t] = "engage" /\ answered' = answered \union {<<req[t].kind, req[t].proposal>>}
    <3>1. Holds(durable', req[t].kind, req[t].proposal)
      BY <1>9, <2>3
    <3>2. QED
      BY <2>1, <2>3, <3>1
  <2>4. QED
    BY <1>1, <2>2, <2>3 DEF CommitStep
<1>13. QED
  BY <1>2, <1>5, <1>6, <1>7, <1>10, <1>11, <1>12 DEF Sound, DecidingSound, AnswersSound

(* A rollback that takes no transaction of another thread with it.         *)
LEMMA RollBackSound ==
  ASSUME TypeInv, ConnectionInv, Sound, NEW t \in Threads, RollsBack(t), ~torn'
  PROVE  Sound'
<1>1. /\ working' = durable /\ durable' = durable /\ answered' = answered
      /\ pc'[t] = "idle" /\ OthersSame(t)
      /\ torn' = (torn \/ \E u \in Threads \ {t} : pc[u] \in Uncommitted)
  BY RollBackEffect
<1>2. TablesSound(working') /\ TablesSound(durable')
  BY <1>1 DEF Sound
<1>3. ~Deciding(t)' /\ pc'[t] \notin Applying /\ Kept(t)'
  BY <1>1 DEF Deciding, Applying, InTransaction, Kept
<1>4. ASSUME NEW u \in Threads, u # t
      PROVE  pc'[u] = pc[u] /\ req'[u] = req[u] /\ pc[u] \notin Uncommitted
  BY <1>1, <1>4 DEF OthersSame
<1>5. ASSUME NEW u \in Threads, u # t PROVE DecisionMade(u)'
  <2>1. SUFFICES ASSUME Deciding(u)
                 PROVE  /\ Has(durable, req[u].proposal, Outcome(req[u].kind))
                        /\ \A k \in Decisions : durable.feed[<<k, req[u].proposal>>] = 0
    BY <1>1, <1>4, <1>5 DEF DecisionMade, Deciding
  <2>2. pc[u] = "notify" /\ req[u].kind \in Decisions /\ req[u].proposal \in Proposals
    BY <1>4, <1>5, <2>1, RequestFields DEF Deciding, Uncommitted, TypeInv, ThreadOK, Busy
  <2>3. Has(durable, req[u].proposal, Outcome(req[u].kind))
    BY <2>2, OutcomeHolds DEF Sound, AnswersSound, Kept
  <2>4. ASSUME NEW k \in Decisions PROVE durable.feed[<<k, req[u].proposal>>] = 0
    <3>1. <<k, req[u].proposal>> \in Kinds \X Proposals
      BY <2>2 DEF Decisions
    <3>2. /\ durable.feed[<<k, req[u].proposal>>] <= working.feed[<<k, req[u].proposal>>]
          /\ durable.feed[<<k, req[u].proposal>>] \in Nat
      BY <3>1, TableTypes DEF ConnectionInv, Growing, TypeInv, TypeOK
    <3>3. working.feed[<<k, req[u].proposal>>] = 0
      BY <2>1 DEF Sound, DecidingSound, DecisionMade
    <3>4. QED
      BY <3>2, <3>3
  <2>5. QED
    BY <2>3, <2>4
<1>6. ASSUME NEW u \in Threads, u # t PROVE RoomLeft(u)' /\ Kept(u)'
  <2>1. pc'[u] \notin Applying /\ pc'[u] # "commit"
    BY <1>4, <1>6 DEF Uncommitted, InTransaction, Applying
  <2>2. RoomLeft(u)'
    BY <2>1 DEF RoomLeft
  <2>3. Kept(u)'
    BY <1>1, <1>4, <1>6, <2>1 DEF Sound, AnswersSound, Kept
  <2>4. QED
    BY <2>2, <2>3
<1>7. DecisionMade(t)' /\ RoomLeft(t)'
  BY <1>3 DEF DecisionMade, RoomLeft
<1>8. OneDecides'
  BY <1>1, <1>3, StillOne DEF Sound, DecidingSound
<1>9. \A a \in answered' : Holds(durable', a[1], a[2])
  BY <1>1 DEF Sound, AnswersSound
<1>10. QED
  BY <1>2, <1>3, <1>5, <1>6, <1>7, <1>8, <1>9 DEF Sound, DecidingSound, AnswersSound

LEMMA RestartSound ==
  ASSUME TypeInv, Sound, Restart
  PROVE  Sound'
<1>1. /\ working' = durable /\ durable' = durable /\ answered' = answered
      /\ \A t \in Threads : pc'[t] = "idle"
  BY RestartEffect
<1>2. \A t \in Threads : ~Deciding(t)' /\ pc'[t] \notin Applying /\ Kept(t)'
  BY <1>1 DEF Deciding, Applying, InTransaction, Kept
<1>3. DecidingSound'
  BY <1>2 DEF DecidingSound, DecisionMade, RoomLeft, OneDecides
<1>4. AnswersSound'
  BY <1>1, <1>2 DEF Sound, AnswersSound
<1>5. QED
  BY <1>1, <1>3, <1>4 DEF Sound

LEMMA InitDecision == Init => DecisionInv
<1> SUFFICES ASSUME Init PROVE Sound
  BY DEF DecisionInv
<1>1. /\ working = EmptyDatabase /\ durable = EmptyDatabase /\ answered = {}
      /\ \A t \in Threads : pc[t] = "idle"
  BY DEF Init
<1>2. /\ \A p : EntriesOfProposal(EmptyDatabase, p) = {}
      /\ \A k \in Decisions, p \in Proposals : EmptyDatabase.feed[<<k, p>>] = 0
  <2>1. DOMAIN EmptyDatabase.history = {}
    BY DEF EmptyDatabase
  <2>2. \A k \in Decisions, p \in Proposals : <<k, p>> \in Kinds \X Proposals
    BY DEF Decisions
  <2>3. \A a \in Kinds \X Proposals : EmptyDatabase.feed[a] = 0
    BY DEF EmptyDatabase
  <2>4. QED
    BY <2>1, <2>2, <2>3 DEF EntriesOfProposal
<1>3. TablesSound(EmptyDatabase)
  BY <1>2 DEF TablesSound, AppliedSound, FeedSound
<1>4. \A t \in Threads : ~Deciding(t) /\ pc[t] \notin Applying /\ Kept(t)
  BY <1>1 DEF Deciding, Applying, InTransaction, Kept
<1>5. DecidingSound
  BY <1>4 DEF DecidingSound, DecisionMade, RoomLeft, OneDecides
<1>6. AnswersSound
  BY <1>1, <1>4 DEF AnswersSound
<1>7. QED
  BY <1>1, <1>3, <1>5, <1>6 DEF Sound

LEMMA TornStays == TypeInv /\ [Next]_vars /\ torn => torn'
<1> SUFFICES ASSUME TypeInv, [Next]_vars, torn PROVE torn'
  OBVIOUS
<1>1. CASE Restart
  BY <1>1, RestartEffect
<1>2. ASSUME NEW t \in Threads, Serve(t) PROVE torn'
  BY <1>2, ServeCases, WriteEffect, CommitEffect, RollBackEffect, ReadEffect
<1>3. CASE UNCHANGED vars
  BY <1>3 DEF vars, historyVars
<1>4. QED
  BY <1>1, <1>2, <1>3 DEF Next

LEMMA DecisionInductive ==
  TypeInv /\ ConnectionInv /\ DecisionInv /\ [Next]_vars => DecisionInv'
<1> SUFFICES ASSUME TypeInv, ConnectionInv, DecisionInv, [Next]_vars, ~torn'
             PROVE  Sound'
  BY DEF DecisionInv
<1>1. Sound
  BY TornStays DEF DecisionInv
<1>2. CASE Restart
  BY <1>1, <1>2, RestartSound
<1>3. ASSUME NEW t \in Threads, Serve(t) PROVE Sound'
  <2>1. CASE Writes(t)
    BY <1>1, <2>1, SavePendingSound, ClaimSound, ItemSound, RecordSound, AppendEventSound DEF Writes
  <2>2. CASE Commits(t)
    BY <1>1, <2>2, CommitSound
  <2>3. CASE RollsBack(t)
    BY <1>1, <2>3, RollBackSound
  <2>4. CASE FindForDelta(t) \/ \E r \in Requests : ReadProposal(t, r)
    BY <1>1, <2>4, FindSound, ReadProposalSound
  <2>5. QED
    BY <1>3, <2>1, <2>2, <2>3, <2>4, ServeCases
<1>4. CASE UNCHANGED vars
  <2>1. /\ working' = working /\ durable' = durable /\ answered' = answered
        /\ pc' = pc /\ req' = req /\ todo' = todo
    BY <1>4 DEF vars, connectionVars, threadVars, historyVars
  <2>2. QED
    BY <1>1, <2>1 DEF Sound, DecidingSound, DecisionMade, RoomLeft, OneDecides, Deciding,
       AnswersSound, Kept
<1>5. QED
  BY <1>2, <1>3, <1>4 DEF Next

LEMMA DecisionHolds == Spec => []DecisionInv
BY InitDecision, DecisionInductive, TypeHolds, ConnectionHolds, PTL DEF Spec

(* Whatever the requests, their interleavings and the failures, a proposal *)
(* is confirmed when its history is there, and has at most one entry for   *)
(* each of its deltas, until a rollback takes the transaction of another   *)
(* request with it.                                                        *)
THEOREM AppliedOnceUnlessTornCorrect == Spec => []AppliedOnceUnlessTorn
<1>1. DecisionInv => AppliedOnceUnlessTorn
  BY DEF DecisionInv, Sound, TablesSound, AppliedSound, Has,
     AppliedOnceUnlessTorn, NeverAppliedTwice, AppliedIfConfirmed
<1>2. QED
  BY <1>1, DecisionHolds, PTL

(* Until then, a decision that was answered is the one in the tables, and  *)
(* the feed announces it once and no other.                                *)
THEOREM AnswersHoldUnlessTornCorrect == Spec => []AnswersHoldUnlessTorn
<1>1. TypeInv /\ DecisionInv => AnswersHoldUnlessTorn
  <2> SUFFICES ASSUME TypeInv, Sound PROVE AnswersHold
    BY DEF DecisionInv, AnswersHoldUnlessTorn
  <2>1. \A a \in answered :
          durable.proposals[a[2]] # None /\ durable.proposals[a[2]].status \in Decided(a[1])
    BY DEF Sound, AnswersSound, Holds
  <2>2. QED
    BY <2>1 DEF Sound, TablesSound, FeedSound, AnswersHold, Decisions
<1>2. QED
  BY <1>1, TypeHolds, DecisionHolds, PTL

-----------------------------------------------------------------------------
(* Which requests are under way, and for which items.                      *)
LEMMA InitScope == Init => ScopeInv
<1> SUFFICES ASSUME Init PROVE ScopeInv
  OBVIOUS
<1>1. \A t \in Threads : pc[t] = "idle"
  BY DEF Init
<1>2. \A p \in Proposals : EmptyDatabase.proposals[p] = None
  BY DEF EmptyDatabase
<1>3. working = EmptyDatabase /\ durable = EmptyDatabase
  BY DEF Init
<1>4. QED
  BY <1>1, <1>2, <1>3 DEF ScopeInv, OverlapInv, Busy, Captured, Has, TodoInv, Applying

(* The thread goes on with its request, or stops.                          *)
LEMMA OverlapStays ==
  ASSUME OverlapInv, NEW t \in Threads, OthersSame(t), Busy(t)' => Busy(t) /\ req'[t] = req[t]
  PROVE  OverlapInv'
<1>1. ASSUME NEW u \in Threads, Busy(u)' PROVE Busy(u) /\ req'[u] = req[u]
  BY <1>1 DEF OthersSame, Busy
<1>2. QED
  BY <1>1 DEF OverlapInv

LEMMA TodoStays ==
  ASSUME TodoInv, NEW t \in Threads, OthersSame(t),
         pc'[t] \in {"claim"} \union Applying /\ req'[t].kind # "reject" =>
           NamesIn(todo'[t]) \subseteq ItemsOf(req'[t])
  PROVE  TodoInv'
<1>1. ASSUME NEW u \in Threads, u # t,
             pc'[u] \in {"claim"} \union Applying, req'[u].kind # "reject"
      PROVE  NamesIn(todo'[u]) \subseteq ItemsOf(req'[u])
  BY <1>1 DEF OthersSame, TodoInv
<1>2. QED
  BY <1>1 DEF TodoInv

LEMMA ScopeInductive == TypeInv /\ ScopeInv /\ [Next]_vars => ScopeInv'
<1> SUFFICES ASSUME TypeInv, ScopeInv, [Next]_vars PROVE ScopeInv'
  OBVIOUS
<1>1. CASE Restart
  <2>1. working' = durable /\ durable' = durable /\ \A t \in Threads : pc'[t] = "idle"
    BY <1>1, RestartEffect
  <2>2. QED
    BY <2>1 DEF ScopeInv, OverlapInv, Busy, Captured, TodoInv, Applying
<1>2. ASSUME NEW t \in Threads, NEW r \in Requests, SavePending(t, r) PROVE ScopeInv'
  <2> DEFINE new == [status |-> "pending", deltas |-> Parsed[r.proposal]]
  <2>1. /\ r.proposal \in Proposals
        /\ working'.proposals = [working.proposals EXCEPT ![r.proposal] = new]
        /\ pc'[t] = "commit" /\ req'[t] = r
        /\ \A u \in Threads : Busy(u) => <<req[u], r>> \in Overlaps
    BY <1>2, SavePendingTables
  <2>2. durable' = durable /\ OthersSame(t)
    BY <1>2, WriteEffect DEF Writes
  <2>3. OverlapInv'
    BY <2>1, <2>2 DEF OthersSame, OverlapInv, Busy, ScopeInv
  <2>4. TodoInv'
    BY <2>1, <2>2, TodoStays DEF ScopeInv, Applying
  <2>5. working.proposals \in [Proposals -> Proposal \union {None}]
    BY DEF TypeInv, TypeOK, Database
  <2>6. new.deltas = Parsed[r.proposal]
    OBVIOUS
  <2> HIDE DEF new
  <2>7. ASSUME NEW p \in Proposals, Has(working', p, "pending")
        PROVE  working'.proposals[p].deltas = Parsed[p]
    <3>1. CASE p = r.proposal
      BY <2>1, <2>5, <2>6, <3>1
    <3>2. CASE p # r.proposal
      <4>1. working'.proposals[p] = working.proposals[p]
        BY <2>1, <2>5, <3>2
      <4>2. QED
        BY <2>7, <4>1 DEF ScopeInv, Captured, Has
    <3>3. QED
      BY <3>1, <3>2
  <2>8. Captured(working') /\ Captured(durable')
    BY <2>2, <2>7 DEF ScopeInv, Captured
  <2>9. QED
    BY <2>3, <2>4, <2>8 DEF ScopeInv
<1>3. ASSUME NEW t \in Threads, NEW r \in Requests, ReadProposal(t, r) PROVE ScopeInv'
  <2>1. working' = working /\ durable' = durable /\ OthersSame(t)
    BY <1>3, ReadEffect
  <2>2. /\ pc'[t] = "claim" /\ req'[t] = r /\ r.kind # "capture"
        /\ todo'[t] = IF r.kind = "correct" THEN r.deltas ELSE working.proposals[r.proposal].deltas
        /\ Has(working, r.proposal, "pending")
        /\ \A u \in Threads : Busy(u) => <<req[u], r>> \in Overlaps
    BY <1>3 DEF ReadProposal, Allowed, Goto, TypeInv, TypeOK, Has, Busy
  <2>3. OverlapInv'
    BY <2>1, <2>2 DEF OthersSame, OverlapInv, Busy, ScopeInv
  <2>4. working.proposals[r.proposal].deltas = Parsed[r.proposal]
    BY <2>2, RequestFields DEF ScopeInv, Captured
  <2>5. todo'[t] = DeltasOf(r)
    BY <2>2, <2>4 DEF DeltasOf
  <2>6. TodoInv'
    BY <2>1, <2>2, <2>5, TodoStays DEF ScopeInv, ItemsOf
  <2>7. QED
    BY <2>1, <2>3, <2>6 DEF ScopeInv
<1>4. ASSUME NEW t \in Threads, Claim(t) PROVE ScopeInv'
  <2> DEFINE p == req[t].proposal
             new == [status |-> Outcome(req[t].kind), deltas |-> todo[t]]
  <2>1. /\ p \in Proposals /\ pc[t] = "claim" /\ pc'[t] \in {"commit", "find"}
        /\ working'.proposals = [working.proposals EXCEPT ![p] = new]
        /\ req'[t] = req[t] /\ todo'[t] = todo[t]
    BY <1>4, ClaimTables
  <2>2. durable' = durable /\ OthersSame(t)
    BY <1>4, WriteEffect DEF Writes
  <2>3. OverlapInv'
    BY <2>1, <2>2, OverlapStays DEF ScopeInv, Busy
  <2>4. TodoInv'
    BY <2>1, <2>2, TodoStays DEF ScopeInv, TodoInv
  <2>5. working.proposals \in [Proposals -> Proposal \union {None}]
    BY DEF TypeInv, TypeOK, Database
  <2>6. new.status # "pending"
    BY DEF Outcome
  <2> HIDE DEF new, p
  <2>7. ASSUME NEW q \in Proposals, Has(working', q, "pending")
        PROVE  working'.proposals[q].deltas = Parsed[q]
    <3>1. CASE q = p
      BY <2>1, <2>5, <2>6, <2>7, <3>1 DEF Has
    <3>2. CASE q # p
      <4>1. working'.proposals[q] = working.proposals[q]
        BY <2>1, <2>5, <3>2
      <4>2. QED
        BY <2>7, <4>1 DEF ScopeInv, Captured, Has
    <3>3. QED
      BY <3>1, <3>2
  <2>8. Captured(working') /\ Captured(durable')
    BY <2>2, <2>7 DEF ScopeInv, Captured
  <2>9. QED
    BY <2>3, <2>4, <2>8 DEF ScopeInv
<1>5. ASSUME NEW t \in Threads,
             InsertItem(t) \/ UpdateItem(t) \/ RecordHistory(t) \/ AppendEvent(t) \/ FindForDelta(t)
      PROVE  ScopeInv'
  <2>1. durable' = durable /\ OthersSame(t) /\ working'.proposals = working.proposals
    BY <1>5, WriteEffect, ReadEffect, ItemTables, HistoryTables, EventTables DEF Writes
  <2>2. Busy(t) /\ req'[t] = req[t]
    BY <1>5, ItemTables, HistoryTables, EventTables DEF Busy, FindForDelta
  <2>3. OverlapInv'
    BY <2>1, <2>2, OverlapStays DEF ScopeInv
  <2>4. ASSUME pc'[t] \in {"claim"} \union Applying
        PROVE  pc[t] \in Applying /\ todo'[t] \in {todo[t], Tail(todo[t])}
    BY <1>5, <2>4, ItemTables, HistoryTables, EventTables
       DEF Applying, FindForDelta, Goto, TypeInv, TypeOK
  <2>5. ASSUME pc'[t] \in {"claim"} \union Applying, req'[t].kind # "reject"
        PROVE  NamesIn(todo'[t]) \subseteq ItemsOf(req'[t])
    <3>1. pc[t] \in Applying /\ todo[t] \in Seq(Delta) /\ todo[t] # <<>>
      BY <2>4, <2>5 DEF TypeInv, TypeOK, ThreadOK
    <3>2. NamesIn(todo[t]) \subseteq ItemsOf(req[t])
      BY <2>2, <2>5, <3>1 DEF ScopeInv, TodoInv
    <3>3. \A i \in DOMAIN Tail(todo[t]) :
            i + 1 \in DOMAIN todo[t] /\ Tail(todo[t])[i] = todo[t][i + 1]
      BY <3>1
    <3>4. NamesIn(Tail(todo[t])) \subseteq NamesIn(todo[t])
      BY <3>3 DEF NamesIn
    <3>5. QED
      BY <2>2, <2>4, <2>5, <3>2, <3>4
  <2>6. TodoInv'
    BY <2>1, <2>5, TodoStays DEF ScopeInv
  <2>7. Captured(working') /\ Captured(durable')
    BY <2>1 DEF ScopeInv, Captured, Has
  <2>8. QED
    BY <2>3, <2>6, <2>7 DEF ScopeInv
<1>6. ASSUME NEW t \in Threads, Commits(t) \/ RollsBack(t) PROVE ScopeInv'
  <2>1. /\ working' \in {working, durable} /\ durable' \in {working, durable} /\ OthersSame(t)
        /\ pc'[t] \notin {"claim"} \union Applying
    BY <1>6, CommitEffect, RollBackEffect DEF CommitStep, Applying
  <2>2. Busy(t)' => Busy(t) /\ req'[t] = req[t]
    BY <1>6, CommitEffect, RollBackEffect DEF CommitStep, Busy
  <2>3. OverlapInv'
    BY <2>1, <2>2, OverlapStays DEF ScopeInv
  <2>4. TodoInv'
    BY <2>1, TodoStays DEF ScopeInv
  <2>5. Captured(working') /\ Captured(durable')
    BY <2>1 DEF ScopeInv
  <2>6. QED
    BY <2>3, <2>4, <2>5 DEF ScopeInv
<1>7. CASE UNCHANGED vars
  BY <1>7 DEF vars, connectionVars, threadVars, ScopeInv, OverlapInv, Busy, TodoInv
<1>8. ASSUME NEW t \in Threads, Serve(t) PROVE ScopeInv'
  BY <1>2, <1>3, <1>4, <1>5, <1>6, <1>8, ServeCases DEF Writes
<1>9. QED
  BY <1>1, <1>7, <1>8 DEF Next

LEMMA ScopeHolds == Spec => []ScopeInv
BY InitScope, ScopeInductive, TypeHolds, PTL DEF Spec

-----------------------------------------------------------------------------
(* Threads that apply deltas at the same time apply them to other items.   *)
LEMMA HeadsApart ==
  ASSUME TypeInv, Sound, ScopeInv, ItemsApart, NEW t \in Threads, NEW u \in Threads, t # u,
         pc[t] \in Applying, pc[u] \in Applying
  PROVE  CurrentDelta(t).name # CurrentDelta(u).name
<1>1. ASSUME NEW v \in Threads, pc[v] \in Applying
      PROVE  /\ Deciding(v) /\ Busy(v) /\ req[v] \in Requests
             /\ CurrentDelta(v).name \in ItemsOf(req[v])
  <2>1. /\ todo[v] \in Seq(Delta) /\ todo[v] # <<>>
        /\ req[v] \in Requests /\ req[v].kind \in Decisions /\ req[v].kind # "reject"
    BY <1>1 DEF TypeInv, TypeOK, ThreadOK, Busy, Applying
  <2>2. Deciding(v) /\ Busy(v)
    BY <1>1, <2>1 DEF Deciding, Busy, Applying, InTransaction
  <2>3. CurrentDelta(v) = todo[v][1] /\ 1 \in DOMAIN todo[v]
    BY <2>1, TodoFields DEF CurrentDelta
  <2>4. CurrentDelta(v).name \in NamesIn(todo[v])
    BY <2>3 DEF NamesIn
  <2>5. QED
    BY <1>1, <2>1, <2>2, <2>4 DEF ScopeInv, TodoInv
<1>2. req[t].proposal # req[u].proposal
  BY <1>1 DEF Sound, DecidingSound, OneDecides
<1>3. <<req[t], req[u]>> \in Overlaps \/ <<req[u], req[t]>> \in Overlaps
  BY <1>1 DEF ScopeInv, OverlapInv
<1>4. ItemsOf(req[t]) \intersect ItemsOf(req[u]) = {}
  BY <1>1, <1>2, <1>3 DEF ItemsApart
<1>5. QED
  BY <1>1, <1>4

(* Where requests do not overlap, one thread at most is in one.            *)
LEMMA OneBusy ==
  ASSUME ScopeInv, Serial
  PROVE  \A t, u \in Threads : Busy(t) /\ Busy(u) => t = u
BY DEF ScopeInv, OverlapInv, Serial

(* The rows of a table that has one of each.                               *)
LEMMA SameRow ==
  ASSUME NEW db, Distinct(db), NEW row, NEW other, RowIn(db, row), RowIn(db, other),
         row.id = other.id \/ row.name = other.name
  PROVE  row = other
<1>1. PICK i \in DOMAIN db.items : db.items[i] = row
  BY DEF RowIn
<1>2. PICK j \in DOMAIN db.items : db.items[j] = other
  BY DEF RowIn
<1>3. i = j
  BY <1>1, <1>2 DEF Distinct
<1>4. QED
  BY <1>1, <1>2, <1>3

(* The items and their history as they were, and the thread without a row  *)
(* in hand.                                                                *)
LEMMA SameItems ==
  ASSUME ItemsGood, NEW t \in Threads, OthersSame(t),
         working'.items = working.items, working'.history = working.history,
         durable' = durable, parted' = parted, halved' = halved,
         pc[t] # "record", pc'[t] \notin {"write", "record"}
  PROVE  ItemsGood'
<1>1. ItemIds(working') = ItemIds(working)
  BY DEF ItemIds
<1>2. ItemsSound(working')
  BY <1>1 DEF ItemsGood, ItemsSound, Distinct, Chained, StartsWhereLeft, Left, EntriesOfItem
<1>3. ASSUME NEW u \in Threads PROVE FoundSound(u)' /\ WrittenSound(u)'
  <2>1. CASE u = t
    BY <2>1 DEF FoundSound, WrittenSound
  <2>2. CASE u # t
    <3>1. pc'[u] = pc[u] /\ held'[u] = held[u] /\ todo'[u] = todo[u]
      BY <2>2 DEF OthersSame
    <3>2. FoundSound(u)'
      BY <3>1 DEF ItemsGood, FoundSound, RowsNamed, RowIn, CurrentDelta
    <3>3. WrittenSound(u)'
      <4>1. \A id : EntriesOfItem(working', id) = EntriesOfItem(working, id)
        BY DEF EntriesOfItem
      <4>2. \A entries, quantity : Left(working', entries, quantity) <=> Left(working, entries, quantity)
        BY DEF Left
      <4>3. \A row : RowIn(working', row) <=> RowIn(working, row)
        BY DEF RowIn
      <4>4. QED
        BY <3>1, <4>1, <4>2, <4>3 DEF ItemsGood, WrittenSound, BehindByOne, CurrentDelta
    <3>4. QED
      BY <3>2, <3>3
  <2>3. QED
    BY <2>1, <2>2
<1>4. ASSUME NEW id, BeingRecorded(id) PROVE BeingRecorded(id)'
  <2>1. PICK u \in Threads : pc[u] = "record" /\ held[u].written.id = id
    BY <1>4 DEF BeingRecorded
  <2>2. pc'[u] = "record" /\ held'[u].written.id = id
    BY <2>1 DEF OthersSame
  <2>3. QED
    BY <2>2 DEF BeingRecorded
<1>5. HistorySound'
  <2>1. SUFFICES ASSUME ~halved, NEW i \in DOMAIN working.items
                 PROVE  \/ BeingRecorded(working.items[i].id)'
                        \/ Left(working', EntriesOfItem(working', working.items[i].id),
                                working.items[i].quantity)
    BY DEF HistorySound
  <2>2. \/ BeingRecorded(working.items[i].id)
        \/ Left(working, EntriesOfItem(working, working.items[i].id), working.items[i].quantity)
    BY <2>1 DEF ItemsGood, HistorySound
  <2>3. CASE BeingRecorded(working.items[i].id)
    <3>1. \E u \in Threads : pc'[u] = "record" /\ held'[u].written.id = working.items[i].id
      BY <1>4, <2>3 DEF BeingRecorded
    <3>2. QED
      BY <3>1 DEF BeingRecorded
  <2>4. CASE Left(working, EntriesOfItem(working, working.items[i].id), working.items[i].quantity)
    BY <2>4 DEF EntriesOfItem, Left
  <2>5. QED
    BY <2>2, <2>3, <2>4
<1>6. QED
  BY <1>2, <1>3, <1>5 DEF ItemsGood, ItemsSound

LEMMA FindItems ==
  ASSUME TypeInv, ItemsGood, NEW t \in Threads, FindForDelta(t)
  PROVE  ItemsGood'
<1>1. /\ working' = working /\ durable' = durable /\ OthersSame(t)
      /\ parted' = parted /\ halved' = halved
  BY ReadEffect
<1> DEFINE delta == Head(todo[t])
           row == FindItem(working, delta.name)
           skip == row = None /\ delta.operation # "upsert"
<1>2. /\ pc[t] = "find" /\ pc'[t] = (IF ~skip THEN "write" ELSE IF Len(todo[t]) = 1 THEN "commit" ELSE "find")
      /\ held'[t] = [found |-> row, written |-> None]
      /\ todo'[t] = IF skip THEN Tail(todo[t]) ELSE todo[t]
  BY DEF FindForDelta, Goto, TypeInv, TypeOK
<1>3. CASE skip
  <2>1. pc'[t] \notin {"write", "record"}
    BY <1>2, <1>3
  <2>2. QED
    BY <1>1, <1>2, <2>1, SameItems
<1>4. CASE ~skip
  <2>1. pc'[t] = "write" /\ todo'[t] = todo[t] /\ held'[t].found = row
    BY <1>2, <1>4
  <2>2. working \in Database
    BY DEF TypeInv, TypeOK
  <2>3. /\ row = None => RowsNamed(working, delta.name) = {} /\ delta.operation = "upsert"
        /\ row # None => RowIn(working, row) /\ row.name = delta.name
    <3>1. CASE RowsNamed(working, delta.name) = {} /\ row = None
      BY <1>4, <3>1
    <3>2. CASE \E i \in RowsNamed(working, delta.name) : row = working.items[i]
      <4>1. PICK i \in RowsNamed(working, delta.name) : row = working.items[i]
        BY <3>2
      <4>2. i \in DOMAIN working.items /\ working.items[i].name = delta.name
        BY <4>1 DEF RowsNamed
      <4>3. working.items[i] # None
        BY <2>2, <4>2, TableTypes, RowFields
      <4>4. QED
        BY <4>1, <4>2, <4>3 DEF RowIn
    <3>3. QED
      BY <2>2, <3>1, <3>2, FindItemRow
  <2> HIDE DEF row, delta
  <2>4. FoundSound(t)'
    <3>1. CurrentDelta(t)' = delta
      BY <2>1 DEF CurrentDelta, delta
    <3>2. QED
      BY <1>1, <2>1, <2>3, <3>1 DEF FoundSound
  <2>5. WrittenSound(t)'
    BY <2>1 DEF WrittenSound
  <2>6. ASSUME NEW u \in Threads, u # t PROVE FoundSound(u)' /\ WrittenSound(u)'
    BY <1>1, <2>6 DEF OthersSame, ItemsGood, FoundSound, WrittenSound, BehindByOne, CurrentDelta
  <2>7. \A id : BeingRecorded(id) => BeingRecorded(id)'
    BY <1>1, <1>2 DEF OthersSame, BeingRecorded
  <2>8. HistorySound'
    BY <1>1, <2>7 DEF ItemsGood, HistorySound
  <2>9. QED
    BY <1>1, <2>4, <2>5, <2>6, <2>8 DEF ItemsGood, ItemsSound
<1>5. QED
  BY <1>3, <1>4

(* A row written for a delta, among the rows of other names.               *)
RowWritten(row) ==
  /\ Distinct(working') /\ ItemIds(working) \subseteq ItemIds(working') /\ RowIn(working', row)
  /\ \A other : RowIn(working, other) /\ other.name # row.name => RowIn(working', other)
  /\ \A other : RowIn(working', other) => other = row \/ RowIn(working, other)

LEMMA WrittenItems ==
  ASSUME TypeInv, Sound, ScopeInv, ItemsApart, ItemsGood, NEW t \in Threads, OthersSame(t),
         durable' = durable, parted' = parted, halved' = halved, working'.history = working.history,
         pc[t] = "write", pc'[t] = "record", todo'[t] = todo[t],
         NEW row, held'[t].written = row, held'[t].found = held[t].found,
         row.name = CurrentDelta(t).name,
         RowWritten(row),
         \/ halved
         \/ IF held[t].found = None THEN EntriesOfItem(working, row.id) = {}
            ELSE Left(working, EntriesOfItem(working, row.id), held[t].found.quantity)
  PROVE  ItemsGood'
<1> USE DEF RowWritten
<1>1. /\ \A id : EntriesOfItem(working', id) = EntriesOfItem(working, id)
      /\ \A entries, quantity : Left(working', entries, quantity) <=> Left(working, entries, quantity)
  BY DEF EntriesOfItem, Left
<1>2. ItemsSound(working')
  <2>1. \A k \in DOMAIN working'.history : working'.history[k].item \in ItemIds(working')
    BY DEF ItemsGood, ItemsSound
  <2>2. halved \/ Chained(working')
    BY DEF ItemsGood, ItemsSound, Chained, StartsWhereLeft, Left, EntriesOfItem
  <2>3. QED
    BY <2>1, <2>2 DEF ItemsSound
<1>3. FoundSound(t)' /\ WrittenSound(t)'
  <2>1. CurrentDelta(t)' = CurrentDelta(t)
    BY DEF CurrentDelta
  <2>2. FoundSound(t)'
    BY DEF FoundSound
  <2>3. WrittenSound(t)'
    BY <1>1, <2>1 DEF WrittenSound, BehindByOne
  <2>4. QED
    BY <2>2, <2>3
<1>4. ASSUME NEW u \in Threads, u # t PROVE FoundSound(u)' /\ WrittenSound(u)'
  <2>1. pc'[u] = pc[u] /\ held'[u] = held[u] /\ CurrentDelta(u)' = CurrentDelta(u)
    BY <1>4 DEF OthersSame, CurrentDelta
  <2>2. pc[u] \in Applying => CurrentDelta(u).name # row.name
    BY <1>4, HeadsApart DEF Applying
  <2>3. FoundSound(u) /\ WrittenSound(u)
    BY DEF ItemsGood
  <2>4. ASSUME pc[u] = "write", held[u].found = None
        PROVE  RowsNamed(working', CurrentDelta(u).name) = {}
    <3>1. SUFFICES ASSUME NEW i \in DOMAIN working'.items,
                          working'.items[i].name = CurrentDelta(u).name
                   PROVE  FALSE
      BY DEF RowsNamed
    <3>2. RowIn(working', working'.items[i])
      BY DEF RowIn
    <3>3. working'.items[i] # row
      BY <2>2, <2>4, <3>1 DEF Applying
    <3>4. RowIn(working, working'.items[i])
      BY <3>2, <3>3
    <3>5. RowsNamed(working, CurrentDelta(u).name) # {}
      BY <3>1, <3>4 DEF RowIn, RowsNamed
    <3>6. QED
      BY <2>3, <2>4, <3>5 DEF FoundSound
  <2>5. FoundSound(u)'
    <3>1. CASE pc[u] = "write" /\ held[u].found = None
      <4>1. CurrentDelta(u).operation = "upsert"
        BY <2>3, <3>1 DEF FoundSound
      <4>2. QED
        BY <2>1, <2>4, <3>1, <4>1 DEF FoundSound
    <3>2. CASE pc[u] = "write" /\ held[u].found # None
      <4>1. RowIn(working, held[u].found) /\ held[u].found.name = CurrentDelta(u).name
        BY <2>3, <3>2 DEF FoundSound
      <4>2. RowIn(working', held[u].found)
        BY <2>2, <3>2, <4>1 DEF Applying
      <4>3. QED
        BY <2>1, <3>2, <4>1, <4>2 DEF FoundSound
    <3>3. CASE pc[u] # "write"
      BY <2>1, <3>3 DEF FoundSound
    <3>4. QED
      BY <3>1, <3>2, <3>3
  <2>6. WrittenSound(u)'
    <3>1. CASE pc[u] = "record"
      <4>1. RowIn(working, held[u].written) /\ held[u].written.name = CurrentDelta(u).name
        BY <2>3, <3>1 DEF WrittenSound
      <4>2. RowIn(working', held[u].written)
        BY <2>2, <3>1, <4>1 DEF Applying
      <4>3. QED
        BY <1>1, <2>1, <2>3, <3>1, <4>2 DEF WrittenSound, BehindByOne
    <3>2. CASE pc[u] # "record"
      BY <2>1, <3>2 DEF WrittenSound
    <3>3. QED
      BY <3>1, <3>2
  <2>7. QED
    BY <2>5, <2>6
<1>5. HistorySound'
  <2>1. SUFFICES ASSUME ~halved, NEW i \in DOMAIN working'.items
                 PROVE  \/ \E u \in Threads : pc'[u] = "record" /\ held'[u].written.id = working'.items[i].id
                        \/ Left(working', EntriesOfItem(working', working'.items[i].id),
                                working'.items[i].quantity)
    BY DEF HistorySound, BeingRecorded
  <2>2. RowIn(working', working'.items[i])
    BY DEF RowIn
  <2>3. CASE working'.items[i] = row
    BY <2>3
  <2>4. CASE RowIn(working, working'.items[i])
    <3>1. PICK j \in DOMAIN working.items : working.items[j] = working'.items[i]
      BY <2>4 DEF RowIn
    <3>2. \/ BeingRecorded(working.items[j].id)
          \/ Left(working, EntriesOfItem(working, working.items[j].id), working.items[j].quantity)
      BY <2>1 DEF ItemsGood, HistorySound
    <3>3. CASE BeingRecorded(working.items[j].id)
      <4>1. PICK u \in Threads : pc[u] = "record" /\ held[u].written.id = working.items[j].id
        BY <3>3 DEF BeingRecorded
      <4>2. pc'[u] = "record" /\ held'[u].written.id = working'.items[i].id
        BY <3>1, <4>1 DEF OthersSame
      <4>3. QED
        BY <4>2
    <3>4. CASE Left(working, EntriesOfItem(working, working.items[j].id), working.items[j].quantity)
      BY <1>1, <3>1, <3>4
    <3>5. QED
      BY <3>2, <3>3, <3>4
  <2>5. QED
    BY <2>2, <2>3, <2>4
<1>6. QED
  BY <1>2, <1>3, <1>4, <1>5 DEF ItemsGood, ItemsSound

LEMMA InsertRow ==
  ASSUME TypeInv, ItemsGood, NEW t \in Threads, InsertItem(t)
  PROVE  RowWritten(RowAfter(t))
<1> DEFINE row == RowAfter(t)
<1>1. /\ working'.items = Append(working.items, row) /\ pc[t] = "write" /\ held[t].found = None
  BY DEF InsertItem, Execute, TypeInv, TypeOK, Database
<1>2. row \in Item /\ row.name = CurrentDelta(t).name /\ row.id = FreshId
  BY <1>1, RowAfterType
<1>3. FreshId \notin ItemIds(working)
  BY FreshIdUnused
<1>4. RowsNamed(working, row.name) = {}
  BY <1>1, <1>2 DEF ItemsGood, FoundSound
<1>5. /\ working.items \in Seq(Item) /\ Len(working.items) \in Nat
      /\ DOMAIN working.items = 1 .. Len(working.items)
  BY TableTypes DEF TypeInv, TypeOK
<1> DEFINE n == Len(working.items) + 1
<1> HIDE DEF row
<1>6. /\ DOMAIN working'.items = 1 .. n /\ working'.items[n] = row
      /\ \A i \in DOMAIN working.items : working'.items[i] = working.items[i]
  BY <1>1, <1>2, <1>5
<1>7. /\ \A i \in DOMAIN working'.items : i = n \/ i \in DOMAIN working.items
      /\ \A i \in DOMAIN working.items : i \in DOMAIN working'.items
      /\ n \in DOMAIN working'.items
  BY <1>5, <1>6
<1> HIDE DEF n
<1>8. \A i \in DOMAIN working.items : working.items[i].id # row.id /\ working.items[i].name # row.name
  BY <1>2, <1>3, <1>4 DEF ItemIds, RowsNamed
<1>9. Distinct(working')
  <2>1. SUFFICES ASSUME NEW i \in DOMAIN working'.items, NEW j \in DOMAIN working'.items,
                        \/ working'.items[i].id = working'.items[j].id
                        \/ working'.items[i].name = working'.items[j].name
                 PROVE  i = j
    BY DEF Distinct
  <2>2. CASE i # n /\ j # n
    BY <1>6, <1>7, <2>1, <2>2 DEF ItemsGood, ItemsSound, Distinct
  <2>3. CASE i = n \/ j = n
    BY <1>6, <1>7, <1>8, <2>1, <2>3
  <2>4. QED
    BY <2>2, <2>3
<1>10. ItemIds(working) \subseteq ItemIds(working')
  BY <1>6, <1>7 DEF ItemIds
<1>11. RowIn(working', row) /\ \A other : RowIn(working, other) => RowIn(working', other)
  BY <1>6, <1>7 DEF RowIn
<1>12. \A other : RowIn(working', other) => other = row \/ RowIn(working, other)
  BY <1>6, <1>7 DEF RowIn
<1>13. QED
  BY <1>9, <1>10, <1>11, <1>12 DEF RowWritten, row

LEMMA InsertItems ==
  ASSUME TypeInv, Sound, ScopeInv, ItemsApart, ItemsGood, NEW t \in Threads, InsertItem(t)
  PROVE  ItemsGood'
<1> DEFINE row == RowAfter(t)
<1>1. /\ working'.history = working.history
      /\ pc[t] = "write" /\ pc'[t] = "record" /\ todo'[t] = todo[t] /\ held[t].found = None
      /\ held'[t] = [held[t] EXCEPT !.written = row]
  BY ItemTables DEF InsertItem
<1>2. durable' = durable /\ OthersSame(t) /\ parted' = parted /\ halved' = halved
  BY WriteEffect DEF Writes
<1>3. row.name = CurrentDelta(t).name /\ row.id = FreshId
  BY <1>1, RowAfterType
<1>4. RowWritten(row)
  BY InsertRow
<1> HIDE DEF row
<1>5. held'[t].written = row /\ held'[t].found = held[t].found
  <2>1. held[t] \in Found
    BY <1>1 DEF TypeInv, ThreadOK
  <2>2. QED
    BY <1>1, <2>1 DEF Found
<1>6. EntriesOfItem(working, row.id) = {}
  BY <1>3, FreshIdUnused DEF EntriesOfItem, ItemsGood, ItemsSound
<1>7. QED
  BY <1>1, <1>2, <1>3, <1>4, <1>5, <1>6, WrittenItems

(* The place a row had before one of them became the latest.               *)
OldPlace(j, k, n) == IF j < k THEN j ELSE IF j < n THEN j + 1 ELSE k

LEMMA OldPlaces ==
  ASSUME NEW n \in Nat, NEW k \in 1 .. n
  PROVE  /\ \A j \in 1 .. n : OldPlace(j, k, n) \in 1 .. n
         /\ \A i, j \in 1 .. n : OldPlace(i, k, n) = OldPlace(j, k, n) => i = j
         /\ \A i \in 1 .. n : i # k => \E j \in 1 .. n : j < n /\ OldPlace(j, k, n) = i
         /\ OldPlace(n, k, n) = k /\ n \in 1 .. n
<1>1. \A j \in 1 .. n : OldPlace(j, k, n) \in 1 .. n
  BY DEF OldPlace
<1>2. ASSUME NEW i \in 1 .. n, NEW j \in 1 .. n, OldPlace(i, k, n) = OldPlace(j, k, n) PROVE i = j
  BY <1>2 DEF OldPlace
<1>3. ASSUME NEW i \in 1 .. n, i # k PROVE \E j \in 1 .. n : j < n /\ OldPlace(j, k, n) = i
  <2>1. CASE i < k
    <3>1. i < n /\ OldPlace(i, k, n) = i
      BY <2>1 DEF OldPlace
    <3>2. QED
      BY <3>1
  <2>2. CASE i > k
    <3>1. i - 1 \in 1 .. n /\ i - 1 < n /\ OldPlace(i - 1, k, n) = i
      BY <2>2 DEF OldPlace
    <3>2. QED
      BY <3>1
  <2>3. QED
    BY <1>3, <2>1, <2>2
<1>4. OldPlace(n, k, n) = k /\ n \in 1 .. n
  BY DEF OldPlace
<1>5. QED
  BY <1>1, <1>2, <1>3, <1>4

(* The row that is changed is still there.                                 *)
LEMMA UpdateRow ==
  ASSUME TypeInv, ItemsGood, NEW t \in Threads, UpdateItem(t)
  PROVE  RowWritten(RowAfter(t))
<1> DEFINE row == RowAfter(t)
           found == held[t].found
<1>1. pc[t] = "write" /\ found # None
  BY DEF UpdateItem
<1>2. row \in Item /\ row.name = CurrentDelta(t).name /\ row.id = found.id
  BY <1>1, RowAfterType
<1>3. RowIn(working, found) /\ found.name = row.name
  BY <1>1, <1>2 DEF ItemsGood, FoundSound
<1>4. /\ working.items \in Seq(Item) /\ Len(working.items) \in Nat
      /\ DOMAIN working.items = 1 .. Len(working.items)
  BY TableTypes DEF TypeInv, TypeOK
<1>5. \E i \in DOMAIN working.items : working.items[i].id = row.id
  BY <1>2, <1>3 DEF RowIn
<1>6. working'.items = Renewed(working.items, row)
  <2>1. row.id \in ItemIds(working)
    BY <1>5 DEF ItemIds
  <2>2. QED
    BY <2>1 DEF UpdateItem, Execute, TypeInv, TypeOK, Database
<1> HIDE DEF row, found
<1>7. PICK k \in DOMAIN working.items :
        /\ working.items[k].id = row.id
        /\ DOMAIN Renewed(working.items, row) = DOMAIN working.items
        /\ \A j \in DOMAIN working.items : Renewed(working.items, row)[j] =
             IF j < k THEN working.items[j]
             ELSE IF j < Len(working.items) THEN working.items[j + 1] ELSE row
  BY <1>2, <1>4, <1>5, RenewedRows
<1>8. Distinct(working)
  BY DEF ItemsGood, ItemsSound
<1>9. working.items[k] = found
  <2>1. RowIn(working, working.items[k])
    BY DEF RowIn
  <2>2. QED
    BY <1>2, <1>3, <1>7, <1>8, <2>1, SameRow
<1> DEFINE n == Len(working.items)
           old(j) == OldPlace(j, k, n)
<1>10. /\ k \in 1 .. n /\ n \in Nat
       /\ DOMAIN working'.items = 1 .. n /\ DOMAIN working.items = 1 .. n
  BY <1>4, <1>6, <1>7
<1>11. ASSUME NEW j \in 1 .. n
       PROVE  working'.items[j] = IF j < n THEN working.items[old(j)] ELSE row
  <2>1. working'.items[j] =
          IF j < k THEN working.items[j] ELSE IF j < n THEN working.items[j + 1] ELSE row
    BY <1>6, <1>7, <1>10
  <2> HIDE DEF n
  <2>2. QED
    BY <1>10, <2>1 DEF OldPlace
<1> HIDE DEF n
<1>12. /\ \A j \in 1 .. n : old(j) \in 1 .. n
       /\ \A i, j \in 1 .. n : old(i) = old(j) => i = j
       /\ \A i \in 1 .. n : i # k => \E j \in 1 .. n : j < n /\ old(j) = i
       /\ old(n) = k /\ n \in 1 .. n
  BY <1>10, OldPlaces
<1> HIDE DEF old
<1>13. working'.items[n] = row
  BY <1>10, <1>11, <1>12
<1>14. ASSUME NEW j \in 1 .. n
       PROVE  /\ working'.items[j].id = working.items[old(j)].id
              /\ working'.items[j].name = working.items[old(j)].name
  <2>1. CASE j < n
    BY <1>11, <2>1
  <2>2. CASE ~(j < n)
    <3>1. j = n
      BY <1>10, <2>2
    <3>2. QED
      BY <1>2, <1>3, <1>9, <1>12, <1>13, <3>1
  <2>3. QED
    BY <2>1, <2>2
<1>15. Distinct(working')
  <2>1. SUFFICES ASSUME NEW i \in 1 .. n, NEW j \in 1 .. n,
                        \/ working'.items[i].id = working'.items[j].id
                        \/ working'.items[i].name = working'.items[j].name
                 PROVE  i = j
    BY <1>10 DEF Distinct
  <2>2. \/ working.items[old(i)].id = working.items[old(j)].id
        \/ working.items[old(i)].name = working.items[old(j)].name
    BY <1>14, <2>1
  <2>3. old(i) \in DOMAIN working.items /\ old(j) \in DOMAIN working.items
    BY <1>10, <1>12
  <2>4. old(i) = old(j)
    BY <1>8, <2>2, <2>3 DEF Distinct
  <2>5. QED
    BY <1>12, <2>4
<1>16. ItemIds(working) \subseteq ItemIds(working')
  <2>1. ASSUME NEW i \in 1 .. n
        PROVE  \E j \in 1 .. n : working'.items[j].id = working.items[i].id
    <3>1. CASE i = k
      BY <1>12, <1>14, <3>1
    <3>2. CASE i # k
      BY <1>12, <1>14, <3>2
    <3>3. QED
      BY <3>1, <3>2
  <2>2. ItemIds(working) = {working.items[i].id : i \in 1 .. n}
    BY <1>10 DEF ItemIds
  <2>3. ItemIds(working') = {working'.items[j].id : j \in 1 .. n}
    BY <1>10 DEF ItemIds
  <2>4. QED
    BY <2>1, <2>2, <2>3
<1>17. RowIn(working', row)
  BY <1>10, <1>12, <1>13 DEF RowIn
<1>18. ASSUME NEW other, RowIn(working, other), other.name # row.name PROVE RowIn(working', other)
  <2>1. PICK i \in 1 .. n : working.items[i] = other
    BY <1>10, <1>18 DEF RowIn
  <2>2. i # k
    BY <1>3, <1>9, <1>18, <2>1
  <2>3. PICK j \in 1 .. n : j < n /\ old(j) = i
    BY <1>12, <2>2
  <2>4. working'.items[j] = other
    BY <1>11, <2>1, <2>3
  <2>5. QED
    BY <1>10, <2>4 DEF RowIn
<1>19. ASSUME NEW other, RowIn(working', other) PROVE other = row \/ RowIn(working, other)
  <2>1. PICK j \in 1 .. n : working'.items[j] = other
    BY <1>10, <1>19 DEF RowIn
  <2>2. QED
    BY <1>10, <1>11, <1>12, <2>1 DEF RowIn
<1>20. QED
  BY <1>15, <1>16, <1>17, <1>18, <1>19 DEF RowWritten, row

(* And its history is complete.                                            *)
LEMMA UpdateItems ==
  ASSUME TypeInv, Sound, ScopeInv, ItemsApart, ItemsGood, NEW t \in Threads, UpdateItem(t)
  PROVE  ItemsGood'
<1> DEFINE row == RowAfter(t)
           found == held[t].found
<1>1. /\ pc[t] = "write" /\ pc'[t] = "record" /\ todo'[t] = todo[t] /\ found # None
      /\ held'[t] = [held[t] EXCEPT !.written = row] /\ working'.history = working.history
  BY ItemTables DEF UpdateItem
<1>2. durable' = durable /\ OthersSame(t) /\ parted' = parted /\ halved' = halved
  BY WriteEffect DEF Writes
<1>3. row.name = CurrentDelta(t).name /\ row.id = found.id
  BY <1>1, RowAfterType
<1>4. RowIn(working, found) /\ found.name = row.name
  BY <1>1, <1>3 DEF ItemsGood, FoundSound
<1>5. RowWritten(row)
  BY UpdateRow
<1> HIDE DEF row, found
<1>6. held'[t].written = row /\ held'[t].found = held[t].found
  <2>1. held[t] \in Found
    BY <1>1 DEF TypeInv, ThreadOK
  <2>2. QED
    BY <1>1, <2>1 DEF Found
<1>7. Distinct(working)
  BY DEF ItemsGood, ItemsSound
<1>8. PICK k \in DOMAIN working.items : working.items[k] = found
  BY <1>4 DEF RowIn
<1>9. halved \/ Left(working, EntriesOfItem(working, row.id), found.quantity)
  <2>1. \/ halved
        \/ BeingRecorded(row.id)
        \/ Left(working, EntriesOfItem(working, row.id), found.quantity)
    BY <1>3, <1>8 DEF ItemsGood, HistorySound
  <2>2. ASSUME BeingRecorded(row.id) PROVE FALSE
    <3>1. PICK u \in Threads : pc[u] = "record" /\ held[u].written.id = row.id
      BY <2>2 DEF BeingRecorded
    <3>2. RowIn(working, held[u].written) /\ held[u].written.name = CurrentDelta(u).name
      BY <3>1 DEF ItemsGood, WrittenSound
    <3>3. held[u].written = found
      BY <1>3, <1>4, <1>7, <3>1, <3>2, SameRow
    <3>4. u # t /\ pc[u] \in Applying /\ pc[t] \in Applying
      BY <1>1, <3>1 DEF Applying
    <3>5. QED
      BY <1>3, <1>4, <3>2, <3>3, <3>4, HeadsApart
  <2>3. QED
    BY <2>1, <2>2
<1>10. \/ halved
       \/ IF held[t].found = None THEN EntriesOfItem(working, row.id) = {}
          ELSE Left(working, EntriesOfItem(working, row.id), held[t].found.quantity)
  BY <1>1, <1>9 DEF found
<1>11. QED
  BY <1>1, <1>2, <1>3, <1>5, <1>6, <1>10, WrittenItems

(* The history catches up with the row a thread has written.               *)
LEMMA RecordItems ==
  ASSUME TypeInv, Sound, ScopeInv, ItemsApart, ItemsGood, NEW t \in Threads, RecordHistory(t)
  PROVE  ItemsGood'
<1> DEFINE row == held[t].written
           found == held[t].found
           entry == EntryOf(t)
           n == Len(working.history) + 1
<1>1. /\ working'.items = working.items /\ working'.history = Append(working.history, entry)
      /\ pc[t] = "record" /\ pc'[t] \notin {"write", "record"}
  BY HistoryTables
<1>2. durable' = durable /\ OthersSame(t) /\ parted' = parted /\ halved' = halved
  BY WriteEffect DEF Writes
<1>3. /\ RowIn(working, row) /\ row.name = CurrentDelta(t).name
      /\ \/ halved
         \/ IF found = None THEN EntriesOfItem(working, row.id) = {}
            ELSE Left(working, EntriesOfItem(working, row.id), found.quantity)
  BY <1>1 DEF ItemsGood, WrittenSound, BehindByOne
<1>4. /\ entry.item = row.id /\ entry.after = row.quantity
      /\ entry.before = IF found = None THEN Unknown ELSE found.quantity
  BY DEF EntryOf
<1>5. entry \in Entry
  BY <1>1, EntryType
<1>6. /\ working.history \in Seq(Entry) /\ Len(working.history) \in Nat
      /\ DOMAIN working.history = 1 .. Len(working.history)
  BY TableTypes DEF TypeInv, TypeOK
<1>7. Distinct(working)
  BY DEF ItemsGood, ItemsSound
<1> HIDE DEF entry, row, found
<1>8. /\ DOMAIN working'.history = 1 .. n /\ working'.history[n] = entry
      /\ \A k \in DOMAIN working.history : working'.history[k] = working.history[k]
  BY <1>1, <1>5, <1>6
<1>9. /\ \A k \in DOMAIN working'.history : k = n \/ k \in DOMAIN working.history
      /\ \A k \in DOMAIN working.history : k \in DOMAIN working'.history /\ k < n /\ k \in Nat
      /\ n \in DOMAIN working'.history /\ n \in Nat
  BY <1>6, <1>8
<1> HIDE DEF n
<1>10. ASSUME NEW id, id # row.id PROVE EntriesOfItem(working', id) = EntriesOfItem(working, id)
  BY <1>4, <1>8, <1>9, <1>10 DEF EntriesOfItem
<1>11. EntriesOfItem(working', row.id) = EntriesOfItem(working, row.id) \union {n}
  BY <1>4, <1>8, <1>9 DEF EntriesOfItem
<1>12. ASSUME NEW entries \in SUBSET DOMAIN working.history, NEW quantity
       PROVE  Left(working', entries, quantity) <=> Left(working, entries, quantity)
  BY <1>8, <1>12 DEF Left
<1>13. \A id : EntriesOfItem(working, id) \in SUBSET DOMAIN working.history
  BY DEF EntriesOfItem
<1>14. ItemIds(working') = ItemIds(working)
  BY <1>1 DEF ItemIds
<1>15. ASSUME ~halved, NEW k \in DOMAIN working.history PROVE StartsWhereLeft(working', k)
  <2> DEFINE item == working.history[k].item
             earlier == {j \in EntriesOfItem(working, item) : j < k}
  <2>1. working'.history[k] = working.history[k]
    BY <1>8, <1>15
  <2>2. {j \in EntriesOfItem(working', item) : j < k} = earlier
    <3>1. ~(n < k) /\ k \in Nat /\ n \in Nat
      BY <1>9, <1>15
    <3>2. CASE item = row.id
      BY <1>11, <3>1, <3>2
    <3>3. CASE item # row.id
      BY <1>10, <3>3
    <3>4. QED
      BY <3>2, <3>3
  <2>3. StartsWhereLeft(working, k)
    BY <1>15 DEF ItemsGood, ItemsSound, Chained
  <2>4. earlier \in SUBSET DOMAIN working.history
    BY <1>13
  <2>5. IF earlier = {} THEN working.history[k].before = Unknown
        ELSE Left(working, earlier, working.history[k].before)
    BY <2>3 DEF StartsWhereLeft
  <2>6. Left(working', earlier, working.history[k].before) <=>
          Left(working, earlier, working.history[k].before)
    BY <1>12, <2>4
  <2> HIDE DEF earlier
  <2>7. QED
    BY <2>1, <2>2, <2>5, <2>6 DEF StartsWhereLeft
<1>16. ASSUME ~halved PROVE StartsWhereLeft(working', n)
  <2> DEFINE earlier == EntriesOfItem(working, row.id)
  <2>1. {j \in EntriesOfItem(working', row.id) : j < n} = earlier
    <3>1. \A j \in earlier : j < n
      BY <1>9, <1>13
    <3>2. ~(n < n)
      BY <1>9
    <3>3. QED
      BY <1>11, <3>1, <3>2
  <2>2. Left(working', earlier, entry.before) <=> Left(working, earlier, entry.before)
    BY <1>12, <1>13
  <2>3. IF earlier = {} THEN entry.before = Unknown ELSE Left(working, earlier, entry.before)
    <3>1. CASE found = None
      BY <1>3, <1>4, <1>16, <3>1
    <3>2. CASE found # None
      <4>1. Left(working, earlier, entry.before)
        BY <1>3, <1>4, <1>16, <3>2
      <4>2. earlier # {}
        BY <4>1 DEF Left
      <4>3. QED
        BY <4>1, <4>2
    <3>3. QED
      BY <3>1, <3>2
  <2> HIDE DEF earlier
  <2>4. QED
    BY <1>4, <1>8, <2>1, <2>2, <2>3 DEF StartsWhereLeft
<1>17. ItemsSound(working')
  <2>1. halved \/ Chained(working')
    BY <1>9, <1>15, <1>16 DEF Chained
  <2>2. Distinct(working')
    BY <1>1, <1>7 DEF Distinct
  <2>3. row.id \in ItemIds(working)
    BY <1>3 DEF RowIn, ItemIds
  <2>4. \A k \in DOMAIN working'.history : working'.history[k].item \in ItemIds(working')
    BY <1>4, <1>8, <1>9, <1>14, <2>3 DEF ItemsGood, ItemsSound
  <2>5. QED
    BY <1>2, <2>1, <2>2, <2>4 DEF ItemsSound
<1>18. FoundSound(t)' /\ WrittenSound(t)'
  BY <1>1 DEF FoundSound, WrittenSound
<1>19. ASSUME NEW u \in Threads, u # t PROVE FoundSound(u)' /\ WrittenSound(u)'
  <2>1. pc'[u] = pc[u] /\ held'[u] = held[u] /\ CurrentDelta(u)' = CurrentDelta(u)
    BY <1>2, <1>19 DEF OthersSame, CurrentDelta
  <2>2. FoundSound(u) /\ WrittenSound(u)
    BY DEF ItemsGood
  <2>3. FoundSound(u)'
    BY <1>1, <2>1, <2>2 DEF FoundSound, RowsNamed, RowIn
  <2>4. WrittenSound(u)'
    <3>1. CASE pc[u] = "record"
      <4>1. RowIn(working, held[u].written) /\ held[u].written.name = CurrentDelta(u).name
        BY <2>2, <3>1 DEF WrittenSound
      <4>2. CurrentDelta(t).name # CurrentDelta(u).name
        BY <1>1, <1>19, <3>1, HeadsApart DEF Applying
      <4>3. held[u].written.id # row.id
        BY <1>3, <1>7, <4>1, <4>2, SameRow
      <4>4. /\ EntriesOfItem(working', held[u].written.id) = EntriesOfItem(working, held[u].written.id)
            /\ Left(working', EntriesOfItem(working, held[u].written.id), held[u].found.quantity) <=>
                 Left(working, EntriesOfItem(working, held[u].written.id), held[u].found.quantity)
        BY <1>10, <1>12, <1>13, <4>3
      <4>5. RowIn(working', held[u].written)
        BY <1>1, <4>1 DEF RowIn
      <4>6. QED
        BY <1>2, <2>1, <2>2, <3>1, <4>4, <4>5 DEF WrittenSound, BehindByOne
    <3>2. CASE pc[u] # "record"
      BY <2>1, <3>2 DEF WrittenSound
    <3>3. QED
      BY <3>1, <3>2
  <2>5. QED
    BY <2>3, <2>4
<1>20. HistorySound'
  <2>1. SUFFICES ASSUME ~halved, NEW i \in DOMAIN working.items
                 PROVE  \/ \E u \in Threads : pc'[u] = "record" /\ held'[u].written.id = working.items[i].id
                        \/ Left(working', EntriesOfItem(working', working.items[i].id),
                                working.items[i].quantity)
    BY <1>1, <1>2 DEF HistorySound, BeingRecorded
  <2>2. RowIn(working, working.items[i])
    BY DEF RowIn
  <2>3. CASE working.items[i].id = row.id
    <3>1. working.items[i] = row
      BY <1>3, <1>7, <2>2, <2>3, SameRow
    <3>2. Left(working', EntriesOfItem(working', row.id), row.quantity)
      <4>1. \A j \in EntriesOfItem(working', row.id) : j <= n
        BY <1>9 DEF EntriesOfItem
      <4>2. n \in EntriesOfItem(working', row.id)
        BY <1>11
      <4>3. QED
        BY <1>4, <1>8, <4>1, <4>2 DEF Left
    <3>3. QED
      BY <3>1, <3>2
  <2>4. CASE working.items[i].id # row.id
    <3>1. \/ BeingRecorded(working.items[i].id)
          \/ Left(working, EntriesOfItem(working, working.items[i].id), working.items[i].quantity)
      BY <2>1 DEF ItemsGood, HistorySound
    <3>2. CASE BeingRecorded(working.items[i].id)
      <4>1. PICK u \in Threads : pc[u] = "record" /\ held[u].written.id = working.items[i].id
        BY <3>2 DEF BeingRecorded
      <4>2. u # t
        BY <2>4, <4>1 DEF row
      <4>3. pc'[u] = "record" /\ held'[u].written.id = working.items[i].id
        BY <1>2, <4>1, <4>2 DEF OthersSame
      <4>4. QED
        BY <4>3
    <3>3. CASE Left(working, EntriesOfItem(working, working.items[i].id), working.items[i].quantity)
      BY <1>10, <1>12, <1>13, <2>4, <3>3
    <3>4. QED
      BY <3>1, <3>2, <3>3
  <2>5. QED
    BY <2>3, <2>4
<1>21. QED
  BY <1>2, <1>17, <1>18, <1>19, <1>20 DEF ItemsGood, ItemsSound

LEMMA CommitItems ==
  ASSUME TypeInv, ItemsGood, NEW t \in Threads, Commits(t)
  PROVE  ItemsGood'
<1>1. /\ working' = working /\ durable' \in {working, durable} /\ OthersSame(t)
      /\ pc[t] \notin {"idle", "write", "record"} /\ pc'[t] \notin {"write", "record"}
      /\ halved' = halved
  BY CommitEffect DEF CommitStep
<1>2. ASSUME NEW u \in Threads PROVE FoundSound(u)' /\ WrittenSound(u)'
  <2>1. CASE u = t
    BY <1>1, <2>1 DEF FoundSound, WrittenSound
  <2>2. CASE u # t
    BY <1>1, <2>2 DEF OthersSame, ItemsGood, FoundSound, WrittenSound, BehindByOne, CurrentDelta
  <2>3. QED
    BY <2>1, <2>2
<1>3. \A id : BeingRecorded(id) => BeingRecorded(id)'
  BY <1>1 DEF OthersSame, BeingRecorded
<1>4. HistorySound'
  BY <1>1, <1>3 DEF ItemsGood, HistorySound
<1>5. parted' = {} => halved \/ Explained(durable')
  <2>1. CASE durable' = working /\ parted' = {u \in Threads : pc[u] \in Applying}
    <3>1. parted' = {} => \A id : ~BeingRecorded(id)
      BY <2>1 DEF BeingRecorded, Applying
    <3>2. QED
      BY <2>1, <3>1 DEF ItemsGood, HistorySound, Explained
  <2>2. CASE durable' = durable /\ parted' = parted
    BY <2>2 DEF ItemsGood
  <2>3. QED
    BY <2>1, <2>2, CommitEffect
<1>6. QED
  BY <1>1, <1>2, <1>4, <1>5 DEF ItemsGood, ItemsSound

(* A rollback that no other thread notices leaves the history behind if    *)
(* half of the deltas it undoes had been committed.                        *)
LEMMA RollBackItems ==
  ASSUME TypeInv, PartedInv, ItemsGood, NEW t \in Threads, RollsBack(t), ~torn'
  PROVE  ItemsGood'
<1>1. /\ working' = durable /\ durable' = durable /\ pc'[t] = "idle" /\ OthersSame(t)
      /\ \A u \in Threads \ {t} : pc[u] \notin Uncommitted
      /\ parted' = parted \ {t} /\ halved' = (halved \/ t \in parted)
  BY RollBackEffect
<1>2. \A u \in Threads : pc'[u] \notin {"write", "record"}
  BY <1>1 DEF OthersSame, Uncommitted, InTransaction, Applying
<1>3. \A u \in Threads : FoundSound(u)' /\ WrittenSound(u)'
  BY <1>2 DEF FoundSound, WrittenSound
<1>4. halved' \/ Explained(durable)
  <2>1. parted \subseteq {t}
    BY <1>1 DEF PartedInv, Uncommitted, TypeInv, TypeOK
  <2>2. QED
    BY <1>1, <2>1 DEF ItemsGood
<1>5. HistorySound'
  BY <1>1, <1>4 DEF HistorySound, Explained
<1>6. ItemsSound(durable)'
  BY <1>1 DEF ItemsGood, ItemsSound
<1>7. QED
  BY <1>1, <1>3, <1>4, <1>5, <1>6 DEF ItemsGood

LEMMA RestartItems ==
  ASSUME TypeInv, ItemsGood, Restart
  PROVE  ItemsGood'
<1>1. /\ working' = durable /\ durable' = durable /\ \A t \in Threads : pc'[t] = "idle"
      /\ halved' = (halved \/ parted # {})
  BY RestartEffect
<1>2. \A u \in Threads : FoundSound(u)' /\ WrittenSound(u)'
  BY <1>1 DEF FoundSound, WrittenSound
<1>3. halved' \/ Explained(durable)
  BY <1>1 DEF ItemsGood
<1>4. HistorySound'
  BY <1>1, <1>3 DEF HistorySound, Explained
<1>5. ItemsSound(durable)'
  BY <1>1 DEF ItemsGood, ItemsSound
<1>6. QED
  BY <1>1, <1>2, <1>3, <1>4, <1>5 DEF ItemsGood

LEMMA PartedHolds == Spec => []PartedInv
<1>1. Init => PartedInv
  BY DEF Init, PartedInv
<1>2. TypeInv /\ PartedInv /\ [Next]_vars => PartedInv'
  <2> SUFFICES ASSUME TypeInv, PartedInv, [Next]_vars PROVE PartedInv'
    OBVIOUS
  <2>1. CASE Restart
    BY <2>1, RestartEffect DEF PartedInv
  <2>2. ASSUME NEW t \in Threads, Serve(t) PROVE PartedInv'
    <3>1. CASE Commits(t)
      <4>1. pc[t] \notin Applying /\ OthersSame(t)
        BY <3>1, CommitEffect DEF CommitStep, Applying
      <4>2. CASE parted' = {u \in Threads : pc[u] \in Applying}
        BY <4>1, <4>2 DEF PartedInv, OthersSame, InTransaction
      <4>3. CASE pc[t] = "engage" /\ parted' = parted
        BY <4>1, <4>3 DEF PartedInv, OthersSame, InTransaction, Applying, TypeInv, TypeOK
      <4>4. QED
        BY <3>1, <4>2, <4>3, CommitEffect
    <3>2. CASE RollsBack(t)
      BY <3>2, RollBackEffect DEF PartedInv, OthersSame, TypeInv, TypeOK
    <3>3. ASSUME Writes(t) \/ FindForDelta(t) \/ \E r \in Requests : ReadProposal(t, r)
          PROVE  PartedInv'
      <4>1. parted' = parted /\ OthersSame(t)
        BY <3>3, WriteEffect, ReadEffect
      <4>2. pc[t] \in InTransaction => pc'[t] \in InTransaction
        BY <3>3
        DEF Writes, SavePending, Claim, InsertItem, UpdateItem, RecordHistory, AppendEvent,
            FindForDelta, ReadProposal, Allowed, Goto, InTransaction, Applying, TypeInv, TypeOK
      <4>3. QED
        BY <4>1, <4>2 DEF PartedInv, OthersSame, TypeInv, TypeOK
    <3>4. QED
      BY <2>2, <3>1, <3>2, <3>3, ServeCases
  <2>3. CASE UNCHANGED vars
    BY <2>3 DEF vars, threadVars, historyVars, PartedInv
  <2>4. QED
    BY <2>1, <2>2, <2>3 DEF Next
<1>3. QED
  BY <1>1, <1>2, TypeHolds, PTL DEF Spec

LEMMA InitItems == Init => ItemInv
<1> SUFFICES ASSUME Init PROVE ItemsGood
  BY DEF ItemInv
<1>1. /\ working = EmptyDatabase /\ durable = EmptyDatabase /\ \A t \in Threads : pc[t] = "idle"
  BY DEF Init
<1>2. DOMAIN EmptyDatabase.items = {} /\ DOMAIN EmptyDatabase.history = {}
  BY DEF EmptyDatabase
<1>3. ItemsSound(EmptyDatabase) /\ Explained(EmptyDatabase)
  BY <1>2 DEF ItemsSound, Distinct, Chained, Explained
<1>4. HistorySound
  BY <1>1, <1>2 DEF HistorySound
<1>5. \A t \in Threads : FoundSound(t) /\ WrittenSound(t)
  BY <1>1 DEF FoundSound, WrittenSound
<1>6. QED
  BY <1>1, <1>3, <1>4, <1>5 DEF ItemsGood

LEMMA ItemInductive ==
  ASSUME ItemsApart
  PROVE  TypeInv /\ PartedInv /\ DecisionInv /\ ScopeInv /\ ItemInv /\ [Next]_vars => ItemInv'
<1> SUFFICES ASSUME TypeInv, PartedInv, DecisionInv, ScopeInv, ItemInv, [Next]_vars, ~torn'
             PROVE  ItemsGood'
  BY DEF ItemInv
<1>1. Sound /\ ItemsGood
  BY TornStays DEF DecisionInv, ItemInv
<1>2. CASE Restart
  BY <1>1, <1>2, RestartItems
<1>3. ASSUME NEW t \in Threads, Serve(t) PROVE ItemsGood'
  <2>1. ASSUME NEW r \in Requests, SavePending(t, r) PROVE ItemsGood'
    <3>1. durable' = durable /\ OthersSame(t) /\ parted' = parted /\ halved' = halved
      BY <2>1, WriteEffect DEF Writes
    <3>2. QED
      BY <1>1, <2>1, <3>1, SavePendingTables, SameItems
  <2>2. CASE Claim(t)
    <3>1. durable' = durable /\ OthersSame(t) /\ parted' = parted /\ halved' = halved
      BY <2>2, WriteEffect DEF Writes
    <3>2. /\ working'.items = working.items /\ working'.history = working.history
          /\ pc[t] # "record" /\ pc'[t] \notin {"write", "record"}
      BY <2>2, ClaimTables
    <3>3. QED
      BY <1>1, <3>1, <3>2, SameItems
  <2>3. CASE AppendEvent(t)
    <3>1. durable' = durable /\ OthersSame(t) /\ parted' = parted /\ halved' = halved
      BY <2>3, WriteEffect DEF Writes
    <3>2. QED
      BY <1>1, <2>3, <3>1, EventTables, SameItems
  <2>4. ASSUME NEW r \in Requests, ReadProposal(t, r) PROVE ItemsGood'
    <3>1. pc[t] # "record" /\ pc'[t] = "claim"
      BY <2>4 DEF ReadProposal, Allowed, Goto, TypeInv, TypeOK
    <3>2. QED
      BY <1>1, <2>4, <3>1, ReadEffect, SameItems
  <2>5. CASE InsertItem(t) \/ UpdateItem(t) \/ RecordHistory(t) \/ FindForDelta(t)
    BY <1>1, <2>5, InsertItems, UpdateItems, RecordItems, FindItems
  <2>6. CASE Commits(t)
    BY <1>1, <2>6, CommitItems
  <2>7. CASE RollsBack(t)
    BY <1>1, <2>7, RollBackItems
  <2>8. QED
    BY <1>3, <2>1, <2>2, <2>3, <2>4, <2>5, <2>6, <2>7, ServeCases DEF Writes
<1>4. CASE UNCHANGED vars
  BY <1>1, <1>4 DEF vars, connectionVars, threadVars, historyVars, ItemsGood, ItemsSound, FoundSound,
     WrittenSound, BehindByOne,
     CurrentDelta, HistorySound, BeingRecorded
<1>5. QED
  BY <1>2, <1>3, <1>4 DEF Next

LEMMA ItemHolds ==
  ASSUME ItemsApart
  PROVE  Spec => []ItemInv
<1>1. TypeInv /\ PartedInv /\ DecisionInv /\ ScopeInv /\ ItemInv /\ [Next]_vars => ItemInv'
  BY ItemInductive
<1>2. QED
  BY <1>1, InitItems, TypeHolds, PartedHolds, DecisionHolds, ScopeHolds, PTL DEF Spec

(* Where nothing is under way, the history explains the stock.             *)
LEMMA StockExplained ==
  ASSUME TypeInv, ConnectionInv, ItemsGood
  PROVE  OneRowPerName /\ (halved \/ HistoryChains)
<1>1. OneRowPerName
  BY DEF ItemsGood, ItemsSound, Distinct, OneRowPerName
<1>2. ASSUME Quiescent, ~halved PROVE Chained(durable) /\ Explained(durable)
  <2>1. working = durable /\ \A id : ~BeingRecorded(id)
    BY <1>2 DEF Quiescent, ConnectionInv, Committed, Uncommitted, InTransaction, Applying, BeingRecorded
  <2>2. QED
    BY <1>2, <2>1 DEF ItemsGood, ItemsSound, HistorySound, Explained
<1>3. QED
  BY <1>1, <1>2 DEF HistoryChains

(* Requests race for a proposal, or apply deltas to different items, and   *)
(* any of them may fail while they do: until a rollback tears another's    *)
(* transaction a name has one row, and its history chains up to what it    *)
(* holds unless deltas cut in two by another's commit were half undone.    *)
THEOREM OneRowUnlessTornCorrect ==
  ASSUME ItemsApart
  PROVE  Spec => []OneRowUnlessTorn
<1>1. TypeInv /\ ConnectionInv /\ ItemInv => OneRowUnlessTorn
  BY StockExplained DEF ItemInv, OneRowUnlessTorn
<1>2. Spec => []ItemInv
  BY ItemHolds
<1>3. QED
  BY <1>1, <1>2, TypeHolds, ConnectionHolds, PTL

(* Requests served one after another never tear a transaction, and never   *)
(* cut one in two.                                                         *)
Whole == ~torn /\ ~halved /\ parted = {}

LEMMA NeverTorn ==
  ASSUME Serial
  PROVE  Spec => []Whole
<1>1. Init => Whole
  BY DEF Init, Whole
<1>2. TypeInv /\ ScopeInv /\ Whole /\ [Next]_vars => Whole'
  <2> SUFFICES ASSUME TypeInv, ScopeInv, Whole, [Next]_vars PROVE Whole'
    OBVIOUS
  <2>1. CASE Restart
    BY <2>1 DEF Restart, Rollback, Whole
  <2>2. ASSUME NEW t \in Threads, Serve(t) PROVE Whole'
    <3>1. CASE RollsBack(t)
      <4>1. Busy(t)
        BY <3>1 DEF RollsBack, ClaimRefused, HistoryRefused, WriteFails, Busy, Uncommitted,
           InTransaction, Applying
      <4>2. \A u \in Threads \ {t} : pc[u] \notin Uncommitted
        BY <4>1, OneBusy DEF Busy, Uncommitted, InTransaction, Applying
      <4>3. QED
        BY <3>1, <4>2, RollBackEffect DEF Whole
    <3>2. CASE Commits(t)
      <4>1. Busy(t) /\ pc[t] \notin Applying
        BY <3>2, CommitEffect DEF CommitStep, Busy, Applying
      <4>2. {u \in Threads : pc[u] \in Applying} = {}
        BY <4>1, OneBusy DEF Busy, Applying
      <4>3. QED
        BY <3>2, <4>2, CommitEffect DEF Whole
    <3>3. CASE ~RollsBack(t) /\ ~Commits(t)
      BY <2>2, <3>3, ServeCases, WriteEffect, ReadEffect DEF Whole
    <3>4. QED
      BY <3>1, <3>2, <3>3
  <2>3. CASE UNCHANGED vars
    BY <2>3 DEF vars, historyVars, Whole
  <2>4. QED
    BY <2>1, <2>2, <2>3 DEF Next
<1>3. QED
  BY <1>1, <1>2, TypeHolds, ScopeHolds, PTL DEF Spec

(* With one request at a time the history explains the stock whenever no   *)
(* request is under way, whatever fails and whenever the process dies.     *)
THEOREM HistoryChainsCorrect ==
  ASSUME Serial
  PROVE  Spec => []HistoryChains
<1>1. ItemsApart
  BY DEF Serial, ItemsApart
<1>2. Spec => []ItemInv
  BY <1>1, ItemHolds
<1>3. Spec => []Whole
  BY NeverTorn
<1>4. TypeInv /\ ConnectionInv /\ ItemInv /\ Whole => HistoryChains
  BY StockExplained DEF ItemInv, Whole
<1>5. QED
  BY <1>2, <1>3, <1>4, TypeHolds, ConnectionHolds, PTL

-----------------------------------------------------------------------------
(* The stages of a list of deltas: the recursive function is defined on    *)
(* every length, or there would be a least one on which it is not.         *)
IsStages(f, s, deltas, n) ==
  f = [k \in 0 .. n |-> IF k = 0 THEN s ELSE Ledger!ApplyDelta(f[k - 1], deltas[k])]

LEMMA StageFunction ==
  ASSUME NEW s, NEW deltas, NEW n \in Nat
  PROVE  \E f : IsStages(f, s, deltas, n)
<1> DEFINE Without == {m \in Nat : ~\E f : IsStages(f, s, deltas, m)}
<1>1. SUFFICES ASSUME Without # {} PROVE FALSE
  OBVIOUS
<1>2. PICK m \in Without : \A l \in Without : m <= l
  <2>1. Without \in SUBSET Nat
    OBVIOUS
  <2> HIDE DEF Without
  <2>2. QED
    BY <1>1, <2>1, LeastNatural
<1>3. m \in Nat /\ ~\E f : IsStages(f, s, deltas, m)
  OBVIOUS
<1>4. CASE m = 0
  <2> DEFINE f == [k \in 0 .. 0 |-> s]
  <2>1. IsStages(f, s, deltas, 0)
    BY DEF IsStages
  <2>2. QED
    BY <1>3, <1>4, <2>1
<1>5. CASE m # 0
  <2>1. m - 1 \in Nat
    BY <1>3, <1>5
  <2>2. PICK f : IsStages(f, s, deltas, m - 1)
    <3> HIDE DEF Without
    <3>1. m - 1 \notin Without
      BY <1>2, <1>3, <2>1
    <3>2. QED
      BY <2>1, <3>1 DEF Without
  <2> DEFINE last == Ledger!ApplyDelta(f[m - 1], deltas[m])
             g == [k \in 0 .. m |-> IF k = m THEN last ELSE f[k]]
  <2>3. ASSUME NEW k \in 0 .. m
        PROVE  g[k] = IF k = 0 THEN s ELSE Ledger!ApplyDelta(g[k - 1], deltas[k])
    <3>1. CASE k = m
      <4>1. g[k] = last /\ g[k - 1] = f[m - 1] /\ k # 0
        BY <1>3, <1>5, <3>1
      <4>2. QED
        BY <3>1, <4>1
    <3>2. CASE k # m
      <4>1. k \in 0 .. (m - 1) /\ (k # 0 => k - 1 \in 0 .. m /\ k - 1 # m)
        BY <1>3, <1>5, <3>2
      <4>2. f[k] = IF k = 0 THEN s ELSE Ledger!ApplyDelta(f[k - 1], deltas[k])
        BY <2>2, <4>1 DEF IsStages
      <4>3. g[k] = f[k] /\ (k # 0 => g[k - 1] = f[k - 1])
        BY <3>2, <4>1
      <4>4. QED
        BY <4>2, <4>3
    <3>3. QED
      BY <3>1, <3>2
  <2>4. DOMAIN g = 0 .. m /\ g = [k \in 0 .. m |-> g[k]]
    OBVIOUS
  <2> HIDE DEF g
  <2>5. IsStages(g, s, deltas, m)
    BY <2>3, <2>4 DEF IsStages
  <2>6. QED
    BY <1>3, <2>5
<1>6. QED
  BY <1>4, <1>5

LEMMA StagesUnfold ==
  ASSUME NEW s, NEW deltas \in Seq(Delta)
  PROVE  /\ Ledger!Stages(s, deltas)[0] = s
         /\ \A k \in 1 .. Len(deltas) :
              Ledger!Stages(s, deltas)[k] =
                Ledger!ApplyDelta(Ledger!Stages(s, deltas)[k - 1], deltas[k])
<1> DEFINE stages == Ledger!Stages(s, deltas)
<1>1. stages = CHOOSE g : IsStages(g, s, deltas, Len(deltas))
  BY DEF Ledger!Stages, IsStages
<1>2. Len(deltas) \in Nat
  OBVIOUS
<1> HIDE DEF stages
<1>3. IsStages(stages, s, deltas, Len(deltas))
  BY <1>1, <1>2, StageFunction
<1>4. stages = [k \in 0 .. Len(deltas) |->
                  IF k = 0 THEN s ELSE Ledger!ApplyDelta(stages[k - 1], deltas[k])]
  BY <1>3 DEF IsStages
<1>5. stages[0] = s
  BY <1>2, <1>4
<1>6. ASSUME NEW k \in 1 .. Len(deltas) PROVE stages[k] = Ledger!ApplyDelta(stages[k - 1], deltas[k])
  <2>1. k \in 0 .. Len(deltas) /\ k # 0
    BY <1>2
  <2>2. QED
    BY <1>4, <2>1
<1>7. QED
  BY <1>5, <1>6 DEF stages

(* The ledger computes with the same arithmetic.                           *)
LEMMA SameArithmetic ==
  /\ \A delta : Ledger!QuantityOfNew(delta) = QuantityOfNew(delta)
  /\ \A quantity, delta : Ledger!QuantityAfter(quantity, delta) = QuantityAfter(quantity, delta)
  /\ \A delta, after : Ledger!StatusAfter(delta, after) = StatusAfter(delta, after)
<1>1. \A delta : Ledger!QuantityOfNew(delta) = QuantityOfNew(delta)
  BY DEF Ledger!QuantityOfNew, QuantityOfNew
<1>2. \A quantity, default : Ledger!OrElse(quantity, default) = OrElse(quantity, default)
  BY DEF Ledger!OrElse, OrElse
<1>3. \A quantity, taken : Ledger!Take(quantity, taken) = Take(quantity, taken)
  BY DEF Ledger!Take, Take
<1>4. \A quantity, delta : Ledger!QuantityAfter(quantity, delta) = QuantityAfter(quantity, delta)
  BY <1>2, <1>3 DEF Ledger!QuantityAfter, QuantityAfter
<1>5. \A delta, after : Ledger!StatusAfter(delta, after) = StatusAfter(delta, after)
  BY DEF Ledger!StatusAfter, StatusAfter
<1>6. QED
  BY <1>1, <1>4, <1>5

-----------------------------------------------------------------------------
(* The stock that the rows amount to.                                      *)
LEMMA FoundRow ==
  ASSUME NEW db \in Database, Distinct(db)
  PROVE  /\ \A row : RowIn(db, row) => FindItem(db, row.name) = row
         /\ \A name : FindItem(db, name) # None =>
              RowIn(db, FindItem(db, name)) /\ FindItem(db, name).name = name
         /\ \A name : (\A row : RowIn(db, row) => row.name # name) => FindItem(db, name) = None
<1>1. ASSUME NEW row, RowIn(db, row) PROVE FindItem(db, row.name) = row
  <2>1. RowsNamed(db, row.name) # {}
    BY <1>1 DEF RowIn, RowsNamed
  <2>2. PICK i \in RowsNamed(db, row.name) : FindItem(db, row.name) = db.items[i]
    BY <2>1, FindItemRow
  <2>3. RowIn(db, db.items[i]) /\ db.items[i].name = row.name
    BY <2>2 DEF RowIn, RowsNamed
  <2>4. QED
    BY <1>1, <2>2, <2>3, SameRow
<1>2. ASSUME NEW name, FindItem(db, name) # None
      PROVE  RowIn(db, FindItem(db, name)) /\ FindItem(db, name).name = name
  <2>1. PICK i \in RowsNamed(db, name) : FindItem(db, name) = db.items[i]
    BY <1>2, FindItemRow
  <2>2. QED
    BY <2>1 DEF RowIn, RowsNamed
<1>3. QED
  BY <1>1, <1>2

LEMMA SameStock ==
  ASSUME NEW db, NEW new, new.items = db.items
  PROVE  StockOf(new) = StockOf(db)
BY DEF StockOf, FindItem, RowsNamed

LEMMA WrittenStock ==
  ASSUME TypeInv, TypeInv', Distinct(working), NEW row \in Item, RowWritten(row)
  PROVE  StockOf(working') = [StockOf(working) EXCEPT ![row.name] =
                                [quantity |-> row.quantity, status |-> row.status]]
<1> DEFINE stock(found) ==
             IF found = None THEN None ELSE [quantity |-> found.quantity, status |-> found.status]
<1>1. working \in Database /\ working' \in Database /\ Distinct(working')
  BY DEF TypeInv, TypeOK, RowWritten
<1>2. StockOf(working) = [n \in Names |-> stock(FindItem(working, n))]
  BY DEF StockOf
<1>3. StockOf(working') = [n \in Names |-> stock(FindItem(working', n))]
  BY DEF StockOf
<1>4. ASSUME NEW n \in Names, n # row.name PROVE FindItem(working', n) = FindItem(working, n)
  <2>1. CASE FindItem(working, n) = None
    <3>1. ASSUME NEW other, RowIn(working', other) PROVE other.name # n
      <4>1. CASE other = row
        BY <1>4, <4>1
      <4>2. CASE RowIn(working, other)
        <5>1. other # None
          BY <1>1, <4>2, TableTypes, RowFields DEF RowIn
        <5>2. QED
          BY <1>1, <2>1, <4>2, <5>1, FoundRow
      <4>3. QED
        BY <3>1, <4>1, <4>2 DEF RowWritten
    <3>2. QED
      BY <1>1, <2>1, <3>1, FoundRow
  <2>2. CASE FindItem(working, n) # None
    <3>1. RowIn(working, FindItem(working, n)) /\ FindItem(working, n).name = n
      BY <1>1, <2>2, FoundRow
    <3>2. RowIn(working', FindItem(working, n))
      BY <1>4, <3>1 DEF RowWritten
    <3>3. QED
      BY <1>1, <3>1, <3>2, FoundRow
  <2>3. QED
    BY <2>1, <2>2
<1>5. FindItem(working', row.name) = row
  BY <1>1, FoundRow DEF RowWritten
<1>6. row.name \in Names /\ row # None
  BY RowFields
<1>7. stock(row) = [quantity |-> row.quantity, status |-> row.status]
  BY <1>6
<1> HIDE DEF stock
<1>8. ASSUME NEW n \in Names
      PROVE  StockOf(working')[n] = IF n = row.name THEN stock(row) ELSE StockOf(working)[n]
  BY <1>2, <1>3, <1>4, <1>5
<1>9. StockOf(working') = [n \in Names |-> IF n = row.name THEN stock(row) ELSE StockOf(working)[n]]
  BY <1>3, <1>8
<1>10. QED
  BY <1>2, <1>6, <1>7, <1>9

(* Writing the row of a delta is applying the delta.                       *)
LEMMA WriteApplies ==
  ASSUME TypeInv, TypeInv', ItemsGood, NEW t \in Threads, InsertItem(t) \/ UpdateItem(t)
  PROVE  StockOf(working') = Ledger!ApplyDelta(StockOf(working), CurrentDelta(t))
<1> DEFINE row == RowAfter(t)
           delta == CurrentDelta(t)
           found == held[t].found
           after == IF found = None THEN QuantityOfNew(delta) ELSE QuantityAfter(found.quantity, delta)
<1>1. pc[t] = "write"
  BY DEF InsertItem, UpdateItem
<1>2. row \in Item /\ row.name = delta.name
  BY <1>1, RowAfterType
<1>3. row.quantity = after /\ row.status = StatusAfter(delta, after)
  BY DEF RowAfter, CurrentDelta
<1>4. RowWritten(row)
  BY InsertRow, UpdateRow
<1>5. Distinct(working)
  BY DEF ItemsGood, ItemsSound
<1>6. StockOf(working') = [StockOf(working) EXCEPT ![row.name] =
                             [quantity |-> row.quantity, status |-> row.status]]
  BY <1>2, <1>4, <1>5, WrittenStock
<1>7. delta.name \in Names
  BY <1>2, RowFields
<1>8. working \in Database
  BY DEF TypeInv, TypeOK
<1>9. CASE found = None
  <2>1. RowsNamed(working, delta.name) = {} /\ delta.operation = "upsert"
    BY <1>1, <1>9 DEF ItemsGood, FoundSound
  <2>2. StockOf(working)[delta.name] = None
    BY <1>7, <2>1 DEF StockOf, FindItem
  <2>3. QED
    BY <1>2, <1>3, <1>6, <1>9, <2>1, <2>2, SameArithmetic DEF Ledger!ApplyDelta
<1>10. CASE found # None
  <2>1. RowIn(working, found) /\ found.name = delta.name
    BY <1>1, <1>10 DEF ItemsGood, FoundSound
  <2>2. FindItem(working, delta.name) = found
    BY <1>5, <1>8, <2>1, FoundRow
  <2>3. StockOf(working)[delta.name] = [quantity |-> found.quantity, status |-> found.status]
    BY <1>7, <1>10, <2>2 DEF StockOf
  <2>4. found \in Item
    BY <1>1, <1>10 DEF TypeInv, ThreadOK, Found
  <2>5. StockOf(working)[delta.name] # None
    BY <2>3, <2>4, RowFields, NoneAssumption DEF Stocked
  <2>6. StockOf(working)[delta.name].quantity = found.quantity
    BY <2>3
  <2>7. QED
    BY <1>2, <1>3, <1>6, <1>10, <2>5, <2>6, SameArithmetic DEF Ledger!ApplyDelta
<1>11. QED
  BY <1>9, <1>10

(* Skipping one that takes of nothing is applying it, too.                 *)
LEMMA SkipApplies ==
  ASSUME NEW db, NEW delta, delta.name \in Names, FindItem(db, delta.name) = None, delta.operation # "upsert"
  PROVE  Ledger!ApplyDelta(StockOf(db), delta) = StockOf(db)
BY DEF Ledger!ApplyDelta, StockOf

-----------------------------------------------------------------------------
(* With one request at a time, the others wait.                            *)
LEMMA OthersIdle ==
  ASSUME Serial, ScopeInv, NEW t \in Threads, Serve(t)
  PROVE  \A u \in Threads \ {t} : pc[u] = "idle"
<1>1. ASSUME NEW r \in Requests, SavePending(t, r) \/ ReadProposal(t, r)
      PROVE  \A u \in Threads : pc[u] = "idle"
  BY <1>1 DEF SavePending, ReadProposal, Allowed, Serial
<1>2. CASE Busy(t)
  BY <1>2, OneBusy DEF Busy
<1>3. CASE ~Busy(t)
  <2>1. \E r \in Requests : SavePending(t, r) \/ ReadProposal(t, r)
    BY <1>3 DEF Serve, Busy, Claim, ClaimRefused, FindForDelta, InsertItem, UpdateItem, RecordHistory,
       HistoryRefused, CommitDecision, RecordCaptureTrace, AppendEvent, CommitEvent,
       RecordEngagement, WriteFails, Uncommitted, InTransaction, Applying
  <2>2. QED
    BY <1>1, <2>1
<1>4. QED
  BY <1>2, <1>3

LEMMA LedgerStays ==
  ASSUME NEW t \in Threads, OthersSame(t), \A u \in Threads \ {t} : pc[u] = "idle",
         pc'[t] = "claim" => todo'[t] = DeltasOf(req'[t]),
         pc'[t] \in InTransaction => Decision(t)' /\ Progress(t)',
         pc'[t] \notin InTransaction =>
           working'.proposals = durable'.proposals /\ working'.items = durable'.items
  PROVE  LedgerInv'
<1>1. \A u \in Threads \ {t} : pc'[u] = "idle"
  BY DEF OthersSame
<1>2. ASSUME NEW u \in Threads
      PROVE  /\ pc'[u] = "claim" => todo'[u] = DeltasOf(req'[u])
             /\ pc'[u] \in InTransaction => Decision(u)' /\ Progress(u)'
  <2>1. CASE u = t
    BY <2>1
  <2>2. CASE u # t
    BY <1>1, <2>2 DEF InTransaction, Applying
  <2>3. QED
    BY <2>1, <2>2
<1>3. QED
  BY <1>2 DEF LedgerInv

LEMMA DeltasOfType ==
  ASSUME NEW r \in Requests
  PROVE  DeltasOf(r) \in Seq(Delta) /\ Len(DeltasOf(r)) \in Nat
<1>1. DeltasOf(r) \in Seq(Delta)
  BY RequestFields, MemoryAssumption DEF DeltasOf
<1>2. QED
  BY <1>1

(* The delta at hand is the first of those that remain.                    *)
LEMMA NextDelta ==
  ASSUME TypeInv, NEW t \in Threads, pc[t] \in Applying,
         NEW k \in 0 .. Len(DeltasOf(req[t])), Remaining(t, k)
  PROVE  /\ k + 1 \in 0 .. Len(DeltasOf(req[t])) /\ CurrentDelta(t) \in Delta
         /\ \A s : Ledger!Stages(s, DeltasOf(req[t]))[k + 1] =
                     Ledger!ApplyDelta(Ledger!Stages(s, DeltasOf(req[t]))[k], CurrentDelta(t))
         /\ Len(Tail(todo[t])) = Len(DeltasOf(req[t])) - (k + 1)
         /\ \A i \in 1 .. Len(Tail(todo[t])) : Tail(todo[t])[i] = DeltasOf(req[t])[(k + 1) + i]
         /\ Len(todo[t]) = 1 => k + 1 = Len(DeltasOf(req[t]))
<1> DEFINE deltas == DeltasOf(req[t])
<1>1. todo[t] \in Seq(Delta) /\ todo[t] # <<>> /\ req[t] \in Requests
  BY DEF TypeInv, TypeOK, ThreadOK, Applying, Busy
<1>2. deltas \in Seq(Delta) /\ Len(deltas) \in Nat
  BY <1>1, DeltasOfType
<1>3. /\ Len(todo[t]) \in Nat /\ Len(todo[t]) >= 1
      /\ Head(todo[t]) \in Delta /\ Head(todo[t]) = todo[t][1]
      /\ Len(Tail(todo[t])) = Len(todo[t]) - 1
      /\ \A i \in 1 .. (Len(todo[t]) - 1) : Tail(todo[t])[i] = todo[t][i + 1]
  BY <1>1, TodoFields
<1>4. /\ Len(todo[t]) = Len(deltas) - k
      /\ \A i \in 1 .. Len(todo[t]) : todo[t][i] = deltas[k + i]
  BY DEF Remaining
<1>5. k \in Nat /\ k + 1 \in 0 .. Len(deltas) /\ k + 1 \in 1 .. Len(deltas) /\ (k + 1) - 1 = k
  <2>1. k \in 0 .. Len(deltas)
    OBVIOUS
  <2>2. Len(todo[t]) = Len(deltas) - k
    BY <1>4
  <2> HIDE DEF deltas
  <2>3. QED
    BY <1>2, <1>3, <2>1, <2>2
<1> HIDE DEF deltas
<1>6. CurrentDelta(t) = deltas[k + 1] /\ CurrentDelta(t) \in Delta
  BY <1>3, <1>4 DEF CurrentDelta
<1>7. ASSUME NEW s
      PROVE  Ledger!Stages(s, deltas)[k + 1] = Ledger!ApplyDelta(Ledger!Stages(s, deltas)[k], CurrentDelta(t))
  BY <1>2, <1>5, <1>6, StagesUnfold
<1>8. Len(Tail(todo[t])) = Len(deltas) - (k + 1)
  BY <1>2, <1>3, <1>4, <1>5
<1>9. ASSUME NEW i \in 1 .. Len(Tail(todo[t])) PROVE Tail(todo[t])[i] = deltas[(k + 1) + i]
  <2> DEFINE n == Len(todo[t])
  <2>1. n \in Nat /\ k \in Nat /\ i \in 1 .. (n - 1)
    BY <1>3, <1>5
  <2> HIDE DEF n
  <2>2. i + 1 \in 1 .. n /\ k + (i + 1) = (k + 1) + i
    BY <2>1
  <2>3. todo[t][i + 1] = deltas[(k + 1) + i]
    BY <1>4, <2>2 DEF n
  <2>4. QED
    BY <1>3, <2>1, <2>3 DEF n
<1>10. Len(todo[t]) = 1 => k + 1 = Len(deltas)
  <2> DEFINE n == Len(todo[t])
             m == Len(deltas)
  <2>1. n = m - k /\ m \in Nat /\ k \in Nat
    BY <1>2, <1>4, <1>5
  <2> HIDE DEF n, m
  <2>2. n = 1 => k + 1 = m
    BY <2>1
  <2>3. QED
    BY <2>2 DEF n, m
<1>11. QED
  BY <1>5, <1>6, <1>7, <1>8, <1>9, <1>10 DEF deltas

LEMMA SavePendingLedger ==
  ASSUME TypeInv, ConnectionInv, LedgerInv, NEW t \in Threads, NEW r \in Requests, SavePending(t, r),
         \A u \in Threads \ {t} : pc[u] = "idle"
  PROVE  LedgerInv'
<1> DEFINE new == [status |-> "pending", deltas |-> Parsed[r.proposal]]
<1>1. /\ r.kind = "capture" /\ r.proposal \in Proposals /\ working.proposals[r.proposal] = None
      /\ working'.proposals = [working.proposals EXCEPT ![r.proposal] = new]
      /\ working'.items = working.items
      /\ pc[t] = "idle" /\ pc'[t] = "commit" /\ req'[t] = r
  BY SavePendingTables
<1>2. durable' = durable /\ OthersSame(t)
  BY WriteEffect DEF Writes
<1>3. \A u \in Threads : pc[u] = "idle"
  BY <1>1
<1>4. working.proposals = durable.proposals /\ working.items = durable.items
  BY <1>3 DEF LedgerInv, InTransaction, Applying
<1>5. working.proposals \in [Proposals -> Proposal \union {None}]
  BY DEF TypeInv, TypeOK, Database
<1>6. new # None /\ new.status = "pending"
  BY <1>1, MemoryAssumption, NoneAssumption DEF Proposal, ProposalStatus
<1> HIDE DEF new
<1>7. Decision(t)'
  BY <1>1, <1>2, <1>4, <1>5, <1>6 DEF Decision, Has
<1>8. Progress(t)'
  BY <1>1, <1>2, <1>4 DEF Progress
<1>9. QED
  BY <1>1, <1>2, <1>7, <1>8, LedgerStays DEF InTransaction, Applying

LEMMA ReadProposalLedger ==
  ASSUME TypeInv, ScopeInv, LedgerInv, NEW t \in Threads, NEW r \in Requests, ReadProposal(t, r),
         \A u \in Threads \ {t} : pc[u] = "idle"
  PROVE  LedgerInv'
<1>1. working' = working /\ durable' = durable /\ OthersSame(t)
  BY ReadEffect
<1>2. /\ pc[t] = "idle" /\ pc'[t] = "claim" /\ req'[t] = r
      /\ todo'[t] = IF r.kind = "correct" THEN r.deltas ELSE working.proposals[r.proposal].deltas
      /\ Has(working, r.proposal, "pending")
  BY DEF ReadProposal, Allowed, Goto, TypeInv, TypeOK, Has
<1>3. working.proposals[r.proposal].deltas = Parsed[r.proposal]
  BY <1>2, RequestFields DEF ScopeInv, Captured
<1>4. todo'[t] = DeltasOf(r)
  BY <1>2, <1>3 DEF DeltasOf
<1>5. working.proposals = durable.proposals /\ working.items = durable.items
  BY <1>2 DEF LedgerInv, InTransaction, Applying
<1>6. QED
  BY <1>1, <1>2, <1>4, <1>5, LedgerStays DEF InTransaction, Applying

LEMMA ClaimLedger ==
  ASSUME TypeInv, LedgerInv, NEW t \in Threads, Claim(t), \A u \in Threads \ {t} : pc[u] = "idle"
  PROVE  LedgerInv'
<1> DEFINE p == req[t].proposal
           new == [status |-> Outcome(req[t].kind), deltas |-> todo[t]]
<1>1. /\ req[t] \in Requests /\ req[t].kind \in Decisions /\ p \in Proposals /\ pc[t] = "claim"
      /\ Has(working, p, "pending")
      /\ working'.proposals = [working.proposals EXCEPT ![p] = new]
      /\ working'.items = working.items
      /\ req'[t] = req[t] /\ todo'[t] = todo[t]
      /\ pc'[t] = IF req[t].kind = "reject" \/ todo[t] = <<>> THEN "commit" ELSE "find"
  BY ClaimTables
<1>2. durable' = durable /\ OthersSame(t)
  BY WriteEffect DEF Writes
<1>3. todo[t] = DeltasOf(req[t])
  BY <1>1 DEF LedgerInv
<1>4. working.proposals = durable.proposals /\ working.items = durable.items
  BY <1>1 DEF LedgerInv, InTransaction, Applying
<1>5. working.proposals \in [Proposals -> Proposal \union {None}]
  BY DEF TypeInv, TypeOK, Database
<1>6. new # None /\ new.status = Outcome(req[t].kind)
  <2>1. todo[t] \in Seq(Delta)
    BY DEF TypeInv, TypeOK
  <2>2. new \in Proposal
    BY <2>1 DEF Proposal, ProposalStatus, Outcome
  <2>3. QED
    BY <2>2, NoneAssumption
<1> HIDE DEF new
<1>7. Decision(t)'
  <2>1. working'.proposals[p] = new
    BY <1>1, <1>5
  <2>2. \A q \in Proposals \ {p} : working'.proposals[q] = durable.proposals[q]
    BY <1>1, <1>4, <1>5
  <2>3. req[t].kind # "capture"
    BY <1>1 DEF Decisions
  <2>4. QED
    BY <1>1, <1>2, <1>4, <1>6, <2>1, <2>2, <2>3 DEF Decision, Has
<1>8. StockOf(working') = StockOf(durable')
  BY <1>1, <1>2, <1>4, SameStock
<1>9. /\ DeltasOf(req[t]) \in Seq(Delta) /\ Len(DeltasOf(req[t])) \in Nat
      /\ 0 \in 0 .. Len(DeltasOf(req[t]))
      /\ Ledger!Stages(StockOf(durable'), DeltasOf(req[t]))[0] = StockOf(durable')
  BY <1>1, DeltasOfType, StagesUnfold
<1>10. Progress(t)'
  <2>1. CASE req[t].kind # "reject" /\ todo[t] # <<>>
    <3>1. pc'[t] = "find"
      BY <1>1, <2>1
    <3>2. Remaining(t, 0)'
      BY <1>1, <1>3, <1>9 DEF Remaining
    <3>3. StageIs(t, 0)'
      BY <1>1, <1>8, <1>9 DEF StageIs
    <3>4. QED
      BY <1>1, <1>9, <3>1, <3>2, <3>3 DEF Progress
  <2>2. CASE req[t].kind # "reject" /\ todo[t] = <<>>
    <3>1. Len(DeltasOf(req[t])) = 0
      BY <1>3, <2>2
    <3>2. pc'[t] = "commit" /\ req[t].kind \in {"confirm", "correct"}
      BY <1>1, <2>2 DEF Decisions, Kinds
    <3>3. StageIs(t, Len(DeltasOf(req[t])))'
      BY <1>1, <1>8, <1>9, <3>1 DEF StageIs
    <3>4. QED
      BY <1>1, <3>2, <3>3 DEF Progress
  <2>3. CASE req[t].kind = "reject"
    BY <1>1, <1>2, <1>4, <2>3 DEF Progress
  <2>4. QED
    BY <2>1, <2>2, <2>3
<1>11. QED
  BY <1>1, <1>2, <1>7, <1>10, LedgerStays DEF InTransaction, Applying

(* One delta on: the transaction is one stage further.                     *)
LEMMA DecisionStays ==
  ASSUME NEW t \in Threads, Decision(t), req'[t] = req[t], durable' = durable,
         working'.proposals = working.proposals
  PROVE  Decision(t)'
BY DEF Decision, Has

LEMMA FindLedger ==
  ASSUME TypeInv, LedgerInv, NEW t \in Threads, FindForDelta(t), \A u \in Threads \ {t} : pc[u] = "idle"
  PROVE  LedgerInv'
<1> DEFINE delta == Head(todo[t])
           row == FindItem(working, delta.name)
           skip == row = None /\ delta.operation # "upsert"
<1>1. working' = working /\ durable' = durable /\ OthersSame(t)
  BY ReadEffect
<1>2. /\ pc[t] = "find" /\ req'[t] = req[t]
      /\ pc'[t] = (IF ~skip THEN "write" ELSE IF Len(todo[t]) = 1 THEN "commit" ELSE "find")
      /\ todo'[t] = IF skip THEN Tail(todo[t]) ELSE todo[t]
  BY DEF FindForDelta, Goto, TypeInv, TypeOK
<1>3. pc[t] \in Applying /\ req[t].kind \in {"confirm", "correct"}
  BY <1>2 DEF TypeInv, ThreadOK, Applying, Decisions, Kinds
<1>4. Decision(t) /\ Progress(t)
  BY <1>2 DEF LedgerInv, InTransaction, Applying
<1>5. Decision(t)'
  BY <1>1, <1>2, <1>4, DecisionStays
<1>6. PICK k \in 0 .. Len(DeltasOf(req[t])) : Remaining(t, k) /\ StageIs(t, k)
  BY <1>2, <1>4 DEF Progress
<1>7. CASE ~skip
  <2>1. pc'[t] = "write" /\ todo'[t] = todo[t]
    BY <1>2, <1>7
  <2>2. Remaining(t, k)' /\ StageIs(t, k)'
    BY <1>1, <1>2, <1>6, <2>1 DEF Remaining, StageIs
  <2>3. Progress(t)'
    BY <1>2, <2>1, <2>2 DEF Progress
  <2>4. QED
    BY <1>1, <1>5, <2>1, <2>3, LedgerStays DEF InTransaction, Applying
<1>8. CASE skip
  <2>1. todo'[t] = Tail(todo[t]) /\ pc'[t] = IF Len(todo[t]) = 1 THEN "commit" ELSE "find"
    BY <1>2, <1>8
  <2>2. /\ k + 1 \in 0 .. Len(DeltasOf(req[t])) /\ CurrentDelta(t) \in Delta
        /\ \A s : Ledger!Stages(s, DeltasOf(req[t]))[k + 1] =
                    Ledger!ApplyDelta(Ledger!Stages(s, DeltasOf(req[t]))[k], CurrentDelta(t))
        /\ Len(Tail(todo[t])) = Len(DeltasOf(req[t])) - (k + 1)
        /\ \A i \in 1 .. Len(Tail(todo[t])) : Tail(todo[t])[i] = DeltasOf(req[t])[(k + 1) + i]
        /\ (Len(todo[t]) = 1 => k + 1 = Len(DeltasOf(req[t])))
    BY <1>3, <1>6, NextDelta
  <2>3. Ledger!ApplyDelta(StockOf(working), CurrentDelta(t)) = StockOf(working)
    BY <1>8, <2>2, SkipApplies DEF CurrentDelta, Delta
  <2>4. StageIs(t, k + 1)'
    BY <1>1, <1>2, <1>6, <2>2, <2>3 DEF StageIs
  <2>5. Remaining(t, k + 1)'
    BY <1>2, <2>1, <2>2 DEF Remaining
  <2>6. Progress(t)'
    <3>1. CASE Len(todo[t]) = 1
      BY <1>2, <1>3, <2>1, <2>2, <2>4, <3>1 DEF Progress
    <3>2. CASE Len(todo[t]) # 1
      <4>1. pc'[t] = "find"
        BY <2>1, <3>2
      <4>2. \E j \in 0 .. Len(DeltasOf(req'[t])) : Remaining(t, j)' /\ StageIs(t, j)'
        BY <1>2, <2>2, <2>4, <2>5
      <4>3. QED
        BY <4>1, <4>2 DEF Progress
    <3>3. QED
      BY <3>1, <3>2
  <2>7. QED
    BY <1>1, <1>5, <2>1, <2>6, LedgerStays DEF InTransaction, Applying
<1>9. QED
  BY <1>7, <1>8

LEMMA WriteLedger ==
  ASSUME TypeInv, TypeInv', ItemsGood, LedgerInv, NEW t \in Threads, InsertItem(t) \/ UpdateItem(t),
         \A u \in Threads \ {t} : pc[u] = "idle"
  PROVE  LedgerInv'
<1>1. /\ working'.proposals = working.proposals
      /\ pc[t] = "write" /\ pc'[t] = "record" /\ req'[t] = req[t] /\ todo'[t] = todo[t]
  BY ItemTables
<1>2. durable' = durable /\ OthersSame(t)
  BY WriteEffect DEF Writes
<1>3. Decision(t) /\ Progress(t)
  BY <1>1 DEF LedgerInv, InTransaction, Applying
<1>4. Decision(t)'
  BY <1>1, <1>2, <1>3, DecisionStays
<1>5. PICK k \in 0 .. Len(DeltasOf(req[t])) : Remaining(t, k) /\ StageIs(t, k)
  BY <1>1, <1>3 DEF Progress
<1>6. \A s : Ledger!Stages(s, DeltasOf(req[t]))[k + 1] =
               Ledger!ApplyDelta(Ledger!Stages(s, DeltasOf(req[t]))[k], CurrentDelta(t))
  BY <1>1, <1>5, NextDelta DEF Applying
<1>7. StockOf(working') = Ledger!ApplyDelta(StockOf(working), CurrentDelta(t))
  BY WriteApplies
<1>8. StageIs(t, k + 1)'
  BY <1>1, <1>2, <1>5, <1>6, <1>7 DEF StageIs
<1>9. Remaining(t, k)'
  BY <1>1, <1>5 DEF Remaining
<1>10. Progress(t)'
  BY <1>1, <1>8, <1>9 DEF Progress
<1>11. QED
  BY <1>1, <1>2, <1>4, <1>10, LedgerStays DEF InTransaction, Applying

LEMMA RecordLedger ==
  ASSUME TypeInv, LedgerInv, NEW t \in Threads, RecordHistory(t), \A u \in Threads \ {t} : pc[u] = "idle"
  PROVE  LedgerInv'
<1>1. /\ working'.proposals = working.proposals /\ working'.items = working.items
      /\ pc[t] = "record" /\ pc'[t] = (IF Len(todo[t]) = 1 THEN "commit" ELSE "find")
      /\ req'[t] = req[t] /\ todo'[t] = Tail(todo[t])
  BY HistoryTables
<1>2. durable' = durable /\ OthersSame(t)
  BY WriteEffect DEF Writes
<1>3. pc[t] \in Applying /\ req[t].kind \in {"confirm", "correct"}
  BY <1>1 DEF TypeInv, ThreadOK, Applying, Decisions, Kinds
<1>4. Decision(t) /\ Progress(t)
  BY <1>1 DEF LedgerInv, InTransaction, Applying
<1>5. Decision(t)'
  BY <1>1, <1>2, <1>4, DecisionStays
<1>6. PICK k \in 0 .. Len(DeltasOf(req[t])) : Remaining(t, k) /\ StageIs(t, k + 1)
  BY <1>1, <1>4 DEF Progress
<1>7. /\ k + 1 \in 0 .. Len(DeltasOf(req[t]))
      /\ Len(Tail(todo[t])) = Len(DeltasOf(req[t])) - (k + 1)
      /\ \A i \in 1 .. Len(Tail(todo[t])) : Tail(todo[t])[i] = DeltasOf(req[t])[(k + 1) + i]
      /\ (Len(todo[t]) = 1 => k + 1 = Len(DeltasOf(req[t])))
  BY <1>3, <1>6, NextDelta
<1>8. StockOf(working') = StockOf(working)
  BY <1>1, SameStock
<1>9. StageIs(t, k + 1)'
  BY <1>1, <1>2, <1>6, <1>8 DEF StageIs
<1>10. Remaining(t, k + 1)'
  BY <1>1, <1>7 DEF Remaining
<1>11. Progress(t)'
  <2>1. CASE Len(todo[t]) = 1
    BY <1>1, <1>3, <1>7, <1>9, <2>1 DEF Progress
  <2>2. CASE Len(todo[t]) # 1
    <3>1. \E j \in 0 .. Len(DeltasOf(req'[t])) : Remaining(t, j)' /\ StageIs(t, j)'
      BY <1>1, <1>7, <1>9, <1>10
    <3>2. QED
      BY <1>1, <2>2, <3>1 DEF Progress
  <2>3. QED
    BY <2>1, <2>2
<1>12. QED
  BY <1>1, <1>2, <1>5, <1>11, LedgerStays DEF InTransaction, Applying

(* Outside its transaction a thread leaves nothing of the ledger pending.  *)
LEMMA NothingPending ==
  ASSUME LedgerInv, NEW t \in Threads, \A u \in Threads \ {t} : pc[u] = "idle",
         pc[t] \notin InTransaction
  PROVE  working.proposals = durable.proposals /\ working.items = durable.items
BY DEF LedgerInv, InTransaction, Applying

LEMMA LedgerInductive ==
  ASSUME Serial
  PROVE  TypeInv /\ ConnectionInv /\ ScopeInv /\ ItemsGood /\ LedgerInv /\ [Next]_vars => LedgerInv'
<1> SUFFICES ASSUME TypeInv, ConnectionInv, ScopeInv, ItemsGood, LedgerInv, [Next]_vars
             PROVE  LedgerInv'
  OBVIOUS
<1>1. TypeInv'
  BY TypeInductive
<1>2. CASE Restart
  BY <1>2, RestartEffect DEF LedgerInv, InTransaction, Applying
<1>3. ASSUME NEW t \in Threads, Serve(t) PROVE LedgerInv'
  <2>1. \A u \in Threads \ {t} : pc[u] = "idle"
    BY <1>3, OthersIdle
  <2>2. ASSUME NEW r \in Requests, SavePending(t, r) PROVE LedgerInv'
    BY <2>1, <2>2, SavePendingLedger
  <2>3. ASSUME NEW r \in Requests, ReadProposal(t, r) PROVE LedgerInv'
    BY <2>1, <2>3, ReadProposalLedger
  <2>4. CASE Claim(t)
    BY <2>1, <2>4, ClaimLedger
  <2>5. CASE FindForDelta(t)
    BY <2>1, <2>5, FindLedger
  <2>6. CASE InsertItem(t) \/ UpdateItem(t)
    BY <1>1, <2>1, <2>6, WriteLedger
  <2>7. CASE RecordHistory(t)
    BY <2>1, <2>7, RecordLedger
  <2>8. CASE AppendEvent(t)
    <3>1. /\ working'.proposals = working.proposals /\ working'.items = working.items
          /\ pc[t] = "notify" /\ pc'[t] = "announce"
      BY <2>8, EventTables
    <3>2. durable' = durable /\ OthersSame(t)
      BY <2>8, WriteEffect DEF Writes
    <3>3. working.proposals = durable.proposals /\ working.items = durable.items
      BY <2>1, <3>1, NothingPending DEF InTransaction, Applying
    <3>4. QED
      BY <2>1, <3>1, <3>2, <3>3, LedgerStays DEF InTransaction, Applying
  <2>9. CASE Commits(t)
    <3>1. /\ working' = working /\ durable' \in {working, durable} /\ OthersSame(t)
          /\ (durable' = working \/ (pc[t] = "engage" /\ pc'[t] = "idle"))
          /\ pc'[t] \notin InTransaction /\ pc'[t] # "claim"
      BY <2>9, CommitEffect DEF CommitStep, InTransaction, Applying
    <3>2. CASE durable' = working
      BY <2>1, <3>1, <3>2, LedgerStays
    <3>3. CASE pc[t] = "engage"
      <4>1. working.proposals = durable.proposals /\ working.items = durable.items
        BY <2>1, <3>3, NothingPending DEF InTransaction, Applying
      <4>2. QED
        BY <2>1, <3>1, <4>1, LedgerStays
    <3>4. QED
      BY <3>1, <3>2, <3>3
  <2>10. CASE RollsBack(t)
    BY <2>1, <2>10, RollBackEffect, LedgerStays DEF InTransaction, Applying
  <2>11. QED
    BY <1>3, <2>2, <2>3, <2>4, <2>5, <2>6, <2>7, <2>8, <2>9, <2>10, ServeCases DEF Writes
<1>4. CASE UNCHANGED vars
  BY <1>4 DEF vars, connectionVars, threadVars, LedgerInv, Decision, Progress, Remaining, StageIs
<1>5. QED
  BY <1>2, <1>3, <1>4 DEF Next

LEMMA InitLedger == Init => LedgerInv /\ Ledger!Init
<1> SUFFICES ASSUME Init PROVE LedgerInv /\ Ledger!Init
  OBVIOUS
<1>1. working = EmptyDatabase /\ durable = EmptyDatabase /\ \A t \in Threads : pc[t] = "idle"
  BY DEF Init
<1>2. LedgerInv
  BY <1>1 DEF LedgerInv, InTransaction, Applying
<1>3. StoredStatus = [p \in Proposals |-> None]
  BY <1>1 DEF StoredStatus, EmptyDatabase
<1>4. \A n : RowsNamed(EmptyDatabase, n) = {}
  BY DEF RowsNamed, EmptyDatabase
<1>5. \A n : FindItem(EmptyDatabase, n) = None
  BY <1>4 DEF FindItem
<1>6. StoredStock = [n \in Names |-> None]
  BY <1>1, <1>5 DEF StoredStock
<1>7. QED
  BY <1>2, <1>3, <1>6 DEF Ledger!Init

(* The commit of a transaction is a step of the ledger.                    *)
LEMMA CommitIsStep ==
  ASSUME TypeInv, LedgerInv, NEW t \in Threads, CommitDecision(t)
  PROVE  Ledger!Next
<1> DEFINE p == req[t].proposal
           kind == req[t].kind
           deltas == DeltasOf(req[t])
<1>1. pc[t] = "commit" /\ durable' = working
  BY DEF CommitDecision, CommitAll, Commit
<1>2. /\ req[t] \in Requests /\ p \in Proposals /\ kind \in Kinds
      /\ (kind = "correct" => req[t].deltas \in Corrections)
  BY <1>1, RequestFields DEF TypeInv, ThreadOK, Busy
<1>3. Decision(t) /\ Progress(t)
  BY <1>1 DEF LedgerInv, InTransaction, Applying
<1>4. /\ IF kind = "capture" THEN durable.proposals[p] = None ELSE Has(durable, p, "pending")
      /\ Has(working, p, IF kind = "capture" THEN "pending" ELSE Outcome(kind))
      /\ \A q \in Proposals \ {p} : working.proposals[q] = durable.proposals[q]
  BY <1>3 DEF Decision
<1> HIDE DEF p, kind, deltas
<1>5. StoredStatus[p] = IF kind = "capture" THEN None ELSE "pending"
  BY <1>2, <1>4 DEF StoredStatus, Has
<1>6. StoredStatus' = [StoredStatus EXCEPT ![p] = IF kind = "capture" THEN "pending" ELSE Outcome(kind)]
  <2>1. ASSUME NEW q \in Proposals
        PROVE  StoredStatus'[q] = IF q = p THEN (IF kind = "capture" THEN "pending" ELSE Outcome(kind))
                                  ELSE StoredStatus[q]
    <3>1. CASE q = p
      BY <1>1, <1>4, <3>1 DEF StoredStatus, Has
    <3>2. CASE q # p
      BY <1>1, <1>4, <3>2 DEF StoredStatus
    <3>3. QED
      BY <3>1, <3>2
  <2>2. /\ DOMAIN StoredStatus = Proposals /\ DOMAIN StoredStatus' = Proposals
        /\ StoredStatus = [q \in Proposals |-> StoredStatus[q]]
        /\ StoredStatus' = [q \in Proposals |-> StoredStatus'[q]]
    BY DEF StoredStatus
  <2>3. QED
    BY <1>2, <2>1, <2>2
<1>7. StoredStock = StockOf(durable) /\ StoredStock' = StockOf(working)
  BY <1>1 DEF StoredStock, StockOf
<1>8. CASE kind = "capture"
  <2>1. StoredStock' = StoredStock
    BY <1>1, <1>3, <1>7, <1>8, SameStock DEF Progress, kind
  <2>2. Ledger!Propose(p)
    BY <1>5, <1>6, <1>8, <2>1 DEF Ledger!Propose
  <2>3. QED
    BY <1>2, <2>2 DEF Ledger!Next
<1>9. CASE kind = "reject"
  <2>1. StoredStock' = StoredStock
    BY <1>1, <1>3, <1>7, <1>9, SameStock DEF Progress, kind
  <2>2. Ledger!Reject(p)
    BY <1>5, <1>6, <1>9, <2>1 DEF Ledger!Reject, Outcome
  <2>3. QED
    BY <1>2, <2>2 DEF Ledger!Next
<1>10. CASE kind \in {"confirm", "correct"}
  <2>1. StoredStock' = Ledger!Stages(StoredStock, deltas)[Len(deltas)]
    BY <1>1, <1>3, <1>7, <1>10 DEF Progress, StageIs, kind, deltas
  <2>2. StoredStock' = Ledger!ApplyAll(StoredStock, deltas)
    BY <2>1 DEF Ledger!ApplyAll
  <2>3. Ledger!Confirm(p, deltas)
    BY <1>5, <1>6, <1>10, <2>2 DEF Ledger!Confirm, Outcome
  <2>4. deltas \in Corrections \union {Parsed[p]}
    BY <1>2 DEF deltas, DeltasOf, p, kind
  <2>5. QED
    BY <1>2, <2>3, <2>4 DEF Ledger!Next
<1>11. QED
  BY <1>2, <1>8, <1>9, <1>10 DEF Kinds

LEMMA StoredSame ==
  ASSUME durable'.proposals = durable.proposals, durable'.items = durable.items
  PROVE  UNCHANGED Ledger!vars
<1>1. StoredStatus' = StoredStatus
  BY DEF StoredStatus
<1>2. StoredStock' = StoredStock
  BY DEF StoredStock, FindItem, RowsNamed
<1>3. QED
  BY <1>1, <1>2 DEF Ledger!vars

LEMMA StepImplementsLedger ==
  ASSUME Serial
  PROVE  TypeInv /\ ScopeInv /\ LedgerInv /\ [Next]_vars => [Ledger!Next]_(Ledger!vars)
<1> SUFFICES ASSUME TypeInv, ScopeInv, LedgerInv, [Next]_vars
             PROVE  Ledger!Next \/ UNCHANGED Ledger!vars
  OBVIOUS
<1>1. CASE Restart
  BY <1>1, RestartEffect, StoredSame
<1>2. ASSUME NEW t \in Threads, Serve(t) PROVE Ledger!Next \/ UNCHANGED Ledger!vars
  <2>1. CASE CommitDecision(t)
    BY <2>1, CommitIsStep
  <2>2. CASE Commits(t) /\ ~CommitDecision(t)
    <3>1. durable' \in {working, durable} /\ pc[t] \notin InTransaction
      BY <2>2, CommitEffect DEF Commits, RecordCaptureTrace, CommitEvent, RecordEngagement, InTransaction, Applying
    <3>2. working.proposals = durable.proposals /\ working.items = durable.items
      BY <1>2, <3>1, OthersIdle, NothingPending
    <3>3. QED
      BY <3>1, <3>2, StoredSame
  <2>3. CASE ~Commits(t)
    <3>1. durable' = durable
      BY <1>2, <2>3, ServeCases, WriteEffect, RollBackEffect, ReadEffect
    <3>2. QED
      BY <3>1, StoredSame
  <2>4. QED
    BY <2>1, <2>2, <2>3
<1>3. CASE UNCHANGED vars
  <2>1. durable' = durable
    BY <1>3 DEF vars, connectionVars
  <2>2. QED
    BY <2>1, StoredSame
<1>4. QED
  BY <1>1, <1>2, <1>3 DEF Next

(* With one request at a time the tables implement the ledger, whatever    *)
(* fails and whenever the process dies: a commit decides a proposal and    *)
(* applies all of its deltas, or neither.                                  *)
THEOREM ImplementsLedgerCorrect ==
  ASSUME Serial
  PROVE  Spec => ImplementsLedger
<1>1. ItemsApart
  BY DEF Serial, ItemsApart
<1>2. Spec => []ItemInv
  BY <1>1, ItemHolds
<1>3. Spec => []Whole
  BY NeverTorn
<1>4. Init => LedgerInv /\ Ledger!Init
  BY InitLedger
<1>5. TypeInv /\ ConnectionInv /\ ScopeInv /\ ItemInv /\ Whole /\ LedgerInv /\ [Next]_vars => LedgerInv'
  BY LedgerInductive DEF ItemInv, Whole
<1>6. TypeInv /\ ScopeInv /\ LedgerInv /\ [Next]_vars => [Ledger!Next]_(Ledger!vars)
  BY StepImplementsLedger
<1>7. Spec => []LedgerInv
  BY <1>2, <1>3, <1>4, <1>5, TypeHolds, ConnectionHolds, ScopeHolds, PTL DEF Spec
<1>8. QED
  BY <1>4, <1>6, <1>7, TypeHolds, ScopeHolds, PTL DEF Spec, ImplementsLedger, Ledger!Spec
=============================================================================
