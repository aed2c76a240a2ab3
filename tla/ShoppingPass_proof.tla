-------------------------- MODULE ShoppingPass_proof --------------------------
(* Theorems about ShoppingPass, for every set of threads, names, recipes   *)
(* and requests, and whichever of them overlap, fail or are cut short.     *)
EXTENDS ShoppingPass, FiniteSetTheorems, SequenceTheorems, TLAPS

LEMMA MaxOfIndices ==
  ASSUME NEW n \in Nat, NEW S \in SUBSET (1 .. n), S # {}
  PROVE  Max(S) \in S
<1> DEFINE From(i) == i .. n
           Above == {From(i) : i \in S}
           Subsets == FiniteSubsetsOf(1 .. n)
           Smaller == StrictSubsetOrdering(1 .. n)
<1>1. IsFiniteSet(1 .. n)
  BY FS_Interval
<1>2. SUBSET (1 .. n) = Subsets
  BY <1>1, FS_FiniteSubsetsOfFinite
<1>3. \A i \in S : From(i) \in SUBSET (1 .. n)
  OBVIOUS
<1>4. Above \subseteq Subsets /\ Above # {}
  <2>1. Above \subseteq SUBSET (1 .. n)
    BY <1>3, Zenon
  <2>2. Above # {}
    BY Zenon
  <2>3. QED
    BY <2>1, <2>2, <1>2, Zenon
<1>5. PICK x \in Above : \A y \in Above : <<y, x>> \notin Smaller
  <2>1. IsWellFoundedOn(Smaller, Subsets)
    BY FS_StrictSubsetOrderingWellFounded
  <2> HIDE DEF Above, Subsets, Smaller
  <2>2. QED
    BY <2>1, <1>4, WFMin
<1>6. PICK i \in S : x = From(i)
  BY <1>5
<1>7. ASSUME NEW j \in S PROVE i >= j
  <2>1. SUFFICES ASSUME j > i PROVE FALSE
    OBVIOUS
  <2>2. From(j) \subseteq From(i) /\ From(j) # From(i)
    BY <2>1
  <2>3. <<From(j), From(i)>> \in Smaller
    BY <2>2, <1>3 DEF StrictSubsetOrdering
  <2>4. QED
    BY <2>3, <1>5, <1>6
<1>8. QED
  BY <1>7 DEF Max

LEMMA IdsPositive == Ids \subseteq Nat \ {0} /\ \A n \in Nat \ {0} : n <= MaxItems => n \in Ids
BY ShoppingAssumption DEF Ids

-----------------------------------------------------------------------------
(* What a thread reads of its request and its locals where it is: the      *)
(* fields that the kind of its request has, a name that is left to be      *)
(* added, and a list of missing ingredients that has an end.               *)
Fits(t) ==
  /\ pc[t] # "idle" => req[t] \in Requests
  /\ pc[t] \in {"find", "insert"} => todo[t] # <<>>
  /\ pc[t] \in {"owned", "update"} => req[t].kind = "done"
  /\ pc[t] = "stock" => req[t].kind \in {"hint", "query"}
  /\ pc[t] = "write" => req[t].kind \in {"create", "delete"}
  /\ pc[t] = "recipe" => req[t].kind = "query"
  /\ IsFiniteSet(seen[t].missing)

FiniteTraces(db) == \A i \in DOMAIN db.traces : IsFiniteSet(db.traces[i].missing)

(* No id is given to two items.                                            *)
IdsUnused(db) == \A id \in Ids : id >= nextId => db.items[id] = None

WellFormed ==
  /\ \A t \in Threads : Fits(t)
  /\ FiniteTraces(working) /\ FiniteTraces(durable)
  /\ nextId > 0
  /\ IdsUnused(working) /\ IdsUnused(durable)

TypeInv == TypeOK /\ WellFormed

LEMMA EmptyDatabaseType == EmptyDatabase \in Database /\ FiniteTraces(EmptyDatabase)
<1>1. <<>> \in Seq(QueryTrace) /\ DOMAIN <<>> = {}
  BY EmptySeq
<1>2. FiniteTraces(EmptyDatabase)
  BY <1>1 DEF FiniteTraces, EmptyDatabase
<1>3. EmptyDatabase \in Database
  BY <1>1 DEF EmptyDatabase, Database
<1>4. QED
  BY <1>2, <1>3

LEMMA FoundType ==
  /\ \A names \in SUBSET Names : Found(names) \in QueryTrace /\ Found(names).missing = names
  /\ Failed \in QueryTrace /\ Failed.missing = {} /\ IsFiniteSet({})
  /\ \A trace \in QueryTrace : trace.missing \subseteq Names
<1>1. \A names \in SUBSET Names : Found(names) \in QueryTrace /\ Found(names).missing = names
  BY DEF Found, QueryTrace
<1>2. Failed \in QueryTrace /\ Failed.missing = {}
  BY DEF Failed, QueryTrace
<1>3. ASSUME NEW trace \in QueryTrace PROVE trace.missing \subseteq Names
  BY <1>1, <1>2 DEF QueryTrace
<1>4. QED
  BY <1>1, <1>2, <1>3, FS_EmptySet

LEMMA TailLeft ==
  ASSUME NEW s \in Seq(Names), Len(s) > 1
  PROVE  Tail(s) # <<>>
<1>1. Len(<<>>) = 0
  BY EmptySeq
<1>2. s # <<>>
  BY <1>1
<1>3. PICK n \in Nat : n = Len(s) /\ Len(Tail(s)) = n - 1
  BY <1>2, HeadTailProperties, LenProperties
<1>4. PICK rest : rest = Tail(s) /\ Len(rest) = n - 1
  BY <1>3
<1>5. Len(rest) # 0
  BY <1>3, <1>4
<1>6. QED
  BY <1>1, <1>4, <1>5, Zenon

LEMMA InitTypeInv == Init => TypeInv
<1> SUFFICES ASSUME Init PROVE TypeInv
  OBVIOUS
<1> USE DEF Init
<1>1. TypeOK
  <2>1. <<>> \in Seq(Names)
    BY EmptySeq
  <2>2. QED
    BY <2>1, EmptyDatabaseType, FoundType, ShoppingAssumption DEF TypeOK, Steps
<1>2. WellFormed
  <2>1. ASSUME NEW t \in Threads PROVE Fits(t)
    BY FoundType DEF Fits
  <2>2. IdsUnused(EmptyDatabase)
    BY DEF IdsUnused, EmptyDatabase
  <2>3. QED
    BY <2>1, <2>2, EmptyDatabaseType DEF WellFormed
<1>3. QED
  BY <1>1, <1>2 DEF TypeInv

LEMMA RequestFields ==
  ASSUME NEW r \in Requests
  PROVE  /\ r.kind \in {"add", "hint", "promote", "done", "create", "query", "delete"}
         /\ r.kind = "add" => r.name \in Names
         /\ r.kind = "done" => r.id \in Ids
         /\ r.kind \in {"create", "query", "delete"} => r.recipe \in Recipes
         /\ r.kind \in {"create", "query"} => r.needs \subseteq Names
         /\ FirstStep(r) \in Steps \ {"idle", "insert", "update", "recipe"}
         /\ FirstStep(r) = "find" => r.kind = "add"
         /\ FirstStep(r) = "owned" => r.kind = "done"
         /\ FirstStep(r) = "stock" => r.kind \in {"hint", "query"}
         /\ FirstStep(r) = "write" => r.kind \in {"create", "delete"}
<1>1. r \in [kind : {"add"}, name : Names] \union [kind : {"hint", "promote"}]
            \union [kind : {"done"}, id : Ids]
            \union [kind : {"create", "query"}, recipe : Recipes, needs : SUBSET Names]
            \union [kind : {"delete"}, recipe : Recipes]
  BY ShoppingAssumption
<1>2. /\ r.kind \in {"add", "hint", "promote", "done", "create", "query", "delete"}
      /\ r.kind = "add" => r.name \in Names
      /\ r.kind = "done" => r.id \in Ids
      /\ r.kind \in {"create", "query", "delete"} => r.recipe \in Recipes
      /\ r.kind \in {"create", "query"} => r.needs \subseteq Names
  BY <1>1
<1>3. QED
  BY <1>2 DEF FirstStep, Steps

(* The rollback of a thread's block, by an exception or a unique index.    *)
LEMMA RollBackTypeInv ==
  ASSUME TypeInv, NEW t \in Threads, RollBackAndFinish(t)
  PROVE  TypeInv'
<1> USE DEF TypeInv, RollBackAndFinish, Rollback, Finish, Goto
<1>1. TypeOK'
  <2>1. <<>> \in Seq(Names)
    BY EmptySeq
  <2>2. Facts(working) \subseteq Fact
    BY DEF Facts
  <2>3. QED
    BY <2>1, <2>2, FoundType DEF TypeOK, Steps
<1>2. ASSUME NEW u \in Threads PROVE Fits(u)'
  <2>1. CASE u = t
    BY <2>1, FoundType DEF Fits, TypeOK
  <2>2. CASE u # t
    BY <2>2 DEF Fits, TypeOK, WellFormed
  <2>3. QED
    BY <2>1, <2>2
<1>3. QED
  BY <1>1, <1>2 DEF WellFormed, IdsUnused, FiniteTraces

(* The other threads' steps do not change what a thread has read.          *)
LEMMA OthersFit ==
  ASSUME TypeInv, NEW t \in Threads, Fits(t)',
         \A u \in Threads \ {t} : /\ pc'[u] = pc[u] /\ req'[u] = req[u]
                                  /\ todo'[u] = todo[u] /\ seen'[u] = seen[u]
  PROVE  \A u \in Threads : Fits(u)'
BY DEF TypeInv, WellFormed, Fits

LEMMA TypeInductive == TypeInv /\ [Next]_vars => TypeInv'
<1> SUFFICES ASSUME TypeInv, [Next]_vars PROVE TypeInv'
  OBVIOUS
<1>1. CASE Restart
  <2> USE <1>1 DEF Restart, Rollback, historyVars
  <2>1. <<>> \in Seq(Names)
    BY EmptySeq
  <2>2. TypeOK'
    BY <2>1, FoundType DEF TypeInv, TypeOK, Steps
  <2>3. ASSUME NEW t \in Threads PROVE Fits(t)'
    BY FoundType DEF Fits
  <2>4. QED
    BY <2>2, <2>3 DEF TypeInv, WellFormed, IdsUnused, FiniteTraces
<1>2. CASE StockChanges
  BY <1>2 DEF StockChanges, connectionVars, threadVars, historyVars, TypeInv, TypeOK, WellFormed,
       Fits, IdsUnused, FiniteTraces
<1>3. ASSUME NEW t \in Threads, Serve(t) PROVE TypeInv'
  <2> USE DEF Goto, connectionVars, historyVars
  <2> Fits(t) /\ TypeOK /\ WellFormed
    BY DEF TypeInv, WellFormed
  <2>a. <<>> \in Seq(Names)
    BY EmptySeq
  <2>b. ASSUME TypeOK', Fits(t)', UNCHANGED <<working, durable, nextId>>,
               \A u \in Threads \ {t} : /\ pc'[u] = pc[u] /\ req'[u] = req[u]
                                        /\ todo'[u] = todo[u] /\ seen'[u] = seen[u]
        PROVE  TypeInv'
    BY <2>b, OthersFit DEF TypeInv, WellFormed, IdsUnused, FiniteTraces
  <2>1. ASSUME NEW r \in Requests, Receive(t, r) PROVE TypeInv'
    <3> USE <2>1 DEF Receive
    <3>1. (IF r.kind = "add" THEN <<r.name>> ELSE <<>>) \in Seq(Names)
      BY <2>a, RequestFields
    <3>2. TypeOK'
      <4>1. todo' \in [Threads -> Seq(Names)]
        BY <3>1 DEF TypeOK
      <4>2. pc' \in [Threads -> Steps] /\ req' \in [Threads -> Requests \union {None}]
        BY RequestFields DEF TypeOK
      <4>3. clock' \in 0 .. MaxRequests
        BY ShoppingAssumption DEF TypeOK
      <4>4. QED
        BY <4>1, <4>2, <4>3 DEF TypeOK
    <3>3. Fits(t)'
      BY RequestFields DEF Fits, TypeOK, Steps
    <3>4. QED
      BY <2>b, <3>2, <3>3 DEF TypeOK
  <2>2. CASE FindOpenItem(t)
    <3> USE <2>2 DEF FindOpenItem
    <3>1. \A id \in Ids : Open(id) \in Fact
      BY DEF Open, Fact
    <3>2. TypeOK'
      <4>1. held' = held \/ \E id \in Ids : held' = [held EXCEPT ![t] = @ \union {Open(id)}]
        BY DEF OpenIds
      <4>a. held' \in [Threads -> SUBSET Fact]
        <5>1. held \in [Threads -> SUBSET Fact]
          BY DEF TypeOK
        <5>2. CASE held' = held
          BY <5>1, <5>2
        <5>3. ASSUME NEW id \in Ids, held' = [held EXCEPT ![t] = @ \union {Open(id)}]
              PROVE  held' \in [Threads -> SUBSET Fact]
          BY <3>1, <5>1, <5>3
        <5>4. QED
          BY <4>1, <5>2, <5>3
      <4>2. pc' \in [Threads -> Steps]
        BY DEF TypeOK, Steps, Uncommitted
      <4>3. QED
        BY <4>a, <4>2 DEF TypeOK
    <3>3. Fits(t)'
      BY DEF Fits, TypeOK
    <3>4. QED
      BY <2>b, <3>2, <3>3 DEF TypeOK
  <2>3. CASE InsertItem(t)
    <3> USE <2>3 DEF InsertItem, Execute
    <3>1. nextId \in Ids /\ nextId' = nextId + 1 /\ nextId' \in Nat /\ nextId' > nextId
      BY IdsPositive DEF WellFormed, TypeOK
    <3>2. Head(todo[t]) \in Names
      BY HeadTailProperties DEF Fits, TypeOK
    <3>3. [name |-> Head(todo[t]), status |-> "open"] \in Item
      BY <3>2 DEF Item
    <3>4. working' \in Database
      BY <3>3 DEF TypeOK, Database
    <3>5. Open(nextId) \in Fact
      BY <3>1 DEF Open, Fact
    <3>6. TypeOK'
      BY <3>1, <3>4, <3>5 DEF TypeOK, Steps, Uncommitted
    <3>7. Fits(t)'
      BY DEF Fits, TypeOK
    <3>8. IdsUnused(working)' /\ IdsUnused(durable)'
      <4>1. ASSUME NEW id \in Ids, id >= nextId'
            PROVE  id # nextId /\ id >= nextId
        BY <4>1, <3>1, IdsPositive DEF TypeOK
      <4>2. QED
        BY <4>1 DEF WellFormed, IdsUnused, TypeOK, Database
    <3>9. FiniteTraces(working)'
      BY DEF WellFormed, FiniteTraces, TypeOK, Database
    <3>10. QED
      BY <3>1, <3>6, <3>7, <3>8, <3>9, OthersFit
         DEF TypeInv, WellFormed, FiniteTraces, TypeOK
  <2>4. CASE NameTaken(t)
    BY <2>4, RollBackTypeInv DEF NameTaken
  <2>5. CASE CommitItem(t)
    <3> USE <2>5 DEF CommitItem, Commit
    <3>1. ASSUME todo[t] # <<>> PROVE Tail(todo[t]) \in Seq(Names)
      BY <3>1, HeadTailProperties DEF TypeOK
    <3>2. TypeOK'
      BY <2>a, <3>1 DEF TypeOK, Steps
    <3>3. ASSUME Len(todo[t]) > 1 PROVE todo'[t] # <<>>
      <4>1. todo[t] \in Seq(Names) /\ todo'[t] = IF todo[t] = <<>> THEN <<>> ELSE Tail(todo[t])
        BY DEF TypeOK
      <4>2. todo[t] # <<>>
        BY <3>3, EmptySeq
      <4>3. Tail(todo[t]) # <<>>
        BY <3>3, <4>1, TailLeft
      <4>4. QED
        BY <4>1, <4>2, <4>3, Zenon
    <3>4. Fits(t)'
      BY <3>3 DEF Fits, TypeOK
    <3>5. QED
      BY <3>2, <3>4, OthersFit DEF TypeInv, WellFormed, IdsUnused, FiniteTraces, TypeOK
  <2>6. CASE GetOwnedItem(t)
    <3> USE <2>6 DEF GetOwnedItem, Finish
    <3>1. req[t].id \in Ids
      BY RequestFields DEF Fits
    <3>2. Open(req[t].id) \in Fact /\ Done(req[t].id) \in Fact
      BY <3>1 DEF Open, Done, Fact
    <3>3. \/ Finish(t)
          \/ /\ held' = [held EXCEPT ![t] = {Open(req[t].id), Done(req[t].id)}]
             /\ Goto(t, "notify") /\ UNCHANGED <<req, todo, seen>>
          \/ /\ held' = [held EXCEPT ![t] = {Open(req[t].id)}]
             /\ Goto(t, "update") /\ UNCHANGED <<req, todo, seen>>
      <4>1. CASE working.items[req[t].id] = None
        BY <4>1
      <4>2. CASE working.items[req[t].id] # None
        <5>1. working.items[req[t].id].status \in {"open", "done"}
          BY <4>2, <3>1 DEF TypeOK, Database, Item
        <5>2. QED
          BY <4>2, <5>1
      <4>3. QED
        BY <4>1, <4>2
    <3> UNCHANGED <<connectionVars, stock, nextId, historyVars>>
      OBVIOUS
    <3> HIDE <2>6 DEF GetOwnedItem
    <3>4. /\ TypeOK' /\ Fits(t)'
          /\ \A u \in Threads \ {t} : /\ pc'[u] = pc[u] /\ req'[u] = req[u]
                                      /\ todo'[u] = todo[u] /\ seen'[u] = seen[u]
      <4>1. CASE Finish(t)
        BY <4>1, <2>a, FoundType DEF TypeOK, Steps, Fits
      <4>2. ASSUME NEW facts \in SUBSET Fact, held' = [held EXCEPT ![t] = facts],
                   Goto(t, "notify") \/ Goto(t, "update"), pc[t] = "owned",
                   UNCHANGED <<req, todo, seen>>
            PROVE  /\ TypeOK' /\ Fits(t)'
                   /\ \A u \in Threads \ {t} : pc'[u] = pc[u]
        <5>1. held' \in [Threads -> SUBSET Fact] /\ pc' \in [Threads -> Steps]
          BY <4>2 DEF TypeOK, Steps
        <5>2. TypeOK'
          BY <4>2, <5>1 DEF TypeOK
        <5>3. Fits(t)'
          BY <4>2 DEF TypeOK, Fits
        <5>4. QED
          BY <4>2, <5>2, <5>3 DEF TypeOK
      <4>3. {Open(req[t].id), Done(req[t].id)} \in SUBSET Fact /\ pc[t] = "owned"
        BY <3>2, <2>6 DEF GetOwnedItem
      <4>4. QED
        BY <3>3, <4>1, <4>2, <4>3
    <3>5. QED
      BY <2>b, <3>4
  <2>7. CASE UpdateItem(t)
    <3> USE <2>7 DEF UpdateItem, Execute
    <3>1. req[t].id \in Ids
      BY RequestFields DEF Fits
    <3>2. Done(req[t].id) \in Fact
      BY <3>1 DEF Done, Fact
    <3>3. /\ working' \in Database
          /\ working'.traces = working.traces
          /\ \A id \in Ids : working.items[id] = None => working'.items[id] = None
      <4>1. CASE working.items[req[t].id] = None
        BY <4>1 DEF TypeOK
      <4>2. CASE working.items[req[t].id] # None
        <5> DEFINE item == working.items[req[t].id]
                   bought == [working.items EXCEPT ![req[t].id] = [item EXCEPT !.status = "done"]]
        <5>a. item \in Item
          BY <4>2, <3>1 DEF TypeOK, Database
        <5> HIDE DEF item
        <5>1. [item EXCEPT !.status = "done"] \in Item
          BY <5>a DEF Item
        <5> USE DEF item
        <5>2. bought \in [Ids -> Item \union {None}]
          BY <5>1 DEF TypeOK, Database
        <5>3. working' = [working EXCEPT !.items = bought]
          BY <4>2
        <5>4. working' \in Database
          BY <5>2, <5>3 DEF TypeOK, Database
        <5>5. \A id \in Ids : working.items[id] = None => bought[id] = None
          BY <4>2, <3>1 DEF TypeOK, Database
        <5>6. working'.items = bought /\ working'.traces = working.traces
          BY <5>3 DEF TypeOK, Database
        <5>7. QED
          BY <5>4, <5>5, <5>6
      <4>3. QED
        BY <4>1, <4>2
    <3>4. TypeOK'
      BY <3>2, <3>3 DEF TypeOK, Steps, Uncommitted
    <3>5. Fits(t)'
      BY DEF Fits, TypeOK
    <3>6. QED
      BY <3>3, <3>4, <3>5, OthersFit DEF TypeInv, WellFormed, IdsUnused, FiniteTraces, TypeOK
  <2>8. CASE ReadItems(t)
    <3> USE <2>8 DEF ReadItems
    <3>1. /\ Found(stock.low) \in QueryTrace /\ Found(stock.missing) \in QueryTrace
          /\ IsFiniteSet(Found(stock.low).missing) /\ IsFiniteSet(Found(stock.missing).missing)
      BY FoundType, ShoppingAssumption DEF TypeOK
    <3>2. TypeOK'
      BY <3>1 DEF TypeOK, Steps
    <3>3. Fits(t)'
      BY <3>1 DEF Fits, TypeOK
    <3>4. QED
      BY <2>b, <3>2, <3>3 DEF TypeOK
  <2>9. CASE ReadHistory(t)
    <3> USE <2>9 DEF ReadHistory
    <3> DEFINE names == IF stock.used # {} THEN stock.used ELSE seen[t].missing
    <3>1. names \subseteq Names
      <4>1. seen[t].missing \subseteq Names /\ stock.used \subseteq Names
        BY FoundType, ShoppingAssumption DEF TypeOK
      <4>2. QED
        BY <4>1
    <3>2. \A name \in names : <<name>> \in Seq(Names) /\ <<name>> # <<>>
      BY <3>1
    <3>3. \/ Finish(t)
          \/ /\ \E name \in names : todo' = [todo EXCEPT ![t] = <<name>>]
             /\ Goto(t, "find") /\ UNCHANGED <<req, seen, held>>
      BY Zenon
    <3> HIDE DEF names
    <3>4. TypeOK' /\ Fits(t)'
      <4>1. CASE Finish(t)
        BY <4>1, <2>a, FoundType DEF TypeOK, Steps, Fits, Finish
      <4>2. ASSUME NEW name \in names, todo' = [todo EXCEPT ![t] = <<name>>],
                   Goto(t, "find"), UNCHANGED <<req, seen, held>>
            PROVE  TypeOK' /\ Fits(t)'
        BY <4>2, <3>2 DEF TypeOK, Steps, Fits
      <4>3. QED
        BY <3>3, <4>1, <4>2
    <3>5. QED
      BY <2>b, <3>3, <3>4 DEF TypeOK, Finish
  <2>10. CASE FindLatestQuery(t)
    <3> USE <2>10 DEF FindLatestQuery
    <3> DEFINE telling == Telling(working.traces)
               names == working.traces[Max(telling)].missing
    <3>1. \/ Finish(t)
          \/ /\ telling # {} /\ working.traces[Max(telling)] # Failed
             /\ \E seq \in SetToSeqs(names) : todo' = [todo EXCEPT ![t] = seq]
             /\ Goto(t, "find") /\ UNCHANGED <<req, seen, held>>
      BY Zenon
    <3>2. CASE Finish(t)
      BY <3>2, <2>a, <2>b, FoundType DEF TypeOK, Steps, Fits, Finish
    <3>3. ASSUME telling # {}, working.traces[Max(telling)] # Failed,
                 NEW seq \in SetToSeqs(names), todo' = [todo EXCEPT ![t] = seq],
                 Goto(t, "find"), UNCHANGED <<req, seen, held>>
          PROVE  TypeInv'
      <4>1. working.traces \in Seq(QueryTrace)
        BY DEF TypeOK, Database
      <4>2. Max(telling) \in telling
        <5>1. Len(working.traces) \in Nat /\ telling \in SUBSET (1 .. Len(working.traces))
          BY <4>1, LenProperties DEF Telling
        <5>2. QED
          BY <5>1, <3>3, MaxOfIndices
      <4>3. Max(telling) \in DOMAIN working.traces /\ names # {}
        BY <4>2, <3>3 DEF Telling
      <4>4. names \subseteq Names /\ IsFiniteSet(names)
        <5>1. working.traces[Max(telling)] \in QueryTrace
          BY <4>1, <4>3, ElementOfSeq, LenProperties
        <5>2. names \subseteq Names
          BY <5>1, FoundType
        <5>3. QED
          BY <4>3, <5>2 DEF WellFormed, FiniteTraces
      <4>5. seq \in Seq(Names) /\ seq # <<>>
        <5> HIDE DEF names
        <5>1. Cardinality(names) \in Nat /\ Cardinality(names) # 0
          BY <4>3, <4>4, FS_CardinalityType, FS_EmptySet
        <5>2. seq \in [1 .. Cardinality(names) -> names]
          BY <3>3 DEF SetToSeqs
        <5>3. seq \in Seq(Names) /\ Len(seq) = Cardinality(names)
          BY <5>1, <5>2, <4>4
        <5>4. QED
          BY <5>1, <5>3, EmptySeq
      <4>6. TypeOK' /\ Fits(t)'
        BY <3>3, <4>5 DEF TypeOK, Steps, Fits
      <4>7. QED
        BY <2>b, <3>3, <4>6 DEF TypeOK
    <3>4. QED
      BY <3>1, <3>2, <3>3
  <2>11. CASE WriteRecipe(t)
    <3> USE <2>11 DEF WriteRecipe, Execute
    <3>1. req[t].recipe \in Recipes /\ (req[t].kind = "create" => req[t].needs \subseteq Names)
      BY RequestFields DEF Fits
    <3>2. /\ working' \in Database
          /\ working'.traces = working.traces /\ working'.items = working.items
      BY <3>1 DEF TypeOK, Database
    <3>3. TypeOK'
      BY <3>2 DEF TypeOK, Steps, Uncommitted
    <3>4. Fits(t)'
      BY DEF Fits, TypeOK
    <3>5. QED
      BY <3>2, <3>3, <3>4, OthersFit DEF TypeInv, WellFormed, IdsUnused, FiniteTraces, TypeOK
  <2>12. CASE RecipeExists(t)
    BY <2>12, RollBackTypeInv DEF RecipeExists
  <2>c. ASSUME Finish(t), UNCHANGED <<stock, nextId, clock>>,
               working' \in {working, durable}, durable' \in {working, durable},
               answered' \subseteq Fact, lost' \subseteq Fact
        PROVE  TypeInv'
    <3> USE <2>c DEF Finish
    <3>1. TypeOK'
      BY <2>a, FoundType DEF TypeOK, Steps
    <3>2. Fits(t)'
      BY FoundType DEF Fits, TypeOK
    <3>3. QED
      BY <3>1, <3>2, OthersFit DEF TypeInv, WellFormed, IdsUnused, FiniteTraces, TypeOK
  <2>13. CASE CommitRecipe(t)
    BY <2>13, <2>c DEF CommitRecipe, Commit, TypeOK
  <2>14. CASE ReadRecipe(t)
    <3> USE <2>14 DEF ReadRecipe
    <3>1. PICK trace \in QueryTrace : /\ seen' = [seen EXCEPT ![t] = trace]
                                      /\ IsFiniteSet(trace.missing)
      <4>1. PICK needs : \/ seen' = [seen EXCEPT ![t] = Found(needs \intersect @.missing)]
                         \/ seen' = [seen EXCEPT ![t] = Failed]
        OBVIOUS
      <4>2. seen[t].missing \subseteq Names /\ IsFiniteSet(seen[t].missing)
        BY FoundType DEF TypeOK, Fits
      <4>3. /\ needs \intersect seen[t].missing \in SUBSET Names
            /\ IsFiniteSet(needs \intersect seen[t].missing)
        BY <4>2, FS_Intersection
      <4>4. QED
        <5>1. /\ Found(needs \intersect seen[t].missing) \in QueryTrace
              /\ IsFiniteSet(Found(needs \intersect seen[t].missing).missing)
          BY <4>3, FoundType
        <5>2. CASE seen' = [seen EXCEPT ![t] = Found(needs \intersect @.missing)]
          BY <5>1, <5>2 DEF TypeOK
        <5>3. CASE seen' = [seen EXCEPT ![t] = Failed]
          BY <5>3, FoundType DEF TypeOK
        <5>4. QED
          BY <4>1, <5>2, <5>3
    <3>2. TypeOK' /\ Fits(t)'
      BY <3>1 DEF TypeOK, Steps, Fits
    <3>3. QED
      BY <2>b, <3>1, <3>2 DEF TypeOK
  <2>15. CASE CommitOther(t)
    <3>1. CASE Finish(t)
      BY <2>15, <3>1, <2>c DEF CommitOther, Commit, TypeOK
    <3>2. CASE Goto(t, "trace") /\ UNCHANGED <<req, todo, seen, held>>
      <4> USE <2>15, <3>2 DEF CommitOther, Commit
      <4>1. TypeOK' /\ Fits(t)'
        BY DEF TypeOK, Steps, Fits
      <4>2. QED
        BY <4>1, OthersFit DEF TypeInv, WellFormed, IdsUnused, FiniteTraces, TypeOK
    <3>3. QED
      BY <2>15, <3>1, <3>2 DEF CommitOther
  <2>16. CASE InsertTrace(t)
    <3> USE <2>16 DEF InsertTrace, Execute
    <3>1. working.traces \in Seq(QueryTrace) /\ seen[t] \in QueryTrace
      BY DEF TypeOK, Database
    <3>2. working' \in Database /\ working'.items = working.items
      BY <3>1, AppendProperties DEF TypeOK, Database
    <3>3. FiniteTraces(working)'
      <4>1. working'.traces = Append(working.traces, seen[t])
        BY DEF TypeOK, Database
      <4>2. Len(working.traces) \in Nat /\ DOMAIN working.traces = 1 .. Len(working.traces)
        BY <3>1, LenProperties
      <4>3. ASSUME NEW i \in DOMAIN working'.traces
            PROVE  \/ working'.traces[i] = seen[t]
                   \/ i \in DOMAIN working.traces /\ working'.traces[i] = working.traces[i]
        BY <3>1, <4>1, <4>2, AppendProperties
      <4>4. QED
        BY <4>3 DEF Fits, WellFormed, FiniteTraces
    <3>4. TypeOK'
      BY <3>2 DEF TypeOK, Steps, Uncommitted
    <3>5. Fits(t)'
      BY DEF Fits, TypeOK
    <3>6. QED
      BY <3>2, <3>3, <3>4, <3>5, OthersFit DEF TypeInv, WellFormed, IdsUnused, FiniteTraces, TypeOK
  <2>17. CASE CommitTrace(t)
    <3>1. CASE Finish(t)
      BY <2>17, <3>1, <2>c DEF CommitTrace, Commit, TypeOK
    <3>2. CASE Goto(t, "engage") /\ UNCHANGED <<req, todo, seen, held>>
      <4> USE <2>17, <3>2 DEF CommitTrace, Commit
      <4>1. TypeOK' /\ Fits(t)'
        BY DEF TypeOK, Steps, Fits
      <4>2. QED
        BY <4>1, OthersFit DEF TypeInv, WellFormed, IdsUnused, FiniteTraces, TypeOK
    <3>3. QED
      BY <2>17, <3>1, <3>2 DEF CommitTrace
  <2>18. CASE AppendEvent(t)
    <3> USE <2>18 DEF AppendEvent, Execute
    <3>1. /\ working' \in Database
          /\ working'.items = working.items /\ working'.traces = working.traces
      BY DEF TypeOK, Database
    <3>2. TypeOK'
      BY <3>1 DEF TypeOK, Steps, Uncommitted
    <3>3. Fits(t)'
      BY DEF Fits, TypeOK
    <3>4. QED
      BY <3>1, <3>2, <3>3, OthersFit DEF TypeInv, WellFormed, IdsUnused, FiniteTraces, TypeOK
  <2>19. CASE CommitEvent(t)
    BY <2>19, <2>c DEF CommitEvent, Commit, TypeOK
  <2>20. CASE WriteFails(t)
    BY <2>20, RollBackTypeInv DEF WriteFails
  <2>21. QED
    BY <1>3, <2>1, <2>2, <2>3, <2>4, <2>5, <2>6, <2>7, <2>8, <2>9, <2>10, <2>11, <2>12,
       <2>13, <2>14, <2>15, <2>16, <2>17, <2>18, <2>19, <2>20 DEF Serve
<1>4. CASE UNCHANGED vars
  BY <1>4 DEF vars, connectionVars, threadVars, historyVars, TypeInv, TypeOK, WellFormed,
       Fits, IdsUnused, FiniteTraces
<1>5. QED
  BY <1>1, <1>2, <1>3, <1>4 DEF Next

(* Statements, commits, rollbacks and restarts leave the tables and the    *)
(* threads' locals well formed: the traces that a promotion searches, the  *)
(* names it has still to add, and the ids of the items.                    *)
THEOREM TypeCorrect == Spec => []TypeOK
<1>1. TypeInv => TypeOK
  BY DEF TypeInv
<1>2. QED
  BY <1>1, InitTypeInv, TypeInductive, PTL DEF Spec

-----------------------------------------------------------------------------
(* The list has no name twice, in both states of the tables: whoever       *)
(* breaks the unique index is refused.                                     *)
LEMMA UniqueInductive == TypeInv /\ OneOpenPerName /\ [Next]_vars => OneOpenPerName'
<1> SUFFICES ASSUME TypeInv, OneOpenPerName, [Next]_vars PROVE OneOpenPerName'
  OBVIOUS
<1> DEFINE Unique(db) == \A name \in Names : \A i, j \in OpenIds(db, name) : i = j
<1>1. Unique(working) /\ Unique(durable)
  BY DEF OneOpenPerName
<1>2. ASSUME Unique(working'), Unique(durable') PROVE OneOpenPerName'
  BY <1>2 DEF OneOpenPerName, OpenIds
<1>3. CASE working'.items = working.items /\ durable' = durable
  BY <1>1, <1>2, <1>3 DEF OpenIds
<1>4. CASE working' \in {working, durable} /\ durable' \in {working, durable}
  BY <1>1, <1>2, <1>4
<1>5. ASSUME NEW t \in Threads, InsertItem(t) PROVE OneOpenPerName'
  <2> USE <1>5 DEF InsertItem, Execute
  <2>1. \A name \in Names : OpenIds(working', name) \subseteq
          IF name = Head(todo[t]) THEN OpenIds(working, name) \union {nextId}
          ELSE OpenIds(working, name)
    BY DEF OpenIds, TypeInv, TypeOK, Database
  <2>2. Unique(working')
    BY <1>1, <2>1
  <2>3. QED
    BY <1>1, <1>2, <2>2
<1>6. ASSUME NEW t \in Threads, UpdateItem(t) PROVE OneOpenPerName'
  <2> USE <1>6 DEF UpdateItem, Execute
  <2>1. \A name \in Names : OpenIds(working', name) \subseteq OpenIds(working, name)
    BY DEF OpenIds, TypeInv, TypeOK, Database, Item
  <2>2. Unique(working')
    BY <1>1, <2>1
  <2>3. QED
    BY <1>1, <1>2, <2>2
<1>7. QED
  <2>1. ASSUME NEW t \in Threads, Serve(t) PROVE OneOpenPerName'
    BY <2>1, <1>3, <1>4, <1>5, <1>6
       DEF Serve, Receive, FindOpenItem, NameTaken, CommitItem, GetOwnedItem, ReadItems,
           ReadHistory, FindLatestQuery, WriteRecipe, RecipeExists, CommitRecipe, ReadRecipe,
           CommitOther, InsertTrace, CommitTrace, AppendEvent, CommitEvent, WriteFails,
           RollBackAndFinish, Rollback, Commit, Execute, connectionVars, TypeInv, TypeOK, Database
  <2>2. QED
    BY <2>1, <1>4 DEF Next, Restart, StockChanges, Rollback, vars, connectionVars

(* However requests for the same name interleave, fail and are repeated,   *)
(* no name is twice on the list.                                           *)
THEOREM OneOpenPerNameCorrect == Spec => []OneOpenPerName
<1>1. Init => OneOpenPerName
  <2>1. \A name \in Names : OpenIds(EmptyDatabase, name) = {}
    BY NoneAssumption DEF OpenIds, EmptyDatabase, Item
  <2>2. QED
    BY <2>1 DEF Init, OneOpenPerName
<1>2. QED
  BY <1>1, InitTypeInv, UniqueInductive, TypeInductive, PTL DEF Spec

-----------------------------------------------------------------------------
(* What is committed is also what the connection reads, and more.          *)
Ahead == Facts(durable) \subseteq Facts(working)

LEMMA FactsGrow ==
  ASSUME NEW db, NEW new,
         \A id \in Ids : db.items[id] # None =>
           /\ new.items[id] # None
           /\ db.items[id].status = "done" => new.items[id].status = "done"
  PROVE  Facts(db) \subseteq Facts(new)
BY DEF Facts, Fact

(* A step other than a rollback or a restart adds facts, and commits none  *)
(* or all of what is written.                                              *)
LEMMA ServeGrows ==
  ASSUME TypeInv, NEW t \in Threads, Serve(t), ~RollBackAndFinish(t)
  PROVE  /\ Facts(working) \subseteq Facts(working')
         /\ \/ durable' = durable
            \/ durable' = working /\ working' = working
         /\ lost' = lost
<1>1. CASE InsertItem(t)
  <2>1. nextId \in Ids /\ working.items[nextId] = None
    BY <1>1, IdsPositive DEF InsertItem, TypeInv, TypeOK, WellFormed, IdsUnused
  <2>a. \A id \in Ids : working.items[id] # None => working'.items[id] = working.items[id]
    BY <1>1, <2>1 DEF InsertItem, Execute, TypeInv, TypeOK, Database
  <2>2. Facts(working) \subseteq Facts(working')
    BY <2>a, FactsGrow
  <2>3. QED
    BY <1>1, <2>2 DEF InsertItem, Execute, historyVars
<1>2. CASE UpdateItem(t)
  <2>a. ASSUME NEW id \in Ids, working.items[id] # None
        PROVE  /\ working'.items[id] # None
               /\ working.items[id].status = "done" => working'.items[id].status = "done"
    <3>1. working.items[id] \in Item
      BY <2>a DEF TypeInv, TypeOK, Database
    <3>2. working'.items[id] \in {working.items[id], [working.items[id] EXCEPT !.status = "done"]}
      BY <1>2 DEF UpdateItem, Execute, TypeInv, TypeOK, Database
    <3>3. /\ [working.items[id] EXCEPT !.status = "done"] \in Item
          /\ [working.items[id] EXCEPT !.status = "done"].status = "done"
      BY <3>1 DEF Item
    <3>4. QED
      BY <3>1, <3>2, <3>3, NoneAssumption
  <2>1. Facts(working) \subseteq Facts(working')
    BY <2>a, FactsGrow
  <2>2. QED
    BY <1>2, <2>1 DEF UpdateItem, Execute, historyVars
<1>3. CASE WriteRecipe(t) \/ InsertTrace(t) \/ AppendEvent(t)
  <2>1. working'.items = working.items
    BY <1>3 DEF WriteRecipe, InsertTrace, AppendEvent, Execute, TypeInv, TypeOK, Database
  <2>2. Facts(working) \subseteq Facts(working')
    BY <2>1, FactsGrow
  <2>3. QED
    BY <1>3, <2>2 DEF WriteRecipe, InsertTrace, AppendEvent, Execute, historyVars
<1>4. CASE /\ working' = working /\ durable' \in {working, durable} /\ lost' = lost
  BY <1>4
<1>5. QED
  BY <1>1, <1>2, <1>3, <1>4
     DEF Serve, Receive, FindOpenItem, NameTaken, CommitItem, GetOwnedItem, ReadItems, ReadHistory,
         FindLatestQuery, RecipeExists, CommitRecipe, ReadRecipe, CommitOther, CommitTrace,
         CommitEvent, WriteFails, Commit, connectionVars, historyVars

LEMMA AheadInductive ==
  TypeInv /\ Ahead /\ [Next]_vars => Ahead' /\ Facts(durable) \subseteq Facts(durable')
<1> SUFFICES ASSUME TypeInv, Ahead, [Next]_vars
             PROVE  Ahead' /\ Facts(durable) \subseteq Facts(durable')
  OBVIOUS
<1>1. ASSUME Rollback PROVE Ahead' /\ Facts(durable) \subseteq Facts(durable')
  BY <1>1 DEF Rollback, Ahead
<1>2. ASSUME UNCHANGED connectionVars
      PROVE  Ahead' /\ Facts(durable) \subseteq Facts(durable')
  BY <1>2 DEF connectionVars, Ahead
<1>3. ASSUME NEW t \in Threads, Serve(t), ~RollBackAndFinish(t)
      PROVE  Ahead' /\ Facts(durable) \subseteq Facts(durable')
  BY <1>3, ServeGrows DEF Ahead
<1>4. QED
  BY <1>1, <1>2, <1>3 DEF Next, Restart, StockChanges, RollBackAndFinish, vars

(* An item that is committed never leaves the list other than by being     *)
(* done, and one that is done is never open again.                         *)
THEOREM DoneIsFinalCorrect == Spec => DoneIsFinal
<1>1. Init => Ahead
  BY DEF Init, Ahead
<1>2. QED
  BY <1>1, InitTypeInv, TypeInductive, AheadInductive, PTL DEF Spec, DoneIsFinal

-----------------------------------------------------------------------------
(* A fact is vouched for by a state of the tables, or was lost.            *)
Vouched(f, db, gone) == f \in Facts(db) \/ f \in gone \/ Open(f.id) \in gone

(* What a thread holds, what the feed says and what was answered is in the *)
(* state of the tables that goes with it, and an item that a thread is     *)
(* about to update is one that it holds.                                   *)
ToldInv ==
  /\ \A t \in Threads, f \in Fact : f \in held[t] => Vouched(f, working, lost)
  /\ \A f \in Fact : f \in working.feed => Vouched(f, working, lost)
  /\ \A f \in Fact : f \in durable.feed \union answered => Vouched(f, durable, lost)
  /\ \A t \in Threads : pc[t] = "update" => Open(req[t].id) \in held[t]

ToldIInv == TypeInv /\ Ahead /\ ToldInv

(* The request whose rollback it is forgets what it holds; what the others *)
(* lose by it is kept in lost.                                             *)
LEMMA RollBackTold ==
  ASSUME ToldIInv, NEW t \in Threads, RollBackAndFinish(t)
  PROVE  ToldInv'
<1> USE DEF RollBackAndFinish, Rollback, Finish, Goto, ToldIInv, TypeInv, TypeOK
<1>1. ASSUME NEW u \in Threads, NEW f \in Fact, f \in held'[u] PROVE Vouched(f, working', lost')
  <2>1. u # t /\ f \in held[u]
    BY <1>1
  <2>2. Vouched(f, working, lost)
    BY <2>1 DEF ToldInv
  <2>3. f \in Facts(working) \ Facts(durable) => f \in lost'
    BY <2>1
  <2>4. QED
    BY <2>2, <2>3 DEF Vouched
<1>2. ASSUME NEW f \in Fact, f \in durable.feed \union answered PROVE Vouched(f, durable', lost')
  BY <1>2 DEF ToldInv, Vouched
<1>3. ASSUME NEW u \in Threads, pc'[u] = "update" PROVE Open(req'[u].id) \in held'[u]
  BY <1>3 DEF ToldInv
<1>4. QED
  BY <1>1, <1>2, <1>3 DEF ToldInv

LEMMA ToldInductive == ToldIInv /\ [Next]_vars => ToldIInv'
<1> SUFFICES ASSUME ToldIInv, [Next]_vars PROVE ToldInv'
  BY TypeInductive, AheadInductive DEF ToldIInv
<1> USE DEF ToldIInv
<1>1. CASE Restart
  <2>1. Facts(working') = Facts(durable) /\ held' = [t \in Threads |-> {}]
    BY <1>1 DEF Restart, Rollback
  <2>2. QED
    BY <1>1, <2>1 DEF Restart, Rollback, ToldInv, Vouched, historyVars
<1>2. CASE StockChanges \/ UNCHANGED vars
  BY <1>2 DEF StockChanges, vars, connectionVars, threadVars, historyVars, ToldInv, Vouched
<1>3. ASSUME NEW t \in Threads, RollBackAndFinish(t) PROVE ToldInv'
  BY <1>3, RollBackTold
<1>4. ASSUME NEW t \in Threads, Serve(t), ~RollBackAndFinish(t) PROVE ToldInv'
  <2> Fits(t) /\ TypeOK
    BY DEF TypeInv, WellFormed
  <2>a. /\ \A f \in Fact : Vouched(f, working, lost) => Vouched(f, working', lost')
        /\ \A f \in Fact : Vouched(f, durable, lost) => Vouched(f, durable', lost')
        /\ durable' # durable =>
             \A f \in Fact : Vouched(f, working, lost) => Vouched(f, durable', lost')
    BY <1>4, ServeGrows DEF Vouched, Ahead
  <2>b. ASSUME \A u \in Threads \ {t} : pc'[u] = pc[u] /\ req'[u] = req[u] /\ held'[u] = held[u],
               \A f \in held'[t] : f \in Fact => Vouched(f, working', lost'),
               pc'[t] = "update" => Open(req'[t].id) \in held'[t],
               working'.feed \subseteq working.feed \union held[t],
               durable'.feed \subseteq durable.feed \/ (durable' # durable /\ durable'.feed = working.feed),
               answered' = answered \/ (durable' = working /\ answered' = answered \union held[t])
        PROVE  ToldInv'
    <3>1. \A u \in Threads, f \in Fact : f \in held'[u] => Vouched(f, working', lost')
      BY <2>a, <2>b DEF ToldInv
    <3>2. \A f \in Fact : f \in working'.feed => Vouched(f, working', lost')
      BY <2>a, <2>b DEF ToldInv
    <3>3. \A f \in Fact : f \in durable'.feed \union answered' => Vouched(f, durable', lost')
      BY <2>a, <2>b DEF ToldInv, Vouched
    <3>4. QED
      BY <2>b, <3>1, <3>2, <3>3 DEF ToldInv
  <2>c. ASSUME NEW id \in Ids, working'.items[id] # None
        PROVE  /\ Vouched(Open(id), working', lost')
               /\ working'.items[id].status = "done" => Vouched(Done(id), working', lost')
    <3>1. /\ Open(id) \in Facts(working')
          /\ working'.items[id].status = "done" => Done(id) \in Facts(working')
      BY <2>c DEF Facts, Fact, Open, Done
    <3>2. QED
      BY <3>1 DEF Vouched
  <2>e. pc[t] \in {"find", "insert"} =>
          [name |-> Head(todo[t]), status |-> "open"] # None
    BY HeadTailProperties, NoneAssumption DEF Fits, Item, TypeOK
  <2>d. \A f \in held[t] : f \in Fact => Vouched(f, working', lost')
    BY <2>a DEF ToldInv
  <2> USE DEF Goto, TypeOK
  <2>1. CASE FindOpenItem(t)
    <3> USE <2>1 DEF FindOpenItem, connectionVars, historyVars
    <3>1. \A id \in OpenIds(working, Head(todo[t])) : id \in Ids /\ Vouched(Open(id), working', lost')
      BY <2>c, <2>e DEF OpenIds
    <3>2. \A f \in held'[t] : f \in Fact => Vouched(f, working', lost')
      BY <3>1, <2>d
    <3>3. QED
      BY <3>2, <2>b
  <2>2. CASE InsertItem(t)
    <3> USE <2>2 DEF InsertItem, Execute, historyVars
    <3>1. nextId \in Ids
      BY IdsPositive DEF TypeInv, WellFormed
    <3>2. working'.items[nextId] = [name |-> Head(todo[t]), status |-> "open"]
      BY <3>1 DEF Database
    <3>4. Vouched(Open(nextId), working', lost')
      BY <3>1, <3>2, <2>c, <2>e
    <3>5. \A f \in held'[t] : f \in Fact => Vouched(f, working', lost')
      <4>1. held'[t] = held[t] \union {Open(nextId)}
        OBVIOUS
      <4>2. QED
        BY <3>4, <2>d, <4>1
    <3>6. working'.feed = working.feed
      BY DEF Database
    <3>7. QED
      BY <3>5, <3>6, <2>b
  <2>3. CASE GetOwnedItem(t)
    <3> USE <2>3 DEF GetOwnedItem, Finish, connectionVars, historyVars
    <3>1. req[t].id \in Ids
      BY RequestFields DEF Fits
    <3> DEFINE item == working.items[req[t].id]
    <3>2. CASE item = None
      BY <3>2, <2>b
    <3>3. CASE item # None
      <4>1. item.status \in {"open", "done"}
        BY <3>1, <3>3 DEF Database, Item
      <4>2. CASE item.status = "done"
        <5>1. held'[t] = {Open(req[t].id), Done(req[t].id)} /\ pc'[t] = "notify"
          BY <3>3, <4>2
        <5>2. Vouched(Open(req[t].id), working', lost') /\ Vouched(Done(req[t].id), working', lost')
          BY <2>c, <3>1, <3>3, <4>2
        <5>3. QED
          BY <5>1, <5>2, <2>b, <3>3, <4>2
      <4>3. CASE item.status = "open"
        <5>1. held'[t] = {Open(req[t].id)} /\ req' = req
          BY <3>3, <4>3
        <5>2. Vouched(Open(req[t].id), working', lost')
          BY <2>c, <3>1, <3>3
        <5>3. QED
          BY <5>1, <5>2, <2>b, <3>3, <4>3
      <4>4. QED
        BY <4>1, <4>2, <4>3
    <3>4. QED
      BY <3>2, <3>3
  <2>4. CASE UpdateItem(t)
    <3> USE <2>4 DEF UpdateItem, Execute, historyVars
    <3>1. req[t].id \in Ids
      BY RequestFields DEF Fits
    <3>2. Vouched(Done(req[t].id), working', lost')
      <4>1. CASE working.items[req[t].id] = None
        <5>1. Open(req[t].id) \in held[t] /\ Open(req[t].id) \in Fact
          BY <3>1 DEF ToldInv, Open, Fact
        <5>2. Open(req[t].id) \notin Facts(working)
          BY <4>1 DEF Facts, Open
        <5>3. Open(req[t].id) \in lost
          BY <5>1, <5>2 DEF ToldInv, Vouched, Open
        <5>4. QED
          BY <5>3 DEF Vouched, Done
      <4>2. CASE working.items[req[t].id] # None
        <5>1. working'.items[req[t].id] = [working.items[req[t].id] EXCEPT !.status = "done"]
          BY <3>1, <4>2 DEF Database
        <5>2. working.items[req[t].id] \in Item
          BY <3>1, <4>2 DEF Database
        <5>3. \A item \in Item : [item EXCEPT !.status = "done"] \in Item
                                /\ [item EXCEPT !.status = "done"].status = "done"
          BY DEF Item
        <5>4. working'.items[req[t].id] # None /\ working'.items[req[t].id].status = "done"
          BY <5>1, <5>2, <5>3, NoneAssumption
        <5>5. QED
          BY <5>4, <3>1, <2>c
      <4>3. QED
        BY <4>1, <4>2
    <3>3. \A f \in held'[t] : f \in Fact => Vouched(f, working', lost')
      BY <3>2, <2>d
    <3>4. working'.feed = working.feed
      BY DEF Database
    <3>5. QED
      BY <3>3, <3>4, <2>b
  <2>5. CASE AppendEvent(t)
    <3>1. working'.feed = working.feed \union held[t]
      BY <2>5 DEF AppendEvent, Execute, Database
    <3>2. QED
      BY <2>5, <3>1, <2>b, <2>d DEF AppendEvent, Execute, historyVars
  <2>6. CASE WriteRecipe(t) \/ InsertTrace(t)
    <3>1. working'.feed = working.feed
      BY <2>6 DEF WriteRecipe, InsertTrace, Execute, Database
    <3>2. QED
      BY <2>6, <3>1, <2>b, <2>d DEF WriteRecipe, InsertTrace, Execute, historyVars
  <2>7. CASE CommitEvent(t)
    BY <2>7, <2>b DEF CommitEvent, Commit, Finish
  <2>8. CASE \E r \in Requests : Receive(t, r)
    <3>1. pc'[t] # "update" /\ held' = held
      BY <2>8, RequestFields DEF Receive
    <3>2. QED
      BY <2>8, <3>1, <2>b, <2>d DEF Receive, connectionVars
  <2>9. CASE CommitItem(t) \/ ReadItems(t) \/ ReadRecipe(t)
    BY <2>9, <2>b, <2>d DEF CommitItem, ReadItems, ReadRecipe, Commit, connectionVars, historyVars
  <2>10. CASE ReadHistory(t) \/ FindLatestQuery(t)
    <3>1. Finish(t) \/ (Goto(t, "find") /\ UNCHANGED <<req, held>>)
      BY <2>10 DEF ReadHistory, FindLatestQuery
    <3>2. QED
      BY <2>10, <3>1, <2>b, <2>d
         DEF ReadHistory, FindLatestQuery, Finish, connectionVars, historyVars
  <2>11. CASE CommitRecipe(t) \/ CommitOther(t) \/ CommitTrace(t)
    <3>1. \/ Finish(t)
          \/ (Goto(t, "trace") \/ Goto(t, "engage")) /\ UNCHANGED <<req, held>>
      BY <2>11 DEF CommitRecipe, CommitOther, CommitTrace
    <3>2. QED
      BY <2>11, <3>1, <2>b, <2>d
         DEF CommitRecipe, CommitOther, CommitTrace, Commit, Finish, historyVars
  <2>12. QED
    BY <1>4, <2>1, <2>2, <2>3, <2>4, <2>5, <2>6, <2>7, <2>8, <2>9, <2>10, <2>11
       DEF Serve, NameTaken, RecipeExists, WriteFails
<1>5. QED
  BY <1>1, <1>2, <1>3, <1>4 DEF Next

(* What an answer or a committed event told of an item is in the committed *)
(* tables, unless the rollback of another request took it before its       *)
(* commit.                                                                 *)
THEOREM ToldHoldsCorrect == Spec => []ToldHolds
<1>1. Init => ToldIInv
  <2>1. Init => Ahead /\ ToldInv
    BY DEF Init, Ahead, ToldInv, EmptyDatabase
  <2>2. QED
    BY <2>1, InitTypeInv DEF ToldIInv
<1>2. ToldIInv => ToldHolds
  BY DEF ToldIInv, ToldInv, Vouched, ToldHolds, TypeInv, TypeOK, Database
<1>3. QED
  BY <1>1, <1>2, ToldInductive, PTL DEF Spec

=============================================================================
