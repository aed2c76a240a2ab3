---------------------------- MODULE MCStateMemory ----------------------------
(* Small instances of StateMemory: what the captures contain, and which    *)
(* requests may be under way at the same time.                             *)
EXTENDS StateMemory, TLC

CONSTANTS p1, p2, p3, milk, eggs

D(operation, name, quantity) ==
  [name |-> name, operation |-> operation, quantity |-> quantity]

(* Stock is bought, used and thrown away, with and without a quantity, and *)
(* taken from an item that may not be there.                               *)
SerialParsed ==
  p1 :> <<D("upsert", milk, 2), D("consume", eggs, 1)>> @@
  p2 :> <<D("consume", milk, 1), D("upsert", eggs, Unknown)>> @@
  p3 :> <<D("consume", milk, Unknown), D("remove", eggs, 0), D("consume", milk, 2)>>
SerialCorrections == {<<D("consume", milk, 3), D("upsert", eggs, 1)>>}

(* Two proposals about different items.                                    *)
OverlapParsed ==
  p1 :> <<D("upsert", milk, 2), D("consume", milk, 1)>> @@ p2 :> <<D("upsert", eggs, 1)>>
OverlapCorrections == {<<D("upsert", milk, 1)>>}

NoOverlap == {}

(* Anything, as long as the two proposals stay about different items.      *)
AnyOverlap ==
  LET apart == {r \in Requests : r.kind = "correct" => r.proposal = p1}
  IN apart \X apart
=============================================================================
