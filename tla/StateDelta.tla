----------------------------- MODULE StateDelta -----------------------------
(***************************************************************************)
(* What one delta of a proposal does to a household item: the arithmetic   *)
(* of StateMemoryStore, without tables.  A quantity may be unknown, and    *)
(* Python's "or" takes zero for unknown.                                   *)
(***************************************************************************)
EXTENDS Naturals

CONSTANTS Names, MaxQuantity, Unknown

ASSUME QuantityAssumption == MaxQuantity \in Nat /\ Unknown \notin Nat

Quantities == (0 .. MaxQuantity) \union {Unknown}
Operations == {"upsert", "consume", "remove"}
Delta == [name : Names, operation : Operations, quantity : Quantities]

OrElse(quantity, default) == IF quantity \in {Unknown, 0} THEN default ELSE quantity

(* Mutant: the result is not kept at zero or above.                        *)
TakeBelowZero(stock, taken) == stock - taken

Take(stock, taken) == IF taken > stock THEN 0 ELSE stock - taken

(* A new item takes the quantity of its upsert.                            *)
QuantityOfNew(delta) == delta.quantity

(* A consume without a quantity, or of zero, uses the item up.             *)
QuantityAfter(quantity, delta) ==
  LET stock == OrElse(quantity, 0) IN
  CASE delta.operation = "upsert" -> delta.quantity
    [] delta.operation = "remove" -> 0
    [] delta.operation = "consume" -> Take(stock, OrElse(delta.quantity, stock))

StatusAfter(delta, after) ==
  CASE delta.operation = "remove" -> "removed"
    [] delta.operation = "consume" /\ after = 0 -> "consumed"
    [] OTHER -> "active"
=============================================================================
