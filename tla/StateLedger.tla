----------------------------- MODULE StateLedger -----------------------------
(***************************************************************************)
(* What the state memory promises its owner, without threads, tables or    *)
(* crashes: a captured proposal is decided once, and confirming it applies *)
(* all its deltas, in order, in one step.                                  *)
(***************************************************************************)
EXTENDS StateDelta, Sequences

CONSTANTS
  Proposals,
  Parsed,        \* the deltas the provider reads out of each capture
  Corrections,   \* the lists of deltas an owner may put in their place
  None

VARIABLES
  status,        \* of each proposal
  stock          \* the item of each name

vars == <<status, stock>>

(* The sum of a proposal's deltas.  Nothing is taken of an unknown item.   *)
ApplyDelta(s, delta) ==
  LET item == s[delta.name]
      after == IF item = None THEN QuantityOfNew(delta)
               ELSE QuantityAfter(item.quantity, delta)
  IN IF item = None /\ delta.operation # "upsert" THEN s
     ELSE [s EXCEPT ![delta.name] =
             [quantity |-> after, status |-> StatusAfter(delta, after)]]

Stages(s, deltas) ==
  LET stage[k \in 0 .. Len(deltas)] ==
        IF k = 0 THEN s ELSE ApplyDelta(stage[k - 1], deltas[k])
  IN stage

ApplyAll(s, deltas) == Stages(s, deltas)[Len(deltas)]

Init == /\ status = [p \in Proposals |-> None]
        /\ stock = [n \in Names |-> None]

Propose(p) == /\ status[p] = None
              /\ status' = [status EXCEPT ![p] = "pending"]
              /\ UNCHANGED stock

Confirm(p, deltas) == /\ status[p] = "pending"
                      /\ status' = [status EXCEPT ![p] = "confirmed"]
                      /\ stock' = ApplyAll(stock, deltas)

Reject(p) == /\ status[p] = "pending"
             /\ status' = [status EXCEPT ![p] = "rejected"]
             /\ UNCHANGED stock

Next == \E p \in Proposals :
  \/ Propose(p)
  \/ \E deltas \in Corrections \union {Parsed[p]} : Confirm(p, deltas)
  \/ Reject(p)

Spec == Init /\ [][Next]_vars
=============================================================================
