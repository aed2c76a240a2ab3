--------------------------- MODULE MCDevicePairing ---------------------------
(* Small instances of DevicePairing: who pairs what, and which requests    *)
(* may be under way at the same time.                                      *)
EXTENDS DevicePairing, FiniteSets, TLC

CONSTANTS d1, d2, k1, k2, k3, t1, t2, t3, t4, b1, b2, m1, m2, e1, e2

Pair(d, k, t, b, m, e) ==
  [device |-> d, key |-> k, token |-> t, buddy |-> b, machine |-> m, endpoint |-> e]

(* A device that is paired, re-paired, and moved to another buddy with its *)
(* old token or with a new one; and one that is paired and re-paired, and  *)
(* that tries a token of the first, with its machine registered anew.      *)
MixedRequests ==
  {Pair(d1, k1, t1, b1, m1, e1), Pair(d1, k2, t2, b1, m1, e1), Pair(d1, k3, t1, b2, m2, e1),
   Pair(d2, k1, t3, b2, m2, e1), Pair(d2, k2, t4, b2, m2, e2), Pair(d2, k3, t2, b1, m2, e2)}

(* Requests of the two devices may overlap that bind different buddies,    *)
(* register different machines and bring tokens that the other never does; *)
(* and so may the two of the first device that bring the same token.       *)
MixedOverlaps ==
  LET own(r) == \A s \in MixedRequests : s.token = r.token => s.device = r.device
  IN {p \in MixedRequests \X MixedRequests :
        \/ /\ p[1].device # p[2].device
           /\ p[1].buddy # p[2].buddy /\ p[1].machine # p[2].machine
           /\ own(p[1]) /\ own(p[2])
        \/ /\ p[1].device = p[2].device /\ p[1].key # p[2].key
           /\ p[1].token = p[2].token}

RaceRequests ==
  {Pair(d1, k1, t1, b1, m1, e1), Pair(d1, k2, t2, b1, m1, e1), Pair(d1, k3, t3, b1, m1, e1)}

ThreadSymmetry == Permutations(Threads)

(* Little is asked of what follows a rollback of another's statements, or  *)
(* two requests of one device at once.                                     *)
Followed == ~torn /\ (raced => \A t \in Threads : pc[t] # "idle")

AnyRaceOverlap == RaceRequests \X RaceRequests
=============================================================================
