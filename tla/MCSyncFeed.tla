----------------------------- MODULE MCSyncFeed -----------------------------
(* Small instance of SyncFeed: what may change, and who follows it.        *)
EXTENDS SyncFeed, TLC

CONSTANTS legacy, u1, p1, p2

(* A second user comes to the legacy audience.                             *)
Newcomer == (legacy :> {p2}) @@ (u1 :> {p1})
First == (legacy :> p1) @@ (u1 :> p1)

Change(kind, audience) == [kind |-> kind, audience |-> audience]

(* What is announced to everyone, and what only to a user.                 *)
LegacyAndOwned ==
  {Change("buddy", legacy), Change("pair", legacy),
   Change("message", legacy), Change("heartbeat", legacy),
   Change("reminder", u1)}

ThreadSymmetry == Permutations(Threads)
=============================================================================
