---------------------------- MODULE MCUsageLimit ----------------------------
(* Small instance of UsageLimit: a limit of a few calls.                   *)
EXTENDS UsageLimit, TLC

ThreadSymmetry == Permutations(Threads)
=============================================================================
