-------------------------- MODULE MCConsoleSession --------------------------
(* Small instance of ConsoleSession: two users of one browser, one of whom *)
(* is a founder with a buddy.                                              *)
EXTENDS ConsoleSession

CONSTANTS ann, bob, s1, s2
=============================================================================
