-------------------------- MODULE MCTokenMigration --------------------------
(* A small instance of TokenMigration: tokens of both kinds are alike.     *)
EXTENDS TokenMigration, TLC

CONSTANTS h1, h2, t1, t2, d1, d2, k1, k2

HexTokenSet == {h1, h2}
AllTokens == {h1, h2, t1, t2}

TokenSymmetry == Permutations(HexTokenSet) \union Permutations(AllTokens \ HexTokenSet)
=============================================================================
