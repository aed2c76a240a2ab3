--------------------------- MODULE MCShoppingPass ---------------------------
(* Small instance of ShoppingPass: what is asked for, and which requests   *)
(* may be under way at the same time.                                      *)
EXTENDS ShoppingPass

CONSTANTS milk, eggs, cake

(* Both ways to the list for each name, a recipe that is saved, replaced   *)
(* by its built-in ingredients, and asked about.                           *)
SomeRequests ==
  {[kind |-> "add", name |-> milk], [kind |-> "add", name |-> eggs],
   [kind |-> "hint"], [kind |-> "promote"], [kind |-> "done", id |-> 1],
   [kind |-> "create", recipe |-> cake, needs |-> {milk, eggs}],
   [kind |-> "delete", recipe |-> cake],
   [kind |-> "query", recipe |-> cake, needs |-> {eggs}]}

SomeStocks ==
  {[missing |-> {milk, eggs}, used |-> {}, low |-> {}],
   [missing |-> {}, used |-> {eggs}, low |-> {milk}]}

(* Of two requests that overlap one at least is about an item.             *)
ItemsOverlap ==
  LET items == {r \in SomeRequests : r.kind \in {"add", "hint", "promote", "done"}}
  IN (items \X SomeRequests) \union (SomeRequests \X items)

ThreadSymmetry == Permutations(Threads)
=============================================================================
