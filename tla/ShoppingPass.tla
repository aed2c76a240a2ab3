---------------------------- MODULE ShoppingPass ----------------------------
(***************************************************************************)
(* The shopping pass of a buddy: what is to be bought, put there by name,  *)
(* from the hint about what runs low, or from the ingredients that the     *)
(* latest answer about a recipe found missing; and the recipes.            *)
(* Like the rest of the state memory the routes run on a thread pool, take *)
(* no lock, and share one transaction: whoever breaks a unique index rolls *)
(* back what the others have not committed yet.                            *)
(***************************************************************************)
EXTENDS SharedConnection, Integers, SequencesExt

CONSTANTS
  Threads,       \* worker threads that serve the routes
  Names,         \* what can be bought, as normalized names
  Recipes,       \* the names of recipes
  Requests,      \* the requests that the owner may send
  Stocks,        \* what the items and history of the state memory may say
  Overlaps,      \* pairs <<r, s>>: s may arrive while r is being served
  MaxRequests,   \* bound: requests in a behaviour
  MaxItems,      \* bound: rows of state_memory_shopping_pass_items
  None

Ids == 1 .. MaxItems

ASSUME ShoppingAssumption ==
  /\ Requests \subseteq [kind : {"add"}, name : Names]
                \union [kind : {"hint", "promote"}]
                \union [kind : {"done"}, id : Ids]
                \union [kind : {"create", "query"}, recipe : Recipes, needs : SUBSET Names]
                \union [kind : {"delete"}, recipe : Recipes]
  /\ Stocks \subseteq [missing : SUBSET Names, used : SUBSET Names, low : SUBSET Names]
  /\ \A s \in Stocks : IsFiniteSet(s.missing) /\ IsFiniteSet(s.low)
  /\ Overlaps \subseteq Requests \X Requests
  /\ MaxRequests \in Nat /\ MaxItems \in Nat

(* What an answer or an event says of an item: that it is on the list, or  *)
(* that it was and is done.                                                *)
Fact == [id : Ids, status : {"open", "done"}]
Open(id) == [id |-> id, status |-> "open"]
Done(id) == [id |-> id, status |-> "done"]

Item == [name : Names, status : {"open", "done"}]

ASSUME NoneAssumption == None \notin Item

(* A trace of a query: the ingredients it found missing, or the code of    *)
(* its failure, with no proposal.                                          *)
Failed == [failed |-> TRUE, missing |-> {}]
Found(names) == [failed |-> FALSE, missing |-> names]
QueryTrace == {Found(names) : names \in SUBSET Names} \union {Failed}

Database == [items : [Ids -> Item \union {None}],
             recipes : [Recipes -> (SUBSET Names) \union {None}],
             traces : Seq(QueryTrace),
             feed : SUBSET Fact]
EmptyDatabase == [items |-> [id \in Ids |-> None],
                  recipes |-> [n \in Recipes |-> None],
                  traces |-> <<>>,
                  feed |-> {}]

OpenIds(db, name) == {id \in Ids : db.items[id] = [name |-> name, status |-> "open"]}

(* The facts that are true of the tables.                                  *)
Facts(db) == {f \in Fact : db.items[f.id] # None
                            /\ (f.status = "done" => db.items[f.id].status = "done")}

VARIABLES
  stock,     \* what the items and the history say: written by StateMemory
  pc, req,   \* where each thread is, and the request it serves
  todo,      \* the names it has still to add
  seen,      \* what it read: names of the stock, then the trace of a query
  held,      \* the facts its answer and its event will tell
  nextId,    \* new_id("shopping_item")
  clock,     \* requests begun
  answered,  \* history: the facts told in answers with success
  lost       \* history: facts a thread held when another one rolled back

threadVars == <<pc, req, todo, seen, held>>
historyVars == <<clock, answered, lost>>
vars == <<connectionVars, stock, threadVars, nextId, historyVars>>

Uncommitted == {"commit", "announce", "written", "traced"}
Steps == {"idle", "find", "insert", "owned", "update", "stock", "history", "latest",
          "write", "recipe", "bill", "trace", "engage", "notify"} \union Uncommitted

Init ==
  /\ working = EmptyDatabase /\ durable = EmptyDatabase
  /\ stock \in Stocks
  /\ pc = [t \in Threads |-> "idle"]
  /\ req = [t \in Threads |-> None]
  /\ todo = [t \in Threads |-> <<>>]
  /\ seen = [t \in Threads |-> Found({})]
  /\ held = [t \in Threads |-> {}]
  /\ nextId = 1 /\ clock = 0
  /\ answered = {} /\ lost = {}

-----------------------------------------------------------------------------
Goto(t, step) == pc' = [pc EXCEPT ![t] = step]
Finish(t) == /\ Goto(t, "idle")
             /\ req' = [req EXCEPT ![t] = None]
             /\ todo' = [todo EXCEPT ![t] = <<>>]
             /\ seen' = [seen EXCEPT ![t] = Found({})]
             /\ held' = [held EXCEPT ![t] = {}]

(* The exit of a "with connection:" block by an exception, and the answer  *)
(* 409 or 500 to the request whose block it was.                           *)
RollBackAndFinish(t) ==
  /\ Rollback
  /\ lost' = lost \union ((UNION {held[u] : u \in Threads \ {t}})
                            \intersect (Facts(working) \ Facts(durable)))
  /\ Finish(t)
  /\ UNCHANGED <<stock, nextId, clock, answered>>

FirstStep(r) == CASE r.kind = "add" -> "find"
                  [] r.kind \in {"hint", "query"} -> "stock"
                  [] r.kind = "promote" -> "latest"
                  [] r.kind = "done" -> "owned"
                  [] r.kind \in {"create", "delete"} -> "write"

Receive(t, r) ==
  /\ pc[t] = "idle"
  /\ \A u \in Threads : pc[u] # "idle" => <<req[u], r>> \in Overlaps
  /\ clock < MaxRequests
  /\ clock' = clock + 1
  /\ req' = [req EXCEPT ![t] = r]
  /\ todo' = [todo EXCEPT ![t] = IF r.kind = "add" THEN <<r.name>> ELSE <<>>]
  /\ Goto(t, FirstStep(r))
  /\ UNCHANGED <<connectionVars, stock, seen, held, nextId, answered, lost>>

(* Captures, confirmations and time change what there is.                  *)
StockChanges ==
  /\ stock' \in Stocks
  /\ UNCHANGED <<connectionVars, threadVars, nextId, historyVars>>

-----------------------------------------------------------------------------
(* add_shopping_pass_item, once for each name.                             *)

FindOpenItem(t) ==
  LET ids == OpenIds(working, Head(todo[t])) IN
  /\ pc[t] = "find"
  /\ IF ids = {}
     THEN Goto(t, "insert") /\ UNCHANGED held
     ELSE /\ Goto(t, "commit")
          /\ \E id \in ids : held' = [held EXCEPT ![t] = @ \union {Open(id)}]
  /\ UNCHANGED <<connectionVars, stock, req, todo, seen, nextId, historyVars>>

(* Mutant: the index on the open names is not unique.                      *)
InsertItemAgain(t) ==
  LET name == Head(todo[t]) IN
  /\ pc[t] = "insert" /\ nextId <= MaxItems
  /\ Execute([working EXCEPT !.items[nextId] = [name |-> name, status |-> "open"]])
  /\ nextId' = nextId + 1
  /\ held' = [held EXCEPT ![t] = @ \union {Open(nextId)}]
  /\ Goto(t, "commit")
  /\ UNCHANGED <<stock, req, todo, seen, historyVars>>

InsertItem(t) ==
  LET name == Head(todo[t]) IN
  /\ pc[t] = "insert" /\ nextId <= MaxItems
  /\ OpenIds(working, name) = {}
  /\ Execute([working EXCEPT !.items[nextId] = [name |-> name, status |-> "open"]])
  /\ nextId' = nextId + 1
  /\ held' = [held EXCEPT ![t] = @ \union {Open(nextId)}]
  /\ Goto(t, "commit")
  /\ UNCHANGED <<stock, req, todo, seen, historyVars>>

(* Mutant: the IntegrityError is swallowed, and the item of the other      *)
(* request is answered after the rollback.                                 *)
AnswerOtherItem(t) ==
  /\ pc[t] = "insert"
  /\ \E id \in OpenIds(working, Head(todo[t])) :
       held' = [held EXCEPT ![t] = @ \union {Open(id)}]
  /\ Rollback
  /\ Goto(t, "notify")
  /\ UNCHANGED <<stock, req, todo, seen, nextId, historyVars>>

(* The unique index idx_state_memory_shopping_pass_open_name raises.       *)
NameTaken(t) ==
  /\ pc[t] = "insert"
  /\ OpenIds(working, Head(todo[t])) # {}
  /\ RollBackAndFinish(t)

CommitItem(t) ==
  /\ pc[t] = "commit"
  /\ Commit
  /\ Goto(t, IF Len(todo[t]) > 1 THEN "find" ELSE "notify")
  /\ todo' = [todo EXCEPT ![t] = IF @ = <<>> THEN <<>> ELSE Tail(@)]
  /\ UNCHANGED <<stock, req, seen, held, nextId, historyVars>>

-----------------------------------------------------------------------------
(* mark_shopping_pass_item_done                                            *)

(* An item that is not there answers 404; one that is done is the answer.  *)
GetOwnedItem(t) ==
  LET id == req[t].id
      item == working.items[id]
  IN /\ pc[t] = "owned"
     /\ CASE item = None -> Finish(t)
          [] item # None /\ item.status = "done" ->
               /\ held' = [held EXCEPT ![t] = {Open(id), Done(id)}]
               /\ Goto(t, "notify")
               /\ UNCHANGED <<req, todo, seen>>
          [] item # None /\ item.status = "open" ->
               /\ held' = [held EXCEPT ![t] = {Open(id)}]
               /\ Goto(t, "update")
               /\ UNCHANGED <<req, todo, seen>>
     /\ UNCHANGED <<connectionVars, stock, nextId, historyVars>>

(* Mutant: the status is toggled from what the row says now.               *)
ToggleItem(t) ==
  LET id == req[t].id IN
  /\ pc[t] = "update"
  /\ Execute(IF working.items[id] = None THEN working
             ELSE [working EXCEPT !.items[id].status = IF @ = "open" THEN "done" ELSE "open"])
  /\ held' = [held EXCEPT ![t] = @ \union {Done(id)}]
  /\ Goto(t, "commit")
  /\ UNCHANGED <<stock, req, todo, seen, nextId, historyVars>>

(* Mutant: an item that is bought gets the status of one that is used up.  *)
UpdateItemConsumed(t) ==
  LET id == req[t].id IN
  /\ pc[t] = "update"
  /\ Execute(IF working.items[id] = None THEN working
             ELSE [working EXCEPT !.items[id].status = "consumed"])
  /\ held' = [held EXCEPT ![t] = @ \union {Done(id)}]
  /\ Goto(t, "commit")
  /\ UNCHANGED <<stock, req, todo, seen, nextId, historyVars>>

(* The row may be gone: then the UPDATE changes nothing.                   *)
UpdateItem(t) ==
  LET id == req[t].id IN
  /\ pc[t] = "update"
  /\ Execute(IF working.items[id] = None THEN working
             ELSE [working EXCEPT !.items[id].status = "done"])
  /\ held' = [held EXCEPT ![t] = @ \union {Done(id)}]
  /\ Goto(t, "commit")
  /\ UNCHANGED <<stock, req, todo, seen, nextId, historyVars>>

-----------------------------------------------------------------------------
(* current_shopping_pass_hint reads the items and then the history; a      *)
(* query reads the items only.                                             *)
ReadItems(t) ==
  /\ pc[t] = "stock"
  /\ IF req[t].kind = "hint"
     THEN seen' = [seen EXCEPT ![t] = Found(stock.low)] /\ Goto(t, "history")
     ELSE seen' = [seen EXCEPT ![t] = Found(stock.missing)] /\ Goto(t, "recipe")
  /\ UNCHANGED <<connectionVars, stock, req, todo, held, nextId, historyVars>>

(* The last one used recently, else one that is low, else 409.             *)
ReadHistory(t) ==
  LET names == IF stock.used # {} THEN stock.used ELSE seen[t].missing IN
  /\ pc[t] = "history"
  /\ IF names = {}
     THEN Finish(t)
     ELSE /\ \E name \in names : todo' = [todo EXCEPT ![t] = <<name>>]
          /\ Goto(t, "find")
          /\ UNCHANGED <<req, seen, held>>
  /\ UNCHANGED <<connectionVars, stock, nextId, historyVars>>

(* _latest_missing_recipe_query: from the latest trace back, past the      *)
(* queries that found nothing missing.  One that failed has no proposal,   *)
(* and reading its action_type raises: 500, and no promotion until a query *)
(* finds something missing again.                                          *)
Telling(traces) == {i \in DOMAIN traces : traces[i] = Failed \/ traces[i].missing # {}}

FindLatestQuery(t) ==
  LET telling == Telling(working.traces) IN
  /\ pc[t] = "latest"
  /\ IF telling = {} \/ working.traces[Max(telling)] = Failed
     THEN Finish(t)
     ELSE /\ \E names \in SetToSeqs(working.traces[Max(telling)].missing) :
               todo' = [todo EXCEPT ![t] = names]
          /\ Goto(t, "find")
          /\ UNCHANGED <<req, seen, held>>
  /\ UNCHANGED <<connectionVars, stock, nextId, historyVars>>

-----------------------------------------------------------------------------
(* The recipes, by normalized name: create_recipe and delete_recipe, which *)
(* append no event.                                                        *)

WriteRecipe(t) ==
  LET n == req[t].recipe IN
  /\ pc[t] = "write"
  /\ req[t].kind = "create" => working.recipes[n] = None
  /\ Execute([working EXCEPT !.recipes[n] =
                IF req[t].kind = "create" THEN req[t].needs ELSE None])
  /\ Goto(t, "written")
  /\ UNCHANGED <<stock, req, todo, seen, held, nextId, historyVars>>

(* recipe_already_exists: the 409 of this request rolls back the others.   *)
RecipeExists(t) ==
  /\ pc[t] = "write"
  /\ req[t].kind = "create" /\ working.recipes[req[t].recipe] # None
  /\ RollBackAndFinish(t)

CommitRecipe(t) ==
  /\ pc[t] = "written"
  /\ Commit
  /\ Finish(t)
  /\ UNCHANGED <<stock, nextId, historyVars>>

-----------------------------------------------------------------------------
(* answer_query, for a question about a recipe.                            *)

(* get_recipe_by_name, or the built-in ingredients of a recipe that is not *)
(* saved; or the model fails.                                              *)
ReadRecipe(t) ==
  LET saved == working.recipes[req[t].recipe]
      needs == IF saved = None THEN req[t].needs ELSE saved
  IN /\ pc[t] = "recipe"
     /\ \/ seen' = [seen EXCEPT ![t] = Found(needs \intersect @.missing)]
        \/ seen' = [seen EXCEPT ![t] = Failed]
     /\ Goto(t, "bill")
     /\ UNCHANGED <<connectionVars, stock, req, todo, held, nextId, historyVars>>

(* record_usage, record_model_call and, after the trace, record_event: the *)
(* rows are not kept here, and each commits whatever is open.              *)
CommitOther(t) ==
  /\ \/ pc[t] = "bill" /\ Goto(t, "trace") /\ UNCHANGED <<req, todo, seen, held>>
     \/ pc[t] = "engage" /\ Finish(t)
  /\ Commit
  /\ UNCHANGED <<stock, nextId, historyVars>>

InsertTrace(t) ==
  /\ pc[t] = "trace"
  /\ Execute([working EXCEPT !.traces = Append(@, seen[t])])
  /\ Goto(t, "traced")
  /\ UNCHANGED <<stock, req, todo, seen, held, nextId, historyVars>>

(* The failure is answered here.                                           *)
CommitTrace(t) ==
  /\ pc[t] = "traced"
  /\ Commit
  /\ IF seen[t] = Failed THEN Finish(t)
     ELSE Goto(t, "engage") /\ UNCHANGED <<req, todo, seen, held>>
  /\ UNCHANGED <<stock, nextId, historyVars>>

-----------------------------------------------------------------------------
(* _append_shopping_pass_event under the connection's lock, which only the *)
(* other events wait for.                                                  *)
AppendEvent(t) ==
  /\ pc[t] = "notify"
  /\ \A u \in Threads : pc[u] # "announce"
  /\ Execute([working EXCEPT !.feed = @ \union held[t]])
  /\ Goto(t, "announce")
  /\ UNCHANGED <<stock, req, todo, seen, held, nextId, historyVars>>

CommitEvent(t) ==
  /\ pc[t] = "announce"
  /\ Commit
  /\ answered' = answered \union held[t]
  /\ Finish(t)
  /\ UNCHANGED <<stock, nextId, clock, lost>>

(* A statement raises, or a commit that has anything to commit.            *)
WriteFails(t) ==
  /\ \/ pc[t] \in {"insert", "update", "write", "trace", "notify"}
     \/ pc[t] \in Uncommitted \union {"bill", "engage"} /\ working # durable
  /\ RollBackAndFinish(t)

(* The process dies and is started again.                                  *)
Restart ==
  /\ Rollback
  /\ pc' = [t \in Threads |-> "idle"]
  /\ req' = [t \in Threads |-> None]
  /\ todo' = [t \in Threads |-> <<>>]
  /\ seen' = [t \in Threads |-> Found({})]
  /\ held' = [t \in Threads |-> {}]
  /\ UNCHANGED <<stock, nextId, historyVars>>

Serve(t) ==
  \/ \E r \in Requests : Receive(t, r)
  \/ FindOpenItem(t)
  \/ InsertItem(t)
  \/ NameTaken(t)
  \/ CommitItem(t)
  \/ GetOwnedItem(t)
  \/ UpdateItem(t)
  \/ ReadItems(t)
  \/ ReadHistory(t)
  \/ FindLatestQuery(t)
  \/ WriteRecipe(t)
  \/ RecipeExists(t)
  \/ CommitRecipe(t)
  \/ ReadRecipe(t)
  \/ CommitOther(t)
  \/ InsertTrace(t)
  \/ CommitTrace(t)
  \/ AppendEvent(t)
  \/ CommitEvent(t)
  \/ WriteFails(t)

Next ==
  \/ StockChanges
  \/ Restart
  \/ \E t \in Threads : Serve(t)

Spec == Init /\ [][Next]_vars

-----------------------------------------------------------------------------
TypeOK ==
  /\ {working, durable} \subseteq Database
  /\ stock \in Stocks
  /\ pc \in [Threads -> Steps]
  /\ req \in [Threads -> Requests \union {None}]
  /\ todo \in [Threads -> Seq(Names)]
  /\ seen \in [Threads -> QueryTrace]
  /\ held \in [Threads -> SUBSET Fact]
  /\ nextId \in Nat /\ clock \in 0 .. MaxRequests
  /\ answered \subseteq Fact /\ lost \subseteq Fact

(* However requests for the same name interleave, fail and are repeated,   *)
(* the list never has a name twice (add_shopping_pass_item looks first and *)
(* inserts later).                                                         *)
OneOpenPerName ==
  \A name \in Names, db \in {working, durable} :
    \A i, j \in OpenIds(db, name) : i = j

(* What an answer or a committed event told of an item is in the tables,   *)
(* and is there after a crash: nothing takes it back, except the rollback  *)
(* of another request that hit it before its commit.                       *)
ToldHolds ==
  \A f \in answered \union durable.feed :
    f \in Facts(durable) \/ f \in lost \/ Open(f.id) \in lost

(* An item that is committed never leaves the list other than by being     *)
(* done, and one that is done is never open again.                         *)
DoneIsFinal == [][Facts(durable) \subseteq Facts(durable')]_vars
=============================================================================
