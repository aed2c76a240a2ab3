----------------------------- MODULE UsageLimit -----------------------------
(***************************************************************************)
(* How one user's model calls are counted against the hard limit of a      *)
(* token plan.  A message of the runtime is checked and billed in          *)
(* record_usage.  A capture or query of the state memory is checked before *)
(* the model call for a reserve and after it for what it took, and billed  *)
(* without a further check; it is billed as well when it is refused after  *)
(* the call.  Checks and bills are separate statements on the shared       *)
(* connection, and no lock is held from one to the other.                  *)
(***************************************************************************)
EXTENDS SharedConnection, Integers, FiniteSets

CONSTANTS
  Threads,       \* worker threads that serve the routes
  Limit,         \* monthly_token_limit of the user's plan
  Reserve,       \* tokens that the check before a call asks for
  Costs,         \* tokens that a call may take
  MaxRequests,   \* bound: requests in a behaviour
  MaxMonth,      \* bound: months in a behaviour
  None

(* Some call takes the most tokens.                                        *)
ASSUME LimitAssumption ==
  /\ Limit \in Nat /\ Reserve \in Nat \ {0}
  /\ Costs \subseteq Nat /\ \E c \in Costs \ {0} : \A d \in Costs : d <= c
  /\ IsFiniteSet(Threads) /\ Threads # {}
  /\ MaxRequests \in Nat /\ MaxMonth \in Nat \ {0}

(* "demo_capture" and "demo_query" have the built-in provider, which       *)
(* neither asks for a reserve nor reports usage.                           *)
Kinds == {"message", "capture", "query", "demo_capture", "demo_query"}
Metered == {"capture", "query"}

(* What comes back from a call: an answer; one that cannot be used but     *)
(* tells what it took; one that was paid for and does not tell, because it *)
(* is no JSON or is lost on its way ("unread"); none at all, or not even a *)
(* key to ask with; or one that raises where no handler waits: a capture   *)
(* with nothing in it or with "unrecognized": null, a body that is not an  *)
(* object.  The built-in provider raises as well when it finds nothing.    *)
Replies(kind) ==
  CASE kind = "message" -> {"ok"}
    [] kind \in Metered -> {"ok", "invalid", "unread", "unreachable", "unconfigured", "dropped"}
    [] OTHER -> {"ok", "dropped"}

Months == 1 .. MaxMonth
Ids == 1 .. MaxRequests

(* The sum of total_tokens of each month in usage_ledger, and the requests *)
(* that have a row in each table.                                          *)
Database == [used : [Months -> Nat], ledger : SUBSET Ids, costs : SUBSET Ids,
             traces : SUBSET Ids, saved : SUBSET Ids]
EmptyDatabase == [used |-> [m \in Months |-> 0], ledger |-> {}, costs |-> {},
                  traces |-> {}, saved |-> {}]

VARIABLES
  month,    \* current_usage_month
  clock,    \* requests begun: the identifiers, and the bound
  pc,       \* where each thread is in its request
  req,      \* [id, kind] of the request it serves
  tokens,   \* what its call took
  dated,    \* the month that record_usage read
  refused,  \* the call is billed although its request is refused
  raced,    \* history: another request was under way with it
  called,   \* history: calls that took tokens
  cut,      \* history: requests that a failed write or a crash cut short
  unread,   \* history: paid calls whose answer did not tell what they took
  dropped,  \* history: calls whose answer raised past every handler
  demo,     \* history: tokens billed for the built-in provider each month
  torn      \* history: a rollback hit the open transaction of another thread

threadVars == <<pc, req, tokens, dated, refused>>
historyVars == <<raced, called, cut, unread, dropped, demo, torn>>
vars == <<connectionVars, month, clock, threadVars, historyVars>>

Uncommitted == {"save_commit", "bill_commit", "cost_commit", "trace_commit"}
Steps == {"idle", "preflight", "call", "check", "save", "record", "bill", "cost", "trace"}
           \union Uncommitted

Init ==
  /\ working = EmptyDatabase /\ durable = EmptyDatabase
  /\ month = 1 /\ clock = 0
  /\ pc = [t \in Threads |-> "idle"]
  /\ req = [t \in Threads |-> None]
  /\ tokens = [t \in Threads |-> 0]
  /\ dated = [t \in Threads |-> 1]
  /\ refused = [t \in Threads |-> FALSE]
  /\ raced = [t \in Threads |-> FALSE]
  /\ called = {} /\ cut = {} /\ unread = {} /\ dropped = {}
  /\ demo = [m \in Months |-> 0]
  /\ torn = FALSE

-----------------------------------------------------------------------------
Goto(t, step) == pc' = [pc EXCEPT ![t] = step]
Finish(t) == /\ Goto(t, "idle")
             /\ req' = [req EXCEPT ![t] = None]
             /\ tokens' = [tokens EXCEPT ![t] = 0]
             /\ dated' = [dated EXCEPT ![t] = 1]
             /\ refused' = [refused EXCEPT ![t] = FALSE]
             /\ raced' = [raced EXCEPT ![t] = FALSE]
Busy == {t \in Threads : pc[t] # "idle"}

(* Mutant: the attempted tokens are left out of the comparison.            *)
WithinUsed(attempted) == working.used[month] <= Limit

(* usage_summary and the comparison in ensure_within_hard_limit and        *)
(* record_usage.                                                           *)
Within(attempted) == working.used[month] + attempted <= Limit

(* A behaviour ends with a torn transaction.                               *)
Begin(t, kind) ==
  /\ pc[t] = "idle" /\ clock < MaxRequests /\ ~torn
  /\ clock' = clock + 1
  /\ req' = [req EXCEPT ![t] = [id |-> clock', kind |-> kind]]
  /\ raced' = [u \in Threads |->
       IF u \in Busy THEN TRUE ELSE IF u = t THEN Busy # {} ELSE raced[u]]
  /\ Goto(t, IF kind \in Metered THEN "preflight" ELSE "call")
  /\ UNCHANGED <<connectionVars, month, tokens, dated, refused, called, cut, unread, dropped,
                 demo, torn>>

(* Mutant: a request is not checked before its call.                       *)
PreflightNothing(t) ==
  /\ pc[t] = "preflight"
  /\ Goto(t, "call")
  /\ UNCHANGED <<connectionVars, month, clock, req, tokens, dated, refused, historyVars>>

(* _ensure_preflight_capacity; beyond the limit the answer is 429.         *)
Preflight(t) ==
  /\ pc[t] = "preflight"
  /\ IF Within(Reserve)
     THEN Goto(t, "call") /\ UNCHANGED <<req, tokens, dated, refused, raced>>
     ELSE Finish(t)
  /\ UNCHANGED <<connectionVars, month, clock, called, cut, unread, dropped, demo, torn>>

StepAfter(kind, reply) ==
  CASE reply \in {"unread", "unreachable"} -> "trace"
    [] reply = "invalid" \/ (reply = "ok" /\ kind \in {"message", "demo_query"}) -> "record"
    [] reply = "ok" /\ kind \in Metered -> "check"
    [] reply = "ok" /\ kind = "demo_capture" -> "save"

(* The provider's answer, or its failure.  Only StateMemoryProviderError   *)
(* is handled: _record_provider_failure bills what the error tells of the  *)
(* usage, writes nothing but the trace when it tells nothing, and nothing  *)
(* at all when the provider is not configured.                             *)
CallModel(t) ==
  LET id == req[t].id
      kind == req[t].kind
  IN /\ pc[t] = "call"
     /\ \E reply \in Replies(kind), cost \in Costs :
          /\ called' = IF reply \in {"unreachable", "unconfigured"} THEN called ELSE called \union {id}
          /\ unread' = IF reply = "unread" THEN unread \union {id} ELSE unread
          /\ dropped' = IF reply = "dropped" THEN dropped \union {id} ELSE dropped
          /\ IF reply \in {"unconfigured", "dropped"}
             THEN Finish(t)
             ELSE /\ tokens' = [tokens EXCEPT ![t] =
                       IF reply \in {"unread", "unreachable"} THEN 0 ELSE cost]
                  /\ refused' = [refused EXCEPT ![t] = reply # "ok"]
                  /\ Goto(t, StepAfter(kind, reply))
                  /\ UNCHANGED <<req, dated, raced>>
     /\ UNCHANGED <<connectionVars, month, clock, cut, demo, torn>>

(* _ensure_actual_capture_capacity; a request beyond the limit is refused  *)
(* and its call billed.                                                    *)
CheckActual(t) ==
  /\ pc[t] = "check"
  /\ refused' = [refused EXCEPT ![t] = ~Within(tokens[t])]
  /\ Goto(t, IF Within(tokens[t]) /\ req[t].kind = "capture" THEN "save" ELSE "record")
  /\ UNCHANGED <<connectionVars, month, clock, req, tokens, dated, historyVars>>

(* record_usage reads the month, and enforces the limit for a message      *)
(* only: beyond it the message is refused and nothing is billed, whatever  *)
(* the built-in provider computed for it.                                  *)
EnforceLimit(t) ==
  /\ pc[t] = "record"
  /\ IF req[t].kind = "message" => Within(tokens[t])
     THEN /\ dated' = [dated EXCEPT ![t] = month]
          /\ Goto(t, "bill")
          /\ UNCHANGED <<req, tokens, refused, raced, called>>
     ELSE Finish(t) /\ called' = called \ {req[t].id}
  /\ UNCHANGED <<connectionVars, month, clock, cut, unread, dropped, demo, torn>>

(* save_pending_proposal                                                   *)
SaveProposal(t) ==
  /\ pc[t] = "save"
  /\ Execute([working EXCEPT !.saved = @ \union {req[t].id}])
  /\ Goto(t, "save_commit")
  /\ UNCHANGED <<month, clock, req, tokens, dated, refused, historyVars>>

(* Mutant: a refused call is given back instead of billed.                 *)
InsertUsageRefunding(t) ==
  /\ pc[t] = "bill"
  /\ Execute([working EXCEPT !.used[dated[t]] = IF refused[t] THEN @ - tokens[t] ELSE @ + tokens[t],
                             !.ledger = @ \union {req[t].id}])
  /\ demo' = demo
  /\ Goto(t, "bill_commit")
  /\ UNCHANGED <<month, clock, req, tokens, dated, refused, raced, called, cut, unread, dropped, torn>>

(* The INSERT of record_usage.                                             *)
InsertUsage(t) ==
  /\ pc[t] = "bill"
  /\ Execute([working EXCEPT !.used[dated[t]] = @ + tokens[t],
                             !.ledger = @ \union {req[t].id}])
  /\ demo' = [demo EXCEPT ![dated[t]] =
       IF req[t].kind \in {"demo_capture", "demo_query"} THEN @ + tokens[t] ELSE @]
  /\ Goto(t, "bill_commit")
  /\ UNCHANGED <<month, clock, req, tokens, dated, refused, raced, called, cut, unread, dropped, torn>>

(* Mutant: the cost event of a refused request is not recorded.            *)
RecordCostOfServed(t) ==
  /\ pc[t] = "cost"
  /\ IF refused[t] THEN UNCHANGED connectionVars
     ELSE Execute([working EXCEPT !.costs = @ \union {req[t].id}])
  /\ Goto(t, "cost_commit")
  /\ UNCHANGED <<month, clock, req, tokens, dated, refused, historyVars>>

RecordCost(t) ==
  /\ pc[t] = "cost"
  /\ Execute([working EXCEPT !.costs = @ \union {req[t].id}])
  /\ Goto(t, "cost_commit")
  /\ UNCHANGED <<month, clock, req, tokens, dated, refused, historyVars>>

SaveTrace(t) ==
  /\ pc[t] = "trace"
  /\ Execute([working EXCEPT !.traces = @ \union {req[t].id}])
  /\ Goto(t, "trace_commit")
  /\ UNCHANGED <<month, clock, req, tokens, dated, refused, historyVars>>

CommitWrite(t) ==
  /\ pc[t] \in Uncommitted \ {"trace_commit"}
  /\ Commit
  /\ Goto(t, CASE pc[t] = "save_commit" -> "record"
               [] pc[t] = "bill_commit" -> "cost"
               [] pc[t] = "cost_commit" -> "trace")
  /\ UNCHANGED <<month, clock, req, tokens, dated, refused, historyVars>>

(* The last of its rows.  The events that follow in the feed and in the    *)
(* metrics are not kept here.                                              *)
CommitTrace(t) ==
  /\ pc[t] = "trace_commit"
  /\ Commit
  /\ Finish(t)
  /\ UNCHANGED <<month, clock, called, cut, unread, dropped, demo, torn>>

(* A statement raises, or a commit that has anything to commit.            *)
WriteFails(t) ==
  /\ \/ pc[t] \in {"save", "bill", "cost", "trace"}
     \/ pc[t] \in Uncommitted /\ working # durable
  /\ Rollback
  /\ torn' = (torn \/ \E u \in Threads \ {t} : pc[u] \in Uncommitted)
  /\ cut' = cut \union {req[t].id}
  /\ Finish(t)
  /\ UNCHANGED <<month, clock, called, unread, dropped, demo>>

Restart ==
  /\ Rollback
  /\ cut' = cut \union {req[t].id : t \in Busy}
  /\ pc' = [t \in Threads |-> "idle"]
  /\ req' = [t \in Threads |-> None]
  /\ tokens' = [t \in Threads |-> 0]
  /\ dated' = [t \in Threads |-> 1]
  /\ refused' = [t \in Threads |-> FALSE]
  /\ raced' = [t \in Threads |-> FALSE]
  /\ UNCHANGED <<month, clock, called, unread, dropped, demo, torn>>

NextMonth ==
  /\ month < MaxMonth
  /\ month' = month + 1
  /\ UNCHANGED <<connectionVars, clock, threadVars, historyVars>>

Serve(t) ==
  \/ \E kind \in Kinds : Begin(t, kind)
  \/ Preflight(t)
  \/ CallModel(t)
  \/ CheckActual(t)
  \/ EnforceLimit(t)
  \/ SaveProposal(t)
  \/ InsertUsage(t)
  \/ RecordCost(t)
  \/ SaveTrace(t)
  \/ CommitWrite(t)
  \/ CommitTrace(t)
  \/ WriteFails(t)

Next == Restart \/ NextMonth \/ \E t \in Threads : Serve(t)

Spec == Init /\ [][Next]_vars

-----------------------------------------------------------------------------
TypeOK ==
  /\ working \in Database /\ durable \in Database
  /\ month \in Months /\ clock \in 0 .. MaxRequests
  /\ pc \in [Threads -> Steps]
  /\ req \in [Threads -> [id : Ids, kind : Kinds] \union {None}]
  /\ tokens \in [Threads -> Nat] /\ dated \in [Threads -> Months]
  /\ refused \in [Threads -> BOOLEAN] /\ raced \in [Threads -> BOOLEAN]
  /\ called \subseteq Ids /\ cut \subseteq Ids
  /\ unread \subseteq Ids /\ dropped \subseteq Ids
  /\ demo \in [Months -> Nat]
  /\ torn \in BOOLEAN

MaxCost == CHOOSE c \in Costs : \A d \in Costs : d <= c

(* The hard limit can be overrun, by requests that race and by calls that  *)
(* take more than their reserve, but only once per thread: whoever finds   *)
(* the limit reached is turned away.  Only the built-in provider is free.  *)
OverrunBounded ==
  \A m \in Months : working.used[m] < Limit + Cardinality(Threads) * MaxCost + demo[m]

(* A request that is served, by a provider that is metered, while no other *)
(* is under way, leaves the month's sum within the limit.                  *)
ServedWithinLimit ==
  [][\A t \in Threads :
       /\ pc[t] = "bill" /\ pc'[t] = "bill_commit"
       /\ req[t].kind \in {"message"} \union Metered /\ ~refused[t] /\ ~raced[t]
       => working'.used[dated[t]] <= Limit]_vars

(* The books agree, once a request has ended without being cut short:      *)
(* every call that took tokens and told how many, and every proposal that  *)
(* was saved, has its ledger entry, its cost event and its trace, refused  *)
(* ones included.  A call that was paid for and did not tell has its trace *)
(* and is billed nowhere, one whose answer raised is in no book at all:    *)
(* those two losses are the code's, and the only ones.  And there is never *)
(* a cost event without a ledger entry.                                    *)
InFlight == {req[t].id : t \in Busy}
CallsBilled ==
  torn \/ LET over == (called \union durable.saved) \ (InFlight \union cut)
          IN /\ over \ (dropped \union unread) \subseteq durable.ledger \intersect durable.costs
             /\ over \ dropped \subseteq durable.traces
             /\ (dropped \union unread) \intersect (durable.ledger \union durable.costs) = {}
             /\ dropped \intersect durable.traces = {}
             /\ durable.costs \subseteq durable.ledger
=============================================================================
