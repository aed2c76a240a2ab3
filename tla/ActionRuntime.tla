---------------------------- MODULE ActionRuntime ----------------------------
(***************************************************************************)
(* BuddysRuntime: a message becomes a proposal, and its owner's            *)
(* confirmation lets the adapter act in the home, once.  What remembers    *)
(* that a proposal was executed is a flag on the proposal object of this   *)
(* process, saved with the trace; a process started later reads a copy of  *)
(* its own out of the trace for every confirmation.                        *)
(***************************************************************************)
EXTENDS SharedConnection, Naturals, FiniteSets

CONSTANTS
  Threads,       \* worker threads that serve the routes
  Proposals,
  Kinds,         \* what the provider may plan: "reply", "tool", "risky_tool"
  Outcomes,      \* what the adapter may answer
  MayFail,       \* TRUE: a statement can raise
  MaxConfirms,   \* bound: confirmations in a behaviour
  None

ASSUME RuntimeAssumption ==
  /\ Kinds \subseteq {"reply", "tool", "risky_tool"}
  /\ Outcomes \subseteq {"success", "failure", "manual_required"}
  /\ MayFail \in BOOLEAN /\ MaxConfirms \in Nat
  /\ IsFiniteSet(Threads)

Flag == {"pending", "executed"}
Decisions == {"not_required", "deny", "allow", "require_confirmation"}
Confirmations == {"approved", "rejected", "not_requested"}
Trace == [kind : Kinds, flag : Flag, decision : Decisions,
          result : Outcomes \union {"none"}]

ASSUME NoneAssumption == None \notin Proposals \union Flag \union Trace

VARIABLES
  cached,     \* _proposals: the flag of the object kept by this process
  home,       \* history: what the adapter did, which no restart undoes
  pc, req,    \* where each thread is, and the proposal it serves
  answer,     \* the owner's confirmation it carries
  own,        \* the flag of the copy it read, if the process keeps none
  trace,      \* the trace it read and is about to save
  confirms,   \* confirmations begun, for the bound
  excuses,    \* history: confirmations that raced, or that left no record
  torn        \* history: a rollback hit the open transaction of another thread

threadVars == <<pc, req, answer, own, trace>>
historyVars == <<excuses, torn>>
vars == <<connectionVars, cached, home, threadVars, confirms, historyVars>>

Uncommitted == {"usage_commit", "cost_commit", "trace_commit"}
Steps == {"idle", "usage", "cost", "publish", "read", "evaluate", "execute", "dump",
          "trace", "notify"} \union Uncommitted

EmptyDatabase == [usage |-> {}, costs |-> {}, traces |-> [p \in Proposals |-> None]]
Database == [usage : SUBSET Proposals, costs : SUBSET Proposals,
             traces : [Proposals -> Trace \union {None}]]

TypeOK ==
  /\ working \in Database /\ durable \in Database
  /\ cached \in [Proposals -> Flag \union {None}]
  /\ home \in [Proposals -> Nat]
  /\ pc \in [Threads -> Steps]
  /\ req \in [Threads -> Proposals \union {None}]
  /\ \A t \in Threads : pc[t] # "idle" => req[t] # None
  /\ answer \in [Threads -> Confirmations]
  /\ own \in [Threads -> Flag]
  /\ trace \in [Threads -> Trace \union {None}]
  /\ \A t \in Threads :
       pc[t] \in {"evaluate", "execute", "dump", "trace", "trace_commit"} => trace[t] # None
  /\ confirms \in 0 .. MaxConfirms
  /\ excuses \in [Proposals -> Nat]
  /\ torn \in BOOLEAN

Init ==
  /\ working = EmptyDatabase /\ durable = EmptyDatabase
  /\ cached = [p \in Proposals |-> None]
  /\ home = [p \in Proposals |-> 0]
  /\ pc = [t \in Threads |-> "idle"]
  /\ req = [t \in Threads |-> None]
  /\ answer = [t \in Threads |-> "not_requested"]
  /\ own = [t \in Threads |-> "pending"]
  /\ trace = [t \in Threads |-> None]
  /\ confirms = 0
  /\ excuses = [p \in Proposals |-> 0]
  /\ torn = FALSE

-----------------------------------------------------------------------------
(* Mutant: the flag is not looked at.                                      *)
EvaluateForgetful(kind, flag, confirmation) ==
  CASE kind = "reply" -> "not_required"
    [] kind = "risky_tool" -> "deny"
    [] kind = "tool" ->
         CASE confirmation = "approved" -> "allow"
           [] confirmation = "rejected" -> "deny"
           [] OTHER -> "require_confirmation"

(* PermissionPolicy.evaluate                                               *)
Evaluate(kind, flag, confirmation) ==
  CASE kind = "reply" -> "not_required"
    [] kind = "risky_tool" -> "deny"
    [] kind = "tool" ->
         IF flag = "executed" THEN "deny"
         ELSE CASE confirmation = "approved" -> "allow"
                [] confirmation = "rejected" -> "deny"
                [] OTHER -> "require_confirmation"

Goto(t, step) == pc' = [pc EXCEPT ![t] = step]
Finish(t) == /\ Goto(t, "idle")
             /\ req' = [req EXCEPT ![t] = None]
             /\ answer' = [answer EXCEPT ![t] = "not_requested"]
             /\ own' = [own EXCEPT ![t] = "pending"]
             /\ trace' = [trace EXCEPT ![t] = None]

-----------------------------------------------------------------------------
(* _submit_message_for_buddy, after the provider has planned p: the usage  *)
(* ledger, the cost event, the dictionary and the trace, each write in a   *)
(* transaction of its own.  An owner over the plan's limit gets 429 first. *)
Submit(t, p) ==
  /\ pc[t] = "idle"
  /\ cached[p] = None /\ p \notin durable.usage
  /\ \A u \in Threads : req[u] # p
  /\ Goto(t, "usage")
  /\ req' = [req EXCEPT ![t] = p]
  /\ UNCHANGED <<connectionVars, cached, home, answer, own, trace, confirms, historyVars>>

RecordUsage(t) ==
  /\ pc[t] = "usage"
  /\ Execute([working EXCEPT !.usage = @ \union {req[t]}])
  /\ Goto(t, "usage_commit")
  /\ UNCHANGED <<cached, home, req, answer, own, trace, confirms, historyVars>>

RecordCost(t) ==
  /\ pc[t] = "cost"
  /\ Execute([working EXCEPT !.costs = @ \union {req[t]}])
  /\ Goto(t, "cost_commit")
  /\ UNCHANGED <<cached, home, req, answer, own, trace, confirms, historyVars>>

(* The plan's trace, dumped with the flag the new proposal has.            *)
PublishProposal(t) ==
  LET p == req[t] IN
  /\ pc[t] = "publish"
  /\ cached' = [cached EXCEPT ![p] = "pending"]
  /\ \E kind \in Kinds :
       trace' = [trace EXCEPT ![t] =
         [kind |-> kind, flag |-> "pending",
          decision |-> Evaluate(kind, "pending", "not_requested"), result |-> "none"]]
  /\ Goto(t, "trace")
  /\ UNCHANGED <<connectionVars, home, req, answer, own, confirms, historyVars>>

-----------------------------------------------------------------------------
(* confirm_proposal: _get_proposal.  Whoever knows the identifier of the   *)
(* proposal has it from an answer, and then its trace is committed.        *)
ReadProposal(t, p, confirmation) ==
  /\ pc[t] = "idle"
  /\ durable.traces[p] # None
  /\ confirms < MaxConfirms
  /\ Goto(t, "read")
  /\ req' = [req EXCEPT ![t] = p]
  /\ answer' = [answer EXCEPT ![t] = confirmation]
  /\ own' = [own EXCEPT ![t] = working.traces[p].flag]
  /\ confirms' = confirms + 1
  /\ excuses' = [excuses EXCEPT ![p] = IF \E u \in Threads : req[u] = p THEN @ + 1 ELSE @]
  /\ UNCHANGED <<connectionVars, cached, home, trace, torn>>

(* trace_store.get, a second SELECT.                                       *)
ReadTrace(t) ==
  /\ pc[t] = "read"
  /\ trace' = [trace EXCEPT ![t] = working.traces[req[t]]]
  /\ Goto(t, "evaluate")
  /\ UNCHANGED <<connectionVars, cached, home, req, answer, own, confirms, historyVars>>

FlagOf(t) == IF cached[req[t]] = None THEN own[t] ELSE cached[req[t]]

Decide(t) ==
  LET decision == Evaluate(trace[t].kind, FlagOf(t), answer[t]) IN
  /\ pc[t] = "evaluate"
  /\ trace' = [trace EXCEPT ![t].decision = decision]
  /\ Goto(t, IF decision = "allow" THEN "execute" ELSE "dump")
  /\ UNCHANGED <<connectionVars, cached, home, req, answer, own, confirms, historyVars>>

(* Mutant: only the copy that this confirmation read is marked.            *)
ExecuteUnmarked(t) ==
  LET p == req[t] IN
  /\ pc[t] = "execute"
  /\ \E outcome \in Outcomes :
       LET flag == IF outcome = "success" THEN "executed" ELSE "pending" IN
       /\ home' = [home EXCEPT ![p] = IF outcome = "success" THEN @ + 1 ELSE @]
       /\ own' = [own EXCEPT ![t] = flag]
       /\ trace' = [trace EXCEPT ![t].result = outcome]
  /\ Goto(t, "dump")
  /\ UNCHANGED <<connectionVars, cached, req, answer, confirms, historyVars>>

(* Mutant: the flag takes the status of the result as it is.               *)
ExecuteRawStatus(t) ==
  LET p == req[t] IN
  /\ pc[t] = "execute"
  /\ \E outcome \in Outcomes :
       /\ home' = [home EXCEPT ![p] = IF outcome = "success" THEN @ + 1 ELSE @]
       /\ cached' = [cached EXCEPT ![p] = IF @ = None THEN None ELSE outcome]
       /\ own' = [own EXCEPT ![t] = outcome]
       /\ trace' = [trace EXCEPT ![t].result = outcome]
  /\ Goto(t, "dump")
  /\ UNCHANGED <<connectionVars, req, answer, confirms, historyVars>>

(* adapter.execute acts, and its result decides the flag.                  *)
ExecuteTool(t) ==
  LET p == req[t] IN
  /\ pc[t] = "execute"
  /\ \E outcome \in Outcomes :
       LET flag == IF outcome = "success" THEN "executed" ELSE "pending" IN
       /\ home' = [home EXCEPT ![p] = IF outcome = "success" THEN @ + 1 ELSE @]
       /\ cached' = [cached EXCEPT ![p] = IF @ = None THEN None ELSE flag]
       /\ own' = [own EXCEPT ![t] = flag]
       /\ trace' = [trace EXCEPT ![t].result = outcome]
  /\ Goto(t, "dump")
  /\ UNCHANGED <<connectionVars, req, answer, confirms, historyVars>>

(* trace.proposal = proposal, and the payload is rendered.                 *)
DumpTrace(t) ==
  /\ pc[t] = "dump"
  /\ trace' = [trace EXCEPT ![t].flag = FlagOf(t)]
  /\ Goto(t, "trace")
  /\ UNCHANGED <<connectionVars, cached, home, req, answer, own, confirms, historyVars>>

(* TraceStore.save writes the whole trace over the one that is there.      *)
SaveTrace(t) ==
  /\ pc[t] = "trace"
  /\ Execute([working EXCEPT !.traces[req[t]] = trace[t]])
  /\ Goto(t, "trace_commit")
  /\ UNCHANGED <<cached, home, req, answer, own, trace, confirms, historyVars>>

CommitWrite(t) ==
  /\ pc[t] \in Uncommitted
  /\ Commit
  /\ Goto(t, CASE pc[t] = "usage_commit" -> "cost"
               [] pc[t] = "cost_commit" -> "publish"
               [] pc[t] = "trace_commit" -> "notify")
  /\ UNCHANGED <<cached, home, req, answer, own, trace, confirms, historyVars>>

(* SyncStore.append_event writes a row this module does not keep, commits  *)
(* whatever is open on the connection, and the request is answered.        *)
Notify(t) ==
  /\ pc[t] = "notify"
  /\ Commit
  /\ Finish(t)
  /\ UNCHANGED <<cached, home, confirms, historyVars>>

-----------------------------------------------------------------------------
(* t acted in the home and has not yet committed the trace that says so.   *)
Unrecorded(t) ==
  /\ pc[t] \in {"dump", "trace", "trace_commit"}
  /\ trace[t].decision = "allow" /\ trace[t].result = "success"

WriteFails(t) ==
  /\ MayFail
  /\ pc[t] \in {"usage", "cost", "trace", "notify"} \union Uncommitted
  /\ Rollback
  /\ torn' = (torn \/ \E u \in Threads \ {t} : pc[u] \in Uncommitted)
  /\ excuses' = [p \in Proposals |->
       IF req[t] = p /\ Unrecorded(t) THEN excuses[p] + 1 ELSE excuses[p]]
  /\ Finish(t)
  /\ UNCHANGED <<cached, home, confirms>>

(* The process dies and is started again: the dictionary is lost.          *)
Restart ==
  /\ Rollback
  /\ cached' = [p \in Proposals |-> None]
  /\ pc' = [t \in Threads |-> "idle"]
  /\ req' = [t \in Threads |-> None]
  /\ answer' = [t \in Threads |-> "not_requested"]
  /\ own' = [t \in Threads |-> "pending"]
  /\ trace' = [t \in Threads |-> None]
  /\ excuses' = [p \in Proposals |->
       IF \E t \in Threads : req[t] = p /\ Unrecorded(t) THEN excuses[p] + 1 ELSE excuses[p]]
  /\ UNCHANGED <<home, confirms, torn>>

Serve(t) ==
  \/ \E p \in Proposals : Submit(t, p)
  \/ RecordUsage(t)
  \/ RecordCost(t)
  \/ PublishProposal(t)
  \/ \E p \in Proposals, c \in {"approved", "rejected"} : ReadProposal(t, p, c)
  \/ ReadTrace(t)
  \/ Decide(t)
  \/ ExecuteTool(t)
  \/ DumpTrace(t)
  \/ SaveTrace(t)
  \/ CommitWrite(t)
  \/ Notify(t)
  \/ WriteFails(t)

Next == Restart \/ \E t \in Threads : Serve(t)

Spec == Init /\ [][Next]_vars

-----------------------------------------------------------------------------
(* Approving a proposal again does not repeat its action in the home: each *)
(* repetition has an excuse of its own, a confirmation that raced another  *)
(* of the same proposal or one whose record was lost after the action.     *)
RepeatsExcused == torn \/ \A p \in Proposals : home[p] <= 1 + excuses[p]

(* A repetition that nothing excuses but the end of a process does not     *)
(* happen: what the tables call executed is never executed again.          *)
Quiet(p) == excuses[p] = 0 /\ ~torn
RecordedIsFinal ==
  [][\A p \in Proposals :
       /\ Quiet(p) /\ Quiet(p)'
       /\ durable.traces[p] # None /\ durable.traces[p].flag = "executed"
       => home'[p] = home[p] /\ durable'.traces[p].flag = "executed"]_vars

(* Between requests the trace tells the truth: it says executed, with a    *)
(* successful result, if and only if the adapter acted; and the call it    *)
(* stems from was billed in the ledger and in the cost events.             *)
TraceTruthful ==
  (\A t \in Threads : pc[t] = "idle") =>
    \A p \in Proposals : Quiet(p) =>
      LET saved == durable.traces[p] IN
      /\ home[p] > 0 <=> saved # None /\ saved.flag = "executed"
      /\ home[p] > 0 => saved.kind = "tool"
      /\ saved # None => /\ saved.flag = "executed" <=> saved.result = "success"
                         /\ p \in durable.usage \cap durable.costs
=============================================================================
