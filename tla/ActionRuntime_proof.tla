------------------------- MODULE ActionRuntime_proof -------------------------
(* Theorems about ActionRuntime, for every set of proposals and every      *)
(* finite set of threads, however often a proposal is confirmed.           *)
EXTENDS ActionRuntime, FiniteSetTheorems, TLAPS

(* The threads at work on a proposal; a thread that plans carries no       *)
(* confirmation, and before it publishes it has no trace.                  *)
Servers(p) == {t \in Threads : req[t] = p}
Planning == {"usage", "usage_commit", "cost", "cost_commit", "publish"}
Confirming == {"read", "evaluate", "execute", "dump"}
Plans(t) == req[t] # None /\ answer[t] = "not_requested"
Confirms(t) == req[t] # None /\ answer[t] # "not_requested"

Serving ==
  \A t \in Threads :
    /\ pc[t] = "idle" <=> req[t] = None
    /\ pc[t] = "idle" => answer[t] = "not_requested"
    /\ pc[t] \in Planning => Plans(t)
    /\ pc[t] \in Confirming => Confirms(t)
    /\ Confirms(t) => durable.traces[req[t]] # None
    /\ pc[t] = "execute" =>
         /\ trace[t].decision = "allow" /\ trace[t].kind = "tool"

(* No row of these tables is ever deleted.                                 *)
Grown ==
  /\ durable.usage \subseteq working.usage /\ durable.costs \subseteq working.costs
  /\ \A p \in Proposals : durable.traces[p] # None => working.traces[p] # None

TypeInv == TypeOK /\ Serving /\ Grown

-----------------------------------------------------------------------------
(* A proposal is planned by one thread, which nobody joins before its      *)
(* trace is there, and the books are written before the trace.             *)
BilledIn(db, p) == p \in db.usage \cap db.costs

Planned(t) ==
  /\ pc[t] \in Planning \/ (pc[t] = "trace" /\ Plans(t)) =>
       /\ durable.traces[req[t]] = None /\ working.traces[req[t]] = None
  /\ pc[t] \in Planning \/ (pc[t] \in {"trace", "trace_commit"} /\ Plans(t)) =>
       \A u \in Servers(req[t]) \ {t} : Confirms(u)
  /\ pc[t] = "usage_commit" => req[t] \in working.usage
  /\ pc[t] \in {"cost", "cost_commit", "publish"} => req[t] \in durable.usage
  /\ pc[t] = "cost_commit" => req[t] \in working.costs
  /\ pc[t] = "publish" \/ (pc[t] = "trace" /\ Plans(t)) => BilledIn(durable, req[t])

Billed ==
  ~torn => /\ \A p \in Proposals : working.traces[p] # None => BilledIn(durable, p)
           /\ \A t \in Threads : req[t] # None => Planned(t)

-----------------------------------------------------------------------------
(* How often a proposal may still be executed without another excuse.      *)
SaysExecuted(row) == row # None /\ row.flag = "executed"
Kept(p) == SaysExecuted(working.traces[p]) /\ SaysExecuted(durable.traces[p])

Pending(p) == {t \in Servers(p) : pc[t] \in {"read", "evaluate", "execute"}}

(* t has acted, and will say so in the trace or has said so.               *)
Carrying(t) ==
  /\ Confirms(t) /\ own[t] = "executed" /\ cached[req[t]] # "pending"
  /\ \/ Unrecorded(t)
     \/ pc[t] = "notify" /\ Kept(req[t])
  /\ pc[t] \in {"trace", "trace_commit"} => SaysExecuted(trace[t])
  /\ pc[t] = "trace_commit" => SaysExecuted(working.traces[req[t]])

(* Whatever is confirmed from here on, nothing is executed.                *)
Heeds(t) ==
  /\ Confirms(t) /\ pc[t] # "execute"
  /\ cached[req[t]] = None => own[t] = "executed"
  /\ pc[t] \in {"trace", "trace_commit"} => SaysExecuted(trace[t])

Calm(p) == cached[p] # "pending" /\ Kept(p) /\ \A t \in Servers(p) : Heeds(t)

(* What is pending may all be executed, or all but one.                    *)
Roomy(p) == home[p] + Cardinality(Pending(p)) <= excuses[p]

Tight(p) ==
  /\ home[p] + Cardinality(Pending(p)) = 1 + excuses[p]
  /\ Servers(p) # {}
  /\ \A t \in Servers(p) : t \in Pending(p) \/ Carrying(t)

BudgetOf(p) == home[p] <= 1 + excuses[p] /\ (Calm(p) \/ Roomy(p) \/ Tight(p))

Budget == ~torn => \A p \in Proposals : BudgetOf(p)

-----------------------------------------------------------------------------
(* While nothing has raced and no record was lost, everything that tells   *)
(* of a proposal tells the same: whether the adapter acted.                *)
Acted(p) == home[p] > 0
Consistent(row) ==
  row # None => /\ row.flag = "executed" <=> row.result = "success"
                /\ row.flag = "executed" => row.kind = "tool"

TellsTruth(t) ==
  LET p == req[t] IN
  /\ Plans(t) => ~Acted(p)
  /\ Confirms(t) => (own[t] = "executed" <=> Acted(p))
  /\ pc[t] \in {"evaluate", "execute"} => Consistent(trace[t]) /\ (SaysExecuted(trace[t]) <=> Acted(p))
  /\ pc[t] = "execute" => ~Acted(p)
  /\ pc[t] = "dump" => /\ trace[t].result = "success" <=> Acted(p)
                       /\ Acted(p) => trace[t].kind = "tool"
  /\ pc[t] \in {"trace", "trace_commit"} =>
       Consistent(trace[t]) /\ (SaysExecuted(trace[t]) <=> Acted(p))
  /\ pc[t] = "trace_commit" => working.traces[p] = trace[t]

TruthOf(p) ==
  /\ \A t, u \in Servers(p) : t = u
  /\ cached[p] # None => (cached[p] = "executed" <=> Acted(p))
  /\ Consistent(working.traces[p]) /\ Consistent(durable.traces[p])
  /\ SaysExecuted(durable.traces[p]) => Acted(p)
  /\ Acted(p) => SaysExecuted(durable.traces[p]) \/ \E t \in Servers(p) : Unrecorded(t)
  /\ working.traces[p] = durable.traces[p] \/ \E t \in Servers(p) : pc[t] = "trace_commit"
  /\ \A t \in Servers(p) : TellsTruth(t)

Truth == \A p \in Proposals : Quiet(p) => TruthOf(p)

-----------------------------------------------------------------------------
(* What the steps do to the threads.                                       *)
Alone(t) ==
  \A u \in Threads \ {t} :
    /\ pc'[u] = pc[u] /\ req'[u] = req[u] /\ answer'[u] = answer[u]
    /\ own'[u] = own[u] /\ trace'[u] = trace[u]

Moves(t, step, p, a, o, x) ==
  /\ pc' = [pc EXCEPT ![t] = step] /\ req' = [req EXCEPT ![t] = p]
  /\ answer' = [answer EXCEPT ![t] = a] /\ own' = [own EXCEPT ![t] = o]
  /\ trace' = [trace EXCEPT ![t] = x]

LocalsOK ==
  /\ pc \in [Threads -> Steps]
  /\ req \in [Threads -> Proposals \union {None}]
  /\ answer \in [Threads -> Confirmations]
  /\ own \in [Threads -> Flag]
  /\ trace \in [Threads -> Trace \union {None}]

(* What is the same before and after a step that leaves only its thread    *)
(* somewhere else.                                                         *)
Steady == UNCHANGED <<home, confirms, excuses, torn>>

LEMMA Facts ==
  ASSUME TypeInv, NEW t \in Threads
  PROVE  /\ LocalsOK
         /\ working \in Database /\ durable \in Database
         /\ cached \in [Proposals -> Flag \union {None}]
         /\ home \in [Proposals -> Nat] /\ excuses \in [Proposals -> Nat]
         /\ pc[t] # "idle" => req[t] \in Proposals /\ req[t] # None
         /\ pc[t] \in {"evaluate", "execute", "dump", "trace", "trace_commit"} => trace[t] \in Trace
         /\ Confirms(t) => /\ working.traces[req[t]] \in Trace /\ durable.traces[req[t]] \in Trace
BY NoneAssumption DEF TypeInv, TypeOK, LocalsOK, Serving, Grown, Confirms, Database

LEMMA MovesTo ==
  ASSUME TypeOK, NEW t \in Threads, NEW step, NEW p, NEW a, NEW o, NEW x,
         Moves(t, step, p, a, o, x)
  PROVE  /\ pc'[t] = step /\ req'[t] = p /\ answer'[t] = a /\ own'[t] = o /\ trace'[t] = x
         /\ Alone(t)
         /\ step \in Steps /\ p \in Proposals \union {None} /\ a \in Confirmations
            /\ o \in Flag /\ x \in Trace \union {None} => LocalsOK'
BY DEF TypeOK, Moves, Alone, LocalsOK

LEMMA Evaluates ==
  ASSUME NEW kind \in {"reply", "tool", "risky_tool"}, NEW flag \in Flag,
         NEW c \in {"approved", "rejected"}
  PROVE  /\ Evaluate(kind, flag, c) \in Decisions
         /\ Evaluate(kind, flag, c) = "allow" => kind = "tool" /\ flag = "pending"
<1>1. CASE kind = "reply"
  BY <1>1 DEF Evaluate, Decisions
<1>2. CASE kind = "risky_tool"
  BY <1>2 DEF Evaluate, Decisions
<1>3. CASE kind = "tool" /\ flag = "executed"
  BY <1>3 DEF Evaluate, Decisions
<1>4. CASE kind = "tool" /\ flag = "pending"
  BY <1>4 DEF Evaluate, Decisions
<1>5. QED
  BY <1>1, <1>2, <1>3, <1>4 DEF Flag

LEMMA FinishDoes ==
  ASSUME TypeOK, NEW t \in Threads, Finish(t)
  PROVE  Moves(t, "idle", None, "not_requested", "pending", None)
BY DEF TypeOK, Finish, Goto, Moves

LEMMA SubmitDoes ==
  ASSUME TypeInv, NEW t \in Threads, NEW p \in Proposals, Submit(t, p)
  PROVE  /\ pc[t] = "idle" /\ cached[p] = None /\ p \notin durable.usage /\ Servers(p) = {}
         /\ Moves(t, "usage", p, "not_requested", own[t], trace[t])
         /\ UNCHANGED <<working, durable, cached>> /\ Steady
BY DEF TypeInv, TypeOK, Serving, Submit, Goto, Moves, Servers, Steady, connectionVars,
   historyVars

LEMMA RecordUsageDoes ==
  ASSUME TypeInv, NEW t \in Threads, RecordUsage(t)
  PROVE  /\ pc[t] = "usage"
         /\ Moves(t, "usage_commit", req[t], answer[t], own[t], trace[t])
         /\ working' \in Database /\ working'.usage = working.usage \union {req[t]}
         /\ working'.costs = working.costs /\ working'.traces = working.traces
         /\ UNCHANGED <<durable, cached>> /\ Steady
<1>1. pc[t] = "usage" /\ working' = [working EXCEPT !.usage = @ \union {req[t]}]
      /\ UNCHANGED <<durable, cached>> /\ Steady
  BY DEF RecordUsage, Execute, Steady, historyVars
<1>2. Moves(t, "usage_commit", req[t], answer[t], own[t], trace[t])
  BY DEF TypeInv, TypeOK, RecordUsage, Goto, Moves
<1>3. working \in Database /\ req[t] \in Proposals
  BY <1>1, Facts
<1>4. QED
  BY <1>1, <1>2, <1>3 DEF Database

LEMMA RecordCostDoes ==
  ASSUME TypeInv, NEW t \in Threads, RecordCost(t)
  PROVE  /\ pc[t] = "cost"
         /\ Moves(t, "cost_commit", req[t], answer[t], own[t], trace[t])
         /\ working' \in Database /\ working'.costs = working.costs \union {req[t]}
         /\ working'.usage = working.usage /\ working'.traces = working.traces
         /\ UNCHANGED <<durable, cached>> /\ Steady
<1>1. pc[t] = "cost" /\ working' = [working EXCEPT !.costs = @ \union {req[t]}]
      /\ UNCHANGED <<durable, cached>> /\ Steady
  BY DEF RecordCost, Execute, Steady, historyVars
<1>2. Moves(t, "cost_commit", req[t], answer[t], own[t], trace[t])
  BY DEF TypeInv, TypeOK, RecordCost, Goto, Moves
<1>3. working \in Database /\ req[t] \in Proposals
  BY <1>1, Facts
<1>4. QED
  BY <1>1, <1>2, <1>3 DEF Database

LEMMA PublishDoes ==
  ASSUME TypeInv, NEW t \in Threads, PublishProposal(t)
  PROVE  /\ pc[t] = "publish"
         /\ \E x \in Trace : /\ Moves(t, "trace", req[t], answer[t], own[t], x)
                             /\ x.flag = "pending" /\ x.result = "none"
         /\ cached' = [cached EXCEPT ![req[t]] = "pending"]
         /\ UNCHANGED <<working, durable>> /\ Steady
<1>1. /\ pc[t] = "publish" /\ cached' = [cached EXCEPT ![req[t]] = "pending"]
      /\ UNCHANGED <<working, durable>> /\ Steady
  BY DEF PublishProposal, connectionVars, Steady, historyVars
<1>2. PICK kind \in Kinds : trace' = [trace EXCEPT ![t] =
         [kind |-> kind, flag |-> "pending",
          decision |-> Evaluate(kind, "pending", "not_requested"), result |-> "none"]]
  BY DEF PublishProposal
<1>3. PICK x : x = [kind |-> kind, flag |-> "pending",
                    decision |-> Evaluate(kind, "pending", "not_requested"), result |-> "none"]
  OBVIOUS
<1>4. Evaluate(kind, "pending", "not_requested") \in Decisions
  BY RuntimeAssumption DEF Evaluate, Decisions
<1>5. x \in Trace /\ x.flag = "pending" /\ x.result = "none"
  BY <1>3, <1>4 DEF Trace, Flag
<1>6. trace' = [trace EXCEPT ![t] = x]
  BY <1>2, <1>3, Zenon
<1>7. Moves(t, "trace", req[t], answer[t], own[t], x)
  BY <1>6 DEF PublishProposal, TypeInv, TypeOK, Goto, Moves
<1>8. QED
  BY <1>1, <1>5, <1>7

LEMMA ReadProposalDoes ==
  ASSUME TypeInv, NEW t \in Threads, NEW p \in Proposals, NEW c \in {"approved", "rejected"},
         ReadProposal(t, p, c)
  PROVE  /\ pc[t] = "idle" /\ req[t] = None
         /\ durable.traces[p] # None /\ working.traces[p] \in Trace
         /\ Moves(t, "read", p, c, working.traces[p].flag, trace[t])
         /\ confirms' = confirms + 1 /\ confirms < MaxConfirms
         /\ excuses' = [excuses EXCEPT ![p] = IF Servers(p) # {} THEN @ + 1 ELSE @]
         /\ UNCHANGED <<working, durable, cached, home, torn>>
<1>1. /\ pc[t] = "idle" /\ durable.traces[p] # None
      /\ confirms' = confirms + 1 /\ confirms < MaxConfirms
      /\ excuses' = [excuses EXCEPT ![p] = IF \E u \in Threads : req[u] = p THEN @ + 1 ELSE @]
      /\ UNCHANGED <<working, durable, cached, home, torn>>
  BY DEF ReadProposal, connectionVars
<1>2. Moves(t, "read", p, c, working.traces[p].flag, trace[t])
  BY DEF ReadProposal, TypeInv, TypeOK, Goto, Moves
<1>3. (\E u \in Threads : req[u] = p) <=> Servers(p) # {}
  BY DEF Servers
<1>4. excuses' = [excuses EXCEPT ![p] = IF Servers(p) # {} THEN @ + 1 ELSE @]
  BY <1>1, <1>3
<1>5. req[t] = None /\ working.traces[p] \in Trace
  BY <1>1 DEF TypeInv, TypeOK, Serving, Grown, Database
<1>6. QED
  BY <1>1, <1>2, <1>4, <1>5

LEMMA ReadTraceDoes ==
  ASSUME TypeInv, NEW t \in Threads, ReadTrace(t)
  PROVE  /\ pc[t] = "read"
         /\ Moves(t, "evaluate", req[t], answer[t], own[t], working.traces[req[t]])
         /\ UNCHANGED <<working, durable, cached>> /\ Steady
BY DEF ReadTrace, TypeInv, TypeOK, Goto, Moves, Steady, connectionVars, historyVars

LEMMA DecideDoes ==
  ASSUME TypeInv, NEW t \in Threads, Decide(t)
  PROVE  /\ pc[t] = "evaluate"
         /\ \E x \in Trace :
              /\ x.kind = trace[t].kind /\ x.flag = trace[t].flag /\ x.result = trace[t].result
              /\ \/ /\ x.decision = "allow" /\ x.kind = "tool" /\ FlagOf(t) = "pending"
                    /\ Moves(t, "execute", req[t], answer[t], own[t], x)
                 \/ /\ x.decision # "allow"
                    /\ Moves(t, "dump", req[t], answer[t], own[t], x)
         /\ UNCHANGED <<working, durable, cached>> /\ Steady
<1>1. pc[t] = "evaluate" /\ UNCHANGED <<working, durable, cached>> /\ Steady
  BY DEF Decide, Steady, connectionVars, historyVars
<1>2. PICK d : d = Evaluate(trace[t].kind, FlagOf(t), answer[t])
  OBVIOUS
<1>3. /\ trace[t] \in Trace /\ FlagOf(t) \in Flag /\ answer[t] \in Confirmations
      /\ answer[t] # "not_requested"
  BY <1>1, Facts DEF FlagOf, LocalsOK, TypeInv, Serving, Confirming, Confirms
<1>4. d \in Decisions /\ (d = "allow" => trace[t].kind = "tool" /\ FlagOf(t) = "pending")
  <2>1. trace[t].kind \in {"reply", "tool", "risky_tool"} /\ answer[t] \in {"approved", "rejected"}
    BY <1>3, RuntimeAssumption DEF Trace, Confirmations
  <2>2. QED
    BY <1>2, <1>3, <2>1, Evaluates
<1>5. PICK x : x = [trace[t] EXCEPT !.decision = d]
  OBVIOUS
<1>6. /\ x \in Trace /\ x.decision = d
      /\ x.kind = trace[t].kind /\ x.flag = trace[t].flag /\ x.result = trace[t].result
  BY <1>3, <1>4, <1>5 DEF Trace
<1>7. trace' = [trace EXCEPT ![t] = x]
  <2>1. trace' = [trace EXCEPT ![t].decision = d]
    BY <1>2 DEF Decide
  <2>2. QED
    BY <1>5, <2>1, Zenon
<1>8. Moves(t, IF d = "allow" THEN "execute" ELSE "dump", req[t], answer[t], own[t], x)
  <2>1. pc' = [pc EXCEPT ![t] = IF d = "allow" THEN "execute" ELSE "dump"]
        /\ UNCHANGED <<req, answer, own>>
    BY <1>2 DEF Decide, Goto
  <2>2. QED
    BY <1>7, <2>1 DEF TypeInv, TypeOK, Moves
<1>9. QED
  BY <1>1, <1>4, <1>6, <1>8

LEMMA ExecuteToolDoes ==
  ASSUME TypeInv, NEW t \in Threads, ExecuteTool(t)
  PROVE  /\ pc[t] = "execute"
         /\ \E x \in Trace, flag \in Flag :
              /\ x.kind = trace[t].kind /\ x.flag = trace[t].flag
              /\ x.decision = trace[t].decision
              /\ flag = "executed" <=> x.result = "success"
              /\ home' = [home EXCEPT ![req[t]] = IF flag = "executed" THEN @ + 1 ELSE @]
              /\ cached' = [cached EXCEPT ![req[t]] = IF @ = None THEN None ELSE flag]
              /\ Moves(t, "dump", req[t], answer[t], flag, x)
         /\ UNCHANGED <<working, durable, confirms, excuses, torn>>
<1>1. pc[t] = "execute" /\ UNCHANGED <<working, durable, confirms, excuses, torn>>
  BY DEF ExecuteTool, connectionVars, historyVars
<1>2. PICK outcome \in Outcomes :
        LET flag == IF outcome = "success" THEN "executed" ELSE "pending" IN
        /\ home' = [home EXCEPT ![req[t]] = IF outcome = "success" THEN @ + 1 ELSE @]
        /\ cached' = [cached EXCEPT ![req[t]] = IF @ = None THEN None ELSE flag]
        /\ own' = [own EXCEPT ![t] = flag]
        /\ trace' = [trace EXCEPT ![t].result = outcome]
  BY DEF ExecuteTool
<1>3. PICK flag \in Flag : flag = IF outcome = "success" THEN "executed" ELSE "pending"
  BY DEF Flag
<1>4. PICK x : x = [trace[t] EXCEPT !.result = outcome]
  OBVIOUS
<1>5. trace[t] \in Trace
  BY <1>1, Facts
<1>6. /\ x \in Trace /\ x.result = outcome
      /\ x.kind = trace[t].kind /\ x.flag = trace[t].flag /\ x.decision = trace[t].decision
  BY <1>4, <1>5 DEF Trace
<1>7. trace' = [trace EXCEPT ![t] = x]
  BY <1>2, <1>4, Zenon
<1>8. Moves(t, "dump", req[t], answer[t], flag, x)
  <2>1. own' = [own EXCEPT ![t] = flag] /\ UNCHANGED <<req, answer>>
        /\ pc' = [pc EXCEPT ![t] = "dump"]
    BY <1>2, <1>3 DEF ExecuteTool, Goto
  <2>2. QED
    BY <1>7, <2>1 DEF TypeInv, TypeOK, Moves
<1>9. /\ flag = "executed" <=> x.result = "success"
      /\ home' = [home EXCEPT ![req[t]] = IF flag = "executed" THEN @ + 1 ELSE @]
      /\ cached' = [cached EXCEPT ![req[t]] = IF @ = None THEN None ELSE flag]
  BY <1>2, <1>3, <1>6
<1>10. QED
  BY <1>1, <1>6, <1>8, <1>9

LEMMA DumpTraceDoes ==
  ASSUME TypeInv, NEW t \in Threads, DumpTrace(t)
  PROVE  /\ pc[t] = "dump"
         /\ \E x \in Trace :
              /\ x.kind = trace[t].kind /\ x.flag = FlagOf(t)
              /\ x.decision = trace[t].decision /\ x.result = trace[t].result
              /\ Moves(t, "trace", req[t], answer[t], own[t], x)
         /\ UNCHANGED <<working, durable, cached>> /\ Steady
<1>1. pc[t] = "dump" /\ UNCHANGED <<working, durable, cached>> /\ Steady
  BY DEF DumpTrace, Steady, connectionVars, historyVars
<1>2. trace[t] \in Trace /\ FlagOf(t) \in Flag
  BY <1>1, Facts DEF FlagOf, LocalsOK
<1>3. PICK x : x = [trace[t] EXCEPT !.flag = FlagOf(t)]
  OBVIOUS
<1>4. /\ x \in Trace /\ x.kind = trace[t].kind /\ x.flag = FlagOf(t)
      /\ x.decision = trace[t].decision /\ x.result = trace[t].result
  BY <1>2, <1>3 DEF Trace
<1>5. trace' = [trace EXCEPT ![t] = x]
  BY <1>3, Zenon DEF DumpTrace
<1>6. Moves(t, "trace", req[t], answer[t], own[t], x)
  BY <1>5 DEF DumpTrace, TypeInv, TypeOK, Goto, Moves
<1>7. QED
  BY <1>1, <1>4, <1>6

LEMMA SaveTraceDoes ==
  ASSUME TypeInv, NEW t \in Threads, SaveTrace(t)
  PROVE  /\ pc[t] = "trace"
         /\ Moves(t, "trace_commit", req[t], answer[t], own[t], trace[t])
         /\ working' \in Database
         /\ working'.traces = [working.traces EXCEPT ![req[t]] = trace[t]]
         /\ working'.usage = working.usage /\ working'.costs = working.costs
         /\ UNCHANGED <<durable, cached>> /\ Steady
<1>1. pc[t] = "trace" /\ working' = [working EXCEPT !.traces[req[t]] = trace[t]]
      /\ UNCHANGED <<durable, cached>> /\ Steady
  BY DEF SaveTrace, Execute, Steady, historyVars
<1>2. Moves(t, "trace_commit", req[t], answer[t], own[t], trace[t])
  BY DEF TypeInv, TypeOK, SaveTrace, Goto, Moves
<1>3. working \in Database /\ req[t] \in Proposals /\ trace[t] \in Trace
  BY <1>1, Facts
<1>4. QED
  BY <1>1, <1>2, <1>3 DEF Database

LEMMA CommitWriteDoes ==
  ASSUME TypeInv, NEW t \in Threads, CommitWrite(t)
  PROVE  /\ \/ /\ pc[t] = "usage_commit"
               /\ Moves(t, "cost", req[t], answer[t], own[t], trace[t])
            \/ /\ pc[t] = "cost_commit"
               /\ Moves(t, "publish", req[t], answer[t], own[t], trace[t])
            \/ /\ pc[t] = "trace_commit"
               /\ Moves(t, "notify", req[t], answer[t], own[t], trace[t])
         /\ durable' = working /\ UNCHANGED <<working, cached>> /\ Steady
<1>1. /\ pc[t] \in Uncommitted /\ durable' = working /\ UNCHANGED <<working, cached>> /\ Steady
      /\ UNCHANGED <<req, answer, own, trace>>
  BY DEF CommitWrite, Commit, Steady, historyVars
<1>2. PICK step : /\ step = CASE pc[t] = "usage_commit" -> "cost"
                              [] pc[t] = "cost_commit" -> "publish"
                              [] pc[t] = "trace_commit" -> "notify"
                  /\ pc' = [pc EXCEPT ![t] = step]
  BY DEF CommitWrite, Goto
<1>3. /\ Moves(t, step, req[t], answer[t], own[t], trace[t])
      /\ pc[t] \in {"usage_commit", "cost_commit", "trace_commit"}
  BY <1>1, <1>2 DEF TypeInv, TypeOK, Moves, Uncommitted
<1>4. QED
  BY <1>1, <1>2, <1>3

LEMMA NotifyDoes ==
  ASSUME TypeInv, NEW t \in Threads, Notify(t)
  PROVE  /\ pc[t] = "notify" /\ Moves(t, "idle", None, "not_requested", "pending", None)
         /\ durable' = working /\ UNCHANGED <<working, cached>> /\ Steady
BY FinishDoes DEF TypeInv, Notify, Commit, Steady, historyVars

LEMMA WriteFailsDoes ==
  ASSUME TypeInv, NEW t \in Threads, WriteFails(t)
  PROVE  /\ pc[t] \in {"usage", "cost", "trace", "notify"} \union Uncommitted
         /\ Moves(t, "idle", None, "not_requested", "pending", None)
         /\ working' = durable /\ UNCHANGED <<durable, cached, home, confirms>>
         /\ ~torn' => ~torn /\ \A u \in Threads \ {t} : pc[u] \notin Uncommitted
         /\ torn' \in BOOLEAN
         /\ excuses' = [p \in Proposals |->
              IF req[t] = p /\ Unrecorded(t) THEN excuses[p] + 1 ELSE excuses[p]]
BY FinishDoes DEF TypeInv, TypeOK, WriteFails, Rollback

LEMMA RestartDoes ==
  ASSUME TypeInv, Restart
  PROVE  /\ \A t \in Threads : /\ pc'[t] = "idle" /\ req'[t] = None /\ trace'[t] = None
                               /\ answer'[t] = "not_requested" /\ own'[t] = "pending"
         /\ LocalsOK'
         /\ cached' = [p \in Proposals |-> None]
         /\ working' = durable /\ UNCHANGED <<durable, home, confirms, torn>>
         /\ excuses' = [p \in Proposals |->
              IF \E t \in Servers(p) : Unrecorded(t) THEN excuses[p] + 1 ELSE excuses[p]]
<1>1. \A p \in Proposals : (\E t \in Threads : req[t] = p /\ Unrecorded(t))
                             <=> \E t \in Servers(p) : Unrecorded(t)
  BY DEF Servers
<1>2. excuses' = [p \in Proposals |->
        IF \E t \in Servers(p) : Unrecorded(t) THEN excuses[p] + 1 ELSE excuses[p]]
  BY <1>1 DEF Restart
<1>3. QED
  BY <1>2 DEF Restart, Rollback, LocalsOK, Steps, Confirmations, Flag

-----------------------------------------------------------------------------
(* Type correctness.                                                       *)

TablesOK ==
  /\ working \in Database /\ durable \in Database
  /\ cached \in [Proposals -> Flag \union {None}]
  /\ home \in [Proposals -> Nat]
  /\ confirms \in 0 .. MaxConfirms
  /\ excuses \in [Proposals -> Nat]
  /\ torn \in BOOLEAN

(* A move of one thread to a place that fits what it carries.              *)
LEMMA MovesType ==
  ASSUME TypeInv, NEW t \in Threads, NEW step \in Steps, NEW p \in Proposals \union {None},
         NEW a \in Confirmations, NEW o \in Flag, NEW x \in Trace \union {None},
         Moves(t, step, p, a, o, x),
         step = "idle" <=> p = None,
         step = "idle" => a = "not_requested",
         step \in Planning => p # None /\ a = "not_requested",
         step \in Confirming => p # None /\ a # "not_requested",
         p # None /\ a # "not_requested" => durable'.traces[p] # None,
         step = "execute" => x.decision = "allow" /\ x.kind = "tool",
         step \in {"evaluate", "execute", "dump", "trace", "trace_commit"} => x # None,
         \A q \in Proposals : durable.traces[q] # None => durable'.traces[q] # None,
         TablesOK', Grown'
  PROVE  TypeInv'
<1>1. /\ pc'[t] = step /\ req'[t] = p /\ answer'[t] = a /\ own'[t] = o /\ trace'[t] = x
      /\ Alone(t) /\ LocalsOK'
  BY MovesTo DEF TypeInv
<1>2. ASSUME NEW u \in Threads \ {t}
      PROVE  /\ pc'[u] = "idle" <=> req'[u] = None
             /\ pc'[u] = "idle" => answer'[u] = "not_requested"
             /\ pc'[u] \in Planning => Plans(u)'
             /\ pc'[u] \in Confirming => Confirms(u)'
             /\ Confirms(u)' => durable'.traces[req'[u]] # None
             /\ pc'[u] = "execute" => trace'[u].decision = "allow" /\ trace'[u].kind = "tool"
             /\ pc'[u] \in {"evaluate", "execute", "dump", "trace", "trace_commit"} =>
                  trace'[u] # None
  <2>1. /\ pc'[u] = pc[u] /\ req'[u] = req[u] /\ answer'[u] = answer[u] /\ trace'[u] = trace[u]
        /\ req[u] \in Proposals \union {None}
    BY <1>1, Facts DEF Alone, LocalsOK
  <2>2. Confirms(u) => req[u] \in Proposals /\ durable.traces[req[u]] # None
    BY <2>1 DEF TypeInv, Serving, Confirms
  <2>3. QED
    BY <2>1, <2>2 DEF TypeInv, TypeOK, Serving, Plans, Confirms
<1>3. /\ Plans(t)' <=> p # None /\ a = "not_requested"
      /\ Confirms(t)' <=> p # None /\ a # "not_requested"
  BY <1>1 DEF Plans, Confirms
<1>4. /\ Serving'
      /\ \A u \in Threads : pc'[u] # "idle" => req'[u] # None
      /\ \A u \in Threads :
           pc'[u] \in {"evaluate", "execute", "dump", "trace", "trace_commit"} => trace'[u] # None
  BY <1>1, <1>2, <1>3 DEF Serving
<1>5. QED
  BY <1>1, <1>4 DEF TypeInv, TypeOK, TablesOK, LocalsOK

LEMMA TypeStep ==
  ASSUME TypeInv, NEW t \in Threads, Serve(t)
  PROVE  TypeInv'
<1>1. /\ TablesOK /\ LocalsOK /\ Grown
      /\ pc[t] \in Steps /\ req[t] \in Proposals \union {None} /\ answer[t] \in Confirmations
      /\ own[t] \in Flag /\ trace[t] \in Trace \union {None}
  BY DEF TypeInv, TypeOK, TablesOK, LocalsOK
<1>2. /\ pc[t] = "idle" <=> req[t] = None
      /\ pc[t] = "idle" => answer[t] = "not_requested"
      /\ pc[t] \in Planning => req[t] # None /\ answer[t] = "not_requested"
      /\ pc[t] \in Confirming => req[t] # None /\ answer[t] # "not_requested"
      /\ req[t] # None /\ answer[t] # "not_requested" => durable.traces[req[t]] # None
      /\ pc[t] = "execute" => trace[t].decision = "allow" /\ trace[t].kind = "tool"
  BY DEF TypeInv, Serving, Plans, Confirms
<1>3. /\ {"usage", "usage_commit", "cost", "cost_commit", "publish", "read", "evaluate",
          "execute", "dump", "trace", "trace_commit", "notify", "idle"} \subseteq Steps
      /\ "not_requested" \in Confirmations /\ "pending" \in Flag
  BY DEF Steps, Uncommitted, Confirmations, Flag
<1> USE DEF Planning, Confirming, Steady
<1> HIDE DEF Steps, Confirmations, Flag, Trace
<1>4. ASSUME NEW p \in Proposals, Submit(t, p) PROVE TypeInv'
  <2>1. /\ Moves(t, "usage", p, "not_requested", own[t], trace[t])
        /\ UNCHANGED <<working, durable, cached>> /\ Steady
    BY <1>4, SubmitDoes
  <2>2. p # None
    BY NoneAssumption
  <2>3. TablesOK' /\ Grown'
    BY <1>1, <2>1 DEF TablesOK, Grown
  <2>4. QED
    BY <1>1, <1>3, <2>1, <2>2, <2>3, MovesType
<1>5. CASE RecordUsage(t)
  <2>1. TablesOK' /\ Grown' /\ durable' = durable
    BY <1>1, <1>5, RecordUsageDoes DEF TablesOK, Grown
  <2>2. QED
    BY <1>1, <1>2, <1>3, <1>5, <2>1, RecordUsageDoes, MovesType
<1>6. CASE RecordCost(t)
  <2>1. TablesOK' /\ Grown' /\ durable' = durable
    BY <1>1, <1>6, RecordCostDoes DEF TablesOK, Grown
  <2>2. QED
    BY <1>1, <1>2, <1>3, <1>6, <2>1, RecordCostDoes, MovesType
<1>7. CASE PublishProposal(t)
  <2>1. pc[t] = "publish" /\ durable' = durable
    BY <1>7, PublishDoes
  <2>2. TablesOK' /\ Grown'
    BY <1>1, <1>3, <1>7, PublishDoes DEF TablesOK, Grown
  <2>3. PICK x \in Trace : Moves(t, "trace", req[t], answer[t], own[t], x)
    BY <1>7, PublishDoes
  <2>4. x # None
    BY NoneAssumption
  <2>5. QED
    BY <1>1, <1>2, <1>3, <2>1, <2>2, <2>3, <2>4, MovesType
<1>8. ASSUME NEW p \in Proposals, NEW c \in {"approved", "rejected"}, ReadProposal(t, p, c)
      PROVE  TypeInv'
  <2>1. /\ durable.traces[p] # None /\ working.traces[p] \in Trace
        /\ Moves(t, "read", p, c, working.traces[p].flag, trace[t])
        /\ confirms' = confirms + 1 /\ confirms < MaxConfirms
        /\ excuses' = [excuses EXCEPT ![p] = IF Servers(p) # {} THEN @ + 1 ELSE @]
        /\ UNCHANGED <<working, durable, cached, home, torn>>
    BY <1>8, ReadProposalDoes
  <2>2. p # None /\ c \in Confirmations /\ c # "not_requested" /\ working.traces[p].flag \in Flag
    BY <2>1, NoneAssumption DEF Confirmations, Trace
  <2>3. excuses' \in [Proposals -> Nat] /\ confirms' \in 0 .. MaxConfirms
    BY <1>1, <2>1, RuntimeAssumption DEF TablesOK
  <2>4. TablesOK' /\ Grown'
    BY <1>1, <2>1, <2>3 DEF TablesOK, Grown
  <2>5. QED
    BY <1>1, <1>3, <2>1, <2>2, <2>4, MovesType
<1>9. CASE ReadTrace(t)
  <2>1. /\ pc[t] = "read" /\ durable' = durable
        /\ Moves(t, "evaluate", req[t], answer[t], own[t], working.traces[req[t]])
    BY <1>9, ReadTraceDoes
  <2>2. TablesOK' /\ Grown'
    BY <1>1, <1>9, ReadTraceDoes DEF TablesOK, Grown
  <2>3. working.traces[req[t]] \in Trace /\ working.traces[req[t]] # None
    BY <1>2, <2>1, Facts, NoneAssumption DEF Confirms
  <2>4. QED
    BY <1>1, <1>2, <1>3, <2>1, <2>2, <2>3, MovesType
<1>10. CASE Decide(t)
  <2>1. TablesOK' /\ Grown' /\ durable' = durable /\ pc[t] = "evaluate"
    BY <1>1, <1>10, DecideDoes DEF TablesOK, Grown
  <2>2. PICK x \in Trace :
          \/ /\ x.decision = "allow" /\ x.kind = "tool"
             /\ Moves(t, "execute", req[t], answer[t], own[t], x)
          \/ Moves(t, "dump", req[t], answer[t], own[t], x)
    BY <1>10, DecideDoes
  <2>3. x # None
    BY NoneAssumption
  <2>4. CASE /\ x.decision = "allow" /\ x.kind = "tool"
             /\ Moves(t, "execute", req[t], answer[t], own[t], x)
    BY <1>1, <1>2, <1>3, <2>1, <2>3, <2>4, MovesType
  <2>5. CASE Moves(t, "dump", req[t], answer[t], own[t], x)
    BY <1>1, <1>2, <1>3, <2>1, <2>3, <2>5, MovesType
  <2>6. QED
    BY <2>2, <2>4, <2>5
<1>11. CASE ExecuteTool(t)
  <2>1. PICK x \in Trace, flag \in Flag :
          /\ home' = [home EXCEPT ![req[t]] = IF flag = "executed" THEN @ + 1 ELSE @]
          /\ cached' = [cached EXCEPT ![req[t]] = IF @ = None THEN None ELSE flag]
          /\ Moves(t, "dump", req[t], answer[t], flag, x)
    BY <1>11, ExecuteToolDoes
  <2>2. pc[t] = "execute" /\ UNCHANGED <<working, durable, confirms, excuses, torn>>
    BY <1>11, ExecuteToolDoes
  <2>3. home' \in [Proposals -> Nat] /\ cached' \in [Proposals -> Flag \union {None}]
    <3>1. home' \in [Proposals -> Nat]
      <4>1. home \in [Proposals -> Nat] /\ req[t] \in Proposals
        BY <1>1, <2>2, Facts DEF TablesOK
      <4>2. home[req[t]] \in Nat /\ home[req[t]] + 1 \in Nat
        BY <4>1
      <4>3. CASE flag = "executed"
        BY <2>1, <4>1, <4>2, <4>3
      <4>4. CASE flag # "executed"
        BY <2>1, <4>1, <4>2, <4>4
      <4>5. QED
        BY <4>3, <4>4
    <3>2. cached' \in [Proposals -> Flag \union {None}]
      BY <1>1, <2>1 DEF TablesOK
    <3>3. QED
      BY <3>1, <3>2
  <2>4. TablesOK' /\ Grown'
    BY <1>1, <2>2, <2>3 DEF TablesOK, Grown
  <2>5. x # None
    BY NoneAssumption
  <2>6. QED
    BY <1>1, <1>2, <1>3, <2>1, <2>2, <2>4, <2>5, MovesType
<1>12. CASE DumpTrace(t)
  <2>1. TablesOK' /\ Grown' /\ durable' = durable /\ pc[t] = "dump"
    BY <1>1, <1>12, DumpTraceDoes DEF TablesOK, Grown
  <2>2. PICK x \in Trace : Moves(t, "trace", req[t], answer[t], own[t], x)
    BY <1>12, DumpTraceDoes
  <2>3. x # None
    BY NoneAssumption
  <2>4. QED
    BY <1>1, <1>2, <1>3, <2>1, <2>2, <2>3, MovesType
<1>13. CASE SaveTrace(t)
  <2>1. /\ pc[t] = "trace" /\ durable' = durable
        /\ Moves(t, "trace_commit", req[t], answer[t], own[t], trace[t])
        /\ working' \in Database
        /\ working'.traces = [working.traces EXCEPT ![req[t]] = trace[t]]
        /\ working'.usage = working.usage /\ working'.costs = working.costs
        /\ cached' = cached /\ Steady
    BY <1>13, SaveTraceDoes
  <2>2. trace[t] \in Trace /\ trace[t] # None /\ req[t] \in Proposals
    BY <2>1, Facts, NoneAssumption
  <2>3. TablesOK' /\ Grown'
    BY <1>1, <2>1, <2>2 DEF TablesOK, Grown, Database
  <2>4. QED
    BY <1>1, <1>2, <1>3, <2>1, <2>2, <2>3, MovesType
<1>14. CASE CommitWrite(t)
  <2>1. /\ TablesOK' /\ Grown'
        /\ \A q \in Proposals : durable.traces[q] # None => durable'.traces[q] # None
    BY <1>1, <1>14, CommitWriteDoes DEF TablesOK, Grown
  <2>2. req[t] # None /\ answer[t] # "not_requested" => durable'.traces[req[t]] # None
    BY <1>1, <1>2, <2>1
  <2>3. CASE pc[t] = "usage_commit" /\ Moves(t, "cost", req[t], answer[t], own[t], trace[t])
    BY <1>1, <1>2, <1>3, <2>1, <2>2, <2>3, MovesType
  <2>4. CASE pc[t] = "cost_commit" /\ Moves(t, "publish", req[t], answer[t], own[t], trace[t])
    BY <1>1, <1>2, <1>3, <2>1, <2>2, <2>4, MovesType
  <2>5. CASE pc[t] = "trace_commit" /\ Moves(t, "notify", req[t], answer[t], own[t], trace[t])
    BY <1>1, <1>2, <1>3, <2>1, <2>2, <2>5, MovesType
  <2>6. QED
    BY <1>14, <2>3, <2>4, <2>5, CommitWriteDoes
<1>15. CASE Notify(t)
  <2>1. /\ TablesOK' /\ Grown'
        /\ \A q \in Proposals : durable.traces[q] # None => durable'.traces[q] # None
    BY <1>1, <1>15, NotifyDoes DEF TablesOK, Grown
  <2>2. QED
    BY <1>1, <1>3, <1>15, <2>1, NotifyDoes, MovesType
<1>16. CASE WriteFails(t)
  <2>1. /\ working' = durable /\ UNCHANGED <<durable, cached, home, confirms>> /\ torn' \in BOOLEAN
        /\ excuses' = [p \in Proposals |->
             IF req[t] = p /\ Unrecorded(t) THEN excuses[p] + 1 ELSE excuses[p]]
    BY <1>16, WriteFailsDoes
  <2>2. excuses' \in [Proposals -> Nat]
    BY <1>1, <2>1 DEF TablesOK
  <2>3. TablesOK' /\ Grown'
    BY <1>1, <2>1, <2>2 DEF TablesOK, Grown
  <2>4. QED
    BY <1>1, <1>3, <1>16, <2>1, <2>3, WriteFailsDoes, MovesType
<1>17. QED
  BY <1>4, <1>5, <1>6, <1>7, <1>8, <1>9, <1>10, <1>11, <1>12, <1>13, <1>14, <1>15, <1>16 DEF Serve

LEMMA TypeInductive == TypeInv /\ [Next]_vars => TypeInv'
<1> SUFFICES ASSUME TypeInv, [Next]_vars PROVE TypeInv'
  OBVIOUS
<1>1. CASE Restart
  <2>1. /\ LocalsOK'
        /\ \A t \in Threads : /\ pc'[t] = "idle" /\ req'[t] = None
                              /\ answer'[t] = "not_requested"
        /\ cached' = [p \in Proposals |-> None]
        /\ working' = durable /\ UNCHANGED <<durable, home, confirms, torn>>
        /\ excuses' = [p \in Proposals |->
             IF \E t \in Servers(p) : Unrecorded(t) THEN excuses[p] + 1 ELSE excuses[p]]
    BY <1>1, RestartDoes
  <2>2. TablesOK
    BY DEF TypeInv, TypeOK, TablesOK
  <2>3. excuses' \in [Proposals -> Nat] /\ cached' \in [Proposals -> Flag \union {None}]
    BY <2>1, <2>2 DEF TablesOK
  <2>4. TablesOK' /\ Grown'
    BY <2>1, <2>2, <2>3 DEF TablesOK, Grown
  <2>5. Serving'
    BY <2>1 DEF Serving, Planning, Confirming, Confirms
  <2>6. QED
    BY <2>1, <2>4, <2>5 DEF TypeInv, TypeOK, TablesOK, LocalsOK
<1>2. CASE UNCHANGED vars
  BY <1>2 DEF vars, connectionVars, threadVars, historyVars, TypeInv, TypeOK, Serving, Grown,
     Plans, Confirms
<1>3. QED
  BY <1>1, <1>2, TypeStep DEF Next

LEMMA TypeInit == Init => TypeInv
<1> SUFFICES ASSUME Init PROVE TypeInv
  OBVIOUS
<1>1. EmptyDatabase \in Database
  BY DEF EmptyDatabase, Database
<1>2. TablesOK
  <2>1. 0 \in 0 .. MaxConfirms /\ FALSE \in BOOLEAN
    BY RuntimeAssumption
  <2>2. [p \in Proposals |-> 0] \in [Proposals -> Nat]
    OBVIOUS
  <2>3. [p \in Proposals |-> None] \in [Proposals -> Flag \union {None}]
    OBVIOUS
  <2>4. QED
    BY <1>1, <2>1, <2>2, <2>3 DEF Init, TablesOK
<1>3. LocalsOK
  BY DEF Init, LocalsOK, Steps, Confirmations, Flag
<1>4. Serving /\ Grown
  BY DEF Init, Serving, Grown, Planning, Confirming, Confirms
<1>5. QED
  BY <1>2, <1>3, <1>4 DEF Init, TypeInv, TypeOK, TablesOK, LocalsOK

LEMMA TypeInvHolds == Spec => []TypeInv
BY TypeInit, TypeInductive, PTL DEF Spec

(* The tables, the dictionary and what every thread carries stay well      *)
(* formed: a confirmation always finds the trace it is about.              *)
THEOREM TypeCorrect == Spec => []TypeOK
<1>1. TypeInv => TypeOK
  BY DEF TypeInv
<1>2. QED
  BY <1>1, TypeInvHolds, PTL

-----------------------------------------------------------------------------
(* What is planned is billed before it is traced.                          *)

(* A thread goes on with what it has, ends it, or begins something: a plan *)
(* of what nobody else serves, or a confirmation of what has a trace.      *)
Begins(t, p, a) ==
  /\ pc[t] = "idle" /\ p \in Proposals
  /\ Servers(p) = {} \/ (a # "not_requested" /\ durable.traces[p] # None)

LEMMA ServeMoves ==
  ASSUME TypeInv, NEW t \in Threads, Serve(t)
  PROVE  \E step, p, a, o, x :
           /\ Moves(t, step, p, a, o, x)
           /\ \/ p = None
              \/ p = req[t] /\ a = answer[t] /\ pc[t] # "idle"
              \/ Begins(t, p, a)
<1> DEFINE Goes == \E step, p, a, o, x :
             /\ Moves(t, step, p, a, o, x)
             /\ \/ p = None
                \/ p = req[t] /\ a = answer[t] /\ pc[t] # "idle"
                \/ Begins(t, p, a)
<1>1. ASSUME NEW p \in Proposals, Submit(t, p) PROVE Goes
  BY <1>1, SubmitDoes DEF Begins
<1>2. ASSUME NEW p \in Proposals, NEW c \in {"approved", "rejected"}, ReadProposal(t, p, c)
      PROVE  Goes
  BY <1>2, ReadProposalDoes DEF Begins
<1>3. CASE RecordUsage(t)
  BY <1>3, RecordUsageDoes
<1>4. CASE RecordCost(t)
  BY <1>4, RecordCostDoes
<1>5. CASE PublishProposal(t)
  BY <1>5, PublishDoes
<1>6. CASE ReadTrace(t)
  BY <1>6, ReadTraceDoes
<1>7. CASE Decide(t)
  BY <1>7, DecideDoes
<1>8. CASE ExecuteTool(t)
  BY <1>8, ExecuteToolDoes
<1>9. CASE DumpTrace(t)
  BY <1>9, DumpTraceDoes
<1>10. CASE SaveTrace(t)
  BY <1>10, SaveTraceDoes
<1>11. CASE CommitWrite(t)
  BY <1>11, CommitWriteDoes
<1>12. CASE Notify(t) \/ WriteFails(t)
  BY <1>12, NotifyDoes, WriteFailsDoes
<1>13. QED
  BY <1>1, <1>2, <1>3, <1>4, <1>5, <1>6, <1>7, <1>8, <1>9, <1>10, <1>11, <1>12 DEF Serve

(* What the steps do to the tables.                                        *)
LEMMA TablesGrow ==
  ASSUME TypeInv, NEW t \in Threads, Serve(t)
  PROVE  /\ durable.usage \subseteq durable'.usage /\ durable.costs \subseteq durable'.costs
         /\ \/ WriteFails(t) /\ working' = durable
            \/ working.usage \subseteq working'.usage /\ working.costs \subseteq working'.costs
         /\ \A p \in Proposals :
              /\ durable'.traces[p] \in {durable.traces[p], working.traces[p]}
              /\ working'.traces[p] \in {durable.traces[p], working.traces[p]}
                   \/ (SaveTrace(t) /\ p = req[t])
         /\ torn => torn'
<1>1. Grown /\ working.traces \in [Proposals -> Trace \union {None}]
  BY DEF TypeInv, TypeOK, Database
<1>2. ASSUME NEW p \in Proposals, Submit(t, p)
      PROVE  UNCHANGED <<working, durable, torn>>
  BY <1>2, SubmitDoes DEF Steady
<1>3. ASSUME NEW p \in Proposals, NEW c \in {"approved", "rejected"}, ReadProposal(t, p, c)
      PROVE  UNCHANGED <<working, durable, torn>>
  BY <1>3, ReadProposalDoes
<1>4. CASE UNCHANGED <<working, durable, torn>>
  BY <1>4
<1>5. CASE RecordUsage(t) \/ RecordCost(t)
  BY <1>5, RecordUsageDoes, RecordCostDoes DEF Steady
<1>6. PublishProposal(t) \/ ReadTrace(t) \/ Decide(t) \/ ExecuteTool(t) \/ DumpTrace(t)
        => UNCHANGED <<working, durable, torn>>
  BY PublishDoes, ReadTraceDoes, DecideDoes, ExecuteToolDoes, DumpTraceDoes DEF Steady
<1>7. CASE SaveTrace(t)
  BY <1>1, <1>7, SaveTraceDoes DEF Steady
<1>8. CASE CommitWrite(t) \/ Notify(t)
  BY <1>1, <1>8, CommitWriteDoes, NotifyDoes DEF Steady, Grown
<1>9. CASE WriteFails(t)
  BY <1>9, WriteFailsDoes DEF WriteFails
<1>10. QED
  BY <1>2, <1>3, <1>4, <1>5, <1>6, <1>7, <1>8, <1>9 DEF Serve

Drafts(t) == pc[t] \in Planning \/ (pc[t] = "trace" /\ Plans(t))

(* Nobody else touches the rows of a proposal that is planned.             *)
LEMMA DraftAlone ==
  ASSUME TypeInv, NEW u \in Threads, req[u] # None, Planned(u), Drafts(u),
         NEW t \in Threads, req[t] = req[u]
  PROVE  t = u
BY DEF TypeInv, Serving, Planned, Drafts, Servers, Confirms

LEMMA OtherPlanned ==
  ASSUME TypeInv, Billed, ~torn, ~torn', NEW t \in Threads, Serve(t),
         NEW u \in Threads, u # t, req[u] # None
  PROVE  Planned(u)'
<1>1. /\ Planned(u) /\ req[u] \in Proposals
      /\ pc'[u] = pc[u] /\ req'[u] = req[u] /\ answer'[u] = answer[u] /\ trace'[u] = trace[u]
  BY ServeMoves, MovesTo, NoneAssumption DEF Billed, Alone, TypeInv, TypeOK
<1>2. Plans(u)' <=> Plans(u)
  BY <1>1 DEF Plans
<1>3. ASSUME Drafts(u)
      PROVE  durable'.traces[req[u]] = None /\ working'.traces[req[u]] = None
  <2>1. durable.traces[req[u]] = None /\ working.traces[req[u]] = None /\ req[t] # req[u]
    BY <1>1, <1>3, DraftAlone DEF Planned, Drafts
  <2>2. QED
    BY <1>1, <2>1, TablesGrow
<1>4. ASSUME Drafts(u) \/ (pc[u] = "trace_commit" /\ Plans(u)),
             NEW v \in Servers(req[u])' \ {u}
      PROVE  Confirms(v)'
  <2>1. \A w \in Servers(req[u]) \ {u} : Confirms(w)
    BY <1>1, <1>4 DEF Planned, Drafts
  <2>2. v \in Threads /\ req'[v] = req[u] /\ u \in Servers(req[u])
    BY <1>1, <1>4 DEF Servers
  <2>3. CASE v # t
    <3>1. req'[v] = req[v] /\ answer'[v] = answer[v]
      BY <2>2, <2>3, ServeMoves, MovesTo DEF Alone, TypeInv
    <3>2. QED
      BY <1>4, <2>1, <2>2, <3>1 DEF Servers, Confirms
  <2>4. CASE v = t
    <3>1. PICK p, a : /\ req'[t] = p /\ answer'[t] = a
                      /\ \/ p = None
                         \/ p = req[t] /\ a = answer[t] /\ pc[t] # "idle"
                         \/ Begins(t, p, a)
      BY ServeMoves, MovesTo DEF TypeInv
    <3>2. p = req[u] /\ p # None /\ Servers(p) # {}
      BY <2>2, <2>4, <3>1
    <3>3. CASE p = req[t] /\ a = answer[t] /\ pc[t] # "idle"
      <4>1. t \in Servers(req[u]) \ {u}
        BY <3>2, <3>3 DEF Servers
      <4>2. QED
        BY <2>1, <2>4, <3>1, <3>3, <4>1 DEF Confirms
    <3>4. CASE Begins(t, p, a)
      BY <2>4, <3>1, <3>2, <3>4 DEF Begins, Confirms
    <3>5. QED
      BY <3>1, <3>2, <3>3, <3>4
  <2>5. QED
    BY <2>3, <2>4
<1>5. /\ durable.usage \subseteq durable'.usage /\ durable.costs \subseteq durable'.costs
      /\ pc[u] \in Uncommitted =>
           working.usage \subseteq working'.usage /\ working.costs \subseteq working'.costs
  BY TablesGrow, WriteFailsDoes
<1>6. Uncommitted = {"usage_commit", "cost_commit", "trace_commit"}
  BY DEF Uncommitted
<1>7. /\ pc[u] = "usage_commit" => req[u] \in working'.usage
      /\ pc[u] \in {"cost", "cost_commit", "publish"} => req[u] \in durable'.usage
      /\ pc[u] = "cost_commit" => req[u] \in working'.costs
      /\ pc[u] = "publish" \/ (pc[u] = "trace" /\ Plans(u)) => BilledIn(durable', req[u])
  BY <1>1, <1>5, <1>6 DEF Planned, BilledIn
<1>8. QED
  BY <1>1, <1>2, <1>3, <1>4, <1>7 DEF Planned, BilledIn, Drafts

LEMMA OwnPlanned ==
  ASSUME TypeInv, Billed, ~torn, ~torn', NEW t \in Threads, Serve(t), req'[t] # None
  PROVE  Planned(t)'
<1>1. /\ Alone(t) /\ TypeOK
      /\ req[t] # None => Planned(t) /\ req[t] \in Proposals
  BY ServeMoves, MovesTo DEF Billed, TypeInv, TypeOK
<1>2. ASSUME req'[t] = req[t], answer'[t] = answer[t],
             Drafts(t) \/ (pc[t] = "trace_commit" /\ Plans(t)),
             NEW v \in Servers(req[t])' \ {t}
      PROVE  Confirms(v)'
  BY <1>1, <1>2 DEF Alone, Planned, Drafts, Servers, Confirms, Plans
<1>3. TablesOK /\ Grown
  BY DEF TypeInv, TypeOK, TablesOK
<1> USE DEF Planning
<1>4. ASSUME NEW p \in Proposals, Submit(t, p) PROVE Planned(t)'
  <2>1. /\ p \notin durable.usage /\ Servers(p) = {}
        /\ pc'[t] = "usage" /\ req'[t] = p
        /\ UNCHANGED <<working, durable>>
    BY <1>1, <1>4, SubmitDoes, MovesTo
  <2>2. working.traces[p] = None /\ durable.traces[p] = None
    BY <1>3, <2>1 DEF Billed, BilledIn, Grown
  <2>3. Servers(p)' \subseteq {t}
    BY <1>1, <2>1 DEF Servers, Alone
  <2>4. QED
    BY <2>1, <2>2, <2>3 DEF Planned
<1>5. ASSUME NEW p \in Proposals, NEW c \in {"approved", "rejected"}, ReadProposal(t, p, c)
      PROVE  Planned(t)'
  BY <1>1, <1>5, ReadProposalDoes, MovesTo DEF Planned, Plans
<1>6. CASE RecordUsage(t)
  <2>1. /\ pc[t] = "usage" /\ pc'[t] = "usage_commit" /\ req'[t] = req[t]
        /\ answer'[t] = answer[t] /\ durable' = durable
        /\ working'.usage = working.usage \union {req[t]}
        /\ working'.traces = working.traces
    BY <1>1, <1>6, RecordUsageDoes, MovesTo
  <2>2. durable.traces[req[t]] = None /\ working.traces[req[t]] = None
    BY <1>1, <2>1 DEF Planned, TypeInv, Serving, Plans
  <2>3. QED
    BY <1>2, <2>1, <2>2 DEF Planned, Drafts
<1>7. CASE RecordCost(t)
  <2>1. /\ pc[t] = "cost" /\ pc'[t] = "cost_commit" /\ req'[t] = req[t]
        /\ answer'[t] = answer[t] /\ durable' = durable
        /\ working'.costs = working.costs \union {req[t]}
        /\ working'.traces = working.traces
    BY <1>1, <1>7, RecordCostDoes, MovesTo
  <2>2. /\ durable.traces[req[t]] = None /\ working.traces[req[t]] = None
        /\ req[t] \in durable.usage
    BY <1>1, <2>1 DEF Planned, TypeInv, Serving, Plans
  <2>3. QED
    BY <1>2, <2>1, <2>2 DEF Planned, Drafts
<1>8. CASE PublishProposal(t)
  <2>1. /\ pc[t] = "publish" /\ pc'[t] = "trace" /\ req'[t] = req[t]
        /\ answer'[t] = answer[t] /\ UNCHANGED <<working, durable>>
    BY <1>1, <1>8, PublishDoes, MovesTo
  <2>2. /\ durable.traces[req[t]] = None /\ working.traces[req[t]] = None
        /\ BilledIn(durable, req[t])
    BY <1>1, <2>1 DEF Planned, TypeInv, Serving, Plans
  <2>3. QED
    BY <1>2, <2>1, <2>2 DEF Planned, Drafts, BilledIn
<1>9. CASE ReadTrace(t) \/ Decide(t) \/ ExecuteTool(t)
  <2>1. pc'[t] \in {"evaluate", "execute", "dump"}
    BY <1>1, <1>9, ReadTraceDoes, DecideDoes, ExecuteToolDoes, MovesTo
  <2>2. QED
    BY <2>1 DEF Planned
<1>10. CASE DumpTrace(t)
  <2>1. pc[t] = "dump" /\ pc'[t] = "trace" /\ answer'[t] = answer[t]
    BY <1>1, <1>10, DumpTraceDoes, MovesTo
  <2>2. answer'[t] # "not_requested"
    BY <2>1 DEF TypeInv, Serving, Confirming, Confirms
  <2>3. QED
    BY <2>1, <2>2 DEF Planned, Plans
<1>11. CASE SaveTrace(t)
  <2>1. pc[t] = "trace" /\ Moves(t, "trace_commit", req[t], answer[t], own[t], trace[t])
    BY <1>11, SaveTraceDoes
  <2>2. pc'[t] = "trace_commit" /\ req'[t] = req[t] /\ answer'[t] = answer[t]
    BY <1>1, <2>1, MovesTo
  <2>3. QED
    BY <1>2, <2>1, <2>2 DEF Planned, Drafts, Plans
<1>12. CASE CommitWrite(t)
  <2>1. /\ req'[t] = req[t] /\ answer'[t] = answer[t] /\ durable' = working /\ working' = working
        /\ \/ pc[t] = "usage_commit" /\ pc'[t] = "cost"
           \/ pc[t] = "cost_commit" /\ pc'[t] = "publish"
           \/ pc[t] = "trace_commit" /\ pc'[t] = "notify"
    BY <1>1, <1>12, CommitWriteDoes, MovesTo
  <2>2. CASE pc[t] = "usage_commit" /\ pc'[t] = "cost"
    <3>1. working.traces[req[t]] = None /\ req[t] \in working.usage
      BY <1>1, <2>1, <2>2 DEF Planned
    <3>2. QED
      BY <1>2, <2>1, <2>2, <3>1 DEF Planned, Drafts
  <2>3. CASE pc[t] = "cost_commit" /\ pc'[t] = "publish"
    <3>1. working.traces[req[t]] = None /\ req[t] \in working.usage /\ req[t] \in working.costs
      BY <1>1, <1>3, <2>1, <2>3 DEF Planned, Grown
    <3>2. QED
      BY <1>2, <2>1, <2>3, <3>1 DEF Planned, Drafts, BilledIn
  <2>4. CASE pc[t] = "trace_commit" /\ pc'[t] = "notify"
    BY <2>4 DEF Planned
  <2>5. QED
    BY <2>1, <2>2, <2>3, <2>4
<1>13. ~Notify(t) /\ ~WriteFails(t)
  BY <1>1, NotifyDoes, WriteFailsDoes, MovesTo
<1>14. QED
  BY <1>4, <1>5, <1>6, <1>7, <1>8, <1>9, <1>10, <1>11, <1>12, <1>13 DEF Serve

LEMMA BilledInductive == TypeInv /\ Billed /\ [Next]_vars => Billed'
<1> SUFFICES ASSUME TypeInv, Billed, [Next]_vars, ~torn' PROVE Billed'
  BY DEF Billed
<1>1. Grown
  BY DEF TypeInv
<1>2. CASE Restart
  <2>1. /\ \A u \in Threads : req'[u] = None
        /\ working' = durable /\ UNCHANGED <<durable, torn>>
    BY <1>2, RestartDoes
  <2>2. QED
    BY <1>1, <2>1 DEF Billed, Grown
<1>3. CASE UNCHANGED vars
  BY <1>3 DEF vars, connectionVars, threadVars, historyVars, Billed, Planned, Servers, Plans, Confirms
<1>4. ASSUME NEW t \in Threads, Serve(t) PROVE Billed'
  <2>1. ~torn
    BY <1>4, TablesGrow
  <2>2. ASSUME NEW p \in Proposals, working'.traces[p] # None PROVE BilledIn(durable', p)
    <3>1. BilledIn(durable, p)
      <4>1. CASE working.traces[p] # None
        BY <2>1, <4>1 DEF Billed
      <4>2. CASE SaveTrace(t) /\ p = req[t]
        <5>1. pc[t] = "trace" /\ req[t] # None
          BY <4>2, SaveTraceDoes, NoneAssumption
        <5>2. CASE Plans(t)
          BY <2>1, <4>2, <5>1, <5>2 DEF Billed, Planned
        <5>3. CASE Confirms(t)
          <6>1. working.traces[p] # None
            BY <1>1, <4>2, <5>3 DEF TypeInv, Serving, Grown
          <6>2. QED
            BY <2>1, <6>1 DEF Billed
        <5>4. QED
          BY <5>1, <5>2, <5>3 DEF Plans, Confirms
      <4>3. QED
        BY <1>1, <1>4, <2>2, <4>1, <4>2, TablesGrow DEF Grown
    <3>2. QED
      BY <1>4, <3>1, TablesGrow DEF BilledIn
  <2>3. ASSUME NEW u \in Threads, req'[u] # None PROVE Planned(u)'
    <3>1. CASE u = t
      BY <1>4, <2>1, <2>3, <3>1, OwnPlanned
    <3>2. CASE u # t
      <4>1. req[u] # None
        BY <1>4, <2>3, <3>2, ServeMoves, MovesTo DEF Alone, TypeInv
      <4>2. QED
        BY <1>4, <2>1, <3>2, <4>1, OtherPlanned
    <3>3. QED
      BY <3>1, <3>2
  <2>4. QED
    BY <2>2, <2>3 DEF Billed, BilledIn
<1>5. QED
  BY <1>2, <1>3, <1>4 DEF Next

LEMMA BilledHolds == Spec => []Billed
<1>1. Init => Billed
  BY DEF Init, Billed, EmptyDatabase
<1>2. QED
  BY <1>1, TypeInvHolds, BilledInductive, PTL DEF Spec

-----------------------------------------------------------------------------
(* The truth about a proposal that one thread serves, and that none serves. *)
Told(p, saved) ==
  /\ cached[p] # None => (cached[p] = "executed" <=> Acted(p))
  /\ Consistent(working.traces[p]) /\ Consistent(saved)
  /\ SaysExecuted(saved) => Acted(p)

One(t) ==
  /\ Told(req[t], durable.traces[req[t]])
  /\ Acted(req[t]) => SaysExecuted(durable.traces[req[t]]) \/ Unrecorded(t)
  /\ working.traces[req[t]] = durable.traces[req[t]] \/ pc[t] = "trace_commit"
  /\ TellsTruth(t)

LEMMA ServedTruth ==
  ASSUME NEW p \in Proposals, TruthOf(p), NEW t \in Threads, req[t] = p
  PROVE  One(t) /\ \A u \in Servers(p) : u = t
BY DEF TruthOf, One, Told, Servers

LEMMA UnservedTruth ==
  ASSUME NEW p \in Proposals, TruthOf(p), Servers(p) = {}
  PROVE  /\ Told(p, durable.traces[p]) /\ working.traces[p] = durable.traces[p]
         /\ Acted(p) <=> SaysExecuted(durable.traces[p])
BY DEF TruthOf, Told

LEMMA TruthServed ==
  ASSUME NEW p \in Proposals, NEW t \in Threads, req'[t] = p,
         \A u \in Threads : req'[u] = p => u = t, One(t)'
  PROVE  TruthOf(p)'
BY DEF TruthOf, One, Told, Servers

LEMMA TruthUnserved ==
  ASSUME NEW p \in Proposals, \A u \in Threads : req'[u] # p,
         Told(p, durable.traces[p])', (working.traces[p] = durable.traces[p])',
         Acted(p)' => SaysExecuted(durable.traces[p])'
  PROVE  TruthOf(p)'
BY DEF TruthOf, Told, Servers

(* A step of a thread that has to do with another proposal.                *)
LEMMA TruthElsewhere ==
  ASSUME NEW p \in Proposals, TruthOf(p),
         \A u \in Threads : req'[u] = p <=> req[u] = p,
         \A u \in Servers(p) : /\ pc'[u] = pc[u] /\ answer'[u] = answer[u]
                               /\ own'[u] = own[u] /\ trace'[u] = trace[u],
         cached'[p] = cached[p], home'[p] = home[p],
         durable'.traces[p] \in {durable.traces[p], working.traces[p]},
         working'.traces[p] = working.traces[p]
  PROVE  TruthOf(p)'
<1>1. ASSUME NEW t \in Threads, req[t] = p
      PROVE  TruthOf(p)'
  <2>1. One(t) /\ \A u \in Threads : req[u] = p => u = t
    BY <1>1, ServedTruth DEF Servers
  <2>2. /\ req'[t] = p /\ \A u \in Threads : req'[u] = p => u = t
        /\ pc'[t] = pc[t] /\ answer'[t] = answer[t]
        /\ own'[t] = own[t] /\ trace'[t] = trace[t]
    BY <1>1, <2>1 DEF Servers
  <2>3. /\ Unrecorded(t)' <=> Unrecorded(t)
        /\ Acted(p)' <=> Acted(p)
        /\ Plans(t)' <=> Plans(t)
        /\ Confirms(t)' <=> Confirms(t)
    BY <1>1, <2>2 DEF Unrecorded, Acted, Plans, Confirms
  <2>4. /\ Consistent(durable'.traces[p]) /\ Consistent(working'.traces[p])
        /\ SaysExecuted(durable'.traces[p]) => Acted(p)
        /\ Acted(p) => SaysExecuted(durable'.traces[p]) \/ Unrecorded(t)
        /\ working'.traces[p] = durable'.traces[p] \/ pc[t] = "trace_commit"
    BY <1>1, <2>1 DEF One, Told, TellsTruth
  <2>5. TellsTruth(t)'
    BY <1>1, <2>1, <2>2, <2>3 DEF One, TellsTruth
  <2>6. One(t)'
    BY <1>1, <2>1, <2>2, <2>3, <2>4, <2>5 DEF One, Told
  <2>7. QED
    BY <2>2, <2>6, TruthServed
<1>2. CASE Servers(p) = {}
  <2>1. /\ Told(p, durable.traces[p]) /\ working.traces[p] = durable.traces[p]
        /\ Acted(p) <=> SaysExecuted(durable.traces[p])
    BY <1>2, UnservedTruth
  <2>2. \A u \in Threads : req'[u] # p
    BY <1>2 DEF Servers
  <2>3. (working.traces[p] = durable.traces[p])' /\ durable'.traces[p] = durable.traces[p]
    BY <2>1
  <2>4. Acted(p)' <=> Acted(p)
    BY DEF Acted
  <2>5. Told(p, durable.traces[p])'
    BY <2>1, <2>3, <2>4 DEF Told
  <2>6. QED
    BY <2>1, <2>2, <2>3, <2>4, <2>5, TruthUnserved
<1>3. QED
  BY <1>1, <1>2 DEF Servers

LEMMA RestartTruth ==
  ASSUME TypeInv, Restart, NEW p \in Proposals, TruthOf(p), Quiet(p)'
  PROVE  TruthOf(p)'
<1>1. /\ \A t \in Threads : req'[t] = None
      /\ cached'[p] = None
      /\ working' = durable /\ UNCHANGED <<durable, home>>
      /\ excuses'[p] = IF \E t \in Servers(p) : Unrecorded(t) THEN excuses[p] + 1 ELSE excuses[p]
  BY RestartDoes
<1>2. excuses[p] \in Nat /\ excuses'[p] = 0
  BY DEF TypeInv, TypeOK, Quiet
<1>3. ~\E t \in Servers(p) : Unrecorded(t)
  BY <1>1, <1>2
<1>4. Acted(p) => SaysExecuted(durable.traces[p])
  BY <1>3 DEF TruthOf
<1>5. /\ Acted(p)' <=> Acted(p)
      /\ \A u \in Threads : req'[u] # p
      /\ (working.traces[p] = durable.traces[p])'
  BY <1>1, NoneAssumption DEF Acted
<1>6. Told(p, durable.traces[p])'
  BY <1>1, <1>5 DEF TruthOf, Told
<1>7. QED
  BY <1>1, <1>4, <1>5, <1>6, TruthUnserved

(* What a quiet proposal was before the step: as quiet, and as it was.     *)
LEMMA QuietBefore ==
  ASSUME TypeInv, NEW p \in Proposals, [Next]_vars, Quiet(p)'
  PROVE  Quiet(p) /\ excuses'[p] = excuses[p]
<1>1. excuses[p] \in Nat /\ excuses \in [Proposals -> Nat] /\ torn \in BOOLEAN
  BY DEF TypeInv, TypeOK
<1>2. CASE Restart
  BY <1>1, <1>2, RestartDoes DEF Quiet
<1>3. ASSUME NEW t \in Threads, Serve(t) PROVE excuses[p] <= excuses'[p] /\ (torn => torn')
  <2>1. ASSUME NEW q \in Proposals, Submit(t, q) PROVE excuses' = excuses
    BY <2>1, SubmitDoes DEF Steady
  <2>2. ASSUME NEW q \in Proposals, NEW c \in {"approved", "rejected"}, ReadProposal(t, q, c)
        PROVE  excuses[p] <= excuses'[p]
    BY <1>1, <2>2, ReadProposalDoes
  <2>3. CASE WriteFails(t)
    BY <1>1, <2>3, WriteFailsDoes
  <2>4. RecordUsage(t) \/ RecordCost(t) \/ PublishProposal(t) \/ ReadTrace(t) \/ Decide(t)
          \/ ExecuteTool(t) \/ DumpTrace(t) \/ SaveTrace(t) \/ CommitWrite(t) \/ Notify(t)
        => excuses' = excuses
    BY RecordUsageDoes, RecordCostDoes, PublishDoes, ReadTraceDoes, DecideDoes, ExecuteToolDoes,
       DumpTraceDoes, SaveTraceDoes, CommitWriteDoes, NotifyDoes DEF Steady
  <2>5. excuses[p] <= excuses'[p]
    BY <1>1, <1>3, <2>1, <2>2, <2>3, <2>4 DEF Serve
  <2>6. QED
    BY <1>3, <2>5, TablesGrow
<1>4. CASE UNCHANGED vars
  BY <1>4 DEF vars, historyVars, Quiet
<1>5. QED
  BY <1>1, <1>2, <1>3, <1>4 DEF Next, Quiet

(* A thread begins: nobody else serves the proposal.                       *)
LEMMA BeginTruth ==
  ASSUME TypeInv, Billed, NEW t \in Threads, NEW p \in Proposals, TruthOf(p), Quiet(p), Quiet(p)',
         \/ Submit(t, p)
         \/ \E c \in {"approved", "rejected"} : ReadProposal(t, p, c)
  PROVE  TruthOf(p)'
<1>1. TypeOK /\ excuses[p] = 0 /\ excuses'[p] = 0 /\ ~torn
  BY DEF TypeInv, Quiet
<1>2. CASE Submit(t, p)
  <2>1. /\ cached[p] = None /\ p \notin durable.usage /\ Servers(p) = {}
        /\ Moves(t, "usage", p, "not_requested", own[t], trace[t])
        /\ UNCHANGED <<working, durable, cached, home>>
    BY <1>2, SubmitDoes DEF Steady
  <2>2. /\ pc'[t] = "usage" /\ req'[t] = p /\ answer'[t] = "not_requested" /\ Alone(t)
    BY <1>1, <2>1, MovesTo
  <2>3. /\ Told(p, durable.traces[p]) /\ working.traces[p] = durable.traces[p]
        /\ Acted(p) <=> SaysExecuted(durable.traces[p])
    BY <2>1, UnservedTruth
  <2>4. working.traces[p] = None
    BY <1>1, <2>1 DEF Billed, BilledIn
  <2>5. ~Acted(p) /\ ~Acted(p)'
    BY <2>1, <2>3, <2>4 DEF SaysExecuted, Acted
  <2>6. TellsTruth(t)'
    BY <2>2, <2>5 DEF TellsTruth, Confirms
  <2>7. One(t)'
    BY <2>1, <2>2, <2>3, <2>5, <2>6 DEF One, Told
  <2>8. \A u \in Threads : req'[u] = p => u = t
    BY <2>1, <2>2 DEF Alone, Servers
  <2>9. QED
    BY <2>2, <2>7, <2>8, TruthServed
<1>3. ASSUME NEW c \in {"approved", "rejected"}, ReadProposal(t, p, c) PROVE TruthOf(p)'
  <2>1. /\ durable.traces[p] # None /\ working.traces[p] \in Trace
        /\ Moves(t, "read", p, c, working.traces[p].flag, trace[t])
        /\ excuses' = [excuses EXCEPT ![p] = IF Servers(p) # {} THEN @ + 1 ELSE @]
        /\ UNCHANGED <<working, durable, cached, home, torn>>
    BY <1>3, ReadProposalDoes
  <2>2. Servers(p) = {}
    BY <1>1, <2>1 DEF TypeOK
  <2>3. /\ pc'[t] = "read" /\ req'[t] = p /\ answer'[t] = c /\ own'[t] = working.traces[p].flag
        /\ Alone(t)
    BY <1>1, <2>1, MovesTo
  <2>4. /\ Told(p, durable.traces[p]) /\ working.traces[p] = durable.traces[p]
        /\ Acted(p) <=> SaysExecuted(durable.traces[p])
    BY <2>2, UnservedTruth
  <2>5. Acted(p)' <=> Acted(p)
    BY <2>1 DEF Acted
  <2>6. own'[t] = "executed" <=> Acted(p)
    BY <2>1, <2>3, <2>4 DEF SaysExecuted
  <2>7. TellsTruth(t)'
    BY <2>3, <2>5, <2>6 DEF TellsTruth, Plans
  <2>8. One(t)'
    BY <2>1, <2>3, <2>4, <2>5, <2>7 DEF One, Told
  <2>9. \A u \in Threads : req'[u] = p => u = t
    BY <2>2, <2>3 DEF Alone, Servers
  <2>10. QED
    BY <2>3, <2>8, <2>9, TruthServed
<1>4. QED
  BY <1>2, <1>3

(* A thread that has to do with the proposal goes on with it.              *)
LEMMA OwnTruth ==
  ASSUME TypeInv, NEW t \in Threads, Serve(t), NEW p \in Proposals,
         pc[t] # "idle", req[t] = p, req'[t] = p,
         TruthOf(p), \A u \in Servers(p) : u = t
  PROVE  TruthOf(p)'
<1>1. p = req[t]
  OBVIOUS
<1>2. /\ TypeOK /\ One(t) /\ p # None
      /\ home[p] \in Nat /\ cached[p] \in Flag \union {None} /\ cached \in [Proposals -> Flag \union {None}]
      /\ home \in [Proposals -> Nat]
      /\ pc[t] \in Planning => Plans(t)
      /\ pc[t] \in Confirming => Confirms(t)
      /\ Plans(t) <=> ~Confirms(t)
      /\ pc[t] = "execute" => trace[t].decision = "allow" /\ trace[t].kind = "tool"
      /\ pc[t] \in {"evaluate", "execute", "dump", "trace", "trace_commit"} => trace[t] \in Trace
      /\ Confirms(t) => working.traces[p] \in Trace /\ durable.traces[p] \in Trace
  BY <1>1, ServedTruth, Facts DEF TypeInv, TypeOK, Serving, Plans, Confirms
<1>3. /\ TellsTruth(t) /\ Told(p, durable.traces[p])
      /\ Acted(p) => SaysExecuted(durable.traces[p]) \/ Unrecorded(t)
      /\ working.traces[p] = durable.traces[p] \/ pc[t] = "trace_commit"
  BY <1>1, <1>2 DEF One
<1>4. ASSUME One(t)' PROVE TruthOf(p)'
  <2>1. \A u \in Threads : req'[u] = p => u = t
    BY <1>1, ServeMoves, MovesTo DEF Servers, Alone, TypeInv
  <2>2. QED
    BY <1>1, <1>4, <2>1, TruthServed
<1>5. ASSUME NEW step, NEW a, NEW o, NEW x, Moves(t, step, p, a, o, x)
      PROVE  pc'[t] = step /\ req'[t] = p /\ answer'[t] = a /\ own'[t] = o /\ trace'[t] = x
  BY <1>2, <1>5, MovesTo
<1> USE DEF Planning, Confirming
<1>6. CASE RecordUsage(t) \/ RecordCost(t)
  <2>1. /\ pc[t] \in {"usage", "cost"} /\ pc'[t] \in {"usage_commit", "cost_commit"}
        /\ answer'[t] = answer[t] /\ working'.traces = working.traces
        /\ UNCHANGED <<durable, cached, home>>
    BY <1>1, <1>5, <1>6, RecordUsageDoes, RecordCostDoes DEF Steady
  <2>2. Plans(t) /\ ~Acted(p) /\ (Acted(p)' <=> Acted(p)) /\ Plans(t)' /\ ~Confirms(t)'
    BY <1>1, <1>2, <1>3, <2>1 DEF TellsTruth, Acted, Plans, Confirms
  <2>3. One(t)'
    BY <1>1, <1>3, <2>1, <2>2 DEF One, Told, TellsTruth
  <2>4. QED
    BY <1>1, <1>4, <2>3
<1>7. CASE PublishProposal(t)
  <2>1. pc[t] = "publish" /\ cached' = [cached EXCEPT ![p] = "pending"]
        /\ UNCHANGED <<working, durable, home>>
    BY <1>1, <1>7, PublishDoes DEF Steady
  <2>2. PICK x \in Trace : /\ Moves(t, "trace", p, answer[t], own[t], x)
                           /\ x.flag = "pending" /\ x.result = "none"
    BY <1>1, <1>7, PublishDoes
  <2>3. pc'[t] = "trace" /\ answer'[t] = answer[t] /\ trace'[t] = x
    BY <1>5, <2>2
  <2>4. Plans(t) /\ ~Acted(p) /\ (Acted(p)' <=> Acted(p)) /\ Plans(t)' /\ ~Confirms(t)'
    BY <1>1, <1>2, <1>3, <2>1, <2>3 DEF TellsTruth, Acted, Plans, Confirms
  <2>5. cached'[p] = "pending" /\ Consistent(x) /\ ~SaysExecuted(x)
    BY <1>2, <2>1, <2>2 DEF Consistent, SaysExecuted
  <2>6. One(t)'
    BY <1>1, <1>3, <2>1, <2>3, <2>4, <2>5 DEF One, Told, TellsTruth
  <2>7. QED
    BY <1>1, <1>4, <2>6
<1>8. CASE ReadTrace(t)
  <2>1. /\ pc[t] = "read" /\ pc'[t] = "evaluate" /\ answer'[t] = answer[t] /\ own'[t] = own[t]
        /\ trace'[t] = working.traces[p]
        /\ UNCHANGED <<working, durable, cached, home>>
    BY <1>1, <1>5, <1>8, ReadTraceDoes DEF Steady
  <2>2. Confirms(t) /\ (Acted(p)' <=> Acted(p)) /\ ~Plans(t)' /\ ~Unrecorded(t)
    BY <1>1, <1>2, <2>1 DEF Acted, Plans, Confirms, Unrecorded
  <2>3. /\ Consistent(working.traces[p])
        /\ SaysExecuted(working.traces[p]) <=> Acted(p)
        /\ own[t] = "executed" <=> Acted(p)
    BY <1>1, <1>3, <2>1, <2>2 DEF Told, TellsTruth
  <2>4. One(t)'
    BY <1>1, <1>3, <2>1, <2>2, <2>3 DEF One, Told, TellsTruth
  <2>5. QED
    BY <1>1, <1>4, <2>4
<1>9. CASE Decide(t)
  <2>1. pc[t] = "evaluate" /\ UNCHANGED <<working, durable, cached, home>>
    BY <1>9, DecideDoes DEF Steady
  <2>2. PICK x \in Trace :
          /\ x.kind = trace[t].kind /\ x.flag = trace[t].flag /\ x.result = trace[t].result
          /\ \/ FlagOf(t) = "pending" /\ Moves(t, "execute", p, answer[t], own[t], x)
             \/ Moves(t, "dump", p, answer[t], own[t], x)
    BY <1>1, <1>9, DecideDoes
  <2>3. /\ pc'[t] \in {"execute", "dump"} /\ (pc'[t] = "execute" => FlagOf(t) = "pending")
        /\ answer'[t] = answer[t] /\ own'[t] = own[t] /\ trace'[t] = x
    BY <1>5, <2>2
  <2>4. /\ Confirms(t) /\ (Acted(p)' <=> Acted(p)) /\ ~Plans(t)' /\ ~Unrecorded(t)
        /\ trace[t] \in Trace /\ trace[t] # None
    BY <1>1, <1>2, <2>1, <2>3, NoneAssumption DEF Acted, Plans, Confirms, Unrecorded
  <2>5. /\ Consistent(trace[t]) /\ (SaysExecuted(trace[t]) <=> Acted(p))
        /\ own[t] = "executed" <=> Acted(p)
        /\ SaysExecuted(durable.traces[p]) <=> Acted(p)
    BY <1>1, <1>3, <2>1, <2>4 DEF Told, TellsTruth
  <2>6. FlagOf(t) = "pending" => ~Acted(p)
    BY <1>1, <1>3, <2>5 DEF FlagOf, Told
  <2>7. /\ Consistent(x) /\ (SaysExecuted(x) <=> Acted(p))
        /\ x.result = "success" <=> Acted(p)
        /\ Acted(p) => x.kind = "tool"
    BY <2>2, <2>4, <2>5, NoneAssumption DEF Consistent, SaysExecuted
  <2>8. One(t)'
    BY <1>1, <1>3, <2>1, <2>3, <2>4, <2>5, <2>6, <2>7 DEF One, Told, TellsTruth
  <2>9. QED
    BY <1>1, <1>4, <2>8
<1>10. CASE ExecuteTool(t)
  <2>1. pc[t] = "execute" /\ UNCHANGED <<working, durable>>
    BY <1>10, ExecuteToolDoes
  <2>2. PICK x \in Trace, flag \in Flag :
          /\ x.kind = trace[t].kind /\ x.decision = trace[t].decision
          /\ flag = "executed" <=> x.result = "success"
          /\ home' = [home EXCEPT ![p] = IF flag = "executed" THEN @ + 1 ELSE @]
          /\ cached' = [cached EXCEPT ![p] = IF @ = None THEN None ELSE flag]
          /\ Moves(t, "dump", p, answer[t], flag, x)
    BY <1>1, <1>10, ExecuteToolDoes
  <2>3. pc'[t] = "dump" /\ answer'[t] = answer[t] /\ own'[t] = flag /\ trace'[t] = x
    BY <1>5, <2>2
  <2>4. ~Acted(p) /\ Confirms(t) /\ ~Plans(t)'
    BY <1>1, <1>2, <1>3, <2>1, <2>3 DEF TellsTruth, Plans, Confirms
  <2>5. Acted(p)' <=> flag = "executed"
    <3>1. home[p] = 0
      BY <1>2, <2>4 DEF Acted
    <3>2. CASE flag = "executed"
      BY <1>2, <2>2, <3>1, <3>2 DEF Acted
    <3>3. CASE flag # "executed"
      BY <1>2, <2>2, <3>1, <3>3 DEF Acted
    <3>4. QED
      BY <3>2, <3>3
  <2>6. cached'[p] # None => cached'[p] = flag
    BY <1>2, <2>2
  <2>7. x.kind = "tool" /\ (Acted(p)' => Unrecorded(t)')
    BY <1>2, <2>1, <2>2, <2>3, <2>5 DEF Unrecorded
  <2>8. /\ Consistent(working.traces[p]) /\ Consistent(durable.traces[p])
        /\ ~SaysExecuted(durable.traces[p])
        /\ working.traces[p] = durable.traces[p]
    BY <1>3, <2>1, <2>4 DEF Told
  <2>9. One(t)'
    BY <1>1, <2>1, <2>2, <2>3, <2>4, <2>5, <2>6, <2>7, <2>8 DEF One, Told, TellsTruth
  <2>10. QED
    BY <1>1, <1>4, <2>9
<1>11. CASE DumpTrace(t)
  <2>1. pc[t] = "dump" /\ UNCHANGED <<working, durable, cached, home>>
    BY <1>11, DumpTraceDoes DEF Steady
  <2>2. PICK x \in Trace :
          /\ x.kind = trace[t].kind /\ x.flag = FlagOf(t)
          /\ x.decision = trace[t].decision /\ x.result = trace[t].result
          /\ Moves(t, "trace", p, answer[t], own[t], x)
    BY <1>1, <1>11, DumpTraceDoes
  <2>3. pc'[t] = "trace" /\ answer'[t] = answer[t] /\ own'[t] = own[t] /\ trace'[t] = x
    BY <1>5, <2>2
  <2>4. /\ Confirms(t) /\ (Acted(p)' <=> Acted(p)) /\ ~Plans(t)'
        /\ Unrecorded(t)' <=> Unrecorded(t)
        /\ x # None
    BY <1>1, <1>2, <2>1, <2>2, <2>3, NoneAssumption DEF Acted, Plans, Confirms, Unrecorded
  <2>5. /\ trace[t].result = "success" <=> Acted(p)
        /\ Acted(p) => trace[t].kind = "tool"
        /\ own[t] = "executed" <=> Acted(p)
    BY <1>1, <1>3, <2>1, <2>4 DEF TellsTruth
  <2>6. FlagOf(t) = "executed" <=> Acted(p)
    BY <1>1, <1>3, <2>5 DEF FlagOf, Told
  <2>7. Consistent(x) /\ (SaysExecuted(x) <=> Acted(p))
    BY <2>2, <2>4, <2>5, <2>6 DEF Consistent, SaysExecuted
  <2>8. One(t)'
    BY <1>1, <1>3, <2>1, <2>3, <2>4, <2>5, <2>7 DEF One, Told, TellsTruth
  <2>9. QED
    BY <1>1, <1>4, <2>8
<1>12. CASE SaveTrace(t)
  <2>1. /\ pc[t] = "trace" /\ pc'[t] = "trace_commit"
        /\ answer'[t] = answer[t] /\ own'[t] = own[t] /\ trace'[t] = trace[t]
        /\ working'.traces = [working.traces EXCEPT ![p] = trace[t]]
        /\ UNCHANGED <<durable, cached, home>>
    BY <1>1, <1>5, <1>12, SaveTraceDoes DEF Steady
  <2>2. working'.traces[p] = trace[t]
    BY <2>1 DEF TypeInv, TypeOK, Database
  <2>3. /\ Acted(p)' <=> Acted(p)
        /\ Plans(t)' <=> Plans(t)
        /\ Confirms(t)' <=> Confirms(t)
        /\ Unrecorded(t)' <=> Unrecorded(t)
    BY <1>1, <2>1 DEF Acted, Plans, Confirms, Unrecorded
  <2>4. Consistent(trace[t]) /\ (SaysExecuted(trace[t]) <=> Acted(p))
    BY <1>1, <1>3, <2>1 DEF TellsTruth
  <2>5. TellsTruth(t)'
    BY <1>1, <1>3, <2>1, <2>2, <2>3, <2>4 DEF TellsTruth
  <2>6. One(t)'
    BY <1>1, <1>3, <2>1, <2>2, <2>3, <2>4, <2>5 DEF One, Told
  <2>7. QED
    BY <1>1, <1>4, <2>6
<1>13. CASE CommitWrite(t)
  <2>1. /\ pc[t] \in {"usage_commit", "cost_commit", "trace_commit"}
        /\ pc'[t] \in {"cost", "publish", "notify"}
        /\ answer'[t] = answer[t] /\ own'[t] = own[t] /\ trace'[t] = trace[t]
        /\ durable' = working /\ UNCHANGED <<working, cached, home>>
    BY <1>1, <1>5, <1>13, CommitWriteDoes DEF Steady
  <2>2. /\ Acted(p)' <=> Acted(p)
        /\ Plans(t)' <=> Plans(t)
        /\ Confirms(t)' <=> Confirms(t)
    BY <1>1, <2>1 DEF Acted, Plans, Confirms
  <2>3. SaysExecuted(working.traces[p]) <=> Acted(p)
    <3>1. CASE pc[t] \in {"usage_commit", "cost_commit"}
      <4>1. ~Acted(p) /\ working.traces[p] = durable.traces[p]
        BY <1>1, <1>2, <1>3, <3>1 DEF TellsTruth
      <4>2. QED
        BY <1>3, <4>1 DEF Told
    <3>2. CASE pc[t] = "trace_commit"
      BY <1>1, <1>3, <3>2 DEF TellsTruth
    <3>3. QED
      BY <2>1, <3>1, <3>2
  <2>4. TellsTruth(t)'
    BY <1>1, <1>3, <2>1, <2>2 DEF TellsTruth
  <2>5. One(t)'
    BY <1>1, <1>3, <2>1, <2>2, <2>3, <2>4 DEF One, Told
  <2>6. QED
    BY <1>1, <1>4, <2>5
<1>14. ~Notify(t) /\ ~WriteFails(t)
  BY <1>1, <1>2, NotifyDoes, WriteFailsDoes, MovesTo
<1>15. (\A q \in Proposals : ~Submit(t, q))
       /\ \A q \in Proposals, c \in {"approved", "rejected"} : ~ReadProposal(t, q, c)
  BY SubmitDoes, ReadProposalDoes
<1>16. QED
  BY <1>1, <1>6, <1>7, <1>8, <1>9, <1>10, <1>11, <1>12, <1>13, <1>14, <1>15 DEF Serve

(* A thread is through with the proposal, told or not.                     *)
LEMMA EndTruth ==
  ASSUME TypeInv, NEW t \in Threads, Notify(t) \/ WriteFails(t),
         NEW p \in Proposals, req[t] = p, TruthOf(p), excuses'[p] = excuses[p],
         \A u \in Servers(p) : u = t
  PROVE  TruthOf(p)'
<1>1. p = req[t]
  OBVIOUS
<1>2. TypeOK /\ One(t) /\ excuses[p] \in Nat
  BY <1>1, ServedTruth DEF TypeInv, TypeOK
<1>3. /\ Moves(t, "idle", None, "not_requested", "pending", None)
      /\ UNCHANGED <<cached, home>>
  BY NotifyDoes, WriteFailsDoes DEF Steady
<1>4. \A u \in Threads : req'[u] # p
  BY <1>1, <1>2, <1>3, MovesTo, NoneAssumption DEF Alone, Servers
<1>5. ~Unrecorded(t) /\ durable'.traces[p] = durable.traces[p] /\ working'.traces[p] = durable.traces[p]
  <2>1. CASE Notify(t)
    <3>1. pc[t] = "notify" /\ durable' = working /\ UNCHANGED working
      BY <2>1, NotifyDoes
    <3>2. QED
      BY <1>1, <1>2, <3>1 DEF One, Unrecorded
  <2>2. CASE WriteFails(t)
    <3>1. /\ working' = durable /\ UNCHANGED durable
          /\ excuses' = [q \in Proposals |->
               IF req[t] = q /\ Unrecorded(t) THEN excuses[q] + 1 ELSE excuses[q]]
      BY <2>2, WriteFailsDoes
    <3>2. QED
      BY <1>1, <1>2, <3>1
  <2>3. QED
    BY <2>1, <2>2
<1>6. Acted(p)' <=> Acted(p)
  BY <1>3 DEF Acted
<1>7. Told(p, durable.traces[p])' /\ (Acted(p) => SaysExecuted(durable.traces[p]))
  BY <1>1, <1>2, <1>3, <1>5, <1>6 DEF One, Told
<1>8. QED
  BY <1>1, <1>4, <1>5, <1>6, <1>7, TruthUnserved

(* What a thread may do about a proposal: begin with it, go on, end, or be *)
(* busy with something else.                                               *)
LEMMA ServeKinds ==
  ASSUME TypeInv, NEW t \in Threads, Serve(t), NEW p \in Proposals
  PROVE  \/ Submit(t, p) \/ \E c \in {"approved", "rejected"} : ReadProposal(t, p, c)
         \/ pc[t] # "idle" /\ req[t] = p /\ req'[t] = p
         \/ (Notify(t) \/ WriteFails(t)) /\ req[t] = p
         \/ req[t] # p /\ req'[t] # p
<1>1. TypeOK /\ p # None /\ (pc[t] = "idle" <=> req[t] = None)
  BY NoneAssumption DEF TypeInv, Serving
<1>2. ASSUME \E step, a, o, x : Moves(t, step, req[t], a, o, x), pc[t] # "idle"
      PROVE  \/ pc[t] # "idle" /\ req[t] = p /\ req'[t] = p
             \/ req[t] # p /\ req'[t] # p
  BY <1>1, <1>2, MovesTo
<1>3. ASSUME NEW q \in Proposals,
             Submit(t, q) \/ \E c \in {"approved", "rejected"} : ReadProposal(t, q, c), q # p
      PROVE  req[t] # p /\ req'[t] # p
  BY <1>1, <1>3, SubmitDoes, ReadProposalDoes, MovesTo
<1>4. CASE Notify(t) \/ WriteFails(t)
  BY <1>1, <1>4, NotifyDoes, WriteFailsDoes, MovesTo
<1>5. CASE RecordUsage(t) \/ RecordCost(t) \/ PublishProposal(t)
  BY <1>2, <1>5, RecordUsageDoes, RecordCostDoes, PublishDoes
<1>6. CASE ReadTrace(t) \/ Decide(t)
  BY <1>2, <1>6, ReadTraceDoes, DecideDoes
<1>7. CASE ExecuteTool(t) \/ DumpTrace(t)
  BY <1>2, <1>7, ExecuteToolDoes, DumpTraceDoes
<1>8. CASE SaveTrace(t) \/ CommitWrite(t)
  BY <1>2, <1>8, SaveTraceDoes, CommitWriteDoes
<1>9. QED
  BY <1>3, <1>4, <1>5, <1>6, <1>7, <1>8 DEF Serve

LEMMA Elsewhere ==
  ASSUME TypeInv, NEW t \in Threads, Serve(t), ~torn', NEW p \in Proposals,
         req[t] # p, req'[t] # p
  PROVE  /\ Alone(t)
         /\ \A u \in Threads : req'[u] = p <=> req[u] = p
         /\ cached'[p] = cached[p] /\ home'[p] = home[p] /\ excuses'[p] = excuses[p]
         /\ durable'.traces[p] \in {durable.traces[p], working.traces[p]}
         /\ \/ working'.traces[p] = working.traces[p]
            \/ /\ working' = durable /\ durable' = durable
               /\ \A u \in Servers(p) : pc[u] # "trace_commit"
<1>1. /\ TypeOK
      /\ cached \in [Proposals -> Flag \union {None}] /\ home \in [Proposals -> Nat]
      /\ excuses \in [Proposals -> Nat]
  BY DEF TypeInv, TypeOK
<1>2. Alone(t) /\ \A u \in Threads : req'[u] = p <=> req[u] = p
  BY <1>1, ServeMoves, MovesTo DEF Alone
<1>3. durable'.traces[p] \in {durable.traces[p], working.traces[p]}
  BY TablesGrow
<1>4. ASSUME NEW q \in Proposals, Submit(t, q)
      PROVE  UNCHANGED <<working, cached, home, excuses>>
  BY <1>4, SubmitDoes DEF Steady
<1>5. ASSUME NEW q \in Proposals, NEW c \in {"approved", "rejected"}, ReadProposal(t, q, c)
      PROVE  UNCHANGED <<working, cached, home>> /\ excuses'[p] = excuses[p]
  <2>1. q # p
    BY <1>1, <1>5, ReadProposalDoes, MovesTo
  <2>2. QED
    BY <1>1, <1>5, <2>1, ReadProposalDoes
<1>6. CASE PublishProposal(t)
  BY <1>1, <1>2, <1>3, <1>6, PublishDoes DEF Steady
<1>7. CASE ExecuteTool(t)
  BY <1>1, <1>2, <1>3, <1>7, ExecuteToolDoes
<1>8. CASE RecordUsage(t) \/ RecordCost(t)
  BY <1>2, <1>3, <1>8, RecordUsageDoes, RecordCostDoes DEF Steady
<1>9. CASE SaveTrace(t)
  <2>1. working'.traces = [working.traces EXCEPT ![req[t]] = trace[t]]
        /\ UNCHANGED <<cached, home, excuses>>
    BY <1>9, SaveTraceDoes DEF Steady
  <2>2. working.traces \in [Proposals -> Trace \union {None}]
    BY <1>1 DEF TypeOK, Database
  <2>3. QED
    BY <1>2, <1>3, <2>1, <2>2
<1>10. CASE ReadTrace(t) \/ Decide(t) \/ DumpTrace(t) \/ CommitWrite(t) \/ Notify(t)
  BY <1>2, <1>3, <1>10, ReadTraceDoes, DecideDoes, DumpTraceDoes, CommitWriteDoes,
     NotifyDoes DEF Steady
<1>11. CASE WriteFails(t)
  BY <1>1, <1>2, <1>3, <1>11, WriteFailsDoes DEF Servers, Uncommitted
<1>12. QED
  BY <1>2, <1>3, <1>4, <1>5, <1>6, <1>7, <1>8, <1>9, <1>10, <1>11 DEF Serve

LEMMA TruthStep ==
  ASSUME TypeInv, Billed, NEW p \in Proposals, TruthOf(p), Quiet(p), Quiet(p)',
         excuses'[p] = excuses[p], NEW t \in Threads, Serve(t)
  PROVE  TruthOf(p)'
<1>1. CASE Submit(t, p) \/ \E c \in {"approved", "rejected"} : ReadProposal(t, p, c)
  BY <1>1, BeginTruth
<1>2. CASE req[t] = p /\ (Notify(t) \/ WriteFails(t) \/ (pc[t] # "idle" /\ req'[t] = p))
  <2>1. \A u \in Servers(p) : u = t
    BY <1>2, ServedTruth
  <2>2. CASE Notify(t) \/ WriteFails(t)
    BY <1>2, <2>1, <2>2, EndTruth
  <2>3. CASE pc[t] # "idle" /\ req'[t] = p
    BY <1>2, <2>1, <2>3, OwnTruth
  <2>4. QED
    BY <1>2, <2>2, <2>3
<1>3. CASE req[t] # p /\ req'[t] # p
  <2>1. /\ Alone(t)
        /\ \A u \in Threads : req'[u] = p <=> req[u] = p
        /\ cached'[p] = cached[p] /\ home'[p] = home[p]
        /\ durable'.traces[p] \in {durable.traces[p], working.traces[p]}
        /\ \/ working'.traces[p] = working.traces[p]
           \/ /\ working' = durable /\ durable' = durable
              /\ \A u \in Servers(p) : pc[u] # "trace_commit"
    BY <1>3, Elsewhere DEF Quiet
  <2>2. \A u \in Servers(p) : /\ pc'[u] = pc[u] /\ answer'[u] = answer[u]
                             /\ own'[u] = own[u] /\ trace'[u] = trace[u]
    BY <1>3, <2>1 DEF Alone, Servers
  <2>3. working'.traces[p] = working.traces[p]
    BY <2>1 DEF TruthOf
  <2>4. QED
    BY <2>1, <2>2, <2>3, TruthElsewhere
<1>4. QED
  BY <1>1, <1>2, <1>3, ServeKinds

LEMMA TruthInductive == TypeInv /\ Billed /\ Truth /\ [Next]_vars => Truth'
<1> SUFFICES ASSUME TypeInv, Billed, Truth, [Next]_vars, NEW p \in Proposals, Quiet(p)'
             PROVE  TruthOf(p)'
  BY DEF Truth
<1>1. Quiet(p) /\ TruthOf(p) /\ excuses'[p] = excuses[p]
  BY QuietBefore DEF Truth
<1>2. CASE Restart
  BY <1>1, <1>2, RestartTruth
<1>3. ASSUME NEW t \in Threads, Serve(t) PROVE TruthOf(p)'
  BY <1>1, <1>3, TruthStep
<1>4. CASE UNCHANGED vars
  <2>1. /\ UNCHANGED <<working, durable, cached, home, pc, req, answer, own, trace>>
    BY <1>4 DEF vars, connectionVars, threadVars
  <2>2. QED
    BY <1>1, <2>1 DEF TruthOf, TellsTruth, Servers, Plans, Confirms, Acted, Unrecorded
<1>5. QED
  BY <1>2, <1>3, <1>4 DEF Next

LEMMA TruthHolds == Spec => []Truth
<1>1. Init => Truth
  <2> SUFFICES ASSUME Init, NEW p \in Proposals PROVE TruthOf(p)
    BY DEF Truth
  <2>1. /\ Servers(p) = {} /\ cached[p] = None /\ home[p] = 0
        /\ working.traces[p] = None /\ durable.traces[p] = None
    BY NoneAssumption DEF Init, Servers, EmptyDatabase
  <2>2. QED
    BY <2>1 DEF TruthOf, Consistent, SaysExecuted, Acted
<1>2. QED
  BY <1>1, TypeInvHolds, BilledHolds, TruthInductive, PTL DEF Spec

(* Between requests the trace of a proposal that no confirmation raced and *)
(* whose record was never lost says executed if and only if the adapter    *)
(* acted, and the call behind it was billed.                               *)
THEOREM TraceTruthfulCorrect == Spec => []TraceTruthful
<1>1. TypeInv /\ Billed /\ Truth => TraceTruthful
  <2> SUFFICES ASSUME TypeInv, Billed, Truth, \A t \in Threads : pc[t] = "idle",
                      NEW p \in Proposals, Quiet(p)
               PROVE  LET saved == durable.traces[p] IN
                      /\ home[p] > 0 <=> saved # None /\ saved.flag = "executed"
                      /\ home[p] > 0 => saved.kind = "tool"
                      /\ saved # None => /\ saved.flag = "executed" <=> saved.result = "success"
                                         /\ p \in durable.usage \cap durable.costs
    BY DEF TraceTruthful
  <2>1. Servers(p) = {}
    BY NoneAssumption DEF TypeInv, Serving, Servers
  <2>2. /\ Told(p, durable.traces[p])
        /\ Acted(p) <=> SaysExecuted(durable.traces[p])
    BY <2>1, UnservedTruth DEF Truth
  <2>3. durable.traces[p] # None => BilledIn(durable, p)
    BY DEF TypeInv, Grown, Billed, Quiet
  <2>4. QED
    BY <2>2, <2>3 DEF Told, Acted, SaysExecuted, Consistent, BilledIn
<1>2. QED
  BY <1>1, TypeInvHolds, BilledHolds, TruthHolds, PTL

(* What the committed trace calls executed is not executed again and goes  *)
(* on being called executed, through failed writes and restarts that       *)
(* excuse nothing.                                                         *)
THEOREM RecordedIsFinalCorrect == Spec => RecordedIsFinal
<1> DEFINE Final(p) == Quiet(p) /\ Quiet(p)' /\ SaysExecuted(durable.traces[p])
                       => home'[p] = home[p] /\ durable'.traces[p].flag = "executed"
<1>1. ASSUME TypeInv, Truth, [Next]_vars, NEW p \in Proposals, Quiet(p),
             SaysExecuted(durable.traces[p])
      PROVE  home'[p] = home[p] /\ durable'.traces[p].flag = "executed"
  <2>1. TruthOf(p) /\ Acted(p)
    BY <1>1 DEF Truth, TruthOf
  <2>2. SaysExecuted(working.traces[p])
    BY <1>1, <2>1 DEF TruthOf, TellsTruth, Servers
  <2>3. CASE Restart
    BY <1>1, <2>3, RestartDoes DEF SaysExecuted
  <2>4. CASE UNCHANGED vars
    BY <1>1, <2>4 DEF vars, connectionVars, SaysExecuted
  <2>5. ASSUME NEW t \in Threads, Serve(t)
        PROVE  home'[p] = home[p] /\ durable'.traces[p].flag = "executed"
    <3>1. durable'.traces[p].flag = "executed"
      BY <1>1, <2>2, <2>5, TablesGrow DEF SaysExecuted
    <3>2. ASSUME NEW q \in Proposals, Submit(t, q) PROVE UNCHANGED home
      BY <1>1, <3>2, SubmitDoes DEF Steady
    <3>3. ASSUME NEW q \in Proposals, NEW c \in {"approved", "rejected"}, ReadProposal(t, q, c)
          PROVE  UNCHANGED home
      BY <1>1, <3>3, ReadProposalDoes
    <3>4. CASE ExecuteTool(t)
      <4>1. /\ pc[t] = "execute" /\ home \in [Proposals -> Nat]
            /\ \E flag : home' = [home EXCEPT ![req[t]] = IF flag = "executed" THEN @ + 1 ELSE @]
        BY <1>1, <3>4, ExecuteToolDoes DEF TypeInv, TypeOK
      <4>2. req[t] # p
        BY <2>1, <4>1 DEF TruthOf, TellsTruth, Servers
      <4>3. QED
        BY <3>1, <4>1, <4>2
    <3>5. RecordUsage(t) \/ RecordCost(t) \/ PublishProposal(t) \/ ReadTrace(t) \/ Decide(t)
            \/ DumpTrace(t) \/ SaveTrace(t) \/ CommitWrite(t) \/ Notify(t) \/ WriteFails(t)
          => UNCHANGED home
      BY <1>1, RecordUsageDoes, RecordCostDoes, PublishDoes, ReadTraceDoes, DecideDoes,
         DumpTraceDoes, SaveTraceDoes, CommitWriteDoes, NotifyDoes, WriteFailsDoes DEF Steady
    <3>6. QED
      BY <2>5, <3>1, <3>2, <3>3, <3>4, <3>5 DEF Serve
  <2>6. QED
    BY <1>1, <2>3, <2>4, <2>5 DEF Next
<1>2. TypeInv /\ Truth /\ [Next]_vars =>
        [\A p \in Proposals :
           /\ Quiet(p) /\ Quiet(p)'
           /\ durable.traces[p] # None /\ durable.traces[p].flag = "executed"
           => home'[p] = home[p] /\ durable'.traces[p].flag = "executed"]_vars
  BY <1>1 DEF SaysExecuted
<1>3. QED
  BY <1>2, TypeInvHolds, TruthHolds, PTL DEF Spec, RecordedIsFinal

-----------------------------------------------------------------------------
(* Every execution of a proposal after the first one has its excuse.       *)

LEMMA Counts ==
  ASSUME NEW S \in SUBSET Threads, NEW T \in SUBSET Threads, NEW t \in Threads
  PROVE  /\ Cardinality(S) \in Nat
         /\ S = {} <=> Cardinality(S) = 0
         /\ S \subseteq T => Cardinality(S) <= Cardinality(T)
         /\ S = T \union {t} /\ t \notin T => Cardinality(S) = Cardinality(T) + 1
<1>1. IsFiniteSet(Threads) /\ IsFiniteSet(S) /\ IsFiniteSet(T)
  BY RuntimeAssumption, FS_Subset
<1>2. Cardinality(S) \in Nat /\ (S = {} <=> Cardinality(S) = 0)
  BY <1>1, FS_CardinalityType, FS_EmptySet
<1>3. S \subseteq T => Cardinality(S) <= Cardinality(T)
  BY <1>1, FS_Subset
<1>4. S = T \union {t} /\ t \notin T => Cardinality(S) = Cardinality(T) + 1
  BY <1>1, FS_AddElement
<1>5. QED
  BY <1>2, <1>3, <1>4

LEMMA BudgetFacts ==
  ASSUME TypeInv, NEW p \in Proposals
  PROVE  /\ home[p] \in Nat /\ excuses[p] \in Nat
         /\ Pending(p) \in SUBSET Threads /\ Cardinality(Pending(p)) \in Nat
         /\ cached[p] \in Flag \union {None}
<1>1. Pending(p) \in SUBSET Threads
  BY DEF Pending, Servers
<1>2. Cardinality(Pending(p)) \in Nat
  BY <1>1, RuntimeAssumption, FS_Subset, FS_CardinalityType
<1>3. QED
  BY <1>1, <1>2 DEF TypeInv, TypeOK

LEMMA BudgetFactsNext ==
  ASSUME TypeInv', NEW p \in Proposals
  PROVE  /\ home'[p] \in Nat /\ excuses'[p] \in Nat
         /\ Pending(p)' \in SUBSET Threads /\ Cardinality(Pending(p)') \in Nat
<1>1. Pending(p)' \in SUBSET Threads
  BY DEF Pending, Servers
<1>2. Cardinality(Pending(p)') \in Nat
  BY <1>1, RuntimeAssumption, FS_Subset, FS_CardinalityType
<1>3. QED
  BY <1>1, <1>2 DEF TypeInv, TypeOK

LEMMA OthersStay ==
  ASSUME NEW t \in Threads, Alone(t), NEW p
  PROVE  /\ \A u \in Threads \ {t} : /\ u \in Pending(p)' <=> u \in Pending(p)
                                     /\ u \in Servers(p)' <=> u \in Servers(p)
         /\ t \in Pending(p)' => Pending(p)' = Pending(p) \union {t}
         /\ t \notin Pending(p)' => Pending(p)' = Pending(p) \ {t}
         /\ t \in Servers(p)' <=> req'[t] = p
BY DEF Alone, Pending, Servers

LEMMA OthersCarry ==
  ASSUME NEW t \in Threads, NEW u \in Threads, u # t, Alone(t), NEW p, req[u] = p, Carrying(u),
         cached[p] # "pending" => cached'[p] # "pending", Kept(p) => Kept(p)',
         pc[u] = "trace_commit" /\ SaysExecuted(working.traces[p]) =>
           SaysExecuted(working'.traces[p])
  PROVE  Carrying(u)'
<1>1. /\ pc'[u] = pc[u] /\ req'[u] = p /\ answer'[u] = answer[u]
      /\ own'[u] = own[u] /\ trace'[u] = trace[u]
  BY DEF Alone
<1>2. /\ Unrecorded(u)' <=> Unrecorded(u)
      /\ Confirms(u)' <=> Confirms(u)
  BY <1>1 DEF Unrecorded, Confirms
<1>3. QED
  BY <1>1, <1>2 DEF Carrying

LEMMA CalmStays ==
  ASSUME TypeInv, TypeInv', NEW t \in Threads, Alone(t), NEW p \in Proposals,
         Calm(p), home[p] <= 1 + excuses[p],
         home'[p] = home[p], excuses[p] <= excuses'[p], cached'[p] = cached[p], Kept(p)',
         req'[t] = p => Heeds(t)'
  PROVE  BudgetOf(p)'
<1>1. home'[p] <= 1 + excuses'[p]
  BY BudgetFacts, BudgetFactsNext
<1>2. ASSUME NEW u \in Threads, req'[u] = p PROVE Heeds(u)'
  <2>1. CASE u = t
    BY <1>2, <2>1
  <2>2. CASE u # t
    <3>1. /\ pc'[u] = pc[u] /\ req[u] = p /\ answer'[u] = answer[u]
          /\ own'[u] = own[u] /\ trace'[u] = trace[u]
      BY <1>2, <2>2 DEF Alone
    <3>2. Heeds(u) /\ (Confirms(u)' <=> Confirms(u))
      BY <1>2, <3>1 DEF Calm, Servers, Confirms
    <3>3. QED
      BY <1>2, <3>1, <3>2 DEF Heeds
  <2>3. QED
    BY <2>1, <2>2
<1>3. Calm(p)'
  BY <1>2 DEF Calm, Servers
<1>4. QED
  BY <1>1, <1>3 DEF BudgetOf

LEMMA RoomyStays ==
  ASSUME TypeInv, TypeInv', NEW p \in Proposals, Roomy(p),
         home'[p] = home[p], excuses[p] <= excuses'[p], Pending(p)' \subseteq Pending(p)
  PROVE  BudgetOf(p)'
<1>1. PICK n, m : n = Cardinality(Pending(p)) /\ m = Cardinality(Pending(p)')
  OBVIOUS
<1>2. n \in Nat /\ m \in Nat /\ m <= n
  <2>1. IsFiniteSet(Pending(p))
    BY BudgetFacts, RuntimeAssumption, FS_Subset
  <2>2. m <= n
    BY <1>1, <2>1, FS_Subset
  <2>3. QED
    BY <1>1, <2>2, BudgetFacts, BudgetFactsNext
<1>3. home'[p] + m <= excuses'[p] /\ home'[p] <= 1 + excuses'[p]
  BY <1>1, <1>2, BudgetFacts, BudgetFactsNext DEF Roomy
<1>4. QED
  BY <1>1, <1>3 DEF BudgetOf, Roomy

LEMMA TightStays ==
  ASSUME TypeInv', NEW t \in Threads, Alone(t), NEW p \in Proposals, Tight(p),
         home'[p] + Cardinality(Pending(p)') = 1 + excuses'[p],
         cached[p] # "pending" => cached'[p] # "pending",
         Kept(p) => Kept(p)',
         \A u \in Threads \ {t} :
           req[u] = p /\ pc[u] = "trace_commit" /\ SaysExecuted(working.traces[p]) =>
             SaysExecuted(working'.traces[p]),
         req'[t] = p => t \in Pending(p)' \/ Carrying(t)',
         Servers(p)' # {}
  PROVE  BudgetOf(p)'
<1>1. ASSUME NEW u \in Servers(p)' PROVE u \in Pending(p)' \/ Carrying(u)'
  <2>1. CASE u = t
    BY <1>1, <2>1 DEF Servers
  <2>2. CASE u # t
    <3>1. u \in Servers(p) /\ u \in Threads /\ req[u] = p
      BY <1>1, <2>2, OthersStay DEF Servers
    <3>2. CASE u \in Pending(p)
      BY <2>2, <3>1, <3>2, OthersStay
    <3>3. CASE Carrying(u)
      BY <2>2, <3>1, <3>3, OthersCarry
    <3>4. QED
      BY <3>1, <3>2, <3>3 DEF Tight
  <2>3. QED
    BY <2>1, <2>2
<1>2. Tight(p)'
  BY <1>1 DEF Tight
<1>3. home'[p] <= 1 + excuses'[p]
  <2>1. PICK m : m = Cardinality(Pending(p)')
    OBVIOUS
  <2>2. QED
    BY <2>1, BudgetFactsNext
<1>4. QED
  BY <1>2, <1>3 DEF BudgetOf

(* A step that neither executes nor ends what is pending.                  *)
LEMMA BudgetStays ==
  ASSUME TypeInv, TypeInv', NEW t \in Threads, Alone(t), NEW p \in Proposals, BudgetOf(p),
         home'[p] = home[p], excuses'[p] = excuses[p], cached'[p] = cached[p],
         Pending(p)' = Pending(p),
         Calm(p) => Kept(p)' /\ (req'[t] = p => Heeds(t)'),
         Tight(p) =>
           /\ Kept(p) => Kept(p)'
           /\ \A u \in Threads \ {t} :
                req[u] = p /\ pc[u] = "trace_commit" /\ SaysExecuted(working.traces[p]) =>
                  SaysExecuted(working'.traces[p])
           /\ req'[t] = p => t \in Pending(p)' \/ Carrying(t)'
           /\ Servers(p)' # {}
  PROVE  BudgetOf(p)'
<1>1. excuses[p] <= excuses'[p]
  BY BudgetFacts
<1>2. CASE Calm(p)
  BY <1>1, <1>2, CalmStays DEF BudgetOf
<1>3. CASE Roomy(p)
  BY <1>1, <1>3, RoomyStays
<1>4. CASE Tight(p)
  <2>1. home'[p] + Cardinality(Pending(p)') = 1 + excuses'[p]
    BY <1>4 DEF Tight
  <2>2. QED
    BY <1>4, <2>1, TightStays
<1>5. QED
  BY <1>2, <1>3, <1>4 DEF BudgetOf

LEMMA BudgetElsewhere ==
  ASSUME TypeInv, TypeInv', NEW t \in Threads, Serve(t), ~torn', NEW p \in Proposals,
         req[t] # p, req'[t] # p, BudgetOf(p)
  PROVE  BudgetOf(p)'
<1>1. /\ Alone(t)
      /\ \A u \in Threads : req'[u] = p <=> req[u] = p
      /\ cached'[p] = cached[p] /\ home'[p] = home[p] /\ excuses'[p] = excuses[p]
      /\ durable'.traces[p] \in {durable.traces[p], working.traces[p]}
      /\ \/ working'.traces[p] = working.traces[p]
         \/ /\ working' = durable /\ durable' = durable
            /\ \A u \in Servers(p) : pc[u] # "trace_commit"
  BY Elsewhere
<1>2. Pending(p)' = Pending(p) /\ Servers(p)' = Servers(p)
  BY <1>1 DEF Pending, Servers, Alone
<1>3. Kept(p) => Kept(p)'
  BY <1>1 DEF Kept
<1>4. \A u \in Threads \ {t} :
        req[u] = p /\ pc[u] = "trace_commit" /\ SaysExecuted(working.traces[p]) =>
          SaysExecuted(working'.traces[p])
  BY <1>1 DEF Servers
<1>5. Calm(p) => Kept(p)'
  BY <1>3 DEF Calm
<1>6. Tight(p) => Servers(p)' # {}
  BY <1>2 DEF Tight
<1>7. QED
  BY <1>1, <1>2, <1>3, <1>4, <1>5, <1>6, BudgetStays

(* A plan is begun before there is a trace, so nothing was executed yet; a *)
(* confirmation either joins another, and has an excuse, or is alone.      *)
LEMMA BudgetBegin ==
  ASSUME TypeInv, TypeInv', Billed, NEW t \in Threads, ~torn, NEW p \in Proposals, BudgetOf(p),
         Submit(t, p) \/ \E c \in {"approved", "rejected"} : ReadProposal(t, p, c)
  PROVE  BudgetOf(p)'
<1>1. TypeOK /\ excuses[p] \in Nat /\ home[p] \in Nat
  BY DEF TypeInv, TypeOK
<1>2. CASE Submit(t, p)
  <2>1. /\ p \notin durable.usage /\ Servers(p) = {}
        /\ Moves(t, "usage", p, "not_requested", own[t], trace[t])
        /\ home' = home /\ excuses' = excuses
    BY <1>2, SubmitDoes DEF Steady
  <2>2. pc'[t] = "usage" /\ Alone(t)
    BY <1>1, <2>1, MovesTo
  <2>3. working.traces[p] = None
    BY <2>1 DEF Billed, BilledIn
  <2>4. Roomy(p)
    BY <2>1, <2>3 DEF BudgetOf, Calm, Kept, SaysExecuted, Tight
  <2>5. Pending(p)' \subseteq Pending(p)
    BY <2>2 DEF Pending, Servers, Alone
  <2>6. QED
    BY <1>1, <2>1, <2>4, <2>5, RoomyStays
<1>3. ASSUME NEW c \in {"approved", "rejected"}, ReadProposal(t, p, c)
      PROVE  BudgetOf(p)'
  <2>1. /\ pc[t] = "idle" /\ req[t] = None /\ working.traces[p] \in Trace
        /\ Moves(t, "read", p, c, working.traces[p].flag, trace[t])
        /\ excuses' = [excuses EXCEPT ![p] = IF Servers(p) # {} THEN @ + 1 ELSE @]
        /\ UNCHANGED <<working, durable, cached, home>>
    BY <1>3, ReadProposalDoes
  <2>2. /\ pc'[t] = "read" /\ req'[t] = p /\ answer'[t] = c /\ own'[t] = working.traces[p].flag
        /\ Alone(t)
    BY <1>1, <2>1, MovesTo
  <2>3. excuses'[p] = IF Servers(p) # {} THEN excuses[p] + 1 ELSE excuses[p]
    BY <2>1 DEF TypeInv, TypeOK
  <2>4. /\ t \notin Pending(p) /\ Pending(p)' = Pending(p) \union {t} /\ t \in Pending(p)'
        /\ Servers(p)' = Servers(p) \union {t}
    BY <2>1, <2>2 DEF Pending, Servers, Alone
  <2>5. PICK n \in Nat : n = Cardinality(Pending(p))
    BY BudgetFacts
  <2>6. Cardinality(Pending(p)') = n + 1
    <3>1. PICK S \in SUBSET Threads : S = Pending(p)'
      BY BudgetFactsNext
    <3>2. S = Pending(p) \union {t} /\ Pending(p) \in SUBSET Threads
      BY <2>4, <3>1, BudgetFacts
    <3>3. Cardinality(S) = Cardinality(Pending(p)) + 1
      BY <2>4, <3>2, Counts
    <3>4. QED
      BY <2>5, <3>1, <3>3
  <2>7. CASE Calm(p)
    <3>1. Heeds(t)'
      <4>1. SaysExecuted(working.traces[p])
        BY <2>7 DEF Calm, Kept
      <4>2. QED
        BY <2>2, <4>1, NoneAssumption DEF Heeds, Confirms, SaysExecuted
    <3>2. Kept(p)' /\ excuses[p] <= excuses'[p] /\ home'[p] = home[p] /\ cached'[p] = cached[p]
      BY <1>1, <2>1, <2>3, <2>7 DEF Calm, Kept
    <3>3. QED
      BY <2>2, <2>7, <3>1, <3>2, CalmStays DEF BudgetOf
  <2>8. CASE Tight(p)
    <3>1. home'[p] + Cardinality(Pending(p)') = 1 + excuses'[p]
      BY <1>1, <2>1, <2>3, <2>5, <2>6, <2>8 DEF Tight
    <3>2. QED
      BY <2>1, <2>2, <2>4, <2>8, <3>1, TightStays DEF Kept
  <2>9. CASE Roomy(p)
    <3>1. home[p] + n <= excuses[p] /\ home'[p] = home[p]
      BY <2>1, <2>5, <2>9 DEF Roomy
    <3>2. CASE Servers(p) # {} \/ home[p] + n # excuses[p]
      <4>1. home'[p] + (n + 1) <= excuses'[p] /\ home'[p] <= 1 + excuses'[p]
        BY <1>1, <2>3, <2>5, <3>1, <3>2
      <4>2. QED
        BY <2>6, <4>1 DEF BudgetOf, Roomy
    <3>3. CASE Servers(p) = {} /\ home[p] + n = excuses[p]
      <4>1. home'[p] + (n + 1) = 1 + excuses'[p] /\ home'[p] <= 1 + excuses'[p]
        BY <1>1, <2>3, <2>5, <3>1, <3>3
      <4>2. Servers(p)' = {t} /\ Pending(p)' = {t}
        BY <2>4, <3>3 DEF Pending
      <4>3. QED
        BY <2>6, <4>1, <4>2 DEF BudgetOf, Tight
    <3>4. QED
      BY <3>2, <3>3
  <2>10. QED
    BY <2>7, <2>8, <2>9 DEF BudgetOf
<1>4. QED
  BY <1>2, <1>3

(* The step of a thread that goes on and is as pending as it was.          *)
LEMMA BudgetGoesOn ==
  ASSUME TypeInv, TypeInv', NEW t \in Threads, Serve(t), NEW p \in Proposals, BudgetOf(p),
         pc[t] # "idle", req[t] = p, req'[t] = p,
         home'[p] = home[p], excuses'[p] = excuses[p], cached'[p] = cached[p],
         t \in Pending(p) <=> t \in Pending(p)',
         Heeds(t) /\ Calm(p) => Heeds(t)' /\ Kept(p)',
         Carrying(t) /\ t \notin Pending(p)' => Carrying(t)',
         t \in Pending(p) \/ Carrying(t) =>
           /\ Kept(p) => Kept(p)'
           /\ SaysExecuted(working.traces[p]) => SaysExecuted(working'.traces[p])
  PROVE  BudgetOf(p)'
<1>1. Alone(t)
  BY ServeMoves, MovesTo DEF TypeInv
<1>2. Pending(p)' = Pending(p) /\ t \in Servers(p) /\ t \in Servers(p)'
  <2>1. \A u \in Threads \ {t} : u \in Pending(p)' <=> u \in Pending(p)
    BY <1>1, OthersStay
  <2>2. Pending(p) \subseteq Threads /\ Pending(p)' \subseteq Threads
    BY BudgetFacts, BudgetFactsNext
  <2>3. QED
    BY <2>1, <2>2 DEF Servers
<1>3. Calm(p) => Heeds(t)
  BY <1>2 DEF Calm
<1>4. Tight(p) => t \in Pending(p) \/ Carrying(t)
  BY <1>2 DEF Tight
<1>5. QED
  BY <1>1, <1>2, <1>3, <1>4, BudgetStays

LEMMA BudgetOwn ==
  ASSUME TypeInv, TypeInv', NEW t \in Threads, Serve(t), NEW p \in Proposals, BudgetOf(p),
         pc[t] # "idle", req[t] = p, req'[t] = p
  PROVE  BudgetOf(p)'
<1>1. /\ TypeOK /\ p # None
      /\ home[p] \in Nat /\ excuses[p] \in Nat /\ cached[p] \in Flag \union {None}
      /\ home \in [Proposals -> Nat] /\ cached \in [Proposals -> Flag \union {None}]
      /\ working.traces \in [Proposals -> Trace \union {None}]
      /\ pc[t] \in Planning => ~Confirms(t)
      /\ pc[t] \in Confirming => Confirms(t)
      /\ pc[t] = "execute" => trace[t].decision = "allow"
      /\ pc[t] \in {"evaluate", "execute", "dump", "trace", "trace_commit"} => trace[t] \in Trace
  BY Facts, NoneAssumption DEF TypeInv, TypeOK, Serving, Plans, Confirms, Database
<1>2. ASSUME NEW step, NEW a, NEW o, NEW x, Moves(t, step, p, a, o, x)
      PROVE  /\ pc'[t] = step /\ answer'[t] = a /\ own'[t] = o /\ trace'[t] = x
             /\ a = answer[t] => (Confirms(t)' <=> Confirms(t))
             /\ Alone(t)
  BY <1>1, <1>2, MovesTo DEF Confirms
<1>3. t \in Pending(p)' <=> pc'[t] \in {"read", "evaluate", "execute"}
  BY DEF Pending, Servers
<1>4. t \in Pending(p) <=> pc[t] \in {"read", "evaluate", "execute"}
  BY DEF Pending, Servers
<1> USE DEF Planning, Confirming
<1>5. CASE RecordUsage(t) \/ RecordCost(t) \/ PublishProposal(t)
  <2>1. /\ pc[t] \in {"usage", "cost", "publish"}
        /\ pc'[t] \in {"usage_commit", "cost_commit", "trace"}
        /\ home' = home /\ excuses' = excuses
    BY <1>2, <1>5, RecordUsageDoes, RecordCostDoes, PublishDoes DEF Steady
  <2>2. ~Confirms(t) /\ t \notin Pending(p) /\ t \notin Pending(p)' /\ t \in Servers(p)
    BY <1>1, <1>3, <1>4, <2>1 DEF Servers
  <2>3. Roomy(p)
    BY <2>2 DEF BudgetOf, Calm, Heeds, Tight, Carrying
  <2>4. Pending(p)' \subseteq Pending(p)
    <3>1. Alone(t)
      BY <1>1, ServeMoves, MovesTo
    <3>2. QED
      BY <2>2, <3>1, OthersStay
  <2>5. QED
    BY <1>1, <2>1, <2>3, <2>4, RoomyStays
<1>6. CASE ReadTrace(t)
  <2>1. /\ pc[t] = "read" /\ pc'[t] = "evaluate" /\ own'[t] = own[t]
        /\ Confirms(t)' <=> Confirms(t)
        /\ UNCHANGED <<working, durable, cached, home, excuses>>
    BY <1>2, <1>6, ReadTraceDoes DEF Steady
  <2>2. /\ t \in Pending(p) /\ t \in Pending(p)'
        /\ Heeds(t) => Heeds(t)'
        /\ Kept(p)' <=> Kept(p)
    BY <1>3, <1>4, <2>1 DEF Heeds, Kept
  <2>3. QED
    BY <2>1, <2>2, BudgetGoesOn DEF Calm
<1>7. CASE Decide(t)
  <2>1. pc[t] = "evaluate" /\ UNCHANGED <<working, durable, cached, home, excuses>>
    BY <1>7, DecideDoes DEF Steady
  <2>2. PICK x \in Trace :
          \/ FlagOf(t) = "pending" /\ Moves(t, "execute", p, answer[t], own[t], x)
          \/ Moves(t, "dump", p, answer[t], own[t], x)
    BY <1>7, DecideDoes
  <2>3. /\ pc'[t] \in {"execute", "dump"} /\ (pc'[t] = "execute" => FlagOf(t) = "pending")
        /\ own'[t] = own[t] /\ (Confirms(t)' <=> Confirms(t)) /\ Alone(t)
    BY <1>2, <2>2
  <2>4. Kept(p)' <=> Kept(p)
    BY <2>1 DEF Kept
  <2>5. CASE Calm(p)
    <3>1. Heeds(t) /\ cached[p] # "pending"
      BY <2>5 DEF Calm, Servers
    <3>2. FlagOf(t) # "pending"
      BY <1>1, <3>1 DEF FlagOf, Heeds
    <3>3. Heeds(t)'
      BY <2>1, <2>3, <3>1, <3>2 DEF Heeds
    <3>4. Kept(p)' /\ excuses[p] <= excuses'[p]
      BY <1>1, <2>1, <2>4, <2>5 DEF Calm
    <3>5. QED
      BY <2>1, <2>3, <2>5, <3>3, <3>4, CalmStays DEF BudgetOf
  <2>6. CASE ~Calm(p) /\ pc'[t] = "execute"
    <3>1. t \in Pending(p) /\ t \in Pending(p)'
      BY <1>3, <1>4, <2>1, <2>6
    <3>2. QED
      BY <2>1, <2>4, <2>6, <3>1, BudgetGoesOn
  <2>7. CASE ~Calm(p) /\ pc'[t] = "dump"
    <3>1. Pending(p)' = Pending(p) \ {t} /\ t \in Pending(p) /\ t \notin Pending(p)'
      BY <1>3, <1>4, <2>1, <2>3, <2>7, OthersStay
    <3>2. CASE Roomy(p)
      BY <1>1, <2>1, <3>1, <3>2, RoomyStays
    <3>3. CASE Tight(p)
      <4>1. PICK n \in Nat : n = Cardinality(Pending(p))
        BY BudgetFacts
      <4>2. PICK m \in Nat : m = Cardinality(Pending(p)')
        BY BudgetFactsNext
      <4>3. n = m + 1
        <5>1. PICK S \in SUBSET Threads : S = Pending(p)'
          BY BudgetFactsNext
        <5>2. Pending(p) = S \union {t} /\ t \notin S /\ Pending(p) \in SUBSET Threads
          BY <3>1, <5>1, BudgetFacts
        <5>3. Cardinality(Pending(p)) = Cardinality(S) + 1
          BY <5>2, Counts
        <5>4. QED
          BY <4>1, <4>2, <5>1, <5>3
      <4>4. home'[p] + m <= excuses'[p] /\ home'[p] <= 1 + excuses'[p]
        BY <1>1, <2>1, <3>3, <4>1, <4>3 DEF Tight
      <4>5. QED
        BY <4>2, <4>4 DEF BudgetOf, Roomy
    <3>4. QED
      BY <2>7, <3>2, <3>3 DEF BudgetOf
  <2>8. QED
    BY <2>3, <2>5, <2>6, <2>7
<1>8. CASE ExecuteTool(t)
  <2>1. pc[t] = "execute" /\ UNCHANGED <<working, durable, excuses>>
    BY <1>8, ExecuteToolDoes
  <2>2. PICK x \in Trace, flag \in Flag :
          /\ x.decision = trace[t].decision
          /\ flag = "executed" <=> x.result = "success"
          /\ home' = [home EXCEPT ![p] = IF flag = "executed" THEN @ + 1 ELSE @]
          /\ cached' = [cached EXCEPT ![p] = IF @ = None THEN None ELSE flag]
          /\ Moves(t, "dump", p, answer[t], flag, x)
    BY <1>8, ExecuteToolDoes
  <2>3. /\ pc'[t] = "dump" /\ own'[t] = flag /\ trace'[t] = x
        /\ Confirms(t)' /\ Alone(t)
    BY <1>1, <1>2, <2>1, <2>2
  <2>4. Pending(p)' = Pending(p) \ {t} /\ t \in Pending(p) /\ t \notin Pending(p)'
    BY <1>3, <1>4, <2>1, <2>3, OthersStay
  <2>5. PICK n \in Nat : n = Cardinality(Pending(p))
    BY BudgetFacts
  <2>6. PICK m \in Nat : m = Cardinality(Pending(p)')
    BY BudgetFactsNext
  <2>7. n = m + 1
    <3>1. PICK S \in SUBSET Threads : S = Pending(p)'
      BY BudgetFactsNext
    <3>2. Pending(p) = S \union {t} /\ t \notin S /\ Pending(p) \in SUBSET Threads
      BY <2>4, <3>1, BudgetFacts
    <3>3. Cardinality(Pending(p)) = Cardinality(S) + 1
      BY <3>2, Counts
    <3>4. QED
      BY <2>5, <2>6, <3>1, <3>3
  <2>8. ~Calm(p)
    BY <2>1 DEF Calm, Heeds, Servers
  <2>9. CASE flag = "executed"
    <3>1. home'[p] = home[p] + 1 /\ (cached'[p] = None \/ cached'[p] = "executed")
      BY <1>1, <2>2, <2>9
    <3>2. CASE Roomy(p)
      <4>1. home'[p] + m <= excuses'[p] /\ home'[p] <= 1 + excuses'[p]
        BY <1>1, <2>1, <2>5, <2>7, <3>1, <3>2 DEF Roomy
      <4>2. QED
        BY <2>6, <4>1 DEF BudgetOf, Roomy
    <3>3. CASE Tight(p)
      <4>1. home'[p] + m = 1 + excuses'[p]
        BY <1>1, <2>1, <2>5, <2>7, <3>1, <3>3 DEF Tight
      <4>2. Carrying(t)'
        BY <1>1, <2>1, <2>2, <2>3, <2>9, <3>1, NoneAssumption DEF Carrying, Unrecorded, Flag
      <4>3. /\ cached'[p] # "pending" /\ (Kept(p) => Kept(p)') /\ Servers(p)' # {}
            /\ working' = working
        BY <2>1, <3>1, NoneAssumption DEF Kept, Servers, Flag
      <4>4. QED
        BY <2>3, <2>6, <3>3, <4>1, <4>2, <4>3, TightStays
    <3>4. QED
      BY <2>8, <3>2, <3>3 DEF BudgetOf
  <2>10. CASE flag # "executed"
    <3>1. home'[p] = home[p]
      BY <1>1, <2>2, <2>10
    <3>2. home'[p] + m <= excuses'[p] /\ home'[p] <= 1 + excuses'[p]
      <4>1. CASE Roomy(p)
        BY <1>1, <2>1, <2>5, <2>7, <3>1, <4>1 DEF Roomy
      <4>2. CASE Tight(p)
        BY <1>1, <2>1, <2>5, <2>7, <3>1, <4>2 DEF Tight
      <4>3. QED
        BY <2>8, <4>1, <4>2 DEF BudgetOf
    <3>3. QED
      BY <2>6, <3>2 DEF BudgetOf, Roomy
  <2>11. QED
    BY <2>9, <2>10
<1>9. CASE DumpTrace(t)
  <2>1. pc[t] = "dump" /\ UNCHANGED <<working, durable, cached, home, excuses>>
    BY <1>9, DumpTraceDoes DEF Steady
  <2>2. PICK x \in Trace :
          /\ x.flag = FlagOf(t)
          /\ x.decision = trace[t].decision /\ x.result = trace[t].result
          /\ Moves(t, "trace", p, answer[t], own[t], x)
    BY <1>9, DumpTraceDoes
  <2>3. /\ pc'[t] = "trace" /\ own'[t] = own[t] /\ trace'[t] = x
        /\ Confirms(t)' <=> Confirms(t)
    BY <1>2, <2>2
  <2>4. t \notin Pending(p) /\ t \notin Pending(p)' /\ (Kept(p)' <=> Kept(p))
    BY <1>3, <1>4, <2>1, <2>3 DEF Kept
  <2>5. own[t] = "executed" /\ cached[p] # "pending" => SaysExecuted(x)
    BY <1>1, <2>2, NoneAssumption DEF FlagOf, SaysExecuted, Flag
  <2>6. Heeds(t) /\ Calm(p) => Heeds(t)' /\ Kept(p)'
    <3>1. ASSUME Heeds(t), Calm(p) PROVE SaysExecuted(x)
      BY <1>1, <2>2, <3>1, NoneAssumption DEF Heeds, Calm, FlagOf, SaysExecuted, Flag
    <3>2. QED
      BY <2>1, <2>3, <2>4, <3>1 DEF Heeds, Calm
  <2>7. Carrying(t) => Carrying(t)'
    BY <2>1, <2>2, <2>3, <2>5 DEF Carrying, Unrecorded
  <2>8. QED
    BY <2>1, <2>4, <2>6, <2>7, BudgetGoesOn
<1>10. CASE SaveTrace(t)
  <2>1. /\ pc[t] = "trace" /\ pc'[t] = "trace_commit" /\ own'[t] = own[t] /\ trace'[t] = trace[t]
        /\ Confirms(t)' <=> Confirms(t)
    <3>1. pc[t] = "trace" /\ Moves(t, "trace_commit", p, answer[t], own[t], trace[t])
      BY <1>10, SaveTraceDoes
    <3>2. QED
      BY <1>2, <3>1
  <2>2. /\ working'.traces = [working.traces EXCEPT ![p] = trace[t]]
        /\ UNCHANGED <<durable, cached, home, excuses>>
    BY <1>10, SaveTraceDoes DEF Steady
  <2>3. working'.traces[p] = trace[t]
    BY <1>1, <2>2
  <2>4. t \notin Pending(p) /\ t \notin Pending(p)'
    BY <1>3, <1>4, <2>1
  <2>5. Heeds(t) /\ Calm(p) => Heeds(t)' /\ Kept(p)'
    BY <2>1, <2>2, <2>3 DEF Heeds, Calm, Kept
  <2>6. Carrying(t) => /\ Carrying(t)' /\ SaysExecuted(working'.traces[p])
                       /\ Kept(p) => Kept(p)'
    BY <2>1, <2>2, <2>3 DEF Carrying, Unrecorded, Kept
  <2>7. QED
    BY <2>2, <2>4, <2>5, <2>6, BudgetGoesOn
<1>11. CASE CommitWrite(t)
  <2>1. /\ \/ pc[t] \in {"usage_commit", "cost_commit"}
           \/ pc[t] = "trace_commit" /\ pc'[t] = "notify"
        /\ pc'[t] \in {"cost", "publish", "notify"}
        /\ own'[t] = own[t] /\ trace'[t] = trace[t]
        /\ Confirms(t)' <=> Confirms(t)
        /\ durable' = working /\ UNCHANGED <<working, cached, home, excuses>>
    BY <1>2, <1>11, CommitWriteDoes DEF Steady
  <2>2. t \notin Pending(p) /\ t \notin Pending(p)'
    BY <1>3, <1>4, <2>1
  <2>3. Kept(p) => Kept(p)'
    BY <2>1 DEF Kept
  <2>4. Heeds(t) /\ Calm(p) => Heeds(t)' /\ Kept(p)'
    BY <1>1, <2>1, <2>3 DEF Heeds, Calm
  <2>5. Carrying(t) => Carrying(t)'
    BY <1>1, <2>1 DEF Carrying, Unrecorded, Kept
  <2>6. QED
    BY <2>1, <2>2, <2>3, <2>4, <2>5, BudgetGoesOn
<1>12. ~Notify(t) /\ ~WriteFails(t)
  BY <1>1, NotifyDoes, WriteFailsDoes, MovesTo
<1>13. (\A q \in Proposals : ~Submit(t, q))
       /\ \A q \in Proposals, c \in {"approved", "rejected"} : ~ReadProposal(t, q, c)
  BY SubmitDoes, ReadProposalDoes
<1>14. QED
  BY <1>5, <1>6, <1>7, <1>8, <1>9, <1>10, <1>11, <1>12, <1>13 DEF Serve

(* The last of the threads that made a proposal tight leaves it calm.      *)
LEMMA BudgetEnd ==
  ASSUME TypeInv, TypeInv', NEW t \in Threads, Notify(t) \/ WriteFails(t), ~torn',
         NEW p \in Proposals, req[t] = p, BudgetOf(p)
  PROVE  BudgetOf(p)'
<1>1. /\ TypeOK /\ home[p] \in Nat /\ excuses[p] \in Nat
  BY DEF TypeInv, TypeOK
<1>2. /\ pc[t] \in {"usage", "cost", "trace", "notify"} \union Uncommitted
      /\ Moves(t, "idle", None, "not_requested", "pending", None)
      /\ UNCHANGED <<cached, home>>
  BY NotifyDoes, WriteFailsDoes DEF Steady
<1>3. /\ pc'[t] = "idle" /\ req'[t] # p /\ Alone(t)
  BY <1>1, <1>2, MovesTo, NoneAssumption
<1>4. /\ t \notin Pending(p) /\ t \notin Pending(p)' /\ Pending(p)' = Pending(p)
      /\ Servers(p)' = Servers(p) \ {t} /\ t \in Servers(p)
  <2>1. t \notin Pending(p) /\ t \notin Pending(p)' /\ t \in Servers(p)
    BY <1>2, <1>3 DEF Pending, Servers, Uncommitted
  <2>2. Servers(p)' = Servers(p) \ {t}
    BY <1>3 DEF Servers, Alone
  <2>3. QED
    BY <1>3, <2>1, <2>2, OthersStay
<1>5. /\ SaysExecuted(durable.traces[p]) /\ (Notify(t) => SaysExecuted(working.traces[p])) => Kept(p)'
      /\ excuses[p] <= excuses'[p]
      /\ excuses'[p] = excuses[p] \/ excuses'[p] = excuses[p] + 1
      /\ WriteFails(t) /\ Unrecorded(t) => excuses'[p] = excuses[p] + 1
  <2>1. CASE Notify(t)
    <3>1. pc[t] = "notify" /\ durable' = working /\ working' = working /\ excuses' = excuses
      BY <2>1, NotifyDoes DEF Steady
    <3>2. ~Unrecorded(t)
      BY <3>1 DEF Unrecorded
    <3>3. QED
      BY <1>1, <2>1, <3>1, <3>2 DEF Kept
  <2>2. CASE ~Notify(t) /\ WriteFails(t)
    <3>1. /\ working' = durable /\ durable' = durable
          /\ excuses' = [q \in Proposals |->
               IF req[t] = q /\ Unrecorded(t) THEN excuses[q] + 1 ELSE excuses[q]]
      BY <2>2, WriteFailsDoes
    <3>2. excuses'[p] = IF Unrecorded(t) THEN excuses[p] + 1 ELSE excuses[p]
      BY <3>1
    <3>3. QED
      BY <1>1, <2>2, <3>1, <3>2 DEF Kept
  <2>3. QED
    BY <2>1, <2>2
<1>6. CASE Calm(p)
  BY <1>2, <1>3, <1>5, <1>6, CalmStays DEF Calm, Kept, BudgetOf
<1>7. CASE Roomy(p)
  BY <1>2, <1>4, <1>5, <1>7, RoomyStays
<1>8. CASE Tight(p)
  <2>1. Carrying(t)
    BY <1>4, <1>8 DEF Tight
  <2>2. PICK n \in Nat : n = Cardinality(Pending(p))
    BY BudgetFacts
  <2>3. CASE excuses'[p] = excuses[p] + 1
    <3>1. home'[p] + n <= excuses'[p] /\ home'[p] <= 1 + excuses'[p]
      BY <1>1, <1>2, <1>8, <2>2, <2>3 DEF Tight
    <3>2. QED
      BY <1>4, <2>2, <3>1 DEF BudgetOf, Roomy
  <2>4. CASE excuses'[p] # excuses[p] + 1
    <3>1. excuses'[p] = excuses[p] /\ Kept(p) /\ Kept(p)' /\ cached[p] # "pending"
      <4>1. pc[t] = "notify" \/ Unrecorded(t)
        BY <2>1 DEF Carrying
      <4>2. Notify(t) => pc[t] = "notify"
        BY NotifyDoes
      <4>3. pc[t] = "notify"
        BY <1>5, <2>4, <4>1, <4>2
      <4>4. Kept(p)
        BY <2>1, <4>3 DEF Carrying, Unrecorded
      <4>5. QED
        BY <1>5, <2>1, <2>4, <4>4 DEF Carrying, Kept
    <3>2. home'[p] + Cardinality(Pending(p)') = 1 + excuses'[p]
      BY <1>2, <1>4, <1>8, <3>1 DEF Tight
    <3>3. CASE Servers(p)' = {}
      <4>1. Calm(p)'
        BY <1>2, <3>1, <3>3 DEF Calm
      <4>2. home'[p] <= 1 + excuses'[p]
        BY <1>2, <1>8, <3>1 DEF BudgetOf
      <4>3. QED
        BY <4>1, <4>2 DEF BudgetOf
    <3>4. CASE Servers(p)' # {}
      <4>1. \A u \in Threads \ {t} :
              req[u] = p /\ pc[u] = "trace_commit" /\ SaysExecuted(working.traces[p]) =>
                SaysExecuted(working'.traces[p])
        BY <3>1 DEF Kept
      <4>2. QED
        BY <1>2, <1>3, <1>8, <3>1, <3>2, <3>4, <4>1, TightStays
    <3>5. QED
      BY <3>3, <3>4
  <2>5. QED
    BY <2>3, <2>4
<1>9. QED
  BY <1>6, <1>7, <1>8 DEF BudgetOf

LEMMA BudgetRestart ==
  ASSUME TypeInv, Restart, NEW p \in Proposals, BudgetOf(p)
  PROVE  BudgetOf(p)'
<1>1. /\ \A t \in Threads : req'[t] = None
      /\ cached'[p] = None
      /\ working' = durable /\ UNCHANGED <<durable, home>>
      /\ excuses'[p] = IF \E t \in Servers(p) : Unrecorded(t) THEN excuses[p] + 1 ELSE excuses[p]
  BY RestartDoes
<1>2. home[p] \in Nat /\ excuses[p] \in Nat
  BY DEF TypeInv, TypeOK
<1>3. Servers(p)' = {} /\ Pending(p)' = {}
  BY <1>1, NoneAssumption DEF Servers, Pending
<1>4. Cardinality(Pending(p)') = 0
  BY <1>3, FS_EmptySet
<1>5. PICK n \in Nat : n = Cardinality(Pending(p))
  BY BudgetFacts
<1>6. home'[p] = home[p] /\ home'[p] <= 1 + excuses'[p]
  BY <1>1, <1>2 DEF BudgetOf
<1>7. CASE home[p] <= excuses'[p]
  <2>1. home'[p] + 0 <= excuses'[p]
    BY <1>2, <1>6, <1>7
  <2>2. QED
    BY <1>4, <1>6, <2>1 DEF BudgetOf, Roomy
<1>8. CASE ~(home[p] <= excuses'[p])
  <2>1. ~Roomy(p)
    BY <1>1, <1>2, <1>5, <1>8 DEF Roomy
  <2>2. Kept(p)
    <3>1. CASE Tight(p)
      <4>1. home[p] + n = 1 + excuses[p]
        BY <1>5, <3>1 DEF Tight
      <4>2. excuses'[p] = excuses[p] /\ n = 0
        BY <1>1, <1>2, <1>8, <4>1
      <4>3. Pending(p) = {} /\ ~\E t \in Servers(p) : Unrecorded(t)
        <5>1. Pending(p) = {}
          <6>1. IsFiniteSet(Pending(p))
            BY BudgetFacts, RuntimeAssumption, FS_Subset
          <6>2. QED
            BY <1>5, <4>2, <6>1, FS_EmptySet
        <5>2. QED
          BY <1>1, <1>2, <4>2, <5>1
      <4>4. PICK t \in Servers(p) : Carrying(t)
        BY <3>1, <4>3 DEF Tight
      <4>5. QED
        BY <4>3, <4>4 DEF Carrying, Servers
    <3>2. QED
      BY <2>1, <3>1 DEF BudgetOf, Calm
  <2>3. Calm(p)'
    BY <1>1, <1>3, <2>2, NoneAssumption DEF Calm, Kept, Flag
  <2>4. QED
    BY <1>6, <2>3 DEF BudgetOf
<1>9. QED
  BY <1>7, <1>8

LEMMA BudgetInductive == TypeInv /\ TypeInv' /\ Billed /\ Budget /\ [Next]_vars => Budget'
<1> SUFFICES ASSUME TypeInv, TypeInv', Billed, Budget, [Next]_vars, ~torn', NEW p \in Proposals
             PROVE  BudgetOf(p)'
  BY DEF Budget
<1>1. CASE Restart
  <2>1. BudgetOf(p)
    BY <1>1, RestartDoes DEF Budget
  <2>2. QED
    BY <1>1, <2>1, BudgetRestart
<1>2. ASSUME NEW t \in Threads, Serve(t) PROVE BudgetOf(p)'
  <2>1. ~torn /\ BudgetOf(p)
    BY <1>2, TablesGrow DEF Budget
  <2>2. CASE Submit(t, p) \/ \E c \in {"approved", "rejected"} : ReadProposal(t, p, c)
    BY <2>1, <2>2, BudgetBegin
  <2>3. CASE pc[t] # "idle" /\ req[t] = p /\ req'[t] = p
    BY <1>2, <2>1, <2>3, BudgetOwn
  <2>4. CASE (Notify(t) \/ WriteFails(t)) /\ req[t] = p
    BY <2>1, <2>4, BudgetEnd
  <2>5. CASE req[t] # p /\ req'[t] # p
    BY <1>2, <2>1, <2>5, BudgetElsewhere
  <2>6. QED
    BY <1>2, <2>2, <2>3, <2>4, <2>5, ServeKinds
<1>3. CASE UNCHANGED vars
  <2>1. UNCHANGED <<working, durable, cached, home, excuses, torn, pc, req, answer, own, trace>>
    BY <1>3 DEF vars, connectionVars, threadVars, historyVars
  <2>2. Servers(p)' = Servers(p) /\ Pending(p)' = Pending(p)
    BY <2>1 DEF Servers, Pending
  <2>3. BudgetOf(p)
    BY <2>1 DEF Budget
  <2>4. QED
    BY <2>1, <2>2, <2>3 DEF BudgetOf, Calm, Heeds, Roomy, Tight, Carrying, Confirms, Kept, Unrecorded
<1>4. QED
  BY <1>1, <1>2, <1>3 DEF Next

(* Approving a proposal again does not repeat its action in the home: each *)
(* execution after the first has a confirmation of its own that raced, or  *)
(* whose record was lost, unless a rollback hit the transaction of another *)
(* thread.                                                                 *)
THEOREM RepeatsExcusedCorrect == Spec => []RepeatsExcused
<1>1. Init => Budget
  <2> SUFFICES ASSUME Init, NEW p \in Proposals PROVE BudgetOf(p)
    BY DEF Budget
  <2>1. home[p] = 0 /\ excuses[p] = 0 /\ Pending(p) = {}
    BY NoneAssumption DEF Init, Pending, Servers
  <2>2. Cardinality(Pending(p)) = 0
    BY <2>1, FS_EmptySet
  <2>3. QED
    BY <2>1, <2>2 DEF BudgetOf, Roomy
<1>2. Budget => RepeatsExcused
  BY DEF Budget, BudgetOf, RepeatsExcused
<1>3. QED
  BY <1>1, <1>2, TypeInvHolds, BilledHolds, BudgetInductive, PTL DEF Spec
=============================================================================
