--------------------------- MODULE UsageLimit_proof ---------------------------
(* Theorems about UsageLimit, for every limit, reserve and cost of a call, *)
(* and any number of threads, requests and months.                         *)
EXTENDS UsageLimit, FiniteSetTheorems, TLAPS

Request == [id : Ids, kind : Kinds]
Proposals == {"capture", "demo_capture"}

(* A thread that is not idle serves a request, and has got as far as its   *)
(* kind of request gets.                                                   *)
Serving ==
  \A t \in Busy :
    /\ req[t] \in Request
    /\ pc[t] \in {"preflight", "check"} => req[t].kind \in Metered
    /\ pc[t] \in {"save", "save_commit"} => req[t].kind \in Proposals

TypeInv == TypeOK /\ Serving

-----------------------------------------------------------------------------
LEMMA InitType == Init => TypeInv
<1> SUFFICES ASSUME Init PROVE TypeInv
  OBVIOUS
<1> USE DEF Init
<1>1. 1 \in Months /\ 0 \in 0 .. MaxRequests /\ EmptyDatabase \in Database
  BY LimitAssumption DEF Months, EmptyDatabase, Database
<1>2. TypeOK
  BY <1>1 DEF TypeOK, Steps
<1>3. Serving
  BY DEF Serving, Busy
<1>4. QED
  BY <1>2, <1>3 DEF TypeInv

(* What a thread that works has at hand.                                   *)
LEMMA ThreadFacts ==
  ASSUME TypeInv, NEW t \in Threads
  PROVE  /\ pc[t] \in Steps /\ tokens[t] \in Nat /\ dated[t] \in Months
         /\ refused[t] \in BOOLEAN /\ raced[t] \in BOOLEAN
         /\ pc[t] # "idle" => req[t] \in Request /\ req[t].id \in Ids /\ req[t].kind \in Kinds
         /\ pc[t] \in {"preflight", "check"} => req[t].kind \in Metered
         /\ pc[t] \in {"save", "save_commit"} => req[t].kind \in Proposals
BY DEF TypeInv, TypeOK, Serving, Busy, Request

(* The types of the threads, after a step of one of them.                  *)
ThreadsOK ==
  /\ pc \in [Threads -> Steps]
  /\ req \in [Threads -> [id : Ids, kind : Kinds] \union {None}]
  /\ tokens \in [Threads -> Nat] /\ dated \in [Threads -> Months]
  /\ refused \in [Threads -> BOOLEAN] /\ raced \in [Threads -> BOOLEAN]

TablesOK ==
  /\ working \in Database /\ durable \in Database
  /\ month \in Months /\ clock \in 0 .. MaxRequests
  /\ called \subseteq Ids /\ cut \subseteq Ids
  /\ unread \subseteq Ids /\ dropped \subseteq Ids
  /\ demo \in [Months -> Nat]
  /\ torn \in BOOLEAN

LEMMA Types == TypeOK <=> ThreadsOK /\ TablesOK
BY DEF TypeOK, ThreadsOK, TablesOK

LEMMA ThreadTypes ==
  ASSUME TypeInv, NEW t \in Threads, ThreadsOK', TablesOK',
         \A u \in Threads \ {t} : pc'[u] = pc[u] /\ req'[u] = req[u],
         pc'[t] # "idle" =>
           /\ req'[t] \in Request
           /\ pc'[t] \in {"preflight", "check"} => req'[t].kind \in Metered
           /\ pc'[t] \in {"save", "save_commit"} => req'[t].kind \in Proposals
  PROVE  TypeInv'
<1>1. TypeOK'
  BY DEF TypeOK, ThreadsOK, TablesOK
<1>2. Serving'
  BY DEF TypeInv, Serving, Busy
<1>3. QED
  BY <1>1, <1>2 DEF TypeInv

LEMMA FinishTypes ==
  ASSUME TypeInv, NEW t \in Threads, Finish(t), TablesOK'
  PROVE  TypeInv'
<1>1. ThreadsOK /\ 1 \in Months
  BY LimitAssumption DEF TypeInv, TypeOK, ThreadsOK, Months
<1>2. ThreadsOK'
  BY <1>1 DEF Finish, Goto, ThreadsOK, Steps
<1>3. /\ \A u \in Threads \ {t} : pc'[u] = pc[u] /\ req'[u] = req[u]
      /\ pc'[t] = "idle"
  BY <1>1 DEF Finish, Goto, ThreadsOK
<1>4. QED
  BY <1>2, <1>3, ThreadTypes

(* A thread goes on with its request.                                      *)
LEMMA GotoTypes ==
  ASSUME TypeInv, NEW t \in Threads, NEW step \in Steps, pc[t] # "idle",
         Goto(t, step), UNCHANGED <<req, raced>>, TablesOK',
         tokens' \in [Threads -> Nat], dated' \in [Threads -> Months],
         refused' \in [Threads -> BOOLEAN],
         step \in {"preflight", "check"} => req[t].kind \in Metered,
         step \in {"save", "save_commit"} => req[t].kind \in Proposals
  PROVE  TypeInv'
<1>1. ThreadsOK
  BY DEF TypeInv, TypeOK, ThreadsOK
<1>2. ThreadsOK'
  BY <1>1 DEF Goto, ThreadsOK
<1>3. /\ \A u \in Threads \ {t} : pc'[u] = pc[u] /\ req'[u] = req[u]
      /\ pc'[t] = step /\ req'[t] = req[t]
  BY <1>1 DEF Goto, ThreadsOK
<1>4. QED
  BY <1>2, <1>3, ThreadTypes, ThreadFacts

LEMMA DatabaseWrites ==
  ASSUME NEW db \in Database, NEW i \in Ids
  PROVE  /\ [db EXCEPT !.saved = @ \union {i}] \in Database
         /\ [db EXCEPT !.costs = @ \union {i}] \in Database
         /\ [db EXCEPT !.traces = @ \union {i}] \in Database
         /\ \A m \in Months, n \in Nat :
              [db EXCEPT !.used[m] = @ + n, !.ledger = @ \union {i}] \in Database
<1>1. /\ [db EXCEPT !.saved = @ \union {i}] \in Database
      /\ [db EXCEPT !.costs = @ \union {i}] \in Database
      /\ [db EXCEPT !.traces = @ \union {i}] \in Database
  BY DEF Database
<1>2. ASSUME NEW m \in Months, NEW n \in Nat
      PROVE  [db EXCEPT !.used[m] = @ + n, !.ledger = @ \union {i}] \in Database
  <2>1. /\ db.used \in [Months -> Nat] /\ db.ledger \union {i} \subseteq Ids /\ db.costs \subseteq Ids
        /\ db.traces \subseteq Ids /\ db.saved \subseteq Ids
    BY DEF Database
  <2>2. db.used[m] + n \in Nat
    BY <2>1
  <2>3. [db.used EXCEPT ![m] = db.used[m] + n] \in [Months -> Nat]
    BY <2>1, <2>2
  <2>4. PICK f \in [Months -> Nat] : f = [db.used EXCEPT ![m] = db.used[m] + n]
    BY <2>3
  <2>5. [db EXCEPT !.used = f, !.ledger = db.ledger \union {i}] \in Database
    BY <2>1 DEF Database
  <2>6. [db EXCEPT !.used[m] = @ + n, !.ledger = @ \union {i}]
          = [db EXCEPT !.used = f, !.ledger = db.ledger \union {i}]
    BY <2>4 DEF Database
  <2>7. QED
    BY <2>5, <2>6
<1>3. QED
  BY <1>1, <1>2

(* Where an answer leads.                                                  *)
LEMMA StepsAfter ==
  ASSUME NEW kind \in Kinds, NEW reply \in Replies(kind), reply \notin {"unconfigured", "dropped"}
  PROVE  /\ StepAfter(kind, reply) \in {"trace", "record", "check", "save"}
         /\ (StepAfter(kind, reply) = "trace") <=> (reply \in {"unread", "unreachable"})
         /\ StepAfter(kind, reply) = "check" => kind \in Metered
         /\ StepAfter(kind, reply) = "save" => kind = "demo_capture"
         /\ StepAfter(kind, reply) = "record" /\ kind \in Metered => reply = "invalid"
<1>1. CASE kind = "message"
  BY <1>1 DEF StepAfter, Replies, Metered
<1>2. CASE kind \in Metered
  <2>1. reply \in {"ok", "invalid", "unread", "unreachable"}
    BY <1>2 DEF Replies, Metered
  <2>2. QED
    BY <1>2, <2>1 DEF StepAfter, Metered
<1>3. CASE kind \in {"demo_capture", "demo_query"}
  <2>1. reply = "ok"
    BY <1>3 DEF Replies, Metered
  <2>2. QED
    BY <1>3, <2>1 DEF StepAfter, Metered
<1>4. QED
  BY <1>1, <1>2, <1>3 DEF Kinds, Metered

-----------------------------------------------------------------------------
LEMMA ServeTypes ==
  ASSUME TypeInv, NEW t \in Threads, Serve(t)
  PROVE  TypeInv'
<1> DEFINE i == req[t].id
<1>0. /\ ThreadsOK /\ TablesOK
      /\ tokens \in [Threads -> Nat] /\ dated \in [Threads -> Months]
      /\ refused \in [Threads -> BOOLEAN]
  BY DEF TypeInv, TypeOK, ThreadsOK, TablesOK
<1>1. ASSUME NEW kind \in Kinds, Begin(t, kind) PROVE TypeInv'
  <2>1. PICK r : r = [id |-> clock + 1, kind |-> kind]
    OBVIOUS
  <2>2. clock' = clock + 1 /\ clock' \in 0 .. MaxRequests /\ r \in Request /\ r.kind = kind
    BY <1>0, <1>1, <2>1, LimitAssumption DEF Begin, Request, Ids, TablesOK
  <2>3. raced' \in [Threads -> BOOLEAN]
    BY <1>0, <1>1 DEF Begin, Busy, ThreadsOK
  <2>4. req' = [req EXCEPT ![t] = r]
    BY <1>1, <2>1, <2>2 DEF Begin
  <2>5. PICK step \in {"preflight", "call"} :
          pc' = [pc EXCEPT ![t] = step] /\ (step = "preflight" => kind \in Metered)
    BY <1>1 DEF Begin, Goto
  <2>6. TablesOK'
    BY <1>0, <1>1, <2>2 DEF Begin, TablesOK, connectionVars
  <2>7. ThreadsOK'
    BY <1>0, <1>1, <2>2, <2>3, <2>4, <2>5 DEF Begin, ThreadsOK, Steps, Request
  <2>8. /\ \A u \in Threads \ {t} : pc'[u] = pc[u] /\ req'[u] = req[u]
        /\ pc'[t] = step /\ req'[t] = r
    BY <1>0, <2>4, <2>5 DEF ThreadsOK
  <2>9. QED
    BY <2>2, <2>5, <2>6, <2>7, <2>8, ThreadTypes
<1>2. CASE Preflight(t)
  <2>1. TablesOK'
    BY <1>0, <1>2 DEF Preflight, TablesOK, connectionVars
  <2>2. CASE Goto(t, "call") /\ UNCHANGED <<req, tokens, dated, refused, raced>>
    BY <1>0, <1>2, <2>1, <2>2, GotoTypes DEF Preflight, Steps
  <2>3. CASE Finish(t)
    BY <2>1, <2>3, FinishTypes
  <2>4. QED
    BY <1>2, <2>2, <2>3 DEF Preflight
<1>3. CASE CallModel(t)
  <2>1. i \in Ids /\ pc[t] = "call" /\ req[t].kind \in Kinds
    BY <1>3, ThreadFacts DEF CallModel
  <2>2. TablesOK'
    <3>1. /\ UNCHANGED <<working, durable, month, clock, cut, demo, torn>>
          /\ unread' \in {unread, unread \union {i}} /\ dropped' \in {dropped, dropped \union {i}}
          /\ called' \in {called, called \union {i}}
      BY <1>3 DEF CallModel, connectionVars
    <3>2. QED
      BY <1>0, <2>1, <3>1 DEF TablesOK
  <2>3. CASE Finish(t)
    BY <2>2, <2>3, FinishTypes
  <2>4. CASE ~Finish(t)
    <3>1. PICK reply \in Replies(req[t].kind), cost \in Costs :
            /\ tokens' = [tokens EXCEPT ![t] = IF reply \in {"unread", "unreachable"} THEN 0 ELSE cost]
            /\ refused' = [refused EXCEPT ![t] = reply # "ok"]
            /\ Goto(t, StepAfter(req[t].kind, reply))
            /\ UNCHANGED <<req, dated, raced>>
            /\ reply \notin {"unconfigured", "dropped"}
      BY <1>3, <2>4 DEF CallModel
    <3>2. tokens' \in [Threads -> Nat] /\ refused' \in [Threads -> BOOLEAN] /\ dated' = dated
      BY <1>0, <3>1, LimitAssumption
    <3>3. PICK step : step = StepAfter(req[t].kind, reply)
      OBVIOUS
    <3>4. /\ step \in {"trace", "record", "check", "save"}
          /\ step = "check" => req[t].kind \in Metered
          /\ step = "save" => req[t].kind \in Proposals
      BY <2>1, <3>1, <3>3, StepsAfter DEF Proposals
    <3>5. Goto(t, step) /\ UNCHANGED <<req, raced>> /\ step \in Steps /\ step # "preflight" /\ step # "save_commit"
      BY <3>1, <3>3, <3>4 DEF Steps
    <3>6. QED
      BY <1>0, <2>1, <2>2, <3>2, <3>4, <3>5, GotoTypes
  <2>5. QED
    BY <2>3, <2>4
<1>4. CASE CheckActual(t)
  <2>1. PICK step \in {"save", "record"} :
          Goto(t, step) /\ (step = "save" => req[t].kind \in Proposals)
    BY <1>4 DEF CheckActual, Proposals
  <2>2. refused' \in [Threads -> BOOLEAN]
    BY <1>0, <1>4 DEF CheckActual, Within
  <2>3. TablesOK'
    BY <1>0, <1>4 DEF CheckActual, TablesOK, connectionVars, historyVars
  <2>4. step \in Steps /\ pc[t] # "idle" /\ UNCHANGED <<req, raced, tokens, dated>>
    BY <1>4 DEF Steps, CheckActual, historyVars
  <2>5. QED
    BY <1>0, <2>1, <2>2, <2>3, <2>4, GotoTypes
<1>5. CASE EnforceLimit(t)
  <2>1. TablesOK'
    BY <1>0, <1>5 DEF EnforceLimit, TablesOK, connectionVars
  <2>2. CASE Finish(t)
    BY <2>1, <2>2, FinishTypes
  <2>3. CASE /\ dated' = [dated EXCEPT ![t] = month] /\ Goto(t, "bill")
             /\ UNCHANGED <<req, tokens, refused, raced, called>>
    <3>1. dated' \in [Threads -> Months] /\ pc[t] # "idle" /\ "bill" \in Steps
      BY <1>0, <1>5, <2>3 DEF EnforceLimit, Steps, TablesOK
    <3>2. QED
      BY <1>0, <2>1, <2>3, <3>1, GotoTypes
  <2>4. QED
    BY <1>5, <2>2, <2>3 DEF EnforceLimit
<1>6. CASE SaveProposal(t) \/ InsertUsage(t) \/ RecordCost(t) \/ SaveTrace(t)
  <2>1. i \in Ids /\ pc[t] # "idle" /\ tokens[t] \in Nat /\ dated[t] \in Months
    BY <1>6, ThreadFacts DEF SaveProposal, InsertUsage, RecordCost, SaveTrace
  <2>2. demo' \in [Months -> Nat]
    <3>1. CASE demo' = demo
      BY <1>0, <3>1 DEF TablesOK
    <3>2. CASE InsertUsage(t)
      BY <1>0, <2>1, <3>2 DEF InsertUsage, TablesOK
    <3>3. QED
      BY <1>6, <3>1, <3>2 DEF SaveProposal, RecordCost, SaveTrace, historyVars
  <2>3. working' \in Database /\ durable' = durable
    <3>1. working \in Database
      BY <1>0 DEF TablesOK
    <3>2. CASE InsertUsage(t)
      BY <2>1, <3>1, <3>2, DatabaseWrites DEF InsertUsage, Execute
    <3>3. CASE SaveProposal(t) \/ RecordCost(t) \/ SaveTrace(t)
      BY <2>1, <3>1, <3>3, DatabaseWrites DEF SaveProposal, RecordCost, SaveTrace, Execute
    <3>4. QED
      BY <1>6, <3>2, <3>3
  <2>4. UNCHANGED <<month, clock, req, tokens, dated, refused, raced, called, cut, unread, dropped, torn>>
    BY <1>6 DEF SaveProposal, InsertUsage, RecordCost, SaveTrace, historyVars
  <2>5. TablesOK'
    BY <1>0, <2>2, <2>3, <2>4 DEF TablesOK
  <2>6. PICK step \in {"save_commit", "bill_commit", "cost_commit", "trace_commit"} :
          Goto(t, step) /\ (step = "save_commit" => req[t].kind \in Proposals)
    BY <1>6, ThreadFacts DEF SaveProposal, InsertUsage, RecordCost, SaveTrace
  <2>7. step \in Steps
    BY DEF Steps, Uncommitted
  <2>8. QED
    BY <1>0, <2>1, <2>4, <2>5, <2>6, <2>7, GotoTypes
<1>7. CASE CommitWrite(t)
  <2>1. PICK step \in {"record", "cost", "trace"} : Goto(t, step)
    BY <1>7 DEF CommitWrite, Uncommitted
  <2>2. step \in Steps /\ pc[t] # "idle" /\ UNCHANGED <<req, raced, tokens, dated, refused>>
    BY <1>7 DEF Steps, CommitWrite, Uncommitted, historyVars
  <2>3. TablesOK'
    BY <1>0, <1>7 DEF CommitWrite, Commit, historyVars, TablesOK
  <2>4. QED
    BY <1>0, <2>1, <2>2, <2>3, GotoTypes
<1>8. CASE CommitTrace(t)
  <2>1. TablesOK'
    BY <1>0, <1>8 DEF CommitTrace, Commit, TablesOK
  <2>2. QED
    BY <1>8, <2>1, FinishTypes DEF CommitTrace
<1>9. CASE WriteFails(t)
  <2>1. i \in Ids
    BY <1>9, ThreadFacts DEF WriteFails, Uncommitted
  <2>2. TablesOK'
    BY <1>0, <1>9, <2>1 DEF WriteFails, Rollback, TablesOK
  <2>3. QED
    BY <1>9, <2>2, FinishTypes DEF WriteFails
<1>10. QED
  BY <1>1, <1>2, <1>3, <1>4, <1>5, <1>6, <1>7, <1>8, <1>9 DEF Serve

LEMMA StepTypes == TypeInv /\ [Next]_vars => TypeInv'
<1> SUFFICES ASSUME TypeInv, [Next]_vars PROVE TypeInv'
  OBVIOUS
<1>1. CASE Restart
  <2>1. /\ 1 \in Months /\ "idle" \in Steps
        /\ cut' \subseteq Ids
    BY <1>1, ThreadFacts, LimitAssumption DEF Restart, Busy, Months, Steps, TypeInv, TypeOK, Serving,
                                              Request
  <2>2. TypeOK'
    BY <1>1, <2>1 DEF Restart, Rollback, TypeInv, TypeOK
  <2>3. Serving'
    BY <1>1 DEF Restart, Serving, Busy
  <2>4. QED
    BY <2>2, <2>3 DEF TypeInv
<1>2. CASE NextMonth
  BY <1>2, LimitAssumption DEF NextMonth, connectionVars, threadVars, historyVars, TypeInv, TypeOK,
                               Serving, Busy, Months
<1>3. CASE UNCHANGED vars
  BY <1>3 DEF vars, connectionVars, threadVars, historyVars, TypeInv, TypeOK, Serving, Busy
<1>4. QED
  BY <1>1, <1>2, <1>3, ServeTypes DEF Next

LEMMA Typing == Spec => []TypeInv
BY InitType, StepTypes, PTL DEF Spec

(* Months, tokens, tables and threads keep their types.                    *)
THEOREM TypeCorrect == Spec => []TypeOK
<1>1. TypeInv => TypeOK
  BY DEF TypeInv
<1>2. QED
  BY <1>1, Typing, PTL

-----------------------------------------------------------------------------
(* The books agree.  Nothing that is committed leaves the tables that a    *)
(* statement reads; identifiers are handed out once; a request whose       *)
(* transaction is open finds its row in what is about to be committed, and *)
(* one that is further along finds it committed.                           *)
Contained ==
  /\ durable.ledger \subseteq working.ledger /\ durable.costs \subseteq working.costs
  /\ durable.traces \subseteq working.traces /\ durable.saved \subseteq working.saved

Paid == called \union working.saved

Numbered ==
  /\ \A t \in Busy : req[t].id <= clock
  /\ \A t, u \in Busy : req[t].id = req[u].id => t = u
  /\ \A i \in Paid : i <= clock

Entered(t) ==
  LET i == req[t].id IN
  /\ pc[t] \in {"preflight", "call"} => i \notin Paid
  /\ req[t].kind = "message" => i \notin working.saved
  /\ pc[t] = "bill_commit" => i \in working.ledger
  /\ pc[t] \in {"cost", "cost_commit"} => i \in durable.ledger
  /\ pc[t] = "cost_commit" => i \in working.costs
  /\ pc[t] \in {"trace", "trace_commit"} /\ i \in Paid \ unread =>
       i \in durable.ledger \intersect durable.costs
  /\ pc[t] = "trace_commit" => i \in working.traces

Entire(i) == i \in durable.traces /\ (i \in unread \/ i \in durable.ledger \intersect durable.costs)

Billed == \A i \in Paid \ (InFlight \union cut \union dropped) : Entire(i)

BooksInv ==
  /\ Contained /\ Numbered
  /\ torn \/ /\ working.costs \subseteq working.ledger /\ durable.costs \subseteq durable.ledger
             /\ Billed
             /\ \A t \in Busy : Entered(t)

LEMMA InitBooks == Init => BooksInv
BY DEF Init, BooksInv, Contained, Numbered, Billed, Paid, Busy, EmptyDatabase

(* A thread that works goes on, or ends with its request entered in full.  *)
LEMMA BooksGoOn ==
  ASSUME TypeInv, TypeInv', BooksInv, NEW t \in Threads, t \in Busy,
         \A u \in Threads \ {t} : pc'[u] = pc[u] /\ req'[u] = req[u],
         clock' = clock, torn' = torn, cut' = cut, unread \subseteq unread', dropped \subseteq dropped',
         working.ledger \subseteq working'.ledger, working.costs \subseteq working'.costs,
         working.traces \subseteq working'.traces,
         durable.ledger \subseteq durable'.ledger, durable.costs \subseteq durable'.costs,
         durable.traces \subseteq durable'.traces,
         durable'.ledger \subseteq working'.ledger, durable'.costs \subseteq working'.costs,
         durable'.traces \subseteq working'.traces, durable'.saved \subseteq working'.saved,
         called' \subseteq called \union {req[t].id},
         working'.saved \subseteq working.saved \union {req[t].id},
         torn \/ (working'.costs \subseteq working'.ledger /\ durable'.costs \subseteq durable'.ledger),
         pc'[t] # "idle" => req'[t] = req[t] /\ (torn \/ Entered(t)'),
         pc'[t] = "idle" =>
           \/ torn \/ req[t].id \in dropped' \/ req[t].id \notin Paid'
           \/ /\ req[t].id \in durable'.traces
              /\ req[t].id \in unread' \/ req[t].id \in durable'.ledger \intersect durable'.costs
  PROVE  BooksInv'
<1>1. PICK i \in Ids : i = req[t].id
  BY ThreadFacts DEF Busy
<1>2. Contained /\ Numbered
  BY DEF BooksInv
<1>3. Paid' \subseteq Paid \union {i}
  BY <1>1 DEF Paid
<1>4. \A u \in Busy' : u \in Busy /\ req'[u] = req[u]
  BY DEF Busy
<1>5. Numbered'
  <2>1. i <= clock
    BY <1>1, <1>2 DEF Numbered
  <2>2. QED
    BY <1>2, <1>3, <1>4, <2>1 DEF Numbered
<1>6. Contained'
  BY DEF Contained
<1>7. ASSUME ~torn
      PROVE  /\ Billed' /\ \A u \in Busy' : Entered(u)'
  <2>1. Billed /\ \A u \in Busy : Entered(u)
    BY <1>7 DEF BooksInv
  <2>2. ASSUME NEW j \in Paid' \ (InFlight' \union cut' \union dropped')
        PROVE  Entire(j)'
    <3>1. CASE j = i
      <4>1. pc'[t] = "idle"
        BY <1>1, <1>4, <2>2, <3>1 DEF InFlight, Busy
      <4>2. QED
        BY <1>1, <1>7, <2>2, <3>1, <4>1 DEF Entire
    <3>2. CASE j # i
      <4>1. j \in Paid /\ j \notin cut \union dropped
        BY <1>3, <2>2, <3>2
      <4>2. j \notin InFlight
        BY <1>1, <2>2, <3>2 DEF InFlight, Busy
      <4>3. QED
        BY <2>1, <4>1, <4>2 DEF Billed, Entire
    <3>3. QED
      BY <3>1, <3>2
  <2>3. ASSUME NEW u \in Busy' PROVE Entered(u)'
    <3>1. CASE u = t
      BY <1>7, <2>3, <3>1 DEF Busy
    <3>2. CASE u # t
      <4>1. /\ u \in Threads /\ u \in Busy /\ pc'[u] = pc[u] /\ req'[u] = req[u] /\ req[u].id # i
        BY <1>1, <1>2, <1>4, <2>3, <3>2 DEF Busy, Numbered
      <4>2. Entered(u)
        BY <2>1, <4>1
      <4>3. PICK j : j = req[u].id
        OBVIOUS
      <4>4. /\ j \in Paid' \ unread' => j \in Paid \ unread
            /\ j \in Paid' => j \in Paid
            /\ j \in working'.saved => j \in working.saved
        BY <1>1, <1>3, <4>1, <4>3
      <4>5. QED
        BY <4>1, <4>2, <4>3, <4>4 DEF Entered
    <3>3. QED
      BY <3>1, <3>2
  <2>4. QED
    BY <2>2, <2>3 DEF Billed
<1>8. QED
  BY <1>5, <1>6, <1>7 DEF BooksInv

(* The transaction is rolled back, and what fails is cut short.            *)
LEMMA BooksRollback ==
  ASSUME TypeInv, BooksInv, Rollback, UNCHANGED <<clock, called, unread, dropped>>, cut \subseteq cut',
         \A u \in Busy' : u \in Busy /\ pc'[u] = pc[u] /\ req'[u] = req[u],
         \A u \in Busy \ Busy' : req[u].id \in cut',
         torn => torn',
         ~torn' => \A u \in Busy' : pc[u] \notin Uncommitted
  PROVE  BooksInv'
<1>1. working' = durable /\ durable' = durable
  BY DEF Rollback
<1>2. Contained /\ Numbered
  BY DEF BooksInv
<1>3. Paid' \subseteq Paid /\ working'.saved \subseteq working.saved
  BY <1>1, <1>2 DEF Paid, Contained
<1>4. Contained'
  BY <1>1 DEF Contained
<1>5. Numbered'
  BY <1>2, <1>3 DEF Numbered
<1>6. ASSUME ~torn' PROVE Billed' /\ \A u \in Busy' : Entered(u)'
  <2>1. Billed /\ \A u \in Busy : Entered(u)
    BY <1>6 DEF BooksInv
  <2>2. ASSUME NEW j \in Paid' \ (InFlight' \union cut' \union dropped')
        PROVE  Entire(j)'
    <3>1. j \in Paid /\ j \notin cut \union dropped
      BY <1>3, <2>2
    <3>2. j \notin InFlight
      BY <2>2 DEF InFlight
    <3>3. QED
      BY <1>1, <2>1, <3>1, <3>2 DEF Billed, Entire
  <2>3. ASSUME NEW u \in Busy' PROVE Entered(u)'
    <3>1. u \in Busy /\ pc'[u] = pc[u] /\ req'[u] = req[u] /\ pc[u] \notin Uncommitted
      BY <1>6, <2>3
    <3>2. Entered(u)
      BY <2>1, <3>1
    <3>3. PICK j : j = req[u].id
      OBVIOUS
    <3>4. QED
      BY <1>1, <1>3, <3>1, <3>2, <3>3 DEF Entered, Uncommitted
  <2>4. QED
    BY <2>2, <2>3 DEF Billed
<1>7. ~torn' => working'.costs \subseteq working'.ledger /\ durable'.costs \subseteq durable'.ledger
  BY <1>1 DEF BooksInv
<1>8. QED
  BY <1>4, <1>5, <1>6, <1>7 DEF BooksInv

(* Moving one thread moves no other.                                       *)
LEMMA OthersStay ==
  ASSUME TypeInv, NEW t \in Threads
  PROVE  /\ Finish(t) => /\ pc'[t] = "idle"
                         /\ \A u \in Threads \ {t} : pc'[u] = pc[u] /\ req'[u] = req[u]
         /\ \A step : Goto(t, step) /\ UNCHANGED req =>
              /\ pc'[t] = step /\ req'[t] = req[t]
              /\ \A u \in Threads \ {t} : pc'[u] = pc[u] /\ req'[u] = req[u]
BY DEF Finish, Goto, TypeInv, TypeOK

(* The call ends its request there, and is among the losses if it was      *)
(* paid; or its thread goes on with what it took.                          *)
CallFailed(t) ==
  /\ Finish(t)
  /\ unread' = unread
  /\ \/ dropped' = dropped \union {req[t].id} /\ called' = called \union {req[t].id}
     \/ dropped' = dropped /\ called' = called
CallAnswered(t) ==
  /\ \E n \in Costs \union {0} : tokens' = [tokens EXCEPT ![t] = n]
  /\ refused' \in [Threads -> BOOLEAN]
  /\ \E step \in {"trace", "record", "check", "save"} :
       /\ Goto(t, step)
       /\ \/ step = "trace" /\ unread' = unread \union {req[t].id}
          \/ (step = "trace" => called' = called) /\ unread' = unread
       /\ step = "check" => req[t].kind \in Metered
       /\ step = "save" => req[t].kind = "demo_capture"
       /\ step = "record" /\ req[t].kind \in Metered => refused'[t]
  /\ UNCHANGED <<req, dated, raced, dropped>>

LEMMA CallOutcome ==
  ASSUME TypeInv, NEW t \in Threads, CallModel(t)
  PROVE  CallFailed(t) \/ CallAnswered(t)
<1>1. pc[t] = "call" /\ req[t].kind \in Kinds
  BY ThreadFacts DEF CallModel
<1>2. SUFFICES ASSUME ~CallFailed(t) PROVE CallAnswered(t)
  OBVIOUS
<1>3. PICK reply \in Replies(req[t].kind), cost \in Costs :
        /\ tokens' = [tokens EXCEPT ![t] = IF reply \in {"unread", "unreachable"} THEN 0 ELSE cost]
        /\ refused' = [refused EXCEPT ![t] = reply # "ok"]
        /\ called' = IF reply \in {"unreachable", "unconfigured"}
                     THEN called ELSE called \union {req[t].id}
        /\ unread' = IF reply = "unread" THEN unread \union {req[t].id} ELSE unread
        /\ Goto(t, StepAfter(req[t].kind, reply))
        /\ UNCHANGED <<req, dated, raced, dropped>>
        /\ reply \notin {"unconfigured", "dropped"}
  BY <1>2 DEF CallModel, CallFailed
<1>4. PICK step : step = StepAfter(req[t].kind, reply)
  OBVIOUS
<1>5. /\ step \in {"trace", "record", "check", "save"}
      /\ (step = "trace") <=> (reply \in {"unread", "unreachable"})
      /\ step = "check" => req[t].kind \in Metered
      /\ step = "save" => req[t].kind = "demo_capture"
      /\ step = "record" /\ req[t].kind \in Metered => reply = "invalid"
  BY <1>1, <1>3, <1>4, StepsAfter
<1>6. \E n \in Costs \union {0} : tokens' = [tokens EXCEPT ![t] = n]
  BY <1>3
<1>7. refused \in [Threads -> BOOLEAN] /\ refused' \in [Threads -> BOOLEAN] /\ refused'[t] = (reply # "ok")
  BY <1>3 DEF TypeInv, TypeOK
<1>8. Goto(t, step)
  BY <1>3, <1>4
<1>9. QED
  BY <1>3, <1>5, <1>6, <1>7, <1>8 DEF CallAnswered

LEMMA BeginBooks ==
  ASSUME TypeInv, BooksInv, NEW t \in Threads, NEW kind \in Kinds, Begin(t, kind)
  PROVE  BooksInv'
<1>1. PICK i : i = clock + 1
  OBVIOUS
<1>2. PICK r : r = [id |-> i, kind |-> kind]
  OBVIOUS
<1>3. /\ clock \in Nat /\ clock' = i /\ clock < i /\ r.id = i /\ r.kind = kind
      /\ pc[t] = "idle" /\ pc'[t] \in {"preflight", "call"} /\ req'[t] = r
      /\ \A u \in Threads \ {t} : pc'[u] = pc[u] /\ req'[u] = req[u]
  BY <1>1, <1>2, LimitAssumption DEF Begin, Goto, TypeInv, TypeOK
<1>4. /\ UNCHANGED <<working, durable, called, cut, unread, dropped, torn>>
  BY DEF Begin, connectionVars
<1>5. Busy' = Busy \union {t} /\ t \notin Busy
  BY <1>3 DEF Busy
<1>6. Contained /\ Numbered /\ Paid' = Paid
  BY <1>4 DEF BooksInv, Paid
<1>7. \A u \in Busy : u \in Threads /\ u # t /\ req[u].id \in Ids /\ req[u].id <= clock /\ req'[u] = req[u] /\ pc'[u] = pc[u]
  BY <1>3, <1>5, <1>6, ThreadFacts DEF Numbered, Busy
<1>8. \A j \in Paid : j \in Ids /\ j <= clock
  BY <1>6 DEF Numbered, Paid, TypeInv, TypeOK, Database
<1>9. Numbered'
  <2>1. \A u \in Busy' : req'[u].id <= clock'
    BY <1>1, <1>3, <1>5, <1>7, LimitAssumption DEF Ids
  <2>2. \A u, v \in Busy' : req'[u].id = req'[v].id => u = v
    <3>1. \A u \in Busy : req'[u].id # i
      BY <1>1, <1>3, <1>7, LimitAssumption DEF Ids
    <3>2. \A u, v \in Busy : req'[u].id = req'[v].id => u = v
      BY <1>6, <1>7 DEF Numbered
    <3>3. QED
      BY <1>3, <1>5, <3>1, <3>2
  <2>3. \A j \in Paid' : j <= clock'
    BY <1>1, <1>3, <1>6, <1>8, LimitAssumption DEF Ids
  <2>4. QED
    BY <2>1, <2>2, <2>3 DEF Numbered
<1>10. Contained'
  BY <1>4, <1>6 DEF Contained
<1>11. ASSUME ~torn PROVE Billed' /\ \A u \in Busy' : Entered(u)'
  <2>1. Billed /\ \A u \in Busy : Entered(u)
    BY <1>11 DEF BooksInv
  <2>2. InFlight \subseteq InFlight'
    BY <1>5, <1>7 DEF InFlight
  <2>3. Billed'
    BY <1>4, <1>6, <2>1, <2>2 DEF Billed, Entire
  <2>4. ASSUME NEW u \in Busy PROVE Entered(u)'
    <3>1. Entered(u) /\ pc'[u] = pc[u] /\ req'[u] = req[u]
      BY <1>7, <2>1
    <3>2. QED
      BY <1>4, <1>6, <3>1 DEF Entered
  <2>5. Entered(t)'
    <3>1. i \notin Paid' /\ i \notin working'.saved
      BY <1>1, <1>3, <1>6, <1>8, LimitAssumption DEF Ids, Paid
    <3>2. QED
      BY <1>3, <3>1 DEF Entered
  <2>6. QED
    BY <1>5, <2>3, <2>4, <2>5
<1>12. QED
  BY <1>4, <1>9, <1>10, <1>11 DEF BooksInv

LEMMA WritesBooks ==
  ASSUME TypeInv, TypeInv', BooksInv, NEW t \in Threads,
         SaveProposal(t) \/ InsertUsage(t) \/ RecordCost(t) \/ SaveTrace(t)
  PROVE  BooksInv'
<1>1. PICK i \in Ids : i = req[t].id
  BY ThreadFacts DEF SaveProposal, InsertUsage, RecordCost, SaveTrace
<1>2. /\ t \in Busy /\ UNCHANGED <<durable, req, clock, called, cut, unread, dropped, torn>>
      /\ \E step : Goto(t, step)
  BY DEF SaveProposal, InsertUsage, RecordCost, SaveTrace, Busy, Execute, historyVars
<1>3. \A u \in Threads \ {t} : pc'[u] = pc[u] /\ req'[u] = req[u]
  BY <1>2, OthersStay
<1>4. working \in Database /\ Contained /\ working' \in Database
  BY DEF TypeInv, TypeOK, BooksInv
<1>5. \/ /\ SaveProposal(t) /\ pc[t] = "save" /\ pc'[t] = "save_commit"
         /\ working'.saved = working.saved \union {i}
         /\ UNCHANGED <<working.ledger, working.costs, working.traces>>
      \/ /\ InsertUsage(t) /\ pc[t] = "bill" /\ pc'[t] = "bill_commit"
         /\ working'.ledger = working.ledger \union {i}
         /\ UNCHANGED <<working.saved, working.costs, working.traces>>
      \/ /\ RecordCost(t) /\ pc[t] = "cost" /\ pc'[t] = "cost_commit"
         /\ working'.costs = working.costs \union {i}
         /\ UNCHANGED <<working.saved, working.ledger, working.traces>>
      \/ /\ SaveTrace(t) /\ pc[t] = "trace" /\ pc'[t] = "trace_commit"
         /\ working'.traces = working.traces \union {i}
         /\ UNCHANGED <<working.saved, working.ledger, working.costs>>
  <2>1. CASE SaveProposal(t)
    BY <1>1, <1>4, <2>1, OthersStay DEF SaveProposal, Execute, Database, Goto
  <2>2. CASE InsertUsage(t)
    BY <1>1, <1>4, <2>2, OthersStay DEF InsertUsage, Execute, Database, Goto
  <2>3. CASE RecordCost(t)
    BY <1>1, <1>4, <2>3, OthersStay DEF RecordCost, Execute, Database, Goto
  <2>4. CASE SaveTrace(t)
    BY <1>1, <1>4, <2>4, OthersStay DEF SaveTrace, Execute, Database, Goto
  <2>5. QED
    BY <2>1, <2>2, <2>3, <2>4
<1>6. torn \/ (/\ Entered(t) /\ working.costs \subseteq working.ledger
                /\ durable.costs \subseteq durable.ledger)
  BY <1>2 DEF BooksInv
<1>7. req'[t] = req[t] /\ pc'[t] # "idle"
  BY <1>2, <1>5
<1>8. torn \/ (working'.costs \subseteq working'.ledger /\ durable'.costs \subseteq durable'.ledger)
  BY <1>1, <1>2, <1>4, <1>5, <1>6 DEF Entered, Contained
<1>9. pc[t] = "save" => req[t].kind # "message"
  BY ThreadFacts DEF Proposals
<1>10. torn \/ Entered(t)'
  BY <1>1, <1>2, <1>5, <1>6, <1>7, <1>9 DEF Entered, Paid
<1>11. /\ working.ledger \subseteq working'.ledger /\ working.costs \subseteq working'.costs
       /\ working.traces \subseteq working'.traces /\ working.saved \subseteq working'.saved
       /\ working'.saved \subseteq working.saved \union {i}
  BY <1>5
<1>12. QED
  BY <1>1, <1>2, <1>3, <1>4, <1>7, <1>8, <1>10, <1>11, BooksGoOn DEF Contained

LEMMA CommitsBooks ==
  ASSUME TypeInv, TypeInv', BooksInv, NEW t \in Threads, CommitWrite(t) \/ CommitTrace(t)
  PROVE  BooksInv'
<1>1. /\ t \in Busy /\ UNCHANGED <<working, clock, called, cut, unread, dropped, torn>> /\ durable' = working
  BY DEF CommitWrite, CommitTrace, Commit, Uncommitted, Busy, historyVars
<1>2. \A u \in Threads \ {t} : pc'[u] = pc[u] /\ req'[u] = req[u]
  BY OthersStay DEF CommitWrite, CommitTrace
<1>3. Contained
  BY DEF BooksInv
<1>4. torn \/ (Entered(t) /\ working.costs \subseteq working.ledger)
  BY <1>1 DEF BooksInv
<1>5. CASE CommitWrite(t)
  <2>1. /\ req'[t] = req[t] /\ pc[t] \in {"save_commit", "bill_commit", "cost_commit"}
        /\ pc[t] = "save_commit" => pc'[t] = "record"
        /\ pc[t] = "bill_commit" => pc'[t] = "cost"
        /\ pc[t] = "cost_commit" => pc'[t] = "trace"
    BY <1>5, OthersStay DEF CommitWrite, Uncommitted
  <2>2. torn \/ Entered(t)'
    BY <1>1, <1>3, <1>4, <2>1 DEF Entered, Contained
  <2>3. QED
    BY <1>1, <1>2, <1>3, <1>4, <2>1, <2>2, BooksGoOn DEF Contained
<1>6. CASE CommitTrace(t)
  <2>1. pc[t] = "trace_commit" /\ pc'[t] = "idle"
    BY <1>6, OthersStay DEF CommitTrace
  <2>2. \/ torn \/ req[t].id \notin Paid'
        \/ /\ req[t].id \in durable'.traces
           /\ req[t].id \in unread' \/ req[t].id \in durable'.ledger \intersect durable'.costs
    BY <1>1, <1>3, <1>4, <2>1 DEF Entered, Contained, Paid
  <2>3. QED
    BY <1>1, <1>2, <1>3, <1>4, <2>1, <2>2, BooksGoOn DEF Contained
<1>7. QED
  BY <1>5, <1>6

(* What a thread does without a statement.                                 *)
LEMMA ChecksBooks ==
  ASSUME TypeInv, TypeInv', BooksInv, NEW t \in Threads,
         Preflight(t) \/ CallModel(t) \/ CheckActual(t) \/ EnforceLimit(t)
  PROVE  BooksInv'
<1>1. PICK i \in Ids : i = req[t].id
  BY ThreadFacts DEF Preflight, CallModel, CheckActual, EnforceLimit
<1>2. t \in Busy /\ UNCHANGED <<working, durable, clock, cut, torn>>
  BY DEF Preflight, CallModel, CheckActual, EnforceLimit, Busy, connectionVars, historyVars
<1>3. /\ unread \subseteq unread' /\ dropped \subseteq dropped' /\ called' \subseteq called \union {i}
  BY <1>1 DEF Preflight, CallModel, CheckActual, EnforceLimit, historyVars
<1>4. Contained
  BY DEF BooksInv
<1>5. torn \/ (/\ Entered(t) /\ working.costs \subseteq working.ledger
                /\ durable.costs \subseteq durable.ledger)
  BY <1>2 DEF BooksInv
<1>6. Finish(t) \/ (\E step : Goto(t, step) /\ UNCHANGED req)
  BY DEF Preflight, CallModel, CheckActual, EnforceLimit
<1>7. \A u \in Threads \ {t} : pc'[u] = pc[u] /\ req'[u] = req[u]
  BY <1>6, OthersStay
<1> DEFINE Ends == pc'[t] = "idle" /\ (torn \/ i \in dropped' \/ i \notin Paid')
           GoesOn == pc'[t] # "idle" /\ req'[t] = req[t] /\ (torn \/ Entered(t)')
<1>8. Ends \/ GoesOn
  <2>1. CASE Preflight(t)
    <3>1. pc[t] = "preflight" /\ called' = called
      BY <2>1 DEF Preflight
    <3>2. CASE Finish(t)
      BY <1>1, <1>2, <1>5, <3>1, <3>2, OthersStay DEF Entered, Paid
    <3>3. CASE Goto(t, "call") /\ UNCHANGED req
      <4>1. pc'[t] = "call" /\ req'[t] = req[t]
        BY <3>3, OthersStay
      <4>2. QED
        BY <1>1, <1>2, <1>5, <3>1, <4>1 DEF Entered, Paid
    <3>4. QED
      BY <2>1, <3>2, <3>3 DEF Preflight
  <2>2. CASE CallModel(t)
    <3>1. CASE CallFailed(t)
      <4>1. pc[t] = "call" /\ pc'[t] = "idle" /\ (torn \/ i \notin Paid)
        BY <1>1, <1>5, <2>2, <3>1, OthersStay DEF CallFailed, CallModel, Entered
      <4>2. QED
        BY <1>1, <1>2, <3>1, <4>1 DEF CallFailed, Paid
    <3>2. CASE CallAnswered(t)
      <4>1. PICK step \in {"trace", "record", "check", "save"} :
              /\ Goto(t, step) /\ UNCHANGED req
              /\ step = "trace" => called' = called \/ i \in unread'
        BY <1>1, <3>2 DEF CallAnswered
      <4>2. pc'[t] = step /\ req'[t] = req[t] /\ pc[t] = "call"
        BY <2>2, <4>1, OthersStay DEF CallModel
      <4>3. QED
        BY <1>1, <1>2, <1>5, <4>1, <4>2 DEF Entered, Paid
    <3>3. QED
      BY <2>2, <3>1, <3>2, CallOutcome
  <2>3. CASE CheckActual(t)
    <3>1. /\ pc[t] = "check" /\ called' = called
          /\ \E step \in {"save", "record"} : Goto(t, step) /\ UNCHANGED req
      BY <2>3 DEF CheckActual, historyVars
    <3>2. pc'[t] \in {"save", "record"} /\ req'[t] = req[t]
      BY <3>1, OthersStay
    <3>3. QED
      BY <1>2, <1>5, <3>1, <3>2 DEF Entered, Paid
  <2>4. CASE EnforceLimit(t)
    <3>1. pc[t] = "record"
      BY <2>4 DEF EnforceLimit
    <3>2. CASE Finish(t) /\ called' = called \ {i} /\ req[t].kind = "message"
      BY <1>1, <1>2, <1>5, <3>2, OthersStay DEF Entered, Paid
    <3>3. CASE Goto(t, "bill") /\ UNCHANGED <<req, called>>
      <4>1. pc'[t] = "bill" /\ req'[t] = req[t]
        BY <3>3, OthersStay
      <4>2. QED
        BY <1>2, <1>5, <3>1, <3>3, <4>1 DEF Entered, Paid
    <3>4. QED
      BY <1>1, <2>4, <3>2, <3>3 DEF EnforceLimit
  <2>5. QED
    BY <2>1, <2>2, <2>3, <2>4
<1>9. torn \/ (working'.costs \subseteq working'.ledger /\ durable'.costs \subseteq durable'.ledger)
  BY <1>2, <1>5
<1>10. QED
  BY <1>1, <1>2, <1>3, <1>4, <1>7, <1>8, <1>9, BooksGoOn DEF Contained

LEMMA StepBooks ==
  TypeInv /\ TypeInv' /\ BooksInv /\ [Next]_vars => BooksInv'
<1> SUFFICES ASSUME TypeInv, TypeInv', BooksInv, [Next]_vars PROVE BooksInv'
  OBVIOUS
<1>1. ASSUME NEW t \in Threads, WriteFails(t) PROVE BooksInv'
  <2>1. /\ Rollback /\ UNCHANGED <<clock, called, unread, dropped>> /\ cut' = cut \union {req[t].id}
        /\ torn' = (torn \/ \E u \in Threads \ {t} : pc[u] \in Uncommitted)
    BY <1>1 DEF WriteFails
  <2>2. /\ pc'[t] = "idle"
        /\ \A u \in Threads \ {t} : pc'[u] = pc[u] /\ req'[u] = req[u]
    BY <1>1, OthersStay DEF WriteFails
  <2>3. /\ \A u \in Busy' : u \in Busy /\ u # t /\ pc'[u] = pc[u] /\ req'[u] = req[u]
        /\ \A u \in Busy \ Busy' : u = t
    BY <2>2 DEF Busy
  <2>4. torn => torn'
    BY <2>1 DEF TypeInv, TypeOK
  <2>5. ~torn' => \A u \in Busy' : pc[u] \notin Uncommitted
    BY <2>1, <2>3 DEF Busy
  <2>6. QED
    BY <2>1, <2>3, <2>4, <2>5, BooksRollback
<1>2. CASE Restart
  <2>1. Busy' = {} /\ UNCHANGED torn /\ \A u \in Busy : req[u].id \in cut'
    BY <1>2 DEF Restart, Busy
  <2>2. Rollback /\ UNCHANGED <<clock, called, unread, dropped>> /\ cut \subseteq cut'
    BY <1>2 DEF Restart
  <2>3. QED
    BY <2>1, <2>2, BooksRollback
<1>3. CASE NextMonth \/ UNCHANGED vars
  <2>1. UNCHANGED <<working, durable, clock, pc, req, called, cut, unread, dropped, torn>>
    BY <1>3 DEF NextMonth, vars, connectionVars, threadVars, historyVars
  <2>2. QED
    BY <2>1 DEF BooksInv, Contained, Numbered, Paid, Entered, Billed, Entire, InFlight, Busy
<1>4. QED
  BY <1>1, <1>2, <1>3, BeginBooks, WritesBooks, CommitsBooks, ChecksBooks DEF Next, Serve

(* What is lost is in no book: the answers that raised have no row, those  *)
(* that did not tell what they took have none but a trace; and a request   *)
(* that has yet to ask has no row at all.                                  *)
Entries == working.ledger \union working.costs \union working.traces
LossInv ==
  /\ \A i \in dropped \union unread \union Entries : i <= clock
  /\ (dropped \union unread) \intersect (working.ledger \union working.costs) = {}
  /\ dropped \intersect working.traces = {}
  /\ \A t \in Busy :
       /\ req[t].id \notin dropped
       /\ req[t].id \in unread => pc[t] \in {"trace", "trace_commit"}
       /\ pc[t] \in {"preflight", "call"} => req[t].id \notin Entries

LEMMA InitLoss == Init => LossInv
BY DEF Init, LossInv, Entries, Busy, EmptyDatabase

(* A thread that works enters its own request, or loses it.                *)
LEMMA LossGoesOn ==
  ASSUME TypeInv, TypeInv', Numbered, LossInv, NEW t \in Busy, NEW i \in Ids, i = req[t].id,
         \A u \in Threads \ {t} : pc'[u] = pc[u] /\ req'[u] = req[u],
         clock' = clock,
         working'.ledger \subseteq working.ledger \union {i},
         working'.costs \subseteq working.costs \union {i},
         working'.traces \subseteq working.traces \union {i},
         unread' \subseteq unread \union {i}, dropped' \subseteq dropped \union {i},
         i \in dropped' => pc'[t] = "idle" /\ i \notin Entries',
         i \in unread' => /\ i \notin working'.ledger \union working'.costs
                          /\ pc'[t] # "idle" => pc'[t] \in {"trace", "trace_commit"},
         pc'[t] # "idle" => req'[t] = req[t],
         pc'[t] \in {"preflight", "call"} => i \notin Entries'
  PROVE  LossInv'
<1>1. Busy' \subseteq Busy /\ i <= clock
  BY DEF Busy, Numbered
<1>2. \A u \in Busy' \ {t} : /\ u \in Busy /\ pc'[u] = pc[u] /\ req'[u] = req[u] /\ req[u].id # i
  BY <1>1 DEF Busy, Numbered
<1>3. Entries' \subseteq Entries \union {i}
  BY DEF Entries
<1>4. \A j \in dropped' \union unread' \union Entries' : j <= clock'
  BY <1>1, <1>3 DEF LossInv
<1>5. /\ (dropped' \union unread') \intersect (working'.ledger \union working'.costs) = {}
      /\ dropped' \intersect working'.traces = {}
  <2>1. i \notin (dropped' \union unread') \intersect (working'.ledger \union working'.costs)
    BY DEF Entries
  <2>2. i \notin dropped' \intersect working'.traces
    BY DEF Entries
  <2>3. QED
    BY <2>1, <2>2 DEF LossInv
<1>6. ASSUME NEW u \in Busy'
      PROVE  /\ req'[u].id \notin dropped'
             /\ req'[u].id \in unread' => pc'[u] \in {"trace", "trace_commit"}
             /\ pc'[u] \in {"preflight", "call"} => req'[u].id \notin Entries'
  <2>1. CASE u = t
    BY <2>1, <1>6 DEF Busy
  <2>2. CASE u # t
    <3>1. /\ u \in Busy /\ pc'[u] = pc[u] /\ req'[u] = req[u] /\ req[u].id # i
      BY <1>2, <1>6, <2>2
    <3>2. QED
      BY <1>3, <3>1 DEF LossInv
  <2>3. QED
    BY <2>1, <2>2
<1>7. QED
  BY <1>4, <1>5, <1>6 DEF LossInv

(* Threads stop, others stand still, and rows are rolled back.             *)
LEMMA LossShrinks ==
  ASSUME LossInv, UNCHANGED <<clock, unread, dropped>>,
         working'.ledger \subseteq working.ledger, working'.costs \subseteq working.costs,
         working'.traces \subseteq working.traces,
         \A u \in Busy' : u \in Busy /\ pc'[u] = pc[u] /\ req'[u] = req[u]
  PROVE  LossInv'
<1>1. Entries' \subseteq Entries
  BY DEF Entries
<1>2. QED
  BY <1>1 DEF LossInv

LEMMA BeginLoss ==
  ASSUME TypeInv, LossInv, NEW t \in Threads, NEW kind \in Kinds, Begin(t, kind)
  PROVE  LossInv'
<1>1. PICK i : i = clock + 1
  OBVIOUS
<1>2. PICK r : r = [id |-> i, kind |-> kind]
  OBVIOUS
<1>3. /\ clock \in Nat /\ clock' = i /\ r.id = i
      /\ pc[t] = "idle" /\ pc'[t] \in {"preflight", "call"} /\ req'[t] = r
      /\ \A u \in Threads \ {t} : pc'[u] = pc[u] /\ req'[u] = req[u]
  BY <1>1, <1>2, LimitAssumption DEF Begin, Goto, TypeInv, TypeOK
<1>4. UNCHANGED <<working, unread, dropped, Entries>>
  BY DEF Begin, connectionVars, Entries
<1>5. dropped \union unread \union Entries \subseteq Ids
  BY DEF TypeInv, TypeOK, Database, Entries
<1>6. \A j \in dropped \union unread \union Entries : j <= clock' /\ j # i
  BY <1>1, <1>3, <1>5, LimitAssumption DEF LossInv, Ids
<1>7. Busy' = Busy \union {t} /\ t \notin Busy
  BY <1>3 DEF Busy
<1>8. \A u \in Busy : pc'[u] = pc[u] /\ req'[u] = req[u]
  BY <1>3, <1>7 DEF Busy
<1>9. QED
  BY <1>3, <1>4, <1>6, <1>7, <1>8 DEF LossInv

LEMMA StepLoss ==
  TypeInv /\ TypeInv' /\ BooksInv /\ LossInv /\ [Next]_vars => LossInv'
<1> SUFFICES ASSUME TypeInv, TypeInv', BooksInv, LossInv, [Next]_vars PROVE LossInv'
  OBVIOUS
<1>1. Numbered /\ Contained
  BY DEF BooksInv
<1>2. ASSUME Rollback, UNCHANGED <<clock, unread, dropped>>,
             \A u \in Busy' : u \in Busy /\ pc'[u] = pc[u] /\ req'[u] = req[u]
      PROVE  LossInv'
  BY <1>1, <1>2, LossShrinks DEF Rollback, Contained
<1>3. ASSUME NEW t \in Threads, WriteFails(t) PROVE LossInv'
  <2>1. /\ Rollback /\ UNCHANGED <<clock, unread, dropped>> /\ pc'[t] = "idle"
        /\ \A u \in Threads \ {t} : pc'[u] = pc[u] /\ req'[u] = req[u]
    BY <1>3, OthersStay DEF WriteFails
  <2>2. QED
    BY <1>2, <2>1 DEF Busy
<1>4. CASE Restart
  BY <1>2, <1>4 DEF Restart, Busy
<1>5. CASE NextMonth \/ UNCHANGED vars
  <2>1. UNCHANGED <<working, clock, pc, req, unread, dropped>>
    BY <1>5 DEF NextMonth, vars, connectionVars, threadVars, historyVars
  <2>2. QED
    BY <2>1, LossShrinks DEF Busy
<1>6. ASSUME NEW t \in Threads, CommitWrite(t) \/ CommitTrace(t) \/ Preflight(t) \/ CheckActual(t)
                                \/ EnforceLimit(t)
      PROVE  LossInv'
  <2>1. PICK i \in Ids : i = req[t].id
    BY <1>6, ThreadFacts DEF CommitWrite, CommitTrace, Preflight, CheckActual, EnforceLimit, Uncommitted
  <2>2. t \in Busy /\ UNCHANGED <<working, clock, unread, dropped, Entries>>
    BY <1>6 DEF CommitWrite, CommitTrace, Preflight, CheckActual, EnforceLimit, Uncommitted, Busy, Commit,
                connectionVars, historyVars, Entries
  <2>3. \/ Finish(t)
        \/ \E step \in Steps : Goto(t, step) /\ UNCHANGED req
    BY <1>6 DEF CommitWrite, CommitTrace, Preflight, CheckActual, EnforceLimit, Uncommitted, Steps,
                historyVars
  <2>4. \A u \in Threads \ {t} : pc'[u] = pc[u] /\ req'[u] = req[u]
    BY <2>3, OthersStay
  <2>5. i \notin dropped' /\ (pc[t] \in {"preflight", "call"} => i \notin Entries')
        /\ (i \in unread' => i \notin working'.ledger \union working'.costs
                              /\ pc[t] \in {"trace", "trace_commit"})
    BY <2>1, <2>2 DEF LossInv
  <2>6. pc'[t] # "idle" => /\ req'[t] = req[t]
                           /\ pc'[t] \in {"preflight", "call"} => pc[t] \in {"preflight", "call"}
                           /\ pc[t] \in {"trace", "trace_commit"} => pc'[t] \in {"trace", "trace_commit"}
    <3>1. CASE Finish(t)
      BY <3>1, OthersStay
    <3>2. CASE Preflight(t) /\ Goto(t, "call") /\ UNCHANGED req
      BY <3>2, OthersStay DEF Preflight
    <3>3. CASE CheckActual(t)
      <4>1. pc[t] = "check" /\ \E step \in {"save", "record"} : Goto(t, step) /\ UNCHANGED req
        BY <3>3 DEF CheckActual, historyVars
      <4>2. QED
        BY <4>1, OthersStay
    <3>4. CASE EnforceLimit(t) /\ Goto(t, "bill") /\ UNCHANGED req
      BY <3>4, OthersStay DEF EnforceLimit
    <3>5. CASE CommitWrite(t)
      <4>1. pc[t] \notin {"trace", "trace_commit"}
            /\ \E step \in {"record", "cost", "trace"} : Goto(t, step) /\ UNCHANGED req
        BY <3>5 DEF CommitWrite, Uncommitted, historyVars
      <4>2. QED
        BY <4>1, OthersStay
    <3>6. QED
      BY <1>6, <3>1, <3>2, <3>3, <3>4, <3>5 DEF CommitTrace, Preflight, EnforceLimit
  <2>7. QED
    BY <1>1, <2>1, <2>2, <2>4, <2>5, <2>6, LossGoesOn
<1>7. ASSUME NEW t \in Threads, SaveProposal(t) \/ InsertUsage(t) \/ RecordCost(t) \/ SaveTrace(t)
      PROVE  LossInv'
  <2>1. PICK i \in Ids : i = req[t].id
    BY <1>7, ThreadFacts DEF SaveProposal, InsertUsage, RecordCost, SaveTrace
  <2>2. t \in Busy /\ UNCHANGED <<clock, req, unread, dropped>> /\ working \in Database
        /\ \E step : Goto(t, step)
    BY <1>7 DEF SaveProposal, InsertUsage, RecordCost, SaveTrace, Busy, historyVars, TypeInv, TypeOK
  <2>3. /\ working'.ledger \subseteq working.ledger \union {i}
        /\ working'.costs \subseteq working.costs \union {i}
        /\ working'.traces \subseteq working.traces \union {i}
    <3>1. CASE SaveProposal(t) \/ RecordCost(t) \/ SaveTrace(t)
      BY <2>1, <2>2, <3>1 DEF SaveProposal, RecordCost, SaveTrace, Execute, Database
    <3>2. CASE InsertUsage(t)
      BY <2>1, <2>2, <3>2 DEF InsertUsage, Execute, Database
    <3>3. QED
      BY <1>7, <3>1, <3>2
  <2>4. \A u \in Threads \ {t} : pc'[u] = pc[u] /\ req'[u] = req[u]
    BY <2>2, OthersStay
  <2>5. i \notin dropped'
        /\ pc'[t] \in {"save_commit", "bill_commit", "cost_commit", "trace_commit"}
        /\ (i \in unread' => pc[t] = "trace" /\ pc'[t] = "trace_commit")
    <3>1. \/ pc[t] = "save" /\ Goto(t, "save_commit")
          \/ pc[t] = "bill" /\ Goto(t, "bill_commit")
          \/ pc[t] = "cost" /\ Goto(t, "cost_commit")
          \/ pc[t] = "trace" /\ Goto(t, "trace_commit")
      BY <1>7 DEF SaveProposal, InsertUsage, RecordCost, SaveTrace
    <3>2. QED
      BY <2>1, <2>2, <3>1, OthersStay DEF LossInv
  <2>6. i \in unread' => i \notin working'.ledger \union working'.costs
    <3>1. ASSUME i \in unread' PROVE i \notin working'.ledger \union working'.costs
      <4>1. SaveTrace(t)
        BY <1>7, <2>5, <3>1 DEF SaveProposal, InsertUsage, RecordCost
      <4>2. working'.ledger = working.ledger /\ working'.costs = working.costs
        BY <2>2, <4>1 DEF SaveTrace, Execute, Database
      <4>3. QED
        BY <2>2, <3>1, <4>2 DEF LossInv
    <3>2. QED
      BY <3>1
  <2>7. QED
    BY <1>1, <2>1, <2>2, <2>3, <2>4, <2>5, <2>6, LossGoesOn
<1>8. ASSUME NEW t \in Threads, CallModel(t) PROVE LossInv'
  <2>1. PICK i \in Ids : i = req[t].id
    BY <1>8, ThreadFacts DEF CallModel
  <2>2. t \in Busy /\ UNCHANGED <<working, clock, Entries>> /\ pc[t] = "call"
    BY <1>8 DEF CallModel, Busy, connectionVars, Entries
  <2>3. i \notin Entries' /\ i \notin dropped /\ i \notin unread
    BY <2>1, <2>2 DEF LossInv
  <2>4. i \notin working'.ledger \union working'.costs
    BY <2>3 DEF Entries
  <2>5. CASE CallFailed(t)
    <3>1. pc'[t] = "idle" /\ \A u \in Threads \ {t} : pc'[u] = pc[u] /\ req'[u] = req[u]
      BY <2>5, OthersStay DEF CallFailed
    <3>2. QED
      BY <1>1, <2>1, <2>2, <2>3, <2>4, <2>5, <3>1, LossGoesOn DEF CallFailed
  <2>6. CASE CallAnswered(t)
    <3>1. PICK step \in {"trace", "record", "check", "save"} :
            /\ Goto(t, step)
            /\ \/ step = "trace" /\ unread' = unread \union {i}
               \/ unread' = unread
      BY <2>1, <2>6 DEF CallAnswered
    <3>2. /\ pc'[t] = step /\ req'[t] = req[t] /\ dropped' = dropped
          /\ \A u \in Threads \ {t} : pc'[u] = pc[u] /\ req'[u] = req[u]
      BY <2>6, <3>1, OthersStay DEF CallAnswered
    <3>3. QED
      BY <1>1, <2>1, <2>2, <2>3, <2>4, <3>1, <3>2, LossGoesOn
  <2>7. QED
    BY <1>8, <2>5, <2>6, CallOutcome
<1>9. QED
  BY <1>3, <1>4, <1>5, <1>6, <1>7, <1>8, BeginLoss DEF Next, Serve

(* Every call that took tokens and told how many, and every proposal that  *)
(* was saved, is in the ledger, the costs and the traces once its request  *)
(* is over (record_usage and _record_provider_failure), refused requests   *)
(* included, however the statements of the threads interleave on the       *)
(* connection; a paid answer that did not tell has its trace alone, and    *)
(* one that raised past the handlers of create_capture_proposal or         *)
(* answer_query has no row.                                                *)
THEOREM CallsBilledCorrect == Spec => []CallsBilled
<1>1. Spec => []BooksInv
  BY Typing, InitBooks, StepBooks, PTL DEF Spec
<1>2. Spec => []LossInv
  BY <1>1, Typing, InitLoss, StepLoss, PTL DEF Spec
<1>3. TypeInv /\ BooksInv /\ LossInv => CallsBilled
  <2>1. SUFFICES ASSUME BooksInv, LossInv, ~torn PROVE CallsBilled
    BY DEF CallsBilled
  <2>2. called \union durable.saved \subseteq Paid /\ Contained
    BY <2>1 DEF BooksInv, Contained, Paid
  <2>3. ASSUME NEW i \in (called \union durable.saved) \ (InFlight \union cut), i \notin dropped
        PROVE  i \in durable.traces /\ (i \in unread \/ i \in durable.ledger \intersect durable.costs)
    BY <2>1, <2>2, <2>3 DEF BooksInv, Billed, Entire
  <2>4. /\ (dropped \union unread) \intersect (durable.ledger \union durable.costs) = {}
        /\ dropped \intersect durable.traces = {}
    BY <2>1, <2>2 DEF LossInv, Contained
  <2>5. durable.costs \subseteq durable.ledger
    BY <2>1 DEF BooksInv
  <2>6. QED
    BY <2>3, <2>4, <2>5 DEF CallsBilled
<1>4. QED
  BY <1>1, <1>2, <1>3, Typing, PTL

-----------------------------------------------------------------------------
(* The limit.  A pass is what a thread holds that was let through and has  *)
(* not billed yet, for the month it may still bill to: one for each        *)
(* thread, and it was the last one when it was given.                      *)
Cleared == {"call", "check", "save", "save_commit", "record"}
Passes(m) ==
  {t \in Threads :
     \/ pc[t] \in Cleared /\ req[t].kind \in Metered /\ m = month
     \/ pc[t] = "bill" /\ req[t].kind \in Metered \union {"message"} /\ dated[t] = m /\ tokens[t] > 0}

LimitInv ==
  /\ \A t \in Threads :
       /\ tokens[t] <= MaxCost /\ dated[t] <= month
       /\ pc[t] \in Cleared /\ req[t].kind \in Metered => Limit > 0
  /\ \A m \in Months :
       /\ durable.used[m] <= working.used[m]
       /\ m > month => working.used[m] = 0
       /\ m <= month => working.used[m] + Cardinality(Passes(m)) * MaxCost
                          < Limit + Cardinality(Threads) * MaxCost + demo[m]

(* A request that no other was under way with still has the room that it   *)
(* was found to have.                                                      *)
RoomInv ==
  \A t \in Busy : ~raced[t] =>
    /\ Busy = {t}
    /\ ~refused[t] /\ pc[t] \in {"save", "save_commit", "record"} /\ req[t].kind \in Metered
         => working.used[month] + tokens[t] <= Limit
    /\ ~refused[t] /\ pc[t] = "bill" /\ req[t].kind \in Metered \union {"message"}
         => working.used[dated[t]] + tokens[t] <= Limit

LEMMA MaxCostFacts ==
  /\ MaxCost \in Nat /\ MaxCost > 0
  /\ \A c \in Costs : c <= MaxCost
<1>1. PICK c \in Costs \ {0} : \A d \in Costs : d <= c
  BY LimitAssumption
<1>2. MaxCost \in Costs /\ \A d \in Costs : d <= MaxCost
  BY <1>1 DEF MaxCost
<1>3. QED
  BY <1>1, <1>2, LimitAssumption

LEMMA Times ==
  \A a, b, c \in Nat : /\ a * c \in Nat
                       /\ a <= b => a * c <= b * c
                       /\ (a + 1) * c = a * c + c
<1> SUFFICES ASSUME NEW a \in Nat, NEW b \in Nat, NEW c \in Nat
             PROVE  /\ a * c \in Nat
                    /\ a <= b => a * c <= b * c
                    /\ (a + 1) * c = a * c + c
  OBVIOUS
<1>1. a * c \in Nat
  BY SMT
<1>2. (a + 1) * c = a * c + c
  BY SMT
<1>3. a <= b => a * c <= b * c
  BY SMT
<1>4. QED
  BY <1>1, <1>2, <1>3

(* How many threads may hold a pass.                                       *)
LEMMA Held ==
  ASSUME NEW S \in SUBSET Threads
  PROVE  /\ IsFiniteSet(S) /\ Cardinality(S) \in Nat
         /\ Cardinality(Threads) \in Nat /\ Cardinality(Threads) > 0
         /\ Cardinality(S) <= Cardinality(Threads)
         /\ \A R \in SUBSET S : Cardinality(R) <= Cardinality(S)
         /\ \A t \in Threads \ S : /\ Cardinality(S) + 1 <= Cardinality(Threads)
                                   /\ Cardinality(S \union {t}) = Cardinality(S) + 1
<1>1. /\ IsFiniteSet(S) /\ Cardinality(S) \in Nat /\ Cardinality(Threads) \in Nat
      /\ Cardinality(S) <= Cardinality(Threads)
  BY LimitAssumption, FS_Subset, FS_CardinalityType
<1>2. Cardinality(Threads) > 0
  BY <1>1, LimitAssumption, FS_EmptySet
<1>3. \A R \in SUBSET S : Cardinality(R) <= Cardinality(S)
  BY <1>1, FS_Subset
<1>4. ASSUME NEW t \in Threads \ S
      PROVE  /\ Cardinality(S) + 1 <= Cardinality(Threads)
             /\ Cardinality(S \union {t}) = Cardinality(S) + 1
  <2>1. Cardinality(S \union {t}) = Cardinality(S) + 1
    BY <1>1, FS_AddElement
  <2>2. Cardinality(S \union {t}) <= Cardinality(Threads)
    BY LimitAssumption, FS_Subset
  <2>3. QED
    BY <2>1, <2>2
<1>5. QED
  BY <1>1, <1>2, <1>3, <1>4

(* A month stays within the bound when it has no more passes than before,  *)
(* when a thread gets one while the limit is not reached, and when a       *)
(* thread spends its own.                                                  *)
LEMMA StaysBelow ==
  ASSUME NEW P \in SUBSET Threads, NEW Q \in SUBSET Threads, NEW t \in Threads,
         NEW u \in Nat, NEW v \in Nat, NEW d \in Nat, NEW e \in Nat,
         u + Cardinality(P) * MaxCost < Limit + Cardinality(Threads) * MaxCost + d,
         d <= e,
         \/ Q \subseteq P /\ v <= u
         \/ Q \subseteq P \union {t} /\ v = u /\ u < Limit
         \/ t \in P /\ Q \subseteq P \ {t} /\ v <= u + MaxCost
         \/ Q \subseteq P /\ v + d <= u + e
  PROVE  v + Cardinality(Q) * MaxCost < Limit + Cardinality(Threads) * MaxCost + e
<1>1. /\ Cardinality(P) \in Nat /\ Cardinality(Q) \in Nat /\ Cardinality(Threads) \in Nat
      /\ MaxCost \in Nat /\ Limit \in Nat
      /\ Cardinality(P) * MaxCost \in Nat /\ Cardinality(Q) * MaxCost \in Nat
      /\ Cardinality(Threads) * MaxCost \in Nat
  BY Held, MaxCostFacts, Times, LimitAssumption
<1>2. CASE Q \subseteq P /\ (v <= u \/ v + d <= u + e)
  <2>1. Cardinality(Q) * MaxCost <= Cardinality(P) * MaxCost
    BY <1>1, <1>2, Held, Times
  <2>2. QED
    BY <1>1, <1>2, <2>1
<1>3. CASE Q \subseteq P \union {t} /\ v = u /\ u < Limit
  <2>1. Cardinality(Q) * MaxCost <= Cardinality(Threads) * MaxCost
    BY <1>1, Held, Times
  <2>2. QED
    BY <1>1, <1>3, <2>1
<1>4. CASE t \in P /\ Q \subseteq P \ {t} /\ v <= u + MaxCost
  <2>1. PICK n \in Nat : n = Cardinality(P \ {t})
    BY Held
  <2>2. Cardinality(P) = n + 1
    <3>1. (P \ {t}) \union {t} = P
      BY <1>4
    <3>2. QED
      BY <2>1, <3>1, Held
  <2>3. Cardinality(Q) <= n
    BY <1>4, <2>1, Held
  <2>4. Cardinality(Q) * MaxCost <= n * MaxCost /\ n * MaxCost \in Nat
        /\ Cardinality(P) * MaxCost = n * MaxCost + MaxCost
    BY <1>1, <2>2, <2>3, Times
  <2>5. QED
    BY <1>1, <1>4, <2>4
<1>5. QED
  BY <1>2, <1>3, <1>4

LEMMA InitLimit == Init => LimitInv /\ RoomInv
<1> SUFFICES ASSUME Init PROVE LimitInv /\ RoomInv
  OBVIOUS
<1>1. \A m \in Months : Passes(m) = {} /\ working.used[m] = 0 /\ durable.used[m] = 0 /\ demo[m] = 0
  BY DEF Init, Passes, EmptyDatabase, Cleared
<1>2. 0 + Cardinality({}) * MaxCost < Limit + Cardinality(Threads) * MaxCost + 0
  <2>1. /\ Cardinality({}) = 0 /\ Cardinality(Threads) \in Nat /\ Cardinality(Threads) > 0
        /\ MaxCost \in Nat /\ MaxCost > 0 /\ Limit \in Nat
    BY FS_EmptySet, Held, MaxCostFacts, LimitAssumption
  <2>2. 1 * MaxCost <= Cardinality(Threads) * MaxCost /\ Cardinality(Threads) * MaxCost \in Nat
    BY <2>1, Times
  <2>3. QED
    BY <2>1, <2>2
<1>3. \A t \in Threads : tokens[t] = 0 /\ dated[t] = 1 /\ pc[t] = "idle"
  BY DEF Init
<1>4. LimitInv
  <2>1. \A m \in Months : working.used[m] + Cardinality(Passes(m)) * MaxCost
                            < Limit + Cardinality(Threads) * MaxCost + demo[m]
    BY <1>1, <1>2
  <2>2. \A t \in Threads : tokens[t] <= MaxCost /\ dated[t] <= month /\ pc[t] \notin Cleared
    BY <1>3, MaxCostFacts DEF Cleared, Init
  <2>3. QED
    BY <1>1, <2>1, <2>2 DEF LimitInv
<1>5. RoomInv
  BY <1>3 DEF RoomInv, Busy
<1>6. QED
  BY <1>4, <1>5

(* The values that the limit is about.                                     *)
LEMMA Sums ==
  ASSUME TypeInv
  PROVE  /\ month \in Nat /\ Months \subseteq Nat
         /\ \A m \in Months : working.used[m] \in Nat /\ durable.used[m] \in Nat /\ demo[m] \in Nat
         /\ \A t \in Threads : tokens[t] \in Nat /\ dated[t] \in Months
BY LimitAssumption DEF TypeInv, TypeOK, Database, Months

(* What one thread does leaves the others where they are.                  *)
Alone(t) ==
  /\ \A u \in Threads \ {t} : /\ pc'[u] = pc[u] /\ req'[u] = req[u] /\ tokens'[u] = tokens[u]
                              /\ dated'[u] = dated[u] /\ refused'[u] = refused[u]
  /\ UNCHANGED month

LEMMA LimitStep ==
  ASSUME TypeInv, TypeInv', LimitInv, NEW t \in Threads, Alone(t),
         tokens'[t] <= MaxCost, dated'[t] <= month,
         pc'[t] \in Cleared /\ req'[t].kind \in Metered => Limit > 0,
         \A m \in Months : /\ durable'.used[m] <= working'.used[m] /\ demo[m] <= demo'[m]
                           /\ m > month => working'.used[m] = 0,
         \A m \in Months : m <= month =>
           \/ /\ t \in Passes(m)' => t \in Passes(m)
              /\ \/ working'.used[m] <= working.used[m]
                 \/ working'.used[m] + demo[m] <= working.used[m] + demo'[m]
           \/ working'.used[m] = working.used[m] /\ working.used[m] < Limit
           \/ /\ t \in Passes(m) /\ t \notin Passes(m)'
              /\ working'.used[m] <= working.used[m] + MaxCost
  PROVE  LimitInv'
<1>1. month' = month
  BY DEF Alone
<1>2. ASSUME NEW u \in Threads
      PROVE  /\ tokens'[u] <= MaxCost /\ dated'[u] <= month'
             /\ pc'[u] \in Cleared /\ req'[u].kind \in Metered => Limit > 0
  <2>1. CASE u = t
    BY <1>1, <2>1
  <2>2. CASE u # t
    BY <1>1, <1>2, <2>2 DEF Alone, LimitInv
  <2>3. QED
    BY <2>1, <2>2
<1>3. ASSUME NEW m \in Months, m <= month
      PROVE  working'.used[m] + Cardinality(Passes(m)') * MaxCost
               < Limit + Cardinality(Threads) * MaxCost + demo'[m]
  <2>1. PICK P, Q : P = Passes(m) /\ Q = Passes(m)'
    OBVIOUS
  <2>2. P \subseteq Threads /\ Q \subseteq Threads /\ Q \ {t} = P \ {t}
    BY <1>1, <2>1 DEF Passes, Alone
  <2>3. working.used[m] + Cardinality(P) * MaxCost < Limit + Cardinality(Threads) * MaxCost + demo[m]
    BY <1>3, <2>1 DEF LimitInv
  <2>4. /\ working.used[m] \in Nat /\ working'.used[m] \in Nat /\ demo[m] \in Nat /\ demo'[m] \in Nat
        /\ demo[m] <= demo'[m]
    <3>1. working'.used[m] \in Nat /\ demo'[m] \in Nat
      BY DEF TypeInv, TypeOK, Database
    <3>2. QED
      BY <3>1, Sums
  <2>5. \/ Q \subseteq P /\ (\/ working'.used[m] <= working.used[m]
                             \/ working'.used[m] + demo[m] <= working.used[m] + demo'[m])
        \/ Q \subseteq P \union {t} /\ working'.used[m] = working.used[m] /\ working.used[m] < Limit
        \/ t \in P /\ Q \subseteq P \ {t} /\ working'.used[m] <= working.used[m] + MaxCost
    BY <1>3, <2>1, <2>2
  <2>6. PICK u \in Nat, v \in Nat, d \in Nat, e \in Nat :
          u = working.used[m] /\ v = working'.used[m] /\ d = demo[m] /\ e = demo'[m]
    BY <2>4
  <2>7. /\ u + Cardinality(P) * MaxCost < Limit + Cardinality(Threads) * MaxCost + d
        /\ d <= e
        /\ \/ Q \subseteq P /\ v <= u
           \/ Q \subseteq P \union {t} /\ v = u /\ u < Limit
           \/ t \in P /\ Q \subseteq P \ {t} /\ v <= u + MaxCost
           \/ Q \subseteq P /\ v + d <= u + e
    BY <2>3, <2>4, <2>5, <2>6
  <2>8. P \in SUBSET Threads /\ Q \in SUBSET Threads
    BY <2>2
  <2>9. v + Cardinality(Q) * MaxCost < Limit + Cardinality(Threads) * MaxCost + e
    BY <2>7, <2>8, StaysBelow
  <2>10. QED
    BY <2>1, <2>6, <2>9
<1>4. QED
  BY <1>1, <1>2, <1>3 DEF LimitInv

(* Which steps move a pass: a check that finds room gives one, a message   *)
(* that is let through gets its own, and a bill spends it.                 *)
LEMMA ServeAlone ==
  ASSUME TypeInv, NEW t \in Threads, Serve(t)
  PROVE  Alone(t)
<1>1. UNCHANGED month
  BY DEF Serve, Begin, Preflight, CallModel, CheckActual, EnforceLimit, SaveProposal, InsertUsage,
         RecordCost, SaveTrace, CommitWrite, CommitTrace, WriteFails
<1>2. /\ pc \in [Threads -> Steps] /\ DOMAIN req = Threads /\ DOMAIN tokens = Threads
      /\ DOMAIN dated = Threads /\ DOMAIN refused = Threads
  BY DEF TypeInv, TypeOK
<1>3. /\ \E x : pc' = [pc EXCEPT ![t] = x]
      /\ req' = req \/ \E x : req' = [req EXCEPT ![t] = x]
      /\ tokens' = tokens \/ \E x : tokens' = [tokens EXCEPT ![t] = x]
      /\ dated' = dated \/ \E x : dated' = [dated EXCEPT ![t] = x]
      /\ refused' = refused \/ \E x : refused' = [refused EXCEPT ![t] = x]
  <2>1. CASE Finish(t)
    BY <2>1 DEF Finish, Goto
  <2>2. CASE \E kind \in Kinds : Begin(t, kind)
    BY <2>2 DEF Begin, Goto
  <2>3. CASE CallModel(t)
    BY <2>3, CallOutcome DEF CallFailed, CallAnswered, Finish, Goto, CallModel
  <2>4. CASE CheckActual(t)
    BY <2>4 DEF CheckActual, Goto
  <2>5. CASE Preflight(t) \/ EnforceLimit(t)
    BY <2>1, <2>5 DEF Preflight, EnforceLimit, Goto
  <2>6. CASE SaveProposal(t) \/ InsertUsage(t) \/ RecordCost(t) \/ SaveTrace(t) \/ CommitWrite(t)
    BY <2>6 DEF SaveProposal, InsertUsage, RecordCost, SaveTrace, CommitWrite, Goto, historyVars
  <2>7. QED
    BY <2>1, <2>2, <2>3, <2>4, <2>5, <2>6 DEF Serve, CommitTrace, WriteFails
<1>4. QED
  BY <1>1, <1>2, <1>3 DEF Alone

(* Where a thread is after its step, when it goes on.                      *)
LEMMA Moves ==
  ASSUME TypeInv, NEW t \in Threads
  PROVE  /\ Finish(t) => pc'[t] = "idle" /\ tokens'[t] = 0 /\ dated'[t] = 1
         /\ \A step : Goto(t, step) => pc'[t] = step
         /\ \A x : req' = [req EXCEPT ![t] = x] => req'[t] = x
         /\ \A x : tokens' = [tokens EXCEPT ![t] = x] => tokens'[t] = x
         /\ \A x : dated' = [dated EXCEPT ![t] = x] => dated'[t] = x
         /\ \A x : refused' = [refused EXCEPT ![t] = x] => refused'[t] = x
BY DEF Finish, Goto, TypeInv, TypeOK

(* A step that bills nothing, and gives its thread no pass.                *)
LEMMA LimitQuiet ==
  ASSUME TypeInv, TypeInv', LimitInv, NEW t \in Threads, Alone(t),
         tokens'[t] <= MaxCost, dated'[t] <= month,
         pc'[t] \in Cleared /\ req'[t].kind \in Metered => Limit > 0,
         demo' = demo,
         \/ working'.used = working.used /\ durable'.used \in {working.used, durable.used}
         \/ working' = durable /\ durable' = durable,
         \A m \in Months : t \in Passes(m)' => t \in Passes(m)
  PROVE  LimitInv'
<1>1. ASSUME NEW m \in Months
      PROVE  /\ durable'.used[m] <= working'.used[m] /\ demo[m] <= demo'[m]
             /\ working'.used[m] <= working.used[m]
             /\ m > month => working'.used[m] = 0
  <2>1. durable.used[m] <= working.used[m] /\ (m > month => working.used[m] = 0)
    BY DEF LimitInv
  <2>2. working.used[m] \in Nat /\ durable.used[m] \in Nat /\ demo[m] \in Nat
    BY Sums
  <2>3. QED
    BY <2>1, <2>2
<1>2. QED
  BY <1>1, LimitStep

LEMMA FinishLimit ==
  ASSUME TypeInv, TypeInv', LimitInv, NEW t \in Threads, Alone(t), Finish(t), demo' = demo,
         \/ working'.used = working.used /\ durable'.used \in {working.used, durable.used}
         \/ working' = durable /\ durable' = durable
  PROVE  LimitInv'
<1>1. pc'[t] = "idle" /\ tokens'[t] = 0 /\ dated'[t] = 1
  BY Moves
<1>2. tokens'[t] <= MaxCost /\ dated'[t] <= month /\ pc'[t] \notin Cleared
  BY <1>1, MaxCostFacts, LimitAssumption DEF Cleared, TypeInv, TypeOK, Months
<1>3. \A m \in Months : t \notin Passes(m)'
  BY <1>1 DEF Passes, Cleared
<1>4. QED
  BY <1>2, <1>3, LimitQuiet

LEMMA ServeLimit ==
  ASSUME TypeInv, TypeInv', LimitInv, NEW t \in Threads, Serve(t)
  PROVE  LimitInv'
<1> DEFINE i == req[t].id
<1>1. Alone(t) /\ month' = month
  BY ServeAlone DEF Alone
<1>2. /\ tokens[t] <= MaxCost /\ dated[t] <= month /\ month \in Months
      /\ pc[t] \in Cleared /\ req[t].kind \in Metered => Limit > 0
      /\ tokens[t] \in Nat /\ dated[t] \in Months
  BY Sums DEF LimitInv, TypeInv, TypeOK
<1>3. \A m \in Months : working.used[m] \in Nat
  BY Sums
<1>4. ASSUME NEW kind \in Kinds, Begin(t, kind) PROVE LimitInv'
  <2>1. /\ pc'[t] \in {"preflight", "call"} /\ (pc'[t] = "call" => kind \notin Metered)
        /\ req'[t].kind = kind
    <3>1. PICK x : x = [id |-> clock', kind |-> kind]
      OBVIOUS
    <3>2. req'[t] = x
      BY <1>4, <3>1, Moves DEF Begin
    <3>3. PICK step \in {"preflight", "call"} : Goto(t, step) /\ (step = "call" => kind \notin Metered)
      BY <1>4 DEF Begin
    <3>4. QED
      BY <3>1, <3>2, <3>3, Moves
  <2>2. UNCHANGED <<working, durable, tokens, dated, demo>>
    BY <1>4 DEF Begin, connectionVars
  <2>3. \A m \in Months : t \notin Passes(m)'
    BY <2>1 DEF Passes, Cleared
  <2>4. pc'[t] \in Cleared => req'[t].kind \notin Metered
    BY <2>1 DEF Cleared
  <2>5. QED
    BY <1>1, <1>2, <2>2, <2>3, <2>4, LimitQuiet
<1>5. CASE Preflight(t)
  <2>1. UNCHANGED <<working, durable, demo>>
    BY <1>5 DEF Preflight, connectionVars
  <2>2. CASE Finish(t)
    BY <1>1, <2>1, <2>2, FinishLimit
  <2>3. CASE Within(Reserve) /\ Goto(t, "call") /\ UNCHANGED <<req, tokens, dated>>
    <3>1. working.used[month] < Limit /\ Limit > 0
      BY <1>2, <1>3, <2>3, LimitAssumption DEF Within
    <3>2. pc'[t] = "call" /\ tokens'[t] = tokens[t] /\ dated'[t] = dated[t]
      BY <2>3, Moves
    <3>3. \A m \in Months : t \in Passes(m)' => m = month
      BY <1>1, <3>2 DEF Passes
    <3>4. \A m \in Months : /\ durable'.used[m] <= working'.used[m] /\ demo[m] <= demo'[m]
                            /\ working'.used[m] = working.used[m] /\ working'.used[m] <= working.used[m]
                            /\ m > month => working'.used[m] = 0
      BY <2>1, Sums DEF LimitInv
    <3>5. QED
      BY <1>1, <1>2, <3>1, <3>2, <3>3, <3>4, LimitStep
  <2>4. QED
    BY <1>5, <2>2, <2>3 DEF Preflight
<1>6. CASE CallModel(t)
  <2>1. UNCHANGED <<working, durable, demo>> /\ pc[t] = "call"
    BY <1>6 DEF CallModel, connectionVars
  <2>2. CASE CallFailed(t)
    BY <1>1, <2>1, <2>2, FinishLimit DEF CallFailed
  <2>3. CASE CallAnswered(t)
    <3>1. tokens'[t] \in Costs \union {0} /\ dated'[t] = dated[t] /\ req'[t] = req[t]
          /\ pc'[t] \in {"trace", "record", "check", "save"}
      BY <2>3, Moves DEF CallAnswered
    <3>2. tokens'[t] <= MaxCost
      BY <3>1, MaxCostFacts
    <3>3. \A m \in Months : t \in Passes(m)' => t \in Passes(m)
      BY <1>1, <2>1, <3>1 DEF Passes, Cleared
    <3>4. pc[t] \in Cleared
      BY <2>1 DEF Cleared
    <3>5. QED
      BY <1>1, <1>2, <2>1, <3>1, <3>2, <3>3, <3>4, LimitQuiet
  <2>4. QED
    BY <1>6, <2>2, <2>3, CallOutcome
<1>7. CASE CheckActual(t)
  <2>1. UNCHANGED <<working, durable, demo, req, tokens, dated>> /\ pc[t] = "check"
        /\ pc'[t] \in {"save", "record"}
    BY <1>7, Moves DEF CheckActual, connectionVars, historyVars
  <2>2. \A m \in Months : t \in Passes(m)' => t \in Passes(m)
    BY <1>1, <2>1 DEF Passes, Cleared
  <2>3. pc[t] \in Cleared
    BY <2>1 DEF Cleared
  <2>4. QED
    BY <1>1, <1>2, <2>1, <2>2, <2>3, LimitQuiet
<1>8. CASE EnforceLimit(t)
  <2>1. UNCHANGED <<working, durable, demo>> /\ pc[t] = "record"
    BY <1>8 DEF EnforceLimit, connectionVars
  <2>2. CASE Finish(t)
    BY <1>1, <2>1, <2>2, FinishLimit
  <2>3. CASE /\ req[t].kind = "message" => Within(tokens[t])
             /\ dated' = [dated EXCEPT ![t] = month] /\ Goto(t, "bill") /\ UNCHANGED <<req, tokens>>
    <3>1. pc'[t] = "bill" /\ dated'[t] = month /\ tokens'[t] = tokens[t] /\ req'[t] = req[t]
      BY <2>3, Moves
    <3>2. \A m \in Months : t \in Passes(m)' => m = month /\ tokens[t] > 0
      BY <3>1 DEF Passes, Cleared
    <3>3. req[t].kind = "message" /\ tokens[t] > 0 => working.used[month] < Limit
      BY <1>2, <1>3, <2>3, LimitAssumption DEF Within
    <3>4. t \in Passes(month)' => t \in Passes(month) \/ working.used[month] < Limit
      BY <2>1, <3>1, <3>2, <3>3 DEF Passes, Cleared
    <3>5. \A m \in Months : /\ durable'.used[m] <= working'.used[m] /\ demo[m] <= demo'[m]
                            /\ working'.used[m] = working.used[m] /\ working'.used[m] <= working.used[m]
                            /\ m > month => working'.used[m] = 0
      BY <2>1, Sums DEF LimitInv
    <3>6. pc'[t] \notin Cleared /\ dated'[t] <= month
      BY <1>2, <3>1, Sums DEF Cleared
    <3>7. QED
      BY <1>1, <1>2, <3>1, <3>2, <3>4, <3>5, <3>6, LimitStep
  <2>4. QED
    BY <1>8, <2>2, <2>3 DEF EnforceLimit
<1>9. CASE SaveProposal(t) \/ RecordCost(t) \/ SaveTrace(t) \/ CommitWrite(t)
  <2>1. /\ UNCHANGED <<demo, req, tokens, dated>>
        /\ working'.used = working.used /\ durable'.used \in {working.used, durable.used}
    BY <1>9 DEF SaveProposal, RecordCost, SaveTrace, CommitWrite, Execute, Commit, historyVars,
                TypeInv, TypeOK, Database
  <2>2. pc'[t] \in Cleared => pc[t] \in Cleared
    <3>1. CASE CommitWrite(t)
      BY <3>1, Moves DEF CommitWrite, Cleared, Uncommitted
    <3>2. CASE SaveProposal(t) \/ RecordCost(t) \/ SaveTrace(t)
      BY <3>2, Moves DEF SaveProposal, RecordCost, SaveTrace, Cleared
    <3>3. QED
      BY <1>9, <3>1, <3>2
  <2>3. pc'[t] # "bill"
    BY <1>9, Moves DEF SaveProposal, RecordCost, SaveTrace, CommitWrite, Uncommitted
  <2>4. \A m \in Months : t \in Passes(m)' => t \in Passes(m)
    BY <1>1, <2>1, <2>2, <2>3 DEF Passes
  <2>5. QED
    BY <1>1, <1>2, <2>1, <2>2, <2>4, LimitQuiet
<1>10. CASE CommitTrace(t) \/ WriteFails(t)
  <2>1. Finish(t) /\ demo' = demo
    BY <1>10 DEF CommitTrace, WriteFails
  <2>2. \/ working' = working /\ durable' = working
        \/ working' = durable /\ durable' = durable
    BY <1>10 DEF CommitTrace, WriteFails, Commit, Rollback
  <2>3. QED
    BY <1>1, <2>1, <2>2, FinishLimit
<1>11. CASE InsertUsage(t)
  <2>1. /\ UNCHANGED <<durable, req, tokens, dated>> /\ pc[t] = "bill" /\ pc'[t] = "bill_commit"
    BY <1>11, Moves DEF InsertUsage, Execute
  <2>2. PICK m \in Months, n \in Nat : m = dated[t] /\ n = tokens[t]
    BY <1>2
  <2>3. /\ working'.used[m] = working.used[m] + n
        /\ \A l \in Months \ {m} : working'.used[l] = working.used[l]
    <3>1. working.used \in [Months -> Nat] /\ working \in Database
      BY DEF TypeInv, TypeOK, Database
    <3>2. working'.used = [working.used EXCEPT ![m] = working.used[m] + n]
      BY <1>11, <2>2, <3>1 DEF InsertUsage, Execute, Database
    <3>3. QED
      BY <3>1, <3>2
  <2>4. /\ demo'[m] = IF req[t].kind \in {"demo_capture", "demo_query"} THEN demo[m] + n ELSE demo[m]
        /\ \A l \in Months \ {m} : demo'[l] = demo[l]
    BY <1>11, <2>2 DEF InsertUsage, TypeInv, TypeOK
  <2>5. \A l \in Months : /\ working.used[l] \in Nat /\ durable.used[l] \in Nat /\ demo[l] \in Nat
                          /\ durable.used[l] <= working.used[l]
                          /\ l > month => working.used[l] = 0
    BY Sums DEF LimitInv
  <2>6. m <= month /\ m \in Nat /\ month \in Nat /\ n <= MaxCost /\ MaxCost \in Nat
    BY <1>2, <2>2, Sums, MaxCostFacts
  <2>7. \A l \in Months : /\ durable'.used[l] <= working'.used[l] /\ demo[l] <= demo'[l]
                          /\ l > month => working'.used[l] = 0
    BY <2>1, <2>3, <2>4, <2>5, <2>6
  <2>8. \A l \in Months : t \notin Passes(l)'
    BY <2>1 DEF Passes, Cleared
  <2>9. ASSUME NEW l \in Months, l <= month
        PROVE  \/ working'.used[l] <= working.used[l]
               \/ working'.used[l] + demo[l] <= working.used[l] + demo'[l]
               \/ t \in Passes(l) /\ working'.used[l] <= working.used[l] + MaxCost
    <3>1. CASE l # m \/ n = 0
      BY <2>3, <2>5, <3>1
    <3>2. CASE l = m /\ n > 0 /\ req[t].kind \in {"demo_capture", "demo_query"}
      BY <2>3, <2>4, <2>5, <3>2
    <3>3. CASE l = m /\ n > 0 /\ req[t].kind \notin {"demo_capture", "demo_query"}
      <4>1. req[t].kind \in Metered \union {"message"}
        BY <2>1, <3>3, ThreadFacts DEF Kinds, Metered
      <4>2. t \in Passes(l)
        BY <2>1, <2>2, <3>3, <4>1 DEF Passes
      <4>3. QED
        BY <2>3, <2>5, <2>6, <3>3, <4>2
    <3>4. QED
      BY <3>1, <3>2, <3>3
  <2>10. tokens'[t] <= MaxCost /\ dated'[t] <= month /\ pc'[t] \notin Cleared
    BY <1>2, <2>1 DEF Cleared
  <2>11. QED
    BY <1>1, <2>7, <2>8, <2>9, <2>10, LimitStep
<1>12. QED
  BY <1>4, <1>5, <1>6, <1>7, <1>8, <1>9, <1>10, <1>11 DEF Serve

LEMMA StepLimit ==
  TypeInv /\ TypeInv' /\ LimitInv /\ [Next]_vars => LimitInv'
<1> SUFFICES ASSUME TypeInv, TypeInv', LimitInv, [Next]_vars PROVE LimitInv'
  OBVIOUS
<1>1. CASE Restart
  <2>1. /\ UNCHANGED <<month, demo>> /\ working' = durable /\ durable' = durable
        /\ \A t \in Threads : pc'[t] = "idle" /\ tokens'[t] = 0 /\ dated'[t] = 1
    BY <1>1 DEF Restart, Rollback
  <2>2. month >= 1 /\ month \in Nat
    BY LimitAssumption DEF TypeInv, TypeOK, Months
  <2>3. \A t \in Threads : /\ tokens'[t] <= MaxCost /\ dated'[t] <= month' /\ pc'[t] \notin Cleared
    BY <2>1, <2>2, MaxCostFacts DEF Cleared
  <2>4. ASSUME NEW m \in Months, m <= month
        PROVE  working'.used[m] + Cardinality(Passes(m)') * MaxCost
                 < Limit + Cardinality(Threads) * MaxCost + demo'[m]
    <3>1. Passes(m)' = {}
      BY <2>1 DEF Passes, Cleared
    <3>2. /\ working.used[m] \in Nat /\ durable.used[m] \in Nat /\ demo[m] \in Nat
          /\ durable.used[m] <= working.used[m]
          /\ working.used[m] + Cardinality(Passes(m)) * MaxCost
               < Limit + Cardinality(Threads) * MaxCost + demo[m]
      BY <2>4, Sums DEF LimitInv
    <3>3. PICK P \in SUBSET Threads, u \in Nat, v \in Nat, d \in Nat :
            P = Passes(m) /\ u = working.used[m] /\ v = durable.used[m] /\ d = demo[m]
      BY <3>2 DEF Passes
    <3>4. PICK t \in Threads : TRUE
      BY LimitAssumption
    <3>5. {} \in SUBSET Threads /\ {} \subseteq P /\ v <= u /\ d <= d
          /\ u + Cardinality(P) * MaxCost < Limit + Cardinality(Threads) * MaxCost + d
      BY <3>2, <3>3
    <3>6. v + Cardinality({}) * MaxCost < Limit + Cardinality(Threads) * MaxCost + d
      BY <3>4, <3>5, StaysBelow
    <3>7. QED
      BY <2>1, <3>1, <3>3, <3>6
  <2>5. \A m \in Months : /\ durable'.used[m] <= working'.used[m]
                          /\ m > month' => working'.used[m] = 0
    BY <2>1, Sums DEF LimitInv
  <2>6. QED
    BY <2>1, <2>3, <2>4, <2>5 DEF LimitInv
<1>2. CASE NextMonth
  <2>1. UNCHANGED <<working, durable, pc, req, tokens, dated, demo>> /\ month' = month + 1
    BY <1>2 DEF NextMonth, connectionVars, threadVars, historyVars
  <2>2. month \in Nat /\ Months \subseteq Nat
    BY Sums
  <2>3. \A t \in Threads : /\ tokens'[t] <= MaxCost /\ dated'[t] <= month'
                           /\ pc'[t] \in Cleared /\ req'[t].kind \in Metered => Limit > 0
    <3>1. \A t \in Threads : dated[t] <= month /\ dated[t] \in Nat
      BY Sums DEF LimitInv
    <3>2. QED
      BY <2>1, <2>2, <3>1 DEF LimitInv
  <2>4. \A m \in Months : /\ durable'.used[m] <= working'.used[m]
                          /\ m > month' => working'.used[m] = 0
    BY <2>1, <2>2 DEF LimitInv
  <2>5. ASSUME NEW m \in Months, m <= month
        PROVE  working'.used[m] + Cardinality(Passes(m)') * MaxCost
                 < Limit + Cardinality(Threads) * MaxCost + demo'[m]
    <3>1. Passes(m)' \subseteq Passes(m)
      BY <2>1, <2>2, <2>5 DEF Passes
    <3>2. /\ working.used[m] \in Nat /\ demo[m] \in Nat
          /\ working.used[m] + Cardinality(Passes(m)) * MaxCost
               < Limit + Cardinality(Threads) * MaxCost + demo[m]
      BY <2>5, Sums DEF LimitInv
    <3>3. PICK P, Q : P = Passes(m) /\ Q = Passes(m)'
      OBVIOUS
    <3>4. PICK u \in Nat, d \in Nat : u = working.used[m] /\ d = demo[m]
      BY <3>2
    <3>5. PICK t \in Threads : TRUE
      BY LimitAssumption
    <3>6. P \in SUBSET Threads /\ Q \in SUBSET Threads /\ Q \subseteq P /\ u <= u /\ d <= d
          /\ u + Cardinality(P) * MaxCost < Limit + Cardinality(Threads) * MaxCost + d
      BY <3>1, <3>2, <3>3, <3>4 DEF Passes
    <3>7. u + Cardinality(Q) * MaxCost < Limit + Cardinality(Threads) * MaxCost + d
      BY <3>5, <3>6, StaysBelow
    <3>8. QED
      BY <2>1, <3>3, <3>4, <3>7
  <2>6. ASSUME NEW m \in Months, m = month'
        PROVE  working'.used[m] + Cardinality(Passes(m)') * MaxCost
                 < Limit + Cardinality(Threads) * MaxCost + demo'[m]
    <3>1. PICK Q : Q = Passes(m)'
      OBVIOUS
    <3>2. Q \subseteq Threads /\ working'.used[m] = 0 /\ demo'[m] \in Nat
      <4>1. m > month /\ working.used[m] = 0
        BY <2>1, <2>2, <2>6 DEF LimitInv
      <4>2. demo[m] \in Nat
        BY Sums
      <4>3. QED
        BY <2>1, <3>1, <4>1, <4>2 DEF Passes
    <3>3. Q # {} => Limit > 0
      <4>1. \A t \in Threads : dated'[t] # m
        BY <2>1, <2>2, <2>6, Sums DEF LimitInv
      <4>2. QED
        BY <2>3, <3>1, <4>1 DEF Passes
    <3>4. /\ Cardinality(Q) \in Nat /\ Cardinality(Threads) \in Nat /\ Cardinality(Threads) >= 1
          /\ Cardinality(Q) <= Cardinality(Threads) /\ (Q = {} => Cardinality(Q) = 0)
      BY <3>2, Held, FS_EmptySet
    <3>5. PICK q \in Nat, n \in Nat, c \in Nat, d \in Nat :
            /\ q = Cardinality(Q) /\ n = Cardinality(Threads) /\ c = MaxCost /\ d = demo'[m]
            /\ c > 0 /\ n >= 1 /\ q <= n
      BY <3>2, <3>4, MaxCostFacts
    <3>6. q * c \in Nat /\ n * c \in Nat /\ q * c <= n * c /\ 1 * c <= n * c
      BY <3>5, Times
    <3>7. CASE Q = {}
      <4>1. q = 0 /\ q * c = 0 * c
        BY <3>4, <3>5, <3>7
      <4>2. QED
        BY <3>1, <3>2, <3>5, <3>6, <4>1, LimitAssumption
    <3>8. CASE Q # {}
      BY <3>1, <3>2, <3>3, <3>5, <3>6, <3>8, LimitAssumption
    <3>9. QED
      BY <3>7, <3>8
  <2>7. \A m \in Months : m <= month' => m <= month \/ m = month'
    BY <2>1, <2>2
  <2>8. QED
    BY <2>3, <2>4, <2>5, <2>6, <2>7 DEF LimitInv
<1>3. CASE UNCHANGED vars
  BY <1>3 DEF vars, connectionVars, threadVars, historyVars, LimitInv, Passes
<1>4. QED
  BY <1>1, <1>2, <1>3, ServeLimit DEF Next

(* The hard limit (_ensure_preflight_capacity, record_usage) is overrun by *)
(* less than what all threads' calls may take once, whatever races, fails  *)
(* or crosses into another month; the built-in provider is not metered.    *)
THEOREM OverrunBoundedCorrect == Spec => []OverrunBounded
<1>1. Spec => []LimitInv
  BY Typing, InitLimit, StepLimit, PTL DEF Spec
<1>2. TypeInv /\ LimitInv => OverrunBounded
  <2> SUFFICES ASSUME TypeInv, LimitInv, NEW m \in Months
               PROVE  working.used[m] < Limit + Cardinality(Threads) * MaxCost + demo[m]
    BY DEF OverrunBounded
  <2>1. /\ Cardinality(Threads) \in Nat /\ Cardinality(Threads) >= 1
        /\ MaxCost \in Nat /\ MaxCost > 0 /\ Limit \in Nat
        /\ working.used[m] \in Nat /\ demo[m] \in Nat /\ month \in Nat /\ m \in Nat
    BY Held, MaxCostFacts, LimitAssumption, Sums
  <2>2. PICK n \in Nat : n = Cardinality(Threads) * MaxCost /\ n > 0
    <3>1. 1 * MaxCost <= Cardinality(Threads) * MaxCost /\ Cardinality(Threads) * MaxCost \in Nat
      BY <2>1, Times
    <3>2. QED
      BY <2>1, <3>1
  <2>3. CASE m > month
    BY <2>1, <2>2, <2>3 DEF LimitInv
  <2>4. CASE m <= month
    <3>1. PICK p \in Nat : p = Cardinality(Passes(m)) * MaxCost
      <4>1. Cardinality(Passes(m)) \in Nat
        BY Held DEF Passes
      <4>2. QED
        BY <2>1, <4>1, Times
    <3>2. working.used[m] + p < Limit + n + demo[m]
      BY <2>2, <2>4, <3>1 DEF LimitInv
    <3>3. QED
      BY <2>1, <2>2, <3>2
  <2>5. QED
    BY <2>1, <2>3, <2>4
<1>3. QED
  BY <1>1, <1>2, Typing, PTL

-----------------------------------------------------------------------------
(* The history of who was under way with whom.                             *)
LEMMA OwnRace ==
  ASSUME TypeInv, NEW t \in Threads, Serve(t), pc[t] # "idle", NEW u \in Threads \ {t}
  PROVE  raced'[u] = raced[u] /\ (pc'[t] # "idle" => raced'[t] = raced[t])
<1>1. raced' = raced \/ Finish(t)
  BY CallOutcome DEF Serve, Begin, Preflight, CallFailed, CallAnswered, CheckActual, EnforceLimit,
     SaveProposal, InsertUsage, RecordCost, SaveTrace, CommitWrite, CommitTrace, WriteFails, historyVars
<1>2. Finish(t) => raced' = [raced EXCEPT ![t] = FALSE] /\ pc'[t] = "idle"
  BY Moves DEF Finish
<1>3. QED
  BY <1>1, <1>2 DEF TypeInv, TypeOK

LEMMA ServeRoom ==
  ASSUME TypeInv, TypeInv', LimitInv, RoomInv, NEW s \in Threads, Serve(s)
  PROVE  RoomInv'
<1>1. Alone(s) /\ month' = month
  BY ServeAlone DEF Alone
<1>2. \A u \in Threads \ {s} : u \in Busy' <=> u \in Busy
  BY <1>1 DEF Busy, Alone
<1>3. CASE \E kind \in Kinds : Begin(s, kind)
  <2>1. /\ pc[s] = "idle" /\ pc'[s] \in {"preflight", "call"}
        /\ raced' = [u \in Threads |->
             IF u \in Busy THEN TRUE ELSE IF u = s THEN Busy # {} ELSE raced[u]]
    BY <1>3, Moves DEF Begin
  <2>2. Busy' = Busy \union {s} /\ s \notin Busy
    BY <1>2, <2>1 DEF Busy
  <2>3. \A u \in Busy' : ~raced'[u] => u = s /\ Busy = {}
    BY <2>1, <2>2 DEF Busy
  <2>4. QED
    BY <2>1, <2>2, <2>3 DEF RoomInv
<1>4. CASE ~\E kind \in Kinds : Begin(s, kind)
  <2>1. s \in Busy
    BY <1>4, ThreadFacts DEF Serve, Preflight, CallModel, CheckActual, EnforceLimit, SaveProposal,
       InsertUsage, RecordCost, SaveTrace, CommitWrite, CommitTrace, WriteFails, Uncommitted, Busy
  <2>2. \A u \in Busy' : ~raced'[u] => u = s
    <3>1. SUFFICES ASSUME NEW u \in Busy', u # s, ~raced'[u] PROVE FALSE
      OBVIOUS
    <3>2. u \in Busy /\ u \in Threads /\ raced'[u] = raced[u]
      BY <1>2, <2>1, <3>1, OwnRace DEF Busy
    <3>3. Busy = {u}
      BY <3>1, <3>2 DEF RoomInv
    <3>4. QED
      BY <2>1, <3>1, <3>3
  <2>3. SUFFICES ASSUME s \in Busy', ~raced'[s]
                 PROVE  /\ Busy' = {s}
                        /\ ~refused'[s] /\ pc'[s] \in {"save", "save_commit", "record"}
                             /\ req'[s].kind \in Metered
                             => working'.used[month'] + tokens'[s] <= Limit
                        /\ ~refused'[s] /\ pc'[s] = "bill"
                             /\ req'[s].kind \in Metered \union {"message"}
                             => working'.used[dated'[s]] + tokens'[s] <= Limit
    BY <2>2 DEF RoomInv
  <2>4. ~raced[s] /\ pc'[s] # "idle"
    <3>1. pc'[s] # "idle" /\ pc[s] # "idle"
      BY <2>1, <2>3 DEF Busy
    <3>2. CASE Threads = {s}
      <4>1. raced' = raced \/ Finish(s)
        BY <1>4, CallOutcome DEF Serve, Preflight, CallFailed, CallAnswered, CheckActual,
           EnforceLimit, SaveProposal, InsertUsage, RecordCost, SaveTrace, CommitWrite, CommitTrace,
           WriteFails, historyVars
      <4>2. QED
        BY <2>3, <3>1, <4>1, Moves
    <3>3. CASE Threads # {s}
      BY <2>3, <3>1, <3>3, OwnRace
    <3>4. QED
      BY <3>1, <3>2, <3>3
  <2>5. /\ Busy = {s}
        /\ ~refused[s] /\ pc[s] \in {"save", "save_commit", "record"} /\ req[s].kind \in Metered
             => working.used[month] + tokens[s] <= Limit
        /\ ~refused[s] /\ pc[s] = "bill" /\ req[s].kind \in Metered \union {"message"}
             => working.used[dated[s]] + tokens[s] <= Limit
    BY <2>1, <2>4 DEF RoomInv
  <2>6. Busy' = {s}
    BY <1>2, <2>3, <2>5 DEF Busy
  <2>7. Finish(s) => FALSE
    BY <2>4, Moves
  <2>8. CASE pc'[s] \notin {"save", "save_commit", "record", "bill"}
    BY <2>6, <2>8
  <2>9. CASE CallModel(s)
    <3>1. CallAnswered(s)
      BY <2>7, <2>9, CallOutcome DEF CallFailed
    <3>2. /\ req'[s] = req[s] /\ pc'[s] \in {"trace", "record", "check", "save"}
          /\ pc'[s] = "save" => req[s].kind = "demo_capture"
          /\ pc'[s] = "record" /\ req[s].kind \in Metered => refused'[s]
      BY <3>1, Moves DEF CallAnswered
    <3>3. QED
      BY <2>6, <3>2 DEF Metered
  <2>10. CASE CheckActual(s)
    <3>1. /\ refused'[s] = ~Within(tokens[s]) /\ pc'[s] \in {"save", "record"}
          /\ UNCHANGED <<working, tokens, month>>
      BY <2>10, Moves DEF CheckActual, connectionVars, historyVars
    <3>2. QED
      BY <1>1, <2>6, <3>1 DEF Within
  <2>11. CASE EnforceLimit(s)
    <3>1. /\ req[s].kind = "message" => Within(tokens[s])
          /\ dated'[s] = month /\ pc'[s] = "bill" /\ pc[s] = "record"
          /\ UNCHANGED <<working, req, tokens, refused>>
      BY <2>7, <2>11, Moves DEF EnforceLimit, connectionVars
    <3>2. QED
      BY <2>5, <2>6, <3>1 DEF Within
  <2>12. CASE SaveProposal(s)
    <3>1. /\ pc'[s] = "save_commit" /\ pc[s] = "save" /\ UNCHANGED <<req, tokens, refused>>
          /\ working'.used = working.used
      BY <2>12, Moves DEF SaveProposal, Execute, historyVars, TypeInv, TypeOK, Database
    <3>2. QED
      BY <1>1, <2>5, <2>6, <3>1
  <2>13. CASE CommitWrite(s) /\ pc'[s] = "record"
    <3>1. /\ pc[s] = "save_commit" /\ UNCHANGED <<working, req, tokens, refused>>
      BY <2>13, Moves DEF CommitWrite, Commit, Uncommitted
    <3>2. QED
      BY <1>1, <2>5, <2>6, <2>13, <3>1
  <2>14. CASE CommitWrite(s) /\ pc'[s] # "record"
    BY <2>8, <2>14, Moves DEF CommitWrite, Uncommitted
  <2>15. CASE Preflight(s) \/ InsertUsage(s) \/ RecordCost(s) \/ SaveTrace(s)
    BY <2>7, <2>8, <2>15, Moves DEF Preflight, InsertUsage, RecordCost, SaveTrace
  <2>16. QED
    BY <1>4, <2>7, <2>9, <2>10, <2>11, <2>12, <2>13, <2>14, <2>15 DEF Serve, CommitTrace, WriteFails
<1>5. QED
  BY <1>3, <1>4

LEMMA StepRoom ==
  TypeInv /\ TypeInv' /\ LimitInv /\ RoomInv /\ [Next]_vars => RoomInv'
<1> SUFFICES ASSUME TypeInv, TypeInv', LimitInv, RoomInv, [Next]_vars PROVE RoomInv'
  OBVIOUS
<1>1. CASE Restart
  BY <1>1 DEF Restart, RoomInv, Busy
<1>2. CASE NextMonth
  <2>1. UNCHANGED <<working, pc, req, tokens, dated, refused, raced>> /\ month' = month + 1
    BY <1>2 DEF NextMonth, connectionVars, threadVars, historyVars
  <2>2. /\ month \in Nat /\ month' \in Months /\ working.used[month] \in Nat
        /\ \A t \in Threads : tokens[t] \in Nat
    BY Sums, <2>1 DEF TypeInv, TypeOK
  <2>3. working.used[month'] = 0
    BY <2>1, <2>2 DEF LimitInv
  <2>4. Busy' = Busy /\ Busy \subseteq Threads
    BY <2>1 DEF Busy
  <2>5. SUFFICES ASSUME NEW t \in Busy, ~raced[t]
                 PROVE  /\ Busy = {t}
                        /\ ~refused[t] /\ pc[t] \in {"save", "save_commit", "record"}
                             /\ req[t].kind \in Metered
                             => working.used[month'] + tokens[t] <= Limit
                        /\ ~refused[t] /\ pc[t] = "bill"
                             /\ req[t].kind \in Metered \union {"message"}
                             => working.used[dated[t]] + tokens[t] <= Limit
    BY <2>1, <2>4 DEF RoomInv
  <2>6. QED
    BY <2>2, <2>3, <2>4, <2>5, LimitAssumption DEF RoomInv
<1>3. CASE UNCHANGED vars
  BY <1>3 DEF vars, connectionVars, threadVars, historyVars, RoomInv, Busy
<1>4. QED
  BY <1>1, <1>2, <1>3, ServeRoom DEF Next

(* A request that is served while no other is under way leaves the month's *)
(* sum within the limit (record_usage), whatever its call took.            *)
THEOREM ServedWithinLimitCorrect == Spec => ServedWithinLimit
<1> DEFINE Served == \A t \in Threads :
             /\ pc[t] = "bill" /\ pc'[t] = "bill_commit"
             /\ req[t].kind \in {"message"} \union Metered /\ ~refused[t] /\ ~raced[t]
             => working'.used[dated[t]] <= Limit
<1>1. Spec => [](LimitInv /\ RoomInv)
  BY Typing, InitLimit, StepLimit, StepRoom, PTL DEF Spec
<1>2. ASSUME TypeInv, RoomInv, [Next]_vars PROVE Served
  <2>1. SUFFICES ASSUME NEW t \in Threads, pc[t] = "bill", pc'[t] = "bill_commit",
                        req[t].kind \in {"message"} \union Metered, ~refused[t], ~raced[t]
                 PROVE  working'.used[dated[t]] <= Limit
    OBVIOUS
  <2>2. working.used[dated[t]] + tokens[t] <= Limit
    BY <1>2, <2>1 DEF RoomInv, Busy
  <2>3. ~UNCHANGED vars /\ ~Restart /\ ~NextMonth
    BY <2>1 DEF vars, threadVars, Restart, NextMonth
  <2>4. PICK s \in Threads : Serve(s)
    BY <1>2, <2>3 DEF Next
  <2>5. s = t
    BY <1>2, <2>1, <2>4, ServeAlone DEF Alone
  <2>6. InsertUsage(t)
    <3>1. ~Finish(t)
      BY <1>2, <2>1, Moves
    <3>2. QED
      BY <2>1, <2>4, <2>5, <3>1 DEF Serve, Begin, Preflight, CallModel, CheckActual, EnforceLimit,
         SaveProposal, RecordCost, SaveTrace, CommitWrite, CommitTrace, WriteFails, Uncommitted
  <2>7. working'.used[dated[t]] = working.used[dated[t]] + tokens[t]
    <3>1. PICK m \in Months, n \in Nat : m = dated[t] /\ n = tokens[t]
      BY <1>2, Sums
    <3>2. working.used \in [Months -> Nat] /\ working \in Database
      BY <1>2 DEF TypeInv, TypeOK, Database
    <3>3. working'.used = [working.used EXCEPT ![m] = working.used[m] + n]
      BY <2>6, <3>1, <3>2 DEF InsertUsage, Execute, Database
    <3>4. QED
      BY <3>1, <3>2, <3>3
  <2>8. QED
    BY <2>2, <2>7
<1>3. QED
  BY <1>1, <1>2, Typing, PTL DEF Spec, ServedWithinLimit
=============================================================================
