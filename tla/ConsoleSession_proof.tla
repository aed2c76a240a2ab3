------------------------- MODULE ConsoleSession_proof -------------------------
(* Theorems about ConsoleSession, for every set of users and tokens and    *)
(* any number of asynchronous functions under way.                         *)
EXTENDS ConsoleSession, TLAPS

(* The requests that need a current user.                                  *)
Others == {"me", "logout", "create", "operation", "buddies", "retention", "engagement"}
SignIns == {"login", "register"}

(* A token that was issued, or none.                                       *)
Known(x) == x # None => owner[x] # None

(* What a function knows of its request, and of the session by now: whose  *)
(* the data of an answer is, that a token which has expired stays so, and  *)
(* that the founder's metrics which are still the latest were asked for in *)
(* the session that is open.                                               *)
TaskOK(r) ==
  /\ Known(r.sent)
  /\ r.at \in SignIns => /\ r.as \in Users /\ r.answer # "expired"
                         /\ r.answer = "ok" => r.issued # None /\ owner[r.issued] = r.as
  /\ r.at \in Others /\ r.answer = "ok" => r.sent # None
  /\ r.at \in Others \union Snapshots /\ r.answer = "ok" /\ r.sent # None =>
       r.whose = owner[r.sent]
  /\ r.answer = "expired" => r.sent # None /\ r.sent \notin live
  /\ r.at \in {"retention", "engagement"} =>
       /\ r.generation <= generation
       /\ r.generation = generation /\ ~overwritten =>
            token # None /\ r.session = token /\ r.sent = token

(* The token that is stored is that of the page, unless another tab was    *)
(* the last to change it.                                                  *)
SessionKnown ==
  /\ Known(token) /\ Known(stored)
  /\ stored = token \/ shared

(* Another tab asks for no metrics, which alone are bound to a generation. *)
OtherTabAwaits == {None, "login", "logout", "logout_recover"}
OtherTabOK == task[OtherTab].at \in OtherTabAwaits

ConsoleInv ==
  /\ TypeOK
  /\ SessionKnown
  /\ OtherTabOK
  /\ \A k \in Slots : TaskOK(task[k])
  /\ ShownIsMine

-----------------------------------------------------------------------------
LEMMA AwaitFacts ==
  /\ SignIns \union Others \union Snapshots = Awaits
  /\ SignIns \intersect Others = {} /\ SignIns \intersect Snapshots = {}
  /\ Others \intersect Snapshots = {}
  /\ None \notin Awaits /\ None \notin Answers /\ None \notin Tokens /\ None \notin Users
  /\ Legacy \notin Users
BY NoneAssumption, ConsoleAssumption DEF Awaits, SignIns, Others, Snapshots

LEMMA SlotFacts == /\ Page \subseteq Slots /\ OtherTab \in Slots /\ OtherTab \notin Page
BY DEF Page, Slots, OtherTab

(* What a step may do to the accounts and to the session without making    *)
(* false what the functions under way know.                                *)
Monotone ==
  /\ \A x \in Tokens : owner[x] # None => owner'[x] = owner[x]
  /\ \A x \in Tokens : x \in live' => x \in live \/ owner[x] = None
  /\ generation <= generation'
  /\ overwritten => overwritten'
  /\ token' = token \/ token = None \/ generation < generation' \/ overwritten'

LEMMA Steady ==
  ASSUME TypeOK, generation' \in Nat, Monotone, NEW r \in Task, TaskOK(r)
  PROVE  TaskOK(r)'
<1>1. /\ r.sent \in Tokens \union {None} /\ r.issued \in Tokens \union {None}
      /\ r.generation \in Nat /\ generation \in Nat
  BY DEF Task, TypeOK
<1>2. r.sent # None => /\ owner[r.sent] # None /\ owner'[r.sent] = owner[r.sent]
                       /\ r.sent \notin live => r.sent \notin live'
  BY <1>1 DEF TaskOK, Known, Monotone
<1>3. ASSUME r.at \in SignIns PROVE /\ r.as \in Users /\ r.answer # "expired"
                                   /\ r.answer = "ok" => r.issued # None /\ owner'[r.issued] = r.as
  BY <1>1, <1>3, AwaitFacts DEF TaskOK, Monotone
<1>4. ASSUME r.at \in {"retention", "engagement"}
      PROVE  /\ r.generation <= generation'
             /\ r.generation = generation' /\ ~overwritten' =>
                  token' # None /\ r.session = token' /\ r.sent = token'
  <2>1. /\ r.generation <= generation
        /\ r.generation = generation /\ ~overwritten =>
             token # None /\ r.session = token /\ r.sent = token
    BY <1>4 DEF TaskOK
  <2>2. r.generation <= generation'
    BY <1>1, <2>1 DEF Monotone
  <2>3. ASSUME r.generation = generation', ~overwritten'
        PROVE  token' # None /\ r.session = token' /\ r.sent = token'
    <3>1. generation = generation' /\ r.generation = generation
      BY <1>1, <2>1, <2>3 DEF Monotone
    <3>2. QED
      BY <2>1, <2>3, <3>1 DEF Monotone
  <2>4. QED
    BY <2>2, <2>3
<1>5. QED
  BY <1>2, <1>3, <1>4 DEF TaskOK, Known

LEMMA TasksKept ==
  ASSUME ConsoleInv, generation' \in Nat, Monotone, NEW k \in Slots,
         NEW next \in Task, task' = [task EXCEPT ![k] = next], TaskOK(next)',
         k = OtherTab => next.at \in OtherTabAwaits
  PROVE  /\ task' \in [Slots -> Task]
         /\ \A j \in Slots : TaskOK(task[j])'
         /\ OtherTabOK'
<1>1. task' \in [Slots -> Task]
  BY DEF ConsoleInv, TypeOK
<1>2. ASSUME NEW j \in Slots PROVE TaskOK(task[j])'
  <2>1. CASE j = k
    <3>1. task'[j] = next
      BY <2>1 DEF ConsoleInv, TypeOK
    <3>2. QED
      BY <3>1 DEF TaskOK, Known
  <2>2. CASE j # k
    <3>1. PICK r \in Task : r = task[j] /\ task'[j] = r
      BY <2>2 DEF ConsoleInv, TypeOK
    <3>2. TaskOK(r)
      BY <3>1 DEF ConsoleInv
    <3>3. TaskOK(r)'
      BY <3>2, Steady DEF ConsoleInv
    <3>4. QED
      BY <3>1, <3>3 DEF TaskOK, Known
  <2>3. QED
    BY <2>1, <2>2
<1>3. OtherTabOK'
  BY SlotFacts DEF ConsoleInv, TypeOK, OtherTabOK
<1>4. QED
  BY <1>1, <1>2, <1>3

(* A function at a new await, without an answer.                           *)
LEMMA AskType ==
  ASSUME NEW request \in Awaits, NEW x \in Tokens \union {None}, NEW k \in Slots, TypeOK
  PROVE  /\ Idle \in Task /\ Ask(request, x) \in Task /\ Then(k, request, x) \in Task
         /\ Idle.at = None /\ Idle.answer = None /\ Idle.sent = None
         /\ Ask(request, x).at = request /\ Ask(request, x).sent = x
         /\ Ask(request, x).answer = None
         /\ Then(k, request, x).at = request /\ Then(k, request, x).sent = x
         /\ Then(k, request, x).answer = None
BY DEF Idle, Ask, Then, Task, Owners, TypeOK

LEMMA AskOK ==
  ASSUME NEW r \in Task, r.answer = None, r.at \notin SignIns \union {"retention", "engagement"},
         Known(r.sent)'
  PROVE  TaskOK(r)'
BY AwaitFacts DEF TaskOK, Answers, Others, Snapshots

LEMMA InitConsole == Init => ConsoleInv
<1> SUFFICES ASSUME Init PROVE ConsoleInv
  OBVIOUS
<1> USE DEF Init
<1>1. Idle \in Task
  BY DEF Idle, Task, Owners
<1>2. TypeOK
  <2>1. AccountsOK
    BY ConsoleAssumption DEF AccountsOK
  <2>2. view \in View
    BY DEF EmptyView, View, Owners
  <2>3. acts \in 0 .. MaxActs
    BY ConsoleAssumption
  <2>4. QED
    BY <1>1, <2>1, <2>2, <2>3 DEF TypeOK
<1>3. \A k \in Slots : TaskOK(task[k])
  BY AwaitFacts DEF TaskOK, Known, Idle, Others, SignIns, Snapshots, Awaits, Answers
<1>4. SessionKnown /\ ShownIsMine /\ OtherTabOK
  BY SlotFacts DEF SessionKnown, Known, ShownIsMine, EmptyView, OtherTabOK, OtherTabAwaits, Idle
<1>5. QED
  BY <1>2, <1>3, <1>4 DEF ConsoleInv

-----------------------------------------------------------------------------
(* The accounts only grow, but for a session that is revoked.              *)
AccountsGrow ==
  /\ AccountsOK'
  /\ \A x \in Tokens : owner[x] # None => owner'[x] = owner[x]
  /\ \A x \in Tokens : x \in live' => x \in live \/ owner[x] = None

LEMMA IssueGrows ==
  ASSUME AccountsOK, NEW u \in Users, LogIn(u) \/ Register(u)
  PROVE  /\ AccountsGrow
         /\ FreshToken \in Tokens /\ owner'[FreshToken] = u
<1>1. FreshToken \in Unissued
  BY DEF LogIn, Register, IssueSession, FreshToken
<1>2. FreshToken \in Tokens /\ owner[FreshToken] = None
  BY <1>1 DEF Unissued
<1>3. owner' = [owner EXCEPT ![FreshToken] = u] /\ live' \in {live, live \union {FreshToken}}
      /\ registered' \subseteq Users /\ homes' = homes
  BY DEF LogIn, Register, IssueSession, AccountsOK
<1>4. QED
  BY <1>2, <1>3, AwaitFacts DEF AccountsGrow, AccountsOK

(* What the page may rely on in an answer.                                 *)
Honest(k, answer, whose, issued) ==
  LET r == task[k] IN
  /\ r.at \in SignIns => /\ answer # "expired"
                         /\ answer = "ok" => issued # None /\ owner'[issued] = r.as
  /\ r.at \in Others /\ answer = "ok" => r.sent # None
  /\ r.at \notin SignIns /\ answer = "ok" /\ r.sent # None => whose = owner'[r.sent]
  /\ answer = "expired" => r.sent # None /\ r.sent \notin live'

LEMMA HonestKeeps ==
  ASSUME ConsoleInv, NEW k \in Slots, AccountsGrow,
         UNCHANGED <<authVars, view, generation, controls, acts, historyVars>>,
         NEW answer \in Answers, NEW whose \in Owners, NEW issued \in Tokens \union {None},
         Reply(k, answer, whose, issued), Honest(k, answer, whose, issued)
  PROVE  ConsoleInv'
<1>1. TypeOK /\ TaskOK(task[k]) /\ task[k] \in Task /\ SessionKnown
  BY DEF ConsoleInv, TypeOK
<1>2. UNCHANGED <<token, user, stored, shared, view, generation, controls, acts, crossed,
                overwritten, cut>>
  BY DEF authVars, historyVars
<1>3. PICK next : next = [task[k] EXCEPT !.answer = answer, !.whose = whose, !.issued = issued]
  OBVIOUS
<1>4. next \in Task
  BY <1>1, <1>3 DEF Task
<1>5. task' = [task EXCEPT ![k] = next]
  BY <1>1, <1>3 DEF Reply, TypeOK
<1>6. Monotone /\ generation' \in Nat
  BY <1>1, <1>2 DEF Monotone, AccountsGrow, TypeOK
<1>7. TaskOK(next)'
  <2>1. /\ next.at = task[k].at /\ next.sent = task[k].sent /\ next.as = task[k].as
        /\ next.answer = answer /\ next.whose = whose /\ next.issued = issued
        /\ next.generation = task[k].generation /\ next.session = task[k].session
    BY <1>1, <1>3 DEF Task
  <2>2. next.sent \in Tokens \union {None} /\ Known(next.sent)'
    BY <1>1, <2>1 DEF TaskOK, Known, AccountsGrow, Task
  <2>3. QED
    BY <1>1, <1>2, <2>1, <2>2, AwaitFacts DEF TaskOK, Known, Honest
<1>8. task' \in [Slots -> Task] /\ (\A j \in Slots : TaskOK(task[j])') /\ OtherTabOK'
  <2>1. k = OtherTab => next.at \in OtherTabAwaits
    BY <1>1, <1>3 DEF ConsoleInv, OtherTabOK, Task
  <2>2. QED
    BY <1>4, <1>5, <1>6, <1>7, <2>1, TasksKept
<1>9. TypeOK'
  BY <1>1, <1>2, <1>8 DEF TypeOK, AccountsGrow
<1>10. SessionKnown'
  <2>1. token \in Tokens \union {None} /\ stored \in Tokens \union {None}
    BY <1>1 DEF TypeOK
  <2>2. Known(token)' /\ Known(stored)'
    BY <1>1, <1>2, <2>1 DEF SessionKnown, Known, AccountsGrow
  <2>3. QED
    BY <1>1, <1>2, <2>2 DEF SessionKnown
<1>11. ShownIsMine'
  <2>1. Me' = Me
    BY <1>1, <1>2 DEF Me, SessionKnown, Known, AccountsGrow, TypeOK
  <2>2. QED
    BY <1>2, <2>1 DEF ConsoleInv, ShownIsMine
<1>12. QED
  BY <1>8, <1>9, <1>10, <1>11 DEF ConsoleInv

(* The server answers with the data of the account whose token was sent.   *)
LEMMA ServeKeeps ==
  ASSUME ConsoleInv, NEW k \in Slots, Serve(k)
  PROVE  ConsoleInv'
<1>1. /\ TypeOK /\ AccountsOK /\ TaskOK(task[k]) /\ task[k] \in Task
      /\ task[k].sent \in Tokens \union {None}
      /\ UNCHANGED <<authVars, view, generation, controls, acts, historyVars>>
  BY DEF ConsoleInv, TypeOK, Task, Serve
<1>2. UNCHANGED accountVars => AccountsGrow
  BY <1>1 DEF accountVars, AccountsGrow, AccountsOK
<1>3. ASSUME Refuse(k) PROVE ConsoleInv'
  <2>1. Honest(k, "refused", None, None)
    BY DEF Honest
  <2>2. Reply(k, "refused", None, None) /\ "refused" \in Answers /\ None \in Owners
    BY <1>3 DEF Refuse, Answers, Owners
  <2>3. QED
    BY <1>1, <1>2, <1>3, <2>1, <2>2, HonestKeeps DEF Refuse
<1>4. CASE ServeSignIn(k)
  <2>1. task[k].as \in Users /\ task[k].at \in SignIns
    BY <1>1, <1>4 DEF ServeSignIn, TaskOK, SignIns
  <2>2. CASE (LogIn(task[k].as) \/ Register(task[k].as)) /\ Reply(k, "ok", task[k].as, FreshToken)
    <3>1. PICK x \in Tokens : x = FreshToken /\ owner'[x] = task[k].as
      BY <1>1, <2>1, <2>2, IssueGrows
    <3>2. PICK u \in Users : u = task[k].as
      BY <2>1
    <3>3. Honest(k, "ok", u, x)
      BY <2>1, <3>1, <3>2, AwaitFacts DEF Honest
    <3>4. Reply(k, "ok", u, x)
      BY <2>2, <3>1, <3>2
    <3>5. AccountsGrow
      BY <1>1, <2>1, <2>2, IssueGrows
    <3>6. QED
      BY <1>1, <3>3, <3>4, <3>5, HonestKeeps DEF Answers, Owners
  <2>3. CASE RegisterHalf(task[k].as) /\ Reply(k, "refused", None, None)
    <3>1. AccountsGrow
      BY <1>1, <2>1, <2>3 DEF RegisterHalf, AccountsGrow, AccountsOK
    <3>2. Honest(k, "refused", None, None)
      BY DEF Honest
    <3>3. QED
      BY <1>1, <2>3, <3>1, <3>2, HonestKeeps DEF Answers, Owners
  <2>4. QED
    BY <1>3, <1>4, <2>2, <2>3 DEF ServeSignIn
<1>5. CASE ServeSnapshot(k)
  <2>1. task[k].at \in Snapshots /\ UNCHANGED accountVars
    BY <1>5 DEF ServeSnapshot
  <2>2. CASE task[k].sent # None /\ task[k].sent \notin live
    <3>1. Honest(k, "expired", None, None) /\ Reply(k, "expired", None, None)
      BY <1>5, <2>1, <2>2, AwaitFacts DEF Honest, ServeSnapshot, accountVars
    <3>2. QED
      BY <1>1, <1>2, <2>1, <3>1, HonestKeeps DEF Answers, Owners
  <2>3. CASE ~(task[k].sent # None /\ task[k].sent \notin live)
    <3>1. PICK whose : whose = IF task[k].sent = None THEN Legacy ELSE owner[task[k].sent]
      OBVIOUS
    <3>2. whose \in Owners
      BY <1>1, <3>1 DEF Owners, AccountsOK
    <3>3. Honest(k, "ok", whose, None)
      BY <2>1, <3>1, AwaitFacts DEF Honest, accountVars
    <3>4. Reply(k, "ok", whose, None)
      BY <1>5, <2>3, <3>1 DEF ServeSnapshot
    <3>5. QED
      BY <1>1, <1>2, <2>1, <3>2, <3>3, <3>4, HonestKeeps DEF Answers
  <2>4. QED
    BY <2>2, <2>3
<1>6. CASE ServeOther(k)
  <2>1. PICK x, u : x = task[k].sent /\ u = IF x = None THEN None ELSE Authenticate(x)
    OBVIOUS
  <2>2. task[k].at \in Others
    BY <1>6 DEF ServeOther, Others
  <2>3. CASE x = None
    BY <1>3, <1>6, <2>1, <2>3 DEF ServeOther
  <2>4. CASE x # None /\ u = None
    <3>1. x \notin live
      BY <1>1, <2>1, <2>4 DEF Authenticate, TaskOK, Known
    <3>2. Reply(k, "expired", None, None) /\ UNCHANGED accountVars
      BY <1>6, <2>1, <2>4 DEF ServeOther
    <3>3. Honest(k, "expired", None, None)
      BY <2>1, <2>2, <2>4, <3>1, <3>2, AwaitFacts DEF Honest, accountVars
    <3>4. QED
      BY <1>1, <1>2, <3>2, <3>3, HonestKeeps DEF Answers, Owners
  <2>5. CASE x # None /\ u # None
    <3>1. x \in live /\ u = owner[x] /\ u \in Users
      BY <1>1, <2>1, <2>5 DEF Authenticate, AccountsOK
    <3>2. \/ Refuse(k)
          \/ /\ Reply(k, "ok", u, None)
             /\ LogOut(x) \/ CreateBuddy(u) \/ UNCHANGED accountVars
      <4>1. x # None /\ u # None
        BY <2>5
      <4>2. QED
        BY <1>6, <2>1, <4>1 DEF ServeOther
    <3>3. ASSUME Reply(k, "ok", u, None), LogOut(x) \/ CreateBuddy(u) \/ UNCHANGED accountVars
          PROVE  ConsoleInv'
      <4>1. AccountsGrow /\ owner' = owner
        BY <1>1, <3>1, <3>3 DEF LogOut, CreateBuddy, accountVars, AccountsGrow, AccountsOK
      <4>2. Honest(k, "ok", u, None)
        BY <2>1, <2>2, <2>5, <3>1, <4>1, AwaitFacts DEF Honest
      <4>3. QED
        BY <1>1, <3>1, <3>3, <4>1, <4>2, HonestKeeps DEF Answers, Owners
    <3>4. QED
      BY <1>3, <3>2, <3>3
  <2>6. QED
    BY <2>3, <2>4, <2>5
<1>7. QED
  BY <1>4, <1>5, <1>6 DEF Serve

LEMMA LoseKeeps ==
  ASSUME ConsoleInv, NEW k \in Slots, Lose(k)
  PROVE  ConsoleInv'
<1>1. /\ Reply(k, "lost", None, None) /\ UNCHANGED accountVars
      /\ UNCHANGED <<authVars, view, generation, controls, acts, historyVars>>
  BY DEF Lose, Reply
<1>2. AccountsGrow /\ Honest(k, "lost", None, None)
  BY <1>1 DEF accountVars, AccountsGrow, AccountsOK, ConsoleInv, TypeOK, Honest
<1>3. QED
  BY <1>1, <1>2, HonestKeeps DEF Answers, Owners

-----------------------------------------------------------------------------
(* A step of the page in the session it is in: all that is left to show is *)
(* what it puts on the page, and what the function which goes on awaits.   *)
LEMMA SameSession ==
  ASSUME ConsoleInv, NEW k \in Page, NEW next \in Task, Continue(k, next), TaskOK(next)',
         UNCHANGED <<accountVars, token, stored, shared, overwritten>>,
         user' \in Users \union {None}, view' \in View, controls' \in BOOLEAN,
         generation' \in Nat, generation <= generation', acts' \in 0 .. MaxActs,
         crossed' \in BOOLEAN, cut' \in BOOLEAN,
         ~overwritten => view'.metrics \in {None, Me},
         ~overwritten /\ ~crossed' =>
           {user', view'.buddies, view'.buddy, view'.data, view'.draft} \subseteq {None, Me}
  PROVE  ConsoleInv'
<1>1. TypeOK /\ SessionKnown
  BY DEF ConsoleInv
<1>2. UNCHANGED <<registered, owner, live, homes, token, stored, shared, overwritten>>
  BY DEF accountVars
<1>3. Monotone
  BY <1>2 DEF Monotone
<1>4. task' \in [Slots -> Task] /\ (\A j \in Slots : TaskOK(task[j])') /\ OtherTabOK'
  BY <1>3, SlotFacts, TasksKept DEF Continue
<1>5. TypeOK'
  BY <1>1, <1>2, <1>4 DEF TypeOK, AccountsOK
<1>6. SessionKnown'
  BY <1>1, <1>2 DEF SessionKnown, Known
<1>7. ShownIsMine'
  BY <1>2 DEF ShownIsMine, Me
<1>8. QED
  BY <1>4, <1>5, <1>6, <1>7 DEF ConsoleInv

(* A step of the page that ends the session: whatever was loading goes on, *)
(* and its metrics are those of a generation that is over.                 *)
LEMMA ClearKeeps ==
  ASSUME ConsoleInv, NEW k \in Page, Use(k), ClearSession,
         NEW next \in Task, Continue(k, next), next.sent = None, next.answer = None,
         next.at \in Snapshots,
         UNCHANGED <<accountVars, acts, overwritten, cut>>
  PROVE  ConsoleInv'
<1>1. TypeOK /\ task[k] \in Task /\ k \in Slots
  BY SlotFacts DEF ConsoleInv, TypeOK
<1>2. UNCHANGED <<registered, owner, live, homes, acts, overwritten, cut>>
  BY DEF accountVars
<1>3. /\ token' = None /\ user' = None /\ stored' = None /\ shared' = FALSE /\ view' = EmptyView
      /\ generation' = generation + 1 /\ controls' = FALSE
  BY DEF ClearSession
<1>4. generation \in Nat /\ generation' \in Nat /\ generation < generation'
  BY <1>1, <1>3 DEF TypeOK
<1>5. Monotone
  BY <1>2, <1>4 DEF Monotone
<1>6. TaskOK(next)'
  BY AskOK, AwaitFacts DEF Known, Snapshots, SignIns
<1>7. task' \in [Slots -> Task] /\ (\A j \in Slots : TaskOK(task[j])') /\ OtherTabOK'
  BY <1>4, <1>5, <1>6, SlotFacts, TasksKept DEF Continue
<1>8. crossed' \in BOOLEAN /\ view' \in View
  BY <1>1, <1>3 DEF Use, TypeOK, EmptyView, View, Owners
<1>9. TypeOK'
  BY <1>1, <1>2, <1>3, <1>4, <1>7, <1>8 DEF TypeOK, AccountsOK
<1>10. SessionKnown'
  BY <1>3 DEF SessionKnown, Known
<1>11. ShownIsMine'
  BY <1>3 DEF ShownIsMine, EmptyView
<1>12. QED
  BY <1>7, <1>9, <1>10, <1>11 DEF ConsoleInv

LEMMA EndingsKeep ==
  ASSUME ConsoleInv, NEW k \in Page,
         NotRestored(k) \/ Expired(k) \/ LoggedOut(k) \/ LogoutRecovered(k)
  PROVE  ConsoleInv'
<1>1. TypeOK /\ k \in Slots
  BY SlotFacts DEF ConsoleInv
<1>2. /\ Use(k) /\ ClearSession
      /\ UNCHANGED <<accountVars, acts, overwritten, cut>>
      /\ \E request \in Snapshots :
           Continue(k, Ask(request, None)) \/ Continue(k, Then(k, request, None))
  BY DEF NotRestored, Expired, LoggedOut, LogoutRecovered, Snapshots
<1>3. PICK request \in Snapshots :
        Continue(k, Ask(request, None)) \/ Continue(k, Then(k, request, None))
  BY <1>2
<1>4. PICK next : Continue(k, next) /\ next \in {Ask(request, None), Then(k, request, None)}
  BY <1>3
<1>5. next \in Task /\ next.at = request /\ next.sent = None /\ next.answer = None
  BY <1>1, <1>4, AskType, AwaitFacts
<1>6. QED
  BY <1>2, <1>3, <1>4, <1>5, ClearKeeps

(* A request that is not signed in with, asked in the session of the page. *)
LEMMA Asked ==
  ASSUME ConsoleInv, NEW k \in Page, NEW request \in Awaits \ (SignIns \union {"retention", "engagement"}),
         UNCHANGED <<owner, token, stored>>, NEW x \in {token, stored, None},
         NEW next \in {Idle, Ask(request, x), Then(k, request, x), [Ask(request, x) EXCEPT !.restoring = TRUE]}
  PROVE  next \in Task /\ TaskOK(next)'
<1>1. TypeOK /\ SessionKnown /\ k \in Slots
  BY SlotFacts DEF ConsoleInv
<1>2. PICK y \in Tokens \union {None} : y = x
  BY <1>1 DEF TypeOK
<1>3. Known(y)'
  BY <1>1, <1>2 DEF SessionKnown, Known
<1>4. /\ next \in Task /\ next.at \in {None, request} /\ next.sent \in {None, y}
      /\ next.answer = None
  <2>1. CASE next # [Ask(request, y) EXCEPT !.restoring = TRUE]
    BY <1>1, <1>2, <2>1, AskType
  <2>2. CASE next = [Ask(request, y) EXCEPT !.restoring = TRUE]
    BY <2>2 DEF Ask, Idle, Task, Owners
  <2>3. QED
    BY <2>1, <2>2
<1>5. next.at \notin SignIns \union {"retention", "engagement"}
  BY <1>4, AwaitFacts DEF SignIns, Awaits
<1>6. Known(next.sent)'
  BY <1>3, <1>4 DEF Known
<1>7. QED
  BY <1>4, <1>5, <1>6, AskOK

(* The answer to a request of the session that is open is about its user.  *)
LEMMA AnswerIsMine ==
  ASSUME ConsoleInv, NEW k \in Page, task[k].answer = "ok",
         task[k].at \in Others \union Snapshots,
         task[k].sent = token, task[k].at \in Others \/ token # None
  PROVE  task[k].whose = Me
BY SlotFacts DEF ConsoleInv, TaskOK, Me

(* loadAuthBuddies leaves what is shown, or no buddy of it.                *)
LEMMA RefreshShows ==
  ASSUME NEW v \in View, NEW k, NEW u, NEW x, Refresh(k, u, x, v)
  PROVE  /\ view' \in View /\ view'.metrics = v.metrics /\ view'.data = v.data
         /\ view'.draft = v.draft
         /\ view'.buddies \in {None, v.buddies} /\ view'.buddy \in {None, v.buddy}
<1>1. PICK w : w = [v EXCEPT !.buddies = None, !.buddy = None]
  OBVIOUS
<1>2. view' = v \/ view' = w
  BY <1>1 DEF Refresh
<1>3. /\ w \in View /\ w.metrics = v.metrics /\ w.data = v.data /\ w.draft = v.draft
      /\ w.buddies = None /\ w.buddy = None
  BY <1>1 DEF View, Owners
<1>4. QED
  BY <1>2, <1>3

LEMMA BuddiesKeep ==
  ASSUME ConsoleInv, NEW k \in Page,
         Restored(k) \/ BuddyCreated(k) \/ OperationDone(k) \/ BuddiesLoaded(k)
  PROVE  ConsoleInv'
<1>1. /\ TypeOK /\ task[k] \in Task /\ task[k].whose \in Owners /\ TaskOK(task[k])
      /\ AccountsOK /\ task[k].sent \in Tokens \union {None} /\ k \in Slots
  BY SlotFacts DEF ConsoleInv, TypeOK, Task
<1>2. view \in View /\ crossed \in BOOLEAN
  BY <1>1 DEF TypeOK
<1>3. \A u, w \in Owners :
        /\ [view EXCEPT !.buddies = u, !.buddy = w] \in View /\ [view EXCEPT !.buddy = w] \in View
        /\ [view EXCEPT !.buddies = u, !.buddy = w].metrics = view.metrics
        /\ [view EXCEPT !.buddies = u, !.buddy = w].data = view.data
        /\ [view EXCEPT !.buddies = u, !.buddy = w].draft = view.draft
        /\ [view EXCEPT !.buddies = u, !.buddy = w].buddies = u
        /\ [view EXCEPT !.buddies = u, !.buddy = w].buddy = w
        /\ [view EXCEPT !.buddy = w].metrics = view.metrics
        /\ [view EXCEPT !.buddy = w].data = view.data
        /\ [view EXCEPT !.buddy = w].draft = view.draft
        /\ [view EXCEPT !.buddy = w].buddies = view.buddies
        /\ [view EXCEPT !.buddy = w].buddy = w
  BY <1>2 DEF View
<1>4. /\ generation \in Nat /\ acts \in 0 .. MaxActs /\ controls \in BOOLEAN /\ cut \in BOOLEAN
      /\ user \in Users \union {None} /\ token \in Tokens \union {None}
      /\ None \in Owners /\ generation <= generation
  BY <1>1 DEF TypeOK, Owners
<1>5. /\ ~overwritten => view.metrics \in {None, Me}
      /\ ~overwritten /\ ~crossed => {user, view.buddies, view.buddy, view.data, view.draft} \subseteq {None, Me}
  BY DEF ConsoleInv, ShownIsMine
<1>6. CASE Restored(k)
  <2>1. /\ task[k].at \in Others /\ task[k].answer = "ok" /\ Use(k) /\ user' = task[k].whose
        /\ Refresh(k, task[k].whose, token, view)
        /\ UNCHANGED <<accountVars, token, stored, shared, generation, controls, acts, overwritten, cut>>
    BY <1>6 DEF Restored, Answered, Others
  <2>2. task[k].whose \in Users \union {None}
    BY <1>1, <2>1 DEF TaskOK, AccountsOK
  <2>3. ~crossed' => task[k].whose = Me /\ ~crossed
    BY <2>1, AnswerIsMine DEF Use
  <2>4. /\ view' \in View /\ view'.metrics = view.metrics /\ view'.data = view.data
        /\ view'.draft = view.draft
        /\ view'.buddies \in {None, view.buddies} /\ view'.buddy \in {None, view.buddy}
    BY <1>2, <2>1, RefreshShows
  <2>5. PICK request \in {"refresh", "buddies"} : Continue(k, Then(k, request, token))
    BY <2>1 DEF Refresh
  <2>6. PICK next : next = Then(k, request, token)
    OBVIOUS
  <2>7. next \in Task /\ TaskOK(next)'
    BY <2>1, <2>6, Asked DEF Awaits, Snapshots, SignIns, accountVars
  <2>8. crossed' \in BOOLEAN
    BY <1>2, <2>1 DEF Use
  <2>9. /\ ~overwritten => view'.metrics \in {None, Me}
        /\ ~overwritten /\ ~crossed' => {user', view'.buddies, view'.buddy, view'.data, view'.draft} \subseteq {None, Me}
    BY <1>5, <2>1, <2>3, <2>4
  <2>10. QED
    BY <1>4, <2>1, <2>2, <2>4, <2>5, <2>6, <2>7, <2>8, <2>9, SameSession
<1>7. CASE BuddyCreated(k)
  <2>1. /\ task[k].at \in Others /\ task[k].answer = "ok" /\ Use(k)
        /\ view' = [view EXCEPT !.buddy = task[k].whose]
        /\ UNCHANGED <<accountVars, token, user, stored, shared, generation, controls, acts,
                     overwritten, cut>>
    BY <1>7 DEF BuddyCreated, Answered, Others, authVars
  <2>2. ~crossed' => task[k].whose = Me /\ ~crossed
    BY <2>1, AnswerIsMine DEF Use
  <2>3. /\ view' \in View /\ view'.metrics = view.metrics /\ view'.data = view.data
        /\ view'.draft = view.draft
        /\ view'.buddies = view.buddies /\ view'.buddy = task[k].whose
    BY <1>1, <1>2, <1>3, <2>1
  <2>4. PICK next : next \in {Idle, Ask("buddies", token)} /\ Continue(k, next)
    BY <1>7 DEF BuddyCreated
  <2>5. next \in Task /\ TaskOK(next)'
    <3>1. "buddies" \in Awaits \ (SignIns \union {"retention", "engagement"})
      BY DEF Awaits, SignIns
    <3>2. UNCHANGED <<owner, token, stored>>
      BY <2>1 DEF accountVars
    <3>3. QED
      BY <2>4, <3>1, <3>2, Asked
  <2>6. crossed' \in BOOLEAN
    BY <1>2, <2>1 DEF Use
  <2>7. /\ ~overwritten => view'.metrics \in {None, Me}
        /\ ~overwritten /\ ~crossed' => {user', view'.buddies, view'.buddy, view'.data, view'.draft} \subseteq {None, Me}
    BY <1>5, <2>1, <2>2, <2>3
  <2>8. QED
    BY <1>4, <2>1, <2>3, <2>4, <2>5, <2>6, <2>7, SameSession
<1>8. CASE OperationDone(k)
  <2>1. PICK d \in Owners :
          /\ Refresh(k, user, token, [view EXCEPT !.draft = d])
          /\ \/ d = task[k].whose /\ Use(k)
             \/ d \in {view.draft, None} /\ UNCHANGED crossed
    <3>1. view.draft \in Owners
      BY <1>2 DEF View
    <3>2. QED
      BY <1>1, <1>4, <1>8, <3>1 DEF OperationDone
  <2>2. /\ task[k].at \in Others /\ task[k].answer = "ok"
        /\ UNCHANGED <<accountVars, token, user, stored, shared, generation, controls, acts,
                       overwritten, cut>>
    BY <1>8 DEF OperationDone, Answered, Others, authVars
  <2>3. ~crossed' => ~crossed /\ d \in {view.draft, None, Me}
    BY <2>1, <2>2, AnswerIsMine DEF Use
  <2>4. PICK v : v = [view EXCEPT !.draft = d]
    OBVIOUS
  <2>5. /\ v \in View /\ v.draft = d /\ v.metrics = view.metrics /\ v.data = view.data
        /\ v.buddies = view.buddies /\ v.buddy = view.buddy
    BY <1>2, <2>4 DEF View
  <2>6. /\ view' \in View /\ view'.metrics = view.metrics /\ view'.data = view.data
        /\ view'.draft = d
        /\ view'.buddies \in {None, view.buddies} /\ view'.buddy \in {None, view.buddy}
    BY <2>1, <2>4, <2>5, RefreshShows
  <2>7. PICK request \in {"refresh", "buddies"} : Continue(k, Then(k, request, token))
    BY <2>1 DEF Refresh
  <2>8. PICK next : next = Then(k, request, token)
    OBVIOUS
  <2>9. next \in Task /\ TaskOK(next)'
    BY <2>2, <2>8, Asked DEF Awaits, Snapshots, SignIns, accountVars
  <2>10. crossed' \in BOOLEAN
    BY <1>2, <2>1 DEF Use
  <2>11. /\ ~overwritten => view'.metrics \in {None, Me}
         /\ ~overwritten /\ ~crossed' =>
              {user', view'.buddies, view'.buddy, view'.data, view'.draft} \subseteq {None, Me}
    BY <1>5, <2>2, <2>3, <2>6
  <2>12. QED
    BY <1>4, <2>2, <2>6, <2>7, <2>8, <2>9, <2>10, <2>11, SameSession
<1>9. CASE BuddiesLoaded(k)
  <2>1. PICK mine \in Owners :
          /\ mine \in {None, task[k].whose}
          /\ view' = [view EXCEPT !.buddies = mine, !.buddy = mine]
    BY <1>1, <1>4, <1>9 DEF BuddiesLoaded
  <2>2. /\ task[k].at \in Others /\ task[k].answer = "ok" /\ Use(k)
        /\ UNCHANGED <<accountVars, token, user, stored, shared, generation, controls, acts,
                     overwritten, cut>>
    BY <1>9 DEF BuddiesLoaded, Answered, Others, authVars
  <2>3. ~crossed' => task[k].whose = Me /\ ~crossed
    BY <2>2, AnswerIsMine DEF Use
  <2>4. /\ view' \in View /\ view'.metrics = view.metrics /\ view'.data = view.data
        /\ view'.draft = view.draft /\ view'.buddies = mine /\ view'.buddy = mine
    BY <1>3, <2>1
  <2>5. PICK next : next = Then(k, "refresh", token) /\ Continue(k, next)
    BY <1>9 DEF BuddiesLoaded
  <2>6. next \in Task /\ TaskOK(next)'
    BY <2>2, <2>5, Asked DEF Awaits, Snapshots, SignIns, accountVars
  <2>7. crossed' \in BOOLEAN
    BY <1>2, <2>2 DEF Use
  <2>8. /\ ~overwritten => view'.metrics \in {None, Me}
        /\ ~overwritten /\ ~crossed' => {user', view'.buddies, view'.buddy, view'.data, view'.draft} \subseteq {None, Me}
    BY <1>5, <2>1, <2>2, <2>3, <2>4
  <2>9. QED
    BY <1>4, <2>2, <2>4, <2>5, <2>6, <2>7, <2>8, SameSession
<1>10. QED
  BY <1>6, <1>7, <1>8, <1>9

(* A request for the founder's metrics, asked in the session of the page.  *)
LEMMA MetricsAsked ==
  ASSUME ConsoleInv, UNCHANGED accountVars, UNCHANGED <<token, overwritten>>,
         NEW request \in {"retention", "engagement"}, NEW g \in Nat, NEW x \in Tokens \union {None},
         g <= generation',
         g = generation' /\ ~overwritten => token # None /\ x = token,
         NEW next, next = [Ask(request, token) EXCEPT !.generation = g, !.session = x]
  PROVE  next \in Task /\ TaskOK(next)'
<1>1. PICK y \in Tokens \union {None} : y = token
  BY DEF ConsoleInv, TypeOK
<1>2. /\ next \in Task /\ next.at = request /\ next.sent = y /\ next.answer = None
      /\ next.generation = g /\ next.session = x
  BY <1>1 DEF Ask, Idle, Task, Owners, Awaits
<1>3. Known(y)'
  BY <1>1 DEF ConsoleInv, SessionKnown, Known, accountVars
<1>4. request \notin SignIns /\ "ok" # None /\ "expired" # None
  BY AwaitFacts DEF SignIns, Answers
<1>5. next.generation <= generation'
      /\ (next.generation = generation' /\ ~overwritten' =>
            token' # None /\ next.session = token' /\ next.sent = token')
  BY <1>1, <1>2
<1>6. Known(next.sent)'
  BY <1>2, <1>3 DEF Known
<1>7. QED
  BY <1>2, <1>4, <1>5, <1>6 DEF TaskOK

(* The snapshot is of the user whose token was sent, or it is dropped.     *)
LEMMA SnapshotKeeps ==
  ASSUME ConsoleInv, NEW k \in Page, SnapshotLoaded(k)
  PROVE  ConsoleInv'
<1>1. /\ TypeOK /\ task[k] \in Task /\ k \in Slots /\ task[k].whose \in Owners
      /\ token \in Tokens \union {None} /\ user \in Users \union {None}
      /\ None \in Owners /\ view \in View
      /\ generation \in Nat /\ acts \in 0 .. MaxActs /\ cut \in BOOLEAN /\ crossed \in BOOLEAN
  BY SlotFacts DEF ConsoleInv, TypeOK, Task, Owners
<1>2. PICK wanted : wanted = (task[k].at = "refresh" /\ MetricsWanted)
  OBVIOUS
<1>3. PICK shown : shown = Project(view, task[k].whose)
  OBVIOUS
<1>4. /\ task[k].at \in Snapshots /\ task[k].answer = "ok" /\ Use(k)
      /\ view' = shown \/ view' = [shown EXCEPT !.metrics = None]
      /\ generation' = IF wanted THEN generation + 1 ELSE generation
      /\ controls' = Authenticated
      /\ UNCHANGED <<accountVars, token, user, stored, shared, acts, overwritten, cut>>
  BY <1>2, <1>3 DEF SnapshotLoaded, Answered, Snapshots, authVars
<1>5. /\ shown \in View
      /\ shown.metrics \in {None, view.metrics}
      /\ {shown.buddies, shown.buddy, shown.data, shown.draft} \subseteq
           {None, view.buddy, task[k].whose}
      /\ ~Authenticated => {shown.buddies, shown.buddy, shown.data, shown.draft} = {None}
  <2>1. CASE ~Authenticated
    BY <1>1, <1>3, <2>1 DEF Project, EmptyView, View
  <2>2. CASE Authenticated
    <3>1. PICK listed \in Owners, buddy \in Owners, draft \in Owners :
            /\ {listed, draft} \subseteq {None, task[k].whose}
            /\ buddy \in {listed, view.buddy}
            /\ shown = [view EXCEPT !.buddies = listed, !.data = task[k].whose, !.buddy = buddy,
                                    !.draft = draft]
      <4>1. PICK listed \in Owners :
              listed = IF task[k].whose \in homes \union {Legacy} THEN task[k].whose ELSE None
        BY <1>1
      <4>2. PICK buddy \in Owners : buddy = IF view.buddy = None THEN listed ELSE view.buddy
        BY <1>1 DEF View
      <4>3. PICK draft \in Owners : draft = IF buddy = task[k].whose THEN task[k].whose ELSE None
        BY <1>1
      <4>4. shown = [view EXCEPT !.buddies = listed, !.data = task[k].whose, !.buddy = buddy,
                                 !.draft = draft]
        BY <1>3, <2>2, <4>1, <4>2, <4>3 DEF Project
      <4>5. QED
        BY <4>1, <4>2, <4>3, <4>4
    <3>2. QED
      BY <1>1, <2>2, <3>1 DEF View
  <2>3. QED
    BY <2>1, <2>2
<1>6. /\ view' \in View /\ view'.metrics \in {None, view.metrics}
      /\ view'.buddies = shown.buddies /\ view'.buddy = shown.buddy /\ view'.data = shown.data
      /\ view'.draft = shown.draft
  BY <1>1, <1>4, <1>5 DEF View
<1>7. ~overwritten => view'.metrics \in {None, Me}
  BY <1>6 DEF ConsoleInv, ShownIsMine
<1>8. ASSUME ~overwritten, ~crossed'
      PROVE  {user', view'.buddies, view'.buddy, view'.data, view'.draft} \subseteq {None, Me}
  <2>1. task[k].sent = token /\ ~crossed
    BY <1>4, <1>8 DEF Use
  <2>2. user \in {None, Me} /\ view.buddy \in {None, Me}
    BY <1>8, <2>1 DEF ConsoleInv, ShownIsMine
  <2>3. Authenticated => task[k].whose = Me
    BY <1>4, <2>1, AnswerIsMine DEF Authenticated
  <2>4. QED
    BY <1>4, <1>5, <1>6, <2>2, <2>3
<1>9. PICK next : next = IF wanted THEN [Ask("retention", token) EXCEPT !.generation = generation',
                                                                       !.session = token]
                                   ELSE Idle
  OBVIOUS
<1>10. Continue(k, next)
  BY <1>2, <1>9 DEF SnapshotLoaded
<1>11. generation' \in Nat /\ generation <= generation'
  BY <1>1, <1>4
<1>12. next \in Task /\ TaskOK(next)'
  <2>1. CASE wanted
    <3>1. PICK g \in Nat, x \in Tokens \union {None} : g = generation' /\ x = token
      BY <1>1, <1>11
    <3>2. token # None
      BY <1>2, <2>1 DEF MetricsWanted, Authenticated
    <3>3. next = [Ask("retention", token) EXCEPT !.generation = g, !.session = x]
      BY <1>9, <2>1, <3>1
    <3>4. /\ g <= generation' /\ (g = generation' /\ ~overwritten => token # None /\ x = token)
          /\ UNCHANGED accountVars /\ UNCHANGED <<token, overwritten>>
      BY <1>4, <1>11, <3>1, <3>2
    <3>5. QED
      BY <3>3, <3>4, MetricsAsked
  <2>2. CASE ~wanted
    <3>1. "load" \in Awaits \ (SignIns \union {"retention", "engagement"})
      BY DEF Awaits, SignIns, Snapshots
    <3>2. UNCHANGED <<owner, token, stored>> /\ next = Idle
      BY <1>4, <1>9, <2>2 DEF accountVars
    <3>3. QED
      BY <3>1, <3>2, Asked
  <2>3. QED
    BY <2>1, <2>2
<1>13. controls' \in BOOLEAN /\ crossed' \in BOOLEAN
  BY <1>1, <1>4 DEF Authenticated, Use
<1>14. QED
  BY <1>1, <1>4, <1>6, <1>7, <1>8, <1>10, <1>11, <1>12, <1>13, SameSession

(* The founder's metrics are shown in the session they were asked for in.  *)
LEMMA MetricsKeep ==
  ASSUME ConsoleInv, NEW k \in Page,
         RetentionLoaded(k) \/ MetricsLoaded(k) \/ MetricsUnavailable(k) \/ GiveUp(k)
  PROVE  ConsoleInv'
<1>1. /\ TypeOK /\ task[k] \in Task /\ k \in Slots /\ task[k].whose \in Owners /\ TaskOK(task[k])
      /\ task[k].generation \in Nat /\ task[k].session \in Tokens \union {None}
      /\ token \in Tokens \union {None} /\ user \in Users \union {None}
      /\ None \in Owners /\ view \in View
      /\ generation \in Nat /\ acts \in 0 .. MaxActs /\ cut \in BOOLEAN /\ crossed \in BOOLEAN
      /\ controls \in BOOLEAN
  BY SlotFacts DEF ConsoleInv, TypeOK, Task, Owners
<1>2. /\ ~overwritten => view.metrics \in {None, Me}
      /\ ~overwritten /\ ~crossed => {user, view.buddies, view.buddy, view.data, view.draft} \subseteq {None, Me}
  BY DEF ConsoleInv, ShownIsMine
<1>3. UNCHANGED <<accountVars, token, user, stored, shared, generation, controls, acts, crossed,
                overwritten>>
  BY DEF RetentionLoaded, MetricsLoaded, MetricsUnavailable, GiveUp, authVars, historyVars
<1>4. cut' \in BOOLEAN
  BY <1>1 DEF RetentionLoaded, MetricsLoaded, MetricsUnavailable, GiveUp, historyVars
<1>5. /\ view' \in View /\ view'.buddies = view.buddies /\ view'.buddy = view.buddy
      /\ view'.data = view.data /\ view'.draft = view.draft
      /\ (~overwritten => view'.metrics \in {None, Me})
  <2>1. CASE view' = view
    BY <1>1, <1>2, <2>1
  <2>2. CASE view' = [view EXCEPT !.metrics = None]
    BY <1>1, <2>2 DEF View
  <2>3. CASE MetricsLoaded(k) /\ Current(k) /\ view' = [view EXCEPT !.metrics = task[k].whose]
    <3>1. ~overwritten => task[k].whose = Me
      BY <1>1, <2>3, AnswerIsMine DEF MetricsLoaded, Answered, Current, TaskOK, Others
    <3>2. QED
      BY <1>1, <2>3, <3>1 DEF View
  <2>4. QED
    BY <2>1, <2>2, <2>3 DEF RetentionLoaded, MetricsLoaded, MetricsUnavailable, GiveUp
<1>6. CASE RetentionLoaded(k)
  <2>1. PICK g \in Nat, x \in Tokens \union {None} : g = task[k].generation /\ x = task[k].session
    BY <1>1
  <2>2. PICK next : next = [Ask("engagement", token) EXCEPT !.generation = g, !.session = x]
    OBVIOUS
  <2>3. Continue(k, next) /\ task[k].at = "retention"
    BY <1>6, <2>1, <2>2 DEF RetentionLoaded, Answered
  <2>4. g <= generation' /\ (g = generation' /\ ~overwritten => token # None /\ x = token)
    BY <1>1, <1>3, <2>1, <2>3 DEF TaskOK
  <2>5. next \in Task /\ TaskOK(next)'
    BY <1>3, <2>2, <2>4, MetricsAsked
  <2>6. QED
    BY <1>1, <1>2, <1>3, <1>4, <1>5, <2>3, <2>5, SameSession
<1>7. CASE ~RetentionLoaded(k)
  <2>1. PICK next : next = Idle
    OBVIOUS
  <2>2. Continue(k, next)
    BY <1>7, <2>1 DEF MetricsLoaded, MetricsUnavailable, GiveUp
  <2>3. next \in Task /\ TaskOK(next)'
    <3>1. "load" \in Awaits \ (SignIns \union {"retention", "engagement"})
      BY DEF Awaits, SignIns, Snapshots
    <3>2. UNCHANGED <<owner, token, stored>>
      BY <1>3 DEF accountVars
    <3>3. QED
      BY <2>1, <3>1, <3>2, Asked
  <2>4. QED
    BY <1>1, <1>2, <1>3, <1>4, <1>5, <2>2, <2>3, SameSession
<1>8. QED
  BY <1>6, <1>7

LEMMA UserKeeps ==
  ASSUME ConsoleInv, NEW k \in Page, UserActs(k)
  PROVE  ConsoleInv'
<1>1. /\ TypeOK /\ token \in Tokens \union {None} /\ user \in Users \union {None}
      /\ view \in View /\ generation \in Nat /\ acts \in 0 .. MaxActs /\ MaxActs \in Nat
      /\ cut \in BOOLEAN /\ crossed \in BOOLEAN /\ controls \in BOOLEAN
  BY ConsoleAssumption DEF ConsoleInv, TypeOK
<1>2. /\ ~overwritten => view.metrics \in {None, Me}
      /\ ~overwritten /\ ~crossed => {user, view.buddies, view.buddy, view.data, view.draft} \subseteq {None, Me}
  BY DEF ConsoleInv, ShownIsMine
<1>3. UNCHANGED <<accountVars, token, user, stored, shared, generation, controls, crossed,
                overwritten, cut>>
  BY DEF UserActs, authVars, historyVars
<1>4. acts' \in 0 .. MaxActs
  <2>1. acts < MaxActs /\ acts' = acts + 1
    BY DEF UserActs, SignIn, SignOut, Create, Operate, SelectBuddy, Act
  <2>2. QED
    BY <1>1, <2>1
<1>5. /\ view' \in View /\ view'.metrics = view.metrics /\ view'.data = view.data
      /\ view'.draft = view.draft
      /\ view'.buddies = view.buddies /\ view'.buddy \in {view.buddy, view.buddies}
  <2>1. view' = view \/ view' = [view EXCEPT !.buddy = view.buddies]
    BY DEF UserActs, SignIn, SignOut, Create, Operate, SelectBuddy
  <2>2. QED
    BY <1>1, <2>1 DEF View
<1>6. /\ ~overwritten => view'.metrics \in {None, Me}
      /\ ~overwritten /\ ~crossed' => {user', view'.buddies, view'.buddy, view'.data, view'.draft} \subseteq {None, Me}
  BY <1>2, <1>3, <1>5
<1>7. CASE \E u \in Users, request \in SignIns : Continue(k, [Ask(request, token) EXCEPT !.as = u])
  <2>1. PICK u \in Users, request \in SignIns : Continue(k, [Ask(request, token) EXCEPT !.as = u])
    BY <1>7
  <2>2. PICK x \in Tokens \union {None} : x = token
    BY <1>1
  <2>3. PICK next : next = [Ask(request, x) EXCEPT !.as = u]
    OBVIOUS
  <2>4. /\ next \in Task /\ next.at = request /\ next.sent = x /\ next.as = u /\ next.answer = None
    BY <2>3 DEF Ask, Idle, Task, Owners, Awaits, SignIns
  <2>5. Known(x)'
    BY <1>3, <2>2 DEF ConsoleInv, SessionKnown, Known, accountVars
  <2>6. TaskOK(next)'
    <3>1. /\ "ok" # None /\ "expired" # None /\ request \notin Others
          /\ request \notin {"retention", "engagement"}
      BY AwaitFacts DEF Answers, SignIns, Others
    <3>2. Known(next.sent)'
      BY <2>4, <2>5 DEF Known
    <3>3. QED
      BY <2>4, <3>1, <3>2 DEF TaskOK
  <2>7. Continue(k, next)
    BY <2>1, <2>2, <2>3
  <2>8. QED
    BY <1>1, <1>3, <1>4, <1>5, <1>6, <2>4, <2>6, <2>7, SameSession
<1>8. CASE \E request \in {"logout", "create", "operation", "load"} : Continue(k, Ask(request, token))
  <2>1. PICK request \in {"logout", "create", "operation", "load"} : Continue(k, Ask(request, token))
    BY <1>8
  <2>2. PICK next : next = Ask(request, token)
    OBVIOUS
  <2>3. next \in Task /\ TaskOK(next)'
    <3>1. request \in Awaits \ (SignIns \union {"retention", "engagement"})
      BY DEF Awaits, SignIns, Snapshots
    <3>2. UNCHANGED <<owner, token, stored>>
      BY <1>3 DEF accountVars
    <3>3. QED
      BY <2>2, <3>1, <3>2, Asked
  <2>4. QED
    BY <1>1, <1>3, <1>4, <1>5, <1>6, <2>1, <2>2, <2>3, SameSession
<1>9. QED
  BY <1>7, <1>8 DEF UserActs, SignIn, SignOut, Create, Operate, SelectBuddy, Act, SignIns

(* A session that is saved over another one leaves its mark.               *)
LEMMA SignedInKeeps ==
  ASSUME ConsoleInv, NEW k \in Page, SignedIn(k)
  PROVE  ConsoleInv'
<1>1. /\ TypeOK /\ task[k] \in Task /\ k \in Slots /\ TaskOK(task[k]) /\ view \in View
      /\ generation \in Nat /\ overwritten \in BOOLEAN
  BY SlotFacts DEF ConsoleInv, TypeOK
<1>2. /\ task[k].at \in SignIns /\ task[k].answer = "ok"
      /\ UNCHANGED <<registered, owner, live, homes, generation, controls, acts, crossed, cut>>
      /\ overwritten' = (overwritten \/ token # None)
  BY DEF SignedIn, Answered, SignIns, accountVars
<1>3. PICK x \in Tokens : x = task[k].issued /\ x # None /\ owner[x] = task[k].as
  BY <1>1, <1>2 DEF TaskOK, Task
<1>4. PICK u \in Users : u = task[k].as
  BY <1>1, <1>2 DEF TaskOK
<1>5. token' = x /\ stored' = x /\ shared' = FALSE /\ user' = u /\ owner'[x] = u /\ u # None
  BY <1>2, <1>3, <1>4, AwaitFacts DEF SignedIn
<1>6. Continue(k, Then(k, "buddies", x)) /\ view' = view
  BY <1>3, <1>4, <1>5 DEF SignedIn, Refresh
<1>7. PICK next : next = Then(k, "buddies", x)
  OBVIOUS
<1>8. next \in Task /\ next.at = "buddies" /\ next.sent = x /\ next.answer = None
  <2>1. "buddies" \in Awaits /\ x \in Tokens \union {None}
    BY DEF Awaits
  <2>2. /\ Then(k, "buddies", x) \in Task /\ Then(k, "buddies", x).at = "buddies"
        /\ Then(k, "buddies", x).sent = x /\ Then(k, "buddies", x).answer = None
    BY <1>1, <2>1, AskType
  <2>3. QED
    BY <1>7, <2>2
<1>9. TaskOK(next)'
  <2>1. Known(x)'
    BY <1>5 DEF Known
  <2>2. Known(next.sent)'
    BY <1>8, <2>1 DEF Known
  <2>3. next.at \notin SignIns \union {"retention", "engagement"}
    BY <1>8 DEF SignIns
  <2>4. QED
    BY <1>8, <2>2, <2>3, AskOK
<1>10. Monotone /\ generation' \in Nat
  <2>1. /\ overwritten => overwritten'
        /\ token' = token \/ token = None \/ overwritten'
    BY <1>2
  <2>2. generation' \in Nat /\ generation <= generation'
    BY <1>1, <1>2
  <2>3. QED
    BY <1>2, <2>1, <2>2 DEF Monotone
<1>11. task' \in [Slots -> Task] /\ (\A j \in Slots : TaskOK(task[j])') /\ OtherTabOK'
  BY <1>6, <1>7, <1>8, <1>9, <1>10, SlotFacts, TasksKept DEF Continue
<1>12. TypeOK'
  BY <1>1, <1>2, <1>5, <1>6, <1>11 DEF TypeOK, AccountsOK
<1>13. SessionKnown'
  BY <1>5 DEF SessionKnown, Known
<1>14. ShownIsMine'
  <2>1. ASSUME ~overwritten'
        PROVE  view.metrics = None /\ (crossed \/ {user, view.buddies, view.buddy, view.data, view.draft} = {None})
    BY <1>2, <2>1 DEF ConsoleInv, ShownIsMine, Me
  <2>2. Me' = u
    BY <1>3, <1>5 DEF Me
  <2>3. QED
    BY <1>2, <1>5, <1>6, <2>1, <2>2 DEF ShownIsMine
<1>15. QED
  BY <1>11, <1>12, <1>13, <1>14 DEF ConsoleInv

LEMMA ReloadKeeps == ConsoleInv /\ Reload => ConsoleInv'
<1> SUFFICES ASSUME ConsoleInv, Reload PROVE ConsoleInv'
  OBVIOUS
<1>1. /\ TypeOK /\ SessionKnown /\ acts \in 0 .. MaxActs /\ MaxActs \in Nat
  BY ConsoleAssumption DEF ConsoleInv, TypeOK
<1>2. /\ UNCHANGED <<registered, owner, live, homes, stored, crossed, overwritten, cut>>
      /\ acts < MaxActs /\ acts' = acts + 1
      /\ token' = stored /\ user' = None /\ view' = EmptyView
      /\ generation' = 0 /\ controls' = FALSE /\ shared' = FALSE
  BY DEF Reload, accountVars, historyVars
<1>3. PICK x \in Tokens \union {None} : x = stored
  BY <1>1 DEF TypeOK
<1>4. Known(x)' /\ SessionKnown'
  BY <1>1, <1>2, <1>3 DEF SessionKnown, Known
<1>5. \A j \in Page : task'[j] \in {Idle, Ask("load", x), [Ask("me", x) EXCEPT !.restoring = TRUE]}
  <2>1. SUFFICES ASSUME NEW j \in Page
                 PROVE task'[j] \in {Idle, Ask("load", x), [Ask("me", x) EXCEPT !.restoring = TRUE]}
    OBVIOUS
  <2>2. j \in Slots /\ j # OtherTab
    BY SlotFacts
  <2>3. task'[j] = CASE j = OtherTab -> task[OtherTab]
                     [] j = 1 -> Ask("load", stored)
                     [] j = 2 /\ stored # None -> [Ask("me", stored) EXCEPT !.restoring = TRUE]
                     [] OTHER -> Idle
    BY <2>2 DEF Reload
  <2>4. CASE j = 1
    <3>1. task'[j] = Ask("load", x)
      BY <1>3, <2>2, <2>3, <2>4
    <3>2. QED
      BY <3>1
  <2>5. CASE j = 2 /\ x # None
    <3>1. task'[j] = [Ask("me", x) EXCEPT !.restoring = TRUE]
      BY <1>3, <2>2, <2>3, <2>5
    <3>2. QED
      BY <3>1
  <2>6. CASE j # 1 /\ ~(j = 2 /\ x # None)
    <3>1. task'[j] = Idle
      BY <1>3, <2>2, <2>3, <2>6
    <3>2. QED
      BY <3>1
  <2>7. QED
    BY <2>4, <2>5, <2>6
<1>12. task'[OtherTab] = task[OtherTab]
  BY SlotFacts DEF Reload, OtherTab
<1>13. task[OtherTab] \in Task /\ TaskOK(task[OtherTab])'
  <2>1. PICK r \in Task : r = task[OtherTab]
    BY <1>1, SlotFacts DEF TypeOK
  <2>2. TaskOK(r) /\ r.at \in OtherTabAwaits
    BY <2>1, SlotFacts DEF ConsoleInv, OtherTabOK
  <2>3. TaskOK(r)'
    BY <1>2, <2>2, AwaitFacts DEF TaskOK, Known, OtherTabAwaits, Awaits
  <2>4. QED
    BY <1>12, <2>1, <2>3 DEF TaskOK, Known
<1>6. ASSUME NEW r \in {Idle, Ask("load", x), [Ask("me", x) EXCEPT !.restoring = TRUE]}
      PROVE  r \in Task /\ TaskOK(r)'
  <2>1. /\ r \in Task /\ r.at \in {None, "load", "me"} /\ r.sent \in {None, x} /\ r.answer = None
    <3>1. CASE r = Idle
      BY <3>1 DEF Idle, Task, Owners
    <3>2. CASE r = Ask("load", x)
      BY <3>2 DEF Idle, Ask, Task, Owners, Awaits, Snapshots
    <3>3. CASE r = [Ask("me", x) EXCEPT !.restoring = TRUE]
      BY <3>3 DEF Idle, Ask, Task, Owners, Awaits, Snapshots
    <3>4. QED
      BY <1>6, <3>1, <3>2, <3>3
  <2>2. Known(r.sent)'
    BY <1>4, <2>1 DEF Known
  <2>3. r.at \notin SignIns \union {"retention", "engagement"}
    BY <2>1, NoneAssumption DEF SignIns, Awaits
  <2>4. QED
    BY <2>1, <2>2, <2>3, AskOK
<1>7. task' \in [Slots -> Task]
  <2>1. DOMAIN task' = Slots /\ task' = [j \in Slots |-> task'[j]]
    BY DEF Reload
  <2>2. \A j \in Slots : task'[j] \in Task
    BY <1>5, <1>6, <1>12, <1>13 DEF Slots
  <2>3. QED
    BY <2>1, <2>2
<1>8. (\A j \in Slots : TaskOK(task[j])') /\ OtherTabOK'
  <2>1. SUFFICES ASSUME NEW j \in Slots PROVE TaskOK(task[j])'
    BY <1>12 DEF ConsoleInv, OtherTabOK
  <2>2. CASE j = OtherTab
    BY <1>13, <2>2 DEF TaskOK, Known
  <2>3. CASE j \in Page
    <3>1. PICK r \in {Idle, Ask("load", x), [Ask("me", x) EXCEPT !.restoring = TRUE]} : r = task'[j]
      BY <1>5, <2>3
    <3>2. QED
      BY <1>6, <3>1 DEF TaskOK, Known
  <2>4. QED
    BY <2>2, <2>3 DEF Slots
<1>9. TypeOK'
  <2>1. view' \in View
    BY <1>2 DEF EmptyView, View, Owners
  <2>2. acts' \in 0 .. MaxActs
    BY <1>1, <1>2
  <2>3. QED
    BY <1>1, <1>2, <1>7, <2>1, <2>2 DEF TypeOK, AccountsOK
<1>10. ShownIsMine'
  BY <1>2 DEF ShownIsMine, EmptyView
<1>11. QED
  BY <1>4, <1>8, <1>9, <1>10 DEF ConsoleInv

(* Another tab changes what is stored, and nothing of what the page shows. *)
LEMMA OtherTabKeeps == ConsoleInv /\ (OtherTabActs \/ OtherTabResumes) => ConsoleInv'
<1> SUFFICES ASSUME ConsoleInv, OtherTabActs \/ OtherTabResumes PROVE ConsoleInv'
  OBVIOUS
<1>1. /\ TypeOK /\ SessionKnown /\ OtherTab \in Slots /\ task[OtherTab] \in Task
      /\ TaskOK(task[OtherTab]) /\ stored \in Tokens \union {None}
  BY SlotFacts DEF ConsoleInv, TypeOK
<1>2. /\ UNCHANGED <<registered, owner, live, homes, token, user, view, generation, controls,
                     crossed, overwritten, cut>>
      /\ acts' \in 0 .. MaxActs
  <2>1. acts' = acts \/ (acts < MaxActs /\ acts' = acts + 1)
    BY DEF OtherTabActs, OtherTabResumes, Act
  <2>2. acts' \in 0 .. MaxActs
    BY <1>1, <2>1, ConsoleAssumption DEF TypeOK
  <2>3. QED
    BY <2>2 DEF OtherTabActs, OtherTabResumes, accountVars, authVars, historyVars
<1>3. PICK next \in Task :
        /\ Continue(OtherTab, next) /\ next.at \in OtherTabAwaits /\ TaskOK(next)'
  <2>1. CASE \E u \in Users : Continue(OtherTab, [Ask("login", None) EXCEPT !.as = u])
    <3>1. PICK u \in Users : Continue(OtherTab, [Ask("login", None) EXCEPT !.as = u])
      BY <2>1
    <3>2. PICK next : next = [Ask("login", None) EXCEPT !.as = u]
      OBVIOUS
    <3>3. /\ next \in Task /\ next.at = "login" /\ next.sent = None /\ next.as = u
          /\ next.answer = None
      BY <3>2 DEF Ask, Idle, Task, Owners, Awaits
    <3>4. TaskOK(next)'
      BY <3>3, AwaitFacts DEF TaskOK, Known, Answers, SignIns, Others, Snapshots
    <3>5. QED
      BY <3>1, <3>2, <3>3, <3>4 DEF OtherTabAwaits
  <2>2. CASE \/ Continue(OtherTab, Ask("logout", stored))
             \/ Continue(OtherTab, Ask("logout_recover", None))
             \/ Continue(OtherTab, Idle)
    <3>1. PICK next : /\ next \in {Ask("logout", stored), Ask("logout_recover", None), Idle}
                      /\ Continue(OtherTab, next)
      BY <2>2
    <3>2. /\ next \in Task /\ next.at \in {"logout", "logout_recover", None}
          /\ next.sent \in {stored, None} /\ next.answer = None
      <4>1. {"logout", "logout_recover"} \subseteq Awaits
        BY DEF Awaits, Snapshots
      <4>2. QED
        BY <1>1, <3>1, <4>1, AskType
    <3>3. Known(next.sent)'
      BY <1>1, <1>2, <3>2 DEF SessionKnown, Known
    <3>4. TaskOK(next)'
      BY <3>2, <3>3, AskOK, NoneAssumption DEF SignIns, Awaits
    <3>5. QED
      BY <3>1, <3>2, <3>4 DEF OtherTabAwaits
  <2>3. QED
    BY <2>1, <2>2, SlotFacts DEF OtherTabActs, OtherTabResumes, Act, ConsoleInv, TypeOK, AccountsOK
<1>4. Monotone /\ generation' \in Nat
  BY <1>1, <1>2 DEF Monotone, TypeOK
<1>5. task' \in [Slots -> Task] /\ (\A j \in Slots : TaskOK(task[j])') /\ OtherTabOK'
  BY <1>1, <1>3, <1>4, TasksKept DEF Continue
<1>6. /\ stored' \in Tokens \union {None} /\ shared' \in BOOLEAN /\ Known(stored)'
      /\ stored' = token \/ shared'
  <2>1. CASE UNCHANGED <<stored, shared>>
    BY <1>1, <1>2, <2>1 DEF SessionKnown, Known, TypeOK
  <2>2. CASE stored' = None /\ shared' = TRUE
    BY <2>2 DEF Known
  <2>3. CASE /\ Answered(OtherTab, {"login"}, {"ok"})
             /\ stored' = task[OtherTab].issued /\ shared' = TRUE
    <3>1. PICK y \in Tokens : y = task[OtherTab].issued /\ owner[y] \in Users
      BY <1>1, <2>3 DEF TaskOK, Answered, Task, SignIns
    <3>2. QED
      BY <1>2, <2>3, <3>1, AwaitFacts DEF Known
  <2>4. QED
    BY <2>1, <2>2, <2>3 DEF OtherTabActs, OtherTabResumes, authVars
<1>7. TypeOK'
  BY <1>1, <1>2, <1>5, <1>6 DEF TypeOK, AccountsOK
<1>8. SessionKnown'
  BY <1>1, <1>2, <1>6 DEF SessionKnown, Known
<1>9. ShownIsMine'
  BY <1>2 DEF ConsoleInv, ShownIsMine, Me
<1>10. QED
  BY <1>5, <1>7, <1>8, <1>9 DEF ConsoleInv

-----------------------------------------------------------------------------
LEMMA StepKeeps == ConsoleInv /\ [Next]_vars => ConsoleInv'
<1> SUFFICES ASSUME ConsoleInv, [Next]_vars PROVE ConsoleInv'
  OBVIOUS
<1>1. ASSUME NEW k \in Page, Resume(k) PROVE ConsoleInv'
  BY <1>1, SignedInKeeps, BuddiesKeep, EndingsKeep, SnapshotKeeps, MetricsKeep DEF Resume
<1>2. CASE UNCHANGED vars
  BY <1>2 DEF vars, accountVars, authVars, historyVars, ConsoleInv, TypeOK, AccountsOK,
              SessionKnown, Known, TaskOK, ShownIsMine, Me, OtherTabOK
<1>3. QED
  BY <1>1, <1>2, ReloadKeeps, OtherTabKeeps, ServeKeeps, LoseKeeps, UserKeeps DEF Next

LEMMA ConsoleInductive == Spec => []ConsoleInv
BY InitConsole, StepKeeps, PTL DEF Spec

(* The page's state, its functions and the accounts keep their types.      *)
THEOREM TypeCorrect == Spec => []TypeOK
<1>1. ConsoleInv => TypeOK
  BY DEF ConsoleInv
<1>2. QED
  BY <1>1, ConsoleInductive, PTL

(* The page never mixes two accounts (loadAuthBuddies, projectWorkspace,   *)
(* loadFounderMetrics and clearSession of app.js): with any number of      *)
(* functions under way, and whatever is lost, late or expired.             *)
THEOREM ShownIsMineCorrect == Spec => []ShownIsMine
<1>1. ConsoleInv => ShownIsMine
  BY DEF ConsoleInv
<1>2. QED
  BY <1>1, ConsoleInductive, PTL

(* A session that is valid is ended only by its user, by a page that is    *)
(* loaded again (without an answer, or after another tab changed what is   *)
(* stored), or by the late answer of another session.                      *)
THEOREM EndedForCauseCorrect == Spec => EndedForCause
<1> DEFINE Caused == token' # token /\ token \in live =>
             \/ crossed' \/ overwritten'
             \/ shared /\ Reload
             \/ \E k \in Page :
                  \/ Answered(k, {"logout", "logout_recover"}, Answers)
                  \/ task[k].restoring /\ Answered(k, Awaits, {"refused", "lost"})
<1>1. ASSUME ConsoleInv, [Next]_vars PROVE Caused
  <2>1. SUFFICES ASSUME token' # token, token \in live PROVE Caused
    OBVIOUS
  <2>2. token # None
    BY <1>1, <2>1, AwaitFacts DEF ConsoleInv, TypeOK, AccountsOK
  <2>3. ~UNCHANGED vars
    BY <2>1 DEF vars, authVars
  <2>4. CASE Reload
    BY <1>1, <2>1, <2>4 DEF Reload, ConsoleInv, SessionKnown
  <2>5. ASSUME NEW k \in Page, Resume(k) PROVE Caused
    <3>1. CASE SignedIn(k)
      BY <2>2, <3>1 DEF SignedIn
    <3>2. CASE Expired(k)
      <4>1. task[k].sent # token
        BY <1>1, <2>1, <3>2, SlotFacts DEF Expired, Answered, ConsoleInv, TaskOK
      <4>2. QED
        BY <3>2, <4>1 DEF Expired, Use
    <3>3. CASE NotRestored(k)
      BY <3>3 DEF NotRestored
    <3>4. CASE LoggedOut(k) \/ LogoutRecovered(k)
      BY <3>4 DEF LoggedOut, LogoutRecovered, Answered, Answers
    <3>5. QED
      BY <2>1, <2>5, <3>1, <3>2, <3>3, <3>4
         DEF Resume, Restored, BuddyCreated, OperationDone, BuddiesLoaded, SnapshotLoaded,
             RetentionLoaded, MetricsLoaded, MetricsUnavailable, GiveUp, authVars
  <2>6. CASE \/ OtherTabActs \/ OtherTabResumes
             \/ \E k \in Slots : Serve(k) \/ Lose(k)
             \/ \E k \in Page : UserActs(k)
    BY <2>1, <2>6 DEF Serve, Lose, UserActs, OtherTabActs, OtherTabResumes, authVars
  <2>7. QED
    BY <1>1, <2>1, <2>3, <2>4, <2>5, <2>6 DEF Next
<1>2. QED
  BY <1>1, ConsoleInductive, PTL DEF Spec, EndedForCause
=============================================================================
