--------------------------- MODULE ConsoleSession ---------------------------
(***************************************************************************)
(* The web console (static/app.js) and the accounts behind it.  The page   *)
(* runs on one thread, in asynchronous functions that interleave only      *)
(* where they await an answer: what was checked before an await may not    *)
(* hold after it.  Answers come in any order, or never.  A session ends by *)
(* a logout, or when any answer says that a token has expired.             *)
(***************************************************************************)
EXTENDS Accounts, Naturals

CONSTANTS
  MaxSlots,  \* bound: asynchronous functions under way at the same time
  MaxActs,   \* bound: what the user does in a behaviour
  Legacy,    \* the owner of the data of those who are not signed in
  InitRegistered, InitHomes

ASSUME ConsoleAssumption ==
  /\ MaxActs \in Nat /\ MaxSlots \in Nat \ {0, 1} /\ {Legacy, None} \intersect Users = {}
  /\ InitHomes \subseteq InitRegistered /\ InitRegistered \subseteq Users

(* The functions of the page, and one of another tab of the browser, which *)
(* has its own session and shares what is stored.                          *)
Page == 1 .. MaxSlots
OtherTab == 0
Slots == {OtherTab} \union Page
Owners == Users \union {Legacy, None}

(* Whose data the page shows: the list of buddies, the one selected, what  *)
(* comes from the snapshot, the draft (the proposal that is selected, its  *)
(* correction and the status line) and the founder's metrics.              *)
View == [buddies : Owners, buddy : Owners, data : Owners, draft : Owners, metrics : Owners]
EmptyView == [buddies |-> None, buddy |-> None, data |-> None, draft |-> None, metrics |-> None]

(* What a function awaits: the name of the request, or of the snapshot it  *)
(* asks for last: on its own, in a refresh, after an expired token, after  *)
(* an expired token of a logout, or after a logout.                        *)
Snapshots == {"load", "refresh", "recover", "logout_recover", "leave"}
Awaits == {"login", "register", "me", "logout", "create", "operation", "buddies",
           "retention", "engagement"} \union Snapshots

Answers == {"ok", "expired", "refused", "lost"}

ASSUME NoneAssumption == None \notin Tokens \union Awaits \union Answers

VARIABLES
  token, user,   \* state.auth
  stored,        \* localStorage: buddysAccessToken
  shared,        \* history: another tab was the last to change what is stored
  view,          \* state.workspace
  generation,    \* founderMetricsRequestGeneration
  controls,      \* the buttons are those of one who is signed in
  task,          \* the asynchronous functions under way
  acts,          \* what the user did: the bound
  crossed,       \* history: an answer asked for under another session was used
  overwritten,   \* history: a session was saved over another one
  cut            \* history: an answer that a refresh needs was lost

authVars == <<token, user, stored, shared>>
historyVars == <<crossed, overwritten, cut>>
vars == <<accountVars, authVars, view, generation, controls, task, acts, historyVars>>

(* A function at an await: the session it asked under, the user it asks to *)
(* be, the answer, its data and token, what loadFounderMetrics keeps, and  *)
(* whether it is in the try block of restoreSession.                       *)
Task == [at : Awaits \union {None}, sent : Tokens \union {None}, as : Users \union {None},
         answer : Answers \union {None}, whose : Owners, issued : Tokens \union {None},
         generation : Nat, session : Tokens \union {None}, restoring : BOOLEAN]
Idle == [at |-> None, sent |-> None, as |-> None, answer |-> None, whose |-> None,
         issued |-> None, generation |-> 0, session |-> None, restoring |-> FALSE]
Ask(request, x) == [Idle EXCEPT !.at = request, !.sent = x]

TypeOK ==
  /\ AccountsOK
  /\ token \in Tokens \union {None} /\ stored \in Tokens \union {None}
  /\ user \in Users \union {None}
  /\ view \in View
  /\ generation \in Nat /\ acts \in 0 .. MaxActs
  /\ controls \in BOOLEAN
  /\ task \in [Slots -> Task]
  /\ {shared, crossed, overwritten, cut} \subseteq BOOLEAN

Init ==
  /\ registered = InitRegistered /\ homes = InitHomes
  /\ owner = [x \in Tokens |-> None] /\ live = {}
  /\ token = None /\ user = None /\ stored = None
  /\ view = EmptyView
  /\ generation = 0 /\ controls = FALSE /\ acts = 0
  /\ task = [k \in Slots |-> Idle]
  /\ shared = FALSE /\ crossed = FALSE /\ overwritten = FALSE /\ cut = FALSE

Authenticated == token # None /\ user # None

-----------------------------------------------------------------------------
(* The server answers a request of the page, with its data or a refusal.   *)

Reply(k, answer, whose, issued) ==
  task' = [task EXCEPT ![k].answer = answer, ![k].whose = whose, ![k].issued = issued]
Refuse(k) == Reply(k, "refused", None, None) /\ UNCHANGED accountVars

ServeSignIn(k) ==
  LET u == task[k].as IN
  /\ task[k].at \in {"login", "register"}
  /\ \/ /\ IF task[k].at = "login" THEN LogIn(u) ELSE Register(u)
        /\ Reply(k, "ok", u, FreshToken)
     \/ /\ task[k].at = "register" /\ RegisterHalf(u)
        /\ Reply(k, "refused", None, None)
     \/ (task[k].at = "register" \/ u \notin registered) /\ Refuse(k)

(* /sync/snapshot is answered to those who send no token, too.             *)
ServeSnapshot(k) ==
  LET x == task[k].sent IN
  /\ task[k].at \in Snapshots
  /\ IF x # None /\ x \notin live
     THEN Reply(k, "expired", None, None)
     ELSE Reply(k, "ok", IF x = None THEN Legacy ELSE owner[x], None)
  /\ UNCHANGED accountVars

(* Everything else requires a current user, with a header or without.      *)
ServeOther(k) ==
  LET x == task[k].sent
      u == IF x = None THEN None ELSE Authenticate(x)
  IN /\ task[k].at \in {"me", "logout", "create", "operation", "buddies",
                        "retention", "engagement"}
     /\ CASE x = None -> Refuse(k)
          [] x # None /\ u = None -> Reply(k, "expired", None, None) /\ UNCHANGED accountVars
          [] u # None /\ task[k].at = "logout" -> Reply(k, "ok", u, None) /\ LogOut(x)
          [] u # None /\ task[k].at = "create" -> Reply(k, "ok", u, None) /\ CreateBuddy(u)
          [] u # None /\ task[k].at = "retention" /\ u \notin Founders -> Refuse(k)
          [] OTHER -> Reply(k, "ok", u, None) /\ UNCHANGED accountVars

Serve(k) ==
  /\ task[k].at # None /\ task[k].answer = None
  /\ ServeSignIn(k) \/ ServeSnapshot(k) \/ ServeOther(k)
  /\ UNCHANGED <<authVars, view, generation, controls, acts, historyVars>>

(* The request or its answer is lost, and fetch rejects.                   *)
Lose(k) ==
  /\ task[k].at # None /\ task[k].answer # "lost"
  /\ task' = [task EXCEPT ![k].answer = "lost", ![k].whose = None, ![k].issued = None]
  /\ UNCHANGED <<accountVars, authVars, view, generation, controls, acts, historyVars>>

-----------------------------------------------------------------------------
(* What the functions do between two awaits.                               *)

Answered(k, requests, answers) ==
  task[k].at \in requests /\ task[k].answer \in answers

Continue(k, next) == task' = [task EXCEPT ![k] = next]
Then(k, request, x) == [Ask(request, x) EXCEPT !.restoring = task[k].restoring]

(* An answer to a request that was sent under another session is used.     *)
Use(k) == crossed' = (crossed \/ task[k].sent # token)

(* Mutant: the session ends, but the metrics stay.                         *)
ClearSessionKeepingMetrics ==
  /\ token' = None /\ user' = None /\ stored' = None /\ shared' = FALSE
  /\ view' = [EmptyView EXCEPT !.metrics = view.metrics]
  /\ generation' = generation + 1
  /\ controls' = FALSE

ClearSession ==
  /\ token' = None /\ user' = None /\ stored' = None /\ shared' = FALSE
  /\ view' = EmptyView
  /\ generation' = generation + 1
  /\ controls' = FALSE

(* loadAuthBuddies up to its await, for a user who may be None by now.     *)
Refresh(k, u, x, v) ==
  IF u = None
  THEN Continue(k, Then(k, "refresh", x)) /\ view' = [v EXCEPT !.buddies = None, !.buddy = None]
  ELSE Continue(k, Then(k, "buddies", x)) /\ view' = v

(* saveSession after a login or a registration.                            *)
SignedIn(k) ==
  /\ Answered(k, {"login", "register"}, {"ok"})
  /\ token' = task[k].issued /\ stored' = task[k].issued /\ user' = task[k].as
  /\ shared' = FALSE
  /\ overwritten' = (overwritten \/ token # None)
  /\ Refresh(k, task[k].as, task[k].issued, view)
  /\ UNCHANGED <<accountVars, generation, controls, acts, crossed, cut>>

(* restoreSession knows the user of the stored token.                      *)
Restored(k) ==
  /\ Answered(k, {"me"}, {"ok"})
  /\ Use(k)
  /\ user' = task[k].whose
  /\ Refresh(k, task[k].whose, token, view)
  /\ UNCHANGED <<accountVars, token, stored, shared, generation, controls, acts, overwritten, cut>>

(* Any other failure before the workspace is loaded, of the buddies, the   *)
(* snapshot or the recovery too, clears the session.                       *)
NotRestored(k) ==
  /\ task[k].restoring /\ Answered(k, Awaits, {"refused", "lost"})
  /\ Use(k)
  /\ ClearSession
  /\ Continue(k, Ask("refresh", None))
  /\ UNCHANGED <<accountVars, acts, overwritten, cut>>

(* Mutant: a request that is refused ends the session as well.             *)
ExpiredOrRefused(k) ==
  /\ Answered(k, Awaits, {"expired", "refused"})
  /\ Use(k)
  /\ ClearSession
  /\ Continue(k, Then(k, IF task[k].at = "logout" THEN "logout_recover" ELSE "recover", None))
  /\ UNCHANGED <<accountVars, acts, overwritten, cut>>

(* recoverExpiredSession, wherever the 401 comes from.                     *)
Expired(k) ==
  /\ Answered(k, Awaits, {"expired"})
  /\ Use(k)
  /\ ClearSession
  /\ Continue(k, Then(k, IF task[k].at = "logout" THEN "logout_recover" ELSE "recover", None))
  /\ UNCHANGED <<accountVars, acts, overwritten, cut>>

LoggedOut(k) ==
  /\ Answered(k, {"logout"}, {"ok", "refused", "lost"})
  /\ Use(k)
  /\ ClearSession
  /\ Continue(k, Ask("leave", None))
  /\ UNCHANGED <<accountVars, acts, overwritten, cut>>

(* The buddy is selected before its user is looked at: when there is none  *)
(* any more that raises, and nothing is refreshed.                         *)
BuddyCreated(k) ==
  /\ Answered(k, {"create"}, {"ok"})
  /\ Use(k)
  /\ view' = [view EXCEPT !.buddy = task[k].whose]
  /\ Continue(k, IF user = None THEN Idle ELSE Ask("buddies", token))
  /\ UNCHANGED <<accountVars, authVars, generation, controls, acts, overwritten, cut>>

(* Any operation of the workspace refreshes it when it is answered.  That  *)
(* of a capture selects its proposal, whoever is signed in by now; that of *)
(* a review leaves the proposal that is selected, or selects none.         *)
OperationDone(k) ==
  /\ Answered(k, {"operation"}, {"ok"})
  /\ \/ Use(k) /\ Refresh(k, user, token, [view EXCEPT !.draft = task[k].whose])
     \/ UNCHANGED crossed /\ \E d \in {view.draft, None} :
                                Refresh(k, user, token, [view EXCEPT !.draft = d])
  /\ UNCHANGED <<accountVars, authVars, generation, controls, acts, overwritten, cut>>

(* Mutant: a user who has no buddy gets no snapshot.                       *)
BuddiesLoadedOnly(k) ==
  LET mine == IF task[k].whose \in homes THEN task[k].whose ELSE None IN
  /\ Answered(k, {"buddies"}, {"ok"})
  /\ Use(k)
  /\ view' = [view EXCEPT !.buddies = mine, !.buddy = mine]
  /\ Continue(k, IF mine = None THEN Idle ELSE Then(k, "refresh", token))
  /\ UNCHANGED <<accountVars, authVars, generation, controls, acts, overwritten, cut>>

(* loadAuthBuddies after its await: whose the session is by now is not     *)
(* looked at.                                                              *)
BuddiesLoaded(k) ==
  LET mine == IF task[k].whose \in homes THEN task[k].whose ELSE None IN
  /\ Answered(k, {"buddies"}, {"ok"})
  /\ Use(k)
  /\ view' = [view EXCEPT !.buddies = mine, !.buddy = mine]
  /\ Continue(k, Then(k, "refresh", token))
  /\ UNCHANGED <<accountVars, authVars, generation, controls, acts, overwritten, cut>>

-----------------------------------------------------------------------------
(* projectWorkspace: the snapshot is dropped when no one is signed in.     *)
(* Then renderProposalInbox: a proposal that is not among those of the     *)
(* buddy is dropped, and the first of them is selected, if there is one.   *)
Project(v, whose) ==
  IF ~Authenticated THEN EmptyView
  ELSE LET listed == IF whose \in homes \union {Legacy} THEN whose ELSE None
           buddy == IF v.buddy = None THEN listed ELSE v.buddy
       IN [v EXCEPT !.buddies = listed, !.data = whose, !.buddy = buddy,
                    !.draft = IF buddy = whose THEN whose ELSE None]

(* loadFounderMetrics up to its first await.                               *)
MetricsWanted == Authenticated /\ user \in Founders

SnapshotLoaded(k) ==
  LET shown == Project(view, task[k].whose)
      wanted == task[k].at = "refresh" /\ MetricsWanted
  IN /\ Answered(k, {"load", "refresh", "recover", "leave"}, {"ok"})
     /\ Use(k)
     /\ view' = IF task[k].at = "refresh" /\ ~wanted THEN [shown EXCEPT !.metrics = None] ELSE shown
     /\ generation' = IF wanted THEN generation + 1 ELSE generation
     /\ Continue(k, IF wanted
                    THEN [Ask("retention", token) EXCEPT !.generation = generation', !.session = token]
                    ELSE Idle)
     /\ controls' = Authenticated
     /\ UNCHANGED <<accountVars, authVars, acts, overwritten, cut>>

(* The logout goes on: whoever is signed in by now is signed out.          *)
LogoutRecovered(k) ==
  /\ Answered(k, {"logout_recover"}, {"ok", "lost"})
  /\ Use(k)
  /\ ClearSession
  /\ Continue(k, Ask("leave", None))
  /\ UNCHANGED <<accountVars, acts, overwritten, cut>>

RetentionLoaded(k) ==
  /\ Answered(k, {"retention"}, {"ok"})
  /\ Continue(k, [Ask("engagement", token) EXCEPT !.generation = task[k].generation,
                                                  !.session = task[k].session])
  /\ UNCHANGED <<accountVars, authVars, view, generation, controls, acts, historyVars>>

Current(k) == /\ task[k].generation = generation
              /\ task[k].session = token
              /\ Authenticated

MetricsLoaded(k) ==
  /\ Answered(k, {"engagement"}, {"ok"})
  /\ view' = IF Current(k) THEN [view EXCEPT !.metrics = task[k].whose] ELSE view
  /\ Continue(k, Idle)
  /\ UNCHANGED <<accountVars, authVars, generation, controls, acts, historyVars>>

MetricsUnavailable(k) ==
  /\ Answered(k, {"retention", "engagement"}, {"refused", "lost"})
  /\ view' = IF Current(k) THEN [view EXCEPT !.metrics = None] ELSE view
  /\ Continue(k, Idle)
  /\ UNCHANGED <<accountVars, authVars, generation, controls, acts, historyVars>>

(* The function ends with a message.                                       *)
GiveUp(k) ==
  /\ ~task[k].restoring
  /\ \/ Answered(k, {"login", "register", "create", "operation", "buddies"}, {"refused", "lost"})
     \/ Answered(k, Snapshots \ {"logout_recover"}, {"lost"})
  /\ cut' = (cut \/ task[k].at \in {"buddies"} \union Snapshots)
  /\ Continue(k, Idle)
  /\ UNCHANGED <<accountVars, authVars, view, generation, controls, acts, crossed, overwritten>>

Resume(k) ==
  \/ SignedIn(k) \/ Restored(k) \/ NotRestored(k) \/ Expired(k) \/ LoggedOut(k)
  \/ BuddyCreated(k) \/ OperationDone(k) \/ BuddiesLoaded(k)
  \/ SnapshotLoaded(k) \/ LogoutRecovered(k)
  \/ RetentionLoaded(k) \/ MetricsLoaded(k) \/ MetricsUnavailable(k)
  \/ GiveUp(k)

-----------------------------------------------------------------------------
(* What the user does.  A button works as it was drawn last.               *)

(* A function that starts takes the first slot that is free.               *)
Act(k, next) ==
  /\ task[k].at = None /\ \A j \in 1 .. k - 1 : task[j].at # None
  /\ acts < MaxActs /\ acts' = acts + 1
  /\ Continue(k, next)

SignIn(k, u) ==
  /\ ~controls
  /\ \E request \in {"login", "register"} : Act(k, [Ask(request, token) EXCEPT !.as = u])
  /\ UNCHANGED view

SignOut(k) == controls /\ token # None /\ Act(k, Ask("logout", token)) /\ UNCHANGED view

Create(k) == /\ controls /\ user # None /\ view.buddy = None
             /\ Act(k, Ask("create", token)) /\ UNCHANGED view

Operate(k) == view.buddy # None /\ Act(k, Ask("operation", token)) /\ UNCHANGED view

SelectBuddy(k) ==
  /\ controls /\ view.buddies # None
  /\ view' = [view EXCEPT !.buddy = view.buddies]
  /\ Act(k, Ask("load", token))

UserActs(k) ==
  /\ (\E u \in Users : SignIn(k, u)) \/ SignOut(k) \/ Create(k) \/ Operate(k) \/ SelectBuddy(k)
  /\ UNCHANGED <<accountVars, authVars, generation, controls, historyVars>>

(* The page is loaded again: restoreSession, when a token is stored, and   *)
(* loadSyncSnapshot, which by then sends it.                               *)
Reload ==
  /\ acts < MaxActs /\ acts' = acts + 1
  /\ task' = [k \in Slots |->
                CASE k = OtherTab -> task[OtherTab]
                  [] k = 1 -> Ask("load", stored)
                  [] k = 2 /\ stored # None -> [Ask("me", stored) EXCEPT !.restoring = TRUE]
                  [] OTHER -> Idle]
  /\ token' = stored /\ user' = None /\ view' = EmptyView
  /\ generation' = 0 /\ controls' = FALSE /\ shared' = FALSE
  /\ UNCHANGED <<accountVars, stored, historyVars>>

(* A tab that was loaded with what is stored logs out, or one that was     *)
(* loaded when nothing was stored logs in.                                 *)
OtherTabActs ==
  /\ \/ stored # None /\ Act(OtherTab, Ask("logout", stored))
     \/ \E u \in registered : Act(OtherTab, [Ask("login", None) EXCEPT !.as = u])
  /\ UNCHANGED <<accountVars, authVars, view, generation, controls, historyVars>>

(* Its logout removes what is stored by then: when it is answered or lost, *)
(* and, for a token that has expired, before that as well.  Its login      *)
(* stores the token.  What it then loads does not concern this page.       *)
OtherTabResumes ==
  /\ \/ /\ Answered(OtherTab, {"logout"}, {"expired"})
        /\ stored' = None /\ shared' = TRUE
        /\ Continue(OtherTab, Ask("logout_recover", None))
     \/ /\ Answered(OtherTab, {"logout", "logout_recover"}, {"ok", "refused", "lost"})
        /\ stored' = None /\ shared' = TRUE
        /\ Continue(OtherTab, Idle)
     \/ /\ Answered(OtherTab, {"login"}, {"ok"})
        /\ stored' = task[OtherTab].issued /\ shared' = TRUE
        /\ Continue(OtherTab, Idle)
     \/ /\ Answered(OtherTab, {"login"}, {"refused", "lost"})
        /\ Continue(OtherTab, Idle) /\ UNCHANGED <<stored, shared>>
  /\ UNCHANGED <<accountVars, token, user, view, generation, controls, acts, historyVars>>

Next ==
  \/ Reload
  \/ OtherTabActs \/ OtherTabResumes
  \/ \E k \in Slots : Serve(k) \/ Lose(k)
  \/ \E k \in Page : Resume(k) \/ UserActs(k)

(* The server answers what it gets, and the page's event loop resumes      *)
(* whatever was answered; the user owes nothing, nor do other tabs.        *)
Spec == Init /\ [][Next]_vars /\ \A k \in Page : WF_vars(Serve(k) \/ Resume(k))

-----------------------------------------------------------------------------
Me == IF token = None THEN None ELSE owner[token]

(* However answers interleave with logouts and logins, and whatever fails  *)
(* or expires, the page never mixes two accounts.  Two logins that were    *)
(* both sent before either was answered break this; an answer that was     *)
(* asked for under another session may do so for all but the metrics,      *)
(* which alone are checked against the session they were asked for under.  *)
ShownIsMine ==
  overwritten \/ /\ view.metrics \in {None, Me}
                 /\ \/ crossed
                    \/ {user, view.buddies, view.buddy, view.data, view.draft} \subseteq {None, Me}

(* A session that is still valid is ended by its user, by a page that is   *)
(* loaded again and gets no answer to one of its first requests, or after  *)
(* another tab logged in or out (whether or not its logout ever reached    *)
(* the server), or by the late answer of another session, and by nothing   *)
(* else: not by a 403 or a lost answer of its own once the page is up.     *)
EndedForCause ==
  [][token' # token /\ token \in live =>
       \/ crossed' \/ overwritten'
       \/ shared /\ Reload
       \/ \E k \in Page :
            \/ Answered(k, {"logout", "logout_recover"}, Answers)
            \/ task[k].restoring /\ Answered(k, Awaits, {"refused", "lost"})]_vars

(* Signed out, the page ends up empty: also when an answer to what was     *)
(* asked before the logout writes buddies or a draft of the user back.     *)
(* Signed in, it ends up with the data of the session's user.  Each waits  *)
(* for the other case to end, or for an answer that a refresh needs to be  *)
(* lost: again and again, one of these holds.                              *)
SignedOutEmptied ==
  []<>(\/ token # None \/ cut
       \/ {view.buddies, view.data, view.draft, view.metrics} = {None})
SignedInShown ==
  []<>(\/ view.data = Me \/ ~Authenticated
       \/ crossed \/ overwritten \/ cut)
PageSettles == SignedOutEmptied /\ SignedInShown
=============================================================================
