------------------------------ MODULE Accounts ------------------------------
(***************************************************************************)
(* The accounts of the server: who is registered, which session tokens are *)
(* out, and who has a buddy.  AuthStore and BuddyStore hold their lock     *)
(* around a statement and its commit, and what one of them writes is one   *)
(* step here: it concerns one row that no other request of theirs changes, *)
(* or is refused by the unique email.  The other stores do not take that   *)
(* lock: a block of theirs that fails before the commit rolls back what    *)
(* was written, and the request is answered as if it had been kept.        *)
(***************************************************************************)
CONSTANTS
  Users,      \* normalized emails
  Tokens,     \* what secrets.token_urlsafe returns
  Founders,   \* BUDDYS_FOUNDER_METRICS_EMAIL_ALLOWLIST
  None

VARIABLES
  registered,  \* the rows of users
  owner,       \* to whom each token was handed out, None: not issued
  live,        \* the tokens that have a row of sessions without revoked_at
  homes        \* the users with a buddy created by POST /me/buddies

accountVars == <<registered, owner, live, homes>>

AccountsOK ==
  /\ registered \subseteq Users /\ homes \subseteq Users
  /\ owner \in [Tokens -> Users \union {None}]
  /\ live \subseteq {x \in Tokens : owner[x] # None}

(* A token no one can have guessed or got: which one makes no difference.  *)
Unissued == {x \in Tokens : owner[x] = None}
FreshToken == CHOOSE x \in Unissued : TRUE

(* authenticate_token: the user, or None for a token that is revoked.      *)
Authenticate(x) == IF x \in live THEN owner[x] ELSE None

(* Mutant: the row is written for a token that is handed out to no one.    *)
IssueSessionUnwritten(u) ==
  /\ Unissued # {}
  /\ live' = live \union {FreshToken}
  /\ UNCHANGED owner

IssueSession(u) ==
  /\ Unissued # {}
  /\ owner' = [owner EXCEPT ![FreshToken] = u]
  /\ live' \in {live, live \union {FreshToken}}

(* register_user and issue_session, in two transactions: the second may    *)
(* fail, and leaves an account that can log in; it fails when the row of   *)
(* the user was rolled back, which its foreign key requires.               *)
Register(u) ==
  /\ u \notin registered
  /\ registered' = registered \union {u}
  /\ IssueSession(u)
  /\ UNCHANGED homes

RegisterHalf(u) ==
  /\ u \notin registered
  /\ registered' = registered \union {u}
  /\ UNCHANGED <<owner, live, homes>>

LogIn(u) ==
  /\ u \in registered
  /\ IssueSession(u)
  /\ UNCHANGED <<registered, homes>>

(* The one session whose token was sent; the user's others stay.           *)
LogOut(x) ==
  /\ live' \in {live, live \ {x}}
  /\ UNCHANGED <<registered, owner, homes>>

CreateBuddy(u) ==
  /\ homes' \in {homes, homes \union {u}}
  /\ UNCHANGED <<registered, owner, live>>
=============================================================================
