---------------------------- MODULE DevicePairing ----------------------------
(***************************************************************************)
(* DeviceRegistry.pair_device: how a device obtains, replaces and loses    *)
(* the token that authenticates it.                                        *)
(*                                                                         *)
(* The registry keeps its records twice, in dictionaries that requests     *)
(* read and in SQLite tables that only a start of the process reads.       *)
(* POST /devices/{id}/pair runs on a thread pool and takes no lock, so a   *)
(* pairing is a sequence of steps between which other requests run:        *)
(* look-ups in the dictionaries, one statement after another on the        *)
(* shared connection, the commit, then the updates of the dictionaries.    *)
(***************************************************************************)
EXTENDS SharedConnection

CONSTANTS
  Threads,        \* worker threads that serve the route
  Devices, Keys, Tokens, Buddies, Machines,
  Endpoints,      \* what is recorded of a machine beside its id
  PairRequests,   \* the requests that clients may send
  Overlaps,       \* pairs <<r, s>>: s may arrive while r is being served
  MayFail,        \* TRUE: a statement, a commit or the scan after it can raise
  None

ASSUME RequestAssumption ==
  /\ PairRequests \subseteq [device : Devices, key : Keys, token : Tokens,
                             buddy : Buddies, machine : Machines,
                             endpoint : Endpoints]
  /\ Overlaps \subseteq PairRequests \X PairRequests
  /\ MayFail \in BOOLEAN

-----------------------------------------------------------------------------
(* Tokens are stored and looked up by their SHA-256, never themselves.     *)
Verifier(token) == [sha256 |-> token]
Verifiers == {Verifier(token) : token \in Tokens}

PairKeys == Devices \X Keys
KeyOf(x) == <<x.device, x.key>>

Pairing == [device : Devices, key : Keys, buddy : Buddies,
            machine : Machines, endpoint : Endpoints]
PairingOf(x) == [device |-> x.device, key |-> x.key, buddy |-> x.buddy,
                 machine |-> x.machine, endpoint |-> x.endpoint]

(* A row of device_pairings_runtime, whose primary key is the pair key.    *)
Row == [verifier : Verifiers, pairing : Pairing]

ASSUME NoneAssumption ==
  /\ None \notin Row /\ None \notin Pairing /\ None \notin PairKeys
  /\ None \notin Buddies /\ None \notin Machines /\ None \notin Endpoints
  /\ None \notin PairRequests /\ None \notin Verifiers

Database ==
  [devices : [Devices -> Buddies \union {None}],
   machines : [Machines -> Endpoints \union {None}],
   bindings : [Buddies -> Machines \union {None}],
   pairings : [PairKeys -> Row \union {None}],
   revoked : SUBSET Verifiers]

EmptyDatabase ==
  [devices |-> [d \in Devices |-> None],
   machines |-> [m \in Machines |-> None],
   bindings |-> [b \in Buddies |-> None],
   pairings |-> [pk \in PairKeys |-> None], revoked |-> {}]

(* The dictionaries: _devices, _agent_machines, _bindings_by_buddy,        *)
(* _pairings_by_idempotency, _pairing_token_index and                      *)
(* _revoked_pairing_tokens.                                                *)
Registry ==
  [devices : [Devices -> Buddies \union {None}],
   machines : [Machines -> Endpoints \union {None}],
   bindings : [Buddies -> Machines \union {None}],
   pairings : [PairKeys -> Pairing \union {None}],
   index : [Verifiers -> PairKeys \union {None}],
   revoked : SUBSET Verifiers]

HoldsVerifier(db, pk, v) ==
  db.pairings[pk] # None /\ db.pairings[pk].verifier = v

(* What a start of the process makes of the tables.                        *)
Load(db) ==
  [devices |-> db.devices, machines |-> db.machines, bindings |-> db.bindings,
   pairings |-> [pk \in PairKeys |->
                   IF db.pairings[pk] = None THEN None
                   ELSE db.pairings[pk].pairing],
   index |-> [v \in Verifiers |->
                IF /\ v \notin db.revoked
                   /\ \E pk \in PairKeys : HoldsVerifier(db, pk, v)
                THEN CHOOSE pk \in PairKeys : HoldsVerifier(db, pk, v)
                ELSE None],
   revoked |-> db.revoked]

(* Mutant: the token itself is stored.                                     *)
ReplacePairingPlaintext(rows, r) ==
  [rows EXCEPT ![KeyOf(r)] = [verifier |-> r.token, pairing |-> PairingOf(r)]]

(* INSERT OR REPLACE under the primary key and the unique token index:     *)
(* every row that conflicts with the new one on either goes.               *)
ReplacePairing(rows, r) ==
  [pk \in PairKeys |->
     IF pk = KeyOf(r) THEN [verifier |-> Verifier(r.token), pairing |-> PairingOf(r)]
     ELSE IF rows[pk] # None /\ rows[pk].verifier = Verifier(r.token) THEN None
     ELSE rows[pk]]

-----------------------------------------------------------------------------
VARIABLES
  registry,   \* the dictionaries
  pc,         \* where each thread is in pair_device
  req,        \* the request it serves
  stale,      \* the verifiers its loop over the device's tokens has to go
  removed,    \* the one that is out of the index and not marked as revoked
  current,    \* history: the token of the last pairing completed per device
  superseded, \* history: the tokens those pairings replaced
  torn,       \* history: a rollback has taken statements of another request
  parted,     \* history: threads whose open transaction another one committed
  halved,     \* history: a request failed and left part of its work behind
  split,      \* history: a commit has come within another's transaction
  raced       \* history: two requests of a device have been under way at once

threadVars == <<pc, req, stale, removed>>
historyVars == <<current, superseded, torn, parted, halved, split, raced>>
vars == <<connectionVars, registry, threadVars, historyVars>>

(* The statements of the transaction, in the order of the code.            *)
InTransaction ==
  {"revoke", "machine", "binding", "pairing", "commit"}
Steps ==
  {"idle", "collect", "invalidate", "remove", "tombstone", "index", "notify"}
    \union InTransaction

TypeOK ==
  /\ working \in Database /\ durable \in Database
  /\ registry \in Registry
  /\ pc \in [Threads -> Steps]
  /\ req \in [Threads -> PairRequests \union {None}]
  /\ \A t \in Threads : pc[t] # "idle" => req[t] # None
  /\ stale \in [Threads -> SUBSET Verifiers]
  /\ removed \in [Threads -> Verifiers \union {None}]
  /\ \A t \in Threads : (removed[t] # None) <=> (pc[t] = "tombstone")
  /\ current \in [Devices -> Verifiers \union {None}]
  /\ superseded \in SUBSET Verifiers
  /\ torn \in BOOLEAN /\ parted \in SUBSET Threads
  /\ halved \in BOOLEAN /\ split \in BOOLEAN /\ raced \in BOOLEAN

(* _pairing_token_verifiers_for_device                                     *)
VerifiersFor(reg, d) ==
  {v \in Verifiers : /\ reg.index[v] # None
                     /\ reg.pairings[reg.index[v]].device = d}

(* require_device_pairing_token accepts the token whose verifier is v.     *)
Authenticates(reg, d, v) == v \in VerifiersFor(reg, d)

Init ==
  /\ working = EmptyDatabase /\ durable = EmptyDatabase
  /\ registry = Load(EmptyDatabase)
  /\ pc = [t \in Threads |-> "idle"]
  /\ req = [t \in Threads |-> None]
  /\ stale = [t \in Threads |-> {}]
  /\ removed = [t \in Threads |-> None]
  /\ current = [d \in Devices |-> None]
  /\ superseded = {}
  /\ torn = FALSE /\ parted = {} /\ halved = FALSE /\ split = FALSE /\ raced = FALSE

-----------------------------------------------------------------------------
Goto(t, step) == pc' = [pc EXCEPT ![t] = step]
Finish(t) == /\ Goto(t, "idle")
             /\ req' = [req EXCEPT ![t] = None]
             /\ stale' = [stale EXCEPT ![t] = {}]
             /\ UNCHANGED removed

(* Mutant: a tombstone does not keep a token from being paired again.      *)
NotIndexed(r) == registry.index[Verifier(r.token)] = None

NotYetUsed(r) ==
  /\ registry.index[Verifier(r.token)] = None
  /\ Verifier(r.token) \notin registry.revoked

(* The look-ups that end a request early, with the pairing already stored  *)
(* under the key or with DuplicatePairingError, change nothing and are     *)
(* stuttering steps: only the request that passes them all is a step.      *)
Lookup(t, r) ==
  /\ pc[t] = "idle"
  /\ \A u \in Threads : pc[u] # "idle" => <<req[u], r>> \in Overlaps
  /\ registry.pairings[KeyOf(r)] = None
  /\ NotYetUsed(r)
  /\ Goto(t, "collect")
  /\ req' = [req EXCEPT ![t] = r]
  /\ raced' = (raced \/ \E u \in Threads : pc[u] # "idle" /\ req[u].device = r.device)
  /\ UNCHANGED <<connectionVars, registry, stale, removed>>
  /\ UNCHANGED <<current, superseded, torn, parted, halved, split>>

(* Mutant: the old tokens are only invalidated in the dictionaries.        *)
CollectNothing(t) ==
  /\ pc[t] = "collect"
  /\ Goto(t, "revoke")
  /\ UNCHANGED <<connectionVars, registry, req, stale, removed, historyVars>>

CollectStale(t) ==
  /\ pc[t] = "collect"
  /\ stale' = [stale EXCEPT ![t] = VerifiersFor(registry, req[t].device)]
  /\ Goto(t, "revoke")
  /\ UNCHANGED <<connectionVars, registry, req, removed, historyVars>>

(* Mutant: each tombstone is committed in a transaction of its own.        *)
PersistRevokedAlone(t) ==
  /\ pc[t] = "revoke"
  /\ \E v \in stale[t] :
       /\ working' = [working EXCEPT !.revoked = @ \union {v}]
       /\ durable' = working'
       /\ stale' = [stale EXCEPT ![t] = @ \ {v}]
  /\ UNCHANGED <<registry, pc, req, removed, historyVars>>

(* INSERT OR IGNORE of a tombstone for one of the stale tokens.            *)
PersistRevoked(t) ==
  /\ pc[t] = "revoke"
  /\ \E v \in stale[t] :
       /\ Execute([working EXCEPT !.revoked = @ \union {v}])
       /\ stale' = [stale EXCEPT ![t] = @ \ {v}]
  /\ UNCHANGED <<registry, pc, req, removed, historyVars>>

PersistDevice(t) ==
  /\ pc[t] = "revoke" /\ stale[t] = {}
  /\ Execute([working EXCEPT !.devices[req[t].device] = req[t].buddy])
  /\ Goto(t, "machine")
  /\ UNCHANGED <<registry, req, stale, removed, historyVars>>

PersistAgentMachine(t) ==
  /\ pc[t] = "machine"
  /\ Execute([working EXCEPT !.machines[req[t].machine] = req[t].endpoint])
  /\ Goto(t, "binding")
  /\ UNCHANGED <<registry, req, stale, removed, historyVars>>

PersistBinding(t) ==
  /\ pc[t] = "binding"
  /\ Execute([working EXCEPT !.bindings[req[t].buddy] = req[t].machine])
  /\ Goto(t, "pairing")
  /\ UNCHANGED <<registry, req, stale, removed, historyVars>>

PersistPairing(t) ==
  /\ pc[t] = "pairing"
  /\ Execute([working EXCEPT !.pairings = ReplacePairing(@, req[t])])
  /\ Goto(t, "commit")
  /\ UNCHANGED <<registry, req, stale, removed, historyVars>>

(* Other threads that are inside their transaction.                        *)
Others(t) == {u \in Threads \ {t} : pc[u] \in InTransaction}

(* The commit of t commits what the others have written so far.            *)
CommitBy(t) ==
  /\ Commit
  /\ parted' = Others(t)
  /\ split' = (split \/ Others(t) # {})
  /\ UNCHANGED <<current, superseded, torn, halved, raced>>

CommitPairing(t) ==
  /\ pc[t] = "commit"
  /\ CommitBy(t)
  /\ Goto(t, "invalidate")
  /\ UNCHANGED <<registry, req, stale, removed>>

(* A statement, or the commit, raises: the block rolls the connection back *)
(* and the request answers 500, even if only its event could not be        *)
(* written.                                                                *)
WriteFails(t) ==
  /\ MayFail
  /\ pc[t] \in InTransaction \union {"notify"}
  /\ Rollback
  /\ Finish(t)
  /\ torn' = (torn \/ Others(t) # {})
  /\ halved' = (halved \/ t \in parted)
  /\ parted' = parted \ {t}
  /\ UNCHANGED <<registry, current, superseded, split, raced>>

(* _pairing_token_verifiers_for_device walks the index while another       *)
(* request changes its size: "dictionary changed size during iteration".   *)
(* Before the transaction nothing is lost; after it, the new token is in   *)
(* the tables and not in the dictionaries.                                 *)
ScanBreaks(t) ==
  /\ pc[t] \in {"collect"} \union (IF MayFail THEN {"invalidate"} ELSE {})
  /\ \E u \in Threads \ {t} : pc[u] = "index" \/ (pc[u] = "remove" /\ stale[u] # {})
  /\ Finish(t)
  /\ halved' = (halved \/ pc[t] = "invalidate")
  /\ UNCHANGED <<connectionVars, registry, current, superseded, torn, parted, split,
                 raced>>

(* _invalidate_pairing_tokens_for_device looks the device's tokens up      *)
(* again.                                                                  *)
Invalidate(t) ==
  /\ pc[t] = "invalidate"
  /\ stale' = [stale EXCEPT ![t] = VerifiersFor(registry, req[t].device)]
  /\ Goto(t, "remove")
  /\ UNCHANGED <<connectionVars, registry, req, removed, historyVars>>

(* "del": the token is in the index no more, and nowhere marked as revoked *)
(* in the dictionaries yet.                                                *)
RemoveToken(t) ==
  /\ pc[t] = "remove"
  /\ \E v \in stale[t] :
       /\ registry.index[v] # None
       /\ registry' = [registry EXCEPT !.index[v] = None]
       /\ stale' = [stale EXCEPT ![t] = @ \ {v}]
       /\ removed' = [removed EXCEPT ![t] = v]
  /\ Goto(t, "tombstone")
  /\ UNCHANGED <<connectionVars, req, historyVars>>

(* "del" raises KeyError: another request of the device has removed the    *)
(* token since this one looked it up.                                      *)
RemoveFails(t) ==
  /\ pc[t] = "remove"
  /\ \E v \in stale[t] : registry.index[v] = None
  /\ Finish(t)
  /\ halved' = TRUE
  /\ UNCHANGED <<connectionVars, registry, current, superseded, torn, parted, split,
                 raced>>

(* Mutant: the old tokens leave the index but are not marked as revoked.   *)
TombstoneForgotten(t) ==
  /\ pc[t] = "tombstone"
  /\ removed' = [removed EXCEPT ![t] = None]
  /\ Goto(t, "remove")
  /\ UNCHANGED <<connectionVars, registry, req, stale, historyVars>>

TombstoneToken(t) ==
  /\ pc[t] = "tombstone"
  /\ registry' = [registry EXCEPT !.revoked = @ \union {removed[t]}]
  /\ removed' = [removed EXCEPT ![t] = None]
  /\ Goto(t, "remove")
  /\ UNCHANGED <<connectionVars, req, stale, historyVars>>

(* Mutant: the token is indexed before its pairing is stored.              *)
PublishIndexFirst(t) ==
  LET r == req[t] IN
  /\ pc[t] = "remove" /\ stale[t] = {}
  /\ registry' = [registry EXCEPT !.index[Verifier(r.token)] = KeyOf(r)]
  /\ Goto(t, "index")
  /\ UNCHANGED <<connectionVars, req, stale, removed, historyVars>>

(* The records of the pairing, one dictionary after another: nothing reads *)
(* two of them together, so that for each record this is the one moment.   *)
Publish(t) ==
  LET r == req[t] IN
  /\ pc[t] = "remove" /\ stale[t] = {}
  /\ registry' = [registry EXCEPT
       !.devices[r.device] = r.buddy,
       !.machines[r.machine] = r.endpoint,
       !.bindings[r.buddy] = r.machine,
       !.pairings[KeyOf(r)] = PairingOf(r)]
  /\ Goto(t, "index")
  /\ UNCHANGED <<connectionVars, req, stale, removed, historyVars>>

(* The token starts to authenticate and the pairing is complete.           *)
IndexToken(t) ==
  LET r == req[t] IN
  /\ pc[t] = "index"
  /\ registry' = [registry EXCEPT !.index[Verifier(r.token)] = KeyOf(r)]
  /\ current' = [current EXCEPT ![r.device] = Verifier(r.token)]
  /\ superseded' = superseded \union ({current[r.device]} \ {None, Verifier(r.token)})
  /\ Goto(t, "notify")
  /\ UNCHANGED <<connectionVars, req, stale, removed, torn, parted, halved, split, raced>>

(* SyncStore.append_event: its row is not kept here, and its commit is one *)
(* of whatever is open on the connection.  Then the request is answered.   *)
Notify(t) ==
  /\ pc[t] = "notify"
  /\ CommitBy(t)
  /\ Finish(t)
  /\ UNCHANGED registry

(* The process dies and the service manager starts it again: the open      *)
(* transaction and the dictionaries are lost, the tables are loaded.       *)
Restart ==
  /\ Rollback
  /\ registry' = Load(durable)
  /\ pc' = [t \in Threads |-> "idle"]
  /\ req' = [t \in Threads |-> None]
  /\ stale' = [t \in Threads |-> {}]
  /\ removed' = [t \in Threads |-> None]
  /\ parted' = {}
  /\ UNCHANGED <<current, superseded, torn, halved, split, raced>>

PairDevice(t) ==
  \/ \E r \in PairRequests : Lookup(t, r)
  \/ CollectStale(t)
  \/ PersistRevoked(t)
  \/ PersistDevice(t)
  \/ PersistAgentMachine(t)
  \/ PersistBinding(t)
  \/ PersistPairing(t)
  \/ CommitPairing(t)
  \/ WriteFails(t)
  \/ ScanBreaks(t)
  \/ Invalidate(t)
  \/ RemoveToken(t)
  \/ RemoveFails(t)
  \/ TombstoneToken(t)
  \/ Publish(t)
  \/ IndexToken(t)
  \/ Notify(t)

Next == Restart \/ \E t \in Threads : PairDevice(t)

Spec == Init /\ [][Next]_vars

-----------------------------------------------------------------------------
Quiescent == \A t \in Threads : pc[t] = "idle"
Restarted == Load(durable)

(* require_device_pairing_token reads the index and then the pairing it    *)
(* names (lines 214-217), and so does every look-up of a device's tokens:  *)
(* the pairing is always there, whatever the requests that are half way.   *)
IndexResolves ==
  \A v \in Verifiers : registry.index[v] # None => registry.pairings[registry.index[v]] # None

(* Pairing rotates the token: no device ever has two tokens that           *)
(* authenticate it, now or after a restart at this point.                  *)
OneTokenPerDevice ==
  \A reg \in {registry, Restarted}, d \in Devices :
    \A v, w \in VerifiersFor(reg, d) : v = w

(* A token that a completed pairing replaced authenticates nothing ever    *)
(* again, in this process or in one started from the tables.               *)
NoRevival ==
  \A reg \in {registry, Restarted}, d \in Devices :
    \A v \in superseded : ~Authenticates(reg, d, v)

(* A device whose pairing was completed is never left without a token: a   *)
(* pairing of it that fails, or that a crash cuts short, leaves the old    *)
(* token or the new one, in the tables at every moment and in the          *)
(* dictionaries except between their updates.                              *)
NeverLockedOut ==
  LET restarted == Restarted IN
  \A d \in Devices : current[d] # None =>
    /\ VerifiersFor(restarted, d) # {}
    /\ \/ VerifiersFor(registry, d) # {}
       \/ \E t \in Threads :
            pc[t] \in {"remove", "tombstone", "index"} /\ req[t].device = d

(* Between requests the dictionaries hold what a restart would load: every *)
(* device, machine, binding, pairing, token and tombstone.                 *)
RestartAgrees == Quiescent => registry = Restarted

(* What remains of the four where requests of different devices overlap    *)
(* and any of them may fail, up to the first moment at which two requests  *)
(* of one device are under way.  There is one token per device unless a    *)
(* failure took statements of another request or left a part of its own    *)
(* work behind; no token is revived unless such statements were taken;     *)
(* nobody is locked out unless they were, or a commit came half way.       *)
OneTokenUnlessHalved == torn \/ halved \/ raced \/ OneTokenPerDevice
NoRevivalUnlessTorn == torn \/ raced \/ NoRevival
NeverLockedOutUnlessSplit == torn \/ split \/ raced \/ NeverLockedOut
RestartAgreesUnlessHalved == torn \/ halved \/ raced \/ RestartAgrees

(* The tables implement the credential of DeviceCredential.tla: each       *)
(* commit replaces a device's credential as a whole or not at all.         *)
StoredCredential ==
  LET restarted == Restarted IN
  [d \in Devices |->
     IF VerifiersFor(restarted, d) = {} THEN None
     ELSE CHOOSE v \in VerifiersFor(restarted, d) : TRUE]
Credential == INSTANCE DeviceCredential WITH
  Credentials <- Verifiers, credential <- StoredCredential, retired <- durable.revoked
ImplementsCredential == Credential!Spec

(* The same, whichever requests overlap, up to the first of the moments at *)
(* which one of them disturbs another or leaves its own work half done.    *)
(* A step that leaves the tables alone leaves the credentials alone.       *)
ImplementsCredentialUnlessSplit ==
  /\ Credential!Init
  /\ [][\/ UNCHANGED durable
        \/ torn' \/ halved' \/ split' \/ raced'
        \/ Credential!Next]_(Credential!vars)
=============================================================================
