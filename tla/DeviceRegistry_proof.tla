------------------------ MODULE DeviceRegistry_proof ------------------------
(* Theorems about the device registry. DevicePairing, for every set of     *)
(* threads and requests and whichever requests overlap, fail or are cut    *)
(* short by a restart; and, as Start at the end, TokenMigration, for every *)
(* mixture of rows that the tables of an earlier version may hold.         *)
EXTENDS DevicePairing, TLAPS

LEMMA RequestFields ==
  ASSUME NEW r \in PairRequests
  PROVE  /\ r.device \in Devices /\ r.key \in Keys /\ r.token \in Tokens
         /\ r.buddy \in Buddies /\ r.machine \in Machines /\ r.endpoint \in Endpoints
         /\ KeyOf(r) \in PairKeys
         /\ PairingOf(r) \in Pairing
         /\ Verifier(r.token) \in Verifiers
BY RequestAssumption DEF KeyOf, PairKeys, PairingOf, Pairing, Verifiers

LEMMA EmptyDatabaseType == EmptyDatabase \in Database
BY DEF EmptyDatabase, Database

LEMMA LoadType ==
  ASSUME NEW db \in Database
  PROVE  Load(db) \in Registry
<1>1. [pk \in PairKeys |-> IF db.pairings[pk] = None THEN None
                          ELSE db.pairings[pk].pairing]
        \in [PairKeys -> Pairing \union {None}]
  BY DEF Database, Row
<1>2. [v \in Verifiers |->
         IF v \notin db.revoked /\ \E pk \in PairKeys : HoldsVerifier(db, pk, v)
         THEN CHOOSE pk \in PairKeys : HoldsVerifier(db, pk, v) ELSE None]
        \in [Verifiers -> PairKeys \union {None}]
  OBVIOUS
<1>3. QED
  BY <1>1, <1>2 DEF Load, Registry, Database

LEMMA ReplacePairingType ==
  ASSUME NEW rows \in [PairKeys -> Row \union {None}], NEW r \in PairRequests
  PROVE  ReplacePairing(rows, r) \in [PairKeys -> Row \union {None}]
BY RequestFields DEF ReplacePairing, Row

LEMMA TypeInductive == TypeOK /\ [Next]_vars => TypeOK'
<1> SUFFICES ASSUME TypeOK, [Next]_vars PROVE TypeOK'
  OBVIOUS
<1> USE DEF TypeOK
<1>1. CASE Restart
  BY <1>1, LoadType DEF Restart, Rollback, Steps, historyVars
<1>2. ASSUME NEW t \in Threads, PairDevice(t) PROVE TypeOK'
  <2> USE DEF Goto, Steps, InTransaction, connectionVars, historyVars
  <2>1. ASSUME NEW r \in PairRequests, Lookup(t, r) PROVE TypeOK'
    BY <2>1, NoneAssumption DEF Lookup
  <2>a. pc[t] # "idle" => req[t] \in PairRequests
    OBVIOUS
  <2>2. CASE CollectStale(t)
    BY <2>2 DEF CollectStale, VerifiersFor
  <2>3. CASE PersistRevoked(t)
    BY <2>3 DEF PersistRevoked, Execute, Database
  <2>4. CASE PersistDevice(t)
    BY <2>4, <2>a, RequestFields DEF PersistDevice, Execute, Database
  <2>5. CASE PersistAgentMachine(t)
    BY <2>5, <2>a, RequestFields DEF PersistAgentMachine, Execute, Database
  <2>6. CASE PersistBinding(t)
    BY <2>6, <2>a, RequestFields DEF PersistBinding, Execute, Database
  <2>7. CASE PersistPairing(t)
    BY <2>7, <2>a, ReplacePairingType DEF PersistPairing, Execute, Database
  <2>8. CASE CommitPairing(t)
    BY <2>8 DEF CommitPairing, CommitBy, Others, Commit
  <2>9. CASE WriteFails(t)
    BY <2>9 DEF WriteFails, Rollback, Finish
  <2>14. CASE ScanBreaks(t)
    BY <2>14 DEF ScanBreaks, Finish
  <2>10. CASE Invalidate(t)
    BY <2>10 DEF Invalidate, VerifiersFor
  <2>16. CASE RemoveToken(t)
    <3>1. PICK v \in stale[t] :
            /\ registry' = [registry EXCEPT !.index[v] = None]
            /\ stale' = [stale EXCEPT ![t] = @ \ {v}]
            /\ removed' = [removed EXCEPT ![t] = v]
      BY <2>16 DEF RemoveToken
    <3>2. v \in Verifiers
      OBVIOUS
    <3>3. registry' \in Registry
      BY <3>1, <3>2 DEF Registry
    <3>4. stale' \in [Threads -> SUBSET Verifiers] /\ removed' \in [Threads -> Verifiers \union {None}]
      BY <3>1, <3>2
    <3>5. \A u \in Threads : (removed'[u] # None) <=> (pc'[u] = "tombstone")
      BY <2>16, <3>1, <3>2, NoneAssumption DEF RemoveToken
    <3>6. QED
      BY <2>16, <3>3, <3>4, <3>5 DEF RemoveToken
  <2>17. CASE RemoveFails(t)
    BY <2>17 DEF RemoveFails, Finish
  <2>18. CASE TombstoneToken(t)
    <3>1. removed[t] \in Verifiers /\ t \in Threads
      BY <2>18 DEF TombstoneToken
    <3>2. registry' \in Registry
      BY <2>18, <3>1 DEF TombstoneToken, Registry
    <3>3. QED
      BY <2>18, <3>2 DEF TombstoneToken
  <2>11. CASE Publish(t)
    <3>1. req[t] \in PairRequests
      BY <2>11, <2>a DEF Publish
    <3>2. /\ req[t].device \in Devices /\ req[t].buddy \in Buddies
          /\ req[t].machine \in Machines /\ req[t].endpoint \in Endpoints
          /\ KeyOf(req[t]) \in PairKeys
          /\ PairingOf(req[t]) \in Pairing
      BY <3>1, RequestFields
    <3>3. registry' \in Registry
      BY <2>11, <3>2 DEF Publish, Registry
    <3>4. QED
      BY <2>11, <3>3 DEF Publish
  <2>12. CASE IndexToken(t)
    <3>1. /\ req[t].device \in Devices /\ KeyOf(req[t]) \in PairKeys
          /\ Verifier(req[t].token) \in Verifiers
      BY <2>12, <2>a, RequestFields DEF IndexToken
    <3>2. registry' \in Registry
      BY <2>12, <3>1 DEF IndexToken, Registry
    <3>3. current' \in [Devices -> Verifiers \union {None}] /\ superseded' \in SUBSET Verifiers
      BY <2>12, <3>1 DEF IndexToken
    <3>4. QED
      BY <2>12, <3>2, <3>3 DEF IndexToken
  <2>15. CASE Notify(t)
    BY <2>15 DEF Notify, CommitBy, Others, Commit, Finish
  <2>13. QED
    BY <1>2, <2>1, <2>2, <2>3, <2>4, <2>5, <2>6, <2>7, <2>8, <2>9, <2>10,
       <2>11, <2>12, <2>14, <2>15, <2>16, <2>17, <2>18 DEF PairDevice
<1>3. CASE UNCHANGED vars
  BY <1>3 DEF vars, connectionVars, threadVars, historyVars
<1>4. QED
  BY <1>1, <1>2, <1>3 DEF Next

(* Every statement, rollback, dictionary update and restart leaves the     *)
(* tables, the dictionaries and the threads' locals well formed.           *)
THEOREM TypeCorrect == Spec => []TypeOK
<1>1. Init => TypeOK
  BY EmptyDatabaseType, LoadType DEF Init, TypeOK, Steps
<1>2. QED
  BY <1>1, TypeInductive, PTL DEF Spec

-----------------------------------------------------------------------------
(* The tables: a row is stored under its own key, and no two rows hold the *)
(* same verifier.                                                          *)
RowsWellKeyed(db) ==
  /\ \A pk \in PairKeys : db.pairings[pk] # None => KeyOf(db.pairings[pk].pairing) = pk
  /\ \A pk, qk \in PairKeys, v \in Verifiers :
       HoldsVerifier(db, pk, v) /\ HoldsVerifier(db, qk, v) => pk = qk

(* The dictionaries: the same, and a thread about to index its token has   *)
(* stored the pairing that the token will name.                            *)
DictionariesWellKeyed ==
  /\ \A pk \in PairKeys :
       registry.pairings[pk] # None => KeyOf(registry.pairings[pk]) = pk
  /\ IndexResolves
  /\ \A t \in Threads : pc[t] = "index" => registry.pairings[KeyOf(req[t])] # None

WellKeyed == RowsWellKeyed(working) /\ RowsWellKeyed(durable) /\ DictionariesWellKeyed

LEMMA LoadWellKeyed ==
  ASSUME NEW db \in Database, RowsWellKeyed(db)
  PROVE  LET reg == Load(db) IN
         /\ \A pk \in PairKeys : reg.pairings[pk] # None => KeyOf(reg.pairings[pk]) = pk
         /\ \A v \in Verifiers : reg.index[v] # None =>
              /\ v \notin db.revoked
              /\ HoldsVerifier(db, reg.index[v], v)
              /\ reg.pairings[reg.index[v]] # None
<1>1. ASSUME NEW pk \in PairKeys, Load(db).pairings[pk] # None
      PROVE  KeyOf(Load(db).pairings[pk]) = pk
  BY <1>1 DEF Load, RowsWellKeyed
<1>2. ASSUME NEW v \in Verifiers, Load(db).index[v] # None
      PROVE  /\ v \notin db.revoked
             /\ HoldsVerifier(db, Load(db).index[v], v)
             /\ Load(db).pairings[Load(db).index[v]] # None
  <2>1. /\ v \notin db.revoked
        /\ \E pk \in PairKeys : HoldsVerifier(db, pk, v)
        /\ Load(db).index[v] = CHOOSE pk \in PairKeys : HoldsVerifier(db, pk, v)
    BY <1>2 DEF Load
  <2>2. Load(db).index[v] \in PairKeys /\ HoldsVerifier(db, Load(db).index[v], v)
    BY <2>1
  <2>3. db.pairings[Load(db).index[v]] \in Row
    BY <2>2 DEF HoldsVerifier, Database
  <2>4. Load(db).pairings[Load(db).index[v]] = db.pairings[Load(db).index[v]].pairing
    BY <2>2 DEF Load, HoldsVerifier
  <2>5. QED
    BY <2>1, <2>2, <2>3, <2>4, NoneAssumption DEF Row
<1>3. QED
  BY <1>1, <1>2

(* INSERT OR REPLACE keeps the rows under their keys and the tokens        *)
(* unique, whatever rows the new one displaces.                            *)
LEMMA ReplaceWellKeyed ==
  ASSUME NEW db \in Database, RowsWellKeyed(db), NEW r \in PairRequests,
         NEW new \in Database, new.pairings = ReplacePairing(db.pairings, r)
  PROVE  RowsWellKeyed(new)
<1>1. \A pk \in PairKeys :
        new.pairings[pk] =
          IF pk = KeyOf(r) THEN [verifier |-> Verifier(r.token), pairing |-> PairingOf(r)]
          ELSE IF db.pairings[pk] # None /\ db.pairings[pk].verifier = Verifier(r.token)
          THEN None ELSE db.pairings[pk]
  BY DEF ReplacePairing
<1>2. KeyOf(PairingOf(r)) = KeyOf(r)
  BY DEF KeyOf, PairingOf
<1>3. QED
  BY <1>1, <1>2 DEF RowsWellKeyed, HoldsVerifier

LEMMA WellKeyedInductive == TypeOK /\ WellKeyed /\ [Next]_vars => WellKeyed'
<1> SUFFICES ASSUME TypeOK, WellKeyed, [Next]_vars PROVE WellKeyed'
  OBVIOUS
<1> USE DEF WellKeyed
<1>1. CASE Restart
  <2>1. registry' = Load(durable) /\ durable \in Database
    BY <1>1 DEF Restart, TypeOK
  <2>2. DictionariesWellKeyed'
    BY <1>1, <2>1, LoadWellKeyed DEF Restart, DictionariesWellKeyed, IndexResolves
  <2>3. QED
    BY <1>1, <2>2 DEF Restart, Rollback
<1>2. ASSUME NEW t \in Threads, PairDevice(t) PROVE WellKeyed'
  <2>0. pc[t] # "idle" => req[t] \in PairRequests
    BY DEF TypeOK
  <2>1. ASSUME UNCHANGED registry, pc' = [pc EXCEPT ![t] = pc'[t]], pc'[t] # "index",
               req' = [req EXCEPT ![t] = req'[t]]
        PROVE  DictionariesWellKeyed'
    BY <2>1 DEF DictionariesWellKeyed, IndexResolves, TypeOK
  <2>2. ASSUME working'.pairings = working.pairings, UNCHANGED durable
        PROVE  RowsWellKeyed(working)' /\ RowsWellKeyed(durable)'
    BY <2>2 DEF RowsWellKeyed, HoldsVerifier
  <2> USE DEF Goto, connectionVars, historyVars
  <2>3. ASSUME NEW r \in PairRequests, Lookup(t, r) PROVE WellKeyed'
    BY <2>3, <2>1, <2>2 DEF Lookup, TypeOK
  <2>4. CASE CollectStale(t)
    BY <2>4, <2>1, <2>2 DEF CollectStale, TypeOK
  <2>5. CASE PersistRevoked(t)
    BY <2>5, <2>1, <2>2 DEF PersistRevoked, Execute, TypeOK, Database
  <2>6. CASE PersistDevice(t)
    BY <2>6, <2>1, <2>2 DEF PersistDevice, Execute, TypeOK, Database
  <2>7. CASE PersistAgentMachine(t)
    BY <2>7, <2>1, <2>2 DEF PersistAgentMachine, Execute, TypeOK, Database
  <2>8. CASE PersistBinding(t)
    BY <2>8, <2>1, <2>2 DEF PersistBinding, Execute, TypeOK, Database
  <2>9. CASE PersistPairing(t)
    <3>1. DictionariesWellKeyed'
      BY <2>9, <2>1 DEF PersistPairing, TypeOK
    <3>2. /\ working' = [working EXCEPT !.pairings = ReplacePairing(@, req[t])]
          /\ working \in Database /\ req[t] \in PairRequests
      BY <2>9, <2>0 DEF PersistPairing, Execute, TypeOK
    <3>3. working' \in Database /\ working'.pairings = ReplacePairing(working.pairings, req[t])
      BY <3>2, ReplacePairingType DEF Database
    <3>4. RowsWellKeyed(working')
      BY <3>2, <3>3, ReplaceWellKeyed
    <3>5. QED
      BY <2>9, <3>1, <3>4 DEF PersistPairing, Execute, RowsWellKeyed
  <2>10. CASE CommitPairing(t)
    BY <2>10, <2>1 DEF CommitPairing, CommitBy, Commit, TypeOK
  <2>11. CASE WriteFails(t)
    BY <2>11, <2>1 DEF WriteFails, Rollback, Finish, TypeOK
  <2>16. CASE ScanBreaks(t)
    BY <2>16, <2>1, <2>2 DEF ScanBreaks, Finish, TypeOK
  <2>12. CASE Invalidate(t)
    BY <2>12, <2>1, <2>2 DEF Invalidate, TypeOK
  <2>18. CASE RemoveToken(t)
    <3>1. \A v \in Verifiers : registry'.index[v] \in {None, registry.index[v]}
      BY <2>18 DEF RemoveToken, TypeOK, Registry
    <3>2. registry'.pairings = registry.pairings
      BY <2>18 DEF RemoveToken, TypeOK, Registry
    <3>3. \A u \in Threads : pc'[u] = "index" => pc[u] = "index" /\ req'[u] = req[u]
      BY <2>18 DEF RemoveToken, TypeOK
    <3>4. DictionariesWellKeyed'
      BY <3>1, <3>2, <3>3 DEF DictionariesWellKeyed, IndexResolves
    <3>5. QED
      BY <2>18, <2>2, <3>4 DEF RemoveToken
  <2>19. CASE RemoveFails(t)
    BY <2>19, <2>1, <2>2 DEF RemoveFails, Finish, TypeOK
  <2>20. CASE TombstoneToken(t)
    <3>1. registry'.index = registry.index /\ registry'.pairings = registry.pairings
      BY <2>20 DEF TombstoneToken, TypeOK, Registry
    <3>2. \A u \in Threads : pc'[u] = "index" => pc[u] = "index" /\ req'[u] = req[u]
      BY <2>20 DEF TombstoneToken, TypeOK
    <3>3. DictionariesWellKeyed'
      BY <3>1, <3>2 DEF DictionariesWellKeyed, IndexResolves
    <3>4. QED
      BY <2>20, <2>2, <3>3 DEF TombstoneToken
  <2>13. CASE Publish(t)
    <3>1. /\ registry'.pairings = [registry.pairings EXCEPT ![KeyOf(req[t])] = PairingOf(req[t])]
          /\ registry'.index = registry.index
          /\ registry.pairings \in [PairKeys -> Pairing \union {None}]
          /\ registry.index \in [Verifiers -> PairKeys \union {None}]
      BY <2>13 DEF Publish, TypeOK, Registry
    <3>2. /\ KeyOf(req[t]) \in PairKeys
          /\ PairingOf(req[t]) \in Pairing
          /\ KeyOf(PairingOf(req[t])) = KeyOf(req[t])
      BY <2>13, <2>0, RequestFields DEF Publish, KeyOf, PairingOf
    <3>3. \A u \in Threads : pc'[u] = "index" => (pc[u] = "index" \/ u = t) /\ req'[u] = req[u]
      BY <2>13 DEF Publish, TypeOK
    <3>4. \A pk \in PairKeys :
            /\ registry'.pairings[pk] # None => KeyOf(registry'.pairings[pk]) = pk
            /\ registry.pairings[pk] # None => registry'.pairings[pk] # None
      BY <3>1, <3>2, NoneAssumption DEF DictionariesWellKeyed
    <3>5. registry'.pairings[KeyOf(req[t])] # None
      BY <3>1, <3>2, NoneAssumption
    <3>6. \A u \in Threads : pc[u] = "index" => KeyOf(req[u]) \in PairKeys
      BY RequestFields DEF TypeOK
    <3>7. DictionariesWellKeyed'
      BY <3>1, <3>3, <3>4, <3>5, <3>6 DEF DictionariesWellKeyed, IndexResolves
    <3>8. QED
      BY <2>13, <2>2, <3>7 DEF Publish
  <2>14. CASE IndexToken(t)
    <3>1. /\ registry'.pairings = registry.pairings
          /\ \A v \in Verifiers : registry'.index[v] \in {registry.index[v], KeyOf(req[t])}
      BY <2>14 DEF IndexToken, TypeOK, Registry
    <3>2. \A u \in Threads : pc'[u] = "index" => pc[u] = "index" /\ req'[u] = req[u]
      BY <2>14 DEF IndexToken, TypeOK
    <3>3. DictionariesWellKeyed'
      BY <2>14, <3>1, <3>2 DEF DictionariesWellKeyed, IndexResolves, IndexToken
    <3>4. QED
      BY <2>14, <2>2, <3>3 DEF IndexToken
  <2>17. CASE Notify(t)
    BY <2>17, <2>1 DEF Notify, CommitBy, Commit, Finish, TypeOK
  <2>15. QED
    BY <1>2, <2>3, <2>4, <2>5, <2>6, <2>7, <2>8, <2>9, <2>10, <2>11, <2>12,
       <2>13, <2>14, <2>16, <2>17, <2>18, <2>19, <2>20 DEF PairDevice
<1>3. CASE UNCHANGED vars
  BY <1>3 DEF vars, connectionVars, threadVars, RowsWellKeyed, HoldsVerifier,
     DictionariesWellKeyed, IndexResolves
<1>4. QED
  BY <1>1, <1>2, <1>3 DEF Next

(* In the tables and in the dictionaries alike, a row is stored under the  *)
(* key of its own device and request.                                      *)
THEOREM WellKeyedCorrect == Spec => []WellKeyed
<1>1. Init => WellKeyed
  <2> SUFFICES ASSUME Init PROVE WellKeyed
    OBVIOUS
  <2>1. RowsWellKeyed(EmptyDatabase)
    BY DEF RowsWellKeyed, EmptyDatabase, HoldsVerifier
  <2>2. DictionariesWellKeyed
    BY <2>1, EmptyDatabaseType, LoadWellKeyed DEF Init, DictionariesWellKeyed, IndexResolves
  <2>3. QED
    BY <2>1, <2>2 DEF Init, WellKeyed
<1>2. QED
  BY <1>1, WellKeyedInductive, TypeCorrect, PTL DEF Spec

(* Whatever overlaps, fails or restarts, a token found in the index always *)
(* leads to a stored pairing: authentication never meets a missing one.    *)
THEOREM IndexAlwaysResolves == Spec => []IndexResolves
<1>1. WellKeyed => IndexResolves
  BY DEF WellKeyed, DictionariesWellKeyed
<1>2. QED
  BY <1>1, WellKeyedCorrect, PTL

-----------------------------------------------------------------------------
(* What is asked of the clients: requests of one device do not overlap,    *)
(* and while a device is being paired no other one presents a token of its *)
(* own.  (One that it has just lost is in neither dictionary for a moment, *)
(* and would be let in.)                                                   *)
Presents(d, v) == \E r \in PairRequests : r.device = d /\ Verifier(r.token) = v
CarefulClients ==
  \A p \in Overlaps :
    p[1].device # p[2].device /\ ~Presents(p[1].device, Verifier(p[2].token))

(* The verifiers that a start from db would let authenticate d.            *)
Live(db, d) ==
  {v \in Verifiers : v \notin db.revoked /\ \E k \in Keys : HoldsVerifier(db, <<d, k>>, v)}

Busy(t) == pc[t] # "idle"

Exclusive ==
  \A t, u \in Threads : t # u /\ Busy(t) /\ Busy(u) =>
    /\ req[t].device # req[u].device
    /\ req[t].token # req[u].token

(* A token is in no dictionary until the request that brings it is done.   *)
TokenUnused ==
  \A t \in Threads : pc[t] \notin {"idle", "notify"} =>
    registry.index[Verifier(req[t].token)] = None

(* What is left of a device's tokens while they are removed is what the    *)
(* request still has to remove, and nothing until the new one is indexed.  *)
Emptied ==
  \A t \in Threads :
    /\ pc[t] \in {"remove", "tombstone"} => VerifiersFor(registry, req[t].device) = stale[t]
    /\ pc[t] = "index" => VerifiersFor(registry, req[t].device) = {}

PartedOpen == \A t \in parted : pc[t] \in InTransaction

Apart == Exclusive /\ TokenUnused /\ Emptied /\ PartedOpen

(* How far the pairing that t serves has got with its device's tokens.     *)
Progress(t) ==
  LET d == req[t].device IN
  /\ pc[t] \in {"collect", "notify"} => Live(working, d) \subseteq VerifiersFor(registry, d)
  /\ pc[t] = "revoke" => Live(working, d) \subseteq stale[t] \cap VerifiersFor(registry, d)
  /\ pc[t] \in {"machine", "binding", "pairing"} => Live(working, d) = {}
  /\ pc[t] \in {"commit", "invalidate", "remove", "tombstone", "index"} =>
       Live(working, d) \subseteq {Verifier(req[t].token)}

Unserved(d) == \A t \in Threads : Busy(t) => req[t].device # d

OneInRegistry ==
  \A d \in Devices, v, w \in Verifiers : {v, w} \subseteq VerifiersFor(registry, d) => v = w
OneDurable ==
  \A d \in Devices, v, w \in Verifiers : {v, w} \subseteq Live(durable, d) => v = w

ServedDevices == \A t \in Threads : Busy(t) => Progress(t)
UnservedDevices ==
  \A d \in Devices : Unserved(d) => Live(working, d) \subseteq VerifiersFor(registry, d)

TokensInv == ServedDevices /\ UnservedDevices /\ OneInRegistry /\ OneDurable

(* What a rollback restores is what the dictionaries say, but for the      *)
(* pairings that are committed and not in them yet and for those that      *)
(* another request's commit has cut in two.                                *)
Restores(t) ==
  LET d == req[t].device IN
  /\ pc[t] \in InTransaction \union {"collect", "notify"} /\ t \notin parted =>
       Live(durable, d) \subseteq VerifiersFor(registry, d)
  /\ pc[t] \in {"invalidate", "remove", "tombstone", "index"} =>
       Live(durable, d) \subseteq {Verifier(req[t].token)}

Restorable ==
  /\ \A t \in Threads : Busy(t) => Restores(t)
  /\ \A d \in Devices : Unserved(d) => Live(durable, d) \subseteq VerifiersFor(registry, d)

(* A failed request has taken statements of another one with it, or has    *)
(* left a part of its own in the tables.                                   *)
Disturbed == torn \/ halved

(* The verifiers a start lets authenticate d are the live ones of its rows.*)
LEMMA LiveIsRestarted ==
  ASSUME NEW db \in Database, RowsWellKeyed(db), NEW d \in Devices
  PROVE  VerifiersFor(Load(db), d) = Live(db, d)
<1>1. ASSUME NEW v \in VerifiersFor(Load(db), d) PROVE v \in Live(db, d)
  <2> DEFINE pk == Load(db).index[v]
  <2>1. /\ v \in Verifiers /\ pk # None
        /\ Load(db).pairings[pk].device = d
    BY DEF VerifiersFor
  <2>2. pk \in PairKeys
    BY <2>1, LoadType DEF Registry
  <2>3. /\ v \notin db.revoked /\ HoldsVerifier(db, pk, v)
        /\ KeyOf(Load(db).pairings[pk]) = pk
    BY <2>1, <2>2, LoadWellKeyed
  <2>4. pk[1] = d /\ pk = <<pk[1], pk[2]>> /\ pk[2] \in Keys
    BY <2>1, <2>2, <2>3 DEF KeyOf, PairKeys
  <2>5. QED
    BY <2>1, <2>3, <2>4 DEF Live
<1>2. ASSUME NEW v \in Live(db, d) PROVE v \in VerifiersFor(Load(db), d)
  <2>1. PICK k \in Keys : HoldsVerifier(db, <<d, k>>, v)
    BY DEF Live
  <2>2. v \in Verifiers /\ v \notin db.revoked /\ <<d, k>> \in PairKeys
    BY DEF Live, PairKeys
  <2>3. Load(db).index[v] = CHOOSE pk \in PairKeys : HoldsVerifier(db, pk, v)
    BY <2>1, <2>2 DEF Load
  <2>4. \A pk \in PairKeys : HoldsVerifier(db, pk, v) => pk = <<d, k>>
    BY <2>1, <2>2 DEF RowsWellKeyed
  <2>5. Load(db).index[v] = <<d, k>>
    BY <2>1, <2>2, <2>3, <2>4
  <2>6. Load(db).index[v] # None
    BY <2>2, <2>5, NoneAssumption
  <2>7. KeyOf(Load(db).pairings[<<d, k>>]) = <<d, k>>
    BY <2>2, <2>5, <2>6, LoadWellKeyed
  <2>8. Load(db).pairings[<<d, k>>].device = d
    BY <2>7 DEF KeyOf
  <2>9. QED
    BY <2>2, <2>5, <2>6, <2>8 DEF VerifiersFor
<1>3. QED
  BY <1>1, <1>2

(* A new row makes at most its own token live, and only for its device.    *)
LEMMA ReplaceLive ==
  ASSUME NEW db \in Database, NEW r \in PairRequests, NEW d \in Devices,
         NEW new \in Database, new.revoked = db.revoked,
         new.pairings = ReplacePairing(db.pairings, r)
  PROVE  /\ d # r.device => Live(new, d) \subseteq Live(db, d)
         /\ Live(new, d) \subseteq Live(db, d) \union {Verifier(r.token)}
<1> SUFFICES ASSUME NEW v \in Live(new, d)
             PROVE  /\ d # r.device => v \in Live(db, d)
                    /\ v \in Live(db, d) \union {Verifier(r.token)}
  OBVIOUS
<1>1. PICK k \in Keys : HoldsVerifier(new, <<d, k>>, v)
  BY DEF Live
<1>2. /\ <<d, k>> \in PairKeys
      /\ new.pairings[<<d, k>>] =
           IF <<d, k>> = KeyOf(r) THEN [verifier |-> Verifier(r.token), pairing |-> PairingOf(r)]
           ELSE IF db.pairings[<<d, k>>] # None /\ db.pairings[<<d, k>>].verifier = Verifier(r.token)
           THEN None ELSE db.pairings[<<d, k>>]
  BY DEF ReplacePairing, PairKeys
<1>3. CASE <<d, k>> = KeyOf(r)
  BY <1>1, <1>2, <1>3 DEF HoldsVerifier, KeyOf
<1>4. CASE <<d, k>> # KeyOf(r)
  BY <1>1, <1>2, <1>4 DEF HoldsVerifier, Live
<1>5. QED
  BY <1>3, <1>4

LEMMA SameLive ==
  ASSUME NEW db, NEW new, NEW d, new.revoked = db.revoked, new.pairings = db.pairings
  PROVE  Live(new, d) = Live(db, d)
BY DEF Live, HoldsVerifier

(* A step of the thread t that serves the device d, seen from the others.  *)
LEMMA OthersUnmoved ==
  ASSUME TypeOK, Apart, TokensInv, NEW t \in Threads, Busy(t),
         \A u \in Threads \ {t} : pc'[u] = pc[u] /\ req'[u] = req[u] /\ stale'[u] = stale[u],
         pc'[t] # "idle" => req'[t] = req[t],
         \A d \in Devices \ {req[t].device} :
            /\ Live(working', d) \subseteq Live(working, d)
            /\ VerifiersFor(registry', d) = VerifiersFor(registry, d)
  PROVE  /\ \A u \in Threads \ {t} : Busy(u)' => Progress(u)'
         /\ \A d \in Devices \ {req[t].device} :
              Unserved(d)' => Live(working', d) \subseteq VerifiersFor(registry', d)
<1> USE DEF TokensInv, Busy
<1>2. ASSUME NEW u \in Threads \ {t}, Busy(u)' PROVE Progress(u)'
  <2>1. Busy(u) /\ Progress(u)
    BY <1>2 DEF ServedDevices
  <2>2. req[u].device \in Devices \ {req[t].device}
    BY <2>1, RequestFields DEF Apart, Exclusive, TypeOK
  <2>3. QED
    BY <2>1, <2>2 DEF Progress
<1>3. ASSUME NEW d \in Devices \ {req[t].device}, Unserved(d)'
      PROVE  Live(working', d) \subseteq VerifiersFor(registry', d)
  <2>1. Unserved(d)
    BY <1>3 DEF Unserved
  <2>2. QED
    BY <2>1 DEF UnservedDevices
<1>4. QED
  BY <1>2, <1>3

(* Where every device has at most one token live in what is committed.     *)
LEMMA OneWorking ==
  ASSUME TypeOK, TokensInv
  PROVE  \A d \in Devices, v, w \in Verifiers : {v, w} \subseteq Live(working, d) => v = w
<1> SUFFICES ASSUME NEW d \in Devices, NEW v \in Live(working, d), NEW w \in Live(working, d)
             PROVE v = w
  OBVIOUS
<1>0. v \in Verifiers /\ w \in Verifiers
  BY DEF Live
<1>1. CASE Unserved(d)
  BY <1>0, <1>1 DEF TokensInv, UnservedDevices, OneInRegistry
<1>2. CASE ~Unserved(d)
  <2>1. PICK t \in Threads : Busy(t) /\ req[t].device = d
    BY <1>2 DEF Unserved
  <2>2. Progress(t)
    BY <2>1 DEF TokensInv, ServedDevices
  <2>3. pc[t] \in Steps \ {"idle"}
    BY <2>1 DEF TypeOK, Busy
  <2>4. CASE pc[t] \in {"collect", "revoke", "notify"}
    BY <1>0, <2>1, <2>2, <2>4 DEF Progress, TokensInv, OneInRegistry
  <2>5. CASE pc[t] \in {"machine", "binding", "pairing"}
    BY <2>1, <2>2, <2>5 DEF Progress
  <2>6. CASE pc[t] \in {"commit", "invalidate", "remove", "tombstone", "index"}
    BY <2>1, <2>2, <2>6 DEF Progress
  <2>7. QED
    BY <2>3, <2>4, <2>5, <2>6 DEF Steps, InTransaction
<1>3. QED
  BY <1>1, <1>2

(* What the three updates of the dictionaries do to the tokens that        *)
(* authenticate a device.                                                  *)
LEMMA RemoveTokens ==
  ASSUME TypeOK, Apart, NEW t \in Threads, RemoveToken(t)
  PROVE  \E v \in VerifiersFor(registry, req[t].device) :
           /\ v \in Verifiers /\ registry.index[v] # None
           /\ \A w \in Verifiers : registry'.index[w] = IF w = v THEN None ELSE registry.index[w]
           /\ registry'.pairings = registry.pairings /\ registry'.revoked = registry.revoked
           /\ registry'.devices = registry.devices /\ registry'.machines = registry.machines
           /\ registry'.bindings = registry.bindings
           /\ stale'[t] = stale[t] \ {v} /\ removed'[t] = v
           /\ \A u \in Threads \ {t} : stale'[u] = stale[u] /\ removed'[u] = removed[u]
           /\ \A d \in Devices : VerifiersFor(registry', d) = VerifiersFor(registry, d) \ {v}
           /\ \A d \in Devices \ {req[t].device} : VerifiersFor(registry', d) = VerifiersFor(registry, d)
<1>1. PICK v \in stale[t] :
        /\ registry.index[v] # None
        /\ registry' = [registry EXCEPT !.index[v] = None]
        /\ stale' = [stale EXCEPT ![t] = @ \ {v}]
        /\ removed' = [removed EXCEPT ![t] = v]
  BY DEF RemoveToken
<1>2. v \in VerifiersFor(registry, req[t].device)
  BY DEF RemoveToken, Apart, Emptied
<1>3. /\ v \in Verifiers
      /\ \A w \in Verifiers : registry'.index[w] = IF w = v THEN None ELSE registry.index[w]
      /\ registry'.pairings = registry.pairings /\ registry'.revoked = registry.revoked
      /\ registry'.devices = registry.devices /\ registry'.machines = registry.machines
      /\ registry'.bindings = registry.bindings
  BY <1>1 DEF TypeOK, Registry
<1>4. /\ stale'[t] = stale[t] \ {v} /\ removed'[t] = v
      /\ \A u \in Threads \ {t} : stale'[u] = stale[u] /\ removed'[u] = removed[u]
  BY <1>1 DEF TypeOK
<1>5. \A d \in Devices : VerifiersFor(registry', d) = VerifiersFor(registry, d) \ {v}
  BY <1>3 DEF VerifiersFor
<1>6. \A d \in Devices \ {req[t].device} : v \notin VerifiersFor(registry, d)
  BY <1>2 DEF VerifiersFor
<1>7. \A d \in Devices \ {req[t].device} : VerifiersFor(registry', d) = VerifiersFor(registry, d)
  BY <1>5, <1>6
<1>8. QED
  BY <1>1, <1>2, <1>3, <1>4, <1>5, <1>7

LEMMA TombstoneTokens ==
  ASSUME TypeOK, NEW t \in Threads, TombstoneToken(t)
  PROVE  /\ removed[t] \in Verifiers /\ removed'[t] = None
         /\ \A u \in Threads \ {t} : removed'[u] = removed[u]
         /\ registry'.index = registry.index /\ registry'.pairings = registry.pairings
         /\ registry'.devices = registry.devices /\ registry'.machines = registry.machines
         /\ registry'.bindings = registry.bindings
         /\ registry'.revoked = registry.revoked \union {removed[t]}
         /\ \A d \in Devices : VerifiersFor(registry', d) = VerifiersFor(registry, d)
<1>1. /\ removed[t] \in Verifiers /\ removed'[t] = None
      /\ \A u \in Threads \ {t} : removed'[u] = removed[u]
  BY DEF TombstoneToken, TypeOK
<1>2. /\ registry'.index = registry.index /\ registry'.pairings = registry.pairings
      /\ registry'.devices = registry.devices /\ registry'.machines = registry.machines
      /\ registry'.bindings = registry.bindings
      /\ registry'.revoked = registry.revoked \union {removed[t]}
  BY DEF TombstoneToken, TypeOK, Registry
<1>3. \A d \in Devices : VerifiersFor(registry', d) = VerifiersFor(registry, d)
  BY <1>2 DEF VerifiersFor
<1>4. QED
  BY <1>1, <1>2, <1>3

LEMMA PublishTokens ==
  ASSUME TypeOK, WellKeyed, NEW t \in Threads, Publish(t),
         VerifiersFor(registry, req[t].device) = {}
  PROVE  \A d \in Devices : VerifiersFor(registry', d) = VerifiersFor(registry, d)
<1>0. /\ req[t] \in PairRequests /\ KeyOf(req[t]) \in PairKeys
      /\ KeyOf(req[t]) = <<req[t].device, req[t].key>>
  BY RequestFields DEF TypeOK, Publish, KeyOf
<1>1. /\ registry'.index = registry.index
      /\ registry.index \in [Verifiers -> PairKeys \union {None}]
      /\ \A pk \in PairKeys : registry'.pairings[pk] =
           IF pk = KeyOf(req[t]) THEN PairingOf(req[t]) ELSE registry.pairings[pk]
  BY <1>0 DEF Publish, TypeOK, Registry
<1>2. \A v \in Verifiers : registry.index[v] # None =>
        /\ registry.index[v] \in PairKeys
        /\ registry.pairings[registry.index[v]] # None
        /\ KeyOf(registry.pairings[registry.index[v]]) = registry.index[v]
  BY <1>1 DEF WellKeyed, DictionariesWellKeyed, IndexResolves
<1>3. \A v \in Verifiers : registry.index[v] # KeyOf(req[t])
  BY <1>0, <1>2, NoneAssumption DEF VerifiersFor, KeyOf
<1>4. QED
  BY <1>1, <1>2, <1>3 DEF VerifiersFor

LEMMA IndexTokens ==
  ASSUME TypeOK, WellKeyed, NEW t \in Threads, IndexToken(t),
         VerifiersFor(registry, req[t].device) = {},
         registry.index[Verifier(req[t].token)] = None
  PROVE  \A d \in Devices :
           VerifiersFor(registry', d) = IF d = req[t].device THEN {Verifier(req[t].token)}
                                        ELSE VerifiersFor(registry, d)
<1> DEFINE D == req[t].device
           V == Verifier(req[t].token)
<1>0. /\ req[t] \in PairRequests /\ V \in Verifiers /\ KeyOf(req[t]) \in PairKeys
  BY RequestFields DEF TypeOK, IndexToken
<1>1. /\ registry'.pairings = registry.pairings
      /\ \A v \in Verifiers : registry'.index[v] = IF v = V THEN KeyOf(req[t]) ELSE registry.index[v]
  BY <1>0 DEF IndexToken, TypeOK, Registry
<1>2. /\ registry.pairings[KeyOf(req[t])] # None
      /\ registry.pairings[KeyOf(req[t])].device = D
  BY <1>0 DEF IndexToken, WellKeyed, DictionariesWellKeyed, KeyOf
<1>3. KeyOf(req[t]) # None
  BY <1>0, NoneAssumption
<1>4. VerifiersFor(registry', D) = {V}
  BY <1>0, <1>1, <1>2, <1>3 DEF VerifiersFor
<1>5. \A d \in Devices \ {D} : VerifiersFor(registry', d) = VerifiersFor(registry, d)
  BY <1>0, <1>1, <1>2, <1>3 DEF VerifiersFor
<1>6. QED
  BY <1>4, <1>5

(* A request finds each of its device's tokens still there to be removed.  *)
LEMMA RemoveNeverFails ==
  ASSUME Apart, NEW t \in Threads
  PROVE  ~RemoveFails(t)
BY DEF Apart, Emptied, RemoveFails, VerifiersFor

LEMMA ApartInductive ==
  ASSUME CarefulClients
  PROVE  TypeOK /\ WellKeyed /\ Apart /\ [Next]_vars => Apart'
<1> SUFFICES ASSUME TypeOK, WellKeyed, Apart, [Next]_vars PROVE Apart'
  OBVIOUS
<1> USE DEF Busy
<1>1. CASE Restart
  BY <1>1 DEF Restart, Apart, Exclusive, TokenUnused, Emptied, PartedOpen
<1>2. ASSUME NEW t \in Threads, NEW r \in PairRequests, Lookup(t, r) PROVE Apart'
  <2>1. /\ pc[t] = "idle" /\ pc'[t] = "collect" /\ req'[t] = r
        /\ \A u \in Threads \ {t} : pc'[u] = pc[u] /\ req'[u] = req[u]
        /\ UNCHANGED <<registry, stale, parted>>
    BY <1>2 DEF Lookup, Goto, TypeOK, historyVars
  <2>2. \A u \in Threads : Busy(u) => req[u].device # r.device /\ req[u].token # r.token
    <3> SUFFICES ASSUME NEW u \in Threads, Busy(u)
                 PROVE  req[u].device # r.device /\ req[u].token # r.token
      OBVIOUS
    <3>1. <<req[u], r>> \in Overlaps /\ req[u] \in PairRequests
      BY <1>2 DEF Lookup, TypeOK
    <3>2. req[u].device # r.device /\ ~Presents(req[u].device, Verifier(r.token))
      BY <3>1 DEF CarefulClients
    <3>3. QED
      BY <3>1, <3>2 DEF Presents
  <2>3. Exclusive'
    BY <2>1, <2>2 DEF Exclusive, Apart
  <2>4. TokenUnused'
    BY <1>2, <2>1 DEF Lookup, NotYetUsed, TokenUnused, Apart
  <2>5. Emptied' /\ PartedOpen'
    BY <2>1 DEF Emptied, PartedOpen, Apart, TypeOK, InTransaction
  <2>6. QED
    BY <2>3, <2>4, <2>5 DEF Apart
<1>3. ASSUME NEW t \in Threads, Busy(t), PairDevice(t),
             \A r \in PairRequests : ~Lookup(t, r)
      PROVE  Apart'
  <2> DEFINE D == req[t].device
             V == Verifier(req[t].token)
  <2>0. /\ req[t] \in PairRequests /\ D \in Devices /\ V \in Verifiers /\ KeyOf(req[t]) \in PairKeys
        /\ \A u \in Threads : Busy(u) => Verifier(req[u].token) \in Verifiers /\ req[u].device \in Devices
    BY <1>3, RequestFields DEF TypeOK
  <2>e. \A u \in Threads \ {t} : Busy(u) => req[u].device # D /\ Verifier(req[u].token) # V
    BY <1>3 DEF Apart, Exclusive, Verifier
  <2>u. pc[t] # "notify" => registry.index[V] = None
    BY <1>3 DEF Apart, TokenUnused
  <2>1. ASSUME \A u \in Threads \ {t} : pc'[u] = pc[u] /\ req'[u] = req[u],
               pc'[t] # "idle" => req'[t] = req[t],
               TokenUnused', Emptied',
               \A u \in parted' \ {t} : u \in Threads /\ pc[u] \in InTransaction,
               t \in parted' => pc'[t] \in InTransaction
        PROVE  Apart'
    <3>1. Exclusive'
      BY <2>1, <1>3 DEF Apart, Exclusive
    <3>2. PartedOpen'
      BY <2>1 DEF PartedOpen
    <3>3. QED
      BY <2>1, <3>1, <3>2 DEF Apart
  <2>p. \A u \in parted : u \in Threads /\ pc[u] \in InTransaction
    BY DEF Apart, PartedOpen, TypeOK
  (* Steps that leave the dictionaries alone.                              *)
  <2>2. ASSUME UNCHANGED registry,
               \A u \in Threads \ {t} : pc'[u] = pc[u] /\ req'[u] = req[u] /\ stale'[u] = stale[u],
               pc'[t] # "idle" => req'[t] = req[t] /\ pc[t] # "notify",
               pc'[t] \notin {"remove", "tombstone", "index"},
               \A u \in parted' \ {t} : u \in Threads /\ pc[u] \in InTransaction,
               t \in parted' => pc'[t] \in InTransaction
        PROVE  Apart'
    <3>1. TokenUnused' /\ Emptied'
      BY <1>3, <2>2 DEF Apart, TokenUnused, Emptied
    <3>2. QED
      BY <2>1, <2>2, <3>1
  <2>3. CASE CollectStale(t)
    <3>1. /\ pc[t] = "collect" /\ pc'[t] = "revoke" /\ UNCHANGED <<registry, req, parted>>
          /\ \A u \in Threads \ {t} : pc'[u] = pc[u] /\ stale'[u] = stale[u]
      BY <2>3 DEF CollectStale, Goto, TypeOK, historyVars
    <3>2. QED
      BY <2>2, <2>p, <3>1 DEF InTransaction
  <2>4. CASE PersistRevoked(t) \/ PersistDevice(t) \/ PersistAgentMachine(t) \/ PersistBinding(t)
             \/ PersistPairing(t)
    <3>1. /\ pc[t] \in InTransaction /\ pc'[t] \in InTransaction /\ UNCHANGED <<registry, req, parted>>
          /\ \A u \in Threads \ {t} : pc'[u] = pc[u] /\ stale'[u] = stale[u]
      BY <2>4 DEF PersistRevoked, PersistDevice, PersistAgentMachine, PersistBinding, PersistPairing,
         Goto, TypeOK, historyVars, InTransaction
    <3>2. QED
      BY <2>2, <2>p, <3>1 DEF InTransaction
  <2>5. CASE CommitPairing(t)
    <3>1. /\ pc[t] = "commit" /\ pc'[t] = "invalidate" /\ UNCHANGED <<registry, req>>
          /\ parted' = Others(t) /\ \A u \in Threads \ {t} : pc'[u] = pc[u] /\ stale'[u] = stale[u]
      BY <2>5 DEF CommitPairing, CommitBy, Goto, TypeOK
    <3>2. QED
      BY <2>2, <3>1 DEF Others
  <2>6. CASE Notify(t)
    <3>1. /\ pc[t] = "notify" /\ pc'[t] = "idle" /\ UNCHANGED registry /\ parted' = Others(t)
          /\ \A u \in Threads \ {t} : pc'[u] = pc[u] /\ req'[u] = req[u] /\ stale'[u] = stale[u]
      BY <2>6 DEF Notify, CommitBy, Finish, Goto, TypeOK
    <3>2. QED
      BY <2>2, <3>1 DEF Others
  <2>7. CASE WriteFails(t)
    <3>1. /\ pc'[t] = "idle" /\ UNCHANGED registry /\ parted' = parted \ {t}
          /\ \A u \in Threads \ {t} : pc'[u] = pc[u] /\ req'[u] = req[u] /\ stale'[u] = stale[u]
      BY <2>7 DEF WriteFails, Finish, Goto, TypeOK
    <3>2. QED
      BY <2>2, <2>p, <3>1
  <2>8. CASE ScanBreaks(t)
    <3>1. /\ pc[t] \in {"collect", "invalidate"} /\ pc'[t] = "idle" /\ UNCHANGED <<registry, parted>>
          /\ \A u \in Threads \ {t} : pc'[u] = pc[u] /\ req'[u] = req[u] /\ stale'[u] = stale[u]
      BY <2>8 DEF ScanBreaks, Finish, Goto, TypeOK
    <3>2. t \notin parted
      BY <2>p, <3>1 DEF InTransaction
    <3>3. QED
      BY <2>2, <2>p, <3>1, <3>2
  (* The dictionaries.                                                     *)
  <2>9. CASE Invalidate(t)
    <3>1. /\ UNCHANGED <<registry, req, parted>> /\ pc[t] = "invalidate" /\ pc'[t] = "remove"
          /\ stale'[t] = VerifiersFor(registry, D)
          /\ \A u \in Threads \ {t} : pc'[u] = pc[u] /\ stale'[u] = stale[u]
      BY <2>9 DEF Invalidate, Goto, TypeOK, historyVars
    <3>2. TokenUnused' /\ Emptied'
      BY <3>1 DEF Apart, TokenUnused, Emptied
    <3>3. QED
      BY <2>1, <2>p, <3>1, <3>2 DEF InTransaction
  <2>13. CASE RemoveToken(t)
    <3>1. /\ UNCHANGED <<req, parted>> /\ pc[t] = "remove" /\ pc'[t] = "tombstone"
          /\ \A u \in Threads \ {t} : pc'[u] = pc[u]
      BY <2>13 DEF RemoveToken, Goto, TypeOK, historyVars
    <3>2. PICK v \in VerifiersFor(registry, D) :
            /\ \A w \in Verifiers : registry'.index[w] = IF w = v THEN None ELSE registry.index[w]
            /\ stale'[t] = stale[t] \ {v}
            /\ \A u \in Threads \ {t} : stale'[u] = stale[u]
            /\ \A d \in Devices : VerifiersFor(registry', d) = VerifiersFor(registry, d) \ {v}
            /\ \A d \in Devices \ {D} : VerifiersFor(registry', d) = VerifiersFor(registry, d)
      BY <2>13, RemoveTokens
    <3>3. TokenUnused'
      BY <2>0, <3>1, <3>2 DEF Apart, TokenUnused
    <3>4. Emptied'
      <4>1. ASSUME NEW u \in Threads \ {t}, pc[u] # "idle"
            PROVE  VerifiersFor(registry', req[u].device) = VerifiersFor(registry, req[u].device)
        BY <2>0, <2>e, <3>2, <4>1
      <4>2. VerifiersFor(registry', D) = stale'[t]
        BY <2>0, <3>1, <3>2 DEF Apart, Emptied
      <4>3. QED
        BY <3>1, <3>2, <4>1, <4>2 DEF Apart, Emptied
    <3>5. QED
      BY <2>1, <2>p, <3>1, <3>3, <3>4 DEF InTransaction
  <2>14. CASE RemoveFails(t)
    BY <2>14, RemoveNeverFails
  <2>15. CASE TombstoneToken(t)
    <3>1. /\ UNCHANGED <<req, stale, parted>> /\ pc[t] = "tombstone" /\ pc'[t] = "remove"
          /\ \A u \in Threads \ {t} : pc'[u] = pc[u]
      BY <2>15 DEF TombstoneToken, Goto, TypeOK, historyVars
    <3>2. /\ registry'.index = registry.index
          /\ \A d \in Devices : VerifiersFor(registry', d) = VerifiersFor(registry, d)
      BY <2>15, TombstoneTokens
    <3>3. TokenUnused' /\ Emptied'
      BY <1>3, <2>0, <3>1, <3>2 DEF Apart, TokenUnused, Emptied
    <3>4. QED
      BY <2>1, <2>p, <3>1, <3>3 DEF InTransaction
  <2>10. CASE Publish(t)
    <3>1. /\ UNCHANGED <<req, stale, parted>> /\ pc[t] = "remove" /\ pc'[t] = "index" /\ stale[t] = {}
          /\ \A u \in Threads \ {t} : pc'[u] = pc[u]
          /\ registry'.index = registry.index
      BY <2>0, <2>10 DEF Publish, Goto, TypeOK, Registry, historyVars
    <3>2. VerifiersFor(registry, D) = {}
      BY <3>1 DEF Apart, Emptied
    <3>3. \A d \in Devices : VerifiersFor(registry', d) = VerifiersFor(registry, d)
      BY <2>10, <3>2, PublishTokens
    <3>4. TokenUnused'
      BY <1>3, <3>1 DEF Apart, TokenUnused
    <3>5. Emptied'
      BY <2>0, <3>1, <3>2, <3>3 DEF Apart, Emptied
    <3>6. QED
      BY <2>1, <2>p, <3>1, <3>4, <3>5 DEF InTransaction
  <2>11. CASE IndexToken(t)
    <3>1. /\ UNCHANGED <<req, stale, parted>> /\ pc[t] = "index" /\ pc'[t] = "notify"
          /\ \A u \in Threads \ {t} : pc'[u] = pc[u]
          /\ \A v \in Verifiers : registry'.index[v] = IF v = V THEN KeyOf(req[t]) ELSE registry.index[v]
      BY <2>0, <2>11 DEF IndexToken, Goto, TypeOK, Registry
    <3>2. VerifiersFor(registry, D) = {}
      BY <3>1 DEF Apart, Emptied
    <3>3. \A d \in Devices :
            VerifiersFor(registry', d) = IF d = D THEN {V} ELSE VerifiersFor(registry, d)
      BY <2>11, <2>u, <3>1, <3>2, IndexTokens
    <3>4. TokenUnused'
      BY <2>0, <2>e, <3>1 DEF Apart, TokenUnused
    <3>5. Emptied'
      BY <2>0, <2>e, <3>1, <3>3 DEF Apart, Emptied
    <3>6. QED
      BY <2>1, <2>p, <3>1, <3>4, <3>5 DEF InTransaction
  <2>12. QED
    BY <1>3, <2>3, <2>4, <2>5, <2>6, <2>7, <2>8, <2>9, <2>10, <2>11,
       <2>13, <2>14, <2>15 DEF PairDevice
<1>4. CASE UNCHANGED vars
  BY <1>4 DEF vars, threadVars, historyVars, Apart, Exclusive, TokenUnused, Emptied, PartedOpen
<1>5. ASSUME NEW t \in Threads, PairDevice(t), ~Busy(t), \A r \in PairRequests : ~Lookup(t, r)
      PROVE  FALSE
  BY <1>5 DEF PairDevice, CollectStale, PersistRevoked, PersistDevice, PersistAgentMachine,
     PersistBinding, PersistPairing, CommitPairing, WriteFails, ScanBreaks, Invalidate, RemoveToken, RemoveFails,
     TombstoneToken, Publish, IndexToken,
     Notify, InTransaction
<1>6. QED
  BY <1>1, <1>2, <1>3, <1>4, <1>5 DEF Next

LEMMA ApartCorrect ==
  ASSUME CarefulClients
  PROVE  Spec => []Apart
<1>1. Init => Apart
  BY DEF Init, Apart, Exclusive, TokenUnused, Emptied, PartedOpen, Busy
<1>2. QED
  BY <1>1, ApartInductive, TypeCorrect, WellKeyedCorrect, PTL DEF Spec

(* No step undoes the disturbance, whatever it was.                        *)
LEMMA DisturbedStays == [Next]_vars => (torn => torn') /\ (Disturbed => Disturbed')
<1> SUFFICES ASSUME [Next]_vars PROVE (torn => torn') /\ (Disturbed => Disturbed')
  OBVIOUS
<1>1. ASSUME NEW t \in Threads, PairDevice(t) PROVE (torn => torn') /\ (halved => halved')
  <2>1. CASE WriteFails(t)
    BY <2>1 DEF WriteFails
  <2>2. CASE ScanBreaks(t)
    BY <2>2 DEF ScanBreaks
  <2>3. CASE CommitPairing(t) \/ Notify(t)
    BY <2>3 DEF CommitPairing, Notify, CommitBy
  <2>4. CASE IndexToken(t)
    BY <2>4 DEF IndexToken
  <2>5. CASE RemoveFails(t)
    BY <2>5 DEF RemoveFails
  <2>l. CASE \E r \in PairRequests : Lookup(t, r)
    BY <2>l DEF Lookup
  <2>6. ASSUME ~WriteFails(t), ~ScanBreaks(t), ~CommitPairing(t), ~Notify(t), ~IndexToken(t),
               ~RemoveFails(t), ~\E r \in PairRequests : Lookup(t, r)
        PROVE  UNCHANGED historyVars
    BY <1>1, <2>6 DEF PairDevice, CollectStale, PersistRevoked, PersistDevice,
       PersistAgentMachine, PersistBinding, PersistPairing, Invalidate, RemoveToken,
       TombstoneToken, Publish
  <2>7. QED
    BY <2>1, <2>2, <2>3, <2>4, <2>5, <2>6, <2>l DEF historyVars
<1>2. QED
  BY <1>1 DEF Next, Restart, vars, historyVars, Disturbed

LEMMA TokensInductive ==
  ASSUME CarefulClients
  PROVE  TypeOK /\ WellKeyed /\ Apart /\ TokensInv /\ Restorable /\ [Next]_vars /\ ~Disturbed'
           => TokensInv'
<1> SUFFICES ASSUME TypeOK, WellKeyed, Apart, TokensInv, Restorable, [Next]_vars, ~Disturbed'
             PROVE  TokensInv'
  OBVIOUS
<1>t. TypeOK'
  BY TypeInductive
<1> USE DEF Busy
<1>1. CASE Restart
  <2>1. /\ working' = durable /\ durable' = durable
        /\ registry' = Load(durable)
        /\ \A t \in Threads : pc'[t] = "idle"
    BY <1>1 DEF Restart, Rollback, TypeOK
  <2>2. \A d \in Devices : VerifiersFor(registry', d) = Live(durable, d)
    BY <2>1, LiveIsRestarted DEF TypeOK, WellKeyed
  <2>3. ServedDevices'
    BY <2>1 DEF ServedDevices
  <2>4. UnservedDevices' /\ OneInRegistry' /\ OneDurable'
    BY <2>1, <2>2 DEF UnservedDevices, OneInRegistry, OneDurable, TokensInv
  <2>5. QED
    BY <2>3, <2>4 DEF TokensInv
<1>2. ASSUME NEW t \in Threads, NEW r \in PairRequests, Lookup(t, r) PROVE TokensInv'
  <2>1. /\ pc[t] = "idle" /\ pc'[t] = "collect" /\ req'[t] = r
        /\ \A u \in Threads \ {t} : pc'[u] = pc[u] /\ req'[u] = req[u] /\ stale'[u] = stale[u]
        /\ UNCHANGED <<working, durable, registry>>
    BY <1>2 DEF Lookup, Goto, TypeOK, connectionVars
  <2>2. Unserved(r.device)
    <3> SUFFICES ASSUME NEW u \in Threads, Busy(u) PROVE req[u].device # r.device
      BY DEF Unserved
    <3>1. <<req[u], r>> \in Overlaps
      BY <1>2 DEF Lookup
    <3>2. QED
      BY <3>1 DEF CarefulClients
  <2>3. ServedDevices'
    <3>1. ASSUME NEW u \in Threads \ {t}, Busy(u)' PROVE Progress(u)'
      BY <2>1, <3>1 DEF TokensInv, ServedDevices, Progress
    <3>2. Progress(t)'
      BY <2>1, <2>2, RequestFields DEF Progress, TokensInv, UnservedDevices
    <3>3. QED
      BY <3>1, <3>2 DEF ServedDevices
  <2>4. UnservedDevices'
    BY <2>1 DEF TokensInv, UnservedDevices, Unserved
  <2>5. OneInRegistry' /\ OneDurable'
    BY <2>1 DEF TokensInv, OneInRegistry, OneDurable
  <2>6. QED
    BY <2>3, <2>4, <2>5 DEF TokensInv
<1>3. ASSUME NEW t \in Threads, Busy(t), PairDevice(t),
             \A r \in PairRequests : ~Lookup(t, r)
      PROVE  TokensInv'
  <2> DEFINE D == req[t].device
             V == Verifier(req[t].token)
  <2>0. /\ req[t] \in PairRequests /\ D \in Devices /\ V \in Verifiers
        /\ KeyOf(req[t]) \in PairKeys /\ KeyOf(req[t]) = <<D, req[t].key>>
    BY <1>3, RequestFields DEF TypeOK, KeyOf
  <2>p. Progress(t)
    BY <1>3 DEF TokensInv, ServedDevices
  <2>u. pc[t] # "notify" => registry.index[V] = None
    BY <1>3 DEF Apart, TokenUnused
  (* Steps before the dictionaries change, and the failing of one.         *)
  <2>1. ASSUME UNCHANGED registry,
               \A u \in Threads \ {t} : pc'[u] = pc[u] /\ req'[u] = req[u] /\ stale'[u] = stale[u],
               pc'[t] # "idle" => req'[t] = req[t],
               \A d \in Devices \ {D} : Live(working', d) \subseteq Live(working, d),
               OneDurable',
               IF pc'[t] = "idle" THEN Live(working', D) \subseteq VerifiersFor(registry, D)
               ELSE Progress(t)'
        PROVE  TokensInv'
    <3>1. /\ \A u \in Threads \ {t} : Busy(u)' => Progress(u)'
          /\ \A d \in Devices \ {D} : Unserved(d)' => Live(working', d) \subseteq VerifiersFor(registry', d)
      BY <1>3, <2>1, OthersUnmoved
    <3>2. ServedDevices'
      BY <2>1, <3>1 DEF ServedDevices
    <3>3. ASSUME NEW d \in Devices, d = D, Unserved(d)'
          PROVE  Live(working', d) \subseteq VerifiersFor(registry', d)
      BY <2>1, <3>3 DEF Unserved
    <3>4. OneInRegistry'
      BY <1>3, <2>1 DEF TokensInv, OneInRegistry
    <3>5. UnservedDevices'
      BY <3>1, <3>3 DEF UnservedDevices
    <3>6. QED
      BY <2>1, <3>2, <3>4, <3>5 DEF TokensInv
  <2>2. ASSUME UNCHANGED <<registry, durable, req>>,
               pc'[t] \in InTransaction, pc' = [pc EXCEPT ![t] = pc'[t]],
               \A u \in Threads \ {t} : stale'[u] = stale[u],
               \A d \in Devices \ {D} : Live(working', d) \subseteq Live(working, d),
               Progress(t)'
        PROVE  TokensInv'
    <3>1. OneDurable'
      BY <2>2 DEF TokensInv, OneDurable
    <3>2. pc'[t] # "idle" /\ \A u \in Threads \ {t} : pc'[u] = pc[u] /\ req'[u] = req[u]
      BY <2>2 DEF InTransaction, TypeOK
    <3>3. QED
      BY <2>1, <2>2, <3>1, <3>2
  <2>3. CASE CollectStale(t)
    <3>1. /\ pc[t] = "collect" /\ pc'[t] = "revoke" /\ pc' = [pc EXCEPT ![t] = "revoke"]
          /\ stale'[t] = VerifiersFor(registry, D)
          /\ \A u \in Threads \ {t} : stale'[u] = stale[u]
          /\ UNCHANGED <<registry, durable, req, working>>
      BY <2>3 DEF CollectStale, Goto, TypeOK, connectionVars
    <3>2. Progress(t)'
      BY <2>p, <3>1 DEF Progress
    <3>3. QED
      BY <2>2, <3>1, <3>2 DEF InTransaction
  <2>4. CASE PersistRevoked(t)
    <3>1. PICK v \in stale[t] :
            /\ working' = [working EXCEPT !.revoked = @ \union {v}]
            /\ stale' = [stale EXCEPT ![t] = @ \ {v}]
      BY <2>4 DEF PersistRevoked, Execute
    <3>2. /\ pc[t] = "revoke" /\ UNCHANGED <<pc, req, registry, durable>>
          /\ pc' = [pc EXCEPT ![t] = pc'[t]]
          /\ stale'[t] = stale[t] \ {v} /\ \A u \in Threads \ {t} : stale'[u] = stale[u]
      BY <2>4, <3>1 DEF PersistRevoked, Execute, TypeOK
    <3>3. \A d \in Devices : Live(working', d) = Live(working, d) \ {v}
      BY <3>1 DEF Live, HoldsVerifier, TypeOK, Database
    <3>4. Progress(t)'
      BY <2>0, <2>p, <3>2, <3>3 DEF Progress
    <3>5. QED
      BY <2>2, <3>2, <3>3, <3>4 DEF InTransaction
  <2>5. CASE PersistDevice(t) \/ PersistAgentMachine(t) \/ PersistBinding(t)
    <3>1. /\ UNCHANGED <<registry, durable, req, stale>>
          /\ pc[t] \in {"revoke", "machine", "binding"} /\ pc'[t] \in {"machine", "binding", "pairing"}
          /\ pc[t] = "revoke" => stale[t] = {}
          /\ pc' = [pc EXCEPT ![t] = pc'[t]]
          /\ working'.pairings = working.pairings /\ working'.revoked = working.revoked
      BY <2>5 DEF PersistDevice, PersistAgentMachine, PersistBinding, Execute, Goto, TypeOK, Database
    <3>2. \A d \in Devices : Live(working', d) = Live(working, d)
      BY <3>1, SameLive
    <3>3. Live(working', D) = {}
      BY <2>0, <2>p, <3>1, <3>2 DEF Progress
    <3>4. Progress(t)'
      BY <3>1, <3>3 DEF Progress
    <3>5. QED
      BY <2>2, <3>1, <3>2, <3>4 DEF InTransaction
  <2>6. CASE PersistPairing(t)
    <3>1. /\ UNCHANGED <<registry, durable, req, stale>>
          /\ pc[t] = "pairing" /\ pc'[t] = "commit" /\ pc' = [pc EXCEPT ![t] = "commit"]
          /\ working'.pairings = ReplacePairing(working.pairings, req[t])
          /\ working'.revoked = working.revoked
          /\ working \in Database /\ working' \in Database
      BY <1>t, <2>6 DEF PersistPairing, Execute, Goto, TypeOK, Database
    <3>2. /\ \A d \in Devices \ {D} : Live(working', d) \subseteq Live(working, d)
          /\ Live(working', D) \subseteq Live(working, D) \union {V}
      BY <2>0, <3>1, ReplaceLive
    <3>3. Progress(t)'
      BY <2>p, <3>1, <3>2 DEF Progress
    <3>4. QED
      BY <2>2, <3>1, <3>2, <3>3 DEF InTransaction
  <2>7. CASE CommitPairing(t)
    <3>1. /\ UNCHANGED <<registry, working, req, stale>> /\ durable' = working
          /\ pc[t] = "commit" /\ pc'[t] = "invalidate" /\ pc' = [pc EXCEPT ![t] = "invalidate"]
      BY <2>7 DEF CommitPairing, CommitBy, Commit, Goto, TypeOK
    <3>2. OneDurable'
      BY <3>1, OneWorking DEF OneDurable
    <3>3. Progress(t)'
      BY <2>p, <3>1 DEF Progress
    <3>4. QED
      BY <2>1, <3>1, <3>2, <3>3 DEF TypeOK
  <2>8. CASE WriteFails(t)
    <3>1. /\ UNCHANGED <<registry, durable>> /\ working' = durable
          /\ pc[t] \in InTransaction \union {"notify"} /\ pc'[t] = "idle"
          /\ \A u \in Threads \ {t} : pc'[u] = pc[u] /\ req'[u] = req[u] /\ stale'[u] = stale[u]
          /\ Others(t) = {} /\ t \notin parted
      BY <2>8 DEF WriteFails, Rollback, Finish, Goto, TypeOK, Disturbed
    <3>2. Restores(t) /\ Live(durable, D) \subseteq VerifiersFor(registry, D)
      BY <1>3, <3>1 DEF Restorable, Restores
    <3>3. ServedDevices'
      <4> SUFFICES ASSUME NEW u \in Threads, Busy(u)' PROVE Progress(u)'
        BY DEF ServedDevices
      <4>1. u # t /\ Busy(u) /\ pc[u] \notin InTransaction /\ u \notin parted
        BY <3>1 DEF Others, Apart, PartedOpen
      <4>2. Restores(u)
        BY <4>1 DEF Restorable
      <4>3. QED
        BY <3>1, <4>1, <4>2 DEF Progress, Restores, InTransaction
    <3>4. UnservedDevices'
      <4> SUFFICES ASSUME NEW d \in Devices, Unserved(d)'
                   PROVE  Live(durable, d) \subseteq VerifiersFor(registry, d)
        BY <3>1 DEF UnservedDevices
      <4>1. CASE d = D
        BY <3>2, <4>1
      <4>2. CASE d # D
        BY <3>1, <4>2 DEF Unserved, Restorable
      <4>3. QED
        BY <4>1, <4>2
    <3>5. OneInRegistry' /\ OneDurable'
      BY <3>1 DEF TokensInv, OneInRegistry, OneDurable
    <3>6. QED
      BY <3>3, <3>4, <3>5 DEF TokensInv
  (* The dictionaries.                                                     *)
  <2>9. ASSUME UNCHANGED <<working, durable>>,
               \A u \in Threads \ {t} : pc'[u] = pc[u] /\ req'[u] = req[u] /\ stale'[u] = stale[u],
               pc'[t] # "idle", req'[t] = req[t],
               \A d \in Devices \ {D} : VerifiersFor(registry', d) = VerifiersFor(registry, d),
               \A v, w \in VerifiersFor(registry', D) : v = w,
               Progress(t)'
        PROVE  TokensInv'
    <3>1. /\ \A u \in Threads \ {t} : Busy(u)' => Progress(u)'
          /\ \A d \in Devices \ {D} : Unserved(d)' => Live(working', d) \subseteq VerifiersFor(registry', d)
      BY <1>3, <2>9, OthersUnmoved
    <3>2. ServedDevices'
      BY <2>9, <3>1 DEF ServedDevices
    <3>3. UnservedDevices'
      <4>1. ASSUME NEW d \in Devices, d = D, Unserved(d)'
            PROVE  Live(working', d) \subseteq VerifiersFor(registry', d)
        BY <2>9, <4>1 DEF Unserved
      <4>2. QED
        BY <3>1, <4>1 DEF UnservedDevices
    <3>4. OneInRegistry'
      <4>1. \A d \in Devices \ {D}, v, w \in Verifiers :
              {v, w} \subseteq VerifiersFor(registry', d) => v = w
        BY <2>9 DEF TokensInv, OneInRegistry
      <4>2. QED
        BY <2>9, <4>1 DEF OneInRegistry
    <3>5. OneDurable'
      BY <2>9 DEF TokensInv, OneDurable
    <3>6. QED
      BY <3>2, <3>3, <3>4, <3>5 DEF TokensInv
  <2>q. \A v, w \in VerifiersFor(registry, D) : v = w
    BY <2>0 DEF TokensInv, OneInRegistry, VerifiersFor
  <2>10. CASE Invalidate(t)
    <3>1. /\ UNCHANGED <<working, durable, registry, req>>
          /\ pc[t] = "invalidate" /\ pc'[t] = "remove"
          /\ \A u \in Threads \ {t} : pc'[u] = pc[u] /\ stale'[u] = stale[u]
      BY <2>10 DEF Invalidate, Goto, TypeOK, connectionVars
    <3>2. Progress(t)'
      BY <2>p, <3>1 DEF Progress
    <3>3. QED
      BY <2>9, <2>q, <3>1, <3>2
  <2>16. CASE RemoveToken(t)
    <3>1. /\ UNCHANGED <<working, durable, req>>
          /\ pc[t] = "remove" /\ pc'[t] = "tombstone"
          /\ \A u \in Threads \ {t} : pc'[u] = pc[u] /\ stale'[u] = stale[u]
      BY <2>16 DEF RemoveToken, Goto, TypeOK, connectionVars
    <3>2. /\ \A d \in Devices \ {D} : VerifiersFor(registry', d) = VerifiersFor(registry, d)
          /\ VerifiersFor(registry', D) \subseteq VerifiersFor(registry, D)
      BY <2>0, <2>16, RemoveTokens
    <3>3. Progress(t)'
      BY <2>p, <3>1 DEF Progress
    <3>4. QED
      BY <2>9, <2>q, <3>1, <3>2, <3>3
  <2>17. CASE RemoveFails(t)
    BY <2>17, RemoveNeverFails
  <2>18. CASE TombstoneToken(t)
    <3>1. /\ UNCHANGED <<working, durable, req, stale>>
          /\ pc[t] = "tombstone" /\ pc'[t] = "remove"
          /\ \A u \in Threads \ {t} : pc'[u] = pc[u]
      BY <2>18 DEF TombstoneToken, Goto, TypeOK, connectionVars
    <3>2. \A d \in Devices : VerifiersFor(registry', d) = VerifiersFor(registry, d)
      BY <2>18, TombstoneTokens
    <3>3. Progress(t)'
      BY <2>p, <3>1 DEF Progress
    <3>4. QED
      BY <2>0, <2>9, <2>q, <3>1, <3>2, <3>3
  <2>11. CASE Publish(t)
    <3>1. /\ UNCHANGED <<working, durable, req, stale>>
          /\ pc[t] = "remove" /\ stale[t] = {} /\ pc'[t] = "index" /\ pc' = [pc EXCEPT ![t] = "index"]
      BY <2>11 DEF Publish, Goto, TypeOK, connectionVars
    <3>2. VerifiersFor(registry, D) = {}
      BY <3>1 DEF Apart, Emptied
    <3>3. \A d \in Devices : VerifiersFor(registry', d) = VerifiersFor(registry, d)
      BY <2>11, <3>2, PublishTokens
    <3>4. Progress(t)'
      BY <2>p, <3>1 DEF Progress
    <3>5. QED
      BY <2>0, <2>9, <3>1, <3>2, <3>3, <3>4 DEF TypeOK
  <2>12. CASE IndexToken(t)
    <3>1. /\ UNCHANGED <<working, durable, req, stale>>
          /\ pc[t] = "index" /\ pc'[t] = "notify"
          /\ \A u \in Threads \ {t} : pc'[u] = pc[u] /\ req'[u] = req[u] /\ stale'[u] = stale[u]
      BY <2>12 DEF IndexToken, Goto, TypeOK, connectionVars
    <3>2. VerifiersFor(registry, D) = {}
      BY <3>1 DEF Apart, Emptied
    <3>3. \A d \in Devices :
            VerifiersFor(registry', d) = IF d = D THEN {V} ELSE VerifiersFor(registry, d)
      BY <2>12, <2>u, <3>1, <3>2, IndexTokens
    <3>4. VerifiersFor(registry', D) = {V}
      BY <2>0, <3>3
    <3>5. \A d \in Devices \ {D} : VerifiersFor(registry', d) = VerifiersFor(registry, d)
      BY <3>3
    <3>6. Live(working, D) \subseteq {V}
      BY <2>p, <3>1 DEF Progress
    <3>7. Progress(t)'
      BY <3>1, <3>4, <3>6 DEF Progress
    <3>8. QED
      BY <2>9, <3>1, <3>4, <3>5, <3>7
  <2>15. CASE Notify(t)
    <3>1. /\ UNCHANGED <<working, registry>> /\ durable' = working
          /\ pc[t] = "notify" /\ pc'[t] = "idle"
          /\ \A u \in Threads \ {t} : pc'[u] = pc[u] /\ req'[u] = req[u] /\ stale'[u] = stale[u]
      BY <2>15 DEF Notify, CommitBy, Commit, Finish, Goto, TypeOK
    <3>2. OneDurable'
      BY <3>1, OneWorking DEF OneDurable
    <3>3. Live(working', D) \subseteq VerifiersFor(registry, D)
      BY <2>p, <3>1 DEF Progress
    <3>4. QED
      BY <2>1, <3>1, <3>2, <3>3
  (* Before the transaction; after it, a scan that breaks leaves the        *)
  (* pairing in the tables.                                                *)
  <2>14. CASE ScanBreaks(t)
    <3>1. /\ UNCHANGED <<working, durable, registry>> /\ pc'[t] = "idle" /\ pc[t] = "collect"
          /\ \A u \in Threads \ {t} : pc'[u] = pc[u] /\ req'[u] = req[u] /\ stale'[u] = stale[u]
      BY <2>14 DEF ScanBreaks, Finish, Goto, TypeOK, connectionVars, Disturbed
    <3>2. Live(working', D) \subseteq VerifiersFor(registry, D)
      BY <2>p, <3>1 DEF Progress
    <3>3. OneDurable'
      BY <3>1 DEF TokensInv, OneDurable
    <3>4. QED
      BY <2>1, <3>1, <3>2, <3>3
  <2>13. QED
    BY <1>3, <2>3, <2>4, <2>5, <2>6, <2>7, <2>8, <2>10, <2>11, <2>12, <2>14,
       <2>15, <2>16, <2>17, <2>18 DEF PairDevice
<1>4. CASE UNCHANGED vars
  <2>1. UNCHANGED <<working, durable, registry, pc, req, stale>>
    BY <1>4 DEF vars, connectionVars, threadVars
  <2>2. OneInRegistry' /\ OneDurable'
    BY <2>1 DEF TokensInv, OneInRegistry, OneDurable
  <2>3. ServedDevices' /\ UnservedDevices'
    BY <2>1 DEF TokensInv, ServedDevices, UnservedDevices, Progress, Unserved
  <2>4. QED
    BY <2>2, <2>3 DEF TokensInv
<1>5. ASSUME NEW t \in Threads, PairDevice(t), ~Busy(t), \A r \in PairRequests : ~Lookup(t, r)
      PROVE  FALSE
  BY <1>5 DEF PairDevice, CollectStale, PersistRevoked, PersistDevice, PersistAgentMachine,
     PersistBinding, PersistPairing, CommitPairing, WriteFails, ScanBreaks, Invalidate, RemoveToken, RemoveFails,
     TombstoneToken, Publish, IndexToken,
     Notify, InTransaction
<1>6. QED
  BY <1>1, <1>2, <1>3, <1>4, <1>5 DEF Next

LEMMA RestorableInductive ==
  ASSUME CarefulClients
  PROVE  TypeOK /\ WellKeyed /\ Apart /\ TokensInv /\ Restorable /\ [Next]_vars /\ ~Disturbed'
           => Restorable'
<1> SUFFICES ASSUME TypeOK, WellKeyed, Apart, TokensInv, Restorable, [Next]_vars, ~Disturbed'
             PROVE  Restorable'
  OBVIOUS
<1> USE DEF Busy
<1>1. CASE Restart
  <2>1. durable' = durable /\ registry' = Load(durable) /\ \A t \in Threads : pc'[t] = "idle"
    BY <1>1 DEF Restart, Rollback, TypeOK
  <2>2. \A d \in Devices : VerifiersFor(registry', d) = Live(durable, d)
    BY <2>1, LiveIsRestarted DEF TypeOK, WellKeyed
  <2>3. QED
    BY <2>1, <2>2 DEF Restorable
<1>2. ASSUME NEW t \in Threads, NEW r \in PairRequests, Lookup(t, r) PROVE Restorable'
  <2>1. /\ pc[t] = "idle" /\ pc'[t] = "collect" /\ req'[t] = r
        /\ \A u \in Threads \ {t} : pc'[u] = pc[u] /\ req'[u] = req[u]
        /\ UNCHANGED <<durable, registry, parted>>
    BY <1>2 DEF Lookup, Goto, TypeOK, connectionVars, historyVars
  <2>2. Unserved(r.device)
    <3> SUFFICES ASSUME NEW u \in Threads, Busy(u) PROVE req[u].device # r.device
      BY DEF Unserved
    <3>1. <<req[u], r>> \in Overlaps
      BY <1>2 DEF Lookup
    <3>2. QED
      BY <3>1 DEF CarefulClients
  <2>3. Restores(t)'
    BY <2>1, <2>2, RequestFields DEF Restores, Restorable, InTransaction
  <2>4. \A u \in Threads \ {t} : Busy(u)' => Restores(u)'
    BY <2>1 DEF Restores, Restorable
  <2>5. \A d \in Devices : Unserved(d)' => Unserved(d)
    BY <2>1 DEF Unserved
  <2>6. QED
    BY <2>1, <2>3, <2>4, <2>5 DEF Restorable
<1>3. ASSUME NEW t \in Threads, Busy(t), PairDevice(t),
             \A r \in PairRequests : ~Lookup(t, r)
      PROVE  Restorable'
  <2> DEFINE D == req[t].device
             V == Verifier(req[t].token)
  <2>0. /\ req[t] \in PairRequests /\ D \in Devices /\ V \in Verifiers
        /\ \A u \in Threads \ {t} : Busy(u) => req[u].device \in Devices \ {D}
    BY <1>3, RequestFields DEF TypeOK, Apart, Exclusive
  <2>p. Progress(t) /\ Restores(t)
    BY <1>3 DEF TokensInv, ServedDevices, Restorable
  <2>u. pc[t] # "notify" => registry.index[V] = None
    BY <1>3 DEF Apart, TokenUnused
  (* Steps that commit nothing.                                            *)
  <2>1. ASSUME UNCHANGED durable,
               \A u \in Threads \ {t} : /\ pc'[u] = pc[u] /\ req'[u] = req[u]
                                        /\ u \in parted => u \in parted',
               \A d \in Devices \ {D} : VerifiersFor(registry', d) = VerifiersFor(registry, d),
               IF pc'[t] = "idle" THEN Live(durable, D) \subseteq VerifiersFor(registry', D)
               ELSE req'[t] = req[t] /\ Restores(t)'
        PROVE  Restorable'
    <3>1. \A u \in Threads \ {t} : Busy(u)' => Restores(u)'
      BY <2>0, <2>1 DEF Restores, Restorable
    <3>2. ASSUME NEW d \in Devices, Unserved(d)'
          PROVE  Live(durable, d) \subseteq VerifiersFor(registry', d)
      <4>1. CASE d = D
        BY <2>1, <3>2, <4>1 DEF Unserved
      <4>2. CASE d # D
        BY <2>1, <3>2, <4>2 DEF Unserved, Restorable
      <4>3. QED
        BY <4>1, <4>2
    <3>3. QED
      BY <2>1, <3>1, <3>2 DEF Restorable
  (* The commits: what holds of the open transaction holds of the tables.  *)
  <2>2. ASSUME UNCHANGED registry, durable' = working, parted' = Others(t),
               \A u \in Threads \ {t} : pc'[u] = pc[u] /\ req'[u] = req[u],
               IF pc'[t] = "idle" THEN Live(working, D) \subseteq VerifiersFor(registry, D)
               ELSE req'[t] = req[t] /\ Restores(t)'
        PROVE  Restorable'
    <3>1. ASSUME NEW u \in Threads \ {t}, Busy(u)' PROVE Restores(u)'
      <4>1. Busy(u) /\ Progress(u)
        BY <2>2, <3>1 DEF TokensInv, ServedDevices
      <4>2. pc[u] \in InTransaction => u \in parted'
        BY <2>2, <3>1 DEF Others
      <4>3. QED
        BY <2>2, <4>1, <4>2 DEF Progress, Restores
    <3>2. ASSUME NEW d \in Devices, Unserved(d)'
          PROVE  Live(working, d) \subseteq VerifiersFor(registry, d)
      <4>1. CASE d = D
        BY <2>2, <3>2, <4>1 DEF Unserved
      <4>2. CASE d # D
        BY <2>2, <3>2, <4>2 DEF Unserved, TokensInv, UnservedDevices
      <4>3. QED
        BY <4>1, <4>2
    <3>3. QED
      BY <2>2, <3>1, <3>2 DEF Restorable
  <2>3. CASE CollectStale(t)
    <3>1. /\ pc[t] = "collect" /\ pc'[t] = "revoke" /\ UNCHANGED <<registry, durable, req, parted>>
          /\ \A u \in Threads \ {t} : pc'[u] = pc[u]
      BY <2>3 DEF CollectStale, Goto, TypeOK, connectionVars, historyVars
    <3>2. Restores(t)'
      BY <2>p, <3>1 DEF Restores
    <3>3. QED
      BY <2>1, <3>1, <3>2
  <2>4. CASE PersistRevoked(t) \/ PersistDevice(t) \/ PersistAgentMachine(t) \/ PersistBinding(t)
             \/ PersistPairing(t)
    <3>1. /\ pc[t] \in InTransaction /\ pc'[t] \in InTransaction
          /\ UNCHANGED <<registry, durable, req, parted>>
          /\ \A u \in Threads \ {t} : pc'[u] = pc[u]
      BY <2>4 DEF PersistRevoked, PersistDevice, PersistAgentMachine, PersistBinding, PersistPairing,
         Execute, Goto, TypeOK, historyVars, InTransaction
    <3>2. Restores(t)'
      BY <2>p, <3>1 DEF Restores, InTransaction
    <3>3. QED
      BY <2>1, <3>1, <3>2 DEF InTransaction
  <2>5. CASE CommitPairing(t)
    <3>1. /\ UNCHANGED <<registry, working, req>> /\ durable' = working /\ parted' = Others(t)
          /\ pc[t] = "commit" /\ pc'[t] = "invalidate" /\ \A u \in Threads \ {t} : pc'[u] = pc[u]
      BY <2>5 DEF CommitPairing, CommitBy, Commit, Goto, TypeOK
    <3>2. Restores(t)'
      BY <2>p, <3>1 DEF Restores, Progress, InTransaction
    <3>3. QED
      BY <2>2, <3>1, <3>2
  <2>6. CASE Notify(t)
    <3>1. /\ UNCHANGED <<working, registry>> /\ durable' = working /\ parted' = Others(t)
          /\ pc[t] = "notify" /\ pc'[t] = "idle"
          /\ \A u \in Threads \ {t} : pc'[u] = pc[u] /\ req'[u] = req[u]
      BY <2>6 DEF Notify, CommitBy, Commit, Finish, Goto, TypeOK
    <3>2. Live(working, D) \subseteq VerifiersFor(registry, D)
      BY <2>p, <3>1 DEF Progress
    <3>3. QED
      BY <2>2, <3>1, <3>2
  <2>7. CASE WriteFails(t)
    <3>1. /\ UNCHANGED <<registry, durable>> /\ parted' = parted \ {t} /\ pc'[t] = "idle"
          /\ pc[t] \in InTransaction \union {"notify"} /\ t \notin parted
          /\ \A u \in Threads \ {t} : pc'[u] = pc[u] /\ req'[u] = req[u]
      BY <2>7 DEF WriteFails, Rollback, Finish, Goto, TypeOK, Disturbed
    <3>2. Live(durable, D) \subseteq VerifiersFor(registry, D)
      BY <2>p, <3>1 DEF Restores
    <3>3. QED
      BY <2>1, <3>1, <3>2
  <2>8. CASE ScanBreaks(t)
    <3>1. /\ UNCHANGED <<durable, registry, parted>> /\ pc'[t] = "idle" /\ pc[t] = "collect"
          /\ \A u \in Threads \ {t} : pc'[u] = pc[u] /\ req'[u] = req[u]
      BY <2>8 DEF ScanBreaks, Finish, Goto, TypeOK, connectionVars, Disturbed
    <3>2. t \notin parted
      BY <3>1 DEF Apart, PartedOpen, InTransaction
    <3>3. Live(durable, D) \subseteq VerifiersFor(registry, D)
      BY <2>p, <3>1, <3>2 DEF Restores
    <3>4. QED
      BY <2>1, <3>1, <3>3
  <2>9. CASE Invalidate(t)
    <3>1. /\ UNCHANGED <<durable, registry, req, parted>>
          /\ pc[t] = "invalidate" /\ pc'[t] = "remove"
          /\ \A u \in Threads \ {t} : pc'[u] = pc[u]
      BY <2>9 DEF Invalidate, Goto, TypeOK, connectionVars, historyVars
    <3>2. Restores(t)'
      BY <2>p, <3>1 DEF Restores, InTransaction
    <3>3. QED
      BY <2>1, <3>1, <3>2
  <2>13. CASE RemoveToken(t) \/ TombstoneToken(t)
    <3>1. /\ UNCHANGED <<durable, req, parted>>
          /\ pc[t] \in {"remove", "tombstone"} /\ pc'[t] \in {"remove", "tombstone"}
          /\ \A u \in Threads \ {t} : pc'[u] = pc[u]
      BY <2>13 DEF RemoveToken, TombstoneToken, Goto, TypeOK, connectionVars, historyVars
    <3>2. \A d \in Devices \ {D} : VerifiersFor(registry', d) = VerifiersFor(registry, d)
      BY <2>13, RemoveTokens, TombstoneTokens
    <3>3. Restores(t)'
      BY <2>p, <3>1 DEF Restores, InTransaction
    <3>4. QED
      BY <2>1, <3>1, <3>2, <3>3
  <2>14. CASE RemoveFails(t)
    BY <2>14, RemoveNeverFails
  <2>10. CASE Publish(t)
    <3>1. /\ UNCHANGED <<durable, req, parted>> /\ pc[t] = "remove" /\ stale[t] = {} /\ pc'[t] = "index"
          /\ \A u \in Threads \ {t} : pc'[u] = pc[u]
      BY <2>10 DEF Publish, Goto, TypeOK, connectionVars, historyVars
    <3>2. VerifiersFor(registry, D) = {}
      BY <3>1 DEF Apart, Emptied
    <3>3. \A d \in Devices : VerifiersFor(registry', d) = VerifiersFor(registry, d)
      BY <2>10, <3>2, PublishTokens
    <3>4. Restores(t)'
      BY <2>p, <3>1 DEF Restores, InTransaction
    <3>5. QED
      BY <2>1, <3>1, <3>3, <3>4
  <2>11. CASE IndexToken(t)
    <3>1. /\ UNCHANGED <<durable, req, parted>> /\ pc[t] = "index" /\ pc'[t] = "notify"
          /\ \A u \in Threads \ {t} : pc'[u] = pc[u]
      BY <2>11 DEF IndexToken, Goto, TypeOK, connectionVars
    <3>2. VerifiersFor(registry, D) = {}
      BY <3>1 DEF Apart, Emptied
    <3>3. \A d \in Devices :
            VerifiersFor(registry', d) = IF d = D THEN {V} ELSE VerifiersFor(registry, d)
      BY <2>11, <2>u, <3>1, <3>2, IndexTokens
    <3>4. VerifiersFor(registry', D) = {V} /\ Live(durable, D) \subseteq {V}
      BY <2>0, <2>p, <3>1, <3>3 DEF Restores
    <3>5. Restores(t)'
      BY <3>1, <3>4 DEF Restores
    <3>6. \A d \in Devices \ {D} : VerifiersFor(registry', d) = VerifiersFor(registry, d)
      BY <3>3
    <3>7. QED
      BY <2>1, <3>1, <3>5, <3>6
  <2>12. QED
    BY <1>3, <2>3, <2>4, <2>5, <2>6, <2>7, <2>8, <2>9, <2>10, <2>11, <2>13, <2>14 DEF PairDevice
<1>4. CASE UNCHANGED vars
  BY <1>4 DEF vars, connectionVars, threadVars, historyVars, Restorable, Restores, Unserved
<1>5. ASSUME NEW t \in Threads, PairDevice(t), ~Busy(t), \A r \in PairRequests : ~Lookup(t, r)
      PROVE  FALSE
  BY <1>5 DEF PairDevice, CollectStale, PersistRevoked, PersistDevice, PersistAgentMachine,
     PersistBinding, PersistPairing, CommitPairing, WriteFails, ScanBreaks, Invalidate, RemoveToken, RemoveFails,
     TombstoneToken, Publish, IndexToken,
     Notify, InTransaction
<1>6. QED
  BY <1>1, <1>2, <1>3, <1>4, <1>5 DEF Next

LEMMA TokensCorrect ==
  ASSUME CarefulClients
  PROVE  Spec => [](Disturbed \/ (TokensInv /\ Restorable))
<1>1. Init => TokensInv /\ Restorable
  <2> SUFFICES ASSUME Init PROVE TokensInv /\ Restorable
    OBVIOUS
  <2>1. \A t \in Threads : pc[t] = "idle"
    BY DEF Init
  <2>2. \A d \in Devices : Live(working, d) = {} /\ Live(durable, d) = {}
    BY DEF Init, Live, HoldsVerifier, EmptyDatabase, PairKeys
  <2>3. \A v \in Verifiers : registry.index[v] = None
    BY DEF Init, Load, HoldsVerifier, EmptyDatabase
  <2>4. QED
    BY <2>1, <2>2, <2>3 DEF TokensInv, ServedDevices, UnservedDevices, OneInRegistry, OneDurable,
       Restorable, Busy, VerifiersFor
<1>2. TypeOK /\ WellKeyed /\ Apart /\ (Disturbed \/ (TokensInv /\ Restorable)) /\ [Next]_vars
        => (Disturbed \/ (TokensInv /\ Restorable))'
  BY TokensInductive, RestorableInductive, DisturbedStays
<1>3. QED
  BY <1>1, <1>2, TypeCorrect, WellKeyedCorrect, ApartCorrect, PTL DEF Spec

LEMMA NeverRaced ==
  ASSUME CarefulClients
  PROVE  Spec => []~raced
<1>1. Init => ~raced
  BY DEF Init
<1>2. ~raced /\ [Next]_vars => ~raced'
  <2> SUFFICES ASSUME ~raced, [Next]_vars PROVE ~raced'
    OBVIOUS
  <2>1. ASSUME NEW t \in Threads, NEW r \in PairRequests, Lookup(t, r) PROVE ~raced'
    BY <2>1 DEF Lookup, CarefulClients
  <2>2. ASSUME NEW t \in Threads, PairDevice(t), ~\E r \in PairRequests : Lookup(t, r)
        PROVE  raced' = raced
    BY <2>2 DEF PairDevice, CollectStale, PersistRevoked, PersistDevice, PersistAgentMachine,
       PersistBinding, PersistPairing, CommitPairing, CommitBy, WriteFails, ScanBreaks, Invalidate,
       RemoveToken, RemoveFails, TombstoneToken, Publish, IndexToken, Notify, historyVars
  <2>3. CASE Restart \/ UNCHANGED vars
    BY <2>3 DEF Restart, vars, historyVars
  <2>4. QED
    BY <2>1, <2>2, <2>3 DEF Next
<1>3. QED
  BY <1>1, <1>2, PTL DEF Spec

(* With careful clients, no device has two tokens that authenticate it,    *)
(* nor would it have after a restart, whatever crashes and whatever fails, *)
(* until a failure takes another request's statements with it or leaves a  *)
(* part of its own behind; and two requests of one device never race.      *)
THEOREM OneTokenCorrect ==
  ASSUME CarefulClients
  PROVE  Spec => [](OneTokenUnlessHalved /\ ~raced)
<1>1. TypeOK /\ WellKeyed /\ TokensInv => OneTokenPerDevice
  <2> SUFFICES ASSUME TypeOK, WellKeyed, TokensInv PROVE OneTokenPerDevice
    OBVIOUS
  <2>1. \A d \in Devices : VerifiersFor(Restarted, d) = Live(durable, d)
    BY LiveIsRestarted DEF Restarted, TypeOK, WellKeyed
  <2>2. ASSUME NEW d \in Devices, NEW v \in VerifiersFor(registry, d),
               NEW w \in VerifiersFor(registry, d)
        PROVE  v = w
    BY DEF TokensInv, OneInRegistry, VerifiersFor
  <2>3. ASSUME NEW d \in Devices, NEW v \in VerifiersFor(Restarted, d),
               NEW w \in VerifiersFor(Restarted, d)
        PROVE  v = w
    BY <2>1, <2>3 DEF TokensInv, OneDurable, Live
  <2>4. QED
    BY <2>2, <2>3 DEF OneTokenPerDevice
<1>2. TypeOK /\ WellKeyed /\ (Disturbed \/ (TokensInv /\ Restorable)) => OneTokenUnlessHalved
  BY <1>1 DEF OneTokenUnlessHalved, Disturbed
<1>3. QED
  BY <1>2, TokensCorrect, TypeCorrect, WellKeyedCorrect, NeverRaced, PTL

-----------------------------------------------------------------------------
(* A token that pairing has replaced is never accepted again: NoRevival,   *)
(* for the clients that are careful.                                       *)
HasRow(db, d, v) == \E k \in Keys : HoldsVerifier(db, <<d, k>>, v)

(* The tokens that the dictionaries know as revoked, or are about to: one  *)
(* that has left the index is marked by the thread that removed it.        *)
Marked == registry.revoked \union ({removed[t] : t \in Threads} \ {None})

(* A tombstone is committed before the dictionaries have it, and until     *)
(* they do, the token it is for is still indexed.                          *)
Tombstones ==
  /\ durable.revoked \subseteq working.revoked
  /\ Marked \subseteq durable.revoked
  /\ \A v \in working.revoked : v \in Marked \/ registry.index[v] # None
  /\ \A v \in Marked : registry.index[v] = None

(* How far the pairing that t serves has got with the tombstones of its    *)
(* device's tokens and with the row of its own.                            *)
Replacing(t) ==
  LET d == req[t].device
      v == Verifier(req[t].token)
      old == VerifiersFor(registry, d)
  IN /\ pc[t] # "notify" => v \notin Marked
     /\ pc[t] = "revoke" => stale[t] \subseteq old /\ old \subseteq stale[t] \union working.revoked
     /\ pc[t] \in {"machine", "binding", "pairing", "commit"} => old \subseteq working.revoked
     /\ pc[t] \in {"invalidate", "remove", "tombstone"} => old \subseteq durable.revoked
     /\ pc[t] \in {"commit", "invalidate", "remove", "tombstone", "index"} => HasRow(working, d, v)
     /\ pc[t] \in {"invalidate", "remove", "tombstone", "index"} => HasRow(durable, d, v)

Replacements == \A t \in Threads : Busy(t) => Replacing(t)

(* The token of the last completed pairing is usable or revoked, in the    *)
(* dictionaries and in every state that a restart or a rollback can find.  *)
Stored(db, d) == current[d] \in db.revoked \/ HasRow(db, d, current[d])
CurrentStored ==
  \A d \in Devices : current[d] # None =>
    /\ current[d] \in Marked \union VerifiersFor(registry, d)
    /\ Stored(working, d) /\ Stored(durable, d)

SupersededRevoked == superseded \subseteq Marked

RevocationInv == Tombstones /\ Replacements /\ CurrentStored /\ SupersededRevoked

-----------------------------------------------------------------------------
LEMMA MarkedSame ==
  ASSUME UNCHANGED removed, registry'.revoked = registry.revoked
  PROVE  Marked' = Marked
BY DEF Marked

LEMMA MarkedType ==
  ASSUME TypeOK
  PROVE  Marked \subseteq Verifiers
BY DEF Marked, TypeOK, Registry

LEMMA MarkedNow ==
  ASSUME \A t \in Threads : removed[t] = None
  PROVE  Marked = registry.revoked
BY DEF Marked

LEMMA MarkedRemove ==
  ASSUME TypeOK, NEW t \in Threads, pc[t] # "tombstone", NEW v \in Verifiers,
         registry'.revoked = registry.revoked, removed'[t] = v,
         \A u \in Threads \ {t} : removed'[u] = removed[u]
  PROVE  Marked' = Marked \union {v}
<1>1. removed[t] = None /\ v # None
  BY NoneAssumption DEF TypeOK
<1>2. \A w : w \in Marked' <=> (w \in registry.revoked
                                 \/ (w # None /\ \E u \in Threads : w = removed'[u]))
  BY DEF Marked
<1>3. \A w : w \in Marked <=> (w \in registry.revoked
                                \/ (w # None /\ \E u \in Threads : w = removed[u]))
  BY DEF Marked
<1>4. \A w : w # None => ((\E u \in Threads : w = removed'[u])
                            <=> (w = v \/ \E u \in Threads : w = removed[u]))
  BY <1>1
<1>5. \A w : w \in Marked' <=> w \in Marked \union {v}
  BY <1>1, <1>2, <1>3, <1>4
<1>6. QED
  BY <1>5

LEMMA MarkedTombstone ==
  ASSUME TypeOK, NEW t \in Threads, TombstoneToken(t)
  PROVE  Marked' = Marked
<1>1. /\ removed[t] # None /\ removed'[t] = None
      /\ \A u \in Threads \ {t} : removed'[u] = removed[u]
      /\ registry'.revoked = registry.revoked \union {removed[t]}
  BY TombstoneTokens, NoneAssumption
<1>2. \A w : w \in Marked' <=> (w \in registry'.revoked
                                 \/ (w # None /\ \E u \in Threads : w = removed'[u]))
  BY DEF Marked
<1>3. \A w : w \in Marked <=> (w \in registry.revoked
                                \/ (w # None /\ \E u \in Threads : w = removed[u]))
  BY DEF Marked
<1>4. \A w : w # None => ((\E u \in Threads : w = removed[u])
                            <=> (w = removed[t] \/ \E u \in Threads : w = removed'[u]))
  BY <1>1
<1>5. \A w : w \in Marked' <=> w \in Marked
  BY <1>1, <1>2, <1>3, <1>4
<1>6. QED
  BY <1>5

-----------------------------------------------------------------------------
(* A token is only ever stored, indexed or removed for a device that       *)
(* presents it.                                                            *)
PresentedRows(db) ==
  \A pk \in PairKeys, v \in Verifiers : HoldsVerifier(db, pk, v) => Presents(pk[1], v)
PresentedIndex ==
  \A v \in Verifiers : registry.index[v] # None => Presents(registry.index[v][1], v)
PresentedRemoved ==
  \A t \in Threads : removed[t] # None => Presents(req[t].device, removed[t])
Origin == PresentedRows(working) /\ PresentedRows(durable) /\ PresentedIndex /\ PresentedRemoved

LEMMA ReplacePresented ==
  ASSUME NEW r \in PairRequests, NEW db, NEW new, PresentedRows(db),
         new.pairings = ReplacePairing(db.pairings, r)
  PROVE  PresentedRows(new)
<1> SUFFICES ASSUME NEW pk \in PairKeys, NEW v \in Verifiers, HoldsVerifier(new, pk, v)
             PROVE  Presents(pk[1], v)
  BY DEF PresentedRows
<1>1. new.pairings[pk] =
        IF pk = KeyOf(r) THEN [verifier |-> Verifier(r.token), pairing |-> PairingOf(r)]
        ELSE IF db.pairings[pk] # None /\ db.pairings[pk].verifier = Verifier(r.token)
        THEN None ELSE db.pairings[pk]
  BY DEF ReplacePairing
<1>2. CASE pk = KeyOf(r)
  BY <1>1, <1>2 DEF HoldsVerifier, Presents, KeyOf
<1>3. CASE pk # KeyOf(r)
  BY <1>1, <1>3 DEF HoldsVerifier, PresentedRows
<1>4. QED
  BY <1>2, <1>3

LEMMA OriginInductive == TypeOK /\ WellKeyed /\ Apart /\ Origin /\ [Next]_vars => Origin'
<1> SUFFICES ASSUME TypeOK, WellKeyed, Apart, Origin, [Next]_vars PROVE Origin'
  OBVIOUS
<1>n. \A u \in Threads : (removed[u] # None) <=> (pc[u] = "tombstone")
  BY DEF TypeOK
<1>1. CASE Restart
  <2>1. /\ working' = durable /\ durable' = durable /\ registry' = Load(durable)
        /\ \A t \in Threads : removed'[t] = None
    BY <1>1 DEF Restart, Rollback
  <2>2. \A v \in Verifiers : registry'.index[v] # None =>
          HoldsVerifier(durable, registry'.index[v], v)
    BY <2>1, LoadWellKeyed DEF WellKeyed, TypeOK
  <2>3. registry' \in Registry
    BY <2>1, LoadType DEF TypeOK
  <2>4. PresentedIndex'
    BY <2>2, <2>3 DEF Origin, PresentedIndex, PresentedRows, Registry
  <2>5. QED
    BY <2>1, <2>4 DEF Origin, PresentedRows, PresentedRemoved, HoldsVerifier
<1>2. ASSUME NEW t \in Threads, PairDevice(t) PROVE Origin'
  <2> DEFINE D == req[t].device
             V == Verifier(req[t].token)
  <2>a. pc[t] # "idle" => req[t] \in PairRequests
    BY DEF TypeOK
  (* Steps that index and remove nothing.                                  *)
  <2>1. ASSUME UNCHANGED <<registry, removed>>,
               \A u \in Threads \ {t} : req'[u] = req[u],
               pc[t] # "tombstone",
               PresentedRows(working)', PresentedRows(durable)'
        PROVE  Origin'
    <3>1. PresentedRemoved'
      BY <1>n, <2>1 DEF Origin, PresentedRemoved
    <3>2. QED
      BY <2>1, <3>1 DEF Origin, PresentedIndex
  <2>2. ASSUME working'.pairings = working.pairings, durable' = durable
        PROVE  PresentedRows(working)' /\ PresentedRows(durable)'
    BY <2>2 DEF Origin, PresentedRows, HoldsVerifier
  <2> USE DEF connectionVars, Goto
  <2>3. ASSUME NEW r \in PairRequests, Lookup(t, r) PROVE Origin'
    BY <2>3, <2>1, <2>2 DEF Lookup, TypeOK
  <2>4. CASE CollectStale(t) \/ Invalidate(t)
    BY <2>4, <2>1, <2>2 DEF CollectStale, Invalidate
  <2>5. CASE PersistRevoked(t) \/ PersistDevice(t) \/ PersistAgentMachine(t) \/ PersistBinding(t)
    <3>1. working'.pairings = working.pairings /\ durable' = durable
      BY <2>5 DEF PersistRevoked, PersistDevice, PersistAgentMachine, PersistBinding, Execute,
         TypeOK, Database
    <3>2. /\ UNCHANGED <<registry, removed>> /\ pc[t] # "tombstone"
          /\ \A u \in Threads \ {t} : req'[u] = req[u]
      BY <2>5 DEF PersistRevoked, PersistDevice, PersistAgentMachine, PersistBinding
    <3>3. QED
      BY <2>1, <2>2, <3>1, <3>2
  <2>6. CASE PersistPairing(t)
    <3>1. /\ working'.pairings = ReplacePairing(working.pairings, req[t]) /\ durable' = durable
          /\ UNCHANGED <<registry, removed, req>> /\ pc[t] = "pairing"
      BY <2>6 DEF PersistPairing, Execute, TypeOK, Database
    <3>2. PresentedRows(working)'
      BY <2>a, <3>1, ReplacePresented DEF Origin
    <3>3. PresentedRows(durable)'
      BY <3>1 DEF Origin, PresentedRows, HoldsVerifier
    <3>4. QED
      BY <2>1, <3>1, <3>2, <3>3
  <2>7. CASE CommitPairing(t) \/ Notify(t)
    <3>1. /\ working' = working /\ durable' = working
          /\ UNCHANGED <<registry, removed>> /\ pc[t] # "tombstone"
          /\ \A u \in Threads \ {t} : req'[u] = req[u]
      BY <2>7 DEF CommitPairing, Notify, CommitBy, Commit, Finish, TypeOK
    <3>2. QED
      BY <2>1, <3>1 DEF Origin, PresentedRows, HoldsVerifier
  <2>8. CASE WriteFails(t)
    <3>1. /\ working' = durable /\ durable' = durable
          /\ UNCHANGED <<registry, removed>> /\ pc[t] # "tombstone"
          /\ \A u \in Threads \ {t} : req'[u] = req[u]
      BY <2>8 DEF WriteFails, Rollback, Finish, TypeOK, InTransaction
    <3>2. QED
      BY <2>1, <3>1 DEF Origin, PresentedRows, HoldsVerifier
  <2>9. CASE ScanBreaks(t)
    <3>1. /\ UNCHANGED <<working, durable, registry, removed>> /\ pc[t] # "tombstone"
          /\ \A u \in Threads \ {t} : req'[u] = req[u]
      BY <2>9 DEF ScanBreaks, Finish, TypeOK
    <3>2. QED
      BY <2>1, <2>2, <3>1
  <2>10. CASE RemoveToken(t)
    <3>1. PICK v \in VerifiersFor(registry, D) :
            /\ v \in Verifiers /\ registry.index[v] # None
            /\ \A w \in Verifiers : registry'.index[w] = IF w = v THEN None ELSE registry.index[w]
            /\ removed'[t] = v
            /\ \A u \in Threads \ {t} : removed'[u] = removed[u]
      BY <2>10, RemoveTokens
    <3>2. /\ registry.index[v] \in PairKeys
          /\ registry.pairings[registry.index[v]] # None
          /\ KeyOf(registry.pairings[registry.index[v]]) = registry.index[v]
          /\ registry.pairings[registry.index[v]].device = D
      BY <3>1 DEF TypeOK, Registry, WellKeyed, DictionariesWellKeyed, IndexResolves, VerifiersFor
    <3>3. Presents(D, v)
      BY <3>1, <3>2 DEF Origin, PresentedIndex, KeyOf
    <3>4. UNCHANGED <<working, durable, req>>
      BY <2>10 DEF RemoveToken
    <3>5. PresentedRemoved'
      BY <3>1, <3>3, <3>4 DEF Origin, PresentedRemoved
    <3>6. PresentedIndex'
      BY <3>1 DEF Origin, PresentedIndex
    <3>7. QED
      BY <2>2, <3>4, <3>5, <3>6 DEF Origin
  <2>11. CASE RemoveFails(t)
    BY <2>11, RemoveNeverFails
  <2>12. CASE TombstoneToken(t)
    <3>1. /\ UNCHANGED <<working, durable, req>>
          /\ registry'.index = registry.index /\ removed'[t] = None
          /\ \A u \in Threads \ {t} : removed'[u] = removed[u]
      BY <2>12, TombstoneTokens DEF TombstoneToken
    <3>2. PresentedRemoved' /\ PresentedIndex'
      BY <3>1 DEF Origin, PresentedRemoved, PresentedIndex
    <3>3. QED
      BY <2>2, <3>1, <3>2 DEF Origin
  <2>13. CASE Publish(t)
    <3>1. /\ UNCHANGED <<working, durable, req, removed>>
          /\ registry'.index = registry.index
      BY <2>13 DEF Publish, TypeOK, Registry
    <3>2. PresentedRemoved' /\ PresentedIndex'
      BY <3>1 DEF Origin, PresentedRemoved, PresentedIndex
    <3>3. QED
      BY <2>2, <3>1, <3>2 DEF Origin
  <2>14. CASE IndexToken(t)
    <3>1. /\ UNCHANGED <<working, durable, req, removed>> /\ req[t] \in PairRequests
          /\ \A v \in Verifiers : registry'.index[v] = IF v = V THEN KeyOf(req[t]) ELSE registry.index[v]
      BY <2>14, <2>a DEF IndexToken, TypeOK, Registry
    <3>2. PresentedRemoved'
      BY <3>1 DEF Origin, PresentedRemoved
    <3>3. KeyOf(req[t])[1] = D /\ Presents(D, V)
      BY <3>1 DEF KeyOf, Presents
    <3>4. PresentedIndex'
      BY <3>1, <3>3 DEF Origin, PresentedIndex
    <3>5. QED
      BY <2>2, <3>1, <3>2, <3>4 DEF Origin
  <2>15. QED
    BY <1>2, <2>3, <2>4, <2>5, <2>6, <2>7, <2>8, <2>9, <2>10, <2>11, <2>12, <2>13, <2>14
       DEF PairDevice
<1>3. CASE UNCHANGED vars
  BY <1>3 DEF vars, connectionVars, threadVars, Origin, PresentedRows, PresentedIndex,
     PresentedRemoved, HoldsVerifier
<1>4. QED
  BY <1>1, <1>2, <1>3 DEF Next

LEMMA OriginCorrect ==
  ASSUME CarefulClients
  PROVE  Spec => []Origin
<1>1. Init => Origin
  BY DEF Init, Load, EmptyDatabase, HoldsVerifier, Origin, PresentedRows, PresentedIndex,
     PresentedRemoved
<1>2. QED
  BY <1>1, OriginInductive, TypeCorrect, WellKeyedCorrect, ApartCorrect, PTL DEF Spec

-----------------------------------------------------------------------------
LEMMA ReplaceKeepsRow ==
  ASSUME NEW db \in Database, NEW r \in PairRequests, NEW d \in Devices, NEW v \in Verifiers,
         NEW new \in Database, new.pairings = ReplacePairing(db.pairings, r),
         HasRow(db, d, v), d # r.device, v # Verifier(r.token)
  PROVE  HasRow(new, d, v)
<1>1. PICK k \in Keys : HoldsVerifier(db, <<d, k>>, v)
  BY DEF HasRow
<1>2. <<d, k>> \in PairKeys /\ <<d, k>> # KeyOf(r)
  BY DEF PairKeys, KeyOf
<1>3. new.pairings[<<d, k>>] = db.pairings[<<d, k>>]
  BY <1>1, <1>2 DEF ReplacePairing, HoldsVerifier
<1>4. QED
  BY <1>1, <1>3 DEF HasRow, HoldsVerifier

LEMMA ReplaceAddsRow ==
  ASSUME NEW r \in PairRequests, NEW db, NEW new, new.pairings = ReplacePairing(db.pairings, r)
  PROVE  HasRow(new, r.device, Verifier(r.token))
<1>1. /\ KeyOf(r) \in PairKeys /\ KeyOf(r) = <<r.device, r.key>> /\ r.key \in Keys
      /\ new.pairings[KeyOf(r)] = [verifier |-> Verifier(r.token), pairing |-> PairingOf(r)]
  BY RequestFields DEF ReplacePairing, KeyOf
<1>2. new.pairings[KeyOf(r)] \in Row
  BY <1>1, RequestFields DEF Row
<1>3. HoldsVerifier(new, KeyOf(r), Verifier(r.token))
  BY <1>1, <1>2, NoneAssumption DEF HoldsVerifier
<1>4. QED
  BY <1>1, <1>3 DEF HasRow

(* A step of the thread t, seen from the pairings that others serve.       *)
LEMMA OthersReplacing ==
  ASSUME RevocationInv, NEW t \in Threads,
         \A u \in Threads \ {t} : pc'[u] = pc[u] /\ req'[u] = req[u] /\ stale'[u] = stale[u],
         \A u \in Threads \ {t} : Busy(u) =>
           LET d == req[u].device
               v == Verifier(req[u].token)
           IN /\ working.revoked \subseteq working'.revoked
              /\ durable.revoked \subseteq durable'.revoked
              /\ HasRow(working, d, v) => HasRow(working', d, v)
              /\ HasRow(working, d, v) /\ HasRow(durable, d, v) => HasRow(durable', d, v)
              /\ VerifiersFor(registry', d) = VerifiersFor(registry, d)
              /\ pc[u] # "notify" /\ v \in Marked' => v \in Marked
  PROVE  \A u \in Threads \ {t} : Busy(u)' => Replacing(u)'
<1> SUFFICES ASSUME NEW u \in Threads \ {t}, Busy(u)' PROVE Replacing(u)'
  OBVIOUS
<1>1. Busy(u) /\ Replacing(u)
  BY DEF Busy, RevocationInv, Replacements
<1>2. /\ pc'[u] = pc[u] /\ req'[u] = req[u] /\ stale'[u] = stale[u]
      /\ working.revoked \subseteq working'.revoked
      /\ durable.revoked \subseteq durable'.revoked
      /\ VerifiersFor(registry', req[u].device) = VerifiersFor(registry, req[u].device)
  BY <1>1
<1>3. QED
  BY <1>1, <1>2 DEF Replacing

LEMMA RevocationInductive ==
  ASSUME CarefulClients
  PROVE  TypeOK /\ WellKeyed /\ Apart /\ Origin /\ RevocationInv /\ [Next]_vars /\ ~torn'
           => RevocationInv'
<1> SUFFICES ASSUME TypeOK, WellKeyed, Apart, Origin, RevocationInv, [Next]_vars, ~torn'
             PROVE  RevocationInv'
  OBVIOUS
<1> USE DEF Busy
<1>c. /\ \A d \in Devices : current[d] # None => current[d] \in Verifiers
      /\ superseded \in SUBSET Verifiers
  BY DEF TypeOK
<1>1. CASE Restart
  <2>1. /\ working' = durable /\ UNCHANGED <<durable, current, superseded>>
        /\ registry' = Load(durable) /\ durable \in Database
        /\ \A t \in Threads : pc'[t] = "idle" /\ removed'[t] = None
    BY <1>1 DEF Restart, Rollback, TypeOK, historyVars
  <2>m. Marked' = registry'.revoked
    BY <2>1 DEF Marked
  <2>2. /\ Marked' = durable.revoked
        /\ \A v \in Verifiers : v \in durable.revoked => registry'.index[v] = None
        /\ durable.revoked \subseteq Verifiers
    BY <2>1, <2>m DEF Load, Database
  <2>3. Tombstones'
    BY <2>1, <2>2 DEF Tombstones
  <2>4. Replacements'
    BY <2>1 DEF Replacements
  <2>5. CurrentStored'
    <3> SUFFICES ASSUME NEW d \in Devices, current[d] # None
                 PROVE  /\ current[d] \in Marked' \union VerifiersFor(registry', d)
                        /\ Stored(durable, d)
      BY <2>1 DEF CurrentStored, Stored
    <3>1. Stored(durable, d)
      BY DEF RevocationInv, CurrentStored
    <3>2. VerifiersFor(registry', d) = Live(durable, d)
      BY <2>1, LiveIsRestarted DEF WellKeyed
    <3>3. QED
      BY <1>c, <2>2, <3>1, <3>2 DEF Stored, Live, HasRow
  <2>6. SupersededRevoked'
    BY <2>1, <2>2 DEF RevocationInv, SupersededRevoked, Tombstones
  <2>7. QED
    BY <2>3, <2>4, <2>5, <2>6 DEF RevocationInv
<1>2. ASSUME NEW t \in Threads, NEW r \in PairRequests, Lookup(t, r) PROVE RevocationInv'
  <2>1. /\ pc'[t] = "collect" /\ req'[t] = r
        /\ \A u \in Threads \ {t} : pc'[u] = pc[u] /\ req'[u] = req[u] /\ stale'[u] = stale[u]
        /\ UNCHANGED <<working, durable, registry, removed, current, superseded>>
    BY <1>2 DEF Lookup, Goto, TypeOK, connectionVars, historyVars
  <2>m. Marked' = Marked
    BY <2>1, MarkedSame
  <2>n. Verifier(r.token) \notin Marked
    <3>1. ASSUME NEW u \in Threads, removed[u] = Verifier(r.token) PROVE FALSE
      <4>1. removed[u] # None
        BY <3>1, RequestFields, NoneAssumption
      <4>2. pc[u] = "tombstone"
        BY <4>1 DEF TypeOK
      <4>3. ~Presents(req[u].device, Verifier(r.token))
        BY <1>2, <4>2 DEF Lookup, CarefulClients
      <4>4. QED
        BY <3>1, <4>1, <4>3 DEF Origin, PresentedRemoved
    <3>2. QED
      BY <1>2, <3>1 DEF Lookup, NotYetUsed, Marked
  <2>2. Replacing(t)'
    BY <2>1, <2>m, <2>n DEF Replacing
  <2>3. Replacements'
    BY <2>1, <2>2, <2>m, OthersReplacing DEF Replacements
  <2>4. Tombstones' /\ CurrentStored' /\ SupersededRevoked'
    BY <2>1, <2>m DEF RevocationInv, Tombstones, CurrentStored, Stored, SupersededRevoked
  <2>5. QED
    BY <2>3, <2>4 DEF RevocationInv
<1>3. ASSUME NEW t \in Threads, Busy(t), PairDevice(t),
             \A r \in PairRequests : ~Lookup(t, r)
      PROVE  RevocationInv'
  <2> DEFINE D == req[t].device
             V == Verifier(req[t].token)
  <2>0. /\ req[t] \in PairRequests /\ D \in Devices /\ V \in Verifiers
        /\ KeyOf(req[t]) \in PairKeys /\ KeyOf(req[t]) = <<D, req[t].key>>
    BY <1>3, RequestFields DEF TypeOK, KeyOf
  <2>p. Replacing(t)
    BY <1>3 DEF RevocationInv, Replacements
  <2>e. \A u \in Threads \ {t} : Busy(u) =>
          /\ req[u].device \in Devices \ {D}
          /\ Verifier(req[u].token) \in Verifiers \ {V}
    BY <1>3, RequestFields DEF Apart, Exclusive, TypeOK, Verifier
  <2>u. \A u \in Threads : pc[u] \notin {"idle", "notify"} =>
          registry.index[Verifier(req[u].token)] = None
    BY DEF Apart, TokenUnused
  (* Steps that leave the dictionaries alone.                              *)
  <2>1. ASSUME UNCHANGED <<registry, removed, current, superseded>>,
               \A u \in Threads \ {t} : pc'[u] = pc[u] /\ req'[u] = req[u] /\ stale'[u] = stale[u],
               durable.revoked \subseteq durable'.revoked,
               durable'.revoked \subseteq working'.revoked,
               working'.revoked \subseteq working.revoked \union VerifiersFor(registry, D),
               \A u \in Threads \ {t} : Busy(u) =>
                 LET d == req[u].device
                     v == Verifier(req[u].token)
                 IN /\ working.revoked \subseteq working'.revoked
                    /\ HasRow(working, d, v) => HasRow(working', d, v)
                    /\ HasRow(working, d, v) /\ HasRow(durable, d, v) => HasRow(durable', d, v),
               \A d \in Devices : current[d] # None => Stored(working, d)' /\ Stored(durable, d)',
               pc'[t] # "idle" => Replacing(t)'
        PROVE  RevocationInv'
    <3>0. Marked' = Marked
      BY <2>1, MarkedSame
    <3>1. Replacements'
      BY <2>1, <3>0, OthersReplacing DEF Replacements
    <3>2. Tombstones'
      BY <2>1, <3>0 DEF RevocationInv, Tombstones, VerifiersFor
    <3>3. CurrentStored' /\ SupersededRevoked'
      BY <2>1, <3>0 DEF RevocationInv, CurrentStored, SupersededRevoked
    <3>4. QED
      BY <3>1, <3>2, <3>3 DEF RevocationInv
  <2>s. \A d \in Devices : current[d] # None => Stored(working, d) /\ Stored(durable, d)
    BY DEF RevocationInv, CurrentStored
  <2>m. UNCHANGED <<registry, removed>> => Marked' = Marked
    BY MarkedSame
  <2>2. CASE CollectStale(t)
    <3>1. /\ pc[t] = "collect" /\ pc'[t] = "revoke" /\ UNCHANGED <<req, registry, removed, working, durable, current, superseded>>
          /\ stale'[t] = VerifiersFor(registry, D)
          /\ \A u \in Threads \ {t} : pc'[u] = pc[u] /\ stale'[u] = stale[u]
      BY <2>2 DEF CollectStale, Goto, TypeOK, connectionVars, historyVars
    <3>2. Replacing(t)'
      BY <2>m, <2>p, <3>1 DEF Replacing
    <3>3. QED
      BY <2>1, <2>s, <3>1, <3>2 DEF RevocationInv, Tombstones, Stored
  <2>3. CASE PersistRevoked(t)
    <3>1. PICK v \in stale[t] :
            /\ working' = [working EXCEPT !.revoked = @ \union {v}]
            /\ stale' = [stale EXCEPT ![t] = @ \ {v}]
      BY <2>3 DEF PersistRevoked, Execute
    <3>2. /\ pc[t] = "revoke" /\ UNCHANGED <<pc, req, registry, removed, durable, current, superseded>>
          /\ stale'[t] = stale[t] \ {v} /\ \A u \in Threads \ {t} : stale'[u] = stale[u]
          /\ working'.revoked = working.revoked \union {v} /\ working'.pairings = working.pairings
      BY <2>3, <3>1 DEF PersistRevoked, Execute, TypeOK, Database, historyVars
    <3>3. \A d, w : HasRow(working', d, w) <=> HasRow(working, d, w)
      BY <3>2 DEF HasRow, HoldsVerifier
    <3>4. Replacing(t)'
      BY <2>m, <2>p, <3>2 DEF Replacing
    <3>5. v \in VerifiersFor(registry, D)
      BY <2>m, <2>p, <3>2 DEF Replacing
    <3>6. QED
      BY <2>1, <2>s, <3>2, <3>3, <3>4, <3>5 DEF RevocationInv, Tombstones, Stored
  <2>4. CASE PersistDevice(t) \/ PersistAgentMachine(t) \/ PersistBinding(t)
    <3>1. /\ UNCHANGED <<registry, durable, req, stale, removed, current, superseded>>
          /\ pc[t] \in {"revoke", "machine", "binding"} /\ pc'[t] \in {"machine", "binding", "pairing"}
          /\ pc[t] = "revoke" => stale[t] = {}
          /\ \A u \in Threads \ {t} : pc'[u] = pc[u]
          /\ working'.pairings = working.pairings /\ working'.revoked = working.revoked
      BY <2>4 DEF PersistDevice, PersistAgentMachine, PersistBinding, Execute, Goto, TypeOK, Database, historyVars
    <3>2. \A d, w : HasRow(working', d, w) <=> HasRow(working, d, w)
      BY <3>1 DEF HasRow, HoldsVerifier
    <3>3. Replacing(t)'
      BY <2>m, <2>p, <3>1 DEF Replacing
    <3>4. QED
      BY <2>1, <2>s, <3>1, <3>2, <3>3 DEF RevocationInv, Tombstones, Stored
  <2>5. CASE PersistPairing(t)
    <3>1. /\ UNCHANGED <<registry, durable, req, stale, removed, current, superseded>>
          /\ pc[t] = "pairing" /\ pc'[t] = "commit" /\ \A u \in Threads \ {t} : pc'[u] = pc[u]
          /\ working'.pairings = ReplacePairing(working.pairings, req[t])
          /\ working'.revoked = working.revoked
          /\ working \in Database /\ working' \in Database
      BY <2>0, <2>5, ReplacePairingType DEF PersistPairing, Execute, Goto, TypeOK, Database, historyVars
    <3>2. HasRow(working', D, V)
      BY <2>0, <3>1, ReplaceAddsRow
    <3>3. \A d \in Devices \ {D}, v \in Verifiers \ {V} : HasRow(working, d, v) => HasRow(working', d, v)
      BY <2>0, <3>1, ReplaceKeepsRow
    <3>4. Replacing(t)'
      BY <2>m, <2>p, <3>1, <3>2 DEF Replacing
    <3>5. ASSUME NEW d \in Devices, current[d] # None PROVE Stored(working, d)'
      <4>1. CASE d = D
        <5>1. VerifiersFor(registry, D) \subseteq working.revoked
          BY <2>p, <3>1 DEF Replacing
        <5>2. Marked \subseteq working.revoked
          BY DEF RevocationInv, Tombstones
        <5>3. current[D] \in working.revoked
          BY <2>0, <3>5, <4>1, <5>1, <5>2 DEF RevocationInv, CurrentStored
        <5>4. QED
          BY <3>1, <4>1, <5>3 DEF Stored
      <4>2. CASE d # D
        <5>1. current[d] \in Marked \union VerifiersFor(registry, d)
          BY <3>5 DEF RevocationInv, CurrentStored
        <5>2. V \notin Marked /\ registry.index[V] = None
          BY <2>p, <2>u, <3>1 DEF Replacing
        <5>3. current[d] # V
          BY <5>1, <5>2 DEF VerifiersFor
        <5>4. QED
          BY <1>c, <2>s, <3>1, <3>3, <3>5, <4>2, <5>3 DEF Stored
      <4>3. QED
        BY <4>1, <4>2
    <3>6. QED
      BY <2>1, <2>e, <2>s, <3>1, <3>3, <3>4, <3>5 DEF RevocationInv, Tombstones, Stored
  <2>6. CASE CommitPairing(t)
    <3>1. /\ UNCHANGED <<registry, working, req, stale, removed, current, superseded>> /\ durable' = working
          /\ pc[t] = "commit" /\ pc'[t] = "invalidate" /\ \A u \in Threads \ {t} : pc'[u] = pc[u]
      BY <2>6 DEF CommitPairing, CommitBy, Commit, Goto, TypeOK
    <3>2. Replacing(t)'
      BY <2>m, <2>p, <3>1 DEF Replacing
    <3>3. QED
      BY <2>1, <2>s, <3>1, <3>2 DEF RevocationInv, Tombstones, Stored
  <2>7. CASE WriteFails(t)
    <3>1. /\ UNCHANGED <<registry, removed, durable, current, superseded>> /\ working' = durable
          /\ pc'[t] = "idle" /\ Others(t) = {}
          /\ \A u \in Threads \ {t} : pc'[u] = pc[u] /\ req'[u] = req[u] /\ stale'[u] = stale[u]
      BY <2>7 DEF WriteFails, Rollback, Finish, Goto, TypeOK
    <3>2. ASSUME NEW u \in Threads, Busy(u)' PROVE Replacing(u)'
      <4>1. u # t /\ Busy(u) /\ pc[u] \notin InTransaction
        BY <3>1, <3>2 DEF Others
      <4>2. Replacing(u)
        BY <4>1 DEF RevocationInv, Replacements
      <4>3. QED
        BY <2>m, <3>1, <4>1, <4>2 DEF Replacing, InTransaction
    <3>3. Tombstones' /\ CurrentStored' /\ SupersededRevoked'
      BY <2>m, <2>s, <3>1 DEF RevocationInv, Tombstones, CurrentStored, Stored, SupersededRevoked
    <3>4. QED
      BY <3>2, <3>3 DEF RevocationInv, Replacements
  <2>8. CASE Notify(t)
    <3>1. /\ UNCHANGED <<registry, removed, working, current, superseded>> /\ durable' = working
          /\ pc'[t] = "idle"
          /\ \A u \in Threads \ {t} : pc'[u] = pc[u] /\ req'[u] = req[u] /\ stale'[u] = stale[u]
      BY <2>8 DEF Notify, CommitBy, Commit, Finish, Goto, TypeOK
    <3>2. QED
      BY <2>1, <2>s, <3>1 DEF RevocationInv, Tombstones, Stored
  <2>9. CASE ScanBreaks(t)
    <3>1. /\ UNCHANGED <<registry, removed, working, durable, current, superseded>> /\ pc'[t] = "idle"
          /\ \A u \in Threads \ {t} : pc'[u] = pc[u] /\ req'[u] = req[u] /\ stale'[u] = stale[u]
      BY <2>9 DEF ScanBreaks, Finish, Goto, TypeOK, connectionVars
    <3>2. QED
      BY <2>1, <2>s, <3>1 DEF RevocationInv, Tombstones, Stored
  <2>15. CASE Invalidate(t)
    <3>1. /\ UNCHANGED <<registry, removed, working, durable, req, current, superseded>>
          /\ pc[t] = "invalidate" /\ pc'[t] = "remove"
          /\ \A u \in Threads \ {t} : pc'[u] = pc[u] /\ stale'[u] = stale[u]
      BY <2>15 DEF Invalidate, Goto, TypeOK, connectionVars, historyVars
    <3>2. Replacing(t)'
      BY <2>m, <2>p, <3>1 DEF Replacing
    <3>3. QED
      BY <2>1, <2>s, <3>1, <3>2 DEF RevocationInv, Tombstones, Stored
  (* The dictionaries.                                                     *)
  <2>10. ASSUME UNCHANGED <<working, durable>>,
                \A u \in Threads \ {t} : pc'[u] = pc[u] /\ req'[u] = req[u] /\ stale'[u] = stale[u],
                \A d \in Devices \ {D} : VerifiersFor(registry', d) = VerifiersFor(registry, d),
                \A v \in Marked' : v \in Marked \/ registry.index[v] # None,
                Tombstones', CurrentStored', SupersededRevoked', Replacing(t)'
         PROVE  RevocationInv'
    <3>1. ASSUME NEW u \in Threads \ {t}, Busy(u), pc[u] # "notify",
                 Verifier(req[u].token) \in Marked'
          PROVE  Verifier(req[u].token) \in Marked
      BY <2>u, <2>10, <3>1
    <3>2. Replacements'
      BY <2>e, <2>10, <3>1, OthersReplacing DEF Replacements
    <3>3. QED
      BY <2>10, <3>2 DEF RevocationInv
  <2>11. CASE RemoveToken(t)
    <3>1. /\ UNCHANGED <<working, durable, req, current, superseded>>
          /\ pc[t] = "remove" /\ pc'[t] = "tombstone" /\ \A u \in Threads \ {t} : pc'[u] = pc[u]
      BY <2>11 DEF RemoveToken, Goto, TypeOK, connectionVars, historyVars
    <3>2. PICK v \in VerifiersFor(registry, D) :
            /\ v \in Verifiers /\ registry.index[v] # None
            /\ \A w \in Verifiers : registry'.index[w] = IF w = v THEN None ELSE registry.index[w]
            /\ registry'.revoked = registry.revoked
            /\ removed'[t] = v
            /\ \A u \in Threads \ {t} : stale'[u] = stale[u] /\ removed'[u] = removed[u]
            /\ \A d \in Devices : VerifiersFor(registry', d) = VerifiersFor(registry, d) \ {v}
            /\ \A d \in Devices \ {D} : VerifiersFor(registry', d) = VerifiersFor(registry, d)
      BY <2>11, RemoveTokens
    <3>3. Marked' = Marked \union {v}
      BY <3>1, <3>2, MarkedRemove
    <3>4. v \in durable.revoked
      BY <2>p, <3>1, <3>2 DEF Replacing
    <3>5. working.revoked \subseteq Verifiers /\ Marked \subseteq Verifiers
      BY MarkedType DEF TypeOK, Database
    <3>6. Tombstones'
      BY <3>1, <3>2, <3>3, <3>4, <3>5 DEF RevocationInv, Tombstones
    <3>7. CurrentStored' /\ SupersededRevoked'
      BY <3>1, <3>2, <3>3 DEF RevocationInv, CurrentStored, SupersededRevoked, Stored
    <3>8. V # v
      BY <2>u, <3>1, <3>2
    <3>9. Replacing(t)'
      BY <2>0, <2>p, <3>1, <3>2, <3>3, <3>8 DEF Replacing
    <3>10. QED
      BY <2>10, <3>1, <3>2, <3>3, <3>6, <3>7, <3>9
  <2>16. CASE RemoveFails(t)
    BY <2>16, RemoveNeverFails
  <2>17. CASE TombstoneToken(t)
    <3>1. /\ UNCHANGED <<working, durable, req, stale, current, superseded>>
          /\ pc[t] = "tombstone" /\ pc'[t] = "remove" /\ \A u \in Threads \ {t} : pc'[u] = pc[u]
      BY <2>17 DEF TombstoneToken, Goto, TypeOK, connectionVars, historyVars
    <3>2. /\ registry'.index = registry.index /\ Marked' = Marked
          /\ \A d \in Devices : VerifiersFor(registry', d) = VerifiersFor(registry, d)
      BY <2>17, TombstoneTokens, MarkedTombstone
    <3>3. Tombstones' /\ CurrentStored' /\ SupersededRevoked'
      BY <3>1, <3>2 DEF RevocationInv, Tombstones, CurrentStored, SupersededRevoked, Stored
    <3>4. Replacing(t)'
      BY <2>0, <2>p, <3>1, <3>2 DEF Replacing
    <3>5. QED
      BY <2>10, <3>1, <3>2, <3>3, <3>4
  <2>12. CASE Publish(t)
    <3>1. /\ UNCHANGED <<working, durable, req, stale, removed, current, superseded>>
          /\ pc[t] = "remove" /\ stale[t] = {}
          /\ pc'[t] = "index" /\ \A u \in Threads \ {t} : pc'[u] = pc[u]
          /\ registry'.revoked = registry.revoked /\ registry'.index = registry.index
      BY <2>12 DEF Publish, Goto, TypeOK, Registry, connectionVars, historyVars
    <3>m. Marked' = Marked
      BY <3>1, MarkedSame
    <3>2. \A d \in Devices : VerifiersFor(registry', d) = VerifiersFor(registry, d)
      BY <2>12, <3>1, PublishTokens DEF Apart, Emptied
    <3>3. Tombstones' /\ CurrentStored' /\ SupersededRevoked'
      BY <3>1, <3>2, <3>m DEF RevocationInv, Tombstones, CurrentStored, SupersededRevoked, Stored
    <3>4. Replacing(t)'
      BY <2>p, <3>1, <3>m DEF Replacing
    <3>5. QED
      BY <2>10, <3>1, <3>2, <3>3, <3>4, <3>m
  <2>13. CASE IndexToken(t)
    <3>1. /\ UNCHANGED <<working, durable, req, stale, removed>>
          /\ pc[t] = "index" /\ pc'[t] = "notify" /\ \A u \in Threads \ {t} : pc'[u] = pc[u]
          /\ registry'.revoked = registry.revoked
          /\ \A v \in Verifiers : registry'.index[v] = IF v = V THEN KeyOf(req[t]) ELSE registry.index[v]
          /\ \A d \in Devices : current'[d] = IF d = D THEN V ELSE current[d]
          /\ superseded' = superseded \union ({current[D]} \ {None, V})
      BY <2>0, <2>13 DEF IndexToken, Goto, TypeOK, Registry, connectionVars
    <3>2. VerifiersFor(registry, D) = {}
      BY <3>1 DEF Apart, Emptied
    <3>3. \A d \in Devices :
            VerifiersFor(registry', d) = IF d = D THEN {V} ELSE VerifiersFor(registry, d)
      BY <2>13, <2>u, <3>1, <3>2, IndexTokens
    <3>4. KeyOf(req[t]) # None
      BY <2>0, NoneAssumption
    <3>m. Marked' = Marked
      BY <3>1, MarkedSame
    <3>5. /\ V \notin Marked
          /\ working.revoked \subseteq Verifiers /\ Marked \subseteq Verifiers
      BY <2>p, <3>1, MarkedType DEF Replacing, TypeOK, Database
    <3>6. Tombstones'
      BY <3>1, <3>4, <3>5, <3>m DEF RevocationInv, Tombstones
    <3>7. HasRow(working, D, V) /\ HasRow(durable, D, V)
      BY <2>p, <3>1 DEF Replacing
    <3>8. CurrentStored'
      BY <2>0, <3>1, <3>3, <3>7, <3>m DEF RevocationInv, CurrentStored, Stored
    <3>9. SupersededRevoked'
      BY <2>0, <3>1, <3>2, <3>m DEF RevocationInv, CurrentStored, SupersededRevoked
    <3>10. Replacing(t)'
      BY <3>1 DEF Replacing
    <3>11. QED
      BY <2>10, <3>1, <3>3, <3>6, <3>8, <3>9, <3>10, <3>m
  <2>14. QED
    BY <1>3, <2>2, <2>3, <2>4, <2>5, <2>6, <2>7, <2>8, <2>9, <2>11, <2>12, <2>13,
       <2>15, <2>16, <2>17 DEF PairDevice
<1>4. CASE UNCHANGED vars
  <2>1. UNCHANGED <<working, durable, registry, removed, pc, req, stale, current, superseded>>
    BY <1>4 DEF vars, connectionVars, threadVars, historyVars
  <2>m. Marked' = Marked
    BY <2>1, MarkedSame
  <2>2. Tombstones' /\ CurrentStored' /\ SupersededRevoked'
    BY <2>1, <2>m DEF RevocationInv, Tombstones, CurrentStored, Stored, SupersededRevoked
  <2>3. Replacements'
    BY <2>1, <2>m DEF RevocationInv, Replacements, Replacing
  <2>4. QED
    BY <2>2, <2>3 DEF RevocationInv
<1>5. ASSUME NEW t \in Threads, PairDevice(t), ~Busy(t), \A r \in PairRequests : ~Lookup(t, r)
      PROVE  FALSE
  BY <1>5 DEF PairDevice, CollectStale, PersistRevoked, PersistDevice, PersistAgentMachine,
     PersistBinding, PersistPairing, CommitPairing, WriteFails, ScanBreaks, Invalidate, RemoveToken, RemoveFails,
     TombstoneToken, Publish, IndexToken,
     Notify, InTransaction
<1>6. QED
  BY <1>1, <1>2, <1>3, <1>4, <1>5 DEF Next

LEMMA RevocationCorrect ==
  ASSUME CarefulClients
  PROVE  Spec => [](torn \/ RevocationInv)
<1>1. Init => RevocationInv
  <2> SUFFICES ASSUME Init PROVE RevocationInv
    OBVIOUS
  <2>1. /\ Marked = {} /\ working.revoked = {} /\ durable.revoked = {}
        /\ \A t \in Threads : pc[t] = "idle"
        /\ \A d \in Devices : current[d] = None
        /\ superseded = {}
    BY DEF Init, Load, EmptyDatabase, Marked
  <2>2. QED
    BY <2>1 DEF RevocationInv, Tombstones, Replacements, CurrentStored, SupersededRevoked, Busy
<1>2. TypeOK /\ WellKeyed /\ Apart /\ Origin /\ (torn \/ RevocationInv) /\ [Next]_vars
        => (torn \/ RevocationInv)'
  BY RevocationInductive, DisturbedStays
<1>3. QED
  BY <1>1, <1>2, TypeCorrect, WellKeyedCorrect, ApartCorrect, OriginCorrect, PTL DEF Spec

(* With careful clients, a token that a completed pairing replaced         *)
(* authenticates nothing ever again, in this process or in a later one,    *)
(* whatever crashes and whatever fails, unless a rollback has taken the    *)
(* statements of another request with it.                                  *)
THEOREM RevokedForever ==
  ASSUME CarefulClients
  PROVE  Spec => [](NoRevivalUnlessTorn /\ ~raced)
<1>1. TypeOK /\ WellKeyed /\ RevocationInv => NoRevival
  <2> SUFFICES ASSUME TypeOK, WellKeyed, RevocationInv, NEW v \in superseded, NEW d \in Devices
               PROVE  ~Authenticates(registry, d, v) /\ ~Authenticates(Restarted, d, v)
    BY DEF NoRevival
  <2>1. v \in Verifiers /\ v \in Marked /\ v \in durable.revoked
    BY DEF TypeOK, RevocationInv, SupersededRevoked, Tombstones
  <2>2. ~Authenticates(registry, d, v)
    BY <2>1 DEF RevocationInv, Tombstones, Authenticates, VerifiersFor
  <2>3. VerifiersFor(Restarted, d) = Live(durable, d)
    BY LiveIsRestarted DEF Restarted, TypeOK, WellKeyed
  <2>4. ~Authenticates(Restarted, d, v)
    BY <2>1, <2>3 DEF Authenticates, Live
  <2>5. QED
    BY <2>2, <2>4
<1>2. TypeOK /\ WellKeyed /\ (torn \/ RevocationInv) => NoRevivalUnlessTorn
  BY <1>1 DEF NoRevivalUnlessTorn
<1>3. QED
  BY <1>2, RevocationCorrect, TypeCorrect, WellKeyedCorrect, NeverRaced, PTL
-----------------------------------------------------------------------------
(* The dictionaries and the tables, field by field.  A request changes a   *)
(* field of the tables first and the same field of the dictionaries later; *)
(* these are the steps in between.                                         *)
PairingAhead == {"commit", "invalidate", "remove", "tombstone"}
BindingAhead == PairingAhead \union {"pairing"}
MachineAhead == BindingAhead \union {"binding"}
DeviceAhead == MachineAhead \union {"machine"}

DevicesAgree ==
  /\ \A t \in Threads :
       pc[t] \in DeviceAhead => working.devices[req[t].device] = req[t].buddy
  /\ \A d \in Devices :
       (\A t \in Threads : pc[t] \in DeviceAhead => req[t].device # d)
         => registry.devices[d] = working.devices[d]

MachinesAgree ==
  /\ \A t \in Threads :
       pc[t] \in MachineAhead => working.machines[req[t].machine] = req[t].endpoint
  /\ \A m \in Machines :
       (\A t \in Threads : pc[t] \in MachineAhead => req[t].machine # m)
         => registry.machines[m] = working.machines[m]

BindingsAgree ==
  /\ \A t \in Threads :
       pc[t] \in BindingAhead => working.bindings[req[t].buddy] = req[t].machine
  /\ \A b \in Buddies :
       (\A t \in Threads : pc[t] \in BindingAhead => req[t].buddy # b)
         => registry.bindings[b] = working.bindings[b]

RowOf(r) == [verifier |-> Verifier(r.token), pairing |-> PairingOf(r)]
PairingIn(db, pk) == IF db.pairings[pk] = None THEN None ELSE db.pairings[pk].pairing
PairingsAgree ==
  /\ \A t \in Threads :
       pc[t] \in PairingAhead \union {"index"} => working.pairings[KeyOf(req[t])] = RowOf(req[t])
  /\ \A pk \in PairKeys :
       (\A t \in Threads : pc[t] \in PairingAhead => KeyOf(req[t]) # pk)
         => registry.pairings[pk] = PairingIn(working, pk)

FieldsAgree == DevicesAgree /\ MachinesAgree /\ BindingsAgree /\ PairingsAgree

(* A token in the index has its row, and a token with a tombstone leaves   *)
(* the index before its pairing is over.                                   *)
IndexedRows ==
  \A v \in Verifiers : registry.index[v] # None => HoldsVerifier(working, registry.index[v], v)
TombstonesExplained ==
  \A v \in working.revoked : v \in Marked
    \/ \E t \in Threads : /\ pc[t] \in InTransaction \union {"invalidate", "remove", "tombstone"}
                          /\ v \in VerifiersFor(registry, req[t].device)
TokensAgree == IndexedRows /\ TombstonesExplained

(* The committed tables.  What they have and the dictionaries have not is  *)
(* of the requests that are between their commit and the dictionaries, or  *)
(* whose open transaction another request has committed.                   *)
CommittedAhead == {t \in Threads : pc[t] \in {"invalidate", "remove", "tombstone"}} \union parted

CommittedDevices ==
  /\ \A t \in Threads :
       pc[t] \in {"invalidate", "remove", "tombstone"} => durable.devices[req[t].device] = req[t].buddy
  /\ \A d \in Devices :
       (\A t \in CommittedAhead : req[t].device # d) => registry.devices[d] = durable.devices[d]

CommittedMachines ==
  /\ \A t \in Threads :
       pc[t] \in {"invalidate", "remove", "tombstone"} => durable.machines[req[t].machine] = req[t].endpoint
  /\ \A m \in Machines :
       (\A t \in CommittedAhead : req[t].machine # m) => registry.machines[m] = durable.machines[m]

CommittedBindings ==
  /\ \A t \in Threads :
       pc[t] \in {"invalidate", "remove", "tombstone"} => durable.bindings[req[t].buddy] = req[t].machine
  /\ \A b \in Buddies :
       (\A t \in CommittedAhead : req[t].buddy # b) => registry.bindings[b] = durable.bindings[b]

CommittedPairings ==
  /\ \A t \in Threads :
       pc[t] \in {"invalidate", "remove", "tombstone", "index"} =>
         durable.pairings[KeyOf(req[t])] = RowOf(req[t])
  /\ \A pk \in PairKeys :
       (\A t \in CommittedAhead : KeyOf(req[t]) # pk)
         => registry.pairings[pk] = PairingIn(durable, pk)

CommittedFields ==
  CommittedDevices /\ CommittedMachines /\ CommittedBindings /\ CommittedPairings

CommittedRows ==
  \A v \in Verifiers : registry.index[v] # None => HoldsVerifier(durable, registry.index[v], v)
CommittedTombstones ==
  \A v \in durable.revoked : v \in Marked
    \/ \E t \in Threads : /\ pc[t] \in {"invalidate", "remove", "tombstone"} \/ t \in parted
                          /\ v \in VerifiersFor(registry, req[t].device)
CommittedTokens == CommittedRows /\ CommittedTombstones

(* Who is at work, and what a rollback finds.                              *)
RecordsApart ==
  \A t, u \in Threads : t # u /\ Busy(t) /\ Busy(u) =>
    req[t].buddy # req[u].buddy /\ req[t].machine # req[u].machine
KeyFree ==
  \A t \in Threads : pc[t] \notin {"idle", "index", "notify"} =>
    registry.pairings[KeyOf(req[t])] = None
QuietCommitted == Quiescent => working = durable
Serial == Overlaps = {}
SerialCommitted ==
  Serial => /\ \A t, u \in Threads : Busy(t) /\ Busy(u) => t = u
            /\ IF \E t \in Threads : pc[t] \in InTransaction
               THEN registry = Restarted ELSE durable = working
WorkInv == RecordsApart /\ KeyFree /\ QuietCommitted /\ SerialCommitted

TokenInvs == TypeOK /\ WellKeyed /\ Apart /\ TokensInv /\ RevocationInv
AgreementInv == WorkInv /\ FieldsAgree /\ TokensAgree /\ CommittedFields /\ CommittedTokens

-----------------------------------------------------------------------------
(* What a start makes of the tables agrees with them.                      *)
LEMMA RestoredAgrees ==
  ASSUME TypeOK, WellKeyed, working' = durable, registry' = Load(durable),
         \A t \in Threads : pc'[t] = "idle"
  PROVE  FieldsAgree' /\ TokensAgree'
<1>1. durable \in Database /\ RowsWellKeyed(durable)
  BY DEF TypeOK, WellKeyed
<1>2. /\ registry'.devices = durable.devices /\ registry'.machines = durable.machines
      /\ registry'.bindings = durable.bindings /\ registry'.revoked = durable.revoked
      /\ \A pk \in PairKeys : registry'.pairings[pk] = PairingIn(durable, pk)
  BY DEF Load, PairingIn
<1>3. FieldsAgree'
  BY <1>2 DEF FieldsAgree, DevicesAgree, MachinesAgree, BindingsAgree, PairingsAgree,
     PairingAhead, BindingAhead, MachineAhead, DeviceAhead, PairingIn
<1>4. IndexedRows'
  BY <1>1, LoadWellKeyed DEF IndexedRows
<1>5. TombstonesExplained'
  BY <1>2 DEF TombstonesExplained, Marked
<1>6. QED
  BY <1>3, <1>4, <1>5 DEF TokensAgree

(* When no request is between its transaction and its index entry, the     *)
(* dictionaries are what a start would make of the tables.                 *)
LEMMA SettledAgrees ==
  ASSUME TokenInvs, FieldsAgree, TokensAgree,
         \A t \in Threads : pc[t] \in {"idle", "collect", "notify"}
  PROVE  registry = Load(working)
<1> DEFINE new == Load(working)
<1>1. /\ working \in Database /\ RowsWellKeyed(working)
      /\ registry \in Registry /\ new \in Registry
  BY LoadType DEF TokenInvs, TypeOK, WellKeyed
<1>2. \A t \in Threads : /\ pc[t] \notin DeviceAhead /\ pc[t] \notin MachineAhead
                         /\ pc[t] \notin BindingAhead /\ pc[t] \notin PairingAhead
                         /\ pc[t] \notin InTransaction \union {"invalidate", "remove", "tombstone"}
  BY DEF PairingAhead, BindingAhead, MachineAhead, DeviceAhead, InTransaction
<1>3. registry.devices = new.devices
  <2>1. \A d \in Devices : registry.devices[d] = working.devices[d]
    BY <1>2 DEF FieldsAgree, DevicesAgree
  <2>2. registry.devices \in [Devices -> Buddies \union {None}] /\ working.devices \in [Devices -> Buddies \union {None}]
    BY <1>1 DEF Database, Registry
  <2>3. registry.devices = working.devices
    BY <2>1, <2>2
  <2>4. QED
    BY <2>3 DEF Load
<1>4. registry.machines = new.machines
  <2>1. \A m \in Machines : registry.machines[m] = working.machines[m]
    BY <1>2 DEF FieldsAgree, MachinesAgree
  <2>2. registry.machines \in [Machines -> Endpoints \union {None}] /\ working.machines \in [Machines -> Endpoints \union {None}]
    BY <1>1 DEF Database, Registry
  <2>3. registry.machines = working.machines
    BY <2>1, <2>2
  <2>4. QED
    BY <2>3 DEF Load
<1>5. registry.bindings = new.bindings
  <2>1. \A b \in Buddies : registry.bindings[b] = working.bindings[b]
    BY <1>2 DEF FieldsAgree, BindingsAgree
  <2>2. registry.bindings \in [Buddies -> Machines \union {None}] /\ working.bindings \in [Buddies -> Machines \union {None}]
    BY <1>1 DEF Database, Registry
  <2>3. registry.bindings = working.bindings
    BY <2>1, <2>2
  <2>4. QED
    BY <2>3 DEF Load
<1>6. registry.pairings = new.pairings
  <2>1. \A pk \in PairKeys : registry.pairings[pk] = PairingIn(working, pk)
    BY <1>2 DEF FieldsAgree, PairingsAgree
  <2>2. new.pairings = [pk \in PairKeys |-> PairingIn(working, pk)]
    BY DEF Load, PairingIn
  <2>3. QED
    BY <1>1, <2>1, <2>2 DEF Registry
<1>7. registry.revoked = working.revoked
  <2>1. Marked = registry.revoked
    BY <1>2, MarkedNow DEF TokenInvs, TypeOK
  <2>2. QED
    BY <1>2, <2>1 DEF TokenInvs, RevocationInv, Tombstones, TokensAgree, TombstonesExplained
<1>8. ASSUME NEW v \in Verifiers PROVE registry.index[v] = new.index[v]
  <2>1. new.index[v] = IF /\ v \notin working.revoked
                          /\ \E pk \in PairKeys : HoldsVerifier(working, pk, v)
                       THEN CHOOSE pk \in PairKeys : HoldsVerifier(working, pk, v)
                       ELSE None
    BY DEF Load
  <2>2. CASE registry.index[v] # None
    <3>1. v \notin working.revoked
      BY <1>7, <2>2 DEF TokenInvs, RevocationInv, Tombstones, Marked
    <3>2. registry.index[v] \in PairKeys /\ HoldsVerifier(working, registry.index[v], v)
      BY <1>1, <2>2 DEF TokensAgree, IndexedRows, Registry
    <3>3. \A pk \in PairKeys : HoldsVerifier(working, pk, v) => pk = registry.index[v]
      BY <1>1, <3>2 DEF RowsWellKeyed
    <3>4. QED
      BY <2>1, <3>1, <3>2, <3>3
  <2>3. CASE registry.index[v] = None
    <3>1. ASSUME v \notin working.revoked, NEW pk \in PairKeys, HoldsVerifier(working, pk, v)
          PROVE  FALSE
      <4>1. PICK d \in Devices, k \in Keys : pk = <<d, k>>
        BY DEF PairKeys
      <4>2. v \in Live(working, d)
        BY <3>1, <4>1 DEF Live
      <4>3. Live(working, d) \subseteq VerifiersFor(registry, d)
        <5>1. CASE Unserved(d)
          BY <5>1 DEF TokenInvs, TokensInv, UnservedDevices
        <5>2. CASE ~Unserved(d)
          <6>1. PICK t \in Threads : Busy(t) /\ req[t].device = d
            BY <5>2 DEF Unserved
          <6>2. QED
            BY <6>1 DEF Busy, TokenInvs, TokensInv, ServedDevices, Progress
        <5>3. QED
          BY <5>1, <5>2
      <4>4. QED
        BY <2>3, <4>2, <4>3 DEF VerifiersFor
    <3>2. QED
      BY <2>1, <2>3, <3>1
  <2>4. QED
    BY <2>2, <2>3
<1>9. registry.index = new.index
  BY <1>1, <1>8 DEF Registry
<1>10. new.revoked = working.revoked
  BY DEF Load
<1>11. QED
  BY <1>1, <1>3, <1>4, <1>5, <1>6, <1>7, <1>9, <1>10 DEF Registry

-----------------------------------------------------------------------------
(* A step after which the same requests are ahead as before.               *)
Keeps(ahead) ==
  \A u \in Threads : (pc'[u] \in ahead <=> pc[u] \in ahead) /\ (pc'[u] \in ahead => req'[u] = req[u])

LEMMA DevicesSame ==
  ASSUME DevicesAgree, Keeps(DeviceAhead),
         working'.devices = working.devices, registry'.devices = registry.devices
  PROVE  DevicesAgree'
BY DEF DevicesAgree, Keeps

LEMMA MachinesSame ==
  ASSUME MachinesAgree, Keeps(MachineAhead),
         working'.machines = working.machines, registry'.machines = registry.machines
  PROVE  MachinesAgree'
BY DEF MachinesAgree, Keeps

LEMMA BindingsSame ==
  ASSUME BindingsAgree, Keeps(BindingAhead),
         working'.bindings = working.bindings, registry'.bindings = registry.bindings
  PROVE  BindingsAgree'
BY DEF BindingsAgree, Keeps

LEMMA PairingsSame ==
  ASSUME PairingsAgree, Keeps(PairingAhead),
         \A u \in Threads : pc'[u] = "index" => pc[u] = "index" /\ req'[u] = req[u],
         working'.pairings = working.pairings, registry'.pairings = registry.pairings
  PROVE  PairingsAgree'
BY DEF PairingsAgree, PairingIn, Keeps

(* Until its row is written, no row holds the token that a request brings. *)
LEMMA TokenFresh ==
  ASSUME TokenInvs, NEW t \in Threads,
         pc[t] \in {"collect", "revoke", "machine", "binding", "pairing"}
  PROVE  \A pk \in PairKeys : ~HoldsVerifier(working, pk, Verifier(req[t].token))
<1> DEFINE V == Verifier(req[t].token)
<1> SUFFICES ASSUME NEW pk \in PairKeys, HoldsVerifier(working, pk, V) PROVE FALSE
  OBVIOUS
<1>1. Busy(t) /\ req[t] \in PairRequests /\ V \in Verifiers /\ registry.index[V] = None
  BY RequestFields DEF Busy, TokenInvs, TypeOK, Apart, TokenUnused
<1>2. V \notin working.revoked
  BY <1>1 DEF TokenInvs, RevocationInv, Tombstones, Replacements, Replacing
<1>3. PICK d \in Devices, k \in Keys : pk = <<d, k>>
  BY DEF PairKeys
<1>4. V \in Live(working, d)
  BY <1>1, <1>2, <1>3 DEF Live
<1>5. V \notin VerifiersFor(registry, d)
  BY <1>1 DEF VerifiersFor
<1>6. ~Unserved(d)
  BY <1>4, <1>5 DEF TokenInvs, TokensInv, UnservedDevices
<1>7. PICK u \in Threads : Busy(u) /\ req[u].device = d
  BY <1>6 DEF Unserved
<1>8. Progress(u) /\ pc[u] \in Steps \ {"idle"}
  BY <1>7 DEF TokenInvs, TokensInv, ServedDevices, TypeOK, Busy
<1>9. pc[u] \in {"commit", "invalidate", "remove", "tombstone", "index"} /\ V = Verifier(req[u].token)
  BY <1>4, <1>5, <1>7, <1>8 DEF Progress, Steps, InTransaction
<1>10. u # t /\ req[u].token = req[t].token
  BY <1>9 DEF Verifier
<1>11. QED
  BY <1>1, <1>7, <1>10 DEF TokenInvs, Apart, Exclusive

(* A rollback that takes no other request's statements leaves the tables   *)
(* in agreement with the dictionaries.                                     *)
LEMMA RolledBack ==
  ASSUME TokenInvs, AgreementInv, NEW t \in Threads, WriteFails(t), ~Disturbed'
  PROVE  FieldsAgree' /\ TokensAgree'
<1>1. /\ UNCHANGED <<registry, removed>> /\ working' = durable /\ pc'[t] = "idle"
      /\ pc[t] \in InTransaction \union {"notify"}
      /\ \A u \in Threads \ {t} : pc'[u] = pc[u] /\ req'[u] = req[u]
      /\ Others(t) = {} /\ t \notin parted
  BY DEF WriteFails, Rollback, Finish, Goto, Disturbed, TokenInvs, TypeOK
<1>2. parted = {}
  BY <1>1 DEF TokenInvs, TypeOK, Apart, PartedOpen, Others
<1>3. \A u \in Threads :
        /\ pc[u] \in {"invalidate", "remove", "tombstone", "index"} => pc'[u] = pc[u] /\ req'[u] = req[u]
        /\ pc'[u] \in DeviceAhead \union {"index"} =>
             pc[u] \in {"invalidate", "remove", "tombstone", "index"} /\ pc'[u] = pc[u] /\ req'[u] = req[u]
  <2> SUFFICES ASSUME NEW u \in Threads
               PROVE  /\ pc[u] \in {"invalidate", "remove", "tombstone", "index"} => pc'[u] = pc[u] /\ req'[u] = req[u]
                      /\ pc'[u] \in DeviceAhead \union {"index"} =>
                           /\ pc[u] \in {"invalidate", "remove", "tombstone", "index"}
                           /\ pc'[u] = pc[u] /\ req'[u] = req[u]
    OBVIOUS
  <2>1. CASE u = t
    BY <1>1, <2>1 DEF InTransaction, PairingAhead, BindingAhead, MachineAhead, DeviceAhead
  <2>2. CASE u # t
    BY <1>1, <2>2 DEF Others, InTransaction, PairingAhead, BindingAhead, MachineAhead, DeviceAhead
  <2>3. QED
    BY <2>1, <2>2
<1>4. /\ {"invalidate", "remove", "tombstone"} \subseteq PairingAhead /\ PairingAhead \subseteq DeviceAhead
      /\ BindingAhead \subseteq DeviceAhead /\ MachineAhead \subseteq DeviceAhead
      /\ PairingAhead \subseteq BindingAhead /\ PairingAhead \subseteq MachineAhead
      /\ "index" \notin DeviceAhead
  BY DEF PairingAhead, BindingAhead, MachineAhead, DeviceAhead
<1>5. CommittedAhead = {u \in Threads : pc[u] \in {"invalidate", "remove", "tombstone"}}
  BY <1>2 DEF CommittedAhead
<1>6. DevicesAgree'
  BY <1>1, <1>3, <1>4, <1>5 DEF AgreementInv, CommittedFields, CommittedDevices, DevicesAgree
<1>7. MachinesAgree'
  BY <1>1, <1>3, <1>4, <1>5 DEF AgreementInv, CommittedFields, CommittedMachines, MachinesAgree
<1>8. BindingsAgree'
  BY <1>1, <1>3, <1>4, <1>5 DEF AgreementInv, CommittedFields, CommittedBindings, BindingsAgree
<1>9. PairingsAgree'
  BY <1>1, <1>3, <1>4, <1>5 DEF AgreementInv, CommittedFields, CommittedPairings, PairingsAgree, PairingIn
<1>10. IndexedRows'
  BY <1>1 DEF AgreementInv, CommittedTokens, CommittedRows, IndexedRows
<1>11. TombstonesExplained'
  BY <1>1, <1>2, <1>3, MarkedSame DEF AgreementInv, CommittedTokens, CommittedTombstones, TombstonesExplained
<1>12. QED
  BY <1>6, <1>7, <1>8, <1>9, <1>10, <1>11 DEF FieldsAgree, TokensAgree

LEMMA FieldsServe ==
  ASSUME TokenInvs, AgreementInv, NEW t \in Threads, Busy(t), PairDevice(t),
         \A r \in PairRequests : ~Lookup(t, r), ~Disturbed'
  PROVE  FieldsAgree'
<1> DEFINE D == req[t].device
           B == req[t].buddy
           M == req[t].machine
           E == req[t].endpoint
           K == KeyOf(req[t])
<1> USE DEF Busy
<1>0. /\ req[t] \in PairRequests /\ D \in Devices /\ B \in Buddies /\ M \in Machines /\ K \in PairKeys
      /\ E \in Endpoints
      /\ PairingOf(req[t]) \in Pairing /\ Verifier(req[t].token) \in Verifiers
  BY RequestFields DEF TokenInvs, TypeOK
<1>1. /\ working \in Database /\ registry \in Registry
      /\ pc \in [Threads -> Steps] /\ req \in [Threads -> PairRequests \union {None}]
      /\ DevicesAgree /\ MachinesAgree /\ BindingsAgree /\ PairingsAgree
  BY DEF TokenInvs, TypeOK, AgreementInv, FieldsAgree
<1>2. \A u \in Threads \ {t} : Busy(u) =>
        /\ req[u].device # D /\ req[u].buddy # B /\ req[u].machine # M
        /\ req[u].token # req[t].token /\ KeyOf(req[u]) # K
        /\ req[u] \in PairRequests
  BY DEF TokenInvs, TypeOK, Apart, Exclusive, AgreementInv, WorkInv, RecordsApart, KeyOf
<1>3. \A u \in Threads :
        /\ pc[u] \in PairingAhead \union {"index"} => Busy(u)
        /\ pc[u] \in BindingAhead => Busy(u)
        /\ pc[u] \in MachineAhead => Busy(u)
        /\ pc[u] \in DeviceAhead => Busy(u)
  BY DEF PairingAhead, BindingAhead, MachineAhead, DeviceAhead
<1> USE DEF Goto
(* Steps that touch neither these tables nor these dictionaries.           *)
<1>4. ASSUME working'.devices = working.devices, registry'.devices = registry.devices,
             working'.machines = working.machines, registry'.machines = registry.machines,
             working'.bindings = working.bindings, registry'.bindings = registry.bindings,
             working'.pairings = working.pairings, registry'.pairings = registry.pairings,
             Keeps(DeviceAhead), Keeps(MachineAhead), Keeps(BindingAhead), Keeps(PairingAhead),
             \A u \in Threads : pc'[u] = "index" => pc[u] = "index" /\ req'[u] = req[u]
      PROVE  FieldsAgree'
  BY <1>1, <1>4, DevicesSame, MachinesSame, BindingsSame, PairingsSame DEF FieldsAgree
<1>5. ASSUME \A u \in Threads \ {t} : pc'[u] = pc[u] /\ req'[u] = req[u],
             pc'[t] # "idle" => req'[t] = req[t]
      PROVE  \A ahead : "idle" \notin ahead /\ (pc'[t] \in ahead <=> pc[t] \in ahead) => Keeps(ahead)
  BY <1>5 DEF Keeps
<1>i. "idle" \notin DeviceAhead /\ "idle" \notin MachineAhead /\ "idle" \notin BindingAhead
      /\ "idle" \notin PairingAhead
  BY DEF PairingAhead, BindingAhead, MachineAhead, DeviceAhead
<1>6. ASSUME UNCHANGED <<working, registry>>,
             \A u \in Threads \ {t} : pc'[u] = pc[u] /\ req'[u] = req[u],
             pc'[t] # "idle" => req'[t] = req[t], pc'[t] # "index",
             \/ {pc[t], pc'[t]} \subseteq {"idle", "collect", "revoke", "index", "notify"}
             \/ {pc[t], pc'[t]} \subseteq PairingAhead
      PROVE  FieldsAgree'
  <2>1. \A ahead \in {DeviceAhead, MachineAhead, BindingAhead, PairingAhead} :
          pc'[t] \in ahead <=> pc[t] \in ahead
    BY <1>6 DEF PairingAhead, BindingAhead, MachineAhead, DeviceAhead
  <2>2. Keeps(DeviceAhead) /\ Keeps(MachineAhead) /\ Keeps(BindingAhead) /\ Keeps(PairingAhead)
    BY <1>5, <1>6, <1>i, <2>1
  <2>3. \A u \in Threads : pc'[u] = "index" => pc[u] = "index" /\ req'[u] = req[u]
    BY <1>6
  <2>4. QED
    BY <1>4, <1>6, <2>2, <2>3
<1>7. CASE CollectStale(t)
  <2>1. /\ UNCHANGED <<working, registry, req>> /\ pc[t] = "collect" /\ pc'[t] = "revoke"
        /\ \A u \in Threads \ {t} : pc'[u] = pc[u]
    BY <1>1, <1>7 DEF CollectStale, connectionVars
  <2>2. QED
    BY <1>6, <2>1
<1>8. CASE PersistRevoked(t)
  <2>1. /\ UNCHANGED <<registry, pc, req>>
        /\ working'.devices = working.devices /\ working'.machines = working.machines
        /\ working'.bindings = working.bindings /\ working'.pairings = working.pairings
    BY <1>1, <1>8 DEF PersistRevoked, Execute, Database
  <2>2. QED
    BY <1>4, <2>1 DEF Keeps
<1>9. CASE PersistDevice(t)
  <2>1. /\ UNCHANGED <<registry, req>> /\ pc[t] = "revoke" /\ pc'[t] = "machine"
        /\ \A u \in Threads \ {t} : pc'[u] = pc[u]
        /\ \A d \in Devices : working'.devices[d] = IF d = D THEN B ELSE working.devices[d]
        /\ working'.machines = working.machines
        /\ working'.bindings = working.bindings /\ working'.pairings = working.pairings
    BY <1>0, <1>1, <1>9 DEF PersistDevice, Execute, Database
  <2>2. pc'[t] \in DeviceAhead /\ Keeps(MachineAhead) /\ Keeps(BindingAhead) /\ Keeps(PairingAhead)
    BY <2>1 DEF PairingAhead, BindingAhead, MachineAhead, DeviceAhead, Keeps
  <2>3. DevicesAgree'
    <3>1. ASSUME NEW u \in Threads, pc'[u] \in DeviceAhead
          PROVE  working'.devices[req'[u].device] = req'[u].buddy
      BY <1>0, <1>1, <1>2, <1>3, <2>1, <3>1, RequestFields DEF DevicesAgree
    <3>2. ASSUME NEW d \in Devices, \A u \in Threads : pc'[u] \in DeviceAhead => req'[u].device # d
          PROVE  registry'.devices[d] = working'.devices[d]
      <4>1. d # D
        BY <2>1, <2>2, <3>2
      <4>2. \A u \in Threads : pc[u] \in DeviceAhead => req[u].device # d
        BY <2>1, <2>2, <3>2
      <4>3. QED
        BY <1>1, <2>1, <4>1, <4>2 DEF DevicesAgree
    <3>3. QED
      BY <3>1, <3>2 DEF DevicesAgree
  <2>4. MachinesAgree' /\ BindingsAgree' /\ PairingsAgree'
    BY <1>1, <2>1, <2>2, MachinesSame, BindingsSame, PairingsSame
  <2>5. QED
    BY <2>3, <2>4 DEF FieldsAgree
<1>10. CASE PersistAgentMachine(t)
  <2>1. /\ UNCHANGED <<registry, req>> /\ pc[t] = "machine" /\ pc'[t] = "binding"
        /\ \A u \in Threads \ {t} : pc'[u] = pc[u]
        /\ \A m \in Machines : working'.machines[m] = IF m = M THEN E ELSE working.machines[m]
        /\ working'.devices = working.devices
        /\ working'.bindings = working.bindings /\ working'.pairings = working.pairings
    BY <1>0, <1>1, <1>10 DEF PersistAgentMachine, Execute, Database
  <2>2. pc'[t] \in MachineAhead /\ Keeps(DeviceAhead) /\ Keeps(BindingAhead) /\ Keeps(PairingAhead)
    BY <2>1 DEF PairingAhead, BindingAhead, MachineAhead, DeviceAhead, Keeps
  <2>3. MachinesAgree'
    <3>1. ASSUME NEW u \in Threads, pc'[u] \in MachineAhead
          PROVE  working'.machines[req'[u].machine] = req'[u].endpoint
      BY <1>0, <1>1, <1>2, <1>3, <2>1, <3>1, RequestFields DEF MachinesAgree
    <3>2. ASSUME NEW m \in Machines, \A u \in Threads : pc'[u] \in MachineAhead => req'[u].machine # m
          PROVE  registry'.machines[m] = working'.machines[m]
      <4>1. m # M
        BY <2>1, <2>2, <3>2
      <4>2. \A u \in Threads : pc[u] \in MachineAhead => req[u].machine # m
        BY <2>1, <2>2, <3>2
      <4>3. QED
        BY <1>1, <2>1, <4>1, <4>2 DEF MachinesAgree
    <3>3. QED
      BY <3>1, <3>2 DEF MachinesAgree
  <2>4. DevicesAgree' /\ BindingsAgree' /\ PairingsAgree'
    BY <1>1, <2>1, <2>2, DevicesSame, BindingsSame, PairingsSame
  <2>5. QED
    BY <2>3, <2>4 DEF FieldsAgree
<1>11. CASE PersistBinding(t)
  <2>1. /\ UNCHANGED <<registry, req>> /\ pc[t] = "binding" /\ pc'[t] = "pairing"
        /\ \A u \in Threads \ {t} : pc'[u] = pc[u]
        /\ \A b \in Buddies : working'.bindings[b] = IF b = B THEN M ELSE working.bindings[b]
        /\ working'.devices = working.devices
        /\ working'.machines = working.machines /\ working'.pairings = working.pairings
    BY <1>0, <1>1, <1>11 DEF PersistBinding, Execute, Database
  <2>2. pc'[t] \in BindingAhead /\ Keeps(DeviceAhead) /\ Keeps(MachineAhead) /\ Keeps(PairingAhead)
    BY <2>1 DEF PairingAhead, BindingAhead, MachineAhead, DeviceAhead, Keeps
  <2>3. BindingsAgree'
    <3>1. ASSUME NEW u \in Threads, pc'[u] \in BindingAhead
          PROVE  working'.bindings[req'[u].buddy] = req'[u].machine
      BY <1>0, <1>1, <1>2, <1>3, <2>1, <3>1, RequestFields DEF BindingsAgree
    <3>2. ASSUME NEW b \in Buddies, \A u \in Threads : pc'[u] \in BindingAhead => req'[u].buddy # b
          PROVE  registry'.bindings[b] = working'.bindings[b]
      <4>1. b # B
        BY <2>1, <2>2, <3>2
      <4>2. \A u \in Threads : pc[u] \in BindingAhead => req[u].buddy # b
        BY <2>1, <2>2, <3>2
      <4>3. QED
        BY <1>1, <2>1, <4>1, <4>2 DEF BindingsAgree
    <3>3. QED
      BY <3>1, <3>2 DEF BindingsAgree
  <2>4. DevicesAgree' /\ MachinesAgree' /\ PairingsAgree'
    BY <1>1, <2>1, <2>2, DevicesSame, MachinesSame, PairingsSame
  <2>5. QED
    BY <2>3, <2>4 DEF FieldsAgree
<1>12. CASE PersistPairing(t)
  <2>1. /\ UNCHANGED <<registry, req>> /\ pc[t] = "pairing" /\ pc'[t] = "commit"
        /\ \A u \in Threads \ {t} : pc'[u] = pc[u]
        /\ working'.pairings = ReplacePairing(working.pairings, req[t])
        /\ working'.devices = working.devices
        /\ working'.machines = working.machines /\ working'.bindings = working.bindings
    BY <1>1, <1>12 DEF PersistPairing, Execute, Database
  <2>2. pc'[t] \in PairingAhead /\ Keeps(DeviceAhead) /\ Keeps(MachineAhead) /\ Keeps(BindingAhead)
    BY <2>1 DEF PairingAhead, BindingAhead, MachineAhead, DeviceAhead, Keeps
  <2>3. \A pk \in PairKeys : ~HoldsVerifier(working, pk, Verifier(req[t].token))
    BY <2>1, TokenFresh
  <2>4. \A pk \in PairKeys : working'.pairings[pk] = IF pk = K THEN RowOf(req[t]) ELSE working.pairings[pk]
    BY <2>1, <2>3 DEF ReplacePairing, HoldsVerifier, RowOf
  <2>5. PairingsAgree'
    <3>1. ASSUME NEW u \in Threads, pc'[u] \in PairingAhead \union {"index"}
          PROVE  working'.pairings[KeyOf(req'[u])] = RowOf(req'[u])
      BY <1>0, <1>1, <1>2, <1>3, <2>1, <2>4, <3>1, RequestFields DEF PairingsAgree
    <3>2. ASSUME NEW pk \in PairKeys, \A u \in Threads : pc'[u] \in PairingAhead => KeyOf(req'[u]) # pk
          PROVE  registry'.pairings[pk] = PairingIn(working', pk)
      <4>1. pk # K
        BY <2>1, <2>2, <3>2
      <4>2. \A u \in Threads : pc[u] \in PairingAhead => KeyOf(req[u]) # pk
        BY <2>1, <2>2, <3>2
      <4>3. QED
        BY <1>1, <2>1, <2>4, <4>1, <4>2 DEF PairingsAgree, PairingIn
    <3>3. QED
      BY <3>1, <3>2 DEF PairingsAgree
  <2>6. DevicesAgree' /\ MachinesAgree' /\ BindingsAgree'
    BY <1>1, <2>1, <2>2, DevicesSame, MachinesSame, BindingsSame
  <2>7. QED
    BY <2>5, <2>6 DEF FieldsAgree
<1>13. CASE CommitPairing(t)
  <2>1. /\ UNCHANGED <<working, registry, req>> /\ pc[t] = "commit" /\ pc'[t] = "invalidate"
        /\ \A u \in Threads \ {t} : pc'[u] = pc[u]
    BY <1>1, <1>13 DEF CommitPairing, CommitBy, Commit
  <2>2. QED
    BY <1>6, <2>1 DEF PairingAhead
<1>14. CASE WriteFails(t)
  BY <1>14, RolledBack
<1>15. CASE ScanBreaks(t)
  <2>1. /\ UNCHANGED <<working, registry>> /\ pc'[t] = "idle" /\ pc[t] = "collect"
        /\ \A u \in Threads \ {t} : pc'[u] = pc[u] /\ req'[u] = req[u]
    BY <1>1, <1>15 DEF ScanBreaks, Finish, connectionVars, Disturbed
  <2>2. QED
    BY <1>6, <2>1
<1>16. CASE Invalidate(t)
  <2>1. /\ UNCHANGED <<working, registry, req>> /\ pc[t] = "invalidate" /\ pc'[t] = "remove"
        /\ \A u \in Threads \ {t} : pc'[u] = pc[u]
    BY <1>1, <1>16 DEF Invalidate, connectionVars
  <2>2. QED
    BY <1>6, <2>1 DEF PairingAhead
<1>21. CASE RemoveToken(t)
  <2>1. /\ registry'.devices = registry.devices /\ registry'.machines = registry.machines
        /\ registry'.bindings = registry.bindings /\ registry'.pairings = registry.pairings
    BY <1>21, RemoveTokens DEF TokenInvs
  <2>2. /\ UNCHANGED <<working, req>> /\ pc[t] = "remove" /\ pc'[t] = "tombstone"
        /\ \A u \in Threads \ {t} : pc'[u] = pc[u]
    BY <1>1, <1>21 DEF RemoveToken, connectionVars
  <2>3. Keeps(DeviceAhead) /\ Keeps(MachineAhead) /\ Keeps(BindingAhead) /\ Keeps(PairingAhead)
    BY <2>2 DEF PairingAhead, BindingAhead, MachineAhead, DeviceAhead, Keeps
  <2>4. QED
    BY <1>4, <2>1, <2>2, <2>3
<1>22. CASE RemoveFails(t)
  BY <1>22, RemoveNeverFails DEF TokenInvs
<1>23. CASE TombstoneToken(t)
  <2>1. /\ registry'.devices = registry.devices /\ registry'.machines = registry.machines
        /\ registry'.bindings = registry.bindings /\ registry'.pairings = registry.pairings
    BY <1>23, TombstoneTokens DEF TokenInvs
  <2>2. /\ UNCHANGED <<working, req>> /\ pc[t] = "tombstone" /\ pc'[t] = "remove"
        /\ \A u \in Threads \ {t} : pc'[u] = pc[u]
    BY <1>1, <1>23 DEF TombstoneToken, connectionVars
  <2>3. Keeps(DeviceAhead) /\ Keeps(MachineAhead) /\ Keeps(BindingAhead) /\ Keeps(PairingAhead)
    BY <2>2 DEF PairingAhead, BindingAhead, MachineAhead, DeviceAhead, Keeps
  <2>4. QED
    BY <1>4, <2>1, <2>2, <2>3
<1>17. CASE Publish(t)
  <2>1. /\ UNCHANGED <<working, req>> /\ pc[t] = "remove" /\ pc'[t] = "index"
        /\ \A u \in Threads \ {t} : pc'[u] = pc[u]
        /\ \A d \in Devices : registry'.devices[d] = IF d = D THEN B ELSE registry.devices[d]
        /\ \A m \in Machines : registry'.machines[m] = IF m = M THEN E ELSE registry.machines[m]
        /\ \A b \in Buddies : registry'.bindings[b] = IF b = B THEN M ELSE registry.bindings[b]
        /\ \A pk \in PairKeys :
             registry'.pairings[pk] = IF pk = K THEN PairingOf(req[t]) ELSE registry.pairings[pk]
    BY <1>0, <1>1, <1>17 DEF Publish, connectionVars, Registry
  <2>2. /\ pc[t] \in DeviceAhead /\ pc[t] \in MachineAhead /\ pc[t] \in BindingAhead /\ pc[t] \in PairingAhead
        /\ pc'[t] \notin DeviceAhead /\ pc'[t] \notin MachineAhead
        /\ pc'[t] \notin BindingAhead /\ pc'[t] \notin PairingAhead
    BY <2>1 DEF PairingAhead, BindingAhead, MachineAhead, DeviceAhead
  <2>3. DevicesAgree'
    <3>1. ASSUME NEW d \in Devices, \A u \in Threads : pc'[u] \in DeviceAhead => req'[u].device # d
          PROVE  registry'.devices[d] = working'.devices[d]
      <4>1. CASE d = D
        BY <1>1, <2>1, <2>2, <4>1 DEF DevicesAgree
      <4>2. CASE d # D
        BY <1>1, <2>1, <2>2, <3>1, <4>2 DEF DevicesAgree
      <4>3. QED
        BY <4>1, <4>2
    <3>2. QED
      BY <1>1, <2>1, <2>2, <3>1 DEF DevicesAgree
  <2>4. MachinesAgree'
    <3>1. ASSUME NEW m \in Machines, \A u \in Threads : pc'[u] \in MachineAhead => req'[u].machine # m
          PROVE  registry'.machines[m] = working'.machines[m]
      <4>1. CASE m = M
        BY <1>1, <2>1, <2>2, <4>1 DEF MachinesAgree
      <4>2. CASE m # M
        BY <1>1, <2>1, <2>2, <3>1, <4>2 DEF MachinesAgree
      <4>3. QED
        BY <4>1, <4>2
    <3>2. QED
      BY <1>1, <2>1, <2>2, <3>1 DEF MachinesAgree
  <2>5. BindingsAgree'
    <3>1. ASSUME NEW b \in Buddies, \A u \in Threads : pc'[u] \in BindingAhead => req'[u].buddy # b
          PROVE  registry'.bindings[b] = working'.bindings[b]
      <4>1. CASE b = B
        BY <1>1, <2>1, <2>2, <4>1 DEF BindingsAgree
      <4>2. CASE b # B
        BY <1>1, <2>1, <2>2, <3>1, <4>2 DEF BindingsAgree
      <4>3. QED
        BY <4>1, <4>2
    <3>2. QED
      BY <1>1, <2>1, <2>2, <3>1 DEF BindingsAgree
  <2>6. PairingsAgree'
    <3>1. working.pairings[K] = RowOf(req[t])
      BY <1>1, <2>2 DEF PairingsAgree
    <3>2. PairingIn(working, K) = PairingOf(req[t])
      <4>1. RowOf(req[t]) \in Row /\ RowOf(req[t]).pairing = PairingOf(req[t])
        BY <1>0 DEF RowOf, Row
      <4>2. QED
        BY <3>1, <4>1, NoneAssumption DEF PairingIn
    <3>3. ASSUME NEW pk \in PairKeys, \A u \in Threads : pc'[u] \in PairingAhead => KeyOf(req'[u]) # pk
          PROVE  registry'.pairings[pk] = PairingIn(working, pk)
      <4>1. CASE pk = K
        BY <2>1, <3>2, <4>1
      <4>2. CASE pk # K
        BY <1>1, <2>1, <2>2, <3>3, <4>2 DEF PairingsAgree
      <4>3. QED
        BY <4>1, <4>2
    <3>4. ASSUME NEW u \in Threads, pc'[u] \in PairingAhead \union {"index"}
          PROVE  working'.pairings[KeyOf(req'[u])] = RowOf(req'[u])
      BY <1>1, <2>1, <2>2, <3>1, <3>4 DEF PairingsAgree
    <3>5. QED
      BY <2>1, <3>3, <3>4 DEF PairingsAgree, PairingIn
  <2>7. QED
    BY <2>3, <2>4, <2>5, <2>6 DEF FieldsAgree
<1>18. CASE IndexToken(t)
  <2>1. /\ UNCHANGED <<working, req>> /\ pc[t] = "index" /\ pc'[t] = "notify"
        /\ \A u \in Threads \ {t} : pc'[u] = pc[u]
        /\ registry'.devices = registry.devices /\ registry'.machines = registry.machines
        /\ registry'.bindings = registry.bindings /\ registry'.pairings = registry.pairings
    BY <1>1, <1>18 DEF IndexToken, connectionVars, Registry
  <2>2. Keeps(DeviceAhead) /\ Keeps(MachineAhead) /\ Keeps(BindingAhead) /\ Keeps(PairingAhead)
    BY <2>1 DEF PairingAhead, BindingAhead, MachineAhead, DeviceAhead, Keeps
  <2>3. QED
    BY <1>4, <2>1, <2>2
<1>19. CASE Notify(t)
  <2>1. /\ UNCHANGED <<working, registry>> /\ pc[t] = "notify" /\ pc'[t] = "idle"
        /\ \A u \in Threads \ {t} : pc'[u] = pc[u] /\ req'[u] = req[u]
    BY <1>1, <1>19 DEF Notify, CommitBy, Commit, Finish
  <2>2. QED
    BY <1>6, <2>1
<1>20. QED
  BY <1>7, <1>8, <1>9, <1>10, <1>11, <1>12, <1>13, <1>14, <1>15, <1>16, <1>17, <1>18, <1>19,
     <1>21, <1>22, <1>23 DEF PairDevice

-----------------------------------------------------------------------------
LEMMA TokensSame ==
  ASSUME TokensAgree, NEW t \in Threads,
         registry'.index = registry.index, Marked' = Marked,
         \A d \in Devices : VerifiersFor(registry', d) = VerifiersFor(registry, d),
         \A u \in Threads \ {t} : pc'[u] = pc[u] /\ req'[u] = req[u],
         req[t].device \in Devices,
         \A u \in Threads \ {t} : pc[u] # "idle" => req[u].device \in Devices,
         pc[t] \in InTransaction \union {"invalidate", "remove", "tombstone"} =>
           pc'[t] \in InTransaction \union {"invalidate", "remove", "tombstone"} /\ req'[t] = req[t],
         \A v \in Verifiers : registry.index[v] # None /\ HoldsVerifier(working, registry.index[v], v)
           => HoldsVerifier(working', registry.index[v], v),
         \A v \in working'.revoked : \/ v \in working.revoked
                                     \/ /\ v \in VerifiersFor(registry, req[t].device)
                                        /\ pc[t] \in InTransaction
  PROVE  TokensAgree'
<1>1. IndexedRows'
  BY DEF TokensAgree, IndexedRows
<1>2. ASSUME NEW v \in working'.revoked, v \notin Marked
      PROVE  \E u \in Threads : /\ pc'[u] \in InTransaction \union {"invalidate", "remove", "tombstone"}
                                /\ v \in VerifiersFor(registry', req'[u].device)
  <2>1. PICK u \in Threads : /\ pc[u] \in InTransaction \union {"invalidate", "remove", "tombstone"}
                             /\ v \in VerifiersFor(registry, req[u].device)
    BY <1>2 DEF TokensAgree, TombstonesExplained
  <2>2. pc[u] # "idle"
    BY <2>1 DEF InTransaction
  <2>3. /\ pc'[u] \in InTransaction \union {"invalidate", "remove", "tombstone"} /\ req'[u] = req[u]
        /\ req[u].device \in Devices
    BY <2>1, <2>2
  <2>4. QED
    BY <2>1, <2>3
<1>3. TombstonesExplained'
  BY <1>2 DEF TombstonesExplained
<1>4. QED
  BY <1>1, <1>3 DEF TokensAgree

LEMMA TokensServe ==
  ASSUME TokenInvs, AgreementInv, NEW t \in Threads, Busy(t), PairDevice(t),
         \A r \in PairRequests : ~Lookup(t, r), ~Disturbed'
  PROVE  TokensAgree'
<1> DEFINE D == req[t].device
           V == Verifier(req[t].token)
           K == KeyOf(req[t])
<1> USE DEF Busy, Goto
<1>0. /\ req[t] \in PairRequests /\ D \in Devices /\ V \in Verifiers /\ K \in PairKeys
      /\ PairingOf(req[t]) \in Pairing
      /\ \A u \in Threads : pc[u] # "idle" => req[u] \in PairRequests /\ req[u].device \in Devices
  BY RequestFields DEF TokenInvs, TypeOK
<1>1. /\ working \in Database /\ registry \in Registry
      /\ pc \in [Threads -> Steps] /\ req \in [Threads -> PairRequests \union {None}]
      /\ TokensAgree /\ TypeOK /\ WellKeyed
  BY DEF TokenInvs, TypeOK, AgreementInv
<1>2. \A u \in Threads \ {t} : Busy(u) => req[u].device # D /\ req[u].token # req[t].token
  BY DEF TokenInvs, Apart, Exclusive
<1>3. Progress(t) /\ Replacing(t) /\ (pc[t] # "notify" => registry.index[V] = None)
  BY DEF TokenInvs, TokensInv, ServedDevices, RevocationInv, Replacements, Apart, TokenUnused
(* Steps that leave the dictionaries alone, and those that only store.     *)
<1>4. ASSUME UNCHANGED <<registry, removed>>,
             \A u \in Threads \ {t} : pc'[u] = pc[u] /\ req'[u] = req[u],
             pc[t] \in InTransaction \union {"invalidate", "remove", "tombstone"} =>
               pc'[t] \in InTransaction \union {"invalidate", "remove", "tombstone"} /\ req'[t] = req[t],
             working'.pairings = working.pairings,
             \A v \in working'.revoked : \/ v \in working.revoked
                                         \/ v \in VerifiersFor(registry, D) /\ pc[t] \in InTransaction
      PROVE  TokensAgree'
  <2>1. \A v \in Verifiers : registry.index[v] # None /\ HoldsVerifier(working, registry.index[v], v)
           => HoldsVerifier(working', registry.index[v], v)
    BY <1>4 DEF HoldsVerifier
  <2>2. Marked' = Marked
    BY <1>4, MarkedSame
  <2>3. QED
    BY <1>0, <1>1, <1>4, <2>1, <2>2, TokensSame
<1>7. CASE CollectStale(t)
  <2>1. /\ UNCHANGED <<working, registry, req, removed>> /\ pc[t] = "collect"
        /\ \A u \in Threads \ {t} : pc'[u] = pc[u]
    BY <1>1, <1>7 DEF CollectStale, connectionVars
  <2>2. QED
    BY <1>4, <2>1 DEF InTransaction
<1>8. CASE PersistRevoked(t)
  <2>1. PICK v \in stale[t] : working' = [working EXCEPT !.revoked = @ \union {v}]
    BY <1>8 DEF PersistRevoked, Execute
  <2>2. /\ UNCHANGED <<registry, pc, req, removed>> /\ pc[t] = "revoke"
        /\ working'.revoked = working.revoked \union {v} /\ working'.pairings = working.pairings
    BY <1>1, <1>8, <2>1 DEF PersistRevoked, Database
  <2>3. v \in VerifiersFor(registry, D)
    BY <1>3, <2>2 DEF Replacing
  <2>4. QED
    BY <1>4, <2>2, <2>3 DEF InTransaction
<1>9. CASE PersistDevice(t) \/ PersistAgentMachine(t) \/ PersistBinding(t)
  <2>1. /\ UNCHANGED <<registry, req, removed>> /\ pc'[t] \in {"machine", "binding", "pairing"}
        /\ \A u \in Threads \ {t} : pc'[u] = pc[u]
        /\ working'.revoked = working.revoked /\ working'.pairings = working.pairings
    BY <1>1, <1>9 DEF PersistDevice, PersistAgentMachine, PersistBinding, Execute, Database
  <2>2. QED
    BY <1>4, <2>1 DEF InTransaction
<1>12. CASE PersistPairing(t)
  <2>1. /\ UNCHANGED <<registry, req, removed>> /\ pc[t] = "pairing" /\ pc'[t] = "commit"
        /\ \A u \in Threads \ {t} : pc'[u] = pc[u]
        /\ working'.pairings = ReplacePairing(working.pairings, req[t])
        /\ working'.revoked = working.revoked
    BY <1>1, <1>12 DEF PersistPairing, Execute, Database
  <2>2. registry.pairings[K] = None
    BY <2>1 DEF AgreementInv, WorkInv, KeyFree
  <2>3. ASSUME NEW v \in Verifiers, registry.index[v] # None,
               HoldsVerifier(working, registry.index[v], v)
        PROVE  HoldsVerifier(working', registry.index[v], v)
    <3>1. v # V /\ registry.index[v] \in PairKeys
      BY <1>1, <1>3, <2>1, <2>3 DEF Registry
    <3>2. registry.index[v] # K
      BY <1>1, <2>2, <2>3 DEF WellKeyed, DictionariesWellKeyed, IndexResolves
    <3>3. working'.pairings[registry.index[v]] = working.pairings[registry.index[v]]
      BY <2>1, <2>3, <3>1, <3>2 DEF ReplacePairing, HoldsVerifier
    <3>4. QED
      BY <2>3, <3>3 DEF HoldsVerifier
  <2>4. Marked' = Marked
    BY <2>1, MarkedSame
  <2>5. QED
    BY <1>0, <1>1, <2>1, <2>3, <2>4, TokensSame DEF InTransaction
<1>13. CASE CommitPairing(t)
  <2>1. /\ UNCHANGED <<working, registry, req, removed>> /\ pc'[t] = "invalidate"
        /\ \A u \in Threads \ {t} : pc'[u] = pc[u]
    BY <1>1, <1>13 DEF CommitPairing, CommitBy, Commit
  <2>2. QED
    BY <1>4, <2>1
<1>14. CASE WriteFails(t)
  BY <1>14, RolledBack
<1>15. CASE ScanBreaks(t)
  <2>1. /\ UNCHANGED <<working, registry, removed>> /\ pc'[t] = "idle" /\ pc[t] = "collect"
        /\ \A u \in Threads \ {t} : pc'[u] = pc[u] /\ req'[u] = req[u]
    BY <1>1, <1>15 DEF ScanBreaks, Finish, connectionVars, Disturbed
  <2>2. QED
    BY <1>4, <2>1 DEF InTransaction
<1>16. CASE Invalidate(t)
  <2>1. /\ UNCHANGED <<working, registry, req, removed>> /\ pc'[t] = "remove"
        /\ \A u \in Threads \ {t} : pc'[u] = pc[u]
    BY <1>1, <1>16 DEF Invalidate, connectionVars
  <2>2. QED
    BY <1>4, <2>1
<1>21. CASE RemoveToken(t)
  <2>1. /\ UNCHANGED <<working, req>> /\ pc[t] = "remove" /\ pc'[t] = "tombstone"
        /\ \A u \in Threads \ {t} : pc'[u] = pc[u]
    BY <1>1, <1>21 DEF RemoveToken, connectionVars
  <2>2. PICK v \in VerifiersFor(registry, D) :
          /\ v \in Verifiers /\ registry'.revoked = registry.revoked
          /\ \A w \in Verifiers : registry'.index[w] = IF w = v THEN None ELSE registry.index[w]
          /\ removed'[t] = v /\ \A u \in Threads \ {t} : removed'[u] = removed[u]
          /\ \A d \in Devices : VerifiersFor(registry', d) = VerifiersFor(registry, d) \ {v}
    BY <1>21, RemoveTokens DEF TokenInvs
  <2>3. Marked' = Marked \union {v}
    BY <1>1, <2>1, <2>2, MarkedRemove
  <2>4. IndexedRows'
    BY <1>1, <2>1, <2>2 DEF TokensAgree, IndexedRows
  <2>5. ASSUME NEW w \in working.revoked, w \notin Marked'
        PROVE  \E u \in Threads : /\ pc'[u] \in InTransaction \union {"invalidate", "remove", "tombstone"}
                                  /\ w \in VerifiersFor(registry', req'[u].device)
    <3>1. PICK u \in Threads : /\ pc[u] \in InTransaction \union {"invalidate", "remove", "tombstone"}
                               /\ w \in VerifiersFor(registry, req[u].device)
      BY <1>1, <2>3, <2>5 DEF TokensAgree, TombstonesExplained
    <3>2. req[u].device \in Devices /\ w # v
      BY <1>0, <2>3, <2>5, <3>1 DEF InTransaction
    <3>3. pc'[u] \in InTransaction \union {"invalidate", "remove", "tombstone"}
      BY <2>1, <3>1
    <3>4. QED
      BY <2>1, <2>2, <3>1, <3>2, <3>3
  <2>6. TombstonesExplained'
    BY <2>1, <2>5 DEF TombstonesExplained
  <2>7. QED
    BY <2>4, <2>6 DEF TokensAgree
<1>22. CASE RemoveFails(t)
  BY <1>22, RemoveNeverFails DEF TokenInvs
<1>23. CASE TombstoneToken(t)
  <2>1. /\ UNCHANGED <<working, req>> /\ pc'[t] = "remove"
        /\ \A u \in Threads \ {t} : pc'[u] = pc[u]
    BY <1>1, <1>23 DEF TombstoneToken, connectionVars
  <2>2. /\ registry'.index = registry.index /\ Marked' = Marked
        /\ \A d \in Devices : VerifiersFor(registry', d) = VerifiersFor(registry, d)
    BY <1>1, <1>23, TombstoneTokens, MarkedTombstone
  <2>3. QED
    BY <1>0, <1>1, <2>1, <2>2, TokensSame
<1>17. CASE Publish(t)
  <2>1. /\ UNCHANGED <<working, req, removed>> /\ pc[t] = "remove" /\ pc'[t] = "index" /\ stale[t] = {}
        /\ \A u \in Threads \ {t} : pc'[u] = pc[u]
        /\ registry'.revoked = registry.revoked /\ registry'.index = registry.index
    BY <1>1, <1>17 DEF Publish, connectionVars, Registry
  <2>2. VerifiersFor(registry, D) = {}
    BY <2>1 DEF TokenInvs, Apart, Emptied
  <2>3. \A d \in Devices : VerifiersFor(registry', d) = VerifiersFor(registry, d)
    BY <1>1, <1>17, <2>2, PublishTokens
  <2>4. Marked' = Marked
    BY <2>1, MarkedSame
  <2>5. IndexedRows'
    BY <1>1, <2>1 DEF TokensAgree, IndexedRows
  <2>6. ASSUME NEW v \in working.revoked, v \notin Marked
        PROVE  \E u \in Threads : /\ pc'[u] \in InTransaction \union {"invalidate", "remove", "tombstone"}
                                  /\ v \in VerifiersFor(registry', req'[u].device)
    <3>1. PICK u \in Threads : /\ pc[u] \in InTransaction \union {"invalidate", "remove", "tombstone"}
                               /\ v \in VerifiersFor(registry, req[u].device)
      BY <1>1, <2>6 DEF TokensAgree, TombstonesExplained
    <3>2. u # t /\ req[u].device \in Devices
      BY <1>0, <2>2, <3>1 DEF InTransaction
    <3>3. QED
      BY <2>1, <2>3, <3>1, <3>2
  <2>7. TombstonesExplained'
    BY <2>1, <2>4, <2>6 DEF TombstonesExplained
  <2>8. QED
    BY <2>5, <2>7 DEF TokensAgree
<1>18. CASE IndexToken(t)
  <2>1. /\ UNCHANGED <<working, req, removed>> /\ pc[t] = "index" /\ pc'[t] = "notify"
        /\ \A u \in Threads \ {t} : pc'[u] = pc[u]
        /\ registry'.revoked = registry.revoked
        /\ \A v \in Verifiers : registry'.index[v] = IF v = V THEN K ELSE registry.index[v]
    BY <1>0, <1>1, <1>18 DEF IndexToken, connectionVars, Registry
  <2>2. \A d \in Devices : VerifiersFor(registry', d) = IF d = D THEN {V} ELSE VerifiersFor(registry, d)
    BY <1>1, <1>3, <1>18, <2>1, IndexTokens DEF TokenInvs, Apart, Emptied
  <2>3. HoldsVerifier(working, K, V)
    <3>1. working.pairings[K] = RowOf(req[t])
      BY <2>1 DEF AgreementInv, FieldsAgree, PairingsAgree
    <3>2. RowOf(req[t]) \in Row /\ RowOf(req[t]).verifier = V
      BY <1>0 DEF RowOf, Row
    <3>3. QED
      BY <3>1, <3>2, NoneAssumption DEF HoldsVerifier
  <2>4. IndexedRows'
    BY <1>1, <2>1, <2>3 DEF TokensAgree, IndexedRows
  <2>8. Marked' = Marked
    BY <2>1, MarkedSame
  <2>5. ASSUME NEW v \in working.revoked, v \notin Marked
        PROVE  \E u \in Threads : /\ pc'[u] \in InTransaction \union {"invalidate", "remove", "tombstone"}
                                  /\ v \in VerifiersFor(registry', req'[u].device)
    <3>1. PICK u \in Threads : /\ pc[u] \in InTransaction \union {"invalidate", "remove", "tombstone"}
                               /\ v \in VerifiersFor(registry, req[u].device)
      BY <1>1, <2>5 DEF TokensAgree, TombstonesExplained
    <3>2. u # t /\ Busy(u)
      BY <2>1, <3>1 DEF InTransaction
    <3>3. req[u].device \in Devices \ {D}
      BY <1>0, <1>2, <3>2
    <3>4. QED
      BY <2>1, <2>2, <3>1, <3>2, <3>3
  <2>6. TombstonesExplained'
    BY <2>1, <2>5, <2>8 DEF TombstonesExplained
  <2>7. QED
    BY <2>4, <2>6 DEF TokensAgree
<1>19. CASE Notify(t)
  <2>1. /\ UNCHANGED <<working, registry, removed>> /\ pc[t] = "notify"
        /\ \A u \in Threads \ {t} : pc'[u] = pc[u] /\ req'[u] = req[u]
    BY <1>1, <1>19 DEF Notify, CommitBy, Commit, Finish
  <2>2. QED
    BY <1>4, <2>1 DEF InTransaction
<1>20. QED
  BY <1>7, <1>8, <1>9, <1>12, <1>13, <1>14, <1>15, <1>16, <1>17, <1>18, <1>19,
     <1>21, <1>22, <1>23 DEF PairDevice

-----------------------------------------------------------------------------
(* A step that leaves the committed tables and the dictionaries alone and  *)
(* moves no request past its commit.                                       *)
LEMMA CommittedSame ==
  ASSUME CommittedFields, CommittedTokens, parted \subseteq Threads,
         UNCHANGED <<durable, registry, removed, parted>>,
         \A u \in Threads :
           /\ pc'[u] \in {"invalidate", "remove", "tombstone"} <=> pc[u] \in {"invalidate", "remove", "tombstone"}
           /\ pc'[u] = "index" <=> pc[u] = "index"
           /\ pc[u] \in {"invalidate", "remove", "tombstone", "index"} \/ u \in parted => req'[u] = req[u]
  PROVE  CommittedFields' /\ CommittedTokens'
<1>1. CommittedAhead' = CommittedAhead /\ \A u \in CommittedAhead : req'[u] = req[u]
  BY DEF CommittedAhead
<1>2. CommittedDevices' /\ CommittedBindings'
  BY <1>1 DEF CommittedFields, CommittedDevices, CommittedBindings
<1>3. CommittedMachines'
  BY <1>1 DEF CommittedFields, CommittedMachines
<1>4. CommittedPairings'
  BY <1>1 DEF CommittedFields, CommittedPairings, PairingIn
<1>5. CommittedRows'
  BY DEF CommittedTokens, CommittedRows, HoldsVerifier
<1>6. CommittedTombstones'
  <2>1. Marked' = Marked
    BY MarkedSame
  <2>2. ASSUME NEW v \in durable.revoked, v \notin Marked
        PROVE  \E u \in Threads : /\ pc'[u] \in {"invalidate", "remove", "tombstone"} \/ u \in parted
                                  /\ v \in VerifiersFor(registry, req'[u].device)
    BY <2>2 DEF CommittedTokens, CommittedTombstones
  <2>3. QED
    BY <2>1, <2>2 DEF CommittedTombstones
<1>7. QED
  BY <1>2, <1>3, <1>4, <1>5, <1>6 DEF CommittedFields, CommittedTokens

(* A commit: the committed tables become those of the connection, and the  *)
(* requests inside their transaction are parted.                           *)
LEMMA CommittedNow ==
  ASSUME TokenInvs, AgreementInv, NEW t \in Threads, CommitPairing(t) \/ Notify(t)
  PROVE  CommittedFields' /\ CommittedTokens'
<1>1. /\ UNCHANGED <<registry, removed>> /\ durable' = working /\ parted' = Others(t)
      /\ \A u \in Threads \ {t} : pc'[u] = pc[u] /\ req'[u] = req[u]
      /\ \/ pc[t] = "commit" /\ pc'[t] = "invalidate" /\ req'[t] = req[t]
         \/ pc[t] = "notify" /\ pc'[t] = "idle"
  BY DEF CommitPairing, Notify, CommitBy, Commit, Finish, Goto, TokenInvs, TypeOK
<1>2. /\ DevicesAgree /\ MachinesAgree /\ BindingsAgree /\ PairingsAgree
      /\ IndexedRows /\ TombstonesExplained
  BY DEF AgreementInv, FieldsAgree, TokensAgree
<1>3. /\ PairingAhead \subseteq DeviceAhead /\ BindingAhead \subseteq DeviceAhead
      /\ MachineAhead \subseteq DeviceAhead /\ {"invalidate", "remove", "tombstone"} \subseteq PairingAhead
      /\ PairingAhead \subseteq BindingAhead /\ PairingAhead \subseteq MachineAhead
  BY DEF PairingAhead, BindingAhead, MachineAhead, DeviceAhead
<1>4. \A u \in Threads :
        /\ pc[u] \in DeviceAhead => u \in CommittedAhead' /\ req'[u] = req[u]
        /\ pc'[u] \in {"invalidate", "remove", "tombstone"} => pc[u] \in PairingAhead /\ req'[u] = req[u]
        /\ pc'[u] = "index" => pc[u] = "index" /\ req'[u] = req[u]
  <2> SUFFICES ASSUME NEW u \in Threads
               PROVE  /\ pc[u] \in DeviceAhead => u \in CommittedAhead' /\ req'[u] = req[u]
                      /\ pc'[u] \in {"invalidate", "remove", "tombstone"} => pc[u] \in PairingAhead /\ req'[u] = req[u]
                      /\ pc'[u] = "index" => pc[u] = "index" /\ req'[u] = req[u]
    OBVIOUS
  <2>1. CASE u = t
    BY <1>1, <2>1 DEF CommittedAhead, PairingAhead, BindingAhead, MachineAhead, DeviceAhead
  <2>2. CASE u # t
    BY <1>1, <2>2 DEF CommittedAhead, Others, InTransaction, PairingAhead, BindingAhead, MachineAhead,
       DeviceAhead
  <2>3. QED
    BY <2>1, <2>2
<1>5. CommittedDevices'
  BY <1>1, <1>2, <1>3, <1>4 DEF DevicesAgree, CommittedDevices
<1>6. CommittedMachines'
  BY <1>1, <1>2, <1>3, <1>4 DEF MachinesAgree, CommittedMachines
<1>7. CommittedBindings'
  BY <1>1, <1>2, <1>3, <1>4 DEF BindingsAgree, CommittedBindings
<1>8. CommittedPairings'
  BY <1>1, <1>2, <1>3, <1>4 DEF PairingsAgree, CommittedPairings, PairingIn
<1>9. CommittedRows'
  BY <1>1, <1>2 DEF IndexedRows, CommittedRows
<1>10. CommittedTombstones'
  <2>0. Marked' = Marked
    BY <1>1, MarkedSame
  <2> SUFFICES ASSUME NEW v \in working.revoked, v \notin Marked
               PROVE  \E u \in Threads : /\ pc'[u] \in {"invalidate", "remove", "tombstone"} \/ u \in parted'
                                         /\ v \in VerifiersFor(registry, req'[u].device)
    BY <1>1, <2>0 DEF CommittedTombstones
  <2>1. PICK u \in Threads : /\ pc[u] \in InTransaction \union {"invalidate", "remove", "tombstone"}
                             /\ v \in VerifiersFor(registry, req[u].device)
    BY <1>2 DEF TombstonesExplained
  <2>2. (pc'[u] \in {"invalidate", "remove", "tombstone"} \/ u \in parted') /\ req'[u] = req[u]
    BY <1>1, <2>1 DEF Others, InTransaction
  <2>3. QED
    BY <2>1, <2>2
<1>11. QED
  BY <1>5, <1>6, <1>7, <1>8, <1>9, <1>10 DEF CommittedFields, CommittedTokens

LEMMA CommittedServe ==
  ASSUME TokenInvs, AgreementInv, NEW t \in Threads, Busy(t), PairDevice(t),
         \A r \in PairRequests : ~Lookup(t, r), ~Disturbed'
  PROVE  CommittedFields' /\ CommittedTokens'
<1> DEFINE D == req[t].device
           B == req[t].buddy
           M == req[t].machine
           E == req[t].endpoint
           K == KeyOf(req[t])
           V == Verifier(req[t].token)
<1> USE DEF Busy, Goto
<1>0. /\ req[t] \in PairRequests /\ D \in Devices /\ B \in Buddies /\ M \in Machines /\ K \in PairKeys
      /\ PairingOf(req[t]) \in Pairing /\ V \in Verifiers /\ E \in Endpoints
      /\ \A u \in Threads : pc[u] # "idle" => req[u] \in PairRequests /\ req[u].device \in Devices
  BY RequestFields DEF TokenInvs, TypeOK
<1>1. /\ TypeOK /\ WellKeyed /\ registry \in Registry
      /\ pc \in [Threads -> Steps] /\ req \in [Threads -> PairRequests \union {None}]
      /\ CommittedFields /\ CommittedTokens
  BY DEF TokenInvs, TypeOK, AgreementInv
<1>2. \A u \in Threads \ {t} : Busy(u) =>
        /\ req[u].device # D /\ req[u].buddy # B /\ req[u].machine # M
        /\ req[u].token # req[t].token /\ KeyOf(req[u]) # K
  BY DEF TokenInvs, Apart, Exclusive, AgreementInv, WorkInv, RecordsApart, KeyOf
<1>3. /\ \A u \in parted : u \in Threads /\ pc[u] \in InTransaction /\ Busy(u)
      /\ \A u \in CommittedAhead : u \in Threads /\ Busy(u)
  BY <1>1 DEF TokenInvs, TypeOK, Apart, PartedOpen, CommittedAhead, InTransaction
<1>p. parted \subseteq Threads
  BY <1>1 DEF TypeOK
<1>4. CASE \/ CollectStale(t) \/ PersistRevoked(t) \/ PersistDevice(t) \/ PersistAgentMachine(t)
           \/ PersistBinding(t) \/ PersistPairing(t)
  <2>1. /\ UNCHANGED <<durable, registry, removed, parted, req>>
        /\ pc[t] \notin {"invalidate", "remove", "tombstone", "index"} /\ pc'[t] \notin {"invalidate", "remove", "tombstone", "index"}
        /\ \A u \in Threads \ {t} : pc'[u] = pc[u]
    BY <1>1, <1>4 DEF CollectStale, PersistRevoked, PersistDevice, PersistAgentMachine, PersistBinding,
       PersistPairing, Execute, connectionVars, historyVars
  <2>2. QED
    BY <1>1, <1>p, <2>1, CommittedSame
<1>5. CASE WriteFails(t) \/ ScanBreaks(t)
  <2>1. /\ UNCHANGED <<durable, registry, removed, parted>> /\ t \notin parted
        /\ pc[t] \notin {"invalidate", "remove", "tombstone", "index"} /\ pc'[t] = "idle"
        /\ \A u \in Threads \ {t} : pc'[u] = pc[u] /\ req'[u] = req[u]
    <3>1. CASE WriteFails(t)
      BY <1>1, <3>1 DEF WriteFails, Rollback, Finish, Disturbed, InTransaction
    <3>2. CASE ScanBreaks(t)
      BY <1>1, <1>3, <3>2 DEF ScanBreaks, Finish, Disturbed, InTransaction, connectionVars
    <3>3. QED
      BY <1>5, <3>1, <3>2
  <2>2. QED
    BY <1>1, <1>p, <2>1, CommittedSame
<1>6. CASE CommitPairing(t) \/ Notify(t)
  BY <1>6, CommittedNow
<1>7. CASE Invalidate(t)
  <2>1. /\ UNCHANGED <<durable, registry, removed, req, parted>>
        /\ pc[t] = "invalidate" /\ pc'[t] = "remove"
        /\ \A u \in Threads \ {t} : pc'[u] = pc[u]
    BY <1>1, <1>7 DEF Invalidate, connectionVars, historyVars
  <2>2. QED
    BY <1>1, <1>p, <2>1, CommittedSame
<1>11. CASE RemoveToken(t)
  <2>1. /\ UNCHANGED <<durable, req, parted>> /\ pc[t] = "remove" /\ pc'[t] = "tombstone"
        /\ \A u \in Threads \ {t} : pc'[u] = pc[u]
    BY <1>1, <1>11 DEF RemoveToken, connectionVars, historyVars
  <2>2. PICK v \in VerifiersFor(registry, D) :
          /\ v \in Verifiers /\ registry'.revoked = registry.revoked
          /\ \A w \in Verifiers : registry'.index[w] = IF w = v THEN None ELSE registry.index[w]
          /\ registry'.devices = registry.devices /\ registry'.machines = registry.machines
          /\ registry'.bindings = registry.bindings /\ registry'.pairings = registry.pairings
          /\ removed'[t] = v /\ \A u \in Threads \ {t} : removed'[u] = removed[u]
          /\ \A d \in Devices : VerifiersFor(registry', d) = VerifiersFor(registry, d) \ {v}
    BY <1>11, RemoveTokens DEF TokenInvs
  <2>3. CommittedAhead' = CommittedAhead
    BY <2>1 DEF CommittedAhead
  <2>4. CommittedDevices' /\ CommittedBindings'
    BY <1>1, <2>1, <2>2, <2>3 DEF CommittedFields, CommittedDevices, CommittedBindings
  <2>5. CommittedMachines'
    BY <1>1, <2>1, <2>2, <2>3 DEF CommittedFields, CommittedMachines
  <2>6. CommittedPairings'
    BY <1>1, <2>1, <2>2, <2>3 DEF CommittedFields, CommittedPairings, PairingIn
  <2>7. CommittedRows'
    BY <1>1, <2>1, <2>2 DEF CommittedTokens, CommittedRows
  <2>8. Marked' = Marked \union {v}
    BY <1>1, <2>1, <2>2, MarkedRemove
  <2>9. ASSUME NEW w \in durable.revoked, w \notin Marked'
        PROVE  \E u \in Threads : /\ pc'[u] \in {"invalidate", "remove", "tombstone"} \/ u \in parted'
                                  /\ w \in VerifiersFor(registry', req'[u].device)
    <3>1. PICK u \in Threads : /\ pc[u] \in {"invalidate", "remove", "tombstone"} \/ u \in parted
                               /\ w \in VerifiersFor(registry, req[u].device)
      BY <1>1, <2>8, <2>9 DEF CommittedTokens, CommittedTombstones
    <3>2. w # v /\ req[u].device \in Devices
      BY <1>0, <1>3, <2>8, <2>9, <3>1
    <3>3. pc'[u] \in {"invalidate", "remove", "tombstone"} \/ u \in parted'
      BY <2>1, <3>1
    <3>4. QED
      BY <2>1, <2>2, <3>1, <3>2, <3>3
  <2>10. CommittedTombstones'
    BY <2>1, <2>9 DEF CommittedTombstones
  <2>11. QED
    BY <2>4, <2>5, <2>6, <2>7, <2>10 DEF CommittedFields, CommittedTokens
<1>12. CASE RemoveFails(t)
  BY <1>12, RemoveNeverFails DEF TokenInvs
<1>13. CASE TombstoneToken(t)
  <2>1. /\ UNCHANGED <<durable, req, parted>> /\ pc[t] = "tombstone" /\ pc'[t] = "remove"
        /\ \A u \in Threads \ {t} : pc'[u] = pc[u]
    BY <1>1, <1>13 DEF TombstoneToken, connectionVars, historyVars
  <2>2. /\ registry'.index = registry.index /\ registry'.pairings = registry.pairings
        /\ registry'.devices = registry.devices /\ registry'.machines = registry.machines
        /\ registry'.bindings = registry.bindings
        /\ \A d \in Devices : VerifiersFor(registry', d) = VerifiersFor(registry, d)
        /\ Marked' = Marked
    BY <1>1, <1>13, TombstoneTokens, MarkedTombstone
  <2>3. CommittedAhead' = CommittedAhead
    BY <2>1 DEF CommittedAhead
  <2>4. CommittedDevices' /\ CommittedBindings'
    BY <1>1, <2>1, <2>2, <2>3 DEF CommittedFields, CommittedDevices, CommittedBindings
  <2>5. CommittedMachines'
    BY <1>1, <2>1, <2>2, <2>3 DEF CommittedFields, CommittedMachines
  <2>6. CommittedPairings'
    BY <1>1, <2>1, <2>2, <2>3 DEF CommittedFields, CommittedPairings, PairingIn
  <2>7. CommittedRows'
    BY <1>1, <2>1, <2>2 DEF CommittedTokens, CommittedRows
  <2>8. ASSUME NEW w \in durable.revoked, w \notin Marked
        PROVE  \E u \in Threads : /\ pc'[u] \in {"invalidate", "remove", "tombstone"} \/ u \in parted'
                                  /\ w \in VerifiersFor(registry', req'[u].device)
    <3>1. PICK u \in Threads : /\ pc[u] \in {"invalidate", "remove", "tombstone"} \/ u \in parted
                               /\ w \in VerifiersFor(registry, req[u].device)
      BY <1>1, <2>8 DEF CommittedTokens, CommittedTombstones
    <3>2. req[u].device \in Devices
      BY <1>0, <1>3, <3>1
    <3>3. pc'[u] \in {"invalidate", "remove", "tombstone"} \/ u \in parted'
      BY <2>1, <3>1
    <3>4. QED
      BY <2>1, <2>2, <3>1, <3>2, <3>3
  <2>9. CommittedTombstones'
    BY <2>1, <2>2, <2>8 DEF CommittedTombstones
  <2>10. QED
    BY <2>4, <2>5, <2>6, <2>7, <2>9 DEF CommittedFields, CommittedTokens
<1>8. CASE Publish(t)
  <2>1. /\ UNCHANGED <<durable, req, removed, parted>> /\ pc[t] = "remove" /\ pc'[t] = "index"
        /\ stale[t] = {}
        /\ \A u \in Threads \ {t} : pc'[u] = pc[u]
        /\ \A d \in Devices : registry'.devices[d] = IF d = D THEN B ELSE registry.devices[d]
        /\ \A m \in Machines : registry'.machines[m] = IF m = M THEN E ELSE registry.machines[m]
        /\ \A b \in Buddies : registry'.bindings[b] = IF b = B THEN M ELSE registry.bindings[b]
        /\ \A pk \in PairKeys :
             registry'.pairings[pk] = IF pk = K THEN PairingOf(req[t]) ELSE registry.pairings[pk]
        /\ registry'.revoked = registry.revoked /\ registry'.index = registry.index
    BY <1>0, <1>1, <1>8 DEF Publish, connectionVars, historyVars, Registry
  <2>e. VerifiersFor(registry, D) = {}
    BY <2>1 DEF TokenInvs, Apart, Emptied
  <2>2. \A d \in Devices : VerifiersFor(registry', d) = VerifiersFor(registry, d)
    BY <1>1, <1>8, <2>e, PublishTokens
  <2>m. Marked' = Marked
    BY <2>1, MarkedSame
  <2>3. t \in CommittedAhead /\ CommittedAhead' = CommittedAhead \ {t}
    BY <1>3, <2>1 DEF CommittedAhead, InTransaction
  <2>4. CommittedDevices'
    <3>1. ASSUME NEW d \in Devices, \A u \in CommittedAhead' : req[u].device # d
          PROVE  registry'.devices[d] = durable.devices[d]
      <4>1. CASE d = D
        BY <1>1, <2>1, <4>1 DEF CommittedFields, CommittedDevices
      <4>2. CASE d # D
        BY <1>1, <2>1, <2>3, <3>1, <4>2 DEF CommittedFields, CommittedDevices
      <4>3. QED
        BY <4>1, <4>2
    <3>2. QED
      BY <1>1, <2>1, <3>1 DEF CommittedFields, CommittedDevices
  <2>5. CommittedMachines'
    <3>1. ASSUME NEW m \in Machines, \A u \in CommittedAhead' : req[u].machine # m
          PROVE  registry'.machines[m] = durable.machines[m]
      <4>1. CASE m = M
        BY <1>1, <2>1, <4>1 DEF CommittedFields, CommittedMachines
      <4>2. CASE m # M
        BY <1>1, <2>1, <2>3, <3>1, <4>2 DEF CommittedFields, CommittedMachines
      <4>3. QED
        BY <4>1, <4>2
    <3>2. QED
      BY <1>1, <2>1, <3>1 DEF CommittedFields, CommittedMachines
  <2>6. CommittedBindings'
    <3>1. ASSUME NEW b \in Buddies, \A u \in CommittedAhead' : req[u].buddy # b
          PROVE  registry'.bindings[b] = durable.bindings[b]
      <4>1. CASE b = B
        BY <1>1, <2>1, <4>1 DEF CommittedFields, CommittedBindings
      <4>2. CASE b # B
        BY <1>1, <2>1, <2>3, <3>1, <4>2 DEF CommittedFields, CommittedBindings
      <4>3. QED
        BY <4>1, <4>2
    <3>2. QED
      BY <1>1, <2>1, <3>1 DEF CommittedFields, CommittedBindings
  <2>7. CommittedPairings'
    <3>1. durable.pairings[K] = RowOf(req[t])
      BY <1>1, <2>1 DEF CommittedFields, CommittedPairings
    <3>2. PairingIn(durable, K) = PairingOf(req[t])
      <4>1. RowOf(req[t]) \in Row /\ RowOf(req[t]).pairing = PairingOf(req[t])
        BY <1>0 DEF RowOf, Row
      <4>2. QED
        BY <3>1, <4>1, NoneAssumption DEF PairingIn
    <3>3. ASSUME NEW pk \in PairKeys, \A u \in CommittedAhead' : KeyOf(req[u]) # pk
          PROVE  registry'.pairings[pk] = PairingIn(durable, pk)
      <4>1. CASE pk = K
        BY <2>1, <3>2, <4>1
      <4>2. CASE pk # K
        BY <1>1, <2>1, <2>3, <3>3, <4>2 DEF CommittedFields, CommittedPairings
      <4>3. QED
        BY <4>1, <4>2
    <3>4. ASSUME NEW u \in Threads, pc'[u] \in {"invalidate", "remove", "tombstone", "index"}
          PROVE  durable.pairings[KeyOf(req[u])] = RowOf(req[u])
      BY <1>1, <2>1, <3>1, <3>4 DEF CommittedFields, CommittedPairings
    <3>5. QED
      BY <2>1, <3>3, <3>4 DEF CommittedPairings, PairingIn
  <2>8. CommittedRows'
    BY <1>1, <2>1 DEF CommittedTokens, CommittedRows
  <2>9. ASSUME NEW v \in durable.revoked, v \notin Marked
        PROVE  \E u \in Threads : /\ pc'[u] \in {"invalidate", "remove", "tombstone"} \/ u \in parted'
                                  /\ v \in VerifiersFor(registry', req'[u].device)
    <3>1. PICK u \in Threads : /\ pc[u] \in {"invalidate", "remove", "tombstone"} \/ u \in parted
                               /\ v \in VerifiersFor(registry, req[u].device)
      BY <1>1, <2>9 DEF CommittedTokens, CommittedTombstones
    <3>2. pc'[u] \in {"invalidate", "remove", "tombstone"} \/ u \in parted'
      BY <2>1, <2>e, <3>1
    <3>3. req[u].device \in Devices
      BY <1>0, <1>3, <3>1
    <3>4. QED
      BY <2>1, <2>2, <3>1, <3>2, <3>3
  <2>10. CommittedTombstones'
    BY <2>1, <2>9, <2>m DEF CommittedTombstones
  <2>11. QED
    BY <2>4, <2>5, <2>6, <2>7, <2>8, <2>10 DEF CommittedFields, CommittedTokens
<1>9. CASE IndexToken(t)
  <2>1. /\ UNCHANGED <<durable, req, removed, parted>> /\ pc[t] = "index" /\ pc'[t] = "notify"
        /\ \A u \in Threads \ {t} : pc'[u] = pc[u]
        /\ registry'.devices = registry.devices /\ registry'.machines = registry.machines
        /\ registry'.bindings = registry.bindings /\ registry'.pairings = registry.pairings
        /\ registry'.revoked = registry.revoked
        /\ \A v \in Verifiers : registry'.index[v] = IF v = V THEN K ELSE registry.index[v]
    BY <1>0, <1>1, <1>9 DEF IndexToken, connectionVars, Registry
  <2>2. /\ registry.index[V] = None
        /\ \A d \in Devices : VerifiersFor(registry', d) = IF d = D THEN {V} ELSE VerifiersFor(registry, d)
    <3>1. registry.index[V] = None /\ VerifiersFor(registry, D) = {}
      BY <2>1 DEF TokenInvs, Apart, TokenUnused, Emptied
    <3>2. QED
      BY <1>1, <1>9, <3>1, IndexTokens
  <2>3. CommittedAhead' = CommittedAhead
    BY <2>1 DEF CommittedAhead
  <2>4. CommittedDevices' /\ CommittedBindings'
    BY <1>1, <2>1, <2>3 DEF CommittedFields, CommittedDevices, CommittedBindings
  <2>5. CommittedMachines'
    BY <1>1, <2>1, <2>3 DEF CommittedFields, CommittedMachines
  <2>6. CommittedPairings'
    BY <1>1, <2>1, <2>3 DEF CommittedFields, CommittedPairings, PairingIn
  <2>7. HoldsVerifier(durable, K, V)
    <3>1. durable.pairings[K] = RowOf(req[t])
      BY <1>1, <2>1 DEF CommittedFields, CommittedPairings
    <3>2. RowOf(req[t]) \in Row /\ RowOf(req[t]).verifier = V
      BY <1>0 DEF RowOf, Row
    <3>3. QED
      BY <3>1, <3>2, NoneAssumption DEF HoldsVerifier
  <2>8. CommittedRows'
    BY <1>1, <2>1, <2>7 DEF CommittedTokens, CommittedRows
  <2>9. ASSUME NEW v \in durable.revoked, v \notin Marked
        PROVE  \E u \in Threads : /\ pc'[u] \in {"invalidate", "remove", "tombstone"} \/ u \in parted'
                                  /\ v \in VerifiersFor(registry', req'[u].device)
    <3>1. PICK u \in Threads : /\ pc[u] \in {"invalidate", "remove", "tombstone"} \/ u \in parted
                               /\ v \in VerifiersFor(registry, req[u].device)
      BY <1>1, <2>9 DEF CommittedTokens, CommittedTombstones
    <3>2. u # t /\ Busy(u)
      BY <1>3, <2>1, <3>1 DEF InTransaction
    <3>3. req[u].device \in Devices \ {D}
      BY <1>0, <1>2, <3>2
    <3>4. QED
      BY <2>1, <2>2, <3>1, <3>2, <3>3
  <2>m. Marked' = Marked
    BY <2>1, MarkedSame
  <2>10. CommittedTombstones'
    BY <2>1, <2>9, <2>m DEF CommittedTombstones
  <2>11. QED
    BY <2>4, <2>5, <2>6, <2>8, <2>10 DEF CommittedFields, CommittedTokens
<1>10. QED
  BY <1>4, <1>5, <1>6, <1>7, <1>8, <1>9, <1>11, <1>12, <1>13 DEF PairDevice

-----------------------------------------------------------------------------
(* What is asked of clients so that the dictionaries and the tables agree: *)
(* requests that bind one buddy do not overlap, nor those that register    *)
(* one machine, for whichever was written last to the table may have been  *)
(* written first to the dictionary.                                        *)
OneBuddyAtATime == \A p \in Overlaps : p[1].buddy # p[2].buddy
OneMachineAtATime == \A p \in Overlaps : p[1].machine # p[2].machine

LEMMA WorkServe ==
  ASSUME TokenInvs, AgreementInv, NEW t \in Threads, Busy(t), PairDevice(t),
         \A r \in PairRequests : ~Lookup(t, r)
  PROVE  WorkInv'
<1> USE DEF Busy, Goto
<1>0. /\ req[t] \in PairRequests /\ KeyOf(req[t]) \in PairKeys
      /\ \A u \in Threads : pc[u] # "idle" => req[u] \in PairRequests /\ KeyOf(req[u]) \in PairKeys
  BY RequestFields DEF TokenInvs, TypeOK
<1>1. /\ working \in Database /\ registry \in Registry
      /\ pc \in [Threads -> Steps] /\ req \in [Threads -> PairRequests \union {None}]
      /\ TypeOK /\ WorkInv
  BY DEF TokenInvs, TypeOK, AgreementInv
<1>2. \A u \in Threads \ {t} : Busy(u) => KeyOf(req[u]) # KeyOf(req[t])
  BY DEF TokenInvs, Apart, Exclusive, KeyOf
<1>3. Serial => \A u \in Threads \ {t} : ~Busy(u)
  BY <1>1 DEF WorkInv, SerialCommitted
(* The threads: in every step of t the others stay where they are.         *)
<1>4. ASSUME \A u \in Threads \ {t} : pc'[u] = pc[u] /\ req'[u] = req[u],
             pc'[t] # "idle" => req'[t] = req[t]
      PROVE  RecordsApart' /\ (Serial => \A u, w \in Threads : Busy(u)' /\ Busy(w)' => u = w)
  <2>1. RecordsApart'
    BY <1>1, <1>4 DEF WorkInv, RecordsApart
  <2>2. ASSUME Serial PROVE \A u, w \in Threads : Busy(u)' /\ Busy(w)' => u = w
    BY <1>3, <1>4, <2>2
  <2>3. QED
    BY <2>1, <2>2
<1>5. ASSUME \A u \in Threads \ {t} : pc'[u] = pc[u] /\ req'[u] = req[u],
             pc'[t] # "idle" => req'[t] = req[t],
             registry'.pairings = registry.pairings \/ pc'[t] = "index",
             \A pk \in PairKeys : pk # KeyOf(req[t]) => registry'.pairings[pk] = registry.pairings[pk],
             pc[t] \in {"index", "notify"} => pc'[t] \in {"idle", "notify"},
             pc'[t] = "idle" /\ (\A u \in Threads \ {t} : ~Busy(u)) => working' = durable',
             Serial => IF pc'[t] \in InTransaction
                       THEN registry' = Load(durable') ELSE durable' = working'
      PROVE  WorkInv'
  <2>1. RecordsApart' /\ (Serial => \A u, w \in Threads : Busy(u)' /\ Busy(w)' => u = w)
    BY <1>4, <1>5
  <2>2. KeyFree'
    <3> SUFFICES ASSUME NEW u \in Threads, pc'[u] \notin {"idle", "index", "notify"}
                 PROVE  registry'.pairings[KeyOf(req'[u])] = None
      BY DEF KeyFree
    <3>1. CASE u = t
      BY <1>1, <1>5, <3>1 DEF WorkInv, KeyFree
    <3>2. CASE u # t
      BY <1>0, <1>1, <1>2, <1>5, <3>2 DEF WorkInv, KeyFree
    <3>3. QED
      BY <3>1, <3>2
  <2>3. QuietCommitted'
    BY <1>5 DEF QuietCommitted, Quiescent
  <2>4. SerialCommitted'
    <3> SUFFICES ASSUME Serial
                 PROVE  IF \E u \in Threads : pc'[u] \in InTransaction
                        THEN registry' = Load(durable') ELSE durable' = working'
      BY <2>1 DEF SerialCommitted, Restarted, Serial
    <3>1. \A u \in Threads \ {t} : pc'[u] \notin InTransaction
      BY <1>3, <1>5 DEF InTransaction
    <3>2. QED
      BY <1>5, <3>1
  <2>5. QED
    BY <2>1, <2>2, <2>3, <2>4 DEF WorkInv
<1>6. Serial => IF pc[t] \in InTransaction THEN registry = Load(durable) ELSE durable = working
  BY <1>1, <1>3 DEF WorkInv, SerialCommitted, Restarted, InTransaction
<1>7. CASE CollectStale(t)
  <2>1. /\ UNCHANGED <<working, durable, registry, req>> /\ pc[t] = "collect" /\ pc'[t] = "revoke"
        /\ \A u \in Threads \ {t} : pc'[u] = pc[u]
    BY <1>1, <1>7 DEF CollectStale, connectionVars
  <2>2. Serial => registry = Load(durable)
    <3> SUFFICES ASSUME Serial PROVE registry = Load(durable)
      OBVIOUS
    <3>1. \A u \in Threads : pc[u] \in {"idle", "collect", "notify"}
      BY <1>3, <2>1
    <3>2. registry = Load(working)
      BY <3>1, SettledAgrees DEF AgreementInv
    <3>3. QED
      BY <1>6, <2>1, <3>2 DEF InTransaction
  <2>3. QED
    BY <1>5, <2>1, <2>2 DEF InTransaction
<1>8. CASE PersistRevoked(t)
  <2>1. UNCHANGED <<durable, registry, pc, req>> /\ pc[t] = "revoke"
    BY <1>8 DEF PersistRevoked, Execute
  <2>2. QED
    BY <1>5, <1>6, <2>1 DEF InTransaction
<1>9. CASE PersistDevice(t) \/ PersistAgentMachine(t) \/ PersistBinding(t) \/ PersistPairing(t)
  <2>1. /\ UNCHANGED <<durable, registry, req>>
        /\ pc[t] \in {"revoke", "machine", "binding", "pairing"}
        /\ pc'[t] \in {"machine", "binding", "pairing", "commit"}
        /\ \A u \in Threads \ {t} : pc'[u] = pc[u]
    BY <1>1, <1>9 DEF PersistDevice, PersistAgentMachine, PersistBinding, PersistPairing, Execute
  <2>2. QED
    BY <1>5, <1>6, <2>1 DEF InTransaction
<1>13. CASE CommitPairing(t)
  <2>1. /\ UNCHANGED <<working, registry, req>> /\ durable' = working
        /\ pc[t] = "commit" /\ pc'[t] = "invalidate"
        /\ \A u \in Threads \ {t} : pc'[u] = pc[u]
    BY <1>1, <1>13 DEF CommitPairing, CommitBy, Commit
  <2>2. QED
    BY <1>5, <2>1 DEF InTransaction
<1>14. CASE WriteFails(t)
  <2>1. /\ UNCHANGED <<registry, durable>> /\ working' = durable /\ pc'[t] = "idle"
        /\ \A u \in Threads \ {t} : pc'[u] = pc[u] /\ req'[u] = req[u]
    BY <1>1, <1>14 DEF WriteFails, Rollback, Finish
  <2>2. QED
    BY <1>5, <2>1 DEF InTransaction
<1>15. CASE ScanBreaks(t)
  <2>1. /\ UNCHANGED <<working, durable, registry>> /\ pc'[t] = "idle"
        /\ \A u \in Threads \ {t} : pc'[u] = pc[u] /\ req'[u] = req[u]
        /\ \E u \in Threads \ {t} : Busy(u)
    BY <1>1, <1>15 DEF ScanBreaks, Finish, connectionVars
  <2>2. QED
    BY <1>3, <1>5, <2>1
<1>16. CASE Invalidate(t)
  <2>1. /\ UNCHANGED <<working, durable, registry, req>> /\ pc[t] = "invalidate" /\ pc'[t] = "remove"
        /\ \A u \in Threads \ {t} : pc'[u] = pc[u]
    BY <1>1, <1>16 DEF Invalidate, connectionVars
  <2>2. QED
    BY <1>5, <1>6, <2>1 DEF InTransaction
<1>21. CASE RemoveToken(t)
  <2>1. /\ UNCHANGED <<working, durable, req>> /\ pc[t] = "remove" /\ pc'[t] = "tombstone"
        /\ \A u \in Threads \ {t} : pc'[u] = pc[u]
    BY <1>1, <1>21 DEF RemoveToken, connectionVars
  <2>2. registry'.pairings = registry.pairings
    BY <1>21, RemoveTokens DEF TokenInvs
  <2>3. QED
    BY <1>5, <1>6, <2>1, <2>2 DEF InTransaction
<1>22. CASE RemoveFails(t)
  BY <1>22, RemoveNeverFails DEF TokenInvs
<1>23. CASE TombstoneToken(t)
  <2>1. /\ UNCHANGED <<working, durable, req>> /\ pc[t] = "tombstone" /\ pc'[t] = "remove"
        /\ \A u \in Threads \ {t} : pc'[u] = pc[u]
    BY <1>1, <1>23 DEF TombstoneToken, connectionVars
  <2>2. registry'.pairings = registry.pairings
    BY <1>1, <1>23, TombstoneTokens
  <2>3. QED
    BY <1>5, <1>6, <2>1, <2>2 DEF InTransaction
<1>17. CASE Publish(t)
  <2>1. /\ UNCHANGED <<working, durable, req>> /\ pc[t] = "remove" /\ pc'[t] = "index"
        /\ \A u \in Threads \ {t} : pc'[u] = pc[u]
        /\ \A pk \in PairKeys : pk # KeyOf(req[t]) => registry'.pairings[pk] = registry.pairings[pk]
    BY <1>0, <1>1, <1>17 DEF Publish, connectionVars, Registry
  <2>2. QED
    BY <1>5, <1>6, <2>1 DEF InTransaction
<1>18. CASE IndexToken(t)
  <2>1. /\ UNCHANGED <<working, durable, req>> /\ pc[t] = "index" /\ pc'[t] = "notify"
        /\ \A u \in Threads \ {t} : pc'[u] = pc[u]
        /\ registry'.pairings = registry.pairings
    BY <1>1, <1>18 DEF IndexToken, connectionVars, Registry
  <2>2. QED
    BY <1>5, <1>6, <2>1 DEF InTransaction
<1>19. CASE Notify(t)
  <2>1. /\ UNCHANGED <<working, registry>> /\ durable' = working /\ pc'[t] = "idle"
        /\ \A u \in Threads \ {t} : pc'[u] = pc[u] /\ req'[u] = req[u]
    BY <1>1, <1>19 DEF Notify, CommitBy, Commit, Finish
  <2>2. QED
    BY <1>5, <2>1 DEF InTransaction
<1>20. QED
  BY <1>7, <1>8, <1>9, <1>13, <1>14, <1>15, <1>16, <1>17, <1>18, <1>19,
     <1>21, <1>22, <1>23 DEF PairDevice

LEMMA AgreementInductive ==
  ASSUME CarefulClients, OneBuddyAtATime, OneMachineAtATime
  PROVE  TokenInvs /\ AgreementInv /\ [Next]_vars /\ ~Disturbed' => AgreementInv'
<1> SUFFICES ASSUME TokenInvs, AgreementInv, [Next]_vars, ~Disturbed' PROVE AgreementInv'
  OBVIOUS
<1> USE DEF Busy
<1>1. CASE Restart
  <2>1. /\ working' = durable /\ durable' = durable /\ registry' = Load(durable)
        /\ \A t \in Threads : pc'[t] = "idle"
        /\ parted' = {}
    BY <1>1 DEF Restart, Rollback
  <2>2. FieldsAgree' /\ TokensAgree'
    BY <2>1, RestoredAgrees DEF TokenInvs
  <2>3. WorkInv'
    BY <2>1 DEF WorkInv, RecordsApart, KeyFree, QuietCommitted, SerialCommitted, InTransaction
  <2>4. CommittedFields' /\ CommittedTokens'
    <3>1. CommittedAhead' = {}
      BY <2>1 DEF CommittedAhead
    <3>2. CommittedFields'
      BY <2>1, <2>2, <3>1 DEF CommittedFields, CommittedDevices, CommittedMachines, CommittedBindings,
         CommittedPairings, Load, PairingIn
    <3>3. CommittedTokens'
      BY <2>1, <2>2 DEF TokensAgree, IndexedRows, CommittedTokens, CommittedRows, CommittedTombstones, Load,
         Marked
    <3>4. QED
      BY <3>2, <3>3
  <2>5. QED
    BY <2>2, <2>3, <2>4 DEF AgreementInv
<1>2. ASSUME NEW t \in Threads, NEW r \in PairRequests, Lookup(t, r) PROVE AgreementInv'
  <2>1. /\ pc[t] = "idle" /\ pc'[t] = "collect" /\ req'[t] = r
        /\ \A u \in Threads \ {t} : pc'[u] = pc[u] /\ req'[u] = req[u]
        /\ UNCHANGED <<working, durable, registry, removed, parted>> /\ registry.pairings[KeyOf(r)] = None
        /\ Marked' = Marked
        /\ \A u \in Threads : Busy(u) => <<req[u], r>> \in Overlaps
    BY <1>2, MarkedSame DEF Lookup, Goto, TokenInvs, TypeOK, connectionVars, historyVars
  <2>2. /\ Keeps(DeviceAhead) /\ Keeps(MachineAhead) /\ Keeps(BindingAhead) /\ Keeps(PairingAhead)
        /\ \A u \in Threads : pc'[u] = "index" => pc[u] = "index" /\ req'[u] = req[u]
    BY <2>1 DEF PairingAhead, BindingAhead, MachineAhead, DeviceAhead, Keeps
  <2>3. FieldsAgree'
    BY <2>1, <2>2, DevicesSame, MachinesSame, BindingsSame, PairingsSame DEF AgreementInv, FieldsAgree
  <2>4. TokensAgree'
    <3>1. IndexedRows'
      BY <2>1 DEF AgreementInv, TokensAgree, IndexedRows
    <3>2. \A u \in Threads : pc[u] \in InTransaction \union {"invalidate", "remove", "tombstone"} =>
            pc'[u] = pc[u] /\ req'[u] = req[u]
      BY <2>1 DEF InTransaction
    <3>3. TombstonesExplained'
      BY <2>1, <3>2 DEF AgreementInv, TokensAgree, TombstonesExplained
    <3>4. QED
      BY <3>1, <3>3 DEF TokensAgree
  <2>5. RecordsApart'
    <3>1. \A u \in Threads : Busy(u) => req[u].buddy # r.buddy /\ req[u].machine # r.machine
      <4> SUFFICES ASSUME NEW u \in Threads, Busy(u)
                   PROVE  req[u].buddy # r.buddy /\ req[u].machine # r.machine
        OBVIOUS
      <4>1. <<req[u], r>> \in Overlaps
        BY <2>1
      <4>2. QED
        BY <4>1 DEF OneBuddyAtATime, OneMachineAtATime
    <3>2. QED
      BY <2>1, <3>1 DEF AgreementInv, WorkInv, RecordsApart
  <2>6. KeyFree'
    BY <2>1 DEF AgreementInv, WorkInv, KeyFree
  <2>7. QuietCommitted'
    BY <2>1 DEF QuietCommitted, Quiescent
  <2>8. SerialCommitted'
    <3> SUFFICES ASSUME Serial
                 PROVE  /\ \A u, w \in Threads : Busy(u)' /\ Busy(w)' => u = w
                        /\ \A u \in Threads : pc'[u] \notin InTransaction
                        /\ durable' = working'
      BY DEF SerialCommitted, Serial
    <3>1. \A u \in Threads : ~Busy(u)
      BY <2>1 DEF Serial
    <3>2. durable = working
      BY <3>1 DEF AgreementInv, WorkInv, SerialCommitted, InTransaction
    <3>3. QED
      BY <2>1, <3>1, <3>2 DEF InTransaction
  <2>9. CommittedFields' /\ CommittedTokens'
    <3>1. t \notin parted /\ parted \subseteq Threads
      BY <2>1 DEF TokenInvs, TypeOK, Apart, PartedOpen, InTransaction
    <3>2. QED
      BY <2>1, <3>1, CommittedSame DEF AgreementInv
  <2>10. QED
    BY <2>3, <2>4, <2>5, <2>6, <2>7, <2>8, <2>9 DEF AgreementInv, WorkInv
<1>3. ASSUME NEW t \in Threads, Busy(t), PairDevice(t), \A r \in PairRequests : ~Lookup(t, r)
      PROVE  AgreementInv'
  BY <1>3, FieldsServe, TokensServe, WorkServe, CommittedServe DEF AgreementInv
<1>4. CASE UNCHANGED vars
  <2>1. UNCHANGED <<working, durable, registry, pc, req, removed, parted>> /\ Marked' = Marked
    BY <1>4, MarkedSame DEF vars, connectionVars, threadVars, historyVars
  <2>2. FieldsAgree'
    <3>1. /\ Keeps(DeviceAhead) /\ Keeps(MachineAhead) /\ Keeps(BindingAhead) /\ Keeps(PairingAhead)
          /\ \A u \in Threads : pc'[u] = "index" => pc[u] = "index" /\ req'[u] = req[u]
      BY <2>1 DEF Keeps
    <3>2. QED
      BY <2>1, <3>1, DevicesSame, MachinesSame, BindingsSame, PairingsSame DEF AgreementInv, FieldsAgree
  <2>3. TokensAgree'
    BY <2>1 DEF AgreementInv, TokensAgree, IndexedRows, TombstonesExplained, HoldsVerifier, VerifiersFor
  <2>4. WorkInv'
    BY <2>1 DEF AgreementInv, WorkInv, RecordsApart, KeyFree, QuietCommitted, SerialCommitted, Serial,
       Quiescent, Restarted
  <2>5. CommittedFields' /\ CommittedTokens'
    BY <2>1, CommittedSame DEF AgreementInv, TokenInvs, TypeOK
  <2>6. QED
    BY <2>2, <2>3, <2>4, <2>5 DEF AgreementInv
<1>5. ASSUME NEW t \in Threads, PairDevice(t), ~Busy(t), \A r \in PairRequests : ~Lookup(t, r)
      PROVE  FALSE
  BY <1>5 DEF PairDevice, CollectStale, PersistRevoked, PersistDevice, PersistAgentMachine,
     PersistBinding, PersistPairing, CommitPairing, WriteFails, ScanBreaks, Invalidate, RemoveToken,
     RemoveFails, TombstoneToken, Publish, IndexToken, Notify, InTransaction
<1>6. QED
  BY <1>1, <1>2, <1>3, <1>4, <1>5 DEF Next

LEMMA AgreementHolds ==
  ASSUME CarefulClients, OneBuddyAtATime, OneMachineAtATime
  PROVE  Spec => [](Disturbed \/ (TokenInvs /\ AgreementInv))
<1>1. Init => AgreementInv
  <2> SUFFICES ASSUME Init PROVE AgreementInv
    OBVIOUS
  <2>1. /\ working = EmptyDatabase /\ durable = EmptyDatabase /\ registry = Load(EmptyDatabase)
        /\ \A t \in Threads : pc[t] = "idle"
        /\ parted = {}
    BY DEF Init
  <2>2. /\ registry.devices = working.devices /\ registry.machines = working.machines
        /\ registry.bindings = working.bindings /\ working.revoked = {}
        /\ \A pk \in PairKeys : registry.pairings[pk] = PairingIn(working, pk)
        /\ \A v \in Verifiers : registry.index[v] = None
    BY <2>1 DEF Load, EmptyDatabase, PairingIn, HoldsVerifier
  <2>3. FieldsAgree
    BY <2>1, <2>2 DEF FieldsAgree, DevicesAgree, MachinesAgree, BindingsAgree, PairingsAgree,
       PairingAhead, BindingAhead, MachineAhead, DeviceAhead
  <2>4. TokensAgree
    BY <2>2 DEF TokensAgree, IndexedRows, TombstonesExplained
  <2>5. WorkInv
    BY <2>1 DEF WorkInv, RecordsApart, KeyFree, QuietCommitted, SerialCommitted, InTransaction, Busy
  <2>6. CommittedFields /\ CommittedTokens
    BY <2>1, <2>2 DEF CommittedFields, CommittedDevices, CommittedMachines, CommittedBindings,
       CommittedPairings, CommittedTokens, CommittedRows, CommittedTombstones, CommittedAhead
  <2>7. QED
    BY <2>3, <2>4, <2>5, <2>6 DEF AgreementInv
<1>2. TypeOK /\ WellKeyed /\ Apart /\ (Disturbed \/ (TokensInv /\ Restorable)) /\ (torn \/ RevocationInv)
        => Disturbed \/ TokenInvs
  BY DEF Disturbed, TokenInvs
<1>3. TokenInvs /\ AgreementInv /\ [Next]_vars /\ ~Disturbed' => AgreementInv'
  BY AgreementInductive
<1>4. QED
  BY <1>1, <1>2, <1>3, DisturbedStays, TypeCorrect, WellKeyedCorrect, ApartCorrect, TokensCorrect,
     RevocationCorrect, PTL DEF Spec

LEMMA RestartAgreesState ==
  ASSUME TokenInvs, AgreementInv
  PROVE  RestartAgrees
<1> SUFFICES ASSUME Quiescent PROVE registry = Load(durable)
  BY DEF RestartAgrees, Restarted
<1>1. registry = Load(working)
  BY SettledAgrees DEF AgreementInv, Quiescent
<1>2. working = durable
  BY DEF AgreementInv, WorkInv, QuietCommitted
<1>3. QED
  BY <1>1, <1>2

(* With careful clients, and requests that bind one buddy or register one  *)
(* machine apart, the dictionaries are between requests what a restart     *)
(* would load, whatever fails, as long as no failure disturbed another     *)
(* request or left a part of its own.                                      *)
THEOREM RestartAgreesCorrect ==
  ASSUME CarefulClients, OneBuddyAtATime, OneMachineAtATime
  PROVE  Spec => [](RestartAgreesUnlessHalved /\ ~raced)
<1>1. TokenInvs /\ AgreementInv => RestartAgrees
  BY RestartAgreesState
<1>2. Disturbed \/ (TokenInvs /\ AgreementInv) => RestartAgreesUnlessHalved
  BY <1>1 DEF RestartAgreesUnlessHalved, Disturbed
<1>3. QED
  BY <1>2, AgreementHolds, NeverRaced, PTL

(* Where nothing fails, or requests do not overlap, there is no such       *)
(* failure.                                                                *)
Undisturbed ==
  /\ ~torn /\ ~halved
  /\ Serial => parted = {} /\ \A t, u \in Threads : Busy(t) /\ Busy(u) => t = u

LEMMA UndisturbedHolds ==
  ASSUME CarefulClients, Serial \/ ~MayFail
  PROVE  Spec => []Undisturbed
<1>1. Init => Undisturbed
  BY DEF Init, Undisturbed, Busy
<1>2. TypeOK /\ Apart /\ Undisturbed /\ [Next]_vars => Undisturbed'
  <2> SUFFICES ASSUME TypeOK, Apart, Undisturbed, [Next]_vars PROVE Undisturbed'
    OBVIOUS
  <2> USE DEF Busy, Goto, Undisturbed
  <2>s. Serial' <=> Serial
    BY DEF Serial
  <2>0. pc \in [Threads -> Steps]
    BY DEF TypeOK
  <2>1. ASSUME NEW t \in Threads, Busy(t), ~torn', ~halved', Serial => parted' = {},
               \A u \in Threads \ {t} : pc'[u] = pc[u]
        PROVE  Undisturbed'
    BY <2>s, <2>1
  <2>2. ASSUME NEW t \in Threads, Serial, Busy(t) PROVE Others(t) = {}
    BY <2>2 DEF Others, InTransaction
  <2>3. CASE Restart
    BY <2>3, <2>s DEF Restart
  <2>4. ASSUME NEW t \in Threads, NEW r \in PairRequests, Lookup(t, r) PROVE Undisturbed'
    <3>1. /\ UNCHANGED <<torn, parted, halved>> /\ \A u \in Threads \ {t} : pc'[u] = pc[u]
          /\ \A u \in Threads : Busy(u) => <<req[u], r>> \in Overlaps
      BY <2>0, <2>4 DEF Lookup
    <3>2. Serial => \A u \in Threads : ~Busy(u)
      BY <3>1 DEF Serial
    <3>3. QED
      BY <2>s, <3>1, <3>2
  <2>5. ASSUME NEW t \in Threads, WriteFails(t) PROVE Undisturbed'
    <3>1. /\ Busy(t) /\ MayFail /\ parted' = parted \ {t}
          /\ torn' = (torn \/ Others(t) # {}) /\ halved' = (halved \/ t \in parted)
          /\ \A u \in Threads \ {t} : pc'[u] = pc[u]
      BY <2>0, <2>5 DEF WriteFails, Finish, InTransaction
    <3>2. Serial
      BY <3>1
    <3>3. ~torn' /\ ~halved' /\ parted' = {}
      BY <2>2, <3>1, <3>2
    <3>4. QED
      BY <2>1, <3>1, <3>3
  <2>6. ASSUME NEW t \in Threads, ScanBreaks(t) PROVE Undisturbed'
    <3>1. /\ Busy(t) /\ UNCHANGED <<torn, parted>> /\ halved' = (halved \/ pc[t] = "invalidate")
          /\ pc[t] = "collect" \/ MayFail
          /\ \E u \in Threads \ {t} : Busy(u)
          /\ \A u \in Threads \ {t} : pc'[u] = pc[u]
      BY <2>0, <2>6 DEF ScanBreaks, Finish
    <3>2. ~Serial
      BY <3>1
    <3>3. ~halved'
      BY <3>1, <3>2
    <3>4. QED
      BY <2>1, <3>1, <3>2, <3>3
  <2>7. ASSUME NEW t \in Threads, CommitPairing(t) \/ Notify(t) PROVE Undisturbed'
    <3>1. /\ Busy(t) /\ UNCHANGED <<torn, halved>> /\ parted' = Others(t)
          /\ \A u \in Threads \ {t} : pc'[u] = pc[u]
      BY <2>0, <2>7 DEF CommitPairing, Notify, CommitBy, Finish
    <3>2. QED
      BY <2>1, <2>2, <3>1
  <2>8. ASSUME NEW t \in Threads,
               \/ CollectStale(t) \/ PersistRevoked(t) \/ PersistDevice(t) \/ PersistAgentMachine(t)
               \/ PersistBinding(t) \/ PersistPairing(t) \/ Invalidate(t) \/ RemoveToken(t)
               \/ TombstoneToken(t) \/ Publish(t) \/ IndexToken(t)
        PROVE  Undisturbed'
    <3>1. /\ Busy(t) /\ UNCHANGED <<torn, parted, halved>>
          /\ \A u \in Threads \ {t} : pc'[u] = pc[u]
      BY <2>0, <2>8 DEF CollectStale, PersistRevoked, PersistDevice, PersistAgentMachine, PersistBinding,
         PersistPairing, Invalidate, RemoveToken, TombstoneToken, Publish, IndexToken, historyVars
    <3>2. QED
      BY <2>1, <3>1
  <2>9. CASE UNCHANGED vars
    BY <2>9, <2>s DEF vars, threadVars, historyVars
  <2>10. QED
    BY <2>3, <2>4, <2>5, <2>6, <2>7, <2>8, <2>9, RemoveNeverFails DEF Next, PairDevice
<1>3. QED
  BY <1>1, <1>2, TypeCorrect, ApartCorrect, PTL DEF Spec

(* So the dictionaries then always are what a restart would load.          *)
THEOREM RestartAgreesUndisturbed ==
  ASSUME CarefulClients, OneBuddyAtATime, OneMachineAtATime, Serial \/ ~MayFail
  PROVE  Spec => []RestartAgrees
<1>1. Undisturbed /\ RestartAgreesUnlessHalved /\ ~raced => RestartAgrees
  BY DEF Undisturbed, RestartAgreesUnlessHalved
<1>2. Spec => []Undisturbed
  BY UndisturbedHolds
<1>3. QED
  BY <1>1, <1>2, RestartAgreesCorrect, PTL

-----------------------------------------------------------------------------
(* The tokens of a device in the tables, when one request is served at a   *)
(* time.                                                                   *)
LEMMA LiveBeside ==
  ASSUME TokenInvs, AgreementInv, NEW d \in Devices,
         \A t \in Threads : pc[t] \in InTransaction \union {"invalidate", "remove", "tombstone"} => req[t].device # d
  PROVE  VerifiersFor(registry, d) \subseteq Live(working, d)
<1> SUFFICES ASSUME NEW v \in VerifiersFor(registry, d) PROVE v \in Live(working, d)
  OBVIOUS
<1> DEFINE pk == registry.index[v]
<1>1. v \in Verifiers /\ pk # None /\ pk \in PairKeys /\ registry.pairings[pk].device = d
  BY DEF VerifiersFor, TokenInvs, TypeOK, Registry
<1>2. HoldsVerifier(working, pk, v)
  BY <1>1 DEF AgreementInv, TokensAgree, IndexedRows
<1>3. KeyOf(registry.pairings[pk]) = pk
  BY <1>1 DEF TokenInvs, WellKeyed, DictionariesWellKeyed, IndexResolves
<1>4. pk = <<d, pk[2]>> /\ pk[2] \in Keys
  BY <1>1, <1>3 DEF KeyOf, PairKeys
<1>5. v \notin working.revoked
  <2> SUFFICES ASSUME v \in working.revoked PROVE FALSE
    OBVIOUS
  <2>1. v \notin Marked
    BY <1>1 DEF TokenInvs, RevocationInv, Tombstones
  <2>2. PICK t \in Threads : /\ pc[t] \in InTransaction \union {"invalidate", "remove", "tombstone"}
                             /\ v \in VerifiersFor(registry, req[t].device)
    BY <2>1 DEF AgreementInv, TokensAgree, TombstonesExplained
  <2>3. registry.pairings[pk].device = req[t].device
    BY <2>2 DEF VerifiersFor
  <2>4. QED
    BY <1>1, <2>2, <2>3
<1>6. QED
  BY <1>1, <1>2, <1>4, <1>5 DEF Live

LEMMA LiveServed ==
  ASSUME TokenInvs, AgreementInv, NEW t \in Threads,
         pc[t] \in {"commit", "invalidate", "remove", "tombstone", "index"}
  PROVE  Live(working, req[t].device) = {Verifier(req[t].token)}
<1> DEFINE D == req[t].device
           V == Verifier(req[t].token)
<1>1. Busy(t) /\ V \in Verifiers
  BY RequestFields DEF TokenInvs, TypeOK, Busy
<1>2. Progress(t) /\ Replacing(t) /\ registry.index[V] = None
  BY <1>1 DEF TokenInvs, TokensInv, ServedDevices, Apart, TokenUnused, RevocationInv, Replacements
<1>3. V \notin working.revoked
  BY <1>2 DEF TokenInvs, RevocationInv, Tombstones, Replacing
<1>4. HasRow(working, D, V)
  BY <1>2 DEF Replacing
<1>5. V \in Live(working, D)
  BY <1>1, <1>3, <1>4 DEF Live, HasRow
<1>6. QED
  BY <1>2, <1>5 DEF Progress

(* The dictionaries' half of NeverLockedOut.                               *)
Reachable ==
  \A d \in Devices : current[d] # None =>
    \/ VerifiersFor(registry, d) # {}
    \/ \E t \in Threads : pc[t] \in {"remove", "tombstone", "index"} /\ req[t].device = d

LEMMA NeverLockedOutState ==
  ASSUME Serial, TokenInvs, AgreementInv, Reachable
  PROVE  NeverLockedOut
<1> SUFFICES ASSUME NEW d \in Devices, current[d] # None PROVE VerifiersFor(Restarted, d) # {}
  BY DEF NeverLockedOut, Reachable
<1>1. VerifiersFor(Restarted, d) = Live(durable, d)
  BY LiveIsRestarted DEF Restarted, TokenInvs, TypeOK, WellKeyed
<1>2. CASE \E t \in Threads : pc[t] \in InTransaction
  <2>1. registry = Restarted /\ \A t \in Threads : pc[t] \notin {"remove", "tombstone", "index"}
    BY <1>2 DEF AgreementInv, WorkInv, SerialCommitted, Busy, InTransaction
  <2>2. QED
    BY <2>1 DEF Reachable
<1>3. CASE \A t \in Threads : pc[t] \notin InTransaction
  <2>1. durable = working
    BY <1>3 DEF AgreementInv, WorkInv, SerialCommitted
  <2>2. CASE \E t \in Threads : pc[t] \in {"invalidate", "remove", "tombstone", "index"} /\ req[t].device = d
    BY <1>1, <2>1, <2>2, LiveServed
  <2>3. CASE ~\E t \in Threads : pc[t] \in {"invalidate", "remove", "tombstone", "index"} /\ req[t].device = d
    <3>1. VerifiersFor(registry, d) # {}
      BY <2>3 DEF Reachable
    <3>2. VerifiersFor(registry, d) \subseteq Live(working, d)
      BY <1>3, <2>3, LiveBeside
    <3>3. QED
      BY <1>1, <2>1, <3>1, <3>2
  <2>4. QED
    BY <2>2, <2>3
<1>4. QED
  BY <1>2, <1>3

LEMMA ReachableInductive ==
  ASSUME Serial
  PROVE  TokenInvs /\ AgreementInv /\ Reachable /\ [Next]_vars => Reachable'
<1> SUFFICES ASSUME TokenInvs, AgreementInv, Reachable, [Next]_vars PROVE Reachable'
  OBVIOUS
<1> USE DEF Goto
<1>1. CASE Restart
  BY <1>1, NeverLockedOutState DEF Restart, Reachable, NeverLockedOut, Restarted, historyVars
<1>2. ASSUME NEW t \in Threads, PairDevice(t) PROVE Reachable'
  <2>0. /\ pc \in [Threads -> Steps] /\ req \in [Threads -> PairRequests \union {None}]
        /\ TypeOK /\ WellKeyed
        /\ pc[t] # "idle" => req[t] \in PairRequests
        /\ current \in [Devices -> Verifiers \union {None}]
    BY DEF TokenInvs, TypeOK
  <2>1. ASSUME UNCHANGED <<registry, current>>,
               \A u \in Threads \ {t} : pc'[u] = pc[u] /\ req'[u] = req[u],
               pc[t] \notin {"remove", "tombstone", "index"}
        PROVE  Reachable'
    BY <2>1 DEF Reachable, VerifiersFor
  <2>2. ASSUME NEW r \in PairRequests, Lookup(t, r) PROVE Reachable'
    <3>1. /\ UNCHANGED <<registry, current>> /\ pc[t] = "idle"
          /\ \A u \in Threads \ {t} : pc'[u] = pc[u] /\ req'[u] = req[u]
      BY <2>0, <2>2 DEF Lookup, historyVars
    <3>2. QED
      BY <2>1, <3>1
  <2>3. CASE CollectStale(t) \/ PersistRevoked(t) \/ PersistDevice(t) \/ PersistAgentMachine(t)
             \/ PersistBinding(t) \/ PersistPairing(t) \/ CommitPairing(t)
    <3>1. /\ UNCHANGED <<registry, current>> /\ pc[t] \notin {"remove", "tombstone", "index"}
          /\ \A u \in Threads \ {t} : pc'[u] = pc[u] /\ req'[u] = req[u]
      BY <2>0, <2>3 DEF CollectStale, PersistRevoked, PersistDevice, PersistAgentMachine,
         PersistBinding, PersistPairing, CommitPairing, CommitBy, historyVars
    <3>2. QED
      BY <2>1, <3>1
  <2>4. CASE WriteFails(t) \/ ScanBreaks(t) \/ Notify(t)
    <3>1. /\ UNCHANGED <<registry, current>> /\ pc[t] \notin {"remove", "tombstone", "index"}
          /\ \A u \in Threads \ {t} : pc'[u] = pc[u] /\ req'[u] = req[u]
      BY <2>0, <2>4 DEF WriteFails, ScanBreaks, Notify, CommitBy, Finish, historyVars, InTransaction
    <3>2. QED
      BY <2>1, <3>1
  <2>5. CASE Invalidate(t) \/ RemoveToken(t) \/ TombstoneToken(t)
    <3>1. /\ UNCHANGED <<req, current>> /\ pc'[t] \in {"remove", "tombstone"}
          /\ \A u \in Threads \ {t} : pc'[u] = pc[u]
      BY <2>0, <2>5 DEF Invalidate, RemoveToken, TombstoneToken, historyVars
    <3>2. \A d \in Devices : d # req[t].device => VerifiersFor(registry', d) = VerifiersFor(registry, d)
      <4>1. CASE Invalidate(t)
        BY <4>1 DEF Invalidate, VerifiersFor
      <4>2. CASE RemoveToken(t)
        BY <4>2, RemoveTokens DEF TokenInvs
      <4>3. CASE TombstoneToken(t)
        BY <2>0, <4>3, TombstoneTokens
      <4>4. QED
        BY <2>5, <4>1, <4>2, <4>3
    <3>3. QED
      BY <3>1, <3>2 DEF Reachable
  <2>9. CASE RemoveFails(t)
    BY <2>9, RemoveNeverFails DEF TokenInvs
  <2>6. CASE Publish(t)
    <3>1. /\ UNCHANGED <<req, current>> /\ pc[t] = "remove" /\ pc'[t] = "index" /\ stale[t] = {}
          /\ \A u \in Threads \ {t} : pc'[u] = pc[u]
      BY <2>0, <2>6 DEF Publish, historyVars
    <3>2. VerifiersFor(registry, req[t].device) = {}
      BY <3>1 DEF TokenInvs, Apart, Emptied
    <3>3. \A d \in Devices : VerifiersFor(registry', d) = VerifiersFor(registry, d)
      BY <2>0, <2>6, <3>2, PublishTokens
    <3>4. QED
      BY <3>1, <3>3 DEF Reachable
  <2>7. CASE IndexToken(t)
    <3>1. /\ UNCHANGED req /\ pc[t] = "index" /\ \A u \in Threads \ {t} : pc'[u] = pc[u]
          /\ \A d \in Devices : d # req[t].device => current'[d] = current[d]
      BY <2>0, <2>7 DEF IndexToken
    <3>2. /\ VerifiersFor(registry, req[t].device) = {}
          /\ registry.index[Verifier(req[t].token)] = None
      BY <3>1 DEF TokenInvs, Apart, Emptied, TokenUnused
    <3>3. \A d \in Devices :
            VerifiersFor(registry', d) = IF d = req[t].device THEN {Verifier(req[t].token)}
                                         ELSE VerifiersFor(registry, d)
      BY <2>0, <2>7, <3>2, IndexTokens
    <3>4. QED
      BY <3>1, <3>3 DEF Reachable
  <2>8. QED
    BY <1>2, <2>2, <2>3, <2>4, <2>5, <2>6, <2>7, <2>9 DEF PairDevice
<1>3. CASE UNCHANGED vars
  BY <1>3 DEF vars, threadVars, historyVars, Reachable, VerifiersFor
<1>4. QED
  BY <1>1, <1>2, <1>3 DEF Next

LEMMA SerialIsCareful == Serial => CarefulClients /\ OneBuddyAtATime /\ OneMachineAtATime
BY DEF Serial, CarefulClients, OneBuddyAtATime, OneMachineAtATime

LEMMA SerialHolds ==
  ASSUME Serial
  PROVE  Spec => [](TokenInvs /\ AgreementInv /\ Reachable)
<1>1. CarefulClients /\ OneBuddyAtATime /\ OneMachineAtATime
  BY SerialIsCareful
<1>2. Init => Reachable
  BY DEF Init, Reachable
<1>3. Undisturbed => ~Disturbed
  BY DEF Undisturbed, Disturbed
<1>4. Spec => []Undisturbed /\ [](Disturbed \/ (TokenInvs /\ AgreementInv))
  BY <1>1, UndisturbedHolds, AgreementHolds, PTL
<1>5. TokenInvs /\ AgreementInv /\ Reachable /\ [Next]_vars => Reachable'
  BY ReachableInductive
<1>6. QED
  BY <1>2, <1>3, <1>4, <1>5, PTL DEF Spec

(* Where requests do not overlap, a device that was paired is never left   *)
(* without a token, whichever of its pairings fails or is cut short.       *)
THEOREM NeverLockedOutCorrect ==
  ASSUME Serial
  PROVE  Spec => [](NeverLockedOut /\ NeverLockedOutUnlessSplit)
<1>1. TokenInvs /\ AgreementInv /\ Reachable => NeverLockedOut /\ NeverLockedOutUnlessSplit
  BY NeverLockedOutState DEF NeverLockedOutUnlessSplit
<1>2. QED
  BY <1>1, SerialHolds, PTL

-----------------------------------------------------------------------------
(* The refinement: of all steps only the commit of a pairing changes what  *)
(* is stored, and it replaces the device's credential as a whole.          *)
StoredIn(db, d) ==
  IF VerifiersFor(Load(db), d) = {} THEN None ELSE CHOOSE v \in VerifiersFor(Load(db), d) : TRUE

LEMMA StoredIsDurable == StoredCredential = [d \in Devices |-> StoredIn(durable, d)]
BY DEF StoredCredential, StoredIn, Restarted

LEMMA CommitPairs ==
  ASSUME Serial, TokenInvs, AgreementInv, NEW t \in Threads, CommitPairing(t)
  PROVE  Credential!Next
<1> DEFINE D == req[t].device
           V == Verifier(req[t].token)
<1>1. /\ pc[t] = "commit" /\ Busy(t) /\ durable' = working /\ UNCHANGED working
      /\ D \in Devices /\ V \in Verifiers
  BY RequestFields DEF CommitPairing, CommitBy, Commit, Busy, TokenInvs, TypeOK
<1>2. registry = Restarted
  BY <1>1 DEF AgreementInv, WorkInv, SerialCommitted, InTransaction
<1>3. \A u \in Threads : pc[u] \in InTransaction \union {"invalidate", "remove", "tombstone"} => u = t
  BY <1>1 DEF AgreementInv, WorkInv, SerialCommitted, Busy, InTransaction
<1>4. /\ working \in Database /\ durable \in Database /\ RowsWellKeyed(working) /\ RowsWellKeyed(durable)
      /\ registry.revoked = durable.revoked
      /\ durable.revoked \subseteq working.revoked
  BY <1>2 DEF TokenInvs, TypeOK, WellKeyed, RevocationInv, Tombstones, Restarted, Load
<1>m. Marked = registry.revoked
  BY <1>1, <1>3, MarkedNow DEF TokenInvs, TypeOK
<1>5. Replacing(t) /\ registry.index[V] = None
  BY <1>1 DEF TokenInvs, Apart, TokenUnused, RevocationInv, Replacements
<1>6. ASSUME NEW d \in Devices
      PROVE  VerifiersFor(Load(working), d) = IF d = D THEN {V} ELSE VerifiersFor(registry, d)
  <2>1. VerifiersFor(Load(working), d) = Live(working, d)
    BY <1>4, LiveIsRestarted
  <2>2. CASE d = D
    BY <1>1, <2>1, <2>2, LiveServed
  <2>3. CASE d # D
    <3>1. VerifiersFor(registry, d) \subseteq Live(working, d)
      BY <1>3, <2>3, LiveBeside
    <3>2. Unserved(d)
      BY <1>1, <2>3 DEF AgreementInv, WorkInv, SerialCommitted, Unserved
    <3>3. Live(working, d) \subseteq VerifiersFor(registry, d)
      BY <3>2 DEF TokenInvs, TokensInv, UnservedDevices
    <3>4. Live(working, d) = VerifiersFor(registry, d)
      BY <3>1, <3>3
    <3>5. QED
      BY <2>1, <2>3, <3>4
  <2>4. QED
    BY <2>2, <2>3
<1>7. ASSUME NEW d \in Devices
      PROVE  StoredIn(working, d) = IF d = D THEN V ELSE StoredIn(durable, d)
  <2>1. CASE d = D
    BY <1>6, <2>1 DEF StoredIn
  <2>2. CASE d # D
    <3>1. VerifiersFor(Load(working), d) = VerifiersFor(Load(durable), d)
      BY <1>2, <1>6, <2>2 DEF Restarted
    <3>2. QED
      BY <2>2, <3>1 DEF StoredIn
  <2>3. QED
    BY <2>1, <2>2
<1>8. StoredCredential' = [StoredCredential EXCEPT ![D] = V]
  <2>1. StoredCredential = [d \in Devices |-> StoredIn(durable, d)]
    BY StoredIsDurable
  <2>2. StoredCredential' = [d \in Devices |-> StoredIn(working, d)]
    BY <1>1 DEF StoredCredential, StoredIn, Restarted
  <2>3. QED
    BY <1>7, <2>1, <2>2
<1>9. durable'.revoked = durable.revoked \union ({StoredCredential[D]} \ {None})
  <2>1. VerifiersFor(registry, D) \subseteq working.revoked
    BY <1>1, <1>5 DEF Replacing
  <2>2. working.revoked \subseteq registry.revoked \union VerifiersFor(registry, D)
    BY <1>3, <1>m DEF AgreementInv, TokensAgree, TombstonesExplained
  <2>3. working.revoked = durable.revoked \union VerifiersFor(registry, D)
    BY <1>4, <2>1, <2>2
  <2>4. VerifiersFor(registry, D) = {StoredCredential[D]} \ {None}
    <3>1. StoredCredential[D] = IF VerifiersFor(registry, D) = {} THEN None
                                ELSE CHOOSE v \in VerifiersFor(registry, D) : TRUE
      BY <1>1, <1>2 DEF StoredCredential
    <3>2. CASE VerifiersFor(registry, D) = {}
      BY <3>1, <3>2
    <3>3. CASE VerifiersFor(registry, D) # {}
      <4>1. StoredCredential[D] \in VerifiersFor(registry, D)
        BY <3>1, <3>3
      <4>2. \A v \in VerifiersFor(registry, D) : v = StoredCredential[D]
        BY <1>1, <4>1 DEF TokenInvs, TokensInv, OneInRegistry, VerifiersFor
      <4>3. StoredCredential[D] # None
        BY <4>1, NoneAssumption DEF VerifiersFor
      <4>4. QED
        BY <4>1, <4>2, <4>3
    <3>4. QED
      BY <3>2, <3>3
  <2>5. QED
    BY <1>1, <2>3, <2>4
<1>10. V \notin durable.revoked
  BY <1>1, <1>4, <1>5, <1>m DEF Replacing
<1>11. \A e \in Devices : StoredCredential[e] # V
  <2> SUFFICES ASSUME NEW e \in Devices PROVE StoredCredential[e] # V
    OBVIOUS
  <2>1. StoredCredential[e] = IF VerifiersFor(registry, e) = {} THEN None
                              ELSE CHOOSE v \in VerifiersFor(registry, e) : TRUE
    BY <1>2 DEF StoredCredential
  <2>2. V \notin VerifiersFor(registry, e)
    BY <1>5 DEF VerifiersFor
  <2>3. V # None
    BY <1>1, NoneAssumption
  <2>4. QED
    BY <2>1, <2>2, <2>3
<1>12. Credential!Pair(D, V)
  BY <1>8, <1>9, <1>10, <1>11 DEF Credential!Pair
<1>13. QED
  BY <1>1, <1>12 DEF Credential!Next

LEMMA CredentialStep ==
  ASSUME Serial
  PROVE  TokenInvs /\ AgreementInv /\ [Next]_vars => [Credential!Next]_(Credential!vars)
<1> SUFFICES ASSUME TokenInvs, AgreementInv, [Next]_vars
             PROVE  [Credential!Next]_(Credential!vars)
  OBVIOUS
<1>1. ASSUME durable' = durable PROVE UNCHANGED Credential!vars
  BY <1>1 DEF Credential!vars, StoredCredential, Restarted
<1>2. CASE Restart \/ UNCHANGED vars
  BY <1>1, <1>2 DEF Restart, Rollback, vars, connectionVars
<1>3. ASSUME NEW t \in Threads, PairDevice(t) PROVE [Credential!Next]_(Credential!vars)
  <2>1. CASE CommitPairing(t)
    BY <2>1, CommitPairs
  <2>2. CASE Notify(t)
    <3>1. /\ pc[t] = "notify" /\ durable' = working
          /\ \A u \in Threads : pc[u] \notin InTransaction
      BY <2>2 DEF Notify, CommitBy, Commit, AgreementInv, WorkInv, SerialCommitted, Busy, InTransaction
    <3>2. durable = working
      BY <3>1 DEF AgreementInv, WorkInv, SerialCommitted
    <3>3. QED
      BY <1>1, <3>1, <3>2
  <2>3. CASE ~CommitPairing(t) /\ ~Notify(t)
    <3>1. UNCHANGED durable
      BY <1>3, <2>3 DEF PairDevice, Lookup, CollectStale, PersistRevoked, PersistDevice, PersistAgentMachine,
         PersistBinding, PersistPairing, WriteFails, ScanBreaks, Invalidate, RemoveToken,
         RemoveFails, TombstoneToken, Publish, IndexToken,
         Execute, Rollback, connectionVars
    <3>2. QED
      BY <1>1, <3>1
  <2>4. QED
    BY <2>1, <2>2, <2>3
<1>4. QED
  BY <1>2, <1>3 DEF Next

(* Where requests do not overlap, the tables implement DeviceCredential:   *)
(* each commit replaces a device's credential as a whole or changes none,  *)
(* whatever fails and wherever the process dies.                           *)
THEOREM ImplementsCredentialCorrect ==
  ASSUME Serial
  PROVE  Spec => ImplementsCredential /\ ImplementsCredentialUnlessSplit
<1>1. Init => Credential!Init
  <2> SUFFICES ASSUME Init PROVE Credential!Init
    OBVIOUS
  <2>1. durable = EmptyDatabase /\ durable.revoked = {}
    BY DEF Init, EmptyDatabase
  <2>2. \A v \in Verifiers : Load(durable).index[v] = None
    BY <2>1 DEF Load, EmptyDatabase, HoldsVerifier
  <2>3. \A d \in Devices : VerifiersFor(Restarted, d) = {}
    BY <2>2 DEF VerifiersFor, Restarted
  <2>4. QED
    BY <2>1, <2>3 DEF Credential!Init, StoredCredential
<1>2. [Credential!Next]_(Credential!vars) =>
        [\/ UNCHANGED durable
         \/ torn' \/ halved' \/ split' \/ raced'
         \/ Credential!Next]_(Credential!vars)
  OBVIOUS
<1>3. QED
  BY <1>1, <1>2, CredentialStep, SerialHolds, PTL
     DEF Spec, ImplementsCredential, ImplementsCredentialUnlessSplit, Credential!Spec

-----------------------------------------------------------------------------
(* The start of the process that takes over the tables of an earlier       *)
(* version (TokenMigration), wherever and however often it is cut short.   *)
CONSTANT HexTokens
VARIABLES phase, loaded, job, newest, retired

Start == INSTANCE TokenMigration WITH registry <- loaded, current <- newest

(* What TokenMigration assumes of its constants.                           *)
MigrationAssumption ==
  /\ HexTokens \subseteq Tokens
  /\ Tokens \intersect Start!Verifiers = {}
  /\ None \notin Tokens /\ None \notin Start!Row /\ None \notin Start!PairKeys
  /\ None \notin Start!Registry

(* The row is that of the token t, in one of the forms that the versions   *)
(* have written.                                                           *)
VerifierRow(t) == [stored |-> Start!Verifier(t), payload |-> None]
Stands(row, t) ==
  \/ row = VerifierRow(t)
  \/ t \notin HexTokens /\ row = [stored |-> t, payload |-> None]
  \/ row = [stored |-> t, payload |-> t]

(* There is a tombstone of t, as it is today or as the migration can tell  *)
(* it from a verifier.                                                     *)
Dead(db, t) == Start!Verifier(t) \in db.revoked \/ t \in Start!LegacyRevoked(db)

(* A tombstone that reads like a verifier and is the token itself.         *)
Kept(db, t) == t \in db.revoked \cap HexTokens

(* Tables that a start may find: each token has one row, and exactly the   *)
(* last token of each device is alive.                                     *)
RowsSound(db) ==
  /\ \A pk \in Start!Rows(db) : \E t \in Tokens : Stands(db.pairings[pk], t)
  /\ \A p, q \in Start!Rows(db), t \in Tokens :
       Stands(db.pairings[p], t) /\ Stands(db.pairings[q], t) => p = q
LastAlive(db) ==
  /\ \A pk \in Start!Rows(db), t \in Tokens :
       Stands(db.pairings[pk], t) => (Dead(db, t) <=> t # newest[pk[1]])
  /\ \A d \in Devices : newest[d] # None =>
       \E k \in Keys : <<d, k>> \in Start!Rows(db) /\ Stands(db.pairings[<<d, k>>], newest[d])
  /\ \A t \in retired : Dead(db, t) \/ Kept(db, t)
Sound(db) == RowsSound(db) /\ LastAlive(db)

(* Tables in which there is nothing left to migrate.                       *)
Clean(db) ==
  /\ \A pk \in Start!Rows(db) : \E t \in Tokens : db.pairings[pk] = VerifierRow(t)
  /\ db.revoked \subseteq Start!Verifiers \union HexTokens

(* What the migration has made of the committed tables so far.             *)
MigratedRows(db, left, plain) ==
  [pk \in Start!PairKeys |-> IF pk \in left \/ db.pairings[pk] = None THEN db.pairings[pk]
                       ELSE Start!Migrated(db.pairings[pk], plain)]
MigratedTombstones(db, left) ==
  LET rewritten == Start!LegacyRevoked(db) \ left
  IN (db.revoked \ rewritten) \union {Start!Verifier(x) : x \in rewritten}

Migrating ==
  /\ job.plain = Start!LegacyPlaintext(durable)
  /\ job.pairings \subseteq Start!Rows(durable)
  /\ job.revoked \subseteq Start!LegacyRevoked(durable)
  /\ working.pairings = MigratedRows(durable, job.pairings, job.plain)
  /\ working.revoked = MigratedTombstones(durable, job.revoked)

StartProgress ==
  /\ phase # "migrate" => working = durable
  /\ phase = "migrate" => Migrating
  /\ phase \in {"load", "up"} => Clean(durable)
  /\ phase = "up" => loaded = Start!Load(durable)

MigrationInv == Start!TypeOK /\ Sound(durable) /\ StartProgress

-----------------------------------------------------------------------------
LEMMA StoredFacts ==
  ASSUME MigrationAssumption
  PROVE  /\ \A t \in Tokens : /\ Start!Verifier(t) \in Start!Verifiers
                              /\ Start!Verifier(t) \in Start!Stored /\ t \in Start!Stored
                              /\ t \notin Start!Verifiers /\ Start!Verifier(t) \notin Tokens
         /\ \A x \in Start!Stored : x \in Tokens \/ \E t \in Tokens : x = Start!Verifier(t)
         /\ \A t, u \in Tokens : Start!Verifier(t) = Start!Verifier(u) => t = u
         /\ HexTokens \subseteq Tokens
BY DEF MigrationAssumption, Start!Stored, Start!Verifiers, Start!Verifier

(* A row stands for one token.                                             *)
LEMMA StandsUnique ==
  ASSUME MigrationAssumption,
         NEW row, NEW t \in Tokens, NEW u \in Tokens, Stands(row, t), Stands(row, u)
  PROVE  t = u
BY StoredFacts DEF Stands, VerifierRow

LEMMA StandsStored ==
  ASSUME MigrationAssumption,
         NEW row, NEW t \in Tokens, Stands(row, t)
  PROVE  /\ row.stored = t \/ row.stored = Start!Verifier(t)
         /\ row \in Start!Row
         /\ row # None
BY StoredFacts DEF MigrationAssumption, Stands, VerifierRow, Start!Row

(* What the migration has to rewrite are tokens.                           *)
LEMMA LegacyTokens ==
  ASSUME MigrationAssumption,
         NEW db \in Start!Database
  PROVE  /\ Start!LegacyPlaintext(db) \subseteq Tokens
         /\ Start!LegacyRevoked(db) \subseteq Tokens
<1>1. Start!LegacyPlaintext(db) \subseteq Tokens
  <2>1. ASSUME NEW pk \in Start!Rows(db)
        PROVE  /\ db.pairings[pk].payload \in Tokens \union {None}
               /\ db.pairings[pk].stored \in Start!Stored
    BY DEF MigrationAssumption, Start!Rows, Start!Database, Start!Row
  <2>2. \A x \in Start!Stored : ~Start!LooksLikeVerifier(x) => x \in Tokens
    BY DEF Start!Stored, Start!LooksLikeVerifier
  <2>3. QED
    BY <2>1, <2>2 DEF Start!LegacyPlaintext
<1>2. Start!LegacyRevoked(db) \subseteq Tokens
  BY <1>1 DEF Start!LegacyRevoked, Start!Database, Start!Stored, Start!LooksLikeVerifier
<1>3. QED
  BY <1>1, <1>2

(* The migration gives the row of any form the form of today.              *)
LEMMA MigratedRow ==
  ASSUME MigrationAssumption,
         NEW db \in Start!Database, RowsSound(db), NEW pk \in Start!Rows(db), NEW t \in Tokens,
         Stands(db.pairings[pk], t)
  PROVE  Start!Migrated(db.pairings[pk], Start!LegacyPlaintext(db)) = VerifierRow(t)
<1> DEFINE row == db.pairings[pk]
           plain == Start!LegacyPlaintext(db)
<1>1. CASE row = VerifierRow(t)
  <2>1. Start!Verifier(t) \notin plain
    BY LegacyTokens, StoredFacts
  <2>2. QED
    BY <1>1, <2>1 DEF Start!Migrated, VerifierRow
<1>2. CASE t \notin HexTokens /\ row = [stored |-> t, payload |-> None]
  <2>1. ~Start!LooksLikeVerifier(t)
    BY <1>2, StoredFacts DEF Start!LooksLikeVerifier
  <2>2. t \in plain
    BY <1>2, <2>1 DEF Start!LegacyPlaintext
  <2>3. QED
    BY <1>2, <2>2 DEF Start!Migrated, VerifierRow
<1>3. CASE row = [stored |-> t, payload |-> t]
  BY <1>3 DEF MigrationAssumption, Start!Migrated, VerifierRow
<1>4. QED
  BY <1>1, <1>2, <1>3 DEF Stands

(* The tables half way: every row still stands for its token.              *)
LEMMA MigratedSound ==
  ASSUME MigrationAssumption,
         NEW db \in Start!Database, RowsSound(db), NEW left,
         NEW new \in Start!Database,
         new.pairings = MigratedRows(db, left, Start!LegacyPlaintext(db))
  PROVE  /\ Start!Rows(new) = Start!Rows(db)
         /\ \A pk \in Start!Rows(db), t \in Tokens :
              Stands(new.pairings[pk], t) <=> Stands(db.pairings[pk], t)
         /\ RowsSound(new)
<1>1. ASSUME NEW pk \in Start!Rows(db)
      PROVE  \E t \in Tokens : /\ Stands(db.pairings[pk], t)
                               /\ new.pairings[pk] \in {db.pairings[pk], VerifierRow(t)}
  <2>1. PICK t \in Tokens : Stands(db.pairings[pk], t)
    BY DEF RowsSound
  <2>2. Start!Migrated(db.pairings[pk], Start!LegacyPlaintext(db)) = VerifierRow(t)
    BY <2>1, MigratedRow
  <2>3. new.pairings[pk] \in {db.pairings[pk], VerifierRow(t)}
    BY <2>2 DEF MigratedRows, Start!Rows
  <2>4. QED
    BY <2>1, <2>3
<1>2. ASSUME NEW pk \in Start!Rows(db)
      PROVE  /\ new.pairings[pk] # None
             /\ \A t \in Tokens : Stands(new.pairings[pk], t) <=> Stands(db.pairings[pk], t)
  <2>1. PICK t \in Tokens : /\ Stands(db.pairings[pk], t)
                            /\ new.pairings[pk] \in {db.pairings[pk], VerifierRow(t)}
    BY <1>1
  <2>2. Stands(new.pairings[pk], t)
    BY <2>1 DEF Stands
  <2>3. QED
    BY <2>1, <2>2, StandsUnique, StandsStored
<1>3. Start!Rows(new) = Start!Rows(db)
  BY <1>2 DEF Start!Rows, MigratedRows
<1>4. QED
  BY <1>2, <1>3 DEF RowsSound

(* In tables of today only the tombstones of today count.                  *)
LEMMA CleanDead ==
  ASSUME MigrationAssumption,
         NEW db, Clean(db)
  PROVE  /\ Start!LegacyPlaintext(db) = {} /\ Start!LegacyRevoked(db) = {}
         /\ \A t \in Tokens : Dead(db, t) <=> Start!Verifier(t) \in db.revoked
<1>1. ASSUME NEW pk \in Start!Rows(db)
      PROVE  db.pairings[pk].payload = None /\ Start!LooksLikeVerifier(db.pairings[pk].stored)
  <2>1. PICK t \in Tokens : db.pairings[pk] = VerifierRow(t)
    BY DEF Clean
  <2>2. QED
    BY <2>1, StoredFacts DEF VerifierRow, Start!LooksLikeVerifier
<1>2. Start!LegacyPlaintext(db) = {}
  BY <1>1 DEF Start!LegacyPlaintext
<1>3. Start!LegacyRevoked(db) = {}
  BY <1>2 DEF Clean, Start!LegacyRevoked, Start!LooksLikeVerifier
<1>4. QED
  BY <1>2, <1>3 DEF Dead

(* When nothing is left to rewrite, the tables are those of today, and the *)
(* same tokens are dead.                                                   *)
LEMMA MigratedClean ==
  ASSUME MigrationAssumption,
         Start!TypeOK, NEW db \in Start!Database, Sound(db), NEW new \in Start!Database,
         new.pairings = MigratedRows(db, {}, Start!LegacyPlaintext(db)),
         new.revoked = MigratedTombstones(db, {})
  PROVE  Sound(new) /\ Clean(new)
<1> DEFINE old == Start!LegacyRevoked(db)
<1>1. /\ Start!Rows(new) = Start!Rows(db) /\ RowsSound(new)
      /\ \A pk \in Start!Rows(db), t \in Tokens :
           Stands(new.pairings[pk], t) <=> Stands(db.pairings[pk], t)
  BY MigratedSound DEF Sound
<1>2. \A pk \in Start!Rows(new) : \E t \in Tokens : new.pairings[pk] = VerifierRow(t)
  <2>1. SUFFICES ASSUME NEW pk \in Start!Rows(db)
                 PROVE  \E t \in Tokens : new.pairings[pk] = VerifierRow(t)
    BY <1>1
  <2>2. PICK t \in Tokens : Stands(db.pairings[pk], t)
    BY DEF Sound, RowsSound
  <2>3. Start!Migrated(db.pairings[pk], Start!LegacyPlaintext(db)) = VerifierRow(t)
    BY <2>2, MigratedRow DEF Sound
  <2>4. QED
    BY <2>3 DEF MigratedRows, Start!Rows
<1>3. old \subseteq Tokens
  BY LegacyTokens
<1>4. new.revoked = (db.revoked \ old) \union {Start!Verifier(x) : x \in old}
  BY DEF MigratedTombstones
<1>5. new.revoked \subseteq Start!Verifiers \union HexTokens
  <2>1. db.revoked \ old \subseteq Start!Verifiers \union HexTokens
    BY DEF Start!LegacyRevoked, Start!LooksLikeVerifier
  <2>2. QED
    BY <1>3, <1>4, <2>1, StoredFacts
<1>6. Clean(new)
  BY <1>2, <1>5 DEF Clean
<1>7. ASSUME NEW t \in Tokens PROVE Dead(new, t) <=> Dead(db, t)
  <2>3. Start!Verifier(t) \in new.revoked <=> Start!Verifier(t) \in db.revoked \/ t \in old
    BY <1>3, <1>4, StoredFacts
  <2>4. QED
    BY <1>6, <2>3, CleanDead DEF Dead
<1>8. LastAlive(new)
  <2>1. ASSUME NEW t \in retired PROVE Dead(new, t) \/ Kept(new, t)
    <3>1. t \in Tokens /\ (Dead(db, t) \/ Kept(db, t))
      BY DEF Sound, LastAlive, Start!TypeOK
    <3>2. CASE Dead(db, t)
      BY <3>1, <3>2, <1>7
    <3>3. CASE Kept(db, t) /\ t \in old
      BY <3>1, <3>3, <1>7 DEF Dead
    <3>4. CASE Kept(db, t) /\ t \notin old
      BY <3>4, <1>4 DEF Kept
    <3>5. QED
      BY <3>1, <3>2, <3>3, <3>4
  <2>2. ASSUME NEW pk \in Start!Rows(new), NEW t \in Tokens, Stands(new.pairings[pk], t)
        PROVE  Dead(new, t) <=> t # newest[pk[1]]
    BY <2>2, <1>1, <1>7 DEF Sound, LastAlive
  <2>3. ASSUME NEW d \in Devices, newest[d] # None
        PROVE  \E k \in Keys : <<d, k>> \in Start!Rows(new) /\ Stands(new.pairings[<<d, k>>], newest[d])
    BY <2>3, <1>1 DEF Sound, LastAlive, Start!TypeOK
  <2>4. QED
    BY <2>1, <2>2, <2>3 DEF LastAlive
<1>9. QED
  BY <1>1, <1>6, <1>8 DEF Sound

LEMMA LegacyRowStands ==
  ASSUME MigrationAssumption,
         NEW row \in Start!LegacyRows
  PROVE  Start!TokenOf(row) \in Tokens /\ Stands(row, Start!TokenOf(row))
<1>1. \E t \in Tokens : Stands(row, t) /\ row.stored \in {t, Start!Verifier(t)}
  BY StoredFacts DEF Start!LegacyRows, Stands, VerifierRow, Start!Verifiers
<1>2. /\ Start!TokenOf(row) \in Tokens
      /\ row.stored \in {Start!TokenOf(row), Start!Verifier(Start!TokenOf(row))}
  BY <1>1 DEF Start!TokenOf
<1>3. PICK t \in Tokens : Stands(row, t) /\ row.stored \in {t, Start!Verifier(t)}
  BY <1>1
<1>4. t = Start!TokenOf(row)
  BY <1>2, <1>3, StoredFacts
<1>5. QED
  BY <1>3, <1>4

LEMMA InitSound ==
  ASSUME MigrationAssumption
  PROVE  Start!Init => Start!TypeOK /\ Sound(durable)
<1> SUFFICES ASSUME Start!Init PROVE Start!TypeOK /\ Sound(durable)
  OBVIOUS
<1>a. PICK made \in SUBSET Start!PairKeys : \E rows \in [made -> Start!LegacyRows] :
        LET used == {Start!TokenOf(rows[pk]) : pk \in made} IN
        /\ \A p, q \in made : Start!TokenOf(rows[p]) = Start!TokenOf(rows[q]) => p = q
        /\ \E last \in [{pk[1] : pk \in made} -> made], orphans \in SUBSET (Tokens \ used) :
             LET old == {pk \in made : pk # last[pk[1]]} IN
             /\ \A d \in DOMAIN last : last[d][1] = d
             /\ working = [pairings |-> [pk \in Start!PairKeys |->
                                           IF pk \in made THEN rows[pk] ELSE None],
                           revoked |-> {rows[pk].stored : pk \in old} \union orphans]
             /\ newest = [d \in Devices |->
                             IF d \in DOMAIN last THEN Start!TokenOf(rows[last[d]]) ELSE None]
             /\ retired = {Start!TokenOf(rows[pk]) : pk \in old} \union orphans
  BY DEF Start!Init
<1>1. PICK rows \in [made -> Start!LegacyRows] :
        LET used == {Start!TokenOf(rows[pk]) : pk \in made} IN
        /\ \A p, q \in made : Start!TokenOf(rows[p]) = Start!TokenOf(rows[q]) => p = q
        /\ \E last \in [{pk[1] : pk \in made} -> made], orphans \in SUBSET (Tokens \ used) :
             LET old == {pk \in made : pk # last[pk[1]]} IN
             /\ \A d \in DOMAIN last : last[d][1] = d
             /\ working = [pairings |-> [pk \in Start!PairKeys |->
                                           IF pk \in made THEN rows[pk] ELSE None],
                           revoked |-> {rows[pk].stored : pk \in old} \union orphans]
             /\ newest = [d \in Devices |->
                             IF d \in DOMAIN last THEN Start!TokenOf(rows[last[d]]) ELSE None]
             /\ retired = {Start!TokenOf(rows[pk]) : pk \in old} \union orphans
  BY <1>a
<1> DEFINE token(pk) == Start!TokenOf(rows[pk])
<1>2. PICK last \in [{pk[1] : pk \in made} -> made],
           orphans \in SUBSET (Tokens \ {token(pk) : pk \in made}) :
        LET old == {pk \in made : pk # last[pk[1]]} IN
        /\ \A d \in DOMAIN last : last[d][1] = d
        /\ working = [pairings |-> [pk \in Start!PairKeys |->
                                      IF pk \in made THEN rows[pk] ELSE None],
                      revoked |-> {rows[pk].stored : pk \in old} \union orphans]
        /\ newest = [d \in Devices |->
                        IF d \in DOMAIN last THEN token(last[d]) ELSE None]
        /\ retired = {token(pk) : pk \in old} \union orphans
  BY <1>1
<1> DEFINE old == {pk \in made : pk # last[pk[1]]}
<1>3. \A pk \in made : /\ token(pk) \in Tokens /\ Stands(rows[pk], token(pk))
                       /\ rows[pk] \in Start!Row /\ rows[pk] # None
                       /\ rows[pk].stored \in {token(pk), Start!Verifier(token(pk))}
                       /\ rows[pk].stored \in Start!Stored
  BY LegacyRowStands, StandsStored, StoredFacts
<1>4. \A p, q \in made : token(p) = token(q) => p = q
  BY <1>1
<1>5. /\ working = [pairings |-> [pk \in Start!PairKeys |-> IF pk \in made THEN rows[pk] ELSE None],
                    revoked |-> {rows[pk].stored : pk \in old} \union orphans]
      /\ newest = [d \in Devices |->
                      IF d \in {pk[1] : pk \in made} THEN token(last[d]) ELSE None]
      /\ retired = {token(pk) : pk \in old} \union orphans
      /\ \A d \in {pk[1] : pk \in made} : last[d] \in made /\ last[d][1] = d
      /\ orphans \subseteq Tokens /\ \A pk \in made : token(pk) \notin orphans
      /\ durable = working
  <2>1. DOMAIN last = {pk[1] : pk \in made}
    OBVIOUS
  <2>2. \A d \in {pk[1] : pk \in made} : last[d] \in made /\ last[d][1] = d
    BY <1>2, <2>1
  <2>3. orphans \subseteq Tokens /\ \A pk \in made : token(pk) \notin orphans
    OBVIOUS
  <2>4. newest = [d \in Devices |->
                     IF d \in {pk[1] : pk \in made} THEN token(last[d]) ELSE None]
    BY <1>2, <2>1
  <2>5. QED
    BY <1>2, <2>2, <2>3, <2>4 DEF Start!Init
<1> HIDE DEF token, old
<1>6. /\ working \in Start!Database
      /\ retired \subseteq Tokens /\ newest \in [Devices -> Tokens \union {None}]
  <2>1. old \subseteq made
    BY DEF old
  <2>2. [pk \in Start!PairKeys |-> IF pk \in made THEN rows[pk] ELSE None]
          \in [Start!PairKeys -> Start!Row \union {None}]
    BY <1>3
  <2>3. {rows[pk].stored : pk \in old} \union orphans \in SUBSET Start!Stored
    BY <2>1, <1>3, <1>5, StoredFacts
  <2>4. working \in Start!Database
    BY <2>2, <2>3, <1>5 DEF Start!Database
  <2>5. retired \subseteq Tokens
    BY <2>1, <1>3, <1>5
  <2>6. newest \in [Devices -> Tokens \union {None}]
    BY <1>3, <1>5
  <2>7. QED
    BY <2>4, <2>5, <2>6
<1>7. /\ Start!Rows(durable) = made
      /\ \A pk \in made : durable.pairings[pk] = rows[pk]
      /\ durable.revoked = {rows[pk].stored : pk \in old} \union orphans
  BY <1>3, <1>5 DEF Start!Rows
<1>8. \A pk \in made, t \in Tokens : Stands(rows[pk], t) <=> t = token(pk)
  BY <1>3, StandsUnique
<1>9. RowsSound(durable)
  BY <1>3, <1>4, <1>7, <1>8 DEF RowsSound
<1>10. Start!TypeOK
  <2>1. \A p, q \in Start!Rows(working) :
          working.pairings[p].stored = working.pairings[q].stored => p = q
    BY <1>3, <1>4, <1>5, <1>7, StoredFacts
  <2>2. QED
    <3>1. job \in Start!Job
      BY DEF Start!Init, Start!NoJob, Start!Job
    <3>2. phase = "read" /\ loaded = None
      BY DEF Start!Init
    <3>3. QED
      BY <1>5, <1>6, <2>1, <3>1, <3>2 DEF Start!TypeOK
<1>11. ASSUME NEW pk \in made PROVE Dead(durable, token(pk)) <=> pk \in old
  <2>1. ASSUME pk \in old PROVE Dead(durable, token(pk))
    <3>1. rows[pk].stored \in durable.revoked
      BY <2>1, <1>7
    <3>2. CASE rows[pk].stored = Start!Verifier(token(pk))
      BY <3>1, <3>2 DEF Dead
    <3>3. CASE rows[pk].stored = token(pk)
      <4>1. token(pk) \in Start!LegacyPlaintext(durable)
        <5>1. \/ token(pk) \notin HexTokens /\ rows[pk] = [stored |-> token(pk), payload |-> None]
              \/ rows[pk] = [stored |-> token(pk), payload |-> token(pk)]
          BY <3>3, <1>3, StoredFacts DEF Stands, VerifierRow
        <5>2. pk \in Start!Rows(durable) /\ durable.pairings[pk] = rows[pk]
          BY <1>7
        <5>3. CASE token(pk) \notin HexTokens /\ rows[pk] = [stored |-> token(pk), payload |-> None]
          <6>1. ~Start!LooksLikeVerifier(token(pk))
            BY <5>3, <1>3, StoredFacts DEF Start!LooksLikeVerifier
          <6>2. QED
            BY <5>2, <5>3, <6>1 DEF Start!LegacyPlaintext
        <5>4. CASE rows[pk] = [stored |-> token(pk), payload |-> token(pk)]
          <6>1. token(pk) # None
            BY <1>3 DEF MigrationAssumption
          <6>2. QED
            BY <5>2, <5>4, <6>1 DEF Start!LegacyPlaintext
        <5>5. QED
          BY <5>1, <5>3, <5>4
      <4>2. QED
        BY <3>1, <3>3, <4>1 DEF Dead, Start!LegacyRevoked
    <3>4. QED
      BY <3>2, <3>3, <1>3
  <2>2. ASSUME Dead(durable, token(pk)) PROVE pk \in old
    <3>1. \/ Start!Verifier(token(pk)) \in durable.revoked
          \/ token(pk) \in durable.revoked
      BY <2>2 DEF Dead, Start!LegacyRevoked
    <3>2. token(pk) \notin orphans /\ Start!Verifier(token(pk)) \notin orphans
      BY <1>3, <1>5, StoredFacts
    <3>3. PICK q \in old : rows[q].stored \in {token(pk), Start!Verifier(token(pk))}
      BY <3>1, <3>2, <1>7
    <3>4. q \in made
      BY DEF old
    <3>5. token(q) = token(pk)
      BY <3>3, <3>4, <1>3, StoredFacts
    <3>6. QED
      BY <3>4, <3>5, <1>4
  <2>3. QED
    BY <2>1, <2>2
<1>12. LastAlive(durable)
  <2>1. ASSUME NEW pk \in made
        PROVE  /\ pk[1] \in Devices /\ pk[1] \in {p[1] : p \in made}
               /\ pk \in old <=> token(pk) # newest[pk[1]]
    <3>1. pk[1] \in Devices
      BY DEF Start!PairKeys
    <3>2. newest[pk[1]] = token(last[pk[1]]) /\ last[pk[1]] \in made
      BY <1>5, <3>1
    <3>3. QED
      BY <3>1, <3>2, <1>4 DEF old
  <2>2. ASSUME NEW pk \in Start!Rows(durable), NEW t \in Tokens, Stands(durable.pairings[pk], t)
        PROVE  Dead(durable, t) <=> t # newest[pk[1]]
    BY <2>1, <2>2, <1>7, <1>8, <1>11
  <2>3. ASSUME NEW d \in Devices, newest[d] # None
        PROVE  \E k \in Keys : /\ <<d, k>> \in Start!Rows(durable)
                               /\ Stands(durable.pairings[<<d, k>>], newest[d])
    <3>1. d \in {pk[1] : pk \in made} /\ newest[d] = token(last[d])
      BY <2>3, <1>5
    <3>2. last[d] \in made /\ last[d][1] = d
      BY <3>1, <1>5
    <3>3. PICK k \in Keys : last[d] = <<d, k>>
      BY <3>2 DEF Start!PairKeys
    <3>4. QED
      BY <3>1, <3>2, <3>3, <1>3, <1>7
  <2>4. ASSUME NEW t \in retired PROVE Dead(durable, t) \/ Kept(durable, t)
    <3>1. CASE \E pk \in old : t = token(pk)
      BY <3>1, <1>11 DEF old
    <3>2. CASE t \in orphans \ HexTokens
      BY <3>2, <1>5, <1>7, StoredFacts DEF Dead, Start!LegacyRevoked, Start!LooksLikeVerifier
    <3>3. CASE t \in orphans \cap HexTokens
      BY <3>3, <1>7 DEF Kept
    <3>4. QED
      BY <3>1, <3>2, <3>3, <1>5
  <2>5. QED
    BY <2>2, <2>3, <2>4 DEF LastAlive
<1>13. QED
  BY <1>9, <1>10, <1>12 DEF Sound

-----------------------------------------------------------------------------
LEMMA HoldsOnce ==
  ASSUME MigrationAssumption,
         NEW db \in Start!Database, RowsSound(db), NEW p \in Start!PairKeys, NEW q \in Start!PairKeys,
         NEW x \in Start!Stored, Start!Holds(db, p, x), Start!Holds(db, q, x)
  PROVE  p = q
<1>1. PICK t \in Tokens : Stands(db.pairings[p], t)
  BY DEF RowsSound, Start!Holds
<1>2. PICK u \in Tokens : Stands(db.pairings[q], u)
  BY DEF RowsSound, Start!Holds
<1>3. t = u
  BY <1>1, <1>2, StandsStored, StoredFacts DEF Start!Holds
<1>4. QED
  BY <1>1, <1>2, <1>3 DEF RowsSound, Start!Holds

(* The dictionaries that are loaded name the row of each token that has no *)
(* tombstone.                                                              *)
LEMMA LoadIndex ==
  ASSUME MigrationAssumption,
         NEW db \in Start!Database, RowsSound(db)
  PROVE  /\ Start!Load(db) \in Start!Registry
         /\ Start!Load(db).revoked = db.revoked
         /\ \A x \in Start!Stored : Start!Load(db).index[x] # None =>
              /\ x \notin db.revoked
              /\ Start!Load(db).index[x] \in Start!PairKeys
             /\ Start!Holds(db, Start!Load(db).index[x], x)
         /\ \A x \in Start!Stored \ db.revoked, pk \in Start!PairKeys :
              Start!Holds(db, pk, x) => Start!Load(db).index[x] = pk
<1>1. ASSUME NEW x \in Start!Stored, Start!Load(db).index[x] # None
      PROVE  /\ x \notin db.revoked
             /\ Start!Load(db).index[x] \in Start!PairKeys
             /\ Start!Holds(db, Start!Load(db).index[x], x)
  <2>1. x \notin db.revoked /\ \E pk \in Start!PairKeys : Start!Holds(db, pk, x)
    BY <1>1 DEF Start!Load
  <2>2. Start!Load(db).index[x] = CHOOSE pk \in Start!PairKeys : Start!Holds(db, pk, x)
    BY <2>1 DEF Start!Load
  <2>3. QED
    BY <2>1, <2>2
<1>2. ASSUME NEW x \in Start!Stored \ db.revoked, NEW pk \in Start!PairKeys, Start!Holds(db, pk, x)
      PROVE  Start!Load(db).index[x] = pk
  <2>1. Start!Load(db).index[x] = CHOOSE qk \in Start!PairKeys : Start!Holds(db, qk, x)
    BY <1>2 DEF Start!Load
  <2>2. Start!Load(db).index[x] \in Start!PairKeys /\ Start!Holds(db, Start!Load(db).index[x], x)
    BY <1>2, <2>1
  <2>3. QED
    BY <1>2, <2>2, HoldsOnce
<1>3. Start!Load(db) \in Start!Registry /\ Start!Load(db).revoked = db.revoked
  <2>1. [x \in Start!Stored |-> IF x \notin db.revoked /\ \E pk \in Start!PairKeys : Start!Holds(db, pk, x)
                          THEN CHOOSE pk \in Start!PairKeys : Start!Holds(db, pk, x) ELSE None]
          \in [Start!Stored -> Start!PairKeys \union {None}]
    OBVIOUS
  <2>2. QED
    BY <2>1 DEF Start!Load, Start!Registry, Start!Database
<1>4. QED
  BY <1>1, <1>2, <1>3

LEMMA CleanRow ==
  ASSUME MigrationAssumption,
         NEW db, Clean(db), NEW pk \in Start!Rows(db), NEW u \in Tokens
  PROVE  /\ Stands(db.pairings[pk], u) <=> db.pairings[pk].stored = Start!Verifier(u)
         /\ db.pairings[pk].stored = Start!Verifier(u) => db.pairings[pk] = VerifierRow(u)
<1>1. PICK t \in Tokens : db.pairings[pk] = VerifierRow(t)
  BY DEF Clean
<1>2. Stands(db.pairings[pk], t) /\ db.pairings[pk].stored = Start!Verifier(t)
  BY <1>1 DEF Stands, VerifierRow
<1>3. QED
  BY <1>1, <1>2, StoredFacts, StandsUnique

(* In tables of today the dictionaries accept the last token of each       *)
(* device and no other.                                                    *)
LEMMA CleanAccepted ==
  ASSUME MigrationAssumption,
         Start!TypeOK, NEW db \in Start!Database, Sound(db), Clean(db),
         NEW d \in Devices, NEW t \in Tokens
  PROVE  (/\ Start!Load(db).index[Start!Verifier(t)] # None
          /\ Start!Load(db).index[Start!Verifier(t)][1] = d)
         <=> t = newest[d]
<1> DEFINE index == Start!Load(db).index
<1>1. \A pk \in Start!Rows(db), u \in Tokens :
        /\ Stands(db.pairings[pk], u) <=> db.pairings[pk].stored = Start!Verifier(u)
        /\ db.pairings[pk].stored = Start!Verifier(u) => db.pairings[pk] = VerifierRow(u)
  BY CleanRow
<1>2. ASSUME t = newest[d] PROVE index[Start!Verifier(t)] # None /\ index[Start!Verifier(t)][1] = d
  <2>1. PICK k \in Keys : <<d, k>> \in Start!Rows(db) /\ Stands(db.pairings[<<d, k>>], t)
    BY <1>2 DEF MigrationAssumption, Sound, LastAlive
  <2>2. <<d, k>> \in Start!PairKeys /\ Start!Holds(db, <<d, k>>, Start!Verifier(t))
    BY <1>1, <2>1 DEF Start!Holds, Start!PairKeys
  <2>3. ~Dead(db, t)
    BY <1>2, <2>1 DEF Sound, LastAlive
  <2>4. Start!Verifier(t) \in Start!Stored \ db.revoked
    BY <2>3, StoredFacts DEF Dead
  <2>5. index[Start!Verifier(t)] = <<d, k>>
    BY <2>2, <2>4, LoadIndex DEF Sound
  <2>6. QED
    BY <2>2, <2>5 DEF MigrationAssumption
<1>3. ASSUME index[Start!Verifier(t)] # None, index[Start!Verifier(t)][1] = d PROVE t = newest[d]
  <2>1. /\ Start!Verifier(t) \notin db.revoked
        /\ index[Start!Verifier(t)] \in Start!PairKeys
        /\ Start!Holds(db, index[Start!Verifier(t)], Start!Verifier(t))
    BY <1>3, LoadIndex, StoredFacts DEF Sound
  <2>2. PICK pk \in Start!Rows(db) : pk[1] = d /\ Stands(db.pairings[pk], t)
    BY <1>1, <1>3, <2>1 DEF Start!Holds
  <2>3. ~Dead(db, t)
    BY <2>1, CleanDead
  <2>4. QED
    BY <2>2, <2>3 DEF Sound, LastAlive
<1>4. QED
  BY <1>2, <1>3

-----------------------------------------------------------------------------
(* A pairing replaces the last token of its device, and only that one.     *)
LEMMA PairDeviceKeeps ==
  ASSUME MigrationAssumption,
         MigrationInv, NEW d \in Devices, NEW k \in Keys, NEW t \in Tokens, Start!PairDevice(d, k, t)
  PROVE  MigrationInv'
<1> USE DEF Start!PairDevice
<1> DEFINE replaced == {x \in Start!Stored : loaded.index[x] # None /\ loaded.index[x][1] = d}
<1>1. /\ Start!TypeOK /\ Sound(working) /\ Clean(working) /\ working \in Start!Database
      /\ working = durable /\ loaded = Start!Load(working)
  BY DEF MigrationInv, StartProgress, Start!TypeOK
<1>2. <<d, k>> \in Start!PairKeys /\ <<d, k>> \notin Start!Rows(working)
  BY DEF Start!PairKeys
<1>3. \A pk \in Start!Rows(working) : ~Stands(working.pairings[pk], t)
  <2>1. SUFFICES ASSUME NEW pk \in Start!Rows(working), Stands(working.pairings[pk], t) PROVE FALSE
    OBVIOUS
  <2>2. Start!Holds(working, pk, Start!Verifier(t)) /\ pk \in Start!PairKeys
    BY <2>1, <1>1, CleanRow DEF Start!Holds, Start!Rows
  <2>3. Start!Verifier(t) \in Start!Stored \ working.revoked
    BY <1>1, LoadIndex, StoredFacts DEF Sound
  <2>4. loaded.index[Start!Verifier(t)] = pk
    BY <2>2, <2>3, <1>1, LoadIndex DEF Sound
  <2>5. QED
    BY <2>2, <2>4 DEF MigrationAssumption
<1>4. \A u \in Tokens : Start!Verifier(u) \in replaced <=> u = newest[d]
  BY <1>1, CleanAccepted, StoredFacts
<1>5. \A x \in replaced : \E u \in Tokens : x = Start!Verifier(u)
  <2>1. SUFFICES ASSUME NEW x \in replaced PROVE \E u \in Tokens : x = Start!Verifier(u)
    OBVIOUS
  <2>2. /\ Start!Load(working).index[x] \in Start!PairKeys
        /\ Start!Holds(working, Start!Load(working).index[x], x)
    BY <1>1, LoadIndex DEF Sound
  <2>3. PICK u \in Tokens : working.pairings[Start!Load(working).index[x]] = VerifierRow(u)
    BY <1>1, <2>2 DEF Clean, Start!Holds
  <2>4. QED
    BY <2>2, <2>3 DEF Start!Holds, VerifierRow
<1>6. t # newest[d]
  <2>1. SUFFICES ASSUME t = newest[d] PROVE FALSE
    OBVIOUS
  <2>2. PICK j \in Keys : /\ <<d, j>> \in Start!Rows(working)
                                  /\ Stands(working.pairings[<<d, j>>], t)
    BY <1>1, <2>1 DEF MigrationAssumption, Sound, LastAlive
  <2>3. QED
    BY <2>2, <1>3
<1> HIDE DEF replaced
<1>7. /\ working'.pairings = [working.pairings EXCEPT ![<<d, k>>] = VerifierRow(t)]
      /\ working'.revoked = working.revoked \union replaced
      /\ durable' = working'
      /\ newest' = [newest EXCEPT ![d] = t]
      /\ retired' = retired \union ({newest[d]} \ {None})
      /\ loaded' = [index |-> [x \in Start!Stored |-> IF x = Start!Verifier(t) THEN <<d, k>>
                                                  ELSE IF x \in replaced THEN None
                                                  ELSE loaded.index[x]],
                      revoked |-> loaded.revoked \union replaced]
      /\ phase = "up" /\ UNCHANGED <<phase, job>>
  BY DEF replaced, VerifierRow
<1> HIDE DEF Start!PairDevice
<1>8. /\ Start!Rows(working') = Start!Rows(working) \union {<<d, k>>}
      /\ working'.pairings[<<d, k>>] = VerifierRow(t)
      /\ \A pk \in Start!Rows(working) : pk # <<d, k>> /\ working'.pairings[pk] = working.pairings[pk]
  <2>1. VerifierRow(t) # None
    BY StandsStored DEF Stands
  <2>2. QED
    BY <1>1, <1>2, <1>7, <2>1 DEF Start!Rows, Start!Database
<1>9. working' \in Start!Database
  <2>1. working' = [pairings |-> working'.pairings, revoked |-> working'.revoked]
    BY <1>7, Start!PairDevice(d, k, t) DEF Start!PairDevice
  <2>2. VerifierRow(t) \in Start!Row
    BY StandsStored DEF Stands
  <2>3. replaced \subseteq Start!Stored
    BY DEF replaced
  <2>4. QED
    BY <1>1, <1>7, <2>1, <2>2, <2>3 DEF Start!Database
<1>10. RowsSound(working')
  <2>1. \A u \in Tokens : Stands(VerifierRow(t), u) <=> u = t
    BY StandsUnique DEF Stands
  <2>2. QED
    BY <1>1, <1>3, <1>8, <2>1 DEF Sound, RowsSound
<1>11. Clean(working')
  BY <1>1, <1>5, <1>7, <1>8, StoredFacts DEF Clean
<1>12. \A u \in Tokens : Dead(working', u) <=> Dead(working, u) \/ u = newest[d]
  BY <1>1, <1>4, <1>7, <1>11, CleanDead
<1>13. LastAlive(working)'
  <2>1. ASSUME NEW pk \in Start!Rows(working'), NEW u \in Tokens, Stands(working'.pairings[pk], u)
        PROVE  Dead(working', u) <=> u # newest'[pk[1]]
    <3>1. CASE pk = <<d, k>>
      <4>1. u = t
        BY <2>1, <3>1, <1>8, StandsUnique DEF Stands
      <4>2. ~Dead(working, t)
        BY <1>1, CleanDead, LoadIndex, Start!PairDevice(d, k, t) DEF Start!PairDevice, Sound
      <4>3. QED
        BY <3>1, <4>1, <4>2, <1>1, <1>6, <1>7, <1>12 DEF Start!TypeOK
    <3>2. CASE pk \in Start!Rows(working)
      <4>1. Stands(working.pairings[pk], u) /\ u # t
        BY <2>1, <3>2, <1>3, <1>8
      <4>2. Dead(working, u) <=> u # newest[pk[1]]
        BY <3>2, <4>1, <1>1 DEF Sound, LastAlive
      <4>3. pk[1] \in Devices
        BY <3>2 DEF Start!Rows, Start!PairKeys
      <4>4. CASE pk[1] = d
        BY <4>1, <4>2, <4>4, <1>1, <1>7, <1>12 DEF Start!TypeOK
      <4>5. CASE pk[1] # d
        <5>1. u # newest[d]
          <6>1. SUFFICES ASSUME u = newest[d] PROVE FALSE
            OBVIOUS
          <6>2. PICK j \in Keys : /\ <<d, j>> \in Start!Rows(working)
                                  /\ Stands(working.pairings[<<d, j>>], u)
            BY <6>1, <1>1 DEF MigrationAssumption, Sound, LastAlive
          <6>3. pk = <<d, j>>
            BY <3>2, <4>1, <6>2, <1>1 DEF Sound, RowsSound
          <6>4. QED
            BY <4>5, <6>3
        <5>2. QED
          BY <4>2, <4>3, <4>5, <5>1, <1>1, <1>7, <1>12 DEF Start!TypeOK
      <4>6. QED
        BY <4>4, <4>5
    <3>3. QED
      BY <3>1, <3>2, <1>8
  <2>2. ASSUME NEW e \in Devices, newest'[e] # None
        PROVE  \E j \in Keys : /\ <<e, j>> \in Start!Rows(working')
                               /\ Stands(working'.pairings[<<e, j>>], newest'[e])
    <3>1. CASE e = d
      BY <3>1, <1>1, <1>7, <1>8 DEF Stands, Start!TypeOK
    <3>2. CASE e # d
      BY <2>2, <3>2, <1>1, <1>7, <1>8 DEF Sound, LastAlive, Start!TypeOK
    <3>3. QED
      BY <3>1, <3>2
  <2>3. ASSUME NEW u \in retired' PROVE Dead(working', u) \/ Kept(working', u)
    <3>1. CASE u \in retired
      <4>1. u \in Tokens /\ (Dead(working, u) \/ Kept(working, u))
        BY <3>1, <1>1 DEF Sound, LastAlive, Start!TypeOK
      <4>2. CASE Dead(working, u)
        BY <4>1, <4>2, <1>12
      <4>3. CASE Kept(working, u)
        BY <4>3, <1>7 DEF Kept
      <4>4. QED
        BY <4>1, <4>2, <4>3
    <3>2. CASE u \notin retired
      BY <2>3, <3>2, <1>1, <1>7, <1>12 DEF Start!TypeOK
    <3>3. QED
      BY <3>1, <3>2
  <2>4. QED
    BY <2>1, <2>2, <2>3 DEF LastAlive
<1>14. loaded' = Start!Load(working')
  <2>1. ASSUME NEW x \in Start!Stored PROVE loaded'.index[x] = Start!Load(working').index[x]
    <3>1. CASE x = Start!Verifier(t)
      <4>1. Start!Verifier(t) \notin working'.revoked
        <5>1. Dead(working', t) <=> Start!Verifier(t) \in working'.revoked
          BY <1>11, CleanDead
        <5>2. Stands(working'.pairings[<<d, k>>], t) /\ t = newest'[<<d, k>>[1]]
          BY <1>1, <1>7, <1>8 DEF Stands, Start!TypeOK
        <5>3. QED
          BY <5>1, <5>2, <1>8, <1>13 DEF LastAlive
      <4>2. Start!Holds(working', <<d, k>>, Start!Verifier(t))
        BY <1>8 DEF Start!Holds, VerifierRow
      <4>3. QED
        BY <3>1, <4>1, <4>2, <1>2, <1>7, <1>9, <1>10, LoadIndex
    <3>2. CASE x # Start!Verifier(t) /\ x \in replaced
      BY <3>2, <1>7, <1>9, <1>10, LoadIndex
    <3>3. CASE x # Start!Verifier(t) /\ x \notin replaced
      <4>1. loaded'.index[x] = Start!Load(working).index[x]
        BY <3>3, <1>1, <1>7
      <4>2. \A pk \in Start!PairKeys : Start!Holds(working', pk, x) <=> Start!Holds(working, pk, x)
        BY <3>3, <1>8 DEF Start!Holds, VerifierRow
      <4>3. x \in working'.revoked <=> x \in working.revoked
        BY <3>3, <1>7
      <4>4. QED
        BY <4>1, <4>2, <4>3 DEF Start!Load
    <3>4. QED
      BY <3>1, <3>2, <3>3
  <2>2. loaded'.revoked = Start!Load(working').revoked
    BY <1>1, <1>7 DEF Start!Load
  <2>3. QED
    BY <2>1, <2>2, <1>7 DEF Start!Load
<1>15. Start!TypeOK'
  <2>1. loaded' \in Start!Registry
    BY <1>9, <1>10, <1>14, LoadIndex
  <2>2. \A p, q \in Start!Rows(working') :
          working'.pairings[p].stored = working'.pairings[q].stored => p = q
    BY <1>9, <1>10, HoldsOnce DEF Start!Holds, Start!Rows, Start!Database, Start!Row
  <2>3. newest' \in [Devices -> Tokens \union {None}] /\ retired' \in SUBSET Tokens
    BY <1>1, <1>7 DEF Start!TypeOK
  <2>4. QED
    BY <2>1, <2>2, <2>3, <1>1, <1>7, <1>9 DEF MigrationAssumption, Start!TypeOK
<1>16. QED
  BY <1>7, <1>10, <1>11, <1>13, <1>14, <1>15 DEF MigrationInv, Sound, StartProgress

(* Every step of a start keeps what it has read of the committed tables    *)
(* in agreement with what it has written so far.                           *)
LEMMA MigrationInductive ==
  ASSUME MigrationAssumption
  PROVE  MigrationInv /\ [Start!Next]_(Start!vars) => MigrationInv'
<1> SUFFICES ASSUME MigrationInv, [Start!Next]_(Start!vars) PROVE MigrationInv'
  OBVIOUS
<1> /\ Start!TypeOK /\ Sound(durable) /\ StartProgress
    /\ durable \in Start!Database /\ working \in Start!Database
  BY DEF MigrationInv, Start!TypeOK
<1>a. ASSUME UNCHANGED <<durable, Start!historyVars>> PROVE Sound(durable)'
  BY <1>a DEF Sound, RowsSound, LastAlive, Start!Rows, Dead, Start!historyVars
<1>b. ASSUME NEW db \in Start!Database, RowsSound(db)
      PROVE  \A p, q \in Start!Rows(db) : db.pairings[p].stored = db.pairings[q].stored => p = q
  BY <1>b, HoldsOnce DEF Start!Holds, Start!Rows, Start!Database, Start!Row
<1>1. CASE Start!ReadLegacy
  <2> USE <1>1 DEF Start!ReadLegacy
  <2>1. working = durable /\ UNCHANGED <<working, durable, loaded, newest, retired>>
    BY DEF StartProgress, Start!connectionVars, Start!historyVars
  <2>2. CASE Start!LegacyPlaintext(working) = {} /\ Start!LegacyRevoked(working) = {}
    <3>1. phase' = "load" /\ job' = job
      BY <2>2
    <3>2. ASSUME NEW pk \in Start!Rows(working) 
          PROVE  \E t \in Tokens : working.pairings[pk] = VerifierRow(t)
      <4>1. PICK t \in Tokens : Stands(working.pairings[pk], t)
        BY <2>1 DEF Sound, RowsSound
      <4>2. Start!Migrated(working.pairings[pk], {}) = VerifierRow(t)
        BY <2>1, <2>2, <4>1, MigratedRow DEF Sound
      <4>3. working.pairings[pk].payload = None
        BY <2>2, <4>1, StoredFacts DEF MigrationAssumption, Start!LegacyPlaintext, Stands,
           VerifierRow
      <4>4. QED
        BY <4>1, <4>2, <4>3 DEF MigrationAssumption, Start!Migrated, Stands, VerifierRow
    <3>3. working.revoked \subseteq Start!Verifiers \union HexTokens
      BY <2>2 DEF Start!LegacyRevoked, Start!LooksLikeVerifier
    <3>4. Clean(durable)'
      BY <2>1, <3>2, <3>3 DEF Clean, Start!Rows
    <3>5. Start!TypeOK'
      BY <2>1, <3>1 DEF Start!TypeOK, Start!Rows
    <3>6. QED
      BY <1>a, <2>1, <3>1, <3>4, <3>5 DEF MigrationInv, StartProgress, Start!historyVars
  <2>3. CASE Start!LegacyPlaintext(working) \union Start!LegacyRevoked(working) # {}
    <3>1. /\ phase' = "migrate"
          /\ job' = [plain |-> Start!LegacyPlaintext(working), pairings |-> Start!Rows(working),
                     revoked |-> Start!LegacyRevoked(working)]
      BY <2>3
    <3>2. job' \in Start!Job
      BY <3>1, LegacyTokens DEF Start!Job, Start!Stored, Start!Rows
    <3>3. Migrating'
      <4>1. durable.pairings = MigratedRows(durable, Start!Rows(durable), Start!LegacyPlaintext(durable))
        BY DEF MigratedRows, Start!Rows, Start!Database
      <4>2. durable.revoked = MigratedTombstones(durable, Start!LegacyRevoked(durable))
        BY DEF MigratedTombstones
      <4>3. QED
        BY <2>1, <3>1, <4>1, <4>2 DEF Migrating
    <3>4. Start!TypeOK'
      BY <2>1, <3>1, <3>2 DEF Start!TypeOK, Start!Rows
    <3>5. QED
      BY <1>a, <2>1, <3>1, <3>3, <3>4 DEF MigrationInv, StartProgress, Start!historyVars
  <2>4. QED
    BY <2>2, <2>3
<1>2. ASSUME NEW pk \in Start!PairKeys, Start!MigratePairing(pk) PROVE MigrationInv'
  <2> USE <1>2 DEF Start!MigratePairing, Start!Execute
  <2>1. /\ phase = "migrate" /\ phase' = phase /\ Migrating
        /\ UNCHANGED <<durable, loaded, newest, retired>>
        /\ pk \in job.pairings /\ job' = [job EXCEPT !.pairings = @ \ {pk}]
        /\ working' = [working EXCEPT !.pairings[pk] = Start!Migrated(@, job.plain)]
    BY DEF StartProgress, Start!historyVars
  <2>2. job' \in Start!Job /\ job'.plain = job.plain /\ job'.revoked = job.revoked
        /\ job'.pairings = job.pairings \ {pk}
    BY <2>1 DEF Start!TypeOK, Start!Job
  <2>3. working'.pairings = MigratedRows(durable, job'.pairings, job'.plain)
    BY <2>1, <2>2 DEF Migrating, MigratedRows, Start!Database, Start!Rows
  <2>4. working'.revoked = working.revoked
    BY <2>1 DEF Start!Database
  <2>5. working' \in Start!Database
    <3>1. pk \in Start!Rows(durable)
      BY <2>1 DEF Migrating
    <3>2. PICK t \in Tokens : Stands(durable.pairings[pk], t)
      BY <3>1 DEF Sound, RowsSound
    <3>3. Start!Migrated(durable.pairings[pk], job.plain) = VerifierRow(t)
      BY <2>1, <3>1, <3>2, MigratedRow DEF Sound, Migrating
    <3>4. working.pairings[pk] = durable.pairings[pk]
      BY <2>1 DEF Migrating, MigratedRows
    <3>5. Start!Migrated(working.pairings[pk], job.plain) \in Start!Row
      BY <3>3, <3>4, StandsStored DEF Stands
    <3>6. QED
      BY <2>1, <3>5 DEF Start!Database
  <2>6. Migrating'
    BY <2>1, <2>2, <2>3, <2>4 DEF Migrating
  <2>7. RowsSound(working')
    <3>1. RowsSound(durable)
      BY DEF Sound
    <3>2. working'.pairings = MigratedRows(durable, job'.pairings, Start!LegacyPlaintext(durable))
      BY <2>1, <2>2, <2>3 DEF Migrating
    <3>3. \A left, new : /\ new \in Start!Database
                         /\ new.pairings = MigratedRows(durable, left, Start!LegacyPlaintext(durable))
                         => RowsSound(new)
      BY <3>1, MigratedSound
    <3>4. QED
      BY <2>5, <3>2, <3>3
  <2>8. Start!TypeOK'
    BY <1>b, <2>1, <2>2, <2>5, <2>7 DEF Start!TypeOK
  <2>9. QED
    BY <1>a, <2>1, <2>6, <2>8 DEF MigrationInv, StartProgress, Start!historyVars
<1>3. ASSUME NEW x \in Start!Stored, Start!MigrateRevoked(x) PROVE MigrationInv'
  <2> USE <1>3 DEF Start!MigrateRevoked, Start!Execute
  <2>1. /\ phase = "migrate" /\ phase' = phase /\ Migrating
        /\ UNCHANGED <<durable, loaded, newest, retired>>
        /\ x \in job.revoked /\ job' = [job EXCEPT !.revoked = @ \ {x}]
        /\ working' = [working EXCEPT !.revoked = (@ \ {x}) \union {Start!Verifier(x)}]
    BY DEF StartProgress, Start!historyVars
  <2>2. /\ job' \in Start!Job /\ job'.plain = job.plain /\ job'.pairings = job.pairings
        /\ job'.revoked = job.revoked \ {x}
    BY <2>1 DEF Start!TypeOK, Start!Job
  <2>3. /\ x \in Tokens /\ Start!LegacyRevoked(durable) \subseteq Tokens
        /\ x \in Start!LegacyRevoked(durable)
    BY <2>1, LegacyTokens DEF Migrating
  <2>4. working'.pairings = working.pairings
        /\ working'.revoked = (working.revoked \ {x}) \union {Start!Verifier(x)}
    BY <2>1 DEF Start!Database
  <2>5. working'.revoked = MigratedTombstones(durable, job'.revoked)
    <3> DEFINE done == Start!LegacyRevoked(durable) \ job.revoked
    <3>1. Start!LegacyRevoked(durable) \ job'.revoked = done \union {x}
      BY <2>2, <2>3
    <3>2. working.revoked = (durable.revoked \ done) \union {Start!Verifier(y) : y \in done}
      BY <2>1 DEF Migrating, MigratedTombstones
    <3>3. done \subseteq Tokens
      BY <2>3
    <3> HIDE DEF done
    <3>4. x \notin {Start!Verifier(y) : y \in done}
      BY <2>3, <3>3, StoredFacts
    <3>5. working'.revoked = (durable.revoked \ (done \union {x}))
                               \union {Start!Verifier(y) : y \in done \union {x}}
      BY <2>4, <3>2, <3>4
    <3>6. QED
      BY <3>1, <3>5 DEF MigratedTombstones
  <2>6. working' \in Start!Database
    BY <2>1, <2>3, StoredFacts DEF Start!Database
  <2>7. Migrating'
    BY <2>1, <2>2, <2>4, <2>5 DEF Migrating
  <2>8. Start!TypeOK'
    BY <2>1, <2>2, <2>4, <2>6 DEF Start!TypeOK, Start!Rows
  <2>9. QED
    BY <1>a, <2>1, <2>7, <2>8 DEF MigrationInv, StartProgress, Start!historyVars
<1>4. CASE Start!CommitMigration
  <2> USE <1>4 DEF Start!CommitMigration, Start!Commit
  <2>1. /\ phase = "migrate" /\ phase' = "load" /\ Migrating /\ job' = Start!NoJob
        /\ job.pairings = {} /\ job.revoked = {}
        /\ durable' = working /\ UNCHANGED <<working, loaded, newest, retired>>
    BY DEF StartProgress, Start!historyVars
  <2>2. Sound(working) /\ Clean(working)
    BY <2>1, MigratedClean DEF Migrating
  <2>3. Sound(durable)' /\ Clean(durable)'
    BY <2>1, <2>2 DEF Sound, RowsSound, LastAlive, Start!Rows, Dead, Clean
  <2>4. Start!TypeOK'
    BY <2>1 DEF Start!TypeOK, Start!Rows, Start!NoJob, Start!Job
  <2>5. QED
    BY <2>1, <2>3, <2>4 DEF MigrationInv, StartProgress
<1>5. CASE Start!LoadFromConnection
  <2> USE <1>5 DEF Start!LoadFromConnection
  <2>1. /\ phase = "load" /\ phase' = "up" /\ working = durable /\ Clean(durable)
        /\ loaded' = Start!Load(durable) /\ UNCHANGED <<working, durable, job, newest, retired>>
    BY DEF StartProgress, Start!connectionVars, Start!historyVars
  <2>2. loaded' \in Start!Registry /\ loaded' # None
    BY <2>1, LoadIndex DEF MigrationAssumption, Sound
  <2>3. Start!TypeOK'
    BY <2>1, <2>2 DEF Start!TypeOK, Start!Rows
  <2>4. QED
    BY <1>a, <2>1, <2>3 DEF MigrationInv, StartProgress, Start!historyVars, Clean, Start!Rows
<1>6. ASSUME NEW d \in Devices, NEW k \in Keys, NEW t \in Tokens, Start!PairDevice(d, k, t)
      PROVE  MigrationInv'
  BY <1>6, PairDeviceKeeps
<1>7. CASE Start!Restart
  <2> USE <1>7 DEF Start!Restart, Start!Rollback
  <2>1. /\ phase' = "read" /\ loaded' = None /\ job' = Start!NoJob
        /\ working' = durable /\ UNCHANGED <<durable, newest, retired>>
    BY DEF Start!historyVars
  <2>2. Start!TypeOK'
    BY <1>b, <2>1 DEF Start!TypeOK, Start!Rows, Start!NoJob, Start!Job, Sound
  <2>3. QED
    BY <1>a, <2>1, <2>2 DEF MigrationInv, StartProgress, Start!historyVars
<1>8. CASE UNCHANGED Start!vars
  BY <1>8 DEF Start!vars, Start!connectionVars, Start!historyVars, MigrationInv, Start!TypeOK, Sound,
     RowsSound, LastAlive,
       Start!Rows, Dead, StartProgress, Migrating, Clean
<1>9. QED
  BY <1>1, <1>2, <1>3, <1>4, <1>5, <1>6, <1>7, <1>8 DEF Start!Next

LEMMA InitMigration ==
  ASSUME MigrationAssumption
  PROVE  Start!Init => MigrationInv
BY InitSound DEF Start!Init, MigrationInv, StartProgress

(* Each row of the tables belongs to one token, and the progress of a      *)
(* start says which dictionaries and jobs there are.                       *)
THEOREM StartTypeCorrect ==
  ASSUME MigrationAssumption
  PROVE  Start!Spec => []Start!TypeOK
<1>1. MigrationInv => Start!TypeOK
  BY DEF MigrationInv
<1>2. Start!Init => MigrationInv
  BY InitMigration
<1>3. MigrationInv /\ [Start!Next]_(Start!vars) => MigrationInv'
  BY MigrationInductive
<1>4. QED
  BY <1>1, <1>2, <1>3, PTL DEF Start!Spec

(* A start that was cut short anywhere, and however often, is as good as   *)
(* one that was not: the process that is up in the end accepts the last    *)
(* token of each device and no other, finds every token that was replaced  *)
(* unless its tombstone is a token that reads like a verifier, and shows   *)
(* no token in its tables but in such tombstones.                          *)
THEOREM CredentialsKeptCorrect ==
  ASSUME MigrationAssumption
  PROVE  Start!Spec => []Start!CredentialsKept
<1>1. MigrationInv => Start!CredentialsKept
  <2> SUFFICES ASSUME MigrationInv, phase = "up"
               PROVE  Start!Accepted /\ Start!Tombstones /\ Start!Rewritten
    BY DEF Start!CredentialsKept
  <2>1. /\ Start!TypeOK /\ durable \in Start!Database /\ Sound(durable) /\ Clean(durable)
        /\ loaded = Start!Load(durable)
    BY DEF MigrationInv, Start!TypeOK, StartProgress
  <2>2. Start!Accepted
    BY <2>1, CleanAccepted DEF Start!Accepted, Start!Authenticates
  <2>3. Start!Tombstones
    BY <2>1, CleanDead, LoadIndex DEF Start!Tombstones, Sound, LastAlive, Kept, Start!TypeOK
  <2>4. Start!Rewritten
    <3>1. ASSUME NEW pk \in Start!Rows(durable)
          PROVE  durable.pairings[pk].stored \in Start!Verifiers /\ durable.pairings[pk].payload = None
      <4>1. PICK t \in Tokens : durable.pairings[pk] = VerifierRow(t)
        BY <2>1 DEF Clean
      <4>2. QED
        BY <4>1, StoredFacts DEF VerifierRow
    <3>2. QED
      BY <2>1, <3>1 DEF Start!Rewritten, Start!LooksLikeVerifier, Clean
  <2>5. QED
    BY <2>2, <2>3, <2>4
<1>2. Start!Init => MigrationInv
  BY InitMigration
<1>3. MigrationInv /\ [Start!Next]_(Start!vars) => MigrationInv'
  BY MigrationInductive
<1>4. QED
  BY <1>1, <1>2, <1>3, PTL DEF Start!Spec
=============================================================================
