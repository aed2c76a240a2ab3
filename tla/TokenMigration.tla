--------------------------- MODULE TokenMigration ---------------------------
(***************************************************************************)
(* How a start of the process takes over the pairing tables of an earlier  *)
(* version, which kept the tokens themselves: DeviceRegistry.__init__,     *)
(* _migrate_legacy_pairing_token_storage and _load_from_connection.        *)
(*                                                                         *)
(* A token is any string the client chose, so one that is made of 64 hex   *)
(* digits reads like a verifier: only the payload of its pairing row tells *)
(* that it is one.  The payloads are removed in the transaction that also  *)
(* rewrites the tombstones, which have no payload of their own.            *)
(***************************************************************************)
EXTENDS SharedConnection

CONSTANTS
  Devices, Keys, Tokens,
  HexTokens,   \* the tokens that read like a verifier
  None

ASSUME TokenAssumption == HexTokens \subseteq Tokens

Verifier(x) == [sha256 |-> x]
Verifiers == {Verifier(t) : t \in Tokens}
Stored == Tokens \union Verifiers

(* No token is the digest of another one.                                  *)
ASSUME DigestAssumption == Tokens \intersect Verifiers = {}

LooksLikeVerifier(x) == x \in Verifiers \union HexTokens

PairKeys == Devices \X Keys

(* A row of device_pairings_runtime: its pairing_token column and the      *)
(* pairing_token that the payload_json of the earlier version holds.       *)
Row == [stored : Stored, payload : Tokens \union {None}]

Database == [pairings : [PairKeys -> Row \union {None}], revoked : SUBSET Stored]

(* _pairing_token_index and _revoked_pairing_tokens.  The keys of the      *)
(* pairings themselves are those of the table.                             *)
Registry == [index : [Stored -> PairKeys \union {None}], revoked : SUBSET Stored]

(* What the migration has read: the rows it still has to rewrite, and      *)
(* legacy_plaintext_pairing_tokens.                                        *)
Job == [plain : SUBSET Stored, pairings : SUBSET PairKeys, revoked : SUBSET Stored]
NoJob == [plain |-> {}, pairings |-> {}, revoked |-> {}]

ASSUME NoneAssumption ==
  /\ None \notin Tokens /\ None \notin Row /\ None \notin PairKeys
  /\ None \notin Registry

VARIABLES
  phase,     \* how far the start of the process has got
  registry,  \* the dictionaries, None before they are loaded
  job,
  current,   \* history: the token of the last pairing of each device
  retired    \* history: the tokens that were replaced

historyVars == <<current, retired>>
vars == <<connectionVars, phase, registry, job, historyVars>>

Rows(db) == {pk \in PairKeys : db.pairings[pk] # None}
Holds(db, pk, x) == pk \in Rows(db) /\ db.pairings[pk].stored = x

TypeOK ==
  /\ working \in Database /\ durable \in Database
  /\ phase \in {"read", "migrate", "load", "up"}
  /\ registry \in Registry \union {None}
  /\ (phase = "up") <=> (registry # None)
  /\ job \in Job
  /\ current \in [Devices -> Tokens \union {None}]
  /\ retired \in SUBSET Tokens
  /\ \A p, q \in Rows(working) :
       working.pairings[p].stored = working.pairings[q].stored => p = q

-----------------------------------------------------------------------------
(* A row has been written with the token in both columns, with the token   *)
(* in its own column only, or as today.  Of the second kind, only tokens   *)
(* that do not read like a verifier can be told from those of the third.   *)
LegacyRows ==
  [stored : Verifiers \union (Tokens \ HexTokens), payload : {None}]
  \union {[stored |-> t, payload |-> t] : t \in Tokens}
TokenOf(row) == CHOOSE t \in Tokens : row.stored \in {t, Verifier(t)}

(* Any tables in which each token was used once, the pairings of a device  *)
(* have tombstones in the form of their row except for its last, and some  *)
(* tombstones have outlived their row.                                     *)
Init ==
  /\ \E made \in SUBSET PairKeys : \E rows \in [made -> LegacyRows] :
       LET used == {TokenOf(rows[pk]) : pk \in made} IN
       /\ \A p, q \in made : TokenOf(rows[p]) = TokenOf(rows[q]) => p = q
       /\ \E last \in [{pk[1] : pk \in made} -> made], orphans \in SUBSET (Tokens \ used) :
            LET old == {pk \in made : pk # last[pk[1]]} IN
            /\ \A d \in DOMAIN last : last[d][1] = d
            /\ working = [pairings |-> [pk \in PairKeys |->
                                          IF pk \in made THEN rows[pk] ELSE None],
                          revoked |-> {rows[pk].stored : pk \in old} \union orphans]
            /\ current = [d \in Devices |->
                            IF d \in DOMAIN last THEN TokenOf(rows[last[d]]) ELSE None]
            /\ retired = {TokenOf(rows[pk]) : pk \in old} \union orphans
  /\ durable = working
  /\ phase = "read"
  /\ registry = None
  /\ job = NoJob

-----------------------------------------------------------------------------
LegacyPlaintext(db) ==
  ({db.pairings[pk].payload : pk \in Rows(db)} \ {None})
  \union {x \in {db.pairings[pk].stored : pk \in {p \in Rows(db) : db.pairings[p].payload = None}} :
            ~LooksLikeVerifier(x)}

(* The tombstones that the migration rewrites.                             *)
LegacyRevoked(db) ==
  {x \in db.revoked : x \in LegacyPlaintext(db) \/ ~LooksLikeVerifier(x)}

(* Mutant: what is stored is hashed whether or not it is a verifier.       *)
HashStored(row, plain) ==
  [stored |-> Verifier(IF row.payload # None THEN row.payload ELSE row.stored),
   payload |-> None]

Migrated(row, plain) ==
  [stored |-> IF row.payload # None THEN Verifier(row.payload)
              ELSE IF row.stored \in plain THEN Verifier(row.stored)
              ELSE row.stored,
   payload |-> None]

(* Both tables are read, outside of any transaction.  The early return     *)
(* goes straight on to loading them.                                       *)
ReadLegacy ==
  /\ phase = "read"
  /\ \/ LegacyPlaintext(working) = {} /\ LegacyRevoked(working) = {}
        /\ phase' = "load" /\ UNCHANGED job
     \/ LegacyPlaintext(working) \union LegacyRevoked(working) # {}
        /\ phase' = "migrate"
        /\ job' = [plain |-> LegacyPlaintext(working), pairings |-> Rows(working),
                   revoked |-> LegacyRevoked(working)]
  /\ UNCHANGED <<connectionVars, registry, historyVars>>

(* Mutant: each pairing row is rewritten in a transaction of its own.      *)
MigratePairingAlone(pk) ==
  /\ phase = "migrate" /\ pk \in job.pairings
  /\ working' = [working EXCEPT !.pairings[pk] = Migrated(@, job.plain)]
  /\ durable' = working'
  /\ job' = [job EXCEPT !.pairings = @ \ {pk}]
  /\ UNCHANGED <<phase, registry, historyVars>>

MigratePairing(pk) ==
  /\ phase = "migrate" /\ pk \in job.pairings
  /\ Execute([working EXCEPT !.pairings[pk] = Migrated(@, job.plain)])
  /\ job' = [job EXCEPT !.pairings = @ \ {pk}]
  /\ UNCHANGED <<phase, registry, historyVars>>

MigrateRevoked(x) ==
  /\ phase = "migrate" /\ job.pairings = {} /\ x \in job.revoked
  /\ Execute([working EXCEPT !.revoked = (@ \ {x}) \union {Verifier(x)}])
  /\ job' = [job EXCEPT !.revoked = @ \ {x}]
  /\ UNCHANGED <<phase, registry, historyVars>>

CommitMigration ==
  /\ phase = "migrate" /\ job.pairings = {} /\ job.revoked = {}
  /\ Commit
  /\ phase' = "load"
  /\ job' = NoJob
  /\ UNCHANGED <<registry, historyVars>>

Load(db) ==
  [index |-> [x \in Stored |->
                IF x \notin db.revoked /\ \E pk \in PairKeys : Holds(db, pk, x)
                THEN CHOOSE pk \in PairKeys : Holds(db, pk, x)
                ELSE None],
   revoked |-> db.revoked]

LoadFromConnection ==
  /\ phase = "load"
  /\ registry' = Load(working)
  /\ phase' = "up"
  /\ UNCHANGED <<connectionVars, job, historyVars>>

(* pair_device, here in one step (DevicePairing.tla has its steps).        *)
PairDevice(d, k, t) ==
  LET stale == {x \in Stored : registry.index[x] # None /\ registry.index[x][1] = d}
      row == [stored |-> Verifier(t), payload |-> None]
  IN
  /\ phase = "up"
  /\ <<d, k>> \notin Rows(working)
  /\ registry.index[Verifier(t)] = None /\ Verifier(t) \notin registry.revoked
  /\ working' = [pairings |-> [working.pairings EXCEPT ![<<d, k>>] = row],
                 revoked |-> working.revoked \union stale]
  /\ durable' = working'
  /\ registry' = [index |-> [x \in Stored |-> IF x = Verifier(t) THEN <<d, k>>
                                              ELSE IF x \in stale THEN None
                                              ELSE registry.index[x]],
                  revoked |-> registry.revoked \union stale]
  /\ current' = [current EXCEPT ![d] = t]
  /\ retired' = retired \union ({current[d]} \ {None})
  /\ UNCHANGED <<phase, job>>

(* The process stops, by itself, by an exception of the start or by a      *)
(* crash, and is started again.                                            *)
Restart ==
  /\ Rollback
  /\ phase' = "read"
  /\ registry' = None
  /\ job' = NoJob
  /\ UNCHANGED historyVars

Next ==
  \/ ReadLegacy
  \/ \E pk \in PairKeys : MigratePairing(pk)
  \/ \E x \in Stored : MigrateRevoked(x)
  \/ CommitMigration
  \/ LoadFromConnection
  \/ \E d \in Devices, k \in Keys, t \in Tokens : PairDevice(d, k, t)
  \/ Restart

Spec == Init /\ [][Next]_vars

-----------------------------------------------------------------------------
(* require_device_pairing_token                                            *)
Authenticates(d, t) ==
  registry.index[Verifier(t)] # None /\ registry.index[Verifier(t)][1] = d

(* The tokens that a process which is up accepts of each device: the one   *)
(* it was paired with last, by whichever version, and no other.            *)
Accepted ==
  \A d \in Devices, t \in Tokens : Authenticates(d, t) <=> t = current[d]

(* No token that was replaced can be used again, for its tombstone is one  *)
(* that pair_device finds: except for the token of a tombstone that has    *)
(* outlived its row and reads like a verifier, which the migration takes   *)
(* for one and leaves as it is.                                            *)
Tombstones ==
  \A t \in retired : Verifier(t) \in registry.revoked \/ t \in durable.revoked \cap HexTokens

(* No pairing row shows a token, and every tombstone reads like a verifier *)
(* whether it is one or not.                                               *)
Rewritten ==
  /\ \A pk \in Rows(durable) :
       durable.pairings[pk].stored \in Verifiers /\ durable.pairings[pk].payload = None
  /\ \A x \in durable.revoked : LooksLikeVerifier(x)

(* A start that was cut short anywhere, and however often, is as good as   *)
(* one that was not: the process that is up in the end accepts the last    *)
(* token of each device, whichever version paired it, and no other, finds  *)
(* every token that was replaced but those that are left as they were, and *)
(* has rewritten whatever it can tell to be a token.                       *)
CredentialsKept == phase = "up" => Accepted /\ Tombstones /\ Rewritten

(* What tests/unit/test_device_store.py asserts of a start over a table    *)
(* with a tombstone of 64 hex digits that has outlived its row (line 666): *)
(* the tombstones show no token.  The code does not keep it.               *)
NoTokenShown == phase = "up" => durable.revoked \cap Tokens = {}
=============================================================================
