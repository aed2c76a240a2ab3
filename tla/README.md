# A verification project for Buddys

Buddys is a small server for a household assistant: a FastAPI application over one SQLite database
(`src/src/buddys_api`), a console in the browser, and devices that pair with it, send heartbeats and show what
their owner asks of them. This directory holds TLA+ models of the parts of the server that keep state, TLC
configurations that check them on small instances, and proofs that TLAPS checks for every instance.
`PROJECT.json` lists every component, run, mutant, finding, hazard and theorem, and maps each definition to the
lines it models.

## 1. Inventory

### What everything shares

The routes are plain `def` functions, so FastAPI runs them on a pool of threads. All threads share **one**
`sqlite3` connection (`db.py:25`, `check_same_thread=False`) with legacy transaction control: the first write
opens a transaction, and it ends with the next commit or rollback on the connection, whoever calls it. A
`with connection:` block commits when it ends normally and rolls back when an exception leaves it. Hence three
facts that the whole project turns on:

* any request may commit the statements another request has only begun;
* any request that fails rolls back whatever other requests have written since the last commit;
* a read sees what others have written and not committed.

`connection_lock` (`db.py:15`) exists, but only `SyncStore`, `AuthStore` and `BuddyStore` take it; the device
registry, the state memory, usage, costs, traces, agents, providers and engagement metrics do not. systemd
restarts the process after a crash (`Restart=always`).

### The components

| Component (sources) | State | Operations | Correct when |
|---|---|---|---|
| Connection and schema (`db.py`) | the tables, one open transaction | execute, commit, rollback | see above |
| Device registry, pairing (`device_store.py`, `device_routes.py`) | dictionaries of devices, machines, bindings, pairings, token index, revoked tokens; the same in tables | `pair_device`, `require_device_pairing_token` | one token per device; a replaced token stays dead; a device is never locked out; a restart changes nothing |
| Device registry, reports | heartbeats and events by idempotency key, latest heartbeat, event list, desired state and its lock | `save_heartbeat`, `append_event`, `publish_owner_manual_reminder`, `set_desired_state` | a retry changes nothing and is not announced; revisions grow |
| Device registry, migration | pairing rows and tombstones of an earlier version, with plaintext tokens | `_migrate_legacy_pairing_token_storage`, `_load_from_connection` | all rows or none; who was paired stays paired, who was replaced stays replaced |
| State memory (`state_memory_store.py`, `_service.py`, `_routes.py`) | items, history, proposals | capture, confirm, correct, reject, queries | a proposal is decided and applied once; the history explains the stock |
| Recipes and shopping pass (same files, `trace_store.py`) | recipes, open and done shopping items, traces of queries | add, done, promote a hint or the latest query, create and delete a recipe, ask about one | one open item per name; what was told stays true; done is final |
| Runtime (`runtime.py`, `policy.py`, `adapters/mock_home.py`, `trace_store.py`, `cost_meter.py`, `main.py`) | proposal dictionary, traces, cost events, the home | message, confirm | an approved action runs once and the trace says so |
| Token plans (`token_plan.py`) | plan of a user, usage ledger | `record_usage`, `ensure_within_hard_limit` | the hard limit holds; what was paid for is billed |
| Sync feed (`sync_store.py`, `sync_routes.py`) | numbered events with an audience | append, list, snapshot | a client that follows it misses nothing |
| Accounts and sessions (`auth_*.py`) | users, sessions | register, login, logout, authenticate | a revoked token stays revoked, as far as the shared connection keeps what was answered |
| Buddies (`buddy_store.py`) | rows created once | create, list, get | - |
| Agents (`agent_*.py`) | rows of a user's agents | create, heartbeat | independent rows |
| Providers (`provider_*.py`, `providers/`) | provider configurations | calls of external models | a paid call tells what it took |
| Engagement and founder metrics (`engagement_*.py`, `founder_metrics_policy.py`) | event rows | record, fold into metrics | a pure fold over rows |
| Web console (`static/app.js`) | one `state` object: session, buddies, selected buddy, snapshot, founder metrics; the token in `localStorage` | login, register, logout, restore, refresh, create a buddy, every workspace operation | the page never mixes two accounts; a session ends for a cause; the page settles on the data of whoever is signed in |
| Device simulator, deployment | none of the server's | clients and scripts | - |

How they interact: a route authenticates (auth store or pairing token), calls one store, and then appends an
event to the sync feed; the state memory and the runtime also write the usage ledger, a cost event, a trace and
an engagement event, each in a transaction of its own. The snapshot reads almost every store. All of it meets
in the one connection. The console sends the token it holds with every request and, after every operation, asks for
the buddies, the snapshot and the founder metrics one after the other; each `await` lets the user and the other
functions of the page go on.

What is hard here: interleavings of request threads between two statements, between a commit and the dictionary
update after it, and between a check and the write it permits; rollbacks that take other requests' rows; a
restart at any of these points, the start itself included; retries under an idempotency key; answers made of many
reads; and, in the console, answers that arrive after the session they were asked for is over. `PROJECT.json`
lists each as a hazard at its line, with the properties that would catch it or the reason why none does yet.

## 2. The modules

| Module | Models | Composes |
|---|---|---|
| `SharedConnection` | the connection: `working` (what a statement reads) and `durable` (what a restart finds) with `Execute`, `Commit`, `Rollback` | - |
| `DeviceCredential` | abstract: a device's credential is replaced in one step and the old one retired | - |
| `DevicePairing` | `pair_device` statement by statement | extends `SharedConnection`, implements `DeviceCredential` |
| `DeviceRegistry_proof` | theorems about `DevicePairing`, and about `TokenMigration` as its instance `Start` | extends the one |
| `DeviceReports_proof`, `StateMemory_proof`, `ActionRuntime_proof`, `UsageLimit_proof`, `ShoppingPass_proof`, `ConsoleSession_proof`, `SyncFeed_proof` | theorems about the module of that name | each extends it |
| `DeviceReports` | heartbeats, events, reminders | extends `SharedConnection` |
| `StateDelta` | the arithmetic of a delta on an item | - |
| `StateLedger` | abstract: a proposal is decided and all its deltas applied in one step | extends `StateDelta` |
| `StateMemory` | capture, confirm, correct, reject with every read, statement, commit and event | extends `SharedConnection`, implements `StateLedger` |
| `ActionRuntime` | messages, proposals, confirmations, traces, the adapter | extends `SharedConnection` |
| `UsageLimit` | the hard limit of a plan and the books of ledger, costs and traces | extends `SharedConnection` |
| `SyncFeed` | writers that announce, snapshots and polls as sequences of reads, what a snapshot's viewer may see, clients that follow | extends `SharedConnection` |
| `ShoppingPass` | the shopping list, the recipes and the questions about them | extends `SharedConnection` |
| `TokenMigration` | the start of a process over the tables of an earlier version | extends `SharedConnection` |
| `Accounts` | users, sessions and who has a buddy, one step per request | - |
| `ConsoleSession` | the console's asynchronous functions, the answers on their way, another tab, and the accounts behind them | extends `Accounts` |
| `MC*` | small instances: inputs, permitted overlaps, symmetry | each extends its module |

Conventions in all of them:

* One variable `pc` says per thread between which two steps its request is. A step is what no other thread can
  come between: one statement on the connection, one commit, one dictionary operation or a group of them where
  nothing can tell them apart. Python switches threads between any two bytecodes, so a dictionary read and the
  write that follows from it are different steps wherever the code has them apart.
* `WriteFails` is an exception in a statement or a commit: the block rolls the connection back and the request
  is answered with 500. A commit raises only when there is something to commit. `Restart` is a crash at any
  point: the open transaction, the dictionaries and all requests are gone, and `Load` makes the dictionaries
  from the tables. Nothing that a reader would see as ordinary is assumed atomic.
* Appending to the sync feed commits on the shared connection. Where the event itself matters (`StateMemory`,
  `DeviceReports`, `SyncFeed`) it is an insert and a commit, else one step that commits what is open.
* History variables (marked so in their declarations) remember what was answered, what was cut short and what
  raced; no guard of a handler reads them. `torn` becomes TRUE when a rollback hits another thread's
  uncommitted rows. Except in `DevicePairing` a behaviour takes no new request after that, and the
  properties say `torn \/ ...`: after a torn transaction little holds in this program, as the hazard at
  `state_memory_store.py:861` says, and the models say precisely where that line is. `StateMemory` draws a second line: a commit that falls between two
  deltas of other threads marks these as `parted`, and `halved` becomes TRUE when one of them is then rolled back or dies, so that
  half of what it did remains. `DevicePairing` has the same two lines; there `halved` also becomes TRUE when the scan after a commit
  breaks or a `del` finds its token gone, so that the tables have a pairing and the dictionaries have not. It draws two more: `split`, when a
  commit has come within another's transaction, and `raced`, when two requests of one device have been under way at once. `ShoppingPass` is finer: `lost`
  names the facts that a foreign rollback took, everything else is still required, and the behaviour goes on.
* Definitions whose comment begins with *Mutant* are changed copies of the definition they stand before. No
  behaviour uses them; putting one in place of its original must break the property `PROJECT.json` names.

### Correspondence with the code

**DevicePairing.** `registry` is the record of the six dictionaries of `DeviceRegistry.__init__`, `working` and
`durable` the five tables. `Lookup` is everything from the route to the creation of the pairing with its early
returns; `CollectStale` reads the tokens to revoke; `PersistRevoked`, `PersistDevice`, `PersistAgentMachine`, `PersistBinding` and
`PersistPairing` are the statements, `INSERT OR REPLACE` with both unique keys; `CommitPairing` the end of the
block; `ScanBreaks` the `RuntimeError` of walking a dictionary that another thread resizes. `Invalidate` looks the old tokens up again,
and for each `RemoveToken` is the `del` and `TombstoneToken` the `add` after it: in between the token is in neither dictionary. `RemoveFails`
is the `KeyError` of a `del` that another request of the device was quicker with. `Publish` and
`IndexToken` are the other dictionary updates; `Notify` the sync event. A token is stored by its SHA-256, and a machine by its id
with what is recorded of it (`Endpoints`), so that two registrations of one machine are two values.

**DeviceReports.** A report's `created_at` is the stamp that `Receive` takes from the clock, since the route
builds the object before the store looks at the key. `Lookup`, `Persist`, `CommitReport`, `Publish`,
`IndexReport` follow `save_heartbeat` and `append_event`; reminders take `AcquireLock` and `ReadRevision`
first and release the lock in `Publish`. The route announces a report only when the store returned the very
object it was given.

**StateMemory.** `ReadProposal` is the read outside the transaction with `_require_pending`; `Claim` and `ClaimRefused` the UPDATE that
asks for `status = 'pending'` and its rowcount; `FindForDelta`, `InsertItem`, `UpdateItem`,
`RecordHistory` the loop over the deltas with `todo` as its rest; `CommitDecision` the commit;
`AppendEvent`, `CommitEvent`, `RecordEngagement` what the service does after it. Names, quantities and deltas are small sets;
`StateDelta` keeps the exact rules for missing and zero quantities.

**ActionRuntime.** `cached` is `_proposals`; a confirmation after a restart works on a copy (`own`) read out of
the trace. `Evaluate` is `PermissionPolicy.evaluate`; `ExecuteTool` the adapter and the flag; `DumpTrace` and
`SaveTrace` are apart because the JSON is made before the statement runs. `home` counts what the adapter did.

**UsageLimit.** `Preflight` and `CheckActual` are the two checks around a model call; `EnforceLimit` is the
beginning of `record_usage`, which reads the month (`dated`) and enforces the limit for messages only;
`InsertUsage`, `RecordCost`, `SaveTrace` are the three books, each with its own commit. Prompts are a reserve and
a cost. The built-in provider (`demo_*`) asks for no reserve and reports no usage, and is billed unchecked. `Replies` are the ways in which
`openai_compatible_provider.py` ends: an answer; one that cannot be used but tells its usage; one that is no JSON or is lost, which was
paid for and tells nothing (`unread`: traced, not billed); no answer; no key; and what raises past `StateMemoryProviderError`, such as a body that is not an
object, `"unrecognized": null` or a capture without content (`dropped`: in no book).

**SyncFeed.** `Writes` gives the sections each kind of request writes, in order, before it appends its event under the lock; `Together` is
the one transaction of a pairing. `SnapshotReads` and `PollReads` are the reads of an answer in the order of
`build_snapshot` and `sync_events`; a client walks through them while writers go on. First come the buddies and the ids of the devices and machines
that the viewer may see, which select (`Selected`) from every section that is read later, before the revision or after it. `plan_usage` is that of the
present month and of one user (`Counted`): the one who asks, or the one whom all visible buddies belong to, and else nothing; `NextMonth` may
fall anywhere. Each entity has the buddy or device it belongs to (`of`), which was there when its request began (`Belongs`). Buddies are
written and read under the lock (`Guarded`), all other sections are not. `device_events` behave as the heartbeats do and stand with them.
A revision is the index of an event in the table, so a rolled back event gives its revision back, as `AUTOINCREMENT` does inside a rolled
back transaction. `Since` is the filter by visibility and actor. The console only takes snapshots; following the
feed by `since_revision` is what the integration tests do.

**ShoppingPass.** `FindOpenItem`, `InsertItem`, `NameTaken`, `CommitItem` are `add_shopping_pass_item` once per name
(`todo`); the early return of an item that is there leaves the `with` block and so commits what others have open.
`NameTaken` and `RecipeExists` are the unique indexes, whose exception rolls back everybody. `GetOwnedItem` and
`UpdateItem` are `mark_shopping_pass_item_done`; `ReadItems` and `ReadHistory` the two reads of
`current_shopping_pass_hint`; `FindLatestQuery` the walk back over the traces, which raises at the first trace of a
failed call, since that has no proposal. What the stock says (`stock`) is written by `StateMemory` and changes here at
any time. A fact is what an answer or event tells of an item, *it is or was on the list* or *it is done*.

**TokenMigration.** A row has the stored token and, in the earlier version, the token in its payload. `ReadLegacy` is
both reads and the early return, `MigratePairing` and `MigrateRevoked` one UPDATE each, `CommitMigration` the end of
the block, `LoadFromConnection` the dictionaries. Tokens are of two kinds, because a token of 64 hex digits looks like a
SHA-256 (`HexTokens`). `Init` is any mixture of rows of the earlier versions and of today.

**Accounts and ConsoleSession.** `AuthStore` and `BuddyStore` hold the lock around each statement with its commit, so they do not disturb
each other and a request is one action of the server (`Serve`). The other stores do not take that lock, and a failing block of theirs can roll
back what was written before its commit: hence `IssueSession`, `LogOut` and `CreateBuddy` keep their row or do not, and answer all the
same. A function of the page is a `task`: the await it is at, the token it was sent with,
the answer. `Resume` has one action for what happens between two awaits: `SignedIn` is `saveSession`
and the first lines of `loadAuthBuddies`, `BuddiesLoaded` what comes after its await, `SnapshotLoaded` is
`projectWorkspace`, `Expired` is `recoverExpiredSession`, which any 401 of an expired token reaches, and so on.
`restoring` says that a function is inside the `try` of `restoreSession`, where every failure clears the session. `view` says
*whose* data each part of the page shows; its `draft` is the selected proposal with its correction and the status line, which the
answer to a capture writes (`OperationDone`) and rendering the inbox replaces (`Project`). `controls` is whether the buttons were last drawn for one who is signed in,
because a login button works until the next rendering. Operations of the workspace (capture, recipes, reminders, agents)
are one kind of request, `operation`, followed by a refresh. `Reload` starts both functions of the page's start.
Another tab of the browser has a slot of its own (`OtherTab`) with a request and an answer like the page's: `OtherTabActs` sends its logout or
login, `OtherTabResumes` removes or stores the token that all tabs share, for a logout also when the request was lost and the server
never heard of it (the empty `catch` of `logoutAuth`). `shared` remembers that another tab was the last to change the storage.

## 3. The runs

| Run | Instance | Shows |
|---|---|---|
| `pairing_overlap` | 2 threads, 2 devices, buddies and machines, 4 tokens, 6 requests, failures | `IndexResolves`, `OneTokenUnlessHalved`, `NoRevivalUnlessTorn`, `NeverLockedOutUnlessSplit`, `RestartAgreesUnlessHalved`, and `ImplementsCredentialUnlessSplit`: a transaction replaces a credential as a whole or not at all |
| `pairing_same_device` | 2 threads, 1 device | **violates** `NoRevival` |
| `memory_serial` | 1 thread, 3 proposals, 2 items, corrections, failures | `HistoryChains` and `ImplementsLedger` |
| `memory_overlap` | 2 threads, 2 proposals, failures | `AppliedOnceUnlessTorn`, `AnswersHoldUnlessTorn`, `OneRowUnlessTorn` |
| `runtime_confirm` | 2 threads, 1 proposal of any kind, 4 confirmations, failures | `RepeatsExcused`, `TraceTruthful`, `RecordedIsFinal` |
| `reports_overlap` | 2 threads, 2 devices, 4 requests, failures | `RestartAgrees`, `DeliveredOnce`, `RevisionsDistinct`, `RevisionsGrow` |
| `usage_overlap` | 2 threads, a limit of one call, 3 requests, 2 months, failures | `OverrunBounded`, `CallsBilled`, `ServedWithinLimit` |
| `feed_followed` | 2 writers, 1 client, 2 audiences of 2 users, 2 changes of 5 kinds, a month's end, failures | `PollsMissNothing`, `SnapshotCovers`, `UsageCoversCosts` |
| `shopping_overlap` | 2 threads, 2 names, 1 recipe, 4 requests, failures | `OneOpenPerName`, `ToldHolds`, `DoneIsFinal`: the list has a name once, and what was told stays true, or was taken by another request's rollback before its commit |
| `startup_migration` | 2 devices with 2 keys, 2 tokens of each kind, crashes anywhere, pairings in between | `CredentialsKept` |
| `startup_tombstones` | the same instance | **violates** `NoTokenShown` |
| `console_session` | 2 users, one a founder with a buddy, 2 tokens, 2 functions of the page and 1 of another tab at a time, 3 acts of the user, rows rolled back | `ShownIsMine`, `EndedForCause`, `PageSettles` |

Each passing run also checks the type invariant of its module except where its properties are those of a module
already checked so. `Restart` is possible at every point of every run.

**Findings** (in `PROJECT.json` with the quoted expectations). Two pairings of one device that overlap can leave a
token that is rejected until the next restart and accepted after it. And the migration leaves a tombstone of 64 hex digits whose pairing row is
gone as it is, readable, since it takes it for a verifier; `src/tests/unit/test_device_store.py:666` asserts that it does not, and
passes only because it searches the `str` of `sqlite3.Row` objects, which shows no values. `NoTokenShown` is that assertion, violated by
the first start over such a table. `CredentialsKept` therefore says of such a tombstone only that it is still there.

**Known boundaries** that no doc or test of the repository speaks about, so they are hazards and not findings. A
pairing whose first statements are committed by another request, followed by a crash, leaves a device with no token.
When two devices are paired at the same time and one pairing fails, its rollback takes the tombstone that the other has written; the
other commits without it, and the token it replaced is accepted again after a restart.
Of two confirmations of one proposal, the loser's rollback may take back the winner's claim while the winner's
deltas are committed by someone else, and a third confirmation applies them again. A snapshot may miss a change that
lies below its own `state_revision`, or that became visible between its first reads and that revision. A paid answer that raises outside the
provider's `try` blocks is billed nowhere. Between the `del` and the `add` of an invalidation a pairing of another device
that presents the removed token is let in. In the console, an answer asked for under another session is used, except for the
metrics; a session that was just restored is dropped when the snapshot after it is lost; and two logins sent before
either is answered leave the page with the later one's token and, until the next refresh, perhaps the other's data.

**What was excluded and why.** `Overlaps` says which requests may be under way together. Two pairings of one
device (except two that bring one token), pairings that bind one buddy, register one machine or present a token of the other's device,
two proposals on one item, and two simultaneous deliveries of one report (or two heartbeats or two
events of one device) are kept apart in the passing runs, because the code has nothing that
orders them: for the first the violation run shows what happens, for the others the hazards say it. Two
confirmations of *one* proposal, two reminders of one device, and everything else across devices do overlap.

**Bounds and why they are enough.**
`MaxRequests`, `MaxConfirms`, `MaxChanges` cap the requests of a behaviour and `MaxRows` the rows of the
state memory's tables; they exist only to keep the instances finite. Four reports allow a report, a retry after
a failure, a later one and a reminder; three model calls allow two that race on the last tokens and a third that finds
the limit passed; two changes allow one event to be rolled back and another to take its number, or one to fall
into any gap of a snapshot or poll, and a buddy to be created and to get a device or a message, of another user than the first or of the same;
one month's end is enough, since `plan_usage` has one month. In the pairing runs the bound is the set of tokens: each can be paired once. `MaxMonth`
is 2: all that a third month could repeat is the one turn. `pairing_same_device` has `MayFail = FALSE`, since the finding needs
no failure. `pairing_overlap` has failures everywhere, requests one at a time and two at a time in one run (376,681 states), and the `CONSTRAINT Followed`:
a state in which `torn` has become TRUE is checked and not continued, because all but two properties say nothing of what follows it (they could not:
`NoRevival` in their place, without the constraint, is violated within seconds), and `IndexResolves`, which does, is proved for every behaviour. After
`raced` a behaviour is followed until one of the two requests has ended, which is enough for `RemoveFails` and for a scan that breaks before its transaction.
Before those lines the run visits all behaviours, those in which requests fail half
committed among them. In `memory_overlap` two
threads are enough for that and for a commit between two deltas of the other; a third would only join one of the sides, and
the theorems hold for any number.
In `shopping_overlap` four requests allow two additions of one name, a third request whose commit or rollback falls
between them, and a repetition; six rows are what a query and three promotions of its two names insert, so that
`MaxItems` never stops anything. `MaxSlots = 2` lets one answer be late while another function signs in or out, and
three acts, the other tab's among them, are enough for a login, a logout, an operation or another tab's logout, and a reload or a second login, for which
there is a second token. `startup_migration` has no bound besides its sets: each token is paired at most once. Threads and tokens of one
kind are interchangeable, and the runs with `SYMMETRY` have no liveness property and use these sets only through
quantifiers and choices that are unique.

**Deadlock** checking is off except in `startup_migration`: clients may stop sending, and when tokens, proposals or
bounds are used up and no request is under way, no step is left but a restart. In `startup_migration` a restart is always
possible, so that the check adds little there. No handler waits for anything except the two locks,
and both are released by the step that ends the block, failing or not.

**Fairness.** Only `ConsoleSession` assumes any: for each function of this page, weak fairness of the server's answer and of
the continuation after it (`\A k \in Page : WF_vars(Serve(k) \/ Resume(k))`). The server answers each request it gets, in a
thread of its own or of the pool, and the page's event loop runs every continuation whose answer is there; neither can be held
off by what other functions do. Nothing is assumed of the other tab, which may be closed at any time, nor of the user. An
answer may instead be lost, since `Lose` stays possible until the function goes on. `PageSettles` says that something holds
again and again (`[]<>`), not that it holds from some point on. Signed out, the page is empty, or an answer that a refresh
needed was lost (`cut`): a late answer may write buddies or a draft back after the logout, and the snapshot that its own
refresh builds clears them again. Signed in, the page shows the session's user, or one of `cut`, `crossed` (an answer of another session was
used) and `overwritten` (a login saved over a login) holds. That signed out the page ends up empty holds even after the
last two. (The selected `buddyId` alone is left out: the
late answer of `createMyBuddy` sets it after a logout and then fails on the user that is gone.) In the other modules no
liveness is claimed. The server promises nothing that must happen eventually: there is no queue, retry loop, timer or
background task in it; what a request does not finish, nobody finishes.

## 4. What is proved

`DeviceRegistry_proof.tla`, first about `DevicePairing`, for any sets of threads, devices, keys, tokens and requests, and any overlap unless
stated:

* `TypeCorrect`: `Spec => []TypeOK`. `TypeOK` is inductive with one addition it already contains, that a busy
  thread has a request.
* `WellKeyedCorrect`: every stored pairing sits under the key of its own device and request, and no two rows
  hold one verifier. Inductive relative to `TypeOK`; it is what makes `Load`'s `CHOOSE` deterministic.
* `IndexAlwaysResolves`: `Spec => []IndexResolves`, hence no request ever meets a `KeyError` between the index
  and the pairings, however requests overlap. It follows from the part of `WellKeyed` about the dictionaries.
* `CarefulClients` is what the next four theorems ask of clients: requests that overlap are of different devices, and neither brings a token that
  the other's device presents in any request. Nothing is asked of what fails. `Apart`
  says what then always holds: requests under way are pairwise apart (`Exclusive`); a token that is being paired is
  in no index yet (`TokenUnused`); while the old tokens of a device are removed, the index has exactly those that its request still has to remove, and then none
  until the new one is there (`Emptied`). `Origin` adds that every token in rows, index or hand belongs to a device that presents it. The second
  half of the hypothesis is needed since a token between `del` and `add` passes every check: the code lets another device have it then.
  `NeverRaced` shows that under the hypothesis `raced` stays FALSE, which the theorems state with the property, so that this excuse excuses nothing.
* `OneTokenCorrect`: under `CarefulClients` `Spec => [](OneTokenUnlessHalved /\ ~raced)`. The property is not
  inductive. `TokensInv` adds, for each thread, how far tombstones and pairing have got in `working` (`Progress`), and that for
  devices without a request the tables allow no token that the dictionaries do not (`UnservedDevices`). Since any request may fail,
  `Restorable` says the same of `durable`, to which a rollback returns: it allows what the dictionaries do, but for the requests past their
  commit, which have the new token there, and for those inside their transaction when another request committed (`parted`), of which
  nothing is said. That is enough as long as a rollback takes no other request's statements
  (`torn`) and no parted request fails (`halved`): then whoever rolls back is alone in a transaction, and nobody is parted.
  The two excuses are needed, and both inductions stop where one of them becomes true (`DisturbedStays`).

* `RevokedForever`: under `CarefulClients` `Spec => [](NoRevivalUnlessTorn /\ ~raced)`. That a replaced token is dead in the dictionaries and
  after a restart is not inductive. `RevocationInv` speaks of the tokens that are marked, those in `_revoked_pairing_tokens` and the one that each thread has
  taken out of the index and not added yet (`Marked`): a tombstone is committed before its token is marked, and
  an indexed token is not (`Tombstones`); for each thread, which of the old tokens already have a
  tombstone, and where the new row is (`Replacing`); the token of a device's last completed pairing is revoked or usable in
  the dictionaries, and has a row or a tombstone in every state a rollback or a restart can find (`CurrentStored`), so
  that the next pairing cannot replace it without a tombstone. It is inductive relative to `TypeOK`,
  `WellKeyed`, `Apart` and `Origin`, and needs only the first excuse: a pairing that fails half committed leaves tombstones without a
  new token, never a token without its tombstone. The run `pairing_same_device` shows what happens without `CarefulClients`.
* `RestartAgreesCorrect`: under `CarefulClients`, and if requests that bind one buddy or register one machine do not overlap either (`OneBuddyAtATime`, `OneMachineAtATime`: else
  the table may keep one binding, or one endpoint of the machine, and the dictionary the other), `Spec => [](RestartAgreesUnlessHalved /\ ~raced)`. `AgreementInv` compares the dictionaries field by
  field with the open tables (`FieldsAgree`: where they differ, the request is under way that has written the one and not yet the other) and
  with the committed ones (`CommittedFields`: where they differ, a request is between its commit and the dictionaries, or parted), the
  index with the rows (`IndexedRows`, `CommittedRows`), the tombstones (`TombstonesExplained`, `CommittedTombstones`), and says what the end of the
  last request finds (`WorkInv`). A commit makes the second comparison out of the first (`CommittedNow`), a rollback that disturbs nobody the first
  out of the second (`RolledBack`). `SettledAgrees` concludes that without a request between transaction and index entry
  the dictionaries *are* `Load(working)`. `RestartAgreesUndisturbed` drops the two excuses where requests do not overlap at all (`Serial`)
  or nothing fails: there they never arise (`UndisturbedHolds`).
* `NeverLockedOutCorrect` and `ImplementsCredentialCorrect`: if requests do not overlap at all (`Serial`), with failing writes and restarts
  anywhere. In a transaction the dictionaries are what a restart would load, outside of one everything is committed; hence only the commit of
  a pairing changes what is stored, and it replaces exactly its device's token (`CommitPairs`), and `Reachable` completes the
  half of `NeverLockedOut` about the dictionaries. With overlap both are false: a commit of another request followed by a crash leaves
  a device revoked and not re-paired, as a hazard says. The run checks them with overlap up to such a commit (`split`), the theorems give both forms.

`DeviceRegistry_proof.tla`, at its end, about `TokenMigration` (instance `Start`), for any devices, keys, tokens and choice of tokens that look like a digest, and starts cut
short anywhere: `CredentialsKeptCorrect`. `MigrationInv` says that the committed tables are always those of
some version (`Sound`: each token has one row in one of the three forms, and exactly the last token of a device is alive),
a replaced token has a tombstone as it is today, one that the migration can tell from a verifier, or one that it keeps as it is (`Kept`),
and that `working` is those tables with the rows and tombstones rewritten that are no longer in `job` (`Progress`). `StartTypeCorrect`
follows from it. An instance does not bring its module's `ASSUME`s along, so `MigrationAssumption` repeats them.

`DeviceReports_proof.tla`, for any threads, devices and requests. `TypeInv` is the type invariant with what a thread
owns at each step (`Serving`) and that every stamp in the tables is of a request begun (`Begun`); the four theorems after
`TypeCorrect` rest on it.

* `RevisionsDistinctCorrect`, `RevisionsGrowCorrect`: whatever overlaps, unless a transaction is torn, the owner is told
  each revision of a device once and the revision never goes back. Neither is inductive. `LockHeld` says which thread has the
  lock of the desired state at which step; `OpenExplained` that whatever is written and not committed belongs
  to a thread that is about to commit it, so that a rollback that tears nothing takes back only the failing
  thread's own write; `Revisions` that dictionary, tables and the thread in the lock differ by the one revision that is being
  written; `Numbered` that what is told, or about to be, is distinct and not ahead of the dictionary.
* `DeliveredOnceCorrect`, if no report is delivered twice at once (`OneDelivery`): `DeliveryInv` follows a report from
  statement to dictionary to feed (`Apart`, `Recorded`, `Announced`).
* `RestartAgreesCorrect`, if a device sends one heartbeat and one event at a time (`OneAtATime`): `Younger` and `Listed` say
  that a report under way is younger than all that its device's lists are made of, hence the order of arrival in the dictionary
  is the order by stamp in which a restart reads the rows.

Both hypotheses are about clients, the code does not enforce them, and a hazard names each; the instance of `reports_overlap`
satisfies them.

`StateMemory_proof.tla`, for any proposals, lists of deltas and finite set of threads, in five invariants that each build on
those before:

* `TypeInv`: the type invariant with what each step has in hand (`ThreadOK`): a thread in the loop has a delta left, one that
  writes has what it found.
* `ConnectionInv`: `durable` never has a decision or an event that `working` lacks (`Growing`), and nothing is
  uncommitted unless some thread has its commit before it (`Committed`). Hence a commit, by whoever, adds to what is kept, and
  a rollback that tears nothing takes back only the failing thread's own writes.
* `DecisionInv`, until a transaction is torn: history and events of a proposal are of its decision (`TablesSound`), exactly one
  thread decides it and has room for its remaining deltas (`DecidingSound`: the entries and the rest of `todo` are
  together no more than the deltas), and what was answered is committed (`AnswersSound`). `AppliedOnceUnlessTornCorrect` and
  `AnswersHoldUnlessTornCorrect` follow, without any hypothesis on which requests overlap or on what fails.
* `ItemInv`, with `ItemsApart` (requests that overlap are about one proposal or about different items), whatever
  fails: the row a thread has found is still the row of
  that name when it writes (`FoundSound`), and, until a transaction is halved, the history of an item explains it but for the one
  entry that is about to be recorded (`WrittenSound`, `HistorySound`). A rollback that tears nothing ends all that is under way in the open
  transaction; what it returns to is explained unless a thread was `parted`, and a parted thread is still in its
  transaction (`PartedInv`), so that it is the one that fails and `halved` says so. `ScopeInv` carries the hypothesis along: of two requests that
  race for one proposal only one gets past the claim, hence the heads of two `todo`s are different items (`HeadsApart`).
  `OneRowUnlessTornCorrect` follows, and `HistoryChainsCorrect` with `Serial`.
* `LedgerInv`, with `Serial`: the stock in `working` is a stage of `StateLedger`'s arithmetic, started from the stock in
  `durable`, and the deltas that lead to it are the ones no longer in `todo` (`Progress`). `CommitIsStep` concludes that
  a commit is `StateLedger`'s decision, `StepImplementsLedger` that every other step changes nothing that is committed:
  `ImplementsLedgerCorrect`.

The hypotheses are needed. Two proposals on one item lose an update or insert a name twice, since the code neither locks nor checks,
and the hazard at `state_memory_store.py:495` says so. So is the excuse `halved`: another request may commit half of a
transaction whose thread then fails; nothing of another thread is taken back, so `torn` stays FALSE, and an item that was
written and not yet recorded remains without its history. That a name has one row needs only the first
excuse, `torn`. `ImplementsLedger` is false as soon as the commit of another request,
whatever that is about, falls between two deltas of a confirmation.

`ActionRuntime_proof.tla`, for any proposals, any number of confirmations and any finite set of threads. `TypeInv` adds what a
step says of the thread's request (`Serving`) and that no row is ever deleted (`Grown`). `Billed` says that a proposal is
planned by one thread, which nobody joins before its trace is there, with the books written before the trace.

* `TraceTruthfulCorrect`, `RecordedIsFinalCorrect`: `Truth` says of a proposal without an excuse that it has at most one thread,
  and that dictionary, copy, trace in hand, and both states of the tables agree on whether the adapter acted, each to the
  extent it can know.
* `RepeatsExcusedCorrect`: `home[p] <= 1 + excuses[p]` says nothing of the confirmations still on their way, each of which may
  execute. `Budget` counts them: either everything that could be read says *executed* (`Calm`), or executions and pending
  confirmations together do not exceed the excuses (`Roomy`), or they exceed them by one and every thread at the proposal is
  pending or carries the news of the execution to the trace (`Tight`). A confirmation that joins brings its excuse, one that
  is alone uses the one free execution, a record that is lost is an excuse, and the last carrier leaves the proposal calm.

`UsageLimit_proof.tla`, for any limit, reserve, costs, requests, months and threads (finitely many, and at least one; a
call has a greatest cost).

* `CallsBilledCorrect`: `BooksInv` follows a call through the three books, `Entered` saying for a thread which of them it is in; `LossInv` that
  the two losses are in none but what the property says, however a later rollback or request goes.
* `OverrunBoundedCorrect`: a month exceeds its limit by less than one greatest call per thread. `LimitInv` gives each thread
  that was cleared below the limit and has not billed one pass for the month it may bill to (`Passes`), and bounds what is
  used *plus* the passes' worth.
* `ServedWithinLimitCorrect`: `RoomInv`, the room that a request without company was found to have is still there.

`ShoppingPass_proof.tla`, for any threads, names, recipes and requests, whatever overlaps or fails. `TypeInv` includes
what a step reads of its request (`Fits`), that lists of missing ingredients are finite, and that an unused id has no item.

* `OneOpenPerNameCorrect`: inductive relative to `TypeInv` for both states of the tables, of which commits and rollbacks copy one
  to the other.
* `DoneIsFinalCorrect`: with `Ahead`, no commit or rollback undoes a fact, since `working` holds all that `durable` does.
* `ToldHoldsCorrect`: `ToldInv` says where every fact that a thread holds, the feed says or an answer said is to be
  found, in `working`, in `durable`, or among what another request's rollback took.

`ConsoleSession_proof.tla`, for any users, tokens and number of functions under way: `ShownIsMineCorrect` and
`EndedForCauseCorrect`. `ConsoleInv` says what each function knows of its request and of the session it was sent in
(`TaskOK`: whose the data of an answer is, that an expired token stays dead, that metrics of the current generation were asked
for with the token of the page) and that the stored token is the page's or another tab has changed it (`SessionKnown`).

`SyncFeed_proof.tla`, for any clients, changes and threads, whatever overlaps, fails or restarts. `TypeInv` adds the entity that a
busy thread serves, with the sections it has yet to write in their order (`Serving`), and that what a client has left to read is
the end of the list of a snapshot or of a poll (`Planned`).

* `PollsMissNothingCorrect`: `FeedInv` says who has the lock of the feed (`LockHeld`), that the open transaction is at most the one
  event of its holder ahead of the committed ones (`OneEventAhead`), that no client has a revision beyond them
  (`RevisionsStored`), and what a client was told, also in the middle of a poll (`Polled`). That committed events never
  move follows from the first two.
* `SnapshotCoversCorrect`, `UsageCoversCostsCorrect`: `RowsInv`: what is committed stays, a row that a writer has written can be
  read, an event is written after all its rows, a cost after its usage is committed. `RootsInv`: the buddy that an entity belongs to, and
  the device, were committed and published before it, since a request finds them before it begins (`Rooted`). `ViewInv` carries this to the
  client: each read that is done shows what was announced before the snapshot was asked for, the ids that later reads select by included
  (`OldShown`, `RootSeen`), a late section what it selects of what is announced up to the revision (`CoveredTo`), and the costs in hand have their usage
  in the tables, and in the view as soon as it is read, unless the month has ended.

Each module's `TypeCorrect` is `Spec => []TypeOK`, and the inductive type invariant is what makes the fields, functions
and `CHOOSE`s in its actions defined.

Assumptions used: only the `ASSUME`s of the modules, which TLC evaluates in their runs, and the hypotheses in
the statements (`CarefulClients`, `OneBuddyAtATime`, `OneMachineAtATime`, `Serial`, `OneDelivery`, `OneAtATime`, `ItemsApart`; `MigrationAssumption`
is the `ASSUME`s of `TokenMigration`). Requests are well formed; `None` is none of the values; threads are
finite where they are counted; the stock has finitely many names; no token is a SHA-256 of a token. The instances of the passing
runs satisfy the hypotheses of the theorems about the properties they check, with one exception: `pairing_overlap` goes further than the
theorems, as it lets two requests of one device with one token overlap up to the end of one of them, and checks `NeverLockedOutUnlessSplit` and
`ImplementsCredentialUnlessSplit` with overlap, where the theorems have `Serial`.

Some definitions were changed because they could not be reasoned about, not in what they mean on the instances. `InOrder` in
`DeviceReports` is the sorted sequence of a set by its members' rank instead of `SetToSortSeq`, whose definition in the library
ends in an operator that only TLC computes. `Evaluate` in `ActionRuntime` had a `CASE` with overlapping guards, which TLA+
leaves open and TLC takes in order; it now takes the `if`s of `PermissionPolicy.evaluate` in their order. In `StateMemory` the entries of an
item or a proposal are a set of indexes of the history and `Renewed` gives the table after an UPDATE by position, and in `StateLedger`
the deltas are applied by a recursive function (`Stages`), where `SelectSeq` and `FoldLeft` were: about these the library
has no facts to cite that do not take an operator as a parameter. `Stages` is shown to be defined at every length from its least
counterexample (`LeastNatural`), and no more than one step of it is ever unfolded.

Only model-checked: `PageSettles`, which is a liveness property and out of the prover's reach as `ENABLED` is. Every other property of
a passing run is also a theorem, under the hypotheses above. No module has a `RECURSIVE` operator.

## 5. What is not modelled

* `set_desired_state`, `save_device`, `save_binding`: no route calls them.
* Reads that only format (items, traces, costs) and the redaction of summaries: no state.
* Of the console: rendering, the inputs other than the draft of a proposal, photo and voice capture, and what each operation asks of the server. Of
  other tabs the login and logout of one at a time: a login there stores another token, which this page sees at its next reload.
* `agent_store.py`'s heartbeat reads a row and writes it back; rows are independent, and the hazard says what two
  heartbeats of one agent lose. The contents of buddies' rows.
* The providers' parsing: a capture yields an arbitrary list of deltas from a small set, a call an arbitrary reply of the kinds the code tells apart.
* Schema creation and the `ALTER TABLE` migrations of `db.py`, which run before the first request and may be repeated.
* The engagement folds (activation, retention): functions of rows, planned below.
* Mixtures of rows that a downgrade could make, in which two rows hold one token and the migration breaks the unique
  index at every start; and more than one server process on one database.
* Paid calls that raise past every handler, or whose answer is no JSON, are in no ledger. `CallsBilled` does not excuse them silently: it
  states which books they are in (`dropped`: none, `unread`: the trace).
* Plans without a limit, and several users: the ledger is summed per user and users do not meet there.
* Authentication enters `SyncFeed` as the audience of an event; the other modules of the server begin after it.

## 6. Plan

Done: 1 pairing with its proofs, 2 state memory, 3 runtime, 4 reports, 5 usage limit, 6 sync feed, 7 shopping pass,
8 migration of tokens, 9 accounts and the console's session.

10. `EngagementFold`: activation and retention as operators, checked against a reference definition over bounded
    histories.
11. The heartbeat of agents.
