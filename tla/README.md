# Verification of stamprally-core-app

TLA+ models, TLC model checking and TLAPS proofs for the stamp rally system: a TypeScript
monorepo whose client collects stamps (check-ins at spots) and redeems rewards, offline if need
be, and whose server is the authority on stamps, stock and tickets. The models are translated
from `packages/core/src`, `packages/server/src` and the stateful parts of `packages/ui`,
`packages/mui`, `packages/admin-ui`, `packages/react` and `apps/web`.

## 1. The system

### Components, their state and their operations

| Component (source) | State | Operations | Module |
|---|---|---|---|
| Rally rules (`core/src/engine/transition.ts`, `rewards.ts`) | none: functions of a state, the stamps and the time | `reconcileRewardStates`, `consumeReward`, `processStamp` | `RallyRules`, `RallyGuide` |
| Inventory plan (`server/src/server.ts` 101-161) | none: function of the configuration | which buckets a claim decrements and where they start | `InventoryPlan` |
| Server handlers (`server/src/server.ts`) | none beyond a request | `checkIn`, `claimReward`, `sync`, `syncProgress` | `StampRallyServer`, `SyncBatch` |
| HTTP routes and validation (`server.ts` 168-406, `security.ts`) | none | `handle`, identity and request checks | `ServerGate` |
| Persistence adapter (`server/src/persistence.ts`, `examples/transaction.ts`) | leases, stored results by key, user states, stock, claim records, audit log | lock, lookup, the two transactions | `StampRallyServer` |
| Offline queue (`core/src/client/offlineQueue.ts`) | operations and rejection history, in memory and on disk | `enqueue`, `sync`, `retryRejected`, `discardRejected`, `setScope`, `migrateUser`, reload from another tab | `OfflineQueue`, `QueueStorage`, `RallyClient` |
| Client (`core/src/client/client.ts`) | current state, promise chain that serializes calls | `checkIn`, `claimReward`, `sync`, `linkAccount`, `switchUser`, `reset`, `restore`, queue listener | `RallyClient` |
| Replay log (`core/src/client/sync.ts`) | none | `rebuildUserStateFromLog`, `migrateAnonymousProgress` | `ReplayLog` |
| State storage (`core/src/client/storage.ts`) | saved states; sticky memory fallback; cached connection | `load`, `save`, `remove` | `StateStorage` |
| Availability (`core/src/engine/availability.ts`) | none | open now, next opening, period | `Availability` |
| Progress, suggestions, preflight (`core/src/engine`) | none | what the participant and the organizer are told | `RewardConditions`, `RallyGuide` |
| Detectors (`core/src/detectors`, a viewer's QR scanner) | one scan: stream, timer, abort listener | scan until a result, a timeout or an abort | `Detectors` |
| Validation and publication (`core/src/domain`) | none | `sanitizeAdminConfig`, `toPublicConfig`, `safeParse...` | `ConfigPublication` |
| Configuration editor (`admin-ui`) | draft with undo history | every edit, undo, redo, reset, import | `AdminEditor` |
| Participant's page (`ui`, `mui`, `react`) | drawn state, pending claims, completion flag | check-in, claim, completion callback | `RallyViewer` |
| Tokens and snapshots | none | signing, parsing | not modelled |

### How they interact

A client call changes the state at once (optimistically) when the server cannot be reached, and
queues an operation with an idempotency key. When the client synchronizes, the queue sends its
operations in order, one by one or as a batch; each answer removes an operation, and the client
rebuilds its state from the server's state and the operations still queued. A refused operation is
rolled back and kept in a history. On the server each request is a chain of awaits on the adapter:
look the key up, take a lease, read, decide, commit one transaction, release. Requests of several
users and repeated requests of one user interleave at every await. Around this core, a viewer
draws the client's states, detectors supply the proofs of check-ins, an organizer's editor makes
the configuration, and publication strips it of what participants must not see.

### What is hard

* **Interleaving.** Check-ins lock the user, claims lock the reward (or the whole inventory), yet
  both write the user state; a check-in decides on a state it read before its transaction. On the
  device, `retryRejected`, another tab's reload and a running synchronization share two arrays.
* **Leases.** A lock has an expiry and no owner. A slow holder loses it, and then releases the
  lock of the next holder.
* **Retries.** The same key can be in two requests at once, or come back after a failure, a crash
  or after its stored result expired.
* **Crashes** between the writes of the client (queue, history, state), or between lock and release
  on the server; storage that refuses a write, falls back to memory or holds something unreadable.
* **Stock** in two buckets that must not be oversold nor leak.
* **Batches and merges.** Operations depend on each other through prerequisites; an account that is
  linked brings a state and a queue of its own.
* **Promises made in advance.** Opening times, suggestions, progress and the preflight each compute
  on their own what the check-in later decides.
* **Effects and callbacks.** A draft and its host's property, a camera and an abort, a claim and a
  card that goes away.

### What makes each component correct

* Server: no bucket oversold, none leaks, one key one ticket, answers backed by storage, a stored
  state consistent in itself, stamps never lost, every request ends, every lock comes free.
* Batch: the returned state contains what its results accepted and nothing they refused.
* Gate: an operation acts for the identity its caller proved or owns.
* Queue: no operation lost, whatever crashes; rejected operations kept until discarded; a sync ends.
* Client: what is shown is the server's plus what is pending, and is what storage holds; linking
  an account loses neither stamps nor operations; every call ends.
* Guide: what is told in advance is what then happens.
* Storage: a load never returns what an earlier load had surpassed; an outage that passes is over.
* Publication: nothing private reaches participants. Editor: no edit lost between draft and host.
* Viewer: one claim at a time; completion announced when it is news. Detectors: a reading ends.

## 2. Modules

| Module | Models | Kind |
|---|---|---|
| `RallyRules` | reconciling and consuming rewards; the configuration | constant operators |
| `InventoryPlan` | buckets and start levels | constant operators |
| `StampRallyServer` | `checkIn`, `claimReward`, the adapter, crashes, leases, time | state machine |
| `ClaimLedger` | what claims promise, abstractly | abstract specification |
| `ClaimLedgerProofs`, `StampRallyServerProofs` | the ledger's promises; the server implements it, its stored states, answers and locks | proofs |
| `SyncBatchProofs` | the batch | proofs |
| `OfflineQueueProofs`, `RallyClientProofs` | the queue of one tab; the client | proofs |
| `RallyGuideProofs` | what is told in advance | proofs |
| `PartsProofs` | storages, queue storage, viewer, gate, editor and publication | proofs |
| `SequenceLemmas` | least numbers, inserting, removing, filtering, ranks, recursion, chains of sets, division | lemmas |
| `Filtering` | an array's filter, without the recursion of `SelectSeq` | operator |
| `SyncBatch` | `syncProgress` and `#attachInventory`, next to other devices | state machine |
| `OfflineQueue` | the queue in one or several tabs | state machine |
| `ReplayLog` | optimistic states, rollback, replay, merge | constant operators |
| `RallyClient` | the client over storage, queue and server | state machine |
| `Availability`, `RewardConditions` | opening hours; trees of conditions | constant operators |
| `RallyGuide` | a participant under the engine, and what the engine tells | state machine |
| `StateStorage`, `QueueStorage`, `Detectors`, `ConfigPublication`, `AdminEditor`, `RallyViewer`, `ServerGate` | the parts around the core | state machines |
| `MCServer`, `MCSync`, `MCQueue`, `MCClient`, `MCGuide`, `MCParts` | instances for TLC | model values |

`StampRallyServer` extends `InventoryPlan`, which extends `RallyRules`, and instantiates
`ClaimLedger` with a refinement mapping. `SyncBatch` extends the server, and each of its operations
runs as a request of the server. `RallyClient` extends `ReplayLog`, which extends `RallyRules`: its
server is one decision per request on one state, and its queue is what the queue holds between
calls; the steps inside them are `StampRallyServer` and `OfflineQueue`. `OfflineQueue`
and `RallyGuide` keep what they are configured with in a variable that never changes (`setting`,
`config`), so that one run covers several deployments. `MCParts` extends the seven parts; its variable `part` says which of them a
behavior is about, and the others stay in a constant state. Each proof module extends the modules it is about;
`SyncBatchProofs` builds on `StampRallyServerProofs`.

### Correspondence to the code: server

A step of `StampRallyServer` is what runs between two awaits of a handler. `pc[r]` says where
request `r` is: `idle` (not taken up), `missed` (key looked up, no result), `locked`, `ready` (all
reads before the transaction done), `releasing` (the `finally` block), `done`, `crashed`.

| Action | Code (`server.ts` unless said otherwise) |
|---|---|
| `LookUpResult` | `getIdempotentResult` before the lock |
| `AcquireLock`, `LockConflict`, `ReleaseLock` | `acquireLock` and its failure, `releaseLock` in `finally` |
| `ReadUserState`, `CommitCheckIn` | the read of `checkIn`; its decision and `executeCheckInTransaction` |
| `RecheckResult`, `ClaimAlreadyStored`, `CommitClaim` | the second lookup of `claimReward`; the adapter's own lookup; the transaction with its mutation |
| `StorageFails`, `Crash` | an adapter call throws and the transaction rolls back; the process dies |
| `LeaseExpires`, `ResultLapses`, `Tick` | time passing: a lease, a stored result, the clock |

`CheckInCode` and `ClaimCode` are the chains of early returns; `StateAfterCheckIn`, `StocksAfter`
and the record of `CommitClaim` are what the transactions write; `RefuseCheckIn` is the transaction
that stores a refusal.

`SyncBatch` adds the loop of `syncProgress`: `StartBatch`; per operation either `RefuseDependent`
(a prerequisite was refused in this batch, `refused` is `rejectedCheckIns`) or `RunOperation`, the
server's own steps, and `TakeResult` or `OperationThrows`; then `ReadCurrent` and
`AttachInventory`. `Elsewhere` is any step of another device's request.

`ServerGate` is one action per way in: `WrongMethod`, `UnknownRoute`, `PostOperation` (`/check-in`
and `/claim-reward`), `PostSync`, and `HostCalls` for a host that calls the methods itself. `Operate` and
`Synchronize` carry validation, the session header and the identities in the code's order; `acts`
records for whom each operation ran.

### Correspondence to the code: device

A step of `OfflineQueue` is what runs in a tab between two awaits. `pc[t]` says where its
synchronization is.

| Action | Code (`offlineQueue.ts` unless said otherwise) |
|---|---|
| `Enqueue`, `Clear`, `DiscardRejected` | the methods of that name: one assignment and one save |
| `RetryRejected`, `FinishRetry` | `retryRejected` up to its first save, and its second save |
| `Sync`, `TakeHead`, `Send`, `Finish` | `sync` and `#runSingleTab`: the lock, the choice of the first operation, the mark `IN_FLIGHT` and the call of the sender |
| `SkipHead`, `SaveSkipped` | `#rejectFailedPrerequisite` and its two saves |
| `ReceiveFinal`, `RecordRejection`, `RemoveHead`, `Notify` | an answer: mark, save the rejection, drop the operation, tell the listener (`client.ts` `#handleOfflineSyncResult`) |
| `ReceiveRetryable`, `TryAgain`, `GiveUp` | a failure: mark, wait and repeat, or stop |
| `SendBatch` ... `FinishBatch` | `client.ts` `sync` with a batch adapter, and `applySyncProgress` |
| `Ask`, `Decide`, `Lapse` | the server as the queue sees it: a key looked up before the lock (`server.ts` 432-451), the decision, a stored result that is gone (`persistence.ts` 370) |
| `StartReload`, `AssignOps`, `AssignHist` | `#reloadFromStorage` and its two reads |
| `Crash`, `Restart` | the tab dies; `initialize` |

`QueueStorage` is where these arrays are kept: `Selected` (the choice between the host's storage,
the browser's and memory), `Initialize`, `SetScope`, the fallback to memory when a scope
cannot be loaded, and the saves of `enqueue`, of an answered operation and of `clear`. An `enqueue`
of what is in the array already saves nothing; the history variable `hollow` holds the operations it
resolved for in this way that the device does not hold (`Held`), until the array is saved or goes
(`LoseArray`).

`RallyClient` keeps, for each user, what is in storage and in the queue, and the shown state. The
calls are actions with the method's name; a call under way is `call`, and each await that may fail
or be the last is an action of its own: `Save` and `SaveRefused`, `Ask`/`Answered`/`NotAnswered`,
`SendHead`, `SkipHead`, `HeadAnswered`, `SyncFails`, `Pulled`, `ApplyResult`, `FinishSync`, and for an account `MoveOps`,
`MoveHistory` (`migrateUser`) around `LinkAccount`. `ClosePage` is the page dying at any of them.
`OtherDevice` and `OtherVisitor` change the server meanwhile.

`ReplayLog` has one operator per function: `LocalCheckIn`, `LocalClaim`, `Rollback`, `Replay` with
`Sorted` (each operation goes to the place that its rank gives it) and `Replayed` (the loop), `Migrate`
with the two policies.

`StateStorage`: `LocalCall` is a call of a `localStorage` adapter; `BeginCall`, `OpenDatabase`,
`FailToOpen` and `Transact` are those of the IndexedDB adapter, whose cached promise is a variable.
`Detectors`: `StartReading`, one action per way a race settles, and `FinishQr/Nfc/Geo` for what the
`finally` blocks release.

### Correspondence to the code: rules told in advance, and screens

`RallyGuide` runs `processStamp` (`CheckIn`) and the clock (`Tick`) for one configuration at a time
and computes beside them what the engine tells: `Progress`, `NextAvailableSpots`, `SpotStatus`,
`NextOpening`, `RewardProgress`, and the preflight's `Reachable...` and `Issues`. A moment is a
number of slots; a day has a few.

`ConfigPublication` takes a document as the kinds of its fields. `SafeParse` is the parser,
`ToPublicConfig` and `SanitizeAdminConfig` the two transformations, `Safe` the safety check.
`AdminEditor` has an action per editor operation and `RunEffects` for the two effects that run after
a render. `RallyViewer` has an action per event of a card, a client state and an effect.

### What is abstracted

* Server: a ticket number is the request that issued it. A proof is a Boolean in the request. A
  spot's opening hours are a set of instants. A tree of unlock conditions is in disjunctive normal
  form (the trees are in `RewardConditions`). The claim records are a set, and a user's claim count
  is the number of their records: the code keeps a counter next to the list and changes both in one
  transaction. The timestamp is taken where the lock was obtained, although the code reads the clock
  in the statement after it. `validateCheckInRequest` and its like (`ServerGate`) reject unknown
  spots and rewards before the handlers run, so requests name configured ones; branches for adapters
  that declare no stock support are left out. A crash loses what a request had in memory; storage is
  durable. (The in-memory adapter loses everything with the process.) A reward that names one bucket
  twice, or the shared bucket as its secondary one (`BucketsDistinct`), is left out.
* Queue: an operation is its id and its status; `attempts`, errors and timestamps are not compared.
  A save takes effect when it is called and replaces the whole array; a refused save leaves memory
  ahead of storage. Messages to the server are a set, so they may be slow or repeated, and a lost
  one is one that nobody decides. `verdicts` are the decisions taken under a key. A claim looks its key
  up again inside its transaction, so there is one (`ImplementsLedger`, with `RechecksKey`); a
  check-in looks it up only before its lock, so one that is sent again while it is undecided may be
  decided on twice, each answer replacing the other (`repeated`). So may one whose result is gone
  (`Lapse`, with `resultsLapse`): stored results last a day by default, and a transaction that fails
  after it saved the state leaves none. `elsewhere` are check-ins whose spots the user's other device
  may visit. `Doubtful` is what these three touch, directly or through prerequisites. The refusal
  of a dependent within a batch is not told apart from a decision about it. A server `CONFLICT` counts as retryable, as the HTTP layer says
  (`server.ts` 354, 388). `Restart` loads operations and history in one step, and a tab has one
  `retryRejected` under way at a time. `fate`, which only the properties read, remembers what an
  operation's user was last told. With `directUse` FALSE the queue is called through the client,
  whose promise chain (`client.ts` 737-744) makes `enqueue` wait for a synchronization;
  `retryRejected` and `discardRejected` do not go through that chain. The two transports, several
  tabs and the storage it selects are separate models.
* Client: the server takes each request in one step and remembers its answer by key; a key
  sent again while undecided is only in `OfflineQueue`. The visitor has
  one device here, `OtherDevice` stands for the rest. Stock is one shared number.
* Guide: distances and passcodes are the outcome of a proof. Moments are those of the configured
  zone with a constant offset. A tree of conditions is the list of its conditions, each behind its
  parts. Of equally good alternatives the code shows the first, the model any. For a rally of more
  than a year `hasOpeningDuring` gives up and rules nothing out; the model decides it, so it
  announces at least as much as the code.
* Gate: the checks of `radiusMeters` in a GPS proof and of `staffId` are left out, which admits more.
* Publication: a field is its kind (text, empty, a number class, a map with a private key, a list whose
  one element is a known value...); a parser that reads a value through `String` takes that list for its
  element (`ReadAsKnown`).
* Editor and viewer: a document is its entities and one text; a state is its number and whether it
  completes the rally. Rendering is one step after the state changes that React batches.

## 3. Runs

| Run | Instance and bounds | Shows |
|---|---|---|
| `server_claims` | 2 users, 4 claims of one `server_claim` reward (stock 2, limit 2) with a shared pool of 3; one key used twice by one user; 2 requests may fail or crash; leases may be overrun | the server implements the ledger; stock conserved; answers backed |
| `server_visits` | 1 user's 3 check-ins (one with a prerequisite and a closing time) and a claim; overrun leases, lapsing results; clock 0..1 | stored states stay consistent in themselves |
| `server_batch` | a batch of 2 check-ins and a claim; the user's other device claims and checks in; 2 requests may fail or crash; holders finish within their lease or die; clock 0..1; `FairBatchSpec` | what a batch returns agrees with its results and with storage, no stamp is lost, the claim limit holds, everything ends |
| `queue_client` | 1 tab behind the client in five settings: 3 operations, one needing another, with 1 retry and two of 1 crash, 1 refused save, 1 user's retry at a time (none of the sender's retries without crashes); 2 operations with all of them; 2 operations with lapsing results and another device at the first one's spot; `FairSpec` | unanswered operations stay in storage, no accepted operation is called rejected unless it is `Doubtful`, every synchronization ends |
| `queue_batch` | a tab with a batch adapter, called past the client, 3 operations and 1 crash; and two tabs that share one stored operation, history up to 2 | nothing unanswered, rejected or retried is lost |
| `client` | 2 spots (one needs the other), 1 reward, shared stock 1; clock 0..2; 2 queued operations; 1 crash; 1 refused save; adapters `eachThenPull` and `batch`; local use and `reset` | what is shown is backed and saved; no operation is lost |
| `client_link` | guest and member, 1 queued operation, 1 crash, 1 refused save, clock 0..1; `switchUser`, `clear`, `restore`, `linkAccount`; another device uses the account; `FairSpec` | linking keeps progress; every call ends |
| `guide` | families of configurations (doors: weekly hours, exceptions and periods of 2-day weeks with 3 slots a day; routes; prerequisite graphs of 3 spots; rewards with condition trees) visited at every moment | what is told in advance then happens |
| `parts` | seven parts, one per behavior: 3 document versions and 2 letters per late host, 3 readings, 3 writes with 2 outages and 1 reload, every single-field change of a document, 3 client commits, 2 requests, 2 breakdowns and 2 visits | the properties of the parts, each about one of them |
| `server_redeem` | violation: 4 requests of one user | a check-in reverts a consumed reward |
| `queue_retry` | violation: 1 operation | a retried operation is dropped by the running loop |
| `viewer_completion` | violation: the page may be mounted before the client has loaded | an old completion is announced again |

**Why the bounds are enough.** Server: four requests give two that race, one that repeats one of
them and one that comes later. A stock of two with a pool of three makes the last unit contended
and the two buckets differ. `MaxTime` 1 is enough for a spot to close and a reward to expire between
two steps; claims do not depend on the clock and run at 0. Batch: what can go wrong needs an
operation that fails, one that depends on it, and a claim that races another device's. Queue: every
operation runs through one loop, so what goes wrong takes an operation in the loop, the one it waits
for and one put behind them; one crash, one refused save (`maxFailures`) and one user's retry
(`maxUserRetries`) can each fall on any step. With three operations two of these come together, all
three with two; a check-in is sent again by a retry, a restart or the next synchronization, so every setting has undecided repeats. `maxHistory` only keeps the state space finite: with
one tab it is never reached, with two an operation that both reject is recorded by each in turn.
Client: two operations are one that depends on another, and two clock steps let a later operation
differ from a pending one; `SavedIsShown` is about storage that has not refused a save; the others hold after a refused one. Guide: with weeks of two days each day has another before and
after it, three slots give hours that cross midnight and hours that do not, and three spots give
chains, forks and cycles. Parts: `MaxReadings` 3 lets two late cameras come during a third reading,
`MaxOutages` 2 lets an outage strike again after recovery, `MaxVersions` 3 is an edit, a second one
and an answer of the host.

Runs with `CHECK_DEADLOCK FALSE` are those in which everything may legitimately be done: their
bounds used up, nobody has to act. `queue_client` and `queue_retry` check deadlock.

`ResettingHosts` is `{"sync"}` and `LoadedAtMount` is `{TRUE}` in `parts`: the excluded cases are
the observation on `resetConfig` below and the run `viewer_completion`.

**Fairness.** Server (`FairSpec`, `FairBatchSpec`): a handler that a process has started runs to its
end, since Node's event loop runs the continuation of every settled promise, so each step of a
started request and of the batch is weakly fair. A request that has not arrived (`idle`) need not
arrive. A lease runs out with the clock, so `LeaseExpires` is weakly fair. Queue and client: the
steps of a tab's synchronization, and of the client's call, are weakly fair together, because
storage, sender and listener settle every promise. The queue sets no timeout of its own, so this is
an assumption on the application's sender: one that never settles blocks the queue. Detectors: timers
fire and the handlers of settled promises run; the camera and the user owe nothing, so `DetectionEnds`
says that a reading that was aborted or timed out ends and releases what it holds, not that a code
is ever found. Storage: the browser answers a request it was sent, the client makes another call, an
outage passes. Failures, crashes, calls of the user and the server's decisions are never fair.

### Disagreements found

1. `server_redeem`: `checkIn` reads under the lock `state:<user>`, `claimReward` writes under
   `reward:<id>`; a claim committed in between is overwritten by the check-in's state, the consumed
   reward is available again, and a second ticket is issued for a reward that is not
   `server_claim`.
2. `queue_retry`: while the loop saves a rejection, `retryRejected` finds the operation still
   queued, does not add it, removes the history entry and resolves to true; the loop then removes
   the operation.
3. `viewer_completion`: the effect that announces a completion takes the state drawn before the
   client has loaded for "not completed yet", so a rally completed on an earlier visit is announced
   at every visit.

### What else the models describe

Behaviours met while modelling, which the modules contain and which properties are stated around.

Server and gate

* A repeat of a check-in's key that missed the stored result is rejected as already acquired, and
  that rejection replaces the stored acceptance for later retries (`server.ts:437`,
  against `docs/server-sync-and-claims.md:5`). The device then calls an accepted check-in rejected:
  `OfflineQueue` has it (`repeated`), and `RejectionsTrue` excepts just what it touches. Without the
  exception, or without its closure under prerequisites, `queue_client` finds it violated.
* A dependent of an operation that failed for now is processed, rejected for good and its rejection
  stored (`server.ts:921`).
* With `RechecksKey` FALSE in `ServerClaims.cfg`, which is `examples/transaction.ts`, one key buys
  two tickets when a lease runs out during the first claim.
* One malformed operation refuses a whole batch with 400, although `packages/server/README.md:34`
  lets independent operations continue after a failure; an operation the handler's validation
  refuses inside a batch stays `FAILED_RETRYABLE` at every attempt. The 404 branches of
  `handleCheckIn` and `handleClaimReward` cannot be reached.
* An authenticated caller that still sends the anonymous session header gets `IDENTITY_MISMATCH`
  (`docs/SYNC_AND_TRANSACTION.md:80`). An adapter's error is thrown on to the host.

Device

* `#rejectFailedPrerequisite` saves operations before history (`offlineQueue.ts:1016`); a crash in
  between loses the rejection, against `docs/GUIDE.md:129`. An operation leaves storage before the
  listener saved the state that results from its answer (`:894`). `enqueue` saves its own tab's array
  without the lock (`:681`), so a second tab's operation may be overwritten. `migrateUser` saves twice
  (`:657`); a page that closes in between loses the operations, which is the one case `NoneLost` excepts
  (the comment at `:613` promises them to the account).
* With `directUse` TRUE in the setting `OneTab`, `clear` and `enqueue` during a synchronization make
  the loop remove an operation it never sent. Keeping rejections needs saves to succeed: a refused
  save of the history leaves the rejection in memory, and the next save of the operations drops it.
* The rollback of a rejected operation restores the rewards of the snapshot taken when it was queued
  (`:180`), not those since.
* An operation enqueued again under a key whose earlier save was refused resolves without saving
  (`:680`), and is lost with the page although `isStoragePersistent` is true: reachable because the
  application may choose the key (`client.ts` 588, 649). `QueueStorage` has it, and `AcceptedIsKept`
  excepts it until a later save (`hollow`). In `OfflineQueue` what has to be retained is what an
  `enqueue` saved.
* After an online success the client shows the server's state alone, without what is still queued
  (`client.ts:612`, against `docs/SYNC_AND_TRANSACTION.md:41`), until the next synchronization.
* The `localStorage` fallback lasts until the page is loaded again, a removal made in it is undone
  by the reload, and data that is not a state keeps rejecting until it is replaced. A connection the
  browser closes stays cached (`storage.ts:571`).
* A geolocation reading without a `timeout` may never settle, and unmounting a condition does not
  abort its scan.

Guide

* An exception without hours lets the night before spill into it as open, while the preflight cuts
  at midnight (`NoEmptyException`). An `any` without conditions shows as 100 % and never unlocks.
  `missingStampIds` ignores prerequisites. The preflight does not scan past a year.

Publication, editor and viewers

* A public configuration whose rewards name `stockKey` or `secondaryStockKey` is refused by
  `safeParsePublicConfig` (`validation.ts:813`), against `docs/GUIDE.md:101`. A reward whose `redemptionMethod` is
  `["server_claim"]` is accepted by both parsers, which read it through `String`
  (`validation.ts` 580-584), and published, but `isPublicConfig` compares with `===`
  (`models.ts` 359-362) and refuses it; `PublishedIsSafe` says so. `sanitizeValue` drops
  the second occurrence of a shared object.
* `resetConfig` with a host that keeps its property is undone by the adoption effect
  (`admin-ui/src/index.tsx:326` and 150-160). A late host that answers with an edit since
  undone makes the editor adopt it and drop its history. "Add spot" after a removal, in
  `AdminRallyEditor`, repeats an id (`:1652`, refused later by `validation.ts:737`); `addSpot` and
  `duplicateSpot` repeat an `orderIndex` when there are gaps; `removeSpot` leaves prerequisites that
  name the removed spot; `SpotItemForm` drops the address when a coordinate changes (738-742); a
  metadata key renamed onto another replaces it (1379-1384).
* `MuiRallyViewer` draws its own `localState` after its first action and no longer the adapter's
  state (`mui/src/index.tsx:902`). In `RallyViewer` the first finished check-in clears `busy` while
  another is in flight, and a second card's claim is given the first one's answer, whatever passcode
  it was made with.

## 4. Proofs

| Theorem (module) | States | Needs |
|---|---|---|
| `TypeCorrect` (`StampRallyServerProofs`) | `Spec => []TypeOK` | nothing: any configuration |
| `ServerImplementsLedger`, `StockNeverLeaks` (same) | `ImplementsLedger`, `[]StockConserved` | `Durable` |
| `LedgerSafe` (`ClaimLedgerProofs`) | the ledger's `NeverOversold`, `WithinLimits`, `OneTicketPerKey` | `LedgerAssumption` |
| `StampsNeedPrerequisites`, `RewardsAreEarned`, `ConsumedIsRecorded`, `AnswersAreBacked` (`StampRallyServerProofs`) | `PrerequisitesClosed`, `UnlockedRewardsEarned`, `ConsumedHasRecord`, `AnswersBacked` | nothing |
| `StampsAreKept`, `LocksExclude` (same) | `StampsKept`; two requests past their lock hold different ones | `~SlowHolders` |
| `PromisesKept` (same) | `ClaimLimitRespected`, and the ledger's two others | `Durable` |
| `OnlySuccessesReturned` (`SyncBatchProofs`) | `ReturnsOnlySuccesses` | nothing |
| `BatchKeepsStamps` (same) | `StampsKept` of `BatchSpec` | `~SlowHolders` |
| `BatchKeepsPromises` (same) | `ImplementsLedger`, `[]ClaimLimitRespected` of `BatchSpec` | `Durable` |
| `AcceptedIsReturned` (same) | `ReturnsAccepted` | `~SlowHolders`, `KeysNameSpots` |
| `AcceptedCounts` (same) | `AcceptedPrerequisitesCount` | the same, `FirstSent`, `OneCheckInPerSpot` |
| `UnansweredIsRetained`, `RejectionsAreTrue` (`OfflineQueueProofs`) | `UnansweredRetained`; `RejectionsTrue`, which is about the operations that are not `Doubtful` | settings that are `Alone` |
| `RetriedIsRetained` (same) | `RetriedRetained` | `Alone`, a batch adapter |
| `RejectionsAreKept` (same) | `RejectionsKept` | `Alone`, no refused save |
| `ShownIsBackedAlways`, `SavedIsShownAlways`, `ShownPrerequisitesClosedAlways`, `LinkKeepsProgressAlways`, `NoneLostEver`, `ClientInvariant` (`RallyClientProofs`) | the property each is named after; the inductive invariant | nothing |
| `AnnouncedOpeningIsNextAlways`, `ForeseenByPreflightAlways`, `SimulationReachedAlways`, `MissingStampsAreFewestAlways`, `SuggestionsAreAcceptedAlways`, `GuideInvariant` (`RallyGuideProofs`) | the property each is named after; the inductive invariant | nothing |
| `NoLoadIsOlder`, `AcceptedStays`, `ClaimsAreShared`, `OperationsActForTheirCaller`, `HostIsInformed` (`PartsProofs`) | `NeverOlder`, `AcceptedIsKept`, `OneClaimAtATime`, `ActsForCaller`, `HostInformed` | nothing |
| `PublicationIsSafe`, `PublishedIsSafeAlways` (same) | what is published of any accepted document; `PublishedIsSafe` (each but for the two values it names) | nothing |
| `EntitiesStayDistinct` (same) | `EntitiesDistinct` | `Tidy(Original)` |
| `ActionsStay` (same) | `ShownIsAsked` | `Hosts` among the four kinds, no `resetConfig` for a host that keeps its property |
| `CompletionsAreNews` (same) | `CompletionIsNews` | `LoadedAtMount = {TRUE}` |

"Nothing" is nothing beyond the `ASSUME`s of the modules, which say what a configuration is: the
well-formed definitions of spots and rewards; in `RallyClient` that the two names `own` and `issued`
are the tickets and that the clock can move (`MaxTime > 0`: an operation made on the device has a
time other than `ServerTime`); in `AdminEditor` that the document edited is one, in `ConfigPublication`
that a condition has one of the five types; in `Availability` and `RallyGuide` that a day has slots and a
week days, that `Null` is no moment, that a configuration is one `validation.ts` accepts (hours that do not
overlap, trees of conditions about its own spots; prerequisites may name anything and form cycles) and
that there is some proof to present; in `ReplayLog`, `QueueStorage` and `ServerGate` that the model values
`Null`, `"no list"`, `NoField` and `Blank` are none of the data. TLC evaluates all of them.

The hypotheses, and where the code has them:

* `Durable` is `BucketsAgree /\ RechecksKey /\ ~ResultsExpire`: rewards that share a bucket start it
  at one level, the transaction looks its key up (the in-memory adapter does), and stored results
  outlive the retries. Without `RechecksKey` the refinement fails (section 3).
* `~SlowHolders`: no request outlives the lease of its lock. A check-in writes back the state it read
  under the lock, and only the lease keeps another check-in of the user away.
* `KeysNameSpots`: a key is made for one operation (`client.ts` draws it at random when the
  application gives none; `RallyClient` counts, and `KeyInv` shows that no key is used for two).
  `FirstSent`: the keys of the batch were not used before; a batch sent again may be answered with
  the rejections of its first time, which were true then. `OneCheckInPerSpot`: the client does not
  check in at a spot it shows a stamp of; of two check-ins at a spot the second is rejected as
  already acquired, and then counts as a refused prerequisite.
* `Alone`: one tab, and an application that calls the queue past the client only with a batch
  adapter, where results are applied by id. For two tabs, or direct calls beside the loop that
  takes the head for its own, the properties fail (section 3, "Device").
* `Tidy(Original)`: the session starts with a document whose ids are distinct, as `validation.ts:737`
  and 785 demand, and whose `orderIndex` counts the spots from 0, as every edit of the hook leaves
  it. From a document with gaps `addSpot` repeats an `orderIndex` (section 3, "Publication, editor
  and viewers"), so the property fails. `TwoSpotsAndAReward`, the run's document, is tidy.
* `LoadedAtMount = {TRUE}` is what the run `viewer_completion` breaks, and the condition on
  `ResettingHosts` is the observation on `resetConfig`: the theorems show that nothing else is needed.

### The arguments

**The ledger.** `TypeOK` alone is not inductive: a stock level stays natural only because a claim
is refused when a bucket is empty (`InStock`), and a check-in writes a well-formed state only
because a request that is `ready` has a snapshot (`SnapshotTaken`). For the refinement the inductive
invariant `LedgerInv` adds

* `TicketsKeyed`: a ticket leaves a stored result under its key, so a claim that finds none inside
  its transaction has a fresh key;
* `StockTracksTickets`: a bucket lacks exactly the tickets drawn from it, and a bucket storage has
  not heard of is untouched, so "in stock" is "below the ledger's limit";
* `OpenRewardsUnticketed`: a reward that is not consumed carries no ticket, in storage and in every
  snapshot a check-in may still write back, so a `view_only` grant never repeats an old ticket;
* finiteness of the records, for the cardinalities.

`GrantIssues` turns a granted claim into a ledger step; every other step leaves the records alone.
Nothing is assumed of the locks: the transaction alone carries the guarantee. `ClaimLedger` states
`LedgerAssumption` as a definition, which `LedgerSafe` assumes and the server's instance satisfies
under `Durable`; `PromisesKept` takes the ledger's promises over through the refinement.

**The states of the server.** `server_redeem` shows that a check-in may write back rewards that a
claim has changed since. So the invariant `StatesSound` is about each state on its own, stored or in
a snapshot: its stamps have their prerequisites, its rewards are unlocked by its stamps, and its
consumed rewards are on record. Records and stamps only grow, therefore a stale state is as sound as
the current one, and no lock is needed. `LogInv` adds the order of the effects of a claim: record,
log and stored result are written in one transaction, and an answer follows. For `StampsAreKept`,
`LockInv` says that a snapshot of a check-in under way still has every stored stamp, which is where
the lock is needed.

**The batch.** `BatchSteps` shows that a step of a batch is a step of the server or gives a request up
as a crash would, so the invariants of the server carry over. `BatchInv` then follows what a batch
accepted into storage (`SuccessStored`) and into the state it returns. For `AcceptedCounts`,
`OrderInv` says that operations run in the order of the batch and that a refusal for a prerequisite
lacks one that was not accepted before it, at the moment it is decided and for as long as the
decision is stored.

**The queue.** `QueueInv` says, of the one tab: at which steps the loop's operation is still the head
of the queue (`AtHead`), that storage and memory hold every operation without an answer
(`Retained`), that results in memory are the server's (`ResultsTrue`), and that what is rejected
belongs to a set of operations that are *doomed*: `Doubtful`, refused by the server, or undecided and
in need of a doomed one. That set only grows, and what is in it is `Doubtful` or never accepted:
outside `Doubtful` the server decides once (`DecisionsInv`), and accepts nothing whose prerequisites
it did not accept, none of which is doubtful or visited elsewhere. `Doubtful` is the least set that is
closed under this, so it grows with `repeated`.

**The client.** `ClientInv` is inductive only because it speaks of every state that may still be
shown: the shown one, those in storage, the one a call is about to save and the one a link is moving.
`StateInv` says of each that its stamps are *accounted* for (granted by the server, in the
queue, or excused because a storage refused to save what removed or moved it) and
*complete* (a missing prerequisite was rejected; a stamp with the server's time came with all of
its own). `WorldInv` says the same of what the server holds and of the answers on their way;
`KeyInv` that one key names one operation, so a late answer is applied to the operation it is about;
`ResultInv` that results being applied are the server's; `AskInv`, `LinkInv` and `SavedInv` say what
the later steps of a call rely on. Replaying is covered by `Extends`: a replay only adds stamps of
the operations it is given, each with its prerequisites; `Sorted` is a permutation, by an injection
of places into places; and the recursive function `Replayed` is defined at every length
(`RecursionExists`, from the principle of the least number, since the library's induction theorems
cannot be instantiated here).

**The guide.** `GuideInv` says that what is collected is among the spots the analysis finds reachable,
during the rally when it has one, that none of it is never open, and how the reward follows from the
stamps. It rests on three facts about what the engine computes:

* *The calendar* (`NextOpeningIs`). Take the first open moment after a closed one. It is the opening
  of a period (`OpensWithPeriod`: a spot that is open without having just opened was open before,
  across midnight and exceptions too), and its date is one that `findNextOpening` tries
  (`FirstOpeningIsTried`): if no exception lies within the week before it, the same hours opened a
  week earlier, after now and before the first one.
* *The simulation* (`ReachableIs`). Each round of the analysis contains the one before, so with as many
  rounds as spots one of them repeats (`ChainRepeats`), and what is left is the least set closed under
  prerequisites: a participant can collect no more than it, and stops no earlier.
* *The alternatives* (`AlternativesFound`, `UnlocksIs`). A set of stamps meets a condition exactly when
  it meets one of its alternatives, by going up the list of conditions; `FirstOf` takes exactly
  as many spots as asked for (`FirstOfIs`); and whoever unlocks the reward has added at least
  `MissingCountFor` stamps, the largest of what each part of an alternative lacks.

**The parts.** `StorageInv`: the cell that serves the next call is never behind the last write that
was resolved. `QueueStorageInv`: a queue in memory is known to be one, and what was accepted is in
the array that the next save writes, and is saved or `hollow`. `ClaimInv`: a pending claim is the one call under way.
`ToldInv` and `AskedInv`: which of the two effects has seen the draft that is shown.

**The editor's entities.** `EntityInv` says of every version that may come back (the draft, its past
and future, the host's property, the base and the answers a late host owes) that its document is
`Fine`. An edit makes a fine document of a fine one: `nextEntityId` finds a free name because there
are more candidates than ids in use; a filter and `moveTo` draw the new list from places of the old
one, each of them once (`AtOrder`, `Moved`); `Reindexed` numbers what it is given.

**Publication.** The run changes one field at a time; the theorem is about documents in which all
fields vary at once, so it is proved per entity and field: `PublishedPart` says what is left of a
field, `StillAccepted` that its rule still holds, and `ConfigAccepted`, `RewardAccepted` and
`ConditionAccepted` that the relations between the fields of an entity do, since a field that goes
is optional for the public parser or was private. For `isPublicConfig` the redemption method has to be
the string itself, which the parsers do not ensure.

### What the proofs changed

* `ShownPrerequisitesClosed` was wrong for larger instances than the runs': "the queue is empty, so
  every prerequisite is shown" fails when saves were refused after two accepted check-ins and a
  repeat of the first is then rejected, which rolls the prerequisite back. The property now says
  which prerequisites may be missing.
* `ApplyResult` takes out the first operation with the key of the result, as `findIndex` does,
  instead of all of them.
* The rank-based `Sorted` and the recursive function `Replayed` replace `SortSeq` and a fold, and
  removals are by place: the facts about the library's versions take an operator as a parameter,
  which the provers cannot instantiate.
* `removeSpot` and `discardRejected` filter by place (`Filtering`), for the same reason.
* The conditions of a reward stand in a list, each behind its parts, and are read by recursive functions
  instead of `RECURSIVE` operators; the alternatives are a set instead of a list. `CalendarAssumption`
  and its like in `RallyGuide` say what the configurations of the run had been by construction.
* A prefix `UNION` before `\union` is bracketed: TLC reads it as the closer operator, the prover as
  the looser one, and a proof would have been about another formula.

**Only model-checked:** liveness and `ENABLED` (outside the prover's reach: `EverythingEnds`,
`SyncEnds`, `CallsEnd`, `DetectionEnds`, `StorageRecovers`). Every invariant and every
action property that a passing run checks is stated by a theorem, under the hypotheses above. The three disagreements are runs that expect a violation.

## 5. Not modelled, and what the plan has left

Not modelled:

* Tokens, snapshots and `googleAuth.ts`: stateless signing and parsing; authentication is the
  environment's answer in `ServerGate`.
* Rendering, texts, layout, translations (`i18n.ts`), error classes and the demo applications' pages.
* Clock changes of a time zone; distances of the nearest strategy; `order.ts`; the wording checks of
  the preflight; `customFilter` of the sanitizer; loading and error flags of the React hook.
* An offline queue with a configured key shared by all scopes; remounting a viewer, which forgets its
  pending claims.

Left to prove, in this order:

1. The safety halves of `StorageRecovers` (no failed connection stays cached) and `DetectionEnds`.
2. That `RallyClient`'s queue is what `OfflineQueue` promises: a refinement of a queue that keeps
   every operation until it has an answer.
