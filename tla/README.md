# Verification of Sovereign Network Mobile

TLA+ models, TLC runs and TLAPS proofs for the stateful core of the Sovereign
Network mobile app (React Native, TypeScript with Kotlin and Swift native
modules and a Rust core): messaging, the identity life cycle, token transfers
over the authenticated transport, and proof of useful work. Paths below are
relative to the repository root.

1. [The system](#the-system) - inventory of components
2. [What is modelled, and where](#what-is-modelled-and-where)
3. [Runs](#runs) - what TLC checks, bounds, fairness
4. [Proofs](#proofs) - what TLAPS proves and how
5. [Where comments and code disagree](#where-comments-and-code-disagree)
6. [Known gaps](#known-gaps)
7. [Abstractions](#abstractions)
8. [Not modelled](#not-modelled)
9. [Plan](#plan)

To check a run: `tlc -config InboundSubscription.cfg MCInboundSubscription`.
To check the proofs of a module: `tlapm InboundSubscriptionProofs.tla`.
`PROJECT.json` holds the list of runs, mutants, findings, hazards and theorems,
and the source lines each definition stands for.

## The system

The app holds one or more identities (DIDs) on a device. The signed-in one
exchanges sealed messages with peers through a node: outgoing messages are
requests over QUIC, incoming ones arrive over a server-push stream that is open
while a messaging screen is mounted, and through a deposit store that is drained
on start-up and on foreground. The history is kept per identity in the keychain.
The same identity signs token transfers, which go through a request queue in the
native module, and takes part in PoUW (proof of useful work): it collects
receipts and submits them in batches.

JavaScript runs one callback at a time, so between two `await`s a function is
atomic; every `await`, timer, native event and React effect is a point where
something else may run. The native modules use thread pools of their own. Most
of what is hard in this code is a value read before an `await` and used after
it, while the user signs out, switches identity or sends the app to the
background in between, or while another caller of the same singleton goes on.

| Component | State | Operations | Correct when |
|---|---|---|---|
| QUIC session manager, `src/services/QuicSessionManager.ts` | bound DID, cached session, open in flight | `bindIdentity`, `getSession`, `dropSession` | nobody gets or keeps a session of another identity; a stuck open is never joined; every call settles |
| Inbound subscription, `src/services/MessagingService.ts:1564-1937` | published stream, open in flight, retry timer, failure count, offline badge, cap time, stopped flag, mounted consumers | register and unregister a screen, start, force-cycle, retry, frame, close, foreground, stop | a wanted stream is revived or shown as offline; one subscriber; no stream of another identity |
| Event dispatcher, `src/services/NativeQuicSession.ts` | subscribers and buffered events per stream | `dispatchOrBuffer`, `subscribeInbound`, unsubscribe | events reach the one subscriber in order, also those that came before it subscribed |
| Native session modules, `NativeQuicSessionModule.kt`, `NativeQuicSession.swift` | session table, reader threads, cancel flags | `openSession`, `closeSession` (cancel, join, free), `openInbound`, `closeInbound`, reader loops | no session left open under a reader that nobody will close |
| Message store, `src/services/MessagingMockData.ts`, `MessagingStorage.ts` | four maps, live DID, save gate, debounced timer, keychain entries | `setSelfDid` with its load, append, replace, remove, delete, status changes, save | an identity's entry holds its own messages; what changed reaches the disk |
| Handshake sessions, `MessagingService.ts:427-743` | send and receive session per peer, their blobs, handshake in flight, cool-down | init, restore, reset, recover, complete, reconnect | one handshake at a time; keys are shipped; both directions fall into step |
| Send pipeline, `MessagingService.ts:928-1210` | rows and their status | send, resend, read receipt | a row's status is the truth; a resend does not duplicate |
| Ingest and undecryptable buffer, `MessagingService.ts:760-924`, `1211-1530` | up to 64 envelopes per peer, placeholders | ingest a batch, buffer, drain, delete | a text leaves a message or a placeholder, shows once, is kept for retry |
| Identity context, `src/context/AuthContext.tsx`, over `SecureIdentityStorage.ts`, `IdentityCleanup.ts`, `LobbySessionStore.ts` | current identity, lobby session, flags; three places of storage | bootstrap, recover, register, sign in, upgrade, migrate, claim, update the profile, re-register on a new chain, sign out, clean up | no half-registered account is entered; the stores agree; the splash screen goes away |
| Authenticated transport, `src/services/quic.ts`, `NativeQuicModule.kt`, `NetworkBootstrap.ts` | request queue, handshake latch, drain threads, active validator, attempts | request with recovery, `cancelAll`, `setActiveValidator`, handshake and drain, bootstrap | the queue is always served; every request settles |
| Token transfer, `src/screens/SendTokensScreen.tsx`, `src/services/TokenService.ts` | nonce, signed transaction | fetch nonce, sign, post | tokens move at most once per press, and the screen says whether they did |
| PoUW controller, `src/lib-client-react-native-js/PoUWController.ts` | running flag, interval, challenge, receipt queue | start, stop, record, flush, tick | a receipt is in one place, fits its challenge, gets through |
| PoUW receipt store, `android/.../pouw/` | receipt table with states and retry counts | flush: read, mark, submit, mark accepted, rejected or for retry; clean up | a receipt is accepted, refused or kept |

How they interact:

- `AuthContext` reacts to a new `currentIdentity.did`: the old effect's cleanup
  stops the inbound subscription, then `setSelfDid` and `bindIdentity` run in
  the same React commit. On AppState `active` it drains the deposit store and
  calls `resumeInboundOnForeground`.
- The inbound subscription calls `getSession` and then the native `openInbound`;
  the native reader thread emits events that the dispatcher hands to the
  subscriber or buffers.
- Frames and drained deposits both end in `ingestEnvelopes`, concurrently. A
  KeyExchange makes it answer with a handshake of its own (`completeHandshake`),
  a text it cannot open makes it buffer the text and re-handshake
  (`recoverMissingSession`).
- Sends and ingests write to the store after their awaits, under whichever
  identity is live by then; every write arms the debounced save.
- Every request waits for the bootstrap to pick a gateway (or for its 22 s to
  pass) and then joins one queue per identity in the native module; the first
  one in starts a thread that handshakes and drains the queue. `quic.ts` no
  longer uses the persistent session for requests (`usePersistent` is forced off
  at `src/services/quic.ts:346-347`), but its recovery (`resetAuthSession`,
  204-208) still drops it, and with it the session the inbound stream rides on.
- Browser screens start the PoUW controller when they mount and stop it when
  they unmount; it is a singleton, so two screens share one queue and one timer.

The behaviours that are hard to test are listed under `hazards` in
`PROJECT.json`, each at its line, with the properties that cover it.

## What is modelled, and where

| Module | Models | Composes |
|---|---|---|
| `SessionRegister` | abstract: a register that holds at most one session, of its owner | - |
| `QuicSessionManager` | the session manager and the native open | implements `SessionRegister` (`ImplementsRegister`) |
| `InboundSubscription` | the subscription, the dispatcher, the native readers and teardown threads, identity change and transport recovery as they reach them | extends `QuicSessionManager`, with the subscription as a caller of `getSession` |
| `MessagingStore` | the store, its persistence, the keychain (external), the awaits of sends and ingests, process death | - |
| `SendSession` | one device's outbound session with one peer: the shared handshake, the seals, the rows and their snapshots | - |
| `Conversation` | two devices running the handshake code against each other through the node (external) | two copies of the messaging code, a handler per step |
| `Ingest` | the receiving side for one peer: concurrent ingests, the buffer, its drains | - |
| `AuthLifecycle` | the identity context over secure storage, lobby session, clean-up and the session binding | - |
| `TokenTransfer` | a transfer through the retry loop, the Android request queue and the gateway bootstrap; the node's nonce check is external | - |
| `PoUWController` | the JavaScript controller and the screens that drive it | - |
| `PoUWReceipts` | the Android receipt table under concurrent flushes | - |
| `MC*` | symmetry sets and input definitions for TLC | |
| `*Proofs` | inductive invariants and theorems | the first part of `InboundSubscriptionProofs` is about `QuicSessionManager` alone; the rest reuses its invariant |

In every module an action is the code between two awaits (or one critical
section, one native or database call), and the definitions ending in a name like
`...Unchecked`, `...Drops` or `...Silently` that stand before an action are the
slips the mutants of `PROJECT.json` put in its place; no specification uses them.

### QuicSessionManager and SessionRegister

`boundDid`, `liveSessionId` and `inFlight` are the three fields of the class. A
session is named by the open that produced it; `openSt` follows an open from the
call through the native handshake to its continuation, `openDid` is the `did` it
captured, and `call` holds what each concurrent caller awaits.

| Action | Code |
|---|---|
| `BindIdentity(did)` | `bindIdentity`: nothing if unchanged, else close the cached session and forget the open in flight (which keeps running) |
| `DropSession` | `dropSession` |
| `GetSession(c)` | `getSession` up to its first await: throws, returns the cached session, joins, or opens |
| `NativeOpens`, `NativeOpenFails` | the handshake in the native module |
| `OpenContinues` | after the handshake: cache, or close and reject if the identity changed |
| `CreatorSettles` | the creator's `finally`, which clears `inFlight` whatever it is by then |
| `JoinerSettles` | a caller that joined resumes |

`SessionRegister` states what this promises to its clients: an owner, at most
one live session, which is the owner's, and answers that speak for the identity
the client asked under. The refinement mapping reads `owner` as `boundDid`,
`live` as the identity of the cached session, and `asked` and `got` from the
calls.

### InboundSubscription

The variables keep the names of the module-level `let`s they stand for.
`inboundOpen` is the program counter of the promise in `inboundOpenInFlight`:
`session` (awaits `getSession`), `stream` (awaits the native `openInbound`),
`opened` (its continuation has not run). `capHit` is `inboundCapHitAtMs` seen
through the two comparisons the code makes with it.

| Action | Code |
|---|---|
| `RegisterInboundConsumer`, `UnregisterInboundConsumer` | a messaging screen mounts, unmounts |
| `ResumeInboundOnForeground` | the AppState handler and the force-cycle |
| `TimerFires`, `QuietPeriodElapses` | the backoff timer; time passing the quiet period |
| `GetSessionFailed`, `OpenInbound`, `OpenInboundFailed`, `SubscribeAndPublish` | the continuations of `startInboundSubscription` |
| `NativeOpensInbound` | native `openInbound`, which starts the reader before the promise resolves |
| `FrameArrives`, `StreamCloses`, `CancelledReaderExits` | the reader loop with `dispatchOrBuffer` and `onFrame`, `onClosed`, `onError` |
| `NativeCancelsReaders`, `NativeFreesSession` | the two halves of native `closeSession` |
| `SwitchIdentity`, `RecoverTransport` | effects of `AuthContext`; `resetAuthSession` |
| `OpenStep` | the session manager's steps |

`ScheduleInboundReopen`, `ResetCap`, `Unsubscribe` and
`StopInboundSubscription` are the helpers of the same names in the code; they
are parts of the actions that call them.

### MessagingStore

`memory` is `messagesByConversation`; the three other maps are cleared,
hydrated, deleted and saved with it, and writes to them alone matter through
their `notify()` (`TouchOther`). `ops` are keychain calls in the order they were
issued, `loaded` the reads whose continuation has not run. `under`, `removed`,
`early` and `failed` are history variables: nothing depends on them but the
properties.

| Action | Code |
|---|---|
| `SetSelfDid` | `setSelfDid` up to its load: gate closed, timer cancelled, maps cleared |
| `LoadContinues` | the `then` of the load: bail out, or hydrate and open the gate |
| `SaveTimerFires` | the debounced save: a snapshot under the DID captured at arming |
| `StartWork`, `AppendMessage`, `ReplaceMessage` | a send or ingest before and after its awaits |
| `RemoveMessage`, `DeleteConversation`, `TouchOther` | the other writers |
| `KeychainReads`, `KeychainWrites` | `loadMessagingState`, `saveMessagingState`, with failures |
| `Crash` | process death: memory and unperformed calls are lost, the keychain stays |

### SendSession

A task is one call of an asynchronous function: a text, a read receipt or a
re-handshake. `task[t].pc` says which await it is at. `native` are the sessions
the Rust core holds, with the handshake they stem from and the next counter;
`disk` is what the debounced save last wrote.

| Action | Code |
|---|---|
| `Send`, `Resend` | `sendTextMessageNative` and `shipReadReceipt`; `resendMessage` |
| `Rehandshake`, `CompleteHandshake` | `recoverMissingSession`, `reconnectSession`; `completeHandshake` |
| `Restored`, `RestoreFails` | `tryRestoreSession` answers |
| `Initiated`, `InitiateFails` | the key fetch and the native initiate of `initSendSession`, which caches the session |
| `KeyExchangeShipped`, `KeyExchangeFails`, `InitSaved` | its POST and `persistSession` |
| `Seal`, `SealFails`, `PostOk`, `PostFails`, `Record` | seal, POST and row of a message |
| `DeleteConversation`, `Flush`, `Crash` | deletion; the store's save; process death |

`Resolve` and `Reject` run for the creator of a handshake and everyone who
joined it, and clear `sendSessionInitInFlight`.

### Conversation

Per device: the generation of its cached send session, of its blob, of the
handshake it is shipping, and of its receive session; the recovery window, the
buffer and the envelopes on their way to it.

| Action | Code |
|---|---|
| `SendText`, `Reconnect` | a send; the user's "reconnect" |
| `ShipKeyExchange` | the POST of a handshake, which may fail |
| `Ingest` (`IngestKeyExchange`, `IngestOpens`, `IngestFails`) | `ingestEnvelopesNative` for each envelope, with `completeHandshake`, the buffer's drain, the read receipt, or buffering and `recoverMissingSession` |
| `CooldownLapses`, `Restart` | `RECOVERY_COOLDOWN_MS` passes; process death |

### Ingest

| Action | Code |
|---|---|
| `IngestEnvelopes` | a push frame or a deposit batch enters `ingestEnvelopesNative` |
| `KeyExchangeAccepted`, `KeyExchangeRejected` | native accept; on success a drain starts without being awaited |
| `TextWithoutSession`, `TextFindsSession`, `TextDropped` | the session lookup before the open |
| `TextOpens`, `TextFails` | the open: a row (none for a receipt), or placeholder, buffer (capped) and recovery |
| `DrainOpens`, `DrainFails`, `DrainSaved` | `drainPendingDecrypt`: an open that succeeds and swaps the placeholder for a row (or removes it: a receipt), one that fails, and the snapshot saved after a success; whichever ends the loop writes the leftovers back |
| `DeleteConversation` | clears rows and buffer |

A drain iterates over an array that may still be the live buffer (`shared`), and
awaits either an open (`trying`) or the save of the snapshot. A push into a full
buffer cuts the array at the front (`Cut`), so a drain over the same array skips
the text it would visit next (`NextVisit`). `Prepared` is the stable sort that
puts handshakes before texts. A read receipt travels as a text (`Receipts`); what
it confirms is the business of the sending side.

### AuthLifecycle

An operation is the sequence of its awaited steps (`RegisterAccount`,
`SignOut`, `Rollback`, ...); a task holds those still to do, and the tasks of four
actors interleave: the bootstrap, the screens that `isLoading` disables, the
seed phrase screen, and what starts by itself once an identity is current (the
claim dialog, the clean-up of the wallet list, the re-registration on a new
chain). `signIn` of the context has no caller and is the only operation left
out. `readable` says whether the Android Keystore can still decrypt the
keychain's entry, which is why `getIdentity` has two fallbacks: an empty
keychain loads the backup (`LoadBackup`), an undecryptable one loads it and
stores it again in all three places (`RestoreBackup`). A migration runs
`cleanAllIdentities` before it stores the identity, unless the node had already
migrated it (`MigrateFromSeed`, `Migrated`).

| Action | Code |
|---|---|
| `ScreenBegins`, `RegisterBegins`, `SeedConfirmed`, `AutoBegins` | which operation starts, under its guards |
| `ReadFlag`, `LoadLobby`, `ReadBackup`, `RestoreHandle` | the bootstrap, up to the handle store it awaits before the splash screen goes |
| `WriteStore`, `ClearStore`, `StoreThrows` | one call of the storage of the identity, or its failure with the handler it lands in |
| `SetCurrent`, `ClearCurrent` | `setCurrentIdentity` with the effects on the session binding |
| `Answered`, `Refused` | a request to the node or the native core, or its failure: registration rolls back |
| `LobbyChanges`, `Bind`, `RemoveWallet`, `ShowSeed`, `Fetch`, `ReadKeychain`, `Fallback` | the other steps |
| `CleanNative`, `CleanThrows`, `SetFlag` | `cleanAllIdentities` and the migration flag |
| `KeystoreReset`, `Relaunch` | a Keystore reset (external); the app dies and starts again |

### TokenTransfer

| Action | Code |
|---|---|
| `Press`, `NoIdentity`, `Sign`, `SignFails` | the screen and `TokenService`: nonce, sign, post |
| `Enqueue` | `rawRequest` after the bootstrap: into the queue; the first one takes the latch and starts a thread |
| `CancelAll` | `resetAuthSession` before another attempt: rejects what is queued, frees the latch |
| `Dial`, `Verified`, `FailQueue`, `HandshakeDesynced` | the handshake of a thread and its check of the validator's DID; a failure rejects the queue, and if it reads like a desync each request resets and tries again |
| `Take`, `Answered`, `Desynced`, `RequestFails`, `DrainEnds` | the drain: next request, its answer or failure, and the release of the latch under the lock |
| `BootSet`, `BootAnswers`, `BootNext`, `BootTimer` | the gateway loop and its 22 s |

### PoUWController

| Action | Code |
|---|---|
| `Mount`, `IdentityRead`, `IdentityFails`, `StartCapAnswers`, ... | `usePoUW` and `start`, await by await |
| `Stop` | `stop` of an unmounting screen, which submits what is queued before it says it stopped |
| `LoadEnds`, `Resolved`, `Record`, `CapAnswers`, `CapFails`, `PlainFails`, `Signed`, `SignFails`, `Flush` | a page load: two receipts, each with its challenge and signature, and a flush |
| `Tick`, `FlushPressed`, `PostOk`, `PostFails` | the interval, the button, the batch request with its re-queueing |
| `ChallengeExpires` | time |

### PoUWReceipts

`CreateReceipt` (one insert), `StartFlush` (reads a batch), `MarkQueued`,
`SubmitAnswers`, `SubmitFails`, `MarkAccepted`, `MarkRejected`,
`MarkRetryReads`, `MarkRetryGivesUp`, `MarkRetryUpdates`, `MarkRetryWrites` (one
database call each), `DatabaseFails` (any of them fails: swallowed by
`ReceiptStore`, except the write of `MarkQueued`, which ends the flush),
`Cleanup` and `Crash`. A flush works on the copies it read.

## Runs

### Runs that pass

| Run (cfg) | Properties | Shows |
|---|---|---|
| `session` (`QuicSessionManager.cfg`) | `CachedSessionIsBound`, `CallerGetsItsIdentity`, `InFlightHasCreator`, `CallsSettle`, `ImplementsRegister` | rebinds and drops at every await never hand out or cache another identity's session; calls always settle; the manager implements the abstract register |
| `inbound` (`InboundSubscription.cfg`) | `TypeOK`, `NeverSilentlyIdle`, `OfflineIsTruthful`, `ReaderRidesOnBoundSession`, `OnlyPublishedIsSubscribed`, `SubscriptionConverges` | no order of mounts, failures, closes, timers, foregrounds, sign-outs and recoveries forgets to revive the stream, shows a false offline badge, leaves a second subscriber, or leaves a session open under a reader that nobody will close; a wanted subscription ends with a stream or shows as offline |
| `store` (`MessagingStore.cfg`) | `TypeOK`, `PersistedIsOwn`, `ChangesAreOnTheirWay`, `ScheduledSaveLands` | late loads, pending saves, failing keychain calls and crashes never put a message stored under one identity into another one's entry; once hydrated, memory and disk are apart only while a save is under way; a scheduled save lands |
| `send_session` (`SendSession.cfg`) | `OneHandshake`, `KeysAreShipped`, `RowsAreTruthful`, `TasksSettle` | a text, a receipt and a re-handshake around one outbound session, with deletion, failures and process death: one handshake at a time, no session whose keys nobody tried to ship, a status that is true, everything settles |
| `conversation` (`Conversation.cfg`) | `Converges` | two devices over a node that reorders: after finitely many faults both directions fall into step for good, so the mutual re-handshakes end |
| `ingest` (`Ingest.cfg`) | `TypeOK`, `NothingVanishes`, `ShownOnce`, `KeptForRetry` | duplicates of texts and receipts through stream and drain, concurrent buffer drains, arrivals during a drain, a full buffer and deletions: every text leaves a message or a placeholder, shows once, and is kept for retry within the cap |
| `auth` (`AuthLifecycle.cfg`) | `NoHalfAccount`, `StorageAgrees`, `SessionFollowsIdentity`, `BootFinishes` | with failing storage and requests, Keystore resets and a relaunch at any step no half-registered account is entered, the three places of storage and the session binding agree at rest, and the splash screen goes away |
| `token_transfer` (`TokenTransfer.cfg`) | `TypeOK`, `MovedOnce`, `ReportIsTruthful`, `QueueIsServed`, `TransfersSettle` | retries, session resets and validator switches around one request queue: tokens move at most once per press, success means they moved, the queue never lacks a server, transfers settle |
| `pouw_controller` (`PoUWController.cfg`) | `InOnePlace`, `PolicyAllowsReceipt`, `RunningMeansTimed`, `ReceiptsGetThrough` | two screens and a page load on the one controller: a receipt is in one place, fits its challenge, and gets through while the controller runs |
| `receipts` (`PoUWReceipts.cfg`) | `NeverLost`, `NotGivenUpEarly`, `SubmittedOnce` | overlapping flushes, retry marks, cleanup, failing database calls and process death: no row is lost before it was accepted, nor its data before a submission failed; nothing is given up early, or submitted again once its acceptance was recorded, races aside |

A property that excuses some histories names them in a history variable
(`early` and `failed`, `unsure`, `dropped`, `evicted`, `overlapped`, `raced`,
`unmarked`, `torn`, `cut`, `lost`); what happens in them is under [known gaps](#known-gaps). The
type invariants of the modules whose runs do not list one are there for the
reader and for the proofs; they hold with the constants of the run.

Every property has a mutant in `PROJECT.json`: a plausible slip in the code (the
race guard dropped, a retry not scheduled, a rollback that keeps the stored
identity, the latch not released, a nonce fetched again for a retry, ...) under
which TLC finds the property violated.

### Runs that end in a violation

`store_failed_load` (`StoreFailedLoad.cfg`, `SaveKeepsHistory`) and
`receipts_retry` (`ReceiptRetry.cfg`, `RetryKeepsData`). Each states what a
comment of the code says and shows how the code does otherwise; see
[below](#where-comments-and-code-disagree).

### Bounds

| Run | Bounds | Why they are enough |
|---|---|---|
| `session` | 2 `Dids`, 3 `Opens`, 2 `Callers` | an open overtaken by a newer one and by one more; a creator and a joiner, or two creators across a rebind. Names of settled opens are reused, so runs are not cut short |
| `inbound` | 1 DID with sign-out, 2 `Opens`, 2 `Streams`, `MaxFailures` 2 (code: 3), 1 consumer, `MaxBuffered` 1 | comparisons are between the bound identity and a captured one, and `session` and the proofs have two; a stream that is replaced while its reader runs; reset, retry and cap all happen; a frame and the close behind it are buffered. The proofs hold for every value |
| `store` | 2 `Dids`, 1 peer, 2 messages, `MaxOps` 2 | a message and its replacement; a save and a load in flight; conversations do not interact |
| `send_session` | 1 message, 1 receipt, 1 re-handshake, 2 handles, 2 seals per session | a creator and two joiners, a reset or deletion between them, a resend, a handshake after a handshake |
| `conversation` | 2 devices, 1 writer (the other answers with receipts), 1 fault, buffer of 1, 5 names for generations, reused | a fault leaves one direction out of step, which sets off the mutual recovery; the buffer overflows |
| `ingest` | 2 handshakes, a text of each and a receipt, 2 ingests, 2 drains, buffer of 2, 2 copies of each envelope, 5 handed out, 3 native sessions | three layouts of positions (all distinct; two texts, or a text and a receipt, that share one); a second copy of a handshake and of a text; a text that arrives in the array a drain iterates over, with room for it and without |
| `auth` | 2 `Dids` and a malformed stored one, 3 operations, 1 relaunch, 2 faults | a registration that fails in the rollback as well, then a relaunch and another sign-in; Keystore resets are not bounded |
| `token_transfer` | 2 transfers, 2 threads, 2 gateways, `MaxAttempts` 2 (code: 3, which passes too), 3 faults | one transfer's reset meets the other's request; the bootstrap switches validators under both |
| `pouw_controller` | 2 screens, 1 load of two receipts, `maxBatchSize` 2, two policies | overlapping start and stop; a full batch, a partial one and a re-queued one |
| `receipts` | 2 receipts, 2 flushes at once, 4 started, batch of 2, `MAX_RETRY_COUNT` 1, 2 faults | the second receipt of a batch, a flush that overtakes another, one give-up |

`conversation` reuses the names of forgotten generations, and `session` and
`inbound` those of settled opens and closed streams, so their behaviours are
infinite; in the others a bounded supply (messages, loads, flushes) runs out.

### Fairness

- `QuicSessionManager`: promise continuations always run; a native open
  resolves or rejects, because the handshake has a timeout.
- `InboundSubscription`: the same for the continuations of the start; timers
  fire; a cancelled reader sees its flag at its next poll (1 s); the teardown
  threads make progress; and a read on a session that was freed ends. Nothing
  is assumed of the user, of the peer or of transport recovery. Because a
  foreground resets the retry count, `SubscriptionConverges` speaks of runs in
  which the user does not foreground the app for ever.
- `MessagingStore`: timers fire, keychain calls complete, continuations run.
  Every write re-arms the 300 ms debounce, so weak fairness of the timer says
  that bursts of writes end.
- `SendSession`: native calls and requests answer or fail: `quic.ts` hands
  every request a time-out. The one way in which a request can hang for ever is
  in `TokenTransfer`.
- `Conversation`: requests answer, the node delivers what it accepted in some
  order, the writer keeps writing (without traffic nothing notices that a
  direction is out of step), and a recovery window ends: strongly fair, because
  "what was under way has arrived by then" may become true and false again
  before 60 s are over.
- `AuthLifecycle`: the storage and native calls of the bootstrap return.
- `TokenTransfer`: timers fire, promises settle, threads run, native calls time
  out. Nothing is assumed of the user.
- `PoUWController`: the interval fires, a request returns, and among endlessly
  many requests one succeeds (strong fairness of success): the controller has no
  limit of attempts, so it relies on exactly this.
- `Ingest` and `PoUWReceipts` state safety only.

`CHECK_DEADLOCK` is off in `ingest`, `auth`, `token_transfer` and
`pouw_controller`, which may end with their envelopes, operations, transfers or
loads used up; there the liveness properties say that nothing is stuck halfway.
Everywhere else no state is without a successor.

## Proofs

TLAPS proves these for every set of identities, callers, sessions, streams,
peers, messages, envelopes, receipts, transfers and threads, every retry budget
and every bound. The assumptions are that the null values are not members of the
sets they extend (`NullsAssumption`, `NoBlobAssumption`, `SendAssumption`,
`ControllerAssumption`, `AuthAssumption`, which also sets the malformed stored
identity apart from the others), that the subscription is one of the callers
(`InboundAssumption`), that sends, receipts and re-handshakes are different calls
(`SendAssumption`), that handshakes are not texts and each text was sealed in one
(`IngestAssumption`), that batches and the buffer hold at least one entry
(`ControllerAssumption`, `ReceiptsAssumption`, `IngestAssumption`), that finitely
many flushes run at once (`ReceiptsAssumption`), and that the bounds are natural
numbers (those, `StoreAssumption`, `TransferAssumption` and `AuthAssumption`).

**InboundSubscriptionProofs: the manager.** `SessionInv` strengthens the three safety
properties with what they lean on: the cached session's open has resolved
(`LiveIsResolved`), an open that new callers may join was started for the bound
identity (`InFlightIsBound`), a call's identity is
the identity of the open it awaits or returned (`CallsFollowIdentity`), and an
opened session is in the table (`OpenedIsInTable`). Without `InFlightIsBound` a
joiner could be given an open of the previous identity; without
`CallsFollowIdentity` reusing a name of an open would break an old result.
Theorems: `SessionTypeCorrect`, `CachedSessionSafe`, `CallerIsolation`,
`InFlightCleared`. `SessionRefinesRegister` shows that the manager implements
`SessionRegister`: under `SessionInv` every step maps to a step of the register
or to a stutter (a native open succeeding, a creator clearing `inFlight`, an
open discarded), with `OpenContinues` as the step that establishes a session and
the settling of a caller as its answer.

**InboundSubscriptionProofs: the composition.** Three layers.

1. `StepIsSessionStep`: each step of the composition is a step of the session
   manager or leaves it alone, so `SessionInv` holds in the composition
   (`SessionInvariantComposed`) without being proved again, and the composition
   implements `SessionRegister` as well (`SubscriptionRefinesRegister`).
2. `ControlInv`, over the control variables of the subscription:
   `NeverSilentlyIdle`, `OfflineIsTruthful` and `OnlyPublishedIsSubscribed` with
   three strengthenings: while an open is in flight no stream is published
   (`OpenExcludesPublished`), an open past the native call holds a stream
   (`OpenedHoldsStream`), and the badge shows exactly when the cap time is set
   (`CapMatchesOffline`). The lemmas `ResetOutcome`, `ScheduleOutcome` and
   `StartOutcome` state what the three helpers do to these variables, so that the
   step lemma treats each action once. Theorems: `NeverIdle`,
   `OfflineTruthful`, `OneSubscriber`.
3. `SoleCallerInv` and `ReaderInv`, for `ReaderRidesOnBoundSession`. Since the
   subscription is the only caller, an open still going on is its own
   (`OpenIsAwaited`), and every session nobody asked to close is either being
   opened or the cached one (`SessionsAreAccounted`). A running reader rides on a resolved open
   (`RunningIsResolved`), and if nobody asked that session to close it is the
   cached one (`RunningOnCached`). Theorems: `TypeCorrect`,
   `ReadersFollowIdentity`.

**MessagingStoreProofs.** `PersistedIsOwn` is about the keychain; its inductive
form `StoreInv` has to follow a message on every way to it: what is in memory
was stored under the live identity (`MemoryIsLive`), an armed timer belongs to
the live identity (`TimerIsLive`: this is what `clearTimeout` in `setSelfDid` is
for), queued saves and finished reads carry their own identity's messages
(`OpsAreOwn`, `ReadsAreOwn`), saves have a blob (`SavesHaveBlob`), and so have
the entries (`KeychainIsOwn`). Lemmas about the map operators (`SetContents`,
`HydratedContents`, `DeletedIsBlob`, ...) keep the step lemma first-order.
Theorems: `StoreTypeCorrect`, `IdentitiesAreSeparated`.

`ChangesAreOnTheirWay` speaks of states in which no load is outstanding; its
inductive form `WayInv` says what to expect before. While the gate is closed,
memory is empty, no timer is armed, and the last load of the live identity is
queued behind every save of it or has come back with what is on disk
(`ClosedInv`). Once it is open, what is in memory is what the timer, the last
queued save or the disk holds (`Covered`), or a load is still to come back with a
blob (`BlobToCome`): a stale load may open the gate with an older state, and it
is the hydration of the newer one, with the gate open, that arms the timer
(`OpenInv`). A blob once read stays on disk in some form (`ReadsAreKnown`).
Theorem: `ChangesReachTheDisk`.

**SendSessionProofs.** The handles that are held exist (`HandleInv`).
`OneHandshake` follows from `FlightInv`: whoever is inside `initSendSession` is
the task that the in-flight map names. For the keys, `KeyInv` follows a session
through all the places it can move between (native side, blob, saved blob, the
blob a task is restoring): everywhere its handshake's `KeyExchange` was shipped,
lost, or is being shipped (`Tried`), and `TriedStays` shows that nothing takes it
out of that set. For the rows, `PhaseInv` and `RowInv` say for every await of a
send whether the node can have the message, what the row shows meanwhile, and
what a process death would leave on disk. Theorems: `TypesHold`,
`HandshakesDoNotFork`, `SessionKeysAreShipped`, `RowsTellTheTruth`.

**IngestProofs.** The type invariant includes the cap of the buffer, which a
drain replaces by its leftovers: `BoundInv` bounds what a drain has still to
visit and what failed by the buffer it shares, or by the cap. `NothingVanishes`
is then inductive: a drain that removes a placeholder puts a message of its
position in, or was opening a receipt. `ShownOnce` needs three facts: two rows of a text were opened
by two sessions of its handshake (`RowInv`); an envelope in hand, or turned into
a session, was handed out, and two of one kind twice (`CopyInv`); a text without
a namesake that came once is waiting, or behind its placeholder, or shown, and
only one of these (`OnceInv`). `KeptForRetry` holds while drains do not overlap:
then at most one runs, over the array that the map holds (`LoneInv`), so a push
reaches both and the end of the drain loses only what was evicted, shown or, if
it was a receipt, applied (`RetryInv`). Theorems: `TypesHold`, `TextsLeaveATrace`, `TextsShowOnce`,
`TextsAreKeptForRetry`.

**PoUWReceiptsProofs.** A flush applies an answer in later database calls, so
`AnswerInv` speaks of the answers not applied yet: the first of the batch were
accepted, the next ones refused. `LostInv` adds that an accepted row stands for
a receipt the node acknowledged, and `DataInv` that the data of a receipt whose
submissions did not fail is in its row and in every copy of it. `SubmittedOnce` rests on `OneHolder` (a receipt
that was not raced for is held by one flush) and `AckedOnce` (the only flush that
may hold an accepted receipt is the one whose answer accepted it, and its row is
pending only until that flush marks it, unless the mark failed or never came:
`unmarked`). `NotGivenUpEarly` needs a budget: the
failed submissions of a receipt less the counts that flushes have still to make
(`Budget`). Every retry count respects it (`CountInv`): the one in the table, the
ones in the copies that are written back over it, and the one `markRetry` read
before it counts. Theorems: `TypesHold`, `ReceiptsAreNeverLost`,
`AcceptedAreSubmittedOnce`, `ReceiptsAreNotGivenUpEarly`.

**PoUWControllerProofs.** `RunningMeansTimed` is inductive with the types.
`PolicyAllowsReceipt` needs `SignInv`: the receipt being signed claims a type its
challenge allows. `InOnePlace` counts; its inductive form says it pairwise (queue,
requests and answers share no receipt, `PlaceInv`) and keeps a receipt no load
has finished out of all three (`FreshInv`). Theorems: `TypesHold`,
`RunningControllersAreTimed`, `ReceiptsFollowTheirPolicy`,
`ReceiptsAreInOnePlace`.

**TokenTransferProofs.** `QueueIsServed` is inductive with the type invariant
alone (`QueueServed`). For the ledger a call has to be followed through the
transport: it is in the queue at most once and then waits there (`QueueInv`), or
with one thread that sends it (`SendInv`), so that what empties the queue never
touches a transfer already answered; and a transfer that moved holds a nonce the
node has passed (`LedgerInv`), so no later attempt can move it again. Theorems:
`TransferTypes`, `TokensMoveOnce`, `ReportsAreTruthful`.

**AuthLifecycleProofs.** A task is the sequence of steps it has still to take,
which is no form to reason in. The first part turns it into control flow: what
is left of a task is always the end of one of the scripts of its operation
(`ScriptInv`), the step it begins with is the task's place (`Place`), and
`Follows` lists the places that may come next in each operation. A lemma per
action says where it moves its task (`WalkMoves`, `StoreThrowsMoves`,
`BeginStarts`, ...), and the rest of the proofs speaks of places only.

1. `ControlInv` holds in every state: types, scripts, and `BootInv` (until the
   splash screen goes away only the bootstrap runs and nobody is signed in, but
   for a re-registration once an identity is restored).
2. `StoreInv` holds until something is torn. At most one task is in the middle
   of changing the stored identity (`Mid`); its place says how far keychain,
   backup and DID cache have got (`Shape`); when no task is, they agree
   (`Agree`), or, once an app death has cut a save or a wipe, the current identity
   still is the backup's. The invariant speaks of what the keychain holds,
   readable or not: a Keystore reset changes nothing in it. Two facts reach further than the stores: a registration or a
   migration goes on only while nobody is signed in (`SignsUp`), and what an
   on-demand load has read stays what is stored until it is done (`Loads`).
   Without them the step that ends such a task would overwrite or outdate what
   another one set. `BusyChanges` is the reason why they last: a task in one of
   these situations, or that saves a changed profile, still has an identity step ahead, so an identity step of
   another task is what `torn` records.
3. `AccountInv`, for `NoHalfAccount`: the identity that a registration creates is
   known to no other task and not to the seed phrase screen (`RegInv`); an
   identity without a credential belongs to the registration that created it, and
   once that has ended it is stored nowhere (`HalfInv`). A password sign-in may
   still hold the name of such an account, but only until it finds that the DID
   cache does not have it (`Keeps`). That a rollback removes the wallet only after
   the three places are empty is in `Shape`: the order of the code's rollback is
   what makes it complete.

Theorems: `TypesHold`, `StoragePlacesAgree`, `SessionIsBoundToIdentity`,
`NoHalfAccountIsEntered`. The attempt at the last one showed that the model let
a registration generate the identity that was waiting for its seed phrase to be
confirmed; `Fresh` now means unknown to every place that can hold an identity.

Only model-checked: `CallsSettle`, `SubscriptionConverges`,
`ScheduledSaveLands`, `TasksSettle`, `Converges`, `BootFinishes`,
`TransfersSettle` and `ReceiptsGetThrough`, because liveness under fairness is out
of this prover's reach. Every invariant that a passing run checks, and the
refinement, is a theorem. Where a property excuses some histories, so does its
theorem; in them the proofs give what holds without the excuse (the type
invariants, `ControlInv`, ...).

## Where comments and code disagree

- **A failed read erases the history** (`store_failed_load`).
  `loadMessagingState` answers `null` for a failed read as for an absent entry,
  the gate opens over an empty store, and the next save overwrites the entry.
  `MessagingMockData.ts:105` says the gate is there to prevent this.
- **A retry mark erases the receipt** (`receipts_retry`). `markRetry` looks its
  receipt up in `getPending(1)` and so finds only the oldest pending one; for
  every other receipt of a failed batch it inserts an entity that holds the
  nonce alone, which replaces the row, signed data included. The comments at
  `ReceiptStore.kt:193` and `209` say that it updates count and error.

## Known gaps

Behaviour the models have and no property forbids; each names the code.

Inbound subscription:

- A close that arrives between `openInbound` and `subscribeInbound` is buffered
  and replayed before `inboundStreamId` is set; `onClosed`
  (`MessagingService.ts:1882`) ignores it and line 1902 publishes a dead stream.
- `resetAuthSession` (`quic.ts:208`) closes the session; a cancelled reader
  leaves without an event, so the dead stream stays published until the next
  foreground.
- `stopInboundSubscription` (1915) does not touch the open in flight, which
  publishes its stream afterwards.
- `closeSession` joins the readers it finds when its thread starts; an
  `openInbound` that found the session before it left the table can register a
  reader after that (`NativeQuicSessionModule.kt:130`).
- After a sign-out and a sign-in with a messaging screen still mounted nothing
  starts the subscription for the new identity until the next foreground or
  mount: `NeverSilentlyIdle` speaks of subscriptions nobody stopped.
- A force-cycle forgets a stream without closing its reader; frames that reader
  still receives are buffered for a stream nobody will subscribe to.
- With more than one caller, the `finally` of an old open clears a newer
  `inFlight`, so a third caller opens a second session and the cached one is
  overwritten. The subscription is the only caller today, which is why
  `ReaderRidesOnBoundSession` can be proved (`SoleCallerInv`).

Store:

- A send or an ingest that outlives a switch of identity is appended to, and
  saved under, the next one (`MessagingService.ts:987`).
- A message ingested between `setSelfDid` and the end of the load is replaced by
  the persisted conversation (`MessagingMockData.ts:87`).
- A sign-out within the 300 ms debounce cancels the save of the last change
  (108-111). If that change was a deletion, the messages are back at the next
  sign-in.
- Signing out and in as the same identity with the first load outstanding: the
  bail-out compares DIDs only, so the stale load opens the gate.
- A write before the end of hydration is not scheduled for saving until the next
  write (`early`).

Handshakes, sends and ingests (`MessagingService.ts`):

- A text can be posted before the KeyExchange of its session (611); the peer
  then buffers it and re-handshakes. A session whose KeyExchange failed stays
  cached until then (`lost` in `KeysAreShipped`).
- A reconnect during a handshake can lead to two seals with the same counter. A
  reset that joins a restoring handshake gets the old session back.
- The row of a sent message takes the counter after the POST (970, 1097), when
  another send may have advanced it; `confirmSentMessage` matches on sequence and
  epoch only.
- A message whose reply was lost is marked failed; resending it sends it twice.
  A crash during a resend leaves the row `pending`.
- The session maps are keyed by peer and survive a switch of identity (427).
- Two drains, or a drain and a deletion, overwrite each other's buffer (846):
  `overlapped` in `KeptForRetry`.
- Texts of two handshakes at the same (epoch, sequence) share a placeholder id
  (777): the second is not buffered and may never show, or shows twice. If one of
  them is a receipt, draining it removes the placeholder and leaves no row (894),
  and the other text is gone without a trace (`NothingVanishes` excludes the
  positions of receipts).
- A comment at `AuthContext.tsx:1129` says `ingestEnvelopes` de-duplicates by
  (timestamp, sequence). What de-duplicates is the ratchet; after a repeated
  KeyExchange a repeated text opens again (`ShownOnce`).

Identity:

- A background hydration, a username claim or a re-registration that ends after
  a sign-out stores and sets the identity again (`AuthContext.tsx:393`). If the two
  overlap the run is `torn`; if the sign-out has completed first it is not: the
  identity is back in all three places, current and bound, which is consistent,
  and no property notices that the user had signed out.
- A sign-out or a save that an app death interrupts leaves the three places
  apart until the next whole save or wipe (`cut`); the next launch takes the
  backup for the truth.
- After a Keystore reset the keychain stays unreadable until an on-demand load
  recognises the error and stores the identity again, or another save comes. The
  bootstrap reads the backup only and does not repair it. An error with another
  text makes the on-demand load find nothing (`SecureIdentityStorage.ts:195`).
- `opaqueRegisterBegin` is called outside the `try` (`AuthContext.tsx:1277`); if
  it throws, `isLoading` stays set.
- An app death in the middle of a registration, after the identity was stored, is
  not rolled back: the next launch restores an account without a credential.
  `NoHalfAccount` speaks of registrations that failed and does not count it.
- The wallet of a rolled-back registration stays on the device if its removal
  throws (`AuthContext.tsx:1358`).

Transport:

- A transfer that ran and whose answer was cut off is sent again and refused:
  the user sees an error though the tokens moved (`lost`), and a second press
  sends them again.
- `cancelAll` rejects the queued requests of every caller.
- `setActiveValidator` clears the queue without rejecting its promises
  (`NativeQuicModule.kt:395`); a request that left because the bootstrap timed
  out can hang for ever (`hung` in `TransfersSettle`).
- After a validator switch a running drain serves new requests over the old
  session, though a comment says the next request handshakes anew.
- Two presses in a row may fetch the same nonce; one of them is refused.

PoUW:

- Overlapping starts of the controller leak an interval; a start during a stop
  leaves it stopped, a stop during a start leaves it running. `stop` submits one
  batch only; `flush` never throws, so its button always reports success; the
  controller keeps the DID of its first start after a switch of identity.
- Two Android flushes may submit the same receipts (`raced`). A failed
  `markAccepted` is swallowed (`ReceiptStore.kt:164`), so accepted receipts stay
  `QUEUED` and are submitted again (`unmarked`), as they are after a process death
  before the mark. A blanked row ([above](#where-comments-and-code-disagree)) stays
  in the table and is submitted without its data. A response is
  counts only, which are attributed to receipts by their position in the batch.

## Abstractions

- In `InboundSubscription` the starter's `finally` belongs to the action that
  ends the open, since no timer, effect or native event runs within one drain of
  the microtask queue.
- The native session modules are the union of what the Android and the iOS
  version can do. The wait of `closeSession` for its readers gives up after
  2.5 s; readers poll every second, so the model waits. A session that the
  manager discards right after its open was never handed out and has no readers;
  its teardown is not modelled.
- Time is what the code asks of it: a timer is armed or not, the quiet period
  after the cap has elapsed or not, a recovery window is open or not, a
  challenge is fresh or not. Backoff lengths are left out.
- `QuicInboundClosed` and `QuicInboundError` have handlers that do the same and
  are one event. What a frame holds is left out there and is in `Ingest`.
- Names of sessions, streams and generations stand for UUIDs and key material; a
  name is reused only when nothing refers to it.
- A DID in `MessagingStore` stands for its last 16 hex digits, which name the
  keychain entry. Messages are sets per conversation; their order is not kept.
- Keychain calls complete in the order they were issued. This is an assumption
  on the external keychain library, on which `ScheduledSaveLands` and
  `ChangesAreOnTheirWay` rest. The argument for `PersistedIsOwn` does not use
  it. `clearMessagingState` has no caller.
- The ratchet (external) opens a text exactly if it was sealed for the session's
  handshake and, in `Ingest`, that session has not opened it before. In
  `SendSession` bridge calls run in the order they are made, so a snapshot and
  its store are one step, and the row status `sent` stands for sent, queued and
  delivered.
- `Conversation` takes a handler as one step; `SendSession` and `Ingest` have
  its interleavings.
- The node in `TokenTransfer` (external) runs a transfer whose nonce is the
  current one and refuses any other. There is one identity, so one queue and one
  latch. The public ALPN is left out.
- In `AuthLifecycle` an identity is its DID; requests answer or throw. The
  re-registration saves the identity and then calls `setIdentity`, which saves the
  same one again: the two saves are one. A failed save of a passphrase change is a
  change that did not begin.
- In `PoUWReceipts` a row is its state, retry count, age and whether its data is
  still there.

## Not modelled

`PROJECT.json` lists every component. Most of the repository's lines are
screens, navigation, translations, themes, bundled web assets, generated
bindings, REST wrappers and build files, which keep no state that a protocol
could get wrong; the models are about the few thousand lines that do, which is
why they cover a small share of the whole. Left out for good: REST wrappers,
keychain wrappers, device probes and screens; the Rust core, whose content is
cryptographic and which shows here only through the results of the bridges; and
the node's crates under `vendor/`, which are built elsewhere. The rate limiter
is a sequential counter with a window (its doc speaks of a 30-minute lockout,
its code of a 15-minute window in which blocked attempts count as well);
rewards and notifications are best-effort calls whose authority is the node.

Within the modelled components: KeyRatchet refreshes and ReadReceipt envelopes
in ingest (`MessagingService.ts:1238-1341`); `signIn`, which nothing calls, and
key publication in the identity context; the iOS request queue and the persistent
request path, which is forced off.

## Plan

Done: the session manager and its refinement, the inbound subscription, the
store, handshakes from one side and from both, ingest with its buffer, the
identity life cycle, transfers over the request queue, both halves of PoUW, and a
theorem for every invariant that the runs check.
In order, next:

1. KeyRatchet and ReadReceipt envelopes in `Ingest`, with the status of the row
   they confirm.
2. The iOS request queue as a second instance of `TokenTransfer`'s threads.
3. `AuthLifecycle` composed with `MessagingStore` through the identity.
