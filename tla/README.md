# world-celld: a TLA+ development

world-celld stores durable workflow runs in *cells*: single-threaded objects
with transactional storage, one durable alarm and RPC between them (Durable
Objects on celld). This directory models the parts of it whose correctness
depends on the order of things, checks the models with TLC, and proves the
results that carry the most weight with TLAPS. Paths below are relative to the
repository; the implementation is in `src/`, its cells in
`src/worker/durable-objects/`.

## 1. The system

| Component | State it keeps | Operations | Works with |
|---|---|---|---|
| Event core (`apply-event.ts`) | run, step, hook, wait entities; journal and its sequence; markers (hook creation, release, force claim, attribute, resume claim, cancelled reservation) | `applyEvent` for each event type; forced disposal | runs in the run cell's storage transaction |
| Run cell (`WorkflowRunDO`) | the above, retention record, terminal-cleanup record, tombstone, hook references, queue registrations, queue claims, one alarm | `applyEvent`, hook resolutions, `scheduleCleanup`, `enforceRetention`, `cleanupNow`, `rearmCleanup`, alarm pages, queue-claim RPCs | calls hook shards, catalog, streams, payload store during cleanup |
| Run catalog shard (`RunCatalogDO`) | two index keys per run, expiry markers, compaction records, one alarm | `upsertRun`, `expireRun`, `deleteStaleGlobalRun`, list, alarm | fed by the storage client's publications, read by listings and the sweep |
| Retention sweep (`retention-sweep.ts`) | none | a bounded page of the oldest entries, one `enforceRetention` each | catalog shards, run cells |
| Run listing (`run-list.ts`) | none | page loop, status prefilter, 16-way merge | catalog shards, run cells |
| Hook token shard (`HookTokenDO`) | per token: owner record, claim with lease, takeover, retained release | `reserve`, `forceReserve`, `settleTakeover`, `finalize`, `releaseClaim`, `releaseBatch`, alarm | asks run cells about expired claims |
| Hook ID shard (`HookIdDO`) | the same per hook ID, without takeover | as above | as above |
| Storage client (`storage.ts`) | none | `events.create`: admission, `applyEvent`, settle, publish, finalize or release | everything above |
| Queue (`router.ts`, `queue-*.ts`, claim RPCs of `WorkflowRunDO`) | reservation, claim, hold, payload registration, orphan lease, broker message | send, claim, hold, release, complete, confirm, orphan alarm | broker, payload store, run cells |
| Streams (`StreamDO`, `streamer.ts`, `stream-client.ts`) | stream cell: metadata, segment or chunk rows, in memory a copy of the metadata, a change counter and waiting readers; registry cell of a run: names, fence, count; client: registered streams, read offsets | write, read with long poll, close, fail, expire; register, fence, finalize | clients, the run cell's cleanup |
| Fleet RPC client (`remote/`) | none | retries, error mapping | everything remote |
| Router, auth, config, codec, vendored helpers, test support | none of their own | parsing, formatting, wiring | - |

### What is hard in it

* **One alarm, two owners.** Retention and terminal cleanup of a run share the
  cell's single alarm; each ends with a `deleteAlarm`.
* **Pages that leave the cell.** A cleanup page lists entries, calls other
  cells, and only then commits. Disposals, other passes, RPCs, failures and
  evictions happen in between; a generation number in the record guards the
  commit.
* **Answers that get lost.** A hook creation whose answer was lost is resolved
  as "not committed" while the call may still be on its way; a hook delivery is
  retried after the hook is gone.
* **Publications that come late.** Catalog writes are delivered late, twice or
  never, against an expiry marker that is itself compacted after a grace period.
* **Bounded pages over things that do not go away.** The sweep always starts at
  the oldest entry.
* **Checks that are skipped for speed.** Some event types do not read the run.
* **Ownership without a common transaction.** Which hook has a token is spread
  over a token shard, a hook-ID shard and the run cells, changed by clients that
  may stop anywhere, and repaired by lookups and alarms at the same time.
* **A queue that delivers twice.** Deduplication, serialization and the life of
  a body rest on leases in four places (claim, reservation, orphan cell,
  broker), taken and given back by senders and deliveries that may stop
  anywhere.
* **A log read from stale metadata.** A stream read takes the metadata from
  memory and then awaits two or three storage calls, while writers append and
  expiry deletes rows; an idle read must neither miss the write that arrives
  before it waits nor take a gap for the end.
* **A removal that spans cells.** A run's streams are registered in one cell,
  written in others and removed by passes that are repeated, overlap and get
  lost, while clients write on what they remember to be registered.

`PROJECT.json` lists these as hazards, each at the line where it bites, with
the properties that would catch it going wrong.

### What makes each component correct

* Event core: the journal is dense, append-only and explains the entities;
  entities are created once; terminal states are final; a resume ID is
  delivered once and only while its hook exists; a denied reservation never
  becomes a hook.
* Run cell lifecycle: a stored cleanup record always has a timer; nothing is
  forgotten in another cell; the tombstone comes last; expiry is permanent;
  cleanup ends.
* Catalog: a removed entry stays out; every marker is compacted; listings miss
  nothing; every old run is swept (finding 4 says when it is not).
* Hook token shard: one owner per token among the run cells, except while one
  takes it over from the other; a committed hook can always be found; a victim
  is disposed only for a creation that committed; a retained token is freed.
* Queue: the application is called for one message of a key at a time; a
  message a sender was told is queued is not lost before it was handled; a
  sender is not told so of a message that was not published; a stored body
  always has an orphan lease; nothing is called for a purged run.
* Streams: each reader gets consecutive chunks of one log and learns of the end
  only after all of them; nothing is written after the close or the expiry; no
  reader sleeps on data; a writer's chunks are in its order, each at most once.
* Stream registry: a run leaves its stream phase only when all its streams are
  fenced and empty, has counted each of them once, and gets there.

## 2. Modules

### `RunEvents` - the event core of one run

`apply-event.ts` and the hook RPCs of `WorkflowRunDO.ts` that work on the same
storage. Every call is one storage transaction, so every action is atomic; a
refused call, and a replay answered without a write, is a stuttering step.

| Model | Code |
|---|---|
| `run`, `steps`, `hooks`, `waits` | the entities; a step keeps status, attempt, `retryAfter` |
| `events`, `seq` | `event:` keys and `EVENT_SEQUENCE_KEY` |
| `hookEvent`, `released`, `forced`, `attrMarks`, `resumes`, `fences` | the markers |
| `RunCreated` ... `HookDisposed` | one action per event type; separate ones for the resilient start, the lazy step start and the repeated cancel |
| `ForcedHookDisposal`, `ResolveForcedHookClaim`, `ResolveHookTokenClaim`, `ResolveExpiredHookClaim` | victim's and claimer's half of a takeover, the creator's and the shards' question about a reservation |
| `DeleteTerminalHooks`, `DeleteTerminalWaits` | what deferred cleanup does to the entities (in detail in `RunLifecycle`) |
| `wonBy`, `denied` | ghosts: the reservation a creation carried; reservations this cell denied |

The hook shards are outside this module: any reservation may accompany any
creation of its hook and token, which is more than the shards allow.
`DeferTerminalCleanup = FALSE` is the in-memory store of the test support,
which deletes hooks and waits inside the terminal transition; every run here
takes it TRUE, as the run cell does.

### `RunLifecycle` - retention, terminal cleanup and the alarm

The bookkeeping `applyEvent` adds in the run cell, the two cleanup records, the
alarm, and the pages. A page is three steps: it reads the record and a list
(`FireAlarm` or `InlinePage` with `StartRetentionPass` / `StartTerminalPass`),
it calls out (`CallOut`), it commits if the generation still matches (`Commit`,
else `CommitStale`). Several passes may be in flight. `CallFails` is a failed
external call, before or after it took effect; `PassLost` is an eviction, after
which celld runs a failed alarm handler again unless another alarm is set. The
wait pages and the payload deletion stay within the cell and are one action.

The journal is abstracted to what cleanup can see. Time is abstracted to
whether the record's deadline is ahead or past, and the alarm to "soon" or "at
that deadline".

### `RunCatalog` - a catalog shard, its publishers, the sweep, the prefilter

`upsertRun`, `expireRun`, the compaction alarm with its failures, late and
duplicated publications with their leases, the sweep's page and its call, and
the status prefilter. The `run:`, `runall:` and `catalog-keys:` entries of a run
are written and deleted together, so one entry stands for the three.
`status[r] = "gone"` says that the run's own cleanup is past its index phase.

### `HookTokens` - who owns a hook token

`HookTokenDO.ts` with the repair procedures of `hook-index-shared.ts`, the
clients' admission loop in `storage.ts` and `indexes.ts`, and what the run cells
answer. All hooks want one token, each in a run of its own.

| Model | Code |
|---|---|
| `record`, `claim`, `retained`, `takeover` | the `hook:`, `claim:`, `retained:` and `takeover:` keys of the token; `retained.armed` says whether its deadline key is stored |
| `run`, `hook`, `from`, `forced`, `fences` | in the run cells: lifecycle, hook row, `forceClaimedFrom` of its `hook_created`, force-claim marker, cancelled reservations |
| `ahead` | hooks whose `tokenRetentionUntil` is in the future |
| `proc` | a client or a shard procedure between two calls: where it is, what it read, what it was answered |
| `late`, `owed` | `applyEvent` calls whose caller gave up; index releases still to be sent |
| `Reserve*`, `Force*`, `WriteIntent`, `PreemptClaim` | `reserve`, `forceReserve` |
| `Apply*`, `ResolveAmbiguous`, `SettleAmbiguous`, `Release` | the authoritative creation and its outcomes in `events.create` |
| `Finalize*`, `CompleteTakeover` | publication |
| `ResolveForcedHookClaim`, `RollBack`, `ForceDispose`, `Repoint`, `Confirm`, `Withdraw` | settling a takeover, confirming a repair |
| `CompactClaim*`, `CompactRetained`, `SettleTakeover`, `LookUp`, `PublishCommittedClaim` | the alarm and `get` |

A storage transaction is one action. Where the code awaits another cell the
process keeps what it read and may be overtaken or lost (`Lose`). A claim ID
stands for both forms of the event claim: `HookIdDO.reserve` takes over the
token's claim ID, so the two parts agree until the hook is committed. The
hook-ID shard itself is reduced to its answers (`HookIdReserveFails`).

### `HookOwnership` - what a token promises, implemented by `HookTokens`

The abstract specification has the hooks that own the token, those that ever
did, and the displacement under way. A hook comes in once: into a free token, or
as the claimer beside its victim. A displacement starts against the owner there
is and is settled only when one of the two is gone. `HookTokens` refines it
(`ImplementsOwnership`): an owner is a hook that can be resumed, the displacement
is the shard's takeover, and claims, records, fences and processes disappear. So
the claimer comes in at its own cell, the victim goes at another, and the shard
settles at a third moment, whoever does it and however often. From the first
failure of the hook-ID shard on (`Fail`) nothing is promised, as with
`TokenExclusive`.

### `QueueDelivery` - a keyed message from the sender to the application

The send route of `router.ts`, the claim, payload and orphan RPCs and the claim
and orphan alarms of `WorkflowRunDO.ts`, `queue-delivery.ts` and
`queue-consumer.ts`, for the messages of one run under one idempotency key.

| Model | Code |
|---|---|
| `reservation`, `claim`, `alarm` | the records of a claim cell and its alarm, or the `RunQueueClaimState` of the run cell (`scope`), which has no alarm |
| `registered`, `stored`, `orphan`, `sweep` | `queue-payload:` registrations, objects, the record of each message's orphan cell and where its alarm handler is |
| `broker` | messages the broker has: due time, end of its retention, suspension count |
| `run` | whether the run is fenced by its expiry, its bodies are purged, or its claims are gone too |
| `proc` | a send request or a delivery between two calls |
| `Reserve*`, `FindReserved`, `Admit`, `RegisterQueuePayload` ... `Confirm`, `Abandon` | the send route, one action per call |
| `Deliver`, `Chain`, `Suspend`, `Ack` | the consumer |
| `Claim*`, `EvaluateAnswer`, `ReadBody`, `Callback*`, `Hold`, `Release` | the delivery |
| `DeleteBody` ... `Complete` | the end of a message, shared by a delivery and a send that found the run expired |
| `sent`, `named`, `owed`, `settled` | ghosts: accepted by the broker, returned to a second sender, known to be queued, handled or out of their leases |

A call fails without effect (`CallFails`), has its effect and loses its answer
(`Called`), or its worker stops (`Lose`). Both claim scopes keep the same
records, so one set of actions stands for both; where they differ (expiry
check, alarm) the action says so. The question whether an inline message's run
has expired overlaps the claim, so it is answered with the state at the start or
now.

### `StreamLog` - what a stream promises

The abstract specification: a log that grows, is finished at most once and may
expire, and readers that are given consecutive chunks from the index they asked
for and are told of the end only when they have everything before it, or that
the stream expired, or that they do not know (`GiveUp`, of several readers at
once, since a restart of the cell fails all its requests). It knows nothing of
rows, metadata, requests or restarts.

### `StreamCell` - one stream, its clients and its faults

`StreamDO.ts` in its role as a stream, `streamer.ts` and `stream-client.ts`.
`ImplementsLog` is the refinement: with `expired`, `from` and `told` mapped to
the stored state and to the readers' states, every behaviour is one of
`StreamLog`.

| Model | Code |
|---|---|
| `meta`, `rows` | the metadata row; `seg:`/`segsize:` rows or, in the earlier layout, `chunk:`/`chunk-size:` rows |
| `cached`, `version` | `this.meta`, `changeVersion` |
| `queue`, `landed` | mutations waiting in `mutationTail`; the one whose transaction committed and whose continuation has not run |
| `frame` | a reader's request in the cell: where it is, the metadata it took, the rows it planned, its answer |
| `reader`, `writer` | the pull loop and its attempts; a writer's current call and the chunks it was told are stored |
| `WriteChunks`, `FinishStream`, `ExpireStream`, `Throws`, `Publish` | the mutations and the code after their transaction |
| `BeginRead`, `LoadMeta`, `FindMeta`, `ListRows`, `FindContaining`, `GetRows`, `EnterWait`, `LongPollEnds`, `LookAgain` | `readChunks`, one action per await |
| `SeekTail`, `ReceiveAnswer`, `Matches`, `Retried`, `LoseAnswer`, `GarbleAnswer` | the reading client |
| `Send`, `Batches`, `Acknowledged`, `Refused`, `WriteTimesOut` | the writing client, which sends each request once |
| `Restart` | the cell loses its memory and the requests it was serving |
| `log`, `outcome`, `got` | history: what was committed, how the stream ended, what each reader was given |

A size row and its payload row are written and deleted together, so one row
stands for both, and the repair of rows without a partner (`payloadFallback`,
`orphan`) cannot occur. The two layouts share one read path: the earlier
layout's reads differ in how the rows are found, not in what is awaited. A
setup (`Setup`) is a scenario: the chunks of each writer and its calls (a
writing call goes on with the writer's chunks up to one of them), where each
reader starts, what an earlier release stored, and the bounds on expiry passes
and faults. A read's plan is a set of size rows, ordered by their first index:
the code's loop over the sorted rows asks each row where the one before it
ended (`Covers`).

### `StreamRegistry` - the removal of a run's streams

The registry cell of each run, the stream cells reduced to owner, state and
number of rows, the client's cache of registrations, and `deleteStreamPage` of
the run cell, one action per call. It refines nothing formally, but `Write`,
`Finish` and `ExpireStream` keep of `StreamCell` what a removal can see, and
`BeginStreams`/`CommitStreamPage` are the two ends of the phase that
`RunLifecycle` has as one counted page (`CommitStreams`).

| Model | Code |
|---|---|
| `registry` | `registry:expired` with its count, `stream:` keys |
| `known`, `client` | `registeredStreams`; a write, close or failure between two calls |
| `run`, `pass` | the cleanup record's phase, generation and `deletedStreams`; a `deleteStreamPage` in progress |
| `RegisterStream`, `RegisterUnanswered`, `CallStream` | `registerStreamForRun` and the mutation after it |
| `ExpireRegistry`, `ExpireStream`, `ExpireStreamThrows`, `FinalizeRegistry`, `CommitStreamPage` | a pass |
| `LoseClient`, `LosePass` | a client started anew; a pass that failed or was evicted |
| `ever` | history: the names each run registered |

### Proof and instance modules

`RunEventsProofs` and `RunJournalProofs` (which extends it),
`RunLifecycleProofs`, `RunCatalogProofs`, `HookTokensProofs`,
`QueueDeliveryProofs`, `StreamCellProofs` and `StreamRegistryProofs` hold the
theorems. The `MC` modules define symmetry and
instance values for TLC; those of `HookTokens`, `QueueDelivery` and
`StreamCell` are sets of setups, the scenarios a run starts from, and that of
`RunEvents` fixes per behaviour which event types take part. Operators under a `Mutant:` comment are broken
variants of the definition that follows them; no specification uses them. Each
one shows that a property notices that bug.

## 3. Runs

| Run (cfg) | Bounds | Shows |
|---|---|---|
| `run_events` (RunEvents) | 2 steps, 1 wait, 1 attribute, 1 hook, 1 token, 1 reservation number in both forms, 1 peer, 1 resume, 2 clock values; 7 events without hooks, 5 with hooks alone, 4 with all types | events in every order, late creations, lost answers, takeovers and deliveries: `LogExplainsState`, `CreatedOnce`, `NothingAfterEnd`, `AppendOnly`, `TerminalIsFinal`, `DeniedClaimsHoldNoHook`, `HookDeliveryWindow`, `ResumeAtMostOnce` |
| `run_lifecycle` (RunLifecycle) | 1 hook, 2 waits, 2 payloads, 1 stream page, page of 1, batch of 2, 2 passes, 1 call, 1 fault | `WorkIsArmed`, `NoDerivativeForgotten`, `TombstoneLast`, `CountedOnce`, `ExpiryIsPermanent`, `PhasesAdvance` |
| `run_lifecycle_liveness` (RunLifecycleLiveness) | 2 hooks, 1 wait, 1 payload, 1 stream page, 1 pass, 1 call, 1 fault | `CleanupFinishes`, `TerminalCleanupFinishes`, `TerminalCleanupIsComplete` with hooks and a wait |
| `run_catalog` (RunCatalog) | 2 runs, lease = grace = 1, a sweep page of 1, runs change up to time 1, clock to 3 | `RemovedStaysOut`, `FenceIsArmed`, `PrefilterSound`, `SweepAdvances` |
| `run_catalog_unlisted` (RunCatalogUnlisted) | 2 runs | **violation**, finding 1 |
| `run_catalog_backlog` (RunCatalogBacklog) | as `run_catalog` | **violation**, finding 4: `SweepReachesBacklog` |
| `hook_tokens` (HookTokens) | 2 hooks, 2 claims, one hook forces; `Contended`: 2 processes, no run ends; `Retaining`: 1 process, the other hook kept and below spec v8, its run ends and expires, one renewal, 1 hook-ID fault | `TokenExclusive`, `FindableUntilFault`, `VictimYieldsToCommitted`, `RetainedIsTimed`, `ImplementsOwnership` |
| `hook_tokens_replay` (HookTokensReplay) | 1 process, 2 claims, 1 hook-ID fault | **violation**, finding 2 |
| `queue_delivery` (QueueDelivery) | `Claims`: 2 inline messages of one key, claim cell, sends without delay, 2 deliveries, clock to 2; `Body`: 1 message, sent at once or delayed by 2, stored or inline, both scopes, the run may expire, 1 or 2 deliveries, clock to 3; 2 processes and 1 fault in each | `OneCallback`, `NamedWasSent`, `OwedIsDeliverable`, `ClaimsAreArmed`, `BodyIsOwned`, `GoneRunIsNotCalled` |
| `queue_late_answer` (QueueLateAnswer) | as `Claims` with 3 deliveries, clock to 3; answers may be evaluated late | **violation**, finding 3 |
| `stream_cell` (StreamCell) | chunks of 1 and 2 bytes, batches, reads and segments of 2 chunks or 2 to 3 bytes, 2 read attempts, 1 fault; `WriteAndRead`: two writers that write, close and fail, one reader; `Legacy`: a stream of the earlier layout is extended, closed and expired; `Expire`: a segmented stream expires while it is read and written; `Foreign`: a writer of another run, a second reader from the end, no fault | `RowsCoverLog`, `WaitersAreIdle`, `WritesLandInOrder`, `ImplementsLog` |
| `stream_registry` (StreamRegistry) | 2 runs, 2 streams of which both runs use one, pages of 1 name and 2 rows, up to 2 overlapping passes, 1 client with a cache of 1, 1 request, 1 fault | `ExpiredLeavesNothing`, `StreamsCountedOnce`, `StreamsAreRemoved` |

**Why the bounds are enough for what they show.** Two entities of a kind with a
page of one make "fits in a page", "does not fit" and "one was taken away
meanwhile" all happen; two waits also make the single-page terminal cleanup fall
back to paging. Two passes is the least for a stale commit; one fault
reaches each failure at each point of a page. The journal bound lets the run be
created, started, ended and still receive events; entities of different kinds meet
only in the journal and in the run's status, so the longer journals are explored
per kind. In the catalog, the horizon
lets a publication outlive its lease and a marker be compacted before a late
delivery; two overdue runs and a page of one are the least backlog that a page
does not hold. Two hooks and two processes let each read of the token shard be
overtaken by every other procedure; a process that is lost frees its place, so
more than two clients take part in a behaviour. Two claims give each hook one.
`TokenExclusive`, `FindableUntilFault` and `VictimYieldsToCommitted` say nothing
once the hook-ID shard failed, because then they do not hold (finding 2): a
replay that is refused there gives the token back although its hook was created,
another hook takes it, and the next replay takes it over and disposes that hook
for a creation that committed against nobody. `RetainedIsTimed` holds with the
fault too. `OneCallback` is limited in the same
way to behaviours in which no delivery missed an answer about its claim (section 5). Lease = grace is how `lifecycle.ts` sets them.
In the queue the publication lease, the claim, the broker's retention and the
grace are 1, 2, 2 and 3 ticks: the code's order (5 minutes, 15 minutes, 4 days,
5 days), with a request over before its claim is stale, and a clock that lets
each of them pass within a behaviour. In the stream cell three chunks of two sizes
are the least for two batches, two segments of different length and a read that
begins inside a segment; one fault is enough for each kind of loss at each
await, and the shapes of the scenarios keep writers, readers and expiry on the
same rows. Three expiry passes of one chunk or two reach a page in the middle,
the last page and one after the end. In the registry a page of one name with two names, and
two rows in a page, give a stream that takes a page to itself, one that is not
reached, and one that is left half expired. The safety
theorems below remove these bounds for the properties they cover.

**Deadlock** is not checked (`CHECK_DEADLOCK FALSE`): a run may legitimately
have nothing left to do, and the bounds end behaviours.

**Fairness.** `RunLifecycle!FairSpec`: weak fairness of the firing of a due
alarm, of each step of a started page, and of the passing of the deadline. That
is what the runtime gives: durable alarms fire, a started handler goes on
unless it is lost, and time passes. No fairness is assumed of clients, RPCs or
of success: faults are bounded by `MaxFaults`, which is the usual "it fails
finitely often". `RunCatalog!FairSpec`: weak fairness of the sweep of each
entry that is in the sweep's page (cron recurs), of the run cell's own cleanup
(which the previous result justifies) and of time; none of deliveries.
`StreamRegistry!FairSpec`: weak fairness of starting a pass and of its steps,
which is `RunLifecycle`'s alarm and a started handler again; none of clients.
`StreamCell` states no fairness: a reader whose long poll ends asks again, so
what it waits for is a safety question (`WaitersAreIdle`), and its termination
was left out for the size of the state graph.

## 4. Proofs

All theorems hold for every value of the constants that satisfies the modules'
`ASSUME`s: disjoint ID sets and natural bounds (`RunEvents`), positive page
sizes and finite sets (`RunLifecycle`), `Lease <= Grace` and positive batches
(`RunCatalog`), finitely many numbered names and bounds in Nat
(`StreamRegistry`). `QueueDelivery` assumes that a publication lease is no longer
than the grace of its reservation and that a request ends before the broker
drops a message: `queue-protocol.ts` has 5 minutes and 5 days, and the broker
keeps messages 4 days. In `QueueDelivery` and `HookTokens`, `NoneAssumption` says
that the value for "no record" is not itself a record, as it does in
`StreamCell`, whose `StreamAssumption` says that a setup is well formed and that
no chunk is larger than one answer may be (`MAX_STREAM_CHUNK_BYTES` and
`MAX_STREAM_READ_BYTES`).

* **`RunEventsProofs`**
  * `TypeCorrect`, and with it `JournalIsDense`. The inductive invariant is
    `TypeOK /\ DenseLog`; the lemma on `Put` shows that the one or two slots a
    transaction writes are exactly the ones its stored sequence adds.
  * `JournalIsAppendOnly`: by density the written slots are new.
  * `ResumesAreDeliveredOnce`: a resume claim refers to a slot; `ResumeIsNew`
    can only hold if no delivery under the ID is in the journal, which needs
    the strengthening that every delivery's slot is the one in its claim.
  * `TerminalStatusIsFinal`: an action property from the guards and types.
  * `DenialsAreFinal`: `DeniedClaimsHoldNoHook` is not inductive. `ClaimInv`
    adds that the creation marker and the hook record go back to one
    `hook_created`, and that a denied reservation is fenced or the run has ended.
* **`RunJournalProofs`**
  * `JournalExplainsState`: the last event about an entity gives its status, its
    token and its payload count. One lemma says what an event explains about its
    own entity and that it says nothing about the others; the rest is one
    case per event type.
  * `JournalIsOrdered`: every event is legal after the ones before it. TLC checks
    three consequences of it, and each follows in a few lines:
    `EntitiesAreCreatedOnce`, `RunHasOneEnd`, `DeliveriesLieInHookLife`. None of
    the three is inductive alone, since what forbids a second creation is the
    status in the tables, which only `LogExplainsState` relates to the journal.
* **`RunLifecycleProofs`**
  * `TypeCorrect`.
  * `CleanupIsNeverStranded`: `WorkIsArmed` is inductive together with
    `TypeOK`. The argument is about generations: a page belonging to the alarm
    is current as long as nobody bumped the generation, and every step that
    bumps it also sets the alarm. It holds for any number of passes, calls and
    faults.
  * `FenceIsNeverLifted`: deadlines only move earlier, and the record only
    gives way to the tombstone.
  * `PhasesOnlyAdvance`: neither record goes back or skips a phase. Terminal
    cleanup starts only on a run that is not fenced and leaves a phase only when
    the hooks, the references of hooks not yet released, or the waits are gone;
    this half uses `Honest` (below). The record may also go with the last keys
    of an expired cell.
  * `CleanupForgetsNothing`, `TombstoneComesLast`, `TerminalCleanupReleasesHooks`
    and `PayloadsAreCountedOnce`. A pass deletes what it listed before its calls,
    and other passes and events moved in between. `Honest` says what its list is
    still good for: behind the expiry fence references and registrations only
    leave, and after the end of the run hooks and waits do, so that a stale list
    is an upper bound of what is left and an empty one proves that nothing is.
    `Drift` says that every step keeps this so, and the generation check does the
    rest: of two passes with one list, one commits.
* **`RunCatalogProofs`**
  * `TypeCorrect`.
  * `RemovedEntriesStayOut`: `LeaseInv` adds that every publication of a
    removed run has a lease no later than its marker's compaction, or is dead
    once the marker is gone. `Lease <= Grace` is needed exactly here.
  * `FencesAreArmed`: every marker has a compaction record and an alarm in time.
  * `ListingsMissNothing`: `StatusInv` adds that a run's current status is
    reachable from any status it ever published.
* **`HookTokensProofs`**
  * `HookTokensTypeCorrect`: a process that goes on after an answer finds in its
    frame what that place of the code works on. Claim IDs in frames are bounded
    by those minted, so that a new claim is new.
  * `RetainedRecordsAreTimed`: needs that a retained record is that of an ended
    run, and that no answer from before the end can publish over it any more.
  * `CommittedHooksAreFindable`, `TokenIsExclusive` and
    `VictimsYieldToCommitted` share one invariant, `Sound`, under `Names`.
    `Names` says which claim or intent a frame, which is a snapshot from before
    the last await, may still be about: its ID is unique, so the shard either
    still has it or has given it up for good. `Sound` says of every creation under
    way, late calls of lost callers included, that it is void (fenced, or its
    run has ended) or *backed* by what the shard holds now. Cells take nothing
    back (`CellsGrow`), so what a process learned stays true; and the shard gives a
    claim or an intent up only once its creation is void (`BackingStays`). That
    is the argument of `HookTokenDO.ts` for fencing before releasing.
    All three are conditional on `idFaults = 0`, as the properties are.
  * `TokensImplementOwnership`: the refinement of `HookOwnership`. `Moves` sorts
    the steps into those by which one hook comes, one goes, or only the intent
    moves. `Owned`, which `Names` and `Sound` imply, says whom the token can
    belong to: a takeover's two hooks, or the one hook the record names. It decides
    which abstract step each is; a creation that is new while a takeover is
    pending can only be the claimer's, since the victim was created before.
* **`QueueDeliveryProofs`**
  * `QueueTypeCorrect`: types, with every deadline within its lease from the
    present, which is where the assumptions on the leases are used.
  * `ClaimCellWakes`: whatever puts or drops a record of a key also sets the
    alarm, so no alarm is lost with another record's.
  * `NamedMessagesWereSent`: a confirmed reservation names a message that was
    sent, through lost confirmations, abandoned and outlived reservations; until it
    is confirmed only its own sender knows of it.
  * `CallbacksAreSerial`: between its claim and the end of it a delivery holds
    the one claim, and the claim outlasts the request that holds it.
  * `BodiesAreOwned`: a body is written only under a lease and a registration,
    and each of the deleters (the sender, a delivery, retention, the orphan cell)
    removes the lease after the body.
  * `GoneRunsAreNotCalled`: a delivery remembers whether the run was there when it
    started; each place between admission and callback relies on one store that
    retention has emptied by then.
  * `OwedMessagesAreDeliverable`: before a delivery acknowledges its copy, its
    message is settled or a later copy outlasts it. Its hypothesis
    `PromptAnswers` is the run's: without it the property is false (finding 3).
* **`StreamRegistryProofs`**
  * `TypeCorrect`.
  * `NothingOfTheRunIsLeft`: `ExpiredLeavesNothing` speaks only of the end of
    the phase; `HeldInv` is what makes it so. Every name a run owns, a client
    remembers or is about to call, or a pass has on its page, is on that run's
    registry or its stream is fenced and empty (`Gone`), and a name a pass has
    done is `Gone`. A name leaves a registry only as done, and `Gone` is stable
    (`GoneStays`) because expiry fences before it deletes. Contested names need
    no exception here.
  * `StreamsAreCountedOnce`: `CountInv` ties the registry's count to the names
    that left it, which can no longer grow once the fence is up, so that every
    pass that finished counts the same whichever of them commits.

* **`StreamCellProofs`**
  * `RowsCoverTheLog`: the rows are compared with the log place by place
    (`RowsAt`), so that the cut of a write into segments needs no value of a fold;
    `CellInv` adds what the metadata, the landed mutation and the metadata in
    memory say. Memory may be old, but metadata that were true stay true
    (`Truth`): the log grows only while the stream is open, and its end is final.
  * `StreamTypeCorrect`: the one sum in it, `BytesIsNat`, is proved without
    induction, by the least prefix that would not have a natural size.
  * `NoReaderSleepsOnData`: the change counter a read took is never ahead of the
    cell's, and as long as the two agree the metadata the read looked at are the
    ones in memory. A reader that waits has checked exactly that, and every
    publication wakes those who wait.
  * `CellImplementsLog`: the refinement of `StreamLog`. `ReadersInv` says that
    every answer on its way to a reader, an earlier or shortened one too, is true
    of the log (`AnswerTrue`). A listed plan has no gap, and its rows, if the cell
    still has them at their length, are the same stretch of the log, though writes
    and expiry pages came in between. An answer over stored rows is never empty,
    because no chunk is larger than one answer: an empty one really is the end,
    and a garbled one fails the client's check of the range (`Matches`).
  * `WritersKeepOrder`: a writer has one request at a time, and what it was told
    is stored is what it has in the log, except for a request that was committed
    and not answered. Such a writer never sends again. `WriterInv` counts places,
    so that the next batch lands exactly after the ones before it.

**Only model-checked.** Liveness (`CleanupFinishes`, `TerminalCleanupFinishes`,
`SweepAdvances`, `StreamsAreRemoved`): fairness and ENABLED are out of the
prover's reach. Every other invariant, action property and refinement that a
passing run checks is the statement of a theorem. What the byte limits of a
batch, a segment and a page choose is left open by the proofs, which use no
value of a fold over several chunks. The type invariants of the concrete modules
need no run, since each is a theorem.

## 5. Findings

1. `docs/lifecycle-compaction.md:12` says the catalog's expiry markers "reject
   delayed publications until their authoritative publication leases expire".
   `expireRun` returns before it writes a marker when the run has no stored
   keys (`RunCatalogDO.ts:161`), so a first publication still in flight is
   stored after the expiry. Run `run_catalog_unlisted`. `RemovedStaysOut` is
   what does hold: an entry that was there and was removed stays out.
2. `apply-event.ts:1203` says of a replayed creation: "Crash orphan: hook +
   event committed but one or both sharded index writes were lost. Complete the
   partial write by re-indexing." If a lookup by ID or the ID shard's alarm has
   published the hook-ID record before the replay, `HookIdDO.reserve` refuses,
   `reserveHook` (`indexes.ts:369`) deletes the token claim of the committed
   hook, and no later replay can publish the token. Another run can then have
   it. Run `hook_tokens_replay`.
3. `docs/lifecycle-compaction.md:72` says "an early retry receives the same
   suspension response instead of calling the application or losing the future
   delivery". The delivery compares the claim's `retryAt` with its own clock
   when the answer arrives (`queue-delivery.ts:105`); if the time has come by
   then it answers `complete`, and the consumer acknowledges. After a suspension
   whose replacement could not be published, that copy was the only one. Run
   `queue_late_answer`; `OwedIsDeliverable` in `queue_delivery` is what holds when
   answers are evaluated in the instant they were given (`PromptAnswers`).
4. `README.md:309` says "later occurrences continue with the next oldest
   entries", `docs/lifecycle-compaction.md:96` "Repeated cron occurrences advance
   through a backlog". The sweep itself deletes only entries whose run is missing
   or not due (`retention-sweep.ts:158`). A run past its index phase answers
   `expired` (`WorkflowRunDO.ts:712`) and calls the catalog no more, so an entry
   that came back to it by finding 1 keeps its place among the oldest for ever.
   When such entries fill the page, the runs behind them are never swept. Run
   `run_catalog_backlog`, with a page of one. `SweepAdvances` in `run_catalog`
   is what holds with the same page: an overdue run is swept unless that many
   older entries of gone runs are in front of it.

More disagreements met while modelling, without a run of their own. Where a
value of a cfg is named, changing it shows the behaviour:

* `apply-event.ts:690` says "On terminal runs, only in-flight steps may still
  record progress." `step_completed` and `step_retrying` skip the run read
  (line 546), so a step that was created and never started is completed after
  its run ended.
* `README.md:33` says a token "stays reserved after its run ends until
  `tokenRetentionUntil`". `confirmRepublished` (`hook-index-shared.ts:156`)
  withdraws a record whose run ended since the repair write, retained or not.
* Claims are held, released and completed by message ID, not by delivery, so a
  delivery whose answer to such a call was lost releases the claim
  (`queue-delivery.ts:215`) that a later delivery of the message has taken in
  the meantime. `OneCallback` therefore says nothing once such an answer was
  lost (`faults.untold`). Without that condition it is violated with
  `Setups <- LateAnswer` (a third delivery, one tick more) in
  `QueueDelivery.cfg`; with it, it holds there too, at 33 million states
  generated, too many for a run.
* A delivery that is turned away republishes its copy for another retention
  period, and only a suspension asked for by the application extends the orphan
  lease. `docs/lifecycle-compaction.md:47` says "cleanup cannot remove a body
  while a valid broker message can still exist"; `DeleteOrphan` may be reached
  with a copy in `broker`.
* `docs/index-sharding.md:161` says a fence is written before claims are
  released, so that "a delayed request cannot commit afterward". When the
  hook-ID reservation of a replay throws, `reserveHook` (`indexes.ts:363`)
  releases the claim the replay shares with the first call without a fence:
  `TokenExclusive` without its condition on `idFaults` is violated by
  `Contended` with `faults |-> {"throws"}`.
* `docs/index-sharding.md:202` says "The token never resolves to nothing. Until
  step 3 it resolves to the victim." The victim's own release
  (`HookTokenDO.ts:498`) deletes the record while a takeover is pending, which
  the behaviours of `hook_tokens` (setup `Retaining`) include. Settling the
  intent repairs it.
* `registerStream` does not ask who owns the stream it registers. A run that
  registered another run's stream, by a write that the stream cell then refuses,
  has a registry entry on which `expireStream` throws in every pass, so its
  retention stays in the stream phase: `StreamsAreRemoved` without `Contested`
  is violated. `docs/lifecycle-compaction.md` describes failed pages as retried
  and does not say that two runs may use one stream name.

## 6. Assumptions and what is not modelled

* The runtime serialises a cell's storage operations (the input gate), so a
  read followed by `setAlarm` or `deleteAlarm` outside a transaction
  (`rearmCleanup`, the idle branch of the alarm), and the record read and list
  before an external call, are atomic here.
* celld runs a failed alarm handler again. Its giving up after repeated failures
  is not modelled.
* Cells share one clock in `RunCatalog`. The code sets the grace period equal to
  the lease, so it leaves no room for skew between a run cell and a shard; skew
  is not modelled.
* Retention RPCs and replays are bounded by `MaxCalls`, faults by `MaxFaults`.
* Left out of the event core: request parsing, event-page preloading
  (`finalizeEventPage`), the run-level spec version check.
* Left out of the catalog and the sweep: `deleteStaleGlobalRun`, list paging and
  the merge, the counters of the sweep's result and its invalid, missing and
  not-due candidates.
* In `HookTokens` a deadline is handled at any moment after it passed; the
  alarm's pages and its re-arming are left out. Hook IDs of different runs are
  distinct, and the in-fleet publication by the router is the client's.
* In `QueueDelivery` a request or a delivery is over after `RequestLife`, which
  is shorter than the life of a claim: a callback is aborted after 5 minutes and
  a claim lives 15, but the calls around the callback have no limit in the code.
  The broker drops a message after its retention and holds it back for a day at
  most. A run's claim scope is fixed. Messages without a key or without a run,
  deployment routing, size limits, malformed messages, retry backoff and the
  dead-letter queue are left out.
* In `StreamCell` storage answers arrive in the order in which storage served
  the calls, as the input gate has it; without it a metadata load could
  overwrite the metadata a mutation published after it. Left out: the
  negotiation of the chunk limit with an older worker, which refuses a batch
  before it writes; a reader that cancels; `getStreamChunks`, `getStreamInfo`
  and `listStreams`, which are single reads; rows whose partner is missing;
  the framing of requests and answers; the 128-key grouping of storage calls
  within one transaction or read.
* In `StreamRegistry` a registry cell is used by its own run only, which its
  name makes so, and byte limits of a page are left to `StreamCell`.
* Not modelled at all, as pure I/O, formatting or wiring: HTTP routing,
  authentication, configuration, codec, vendored helpers, the test pump.

## 7. Plan

Done: every module of section 2, and theorems for every safety property of them.
Next, in order:

1. **`HookIds`**: the hook-ID shard composed with `HookTokens`.
2. Pure algorithms: the catalog's list paging and 16-way merge against the
   sorted union.
