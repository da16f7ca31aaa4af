# Verification of the Home feed backend and the native player

The repository is a music player: a Flutter client (`src/app`), a FastAPI
backend (`src/ingestion/python_proxy/auralis_backend`), a small native audio
engine (`src/core_native`), SQL for the hosted database (`src/supabase`) and
operational scripts (`src/deploy`). These are TLA+ models of two parts where
concurrency decides whether the program is right, the backend's durable core and
the native player with the threads of its audio library, TLC instances that check
them, and TLAPS proofs of their main invariants. Paths below are relative to
`src/ingestion/python_proxy/auralis_backend` unless they start with `src/`, and
`miniaudio.h` is `src/core_native/include/miniaudio.h`.

    tlc -workers 2 -config HomeJobsRefresh.cfg MCHomeJobs
    tlapm HomeJobsProofs.tla

## 1. Inventory

| Component | State | Operations | What is hard |
|---|---|---|---|
| Home job table (`home_feed/repository_jobs.py`, `scheduler.py`) | `home_feed_jobs` in SQLite: status, lease token and expiry, attempts, priority, generation key | enqueue, enqueue_coalesced, enqueue_singleton, claim_next, renew_lease, complete, retry, fail, reconcile_expired, reconcile_queue, delete_scope | calls of several transactions, timestamps older than the lock they waited for, leases that expire under a live handler, tables left by a crash or an older release |
| Home worker lanes (`home_feed/worker.py`) | a thread per lane, a heartbeat per job, one inventory slot per process | run_once, heartbeat, handler, complete or retry, restart | lanes that rest while nobody uses the server, heartbeat that stops while the handler runs on or renews after it, done work that is retried, a lease lost while waiting for the slot |
| Home feed (`home_feed/repositories.py`, `api.py`, `composer.py`) | `home_feed_state` (active, ready queue, version, revision, last token), immutable artifacts | reconcile, recommend, promote_ready, initialize_active, append_ready, compose, artifacts.put, delete_scope | read-decide-write by revision, expiry between steps, duplicate delivery, handlers past their lease, account reset |
| Supply (`home_feed/candidate_supply.py`, `radio_supply.py`) | candidate and radio snapshots | publish, prune, reconcile interactions | partial batches, retention against snapshots in use |
| Queue-cache plans (`api/media_runtime.py`) | plans by session, revision, byte budget | request, cancel, status, two download threads | late older requests, budget reserved before sizes are known |
| Stream buffers (`api/stream_buffers.py`) | shared prefix downloads, retained initial reads | open, wait, take, expire | waiters with timeouts against one producer |
| Stream cache (`api/stream_cache.py`, `stream_cached_audio.py`) | upload leases, publication slots, cached objects | start, write, publish, abort | one upload takes over from another, cleanup exactly once |
| Stream preparation (`api/stream_core_runtime.py`, `stream_sources.py`, ...) | in-flight preparations | admit, join, finish | admission limits, deduplication |
| Search (`search/service.py`, ...) | snapshots in memory and persisted, revisions | search, enrich, publish, evict, persist | eviction forgets the revision that persistence compares |
| Recommendation runtime (`recommend/`) | in-flight warm-ups, feature store, models | warm-up, score, train | stale in-flight flags |
| Storage (`storage/`) | session store, caches, artwork variants | get, put, evict, single flight | slot accounting, single flight with failures |
| Discovery, domain, details, charts, releases, lyrics, recognition, assistant | caches | provider calls, ranking | mostly data |
| Web client and app (`src/app/lib`) | player, queue, library, home cache | play, stage next, sync | audio element hand-over, edits against asynchronous prefetch |
| Native player (`src/core_native/src/audio_engine.cpp`, sounds and data streams of `miniaudio.h`) | the current sound, its seek target, two pages of decoded frames, validity flags, seek and execution counters | load, play, pause, stop, seek, set_loop, shutdown; seek, page, load and free jobs; the read of the audio thread | three threads without locks: one calls, one reads, one decodes; numbered jobs; memory given back while jobs wait |
| Node graph (`miniaudio.h`) | a linked list of output buses, reference counts, two spinlocks | attach, detach, walk | the audio thread walks the list without a lock; a detach must not return too early, nor never |
| Native job queue (`miniaudio.h`) | linked slots, slot allocator, semaphore | post, next, quit | allocation and counting in separate steps, full queue, quit for several threads |
| Effects, chorus detection (`dsp_effects.cpp`, `ml_runner.cpp`) | none | placeholders | nothing |
| Schema, deployment (`src/supabase`, `src/deploy/production`) | playlist revisions; backups | edit, back up, prune | concurrent edits; retention against backup |

How they interact. An API request reads the feed row, may promote a prepared
artifact, and asks the scheduler for demand; the scheduler writes jobs; lane
threads of the workers lease them; the candidates, radio and supply handlers
publish snapshots; the compose handler turns snapshots into an immutable
artifact and appends it to the row. API and workers are separate processes that
share only the SQLite database, so they interact by transactions and by
time. The player side talks to the stream endpoints and is independent of Home.

The native player is a library of C functions. The app's isolate
calls them (`src/app/lib/ffi/audio_ffi.dart`); a sound is a node of the node graph
and a reader of a data stream; the audio device's thread walks the graph and reads
the stream; what the stream needs decoded it posts to the job queue, whose one
thread fills the pages.

What makes the modelled components correct:

* job table: one actionable job per account and kind of work, no lost demand,
  attempts within their budget, finished rows final, a running job's input stable;
* workers: effects of one kind of work on one account serialised, only the
  latest lease finishes a job, slots never leak, every job settles while there is
  demand again and again;
* feed: the queue is sound and first-in first-out, a write lands only on the
  row it was computed from, a supply is allocated once, a repeated request
  advances the feed once, what leaves the row was promoted, is past its time or is
  newer than the reconciliation that drops it;
* player: no thread uses a stream that is closed, jobs run in the order of their
  numbers, a page is not filled while it is read, what is heard is what the cursor
  says, every call returns, playing goes on;
* node graph: a detached bus is left alone by the audio thread, counts are exact;
* job queue: a slot has one owner, jobs come out in order, none is forgotten.

## 2. Modules

| Module | Models |
|---|---|
| `HomeJobs` | `repository_jobs.py`, with the demands of `scheduler.py` |
| `HomeWorker` (extends `HomeJobs`) | `worker.py`: lanes, heartbeats, slot, handlers' ends |
| `HomeFeed` | the feed row, the API's recommend and promote, the compose slot, the composer |
| `FeedQueue` | the abstract specification of the feed: one active artifact, a bounded queue |
| `NodeBus` | attach, detach and the audio thread's walk, one atomic access a step |
| `BusGate` | the abstract specification of the node graph: a bus is in, leaving or out, and held or not |
| `JobQueue` | `ma_job_queue`, its slot allocator, the loop of a job thread |
| `JobFifo` | the abstract specification of the job queue: a sequence |
| `SoundStream` (instances of `BusGate` and `JobFifo`) | `audio_engine.cpp`, the sound, its data stream, its jobs |
| `MCHomeJobs`, `MCHomeWorker`, `MCHomeFeed`, `MCNodeBus`, `MCJobQueue`, `MCSoundStream` | instances for TLC: demands, initial tables, requests, loops, symmetry |
| `HomeJobsProofs`, `HomeWorkerProofs` (extends the former), `HomeFeedProofs`, `HomeFeedTimeProofs` (extends the former), `NodeBusProofs`, `JobQueueProofs`, `SoundStreamProofs`, `SoundStreamDataProofs` (extends the former) | theorems |

### HomeJobs

`jobs` is the table, a row per `job_id`; `call[c]` is what scheduler `c` has
done of a call that takes several transactions; `booted` says that a
`HomeRepositorySet` has run its start-up reconciliation. SQLite's `BEGIN
IMMEDIATE` serialises writers, so one action is one transaction:

| Action | Code |
|---|---|
| `EnqueueInteraction` | `enqueue`, in the transaction of an interaction event |
| `RequestCoalesced`, `InsertCoalesced` | the look and the insertion of `enqueue_coalesced` |
| `RequestSingleton`, `ReconcileBeforeAdmit`, `AdmitJoin`, `AdmitNew` | `enqueue_singleton`: reconcile_expired, then join, expedite or replace |
| `Claim`, `ClaimNothing` | `claim_next`, with the failing of exhausted leases it starts with |
| `Renew`, `Finish`, `RetryAs` | `renew_lease`, `complete` and `fail`, `retry` |
| `ReconcileQueue` | `reconcile_queue`, at start-up |
| `DeleteScope` | `delete_scope` |
| `Abandon` | a scheduling thread that dies, or raises, between transactions |
| `Tick` | time |

Time is kept relative to now (`due`, `left`), so the state space is finite
without a bound on the clock. The code takes `time.time()` before it waits for
the lock: every transaction therefore works with a timestamp up to `Skew` ticks
old. `Skew < Lease` because a connection gives up after its busy timeout
(seconds) long before a lease (`HOME_JOB_LEASE_SECONDS`, minutes). Lease tokens
are fresh uuids in the code; here they number the claims of a row. Of a payload only
its identity counts: an artwork repair is about an artist (`Identity`), and one
that names nobody (`Nameless`) is like no other, so start-up keeps each.

### HomeWorker

`worker[w]` is a lane thread: what it is doing, the lease it holds, whether its
heartbeat runs and whether `lease_lost` is set. `slot[p]` is the inventory slot
of process `p`, `idle` the idle policy (`recommend/workload.py`), which `IdleChanges`
turns on and off where an instance has it (`IdlePolicy`). `Look` is the lane's loop and
the read before the claim: the candidates, radio and artwork lanes do not look while
`idle` holds (`recommend/maintenance_runtime.py:2243`), and no lane goes on to a claim
unless something of its own is due or has expired. `Poll` and `PollNothing` are the
claim; `EnterSlot` is the `with` of the slot;
`HandlerReturns` and `HandlerRaises` end the handler; `FinishJob`,
`FinishRaises`, `RetryJob` and `RetryRaises` are the transactions after it, each
of which may raise; `Heartbeat` and `HeartbeatStops` renew, or stop for good for
any exception; `Restart` loses a process. `run_once` waits two seconds for the heartbeat
to end and then leaves: where `retry` raised as well, a renewal may be under way
(`renewals`) and prolong a lease nobody works for (`LateRenewal`). `Punctual`
restricts instances that need it to heartbeats that renew at least every `RenewEvery` ticks while they
live; a heartbeat that has stopped is punctual about nothing.

### HomeFeed

`row` is the account's row of `home_feed_state`, `artifacts` the immutable
records, `pairs` the supply generations published so far (those up to `gone`
deleted by a reset), `slot` the compose job, `shown` a history of what became
active, and `call[a]` the progress of an actor, a request thread or a handler.
`call[a].view` is the row as the actor last read it: everything it decides is
decided from `view`, and everything it writes is guarded by `view.revision`.

| Actions | Code |
|---|---|
| `Read`, `Create`, `Write`, `WriteLost`, `Reread` | `get_or_create` and `reconcile`, two retries, then `StaleRevision` |
| `Recommend`, `Decide`, `Settle`, `Poll` | `HomeFeedApi.recommend` and its wait; the transaction of `promote_ready` is `Promote` |
| `PlanSlot`, `Plan`, `EnqueueSlot` | callers of `scheduler.compose`: room, epoch, `enqueue_singleton` |
| `ClaimSlot`, `Guard`, `LeaseExpires`, `Complete`, `Retry` | the compose lane as `HomeWorker` has it, reduced to its one slot |
| `Compose`, `Put`, `Attach` | `HomeFeedComposer.compose`: supply and epoch, `artifacts.put`, `initialize_active` or `append_ready`, `_attach_materialized` |
| `NewSupply`, `DeleteScope`, `Crash`, `Tick` | a refresh publishes supply, account reset, a thread dies, time |

Every caller reconciles before it looks at the row, and the code does so again
in each layer (API, scheduler, worker, composer); those are separate passes
here because the row may move between them. Bundle content, novelty and row
contracts are reduced to "accepted or not": an accepted bundle stays accepted.
`Keeps` says which queue a reconciliation leaves without saying how it is
computed: the valid entries, in their order, at most `Depth`.

A write may wait for the database lock. `Stall` is how many ticks (the busy
timeout of `recommend/store_runtime.py`) may pass between the timestamp of a
transaction and its end, or between that of a reconciliation and its last write. A
reconciliation that lost its write starts again with its first timestamp
(`repositories.py:254`) and takes what was composed since for invalid (`:212`), so it
drops a fresh artifact, although its docstring (`:188`) speaks of missing and expired
references. That nothing fresh is dropped is therefore no property here.
`OnlyExpiredOrNewLeave` says what is true: what leaves the row was promoted, is past
its time, or is less than `Stall` old; `LaunchesWait` says what that does to a launch.

### The native player

Three modules, composed by abstraction: `NodeBus` implements `BusGate`,
`JobQueue` implements `JobFifo` (both as refinements that TLC checks and that are
proved), and `SoundStream` is written on top of the two abstract ones.

`NodeBus`. `next`, `prev` and `attached` are the list; `nextCounter` counts
selections in progress and `refCount[b]` uses of a bus; `outLock` and `inLock` are
the spinlocks. `callerPc[c]` and `audioPc` say where a thread is.

| Actions | Code |
|---|---|
| `CallDetach`, `MarkDetached`, `LockForDetach`, `Unlink`, `Relink`, `Clear`, `AwaitSelection`, `AwaitReads` | `ma_node_detach_output_bus`, `ma_node_input_bus_detach__no_output_bus_lock` |
| `CallAttach`, `LinkOwn`, `Publish`, `LinkBack`, `MarkAttached` | `ma_node_attach_output_bus`, `ma_node_input_bus_attach` |
| `BeginPass`, `FinishRead`, `LoadNext`, `CheckAttached`, `HoldNext`, `DropCurrent`, `EndSelection` | `ma_node_input_bus_first` and `_next`, `ma_node_input_bus_read_pcm_frames` |

A step is what the other side can tell apart: pure reads of a lock's holder move
with their neighbours. The reference count of the list's head, which goes below
zero and is never read, is left out. `BusGate` sees a bus as out, in or leaving:
the audio thread may take hold of a bus until a detach has *returned*, not only
until it has begun.

`JobQueue`. `taken` and `count` are the slot allocator, which changes outside the
lock; `head`, `tail`, `next` and `jobAt` the list with its dummy; `sem` the
semaphore. Posting is `ClaimSlot`, `SkipGroup`, `DecideFull`, `CountAndWrite`,
`LinkJob`, `SwingTail`, `Signal`; taking is `PassSemaphore`, `CopyJob`,
`AdvanceHead`, `FreeSlot`, `UncountSlot`, then `FinishJob` or `PostAgain`.
It is the build with spinlocks, which is the default; failed compare-and-swaps are
no step; the capacity is a whole number of groups (1024 and 32 in the code).

`SoundStream`. `sound` is the node, `stream` the data stream, `pc` the three
threads, `outbox[t]` a job that has its number and is not posted yet.

| Actions | Code |
|---|---|
| `Load`, `FinishLoad`, `Unload`, `FinishDetach`, `CloseStream`, `FinishUnload` | `auralis_load_file`, `auralis_shutdown`: `ma_sound_init_from_file`, `ma_sound_uninit`, `ma_resource_manager_data_stream_init_ex` and `_uninit` |
| `Play`, `Start`, `Restart`, `Go`; `Pause`; `Stop`, `Rewind`; `Seek`; `SetLoop` | `auralis_play` (`ma_sound_start`), `auralis_pause`, `auralis_stop`, `auralis_seek`, `auralis_set_loop` |
| `BeginPass` to `EndPass` | `ma_engine_node_process_pcm_frames__sound`, `ma_data_source_read_pcm_frames`, `ma_resource_manager_data_stream_map` and `_unmap`, `_seek_to_pcm_frame` |
| `BeginLoad`, `BeginPage`, `BeginSeek`, `BeginFree`, `Free`, `Decode`, `Validate`, `EndSeek`, `EndLoad`, `Advance` | `ma_job_process__resource_manager__*_data_stream`, `_fill_page` and `_fill_pages` |

Frames are numbers, and a decoder delivers them in order and repeats the loop by
itself, as miniaudio's does. Left open, as choices: how many frames a read wants and
whether the file opens. Abstracted: the processing cache between stream and device;
the frames of an invalid page are forgotten; a call changes loop points and looping flag in one step; a
second read of the node within one device callback is another pass; posting a job
succeeds; the user seeks inside the file; one thread calls, one thread runs jobs, as
in the app and by default. The job of a failed load increments the execution pointer of a
stream that its caller may already have freed (`miniaudio.h:73273` after the
notification at 73265, `78542`). `stray` says that it has been freed; `Advance` then
increments memory that is no stream, or, with `Reuse`, the stream the next load was
given the same memory for (`78511`). `MayFail` says that files may fail to open. Most
statements about streams need `StrayHarmless`, which is `~MayFail \/ ~Reuse`.
`StreamOpenInUse` itself holds only for files that open. With both, TLC
finds `JobsInOrder` violated: the pointer of the new stream is ahead of its jobs, its
load job is put back for ever, and the load never returns. A read asks once whether
the sound loops (`BeginRead`, `looping`).

## 3. Runs

| Run | Shows |
|---|---|
| `jobs_refresh` | two schedulers, two payloads and unserialised claims on a singleton type: one actionable row, unique keys, waiting rows claimable, leases visible to admission, finished rows final, no demand lost by cancelling; what a running job's handler has, payload and budget, stays |
| `jobs_startup` | seven tables an older release or a crash can leave (of refreshes, compose slots, repairs of one artist, of two, of nobody), and work that goes on after it (refreshes retried, repairs put back with a new payload or their attempt given back, new repairs and interaction follow-ups): start-up keeps one row of each piece of work and never cancels the last; attempts stay within their budget, and each lease costs one (`BudgetKept`) |
| `worker_artwork` | two processes on a lane, punctual heartbeats that may stop, failing handlers and transactions, restarts, resets: handlers exclusive, only the latest lease finishes, and the workers implement `HomeJobs!Spec` |
| `worker_slot` | two optional lanes of a process share the inventory slot, unpunctual heartbeats, every failure, a server that goes idle and wakes up: the slot is never leaked; under fairness every job settles unless the server stays idle for ever |
| `feed_reset` | a refresh that waits and compose handlers across expiry and an account reset: the queue is sound, a revision names a row |
| `feed_serving` | openings and launches, with a token and without, sent any number of times by two clients, handlers that lose their leases, writes up to a tick late, reconciliations retried with their old timestamp: a launch leaves a feed up for its minimum age less that tick, a supply is allocated once, what a reconciliation drops is past its time or newer than its timestamp |
| `feed_queue` | one refresh from two clients, any number of times, at the depth of the code: it advances the feed once, and the feed implements `FeedQueue` |
| `native_bus` | two threads attach three buses and one of them detaches, while the audio thread walks: a detached bus is not even looked at, the list is sound whenever unlocked, counts are exact, every call returns; `NodeBus` implements `BusGate` |
| `native_jobs` | posts, takes, jobs put back, and the end, in a queue with barely enough slots: the books balance, jobs come in order, each is taken, the quit job ends the worker; `JobQueue` implements `JobFifo` |
| `native_play` | every command of the player, with a loop, on files that open, against audio and job thread: no closed stream is used, the caller's own seek is alone, jobs in order, seeks counted, pages handed over safely |
| `native_stream` | pages of two frames, no loop, files that may fail to open and memory that is not handed out again at once: what is copied is what the cursor says whatever seeks come between; every call returns; a playing sound does not starve |

One run shows where the code does something else than its documentation says:

| Run | Sentence | What happens |
|---|---|---|
| `feed_token` | a launch token promotes once (`src/docs/handoff/ARCHITECTURE.md:512`) | one token is remembered; a refresh's token displaces it, and the launch sent again promotes again |

The models show other behaviour that a reader of the code's comments would not
expect, and that no run repeats: a delayed idle request cancels an urgent refresh that
waits (`repository_jobs.py:180`), so `CancelledWorkSurvives` says that work survives, not that its
urgency does; a coalesced generation may be inserted twice (`:225`), against
the docstring at `:221`, when the row of another scheduler has come and is finished
between the look and the insertion; an old compose slot attaches an artifact already
shown (`composer.py:993`); a retried reconciliation drops a fresh artifact
(`repositories.py:254`). In the player, a failed load may make the next one wait for ever
(`miniaudio.h:73273`, see above), a seek may be lost (`76915`), a sound may end before its
last page (`72076`), a play may be undone by the end before it (`76897`), and a loop that
changes leaves pages decoded under the old one (`59308`).

Further hazards of this code that no property covers, beyond those in
`PROJECT.json`: attempts given back without limit (`repository_jobs.py:609`), two job
types of one lane on the same supply (`worker.py:1072`), an expired lease that still
answers "active" (`repository_jobs.py:783`), a process that dies between completing a
composition and scheduling the next (`worker.py:124`), an epoch already used after a
dropped artifact (`composer.py:879`), the per-process replenishment memo
(`api.py:193`), late older queue-cache requests (`api/media_runtime.py:222`), in-flight flags of
warm-ups (`recommend/warmup_runtime.py:65`), slots of artwork variants
(`storage/artist_artwork.py:476`), waiters of prefix downloads
(`api/stream_buffers.py:143`), revisions forgotten by eviction
(`search/service.py:228`), posts of stream jobs that find no slot
(`miniaudio.h:72023`, `18799`), seeks past the end of a file (`71837`), and the
pause that a loop of a stream makes where gapless looping is expected
(`audio_engine.cpp:29`, `miniaudio.h:59440`).

### Bounds

* `JobIds` bounds insertions: two rows (three at start-up)
  let a row finish, or be leased, while another is inserted, which is every
  pairwise case the statements distinguish.
* `jobs_refresh` has a `VIEW`: of a finished row only its key is ever read again, so
  states that differ in the payload, the budget or the counts of finished rows, or in
  how they finished, are one. Whether a step changes a finished row is still asked
  of every step.
* `MaxAttempts` 2 reaches first attempt, retry and exhaustion; `MaxPreserved`
  bounds `preserve_attempt`, which the code does not.
* `Lease` 2 or 3 ticks, `Skew` 1: leases live, expired, and expired only by one
  of two timestamps; 1 and 0 in `jobs_startup`, which has one scheduler and is about
  what start-up leaves. Backoff is one step and its cap.
* `Depth` is 2, as `QUEUE_TARGET_DEPTH` is in the code. An attachment that
  meets a queue filled since its view (`Full`) needs more artifacts than the runs
  allow; `QueueAlwaysSound` covers it.
* `MaxArtifacts` 2 or 3 with `MaxPairs` 1 (4 in `feed_token`): an active artifact, a successor, and one
  composed while they move.
* `ReadyTTL` 1, `MinAge` 2, `ActiveTTL` 3, `Stall` 1 and `MaxClock` 3 in `feed_serving`, in the
  order they have in the code: a prepared artifact becomes too old to promote while
  the active one lives, a launch finds a feed too young and then old enough, and a
  feed expires. The other feed runs have one lifetime and `Stall` 0, since their
  statements are not about time.
* `MaxResets` 1: callers of the previous life meet the row of the next.

Two clients or handlers suffice for races on a single row: every statement
reads and writes one row under one revision, and all callers are alike
(`MCSymmetry` uses that).

* `NodeBus`: three buses, so that one can leave from the middle of the list; two
  callers, so that an attach meets a detach; one of them detaches, since the
  player detaches from one thread. With two detaching threads a bus may be looked
  at by a walk that started from a bus detached meanwhile: `ReleasedNotVisited`
  fails, and `ReleasedNotHeld`, which is proved, is what remains.
* `JobQueue`: one poster, one worker and the owner; four slots in two groups leave three for jobs,
  so that the queue fills, a post gives up, and a slot is used again at once.
* `SoundStream`: a file of three pages of one frame with a loop that ends at its end, or of
  two pages of two frames and a short one; `Targets` one frame besides the
  beginning; files that open and loops (`native_play`), or files that may fail and no loop
  (`native_stream`); `Reuse` in no run (see the module); `MaxJobs` 1 lets the user
  seek only while no job waits, so at most one of the user's seeks is pending besides the
  one under way and the loop's; `OrderLimit` 4 is the modulus of the execution counters
  (2^32 in the code), more than the jobs that can be pending.

`CHECK_DEADLOCK FALSE` is set because a bounded table,
artifact supply or clock lets the model stop where the program would go on, and
in `JobQueue` because its threads end.

### Fairness

`worker_slot` assumes `WorkerFairness`. A lane thread looks for work every five seconds;
the candidates, radio and artwork lanes do so only while the server is not idle. Any
demand keeps it from being idle for at least a minute, so a lane looks in every
period of use: strong fairness of `Look`. A claim that was begun is not cut short by a
restart every time: strong fairness of `Poll` or `PollNothing`. Besides, a waiter
gets the slot's lock; a handler returns or raises (provider calls have
timeouts); the transaction after it is tried; time passes; the first start-up
reconciliation runs. Nothing is promised of heartbeats, nor that a transaction
succeeds, nor that processes stop failing, nor that there is demand: `JobsSettle` says
that every job settles if the server is not idle again and again. It
holds because an expired lease is recovered and every recovery costs an attempt, with
`MaxPreserved = 0`.

The native runs assume that threads keep running. Strong fairness is used where
the code tests something again and again that others make true now and then:
spinlocks (`LinkOwn`, `LockForDetach`, `LinkJob`, `CopyJob`), the wait for a
moment outside a selection (`AwaitSelection`), and in `SoundStream` the end of a
detach (`FinishDetach`), which is what `DetachReturns` of `NodeBus` shows, and the
end of a pass (`HaveEnough`), since a device asks for finitely many frames. A
spinlock has no queue, so this is an assumption about the scheduler. `BeginPass`
runs for ever: the device calls back as long as it is started.

## 4. Proofs

The theorems hold for every value of the constants that satisfies the named
`ASSUME`s of the modules: any finite or infinite set of schedulers, accounts and
actors, any depth, lifetimes and bounds. Of the job queue the threads are finitely many, since
it counts them; of the stream, the counters have a modulus and no job is `NoJob`.

`HomeJobsProofs`. `IInv` adds to the properties: `RowsOK`, which ties status,
attempts, tokens and timers of a row together; `Unique`; `CallOK`, what a
half-done call remembers; and `Single`, the uniqueness of actionable rows, which
only holds once start-up has run (before it the table is a `LegacyTable`). The
hard step is `AdmitNew`: it inserts a row after cancelling what waits, and is
safe only if no lease exists that its old timestamp calls expired. That is
`AdmissionLeasesLive`: the first transaction recovered the leases expired at
that timestamp, and any lease taken since outlives it because `Skew < Lease`. It
is why both transactions must use one timestamp. Most actions only move a
row along the relation `KeptTable` (a row keeps its identity and does not become
actionable again), which is shown once per helper and composed.

`BudgetsKept` (`BudgetKept`) follows from `RowsOK`: attempts are at most the budget and the
claims, and only an artwork repair has had one given back. It is said of the
table at all times, so an expedite that extends a budget and a recovery that
spends the last attempt are both covered.

Three action properties follow from the same invariant. `TerminalFinal` and
`LeaseKeepsInput` compare a row before and after a step, so each helper is shown to
take a row to one that `Respects` it, a relation that composes along the several
passes of one transaction. `CancelledWorkSurvives` is about the table: `Survives` says
that a row that becomes cancelled leaves an actionable one for its work.
Admission cancels only what a live or newly inserted row replaces, and
`reconcile_queue` only duplicates of a row that it keeps or that is running.

`HomeWorkerProofs`. `WorkerIInv` is `IInv` of the table and three parts. `WBase`: a
worker's token is a claim made of its job, and no two workers have the same job and
token (a claim makes a token of its own). `PunctualInv`, under the
assumption `PunctualHeartbeats` (a heartbeat that lives renews more often than a
lease lasts): a handler that has not noticed a loss has the lease, with time left,
so a second handler of the account and job type would need a second actionable row,
which `Single` excludes. `SlotInv`: a slot is held by the worker that handles in
it, so each way out of a handler, raising and dying included, gives it back. What
other transactions do to a job under its handler is the relation `Steady`, shown per
helper as in `HomeJobsProofs`. `WorkersUseJobTable` makes each theorem about the
table one about the workers: a handler that outlives its lease can still call
`complete` or `retry`, and these too are steps of the table.

`HomeFeedProofs`. `IInv` adds to the properties: the types; `Fenced`, which is
`RevisionNamesRow` of one caller plus the fact that its revision does not exceed
the row's in its own life; `CallOK`, what each step of a caller may hold; and
`History`, which bounds the versions in `shown` so that a refresh whose baseline
is past promotes nothing. `CallerMoves` and `OthersFenced` reduce each action to: its
caller leaves fenced, and nobody else's fence breaks, because a row that changes
gets a new revision. Each step lemma also shows `Moves`, that the row makes a
step of `FeedQueue` or stutters, and `FeedImplementsQueue` collects them.
It is stated for `MaxResets = 0`: after a reset the revision starts again at
0, so a caller of the previous life can find its revision in the new row and
overwrite it. `QueueSound`, the typing and the others hold with any number of resets.

`HomeFeedTimeProofs`. `TimesInv` adds what time has to do with it: a reconciliation
is at most `Stall` older than the clock, and what it would drop has expired or is newer
than its timestamp (`Spoiled`), which a later write cannot change since it gives the
row another revision; stored artifacts are never overwritten (`Stock`); and the row
knows when the last artifact of the history was shown, until that one expires or, if
it was composed less than `Stall` before it was shown, a late reconciliation drops it
(`Timeline`). `LaunchLeavesYoungFeed` (`LaunchesWait`) and `NothingSettledDropped`
(`OnlyExpiredOrNewLeave`) follow, for every `Stall`, every lifetime and any number of
callers, with `MaxResets = 0`: after a reset a caller of the previous life may
write over the row of the next.

`NodeBusProofs`. `IInv` adds to the types: who holds the lock of a bus (`LockOwner`),
what the bus looks like along a call (`Phases`), which pointers of the audio thread
may be followed, that counters agree with program counters (`RefCountExact`), and the two
facts that make the two waits of a detach enough: a bus that is chosen but not counted is
attached, or its detacher has not passed the first wait (`ChosenKept`); a bus that is
counted is attached, or its detacher has not passed the second (`CountedKept`).
`ReleasedSafe` (`ReleasedNotHeld`: nobody uses a
bus whose detach has returned) and `BusImplementsGate` follow, for any number of
buses, of callers and of detaching callers. The typing and `ReleasedNotHeld` are
in no run, being implied by what the runs check and by the proof.

The list has an invariant of its own, `ListInv`: the forward pointers make a chain
from the head without a cycle, the backward pointers are its converse, and whoever
holds the spinlock between two writes (`Splice`) knows which of the two is
missing. `ListSound` (`ListIntact`) follows. `ReleasedUnseen` (`ReleasedNotVisited`)
is stated under `OneDetacher`, as the player has it, with `VisitInv`: what the audio
thread looks at is in the list, or is the one bus being detached, which leads back
into it. With two detaching threads the statement is false (see Bounds).

`JobQueueProofs`. The list of slots is described by a path `p[0], ..., p[m]` from the
dummy to the end (`IsList`; the tail is one behind between the two writes of a post),
every taken slot is on the path or belongs to one thread (`Owned`), and the
allocator's count and the semaphore agree with the path up to the threads that are
between two steps (`Counted`, `Posted`). A post makes the path longer and a take
makes it shorter by its first slot; all other steps leave it. `Balanced`
(`QueueConsistent`) and `Refinement` (`ImplementsFifo`) follow, for any capacity and
any finite set of posters and workers: the abstract queue is the jobs along the path,
linking is `Put`, advancing the head is `Get`, and every other step stutters.

`SoundStreamProofs`. The hard part is that two threads number jobs, post them
later, and the job thread waits for numbers. `Pending` is the line of all jobs of a
stream that are not over: the one in hand, the queue, and what is about to be posted.
`JobsInv` says that this line is numbered consecutively from the stream's pointer
modulo `OrderLimit` (so whatever is taken is in turn, and `PutBack` never happens),
that a load is first and a free last, and ties both ends to what the caller waits for.
It needs `OutboxInv` and `AudioInv`: caller and audio thread never both have a job to
post, because the caller seeks only a sound at its end, where the audio thread does
not read. `SeeksInv` counts the seeks of the line that are to come. `PagesInv`: while
a seek is to come every page job is before it; otherwise the pages that have a job
are invalid, and have only one. `CopyInv` follows a page from `Map`, which looks at
the count of seeks and the flag, to `Unmap`. The theorems are `TypeCorrect`,
`OnlyOpenStreams`, `CallerSeeksAlone`, `OrderKept`, `SeeksMatch` and `CopyAlone`, for
any file, page size, seek targets, loops, number of waiting jobs, and any modulus of
the counters, even one smaller than the line of jobs. What a page job decodes is the
recursive function `Position`; that it is total, and without a loop counts up by one,
is proved from the least position where it would not.

All of them assume `StrayHarmless`, and `OnlyOpenStreams` that files open
(`MayFail = FALSE`): the increment after a failed load is the one access to a stream
that was given back, and `FailInv` says that without a failure there is none. Neither
assumption is idle: TLC refutes `StreamOpenInUse` with `MayFail`, and `JobsInOrder` with
`MayFail` and `Reuse`.

`SoundStreamDataProofs`. `CursorHeard` (`DeliveredAtCursor`) says that what is copied
are the frames at the cursor, whatever was sought before. It is stated for
`Loops = {}` and `StrayHarmless`, as the run is: a loop set while pages are filled breaks it in the code.
`DataInv` has three parts. `SteadyInv`: while no seek is to come, the present page, the other
page and the decoder follow one another from the cursor on, a page that is not valid is
empty and has a job, and the present one is filled first. `AnewInv`: while one
is to come, reading will begin at the start of the first page, and the last
seek is the one to the cursor. `RefillInv` takes that seek, or the load, through both pages
until its end turns it into `SteadyInv`. An older seek fills pages with frames that
`SteadyInv` says nothing of, and the count of seeks keeps the reader out meanwhile.

Only model-checked, since the prover has no liveness: `JobsSettle`, `DetachReturns`,
`EveryJobTaken`, `WorkersEnd`, `CallsReturn`, `KeepsPlaying`. Every invariant and every
action property that a run checks and finds true is a theorem, as are the three
refinements of the native player and the workers, and that of the feed.

## 5. Plan

Next, in this order, each with its instance, hazards and, where marked (P), proofs:

1. `QueueCache`: plans, revisions, tombstones and the byte budget of
   `api/media_runtime.py` (P: the budget is never exceeded);
2. `StreamBuffers` and `StreamUpload`: single flight with waiters, upload
   hand-over, exactly-once cleanup (P);
3. `SearchSnapshots`: revisions across eviction and persistence;
4. `Supply`: candidate and radio snapshots and their retention, composed with
   `HomeFeed`; with it the refilling of the queue as a liveness property;
5. `Replenish`: the API's per-process memo, composed with `HomeJobs`;
6. `Flights`: artwork variants and warm-ups;
7. `WebPlayer` and `PlayQueue`: staged hand-over and queue edits in the client;
8. `Playlists`: revisioned edits of `src/supabase/playlist_edits.sql`;
9. `SoundStream` with posts that fail, several sounds, and positions reported to the app.

Proofs that remain for the present modules: `CursorHeard` for a loop that is set before
the stream is loaded and stays, once the model can say so; `FeedImplementsQueue` with
resets, once revisions outlive a reset.

## 6. Not modelled

Ranking, scoring, text matching and row building (`domain`, `discovery`, most of
`recommend` and `search`) are computations over data without interleaving.
Provider adapters, lyrics, recognition, charts and releases are I/O with
time-limited caches. The assistant depends on a language model's answers. Screens and
widgets are presentation. Of `miniaudio.h`, a vendored header of 95864 lines, only what
`audio_engine.cpp` makes run concurrently is modelled, about 1650 lines: the rest is device
backends of many platforms, decoders, encoders, filters and converters, whose
control is per-platform I/O and whose data is signal arithmetic, so the map covers
a small share of the C code and could cover no large one faithfully.
`dsp_effects.cpp` and `ml_runner.cpp` are placeholders without state. Within the modelled
components: logging and metrics, payload contents, feedback and impressions, the
replenishment memo of the API, and retention of old artifacts and job rows by
the maintenance scripts.
