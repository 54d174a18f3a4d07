# Formal model of wolf-nas-tools

wolf-nas-tools automates a media library: it watches subscriptions, searches sites,
hands torrents to a download client, moves finished files into the library, scrapes
them and reports. This directory holds TLA+ models of the parts of it whose
correctness depends on what happens *between* two steps: another thread, another
process, a crash, a lost reply, a late timer. `PROJECT.json` lists, machine-readably,
every component, run, source line behind a definition, hazard and theorem. Paths below
are relative to `src/src/app/` unless they start with `src/`.

Contents: 1 inventory, 2 how the modules are organised, 3 the task queue, 4 the
distributed lock, 5 the library rename, 6 the subscription's progress, 7 the download
queue, 8 the media flow, 9 runs and bounds, 10 proofs, 11 counterexamples, 12 plan,
13 what is left out, 14 running.

## 1. Inventory

The program is one Python process (FastAPI, APScheduler, thread pools), or several of
them sharing a database and, when configured, Redis. Everything that moves a media item
along is a chain of components connected by durable queues and by events:

    search / RSS strategies -> download queue -> download client -> download monitor
        -> transfer queue -> transfer engine -> scrape queue -> events
        -> subscription progress (missing episodes, finalisation)

All the queues of the chain are instances of one task-queue service, all scheduled jobs
and most critical sections take a distributed lock, and most hand-overs between the
stages are events on the bus. This is why the queue and the lock come first.

| component | state it keeps | operations | talks to | hard behaviour | what makes it correct |
|---|---|---|---|---|---|
| Task queue (`infrastructure/task_queue/redis_stream.py`, `worker.py`) | stream and consumer group, state hash per task, dedup key, dead-letter stream; per worker the claimed task | enqueue, claim, heartbeat, ack, fail, cancel, get | download, transfer and scrape queues; lifecycle actions | each operation is several Redis commands; crash or error between any two; heartbeats outlive their task; overtaking by XAUTOCLAIM | no task lost, honest status, one handler at a time, bounded retries, dead letters, everything settles |
| Task queue, in-process (`memory_queue.py`) | heap, records, dedup map under one lock | the same | the same, when Redis is absent | calls in an order the lock does not exclude; a second queue object | the same contract |
| Distributed lock (`infrastructure/distributed_lock/`) | one record per key in Redis or in the database; heartbeat thread | create_lock, acquire, extend, release | scheduler, subscription strategies, transfer, rename, sync | lost replies, suspension, clock skew, choice of backend | one holder, only the holder ends a lease, orphans go away |
| Subscription progress (`services/subscribe/handlers.py`, `management/`) | missing episodes, current episode, state, history | transfer and failure events, manual edits, finalise, reconcile | search strategies, scrape queue, bus | read-modify-write from five places, half of them without the lock; late events | nothing final before it is transferred, no episode forgotten |
| Search strategies (`services/subscribe/strategies/`, `monitor.py`, `coordinator.py`) | per-key locks, retry records | search round, RSS round, monitor | progress, download core | stale missing set, locks per candidate | one strategy per key, progress |
| Scrape queue (`services/scrape_queue_service.py`) | finalisation receipts | enqueue, handle, finalise, reconcile | task queue, bus | redelivery after a crash between receipt and event | event published at least once, effects once |
| Event bus (`events/`) and message queue (`infrastructure/message_queue/`) | handler table; stream, pending list | publish, subscribe, dispatch | everything | asynchronous types go through the queue; failed messages | handlers run for every published event |
| Message governor (`message/core/governor.py`) | dedup windows, counters, digest buffer | intercept, digest, flush | bus, notification clients | drain before send, lost replies | a notification is sent, counted or in the digest |
| Library batch rename (`services/transfer/library_rename_executor.py`) | job and item rows, file system | run, cancel, rollback, recover | lock, file system | crash between a move and its row; cancel and rollback during a move | every file at its old or its new path, and the row says which |
| Download queue and monitor (`services/download_queue_service.py`, `download_monitor.py`) | download history, active slots, processed set | submit, handle, wait for a slot, poll | task queue, download client, bus | redelivery after the torrent was added; completion marked before it is published | no second torrent, limit kept, completion reported |
| Transfer queue and engine (`services/transfer_queue_service.py`, `transfer/`) | transfer history, files | submit, transfer, finalise | task queue, storage, bus | repeated and partial transfers | idempotent redelivery |
| Directory sync (`services/sync_engine.py`) | files in progress | file event, scan | watcher threads, transfer | bursts of events | one transfer per file |
| Lifecycle read model (`db/repositories/lifecycle_repository.py`) | one snapshot per item, timeline | record event | bus | events late, twice, out of order | monotone by stage |
| Scheduler and job retry (`services/scheduler/`) | jobs, retry counts | register, run under lock, retry | lock | retries under new ids; a busy lock | bounded retries, eventually reset |
| Rate limiter (`infrastructure/rate_limiter/`) | token buckets, concurrency leases | acquire, release | site access | check and add are separate commands | limit kept |
| Request deduplication (`infrastructure/request_deduper.py`) | one entry per request in flight | execute | search | late waiters, purged entries | followers get the leader's result |
| Brush tasks (`services/brush/`) | torrents per task, counters | check RSS, remove | download client | counters against deletions | limits kept |
| Cache, HTTP, thread pools, database session, recognition, sites, clients, agent, plug-ins, web API | caches and adapters | - | external services | - | see section 13 |

The hazards behind the "hard behaviour" column are in `PROJECT.json`, each at the source
line where it bites, with the properties that cover it or the module planned for it.

## 2. Modules

| module | what it is |
|---|---|
| `TaskQueueContract` | abstract specification: what `task_queue/base.py` promises, for any backend |
| `RedisStreamQueue` | the Redis backend with producers, workers, heartbeats and an operator |
| `RedisStreamQueueProofs` | type correctness of it, for every value of the constants |
| `RedisStreamQueueSafety` | its inductive invariants, its safety theorems and the refinement of the contract |
| `DistributedLock` | one lock key: both backends, lock manager, heartbeat, clocks |
| `DistributedLockProofs` | its inductive invariant and theorems |
| `LibraryRename` | one batch-rename job: executor, cancel, rollback, restart recovery, a transfer beside it |
| `LibraryRenameProofs` | its inductive invariant, in five layers, and theorems |
| `SubscriptionProgress` | one TV subscription: search, RSS, scrape workers, failed transfers, manual downloads, clean-up |
| `SubscriptionProgressProofs` | its inductive invariant and theorems |
| `DownloadQueue` | the download queue's requests, worker and pipeline, over `TaskQueueContract` |
| `DownloadQueueProofs` | its inductive invariants and theorems |
| `MediaFlow` | an episode's finished downloads, transfer queue, scrape queue, lifecycle snapshot and reconciler |
| `MediaFlowProofs` | its inductive invariant and theorems |
| `MediaFlowOnceProofs` | the invariant of one round, and why only news takes an episode out of the library |
| `MC...` | constants and symmetry sets for TLC; one `.cfg` per run |

`RedisStreamQueue` instantiates `TaskQueueContract` (`Contract`, `KeepsContract`): a task
is *accepted* when its stream entry exists, *settled* when the entry has been acknowledged
or deleted. The contract says that what is settled was decided before. `DownloadQueue` is
composed with the contract, not with the Redis commands: its queue is
`Queue == INSTANCE TaskQueueContract`, and what it shows holds for any backend that keeps
the contract. The locks of `LibraryRename` and `SubscriptionProgress` are used with the
guarantee `DistributedLock` proves: one holder unless a lease lapsed, and a lease that
nobody owns ends. Both modules assume that the lease of a live holder outlasts its step;
what happens when it does not is `DistributedLock`'s subject.

Definitions commented "a slip" or "mutation" (`AckBeforeHandler`, `DeletesAny`, ...) are not
part of any specification. Each is a plausible wrong version of the definition that follows it; put in
its place, it makes TLC report the property it is paired with in `PROJECT.json` under
"mutants". They document what the property is sensitive to.

## 3. The task queue (`RedisStreamQueue`)

**State and code.** `dedup`, `entry`, `idle`, `hash`, `dead` are what Redis holds: the
dedup key, the entry's place in the stream and the consumer group, whether XAUTOCLAIM
would consider it idle, the state hash, and the dead-letter stream. `enq`, `tries`, `found`
are a producer's position and locals in `enqueue()` and `_reserve_dedup()`; `step`, `task`,
`copy` those of a worker thread (`copy` is its `Task` object); `beats` are heartbeat calls
in flight, each with the copy it serialised; `ctl` is one `cancel()`. `verdict`, `failures`
and `mishaps` are history: which decisions were taken, how many times `fail()` was called,
how often things went wrong.

**One action is one Redis command** with the local computation up to the next one, because
this is the granularity at which the program's threads and processes interleave:

| code | actions |
|---|---|
| `enqueue`, `_reserve_dedup`, `_release_dedup` | `ReserveDedup` (SET NX), `LookupOwner` (GET), `PeekExisting` (HGETALL), `DropPlaceholder` (DEL), `Publish` (XADD), `Unreserve`, `ReleaseDedup`, `RecordInitial` (HSET), `ReserveFails`, `ProducerCrash` |
| `claim` | `Reclaim` (XAUTOCLAIM), `ReadNew` (XREADGROUP), `Hydrate` (HGETALL), `WriteLease` (HSET); a finished task goes to `Xack`, `Xdel` |
| `_run_task`, `ack` | `HandlerSucceeds`, `Xack`, `Xdel`, `WriteSucceeded` |
| `_run_task`, `fail` | `HandlerRaises` or `NoHandler`; `WriteRetry`; `WriteGivenUp`, `AddDeadLetter`, `Xack`, `Xdel` |
| `heartbeat` | `BeatStarts`, `BeatWrites` (HSET of the whole task), `BeatClaims` (XCLAIM JUSTID) |
| `cancel` | `CancelStarts` (the `get` before it), `CancelAcks`, `CancelDeletes`, `CancelWrites` |
| errors, crashes, time | `FinishFails`, the `Mishap("fault")` alternatives, `WorkerCrash`, `GoesIdle`, `BackoffElapses` |

A Redis error is swallowed, retried or turned into an exception exactly where the code does
it: `_write_hash` logs and goes on, an error in `ack()` ends the call, `get()` reads as "no
such task". A command that took effect but whose reply was lost is the failure of the
*following* step, except for XADD, where the code's reaction differs and both are modelled.

**Abstracted.** Payloads, results, priorities and names; every wall-clock value is "ahead" or
"past". One TTL window: neither a dedup key nor a hash expires (86400 s against seconds for
everything else). `claim()` is called with `count = 1`, as the worker does. Two workers are
two processes: a crash takes one worker and its heartbeats.

**Mishaps.** Errors, crashes, stalls (a held entry goes idle), late beats and cancels are
counted; `Budget` bounds each kind and `MaxMishaps` all of them. These bounds exist for TLC;
the proofs hold for every value of them.

**Fairness** (`FairSpec`): weak fairness of a producer's, worker's and canceller's next
command, of `GoesIdle` and of `BackoffElapses`. The threads are ordinary threads that run
until their command returns, the worker loop polls for ever, handlers are assumed to return,
and time passes. Nothing is assumed of mishaps or late beats. Whether a handler succeeds or
raises is not assumed either: `EverySubmissionSettles` holds because retries are bounded.

**Properties.** `NoTaskLost`, `HonestStatus`, `DedupNeverSwallows`,
`OneHandlerUnlessStalled`, `GivenUpOnlyWhenExhausted`, `GivenUpIsDeadLettered`,
`EverySubmissionSettles`, `KeepsContract`, stated with the code behaviour they are about at
the end of the module.

## 4. The distributed lock (`DistributedLock`)

A *session* is one use of the key, from `create_lock()` to `release()`, with a fresh token;
a process that locks again is a new session. `rec` holds the record of each backend.

| code | actions |
|---|---|
| `LockManager.create_lock` | `CreateLock`: Redis if the ping answers, otherwise the database |
| `RedisDistributedLock.acquire` | `RedisAcquire` (SET NX EX) |
| `DistributedLockRepository.acquire` | `DbReadClock`, `DbTakeExpired` (UPDATE), `DbInsert` (INSERT): the clock is read before the statements and they are separate |
| `lock_heartbeat`, `extend` | `BeatStarts` (clock read), `BeatEnds` (compare and expire) |
| end of the work, `release` | `WorkEnds`, `Release`, `StopBeat` |
| processes and time | `Crash`, `Tick` |

Every command may fail with or without having taken effect. Redis counts time itself; the
database compares expiry times written by one instance with the clock of another, and the
clocks differ by up to `MaxSkew`. A failed beat is counted in `missed`; a session that was
suspended past its due time, or whose work without a heartbeat overran, is `late`. Both are
history variables: the code has no idea of them, which is exactly the hazard. `Tick` is never
blocked, so any process may be suspended at any point for any time.

`LeaseAssumption` contains `(Tolerated + 1) * Interval + MaxSkew < TTL`. The heartbeat's
interval is a third of the TTL, so with clocks that agree to within a third of the TTL it
holds with `Tolerated = 1`: one failed beat in a row is harmless, two are not.

`OneHolderUnlessLapsed`, `OnlyHolderEndsLease` and `OrphanFreesItself` are the properties. There
is no liveness property: nothing in the code waits for a lock to become free (callers skip
their work), so the last one bounds in time how long an ownerless lease can block the key.

## 5. The library rename (`LibraryRename`)

`LibraryRenameExecutor.run_job` moves the videos of a job one by one, each with its
subtitles, its transfer-history row and its metadata row, and undoes the four when one
fails. A cancel, a rollback, the recovery at start-up and ordinary transfers touch the
same files and rows.

**State and code.** `job`, `item`, `journal` are the two tables (`journal` is the column
AUX_MOVES); `row` is the side ("old" or "new" path) the history and metadata rows name;
`at` and `asset` are the disk: what is at each item's two paths, and where the subtitles
and the directory's poster are. `jobLock` and `dirLock` are the two kinds of lock. `run`,
`back`, `cancel`, `xfer` are the threads, each with its place in the code and its locals.
`overwritten` and `begun` are history.

| code | actions |
|---|---|
| `execute`, `run_job` | `Submit`, `ReadJob`, `TakeJob`, `Pick`, `Extend`, `Decide`, `End`, `JobFails` |
| `_execute_item` | `Check`, `LockDirs`, `Recheck`, `Move`, `Copied`, `MoveAssets`, `WriteRows`, `WriteDone`; on an error `UndoRows`, `UndoAssets`, `UndoVideo`, `Undone` |
| `_finish_directory_assets` | `Finish`, `LogFinish` |
| `cancel_job` | `CancelRead`, `CancelWrite` |
| `rollback_job` | `RollbackAsk`, `RollbackLock`, `RollbackNext`, `RollbackAssets`, `RollbackVideo`, `RollbackMove`, `RollbackRows`, `RollbackStatus`, `RollbackEnd` |
| a transfer into one of the directories | `TransferStart`, `TransferCheck`, `TransferWrite` |
| process and leases | `Crash`, `LeasesEnd`, `Restart` (`recover_interrupted_jobs`) |

One action is one database transaction or one file operation; a move between disks is two
(`Copied`), because a crash between them leaves half a file at the target.

**Properties.** `SettledItemsAgree` relates what an item's status promises to the disk and
to the other tables; `MovesAreJournaled` is why recovery can work at all;
`RenameKeepsFiles`, `RollbackRestores` and `CompletedMeansSettled` are about the steps of
other threads in between. Known limits, which the module has and the properties state
around: with *two* failing operations `SettledItemsAgree` does not hold (the undo of the
history row fails, is logged, and the item is called failed: executor 205-225), nor does
`CompletedMeansSettled` (the status of an item whose move failed cannot be written, the job
fails, and a second submission that read "planned" before completes it), hence
`MaxFaults = 1`. AUX_MOVES is written only together with "done", so a subtitle moved before a
crash is unknown to a later rollback, hence "where nothing failed or crashed" in
`RollbackRestores`. Recovery looks only at *running* jobs whose lock is free at start-up:
a job that was being cancelled, or whose dead process still has its lease of 1800 s, keeps
its running items. That is why no liveness property is stated.

## 6. The subscription's progress (`SubscriptionProgress`)

One TV subscription: its row (`sub`), its list of missing episodes (`lack`), and every part
of the program that reads the list, changes it and writes it back. `ep` is what became of
each episode, `tasks` the scrape tasks, `receipts` the finalisation receipts, `lock` the
three locks in play, `at` the threads with what they have read.

| code | actions |
|---|---|
| `strategies/`: search of one subscription | `SearchRead`, `SearchYields`, `SearchCheck`, `SearchGrab`, `SearchWrite`, `SearchFails` |
| `reset_stale_searching` | `Watchdog` |
| one RSS round | `RssRead`, `RssYields`, `RssGrab`, `RssWrite` |
| transfer, scrape queue, `_finalize` | `Transfer`, `ScrapeTake`, `ClaimReceipt` |
| MEDIA_EPISODE_TRANSFERRED | `EventDropped`, `EventRead`, `EventState`, `EventWrite`, `EventFails` |
| a failed transfer | `TransferFails`, `Reopen`, `MendRead`, `MendWrite` |
| a manual download | `ManualDownload`, `ManualRead`, `ManualWrite` |
| `reconcile_pending_transfers` | `TidyCheck` |
| `finish_rss_subscribe`, `finalize_tv_by_rssid` | `FinishHistory`, `FinishDelete`, for each caller |
| process and leases | `Crash`, `LeasesEnd` |

The scrape queue's hand-over is part of this module because its order matters here: the
receipt is claimed before the event is published, so that a crash in between loses the
event, and the clean-up has to make up for it.

**Abstracted.** One season, one user, no release upgrade. Taking a lock is merged with the
first step under it. The list and the state a writer leaves are one step, except in the
transfer handler, where `EventState` and `EventWrite` are apart because the state it read
may be stale. `SearchGrab` takes no episode that is or was in flight
(`SubscriptionDownloadGuard`, `filter_downloaded`); an RSS round has no such guard. To both,
an empty list is the whole season. `Scrape` says which worker has which episode; a worker
handles one task at a time. `Keyed` says that the library's answer is found under the key
the caller looks under.

**Fairness.** The monitor's jobs start searches and clean-ups again and again; a thread that
was started runs on; the watchdog and the ends of leases come. Nothing is assumed of RSS
rounds, downloads or transfers: `EventuallyFinished` starts from a season that is in the
library. It needs no event to arrive.

**Properties.** `NothingForgotten`, `FinishedMeansFetched`, `EventuallyFinished`. The first two
are stated without failed transfers, because `handlers.py:373` takes a list that was never
written for an empty one and then writes a list of one episode. After a failed transfer the
history says "downloading", which the guard takes for in flight, so that the reopened search
skips the episode and only an RSS round fetches it again; this, too, is why liveness starts
from a complete library.

## 7. The download queue (`DownloadQueue`)

`submit()` writes a history row with a placeholder id, enqueues a task and deletes the row
when the task is not its own. One worker waits until the downloader is below its limit,
looks for a torrent of the same content, adds the torrent, and replaces the placeholder.

`submit` and `owner` are the requests and dedup keys, `row` the history rows, `worker` the one
consumer with its task, `torrents` and `active` the downloader, external. `accepted`,
`verdict`, `settled` are the variables of `TaskQueueContract`; every step of this module that
touches them is one of the contract's `Accept`, `Decide`, `Settle`.

| code | actions |
|---|---|
| `submit` | `InsertRow`, `Enqueue`, `EnqueueAgain` (the second key after a task that was given up), `EnqueueFails` |
| `_handle_task`, `_wait_for_slot` | `Take`, `Start`, `WaitForSlot`, `Refused` |
| `DownloadPipeline` | `LookUp` (`_reuse_same_content_torrent`), `Add` (`_stage_add`), `StagePost` (`_stage_post`) |
| `TaskWorker._run_task` | `Failed`, `Ack` |
| downloader and process | `Finish`, `AddDirect`, `Crash` |

`DownloadCore.download` holds a lock per torrent link, so two calls of `submit()` for one link
exclude each other; the dedup key is of the torrent's content, and the concurrent requests
of the model are those under different links.

**Mishaps.** `Mishaps` names eight things that can fail, each at most once and `MaxMishaps` of
them in one behaviour: an enqueue that raises (with or without the task in the queue), no
client, a listing that fails, a refusal, an answer that is lost after the torrent was
added, an unusable save path, a history write, a crash. No dedup key expires within the day
the model covers. **Fairness**: the worker goes on, and an active torrent is finished one
day; requests and mishaps need not come.

**Properties.** `AddedOnce`, `OneTaskPerKey`, `OwedHasRow`, `AddedIsRecorded`, `WithinLimit`,
`EventuallySettled`. Where the code falls short, the property names the mishap it excludes: a
torrent that is there already is returned without `_stage_post`, so after a crash or a lost
answer the row stays "queued" (`pipeline.py` 147-164); an unusable save path deletes the
torrent while the task succeeds (589-596); an enqueue that raises although the queue has
the task leaves a task without a row; the second enqueue is outside the handler that deletes
the row (`download_queue_service.py` 167). When all attempts end without a client the row
stays "queued" (312), and a third request after two tasks that were given up is answered
with the second of them (166): the module does both, and no property speaks of them.

## 8. The media flow (`MediaFlow`)

One episode from the finished torrent to the library, and once more when a better release
is downloaded. A *round* is one download. Three workers, the monitor, the half-hourly scan
and the event handlers move it along; each tells the *lifecycle* how far it has come, and a
reconciler repeats what the history tables say every five minutes. The lifecycle was
meant to be read by people; but the transfer queue reads it too, and skips what it says is
in the library. This module composes what the others treat apart: it has the two queues of
tasks with the guarantees `RedisStreamQueue` gives them (a task is delivered again when its
worker died, counts its failures and is given up after `MaxAttempts`).

**State and code.** `snapshot` and `timeline` are the tables MEDIA_LIFECYCLE and
MEDIA_LIFECYCLE_EVENT of the episode, `row` the download history, `placed` the transfer
history, `nfo` the metadata files; `torrent` is the downloader (external), `emitted` the
monitor's `_processed_ids`; `handler` the thread of DOWNLOAD_COMPLETED; `transfer` and `scrape`
the tasks with the steps of their workers, two per round because a task that was given up
frees a second key; `pass` what the reconciler has read and not yet recorded. `clock` ticks
when something is stamped. `found` keeps the date a repeated metadata event was first told
with.

| code | actions |
|---|---|
| `record_event`, `_apply_snapshot` | `Record`, `Project`, in every action that reports |
| downloads | `Request`, `Add`, `Finish`, `MarkCompleted` |
| `DownloadMonitor`, `handle_download_completed` | `Emit`, `Submit`, `Enqueue`, `RecordQueued`; `HandlerDirect` when the queue refuses |
| `DownloaderCore.transfer` | `Scan`, `ScanDirect` |
| `TransferQueueService._handle_task` | `Skip`, `StartTransfer`, `TransferFails`, `Place`, `Duplicate`, `SubmitScrape`, `RecordScrape`, `FinishTransfer`, `AckTransfer` |
| `ScrapeQueueService._run_file_payload` | `StartScrape`, `WriteNfo`, `ScrapeFails`, `RecordScraped`, `RecordPresent`, `AckScrape` |
| `reconcile_recent` | `Reconcile` (the rows are read), `ReconcileNext` (one of them is recorded) |
| a restart | `Crash`, with `_warmup` |

**Abstracted.** The keys of the reconciler's events need not be kept: the same row always
tells the same time, so that `record_event` does the same with a repeated event and a new one.
The keys of a round's tasks are forgotten when the next round is asked for, as nobody tells
them again. The next round begins when the last is settled (`Settled`); rounds that overlap
are two torrents of one episode at once, which the subscription avoids. One file per torrent.
`StageOf` leaves out the stages before the download, `Project` the status, error and title
columns. The library event of a metadata file bears its time, not one second later.

**Fairness** (`FairSpec`): of `Work`, all that the monitor, the scan, the handler and the
workers do, and of the reconciler. The loops run for ever, and the scheduler starts the
reconciler again and again. Fairness to `Work` as a whole assumes less than fairness to each of
its actions, and is enough because the work of finitely many rounds and mishaps ends.

**Properties.** `ShownMeansThere` (the snapshot does not run ahead of the files),
`TaggedMeansHandled` (a torrent leaves the sight of monitor and scan only when it is dealt
with), `LeftOnlyByNewEvent` and `EveryDownloadShown`, all for one round; what a second one does
to the last two is section 11. The exceptions they name are the code's: a scrape that failed
before is thrown back without anything new (below); what the queue refuses is transferred on the
spot and tagged even when that fails (`transfer/handlers.py` 127-135), and a submission answered
with a task that was skipped makes no other (`transfer_queue_service.py` 86-88).
`EveryDownloadShown` says "again and again", since a tagged torrent stays tagged: a worker may
report `scrape.started` late and throw the snapshot back, and only the reconciler repairs it.

`Retried`, the exception in `LeftOnlyByNewEvent`, is a path that takes two attempts and three
mishaps. A scrape writes the metadata and the process dies; delivered again it fails; begun a
second time, it records `scrape.started` under a key of its own, later than the metadata; the
process dies again, and the reconciler brings the episode into the library, dated with the
metadata. Delivered once more the task repeats that key: the event is an old one, but later than
the library's date, and counts as a new round (`lifecycle_repository.py` 64-78). The worker is
at work, and its own end or the next pass brings the episode back. Without the exception TLC
reports the property violated with `MaxAttempts` 2 and three mishaps; the runs have one attempt,
where it cannot happen, and the theorem has any number.

## 9. Runs and bounds

| run | instance | shows |
|---|---|---|
| `redis_delivery` | 1 task, 2 workers, `MaxAttempts` 2; Redis errors twice, a crash, a stall, a beat, a cancel once each, any two of them in a behaviour | all delivery properties, liveness and the contract; 393 thousand states |
| `redis_enqueue` | 2 producers, 1 key, 1 worker; one error and one crash | no submission is swallowed; 197 thousand states |
| `redis_stale_hash` | 1 producer, 1 worker, no mishap | counterexample, section 11 |
| `lock` | 3 sessions, 2 with heartbeats, all on Redis or all on the database; TTL 4, interval 1, clocks apart by up to 1, time up to 5 | lock properties; 2.5 million states |
| `library_rename` | 2 items, 2 submissions, one each of cancel, rollback, transfer, failing operation and crash | files, rows and journal agree; 930 thousand states |
| `rename_rollback` | 1 item, a rollback and a transfer, nothing fails | counterexample, section 11 |
| `subscription_progress` | 2 episodes, 2 scrape workers, one mishap: a failed transfer, a manual download, an exception or a crash | no episode is forgotten; a complete season is finished; 940 thousand states |
| `subscription_finalize` | the same without mishaps | counterexample, section 11 |
| `download_queue` | 4 requests under 3 keys for 2 torrents, a third torrent added past the queue, 2 attempts, a limit of 1, any two of eight mishaps | one torrent each, rows that match, the limit, every task settled; 1.1 million states |
| `media_flow` | 1 round, 1 attempt, 4 mishaps of any kind, the reconciler before the second of them | snapshot, torrents, no return by a repeated event; 3.8 million states |
| `media_shown` | 1 round, 1 attempt, 1 failed transfer or scrape | liveness from torrent to library; 240 thousand states |
| `media_skip` | 2 rounds, no mishap, the reconciler | counterexample, section 11 |

*Why these are enough to be interesting.* Tasks interact only through workers (a worker takes
one at a time) and through a dedup key, so delivery is checked with one task and competition
for a key with two producers. Two workers give overtaking; two attempts give a retry and a
giving-up; two mishaps give, for example, a stall followed by a late beat of the overtaken
worker, or a crash inside `ack()` followed by an error in the redelivery. Three sessions give
lapse, take-over, the late release of the first and a third acquirer; five seconds exceed
the TTL, so that leases of crashed sessions run out. What lies beyond the bounds is covered
by the theorems, which have none.

Two items are the least with an order among them and a job that is half done; two
submissions, because `run_job` reads the status before it has the lock. One fault and one
crash together give a process that dies in the middle of undoing an item. Two episodes in two
workers give the two events that meet at one lock, and a season of which one half is in the
library and the other in flight; the same properties hold without mishaps for three
episodes, too. In the download queue two requests compete for a key and, with a third, for a
content; two attempts and two mishaps let a task be given up and asked for again, or lose
an answer and then the process. With a third request under the same key instead of one
under another the properties hold as well.

`NoFailover` (in `MCDistributedLock`) has all sessions of a behaviour use one backend: the
properties are about each backend by itself, and with both in use the instance is too large.

One round is enough for what happens to a torrent, since nothing of a round but the snapshot
and the directory is read by the next; two rounds are what the snapshot can confuse. Three
mishaps give up both transfer tasks of a torrent and fail the transfer on the spot; four, two
crashes and two failed scrapes, give up both scrape tasks and bring the file to the thread.
`CalmReconciler` (in `MCMediaFlow`) keeps the reconciler, and the mark in the history that only
it reads, out of what comes after the second mishap, for size; the theorems `TypeCorrect`,
`ShownIsThere`, `NothingTaggedUnhandled` and `OnlyNewsLeavesLibrary` cover it. With two mishaps
of any kind and the reconciler throughout, 4.3 million states, all four properties hold as well.

Deadlock checking is off in all runs but those of `MediaFlow`, where the reconciler always can
begin another pass: a finite set of tasks or sessions is used up, and then
the system rests; a rename job, a finished subscription and a set of requests end, too. That
nothing gets stuck before that is `EverySubmissionSettles`, `EventuallyFinished` and
`EventuallySettled`. The symmetric runs check no liveness.

## 10. Proofs

All theorems hold for any number of tasks, workers, keys, sessions, items, episodes and mishaps
and any values of the constants that satisfy the one assumption of their module
(`ConstantsAssumption`, `LeaseAssumption`, `RenameAssumption`, `SubscriptionAssumption`,
`DownloadAssumption`, `MediaFlowAssumption`). These bound the constants' types, keep the names of
threads apart and, for the lock, relate TTL, interval and skew. Two theorems of the library rename
have the hypothesis `MaxFaults <= 1`, one of the media flow `~ Neighbour` and one `Rounds <= 1`,
too; each says below why.

**Queue.** `TypeCorrect` first. None of the safety properties is inductive by itself: a status
in the hash is honest only because every *copy* of it is - in a worker, in a heartbeat in
flight, in a canceller - and an entry is decided when it leaves only because the steps on the
way to XACK are reached after a decision. `FateInv` collects these facts (`HonestStatus`,
`HonestWorkers`, `IdleWorkers`, `HonestBeats`, `HonestCancel`, `FinishingIsDecided`,
`NoTaskLost`) and gives `TasksAreNotLost` and `StatusIsHonest`. `CountInv` bounds every copy of
the attempts counter by the number of `fail()` calls (`AttemptsAreExhausted`). `PublishedInv`:
a hash, a copy or a beat exists only for a published task (`SubmissionsAreNotSwallowed`).
`ExclusionInv` relates the pending entry, its idleness and its holder as long as nothing has
stalled (`OneHandler`). `LettersInv` follows a given-up task through hash, dead letter, XACK
and XDEL (`DeadLettersAreKept`). `QueueKeepsContract` maps every step to a step of
`TaskQueueContract` or a stutter; it needs `FateInv` for *Settle*, `PublishedInv` for
*Decide*, and for *Accept* that an entry is published once (`FirstPublication`).

**Lock.** `ClockInv` says what the times in a session's locals may be relative to `now`.
`SecureInv` is the argument of the lease: a session that works and has not lapsed owns the
record of its backend, and the record outlasts the session's next due time plus the beats it
may still miss, on every clock. Together they give `OneHolder`, `LeaseEndsByHolder` and
`OrphansFreeThemselves`.

**Library rename.** The invariant grows by layers, each proved on top of those before it.
`LockInv`: whoever is past its lock step holds it, so at most one runner or rollback works on
the job (lemma `Alone`), and a transfer holds its directory. `StatusInv` relates a thread's
place to the status of its item: "running" before anything of it moves, "planned" before that, and
exactly the done ones are left to a rollback. `FilesInv` says for every status and every place of every
thread where the video is, what may be at the other path, and that the path a runner or a
transfer has just found free is still free, because of the directory's lock. The four
together (`JournalInv`) give `FilesKept` and `Journaled` for any number of faults and crashes,
and for a rollback, too, which breaks only what `RenameKeepsFiles` leaves to it. `RowsInv` adds
the two tables. It has an unconditional part, which gives `DoneAgree` (what "done" and "rolled
back" promise of disk and tables), and a part for `OneFault`: a runner that undoes has spent its
fault, hence its undo succeeds. From this `SettledAgree`. `SettledInv` follows the running
items: each has a runner at it, or belongs to a job that nobody works on any more and that
is no longer planned, which is why no second submission can complete it (`CompletedSettled`). Both
theorems are about `MaxFaults <= 1` and any number of crashes; with two faults TLC finds both
properties violated (section 5), so the hypothesis is what the code needs, not what the
proof does. `RestoreInv` follows every subtitle and the poster: what is not at its old place is
named by the journal of a done item the rollback has still to come to, or carried by a runner
that is about to write it down (`Found`). It gives `RestoredByRollback`.

**Subscription progress.** `SubscriptionAssumption` keeps the names of workers and threads
apart. `TypeInv` adds to `TypeOK` that a scrape worker is at one of its episodes.
The list of missing episodes is read, changed and written by five kinds of threads, some
of which read it before they have the lock, so what is true of the row must be true of every
copy in flight. `ListInv` says, while no transfer has failed: the row of the list, if there is one, has
every episode nobody has fetched (`ListComplete`); so has what each thread has read
and will write (`ThreadsOwe`, with `Owes` for one thread's place); CURRENT_EP, from which a lost
list is made anew, is not past one (`CurrentBehind`); and a thread that is about to finish the
subscription, or has, left none (`HistoryLast`). Lost updates only put episodes back on the
list, never take them off. This gives `NothingIsForgotten` and `FinishedIsFetched`.

**Download queue.** `TypeInv` adds to `TypeOK` that the worker tries only tasks that were not
given up, which bounds the attempts. `RowInv`: a request whose `submit()` is under way has no
task yet and keeps its row, so the deletion after a duplicate answer never hits an accepted
task (`OwedTasksHaveRows`). `KeyInv`: every task holds one of the two places of its key, and
the second opens when the first was given up (`KeyHasOneTask`). `OnceInv`: between look-up
and addition no torrent of that content arrives, because there is one worker and what is
added past the queue has other content (`TorrentsAddedOnce`; this is the assumption
`Direct \cap Contents = {}`). `TryingUnrecorded` and `RecordInv`: a task that still tries has
no torrent in its row, so giving it up cannot take the id of another one away
(`TorrentsAreRecorded`). `LimitInv` counts the queue's torrents and those past it separately
(`LimitIsKept`).

**Media flow.** `MediaFlowAssumption` only bounds the constants' types. Events come late,
twice and out of order, so the argument cannot follow their order: `ProjectStage` says that an
event leaves the stage or sets its own, whatever the times, and `ShownStep` that whoever tells
a stage from "transferred" on has the file, or the metadata, at that moment, and files only
become more. `IInv` has what each teller needs for that: a transfer task beyond its transfer
has its file in its place (`TransferSteps`), only what is placed is scraped (`ScrapeSteps`), and
the reconciler's rows of the transfer history stay true after they were read
(`Reconciling`). This gives `ShownIsThere`. `NothingTaggedUnhandled` needs `NfoSubmitted`, too: a
duplicate with metadata is tagged without being submitted because it was submitted before.
`EnqueuedQueue`, `StepQueue`, `FailedQueue` ... are about any queue and serve both.
`AloneMeansDescribed` shows that the neighbour's metadata are the only way to the
counterexample of `MediaFlowNeighbour.cfg`.

`OnlyNewsLeavesLibrary` is about order after all, and needs dates. It assumes one round and no
neighbour: with either more, TLC finds the property violated. An old event throws the snapshot
back only if it begins a round and its date is later than STAGE_STARTED_AT (`Leaves`), and that
is never before the metadata (`Shown`, from `Present` and `Repeated`: what brings an episode
into the library is told after them, or dated with them). So it is enough that an event which
was told late, after the metadata, is never told again. `RoundInv` says for each that could be
who is left to do it: nobody for `transfer.queued`, since its handler rests and the torrent is
emitted (`LateQueued`); nobody for `scrape.queued`, since no transfer is about to submit
(`LateSubmitted`); `transfer.started` is told only outside the library; a scrape that never
failed told its start before it wrote (`Begun`), as no task is made of a file that has its
metadata (`Unneeded`, which is where the order of the two keys matters, `InTurn`). `Tidings`
says of each step what it may tell (`Due`); `Changes`, `TransferTasks` and `ScrapeTasks` say
once for all actions what becomes of a variable and of a task.

**Only model-checked.** Liveness (`EverySubmissionSettles`, `EventuallyFinished`,
`EventuallySettled`, `EveryDownloadShown`: fairness is outside the proof system), and the
counterexample runs. Every safety property of a passing run is a theorem; one of them,
`LeftOnlyByNewEvent`, only with the two hypotheses above.

## 11. What the counterexamples show

Four runs show where the program does not do what it says of itself:

* `redis_stale_hash` / `SettledReadsTerminal`: `enqueue()` writes the initial HSET after XADD; a
  fast worker finishes in between, and its SUCCEEDED is overwritten by QUEUED for the rest
  of the TTL, while a test asserts that `get()` reports SUCCEEDED after `ack()`.
* `rename_rollback` / `NothingOverwritten`: `docs/decisions/ADR-024-library-batch-rename.md:34`
  has rename and transfer exclude each other by directory locks. `rollback_job` takes only
  the job's lock: a transfer writes a file to the path the rollback has just found free, and
  the move back replaces it.
* `subscription_finalize` / `FinishedIsTransferred`: `docs/changelog.md:476` says that a
  subscription is finished only when everything was transferred. Episodes leave the list
  when they are *grabbed*; the transfer of the last one on it, arriving first, finishes the
  subscription while another is still being downloaded.
* `media_skip` / `SkipsOnlyWhatIsPlaced`: ADR-026, line 71, says that the lifecycle must not
  decide about transfers. `_handle_task` lets it, and the reconciler puts the snapshot back to
  "in_library" with the event of the *first* download while the second waits in the queue: its
  task is acknowledged as skipped. The torrent is complete and untagged, but the queue answers
  the scan with the task that "succeeded".

Four more instances are kept beside them, to be run by hand. TLC reports each one's property
violated; none needs a failure:

* `RedisStreamDuplicate.cfg` / `NoDuplicateEnqueue`: `base.py:49` promises that an existing
  dedup key returns the existing task. `_reserve_dedup` takes a reservation whose task hash is
  not yet written for an orphan and deletes it. Two simultaneous submissions both publish.
* `DistributedLockFailover.cfg` / `MutualExclusion`: `db_lock.py:12-13` promises mutual
  exclusion when Redis is away. The backends do not know each other; one failed ping gives the
  key out twice.
* `MediaFlowStay.cfg` / `StaysShown`: the comment at `lifecycle_repository.py:33-34` explains how
  repeated events are kept from throwing a finished item back. After a second download they do:
  the repeated library event of the first one sets STAGE_STARTED_AT to its own time, and the
  repeated "downloading" of the second then counts as a new round, pass after pass.
* `MediaFlowNeighbour.cfg` / `InLibraryMeansDescribed`: the comment at `lifecycle_service.py:565`
  wants an NFO as a proof that metadata are on disk; `_find_nfo_time` takes that of any episode
  in the directory.

The reverse order in `enqueue()` (hash first) would cure the first and narrow the window for two
submissions, but break `DedupNeverSwallows`, as the slip `PublishAfterHash` shows: the order is
deliberate, the test for abandoned placeholders is what does not fit it.

## 12. Plan

Done: the queue and its contract, the lock, the subscription's progress with the scrape
queue's receipt, the library rename, the download queue over the contract, and the media
flow from the finished torrent to the library, and their theorems. Left, in this order:

1. `MemoryTaskQueue`: the second implementation of `TaskQueueContract`. Theorem: it keeps it
   as long as the process lives.
2. `MessageStream`: bus, asynchronous event types and the Redis message queue; what happens
   to a message whose handler failed or whose closure was not transported.
3. `RequestDeduper`, the concurrency leases of the rate limiter, the digest buffer of the
   governor, the retry chain of the scheduler: small modules, as far as they prove worth a run.
4. In `MediaFlow`: the scan of the library and the library index as further sources of the
   snapshot, torrents of several files, and rounds that overlap.

## 13. What is left out

Media recognition, name parsing, filtering and ranking are functions of text and belong to
the table-driven tests they have. HTTP clients, site parsers, download, media-server and
storage clients are adapters of external services; the models treat what they talk to as
external. The cache layer only repeats work when it is stale. The database is external: a
session is one transaction and one step. Of the media flow, these are not modelled:
stale marking and heartbeats of the lifecycle, its manual retry, pause and grouped views, the
records of the library index and scan, torrents of several files, files of the same name but
another size, the ten minutes in which a duplicate is not scraped again, and how a file is
scraped. The agent, plug-in framework, web API and user management have no protocol of their
own between concurrent actors. `PROJECT.json` gives the reason for each.

## 14. Running

    tlc -workers 2 -config RedisStreamDelivery.cfg MCRedisStreamQueue.tla
    tlapm RedisStreamQueueSafety.tla
