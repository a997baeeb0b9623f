# A verification project for gmlx

gmlx serves GGUF models on one Mac: chat models, image and video pipelines,
speech and embedding services, all behind one HTTP process that shares one
GPU and one memory. This directory models the parts of the server in which
several threads share state, checks the models with TLC and proves what
matters most with TLAPS.

The code's paths below are relative to `gmlx/serve/` unless they say otherwise.

## The system

### Components, their state and operations

| component | code | state | operations |
|---|---|---|---|
| residency pool | `residency.py` | the entries (model, footprint, in-flight count, retained count, order of use), bytes being built, bytes being torn down, the build lock | `acquire`, `release`, `mark_retained`, `evict`, `clear`, `reap_idle`, the LoRA turn |
| single workers | `subservice.py` | one thread with a FIFO queue per service; the thread that holds it | `submit`, `reserved`, `run` |
| preload and unload routes | `patches/routes.py` | the preload's holds | preload with retries, `/unload`, `/v1/reload` |
| video jobs | `video_jobs.py`, `patches/videos.py`, `patches/body_intake.py`, `gmlx/video/io.py` | the job table, its records on disk, files of a job, who serves them | `submit`, `drive`, `delete`, `sweep`, `abandon`, restart |
| engine loop | `gmlx/_vendor/mlx_vlm/server/generation.py` | the request queue, cancelled uids, the `active` map, the generator | collect, insert, step, stop |
| engine tick guard | `tick_guard.py`, `patches/row_failed.py` | per row: prompt, committed tokens, rebuilt or not; streaks; the mailbox of failed rows | retry a tick, rebuild a row, fail a row and tell its client |
| batch scheduler | `gmlx/_vendor/mlx_vlm/generate/ar.py`, `batch_sched.py`, `gmlx/cache/fresh_gate.py` | rows pending, in prefill and in decode; decode owed to a chunk | one tick; hide prefill while decode is owed; hold a follower |
| admission gate, queue cap | `admit_gate.py`, `queue_cap.py`, `capacity.py` | the waiting requests | decline a row, refuse past the cap |
| memory governor | `governor.py`, `auto_ratio.py` | level, armed rungs, cooldowns | one tick of the pressure ladder |
| engine jobs, GPU share | `engine_jobs.py`, `gpu_share.py`, `patches/jobs.py` | jobs queued for the engine's thread, diffusion jobs under way | queue, start, advance, stop |
| image and video services | `image_service.py`, `video_service.py`, `image_steps.py` | pipelines, LoRA caches, uploads | requests on the workers |
| engine bridge, routes | `bridge_vlm.py`, `patches/*` | per-request context | request parsing, prompt building |
| lifecycle, live requests | `lifecycle.py`, `live_requests.py`, `server.py` | the running requests | start, stop, publish |
| memory measures | `memory.py`, `mem_preflight.py`, `estimate.py` | none of its own | measure, price |

Outside `serve/`: prompt caches (`gmlx/cache`), expert streaming
(`gmlx/stream`), speculative decoding (`gmlx/spec`), model loading and
architectures (`gmlx/load`, `gmlx/models`), tools, interfaces and launchers.
`gmlx/_vendor` is third-party code.

### How they interact

Request threads call `acquire`; a miss loads the model, after evicting others.
An image or video pipeline may only be touched on its service's worker, so a
load that makes or evicts one first *holds* that worker: it queues a job that
keeps the worker idle and runs the holder's own calls. Workers are held in the
order image, video, then the build lock is taken. The pool's inner lock
protects a few assignments at a time. Chat models run on the engine's own
thread, which ticks over a batch of rows. gmlx wraps the vendored engine's
`_next` several times over: from the outside in, the tick guard, the governor,
the fresh gate, the admission gate and the pacer, each of which may change what
the stock body sees of the queue. Client threads put requests on the engine's
queue and cancel by uid; a job (a decision, a diffusion run) is put on the same
queue and runs between two ticks. Every resident model has an engine of its own.

### What is hard

* A decision under the inner lock is used after waits: the workers a load
  reserves are those of the entries that *would* be evicted *now*.
* A release that waits on a worker while the build lock is held would deadlock
  with a reservation waiting for that lock.
* Every step of a load may raise, with room booked and victims half torn down.
* Counts (in-flight, retained, tearing bytes) are kept apart from what they
  count (holds, pipelines).
* Video jobs outlive the process; a crash comes between any two of their writes.
* A tick can throw in its decode, in its prefill or between: what it had already
  moved or decoded is then in no place, and the guard goes on from there.
* Uids are counted anew by each generator, and are used across generators
  (cancels) and across engines (the mailbox).
* A row is hidden, held, paced, declined, retired and requeued by five wrappers
  which do not know of each other: together they must not hold it for ever.
* The stop of an engine is a flag and a sentinel, and callers wait on its queue.

What correctness means: for the pool, a model in use is not unloaded, counts
equal what they count, the byte budget is exceeded only when there is no
choice, every call ends; for video jobs, a job ends once, its record tells the
truth after a restart and its files go with it; for the tick, a row is in one
place, the ledger is what the client has, a reply never exceeds its budget and a
failed row's client is told; for the gates, every request ends; for engine jobs,
a job is answered once and its caller does not wait for ever.

## Modules

| module | what it is |
|---|---|
| `ModelPool` | the contract of the pool: a model a request relies on is loaded until the request is done with it |
| `Residency` | the pool with the two workers: 26 actions, the properties |
| `MCResidency` | instances for TLC |
| `ResidencyProofs` | types, the build lock, the record of a call |
| `ResidencyHolds` | one load per model, holds and counts, the contract of `ModelPool`; who waits for which worker, the attempts of a load |
| `ResidencyRoom` | the booked room, the bytes being torn down, the order of use and the budget |
| `VideoJob` | the contract of a video job: it ends once and stays ended, whatever crashes |
| `VideoJobs` | the store of video jobs with the POSTs, the driver, the sweep and the disk: 38 actions, the properties |
| `MCVideoJobs` | instances for TLC |
| `VideoJobsProofs` | types, records and clips on disk, the life of a job, the contract of `VideoJob` |
| `VideoJobsPosts` | POSTs and their files, the queue, the uploads' bytes, the sweep's total, whose clips there are |
| `ReplyStream` | the contract of a reply: it waits, streams at most its budget, and ends once |
| `EngineTick` | the engine's loop and one tick with its gates and guard: 12 actions, the properties |
| `EngineShared` | the same engine beside another one, through the mailbox they share |
| `MCEngineTick` | instances of both for TLC |
| `EngineTickProofs` | rows, streams and the ledger; the contract of `ReplyStream`; cancels, counts, the gate; types |
| `EngineJobs` | the lane of jobs and the stop, on an autoregressive and on a diffusion engine: 18 actions, the properties |
| `MCEngineJobs` | an instance for TLC |
| `EngineJobsProofs` | types, the lane, one answer for each job |
| `Selections` | the subsequence at given positions, without recursion |
| `FiniteSums` | lemmas: greatest and least members, sums over finite sets |

### Residency and the code

A call of the pool is a walk through places `pc[t]`:

| place | code | actions |
|---|---|---|
| `idle` | outside the pool, or in `acquire`'s fast path | `AcquireHit`, `AcquireMiss`, `UseWorker`, `MarkRetained`, `Release`, `Unload` |
| `reserve` | `_worker_for` decides the workers under `_lock` | `Reserve` |
| `queue` | `_reserved_workers` waits for each, then for the build lock | `Submit`, `TakeBuildLock` |
| `locked` | under the build lock, one hold of `_lock` | `RecheckHit`, `Widen`, `MakeRoom`, `Detach` |
| `tear` | `_teardown_all`, `_release_images`, `_build` | `TearChat`, `TearPipeline`, `Free`, `QueueRelease`, `BuildOk`, `BuildFails`, `BuildRepriced` |
| `refit` | `_fit_repriced`'s teardown, then the insert | `TearChat`, `TearPipeline`, `Abort`, `Insert`, `InsertFails` |
| `leave` | the `with` blocks end | `Leave` |
| `late` | releases after the build lock | `QueueRelease` |

`call[t]` holds the call's local variables: `force` and `want` are the sets of
workers, `attempt` the loop's counter, `then` what follows the teardown
(`build`, `insert`, a retry, an error). `torn[t]` and `rel[t]` are the lists
`torn` and `released`/`late`. A worker's queue holds reservations, jobs and
releases; it is *held* by the thread whose reservation is at its head.

`holds[t]` is the set of `_BusyHold`s of a thread; a hold whose entry was torn
down is an `orphan`, and its release touches the old entry object, not the one
that replaced it.

Abstractions, and why they lose nothing the properties speak of:

* each hold of `_lock` is one action: the code between is sequential;
* the LRU order is the relation `older` (who was touched before whom), not the
  counter `seq`: only comparisons of `seq` are used;
* the TTL clock is a choice: an entry is past its TTL whenever it suits the
  reaper, and the server's own in-flight count is always zero, the worst case
  for the reaper's check of holds;
* one key per path, so `evict` of a path takes one entry;
* a model's price is a constant; the price of a streamed model may be wrong by
  `Extra`, which is the refit;
* keep marks, the published figures, the LoRA turn with its ledgers, and what
  a build does inside its environment window are left out.

### VideoJobs and the code

`self.jobs` is `known` and `rec`, `self.pending` is `arriving` and `reserved`;
the driver's executor is `queue`. On disk are `record[j]` (`jobs/<id>.json`),
`inputs[j]`, and the sets `clip`, `part` and `links` of the jobs with such a
file. Every method of the store runs under its lock, so a method is one action,
with one exception: the files it removes. They wait in `todo` and go one by one
(`FileStep`) while the lock stays taken (`Free` is false), so that a crash can
come between any two. The sweep is a hold of the lock in parts (`sweep.at`):
expired jobs, then orphans, then evictions down to `StoreMax`.

A POST walks through `post[j]`:

| place | code | actions |
|---|---|---|
| `new` | the check before the body | `Full` |
| `begin`, `take`, `sweeping`, `taking` | `begin`; `take` with the sweep it starts | `Begin`, `TakeSweep`, the sweep, `Take` |
| `write`, `settle` | the form's reader, or the thread that decodes a data URL | `WriteInputs`, `Refuse`, `Settle` |
| `submit`, `handoff` | `submit`; past the lock, the driver's executor | `Submit`, `SubmitFull`, `SubmitRefused`, `Handoff` |
| `abandon` | `_Post.abandon` of a refused or cancelled POST | `Abandon` |
| `done`, `over`, `stopped` | over; `stopped`: the client left | |

A client that leaves (`Leave`) ends the coroutine and not the call it has in a
thread: that call goes on, the abandon may run before or after it, and
`ended` is `_Post._ended`, which makes a later call do nothing.

The driver is at `run` (no file yet), `mux` (the `.part` is open), `finish` or
`fail` (the record is next), `clean`, `sweep` and `sweeping`. `Crash` keeps only
the disk; then `RestoreJob` reads the records one by one and `RestoreRest` ends
the restore with a sweep. A write of a record may fail, and then leaves the old
one (`ok`): the code writes aside and renames.

Abstractions:

* what a clip computes is: it opens its `.part`, and renames it, raises or sees
  its stop; the wait for memory and the progress are part of that;
* the sweep's removal of orphans is one step: no record names them, so a crash
  among them leaves orphans for the next sweep;
* `take` runs once for a POST, for all the room it needs, and sizes are small
  numbers: a form reserves one more than its file takes, which is what `settle`
  gives back, a data URL exactly its file;
* at most one answer at a time sends a clip of a job;
* the clock stands while the lock is held;
* unlinks do not fail, and there are no foreign files.

### EngineTick and the code

A turn of `_run_impl` is a walk through `pc`:

| place | code | actions |
|---|---|---|
| `collect` | `_collect_pending_requests`, then the cancelled uids | `Collect` |
| `insert` | the loop over `new_items`, `BatchGenerator.insert`, the turn of the generator | `Insert`, `EmbedRaises` |
| `govern` | the governor's part of `_next`: a row retired or failed, or nothing | `Govern` |
| `step` | the gates, the pacer and the stock body under the guard | `Tick`, `TickThrows` |
| `deliver` | `_step` after the tick, then the bridge's mailbox | `Deliver` |
| `raise` | the bridge's `finally`, then the loop's `except` | `Raise` |

`pending`, `prompt` and `batch` are the generator's three places of a row.
`Tick` is composed in the order of the wrappers: `Cuts` is what the fresh gate
leaves of the queue, `Passed` what the admission gate lets through of that (all,
the head past the ceiling, or nothing), `Paced` whether the pacer hides it, and
`StockTick` what the stock body does with it: decode first, then one prefill
chunk, an admission or the join of a finished prompt batch. `TickThrows` is the
same up to the point where it throws (`Points`: in the decode, after it, in the
prefill, in building a prompt batch); the rows in flight there are lost as they
are in the code, and `dropped` remembers whose they were. `ContainMemory` and
`LetThrough` are the guard's answers.

Abstractions:

* a token is a count, a prompt its number of prefill chunks; whether a row stops
  is free;
* what fits, when the governor sheds and where a tick throws are free, within
  `MaxTrouble`: the code decides them from measured bytes;
* a client's step is taken at `collect`, the only place where the loop reads
  the queue and the cancels; a step taken earlier commutes to there. `TimeOut`
  may come at any place: it is what ends a request a fault dropped;
* the credit of a declined row counts ticks, not seconds, and decode owed to a
  chunk is a number of ticks up to `MaxOwed`;
* the order of the rows in a batch is left out: no decision depends on it;
* a uid starts at 1, so that 0 says "none".

`Selections(s, K)` is the set of the one subsequence of `s` at the positions `K`.
It stands for `SelectSeq`, of which the provers know nothing.

### EngineJobs and the code

`pc` walks through one turn of `_run_impl` as `_collect_pending_requests` is
wrapped by `engine_jobs.py`: `check` (the loop's condition), `take`
(`_take_queued`), `advance` (one step of one job), `collect` (the original),
`start`, `halt` (the stop of the jobs) and `tick`. A diffusion engine, chosen
by `diffusion` in the initial state, walks through `check`, `collect`, `serve`
and `run`. `told[j]` is what was put on the job's own queue. A stop is two
steps, `SetStop` and `PutSentinel`, as in `stop_and_join`.

Abstractions: a chat request takes a row and may keep it for ever, which is the
worst case for a job; a step of a job is one action, so that a stop event set
during it may be seen or not (`Answers`); the GPU's state is left out. The stop
may come at any time, also while a job is on the engine: a server's shutdown and
an unload wait for no job whose caller has timed out.

## Runs

| run | asks | instance |
|---|---|---|
| `residency_loads` | do cold loads race well: one load per model, counts true, room booked and given back, no wait under the build lock, budget | 3 threads, 4 calls between them, a streamed chat model that may turn out larger, an image and a video pipeline; a budget that holds one of them and not two |
| `residency_unloads` | does the pool keep its contract beside a preload, all four unloads and the reaper; is a hold on an entry torn down since dropped without touching the count of the one loaded after it | 3 threads, 4 calls, a chat model and an image pipeline under a count cap of one and no byte budget, so that every second load evicts |
| `residency_live` | does every call end | 2 threads, 4 calls, loads, worker jobs and unloads |
| `video_crash` | does a job keep its contract, its clip and its inputs wherever a crash or a failed write falls, and does no clip stay that no record will remove | 2 jobs, a clock of two instants, 1 failed write, 2 crashes |
| `video_uploads` | do POSTs that race leave nothing behind, overfill nothing and keep their inputs; does the sweep count honestly | 3 jobs, a queue of 1, a store that holds one clip and a half |
| `video_live` | does every job end | 2 jobs (a form and a data URL), a clock of two instants, 1 reload |
| `video_stuck` | the same with 1 failed write: **violated** | 1 job |
| `video_left_clip` | is a clip in the store a completed job's, over 1 crash: **violated** | 1 job |
| `video_late_keyframe` | does an ended POST leave nothing, for a data URL: **violated** | 1 job |
| `engine_tick` | does a tick lose, double or orphan a row, does the guard's ledger stay true, does a reply keep its contract, does every request end | 2 requests of 1 and 2 chunks, 2 tokens each; width 3, 2 at a time in a prompt batch; 3 units of trouble, 1 client that closes |
| `engine_crossed` | is a failed row's client told, beside another engine: **violated** | the same with 1 shed of each engine |
| `engine_jobs` | is a job answered once, does every caller end its wait | 2 jobs, one with a deadline, 1 chat request, 1 row |

Bounds: `Calls[t]` calls of each thread, `MaxHolds` models held at a time by
one thread. Three threads are what the hazards need: one holds the worker, one
the build lock, a third makes a pipeline idle in between. With these calls
every kind of eviction happens while another load waits; the retry loop is
taken, and the mutants show that each property notices the fault it is
there for. `Over` lets the bounded instance stop when every call is made, so
TLC's deadlock check is on in every run: any other stop would be a real one.

The bounds of the video runs: two jobs are what a race of the driver with a
sweep, a cancel or another POST takes, and three what an eviction beside two
POSTs takes. `TTL` is 1, so with `MaxTime` 1 jobs expire in the queue, when
they end and after a restart. Two crashes let the second
fall in the restore that follows the first; the proofs hold for any number. `Rest` lets the instance stop when every POST
is over and the driver is idle: any other stop is a deadlock.

The bounds of the engine's runs: two requests are what a prompt batch of several,
a victim among several and a uid used again take. `Width` 3 with two requests
leaves room to admit beside a decoding row, `DeferMax` 1 lets the gate decline
and then pass, `MaxOwed` 1 paces. `Cost` weighs kinds of trouble: three units
allow three memory errors (retry, rebuild, fail) or a retire among them, or a
GPU fault twice and a third kind; an exception that ends every request costs all
three, for nothing is left to happen. `SortingOrders` and the length of a replay
make a rebuilt row lose its place at the head when another request is inserted,
as in the code. In `engine_jobs` the chat request fills the batch (`MaxSeqs` 1).
Deadlock is not checked in these: an engine whose requests have ended stops.

The violated runs are disagreements of the code with what it says of itself:

* `video_stuck`: `drive` writes the record of a job that starts outside the
  handler that ends a failed one (`video_jobs.py:625`). When that write fails
  the job stays in progress until a DELETE or a restart, against
  `docs/video-api.md:105`, where a job ends completed, failed or cancelled.
* `video_left_clip`: a running job cancelled after its clip was renamed, then a
  crash before the cleanup: the restart keeps the clip, as the record says
  cancelled, against the comment at `video_jobs.py:250`.
* `video_late_keyframe`: the thread that took room for a data URL writes its
  file after the abandon of its POST (`patches/videos.py:180`), against
  `patches/videos.py:80`: a call in its thread leaves nothing behind. The next
  sweep removes it.
* `engine_crossed`: the mailbox of failed rows is one list of the process keyed
  by uid, and each engine's step empties it (`patches/row_failed.py:83`). Two
  engines that tick at the same time take each other's notices: the failed
  row's client waits out its token timeout, against `patches/row_failed.py:8`.
  With one engine `FailedIsTold` is a theorem.

`ClipIsOwned` and `PostLeavesNothing` hold without a crash and for forms:
`video_uploads` checks them there, and `video_crash` what is left of the first
over crashes (`ClipHasRecord`), as `video_live` checks `EveryJobEnds` with
writes that succeed.

Fairness (`video_live`): weak fairness for the driver's thread, for the steps of
the lock's holder (`FileStep`, `Sweep`) and for a POST between `submit` and the
handoff. These are threads that run straight code and wait only for the store's
lock, which every holder gives back. No fairness for clients, the clock or
arriving POSTs. The lock is contended a finite number of times, so a weakly fair
driver is not overtaken for good.

Fairness (`residency_live`): weak fairness for a thread in a call and for each
worker. A thread in a call runs straight code, waits only for workers and the
build lock, both of which are released by such threads, and the workers run
their queues in order. No fairness is assumed of what clients do: a request
may hold its model for good and no call waits for it. The build lock is a
`threading.Lock` without fairness of its own; with finitely many calls no one
is overtaken for good, so weak fairness is enough here, and starvation by
endless new calls is not excluded by the code nor claimed.

Fairness (`engine_tick`): weak fairness for the engine's thread, which loops over
straight code and waits only for its queue when it has no work, and for `TimeOut`,
the token timeout with which a client waits for its next item
(`generation.py:932`). `TimeOut` is enabled only for a request whose row a fault
dropped, so it cannot hide a gate, a pacer or a queue that holds a request for
ever. Which row stops, what fits and where trouble falls stay free: trouble is
bounded by `MaxTrouble`, and a row that never stops by itself ends with its budget.
No fairness for what clients submit or close.

Fairness (`engine_jobs`): weak fairness for the engine's thread, for `PutSentinel`
(the line after the flag in `stop_and_join`), for a caller that reads an answer
which is there, and for a deadline that runs out. None for the stop, a
disconnect, or new jobs and chats; a chat that holds the batch may never end.

## Theorems

All for any finite set of threads and models, any prices, pins, budget, cap and
number of calls, from `ConstantsAssumption` alone.

* `TypeCorrect` (types), `MutualExclusion` (the places of the build lock's
  holder), and `Core`, which adds `CallInv`: what a call's record, its victims
  and its place have to do with each other. `Core` is what the others rest on.
* `LoadedOnce`: `NoDoubleLoad` is inductive beside `Core`; the second look
  under the build lock is what keeps it.
* `InUse`: `HoldInv`, that `busy` counts the holds whose entry is in the pool
  and `retained` at most the marked ones of those, with `AskInv`, that no
  thread asks for a model it holds, so that a hit adds a holder. An eviction
  takes what has no holder, an unload what only preloads hold. From it
  `UsedModelStays`, `CountsAreHolders` and the refinement `PoolKeepsContract`.
* `Waits`: `WaitInv`, who holds which worker at each place of a call. From it
  `NoWaitUnderLock`; and, with the attempts bounded by the size of `force`
  (each retry adds a kind), `AttemptsSuffice`: `acquire`'s last deferral is
  never reached.
* `Room`, `RoomIsBooked`: the booked bytes by the place of the lock's holder.
* `Tears`, `TearingIsAccounted`: `TearInv` says that `tearing` and each worker's
  count are `Total`, the sum over all threads of the bytes in their `torn` and
  `rel`. It needs `Hands`, that these are finite, and `OwnWorker`, that a release
  queued on a worker is of that worker's own kind, or a late release would be
  taken off the other count. A step moves nothing, ends one victim, takes
  entries out of the pool or adds a victim without bytes (`Still`, `Ended`,
  `Taken`, `Weightless`): a lemma on sums for each of the four, and each action is
  shown to be one of them.
* `UseIsOrdered`, `OverBudgetIsForced`: `BudgetInv` adds to `Core`, the booked
  room and `LoadedOnce` that `older` is transitive and of entries in the pool
  (`OrderInv`). Then the idle entries form a chain, the eviction is the
  shortest prefix of it that leaves room, and a step that ends above the budget
  found no prefix that did: it has evicted all that was idle, and its load does
  not stream or has the pool to itself. It is an action property, of the
  eviction that books the room and of the insert at the price of the built model.

Sums are counted, not folded over. The library's induction theorems are out of
reach, so a lemma, `FiniteSums!SumIsUnits`, proves that a sum of naturals is the
cardinality of its *units*, the pairs of a member and a number up to its value:
the fold and this cardinality satisfy the same equation at each subset, and a
smallest subset where they differ cannot exist. From there a sum less a member,
of two parts, or with one value changed follows from the library's theorems
on cardinality. `GreatestExists` is proved in the same way.

For the video store, for any finite set of jobs and any number of crashes,
reloads and failed writes:

* `VideoJobsProofs!TypeCorrect`: types, beside which it needs that the driver at
  work has a job and that a POST which has not taken its room has reserved none.
* `DiskInvariant`: `DiskInv` adds to the two properties what makes them
  inductive. `RemovalIsSafe` lists the removals that can be under way and what
  holds of each: whole jobs that are no longer in the table, clips of records
  that are not completed, and neither of a job the driver is about to finish.
  `RecordIsKnown` and `RecordIsRead` say that the server's table knows every
  completed record and reads it so, `FinishHasClip` that a job about to
  complete has its clip, `LiveIsKnown` that a live job is in the table.
* From it `RecordHasClip` and `CompletionIsDurable`: the order of the rename, the
  write and the removals is what keeps a completed record true.
* `LifeInvariant`, `StoreKeepsContract`: the refinement of `VideoJob`. `JobLife`
  says how the server's table, the record on disk and the job's POST may differ;
  `DriverWorks` that the job at hand runs or has ended and is not completed twice,
  and `RemovesEnded` that inputs and records are only removed of jobs that have
  ended. A step of the store then moves each job
  by a step of its own contract or none, through crashes and restores too.
* `PostInvariant`: `PostLife` says what a POST has registered, reserved and
  written at each of its places, and what it leaves when it is over, with a call
  still in a thread or not. From it `InputsAreKept` and
  `OnlyLateImagesAreLeft`; and `QueueKeepsBound`, which counts the jobs queued at
  the one step that adds one.
* `OwedAlwaysFits`: `Uploads` is the sum of what each job's upload holds, its
  reservation or else its inputs, without the image of a data URL that no job
  has (`Owed`). Every step but a take makes no upload heavier (`Lighter`), and a
  take looks at that sum under the lock.
* `OwedStaysCounted`: `HonestInv` compares the sweep's running total to
  the clips and parts it has to count, without what the driver has at hand
  (`Work`) and what is on its way out already (`Going`). It counts a clip an
  answer still sends through its link, which is where freed bytes would be
  counted that are not free.
* `ClipsHaveRecords`: `ClipInv(Ended)`, by the place of the driver, the removal
  under way and, after a crash, the clips of no job (`Orphan`), which the first
  sweep of the new server takes. It is why the clip of `video_left_clip` does
  not stay for ever.

These hold with data URLs, crashes and failed writes. What the runs check as
`PostLeavesNothing`, `UploadsFit` and `TotalIsHonest` follows where every POST is
a form (`Inline = {}`: `FormLeavesNothing`, `UploadsAlwaysFit`,
`TotalStaysHonest`), and `ClipIsOwned` without a crash (`ClipsAreOwned`, the same
`ClipInv` for completed records alone). These hypotheses are the runs' own, and
needed: a data URL's file may come after the abandon (`video_late_keyframe`), and
is then in no upload; a crash after a cancel leaves a clip (`video_left_clip`).

For the engine's tick, for any finite set of requests, any prompts, budgets,
widths, ceilings and bounds of trouble, from `EngineAssumption` alone:

* `Rows`: `Inv`, the inductive invariant. Its properties (`ActiveIsHeld`,
  `NoOrphanRow`, `LedgerIsDelivered`, `FailedIsTold`) are not inductive: that an
  active uid has a row says nothing of a uid that has two, of which one is
  removed. `Apart` says that no uid has two rows, in one place or in two;
  `Typed` that each row was numbered by this generator; `Priced` that what the
  ledger has of a row and what the row may still emit stay within the budget, at
  a rebuild too; `Numbering` that a request waits in one place, is taken once,
  has one uid, and is active exactly while its reply is open; `Spoken` that what
  a tick says is of rows that are gone or still open, and that no row both
  answers and fails in it. `NextKeeps` has a step for each action; the tick is
  split as the code composes it (decode, prefill, admission, join), with one
  lemma for each part, and a tick that throws reuses the parts before its throw.
* From it, at once: `RowKept`, `NoOrphan`, `LedgerTrue` and, with one engine,
  `FailedTold`.
* `OneRow`: `Held` has as many members as there are rows. `Apart` makes the map
  from rows to uids injective, and the library's counting theorems do the rest.
* `KeepsContract`: the refinement. A step of the engine moves each request by a
  step of its own reply or none (`ClientStep`); `EveryStep` gives it for every
  action, and `Bounded`, that no reply exceeds its budget, follows from `Priced`.
* `CancelOwned`: `Closers` says whose each queued cancel is, `Namesake` who bears
  its uid by then, and `AllServed` that a generator turns over only when no
  reply is open, which is why a stale cancel can only reach a later request.
* `Serial`: `CeilingIsSerial`, the part of the gate's rule that holds.
* `RestKept`, `TypesHold`: the types of what no row tells. A prompt batch takes as
  many ticks as its longest row, which is a number because a finite set of
  numbers has a greatest, and at least one because a batch never forms of none
  (`PrefillsSome`: the gate hides the queue whole or passes its head). Uids stay
  within the number of requests because `Numbering` makes `owner` injective.

For the lane of jobs, from `JobsAssumption` alone: `Lane` (`LaneInv`: a job is at
most once in the queue, among the arrived and in turn, in one of them, and what
it was told fits its place), from it `TypeCorrect` and `JobAnsweredOnce`, on both
kinds of engine and wherever the stop falls.

Every invariant and action property that a passing run checks is a theorem. Only
model-checked, and why:

* `EveryCallEnds`, `EveryJobEnds`, `EveryRequestEnds`, `EveryCallerEnds`: liveness
  under fairness, which the prover does not handle.
* `EngineShared`: its one property is violated, and what a second engine leaves of
  the others (a shed request leaves a row, a stolen notice an active request
  without one) needs an invariant of its own, which is not stated yet.

## What the code says and does otherwise

The four violated runs are above. While modelling the engine we met more, which no
run shows alone; the model does what the code does:

* A tick that throws after its decode, mostly in the prefill, takes the decode with
  it. The stock body decodes first, and the guard answers a contained fault with no responses
  (`tick_guard.py:317`): the tokens just decoded never reach their clients nor
  the ledger, and a row that finished among them has no row and no end, though
  `tick_guard.py:14` says that rows the throw did not land in keep their
  committed state untouched. This is the `dropped` of the properties.
* The rows of a new prompt batch leave the queue before the batch is built
  (`ar.py:3179`); when building it throws, they are in no place.
* Both end by the client's token timeout, which is why `EveryRequestEnds` holds.
* The admission gate looks at the width before the tick's decode
  (`admit_gate.py:119`), the body admits after it: rows that end in that tick
  make room for a whole prompt batch, unweighed, beside live rows, against
  `admit_gate.py:12`. `CeilingIsSerial` is what holds.
* A declined row "keeps its queue position" (`admit_gate.py:16`), but `insert`
  sorts the queue by length: a shorter newcomer passes it. A rebuilt row, put at
  the head (`tick_guard.py:10`), loses the head at the next insert.
* A cancel of a row in a prompt batch of several leaves the row
  (`ar.py:2996`); it joins the batch and decodes for nobody up to its budget.
* A client that closes after its reply had ended leaves a cancel by uid; once the
  generator is made anew, the uid is another request's (`CancelHasACloser`).
* A repeated memory error with no row to remove (`tick_guard.py:271`) is retried
  for as long as it repeats: only `MaxTrouble` ends it in the model.
* `_rebuild_row`'s branch for a row that had delivered its whole budget
  (`tick_guard.py:225`) is never taken: `Priced` says that a row in the batch has
  something left.
* The fresh gate hides the tail of the queue from the admission gate, which prunes
  the credit of what it does not see (`admit_gate.py:95`): the wait of a held
  follower starts anew.
* While a tick is gated or paced its queue is hidden, and the cap of waiting
  requests (`queue_cap.py:16`) counts it low.
* The governor arms rungs on process-wide chunk sizes from one generator's tick
  and disarms them from another's (`governor.py:735`); a generator made anew, or
  a second engine, starts without the memory of what is armed.
* An engine that stops leaves what was queued behind the sentinel, and jobs in turn
  when its loop saw the flag first: `LeftByStop` names them, and a caller with no
  deadline waits for them for ever.

## Not modelled

* The rest of the engine: speculative batches, embeddings, the mixed warm and cold
  admission of the prompt cache, seeds. They are variants of an admission;
  their state is numeric.
* The admission gate's projection, the governor's bands and the rungs it arms:
  comparisons of measured bytes, with times to dwell. A model would have to
  invent the measures, and what the verdicts do to rows is in `EngineTick`, as
  free choices.
* The queue cap and the capacity advice: counters read without a lock to answer
  503; they promise nothing that a property could state.
* The LoRA turn of the pool, upload bookings and published figures: ledgers of
  measured bytes, for display or for a price.
* The job book and its routes, lifecycle and live requests: tables for a page.
* Prompt caches (`gmlx/cache`) with their eviction and disk tier, and expert
  streaming (`gmlx/stream`) between reader threads and kernels: each is a
  project of its own. The first is the next worth doing; of the second, half is
  not in Python.
* Speculative decoding, model loading, architectures, kernels and pricing: numeric
  code. Command line, interfaces, assistant, launchers: parsing, formatting and
  processes of others. They hold no shared state, or none whose interleavings
  the code leaves open.

## Where to go on

Every part above was built in the same order: the machine, a run, types, the
invariant that carries the main property, the refinement. The next steps, by
what they would add: what `EngineShared` keeps of the engine's properties, with
its theorem; the block store of the prompt cache with its disk tier.
