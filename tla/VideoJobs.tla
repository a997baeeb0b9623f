----------------------------- MODULE VideoJobs -----------------------------
(***************************************************************************)
(* The video jobs of src/gmlx/serve/video_jobs.py and the POST that makes  *)
(* them (patches/videos.py): the job table and its records on disk, the    *)
(* uploads that arrive, the driver that runs one job at a time, the sweep, *)
(* cancels, answers that send a clip, failed writes, crashes and restarts. *)
(*                                                                         *)
(* Every method of the store runs under one lock. A hold of it is one      *)
(* action, except for the files it removes: they go one at a time          *)
(* (FileStep), so that a crash can come between any two.                   *)
(*                                                                         *)
(* Left out: progress and phases, the book's clip times, what a job        *)
(* computes (it makes its .part, renames it, stops or fails), a volume     *)
(* without hard links, records that are no job's (removed at a restart),   *)
(* an unlink that fails.                                                   *)
(***************************************************************************)
EXTENDS Integers, Sequences, FiniteSets, FiniteSetsExt

CONSTANTS
  Jobs,        \* the job ids: one for each POST
  Inline,      \* the POSTs whose image is a data URL in a JSON body
  MaxQueue,    \* server.video.max_queue
  TTL,         \* server.video.job_ttl_s
  StoreMax,    \* server.video.store_max_bytes, where a job's files are 1
  ClipBytes,   \* the bytes of a clip
  MaxTime,     \* bound: the clock's last tick
  MaxFails,    \* bound: the record writes that fail
  MaxCrashes,  \* bound: the crashes
  MaxReloads,  \* bound: the reloads of the configuration
  NoJob

Ended == {"completed", "failed", "cancelled"}
Statuses == {"none", "queued", "in_progress"} \cup Ended
FileKinds == {"inputs", "record", "clip", "part"}
\* A POST: where its coroutine is, or the call it has in a thread.
PostAt == {"new", "begin", "take", "sweeping", "taking", "write", "settle",
           "submit", "handoff", "done", "abandon", "stopped", "over"}
DriverAt == {"idle", "run", "mux", "finish", "fail", "clean", "sweep", "sweeping"}

ASSUME ConstantsAssumption ==
  /\ IsFiniteSet(Jobs) /\ Inline \subseteq Jobs /\ NoJob \notin Jobs
  /\ {"driver", "configure", "nobody"} \cap Jobs = {}
  /\ MaxQueue \in Nat \ {0} /\ TTL \in Nat \ {0} /\ StoreMax \in Nat /\ ClipBytes \in Nat
  /\ MaxTime \in Nat /\ MaxFails \in Nat
  /\ MaxCrashes \in Nat /\ MaxReloads \in Nat

VARIABLES
  now,       \* the clock
  server,    \* "up", or "restore" while a new server reads the records
  known,     \* the ids in self.jobs
  rec,       \* rec[j]: the record of the Job object
  stop,      \* the jobs whose stop is set
  arriving,  \* the ids in self.pending
  reserved,  \* reserved[j]: the bytes pending[j] holds
  queue,     \* the driver's executor: jobs to drive, in order
  driver,    \* what the driver thread does, and for which job
  sweep,     \* the sweep under way: whose, at which part of it, and the
             \* finished jobs it has not considered
  total,     \* its count of the bytes held
  todo,      \* the files the holder of the lock still removes
  record,    \* record[j]: jobs/<id>.json
  inputs,    \* inputs[j]: the bytes under inputs/<id>/
  clip,      \* the ids with a files/<id>.mp4
  part,      \* those with a files/<id>.mp4.part
  links,     \* those with a link in serving/: an answer sends the clip
  post,      \* post[j]: where the POST of j is
  left,      \* the POSTs whose client left
  ended,     \* those whose abandon ran (_Post._ended)
  fails, crashes, reloads

sweeping == <<sweep, total>>
memory == <<known, rec, stop>>
uploads == <<arriving, reserved>>
disk == <<record, inputs, clip, part, links>>
posts == <<post, left, ended>>
bounds == <<fails, crashes, reloads>>
vars == <<now, server, memory, uploads, queue, driver, sweeping, todo, disk, posts, bounds>>

NoRecord == [status |-> "none", expires |-> 0]
NoSweep == [by |-> "nobody", at |-> "none", done |-> {}]
Idle == [at |-> "idle", job |-> NoJob]

Init ==
  /\ now = 0 /\ server = "up"
  /\ known = {} /\ rec = [j \in Jobs |-> NoRecord] /\ stop = {}
  /\ arriving = {} /\ reserved = [j \in Jobs |-> 0]
  /\ queue = <<>> /\ driver = Idle
  /\ sweep = NoSweep /\ total = 0 /\ todo = <<>>
  /\ record = [j \in Jobs |-> NoRecord]
  /\ inputs = [j \in Jobs |-> 0]
  /\ clip = {} /\ part = {} /\ links = {}
  /\ post = [j \in Jobs |-> "new"] /\ left = {} /\ ended = {}
  /\ fails = 0 /\ crashes = 0 /\ reloads = 0

-----------------------------------------------------------------------------
(* Helpers.                                                                *)

\* No one holds the store's lock.
Free == server = "up" /\ sweep.at = "none" /\ todo = <<>>

Status(j) == rec[j].status
Expired(j) == now >= rec[j].expires
Queued == {j \in known : Status(j) = "queued"}
\* The jobs a GET or a DELETE finds.
Found(j) == j \in known /\ ~(Status(j) \in Ended /\ Expired(j))

\* _write: a record goes to disk whole or not at all.
WriteRecord(j, r, ok) ==
  IF ok THEN record' = [record EXCEPT ![j] = r] /\ UNCHANGED fails
        ELSE fails < MaxFails /\ fails' = fails + 1 /\ UNCHANGED record

\* Faulty: the completion holds in memory though its write failed.
EndAnyway(j, s, ok) ==
  LET r == [status |-> s, expires |-> now + TTL] IN
  WriteRecord(j, r, ok) /\ rec' = [rec EXCEPT ![j] = r]

\* _end: a failed write undoes a completion, and nothing else.
End(j, s, ok) ==
  LET r == [status |-> s, expires |-> now + TTL] IN
  /\ WriteRecord(j, r, ok)
  /\ rec' = IF s = "completed" /\ ~ok THEN rec ELSE [rec EXCEPT ![j] = r]

\* Faulty: the clip goes before its record.
FilesOfClipFirst(j) == <<<<"inputs", j>>, <<"clip", j>>, <<"record", j>>, <<"part", j>>>>

\* The files _forget removes, in its order.
FilesOf(j) == <<<<"inputs", j>>, <<"record", j>>, <<"clip", j>>, <<"part", j>>>>

Forget(j) ==
  /\ known' = known \ {j}
  /\ todo' = FilesOf(j)

Size(S, bytes) == MapThenSumSet(LAMBDA j : bytes[j], S)

\* _held, over the inputs i and the files c and p: the clips and parts, the
\* inputs of no POST still arriving, the clips only an answer's link holds,
\* and the reservations.
HeldIn(i, c, p) ==
  ClipBytes * (Cardinality(c) + Cardinality(p) + Cardinality(links \ c))
    + Size(Jobs \ arriving, i) + Size(arriving, reserved)
Held == HeldIn(inputs, clip, part)

\* One removal of the lock's holder.
FileStep ==
  /\ todo # <<>>
  /\ LET kind == Head(todo)[1]
         j == Head(todo)[2]
     IN /\ inputs' = IF kind = "inputs" THEN [inputs EXCEPT ![j] = 0] ELSE inputs
        /\ record' = IF kind = "record" THEN [record EXCEPT ![j] = NoRecord] ELSE record
        /\ clip' = IF kind = "clip" THEN clip \ {j} ELSE clip
        /\ part' = IF kind = "part" THEN part \ {j} ELSE part
  /\ todo' = Tail(todo)
  /\ UNCHANGED <<now, server, memory, uploads, queue, driver, sweeping, links, posts, bounds>>

-----------------------------------------------------------------------------
(* The sweep.                                                              *)

StartSweep(who) ==
  /\ sweep' = [by |-> who, at |-> "expired", done |-> {}]
  /\ total' = 0

\* The clip a sweep keeps: the one the driver has just finished.
Keep == IF sweep.by = "driver" THEN driver.job ELSE NoJob

SweepExpired(j) ==
  /\ sweep.at = "expired" /\ todo = <<>>
  /\ j \in known /\ Status(j) \in Ended /\ Expired(j)
  /\ Forget(j)
  /\ UNCHANGED <<now, server, rec, stop, uploads, queue, driver, sweeping, disk, posts, bounds>>

\* Faulty: the inputs of a POST still arriving go too.
OrphanInputsAll == {j \in Jobs : j \notin known \/ Status(j) \in Ended}

\* Files no job names, and the inputs of ended jobs, but none of a POST
\* still arriving.
OrphanInputs ==
  {j \in Jobs \ arriving : j \notin known \/ Status(j) \in Ended}

\* The second part of the sweep, and its count of what is left.
SweepOrphans ==
  LET i == [j \in Jobs |-> IF j \in OrphanInputs THEN 0 ELSE inputs[j]]
      c == clip \cap (known \cup arriving)
      p == part \cap (known \cup arriving)
  IN
  /\ sweep.at = "expired" /\ todo = <<>>
  /\ \A j \in known : Status(j) \in Ended => ~Expired(j)
  /\ inputs' = i /\ clip' = c /\ part' = p
  /\ sweep' = [sweep EXCEPT !.at = "evict",
                 !.done = {j \in known : Status(j) = "completed"}]
  /\ total' = HeldIn(i, c, p)
  /\ UNCHANGED <<now, server, memory, uploads, queue, driver, todo, record, links, posts, bounds>>

\* A clip an answer sends frees nothing.
Sending(j) == j \in clip /\ j \in links
\* Faulty: a clip being sent is evicted, and frees nothing.
SparedKeep(j) == j = Keep
Spared(j) == j = Keep \/ Sending(j)
Older(j, k) == rec[j].expires < rec[k].expires

SweepEvict(j) ==
  /\ sweep.at = "evict" /\ todo = <<>> /\ total > StoreMax
  /\ j \in sweep.done /\ ~Spared(j)
  /\ \A k \in sweep.done : Older(k, j) => Spared(k)
  /\ Forget(j)
  /\ total' = total - (IF j \in clip THEN ClipBytes ELSE 0)
  /\ sweep' = [sweep EXCEPT !.done = {k \in @ : k # j /\ ~Older(k, j)}]
  /\ UNCHANGED <<now, server, rec, stop, uploads, queue, driver, disk, posts, bounds>>

SweepEnd ==
  /\ sweep.at = "evict" /\ todo = <<>>
  /\ total <= StoreMax \/ \A j \in sweep.done : Spared(j)
  /\ sweep' = NoSweep /\ total' = 0
  /\ driver' = IF sweep.by = "driver" THEN Idle ELSE driver
  /\ post' = [j \in Jobs |-> IF sweep.by = j THEN "taking" ELSE post[j]]
  /\ UNCHANGED <<now, server, memory, uploads, queue, todo, disk, left, ended, bounds>>

\* A reload of the configuration sweeps.
Configure ==
  /\ Free /\ reloads < MaxReloads
  /\ reloads' = reloads + 1
  /\ StartSweep("configure")
  /\ UNCHANGED <<now, server, memory, uploads, queue, driver, todo, disk, posts, fails, crashes>>

-----------------------------------------------------------------------------
(* A POST. Its calls of the store run in threads, one at a time; a client  *)
(* that leaves cancels the coroutine, never the thread.                    *)

\* Faulty: a call that comes after the abandon runs.
RefusesNever(j) == FALSE

\* _Post._call: once the abandon ran, a call still to come does nothing.
Refuses(j) == j \in ended

\* Faulty: a form's headers count as its body.
BodyAndHeaders(j) == 3

\* The bytes a POST reserves: a form all of its body, one byte of text more
\* than its files; a data URL what it decodes to.
Body(j) == IF j \in Inline THEN 1 ELSE 2

\* Where the POST goes on once its call returned.
Goes(j, next) ==
  post' = [post EXCEPT ![j] = IF j \in left /\ next # "abandon" THEN "stopped" ELSE next]

CallDone(j) == post' = [post EXCEPT ![j] = "stopped"]

\* The check before the body is read.
Full(j) ==
  /\ post[j] = "new" /\ Free
  /\ Goes(j, IF Cardinality(Queued) >= MaxQueue THEN "abandon" ELSE "begin")
  /\ UNCHANGED <<now, server, memory, uploads, queue, driver, sweeping, todo, disk, left, ended, bounds>>

Begin(j) ==
  /\ post[j] = "begin" /\ Free
  /\ IF Refuses(j)
     THEN CallDone(j) /\ UNCHANGED uploads
     ELSE /\ arriving' = arriving \cup {j}
          /\ reserved' = [reserved EXCEPT ![j] = 0]
          /\ Goes(j, "take")
  /\ UNCHANGED <<now, server, memory, queue, driver, sweeping, todo, disk, left, ended, bounds>>

\* take sweeps first, in the same hold of the POST's own lock.
TakeSweep(j) ==
  /\ post[j] = "take" /\ Free
  /\ IF Refuses(j)
     THEN CallDone(j) /\ UNCHANGED sweeping
     ELSE StartSweep(j) /\ post' = [post EXCEPT ![j] = "sweeping"]
  /\ UNCHANGED <<now, server, memory, uploads, queue, driver, todo, disk, left, ended, bounds>>

\* Faulty: the room other POSTs have reserved is given again.
RoomForAlone(j) == Held - Size(arriving, reserved) + Body(j) <= StoreMax
RoomFor(j) == Held + Body(j) <= StoreMax

Take(j) ==
  /\ post[j] = "taking" /\ Free
  /\ IF j \in arriving /\ RoomFor(j)
     THEN /\ reserved' = [reserved EXCEPT ![j] = @ + Body(j)]
          /\ IF j \in Inline THEN post' = [post EXCEPT ![j] = "write"]
                             ELSE Goes(j, "write")
     ELSE /\ UNCHANGED reserved
          /\ Goes(j, IF j \in left THEN "stopped" ELSE "abandon")
  /\ UNCHANGED <<now, server, memory, arriving, queue, driver, sweeping, todo, disk, left, ended, bounds>>

\* The form's files, or the thread's decoded image, reach the disk.
WriteInputs(j) ==
  /\ post[j] = "write" /\ server = "up"
  /\ inputs' = [inputs EXCEPT ![j] = 1]
  /\ Goes(j, IF j \in Inline THEN "submit" ELSE "settle")
  /\ UNCHANGED <<now, server, memory, uploads, queue, driver, sweeping, todo, record, clip, part, links, left, ended, bounds>>

\* A form that cannot be read, or fields the route refuses.
Refuse(j) ==
  /\ post[j] \in {"write", "submit"} /\ j \notin left
  /\ inputs' = IF post[j] = "write" THEN [inputs EXCEPT ![j] = 0] ELSE inputs
  /\ post' = [post EXCEPT ![j] = "abandon"]
  /\ UNCHANGED <<now, server, memory, uploads, queue, driver, sweeping, todo, record, clip, part, links, left, ended, bounds>>

Settle(j) ==
  /\ post[j] = "settle" /\ Free
  /\ reserved' = IF ~Refuses(j) /\ j \in arriving
                 THEN [reserved EXCEPT ![j] = inputs[j]] ELSE reserved
  /\ Goes(j, "submit")
  /\ UNCHANGED <<now, server, memory, arriving, queue, driver, sweeping, todo, disk, left, ended, bounds>>

Unreserve(j) ==
  /\ arriving' = arriving \ {j}
  /\ reserved' = [reserved EXCEPT ![j] = 0]

\* Faulty: the check before the body is the only one.
PlaceAlways == FALSE

\* The queue's bound is judged again, under the lock.
NoPlace == Cardinality(Queued) >= MaxQueue

SubmitFull(j) ==
  /\ post[j] = "submit" /\ Free /\ ~Refuses(j) /\ NoPlace
  /\ Unreserve(j)
  /\ inputs' = [inputs EXCEPT ![j] = 0]
  /\ Goes(j, "abandon")
  /\ UNCHANGED <<now, server, memory, queue, driver, sweeping, todo, record, clip, part, links, left, ended, bounds>>

\* The record is written before the job is in the table; a failed write
\* queues nothing.
Submit(j, ok) ==
  LET r == [status |-> "queued", expires |-> now + TTL] IN
  /\ post[j] = "submit" /\ Free /\ ~Refuses(j) /\ ~NoPlace
  /\ WriteRecord(j, r, ok)
  /\ IF ok
     THEN /\ rec' = [rec EXCEPT ![j] = r] /\ known' = known \cup {j}
          /\ Unreserve(j)
          /\ post' = [post EXCEPT ![j] = "handoff"]
     ELSE /\ UNCHANGED <<rec, known, uploads>>
          /\ Goes(j, "abandon")
  /\ UNCHANGED <<now, server, stop, queue, driver, sweeping, todo, inputs, clip, part, links, left, ended, crashes, reloads>>

SubmitRefused(j) ==
  /\ post[j] = "submit" /\ Refuses(j)
  /\ CallDone(j)
  /\ UNCHANGED <<now, server, memory, uploads, queue, driver, sweeping, todo, disk, left, ended, bounds>>

\* Past the store's lock, the job goes to the driver.
Handoff(j) ==
  /\ post[j] = "handoff"
  /\ queue' = Append(queue, j)
  /\ post' = [post EXCEPT ![j] = "done"]
  /\ UNCHANGED <<now, server, memory, uploads, driver, sweeping, todo, disk, left, ended, bounds>>

\* The client leaves: a form's reader removes its files and ends, a call in
\* a thread goes on.
Leave(j) ==
  /\ post[j] \in {"begin", "take", "sweeping", "taking", "write", "settle", "submit", "handoff"}
  /\ j \notin left
  /\ left' = left \cup {j}
  /\ IF post[j] = "write" /\ j \notin Inline
     THEN inputs' = [inputs EXCEPT ![j] = 0] /\ post' = [post EXCEPT ![j] = "stopped"]
     ELSE UNCHANGED <<inputs, post>>
  /\ UNCHANGED <<now, server, memory, uploads, queue, driver, sweeping, todo, record, clip, part, links, ended, bounds>>

\* A call of this POST holds the POST's lock.
InCall(j) == post[j] \in {"sweeping", "taking", "handoff"}

\* Faulty: a job the POST has queued loses its inputs.
KeptNever(j) == FALSE

\* A job submit registered keeps its inputs.
Kept(j) == j \in known

Abandon(j) ==
  /\ j \in left \/ post[j] = "abandon"
  /\ j \notin ended /\ ~InCall(j) /\ Free
  /\ ended' = ended \cup {j}
  /\ IF Kept(j) THEN UNCHANGED <<uploads, inputs>>
               ELSE Unreserve(j) /\ inputs' = [inputs EXCEPT ![j] = 0]
  /\ post' = [post EXCEPT ![j] = IF @ = "abandon" THEN "over" ELSE @]
  /\ UNCHANGED <<now, server, memory, queue, driver, sweeping, todo, record, clip, part, links, left, bounds>>

-----------------------------------------------------------------------------
(* The driver thread.                                                      *)

At(place, j) == driver' = [at |-> place, job |-> j]

\* The next job of the queue is no longer queued: nothing to run.
DriveNothing ==
  /\ driver.at = "idle" /\ queue # <<>> /\ Free
  /\ Status(Head(queue)) # "queued"
  /\ queue' = Tail(queue)
  /\ UNCHANGED <<now, server, memory, uploads, driver, sweeping, todo, disk, posts, bounds>>

\* It expired in the queue: it fails and never runs.
DriveExpired(ok) ==
  /\ driver.at = "idle" /\ queue # <<>> /\ Free
  /\ LET j == Head(queue) IN
     /\ Status(j) = "queued" /\ Expired(j)
     /\ End(j, "failed", ok)
     /\ todo' = <<<<"inputs", j>>>>
  /\ queue' = Tail(queue)
  /\ UNCHANGED <<now, server, known, stop, uploads, driver, sweeping, inputs, clip, part, links, posts, crashes, reloads>>

\* It runs. The record is written outside the handler that ends the job: a
\* failed write ends the driver's call and leaves the job in progress.
Drive(ok) ==
  /\ driver.at = "idle" /\ queue # <<>> /\ Free
  /\ LET j == Head(queue)
         r == [rec[j] EXCEPT !.status = "in_progress"] IN
     /\ Status(j) = "queued" /\ ~Expired(j)
     /\ rec' = [rec EXCEPT ![j] = r]
     /\ WriteRecord(j, r, ok)
     /\ IF ok THEN At("run", j) ELSE UNCHANGED driver
  /\ queue' = Tail(queue)
  /\ UNCHANGED <<now, server, known, stop, uploads, sweeping, todo, inputs, clip, part, links, posts, crashes, reloads>>

\* The clip's file begins.
StartPart ==
  /\ driver.at = "run"
  /\ part' = part \cup {driver.job}
  /\ At("mux", driver.job)
  /\ UNCHANGED <<now, server, memory, uploads, queue, sweeping, todo, record, inputs, clip, links, posts, bounds>>

\* It is whole: renamed into place, unless it was removed meanwhile.
RenamePart ==
  /\ driver.at = "mux"
  /\ IF driver.job \in part
     THEN /\ part' = part \ {driver.job}
          /\ clip' = clip \cup {driver.job}
          /\ At("finish", driver.job)
     ELSE /\ UNCHANGED <<part, clip>>
          /\ At("fail", driver.job)
  /\ UNCHANGED <<now, server, memory, uploads, queue, sweeping, todo, record, inputs, links, posts, bounds>>

\* Faulty: an error ends the work as a stop does, and no one ends the job.
WorkRaisesQuietly ==
  /\ driver.at \in {"run", "mux"}
  /\ part' = part \ {driver.job}
  /\ At("clean", driver.job)
  /\ UNCHANGED <<now, server, memory, uploads, queue, sweeping, todo, record, inputs, clip, links, posts, bounds>>

\* The work raises: an error, or the stop it saw.
WorkRaises ==
  /\ driver.at \in {"run", "mux"}
  /\ part' = part \ {driver.job}
  /\ \/ At("fail", driver.job)
     \/ driver.job \in stop /\ At("clean", driver.job)
  /\ UNCHANGED <<now, server, memory, uploads, queue, sweeping, todo, record, inputs, clip, links, posts, bounds>>

\* Faulty: a job a DELETE ended meanwhile is ended again.
RunningAlways(j) == TRUE

\* The job is still running: no DELETE ended it meanwhile.
Running(j) == Status(j) = "in_progress"

Finish(ok) ==
  LET j == driver.job IN
  /\ driver.at = "finish" /\ Free /\ Running(j)
  /\ End(j, "completed", ok)
  /\ At(IF ok THEN "clean" ELSE "fail", j)
  /\ UNCHANGED <<now, server, known, stop, uploads, queue, sweeping, todo, inputs, clip, part, links, posts, crashes, reloads>>

Fail(ok) ==
  LET j == driver.job IN
  /\ driver.at = "fail" /\ Free /\ Running(j)
  /\ End(j, "failed", ok)
  /\ At("clean", j)
  /\ UNCHANGED <<now, server, known, stop, uploads, queue, sweeping, todo, inputs, clip, part, links, posts, crashes, reloads>>

\* A DELETE ended it: it stays cancelled.
EndedMeanwhile ==
  /\ driver.at \in {"finish", "fail"} /\ Free /\ ~Running(driver.job)
  /\ At("clean", driver.job)
  /\ UNCHANGED <<now, server, memory, uploads, queue, sweeping, todo, disk, posts, bounds>>

\* Faulty: the clip of a job that did not complete stays.
LeftoversInputs(j) == <<<<"inputs", j>>>>

\* The files of the job, before the sweep: a clip of no completed job goes.
Leftovers(j) ==
  IF Status(j) = "completed" THEN <<<<"inputs", j>>>>
                             ELSE <<<<"inputs", j>>, <<"clip", j>>, <<"part", j>>>>

Clean ==
  /\ driver.at = "clean" /\ Free
  /\ todo' = Leftovers(driver.job)
  /\ At("sweep", driver.job)
  /\ UNCHANGED <<now, server, memory, uploads, queue, sweeping, disk, posts, bounds>>

DriverSweep ==
  /\ driver.at = "sweep" /\ Free
  /\ StartSweep("driver")
  /\ At("sweeping", driver.job)
  /\ UNCHANGED <<now, server, memory, uploads, queue, todo, disk, posts, bounds>>

-----------------------------------------------------------------------------
(* DELETE and the content.                                                 *)

DeleteEnded(j) ==
  /\ Free /\ Found(j) /\ Status(j) \in Ended
  /\ Forget(j)
  /\ UNCHANGED <<now, server, rec, stop, uploads, queue, driver, sweeping, disk, posts, bounds>>

DeleteLive(j, ok) ==
  /\ Free /\ Found(j) /\ Status(j) \in {"queued", "in_progress"}
  /\ stop' = stop \cup {j}
  /\ End(j, "cancelled", ok)
  /\ todo' = IF Status(j) = "queued" THEN <<<<"inputs", j>>>> ELSE <<>>
  /\ UNCHANGED <<now, server, known, uploads, queue, driver, sweeping, inputs, clip, part, links, posts, crashes, reloads>>

\* An answer links the clip and sends the link.
Serve(j) ==
  /\ Free /\ Found(j) /\ Status(j) = "completed" /\ j \in clip /\ j \notin links
  /\ links' = links \cup {j}
  /\ UNCHANGED <<now, server, memory, uploads, queue, driver, sweeping, todo, record, inputs, clip, part, posts, bounds>>

Sent(j) ==
  /\ server = "up" /\ j \in links
  /\ links' = links \ {j}
  /\ UNCHANGED <<now, server, memory, uploads, queue, driver, sweeping, todo, record, inputs, clip, part, posts, bounds>>

-----------------------------------------------------------------------------
(* Time, crashes and restarts.                                             *)

\* A hold of the lock takes no time.
Tick ==
  /\ sweep.at = "none" /\ todo = <<>> /\ now < MaxTime
  /\ now' = now + 1
  /\ UNCHANGED <<server, memory, uploads, queue, driver, sweeping, todo, disk, posts, bounds>>

\* Only the disk is left.
Crash ==
  /\ crashes < MaxCrashes /\ crashes' = crashes + 1
  /\ server' = "restore"
  /\ known' = {} /\ rec' = [j \in Jobs |-> NoRecord] /\ stop' = {}
  /\ arriving' = {} /\ reserved' = [j \in Jobs |-> 0]
  /\ queue' = <<>> /\ driver' = Idle /\ sweep' = NoSweep /\ total' = 0 /\ todo' = <<>>
  /\ post' = [j \in Jobs |-> IF post[j] \in {"handoff", "done"} THEN "done"
                             ELSE IF post[j] = "new" THEN "new" ELSE "over"]
  /\ left' = {} /\ ended' = {}
  /\ UNCHANGED <<now, disk, fails, reloads>>

\* _restore takes one record: a job that had not ended fails, and its clip,
\* of no completed record, goes.
RestoreJob(j, ok) ==
  /\ server = "restore" /\ todo = <<>>
  /\ j \notin known /\ record[j] # NoRecord
  /\ known' = known \cup {j}
  /\ IF record[j].status \in Ended
     THEN /\ ok
          /\ rec' = [rec EXCEPT ![j] = record[j]]
          /\ UNCHANGED <<todo, record, fails>>
     ELSE /\ End(j, "failed", ok)
          /\ todo' = <<<<"clip", j>>, <<"part", j>>>>
  /\ UNCHANGED <<now, server, stop, uploads, queue, driver, sweeping, inputs, clip, part, links, posts, crashes, reloads>>

\* Faulty: a new server sweeps nothing before it serves.
RestoreUnswept ==
  /\ server = "restore" /\ todo = <<>>
  /\ \A j \in Jobs : record[j] # NoRecord => j \in known
  /\ part' = {} /\ links' = {}
  /\ server' = "up"
  /\ UNCHANGED <<now, memory, uploads, queue, driver, sweeping, todo, record, inputs, clip, posts, bounds>>

\* Then the half-written clips and the links go, and configure sweeps.
RestoreRest ==
  /\ server = "restore" /\ todo = <<>>
  /\ \A j \in Jobs : record[j] # NoRecord => j \in known
  /\ part' = {} /\ links' = {}
  /\ server' = "up"
  /\ StartSweep("configure")
  /\ UNCHANGED <<now, memory, uploads, queue, driver, todo, record, inputs, clip, posts, bounds>>

-----------------------------------------------------------------------------
Sweep ==
  \/ \E j \in Jobs : SweepExpired(j) \/ SweepEvict(j)
  \/ SweepOrphans \/ SweepEnd

Arrive(j) == Full(j) \/ Refuse(j) \/ Leave(j)
PostCall(j) ==
  \/ Begin(j) \/ TakeSweep(j) \/ Take(j) \/ WriteInputs(j) \/ Settle(j)
  \/ SubmitFull(j) \/ SubmitRefused(j)
  \/ \E ok \in BOOLEAN : Submit(j, ok)

Driving ==
  \/ DriveNothing \/ StartPart \/ RenamePart \/ WorkRaises
  \/ EndedMeanwhile \/ Clean \/ DriverSweep
  \/ \E ok \in BOOLEAN : DriveExpired(ok) \/ Drive(ok) \/ Finish(ok) \/ Fail(ok)

Client(j) ==
  \/ DeleteEnded(j) \/ Serve(j) \/ Sent(j)
  \/ \E ok \in BOOLEAN : DeleteLive(j, ok)

Restore ==
  \/ RestoreRest
  \/ \E j \in Jobs, ok \in BOOLEAN : RestoreJob(j, ok)

\* The bounded instance has nothing left to do: every POST is over and the
\* driver waits for a job.
Rest ==
  /\ Free /\ driver = Idle /\ queue = <<>>
  /\ \A j \in Jobs : post[j] \in {"done", "stopped", "over"}
  /\ UNCHANGED vars

Next ==
  \/ FileStep \/ Sweep \/ Configure \/ Driving \/ Restore \/ Tick \/ Crash \/ Rest
  \/ \E j \in Jobs : Arrive(j) \/ PostCall(j) \/ Handoff(j) \/ Abandon(j) \/ Client(j)

Spec == Init /\ [][Next]_vars

\* The driver's thread, the holder of the lock and a POST that has queued
\* its job run on. Clients, the clock and the disk's faults need not.
Fairness ==
  /\ WF_vars(FileStep) /\ WF_vars(Sweep) /\ WF_vars(Driving)
  /\ \A j \in Jobs : WF_vars(Handoff(j))

FairSpec == Spec /\ Fairness

-----------------------------------------------------------------------------
(* Properties.                                                             *)

\* The values of every variable, in the code's own terms.
TypeOK ==
  /\ now \in 0..MaxTime /\ server \in {"up", "restore"}
  /\ known \subseteq Jobs /\ stop \subseteq Jobs
  /\ rec \in [Jobs -> [status : Statuses, expires : Nat]]
  /\ record \in [Jobs -> [status : Statuses, expires : Nat]]
  /\ arriving \subseteq Jobs /\ reserved \in [Jobs -> 0..2]
  /\ queue \in Seq(Jobs) /\ todo \in Seq(FileKinds \X Jobs)
  /\ driver \in [at : DriverAt, job : Jobs \cup {NoJob}]
  /\ sweep \in [by : Jobs \cup {"driver", "configure", "nobody"},
                at : {"none", "expired", "evict"}, done : SUBSET Jobs]
  /\ inputs \in [Jobs -> 0..1]
  /\ clip \subseteq Jobs /\ part \subseteq Jobs /\ links \subseteq Jobs
  /\ post \in [Jobs -> PostAt] /\ left \subseteq Jobs /\ ended \subseteq Jobs
  /\ fails \in 0..MaxFails /\ crashes \in 0..MaxCrashes /\ reloads \in 0..MaxReloads

\* A record that says completed has its clip, wherever a crash falls: the
\* clip is renamed before the record is written (drive), and removed after
\* it (_forget).
CompletedHasClip == \A j \in Jobs : record[j].status = "completed" => j \in clip

\* A job that reads as completed is so on disk, and stays so over a restart:
\* _end takes a completion back when its write fails.
CompletedIsDurable ==
  \A j \in known : Status(j) = "completed" => record[j].status = "completed"

\* The files of a job that will run or runs are there, whatever sweeps,
\* abandons and other POSTs do meanwhile.
LiveJobHasInputs ==
  \A j \in known : Status(j) \in {"queued", "in_progress"} => inputs[j] = 1

\* The queue keeps its bound, though POSTs check it before their body and
\* all submit after.
QueueBound == Cardinality(Queued) <= MaxQueue

\* The uploads arriving and the inputs kept never pass the store's bound,
\* in whatever order POSTs take room, settle, submit and end.
UploadsFit == Size(Jobs \ arriving, inputs) + Size(arriving, reserved) <= StoreMax

\* A POST that ended with no job leaves no reservation and no file.
PostLeavesNothing ==
  Free => \A j \in ended \ known : j \notin arriving /\ inputs[j] = 0

\* While the sweep evicts, its running total never falls below what the
\* store holds, the driver's own file aside: no eviction is counted that
\* freed nothing.
TotalIsHonest ==
  sweep.at = "evict" /\ todo = <<>> =>
    HeldIn(inputs, clip \ {driver.job}, part \ {driver.job}) <= total

\* A clip in files/ is a completed job's, or the one the driver has at hand.
ClipIsOwned ==
  Free => \A j \in clip : record[j].status = "completed" \/ driver.job = j

\* Whatever crashes, a clip in files/ is of a job whose record says it ended,
\* so that the sweep finds it when the record expires, or the one the driver
\* has at hand.
ClipHasRecord ==
  Free => \A j \in clip : record[j].status \in Ended \/ driver.job = j

\* A job queued or running ends.
Live(j) == j \in known /\ Status(j) \in {"queued", "in_progress"}
EveryJobEnds == \A j \in Jobs : Live(j) ~> ~Live(j)

\* A job as a client sees it: what the server that has it says, or, after a
\* crash, what its record will be read as.
View(j) ==
  IF record[j] = NoRecord
  THEN IF post[j] \in {"handoff", "done"} THEN "gone" ELSE "none"
  ELSE IF Status(j) # "none" THEN Status(j)
  ELSE IF record[j].status \in Ended THEN record[j].status ELSE "failed"

\* The store keeps the contract of VideoJob.
Contract == INSTANCE VideoJob WITH job <- [j \in Jobs |-> View(j)]
ImplementsVideoJob == Contract!Spec
=============================================================================
