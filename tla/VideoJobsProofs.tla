-------------------------- MODULE VideoJobsProofs --------------------------
(***************************************************************************)
(* What the store of video jobs guarantees for every set of jobs, every    *)
(* bound and any number of crashes and failed writes: the types; that a    *)
(* record that says completed has its clip, and a job that reads as        *)
(* completed such a record; the life of a job, and that the store keeps    *)
(* the contract of VideoJob.                                               *)
(***************************************************************************)
EXTENDS VideoJobs, FiniteSetTheorems, TLAPS

USE DEF memory, uploads, disk, posts, bounds, sweeping

\* The records a server writes.
Record == [status : Statuses, expires : Nat]

\* The driver is idle or has a job at hand.
DriverHasJob == driver.at # "idle" => driver.job \in Jobs

\* A sweep that is not under way is nobody's.
SweepIsSomeones == sweep.at = "none" => sweep = NoSweep

\* A POST that has not taken its room has reserved nothing.
NotYetReserved ==
  \A j \in Jobs : post[j] \in {"take", "sweeping", "taking"} \/ sweep.by = j
                    => reserved[j] = 0

TypeInv == TypeOK /\ DriverHasJob /\ SweepIsSomeones /\ NotYetReserved

\* An empty store has the right types.
LEMMA TypeInit == Init => TypeInv
<1> SUFFICES ASSUME Init PROVE TypeInv
  OBVIOUS
<1>1. NoRecord \in Record
  BY DEF NoRecord, Record, Statuses
<1>2. queue \in Seq(Jobs) /\ todo \in Seq(FileKinds \X Jobs)
  BY DEF Init
<1>3. post \in [Jobs -> PostAt] /\ driver \in [at : DriverAt, job : Jobs \cup {NoJob}]
  BY DEF Init, PostAt, DriverAt, Idle
<1>4. sweep = NoSweep
  BY DEF Init
<1>5. TypeOK
  BY <1>1, <1>2, <1>3, ConstantsAssumption DEF Init, TypeOK, Record, NoSweep
<1>6. \A j \in Jobs : reserved[j] = 0
  BY DEF Init
<1> QED
  BY <1>4, <1>5, <1>6 DEF TypeInv, DriverHasJob, SweepIsSomeones, NotYetReserved, Init, Idle

\* _write: the record is a job's, and the failures counted stay in bound.
LEMMA WriteType ==
  ASSUME TypeOK, NEW j \in Jobs, NEW r \in Record, NEW ok \in BOOLEAN, WriteRecord(j, r, ok)
  PROVE  record' \in [Jobs -> Record] /\ fails' \in 0..MaxFails
<1>1. /\ record \in [Jobs -> Record] /\ fails \in 0..MaxFails
      /\ MaxFails \in Nat
  BY ConstantsAssumption DEF TypeOK, Record
<1>2. CASE ok
  BY <1>1, <1>2 DEF WriteRecord
<1>3. CASE ~ok
  BY <1>1, <1>3 DEF WriteRecord
<1> QED
  BY <1>2, <1>3

\* _end: so does its record in memory.
LEMMA EndType ==
  ASSUME TypeOK, NEW j \in Jobs, NEW s \in Ended, NEW ok \in BOOLEAN, End(j, s, ok)
  PROVE  /\ rec' \in [Jobs -> Record] /\ record' \in [Jobs -> Record]
         /\ fails' \in 0..MaxFails
<1> DEFINE r == [status |-> s, expires |-> now + TTL]
<1>1. r \in Record
  BY ConstantsAssumption DEF TypeOK, Record, Statuses
<1>2. WriteRecord(j, r, ok) /\ (rec' = rec \/ rec' = [rec EXCEPT ![j] = r])
  BY DEF End
<1>3. rec \in [Jobs -> Record]
  BY DEF TypeOK, Record
<1> HIDE DEF r
<1>4. rec' \in [Jobs -> Record]
  BY <1>1, <1>2, <1>3
<1> QED
  BY <1>1, <1>2, <1>4, WriteType

\* What _forget and the driver's cleanup remove are files of jobs.
LEMMA FilesType ==
  ASSUME NEW j \in Jobs
  PROVE  /\ FilesOf(j) \in Seq(FileKinds \X Jobs)
         /\ Leftovers(j) \in Seq(FileKinds \X Jobs)
         /\ <<<<"inputs", j>>>> \in Seq(FileKinds \X Jobs)
         /\ <<<<"clip", j>>, <<"part", j>>>> \in Seq(FileKinds \X Jobs)
<1> DEFINE F == FileKinds \X Jobs
<1>1. /\ <<"inputs", j>> \in F /\ <<"record", j>> \in F
      /\ <<"clip", j>> \in F /\ <<"part", j>> \in F
  BY DEF FileKinds
<1> HIDE DEF F
<1>2. <<<<"inputs", j>>>> \in Seq(F) /\ <<<<"clip", j>>, <<"part", j>>>> \in Seq(F)
  BY <1>1
<1>3. <<<<"inputs", j>>, <<"clip", j>>, <<"part", j>>>> \in Seq(F)
  BY <1>1
<1>4. Leftovers(j) \in Seq(F)
  BY <1>2, <1>3 DEF Leftovers
<1>5. FilesOf(j) \in Seq(F)
  BY <1>1 DEF FilesOf
<1> QED
  BY <1>2, <1>4, <1>5 DEF F

\* Removing a file keeps the types.
LEMMA TypeFileStep == ASSUME TypeInv, FileStep PROVE TypeInv'
<1>1. Head(todo) \in FileKinds \X Jobs /\ Tail(todo) \in Seq(FileKinds \X Jobs)
  BY DEF FileStep, TypeInv, TypeOK
<1>2. Head(todo)[2] \in Jobs
  BY <1>1
<1>3. inputs' \in [Jobs -> 0..1]
  BY <1>2 DEF FileStep, TypeInv, TypeOK
<1>4. record' \in [Jobs -> Record]
  BY <1>2 DEF FileStep, TypeInv, TypeOK, Record, NoRecord, Statuses
<1>5. clip' \subseteq Jobs /\ part' \subseteq Jobs
  BY DEF FileStep, TypeInv, TypeOK
<1> QED
  BY <1>1, <1>3, <1>4, <1>5 DEF FileStep, TypeInv, TypeOK, Record, DriverHasJob, SweepIsSomeones, NotYetReserved

\* Forgetting an expired job keeps the types.
LEMMA TypeSweepExpired == ASSUME TypeInv, NEW j \in Jobs, SweepExpired(j) PROVE TypeInv'
  BY DEF SweepExpired, Forget, FilesOf, FileKinds, TypeInv, TypeOK, DriverHasJob,
     SweepIsSomeones, NotYetReserved

\* Evicting a clip keeps the types.
LEMMA TypeSweepEvict == ASSUME TypeInv, NEW j \in Jobs, SweepEvict(j) PROVE TypeInv'
<1>1. todo' \in Seq(FileKinds \X Jobs) /\ known' \subseteq Jobs
  BY FilesType DEF SweepEvict, Forget, TypeInv, TypeOK
<1>2. /\ sweep' \in [by : Jobs \cup {"driver", "configure", "nobody"},
                     at : {"none", "expired", "evict"}, done : SUBSET Jobs]
      /\ sweep'.by = sweep.by /\ sweep'.at = "evict"
  BY DEF SweepEvict, TypeInv, TypeOK
<1> QED
  BY <1>1, <1>2 DEF SweepEvict, Forget, TypeInv, TypeOK, DriverHasJob, SweepIsSomeones, NotYetReserved

\* Removing the orphans keeps the types.
LEMMA TypeSweepOrphans == ASSUME TypeInv, SweepOrphans PROVE TypeInv'
<1>1. inputs' \in [Jobs -> 0..1]
  BY DEF SweepOrphans, TypeInv, TypeOK
<1>2. clip' \subseteq Jobs /\ part' \subseteq Jobs
  BY DEF SweepOrphans, TypeInv, TypeOK
<1>3. /\ sweep' \in [by : Jobs \cup {"driver", "configure", "nobody"},
                     at : {"none", "expired", "evict"}, done : SUBSET Jobs]
      /\ sweep'.by = sweep.by /\ sweep'.at = "evict"
  BY DEF SweepOrphans, TypeInv, TypeOK
<1> QED
  BY <1>1, <1>2, <1>3 DEF SweepOrphans, TypeInv, TypeOK, DriverHasJob, SweepIsSomeones, NotYetReserved

\* The end of a sweep keeps the types.
LEMMA TypeSweepEnd == ASSUME TypeInv, SweepEnd PROVE TypeInv'
  BY ConstantsAssumption DEF SweepEnd, NoSweep, Idle, Statuses, Record, DriverAt, PostAt,
     TypeInv, TypeOK, DriverHasJob, SweepIsSomeones, NotYetReserved

\* A reload keeps the types.
LEMMA TypeConfigure == ASSUME TypeInv, Configure PROVE TypeInv'
  BY ConstantsAssumption DEF Configure, StartSweep, Free, NoSweep, PostAt, TypeInv, TypeOK,
     DriverHasJob, SweepIsSomeones, NotYetReserved

\* The check before the body keeps the types.
LEMMA TypeFull == ASSUME TypeInv, NEW j \in Jobs, Full(j) PROVE TypeInv'
  BY DEF Full, Goes, PostAt, TypeInv, TypeOK, DriverHasJob, SweepIsSomeones, NotYetReserved

\* Registering an upload keeps the types.
LEMMA TypeBegin == ASSUME TypeInv, NEW j \in Jobs, Begin(j) PROVE TypeInv'
<1>1. /\ reserved \in [Jobs -> 0..2] /\ arriving \subseteq Jobs
      /\ post \in [Jobs -> PostAt] /\ NotYetReserved
  BY DEF TypeInv, TypeOK
<1>2. sweep.by \notin Jobs
  BY ConstantsAssumption DEF Begin, Free, TypeInv, SweepIsSomeones, NoSweep
<1>3. /\ post' \in [Jobs -> PostAt]
      /\ \A k \in Jobs : k # j => post'[k] = post[k]
  BY <1>1 DEF Begin, CallDone, Goes, PostAt
<1>4. CASE Refuses(j)
  <2>1. post'[j] = "stopped" /\ UNCHANGED uploads
    BY <1>1, <1>4 DEF Begin, CallDone
  <2>2. NotYetReserved'
    BY <1>1, <1>2, <1>3, <2>1 DEF Begin, NotYetReserved
  <2> QED
    BY <1>3, <2>1, <2>2 DEF Begin, TypeInv, TypeOK, DriverHasJob, SweepIsSomeones
<1>5. CASE ~Refuses(j)
  <2>1. arriving' = arriving \cup {j} /\ reserved' = [reserved EXCEPT ![j] = 0]
    BY <1>5 DEF Begin
  <2>2. /\ arriving' \subseteq Jobs /\ reserved' \in [Jobs -> 0..2]
        /\ \A k \in Jobs : reserved'[k] = IF k = j THEN 0 ELSE reserved[k]
    BY <1>1, <2>1
  <2>3. NotYetReserved'
    BY <1>1, <1>2, <1>3, <2>2 DEF Begin, NotYetReserved
  <2> QED
    BY <1>3, <2>2, <2>3 DEF Begin, TypeInv, TypeOK, DriverHasJob, SweepIsSomeones
<1> QED
  BY <1>4, <1>5

\* The sweep of a take keeps the types.
LEMMA TypeTakeSweep == ASSUME TypeInv, NEW j \in Jobs, TakeSweep(j) PROVE TypeInv'
<1>1. /\ post \in [Jobs -> PostAt] /\ NotYetReserved
  BY DEF TypeInv, TypeOK
<1>2. sweep.by \notin Jobs /\ reserved[j] = 0
  BY <1>1, ConstantsAssumption
     DEF TakeSweep, Free, TypeInv, SweepIsSomeones, NotYetReserved, NoSweep
<1>3. /\ post' \in [Jobs -> PostAt]
      /\ \A k \in Jobs : k # j => post'[k] = post[k]
  BY <1>1 DEF TakeSweep, CallDone, PostAt
<1>4. UNCHANGED sweeping \/ StartSweep(j)
  BY Zenon DEF TakeSweep
<1>5. \/ sweep' = sweep
      \/ sweep' = [by |-> j, at |-> "expired", done |-> {}]
  BY <1>4 DEF StartSweep
<1>6. NotYetReserved'
  BY <1>1, <1>2, <1>3, <1>5 DEF TakeSweep, NotYetReserved
<1>7. /\ sweep' \in [by : Jobs \cup {"driver", "configure", "nobody"},
                     at : {"none", "expired", "evict"}, done : SUBSET Jobs]
      /\ SweepIsSomeones'
  BY <1>5 DEF TypeInv, TypeOK, SweepIsSomeones
<1> QED
  BY <1>3, <1>6, <1>7 DEF TakeSweep, TypeInv, TypeOK, DriverHasJob

\* Reserving room keeps the types.
LEMMA TypeTake == ASSUME TypeInv, NEW j \in Jobs, Take(j) PROVE TypeInv'
<1>1. /\ post \in [Jobs -> PostAt] /\ reserved \in [Jobs -> 0..2] /\ NotYetReserved
  BY DEF TypeInv, TypeOK
<1>2. reserved[j] = 0 /\ sweep.by \notin Jobs
  BY ConstantsAssumption DEF Take, Free, TypeInv, NotYetReserved, SweepIsSomeones, NoSweep
<1>3. /\ reserved' = [reserved EXCEPT ![j] = @ + Body(j)] \/ reserved' = reserved
      /\ Body(j) \in {1, 2}
  BY Zenon DEF Take, Body
<1>4. /\ reserved' \in [Jobs -> 0..2]
      /\ \A k \in Jobs : k # j => reserved'[k] = reserved[k]
  BY <1>1, <1>2, <1>3
<1>5. /\ post' \in [Jobs -> PostAt] /\ post'[j] \notin {"take", "sweeping", "taking"}
      /\ \A k \in Jobs : k # j => post'[k] = post[k]
  BY <1>1 DEF Take, Goes, PostAt
<1>6. NotYetReserved'
  BY <1>1, <1>2, <1>4, <1>5 DEF Take, NotYetReserved
<1> QED
  BY <1>4, <1>5, <1>6 DEF Take, TypeInv, TypeOK, DriverHasJob, SweepIsSomeones

\* Writing the inputs keeps the types.
LEMMA TypeWriteInputs == ASSUME TypeInv, NEW j \in Jobs, WriteInputs(j) PROVE TypeInv'
  BY DEF WriteInputs, Goes, PostAt, TypeInv, TypeOK, DriverHasJob, SweepIsSomeones,
     NotYetReserved

\* A refused form keeps the types.
LEMMA TypeRefuse == ASSUME TypeInv, NEW j \in Jobs, Refuse(j) PROVE TypeInv'
  BY DEF Refuse, PostAt, TypeInv, TypeOK, DriverHasJob, SweepIsSomeones, NotYetReserved

\* Settling the reservation keeps the types.
LEMMA TypeSettle == ASSUME TypeInv, NEW j \in Jobs, Settle(j) PROVE TypeInv'
  BY ConstantsAssumption DEF Settle, Goes, Free, NoSweep, PostAt, TypeInv, TypeOK, DriverHasJob,
     SweepIsSomeones, NotYetReserved

\* A full queue keeps the types.
LEMMA TypeSubmitFull == ASSUME TypeInv, NEW j \in Jobs, SubmitFull(j) PROVE TypeInv'
  BY DEF SubmitFull, Goes, Unreserve, NoSweep, PostAt, TypeInv, TypeOK, DriverHasJob,
     SweepIsSomeones, NotYetReserved

\* A submit after the abandon keeps the types.
LEMMA TypeSubmitRefused == ASSUME TypeInv, NEW j \in Jobs, SubmitRefused(j) PROVE TypeInv'
  BY DEF SubmitRefused, CallDone, PostAt, TypeInv, TypeOK, DriverHasJob, SweepIsSomeones,
     NotYetReserved

\* A submit keeps the types.
LEMMA TypeSubmit ==
  ASSUME TypeInv, NEW j \in Jobs, NEW ok \in BOOLEAN, Submit(j, ok) PROVE TypeInv'
<1> DEFINE r == [status |-> "queued", expires |-> now + TTL]
<1>1. /\ TypeOK /\ NotYetReserved
      /\ post \in [Jobs -> PostAt] /\ reserved \in [Jobs -> 0..2]
      /\ rec \in [Jobs -> Record] /\ known \subseteq Jobs /\ arriving \subseteq Jobs
  BY DEF TypeInv, TypeOK, Record
<1>2. r \in Record
  <2>1. now + TTL \in Nat
    BY <1>1, ConstantsAssumption DEF TypeOK
  <2> QED
    BY <2>1 DEF Record, Statuses
<1> HIDE DEF r
<1>3. WriteRecord(j, r, ok)
  BY DEF Submit, r
<1>4. record' \in [Jobs -> Record] /\ fails' \in 0..MaxFails
  BY <1>1, <1>2, <1>3, WriteType
<1>5. sweep.by \notin Jobs
  BY ConstantsAssumption DEF Submit, Free, TypeInv, SweepIsSomeones, NoSweep
<1>6. /\ post' \in [Jobs -> PostAt] /\ post'[j] \notin {"take", "sweeping", "taking"}
      /\ \A k \in Jobs : k # j => post'[k] = post[k]
  BY <1>1 DEF Submit, Goes, PostAt
<1>7. \/ UNCHANGED <<rec, known, uploads>>
      \/ /\ rec' = [rec EXCEPT ![j] = r] /\ known' = known \cup {j}
         /\ arriving' = arriving \ {j} /\ reserved' = [reserved EXCEPT ![j] = 0]
  BY Zenon DEF Submit, Unreserve, r
<1>8. /\ rec' \in [Jobs -> Record] /\ known' \subseteq Jobs /\ arriving' \subseteq Jobs
      /\ reserved' \in [Jobs -> 0..2]
      /\ \A k \in Jobs : k # j => reserved'[k] = reserved[k]
  BY <1>1, <1>2, <1>7
<1>9. NotYetReserved'
  BY <1>1, <1>5, <1>6, <1>8 DEF Submit, NotYetReserved
<1> QED
  BY <1>4, <1>6, <1>8, <1>9
     DEF Submit, TypeInv, TypeOK, Record, DriverHasJob, SweepIsSomeones

\* The handoff to the driver keeps the types.
LEMMA TypeHandoff == ASSUME TypeInv, NEW j \in Jobs, Handoff(j) PROVE TypeInv'
  BY DEF Handoff, PostAt, TypeInv, TypeOK, DriverHasJob, SweepIsSomeones, NotYetReserved

\* A client that leaves keeps the types.
LEMMA TypeLeave == ASSUME TypeInv, NEW j \in Jobs, Leave(j) PROVE TypeInv'
<1>1. /\ post \in [Jobs -> PostAt] /\ inputs \in [Jobs -> 0..1] /\ left \subseteq Jobs
      /\ NotYetReserved
  BY DEF TypeInv, TypeOK
<1>2. \/ UNCHANGED <<inputs, post>>
      \/ /\ inputs' = [inputs EXCEPT ![j] = 0]
         /\ post' = [post EXCEPT ![j] = "stopped"]
  BY Zenon DEF Leave
<1>3. /\ inputs' \in [Jobs -> 0..1] /\ post' \in [Jobs -> PostAt]
      /\ \A k \in Jobs : post'[k] = post[k] \/ post'[k] = "stopped"
  BY <1>1, <1>2 DEF PostAt
<1>4. NotYetReserved'
  BY <1>1, <1>3 DEF Leave, NotYetReserved
<1> QED
  BY <1>3, <1>4 DEF Leave, TypeInv, TypeOK, DriverHasJob, SweepIsSomeones

\* An abandon keeps the types.
LEMMA TypeAbandon == ASSUME TypeInv, NEW j \in Jobs, Abandon(j) PROVE TypeInv'
<1>1. /\ post \in [Jobs -> PostAt] /\ inputs \in [Jobs -> 0..1]
      /\ reserved \in [Jobs -> 0..2] /\ arriving \subseteq Jobs
      /\ NotYetReserved
  BY DEF TypeInv, TypeOK
<1>2. \/ UNCHANGED <<uploads, inputs>>
      \/ /\ inputs' = [inputs EXCEPT ![j] = 0]
         /\ arriving' = arriving \ {j} /\ reserved' = [reserved EXCEPT ![j] = 0]
  BY Zenon DEF Abandon, Unreserve
<1>3. /\ inputs' \in [Jobs -> 0..1] /\ arriving' \subseteq Jobs
      /\ reserved' \in [Jobs -> 0..2]
      /\ \A k \in Jobs : reserved'[k] = reserved[k] \/ reserved'[k] = 0
  BY <1>1, <1>2
<1>4. /\ post' \in [Jobs -> PostAt]
      /\ \A k \in Jobs : post'[k] = post[k] \/ post'[k] = "over"
  BY <1>1 DEF Abandon, PostAt
<1>5. NotYetReserved'
  BY <1>1, <1>3, <1>4 DEF Abandon, NotYetReserved
<1> QED
  BY <1>3, <1>4, <1>5 DEF Abandon, TypeInv, TypeOK, DriverHasJob, SweepIsSomeones

\* Passing over a job that ended keeps the types.
LEMMA TypeDriveNothing == ASSUME TypeInv, DriveNothing PROVE TypeInv'
  BY ConstantsAssumption DEF DriveNothing, NoSweep, PostAt, TypeInv, TypeOK, DriverHasJob,
     SweepIsSomeones, NotYetReserved

\* Failing a job that expired in the queue keeps the types.
LEMMA TypeDriveExpired ==
  ASSUME TypeInv, NEW ok \in BOOLEAN, DriveExpired(ok) PROVE TypeInv'
<1>1. TypeOK /\ queue \in Seq(Jobs) /\ queue # <<>>
  BY DEF TypeInv, TypeOK, DriveExpired
<1>2. Head(queue) \in Jobs /\ Tail(queue) \in Seq(Jobs)
  BY <1>1
<1>3. End(Head(queue), "failed", ok) /\ "failed" \in Ended
  BY DEF DriveExpired, Ended
<1>4. rec' \in [Jobs -> Record] /\ record' \in [Jobs -> Record] /\ fails' \in 0..MaxFails
  BY <1>1, <1>2, <1>3, EndType
<1>5. todo' \in Seq(FileKinds \X Jobs) /\ queue' \in Seq(Jobs)
  BY <1>2, FilesType DEF DriveExpired
<1> QED
  BY <1>4, <1>5
     DEF DriveExpired, TypeInv, TypeOK, Record, DriverHasJob, SweepIsSomeones, NotYetReserved

\* Starting a job keeps the types.
LEMMA TypeDrive == ASSUME TypeInv, NEW ok \in BOOLEAN, Drive(ok) PROVE TypeInv'
<1> DEFINE j == Head(queue)
<1> DEFINE r == [rec[j] EXCEPT !.status = "in_progress"]
<1>1. /\ TypeOK /\ queue \in Seq(Jobs) /\ queue # <<>> /\ rec \in [Jobs -> Record]
      /\ driver.at = "idle"
  BY DEF TypeInv, TypeOK, Record, Drive
<1>2. j \in Jobs /\ Tail(queue) \in Seq(Jobs)
  BY <1>1
<1>3. r \in Record
  BY <1>1, <1>2 DEF Record, Statuses
<1>4. rec' = [rec EXCEPT ![j] = r] /\ WriteRecord(j, r, ok) /\ (At("run", j) \/ UNCHANGED driver)
  BY Zenon DEF Drive
<1> HIDE DEF r, j
<1>5. /\ record' \in [Jobs -> Record] /\ fails' \in 0..MaxFails
      /\ rec' \in [Jobs -> Record]
  BY <1>1, <1>2, <1>3, <1>4, WriteType
<1>6. driver' \in [at : DriverAt, job : Jobs \cup {NoJob}] /\ DriverHasJob'
  BY <1>1, <1>2, <1>4 DEF At, DriverAt, TypeOK, DriverHasJob
<1>7. queue' \in Seq(Jobs)
  BY <1>2 DEF Drive
<1> QED
  BY <1>5, <1>6, <1>7 DEF Drive, TypeInv, TypeOK, Record, SweepIsSomeones, NotYetReserved

\* Opening the .part keeps the types.
LEMMA TypeStartPart == ASSUME TypeInv, StartPart PROVE TypeInv'
  BY DEF StartPart, At, DriverAt, TypeInv, TypeOK, DriverHasJob, SweepIsSomeones, NotYetReserved

\* Renaming the clip into place keeps the types.
LEMMA TypeRenamePart == ASSUME TypeInv, RenamePart PROVE TypeInv'
  BY DEF RenamePart, At, DriverAt, TypeInv, TypeOK, DriverHasJob, SweepIsSomeones,
     NotYetReserved

\* Work that raises keeps the types.
LEMMA TypeWorkRaises == ASSUME TypeInv, WorkRaises PROVE TypeInv'
  BY DEF WorkRaises, At, DriverAt, TypeInv, TypeOK, DriverHasJob, SweepIsSomeones,
     NotYetReserved

\* Leaving a cancelled job be keeps the types.
LEMMA TypeEndedMeanwhile == ASSUME TypeInv, EndedMeanwhile PROVE TypeInv'
  BY DEF EndedMeanwhile, At, DriverAt, TypeInv, TypeOK, DriverHasJob, SweepIsSomeones,
     NotYetReserved

\* The cleanup of a job keeps the types.
LEMMA TypeClean == ASSUME TypeInv, Clean PROVE TypeInv'
<1>1. driver.job \in Jobs
  BY DEF Clean, TypeInv, DriverHasJob
<1>2. todo' \in Seq(FileKinds \X Jobs)
  BY <1>1, FilesType DEF Clean
<1> QED
  BY <1>1, <1>2 DEF Clean, At, DriverAt, TypeInv, TypeOK, DriverHasJob, SweepIsSomeones, NotYetReserved

\* The driver's sweep keeps the types.
LEMMA TypeDriverSweep == ASSUME TypeInv, DriverSweep PROVE TypeInv'
  BY ConstantsAssumption DEF DriverSweep, At, StartSweep, Free, NoSweep, DriverAt, TypeInv,
     TypeOK, DriverHasJob, SweepIsSomeones, NotYetReserved

\* Completing a job keeps the types.
LEMMA TypeFinish == ASSUME TypeInv, NEW ok \in BOOLEAN, Finish(ok) PROVE TypeInv'
<1>1. TypeOK /\ driver.job \in Jobs
  BY DEF TypeInv, TypeOK, DriverHasJob, Finish
<1>2. PICK s \in Ended : End(driver.job, s, ok)
  BY DEF Finish, Ended
<1>3. rec' \in [Jobs -> Record] /\ record' \in [Jobs -> Record] /\ fails' \in 0..MaxFails
  BY <1>1, <1>2, EndType
<1> QED
  BY <1>1, <1>3 DEF Finish, At, TypeInv, TypeOK, Record, DriverAt, DriverHasJob, SweepIsSomeones, NotYetReserved

\* Failing a job keeps the types.
LEMMA TypeFail == ASSUME TypeInv, NEW ok \in BOOLEAN, Fail(ok) PROVE TypeInv'
<1>1. TypeOK /\ driver.job \in Jobs
  BY DEF TypeInv, TypeOK, DriverHasJob, Fail
<1>2. PICK s \in Ended : End(driver.job, s, ok)
  BY DEF Fail, Ended
<1>3. rec' \in [Jobs -> Record] /\ record' \in [Jobs -> Record] /\ fails' \in 0..MaxFails
  BY <1>1, <1>2, EndType
<1> QED
  BY <1>1, <1>3 DEF Fail, At, TypeInv, TypeOK, Record, DriverAt, DriverHasJob, SweepIsSomeones, NotYetReserved

\* A DELETE of an ended job keeps the types.
LEMMA TypeDeleteEnded == ASSUME TypeInv, NEW j \in Jobs, DeleteEnded(j) PROVE TypeInv'
  BY DEF DeleteEnded, Forget, FilesOf, NoSweep, Statuses, PostAt, DriverAt, FileKinds, Record,
     TypeInv, TypeOK, DriverHasJob, SweepIsSomeones, NotYetReserved

\* A cancel keeps the types.
LEMMA TypeDeleteLive == ASSUME TypeInv, NEW j \in Jobs, NEW ok \in BOOLEAN, DeleteLive(j, ok) PROVE TypeInv'
<1>1. TypeOK /\ j \in Jobs
  BY DEF TypeInv, TypeOK, DriverHasJob, DeleteLive
<1>2. PICK s \in Ended : End(j, s, ok)
  BY DEF DeleteLive, Ended
<1>3. rec' \in [Jobs -> Record] /\ record' \in [Jobs -> Record] /\ fails' \in 0..MaxFails
  BY <1>1, <1>2, EndType
<1>4. todo' \in Seq(FileKinds \X Jobs) /\ stop' \subseteq Jobs
  <2>1. todo' = <<<<"inputs", j>>>> \/ todo' = <<>>
    BY DEF DeleteLive
  <2>2. stop \subseteq Jobs /\ stop' = stop \cup {j}
    BY <1>1 DEF DeleteLive, TypeOK
  <2>3. <<>> \in Seq(FileKinds \X Jobs)
    OBVIOUS
  <2> QED
    BY <2>1, <2>2, <2>3, FilesType
<1> QED
  BY <1>1, <1>3, <1>4 DEF DeleteLive, At, TypeInv, TypeOK, Record, DriverAt, DriverHasJob, SweepIsSomeones, NotYetReserved

\* An answer that links a clip keeps the types.
LEMMA TypeServe == ASSUME TypeInv, NEW j \in Jobs, Serve(j) PROVE TypeInv'
  BY DEF Serve, TypeInv, TypeOK, DriverHasJob, SweepIsSomeones, NotYetReserved

\* The end of an answer keeps the types.
LEMMA TypeSent == ASSUME TypeInv, NEW j \in Jobs, Sent(j) PROVE TypeInv'
  BY DEF Sent, TypeInv, TypeOK, DriverHasJob, SweepIsSomeones, NotYetReserved

\* The clock keeps the types.
LEMMA TypeTick == ASSUME TypeInv, Tick PROVE TypeInv'
  BY ConstantsAssumption DEF Tick, NoSweep, PostAt, TypeInv, TypeOK, DriverHasJob,
     SweepIsSomeones, NotYetReserved

\* A crash keeps the types.
LEMMA TypeCrash == ASSUME TypeInv, Crash PROVE TypeInv'
  BY ConstantsAssumption DEF Crash, NoSweep, Idle, NoRecord, Statuses, Record, DriverAt, PostAt,
     TypeInv, TypeOK, DriverHasJob, SweepIsSomeones, NotYetReserved

\* Restoring a record keeps the types.
LEMMA TypeRestoreJob == ASSUME TypeInv, NEW j \in Jobs, NEW ok \in BOOLEAN, RestoreJob(j, ok) PROVE TypeInv'
<1>1. TypeOK
  BY DEF TypeInv
<1>2. CASE record[j].status \in Ended
  <2>1. rec' \in [Jobs -> Record] /\ known' \subseteq Jobs
    BY <1>1, <1>2 DEF RestoreJob, TypeOK, Record
  <2> QED
    BY <1>2, <2>1 DEF RestoreJob, TypeInv, TypeOK, Record, DriverHasJob, SweepIsSomeones, NotYetReserved
<1>3. CASE record[j].status \notin Ended
  <2>1. rec' \in [Jobs -> Record] /\ record' \in [Jobs -> Record] /\ fails' \in 0..MaxFails
    <3>1. End(j, "failed", ok) /\ "failed" \in Ended
      BY <1>3 DEF RestoreJob, Ended
    <3> QED
      BY <1>1, <3>1, EndType
  <2>2. todo' \in Seq(FileKinds \X Jobs) /\ known' \subseteq Jobs
    BY <1>1, <1>3, FilesType DEF RestoreJob, TypeOK
  <2> QED
    BY <2>1, <2>2 DEF RestoreJob, TypeInv, TypeOK, Record, DriverHasJob, SweepIsSomeones, NotYetReserved
<1> QED
  BY <1>2, <1>3

\* The end of a restore keeps the types.
LEMMA TypeRestoreRest == ASSUME TypeInv, RestoreRest PROVE TypeInv'
  BY ConstantsAssumption DEF RestoreRest, StartSweep, NoSweep, PostAt, TypeInv, TypeOK,
     DriverHasJob, SweepIsSomeones, NotYetReserved

\* Every step keeps the types.
LEMMA TypeStep == TypeInv /\ [Next]_vars => TypeInv'
<1> SUFFICES ASSUME TypeInv, [Next]_vars PROVE TypeInv'
  OBVIOUS
<1>1. CASE FileStep \/ Configure \/ Tick \/ Crash
  BY <1>1, TypeFileStep, TypeConfigure, TypeTick, TypeCrash
<1>2. CASE Sweep
  BY <1>2, TypeSweepExpired, TypeSweepEvict, TypeSweepOrphans, TypeSweepEnd DEF Sweep
<1>3. CASE Driving
  BY <1>3, TypeDriveNothing, TypeStartPart, TypeRenamePart, TypeWorkRaises, TypeEndedMeanwhile,
     TypeClean, TypeDriverSweep, TypeDriveExpired, TypeDrive, TypeFinish, TypeFail DEF Driving
<1>4. CASE Restore
  BY <1>4, TypeRestoreRest, TypeRestoreJob DEF Restore
<1>5. ASSUME NEW j \in Jobs, Arrive(j) \/ Handoff(j) \/ Abandon(j)
      PROVE  TypeInv'
  BY <1>5, TypeFull, TypeRefuse, TypeLeave, TypeHandoff, TypeAbandon DEF Arrive
<1>6. ASSUME NEW j \in Jobs, PostCall(j)
      PROVE  TypeInv'
  BY <1>6, TypeBegin, TypeTakeSweep, TypeTake, TypeWriteInputs, TypeSettle, TypeSubmitFull,
     TypeSubmitRefused, TypeSubmit DEF PostCall
<1>7. ASSUME NEW j \in Jobs, Client(j)
      PROVE  TypeInv'
  BY <1>7, TypeDeleteEnded, TypeServe, TypeSent, TypeDeleteLive DEF Client
<1>8. CASE UNCHANGED vars
  BY <1>8 DEF vars, TypeInv, TypeOK, DriverHasJob, SweepIsSomeones, NotYetReserved
<1>9. CASE Rest
  BY <1>8, <1>9 DEF Rest
<1> QED
  BY <1>1, <1>2, <1>3, <1>4, <1>5, <1>6, <1>7, <1>8, <1>9 DEF Next

\* The types, and what else the driver and the sweep keep.
THEOREM TypeInvariant == Spec => []TypeInv
<1>1. TypeInv /\ [Next]_vars => TypeInv'
  BY TypeStep
<1> QED
  BY TypeInit, <1>1, PTL DEF Spec

\* The values of every variable stay in the code's own terms, for every set
\* of jobs and every bound: no step of a POST, the driver, the sweep, a
\* crash or a restart leaves them.
THEOREM TypeCorrect == Spec => []TypeOK
<1>1. TypeInv => TypeOK
  BY DEF TypeInv
<1> QED
  BY TypeInvariant, <1>1, PTL

-----------------------------------------------------------------------------
(* Records and clips.                                                      *)

\* The driver is at work on j, which no DELETE has ended.
Works(j) ==
  /\ driver.at \in {"run", "mux", "finish"} /\ driver.job = j
  /\ Running(j)

\* The holder of the lock is in the middle of forgetting j.
RemovesJob(j) ==
  todo \in {<<<<"inputs", j>>, <<"record", j>>, <<"clip", j>>, <<"part", j>>>>,
            <<<<"record", j>>, <<"clip", j>>, <<"part", j>>>>}

\* It removes the clip of j, whose record is gone or says it did not complete.
RemovesClip(j) ==
  todo \in {<<<<"inputs", j>>, <<"clip", j>>, <<"part", j>>>>,
            <<<<"clip", j>>, <<"part", j>>>>}

\* It removes one file of j that is not its clip.
RemovesOne(j) == todo \in {<<<<"inputs", j>>>>, <<<<"part", j>>>>}

\* No removal takes the clip of a completed record, nor the one the driver
\* is about to finish.
RemovalIsSafe ==
  \/ todo = <<>>
  \/ \E j \in Jobs : RemovesOne(j)
  \/ \E j \in Jobs : RemovesClip(j) /\ record[j].status # "completed" /\ ~Works(j)
  \/ \E j \in Jobs : RemovesJob(j) /\ j \notin known /\ server = "up" /\ ~Works(j)

\* A completed record is in the table, unless it is being removed.
RecordIsKnown ==
  server = "up" =>
    \A j \in Jobs : record[j].status = "completed" => j \in known \/ RemovesJob(j)

\* The server says of a completed record that it is completed.
RecordIsRead ==
  \A j \in Jobs : /\ record[j].status = "completed"
                  /\ server = "up" \/ j \in known
                  => Status(j) = "completed"

LiveIsKnown == \A j \in Jobs : Status(j) \in {"queued", "in_progress"} => j \in known

\* What the driver is about to finish has its clip.
FinishHasClip == driver.at = "finish" /\ Running(driver.job) => driver.job \in clip

\* A server that restores has no driver at work and no sweep.
RestoreIsAlone == server = "restore" => driver = Idle /\ sweep = NoSweep

DoneAreCompleted == \A j \in sweep.done : Status(j) = "completed"

DiskInv ==
  /\ CompletedHasClip /\ CompletedIsDurable /\ RemovalIsSafe
  /\ RecordIsKnown /\ RecordIsRead /\ LiveIsKnown
  /\ FinishHasClip /\ RestoreIsAlone /\ DoneAreCompleted

\* An empty store keeps DiskInv.
LEMMA DiskInit == Init => DiskInv
  BY DEF Init, DiskInv, CompletedHasClip, CompletedIsDurable, RemovalIsSafe, RecordIsKnown,
         RecordIsRead, LiveIsKnown, FinishHasClip, RestoreIsAlone, DoneAreCompleted,
         NoRecord, NoSweep, Idle, Status

\* A step that leaves the table, the records, the clips and the driver alone
\* keeps DiskInv, though it may open a sweep of a free store.
LEMMA DiskFrame ==
  ASSUME DiskInv, UNCHANGED <<server, known, rec, driver, todo, record, clip>>,
         UNCHANGED sweep \/ (server = "up" /\ sweep'.done = {})
  PROVE  DiskInv'
<1>1. /\ CompletedHasClip' /\ CompletedIsDurable' /\ RecordIsRead' /\ LiveIsKnown'
      /\ FinishHasClip'
  BY DEF DiskInv, CompletedHasClip, CompletedIsDurable, RecordIsRead, LiveIsKnown,
         FinishHasClip, Status, Running
<1>2. RemovalIsSafe'
  BY DEF DiskInv, RemovalIsSafe, RemovesOne, RemovesClip, RemovesJob, Works, Status, Running
<1>3. RecordIsKnown'
  BY DEF DiskInv, RecordIsKnown, RemovesJob
<1>4. RestoreIsAlone' /\ DoneAreCompleted'
  BY DEF DiskInv, RestoreIsAlone, DoneAreCompleted, Status
<1> QED
  BY <1>1, <1>2, <1>3, <1>4 DEF DiskInv

\* A step of the driver at work, or one that lets go of a job, keeps DiskInv
\* when what it finishes has a clip.
LEMMA DiskDriver ==
  ASSUME DiskInv, server = "up", UNCHANGED <<server, known, rec, todo, record, sweep>>,
         \A j \in Jobs : Works(j)' => Works(j),
         clip \subseteq clip', FinishHasClip'
  PROVE  DiskInv'
<1>1. CompletedHasClip' /\ CompletedIsDurable' /\ RecordIsRead' /\ LiveIsKnown'
  BY DEF DiskInv, CompletedHasClip, CompletedIsDurable, RecordIsRead, LiveIsKnown, Status
<1>2. RemovalIsSafe'
  BY DEF DiskInv, RemovalIsSafe, RemovesOne, RemovesClip, RemovesJob
<1>3. RecordIsKnown' /\ RestoreIsAlone' /\ DoneAreCompleted'
  BY DEF DiskInv, RecordIsKnown, RemovesJob, RestoreIsAlone, DoneAreCompleted, Status
<1> QED
  BY <1>1, <1>2, <1>3 DEF DiskInv

\* Removing a file, in each place a removal can be, keeps DiskInv.
LEMMA DiskFileStep == ASSUME TypeInv, DiskInv, FileStep PROVE DiskInv'
<1>1. /\ todo # <<>> /\ todo' = Tail(todo)
      /\ record' = IF Head(todo)[1] = "record"
                   THEN [record EXCEPT ![Head(todo)[2]] = NoRecord] ELSE record
      /\ clip' = IF Head(todo)[1] = "clip" THEN clip \ {Head(todo)[2]} ELSE clip
      /\ UNCHANGED <<server, known, rec, driver, sweep>>
  BY DEF FileStep
<1>2. record \in [Jobs -> Record]
  BY DEF TypeInv, TypeOK, Record
<1>3. RestoreIsAlone' /\ DoneAreCompleted' /\ LiveIsKnown'
  BY <1>1 DEF DiskInv, RestoreIsAlone, DoneAreCompleted, LiveIsKnown, Status
<1>4. \A k \in Jobs : Works(k)' <=> Works(k)
  BY <1>1 DEF Works, Running, Status
<1>5. CASE \E j \in Jobs : RemovesOne(j)
  <2>1. record' = record /\ clip' = clip /\ todo' = <<>>
    BY <1>1, <1>5 DEF RemovesOne
  <2>2. \A k \in Jobs : ~RemovesJob(k)
    BY <1>5 DEF RemovesOne, RemovesJob
  <2> QED
    BY <1>1, <1>3, <2>1, <2>2 DEF DiskInv, CompletedHasClip, CompletedIsDurable, RemovalIsSafe,
       RecordIsKnown, RecordIsRead, FinishHasClip, Running, Status
<1>6. ASSUME NEW j \in Jobs, RemovesClip(j), record[j].status # "completed", ~Works(j)
      PROVE  DiskInv'
  <2>1. /\ record' = record
        /\ clip' = clip \/ clip' = clip \ {j}
        /\ RemovesClip(j)' \/ RemovesOne(j)'
    <3>1. CASE todo = <<<<"inputs", j>>, <<"clip", j>>, <<"part", j>>>>
      <4>1. Head(todo) = <<"inputs", j>> /\ Tail(todo) = <<<<"clip", j>>, <<"part", j>>>>
        BY <3>1
      <4> QED
        BY <1>1, <4>1 DEF RemovesClip
    <3>2. CASE todo = <<<<"clip", j>>, <<"part", j>>>>
      <4>1. Head(todo) = <<"clip", j>> /\ Tail(todo) = <<<<"part", j>>>>
        BY <3>2
      <4> QED
        BY <1>1, <4>1 DEF RemovesOne
    <3> QED
      BY <1>6, <3>1, <3>2 DEF RemovesClip
  <2>2. RemovalIsSafe'
    BY <1>4, <1>6, <2>1 DEF RemovalIsSafe
  <2>3. \A k \in Jobs : ~RemovesJob(k)
    BY <1>6 DEF RemovesClip, RemovesJob
  <2>4. CompletedHasClip' /\ CompletedIsDurable' /\ RecordIsKnown' /\ RecordIsRead'
    BY <1>1, <1>6, <2>1, <2>3 DEF DiskInv, CompletedHasClip, CompletedIsDurable, RecordIsKnown,
       RecordIsRead, Status
  <2>5. FinishHasClip'
    BY <1>1, <1>6, <2>1 DEF DiskInv, FinishHasClip, Works, Running, Status
  <2> QED
    BY <1>3, <2>2, <2>4, <2>5 DEF DiskInv
<1>7. ASSUME NEW j \in Jobs, RemovesJob(j), j \notin known, server = "up", ~Works(j)
      PROVE  DiskInv'
  <2>1. \/ record' = record /\ RemovesJob(j)'
        \/ record' = [record EXCEPT ![j] = NoRecord] /\ RemovesClip(j)'
    <3>1. CASE todo = <<<<"inputs", j>>, <<"record", j>>, <<"clip", j>>, <<"part", j>>>>
      <4>1. /\ Head(todo) = <<"inputs", j>>
            /\ Tail(todo) = <<<<"record", j>>, <<"clip", j>>, <<"part", j>>>>
        BY <3>1
      <4> QED
        BY <1>1, <4>1 DEF RemovesJob
    <3>2. CASE todo = <<<<"record", j>>, <<"clip", j>>, <<"part", j>>>>
      <4>1. Head(todo) = <<"record", j>> /\ Tail(todo) = <<<<"clip", j>>, <<"part", j>>>>
        BY <3>2
      <4>2. record' = [record EXCEPT ![j] = NoRecord]
        <5>1. Head(todo)[1] = "record" /\ Head(todo)[2] = j
          BY <4>1
        <5> QED
          BY <1>1, <5>1
      <4>3. RemovesClip(j)'
        BY <1>1, <4>1 DEF RemovesClip
      <4> QED
        BY <4>2, <4>3
    <3> QED
      BY <1>7, <3>1, <3>2 DEF RemovesJob
  <2>2. clip' = clip
    BY <1>1, <1>7 DEF RemovesJob
  <2>3. /\ \A k \in Jobs : k # j => record'[k] = record[k]
        /\ record'[j].status = "completed" => record[j].status = "completed" /\ RemovesJob(j)'
        /\ RemovesClip(j)' => record'[j].status # "completed"
        /\ RemovesClip(j)' \/ RemovesJob(j)'
    BY <1>2, <2>1 DEF NoRecord, RemovesJob, RemovesClip
  <2>4. RemovalIsSafe'
    BY <1>1, <1>4, <1>7, <2>3 DEF RemovalIsSafe
  <2>5. CompletedHasClip' /\ RecordIsRead' /\ FinishHasClip'
    BY <1>1, <2>2, <2>3 DEF DiskInv, CompletedHasClip, RecordIsRead, FinishHasClip,
       Running, Status
  <2>6. CompletedIsDurable'
    <3>1. known \subseteq Jobs
      BY DEF TypeInv, TypeOK
    <3> QED
      BY <1>1, <1>7, <2>3, <3>1 DEF DiskInv, CompletedIsDurable, Status
  <2>7. \A k \in Jobs : RemovesJob(k) => k = j
    BY <1>7 DEF RemovesJob
  <2>8. RecordIsKnown'
    BY <1>1, <1>7, <2>3, <2>7 DEF DiskInv, RecordIsKnown
  <2> QED
    BY <1>3, <2>4, <2>5, <2>8, <2>6 DEF DiskInv
<1> QED
  BY <1>1, <1>5, <1>6, <1>7 DEF DiskInv, RemovalIsSafe

\* Forgetting a job that is not at work opens a removal that is safe.
LEMMA DiskForget ==
  ASSUME TypeInv, DiskInv, NEW j \in Jobs, server = "up", todo = <<>>, Forget(j), Status(j) \in Ended,
         UNCHANGED <<server, rec, driver, record, clip>>, sweep'.done \subseteq sweep.done
  PROVE  DiskInv'
<1>1. known' = known \ {j} /\ RemovesJob(j)'
  BY DEF Forget, FilesOf, RemovesJob
<1>2. ~Works(j)' /\ Status(j) \notin {"queued", "in_progress"}
  BY DEF Works, Running, Status, Ended
<1>3. RemovalIsSafe'
  BY <1>1, <1>2 DEF RemovalIsSafe
<1>4. \A k \in Jobs : ~RemovesJob(k)
  BY DEF RemovesJob
<1>5. RecordIsKnown'
  BY <1>1, <1>4 DEF DiskInv, RecordIsKnown
<1>6. LiveIsKnown'
  BY <1>1, <1>2 DEF DiskInv, LiveIsKnown, Status
<1>7. /\ CompletedHasClip' /\ CompletedIsDurable' /\ RecordIsRead' /\ FinishHasClip'
      /\ RestoreIsAlone' /\ DoneAreCompleted'
  BY <1>1 DEF DiskInv, CompletedHasClip, CompletedIsDurable, RecordIsRead, FinishHasClip,
     RestoreIsAlone, DoneAreCompleted, Running, Status
<1> QED
  BY <1>3, <1>5, <1>6, <1>7 DEF DiskInv

\* A sweep forgets an expired job.
LEMMA DiskSweepExpired == ASSUME TypeInv, DiskInv, NEW j \in Jobs, SweepExpired(j) PROVE DiskInv'
<1>1. sweep # NoSweep
  BY DEF SweepExpired, NoSweep
<1>2. server = "up"
  BY <1>1 DEF DiskInv, RestoreIsAlone, TypeInv, TypeOK
<1> QED
  BY <1>2, DiskForget DEF SweepExpired

\* A sweep evicts a completed job.
LEMMA DiskSweepEvict == ASSUME TypeInv, DiskInv, NEW j \in Jobs, SweepEvict(j) PROVE DiskInv'
<1>1. sweep # NoSweep
  BY DEF SweepEvict, NoSweep
<1>2. server = "up"
  BY <1>1 DEF DiskInv, RestoreIsAlone, TypeInv, TypeOK
<1>3. Status(j) \in Ended /\ sweep'.done \subseteq sweep.done
  BY DEF SweepEvict, DiskInv, DoneAreCompleted, Ended, TypeInv, TypeOK
<1> QED
  BY <1>2, <1>3, DiskForget DEF SweepEvict

\* A clip no job names is no completed record's.
LEMMA DiskSweepOrphans == ASSUME TypeInv, DiskInv, SweepOrphans PROVE DiskInv'
<1>1. /\ todo = <<>> /\ UNCHANGED <<server, known, rec, driver, todo, record>>
      /\ clip' = clip \cap (known \cup arriving)
      /\ sweep'.done \subseteq {j \in known : Status(j) = "completed"}
      /\ sweep # NoSweep
  BY DEF SweepOrphans, NoSweep, TypeInv, TypeOK
<1>2. server = "up"
  BY <1>1 DEF DiskInv, RestoreIsAlone, TypeInv, TypeOK
<1>3. \A j \in Jobs : record[j].status = "completed" => j \in known
  BY <1>1, <1>2 DEF DiskInv, RecordIsKnown, RemovesJob
<1>4. CompletedHasClip'
  BY <1>1, <1>3 DEF DiskInv, CompletedHasClip
<1>5. FinishHasClip'
  <2> SUFFICES ASSUME driver.at = "finish", Running(driver.job) PROVE driver.job \in clip'
    BY <1>1 DEF FinishHasClip, Running, Status
  <2>1. driver.job \in clip /\ driver.job \in Jobs
    BY DEF DiskInv, FinishHasClip, TypeInv, DriverHasJob
  <2>2. driver.job \in known
    BY <2>1 DEF DiskInv, LiveIsKnown, Running
  <2> QED
    BY <1>1, <2>1, <2>2
<1>6. RemovalIsSafe' /\ RecordIsKnown' /\ RecordIsRead' /\ LiveIsKnown' /\ CompletedIsDurable'
  BY <1>1, <1>3 DEF DiskInv, RemovalIsSafe, RecordIsKnown, RecordIsRead, LiveIsKnown,
     CompletedIsDurable, Status
<1>7. RestoreIsAlone' /\ DoneAreCompleted'
  BY <1>1, <1>2 DEF RestoreIsAlone, DoneAreCompleted, Status
<1> QED
  BY <1>4, <1>5, <1>6, <1>7 DEF DiskInv

\* What _end does to the records: the job's own, on disk or not.
LEMMA EndEffect ==
  ASSUME TypeOK, NEW j \in Jobs, NEW s \in Ended \ {"completed"}, NEW ok \in BOOLEAN, End(j, s, ok)
  PROVE  /\ \A k \in Jobs : k # j => rec'[k] = rec[k] /\ record'[k] = record[k]
         /\ rec'[j].status = s
         /\ record'[j] = record[j] \/ record'[j].status = s
<1>1. rec \in [Jobs -> Record] /\ record \in [Jobs -> Record]
  BY DEF TypeOK, Record
<1>2. /\ rec' = [rec EXCEPT ![j] = [status |-> s, expires |-> now + TTL]]
      /\ \/ record' = [record EXCEPT ![j] = [status |-> s, expires |-> now + TTL]]
         \/ record' = record
  BY DEF End, WriteRecord
<1> QED
  BY <1>1, <1>2

\* A job that does not complete: its record follows, or its write failed and
\* the old one, of no completed job either, stays.
LEMMA DiskEnds ==
  ASSUME TypeInv, DiskInv, NEW j \in known, NEW s \in Statuses \ {"completed"},
         server = "up", todo = <<>>, sweep = NoSweep, Status(j) # "completed",
         UNCHANGED <<server, known, clip, sweep>>,
         \A k \in Jobs : k # j => rec'[k] = rec[k] /\ record'[k] = record[k],
         rec'[j].status = s,
         record'[j] = record[j] \/ record'[j].status = s,
         todo' = <<>> \/ RemovesOne(j)',
         FinishHasClip'
  PROVE  DiskInv'
<1>1. j \in Jobs /\ known \subseteq Jobs
  BY DEF TypeInv, TypeOK
<1>2. record[j].status # "completed" /\ record'[j].status # "completed"
  BY <1>1 DEF DiskInv, RecordIsRead
<1>3. CompletedHasClip' /\ RecordIsRead' /\ RecordIsKnown' /\ LiveIsKnown'
  BY <1>1, <1>2 DEF DiskInv, CompletedHasClip, RecordIsRead, RecordIsKnown, LiveIsKnown,
     RemovesJob, Status
<1>4. CompletedIsDurable'
  BY <1>1, <1>2 DEF DiskInv, CompletedIsDurable, Status
<1>5. RemovalIsSafe' /\ RestoreIsAlone' /\ DoneAreCompleted'
  BY <1>1 DEF RemovalIsSafe, RestoreIsAlone, DoneAreCompleted, NoSweep
<1> QED
  BY <1>3, <1>4, <1>5 DEF DiskInv

\* A free lock, in the invariants' terms.
LEMMA FreeMeans ==
  ASSUME TypeInv, Free
  PROVE  server = "up" /\ todo = <<>> /\ sweep = NoSweep
  BY DEF Free, TypeInv, SweepIsSomeones

\* A job that expired in the queue fails.
LEMMA DiskDriveExpired ==
  ASSUME TypeInv, DiskInv, NEW ok \in BOOLEAN, DriveExpired(ok) PROVE DiskInv'
<1>1. TypeOK /\ queue \in Seq(Jobs) /\ queue # <<>> /\ driver.at = "idle"
  BY DEF TypeInv, TypeOK, DriveExpired
<1>2. PICK j \in Jobs : j = Head(queue)
  BY <1>1
<1>3. /\ End(j, "failed", ok) /\ Status(j) = "queued" /\ todo' = <<<<"inputs", j>>>>
      /\ UNCHANGED <<server, known, clip, sweep, driver>> /\ Free
  BY <1>2 DEF DriveExpired
<1>4. j \in known
  BY <1>2, <1>3 DEF DiskInv, LiveIsKnown
<1>5. /\ "failed" \in Ended \ {"completed"} /\ "failed" \in Statuses \ {"completed"}
      /\ Status(j) # "completed" /\ RemovesOne(j)'
  BY <1>3 DEF Ended, Statuses, RemovesOne
<1>6. FinishHasClip'
  BY <1>1, <1>3 DEF FinishHasClip
<1>7. server = "up" /\ todo = <<>> /\ sweep = NoSweep
  BY <1>3, FreeMeans
<1>8. /\ \A k \in Jobs : k # j => rec'[k] = rec[k] /\ record'[k] = record[k]
      /\ rec'[j].status = "failed"
      /\ record'[j] = record[j] \/ record'[j].status = "failed"
  BY <1>1, <1>2, <1>3, <1>5, EndEffect
<1> QED
  BY <1>3, <1>4, <1>5, <1>6, <1>7, <1>8, DiskEnds

\* A job that starts is in progress, on disk or not.
LEMMA DiskDrive == ASSUME TypeInv, DiskInv, NEW ok \in BOOLEAN, Drive(ok) PROVE DiskInv'
<1> DEFINE j == Head(queue)
<1> DEFINE r == [rec[j] EXCEPT !.status = "in_progress"]
<1>1. /\ queue \in Seq(Jobs) /\ queue # <<>> /\ driver.at = "idle"
      /\ rec \in [Jobs -> Record] /\ record \in [Jobs -> Record]
  BY DEF TypeInv, TypeOK, Record, Drive
<1>2. j \in Jobs
  BY <1>1
<1>3. /\ rec' = [rec EXCEPT ![j] = r] /\ WriteRecord(j, r, ok)
      /\ Status(j) = "queued" /\ UNCHANGED <<server, known, clip, sweep, todo>> /\ Free
      /\ driver'.at \in {"idle", "run"}
  BY <1>1 DEF Drive, At
<1>4. r.status = "in_progress"
  BY <1>1, <1>2 DEF Record
<1> HIDE DEF j, r
<1>5. record' = [record EXCEPT ![j] = r] \/ record' = record
  BY <1>3 DEF WriteRecord
<1>6. /\ \A k \in Jobs : k # j => rec'[k] = rec[k] /\ record'[k] = record[k]
      /\ rec'[j].status = "in_progress"
      /\ record'[j] = record[j] \/ record'[j].status = "in_progress"
  BY <1>1, <1>2, <1>3, <1>4, <1>5
<1>7. j \in known
  BY <1>2, <1>3 DEF DiskInv, LiveIsKnown
<1>8. /\ "in_progress" \in Statuses \ {"completed"}
      /\ Status(j) # "completed" /\ FinishHasClip'
  BY <1>3 DEF Statuses, FinishHasClip
<1>9. server = "up" /\ todo = <<>> /\ sweep = NoSweep
  BY <1>3, FreeMeans
<1> QED
  BY <1>3, <1>6, <1>7, <1>8, <1>9, DiskEnds

\* A job that runs fails.
LEMMA DiskFail == ASSUME TypeInv, DiskInv, NEW ok \in BOOLEAN, Fail(ok) PROVE DiskInv'
<1> DEFINE j == driver.job
<1>1. TypeOK /\ j \in Jobs
  BY DEF TypeInv, DriverHasJob, Fail
<1>2. /\ End(j, "failed", ok) /\ Status(j) = "in_progress" /\ Free
      /\ UNCHANGED <<server, known, clip, sweep, todo>> /\ driver'.at = "clean"
  BY DEF Fail, Running, At
<1> HIDE DEF j
<1>3. j \in known
  BY <1>1, <1>2 DEF DiskInv, LiveIsKnown
<1>4. /\ "failed" \in Ended \ {"completed"} /\ "failed" \in Statuses \ {"completed"}
      /\ Status(j) # "completed" /\ FinishHasClip'
  BY <1>2 DEF Ended, Statuses, FinishHasClip
<1>5. server = "up" /\ todo = <<>> /\ sweep = NoSweep
  BY <1>2, FreeMeans
<1> QED
  BY <1>1, <1>2, <1>3, <1>4, <1>5, EndEffect, DiskEnds

\* A cancel, which leaves the clip of a job at work to the driver.
LEMMA DiskDeleteLive ==
  ASSUME TypeInv, DiskInv, NEW j \in Jobs, NEW ok \in BOOLEAN, DeleteLive(j, ok) PROVE DiskInv'
<1>1. TypeOK
  BY DEF TypeInv
<1>2. /\ End(j, "cancelled", ok) /\ Status(j) \in {"queued", "in_progress"} /\ Free
      /\ j \in known /\ UNCHANGED <<server, known, clip, sweep, driver>>
      /\ todo' = <<>> \/ RemovesOne(j)'
  BY DEF DeleteLive, Found, RemovesOne
<1>3. /\ "cancelled" \in Ended \ {"completed"} /\ "cancelled" \in Statuses \ {"completed"}
      /\ Status(j) # "completed"
  BY <1>2 DEF Ended, Statuses
<1>4. /\ \A k \in Jobs : k # j => rec'[k] = rec[k] /\ record'[k] = record[k]
      /\ rec'[j].status = "cancelled"
      /\ record'[j] = record[j] \/ record'[j].status = "cancelled"
  BY <1>1, <1>2, <1>3, EndEffect
<1>5. FinishHasClip'
  BY <1>2, <1>4 DEF DiskInv, FinishHasClip, Running, Status, TypeInv, DriverHasJob
<1>6. server = "up" /\ todo = <<>> /\ sweep = NoSweep
  BY <1>2, FreeMeans
<1> QED
  BY <1>2, <1>3, <1>4, <1>5, <1>6, DiskEnds

\* A job completes when its record is on disk, and not before.
LEMMA DiskFinish == ASSUME TypeInv, DiskInv, NEW ok \in BOOLEAN, Finish(ok) PROVE DiskInv'
<1> DEFINE j == driver.job
<1> DEFINE r == [status |-> "completed", expires |-> now + TTL]
<1>1. /\ j \in Jobs /\ rec \in [Jobs -> Record] /\ record \in [Jobs -> Record]
      /\ known \subseteq Jobs
  BY DEF TypeInv, TypeOK, Record, DriverHasJob, Finish
<1>2. /\ End(j, "completed", ok) /\ Running(j) /\ Free /\ driver.at = "finish"
      /\ UNCHANGED <<server, known, clip, sweep, todo>> /\ driver'.at \in {"clean", "fail"}
  BY DEF Finish, At
<1>3. server = "up" /\ todo = <<>> /\ sweep = NoSweep
  BY <1>2, FreeMeans
<1>4. j \in known /\ j \in clip
  BY <1>1, <1>2 DEF DiskInv, LiveIsKnown, FinishHasClip, Running
<1>5. RemovalIsSafe' /\ RestoreIsAlone' /\ DoneAreCompleted' /\ FinishHasClip'
  BY <1>2, <1>3 DEF RemovalIsSafe, RestoreIsAlone, DoneAreCompleted, FinishHasClip, NoSweep
<1>6. \/ record' = [record EXCEPT ![j] = r] /\ rec' = [rec EXCEPT ![j] = r]
      \/ UNCHANGED <<rec, record>>
  BY <1>2 DEF End, WriteRecord
<1>7. CASE UNCHANGED <<rec, record>>
  <2>1. /\ CompletedHasClip' /\ CompletedIsDurable' /\ RecordIsKnown' /\ RecordIsRead'
        /\ LiveIsKnown'
    BY <1>2, <1>3, <1>7 DEF DiskInv, CompletedHasClip, CompletedIsDurable, RecordIsKnown,
       RecordIsRead, LiveIsKnown, RemovesJob, Status
  <2> QED
    BY <1>5, <2>1 DEF DiskInv
<1>8. CASE record' = [record EXCEPT ![j] = r] /\ rec' = [rec EXCEPT ![j] = r]
  <2>1. /\ \A k \in Jobs : k # j => rec'[k] = rec[k] /\ record'[k] = record[k]
        /\ rec'[j].status = "completed" /\ record'[j].status = "completed"
    BY <1>1, <1>8
  <2>2. /\ CompletedHasClip' /\ CompletedIsDurable' /\ RecordIsKnown' /\ RecordIsRead'
        /\ LiveIsKnown'
    BY <1>1, <1>2, <1>3, <1>4, <2>1 DEF DiskInv, CompletedHasClip, CompletedIsDurable,
       RecordIsKnown, RecordIsRead, LiveIsKnown, RemovesJob, Status
  <2> QED
    BY <1>5, <2>2 DEF DiskInv
<1> QED
  BY <1>6, <1>7, <1>8

\* A job is queued: its record is on disk before it is in the table.
LEMMA DiskSubmit ==
  ASSUME TypeInv, DiskInv, NEW j \in Jobs, NEW ok \in BOOLEAN, Submit(j, ok) PROVE DiskInv'
<1> DEFINE r == [status |-> "queued", expires |-> now + TTL]
<1>1. /\ rec \in [Jobs -> Record] /\ record \in [Jobs -> Record]
      /\ known \subseteq Jobs
  BY DEF TypeInv, TypeOK, Record
<1>2. /\ Free /\ WriteRecord(j, r, ok) /\ UNCHANGED <<server, driver, sweep, todo, clip>>
      /\ \/ ok /\ rec' = [rec EXCEPT ![j] = r] /\ known' = known \cup {j}
         \/ ~ok /\ UNCHANGED <<rec, known>>
  BY DEF Submit
<1>3. server = "up" /\ todo = <<>> /\ sweep = NoSweep
  BY <1>2, FreeMeans
<1>4. CASE ok
  <2>1. /\ \A k \in Jobs : k # j => rec'[k] = rec[k] /\ record'[k] = record[k]
        /\ rec'[j].status = "queued" /\ record'[j].status = "queued"
        /\ known' = known \cup {j}
    BY <1>1, <1>2, <1>4 DEF WriteRecord
  <2>2. /\ CompletedHasClip' /\ CompletedIsDurable' /\ RecordIsKnown' /\ RecordIsRead'
        /\ LiveIsKnown'
    BY <1>1, <1>2, <1>3, <2>1 DEF DiskInv, CompletedHasClip, CompletedIsDurable, RecordIsKnown,
       RecordIsRead, LiveIsKnown, RemovesJob, Status
  <2>3. FinishHasClip'
    BY <1>2, <2>1 DEF DiskInv, FinishHasClip, TypeInv, DriverHasJob, Running, Status
  <2>4. RemovalIsSafe' /\ RestoreIsAlone' /\ DoneAreCompleted'
    BY <1>2, <1>3 DEF RemovalIsSafe, RestoreIsAlone, DoneAreCompleted, NoSweep
  <2> QED
    BY <2>2, <2>3, <2>4 DEF DiskInv
<1>5. CASE ~ok
  <2>1. UNCHANGED <<server, known, rec, driver, todo, record, clip>> /\ UNCHANGED sweep
    BY <1>2, <1>5 DEF WriteRecord
  <2> QED
    BY <2>1, DiskFrame
<1> QED
  BY <1>4, <1>5

\* The driver's steps outside the lock, and those that only move it on.
LEMMA DiskDriving ==
  ASSUME TypeInv, DiskInv, StartPart \/ RenamePart \/ WorkRaises \/ EndedMeanwhile
  PROVE  DiskInv'
<1>1. /\ UNCHANGED <<server, known, rec, todo, record, sweep>> /\ clip \subseteq clip'
      /\ driver.at # "idle" /\ driver'.job = driver.job
  BY DEF StartPart, RenamePart, WorkRaises, EndedMeanwhile, At
<1>2. driver'.at \in {"run", "mux", "finish"} => driver.at \in {"run", "mux", "finish"}
  BY DEF StartPart, RenamePart, WorkRaises, EndedMeanwhile, At
<1>3. driver'.at = "finish" => driver.job \in clip'
  BY DEF StartPart, RenamePart, WorkRaises, EndedMeanwhile, At
<1>4. server = "up"
  BY <1>1 DEF DiskInv, RestoreIsAlone, Idle, TypeInv, TypeOK
<1>5. FinishHasClip' /\ \A j \in Jobs : Works(j)' => Works(j)
  BY <1>1, <1>2, <1>3 DEF FinishHasClip, Works, Running, Status
<1> QED
  BY <1>1, <1>4, <1>5, DiskDriver

\* The cleanup takes the clip of a job that did not complete, and no other.
LEMMA DiskClean == ASSUME TypeInv, DiskInv, Clean PROVE DiskInv'
<1>1. PICK j \in Jobs : j = driver.job
  BY DEF Clean, TypeInv, DriverHasJob
<1>2. /\ Free /\ driver'.at = "sweep" /\ todo' = Leftovers(j)
      /\ UNCHANGED <<server, known, rec, record, sweep, clip>>
  BY <1>1 DEF Clean, At
<1>3. server = "up" /\ todo = <<>> /\ sweep = NoSweep
  BY <1>2, FreeMeans
<1>4. RemovesOne(j)' \/ (RemovesClip(j)' /\ Status(j) # "completed")
  BY <1>2 DEF Leftovers, RemovesOne, RemovesClip
<1>5. RemovesClip(j)' => record'[j].status # "completed" \/ RemovesOne(j)'
  BY <1>2, <1>3, <1>4 DEF DiskInv, RecordIsRead
<1>6. ~Works(j)' /\ FinishHasClip'
  BY <1>2 DEF Works, FinishHasClip
<1>7. RemovalIsSafe'
  BY <1>2, <1>4, <1>5, <1>6 DEF RemovalIsSafe
<1>8. /\ CompletedHasClip' /\ CompletedIsDurable' /\ RecordIsKnown' /\ RecordIsRead'
      /\ LiveIsKnown' /\ RestoreIsAlone' /\ DoneAreCompleted'
  BY <1>2, <1>3 DEF DiskInv, CompletedHasClip, CompletedIsDurable, RecordIsKnown,
     RecordIsRead, LiveIsKnown, RestoreIsAlone, DoneAreCompleted, RemovesJob, Status, NoSweep
<1> QED
  BY <1>6, <1>7, <1>8 DEF DiskInv

\* The driver's sweep opens, and a sweep ends.
LEMMA DiskDriverSweep == ASSUME TypeInv, DiskInv, DriverSweep \/ SweepEnd PROVE DiskInv'
<1>1. /\ UNCHANGED <<server, known, rec, todo, record, clip>> /\ sweep'.done = {}
      /\ todo = <<>>
      /\ driver'.at \in {"sweeping", "idle"} \/ driver' = driver
  BY DEF DriverSweep, SweepEnd, StartSweep, At, Idle, NoSweep, Free
<1>2. server = "up"
  BY DEF DiskInv, RestoreIsAlone, DriverSweep, SweepEnd, Free, NoSweep, TypeInv, TypeOK
<1>3. CompletedHasClip' /\ CompletedIsDurable' /\ RecordIsRead' /\ LiveIsKnown'
  BY <1>1 DEF DiskInv, CompletedHasClip, CompletedIsDurable, RecordIsRead, LiveIsKnown, Status
<1>4. RemovalIsSafe' /\ RecordIsKnown' /\ RestoreIsAlone' /\ DoneAreCompleted'
  BY <1>1, <1>2 DEF DiskInv, RemovalIsSafe, RecordIsKnown, RemovesJob, RestoreIsAlone,
     DoneAreCompleted
<1>5. FinishHasClip'
  BY <1>1 DEF DiskInv, FinishHasClip, Running, Status
<1> QED
  BY <1>3, <1>4, <1>5 DEF DiskInv

\* A DELETE forgets a job that ended.
LEMMA DiskDeleteEnded == ASSUME TypeInv, DiskInv, NEW j \in Jobs, DeleteEnded(j) PROVE DiskInv'
<1>1. server = "up" /\ todo = <<>> /\ Forget(j) /\ Status(j) \in Ended
  BY FreeMeans DEF DeleteEnded
<1>2. UNCHANGED <<server, rec, driver, record, clip, sweep>>
  BY DEF DeleteEnded
<1> QED
  BY <1>1, <1>2, DiskForget

\* A crash leaves the disk as it is, in the middle of whatever removal.
LEMMA DiskCrash == ASSUME TypeInv, DiskInv, Crash PROVE DiskInv'
<1>1. /\ server' = "restore" /\ known' = {} /\ rec' = [j \in Jobs |-> NoRecord]
      /\ driver' = Idle /\ sweep' = NoSweep /\ todo' = <<>> /\ UNCHANGED <<record, clip>>
  BY DEF Crash
<1>2. /\ CompletedHasClip' /\ CompletedIsDurable' /\ RemovalIsSafe' /\ RecordIsKnown'
      /\ RecordIsRead' /\ RestoreIsAlone'
  BY <1>1 DEF DiskInv, CompletedHasClip, CompletedIsDurable, RemovalIsSafe, RecordIsKnown,
     RecordIsRead, RestoreIsAlone
<1>3. LiveIsKnown' /\ FinishHasClip' /\ DoneAreCompleted'
  BY <1>1 DEF LiveIsKnown, FinishHasClip, DoneAreCompleted, NoRecord, NoSweep, Idle, Status
<1> QED
  BY <1>2, <1>3 DEF DiskInv

\* A restore reads a record; that of a job which had not ended says failed.
LEMMA DiskRestoreJob ==
  ASSUME TypeInv, DiskInv, NEW j \in Jobs, NEW ok \in BOOLEAN, RestoreJob(j, ok) PROVE DiskInv'
<1>1. /\ rec \in [Jobs -> Record] /\ record \in [Jobs -> Record]
      /\ known \subseteq Jobs /\ TypeOK
  BY DEF TypeInv, TypeOK, Record
<1>2. /\ server = "restore" /\ todo = <<>> /\ known' = known \cup {j} /\ j \notin known
      /\ UNCHANGED <<server, driver, sweep, clip>>
  BY DEF RestoreJob
<1>3. driver = Idle /\ sweep = NoSweep
  BY <1>2 DEF DiskInv, RestoreIsAlone
<1>4. FinishHasClip' /\ RestoreIsAlone' /\ DoneAreCompleted' /\ RecordIsKnown'
  BY <1>2, <1>3 DEF FinishHasClip, RestoreIsAlone, DoneAreCompleted, RecordIsKnown, Idle, NoSweep
<1>5. CASE record[j].status \in Ended
  <2>1. rec' = [rec EXCEPT ![j] = record[j]] /\ UNCHANGED <<todo, record>>
    BY <1>5 DEF RestoreJob
  <2>2. rec'[j] = record[j] /\ \A k \in Jobs : k # j => rec'[k] = rec[k]
    BY <1>1, <2>1
  <2>3. CompletedHasClip' /\ CompletedIsDurable' /\ RecordIsRead' /\ LiveIsKnown'
    BY <1>1, <1>2, <2>1, <2>2 DEF DiskInv, CompletedHasClip, CompletedIsDurable, RecordIsRead,
       LiveIsKnown, Status
  <2>4. RemovalIsSafe'
    BY <1>2, <2>1 DEF RemovalIsSafe
  <2> QED
    BY <1>4, <2>3, <2>4 DEF DiskInv
<1>6. CASE record[j].status \notin Ended
  <2>1. End(j, "failed", ok) /\ "failed" \in Ended \ {"completed"} /\ RemovesClip(j)'
    BY <1>6 DEF RestoreJob, Ended, RemovesClip
  <2>2. /\ \A k \in Jobs : k # j => rec'[k] = rec[k] /\ record'[k] = record[k]
        /\ rec'[j].status = "failed"
        /\ record'[j] = record[j] \/ record'[j].status = "failed"
    BY <1>1, <2>1, EndEffect
  <2>3. record[j].status # "completed" /\ record'[j].status # "completed"
    BY <1>6, <2>2 DEF Ended
  <2>4. CompletedHasClip' /\ CompletedIsDurable' /\ RecordIsRead' /\ LiveIsKnown'
    BY <1>1, <1>2, <2>2, <2>3 DEF DiskInv, CompletedHasClip, CompletedIsDurable, RecordIsRead,
       LiveIsKnown, Status
  <2>5. RemovalIsSafe'
    BY <1>2, <1>3, <2>1, <2>3 DEF RemovalIsSafe, Works, Idle
  <2> QED
    BY <1>4, <2>4, <2>5 DEF DiskInv
<1> QED
  BY <1>5, <1>6

\* With every record read, the server is up and knows each of them.
LEMMA DiskRestoreRest == ASSUME TypeInv, DiskInv, RestoreRest PROVE DiskInv'
<1>1. /\ server = "restore" /\ server' = "up" /\ todo = <<>> /\ sweep'.done = {}
      /\ UNCHANGED <<known, rec, driver, todo, record, clip>>
      /\ \A j \in Jobs : record[j].status = "completed" => j \in known
  BY DEF RestoreRest, StartSweep, NoRecord
<1>2. CompletedHasClip' /\ CompletedIsDurable' /\ RecordIsRead' /\ LiveIsKnown'
  BY <1>1 DEF DiskInv, CompletedHasClip, CompletedIsDurable, RecordIsRead, LiveIsKnown, Status
<1>3. RemovalIsSafe' /\ RecordIsKnown' /\ RestoreIsAlone' /\ DoneAreCompleted'
  BY <1>1 DEF RemovalIsSafe, RecordIsKnown, RestoreIsAlone, DoneAreCompleted
<1>4. FinishHasClip'
  BY <1>1 DEF DiskInv, FinishHasClip, Running, Status
<1> QED
  BY <1>2, <1>3, <1>4 DEF DiskInv

\* Every step keeps DiskInv.
LEMMA DiskStep == TypeInv /\ DiskInv /\ [Next]_vars => DiskInv'
<1> SUFFICES ASSUME TypeInv, DiskInv, [Next]_vars PROVE DiskInv'
  OBVIOUS
<1>1. CASE Configure
  BY <1>1, DiskFrame DEF Configure, StartSweep, Free
<1>2. CASE Tick \/ Rest \/ UNCHANGED vars
  <2>1. UNCHANGED <<server, known, rec, driver, todo, record, clip>> /\ UNCHANGED sweep
    BY <1>2 DEF Tick, Rest, vars
  <2> QED
    BY <2>1, DiskFrame
<1>3. CASE Sweep
  BY <1>3, DiskSweepExpired, DiskSweepEvict, DiskSweepOrphans, DiskDriverSweep DEF Sweep
<1>4. CASE Driving
  <2>1. CASE DriveNothing
    <3>1. UNCHANGED <<server, known, rec, driver, todo, record, clip>> /\ UNCHANGED sweep
      BY <2>1 DEF DriveNothing
    <3> QED
      BY <3>1, DiskFrame
  <2> QED
    BY <1>4, <2>1, DiskDriving, DiskClean, DiskDriverSweep, DiskDriveExpired, DiskDrive,
       DiskFinish, DiskFail DEF Driving
<1>5. CASE Restore
  BY <1>5, DiskRestoreJob, DiskRestoreRest DEF Restore
<1>6. ASSUME NEW j \in Jobs, Arrive(j) \/ Handoff(j) \/ Abandon(j)
      PROVE  DiskInv'
  <2>1. UNCHANGED <<server, known, rec, driver, todo, record, clip>> /\ UNCHANGED sweep
    BY <1>6 DEF Arrive, Full, Refuse, Leave, Handoff, Abandon
  <2> QED
    BY <2>1, DiskFrame
<1>7. ASSUME NEW j \in Jobs, PostCall(j)
      PROVE  DiskInv'
  <2>1. CASE TakeSweep(j)
    <3>1. UNCHANGED <<server, known, rec, driver, todo, record, clip>> /\ server = "up"
      BY <2>1 DEF TakeSweep, Free
    <3>2. UNCHANGED sweep \/ sweep'.done = {}
      BY <2>1 DEF TakeSweep, StartSweep
    <3> QED
      BY <3>1, <3>2, DiskFrame
  <2>2. CASE \/ Begin(j) \/ Take(j) \/ WriteInputs(j) \/ Settle(j)
             \/ SubmitFull(j) \/ SubmitRefused(j)
    <3>1. UNCHANGED <<server, known, rec, driver, todo, record, clip>> /\ UNCHANGED sweep
      BY <2>2 DEF Begin, Take, WriteInputs, Settle, SubmitFull, SubmitRefused
    <3> QED
      BY <3>1, DiskFrame
  <2> QED
    BY <1>7, <2>1, <2>2, DiskSubmit DEF PostCall
<1>8. ASSUME NEW j \in Jobs, Client(j)
      PROVE  DiskInv'
  <2>1. CASE Serve(j) \/ Sent(j)
    <3>1. UNCHANGED <<server, known, rec, driver, todo, record, clip>> /\ UNCHANGED sweep
      BY <2>1 DEF Serve, Sent
    <3> QED
      BY <3>1, DiskFrame
  <2> QED
    BY <1>8, <2>1, DiskDeleteEnded, DiskDeleteLive DEF Client
<1> QED
  BY <1>1, <1>2, <1>3, <1>4, <1>5, <1>6, <1>7, <1>8, DiskFileStep, DiskCrash DEF Next

\* Every reachable state keeps DiskInv.
THEOREM DiskInvariant == Spec => []DiskInv
<1>1. TypeInv /\ DiskInv /\ [Next]_vars => DiskInv'
  BY DiskStep
<1> QED
  BY DiskInit, TypeInvariant, <1>1, PTL DEF Spec

\* A record that says completed has its clip, for every set of jobs and any
\* number of crashes, failed writes, cancels and evictions: the clip is
\* renamed before the record says so, and removed after it.
THEOREM RecordHasClip == Spec => []CompletedHasClip
<1>1. DiskInv => CompletedHasClip
  BY DEF DiskInv
<1> QED
  BY DiskInvariant, <1>1, PTL

\* A job the server calls completed is completed on disk: a completion whose
\* write failed is taken back.
THEOREM CompletionIsDurable == Spec => []CompletedIsDurable
<1>1. DiskInv => CompletedIsDurable
  BY DEF DiskInv
<1> QED
  BY DiskInvariant, <1>1, PTL

-----------------------------------------------------------------------------
(* The life of a job.                                                      *)

\* The POST of j has queued its job.
HasJob(j) == post[j] \in {"handoff", "done"}

\* What the server and the disk say of one job.
JobLife(j) ==
  /\ Status(j) # "none" \/ record[j].status # "none" \/ j \in known => HasJob(j)
  /\ j \in known => record[j].status # "none" /\ Status(j) # "none"
  /\ record[j].status = "none" => record[j] = NoRecord
  /\ record[j].status \in Ended => Status(j) \in {"none", record[j].status}
  /\ Status(j) = "completed" => record[j].status \in {"none", "completed"}
  /\ server = "restore" /\ j \notin known => Status(j) = "none"
  /\ j \in stop => Status(j) \in Ended

\* The next file to go is j's inputs or its record.
TakesInputs(j) ==
  \/ RemovesJob(j)
  \/ todo \in {<<<<"inputs", j>>>>, <<<<"inputs", j>>, <<"clip", j>>, <<"part", j>>>>}

\* Inputs and records are removed of jobs that ended.
RemovesEnded == \A j \in Jobs : TakesInputs(j) => Status(j) \in Ended

\* The driver has a job that runs, or one that ended; it completes no job
\* twice, and cleans up after none that runs.
DriverWorks ==
  /\ driver.at # "idle" => Status(driver.job) \in {"in_progress"} \cup Ended
  /\ driver.at \in {"run", "mux", "finish", "fail"} => Status(driver.job) # "completed"
  /\ driver.at = "clean" => Status(driver.job) \in Ended

\* A POST that sweeps waits for its sweep.
SweepByPost == sweep.by \in Jobs => post[sweep.by] = "sweeping"

LifeInv ==
  /\ \A j \in Jobs : JobLife(j)
  /\ RemovesEnded /\ DriverWorks /\ SweepByPost

\* An empty store keeps LifeInv.
LEMMA LifeInit == Init => LifeInv
<1> SUFFICES ASSUME Init PROVE LifeInv
  OBVIOUS
<1>1. \A j \in Jobs : JobLife(j)
  BY DEF Init, JobLife, Status, NoRecord, Ended
<1>2. RemovesEnded /\ DriverWorks
  BY DEF Init, RemovesEnded, TakesInputs, RemovesJob, DriverWorks, Idle
<1>3. SweepByPost
  BY ConstantsAssumption DEF Init, SweepByPost, NoSweep
<1> QED
  BY <1>1, <1>2, <1>3 DEF LifeInv

\* A job whose record and place in the table stay keeps its life.
LEMMA JobLifeStays ==
  ASSUME NEW j \in Jobs, JobLife(j), UNCHANGED server,
         rec'[j] = rec[j], record'[j] = record[j], (j \in known') <=> (j \in known),
         (j \in stop') <=> (j \in stop), HasJob(j) => HasJob(j)'
  PROVE  JobLife(j)'
BY DEF JobLife, Status

\* A step that leaves the records, the table and the removals alone.
LEMMA LifeFrame ==
  ASSUME LifeInv, UNCHANGED <<server, known, rec, stop, record, todo>>,
         \A j \in Jobs : HasJob(j) => HasJob(j)',
         DriverWorks', SweepByPost'
  PROVE  LifeInv'
<1>1. \A j \in Jobs : JobLife(j)'
  BY JobLifeStays DEF LifeInv
<1>2. RemovesEnded'
  BY DEF LifeInv, RemovesEnded, TakesInputs, RemovesJob, Status
<1> QED
  BY <1>1, <1>2 DEF LifeInv

\* The steps of POSTs, clients and the clock that queue nothing.
LEMMA LifeQuiet ==
  ASSUME LifeInv, UNCHANGED <<server, known, rec, stop, record, todo, driver, sweep>>,
         \A j \in Jobs : /\ HasJob(j) => HasJob(j)'
                         /\ post[j] = "sweeping" => post'[j] = "sweeping"
  PROVE  LifeInv'
<1>1. DriverWorks'
  BY DEF LifeInv, DriverWorks, Status
<1>2. SweepByPost'
  BY DEF LifeInv, SweepByPost
<1> QED
  BY <1>1, <1>2, LifeFrame

\* Where Goes takes a POST that has not queued its job.
LEMMA GoesEffect ==
  ASSUME TypeOK, NEW j \in Jobs, NEW next, Goes(j, next)
  PROVE  /\ \A k \in Jobs : k # j => post'[k] = post[k]
         /\ post'[j] \in {"stopped", next}
         /\ next = "abandon" => post'[j] = next
         /\ j \notin left => post'[j] = next
         /\ j \in left /\ next # "abandon" => post'[j] = "stopped"
<1>1. post \in [Jobs -> PostAt]
  BY DEF TypeOK
<1> QED
  BY <1>1 DEF Goes

\* What a POST's quiet steps do to the places of POSTs.
LEMMA QuietPosts ==
  ASSUME TypeOK, NEW j \in Jobs,
         \/ Full(j) \/ Begin(j) \/ Take(j) \/ WriteInputs(j) \/ Refuse(j) \/ Settle(j)
         \/ SubmitFull(j) \/ SubmitRefused(j) \/ Handoff(j) \/ Leave(j) \/ Abandon(j)
  PROVE  \A k \in Jobs : /\ HasJob(k)' <=> HasJob(k)
                         /\ post[k] = "sweeping" => post'[k] = "sweeping"
<1> USE DEF HasJob
<1>0. post \in [Jobs -> PostAt]
  BY DEF TypeOK
<1>1. CASE Full(j) \/ Begin(j) \/ WriteInputs(j) \/ Settle(j) \/ SubmitFull(j)
  <2>1. /\ post[j] \in {"new", "begin", "write", "settle", "submit"}
        /\ CallDone(j) \/ \E next \in {"abandon", "begin", "take", "settle", "submit"} : Goes(j, next)
    BY <1>1 DEF Full, Begin, WriteInputs, Settle, SubmitFull
  <2> QED
    BY <1>0, <2>1, GoesEffect DEF CallDone
<1>2. CASE Take(j)
  <2>1. /\ post[j] = "taking"
        /\ \/ post' = [post EXCEPT ![j] = "write"]
           \/ \E next \in {"write", "stopped", "abandon"} : Goes(j, next)
    BY <1>2 DEF Take
  <2> QED
    BY <1>0, <2>1, GoesEffect
<1>3. CASE Refuse(j) \/ SubmitRefused(j) \/ Handoff(j) \/ Leave(j) \/ Abandon(j)
  BY <1>0, <1>3 DEF Refuse, SubmitRefused, CallDone, Handoff, Leave, Abandon
<1> QED
  BY <1>1, <1>2, <1>3

\* A POST's quiet steps keep LifeInv.
LEMMA LifePost ==
  ASSUME TypeInv, LifeInv, NEW j \in Jobs,
         \/ Full(j) \/ Begin(j) \/ Take(j) \/ WriteInputs(j) \/ Refuse(j) \/ Settle(j)
         \/ SubmitFull(j) \/ SubmitRefused(j) \/ Handoff(j) \/ Leave(j) \/ Abandon(j)
  PROVE  LifeInv'
<1>1. UNCHANGED <<server, known, rec, stop, record, todo, driver, sweep>>
  BY DEF Full, Begin, Take, WriteInputs, Refuse, Settle, SubmitFull, SubmitRefused, Handoff,
         Leave, Abandon
<1>2. TypeOK
  BY DEF TypeInv
<1> QED
  BY <1>1, <1>2, QuietPosts, LifeQuiet

\* A sweep opens for a POST, or for a reload.
LEMMA LifeStartSweep ==
  ASSUME TypeInv, LifeInv, Configure \/ \E j \in Jobs : TakeSweep(j)
  PROVE  LifeInv'
<1>1. UNCHANGED <<server, known, rec, stop, record, todo, driver>>
  BY DEF Configure, TakeSweep
<1>2. DriverWorks'
  BY <1>1 DEF LifeInv, DriverWorks, Status
<1>3. post \in [Jobs -> PostAt] /\ "configure" \notin Jobs
  BY ConstantsAssumption DEF TypeInv, TypeOK
<1>4. CASE Configure
  <2>1. SweepByPost' /\ UNCHANGED post
    BY <1>3, <1>4 DEF Configure, StartSweep, SweepByPost
  <2> QED
    BY <1>1, <1>2, <2>1, LifeFrame DEF HasJob
<1>5. ASSUME NEW j \in Jobs, TakeSweep(j) PROVE LifeInv'
  <2>1. /\ post[j] = "take" /\ sweep = NoSweep
        /\ \/ post' = [post EXCEPT ![j] = "stopped"] /\ UNCHANGED sweep
           \/ post' = [post EXCEPT ![j] = "sweeping"] /\ sweep'.by = j
    BY <1>5, FreeMeans DEF TakeSweep, CallDone, StartSweep
  <2>2. SweepByPost'
    BY <1>3, <2>1, ConstantsAssumption DEF SweepByPost, NoSweep
  <2> QED
    BY <1>1, <1>2, <1>3, <2>1, <2>2, LifeFrame DEF HasJob
<1> QED
  BY <1>4, <1>5

\* The driver moves on with its job, or a sweep ends.
LEMMA LifeDriver ==
  ASSUME TypeInv, LifeInv,
         StartPart \/ RenamePart \/ WorkRaises \/ EndedMeanwhile \/ DriverSweep \/ SweepEnd
  PROVE  LifeInv'
<1>1. UNCHANGED <<server, known, rec, stop, record, todo>>
  BY DEF StartPart, RenamePart, WorkRaises, EndedMeanwhile, DriverSweep, SweepEnd
<1>2. post \in [Jobs -> PostAt] /\ {"driver", "nobody"} \cap Jobs = {}
  BY ConstantsAssumption DEF TypeInv, TypeOK
<1>3. CASE StartPart \/ RenamePart \/ WorkRaises \/ EndedMeanwhile
  <2>1. UNCHANGED <<sweep, post>> /\ driver.at # "idle" /\ driver'.job = driver.job
    BY <1>3 DEF StartPart, RenamePart, WorkRaises, EndedMeanwhile, At
  <2>2. driver'.at \in {"run", "mux", "finish", "fail"}
           => driver.at \in {"run", "mux", "finish", "fail"}
    BY <1>3 DEF StartPart, RenamePart, WorkRaises, EndedMeanwhile, At
  <2>3. driver'.at = "clean" => Status(driver.job) \in Ended
    <3>1. CASE WorkRaises
      BY <3>1 DEF WorkRaises, At, LifeInv, JobLife, TypeInv, DriverHasJob
    <3>2. CASE EndedMeanwhile
      BY <3>2 DEF EndedMeanwhile, Running, LifeInv, DriverWorks
    <3>3. CASE StartPart \/ RenamePart
      BY <3>3 DEF StartPart, RenamePart, At
    <3> QED
      BY <1>3, <3>1, <3>2, <3>3
  <2>4. DriverWorks'
    BY <1>1, <2>1, <2>2, <2>3 DEF LifeInv, DriverWorks, Status
  <2>5. SweepByPost'
    BY <2>1 DEF LifeInv, SweepByPost
  <2> QED
    BY <1>1, <2>1, <2>4, <2>5, LifeFrame DEF HasJob
<1>4. CASE DriverSweep
  <2>1. /\ driver.at = "sweep" /\ driver'.at = "sweeping" /\ driver'.job = driver.job
        /\ sweep'.by = "driver" /\ UNCHANGED post
    BY <1>4 DEF DriverSweep, StartSweep, At
  <2>2. DriverWorks' /\ SweepByPost'
    BY <1>1, <1>2, <2>1 DEF LifeInv, DriverWorks, SweepByPost, Status
  <2> QED
    BY <1>1, <2>1, <2>2, LifeFrame DEF HasJob
<1>5. CASE SweepEnd
  <2>1. /\ sweep' = NoSweep /\ driver' \in {Idle, driver}
        /\ post' = [j \in Jobs |-> IF sweep.by = j THEN "taking" ELSE post[j]]
    BY <1>5 DEF SweepEnd
  <2>2. DriverWorks' /\ SweepByPost'
    BY <1>1, <1>2, <2>1 DEF LifeInv, DriverWorks, SweepByPost, Status, Idle, NoSweep
  <2>3. \A j \in Jobs : HasJob(j) => HasJob(j)'
    BY <2>1 DEF LifeInv, SweepByPost, HasJob
  <2> QED
    BY <1>1, <2>2, <2>3, LifeFrame
<1> QED
  BY <1>3, <1>4, <1>5

\* The removals there are: of an ended job, of its cleanup, of a restore.
LEMMA FileEffect ==
  ASSUME TypeInv, DiskInv, FileStep
  PROVE  /\ UNCHANGED <<now, server, known, rec, stop, uploads, queue, driver, sweeping, links,
                        posts, bounds>>
         /\ \E j \in Jobs :
           \/ /\ todo = FilesOf(j)
              /\ todo' = <<<<"record", j>>, <<"clip", j>>, <<"part", j>>>>
              /\ inputs' = [inputs EXCEPT ![j] = 0] /\ UNCHANGED <<record, clip, part>>
           \/ /\ todo = <<<<"record", j>>, <<"clip", j>>, <<"part", j>>>>
              /\ todo' = <<<<"clip", j>>, <<"part", j>>>>
              /\ record' = [record EXCEPT ![j] = NoRecord] /\ UNCHANGED <<inputs, clip, part>>
           \/ /\ todo = <<<<"inputs", j>>, <<"clip", j>>, <<"part", j>>>>
              /\ todo' = <<<<"clip", j>>, <<"part", j>>>>
              /\ inputs' = [inputs EXCEPT ![j] = 0] /\ UNCHANGED <<record, clip, part>>
           \/ /\ todo = <<<<"clip", j>>, <<"part", j>>>> /\ todo' = <<<<"part", j>>>>
              /\ clip' = clip \ {j} /\ UNCHANGED <<inputs, record, part>>
           \/ /\ todo = <<<<"inputs", j>>>> /\ todo' = <<>>
              /\ inputs' = [inputs EXCEPT ![j] = 0] /\ UNCHANGED <<record, clip, part>>
           \/ /\ todo = <<<<"part", j>>>> /\ todo' = <<>>
              /\ part' = part \ {j} /\ UNCHANGED <<inputs, record, clip>>
<1>1. UNCHANGED <<now, server, known, rec, stop, uploads, queue, driver, sweeping, links, posts,
                  bounds>>
  BY DEF FileStep
<1>2. /\ todo # <<>> /\ todo' = Tail(todo)
      /\ inputs' = IF Head(todo)[1] = "inputs" THEN [inputs EXCEPT ![Head(todo)[2]] = 0] ELSE inputs
      /\ record' = IF Head(todo)[1] = "record"
                   THEN [record EXCEPT ![Head(todo)[2]] = NoRecord] ELSE record
      /\ clip' = IF Head(todo)[1] = "clip" THEN clip \ {Head(todo)[2]} ELSE clip
      /\ part' = IF Head(todo)[1] = "part" THEN part \ {Head(todo)[2]} ELSE part
  BY DEF FileStep
<1>3. PICK j \in Jobs : RemovesOne(j) \/ RemovesClip(j) \/ RemovesJob(j)
  BY <1>2 DEF DiskInv, RemovalIsSafe
<1>4. ASSUME NEW kind, Head(todo) = <<kind, j>>
      PROVE  /\ inputs' = IF kind = "inputs" THEN [inputs EXCEPT ![j] = 0] ELSE inputs
             /\ record' = IF kind = "record" THEN [record EXCEPT ![j] = NoRecord] ELSE record
             /\ clip' = IF kind = "clip" THEN clip \ {j} ELSE clip
             /\ part' = IF kind = "part" THEN part \ {j} ELSE part
  <2>1. Head(todo)[1] = kind /\ Head(todo)[2] = j
    BY <1>4
  <2> QED
    BY <1>2, <2>1
<1>5. CASE todo = FilesOf(j)
  <2>1. Head(todo) = <<"inputs", j>>
        /\ Tail(todo) = <<<<"record", j>>, <<"clip", j>>, <<"part", j>>>>
    BY <1>5 DEF FilesOf
  <2> QED
    BY <1>1, <1>2, <1>4, <1>5, <2>1
<1>6. CASE todo = <<<<"record", j>>, <<"clip", j>>, <<"part", j>>>>
  <2>1. Head(todo) = <<"record", j>> /\ Tail(todo) = <<<<"clip", j>>, <<"part", j>>>>
    BY <1>6
  <2> QED
    BY <1>1, <1>2, <1>4, <1>6, <2>1
<1>7. CASE todo = <<<<"inputs", j>>, <<"clip", j>>, <<"part", j>>>>
  <2>1. Head(todo) = <<"inputs", j>> /\ Tail(todo) = <<<<"clip", j>>, <<"part", j>>>>
    BY <1>7
  <2> QED
    BY <1>1, <1>2, <1>4, <1>7, <2>1
<1>8. CASE todo = <<<<"clip", j>>, <<"part", j>>>>
  <2>1. Head(todo) = <<"clip", j>> /\ Tail(todo) = <<<<"part", j>>>>
    BY <1>8
  <2> QED
    BY <1>1, <1>2, <1>4, <1>8, <2>1
<1>9. ASSUME NEW kind \in {"inputs", "part"}, todo = <<<<kind, j>>>>
      PROVE  /\ todo' = <<>> /\ UNCHANGED <<record, clip>>
             /\ inputs' = IF kind = "inputs" THEN [inputs EXCEPT ![j] = 0] ELSE inputs
             /\ part' = IF kind = "part" THEN part \ {j} ELSE part
  <2>1. Head(todo) = <<kind, j>> /\ Tail(todo) = <<>>
    BY <1>9
  <2> QED
    BY <1>2, <1>4, <1>9, <2>1
<1>10. CASE RemovesOne(j)
  BY <1>1, <1>9, <1>10 DEF RemovesOne
<1> QED
  BY <1>3, <1>5, <1>6, <1>7, <1>8, <1>10 DEF RemovesClip, RemovesJob, FilesOf

\* A step that changes one job.
LEMMA LifeChange ==
  ASSUME LifeInv, NEW j \in Jobs, UNCHANGED server,
         \A k \in Jobs : k # j => /\ rec'[k] = rec[k] /\ record'[k] = record[k]
                                  /\ (k \in known') <=> (k \in known)
                                  /\ (k \in stop') <=> (k \in stop)
                                  /\ HasJob(k) => HasJob(k)',
         JobLife(j)', RemovesEnded', DriverWorks', SweepByPost'
  PROVE  LifeInv'
<1>1. \A k \in Jobs : k # j => JobLife(k)'
  BY JobLifeStays DEF LifeInv
<1> QED
  BY <1>1 DEF LifeInv

\* A removal keeps LifeInv: the record that goes is of a job forgotten.
LEMMA LifeFileStep == ASSUME TypeInv, DiskInv, LifeInv, FileStep PROVE LifeInv'
<1>1. UNCHANGED <<server, known, rec, stop, driver, sweep, post>>
  BY FileEffect
<1>2. DriverWorks' /\ SweepByPost' /\ (\A j \in Jobs : HasJob(j) => HasJob(j)')
  BY <1>1 DEF LifeInv, DriverWorks, SweepByPost, HasJob, Status
<1>3. record \in [Jobs -> Record]
  BY DEF TypeInv, TypeOK, Record
<1>4. PICK j \in Jobs :
        \/ todo = FilesOf(j) /\ todo' = <<<<"record", j>>, <<"clip", j>>, <<"part", j>>>>
           /\ UNCHANGED record
        \/ todo = <<<<"record", j>>, <<"clip", j>>, <<"part", j>>>>
           /\ todo' = <<<<"clip", j>>, <<"part", j>>>>
           /\ record' = [record EXCEPT ![j] = NoRecord]
        \/ todo' \in {<<<<"clip", j>>, <<"part", j>>>>, <<<<"part", j>>>>, <<>>}
           /\ UNCHANGED record
  BY FileEffect
<1>5. RemovesEnded'
  <2>1. CASE todo' \in {<<<<"clip", j>>, <<"part", j>>>>, <<<<"part", j>>>>, <<>>}
    BY <2>1 DEF RemovesEnded, TakesInputs, RemovesJob
  <2>2. CASE todo = FilesOf(j) /\ todo' = <<<<"record", j>>, <<"clip", j>>, <<"part", j>>>>
    <3>1. Status(j) \in Ended
      BY <2>2 DEF LifeInv, RemovesEnded, TakesInputs, RemovesJob, FilesOf
    <3>2. \A k \in Jobs : TakesInputs(k)' => k = j
      BY <2>2 DEF TakesInputs, RemovesJob
    <3> QED
      BY <1>1, <3>1, <3>2 DEF RemovesEnded, Status
  <2> QED
    BY <1>4, <2>1, <2>2
<1>6. CASE UNCHANGED record
  <2>1. \A k \in Jobs : JobLife(k)'
    BY <1>1, <1>2, <1>6, JobLifeStays DEF LifeInv
  <2> QED
    BY <1>2, <1>5, <2>1 DEF LifeInv
<1>7. CASE todo = <<<<"record", j>>, <<"clip", j>>, <<"part", j>>>>
           /\ record' = [record EXCEPT ![j] = NoRecord]
  <2>1. RemovesJob(j) /\ Status(j) \in Ended
    BY <1>7 DEF LifeInv, RemovesEnded, TakesInputs, RemovesJob
  <2>2. j \notin known /\ server = "up"
    <3>1. \A k \in Jobs : RemovesJob(k) => k = j
      BY <1>7 DEF RemovesJob
    <3>2. \A k \in Jobs : ~RemovesOne(k) /\ ~RemovesClip(k) /\ todo # <<>>
      BY <1>7 DEF RemovesOne, RemovesClip
    <3> QED
      BY <3>1, <3>2 DEF DiskInv, RemovalIsSafe
  <2>3. record'[j] = NoRecord /\ \A k \in Jobs : k # j => record'[k] = record[k]
    BY <1>3, <1>7
  <2>4. JobLife(j)'
    BY <1>1, <1>2, <2>1, <2>2, <2>3 DEF LifeInv, JobLife, NoRecord, Ended, Status
  <2> QED
    BY <1>1, <1>2, <1>5, <2>3, <2>4, LifeChange
<1> QED
  BY <1>4, <1>6, <1>7

\* Forgetting an ended job keeps LifeInv.
LEMMA LifeForget ==
  ASSUME TypeInv, DiskInv, LifeInv, NEW j \in Jobs, server = "up", Status(j) \in Ended, Forget(j),
         UNCHANGED <<server, rec, stop, record, driver, post>>, sweep'.by = sweep.by
  PROVE  LifeInv'
<1>1. known' = known \ {j} /\ todo' = FilesOf(j)
  BY DEF Forget
<1>2. DriverWorks' /\ SweepByPost' /\ (\A k \in Jobs : HasJob(k) => HasJob(k)')
  BY DEF LifeInv, DriverWorks, SweepByPost, HasJob, Status
<1>3. \A k \in Jobs : TakesInputs(k)' => k = j
  BY <1>1 DEF TakesInputs, RemovesJob, FilesOf
<1>4. RemovesEnded'
  BY <1>3 DEF RemovesEnded, Status
<1>5. JobLife(j)'
  BY <1>1, <1>2 DEF LifeInv, JobLife, Status
<1> QED
  BY <1>1, <1>2, <1>4, <1>5, LifeChange

\* A sweep forgets an expired job, or evicts one; a DELETE forgets one.
LEMMA LifeForgets ==
  ASSUME TypeInv, DiskInv, LifeInv, NEW j \in Jobs,
         SweepExpired(j) \/ SweepEvict(j) \/ DeleteEnded(j)
  PROVE  LifeInv'
<1>1. /\ Forget(j) /\ UNCHANGED <<server, rec, stop, record, driver, post>>
      /\ sweep'.by = sweep.by
  BY DEF SweepExpired, SweepEvict, DeleteEnded, TypeInv, TypeOK
<1>2. Status(j) \in Ended
  BY DEF SweepExpired, SweepEvict, DeleteEnded, DiskInv, DoneAreCompleted, Ended, TypeInv, TypeOK
<1>3. server = "up"
  <2>1. DeleteEnded(j) \/ sweep # NoSweep
    BY DEF SweepExpired, SweepEvict, NoSweep
  <2> QED
    BY <2>1 DEF DeleteEnded, Free, DiskInv, RestoreIsAlone, TypeInv, TypeOK
<1> QED
  BY <1>1, <1>2, <1>3, LifeForget

\* The sweep's second part leaves records alone.
LEMMA LifeSweepOrphans == ASSUME TypeInv, LifeInv, SweepOrphans PROVE LifeInv'
<1>1. /\ UNCHANGED <<server, known, rec, stop, record, todo, driver, post>>
      /\ sweep'.by = sweep.by
  BY DEF SweepOrphans, TypeInv, TypeOK
<1>2. DriverWorks' /\ SweepByPost'
  BY <1>1 DEF LifeInv, DriverWorks, SweepByPost, Status
<1> QED
  BY <1>1, <1>2, LifeFrame DEF HasJob

\* A live job goes on, or ends without completing.
Moves(j, s) ==
  /\ Status(j) \in {"queued", "in_progress"} /\ (s = "in_progress" => Status(j) = "queued")
  /\ \A k \in Jobs : k # j => rec'[k] = rec[k] /\ record'[k] = record[k]
  /\ rec'[j].status = s
  /\ record'[j] = record[j] \/ record'[j].status = s
  /\ todo' = <<>> \/ (todo' = <<<<"inputs", j>>>> /\ s # "in_progress")
  /\ stop' = stop \/ (stop' = stop \cup {j} /\ s # "in_progress")
  /\ \/ driver' = driver
     \/ driver.at = "idle" /\ driver' = [at |-> "run", job |-> j] /\ s = "in_progress"
     \/ driver.at = "fail" /\ driver.job = j /\ driver' = [at |-> "clean", job |-> j] /\ s = "failed"

\* The driver starts a job, fails one that expired in the queue or one at
\* work, or a DELETE cancels one.
LEMMA MoveEffect ==
  ASSUME TypeInv, DiskInv, NEW ok \in BOOLEAN,
         DriveExpired(ok) \/ Drive(ok) \/ Fail(ok) \/ \E j \in Jobs : DeleteLive(j, ok)
  PROVE  /\ UNCHANGED <<now, server, known, uploads, sweeping, inputs, clip, part, links, posts>>
         /\ server = "up" /\ todo = <<>> /\ sweep = NoSweep
         /\ \E j \in known, s \in {"in_progress", "failed", "cancelled"} : Moves(j, s)
<1>1. /\ UNCHANGED <<now, server, known, uploads, sweeping, inputs, clip, part, links, posts>>
      /\ Free
  BY DEF DriveExpired, Drive, Fail, DeleteLive
<1>2. server = "up" /\ todo = <<>> /\ sweep = NoSweep
  BY <1>1, FreeMeans
<1>3. /\ TypeOK /\ queue \in Seq(Jobs)
      /\ rec \in [Jobs -> Record] /\ record \in [Jobs -> Record]
  BY DEF TypeInv, TypeOK, Record
<1>4. {"failed", "cancelled"} \subseteq Ended \ {"completed"}
  BY DEF Ended
<1>5. CASE DriveExpired(ok)
  <2>1. PICK j \in Jobs : j = Head(queue)
    BY <1>3, <1>5 DEF DriveExpired
  <2>2. /\ End(j, "failed", ok) /\ Status(j) = "queued" /\ todo' = <<<<"inputs", j>>>>
        /\ UNCHANGED <<stop, driver>>
    BY <1>5, <2>1 DEF DriveExpired
  <2>3. j \in known
    BY <2>2 DEF DiskInv, LiveIsKnown
  <2>4. Moves(j, "failed")
    BY <1>3, <1>4, <2>2, EndEffect DEF Moves
  <2> QED
    BY <1>1, <1>2, <2>3, <2>4
<1>6. CASE Drive(ok)
  <2>1. PICK j \in Jobs : j = Head(queue)
    BY <1>3, <1>6 DEF Drive
  <2> DEFINE r == [rec[j] EXCEPT !.status = "in_progress"]
  <2>2. /\ rec' = [rec EXCEPT ![j] = r] /\ WriteRecord(j, r, ok)
        /\ Status(j) = "queued" /\ UNCHANGED <<stop, todo>>
        /\ driver' \in {driver, [at |-> "run", job |-> j]} /\ driver.at = "idle"
    BY <1>6, <2>1 DEF Drive, At
  <2>3. r.status = "in_progress"
    BY <1>3 DEF Record
  <2> HIDE DEF r
  <2>4. record' = [record EXCEPT ![j] = r] \/ record' = record
    BY <2>2 DEF WriteRecord
  <2>5. j \in known
    BY <2>2 DEF DiskInv, LiveIsKnown
  <2>6. Moves(j, "in_progress")
    BY <1>2, <1>3, <2>2, <2>3, <2>4 DEF Moves
  <2> QED
    BY <1>1, <1>2, <2>5, <2>6
<1>7. CASE Fail(ok)
  <2>1. PICK j \in Jobs : j = driver.job
    BY <1>7 DEF TypeInv, DriverHasJob, Fail
  <2>2. /\ End(j, "failed", ok) /\ Status(j) = "in_progress" /\ UNCHANGED <<stop, todo>>
        /\ driver.at = "fail" /\ driver' = [at |-> "clean", job |-> j]
    BY <1>7, <2>1 DEF Fail, Running, At
  <2>3. j \in known
    BY <2>2 DEF DiskInv, LiveIsKnown
  <2>4. Moves(j, "failed")
    BY <1>2, <1>3, <1>4, <2>1, <2>2, EndEffect DEF Moves
  <2> QED
    BY <1>1, <1>2, <2>3, <2>4
<1>8. ASSUME NEW j \in Jobs, DeleteLive(j, ok)
      PROVE  \E i \in known, s \in {"in_progress", "failed", "cancelled"} : Moves(i, s)
  <2>1. /\ End(j, "cancelled", ok) /\ Status(j) \in {"queued", "in_progress"}
        /\ j \in known /\ stop' = stop \cup {j} /\ UNCHANGED driver
        /\ todo' \in {<<>>, <<<<"inputs", j>>>>}
    BY <1>8 DEF DeleteLive, Found
  <2>2. Moves(j, "cancelled")
    BY <1>3, <1>4, <2>1, EndEffect DEF Moves
  <2> QED
    BY <2>1, <2>2
<1> QED
  BY <1>1, <1>2, <1>5, <1>6, <1>7, <1>8

\* A move keeps LifeInv.
LEMMA LifeMoves ==
  ASSUME TypeInv, DiskInv, LifeInv, NEW ok \in BOOLEAN,
         DriveExpired(ok) \/ Drive(ok) \/ Fail(ok) \/ \E j \in Jobs : DeleteLive(j, ok)
  PROVE  LifeInv'
<1>1. UNCHANGED <<server, known, post, sweep>> /\ server = "up" /\ todo = <<>>
  BY MoveEffect
<1>2. PICK j \in known, s \in {"in_progress", "failed", "cancelled"} : Moves(j, s)
  BY MoveEffect
<1>3. j \in Jobs
  BY DEF TypeInv, TypeOK
<1>4. SweepByPost' /\ (\A k \in Jobs : HasJob(k) => HasJob(k)')
  BY <1>1 DEF LifeInv, SweepByPost, HasJob
<1>5. \A k \in Jobs : TakesInputs(k)' => k = j /\ s # "in_progress"
  BY <1>2 DEF Moves, TakesInputs, RemovesJob
<1>6. RemovesEnded'
  BY <1>2, <1>5 DEF Moves, RemovesEnded, Ended, Status
<1>7. record[j].status \in {"queued", "in_progress"}
  BY <1>2, <1>3 DEF Moves, LifeInv, JobLife, Ended, TypeInv, TypeOK, Statuses
<1>8. JobLife(j)'
  BY <1>1, <1>2, <1>3, <1>4, <1>7 DEF Moves, LifeInv, JobLife, Ended, Status
<1>9. DriverWorks'
  <2>1. driver'.at # "idle" => driver'.job \in Jobs
    BY <1>2, <1>3 DEF Moves, TypeInv, DriverHasJob
  <2> QED
    BY <1>2, <1>3, <2>1 DEF Moves, LifeInv, DriverWorks, Ended, Status
<1> QED
  BY <1>1, <1>2, <1>3, <1>4, <1>6, <1>8, <1>9, LifeChange DEF Moves

\* The driver's job completes when its record is on disk, or nothing changes
\* but where the driver goes on.
LEMMA FinishEffect ==
  ASSUME TypeInv, DiskInv, NEW ok \in BOOLEAN, Finish(ok)
  PROVE  /\ UNCHANGED <<now, server, known, stop, uploads, sweeping, todo, inputs, clip, part,
                        links, posts>>
         /\ server = "up" /\ todo = <<>> /\ sweep = NoSweep
         /\ driver.at = "finish" /\ driver.job \in known /\ Status(driver.job) = "in_progress"
         /\ \A k \in Jobs : k # driver.job => rec'[k] = rec[k] /\ record'[k] = record[k]
         /\ \/ /\ driver' = [at |-> "clean", job |-> driver.job]
               /\ rec'[driver.job].status = "completed" /\ record'[driver.job].status = "completed"
            \/ /\ driver' = [at |-> "fail", job |-> driver.job] /\ UNCHANGED <<rec, record>>
<1> DEFINE j == driver.job
           r == [status |-> "completed", expires |-> now + TTL]
<1>1. /\ UNCHANGED <<now, server, known, stop, uploads, sweeping, todo, inputs, clip, part, links,
                     posts>>
      /\ driver.at = "finish" /\ Status(j) = "in_progress" /\ Free
  BY DEF Finish, Running
<1>2. server = "up" /\ todo = <<>> /\ sweep = NoSweep
  BY <1>1, FreeMeans
<1>3. j \in Jobs /\ rec \in [Jobs -> Record] /\ record \in [Jobs -> Record]
  BY <1>1 DEF TypeInv, TypeOK, Record, DriverHasJob
<1>4. j \in known
  BY <1>1, <1>3 DEF DiskInv, LiveIsKnown
<1>5. \/ /\ record' = [record EXCEPT ![j] = r] /\ rec' = [rec EXCEPT ![j] = r]
         /\ driver' = [at |-> "clean", job |-> j]
      \/ UNCHANGED <<rec, record>> /\ driver' = [at |-> "fail", job |-> j]
  BY DEF Finish, End, WriteRecord, At
<1> HIDE DEF j
<1>6. /\ \A k \in Jobs : k # j => rec'[k] = rec[k] /\ record'[k] = record[k]
      /\ \/ /\ driver' = [at |-> "clean", job |-> j]
            /\ rec'[j].status = "completed" /\ record'[j].status = "completed"
         \/ /\ driver' = [at |-> "fail", job |-> j] /\ UNCHANGED <<rec, record>>
  BY <1>3, <1>5
<1> QED
  BY <1>1, <1>2, <1>4, <1>6 DEF j

\* A job that completes keeps LifeInv.
LEMMA LifeFinish ==
  ASSUME TypeInv, DiskInv, LifeInv, NEW ok \in BOOLEAN, Finish(ok)
  PROVE  LifeInv'
<1>0. PICK j \in Jobs : j = driver.job
  BY FinishEffect DEF TypeInv, TypeOK
<1>1. /\ UNCHANGED <<server, known, stop, sweep, post, todo>> /\ todo = <<>>
      /\ driver.at = "finish" /\ Status(j) = "in_progress" /\ j \in known
  BY <1>0, FinishEffect
<1>2. SweepByPost' /\ RemovesEnded' /\ (\A k \in Jobs : HasJob(k) => HasJob(k)')
  BY <1>1 DEF LifeInv, SweepByPost, HasJob, RemovesEnded, TakesInputs, RemovesJob
<1>3. \A k \in Jobs : k # j => rec'[k] = rec[k] /\ record'[k] = record[k]
  BY <1>0, FinishEffect
<1>4. \/ /\ driver' = [at |-> "clean", job |-> j]
         /\ rec'[j].status = "completed" /\ record'[j].status = "completed"
      \/ /\ driver' = [at |-> "fail", job |-> j] /\ UNCHANGED <<rec, record>>
  BY <1>0, FinishEffect
<1>5. JobLife(j)'
  BY <1>1, <1>2, <1>4 DEF LifeInv, JobLife, Ended, Status
<1>6. DriverWorks'
  BY <1>0, <1>1, <1>4 DEF DriverWorks, Ended, Status
<1> QED
  BY <1>1, <1>2, <1>3, <1>5, <1>6, LifeChange

\* A job is queued, or its record cannot be written.
LEMMA SubmitEffect ==
  ASSUME TypeInv, NEW j \in Jobs, NEW ok \in BOOLEAN, Submit(j, ok)
  PROVE  /\ UNCHANGED <<now, server, stop, queue, driver, sweeping, todo, inputs, clip, part,
                        links, left, ended>>
         /\ server = "up" /\ todo = <<>> /\ sweep = NoSweep
         /\ post[j] = "submit" /\ j \notin ended /\ Cardinality(Queued) < MaxQueue
         /\ \A k \in Jobs : k # j => rec'[k] = rec[k] /\ record'[k] = record[k] /\ post'[k] = post[k]
         /\ \/ /\ rec'[j].status = "queued" /\ record'[j].status = "queued"
               /\ known' = known \cup {j} /\ post'[j] = "handoff"
               /\ arriving' = arriving \ {j} /\ reserved' = [reserved EXCEPT ![j] = 0]
            \/ /\ UNCHANGED <<rec, record, known, uploads>> /\ post'[j] = "abandon"
<1> DEFINE r == [status |-> "queued", expires |-> now + TTL]
<1>1. /\ UNCHANGED <<now, server, stop, queue, driver, sweeping, todo, inputs, clip, part, links,
                     left, ended>>
      /\ post[j] = "submit" /\ j \notin ended /\ Free /\ ~NoPlace /\ WriteRecord(j, r, ok)
  BY DEF Submit, Refuses
<1>2. server = "up" /\ todo = <<>> /\ sweep = NoSweep
  BY <1>1, FreeMeans
<1>3. Cardinality(Queued) < MaxQueue
  <2>1. Queued \in SUBSET Jobs
    BY DEF Queued, TypeInv, TypeOK
  <2>2. Cardinality(Queued) \in Nat
    BY <2>1, ConstantsAssumption, FS_Subset, FS_CardinalityType
  <2> QED
    BY <1>1, <2>2, ConstantsAssumption DEF NoPlace
<1>4. /\ rec \in [Jobs -> Record] /\ record \in [Jobs -> Record] /\ post \in [Jobs -> PostAt]
      /\ TypeOK
  BY DEF TypeInv, TypeOK, Record
<1>5. CASE ok
  <2>1. /\ rec' = [rec EXCEPT ![j] = r] /\ known' = known \cup {j} /\ Unreserve(j)
        /\ post' = [post EXCEPT ![j] = "handoff"] /\ record' = [record EXCEPT ![j] = r]
    BY <1>1, <1>5 DEF Submit, WriteRecord
  <2>2. /\ \A k \in Jobs : k # j => rec'[k] = rec[k] /\ record'[k] = record[k] /\ post'[k] = post[k]
        /\ rec'[j].status = "queued" /\ record'[j].status = "queued" /\ post'[j] = "handoff"
    BY <1>4, <2>1
  <2> QED
    BY <1>1, <1>2, <1>3, <2>1, <2>2 DEF Unreserve
<1>6. CASE ~ok
  <2>1. UNCHANGED <<rec, record, known, uploads>> /\ Goes(j, "abandon")
    BY <1>1, <1>6 DEF Submit, WriteRecord
  <2> QED
    BY <1>1, <1>2, <1>3, <1>4, <2>1, GoesEffect
<1> QED
  BY <1>5, <1>6

\* Queuing a job keeps LifeInv.
LEMMA LifeSubmit ==
  ASSUME TypeInv, LifeInv, NEW j \in Jobs, NEW ok \in BOOLEAN, Submit(j, ok)
  PROVE  LifeInv'
<1>1. /\ UNCHANGED <<server, stop, driver, sweep, todo>>
      /\ server = "up" /\ todo = <<>> /\ sweep = NoSweep /\ post[j] = "submit"
      /\ \A k \in Jobs : k # j => rec'[k] = rec[k] /\ record'[k] = record[k] /\ post'[k] = post[k]
  BY SubmitEffect
<1>2. \/ /\ rec'[j].status = "queued" /\ record'[j].status = "queued"
         /\ known' = known \cup {j} /\ post'[j] = "handoff"
      \/ /\ UNCHANGED <<rec, record, known>> /\ post'[j] = "abandon"
  BY SubmitEffect
<1>3. ~HasJob(j) /\ Status(j) = "none" /\ j \notin stop
  BY <1>1 DEF LifeInv, JobLife, HasJob, Ended
<1>4. SweepByPost' /\ RemovesEnded'
  BY <1>1, ConstantsAssumption DEF SweepByPost, RemovesEnded, TakesInputs, RemovesJob, NoSweep
<1>5. DriverWorks'
  <2>1. driver.at # "idle" => driver.job # j /\ driver.job \in Jobs
    BY <1>3 DEF LifeInv, DriverWorks, TypeInv, DriverHasJob, Ended
  <2> QED
    BY <1>1, <2>1 DEF LifeInv, DriverWorks, Status
<1>6. JobLife(j)'
  BY <1>1, <1>2, <1>3 DEF LifeInv, JobLife, HasJob, Ended, Status
<1>7. \A k \in Jobs : k # j => (HasJob(k) => HasJob(k)')
  BY <1>1 DEF HasJob
<1> QED
  BY <1>1, <1>2, <1>4, <1>5, <1>6, <1>7, LifeChange

\* The driver's cleanup takes the inputs of a job that ended.
LEMMA LifeClean == ASSUME TypeInv, LifeInv, Clean PROVE LifeInv'
<1> DEFINE j == driver.job
<1>1. /\ UNCHANGED <<server, known, rec, stop, record, sweep, post>>
      /\ driver.at = "clean" /\ todo' = Leftovers(j)
      /\ driver' = [at |-> "sweep", job |-> j] /\ j \in Jobs
  BY DEF Clean, At, TypeInv, DriverHasJob
<1>2. Status(j) \in Ended
  BY <1>1 DEF LifeInv, DriverWorks
<1>3. \A k \in Jobs : TakesInputs(k)' => k = j
  BY <1>1 DEF TakesInputs, RemovesJob, Leftovers
<1>4. RemovesEnded' /\ DriverWorks' /\ SweepByPost'
  BY <1>1, <1>2, <1>3 DEF RemovesEnded, DriverWorks, LifeInv, SweepByPost, Status
<1>5. \A k \in Jobs : JobLife(k)'
  BY <1>1, JobLifeStays DEF LifeInv, HasJob
<1> QED
  BY <1>4, <1>5 DEF LifeInv

\* A crash forgets what the server knew, and no record.
LEMMA LifeCrash == ASSUME TypeInv, LifeInv, Crash PROVE LifeInv'
<1>1. /\ server' = "restore" /\ known' = {} /\ rec' = [j \in Jobs |-> NoRecord]
      /\ stop' = {} /\ driver' = Idle /\ sweep' = NoSweep /\ todo' = <<>> /\ UNCHANGED record
      /\ \A j \in Jobs : HasJob(j) => post'[j] = "done"
  BY DEF Crash, HasJob
<1>2. RemovesEnded' /\ DriverWorks' /\ SweepByPost'
  BY <1>1, ConstantsAssumption DEF RemovesEnded, TakesInputs, RemovesJob, DriverWorks,
     SweepByPost, Idle, NoSweep
<1>3. ASSUME NEW j \in Jobs PROVE JobLife(j)'
  BY <1>1 DEF LifeInv, JobLife, HasJob, NoRecord, Ended, Status
<1> QED
  BY <1>2, <1>3 DEF LifeInv

\* A restore reads one record, as it is or as a failure.
LEMMA RestoreEffect ==
  ASSUME TypeInv, DiskInv, NEW j \in Jobs, NEW ok \in BOOLEAN, RestoreJob(j, ok)
  PROVE  /\ UNCHANGED <<now, server, stop, uploads, driver, sweeping, inputs, clip, part, links,
                        posts>>
         /\ server = "restore" /\ todo = <<>> /\ driver = Idle /\ sweep = NoSweep
         /\ j \notin known /\ known' = known \cup {j} /\ record[j] # NoRecord
         /\ \A k \in Jobs : k # j => rec'[k] = rec[k] /\ record'[k] = record[k]
         /\ \/ /\ record[j].status \in Ended /\ rec'[j] = record[j] /\ UNCHANGED <<record, todo>>
            \/ /\ record[j].status \notin Ended /\ rec'[j].status = "failed"
               /\ record'[j] = record[j] \/ record'[j].status = "failed"
               /\ todo' = <<<<"clip", j>>, <<"part", j>>>>
<1>1. /\ UNCHANGED <<now, server, stop, uploads, driver, sweeping, inputs, clip, part, links, posts>>
      /\ server = "restore" /\ todo = <<>>
      /\ j \notin known /\ known' = known \cup {j} /\ record[j] # NoRecord
  BY DEF RestoreJob
<1>2. driver = Idle /\ sweep = NoSweep
  BY <1>1 DEF DiskInv, RestoreIsAlone
<1>3. TypeOK /\ rec \in [Jobs -> Record] /\ record \in [Jobs -> Record]
  BY DEF TypeInv, TypeOK, Record
<1>4. CASE record[j].status \in Ended
  <2>1. rec' = [rec EXCEPT ![j] = record[j]] /\ UNCHANGED <<record, todo>>
    BY <1>4 DEF RestoreJob
  <2>2. rec'[j] = record[j] /\ \A k \in Jobs : k # j => rec'[k] = rec[k]
    BY <1>3, <2>1
  <2> QED
    BY <1>1, <1>2, <1>4, <2>1, <2>2
<1>5. CASE record[j].status \notin Ended
  <2>1. /\ End(j, "failed", ok) /\ "failed" \in Ended \ {"completed"}
        /\ todo' = <<<<"clip", j>>, <<"part", j>>>>
    BY <1>5 DEF RestoreJob, Ended
  <2> QED
    BY <1>1, <1>2, <1>3, <1>5, <2>1, EndEffect
<1> QED
  BY <1>4, <1>5

\* A restored job keeps LifeInv.
LEMMA LifeRestoreJob ==
  ASSUME TypeInv, DiskInv, LifeInv, NEW j \in Jobs, NEW ok \in BOOLEAN, RestoreJob(j, ok)
  PROVE  LifeInv'
<1>1. /\ UNCHANGED <<server, stop, driver, sweep, post>>
      /\ server = "restore" /\ todo = <<>> /\ driver = Idle /\ sweep = NoSweep
      /\ j \notin known /\ known' = known \cup {j} /\ record[j] # NoRecord
      /\ \A k \in Jobs : k # j => rec'[k] = rec[k] /\ record'[k] = record[k]
  BY RestoreEffect
<1>2. \/ /\ record[j].status \in Ended /\ rec'[j] = record[j] /\ UNCHANGED <<record, todo>>
      \/ /\ record[j].status \notin Ended /\ rec'[j].status = "failed"
         /\ record'[j] = record[j] \/ record'[j].status = "failed"
         /\ todo' = <<<<"clip", j>>, <<"part", j>>>>
  BY RestoreEffect
<1>3. DriverWorks' /\ SweepByPost' /\ (\A k \in Jobs : HasJob(k) => HasJob(k)')
  BY <1>1, ConstantsAssumption DEF DriverWorks, SweepByPost, Idle, NoSweep, HasJob
<1>4. RemovesEnded'
  BY <1>1, <1>2 DEF RemovesEnded, TakesInputs, RemovesJob
<1>5. record[j].status # "none" /\ HasJob(j) /\ j \notin stop
  BY <1>1 DEF LifeInv, JobLife, Ended
<1>6. JobLife(j)'
  BY <1>1, <1>2, <1>3, <1>5 DEF JobLife, Ended, Status
<1> QED
  BY <1>1, <1>3, <1>4, <1>6, LifeChange

\* The server is up again.
LEMMA LifeRestoreRest == ASSUME TypeInv, DiskInv, LifeInv, RestoreRest PROVE LifeInv'
<1>1. /\ server = "restore" /\ server' = "up" /\ todo = <<>> /\ sweep'.by = "configure"
      /\ UNCHANGED <<known, rec, stop, record, todo, driver, post>>
  BY DEF RestoreRest, StartSweep
<1>2. RemovesEnded' /\ SweepByPost'
  BY <1>1, ConstantsAssumption DEF RemovesEnded, TakesInputs, RemovesJob, SweepByPost
<1>3. DriverWorks'
  BY <1>1 DEF LifeInv, DriverWorks, Status
<1>4. \A j \in Jobs : JobLife(j)'
  BY <1>1 DEF LifeInv, JobLife, HasJob, Status
<1> QED
  BY <1>2, <1>3, <1>4 DEF LifeInv

\* Every step keeps LifeInv.
LEMMA LifeStep == TypeInv /\ DiskInv /\ LifeInv /\ [Next]_vars => LifeInv'
<1> SUFFICES ASSUME TypeInv, DiskInv, LifeInv, [Next]_vars PROVE LifeInv'
  OBVIOUS
<1>1. CASE Tick \/ Rest \/ UNCHANGED vars \/ DriveNothing
  <2>1. UNCHANGED <<server, known, rec, stop, record, todo, driver, sweep, post>>
    BY <1>1 DEF Tick, Rest, vars, DriveNothing
  <2> QED
    BY <2>1, LifeQuiet DEF HasJob
<1>2. CASE Sweep
  BY <1>2, LifeForgets, LifeSweepOrphans, LifeDriver DEF Sweep
<1>3. CASE Driving
  BY <1>1, <1>3, LifeDriver, LifeClean, LifeMoves, LifeFinish DEF Driving
<1>4. CASE Restore
  BY <1>4, LifeRestoreJob, LifeRestoreRest DEF Restore
<1>5. ASSUME NEW j \in Jobs, Arrive(j) \/ Handoff(j) \/ Abandon(j)
      PROVE  LifeInv'
  BY <1>5, LifePost DEF Arrive
<1>6. ASSUME NEW j \in Jobs, PostCall(j)
      PROVE  LifeInv'
  BY <1>6, LifePost, LifeStartSweep, LifeSubmit DEF PostCall
<1>7. ASSUME NEW j \in Jobs, Client(j)
      PROVE  LifeInv'
  <2>1. CASE Serve(j) \/ Sent(j)
    <3>1. UNCHANGED <<server, known, rec, stop, record, todo, driver, sweep, post>>
      BY <2>1 DEF Serve, Sent
    <3> QED
      BY <3>1, LifeQuiet DEF HasJob
  <2> QED
    BY <1>7, <2>1, LifeForgets, LifeMoves DEF Client
<1> QED
  BY <1>1, <1>2, <1>3, <1>4, <1>5, <1>6, <1>7, LifeFileStep, LifeStartSweep, LifeCrash DEF Next

\* Every reachable state keeps LifeInv.
THEOREM LifeInvariant == Spec => []LifeInv
<1>1. TypeInv /\ DiskInv /\ LifeInv /\ [Next]_vars => LifeInv'
  BY LifeStep
<1> QED
  BY LifeInit, TypeInvariant, DiskInvariant, <1>1, PTL DEF Spec

-----------------------------------------------------------------------------
(* The store keeps the contract of a job.                                  *)

\* The jobs as clients see them.
Seen == [j \in Jobs |-> View(j)]

\* An empty store has no jobs.
LEMMA SeenInit == Init => Contract!Init
BY DEF Init, Contract!Init, View, NoRecord

\* A job whose records stay is seen as it was.
LEMMA ViewStays ==
  ASSUME NEW j \in Jobs, rec'[j] = rec[j], record'[j] = record[j],
         record[j] = NoRecord => (HasJob(j)' <=> HasJob(j))
  PROVE  View(j)' = View(j)
BY DEF View, Status, HasJob

\* A step that changes no record is not seen.
LEMMA SeenSame ==
  ASSUME UNCHANGED <<rec, record>>, \A j \in Jobs : HasJob(j)' <=> HasJob(j)
  PROVE  Seen' = Seen
<1>1. \A j \in Jobs : View(j)' = View(j)
  BY ViewStays
<1> QED
  BY <1>1 DEF Seen

\* A step that changes what is seen of one job.
LEMMA SeenChange ==
  ASSUME NEW j \in Jobs, NEW v, View(j)' = v, \A k \in Jobs : k # j => View(k)' = View(k)
  PROVE  Seen' = [Seen EXCEPT ![j] = v]
BY DEF Seen

\* The steps that are not seen.
LEMMA SeenQuiet ==
  ASSUME TypeInv, LifeInv,
         \/ Configure \/ SweepOrphans \/ SweepEnd \/ DriveNothing \/ StartPart \/ RenamePart
         \/ WorkRaises \/ EndedMeanwhile \/ Clean \/ DriverSweep \/ RestoreRest \/ Tick \/ Rest
         \/ UNCHANGED vars
         \/ \E j \in Jobs : \/ SweepExpired(j) \/ SweepEvict(j) \/ TakeSweep(j) \/ DeleteEnded(j)
                            \/ Serve(j) \/ Sent(j)
  PROVE  Seen' = Seen
<1>1. UNCHANGED <<rec, record>>
  BY DEF Configure, SweepOrphans, SweepEnd, DriveNothing, StartPart, RenamePart, WorkRaises,
     EndedMeanwhile, Clean, DriverSweep, RestoreRest, Tick, Rest, vars, SweepExpired, SweepEvict,
     TakeSweep, DeleteEnded, Serve, Sent
<1>2. \/ UNCHANGED post
      \/ SweepEnd
      \/ \E j \in Jobs : post[j] = "take" /\ \E next \in {"stopped", "sweeping"} :
                           post' = [post EXCEPT ![j] = next]
  BY DEF Configure, SweepOrphans, DriveNothing, StartPart, RenamePart, WorkRaises,
     EndedMeanwhile, Clean, DriverSweep, RestoreRest, Tick, Rest, vars, SweepExpired, SweepEvict,
     TakeSweep, CallDone, DeleteEnded, Serve, Sent
<1>3. SweepEnd => \A j \in Jobs : HasJob(j)' <=> HasJob(j)
  BY DEF SweepEnd, LifeInv, SweepByPost, HasJob
<1>4. \A j \in Jobs : HasJob(j)' <=> HasJob(j)
  BY <1>2, <1>3 DEF HasJob, TypeInv, TypeOK
<1> QED
  BY <1>1, <1>4, SeenSame

\* A POST's quiet steps are not seen.
LEMMA SeenPost ==
  ASSUME TypeInv, NEW j \in Jobs,
         \/ Full(j) \/ Begin(j) \/ Take(j) \/ WriteInputs(j) \/ Refuse(j) \/ Settle(j)
         \/ SubmitFull(j) \/ SubmitRefused(j) \/ Handoff(j) \/ Leave(j) \/ Abandon(j)
  PROVE  Seen' = Seen
<1>1. UNCHANGED <<rec, record>>
  BY DEF Full, Begin, Take, WriteInputs, Refuse, Settle, SubmitFull, SubmitRefused, Handoff,
     Leave, Abandon
<1>2. TypeOK
  BY DEF TypeInv
<1> QED
  BY <1>1, <1>2, QuietPosts, SeenSame

\* The removal of a record is the job's, and no other is seen.
LEMMA SeenFileStep ==
  ASSUME TypeInv, DiskInv, LifeInv, FileStep PROVE [Contract!Next]_Seen
<1>1. UNCHANGED <<rec, post>> /\ record \in [Jobs -> Record]
  BY FileEffect DEF TypeInv, TypeOK, Record
<1>2. PICK j \in Jobs :
        \/ UNCHANGED record
        \/ todo = <<<<"record", j>>, <<"clip", j>>, <<"part", j>>>>
           /\ record' = [record EXCEPT ![j] = NoRecord]
  BY FileEffect
<1>3. CASE UNCHANGED record
  BY <1>1, <1>3, SeenSame DEF HasJob
<1>4. CASE todo = <<<<"record", j>>, <<"clip", j>>, <<"part", j>>>>
           /\ record' = [record EXCEPT ![j] = NoRecord]
  <2>1. Status(j) \in Ended /\ HasJob(j)
    BY <1>4 DEF LifeInv, RemovesEnded, TakesInputs, RemovesJob, JobLife, Ended
  <2>2. record'[j] = NoRecord /\ \A k \in Jobs : k # j => record'[k] = record[k]
    BY <1>1, <1>4
  <2>3. \A k \in Jobs : k # j => View(k)' = View(k)
    BY <1>1, <2>2, ViewStays DEF HasJob
  <2>4. View(j)' = "gone" /\ View(j) \in {"gone", Status(j)}
    BY <1>1, <2>1, <2>2 DEF View, HasJob, Ended
  <2>5. Seen' = [Seen EXCEPT ![j] = "gone"]
    BY <2>3, <2>4, SeenChange
  <2>6. Seen[j] \in {"gone"} \cup Ended
    BY <2>1, <2>4 DEF Seen
  <2>7. CASE Seen[j] = "gone"
    BY <2>5, <2>7 DEF Seen
  <2>8. CASE Seen[j] \in Ended
    BY <2>5, <2>8 DEF Contract!Next, Contract!Remove, Contract!Ends, Ended, Seen
  <2> QED
    BY <2>6, <2>7, <2>8
<1> QED
  BY <1>2, <1>3, <1>4

\* A live job starts, or ends without completing.
LEMMA SeenMoves ==
  ASSUME TypeInv, DiskInv, LifeInv, NEW ok \in BOOLEAN,
         DriveExpired(ok) \/ Drive(ok) \/ Fail(ok) \/ \E j \in Jobs : DeleteLive(j, ok)
  PROVE  Contract!Next
<1>1. PICK j \in known, s \in {"in_progress", "failed", "cancelled"} : Moves(j, s)
  BY MoveEffect
<1>2. j \in Jobs /\ UNCHANGED post
  BY MoveEffect DEF TypeInv, TypeOK
<1>3. record[j].status # "none"
  BY <1>2 DEF LifeInv, JobLife
<1>4. record[j] # NoRecord /\ record'[j] # NoRecord /\ Status(j) # "none" /\ rec'[j].status = s
  BY <1>1, <1>3 DEF NoRecord, Moves
<1>5. View(j) = Status(j) /\ View(j)' = s
  BY <1>4 DEF View, Status
<1>6. \A k \in Jobs : k # j => View(k)' = View(k)
  BY <1>1, <1>2, ViewStays DEF Moves, HasJob
<1>7. Seen' = [Seen EXCEPT ![j] = s] /\ Seen[j] = Status(j)
  BY <1>2, <1>5, <1>6, SeenChange DEF Seen
<1>8. Contract!Start(j) \/ (s \in {"failed", "cancelled"} /\ Contract!Stop(j, s))
  BY <1>1, <1>7 DEF Moves, Contract!Start, Contract!Stop, Seen
<1> QED
  BY <1>2, <1>8 DEF Contract!Next

\* The job at hand completes.
LEMMA SeenFinish ==
  ASSUME TypeInv, DiskInv, LifeInv, NEW ok \in BOOLEAN, Finish(ok)
  PROVE  [Contract!Next]_Seen
<1>1. PICK j \in Jobs : j = driver.job
  BY FinishEffect DEF TypeInv, TypeOK
<1>2. /\ UNCHANGED post /\ j \in known /\ Status(j) = "in_progress"
      /\ \A k \in Jobs : k # j => rec'[k] = rec[k] /\ record'[k] = record[k]
      /\ \/ rec'[j].status = "completed" /\ record'[j].status = "completed"
         \/ UNCHANGED <<rec, record>>
  BY <1>1, FinishEffect
<1>3. CASE UNCHANGED <<rec, record>>
  BY <1>2, <1>3, SeenSame DEF HasJob
<1>4. CASE rec'[j].status = "completed" /\ record'[j].status = "completed"
  <2>1. record[j] # NoRecord
    BY <1>2 DEF LifeInv, JobLife, NoRecord
  <2>2. View(j) = "in_progress" /\ View(j)' = "completed"
    BY <1>2, <1>4, <2>1 DEF View, Status, NoRecord
  <2>3. \A k \in Jobs : k # j => View(k)' = View(k)
    BY <1>2, ViewStays DEF HasJob
  <2>4. Seen' = [Seen EXCEPT ![j] = "completed"] /\ Seen[j] = "in_progress"
    BY <2>2, <2>3, SeenChange DEF Seen
  <2> QED
    BY <2>4 DEF Contract!Next, Contract!Complete, Seen
<1> QED
  BY <1>2, <1>3, <1>4

\* A job is seen once its record is on disk.
LEMMA SeenSubmit ==
  ASSUME TypeInv, LifeInv, NEW j \in Jobs, NEW ok \in BOOLEAN, Submit(j, ok)
  PROVE  [Contract!Next]_Seen
<1>1. /\ post[j] = "submit"
      /\ \A k \in Jobs : k # j => rec'[k] = rec[k] /\ record'[k] = record[k] /\ post'[k] = post[k]
  BY SubmitEffect
<1>2. ~HasJob(j) /\ record[j] = NoRecord
  BY <1>1 DEF HasJob, LifeInv, JobLife
<1>3. View(j) = "none"
  BY <1>2 DEF View, HasJob
<1>4. CASE UNCHANGED <<rec, record>> /\ post'[j] = "abandon"
  <2>1. \A k \in Jobs : HasJob(k)' <=> HasJob(k)
    BY <1>1, <1>4 DEF HasJob
  <2> QED
    BY <1>4, <2>1, SeenSame
<1>5. CASE rec'[j].status = "queued" /\ record'[j].status = "queued"
  <2>1. View(j)' = "queued"
    BY <1>5 DEF View, Status, NoRecord
  <2>2. \A k \in Jobs : k # j => View(k)' = View(k)
    BY <1>1, ViewStays DEF HasJob
  <2>3. Seen' = [Seen EXCEPT ![j] = "queued"] /\ Seen[j] = "none"
    BY <1>3, <2>1, <2>2, SeenChange DEF Seen
  <2> QED
    BY <2>3 DEF Contract!Next, Contract!Submit, Seen
<1> QED
  BY <1>4, <1>5, SubmitEffect

\* After a crash the jobs are seen as their records will be read: those that
\* had not ended, or whose cancel was not written, fail.
LEMMA SeenCrash == ASSUME TypeInv, LifeInv, Crash PROVE Contract!Next
<1>1. /\ rec' = [j \in Jobs |-> NoRecord] /\ UNCHANGED record
      /\ \A j \in Jobs : HasJob(j)' <=> HasJob(j)
  BY DEF Crash, HasJob
<1> DEFINE S == {j \in Jobs : /\ record[j] # NoRecord /\ record[j].status \notin Ended
                              /\ Status(j) \in {"queued", "in_progress", "cancelled"}}
<1>2. \A j \in Jobs : Status(j) \in Statuses /\ record[j].status \in Statuses
  BY DEF TypeInv, TypeOK, Status
<1>3. ASSUME NEW j \in S
      PROVE  Seen[j] \in {"queued", "in_progress", "cancelled"} /\ View(j)' = "failed"
  BY <1>1 DEF Seen, View, Status, NoRecord
<1>4. ASSUME NEW j \in Jobs \ S
      PROVE  View(j)' = View(j)
  <2>1. CASE record[j] = NoRecord
    BY <1>1, <2>1 DEF View, HasJob
  <2>2. CASE record[j] # NoRecord
    <3>1. View(j)' = IF record[j].status \in Ended THEN record[j].status ELSE "failed"
      BY <1>1, <2>2 DEF View, Status, NoRecord
    <3>2. record[j].status # "none" /\ JobLife(j)
      BY <2>2 DEF LifeInv, JobLife
    <3>3. CASE record[j].status \in Ended
      BY <2>2, <3>1, <3>2, <3>3 DEF View, JobLife
    <3>4. CASE record[j].status \notin Ended
      <4>1. Status(j) \in {"none", "failed"}
        BY <1>2, <2>2, <3>2, <3>4 DEF JobLife, Ended, Statuses
      <4> QED
        BY <2>2, <3>1, <3>4, <4>1 DEF View
    <3> QED
      BY <3>3, <3>4
  <2> QED
    BY <2>1, <2>2
<1>5. S \in SUBSET Jobs
  OBVIOUS
<1> HIDE DEF S
<1>6. Seen' = [j \in Jobs |-> IF j \in S THEN "failed" ELSE Seen[j]]
  BY <1>3, <1>4, <1>5 DEF Seen
<1> QED
  BY <1>3, <1>5, <1>6 DEF Contract!Next, Contract!Restart, Seen

\* A restore reads what is seen already.
LEMMA SeenRestoreJob ==
  ASSUME TypeInv, DiskInv, LifeInv, NEW j \in Jobs, NEW ok \in BOOLEAN, RestoreJob(j, ok)
  PROVE  Seen' = Seen
<1>1. /\ UNCHANGED post /\ server = "restore" /\ j \notin known /\ record[j] # NoRecord
      /\ \A k \in Jobs : k # j => rec'[k] = rec[k] /\ record'[k] = record[k]
      /\ \/ record[j].status \in Ended /\ rec'[j] = record[j] /\ UNCHANGED record
         \/ /\ record[j].status \notin Ended /\ rec'[j].status = "failed"
            /\ record'[j] = record[j] \/ record'[j].status = "failed"
  BY RestoreEffect
<1>2. Status(j) = "none"
  BY <1>1 DEF LifeInv, JobLife
<1>3. View(j)' = View(j)
  BY <1>1, <1>2 DEF View, Status, NoRecord, Ended
<1>4. \A k \in Jobs : k # j => View(k)' = View(k)
  BY <1>1, ViewStays DEF HasJob
<1> QED
  BY <1>3, <1>4 DEF Seen

\* Every step of the store is a step of the contract, or not seen.
LEMMA SeenStep == TypeInv /\ DiskInv /\ LifeInv /\ [Next]_vars => [Contract!Next]_Seen
<1> SUFFICES ASSUME TypeInv, DiskInv, LifeInv, [Next]_vars PROVE [Contract!Next]_Seen
  OBVIOUS
<1>1. CASE Tick \/ Rest \/ UNCHANGED vars \/ Configure
  BY <1>1, SeenQuiet
<1>2. CASE Sweep
  BY <1>2, SeenQuiet DEF Sweep
<1>3. CASE Driving
  BY <1>3, SeenQuiet, SeenMoves, SeenFinish DEF Driving
<1>4. CASE Restore
  BY <1>4, SeenQuiet, SeenRestoreJob DEF Restore
<1>5. ASSUME NEW j \in Jobs, Arrive(j) \/ Handoff(j) \/ Abandon(j)
      PROVE  [Contract!Next]_Seen
  BY <1>5, SeenPost DEF Arrive
<1>6. ASSUME NEW j \in Jobs, PostCall(j)
      PROVE  [Contract!Next]_Seen
  BY <1>6, SeenPost, SeenQuiet, SeenSubmit DEF PostCall
<1>7. ASSUME NEW j \in Jobs, Client(j)
      PROVE  [Contract!Next]_Seen
  BY <1>7, SeenQuiet, SeenMoves DEF Client
<1> QED
  BY <1>1, <1>2, <1>3, <1>4, <1>5, <1>6, <1>7, SeenFileStep, SeenCrash DEF Next

\* The store implements VideoJob: for every set of jobs and any number of
\* crashes and failed writes, a job is queued, runs, ends once and keeps its
\* end until it is removed, and a job removed never comes back.
THEOREM StoreKeepsContract == Spec => ImplementsVideoJob
<1>1. TypeInv /\ DiskInv /\ LifeInv /\ [Next]_vars => [Contract!Next]_Seen
  BY SeenStep
<1> QED
  BY SeenInit, TypeInvariant, DiskInvariant, LifeInvariant, <1>1, PTL
     DEF Spec, ImplementsVideoJob, Contract!Spec, Seen

=============================================================================
