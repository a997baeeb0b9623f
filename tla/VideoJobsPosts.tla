--------------------------- MODULE VideoJobsPosts ---------------------------
(***************************************************************************)
(* What the store of video jobs guarantees of POSTs and of its bounds: a   *)
(* job keeps its inputs, the queue its bound, the uploads theirs, the      *)
(* sweep an honest total, and a clip has an owner.                         *)
(***************************************************************************)
EXTENDS VideoJobsProofs, FiniteSums

USE DEF memory, uploads, disk, posts, bounds, sweeping

-----------------------------------------------------------------------------
(* The uploads.                                                            *)

\* What a POST has on the way, and what it leaves.
PostLife(j) ==
  /\ j \notin ended /\ post[j] \in {"take", "sweeping", "taking", "write", "settle", "submit"}
        => j \in arriving
  /\ j \notin ended /\ post[j] \in {"settle", "submit"} => inputs[j] = 1
  /\ post[j] \in {"new", "begin", "take", "sweeping", "taking"} => inputs[j] = 0
  /\ j \in ended => (j \in left \/ post[j] = "over") /\ post[j] \notin {"sweeping", "taking"}
  /\ j \notin Inline /\ post[j] = "write" => j \notin left
  /\ j \in arriving => ~HasJob(j) /\ j \notin ended /\ inputs[j] <= reserved[j]
  /\ j \in arriving /\ post[j] = "write" => reserved[j] >= 1
  /\ j \in known /\ Status(j) \in {"queued", "in_progress"} => inputs[j] = 1
  /\ j \in ended \ known => j \in Inline \/ inputs[j] = 0 \/ todo = FilesOf(j)

PostInv == \A j \in Jobs : PostLife(j)

\* An empty store keeps PostInv.
LEMMA PostInit == Init => PostInv
BY DEF Init, PostInv, PostLife, HasJob, Status, NoRecord

\* A POST no step touches.
LEMMA PostStays ==
  ASSUME NEW j \in Jobs, PostLife(j), post'[j] = post[j], inputs'[j] = inputs[j],
         reserved'[j] = reserved[j], Status(j)' = Status(j),
         (j \in ended') <=> (j \in ended), (j \in left') <=> (j \in left),
         (j \in arriving') <=> (j \in arriving), (j \in known') <=> (j \in known),
         todo = FilesOf(j) => todo' = FilesOf(j)
  PROVE  PostLife(j)'
BY DEF PostLife, HasJob, FilesOf

\* A step that touches no POST, no table and no inputs.
LEMMA PostFrame ==
  ASSUME PostInv, UNCHANGED <<known, rec, uploads, inputs, posts>>, todo = <<>> \/ UNCHANGED todo
  PROVE  PostInv'
<1>1. \A j \in Jobs : todo = FilesOf(j) => todo' = FilesOf(j)
  BY DEF FilesOf
<1>2. \A j \in Jobs : Status(j)' = Status(j)
  BY DEF Status
<1> QED
  BY <1>1, <1>2, PostStays DEF PostInv

\* A step that touches one POST.
LEMMA PostChange ==
  ASSUME PostInv, NEW j \in Jobs, todo = <<>> \/ UNCHANGED todo,
         \A k \in Jobs : k # j => /\ post'[k] = post[k] /\ inputs'[k] = inputs[k]
                                  /\ reserved'[k] = reserved[k] /\ rec'[k] = rec[k]
                                  /\ (k \in ended') <=> (k \in ended)
                                  /\ (k \in left') <=> (k \in left)
                                  /\ (k \in arriving') <=> (k \in arriving)
                                  /\ (k \in known') <=> (k \in known),
         PostLife(j)'
  PROVE  PostInv'
<1>1. ASSUME NEW k \in Jobs, k # j PROVE PostLife(k)'
  <2>1. todo = FilesOf(k) => todo' = FilesOf(k)
    BY DEF FilesOf
  <2>2. Status(k)' = Status(k)
    BY <1>1 DEF Status
  <2> QED
    BY <1>1, <2>1, <2>2, PostStays DEF PostInv
<1> QED
  BY <1>1 DEF PostInv

\* The check before the body, and a body refused.
LEMMA PostFull ==
  ASSUME TypeInv, LifeInv, PostInv, NEW j \in Jobs, Full(j) \/ Refuse(j) PROVE PostInv'
<1>1. /\ TypeOK /\ post \in [Jobs -> PostAt] /\ inputs \in [Jobs -> 0..1]
      /\ reserved \in [Jobs -> 0..2]
  BY DEF TypeInv, TypeOK
<1>2. CASE Full(j)
  <2>1. /\ UNCHANGED <<known, rec, uploads, inputs, left, ended, todo>> /\ post[j] = "new"
        /\ \E next \in {"abandon", "begin"} : Goes(j, next)
    BY <1>2 DEF Full
  <2>2. post'[j] \in {"abandon", "begin", "stopped"} /\ \A k \in Jobs : k # j => post'[k] = post[k]
    BY <1>1, <2>1, GoesEffect
  <2>3. PostLife(j)'
    BY <2>1, <2>2 DEF PostInv, PostLife, HasJob, Status
  <2> QED
    BY <2>1, <2>2, <2>3, PostChange
<1>3. CASE Refuse(j)
  <2>1. /\ UNCHANGED <<known, rec, uploads, left, ended, todo>> /\ post[j] \in {"write", "submit"}
        /\ post' = [post EXCEPT ![j] = "abandon"]
        /\ inputs' = IF post[j] = "write" THEN [inputs EXCEPT ![j] = 0] ELSE inputs
    BY <1>3 DEF Refuse
  <2>2. /\ post'[j] = "abandon" /\ inputs'[j] <= inputs[j]
        /\ inputs'[j] \in 0..1 /\ (inputs[j] = 0 => inputs'[j] = 0)
        /\ post[j] = "submit" => inputs'[j] = inputs[j]
        /\ \A k \in Jobs : k # j => post'[k] = post[k] /\ inputs'[k] = inputs[k]
    BY <1>1, <2>1
  <2>3. PostLife(j)'
    <3>1. j \in arriving => inputs'[j] <= reserved[j]
      BY <1>1, <2>2 DEF PostInv, PostLife
    <3>2. j \notin known
      BY <2>1 DEF LifeInv, JobLife, HasJob
    <3> QED
      BY <2>1, <2>2, <3>1, <3>2 DEF PostInv, PostLife, HasJob, Status, FilesOf
  <2> QED
    BY <2>1, <2>2, <2>3, PostChange
<1> QED
  BY <1>2, <1>3

\* An upload begins.
LEMMA PostBegin == ASSUME TypeInv, LifeInv, PostInv, NEW j \in Jobs, Begin(j) PROVE PostInv'
<1>1. /\ TypeOK /\ post \in [Jobs -> PostAt] /\ reserved \in [Jobs -> 0..2]
  BY DEF TypeInv, TypeOK
<1>2. UNCHANGED <<known, rec, inputs, left, ended, todo>> /\ post[j] = "begin"
  BY DEF Begin
<1>3. j \notin known /\ inputs[j] = 0
  BY <1>2 DEF LifeInv, JobLife, HasJob, PostInv, PostLife
<1>4. CASE Refuses(j)
  <2>1. j \in ended /\ UNCHANGED uploads /\ post' = [post EXCEPT ![j] = "stopped"]
    BY <1>4 DEF Begin, CallDone, Refuses
  <2>2. PostLife(j)'
    BY <1>1, <1>2, <1>3, <2>1 DEF PostInv, PostLife, HasJob, Status
  <2> QED
    BY <1>1, <1>2, <2>1, <2>2, PostChange
<1>5. CASE ~Refuses(j)
  <2>1. /\ j \notin ended /\ arriving' = arriving \cup {j}
        /\ reserved' = [reserved EXCEPT ![j] = 0] /\ Goes(j, "take")
    BY <1>5 DEF Begin, Refuses
  <2>2. post'[j] \in {"take", "stopped"} /\ \A k \in Jobs : k # j => post'[k] = post[k]
    BY <1>1, <2>1, GoesEffect
  <2>3. reserved'[j] = 0 /\ \A k \in Jobs : k # j => reserved'[k] = reserved[k]
    BY <1>1, <2>1
  <2>4. PostLife(j)'
    BY <1>2, <1>3, <2>1, <2>2, <2>3 DEF PostInv, PostLife, HasJob, Status
  <2> QED
    BY <1>2, <2>1, <2>2, <2>3, <2>4, PostChange
<1> QED
  BY <1>4, <1>5

\* A POST opens a sweep, and its sweep ends.
LEMMA PostSweeps ==
  ASSUME TypeInv, LifeInv, PostInv, SweepEnd \/ \E j \in Jobs : TakeSweep(j) PROVE PostInv'
<1>1. /\ UNCHANGED <<known, rec, uploads, inputs, left, ended, todo>> /\ post \in [Jobs -> PostAt]
  BY DEF SweepEnd, TakeSweep, TypeInv, TypeOK
<1>2. ASSUME NEW j \in Jobs, TakeSweep(j) PROVE PostInv'
  <2>1. /\ post[j] = "take"
        /\ \/ j \in ended /\ post' = [post EXCEPT ![j] = "stopped"]
           \/ j \notin ended /\ post' = [post EXCEPT ![j] = "sweeping"]
    BY <1>2 DEF TakeSweep, CallDone, Refuses
  <2>2. PostLife(j)'
    BY <1>1, <2>1 DEF PostInv, PostLife, HasJob, Status
  <2> QED
    BY <1>1, <2>1, <2>2, PostChange
<1>3. CASE SweepEnd
  <2>1. post' = [j \in Jobs |-> IF sweep.by = j THEN "taking" ELSE post[j]]
    BY <1>3 DEF SweepEnd
  <2>2. \A j \in Jobs : post'[j] = post[j] \/ (post[j] = "sweeping" /\ post'[j] = "taking")
    BY <2>1 DEF LifeInv, SweepByPost
  <2>3. ASSUME NEW j \in Jobs PROVE PostLife(j)'
    BY <1>1, <2>2 DEF PostInv, PostLife, HasJob, Status, FilesOf
  <2> QED
    BY <2>3 DEF PostInv
<1> QED
  BY <1>2, <1>3

\* An upload takes its room.
LEMMA PostTake == ASSUME TypeInv, LifeInv, PostInv, NEW j \in Jobs, Take(j) PROVE PostInv'
<1>1. /\ TypeOK /\ post \in [Jobs -> PostAt] /\ reserved \in [Jobs -> 0..2]
  BY DEF TypeInv, TypeOK
<1>2. /\ UNCHANGED <<known, rec, arriving, inputs, left, ended, todo>> /\ post[j] = "taking"
  BY DEF Take
<1>3. j \notin known /\ inputs[j] = 0 /\ j \notin ended /\ j \in arriving /\ reserved[j] = 0
  BY <1>2 DEF LifeInv, JobLife, HasJob, PostInv, PostLife, TypeInv, NotYetReserved
<1>4. CASE RoomFor(j)
  <2>1. reserved' = [reserved EXCEPT ![j] = @ + Body(j)]
    BY <1>3, <1>4 DEF Take
  <2>2. reserved'[j] \in 1..2 /\ \A k \in Jobs : k # j => reserved'[k] = reserved[k]
    BY <1>1, <1>3, <2>1 DEF Body
  <2>3. /\ post'[j] \in {"write", "stopped"} /\ \A k \in Jobs : k # j => post'[k] = post[k]
        /\ j \notin Inline /\ post'[j] = "write" => j \notin left
    <3>1. CASE j \in Inline
      BY <1>1, <1>3, <1>4, <3>1 DEF Take
    <3>2. CASE j \notin Inline
      <4>1. Goes(j, "write")
        BY <1>3, <1>4, <3>2 DEF Take
      <4> QED
        BY <1>1, <3>2, <4>1, GoesEffect
    <3> QED
      BY <3>1, <3>2
  <2>4. PostLife(j)'
    BY <1>2, <1>3, <2>2, <2>3 DEF PostInv, PostLife, HasJob, Status
  <2> QED
    BY <1>2, <2>2, <2>3, <2>4, PostChange
<1>5. CASE ~RoomFor(j)
  <2>1. UNCHANGED reserved /\ \E next \in {"stopped", "abandon"} : Goes(j, next)
    BY <1>5 DEF Take
  <2>2. post'[j] \in {"abandon", "stopped"} /\ \A k \in Jobs : k # j => post'[k] = post[k]
    BY <1>1, <2>1, GoesEffect
  <2>3. PostLife(j)'
    BY <1>2, <1>3, <2>1, <2>2 DEF PostInv, PostLife, HasJob, Status
  <2> QED
    BY <1>2, <2>1, <2>2, <2>3, PostChange
<1> QED
  BY <1>4, <1>5

\* The files reach the disk: those of a form whose POST goes on, or an
\* image's whose thread does.
LEMMA PostWrite == ASSUME TypeInv, LifeInv, PostInv, NEW j \in Jobs, WriteInputs(j) PROVE PostInv'
<1>1. /\ TypeOK /\ inputs \in [Jobs -> 0..1] /\ reserved \in [Jobs -> 0..2]
  BY DEF TypeInv, TypeOK
<1>2. /\ UNCHANGED <<known, rec, uploads, left, ended, todo>> /\ post[j] = "write"
      /\ inputs' = [inputs EXCEPT ![j] = 1]
      /\ \E next \in {"submit", "settle"} : Goes(j, next)
  BY DEF WriteInputs
<1>3. /\ post'[j] \in {"submit", "settle", "stopped"}
      /\ \A k \in Jobs : k # j => post'[k] = post[k]
  BY <1>1, <1>2, GoesEffect
<1>4. inputs'[j] = 1 /\ \A k \in Jobs : k # j => inputs'[k] = inputs[k]
  BY <1>1, <1>2
<1>5. j \notin known /\ PostLife(j)
  BY <1>2 DEF LifeInv, JobLife, HasJob, PostInv
<1>6. j \in ended => j \in Inline
  BY <1>2, <1>5 DEF PostLife
<1>7. PostLife(j)'
  BY <1>2, <1>3, <1>4, <1>5, <1>6 DEF PostLife, HasJob, Status
<1> QED
  BY <1>2, <1>3, <1>4, <1>7, PostChange

\* The reservation becomes what the files are.
LEMMA PostSettle == ASSUME TypeInv, LifeInv, PostInv, NEW j \in Jobs, Settle(j) PROVE PostInv'
<1>1. /\ TypeOK /\ inputs \in [Jobs -> 0..1] /\ reserved \in [Jobs -> 0..2]
  BY DEF TypeInv, TypeOK
<1>2. /\ UNCHANGED <<known, rec, arriving, inputs, left, ended, todo>> /\ post[j] = "settle"
      /\ reserved' \in {reserved, [reserved EXCEPT ![j] = inputs[j]]} /\ Goes(j, "submit")
  BY DEF Settle
<1>3. /\ post'[j] \in {"submit", "stopped"}
      /\ \A k \in Jobs : k # j => post'[k] = post[k] /\ reserved'[k] = reserved[k]
  BY <1>1, <1>2, GoesEffect
<1>4. reserved'[j] \in {reserved[j], inputs[j]}
  BY <1>1, <1>2
<1>5. j \notin known /\ PostLife(j) /\ inputs[j] \in Nat
  BY <1>1, <1>2 DEF LifeInv, JobLife, HasJob, PostInv
<1>6. PostLife(j)'
  BY <1>2, <1>3, <1>4, <1>5 DEF PostLife, HasJob, Status
<1> QED
  BY <1>2, <1>3, <1>6, PostChange

\* A queue that is full ends the POST and its files.
LEMMA PostSubmitFull ==
  ASSUME TypeInv, LifeInv, PostInv, NEW j \in Jobs, SubmitFull(j) \/ SubmitRefused(j) PROVE PostInv'
<1>1. /\ TypeOK /\ post \in [Jobs -> PostAt] /\ inputs \in [Jobs -> 0..1]
      /\ reserved \in [Jobs -> 0..2]
  BY DEF TypeInv, TypeOK
<1>2. UNCHANGED <<known, rec, left, ended, todo>> /\ post[j] = "submit"
  BY DEF SubmitFull, SubmitRefused
<1>3. j \notin known /\ PostLife(j)
  BY <1>2 DEF LifeInv, JobLife, HasJob, PostInv
<1>4. CASE SubmitFull(j)
  <2>1. /\ Unreserve(j) /\ inputs' = [inputs EXCEPT ![j] = 0] /\ Goes(j, "abandon")
    BY <1>4 DEF SubmitFull
  <2>2. /\ post'[j] = "abandon" /\ j \notin arriving' /\ inputs'[j] = 0
        /\ \A k \in Jobs : k # j => /\ post'[k] = post[k] /\ inputs'[k] = inputs[k]
                                    /\ reserved'[k] = reserved[k]
                                    /\ (k \in arriving') <=> (k \in arriving)
    BY <1>1, <2>1, GoesEffect DEF Unreserve
  <2>3. PostLife(j)'
    BY <1>2, <1>3, <2>2 DEF PostLife, HasJob, Status
  <2> QED
    BY <1>2, <2>2, <2>3, PostChange
<1>5. CASE SubmitRefused(j)
  <2>1. /\ UNCHANGED <<uploads, inputs>> /\ post' = [post EXCEPT ![j] = "stopped"]
    BY <1>5 DEF SubmitRefused, CallDone
  <2>2. PostLife(j)'
    BY <1>1, <1>2, <1>3, <2>1 DEF PostLife, HasJob, Status, FilesOf
  <2> QED
    BY <1>1, <1>2, <2>1, <2>2, PostChange
<1> QED
  BY <1>4, <1>5

\* A job is queued with its inputs.
LEMMA PostSubmit ==
  ASSUME TypeInv, LifeInv, PostInv, NEW j \in Jobs, NEW ok \in BOOLEAN, Submit(j, ok) PROVE PostInv'
<1>1. /\ UNCHANGED <<inputs, left, ended, todo>> /\ post[j] = "submit" /\ j \notin ended
      /\ \A k \in Jobs : k # j => rec'[k] = rec[k] /\ post'[k] = post[k]
  BY SubmitEffect
<1>2. \/ /\ known' = known \cup {j} /\ post'[j] = "handoff"
         /\ arriving' = arriving \ {j} /\ reserved' = [reserved EXCEPT ![j] = 0]
      \/ /\ UNCHANGED <<rec, known, uploads>> /\ post'[j] = "abandon"
  BY SubmitEffect
<1>3. \A k \in Jobs : k # j => reserved'[k] = reserved[k]
  BY <1>2 DEF TypeInv, TypeOK
<1>4. PostLife(j)'
  BY <1>1, <1>2 DEF PostInv, PostLife, HasJob, Status
<1> QED
  BY <1>1, <1>2, <1>3, <1>4, PostChange

\* The job goes to the driver, or its client leaves.
LEMMA PostLeave ==
  ASSUME TypeInv, LifeInv, PostInv, NEW j \in Jobs, Handoff(j) \/ Leave(j) PROVE PostInv'
<1>1. /\ post \in [Jobs -> PostAt] /\ inputs \in [Jobs -> 0..1] /\ reserved \in [Jobs -> 0..2]
  BY DEF TypeInv, TypeOK
<1>2. UNCHANGED <<known, rec, uploads, ended, todo>> /\ PostLife(j)
  BY DEF Handoff, Leave, PostInv
<1>3. CASE Handoff(j)
  <2>1. /\ UNCHANGED <<inputs, left>> /\ post[j] = "handoff" /\ post' = [post EXCEPT ![j] = "done"]
    BY <1>3 DEF Handoff
  <2>2. PostLife(j)'
    BY <1>1, <1>2, <2>1 DEF PostLife, HasJob, Status, FilesOf
  <2> QED
    BY <1>1, <1>2, <2>1, <2>2, PostChange
<1>4. CASE Leave(j)
  <2>1. j \notin left /\ left' = left \cup {j}
    BY <1>4 DEF Leave
  <2>2. j \notin ended \/ post[j] = "over"
    BY <1>2, <2>1 DEF PostLife
  <2>3. CASE post[j] = "write" /\ j \notin Inline
    <3>1. inputs' = [inputs EXCEPT ![j] = 0] /\ post' = [post EXCEPT ![j] = "stopped"]
      BY <1>4, <2>3 DEF Leave
    <3>2. j \notin known
      BY <2>3 DEF LifeInv, JobLife, HasJob
    <3>3. /\ inputs'[j] = 0 /\ post'[j] = "stopped" /\ reserved[j] >= 0
          /\ \A k \in Jobs : k # j => post'[k] = post[k] /\ inputs'[k] = inputs[k]
      BY <1>1, <3>1
    <3>4. PostLife(j)'
      BY <1>2, <2>1, <2>3, <3>2, <3>3 DEF PostLife, HasJob, Status
    <3> QED
      BY <1>2, <2>1, <3>3, <3>4, PostChange
  <2>4. CASE ~(post[j] = "write" /\ j \notin Inline)
    <3>1. UNCHANGED <<inputs, post>>
      BY <1>4, <2>4 DEF Leave
    <3>2. PostLife(j)'
      BY <1>2, <2>1, <2>4, <3>1 DEF PostLife, HasJob, Status, FilesOf
    <3> QED
      BY <1>2, <2>1, <3>1, <3>2, PostChange
  <2> QED
    BY <2>3, <2>4
<1> QED
  BY <1>3, <1>4

\* The abandon leaves the inputs of a job that was queued, and nothing else.
LEMMA PostAbandon == ASSUME TypeInv, LifeInv, PostInv, NEW j \in Jobs, Abandon(j) PROVE PostInv'
<1>1. /\ post \in [Jobs -> PostAt] /\ inputs \in [Jobs -> 0..1] /\ reserved \in [Jobs -> 0..2]
  BY DEF TypeInv, TypeOK
<1>2. /\ UNCHANGED <<known, rec, left, todo>> /\ PostLife(j)
      /\ ended' = ended \cup {j} /\ j \notin ended /\ ~InCall(j) /\ (j \in left \/ post[j] = "abandon")
      /\ post' = [post EXCEPT ![j] = IF @ = "abandon" THEN "over" ELSE @]
  BY DEF Abandon, PostInv
<1>3. /\ post'[j] = (IF post[j] = "abandon" THEN "over" ELSE post[j])
      /\ \A k \in Jobs : k # j => post'[k] = post[k]
  BY <1>1, <1>2
<1>4. CASE j \in known
  <2>1. UNCHANGED <<uploads, inputs>>
    BY <1>4 DEF Abandon, Kept
  <2>2. HasJob(j)
    BY <1>4 DEF LifeInv, JobLife
  <2>3. PostLife(j)'
    BY <1>2, <1>3, <1>4, <2>1, <2>2 DEF PostLife, HasJob, Status, InCall
  <2> QED
    BY <1>2, <1>3, <2>1, <2>3, PostChange
<1>5. CASE j \notin known
  <2>1. Unreserve(j) /\ inputs' = [inputs EXCEPT ![j] = 0]
    BY <1>5 DEF Abandon, Kept
  <2>2. /\ j \notin arriving' /\ inputs'[j] = 0
        /\ \A k \in Jobs : k # j => /\ inputs'[k] = inputs[k] /\ reserved'[k] = reserved[k]
                                    /\ (k \in arriving') <=> (k \in arriving)
    BY <1>1, <2>1 DEF Unreserve
  <2>3. PostLife(j)'
    BY <1>2, <1>3, <1>5, <2>2 DEF PostLife, HasJob, Status, InCall
  <2> QED
    BY <1>2, <1>3, <2>2, <2>3, PostChange
<1> QED
  BY <1>4, <1>5

\* A job forgotten takes its inputs with it, before the lock is free.
LEMMA PostForgets ==
  ASSUME TypeInv, LifeInv, PostInv, NEW j \in Jobs, SweepExpired(j) \/ SweepEvict(j) \/ DeleteEnded(j)
  PROVE  PostInv'
<1>1. /\ known' = known \ {j} /\ todo' = FilesOf(j) /\ todo = <<>>
      /\ UNCHANGED <<rec, uploads, inputs, posts>>
  BY DEF SweepExpired, SweepEvict, DeleteEnded, Forget, Free
<1>2. PostLife(j)'
  BY <1>1 DEF PostInv, PostLife, HasJob, Status
<1> QED
  BY <1>1, <1>2, PostChange

\* A removal takes no inputs of a live job, nor of an upload.
LEMMA PostFileStep == ASSUME TypeInv, DiskInv, LifeInv, PostInv, FileStep PROVE PostInv'
<1>1. /\ UNCHANGED <<known, rec, uploads, posts>> /\ inputs \in [Jobs -> 0..1]
      /\ reserved \in [Jobs -> 0..2]
  BY FileEffect DEF TypeInv, TypeOK
<1>2. PICK j \in Jobs :
        \/ TakesInputs(j) /\ inputs' = [inputs EXCEPT ![j] = 0]
        \/ UNCHANGED inputs /\ \A k \in Jobs : todo # FilesOf(k)
  <2>1. \A j \in Jobs : \/ todo = FilesOf(j) \/ todo = <<<<"inputs", j>>>>
                        \/ todo = <<<<"inputs", j>>, <<"clip", j>>, <<"part", j>>>>
                        => TakesInputs(j)
    BY DEF TakesInputs, RemovesJob, FilesOf
  <2>2. \A j, k \in Jobs : \/ todo = <<<<"record", j>>, <<"clip", j>>, <<"part", j>>>>
                           \/ todo = <<<<"clip", j>>, <<"part", j>>>>
                           \/ todo = <<<<"part", j>>>>
                           => todo # FilesOf(k)
    BY DEF FilesOf
  <2> QED
    BY <2>1, <2>2, FileEffect
<1>3. CASE TakesInputs(j) /\ inputs' = [inputs EXCEPT ![j] = 0]
  <2>1. Status(j) \in Ended /\ HasJob(j)
    BY <1>3 DEF LifeInv, RemovesEnded, JobLife, Ended
  <2>2. inputs'[j] = 0 /\ \A k \in Jobs : k # j => inputs'[k] = inputs[k] /\ todo # FilesOf(k)
    BY <1>1, <1>3 DEF TakesInputs, RemovesJob, FilesOf
  <2>3. PostLife(j)'
    BY <1>1, <2>1, <2>2 DEF PostInv, PostLife, HasJob, Status, Ended
  <2>4. \A k \in Jobs : k # j => PostLife(k)'
    BY <1>1, <2>2, PostStays DEF PostInv, Status
  <2> QED
    BY <2>3, <2>4 DEF PostInv
<1>4. CASE UNCHANGED inputs /\ \A k \in Jobs : todo # FilesOf(k)
  BY <1>1, <1>4, PostStays DEF PostInv, Status
<1> QED
  BY <1>2, <1>3, <1>4

\* The sweep takes no inputs of a live job, nor of an upload.
LEMMA PostSweepOrphans == ASSUME TypeInv, LifeInv, PostInv, SweepOrphans PROVE PostInv'
<1>1. /\ UNCHANGED <<known, rec, uploads, posts, todo>> /\ todo = <<>>
      /\ inputs' = [j \in Jobs |-> IF j \in OrphanInputs THEN 0 ELSE inputs[j]]
  BY DEF SweepOrphans
<1>2. ASSUME NEW j \in Jobs, j \in OrphanInputs PROVE PostLife(j)'
  <2>1. inputs'[j] = 0 /\ j \notin arriving /\ (j \notin known \/ Status(j) \in Ended)
    BY <1>1, <1>2 DEF OrphanInputs
  <2> QED
    BY <1>1, <2>1 DEF PostInv, PostLife, HasJob, Status, Ended
<1>3. ASSUME NEW j \in Jobs, j \notin OrphanInputs PROVE PostLife(j)'
  BY <1>1, <1>3, PostStays DEF PostInv, Status
<1> QED
  BY <1>2, <1>3 DEF PostInv

\* A job that starts, ends or completes keeps its inputs till then.
LEMMA PostMoves ==
  ASSUME TypeInv, DiskInv, LifeInv, PostInv, NEW ok \in BOOLEAN,
         \/ DriveExpired(ok) \/ Drive(ok) \/ Fail(ok) \/ Finish(ok)
         \/ \E j \in Jobs : DeleteLive(j, ok)
  PROVE  PostInv'
<1>1. UNCHANGED <<known, uploads, inputs, posts>> /\ todo = <<>>
  BY MoveEffect, FinishEffect
<1>2. PICK j \in known : /\ Status(j) \in {"queued", "in_progress"}
                         /\ \A k \in Jobs : k # j => rec'[k] = rec[k]
  BY MoveEffect, FinishEffect DEF Moves
<1>3. j \in Jobs
  BY DEF TypeInv, TypeOK
<1>4. PostLife(j)'
  BY <1>1, <1>2, <1>3 DEF PostInv, PostLife, HasJob
<1> QED
  BY <1>1, <1>2, <1>3, <1>4, PostChange

\* A crash ends the POSTs, and a restore takes their jobs.
LEMMA PostCrash == ASSUME TypeInv, PostInv, Crash PROVE PostInv'
<1>1. /\ known' = {} /\ arriving' = {} /\ left' = {} /\ ended' = {} /\ UNCHANGED inputs
      /\ \A j \in Jobs : post'[j] \in {"done", "over"} \/ (post[j] = "new" /\ post'[j] = "new")
  BY DEF Crash
<1>2. ASSUME NEW j \in Jobs PROVE PostLife(j)'
  BY <1>1 DEF PostInv, PostLife, HasJob
<1> QED
  BY <1>2 DEF PostInv

\* A restored job is not live.
LEMMA PostRestoreJob ==
  ASSUME TypeInv, DiskInv, LifeInv, PostInv, NEW j \in Jobs, NEW ok \in BOOLEAN, RestoreJob(j, ok)
  PROVE  PostInv'
<1>1. /\ UNCHANGED <<uploads, inputs, posts>> /\ todo = <<>> /\ known' = known \cup {j}
      /\ \A k \in Jobs : k # j => rec'[k] = rec[k]
      /\ rec'[j].status \in Ended
  BY RestoreEffect DEF Ended
<1>2. PostLife(j)'
  BY <1>1 DEF PostInv, PostLife, HasJob, Ended, Status
<1> QED
  BY <1>1, <1>2, PostChange

\* Every step keeps PostInv.
LEMMA PostStep == TypeInv /\ DiskInv /\ LifeInv /\ PostInv /\ [Next]_vars => PostInv'
<1> SUFFICES ASSUME TypeInv, DiskInv, LifeInv, PostInv, [Next]_vars PROVE PostInv'
  OBVIOUS
<1>1. CASE \/ Tick \/ Rest \/ UNCHANGED vars \/ Configure \/ RestoreRest \/ DriveNothing
           \/ StartPart \/ RenamePart \/ WorkRaises \/ EndedMeanwhile \/ Clean \/ DriverSweep
           \/ \E j \in Jobs : Serve(j) \/ Sent(j)
  <2>1. UNCHANGED <<known, rec, uploads, inputs, posts>>
    BY <1>1 DEF Tick, Rest, vars, Configure, RestoreRest, DriveNothing, StartPart, RenamePart,
       WorkRaises, EndedMeanwhile, Clean, DriverSweep, Serve, Sent
  <2>2. todo = <<>> \/ UNCHANGED todo
    BY <1>1 DEF Tick, Rest, vars, Configure, RestoreRest, DriveNothing, StartPart, RenamePart,
       WorkRaises, EndedMeanwhile, Clean, DriverSweep, Serve, Sent, Free
  <2> QED
    BY <2>1, <2>2, PostFrame
<1>2. CASE Sweep
  BY <1>2, PostForgets, PostSweepOrphans, PostSweeps DEF Sweep
<1>3. CASE Driving
  BY <1>1, <1>3, PostMoves DEF Driving
<1>4. CASE Restore
  BY <1>1, <1>4, PostRestoreJob DEF Restore
<1>5. ASSUME NEW j \in Jobs, Arrive(j) \/ Handoff(j) \/ Abandon(j)
      PROVE  PostInv'
  BY <1>5, PostFull, PostLeave, PostAbandon DEF Arrive
<1>6. ASSUME NEW j \in Jobs, PostCall(j)
      PROVE  PostInv'
  BY <1>6, PostBegin, PostSweeps, PostTake, PostWrite, PostSettle, PostSubmitFull, PostSubmit
     DEF PostCall
<1>7. ASSUME NEW j \in Jobs, Client(j)
      PROVE  PostInv'
  BY <1>1, <1>7, PostForgets, PostMoves DEF Client
<1> QED
  BY <1>1, <1>2, <1>3, <1>4, <1>5, <1>6, <1>7, PostFileStep, PostCrash DEF Next

\* Every reachable state keeps PostInv.
THEOREM PostInvariant == Spec => []PostInv
<1>1. TypeInv /\ DiskInv /\ LifeInv /\ PostInv /\ [Next]_vars => PostInv'
  BY PostStep
<1> QED
  BY PostInit, TypeInvariant, DiskInvariant, LifeInvariant, <1>1, PTL DEF Spec

\* A job that is queued or runs keeps its inputs, whatever sweeps, abandons
\* and other POSTs do meanwhile.
THEOREM InputsAreKept == Spec => []LiveJobHasInputs
<1>1. TypeInv /\ PostInv => LiveJobHasInputs
  BY DEF TypeInv, TypeOK, PostInv, PostLife, LiveJobHasInputs
<1> QED
  BY TypeInvariant, PostInvariant, <1>1, PTL

\* A form whose POST ended with no job leaves no reservation and no file.
THEOREM FormLeavesNothing ==
  ASSUME Inline = {}
  PROVE  Spec => []PostLeavesNothing
<1>1. TypeInv /\ PostInv => PostLeavesNothing
  BY DEF TypeInv, TypeOK, PostInv, PostLife, PostLeavesNothing, Free, FilesOf
<1> QED
  BY TypeInvariant, PostInvariant, <1>1, PTL

\* A POST that ended with no job leaves nothing, but that of a data URL may
\* leave the image its thread decodes late, which no reservation counts.
THEOREM OnlyLateImagesAreLeft ==
  Spec => [](Free => \A j \in ended \ known :
                       j \notin arriving /\ (inputs[j] = 0 \/ j \in Inline))
<1>1. TypeInv /\ PostInv
      => (Free => \A j \in ended \ known :
                    j \notin arriving /\ (inputs[j] = 0 \/ j \in Inline))
  BY DEF TypeInv, TypeOK, PostInv, PostLife, Free, FilesOf
<1> QED
  BY TypeInvariant, PostInvariant, <1>1, PTL

\* The queue keeps its bound: it is judged again where a job is registered.
LEMMA BoundStep ==
  TypeInv /\ TypeInv' /\ DiskInv /\ QueueBound /\ [Next]_vars => QueueBound'
<1> SUFFICES ASSUME TypeInv, TypeInv', DiskInv, QueueBound, [Next]_vars PROVE QueueBound'
  OBVIOUS
<1>1. /\ IsFiniteSet(Queued) /\ IsFiniteSet(Queued')
      /\ Cardinality(Queued) \in Nat /\ Cardinality(Queued)' \in Nat
  <2>1. Queued \in SUBSET Jobs /\ Queued' \in SUBSET Jobs
    BY DEF Queued, TypeInv, TypeOK
  <2> QED
    BY <2>1, ConstantsAssumption, FS_Subset, FS_CardinalityType
<1>2. ASSUME Queued' \in SUBSET Queued PROVE QueueBound'
  <2>1. Cardinality(Queued)' <= Cardinality(Queued)
    BY <1>1, <1>2, FS_Subset
  <2> QED
    BY <1>1, <2>1, ConstantsAssumption DEF QueueBound
<1>3. CASE UNCHANGED rec /\ known' \subseteq known
  BY <1>2, <1>3 DEF Queued, Status
<1>4. CASE \E ok \in BOOLEAN : \/ DriveExpired(ok) \/ Drive(ok) \/ Fail(ok)
                               \/ \E j \in Jobs : DeleteLive(j, ok)
  <2>1. PICK j \in known : /\ \A k \in Jobs : k # j => rec'[k] = rec[k]
                           /\ rec'[j].status # "queued"
    BY <1>4, MoveEffect DEF Moves
  <2>2. known' = known /\ known \subseteq Jobs
    BY <1>4, MoveEffect DEF TypeInv, TypeOK
  <2> QED
    BY <1>2, <2>1, <2>2 DEF Queued, Status
<1>5. CASE \E ok \in BOOLEAN : Finish(ok)
  <2>1. /\ \A k \in Jobs : k # driver.job => rec'[k] = rec[k]
        /\ rec'[driver.job].status # "queued" /\ known' = known /\ known \subseteq Jobs
    BY <1>5, FinishEffect DEF TypeInv, TypeOK, Status
  <2> QED
    BY <1>2, <2>1 DEF Queued, Status
<1>6. CASE \E j \in Jobs, ok \in BOOLEAN : RestoreJob(j, ok)
  <2>1. PICK j \in Jobs : /\ \A k \in Jobs : k # j => rec'[k] = rec[k]
                          /\ known' = known \cup {j} /\ rec'[j].status \in Ended
    BY <1>6, RestoreEffect DEF Ended
  <2>2. known \subseteq Jobs
    BY DEF TypeInv, TypeOK
  <2> QED
    BY <1>2, <2>1, <2>2 DEF Queued, Status, Ended
<1>7. ASSUME NEW j \in Jobs, NEW ok \in BOOLEAN, Submit(j, ok) PROVE QueueBound'
  <2>1. Cardinality(Queued) < MaxQueue /\ \A k \in Jobs : k # j => rec'[k] = rec[k]
    BY <1>7, SubmitEffect
  <2>2. Queued' \in SUBSET (Queued \cup {j})
    <3>1. known' = known \cup {j} \/ known' = known
      BY <1>7, SubmitEffect
    <3>2. known \subseteq Jobs
      BY DEF TypeInv, TypeOK
    <3> QED
      BY <2>1, <3>1, <3>2 DEF Queued, Status
  <2>3. /\ IsFiniteSet(Queued \cup {j})
        /\ Cardinality(Queued \cup {j}) \in {Cardinality(Queued), Cardinality(Queued) + 1}
    BY <1>1, FS_AddElement
  <2>4. Cardinality(Queued)' <= Cardinality(Queued \cup {j})
    BY <2>2, <2>3, FS_Subset
  <2> QED
    BY <1>1, <2>1, <2>3, <2>4, ConstantsAssumption DEF QueueBound
<1>8. CASE Crash
  BY <1>2, <1>8 DEF Crash, Queued
<1>9. CASE FileStep \/ Sweep \/ Configure \/ RestoreRest \/ Tick \/ Rest \/ UNCHANGED vars
  BY <1>3, <1>9 DEF FileStep, Sweep, SweepExpired, SweepEvict, Forget, SweepOrphans, SweepEnd,
     Configure, RestoreRest, Tick, Rest, vars
<1>10. CASE \/ DriveNothing \/ StartPart \/ RenamePart \/ WorkRaises \/ EndedMeanwhile \/ Clean
            \/ DriverSweep
  BY <1>3, <1>10 DEF DriveNothing, StartPart, RenamePart, WorkRaises, EndedMeanwhile, Clean,
     DriverSweep
<1>11. ASSUME NEW j \in Jobs,
              \/ Arrive(j) \/ Handoff(j) \/ Abandon(j) \/ Begin(j) \/ TakeSweep(j) \/ Take(j)
              \/ WriteInputs(j) \/ Settle(j) \/ SubmitFull(j) \/ SubmitRefused(j)
       PROVE  QueueBound'
  BY <1>3, <1>11 DEF Arrive, Full, Refuse, Leave, Handoff, Abandon, Begin, TakeSweep, Take,
     WriteInputs, Settle, SubmitFull, SubmitRefused
<1>12. ASSUME NEW j \in Jobs, DeleteEnded(j) \/ Serve(j) \/ Sent(j) PROVE QueueBound'
  BY <1>3, <1>12 DEF DeleteEnded, Forget, Serve, Sent
<1> QED
  BY <1>4, <1>5, <1>6, <1>7, <1>8, <1>9, <1>10, <1>11, <1>12 DEF Next, Driving, Restore, PostCall,
     Client

\* The jobs queued never pass the queue's bound, though POSTs check it before
\* their body and all submit after.
THEOREM QueueKeepsBound == Spec => []QueueBound
<1>1. Init => QueueBound
  BY ConstantsAssumption, FS_EmptySet DEF Init, QueueBound, Queued
<1>2. TypeInv /\ TypeInv' /\ DiskInv /\ QueueBound /\ [Next]_vars => QueueBound'
  BY BoundStep
<1> QED
  BY <1>1, <1>2, TypeInvariant, DiskInvariant, PTL DEF Spec

-----------------------------------------------------------------------------
(* The bytes the uploads hold.                                             *)

\* The inputs without the image of a data URL that no job has: the thread of
\* a POST that is over may decode it late, into room no one reserved.
Owed == [j \in Jobs |-> IF j \in Inline /\ ~HasJob(j) THEN 0 ELSE inputs[j]]

\* What a job's upload holds: its reservation, or its inputs.
Weight == [j \in Jobs |-> IF j \in arriving THEN reserved[j] ELSE Owed[j]]
Uploads == Sum(Weight, Jobs)

\* Where every POST is a form, that is what _held counts.
LEMMA FormsOweAll == ASSUME TypeInv, Inline = {} PROVE Owed = inputs
BY DEF TypeInv, TypeOK, Owed

\* They are naturals.
LEMMA UploadTypes ==
  ASSUME TypeInv
  PROVE  \A j \in Jobs : /\ reserved[j] \in Nat /\ inputs[j] \in Nat
                         /\ Owed[j] \in Nat /\ Owed[j] <= inputs[j]
<1> TAKE j \in Jobs
<1>1. reserved \in [Jobs -> 0..2] /\ inputs \in [Jobs -> 0..1]
  BY DEF TypeInv, TypeOK
<1>2. reserved[j] \in 0..2 /\ inputs[j] \in 0..1
  BY <1>1
<1>3. Owed[j] \in {0, inputs[j]}
  BY DEF Owed
<1> QED
  BY <1>2, <1>3

\* Two counts over the two parts of the jobs are one over all of them.
LEMMA TwoCounts ==
  ASSUME NEW A \in SUBSET Jobs, NEW i, NEW r, \A j \in Jobs : i[j] \in Nat /\ r[j] \in Nat,
         NEW both, both = [j \in Jobs |-> IF j \in A THEN r[j] ELSE i[j]]
  PROVE  /\ Size(Jobs \ A, i) + Size(A, r) = Sum(both, Jobs)
         /\ Size(Jobs \ A, i) \in Nat /\ Size(A, r) \in Nat /\ Sum(both, Jobs) \in Nat
<1>1. IsFiniteSet(A) /\ IsFiniteSet(Jobs \ A) /\ IsFiniteSet(Jobs)
  BY ConstantsAssumption, FS_Subset
<1>2. \A j \in Jobs : both[j] \in Nat
  OBVIOUS
<1>3. Sum(both, A) = Sum(r, A) /\ Sum(r, A) \in Nat
  <2>1. \A j \in A : r[j] \in Nat /\ both[j] \in Nat /\ both[j] = r[j]
    OBVIOUS
  <2> QED
    BY <1>1, <2>1, SumSame, SumNat
<1>4. Sum(both, Jobs \ A) = Sum(i, Jobs \ A) /\ Sum(i, Jobs \ A) \in Nat
  <2>1. \A j \in Jobs \ A : i[j] \in Nat /\ both[j] \in Nat /\ both[j] = i[j]
    OBVIOUS
  <2> QED
    BY <1>1, <2>1, SumSame, SumNat
<1>5. Sum(both, Jobs) = Sum(both, Jobs \ A) + Sum(both, A)
  <2>1. (Jobs \ A) \cup A = Jobs /\ (Jobs \ A) \cap A = {}
    OBVIOUS
  <2>2. Sum(both, (Jobs \ A) \cup A) = Sum(both, Jobs \ A) + Sum(both, A)
    BY <1>1, <1>2, <2>1, SumUnion
  <2> QED
    BY <2>1, <2>2
<1>6. Sum(both, Jobs) \in Nat
  BY <1>1, <1>2, SumNat
<1>7. Size(Jobs \ A, i) = Sum(i, Jobs \ A)
  BY DEF Size, Sum
<1>8. Size(A, r) = Sum(r, A)
  BY DEF Size, Sum
<1> QED
  BY <1>3, <1>4, <1>5, <1>6, <1>7, <1>8

\* A count of no larger parts.
LEMMA SmallerCount ==
  ASSUME NEW S \in SUBSET Jobs, NEW f, NEW g,
         \A j \in Jobs : f[j] \in Nat /\ g[j] \in Nat /\ f[j] <= g[j]
  PROVE  Size(S, f) \in Nat /\ Size(S, g) \in Nat /\ Size(S, f) <= Size(S, g)
<1>1. IsFiniteSet(S) /\ \A j \in S : f[j] \in Nat /\ g[j] \in Nat /\ f[j] <= g[j]
  BY ConstantsAssumption, FS_Subset
<1>2. Sum(f, S) \in Nat /\ Sum(g, S) \in Nat /\ Sum(f, S) <= Sum(g, S)
  BY <1>1, SumNat, SumMonotonic
<1>3. Size(S, f) = Sum(f, S) /\ Size(S, g) = Sum(g, S)
  BY DEF Size, Sum
<1> QED
  BY <1>2, <1>3

\* What _held counts of the uploads.
LEMMA UploadsAre ==
  ASSUME TypeInv
  PROVE  /\ Size(Jobs \ arriving, Owed) + Size(arriving, reserved) = Uploads
         /\ Size(Jobs \ arriving, Owed) <= Size(Jobs \ arriving, inputs)
         /\ Size(Jobs \ arriving, inputs) \in Nat
         /\ Size(Jobs \ arriving, Owed) \in Nat /\ Size(arriving, reserved) \in Nat
         /\ Uploads \in Nat /\ \A j \in Jobs : Weight[j] \in Nat
<1>1. arriving \in SUBSET Jobs
  BY DEF TypeInv, TypeOK
<1>2. \A j \in Jobs : /\ Owed[j] \in Nat /\ reserved[j] \in Nat
                      /\ inputs[j] \in Nat /\ Owed[j] <= inputs[j]
  BY UploadTypes
<1>3. Weight = [j \in Jobs |-> IF j \in arriving THEN reserved[j] ELSE Owed[j]]
  BY DEF Weight
<1>4. /\ Size(Jobs \ arriving, Owed) <= Size(Jobs \ arriving, inputs)
      /\ Size(Jobs \ arriving, inputs) \in Nat
  BY <1>1, <1>2, SmallerCount
<1>5. \A j \in Jobs : Weight[j] \in Nat
  BY <1>2, <1>3
<1>6. /\ Size(Jobs \ arriving, Owed) + Size(arriving, reserved) = Sum(Weight, Jobs)
      /\ Size(Jobs \ arriving, Owed) \in Nat /\ Size(arriving, reserved) \in Nat
      /\ Sum(Weight, Jobs) \in Nat
  <2>1. \A j \in Jobs : Owed[j] \in Nat /\ reserved[j] \in Nat
    BY <1>2
  <2> QED
    BY <1>1, <1>3, <2>1, TwoCounts
<1> QED
  BY <1>5, <1>6, <1>4 DEF Uploads

\* And what it counts after a step.
LEMMA UploadsNext ==
  ASSUME TypeInv'
  PROVE  /\ (Size(Jobs \ arriving, Owed) + Size(arriving, reserved))' = Uploads'
         /\ Size(Jobs \ arriving', Owed') <= Size(Jobs \ arriving', inputs')
         /\ Size(Jobs \ arriving', inputs') \in Nat
         /\ Size(Jobs \ arriving', Owed') \in Nat /\ Size(arriving', reserved') \in Nat
         /\ Uploads' \in Nat /\ \A j \in Jobs : Weight'[j] \in Nat
<1>1. arriving' \in SUBSET Jobs
  BY DEF TypeInv, TypeOK
<1>2. \A j \in Jobs : /\ reserved'[j] \in Nat /\ inputs'[j] \in Nat
                      /\ Owed'[j] \in Nat /\ Owed'[j] <= inputs'[j]
  <2> TAKE j \in Jobs
  <2>1. reserved' \in [Jobs -> 0..2] /\ inputs' \in [Jobs -> 0..1]
    BY DEF TypeInv, TypeOK
  <2>2. reserved'[j] \in 0..2 /\ inputs'[j] \in 0..1
    BY <2>1
  <2>3. Owed'[j] \in {0, inputs'[j]}
    BY DEF Owed
  <2> QED
    BY <2>2, <2>3
<1> DEFINE A == arriving'
           i == Owed'
           n == inputs'
           r == reserved'
           both == [j \in Jobs |-> IF j \in A THEN r[j] ELSE i[j]]
<1>3. A \in SUBSET Jobs
  BY <1>1
<1>4. \A j \in Jobs : i[j] \in Nat /\ r[j] \in Nat /\ n[j] \in Nat /\ i[j] <= n[j]
  BY <1>2
<1>5. both = [j \in Jobs |-> IF j \in A THEN r[j] ELSE i[j]]
  OBVIOUS
<1>6. /\ both = Weight' /\ Uploads' = Sum(both, Jobs)
      /\ (Size(Jobs \ arriving, Owed) + Size(arriving, reserved))'
          = Size(Jobs \ A, i) + Size(A, r)
  <2>1. both = Weight'
    BY DEF Weight
  <2>2. Uploads' = Sum(both, Jobs)
    BY <2>1 DEF Uploads
  <2>3. Size(Jobs \ arriving, Owed)' = Size(Jobs \ A, i)
    OBVIOUS
  <2>4. Size(arriving, reserved)' = Size(A, r)
    OBVIOUS
  <2> QED
    BY <2>1, <2>2, <2>3, <2>4
<1> HIDE DEF A, i, n, r, both
<1>7. \A j \in Jobs : both[j] \in Nat
  BY <1>4, <1>5
<1>8. /\ Size(Jobs \ A, i) + Size(A, r) = Sum(both, Jobs) /\ Sum(both, Jobs) \in Nat
      /\ Size(Jobs \ A, i) \in Nat /\ Size(A, r) \in Nat
  BY <1>3, <1>4, <1>5, TwoCounts
<1>9. Size(Jobs \ A, i) <= Size(Jobs \ A, n) /\ Size(Jobs \ A, n) \in Nat
  BY <1>3, <1>4, SmallerCount
<1> QED
  BY <1>6, <1>7, <1>8, <1>9 DEF A, i, n, r

\* No upload holds more than before.
Lighter == \A j \in Jobs : Weight'[j] <= Weight[j]

\* Then they hold no more together.
LEMMA LighterUploads ==
  ASSUME TypeInv, TypeInv', Lighter
  PROVE  Uploads' <= Uploads
<1>1. \A j \in Jobs : Weight[j] \in Nat /\ Weight'[j] \in Nat
  BY UploadsAre, UploadsNext
<1> QED
  BY <1>1, ConstantsAssumption, SumMonotonic DEF Lighter, Uploads

\* No POST queues its job.
NoNewJob == \A j \in Jobs : HasJob(j)' => HasJob(j)

\* Only submit does.
LEMMA OnlySubmitQueues ==
  ASSUME TypeInv, [Next]_vars, ~\E j \in Jobs, ok \in BOOLEAN : Submit(j, ok)
  PROVE  NoNewJob
<1> USE DEF HasJob
<1>0. post \in [Jobs -> PostAt]
  BY DEF TypeInv, TypeOK
<1>1. CASE UNCHANGED post
  BY <1>1 DEF NoNewJob
<1>2. CASE FileStep \/ Configure \/ Driving \/ Restore \/ Tick \/ Rest \/ UNCHANGED vars
  BY <1>1, <1>2 DEF FileStep, Configure, Driving, DriveNothing, StartPart, RenamePart, WorkRaises,
     EndedMeanwhile, Clean, DriverSweep, DriveExpired, Drive, Finish, Fail, Restore, RestoreRest,
     RestoreJob, Tick, Rest, vars
<1>3. CASE Sweep
  <2>1. CASE SweepEnd
    BY <2>1 DEF SweepEnd, NoNewJob
  <2>2. CASE SweepOrphans \/ \E j \in Jobs : SweepExpired(j) \/ SweepEvict(j)
    BY <1>1, <2>2 DEF SweepOrphans, SweepExpired, SweepEvict
  <2> QED
    BY <1>3, <2>1, <2>2 DEF Sweep
<1>4. CASE Crash
  BY <1>4 DEF Crash, NoNewJob
<1>5. ASSUME NEW j \in Jobs, Client(j) PROVE NoNewJob
  BY <1>1, <1>5 DEF Client, DeleteEnded, DeleteLive, Serve, Sent
<1>6. ASSUME NEW j \in Jobs, Arrive(j) \/ PostCall(j) \/ Handoff(j) \/ Abandon(j)
      PROVE  NoNewJob
  <2>1. \/ UNCHANGED post
        \/ \E p \in PostAt : /\ post' = [post EXCEPT ![j] = p]
                             /\ p \in {"handoff", "done"} => post[j] \in {"handoff", "done"}
    <3>1. CASE Arrive(j)
      BY <3>1 DEF Arrive, Full, Refuse, Leave, Goes, PostAt
    <3>2. CASE PostCall(j)
      BY <3>2 DEF PostCall, Begin, TakeSweep, Take, WriteInputs, Settle, SubmitFull, SubmitRefused,
         Goes, CallDone, PostAt
    <3>3. CASE Handoff(j) \/ Abandon(j)
      BY <1>0, <3>3 DEF Handoff, Abandon, PostAt
    <3> QED
      BY <1>6, <3>1, <3>2, <3>3
  <2> QED
    BY <1>0, <1>1, <2>1 DEF NoNewJob
<1> QED
  BY <1>2, <1>3, <1>4, <1>5, <1>6 DEF Next

\* A step that touches no upload.
LEMMA LighterFrame == ASSUME TypeInv, NoNewJob, UNCHANGED <<uploads, inputs>> PROVE Lighter
<1>1. \A j \in Jobs : Weight'[j] <= Weight[j]
  BY UploadTypes DEF Weight, Owed, NoNewJob
<1> QED
  BY <1>1 DEF Lighter

\* A step that removes inputs.
LEMMA LighterRemoves ==
  ASSUME TypeInv, NoNewJob, UNCHANGED uploads,
         \A j \in Jobs : inputs'[j] = inputs[j] \/ inputs'[j] = 0
  PROVE  Lighter
BY UploadTypes DEF Lighter, Weight, Owed, NoNewJob

\* A step that touches one upload.
LEMMA LighterChange ==
  ASSUME TypeInv, NEW j \in Jobs,
         \A k \in Jobs : k # j => /\ inputs'[k] = inputs[k] /\ reserved'[k] = reserved[k]
                                  /\ (k \in arriving') <=> (k \in arriving)
                                  /\ HasJob(k)' => HasJob(k),
         IF j \in arriving' THEN reserved'[j] <= Weight[j] ELSE Owed'[j] <= Weight[j]
  PROVE  Lighter
<1>1. \A k \in Jobs : k # j => Weight'[k] <= Weight[k]
  BY UploadTypes DEF Weight, Owed
<1>2. Weight'[j] <= Weight[j]
  BY DEF Weight
<1> QED
  BY <1>1, <1>2 DEF Lighter

\* The calls of a POST take nothing but its room. An image's thread may write
\* once the POST is over, a form's reader may not.
LEMMA LighterCalls ==
  ASSUME TypeInv, LifeInv, PostInv, NoNewJob, NEW j \in Jobs,
         Begin(j) \/ WriteInputs(j) \/ Settle(j) \/ SubmitFull(j) \/ Abandon(j)
  PROVE  Lighter
<1>1. /\ inputs \in [Jobs -> 0..1] /\ reserved \in [Jobs -> 0..2]
      /\ inputs[j] \in Nat /\ reserved[j] \in Nat
  BY UploadTypes DEF TypeInv, TypeOK
<1>2. /\ PostLife(j) /\ Weight[j] \in Nat
      /\ Weight[j] = IF j \in arriving THEN reserved[j] ELSE Owed[j]
  BY UploadTypes DEF PostInv, Weight
<1>3. /\ j \in arriving => inputs[j] <= reserved[j]
      /\ \A k \in Jobs : HasJob(k)' => HasJob(k)
  BY <1>2 DEF PostLife, NoNewJob
<1>4. CASE Begin(j)
  <2>1. UNCHANGED inputs /\ (UNCHANGED uploads \/ (/\ arriving' = arriving \cup {j}
                                                   /\ reserved' = [reserved EXCEPT ![j] = 0]))
    BY <1>4 DEF Begin
  <2>2. CASE UNCHANGED uploads
    BY <2>1, <2>2, LighterFrame
  <2>3. CASE arriving' = arriving \cup {j} /\ reserved' = [reserved EXCEPT ![j] = 0]
    <3>1. reserved'[j] = 0 /\ \A k \in Jobs : k # j => reserved'[k] = reserved[k]
      BY <1>1, <2>3
    <3> QED
      BY <1>2, <1>3, <2>1, <2>3, <3>1, LighterChange
  <2> QED
    BY <2>1, <2>2, <2>3
<1>5. CASE WriteInputs(j)
  <2>1. UNCHANGED uploads /\ inputs' = [inputs EXCEPT ![j] = 1] /\ post[j] = "write"
    BY <1>5 DEF WriteInputs
  <2>2. j \in arriving \/ Owed'[j] = 0
    <3>1. ~HasJob(j)'
      BY <1>3, <2>1 DEF HasJob
    <3> QED
      BY <1>2, <2>1, <3>1 DEF PostLife, Owed
  <2>3. \A k \in Jobs : k # j => inputs'[k] = inputs[k]
    BY <1>1, <2>1
  <2>4. IF j \in arriving' THEN reserved'[j] <= Weight[j] ELSE Owed'[j] <= Weight[j]
    BY <1>1, <1>2, <2>1, <2>2
  <2> QED
    BY <1>3, <2>1, <2>3, <2>4, LighterChange
<1>6. CASE Settle(j)
  <2>1. UNCHANGED <<arriving, inputs>>
        /\ (reserved' = reserved \/ (j \in arriving /\ reserved' = [reserved EXCEPT ![j] = inputs[j]]))
    BY <1>6 DEF Settle
  <2>2. CASE reserved' = reserved
    BY <2>1, <2>2, LighterFrame
  <2>3. CASE j \in arriving /\ reserved' = [reserved EXCEPT ![j] = inputs[j]]
    <3>1. reserved'[j] = inputs[j] /\ \A k \in Jobs : k # j => reserved'[k] = reserved[k]
      BY <1>1, <2>3
    <3> QED
      BY <1>2, <1>3, <2>1, <2>3, <3>1, LighterChange
  <2> QED
    BY <2>1, <2>2, <2>3
<1>7. CASE SubmitFull(j) \/ Abandon(j)
  <2>1. \/ UNCHANGED <<uploads, inputs>>
        \/ Unreserve(j) /\ inputs' = [inputs EXCEPT ![j] = 0]
    BY <1>7 DEF SubmitFull, Abandon
  <2>2. CASE UNCHANGED <<uploads, inputs>>
    BY <2>2, LighterFrame
  <2>3. CASE Unreserve(j) /\ inputs' = [inputs EXCEPT ![j] = 0]
    <3>1. /\ j \notin arriving' /\ Owed'[j] = 0
          /\ \A k \in Jobs : k # j => /\ inputs'[k] = inputs[k] /\ reserved'[k] = reserved[k]
                                      /\ (k \in arriving') <=> (k \in arriving)
      BY <1>1, <2>3 DEF Unreserve, Owed
    <3> QED
      BY <1>2, <1>3, <3>1, LighterChange
  <2> QED
    BY <2>1, <2>2, <2>3
<1> QED
  BY <1>4, <1>5, <1>6, <1>7

\* A job just queued has its inputs where it had its room.
LEMMA LighterSubmit ==
  ASSUME TypeInv, LifeInv, PostInv, NEW j \in Jobs, NEW ok \in BOOLEAN, Submit(j, ok)
  PROVE  Lighter
<1>1. /\ reserved \in [Jobs -> 0..2] /\ post[j] = "submit" /\ j \notin ended /\ UNCHANGED inputs
      /\ \A k \in Jobs : k # j => post'[k] = post[k]
      /\ \/ post'[j] \in {"abandon", "stopped"} /\ UNCHANGED uploads
         \/ arriving' = arriving \ {j} /\ reserved' = [reserved EXCEPT ![j] = 0]
  BY SubmitEffect DEF TypeInv, TypeOK
<1>2. CASE post'[j] \in {"abandon", "stopped"} /\ UNCHANGED uploads
  <2>1. NoNewJob
    BY <1>1, <1>2 DEF NoNewJob, HasJob
  <2> QED
    BY <1>1, <1>2, <2>1, LighterFrame
<1>3. CASE arriving' = arriving \ {j} /\ reserved' = [reserved EXCEPT ![j] = 0]
  <2>1. \A k \in Jobs : k # j => reserved'[k] = reserved[k] /\ (HasJob(k)' => HasJob(k))
    BY <1>1, <1>3 DEF HasJob
  <2>2. Weight[j] = reserved[j] /\ inputs[j] <= reserved[j]
    BY <1>1 DEF PostInv, PostLife, Weight
  <2>3. Owed'[j] \in {0, inputs[j]}
    BY <1>1 DEF Owed
  <2>4. j \notin arriving' /\ Owed'[j] <= Weight[j]
    BY <1>1, <1>3, <2>2, <2>3, UploadTypes
  <2> QED
    BY <1>1, <1>3, <2>1, <2>4, LighterChange
<1> QED
  BY <1>1, <1>2, <1>3

\* Nothing but taking room makes the uploads hold more.
LEMMA LighterStep ==
  ASSUME TypeInv, LifeInv, PostInv, [Next]_vars
  PROVE  Lighter \/ \E j \in Jobs : Take(j)
<1> SUFFICES ASSUME ~\E j \in Jobs, ok \in BOOLEAN : Submit(j, ok)
             PROVE  Lighter \/ \E j \in Jobs : Take(j)
  BY LighterSubmit
<1>0. NoNewJob /\ inputs \in [Jobs -> 0..1]
  <2>1. NoNewJob
    BY OnlySubmitQueues
  <2> QED
    BY <2>1 DEF TypeInv, TypeOK
<1>1. CASE UNCHANGED <<uploads, inputs>>
  BY <1>1, <1>0, LighterFrame
<1>2. CASE FileStep \/ SweepOrphans \/ \E j \in Jobs : Refuse(j) \/ Leave(j)
  <2>1. UNCHANGED uploads
    BY <1>2 DEF FileStep, SweepOrphans, Refuse, Leave
  <2>2. CASE FileStep
    BY <1>0, <2>1, <2>2, LighterRemoves DEF FileStep
  <2>3. CASE SweepOrphans
    BY <1>0, <2>1, <2>3, LighterRemoves DEF SweepOrphans
  <2>4. ASSUME NEW j \in Jobs, Refuse(j) \/ Leave(j) PROVE Lighter
    <3>1. inputs' = inputs \/ inputs' = [inputs EXCEPT ![j] = 0]
      BY <2>4 DEF Refuse, Leave
    <3> QED
      BY <1>0, <2>1, <3>1, LighterRemoves
  <2> QED
    BY <1>2, <2>2, <2>3, <2>4
<1>3. CASE Crash
  <2>1. arriving' = {} /\ UNCHANGED inputs
    BY <1>3 DEF Crash
  <2>2. \A j \in Jobs : Owed'[j] <= Owed[j] /\ Weight'[j] = Owed'[j]
    BY <1>0, <2>1, UploadTypes DEF Weight, Owed, NoNewJob
  <2>3. \A j \in Jobs : Owed[j] <= Weight[j]
    BY UploadTypes DEF Weight, PostInv, PostLife
  <2>4. \A j \in Jobs : Weight[j] \in Nat /\ Owed[j] \in Nat /\ Weight'[j] \in Int
    BY <2>1, UploadTypes DEF Weight, Owed
  <2> QED
    BY <2>2, <2>3, <2>4 DEF Lighter
<1>4. CASE Sweep \/ Configure \/ Tick \/ Rest \/ UNCHANGED vars
  BY <1>1, <1>2, <1>4 DEF Sweep, SweepExpired, SweepEvict, SweepEnd, Configure, Tick, Rest, vars
<1>5. CASE Driving \/ Restore
  BY <1>1, <1>5 DEF Driving, DriveNothing, StartPart, RenamePart, WorkRaises, EndedMeanwhile,
     Clean, DriverSweep, DriveExpired, Drive, Finish, Fail, Restore, RestoreRest, RestoreJob
<1>6. ASSUME NEW j \in Jobs, Arrive(j) \/ Handoff(j) \/ Abandon(j)
      PROVE  Lighter \/ \E i \in Jobs : Take(i)
  <2>1. CASE Full(j) \/ Handoff(j)
    BY <1>1, <2>1 DEF Full, Handoff
  <2>2. CASE Refuse(j) \/ Leave(j)
    BY <1>2, <2>2
  <2>3. CASE Abandon(j)
    BY <2>3, <1>0, LighterCalls
  <2> QED
    BY <1>6, <2>1, <2>2, <2>3 DEF Arrive
<1>7. ASSUME NEW j \in Jobs, PostCall(j)
      PROVE  Lighter \/ \E i \in Jobs : Take(i)
  BY <1>1, <1>7, <1>0, LighterCalls DEF PostCall, TakeSweep, SubmitRefused
<1>8. ASSUME NEW j \in Jobs, Client(j)
      PROVE  Lighter \/ \E i \in Jobs : Take(i)
  <2>1. CASE DeleteEnded(j) \/ Serve(j) \/ Sent(j)
    BY <1>1, <2>1 DEF DeleteEnded, Serve, Sent
  <2>2. ASSUME NEW ok \in BOOLEAN, DeleteLive(j, ok) PROVE Lighter \/ \E i \in Jobs : Take(i)
    BY <1>1, <2>2 DEF DeleteLive
  <2> QED
    BY <1>8, <2>1, <2>2 DEF Client
<1> QED
  BY <1>2, <1>3, <1>4, <1>5, <1>6, <1>7, <1>8 DEF Next

\* The uploads owed keep the store's bound.
OwedFit == Size(Jobs \ arriving, Owed) + Size(arriving, reserved) <= StoreMax

\* An upload that takes its room fits in what is left of the store.
LEMMA TakeFits ==
  ASSUME TypeInv, TypeInv', LifeInv, PostInv, OwedFit, NEW j \in Jobs, Take(j)
  PROVE  OwedFit'
<1>1. /\ UNCHANGED <<arriving, inputs>> /\ post[j] = "taking"
      /\ \/ UNCHANGED reserved
         \/ /\ j \in arriving /\ RoomFor(j)
            /\ reserved' = [reserved EXCEPT ![j] = @ + Body(j)]
  BY DEF Take
<1>2. Owed' = Owed
  <2>1. post \in [Jobs -> PostAt] /\ \E p \in {"write", "stopped", "abandon"} : post' = [post EXCEPT ![j] = p]
    BY DEF Take, Goes, TypeInv, TypeOK
  <2>2. \A k \in Jobs : HasJob(k)' <=> HasJob(k)
    BY <1>1, <2>1 DEF HasJob
  <2> QED
    BY <1>1, <2>2 DEF Owed
<1>3. CASE UNCHANGED reserved
  <2>1. Uploads' <= Uploads
    <3>1. \A k \in Jobs : Weight'[k] <= Weight[k]
      BY <1>1, <1>3, <1>2, UploadTypes DEF Weight
    <3> QED
      BY <3>1, LighterUploads DEF Lighter
  <2> QED
    <3>1. Uploads <= StoreMax
      BY UploadsAre DEF OwedFit
    <3> QED
      BY <2>1, <3>1, UploadsAre, UploadsNext, ConstantsAssumption DEF OwedFit
<1>4. CASE j \in arriving /\ RoomFor(j) /\ reserved' = [reserved EXCEPT ![j] = @ + Body(j)]
  <2>1. /\ reserved \in [Jobs -> 0..2] /\ reserved[j] \in Nat /\ Body(j) \in {1, 2}
    BY UploadTypes DEF TypeInv, TypeOK, Body
  <2>2. /\ reserved'[j] = reserved[j] + Body(j)
        /\ \A k \in Jobs : k # j => reserved'[k] = reserved[k]
    BY <1>4, <2>1
  <2>3. /\ Weight'[j] = Weight[j] + Body(j)
        /\ \A k \in Jobs \ {j} : Weight'[k] = Weight[k]
        /\ \A k \in Jobs : Weight[k] \in Nat /\ Weight'[k] \in Nat
    BY <1>1, <1>4, <1>2, <2>1, <2>2, UploadTypes DEF Weight
  <2>4. Sum(Weight', Jobs) = Sum(Weight, Jobs) - Weight[j] + Weight'[j]
    BY <2>3, ConstantsAssumption, SumChanged
  <2>5. Uploads' = Uploads + Body(j)
    <3>1. Uploads \in Nat /\ Weight[j] \in Nat
      BY <2>3, UploadsAre
    <3> QED
      BY <2>1, <2>3, <2>4, <3>1 DEF Uploads
  <2>6. Uploads + Body(j) <= StoreMax
    <3> DEFINE c == ClipBytes * (Cardinality(clip) + Cardinality(part) + Cardinality(links \ clip))
    <3>1. c \in Nat
      <4>1. clip \in SUBSET Jobs /\ part \in SUBSET Jobs /\ links \ clip \in SUBSET Jobs
        BY DEF TypeInv, TypeOK
      <4>2. Cardinality(clip) \in Nat /\ Cardinality(part) \in Nat /\ Cardinality(links \ clip) \in Nat
        BY <4>1, ConstantsAssumption, FS_Subset, FS_CardinalityType
      <4> QED
        BY <4>2, ConstantsAssumption
    <3>2. Held = c + Size(Jobs \ arriving, inputs) + Size(arriving, reserved)
      BY DEF Held, HeldIn
    <3> HIDE DEF c
    <3>3. Held + Body(j) <= StoreMax
      BY <1>4 DEF RoomFor
    <3> QED
      BY <2>1, <3>1, <3>2, <3>3, UploadsAre, ConstantsAssumption
  <2> QED
    BY <2>5, <2>6, UploadsNext DEF OwedFit
<1> QED
  BY <1>1, <1>3, <1>4

\* What the uploads arriving and those of jobs hold never passes the store's
\* bound, in whatever order POSTs take room, settle, submit and end: only an
\* image decoded late, for no job, comes on top.
THEOREM OwedAlwaysFits == Spec => []OwedFit
<1>1. Init => OwedFit
  <2> SUFFICES ASSUME Init PROVE OwedFit
    OBVIOUS
  <2>1. TypeInv
    BY TypeInit
  <2>2. \A j \in Jobs : Weight[j] = 0
    BY DEF Init, Weight, Owed
  <2>3. Sum(Weight, Jobs) = 0
    <3> DEFINE zero == [j \in Jobs |-> 0]
    <3>1. Units(Weight, Jobs) = {}
      BY <2>2 DEF Units
    <3>2. Sum(Weight, Jobs) = Cardinality(Units(Weight, Jobs))
      BY <2>2, ConstantsAssumption, SumIsUnits
    <3> QED
      BY <3>1, <3>2, FS_EmptySet
  <2> QED
    BY <2>1, <2>3, UploadsAre, ConstantsAssumption DEF OwedFit, Uploads
<1>2. ASSUME TypeInv, TypeInv', LifeInv, PostInv, OwedFit, [Next]_vars PROVE OwedFit'
  <2>1. CASE Lighter
    <3>1. Uploads' <= Uploads /\ Uploads <= StoreMax
      BY <1>2, <2>1, LighterUploads, UploadsAre DEF OwedFit
    <3> QED
      BY <1>2, <3>1, UploadsAre, UploadsNext, ConstantsAssumption DEF OwedFit
  <2> QED
    BY <1>2, <2>1, LighterStep, TakeFits
<1> QED
  BY <1>1, <1>2, TypeInvariant, LifeInvariant, PostInvariant, PTL DEF Spec

\* Where every POST is a form, nothing comes on top.
THEOREM UploadsAlwaysFit ==
  ASSUME Inline = {}
  PROVE  Spec => []UploadsFit
<1>1. TypeInv /\ OwedFit => UploadsFit
  BY FormsOweAll DEF OwedFit, UploadsFit
<1> QED
  BY <1>1, TypeInvariant, OwedAlwaysFits, PTL

-----------------------------------------------------------------------------
(* The sweep's running total.                                              *)

\* The job the driver makes a clip for, whose files the total may leave out.
Work == IF driver.at # "idle" /\ Status(driver.job) # "completed" THEN {driver.job} ELSE {}

\* The jobs whose clip is on its way out: the total left it out already.
Going == {j \in Jobs : RemovesJob(j) \/ RemovesClip(j)}

\* The clips the total counts, in files/ or only in a link.
Counted == (clip \ (Work \cup Going)) \cup links
Parts == part \ Work
Files == Cardinality(Counted) + Cardinality(Parts)

\* While a sweep evicts, its total is no less than what it counted and what
\* the uploads hold.
HonestInv == sweep.at = "evict" => total \in Int /\ ClipBytes * Files + Uploads <= total

\* A sum of no larger parts.
LEMMA StillBelow ==
  ASSUME NEW f \in Nat, NEW g \in Nat, NEW u \in Nat, NEW v \in Nat, NEW t \in Int,
         g <= f, v <= u, f + u <= t
  PROVE  g + v <= t
OBVIOUS

\* And with one part taken from both sides.
LEMMA OneLess ==
  ASSUME NEW f \in Nat, NEW g \in Nat, NEW b \in Nat, NEW u \in Nat, NEW v \in Nat,
         NEW t \in Int, f = g + b, v <= u, f + u <= t
  PROVE  g + v <= t - b
OBVIOUS

\* The files of two kinds, none of both.
LEMMA TwoKinds ==
  ASSUME NEW S, NEW T, IsFiniteSet(S), IsFiniteSet(T \ S)
  PROVE  /\ IsFiniteSet(S \cup T)
         /\ Cardinality(S \cup T) = Cardinality(S) + Cardinality(T \ S)
<1>1. /\ IsFiniteSet(S \cup (T \ S))
      /\ Cardinality(S \cup (T \ S))
           = Cardinality(S) + Cardinality(T \ S) - Cardinality(S \cap (T \ S))
  BY FS_Union
<1>2. S \cup (T \ S) = S \cup T /\ S \cap (T \ S) = {}
  OBVIOUS
<1>3. Cardinality(S \cap (T \ S)) = 0
  BY <1>2, FS_EmptySet
<1>4. Cardinality(S) \in Nat /\ Cardinality(T \ S) \in Nat
  BY FS_CardinalityType
<1>5. Cardinality(S \cup (T \ S)) = Cardinality(S) + Cardinality(T \ S)
  BY <1>1, <1>3, <1>4
<1>6. IsFiniteSet(S \cup T) /\ Cardinality(S \cup T) = Cardinality(S \cup (T \ S))
  BY <1>1, <1>2
<1> QED
  BY <1>5, <1>6

\* The bytes of more files.
LEMMA MoreFiles ==
  ASSUME NEW m \in Nat, NEW n \in Nat, m <= n
  PROVE  /\ ClipBytes * m \in Nat /\ ClipBytes * n \in Nat
         /\ ClipBytes * m <= ClipBytes * n
<1>1. PICK d \in Nat : n = m + d
  <2>1. n - m \in Nat /\ n = m + (n - m)
    OBVIOUS
  <2> QED
    BY <2>1
<1>2. ClipBytes * n = ClipBytes * m + ClipBytes * d
  BY <1>1, ConstantsAssumption
<1>3. ClipBytes * m \in Nat /\ ClipBytes * n \in Nat /\ ClipBytes * d \in Nat
  BY <1>1, ConstantsAssumption
<1> QED
  BY <1>2, <1>3

\* The bytes of one file more.
LEMMA OneMoreFile ==
  ASSUME NEW n \in Nat
  PROVE  ClipBytes * (n + 1) = ClipBytes * n + ClipBytes
BY ConstantsAssumption

\* What is counted is finite.
LEMMA CountedTypes ==
  ASSUME TypeInv
  PROVE  /\ IsFiniteSet(Counted) /\ Cardinality(Counted) \in Nat
         /\ IsFiniteSet(Parts) /\ Cardinality(Parts) \in Nat /\ Files \in Nat
<1>1. Counted \in SUBSET Jobs /\ Parts \in SUBSET Jobs
  BY DEF TypeInv, TypeOK, Counted, Parts
<1>2. /\ IsFiniteSet(Counted) /\ Cardinality(Counted) \in Nat
      /\ IsFiniteSet(Parts) /\ Cardinality(Parts) \in Nat
  BY <1>1, ConstantsAssumption, FS_Subset, FS_CardinalityType
<1> QED
  BY <1>2 DEF Files

\* A step that adds no file the total counts.
LEMMA FewerFiles ==
  ASSUME TypeInv, Counted' \in SUBSET Counted, Parts' \in SUBSET Parts
  PROVE  /\ Files' \in Nat /\ ClipBytes * Files' \in Nat
         /\ ClipBytes * Files' <= ClipBytes * Files
<1>1. /\ IsFiniteSet(Counted) /\ Cardinality(Counted) \in Nat
      /\ IsFiniteSet(Parts) /\ Cardinality(Parts) \in Nat /\ Files \in Nat
  BY CountedTypes
<1>2. /\ Cardinality(Counted') <= Cardinality(Counted) /\ Cardinality(Counted') \in Nat
      /\ Cardinality(Parts') <= Cardinality(Parts) /\ Cardinality(Parts') \in Nat
  BY <1>1, FS_Subset, FS_CardinalityType
<1>3. Files' \in Nat /\ Files' <= Files
  BY <1>1, <1>2 DEF Files
<1> QED
  BY <1>1, <1>3, MoreFiles

\* A step of a sweep that adds no file and no upload, and keeps the total.
LEMMA HonestFrame ==
  ASSUME TypeInv, TypeInv', HonestInv, Lighter, UNCHANGED sweeping,
         sweep.at = "evict" => Counted' \in SUBSET Counted /\ Parts' \in SUBSET Parts
  PROVE  HonestInv'
<1> SUFFICES ASSUME sweep.at = "evict" PROVE total' \in Int /\ ClipBytes * Files' + Uploads' <= total'
  BY DEF HonestInv
<1>1. ClipBytes * Files' \in Nat /\ ClipBytes * Files' <= ClipBytes * Files
  BY FewerFiles
<1>2. ClipBytes * Files \in Nat
  BY CountedTypes, MoreFiles
<1>3. Uploads \in Nat /\ Uploads' \in Nat /\ Uploads' <= Uploads
  BY UploadsAre, UploadsNext, LighterUploads
<1>4. total \in Int /\ ClipBytes * Files + Uploads <= total
  BY DEF HonestInv
<1>5. total' = total
  OBVIOUS
<1> DEFINE f == ClipBytes * Files
           g == ClipBytes * Files'
<1>6. f \in Nat /\ g \in Nat /\ g <= f /\ f + Uploads <= total
  BY <1>1, <1>2, <1>4
<1>7. total \in Int
  BY <1>4
<1> HIDE DEF f, g
<1>8. g + Uploads' <= total
  BY <1>3, <1>6, <1>7, StillBelow
<1> QED
  BY <1>5, <1>7, <1>8 DEF g

\* The files a sweep that removes one leaves: the total left its clip out.
LEMMA HonestFileStep ==
  ASSUME TypeInv, DiskInv, FileStep
  PROVE  Counted' \in SUBSET Counted /\ Parts' \in SUBSET Parts
<1>1. UNCHANGED <<rec, driver, links>>
  BY FileEffect
<1>2. Work' = Work
  BY <1>1 DEF Work, Status
<1>3. clip' \ Going' \in SUBSET (clip \ Going) /\ part' \in SUBSET part
  <2> SUFFICES ASSUME NEW k \in Jobs, k \in clip', k \notin Going'
               PROVE  k \in clip \ Going
    <3>1. clip' \in SUBSET Jobs /\ part' \in SUBSET part
      BY FileEffect DEF TypeInv, TypeOK
    <3> QED
      BY <3>1
  <2>1. k \in clip
    BY FileEffect
  <2>2. k \notin Going
    <3> SUFFICES ASSUME RemovesJob(k) \/ RemovesClip(k)
                 PROVE  (RemovesJob(k) \/ RemovesClip(k))' \/ k \notin clip'
      BY DEF Going
    <3> QED
      BY FileEffect DEF RemovesJob, RemovesClip, FilesOf
  <2> QED
    BY <2>1, <2>2
<1> QED
  BY <1>1, <1>2, <1>3 DEF Counted, Parts

\* The driver makes a clip while others sweep.
LEMMA HonestDriver ==
  ASSUME TypeInv, LifeInv, StartPart \/ RenamePart \/ WorkRaises
  PROVE  Counted' \in SUBSET Counted /\ Parts' \in SUBSET Parts
<1>1. /\ UNCHANGED <<rec, todo, links>>
      /\ driver.at \in {"run", "mux"} /\ driver'.at # "idle" /\ driver'.job = driver.job
  BY DEF StartPart, RenamePart, WorkRaises, At
<1>2. Status(driver.job) # "completed"
  BY <1>1 DEF LifeInv, DriverWorks
<1>3. Work' = Work /\ Work = {driver.job} /\ Going' = Going
  BY <1>1, <1>2 DEF Work, Status, Going, RemovesJob, RemovesClip
<1>4. part' \ {driver.job} \in SUBSET part /\ clip' \ {driver.job} \in SUBSET clip
  BY DEF StartPart, RenamePart, WorkRaises
<1> QED
  BY <1>1, <1>3, <1>4 DEF Counted, Parts

\* The total after the sweep's second part is what it counts.
LEMMA HonestOrphans ==
  ASSUME TypeInv, TypeInv', SweepOrphans
  PROVE  HonestInv'
<1>1. /\ UNCHANGED <<uploads, links>>
      /\ total' = HeldIn(inputs', clip', part')
  BY DEF SweepOrphans
<1> DEFINE c == Cardinality(clip')
           p == Cardinality(part')
           l == Cardinality(links \ clip')
           n == Cardinality(Counted')
           q == Cardinality(Parts')
           u == Size(Jobs \ arriving, inputs')
           r == Size(arriving, reserved)
           o == Size(Jobs \ arriving, Owed')
<1>2. total' = ClipBytes * (c + p + l) + u + r
  BY <1>1 DEF HeldIn
<1>3. Uploads' \in Nat /\ u \in Nat /\ r \in Nat /\ Uploads' <= u + r
  <2>1. (Size(Jobs \ arriving, Owed) + Size(arriving, reserved))' = o + r
    BY <1>1
  <2>2. o \in Nat /\ u \in Nat /\ r \in Nat /\ o <= u
    BY <1>1, UploadsNext
  <2>3. Uploads' = o + r
    BY <2>1, UploadsNext
  <2> HIDE DEF o, u, r
  <2> QED
    BY <2>2, <2>3
<1>4. n \in Nat /\ q \in Nat /\ c \in Nat /\ p \in Nat /\ l \in Nat /\ n + q <= c + p + l
  <2>1. /\ clip' \in SUBSET Jobs /\ part' \in SUBSET Jobs /\ links \in SUBSET Jobs
        /\ links \ clip' \in SUBSET Jobs
    BY DEF TypeInv, TypeOK
  <2>2. /\ IsFiniteSet(clip') /\ IsFiniteSet(part') /\ IsFiniteSet(links \ clip')
        /\ c \in Nat /\ p \in Nat /\ l \in Nat
    BY <2>1, ConstantsAssumption, FS_Subset, FS_CardinalityType
  <2>4. IsFiniteSet(clip' \cup links) /\ Cardinality(clip' \cup links) = c + l
    BY <2>2, TwoKinds
  <2>5. Counted' \in SUBSET (clip' \cup links) /\ Parts' \in SUBSET part'
    BY <1>1 DEF Counted, Parts
  <2>6. n <= c + l /\ n \in Nat
    BY <2>4, <2>5, FS_Subset, FS_CardinalityType
  <2>7. q <= p /\ q \in Nat
    BY <2>2, <2>5, FS_Subset, FS_CardinalityType
  <2> QED
    BY <2>2, <2>6, <2>7
<1>5. Files' = n + q
  BY DEF Files
<1> HIDE DEF c, p, l, n, q, u, r, o
<1>6. /\ ClipBytes * (n + q) \in Nat /\ ClipBytes * (c + p + l) \in Nat
      /\ ClipBytes * (n + q) <= ClipBytes * (c + p + l)
  <2>1. n + q \in Nat /\ c + p + l \in Nat
    BY <1>4
  <2> QED
    BY <1>4, <2>1, MoreFiles
<1>7. ClipBytes * Files' \in Nat /\ ClipBytes * Files' <= ClipBytes * (c + p + l)
  BY <1>5, <1>6
<1> DEFINE f == ClipBytes * Files'
           g == ClipBytes * (c + p + l)
<1>8. f \in Nat /\ g \in Nat /\ f <= g /\ total' = g + u + r
  BY <1>2, <1>6, <1>7
<1> HIDE DEF f, g
<1>9. total' \in Int /\ f + Uploads' <= total'
  <2>1. u + r \in Nat /\ total' = g + (u + r) /\ total' \in Int /\ g + (u + r) <= total'
    BY <1>3, <1>8
  <2> QED
    BY <1>3, <1>8, <2>1, StillBelow
<1> QED
  BY <1>9 DEF HonestInv, f

\* An eviction takes its clip out of the total, and no clip that is sent.
LEMMA HonestEvict ==
  ASSUME TypeInv, TypeInv', DiskInv, HonestInv, NEW j \in Jobs, SweepEvict(j)
  PROVE  HonestInv'
<1>1. /\ UNCHANGED <<rec, driver, links, clip, part, inputs, uploads>>
      /\ sweep.at = "evict" /\ todo = <<>> /\ todo' = FilesOf(j)
      /\ j \in sweep.done /\ ~Spared(j)
      /\ total' = total - (IF j \in clip THEN ClipBytes ELSE 0)
  BY DEF SweepEvict, Forget
<1>2. Lighter /\ Uploads' <= Uploads /\ Uploads \in Nat /\ Uploads' \in Nat
  <2>1. NoNewJob
    BY DEF SweepEvict, NoNewJob, HasJob
  <2> QED
    BY <1>1, <2>1, LighterFrame, LighterUploads, UploadsAre, UploadsNext
<1>3. Work' = Work /\ j \notin Work /\ (j \in clip => j \notin links)
  <2>1. Status(j) = "completed"
    BY <1>1 DEF DiskInv, DoneAreCompleted
  <2> QED
    BY <1>1, <2>1 DEF Work, Status, Spared, Sending
<1>4. Going = {}
  BY <1>1 DEF Going, RemovesJob, RemovesClip
<1>5. Going' = {j}
  <2>1. (RemovesJob(j) \/ RemovesClip(j))'
    BY <1>1 DEF RemovesJob, FilesOf
  <2>2. ASSUME NEW k \in Jobs, k # j PROVE ~(RemovesJob(k) \/ RemovesClip(k))'
    BY <1>1, <2>2 DEF RemovesJob, RemovesClip, FilesOf
  <2> QED
    BY <2>1, <2>2 DEF Going
<1>6. Parts' = Parts
  BY <1>1, <1>3 DEF Parts
<1>7. CASE j \notin clip
  <2>1. Counted' = Counted /\ UNCHANGED total
    <3>1. Counted' = Counted
      BY <1>1, <1>3, <1>4, <1>5, <1>7 DEF Counted
    <3>2. total \in Int
      BY <1>1 DEF HonestInv
    <3> QED
      BY <1>1, <1>7, <3>1, <3>2
  <2>2. Files' = Files
    BY <1>6, <2>1 DEF Files
  <2>3. ClipBytes * Files \in Nat
    BY CountedTypes, MoreFiles
  <2>4. total \in Int /\ ClipBytes * Files + Uploads <= total
    BY <1>1 DEF HonestInv
  <2>5. ClipBytes * Files + Uploads' <= total
    BY <1>2, <2>3, <2>4, StillBelow
  <2> QED
    BY <2>1, <2>2, <2>4, <2>5 DEF HonestInv
<1>8. CASE j \in clip
  <2>1. Counted' = Counted \ {j} /\ j \in Counted
    BY <1>1, <1>3, <1>4, <1>5, <1>8 DEF Counted
  <2>2. /\ IsFiniteSet(Counted) /\ Cardinality(Counted) \in Nat
        /\ Cardinality(Parts) \in Nat /\ Files \in Nat
    BY CountedTypes
  <2>3. Cardinality(Counted') = Cardinality(Counted) - 1 /\ Cardinality(Counted') \in Nat
    BY <2>1, <2>2, FS_RemoveElement, FS_CardinalityType
  <2>4. Files' \in Nat /\ Files = Files' + 1
    BY <1>6, <2>2, <2>3 DEF Files
  <2>5. ClipBytes * Files = ClipBytes * Files' + ClipBytes
    BY <2>4, OneMoreFile
  <2>6. ClipBytes * Files \in Nat /\ ClipBytes * Files' \in Nat /\ ClipBytes \in Nat
    <3>1. Files' <= Files
      BY <1>6, <2>2, <2>3 DEF Files
    <3> QED
      BY <2>2, <2>4, <3>1, MoreFiles, ConstantsAssumption
  <2>7. total \in Int /\ ClipBytes * Files + Uploads <= total /\ total' = total - ClipBytes
    BY <1>1, <1>8 DEF HonestInv
  <2> DEFINE f == ClipBytes * Files
             g == ClipBytes * Files'
  <2>8. /\ f \in Nat /\ g \in Nat /\ f = g + ClipBytes /\ f + Uploads <= total
    BY <2>5, <2>6, <2>7
  <2>9. total' = total - ClipBytes /\ total \in Int /\ ClipBytes \in Nat
    BY <2>6, <2>7
  <2> HIDE DEF f, g
  <2>10. g + Uploads' <= total - ClipBytes
    BY <1>2, <2>8, <2>9, OneLess
  <2>11. g + Uploads' <= total'
    BY <2>9, <2>10
  <2>12. total' \in Int
    BY <2>9
  <2> QED
    BY <2>11, <2>12 DEF HonestInv, g
<1> QED
  BY <1>7, <1>8

\* Every step keeps the total honest.
LEMMA HonestStep ==
  ASSUME TypeInv, TypeInv', DiskInv, LifeInv, PostInv, HonestInv, [Next]_vars
  PROVE  HonestInv'
<1>1. CASE sweep'.at # "evict"
  BY <1>1 DEF HonestInv
<1>2. CASE sweep.at # "evict" /\ sweep'.at = "evict"
  <2>1. UNCHANGED sweep \/ sweep' = NoSweep \/ sweep'.at = "expired" \/ SweepOrphans
        \/ \E j \in Jobs : SweepEvict(j)
    BY DEF Next, vars, FileStep, Sweep, SweepExpired, SweepEnd, Configure,
       StartSweep, Tick, Crash, Rest, Driving, DriveNothing, StartPart, RenamePart,
       WorkRaises, EndedMeanwhile, Clean, DriverSweep, DriveExpired, Drive, Finish, Fail,
       Restore, RestoreRest, RestoreJob, Arrive, Full, Refuse, Leave, PostCall, Begin,
       TakeSweep, Take, WriteInputs, Settle, SubmitFull, SubmitRefused, Submit, Handoff,
       Abandon, Client, DeleteEnded, DeleteLive, Serve, Sent
  <2> QED
    BY <1>2, <2>1, HonestOrphans DEF SweepEvict, NoSweep
<1>3. CASE sweep.at = "evict" /\ sweep'.at = "evict"
  <2>1. ~Free
    BY <1>3 DEF Free
  <2>2. server = "up"
    BY <1>3 DEF DiskInv, RestoreIsAlone, NoSweep, TypeInv, TypeOK
  <2>3. Lighter
    <3>1. ~\E j \in Jobs : Take(j)
      BY <2>1 DEF Take
    <3> QED
      BY <3>1, LighterStep
  <2>4. CASE FileStep
    <3>1. UNCHANGED sweeping
      BY <2>4 DEF FileStep
    <3> QED
      BY <2>3, <2>4, <3>1, HonestFileStep, HonestFrame
  <2>5. CASE StartPart \/ RenamePart \/ WorkRaises
    <3>1. UNCHANGED sweeping
      BY <2>5 DEF StartPart, RenamePart, WorkRaises
    <3> QED
      BY <2>3, <2>5, <3>1, HonestDriver, HonestFrame
  <2>6. ASSUME NEW j \in Jobs, SweepEvict(j) PROVE HonestInv'
    BY <2>6, HonestEvict
  <2>7. CASE UNCHANGED <<sweeping, rec, driver, todo, clip, part>> /\ links' \in SUBSET links
    <3>1. Work' = Work /\ Going' = Going
      BY <2>7 DEF Work, Status, Going, RemovesJob, RemovesClip
    <3>2. Counted' \in SUBSET Counted /\ Parts' \in SUBSET Parts
      BY <2>7, <3>1 DEF Counted, Parts
    <3> QED
      BY <2>3, <2>7, <3>2, HonestFrame
  <2>8. CASE \/ UNCHANGED vars
             \/ \E j \in Jobs : \/ WriteInputs(j) \/ Refuse(j) \/ SubmitRefused(j)
                                \/ Handoff(j) \/ Leave(j) \/ Sent(j)
    BY <2>7, <2>8 DEF vars, WriteInputs, Refuse, SubmitRefused, Handoff, Leave, Sent
  <2>9. CASE \/ SweepOrphans \/ SweepEnd \/ Configure \/ Restore \/ Tick \/ Crash
             \/ \E j \in Jobs : SweepExpired(j)
    BY <1>3, <2>1, <2>2, <2>9 DEF SweepOrphans, SweepEnd, Configure, Restore, RestoreRest,
       RestoreJob, Tick, Crash, SweepExpired, NoSweep
  <2>10. CASE \/ DriveNothing \/ EndedMeanwhile \/ Clean \/ DriverSweep \/ Rest
              \/ \E ok \in BOOLEAN : DriveExpired(ok) \/ Drive(ok) \/ Finish(ok) \/ Fail(ok)
    BY <2>1, <2>10 DEF DriveNothing, EndedMeanwhile, Clean, DriverSweep, Rest, DriveExpired,
       Drive, Finish, Fail
  <2>11. ASSUME NEW j \in Jobs,
                \/ Full(j) \/ Begin(j) \/ TakeSweep(j) \/ Take(j) \/ Settle(j) \/ SubmitFull(j)
                \/ Abandon(j) \/ DeleteEnded(j) \/ Serve(j)
                \/ \E ok \in BOOLEAN : Submit(j, ok) \/ DeleteLive(j, ok)
         PROVE  FALSE
    BY <2>1, <2>11 DEF Full, Begin, TakeSweep, Take, Settle, SubmitFull, Abandon, DeleteEnded,
       Serve, Submit, DeleteLive
  <2> QED
    BY <2>4, <2>5, <2>6, <2>8, <2>9, <2>10, <2>11 DEF Next, Sweep, Driving, Arrive, PostCall,
       Client
<1> QED
  BY <1>1, <1>2, <1>3

\* An honest total is no less than what the store holds, the driver's own
\* file and a late image aside.
OwedIsCounted ==
  sweep.at = "evict" /\ todo = <<>> =>
    HeldIn(Owed, clip \ {driver.job}, part \ {driver.job}) <= total

\* What an honest total is above.
LEMMA HonestTotal == ASSUME TypeInv, HonestInv PROVE OwedIsCounted
<1> DEFINE C == clip \ {driver.job}
           P == part \ {driver.job}
<1> SUFFICES ASSUME sweep.at = "evict", todo = <<>> PROVE HeldIn(Owed, C, P) <= total
  BY DEF OwedIsCounted
<1>1. Going = {}
  BY DEF Going, RemovesJob, RemovesClip
<1>2. C \cup links \in SUBSET Counted /\ P \in SUBSET Parts
  BY <1>1 DEF Counted, Parts, Work
<1>3. /\ C \in SUBSET Jobs /\ P \in SUBSET Jobs /\ links \ C \in SUBSET Jobs
  BY DEF TypeInv, TypeOK
<1> HIDE DEF C, P
<1>4. /\ IsFiniteSet(C) /\ IsFiniteSet(P) /\ IsFiniteSet(links \ C)
  BY <1>3, ConstantsAssumption, FS_Subset
<1>5. /\ Cardinality(C) \in Nat /\ Cardinality(P) \in Nat /\ Cardinality(links \ C) \in Nat
  BY <1>4, FS_CardinalityType
<1>6. /\ Cardinality(C \cup links) = Cardinality(C) + Cardinality(links \ C)
  BY <1>4, TwoKinds
<1>7. /\ IsFiniteSet(Counted) /\ Cardinality(Counted) \in Nat
      /\ IsFiniteSet(Parts) /\ Cardinality(Parts) \in Nat /\ Files \in Nat
  BY CountedTypes
<1>8. Cardinality(C \cup links) <= Cardinality(Counted) /\ Cardinality(P) <= Cardinality(Parts)
  BY <1>2, <1>7, FS_Subset
<1> DEFINE n == Cardinality(C) + Cardinality(P) + Cardinality(links \ C)
<1>9. n \in Nat /\ n <= Files
  BY <1>5, <1>6, <1>7, <1>8 DEF Files
<1>10. HeldIn(Owed, C, P)
         = ClipBytes * n + Size(Jobs \ arriving, Owed) + Size(arriving, reserved)
  BY DEF HeldIn
<1> HIDE DEF n
<1>11. /\ ClipBytes * n \in Nat /\ ClipBytes * Files \in Nat /\ ClipBytes * n <= ClipBytes * Files
  BY <1>7, <1>9, MoreFiles
<1>12. total \in Int /\ ClipBytes * Files + Uploads <= total
  BY DEF HonestInv
<1>13. /\ Size(Jobs \ arriving, Owed) + Size(arriving, reserved) = Uploads
       /\ Size(Jobs \ arriving, Owed) \in Nat /\ Size(arriving, reserved) \in Nat
       /\ Uploads \in Nat
  BY UploadsAre
<1>14. ClipBytes * n + Uploads <= total
  BY <1>11, <1>12, <1>13, StillBelow
<1> DEFINE g == ClipBytes * n
<1>15. g \in Nat /\ g + Uploads <= total /\ total \in Int
       /\ HeldIn(Owed, C, P) = g + Size(Jobs \ arriving, Owed) + Size(arriving, reserved)
  BY <1>10, <1>11, <1>12, <1>14
<1> HIDE DEF g
<1> QED
  BY <1>13, <1>15

\* While a sweep evicts, no eviction is counted that freed nothing, though
\* the driver writes and renames a clip meanwhile, answers end and images of
\* no job are decoded late.
THEOREM OwedStaysCounted == Spec => []OwedIsCounted
<1>1. Init => HonestInv
  BY DEF Init, HonestInv, NoSweep
<1>2. /\ TypeInv /\ TypeInv' /\ DiskInv /\ LifeInv /\ PostInv /\ HonestInv /\ [Next]_vars
      => HonestInv'
  BY HonestStep
<1>3. TypeInv /\ HonestInv => OwedIsCounted
  BY HonestTotal
<1> QED
  BY <1>1, <1>2, <1>3, TypeInvariant, DiskInvariant, LifeInvariant, PostInvariant, PTL DEF Spec

\* Where every POST is a form, the total is no less than all the store holds,
\* the driver's own file aside.
THEOREM TotalStaysHonest ==
  ASSUME Inline = {}
  PROVE  Spec => []TotalIsHonest
<1>1. TypeInv /\ OwedIsCounted => TotalIsHonest
  BY FormsOweAll DEF OwedIsCounted, TotalIsHonest
<1> QED
  BY <1>1, TypeInvariant, OwedStaysCounted, PTL

-----------------------------------------------------------------------------
(* Whose clips the store keeps.                                            *)

\* The clip of no job: a new server's first sweep takes it.
Orphan(j) ==
  /\ j \notin known /\ j \notin arriving
  /\ server = "restore" \/ (sweep.by = "configure" /\ sweep.at = "expired")

\* A clip has a record with a status in E, or is the driver's, or on its way
\* out.
OwnedClip(j, E) ==
  \/ record[j].status \in E
  \/ /\ driver.job = j /\ driver.at \in {"finish", "fail", "clean"}
     /\ Status(j) # "completed"
  \/ RemovesJob(j) \/ RemovesClip(j) \/ Orphan(j)

\* The driver waits for the sweep it started.
DriverSweeps == sweep.by = "driver" => driver.at = "sweeping"

\* After a crash a clip may have the record of a job that failed.
ClipInv(E) ==
  /\ "completed" \in E /\ E \subseteq Ended /\ (server = "up" \/ E = Ended)
  /\ DriverSweeps /\ \A j \in clip : OwnedClip(j, E)

\* No clip is an orphan while the store's lock is free.
LEMMA NoOrphan ==
  ASSUME server = "up", sweep = NoSweep \/ sweep.at = "evict", NEW j
  PROVE  ~Orphan(j)
  BY DEF Orphan, NoSweep

\* A step that leaves the records, the removals and the driver alone.
LEMMA ClipFrame ==
  ASSUME NEW E, ClipInv(E), UNCHANGED <<server, rec, record, todo, driver>>,
         clip' \in SUBSET clip,
         sweep'.by \in {sweep.by, "configure", "nobody"} \cup Jobs,
         \A j \in clip' : Orphan(j) => Orphan(j)'
  PROVE  ClipInv(E)'
<1>1. \A j \in clip' : OwnedClip(j, E)'
  BY DEF ClipInv, OwnedClip, RemovesJob, RemovesClip, Status
<1>2. DriverSweeps'
  BY ConstantsAssumption DEF ClipInv, DriverSweeps
<1> QED
  BY <1>1, <1>2 DEF ClipInv

\* A step of a free store that may change the record of one job.
LEMMA ClipChange ==
  ASSUME NEW E, TypeInv, ClipInv(E), todo = <<>>, sweep = NoSweep, UNCHANGED <<server, clip, sweep>>,
         NEW j \in Jobs, j \in clip => OwnedClip(j, E)',
         \A k \in Jobs : k # j => rec'[k] = rec[k] /\ record'[k] = record[k],
         driver' = driver \/ driver.at = "idle" \/ driver.job = j,
         known' \subseteq known \cup {j}, arriving' \subseteq arriving
  PROVE  ClipInv(E)'
<1>1. clip \in SUBSET Jobs
  BY DEF TypeInv, TypeOK
<1>2. \A k \in clip : ~RemovesJob(k) /\ ~RemovesClip(k)
  BY DEF RemovesJob, RemovesClip
<1>3. ASSUME NEW k \in clip, k # j PROVE OwnedClip(k, E)'
  <2>1. k \in Jobs /\ rec'[k] = rec[k] /\ record'[k] = record[k]
    BY <1>1, <1>3
  <2>2. Orphan(k) => Orphan(k)'
    BY <1>3 DEF Orphan
  <2> QED
    BY <1>2, <1>3, <2>1, <2>2 DEF ClipInv, OwnedClip, Status
<1>4. DriverSweeps'
  BY DEF DriverSweeps, NoSweep
<1> QED
  BY <1>3, <1>4 DEF ClipInv

\* What the driver renames it finishes, or fails and cleans up.
LEMMA ClipDriver ==
  ASSUME NEW E, TypeInv, DiskInv, LifeInv, ClipInv(E),
         \/ StartPart \/ RenamePart \/ WorkRaises \/ EndedMeanwhile \/ DriverSweep
  PROVE  ClipInv(E)'
<1>1. /\ UNCHANGED <<server, rec, record, todo>> /\ driver'.job = driver.job
      /\ clip' \in SUBSET (clip \cup {driver.job})
  BY DEF StartPart, RenamePart, WorkRaises, EndedMeanwhile, DriverSweep, At
<1>2. /\ driver.job \in Jobs /\ Status(driver.job) \in {"in_progress"} \cup Ended
      /\ driver.at \in {"run", "mux", "finish", "fail", "sweep"}
      /\ driver.at # "sweep" => Status(driver.job) # "completed"
  <2>1. driver.at \in {"run", "mux", "finish", "fail", "sweep"}
    BY DEF StartPart, RenamePart, WorkRaises, EndedMeanwhile, DriverSweep
  <2> QED
    BY <2>1 DEF LifeInv, DriverWorks, TypeInv, DriverHasJob
<1>3. DriverSweeps'
  <2>1. CASE DriverSweep
    BY <2>1 DEF DriverSweep, At, DriverSweeps
  <2>2. CASE StartPart \/ RenamePart \/ WorkRaises \/ EndedMeanwhile
    <3>1. UNCHANGED sweep
      BY <2>2 DEF StartPart, RenamePart, WorkRaises, EndedMeanwhile
    <3> QED
      BY <1>2, <3>1 DEF ClipInv, DriverSweeps
  <2> QED
    BY <2>1, <2>2
<1>4. ASSUME NEW j, Orphan(j) PROVE Orphan(j)'
  <2>1. ~DriverSweep
    BY <1>4, FreeMeans, NoOrphan DEF DriverSweep
  <2>2. UNCHANGED <<server, known, arriving, sweep>>
    BY <2>1 DEF StartPart, RenamePart, WorkRaises, EndedMeanwhile, memory, uploads, sweeping
  <2> QED
    BY <1>4, <2>2 DEF Orphan
<1>5. ASSUME NEW j \in clip', j # driver.job PROVE OwnedClip(j, E)'
  BY <1>1, <1>5, <1>4 DEF ClipInv, OwnedClip, RemovesJob, RemovesClip, Status
<1>6. ASSUME driver.job \in clip' PROVE OwnedClip(driver.job, E)'
  <2>1. PICK d \in Jobs : d = driver.job
    BY <1>2
  <2>2. CASE d \in clip /\ (\/ record[d].status \in E
                            \/ RemovesJob(d) \/ RemovesClip(d) \/ Orphan(d))
    BY <1>1, <1>4, <2>1, <2>2 DEF OwnedClip, RemovesJob, RemovesClip
  <2>3. CASE d \in clip /\ driver.at \in {"finish", "fail"} /\ EndedMeanwhile
    BY <1>1, <1>2, <2>1, <2>3 DEF EndedMeanwhile, At, OwnedClip, Status
  <2>4. CASE RenamePart /\ driver'.at \in {"finish", "fail"}
    BY <1>1, <1>2, <2>1, <2>4 DEF RenamePart, OwnedClip, Status
  <2>5. CASE d \in clip /\ ~EndedMeanwhile /\ ~RenamePart
    <3>1. OwnedClip(d, E) /\ driver.at \in {"run", "mux", "sweep"}
      BY <1>2, <2>5 DEF ClipInv, StartPart, WorkRaises, DriverSweep
    <3> QED
      BY <2>2, <2>5, <3>1, <2>1 DEF OwnedClip
  <2>6. RenamePart => driver'.at \in {"finish", "fail"}
    BY DEF RenamePart, At
  <2>7. RenamePart \/ clip' = clip
    BY DEF StartPart, WorkRaises, EndedMeanwhile, DriverSweep
  <2>8. EndedMeanwhile => driver.at \in {"finish", "fail"}
    BY DEF EndedMeanwhile
  <2>9. CASE RenamePart
    BY <2>1, <2>4, <2>6, <2>9
  <2>10. CASE ~RenamePart
    <3>1. d \in clip
      BY <1>6, <2>1, <2>7, <2>10
    <3> QED
      BY <2>1, <2>3, <2>5, <2>8, <2>10, <3>1
  <2> QED
    BY <2>9, <2>10
<1> QED
  BY <1>1, <1>3, <1>5, <1>6 DEF ClipInv

\* The cleanup takes the clip of a job that did not complete, before the
\* driver goes on.
LEMMA ClipClean ==
  ASSUME NEW E, TypeInv, DiskInv, LifeInv, ClipInv(E), Clean
  PROVE  ClipInv(E)'
<1>1. /\ UNCHANGED <<server, rec, record, clip, sweep>>
      /\ driver.at = "clean" /\ driver' = [at |-> "sweep", job |-> driver.job]
      /\ Free /\ todo' = Leftovers(driver.job)
  BY DEF Clean, At
<1>2. todo = <<>> /\ sweep = NoSweep
  BY <1>1, FreeMeans
<1>3. PICK d \in Jobs : d = driver.job
  BY <1>1 DEF TypeInv, DriverHasJob
<1>4. ASSUME NEW j \in clip PROVE OwnedClip(j, E)'
  <2>1. OwnedClip(j, E) /\ ~RemovesJob(j) /\ ~RemovesClip(j) /\ ~Orphan(j)
    BY <1>1, <1>2, FreeMeans, NoOrphan DEF ClipInv, RemovesJob, RemovesClip
  <2>2. CASE record[j].status \in E
    BY <1>1, <2>2 DEF OwnedClip
  <2>3. CASE j = d /\ Status(d) # "completed"
    <3>1. todo' = <<<<"inputs", j>>, <<"clip", j>>, <<"part", j>>>>
      BY <1>1, <1>3, <2>3 DEF Leftovers
    <3> QED
      BY <3>1 DEF OwnedClip, RemovesClip
  <2> QED
    BY <1>3, <2>1, <2>2, <2>3 DEF OwnedClip
<1>5. DriverSweeps'
  BY <1>1, <1>2 DEF DriverSweeps, NoSweep
<1> QED
  BY <1>1, <1>4, <1>5 DEF ClipInv

\* A job forgotten loses its record before its clip.
LEMMA ClipForgets ==
  ASSUME NEW E, TypeInv, DiskInv, ClipInv(E), NEW j \in Jobs, SweepExpired(j) \/ SweepEvict(j) \/ DeleteEnded(j)
  PROVE  ClipInv(E)'
<1>1. /\ UNCHANGED <<server, rec, record, clip, driver>> /\ sweep'.by = sweep.by
      /\ todo = <<>> /\ todo' = FilesOf(j)
      /\ known' \subseteq known /\ UNCHANGED arriving
      /\ sweep' = sweep \/ sweep.at = "evict"
  BY DEF SweepExpired, SweepEvict, DeleteEnded, Forget, Free, TypeInv, TypeOK, uploads, sweeping
<1>2. ASSUME NEW k \in clip PROVE OwnedClip(k, E)'
  <2>1. OwnedClip(k, E) /\ ~RemovesJob(k) /\ ~RemovesClip(k)
    BY <1>1 DEF ClipInv, RemovesJob, RemovesClip
  <2>2. Orphan(k) => Orphan(k)'
    <3>1. CASE sweep' = sweep
      BY <1>1, <3>1 DEF Orphan
    <3>2. CASE sweep.at = "evict"
      <4>1. server = "up"
        BY <3>2 DEF DiskInv, RestoreIsAlone, NoSweep, TypeInv, TypeOK
      <4> QED
        BY <3>2, <4>1, NoOrphan
    <3> QED
      BY <1>1, <3>1, <3>2
  <2> QED
    BY <1>1, <2>1, <2>2 DEF OwnedClip, Status
<1>3. DriverSweeps'
  BY <1>1 DEF ClipInv, DriverSweeps
<1> QED
  BY <1>1, <1>2, <1>3 DEF ClipInv

\* One removal.
LEMMA ClipFileStep ==
  ASSUME NEW E, TypeInv, DiskInv, ClipInv(E), FileStep
  PROVE  ClipInv(E)'
<1>1. UNCHANGED <<server, rec, driver, sweep, known, arriving>>
  BY FileEffect DEF uploads, sweeping
<1>2. clip \in SUBSET Jobs /\ record \in [Jobs -> [status : Statuses, expires : Nat]]
  BY DEF TypeInv, TypeOK
<1>3. ASSUME NEW k \in clip' PROVE OwnedClip(k, E)'
  <2>1. k \in clip
    BY <1>3, FileEffect
  <2>2. k \in Jobs /\ OwnedClip(k, E)
    BY <1>2, <2>1 DEF ClipInv
  <2>3. CASE RemovesJob(k) \/ RemovesClip(k)
    <3>1. (RemovesJob(k) \/ RemovesClip(k))' \/ k \notin clip'
      BY <2>3, FileEffect DEF RemovesJob, RemovesClip, FilesOf
    <3> QED
      BY <1>3, <3>1 DEF OwnedClip
  <2>4. CASE ~RemovesJob(k) /\ ~RemovesClip(k)
    <3>1. record'[k] = record[k]
      <4>1. record' = record \/ \E j \in Jobs : /\ RemovesJob(j)
                                                /\ record' = [record EXCEPT ![j] = NoRecord]
        BY FileEffect DEF RemovesJob
      <4> QED
        BY <1>2, <2>2, <2>4, <4>1
    <3> QED
      BY <1>1, <2>2, <2>4, <3>1 DEF OwnedClip, Orphan, Status
  <2> QED
    BY <2>3, <2>4
<1>4. DriverSweeps'
  BY <1>1 DEF ClipInv, DriverSweeps
<1> QED
  BY <1>1, <1>3, <1>4 DEF ClipInv

\* A job that starts, fails or is cancelled has no completed record.
LEMMA ClipMoves ==
  ASSUME NEW E, TypeInv, DiskInv, LifeInv, ClipInv(E), NEW ok \in BOOLEAN,
         DriveExpired(ok) \/ Drive(ok) \/ Fail(ok) \/ \E j \in Jobs : DeleteLive(j, ok)
  PROVE  ClipInv(E)'
<1>1. /\ UNCHANGED <<server, clip, sweep, known, arriving>>
      /\ server = "up" /\ todo = <<>> /\ sweep = NoSweep
  BY MoveEffect DEF uploads, sweeping
<1>2. PICK j \in known, s \in {"in_progress", "failed", "cancelled"} : Moves(j, s)
  BY MoveEffect
<1>3. j \in Jobs
  BY DEF TypeInv, TypeOK
<1>4. record[j].status \notin E
  BY <1>2, <1>3 DEF Moves, LifeInv, JobLife, Ended, ClipInv
<1>5. ASSUME j \in clip PROVE OwnedClip(j, E)'
  <2>1. OwnedClip(j, E) /\ ~RemovesJob(j) /\ ~RemovesClip(j) /\ ~Orphan(j)
    BY <1>1, <1>5, NoOrphan DEF ClipInv, RemovesJob, RemovesClip
  <2>2. driver.job = j /\ driver.at \in {"finish", "fail", "clean"}
    BY <1>4, <2>1 DEF OwnedClip
  <2>3. driver'.job = j /\ driver'.at \in {"finish", "fail", "clean"}
    BY <1>2, <2>2 DEF Moves
  <2> QED
    BY <1>2, <2>3 DEF Moves, OwnedClip, Status
<1> QED
  BY <1>1, <1>2, <1>3, <1>5, ClipChange DEF Moves

\* A job that completes has its record, or its clip is the driver's still.
LEMMA ClipFinish ==
  ASSUME NEW E, TypeInv, DiskInv, LifeInv, ClipInv(E), NEW ok \in BOOLEAN, Finish(ok)
  PROVE  ClipInv(E)'
<1>1. /\ UNCHANGED <<server, clip, sweep, known, arriving>> /\ todo = <<>> /\ sweep = NoSweep
      /\ driver.at = "finish" /\ Status(driver.job) = "in_progress"
  BY FinishEffect DEF uploads, sweeping
<1>2. PICK d \in Jobs : d = driver.job
  BY <1>1 DEF TypeInv, DriverHasJob
<1>3. OwnedClip(d, E)'
  BY <1>1, <1>2, FinishEffect DEF ClipInv, OwnedClip, Status
<1>4. \A k \in Jobs : k # d => rec'[k] = rec[k] /\ record'[k] = record[k]
  BY <1>2, FinishEffect
<1> QED
  BY <1>1, <1>2, <1>3, <1>4, ClipChange

\* A job just queued has no clip yet.
LEMMA ClipSubmit ==
  ASSUME NEW E, TypeInv, DiskInv, LifeInv, ClipInv(E), NEW j \in Jobs, NEW ok \in BOOLEAN, Submit(j, ok)
  PROVE  ClipInv(E)'
<1>1. /\ UNCHANGED <<server, clip, sweep, driver>>
      /\ server = "up" /\ todo = <<>> /\ sweep = NoSweep /\ post[j] = "submit"
      /\ known' \subseteq known \cup {j} /\ arriving' \subseteq arriving
      /\ \A k \in Jobs : k # j => rec'[k] = rec[k] /\ record'[k] = record[k]
  BY SubmitEffect DEF uploads, sweeping
<1>2. record[j].status = "none" /\ Status(j) = "none"
  BY <1>1 DEF LifeInv, JobLife, HasJob
<1>3. j \notin clip
  <2>1. ~RemovesJob(j) /\ ~RemovesClip(j) /\ ~Orphan(j)
    BY <1>1, NoOrphan DEF RemovesJob, RemovesClip
  <2>2. ~(driver.job = j /\ driver.at \in {"finish", "fail", "clean"})
    BY <1>2 DEF LifeInv, DriverWorks, Ended
  <2> QED
    BY <1>2, <2>1, <2>2 DEF ClipInv, OwnedClip, Ended
<1> QED
  BY <1>1, <1>3, ClipChange

\* A crash leaves every clip to the restart.
LEMMA ClipCrash == ASSUME ClipInv(Ended), Crash PROVE ClipInv(Ended)'
<1>1. \A j : Orphan(j)'
  BY DEF Crash, Orphan
<1>2. DriverSweeps'
  BY DEF Crash, DriverSweeps, NoSweep
<1> QED
  BY <1>1, <1>2 DEF ClipInv, OwnedClip

\* A job read at a restart had ended, or its clip goes.
LEMMA ClipRestoreJob ==
  ASSUME TypeInv, DiskInv, ClipInv(Ended), NEW j \in Jobs, NEW ok \in BOOLEAN, RestoreJob(j, ok)
  PROVE  ClipInv(Ended)'
<1>1. /\ UNCHANGED <<server, clip, sweep, driver>> /\ todo = <<>> /\ sweep = NoSweep
      /\ \A k \in Jobs : k # j => rec'[k] = rec[k] /\ record'[k] = record[k]
      /\ known' \subseteq known \cup {j} /\ arriving' \subseteq arriving
  BY RestoreEffect DEF uploads, sweeping
<1>2. OwnedClip(j, Ended)'
  <2>1. CASE record[j].status \in Ended /\ UNCHANGED record
    BY <2>1 DEF OwnedClip
  <2>2. CASE todo' = <<<<"clip", j>>, <<"part", j>>>>
    BY <2>2 DEF OwnedClip, RemovesClip
  <2> QED
    BY <2>1, <2>2, RestoreEffect
<1> QED
  BY <1>1, <1>2, ClipChange

\* The clips no record names are the first sweep's.
LEMMA ClipRestoreRest ==
  ASSUME TypeInv, DiskInv, ClipInv(Ended), RestoreRest
  PROVE  ClipInv(Ended)'
<1>1. /\ UNCHANGED <<rec, record, todo, driver, clip, known, arriving>>
      /\ sweep' = [by |-> "configure", at |-> "expired", done |-> {}] /\ server' = "up"
  BY DEF RestoreRest, StartSweep, memory, uploads
<1>2. \A j : Orphan(j) => Orphan(j)'
  BY <1>1 DEF Orphan
<1>3. \A j \in clip' : OwnedClip(j, Ended)'
  BY <1>1, <1>2 DEF ClipInv, OwnedClip, RemovesJob, RemovesClip, Status
<1>4. DriverSweeps'
  BY <1>1 DEF DriverSweeps
<1> QED
  BY <1>1, <1>3, <1>4 DEF ClipInv

\* The end of a sweep, which has taken the orphans.
LEMMA ClipSweepEnd ==
  ASSUME NEW E, TypeInv, DiskInv, ClipInv(E), SweepEnd
  PROVE  ClipInv(E)'
<1>1. /\ UNCHANGED <<server, rec, record, todo, clip>> /\ sweep' = NoSweep
      /\ driver' = (IF sweep.by = "driver" THEN Idle ELSE driver) /\ sweep.at = "evict"
  BY DEF SweepEnd, memory
<1>2. server = "up"
  BY <1>1 DEF DiskInv, RestoreIsAlone, NoSweep, TypeInv, TypeOK
<1>3. ASSUME NEW j \in clip PROVE OwnedClip(j, E)'
  <2>1. OwnedClip(j, E) /\ ~Orphan(j)
    BY <1>1, <1>2, NoOrphan DEF ClipInv
  <2>2. CASE sweep.by = "driver"
    BY <1>1, <2>1, <2>2 DEF ClipInv, DriverSweeps, OwnedClip, RemovesJob, RemovesClip
  <2>3. CASE sweep.by # "driver"
    BY <1>1, <2>1, <2>3 DEF OwnedClip, RemovesJob, RemovesClip, Status
  <2> QED
    BY <2>2, <2>3
<1> QED
  BY <1>1, <1>3 DEF ClipInv, DriverSweeps, NoSweep

\* The sweep takes the clips of no job.
LEMMA ClipSweepOrphans ==
  ASSUME NEW E, TypeInv, ClipInv(E), SweepOrphans
  PROVE  ClipInv(E)'
<1>1. /\ UNCHANGED <<server, rec, record, todo, driver>>
      /\ clip' \in SUBSET clip /\ clip' \in SUBSET (known \cup arriving)
  BY DEF SweepOrphans, memory
<1>2. sweep'.by = sweep.by
  BY DEF SweepOrphans, TypeInv, TypeOK
<1>3. \A j \in clip' : ~Orphan(j)
  BY <1>1 DEF Orphan
<1> QED
  BY <1>1, <1>2, <1>3, ClipFrame

\* A new sweep finds no orphan, and no other step of a POST touches one.
LEMMA ClipRests ==
  ASSUME NEW E, TypeInv, ClipInv(E),
         \/ Configure \/ Tick \/ Rest \/ UNCHANGED vars \/ DriveNothing
         \/ \E j \in Jobs : \/ Arrive(j) \/ Handoff(j) \/ Abandon(j) \/ Begin(j) \/ TakeSweep(j)
                            \/ Take(j) \/ WriteInputs(j) \/ Settle(j) \/ SubmitFull(j)
                            \/ SubmitRefused(j) \/ Serve(j) \/ Sent(j)
  PROVE  ClipInv(E)'
<1>1. CASE Configure \/ Tick \/ Rest \/ UNCHANGED vars \/ DriveNothing
  <2>1. /\ UNCHANGED <<server, rec, record, todo, driver, clip, known, arriving>>
        /\ UNCHANGED sweep \/ (Free /\ sweep'.by = "configure")
    BY <1>1 DEF Configure, StartSweep, Tick, Rest, vars, DriveNothing, memory, uploads, sweeping,
       disk
  <2>2. ASSUME NEW j, Orphan(j) PROVE Orphan(j)'
    BY <2>1, <2>2, FreeMeans, NoOrphan DEF Orphan
  <2> QED
    BY <2>1, <2>2, ClipFrame
<1>2. ASSUME NEW j \in Jobs,
             \/ Arrive(j) \/ Handoff(j) \/ Abandon(j) \/ Begin(j) \/ TakeSweep(j) \/ Take(j)
             \/ WriteInputs(j) \/ Settle(j) \/ SubmitFull(j) \/ SubmitRefused(j)
             \/ Serve(j) \/ Sent(j)
      PROVE  ClipInv(E)'
  <2>1. UNCHANGED <<server, rec, record, todo, driver, clip>>
    BY <1>2 DEF Arrive, Full, Refuse, Leave, Handoff, Abandon, Begin, TakeSweep, Take,
       WriteInputs, Settle, SubmitFull, SubmitRefused, Serve, Sent
  <2>2. sweep'.by \in {sweep.by} \cup Jobs
    BY <1>2 DEF Arrive, Full, Refuse, Leave, Handoff, Abandon, Begin, TakeSweep, StartSweep, Take,
       WriteInputs, Settle, SubmitFull, SubmitRefused, Serve, Sent
  <2>3. Free \/ UNCHANGED <<known, arriving, sweep>>
    BY <1>2 DEF Arrive, Full, Refuse, Leave, Handoff, Abandon, Begin, TakeSweep, Take,
       WriteInputs, Settle, SubmitFull, SubmitRefused, Serve, Sent, memory, uploads, sweeping
  <2>4. ASSUME NEW k, Orphan(k) PROVE Orphan(k)'
    BY <2>1, <2>3, <2>4, FreeMeans, NoOrphan DEF Orphan
  <2> QED
    BY <2>1, <2>2, <2>4, ClipFrame
<1> QED
  BY <1>1, <1>2

\* Every step keeps ClipInv for the records that say a job ended; where the
\* server never crashes, for those that say it completed.
LEMMA ClipStep ==
  ASSUME NEW E, TypeInv, DiskInv, LifeInv, ClipInv(E), MaxCrashes = 0 \/ E = Ended, [Next]_vars
  PROVE  ClipInv(E)'
<1>1. CASE Crash
  <2>1. E = Ended
    BY <1>1 DEF Crash, TypeInv, TypeOK
  <2> QED
    BY <1>1, <2>1, ClipCrash
<1>2. CASE Restore
  <2>1. E = Ended
    BY <1>2 DEF ClipInv, Restore, RestoreRest, RestoreJob
  <2> QED
    BY <1>2, <2>1, ClipRestoreJob, ClipRestoreRest DEF Restore
<1>3. CASE FileStep
  BY <1>3, ClipFileStep
<1>4. CASE Sweep
  BY <1>4, ClipForgets, ClipSweepOrphans, ClipSweepEnd DEF Sweep
<1>5. CASE Driving
  BY <1>5, ClipRests, ClipDriver, ClipClean, ClipMoves, ClipFinish DEF Driving
<1>6. ASSUME NEW j \in Jobs, PostCall(j) PROVE ClipInv(E)'
  BY <1>6, ClipRests, ClipSubmit DEF PostCall
<1>7. ASSUME NEW j \in Jobs, Client(j) PROVE ClipInv(E)'
  BY <1>7, ClipRests, ClipForgets, ClipMoves DEF Client
<1>8. CASE \/ Configure \/ Tick \/ Rest \/ UNCHANGED vars
           \/ \E j \in Jobs : Arrive(j) \/ Handoff(j) \/ Abandon(j)
  BY <1>8, ClipRests
<1> QED
  BY <1>1, <1>2, <1>3, <1>4, <1>5, <1>6, <1>7, <1>8 DEF Next

\* However often the server crashes, a clip has the record of a job that
\* ended, so that it goes when the record expires, or the driver has it at
\* hand.
THEOREM ClipsHaveRecords == Spec => []ClipHasRecord
<1>1. Init => ClipInv(Ended)
  BY DEF Init, ClipInv, DriverSweeps, NoSweep, Ended
<1>2. TypeInv /\ DiskInv /\ LifeInv /\ ClipInv(Ended) /\ [Next]_vars => ClipInv(Ended)'
  BY ClipStep
<1>3. TypeInv /\ ClipInv(Ended) => ClipHasRecord
  BY FreeMeans, NoOrphan DEF ClipInv, OwnedClip, ClipHasRecord, Free, RemovesJob, RemovesClip
<1> QED
  BY <1>1, <1>2, <1>3, TypeInvariant, DiskInvariant, LifeInvariant, PTL DEF Spec

\* A server that never crashed keeps no clip but of a completed job and of
\* the job the driver has at hand.
THEOREM ClipsAreOwned ==
  ASSUME MaxCrashes = 0
  PROVE  Spec => []ClipIsOwned
<1> DEFINE E == {"completed"}
<1>1. Init => ClipInv(E)
  BY DEF Init, ClipInv, DriverSweeps, NoSweep, Ended
<1>2. TypeInv /\ DiskInv /\ LifeInv /\ ClipInv(E) /\ [Next]_vars => ClipInv(E)'
  BY ClipStep
<1>3. TypeInv /\ ClipInv(E) => ClipIsOwned
  BY FreeMeans, NoOrphan DEF ClipInv, OwnedClip, ClipIsOwned, Free, RemovesJob, RemovesClip
<1> QED
  BY <1>1, <1>2, <1>3, TypeInvariant, DiskInvariant, LifeInvariant, PTL DEF Spec

=============================================================================
