------------------------------ MODULE VideoJob ------------------------------
(***************************************************************************)
(* What POST /v1/videos promises of a job: it is queued, runs, ends once   *)
(* and keeps the end it came to until it is removed; a job removed never   *)
(* comes back. A restart fails what had not ended, and may fail a cancel   *)
(* that never reached the disk; a completed job stays completed.           *)
(***************************************************************************)
CONSTANT Jobs

VARIABLE job

Ends == {"completed", "failed", "cancelled"}
States == {"none", "queued", "in_progress", "gone"} \cup Ends

Init == job = [j \in Jobs |-> "none"]

Submit(j) == job[j] = "none" /\ job' = [job EXCEPT ![j] = "queued"]
Start(j) == job[j] = "queued" /\ job' = [job EXCEPT ![j] = "in_progress"]
Complete(j) == job[j] = "in_progress" /\ job' = [job EXCEPT ![j] = "completed"]
Stop(j, s) ==
  /\ job[j] \in {"queued", "in_progress"}
  /\ job' = [job EXCEPT ![j] = s]
Remove(j) == job[j] \in Ends /\ job' = [job EXCEPT ![j] = "gone"]

Restart(S) ==
  /\ \A j \in S : job[j] \in {"queued", "in_progress", "cancelled"}
  /\ job' = [j \in Jobs |-> IF j \in S THEN "failed" ELSE job[j]]

Next ==
  \/ \E j \in Jobs :
       \/ Submit(j) \/ Start(j) \/ Complete(j) \/ Remove(j)
       \/ \E s \in {"failed", "cancelled"} : Stop(j, s)
  \/ \E S \in SUBSET Jobs : Restart(S)

Spec == Init /\ [][Next]_job
=============================================================================
