----------------------------- MODULE EngineJobs -----------------------------
(***************************************************************************)
(* Jobs that ride a model's engine thread (serve/engine_jobs.py), and the  *)
(* stop of that thread. A caller queues its job among the chat requests.   *)
(* An autoregressive engine (_run_impl) takes the job out of the queue and *)
(* runs one step of one job per turn; a diffusion engine (_run_diffusion)  *)
(* runs it in place of a generation.                                       *)
(*                                                                         *)
(* A chat request is served or fails in turns the module EngineTick        *)
(* models; here it takes a row and gives it back, or keeps it for ever.    *)
(* Left out: the Metal and rope state a step restores (_step_scope), the   *)
(* cancel of a diffusion job by its uid, which no caller of the lane sends.*)
(***************************************************************************)
EXTENDS Integers, Sequences, FiniteSets, Selections

CONSTANTS
  Jobs, Chats,
  Steps,      \* Steps[j]: the forwards job j yields after
  Deadlines,  \* the jobs whose caller gave a timeout
  MaxSeqs,    \* --max-num-seqs
  None        \* the sentinel of stop_and_join

ASSUME JobsAssumption ==
  /\ Jobs \cap Chats = {} /\ None \notin Jobs \cup Chats
  /\ Steps \in [Jobs -> Nat] /\ Deadlines \subseteq Jobs /\ MaxSeqs \in Nat \ {0}

VARIABLES
  diffusion,  \* which loop the engine runs
  requests,   \* ResponseGenerator.requests
  stopping,   \* stop_and_join: "no", "flag" once _stop is set, "put" once None is
  caller,     \* caller[j]: where run_on_engine stands
  stop,       \* the jobs whose stop event is set
  told,       \* told[j]: what was put on j's rqueue
  left,       \* left[j]: the yields its generator has left
  open,       \* the jobs that have begun and neither returned nor were closed
  jobs,       \* _kq_step_jobs
  arrived,    \* the step jobs of this turn; all of new_items on a diffusion engine
  newcomers,  \* the chat requests of this turn
  active,     \* the chat requests with a row
  quit,       \* should_stop
  pc,         \* where the engine's loop stands
  sent,       \* the chats queued
  late,       \* history: the jobs queued once _stop was set
  overtaken   \* history: the engine ended before None was put

callers == <<caller, stop>>
engine == <<told, left, open, jobs, arrived, newcomers, active, quit>>
vars == <<diffusion, requests, stopping, callers, engine, pc, sent, late, overtaken>>

Init ==
  /\ diffusion \in BOOLEAN /\ requests = <<>> /\ stopping = "no"
  /\ caller = [j \in Jobs |-> "new"] /\ stop = {} /\ told = [j \in Jobs |-> <<>>]
  /\ left = Steps /\ open = {} /\ jobs = <<>> /\ arrived = <<>>
  /\ newcomers = <<>> /\ active = {} /\ quit = FALSE /\ pc = "check"
  /\ sent = {} /\ late = {} /\ overtaken = FALSE

-----------------------------------------------------------------------------
(* The request threads.                                                    *)

\* run_on_engine up to its wait for the context.
Submit(j) ==
  /\ caller[j] = "new"
  /\ caller' = [caller EXCEPT ![j] = "context"]
  /\ requests' = Append(requests, j)
  /\ late' = IF stopping = "no" THEN late ELSE late \cup {j}
  /\ UNCHANGED <<diffusion, stopping, stop, engine, pc, sent, overtaken>>

\* The context came: the deadline runs from here.
GetContext(j) ==
  /\ caller[j] = "context" /\ told[j] # <<>>
  /\ caller' = [caller EXCEPT ![j] = "result"]
  /\ UNCHANGED <<diffusion, requests, stopping, stop, engine, pc, sent, late, overtaken>>

GetResult(j) ==
  /\ caller[j] = "result" /\ Len(told[j]) > 1
  /\ caller' = [caller EXCEPT ![j] = "answered"]
  /\ UNCHANGED <<diffusion, requests, stopping, stop, engine, pc, sent, late, overtaken>>

\* The deadline passed: the caller sets the job's stop event and leaves.
TimeOut(j) ==
  /\ j \in Deadlines /\ caller[j] = "result" /\ Len(told[j]) = 1
  /\ caller' = [caller EXCEPT ![j] = "timed out"] /\ stop' = stop \cup {j}
  /\ UNCHANGED <<diffusion, requests, stopping, engine, pc, sent, late, overtaken>>

\* The client went away: its route sets the stop event, the caller waits on.
Disconnect(j) ==
  /\ caller[j] \in {"context", "result"} /\ j \notin stop
  /\ stop' = stop \cup {j}
  /\ UNCHANGED <<diffusion, requests, stopping, caller, engine, pc, sent, late, overtaken>>

SubmitChat(c) ==
  /\ c \notin sent /\ sent' = sent \cup {c}
  /\ requests' = Append(requests, c)
  /\ UNCHANGED <<diffusion, stopping, callers, engine, pc, late, overtaken>>

\* stop_and_join: the flag, then the sentinel.
SetStop ==
  /\ stopping = "no" /\ stopping' = "flag"
  /\ UNCHANGED <<diffusion, requests, callers, engine, pc, sent, late, overtaken>>

PutSentinel ==
  /\ stopping = "flag" /\ stopping' = "put"
  /\ requests' = Append(requests, None)
  /\ UNCHANGED <<diffusion, callers, engine, pc, sent, late, overtaken>>

-----------------------------------------------------------------------------
(* A step of a job.                                                        *)

Tell(j, item) == told' = [told EXCEPT ![j] = Append(@, item)]

\* The generator yields.
Proceeds(j) ==
  /\ j \notin stop /\ left[j] > 0
  /\ left' = [left EXCEPT ![j] = @ - 1] /\ UNCHANGED <<told, open>>

\* The job returns, raises or is closed once its stop event is seen: one set in
\* the step itself may not be.
Answers(j) ==
  (IF left[j] = 0 THEN {"value", "error"} ELSE {"error"}) \cup
  (IF j \in stop THEN {"cancelled"} ELSE {})
Finishes(j) ==
  /\ \E item \in Answers(j) : Tell(j, item)
  /\ open' = open \ {j} /\ UNCHANGED left

-----------------------------------------------------------------------------
(* The loop of an autoregressive engine.                                   *)

\* What s has of S, in its order (a set of one sequence).
Among(s, S) == Selections(s, {i \in DOMAIN s : s[i] \in S})

\* The loop's condition.
Check ==
  /\ pc = "check" /\ ~diffusion
  /\ IF stopping # "no" /\ active = {} /\ requests = <<>>
     THEN pc' = "ended" /\ overtaken' = (stopping = "flag")
     ELSE pc' = "take" /\ UNCHANGED overtaken
  /\ UNCHANGED <<diffusion, requests, stopping, callers, engine, sent, late>>

\* Mutant: a job waits in the queue as a chat request does.
TakeNothing ==
  /\ pc = "take" /\ pc' = "advance"
  /\ UNCHANGED <<diffusion, requests, stopping, callers, engine, sent, late, overtaken>>

\* _take_queued: the step jobs leave the queue, whatever stands before them.
Take ==
  /\ pc = "take" /\ pc' = "advance"
  /\ arrived' \in Among(requests, Jobs) /\ requests' \in Among(requests, Chats \cup {None})
  /\ UNCHANGED <<diffusion, stopping, callers, told, left, open, jobs, newcomers, active,
                 quit, sent, late, overtaken>>

\* Mutant: the job is queued again whether or not it has finished.
AdvanceAll ==
  /\ pc = "advance" /\ pc' = "collect"
  /\ IF jobs = <<>> THEN UNCHANGED <<told, left, open, jobs>>
     ELSE /\ Proceeds(Head(jobs)) \/ Finishes(Head(jobs))
          /\ jobs' = Append(Tail(jobs), Head(jobs))
  /\ UNCHANGED <<diffusion, requests, stopping, callers, arrived, newcomers, active, quit,
                 sent, late, overtaken>>

\* One step of the job whose turn it is.
Advance ==
  /\ pc = "advance" /\ pc' = "collect"
  /\ \/ jobs = <<>> /\ UNCHANGED <<told, left, open, jobs>>
     \/ /\ jobs # <<>>
        /\ \/ Proceeds(Head(jobs)) /\ jobs' = Append(Tail(jobs), Head(jobs))
           \/ Finishes(Head(jobs)) /\ jobs' = Tail(jobs)
  /\ UNCHANGED <<diffusion, requests, stopping, callers, arrived, newcomers, active, quit,
                 sent, late, overtaken>>

\* A drain of room requests consumes n of the queue q. None, which does not
\* count, ends it at the head and is passed over behind another request.
Consumes(q, room, n) ==
  LET real(m) == Cardinality({i \in 1..m : q[i] # None}) IN
  IF room = 0 \/ q = <<>> THEN n = 0
  ELSE IF Head(q) = None THEN n = 1
  ELSE IF real(Len(q)) < room THEN n = Len(q)
  ELSE real(n) = room /\ real(n - 1) < room

\* Takes n of the queue, as a drain of room requests does.
Drain(room, n) ==
  /\ Consumes(requests, room, n)
  /\ requests' = SubSeq(requests, n + 1, Len(requests))
  /\ quit' = (n > 0 /\ Head(requests) = None)

Room == IF Cardinality(active) < MaxSeqs THEN MaxSeqs - Cardinality(active) ELSE 0

\* Mutant: what the drain took is put among the jobs unsorted.
CollectUnsorted ==
  /\ pc = "collect" /\ ~diffusion /\ pc' = "start"
  /\ \E n \in 0..Len(requests) :
       /\ Drain(Room, n)
       /\ \E more \in Among(SubSeq(requests, 1, n), Jobs \cup Chats) :
            arrived' = arrived \o more
       /\ newcomers' \in Among(SubSeq(requests, 1, n), Chats)
  /\ UNCHANGED <<diffusion, stopping, callers, told, left, open, jobs, active, sent, late,
                 overtaken>>

\* The original _collect_pending_requests, with the jobs sorted out of it.
Collect ==
  /\ pc = "collect" /\ ~diffusion /\ pc' = "start"
  /\ \E n \in 0..Len(requests) :
       /\ Drain(Room, n)
       /\ \E more \in Among(SubSeq(requests, 1, n), Jobs) : arrived' = arrived \o more
       /\ newcomers' \in Among(SubSeq(requests, 1, n), Chats)
  /\ UNCHANGED <<diffusion, stopping, callers, told, left, open, jobs, active, sent, late,
                 overtaken>>

\* _start of each arrival; making the generator of a job in bad raises.
Start(bad) ==
  /\ pc = "start" /\ pc' = "halt"
  /\ bad \subseteq Elems(arrived) \ stop
  /\ told' = [j \in Jobs |->
                IF j \notin Elems(arrived) THEN told[j]
                ELSE IF j \in stop THEN told[j] \o <<"context", "cancelled">>
                ELSE IF j \in bad THEN told[j] \o <<"context", "error">>
                ELSE Append(told[j], "context")]
  /\ LET fresh == Elems(arrived) \ (stop \cup bad) IN
     /\ \E more \in Among(arrived, fresh) : jobs' = jobs \o more
     /\ open' = open \cup fresh
  /\ arrived' = <<>>
  /\ UNCHANGED <<diffusion, requests, stopping, callers, left, newcomers, active, quit,
                 sent, late, overtaken>>

\* A stopping engine fails its jobs; it ends at the sentinel when no row runs.
Halt ==
  /\ pc = "halt"
  /\ IF stopping = "no" THEN UNCHANGED <<told, open, jobs>>
     ELSE /\ told' = [j \in Jobs |->
                        IF j \in Elems(jobs) THEN Append(told[j], "stopped") ELSE told[j]]
          /\ open' = open \ Elems(jobs) /\ jobs' = <<>>
  /\ pc' = IF quit /\ active = {} THEN "ended" ELSE "tick"
  /\ UNCHANGED <<diffusion, requests, stopping, callers, left, arrived, newcomers, active,
                 quit, sent, late, overtaken>>

\* The rest of the turn: the newcomers take rows, and any row may end.
Tick ==
  /\ pc = "tick" /\ pc' = "check"
  /\ active' \in SUBSET (active \cup Elems(newcomers)) /\ newcomers' = <<>>
  /\ UNCHANGED <<diffusion, requests, stopping, callers, told, left, open, jobs, arrived,
                 quit, sent, late, overtaken>>

-----------------------------------------------------------------------------
(* The loop of a diffusion engine: one request at a time.                  *)

CheckDiffusion ==
  /\ pc = "check" /\ diffusion
  /\ pc' = IF stopping # "no" THEN "ended" ELSE "collect"
  /\ UNCHANGED <<diffusion, requests, stopping, callers, engine, sent, late, overtaken>>

\* new_items is all of the queue.
CollectDiffusion ==
  /\ pc = "collect" /\ diffusion
  /\ \E n \in 0..Len(requests) :
       /\ Drain(Len(requests) + 1, n)
       /\ arrived' \in Among(SubSeq(requests, 1, n), Jobs \cup Chats)
  /\ pc' = IF quit' THEN "ended" ELSE "serve"
  /\ UNCHANGED <<diffusion, stopping, callers, told, left, open, jobs, newcomers, active,
                 sent, late, overtaken>>

\* The next request: a generation, or a job that begins or never runs.
Serve ==
  /\ pc = "serve"
  /\ \/ arrived = <<>> /\ pc' = "check" /\ UNCHANGED <<told, open, arrived>>
     \/ /\ arrived # <<>> /\ Head(arrived) \in Chats
        /\ arrived' = Tail(arrived) /\ UNCHANGED <<told, open, pc>>
     \/ /\ arrived # <<>> /\ Head(arrived) \in Jobs
        /\ LET j == Head(arrived) IN
           IF j \in stop
           THEN /\ told' = [told EXCEPT ![j] = @ \o <<"context", "cancelled">>]
                /\ arrived' = Tail(arrived) /\ UNCHANGED <<open, pc>>
           ELSE /\ Tell(j, "context") /\ open' = open \cup {j}
                /\ pc' = "run" /\ UNCHANGED arrived
  /\ UNCHANGED <<diffusion, requests, stopping, callers, left, jobs, newcomers, active, quit,
                 sent, late, overtaken>>

\* The wrapped _generate_diffusion: the job owns the engine and polls.
Run ==
  /\ pc = "run"
  /\ \/ Proceeds(Head(arrived)) /\ UNCHANGED <<arrived, pc>>
     \/ Finishes(Head(arrived)) /\ arrived' = Tail(arrived) /\ pc' = "serve"
  /\ UNCHANGED <<diffusion, requests, stopping, callers, jobs, newcomers, active, quit, sent,
                 late, overtaken>>

-----------------------------------------------------------------------------
Engine ==
  \/ Check \/ Take \/ Advance \/ Collect \/ Halt \/ Tick
  \/ \E bad \in SUBSET Elems(arrived) : Start(bad)
  \/ CheckDiffusion \/ CollectDiffusion \/ Serve \/ Run

Reads(j) == GetContext(j) \/ GetResult(j)

Next ==
  \/ Engine \/ SetStop \/ PutSentinel
  \/ \E j \in Jobs : Submit(j) \/ Reads(j) \/ TimeOut(j) \/ Disconnect(j)
  \/ \E c \in Chats : SubmitChat(c)

\* A thread that can run does; a timeout that runs out ends its wait.
Fairness ==
  /\ WF_vars(Engine) /\ WF_vars(PutSentinel)
  /\ \A j \in Jobs : WF_vars(Reads(j)) /\ WF_vars(TimeOut(j))

Spec == Init /\ [][Next]_vars /\ Fairness

-----------------------------------------------------------------------------
(* Properties.                                                             *)

Items == {"context", "value", "error", "cancelled", "stopped"}

\* Every variable keeps its type (the lane's and the loop's state).
TypeOK ==
  /\ diffusion \in BOOLEAN /\ requests \in Seq(Jobs \cup Chats \cup {None})
  /\ stopping \in {"no", "flag", "put"}
  /\ caller \in [Jobs -> {"new", "context", "result", "answered", "timed out"}]
  /\ stop \subseteq Jobs /\ told \in [Jobs -> Seq(Items)] /\ left \in [Jobs -> Nat]
  /\ open \subseteq Jobs /\ jobs \in Seq(Jobs) /\ arrived \in Seq(Jobs \cup Chats)
  /\ newcomers \in Seq(Chats) /\ active \subseteq Chats /\ quit \in BOOLEAN
  /\ pc \in {"check", "take", "advance", "collect", "start", "halt", "tick", "serve", "run",
             "ended"}
  /\ sent \subseteq Chats /\ late \subseteq Jobs /\ overtaken \in BOOLEAN

\* A job is answered at most once, after its context, and then neither runs
\* nor waits for a turn, whoever ended it: itself, its stop event or the stop
\* of the engine.
AnswerEndsJob ==
  \A j \in Jobs :
    /\ Len(told[j]) <= 2
    /\ j \in open \/ j \in Elems(jobs) => Len(told[j]) = 1

\* What the stop of the engine leaves waiting: on a diffusion engine what was
\* queued; on another what was queued behind the stop, and, when the loop's
\* condition saw the flag before the sentinel, the jobs in turn.
LeftByStop(j) ==
  /\ pc = "ended"
  /\ \/ j \in Elems(requests) /\ (diffusion \/ j \in late)
     \/ j \in Elems(jobs) /\ overtaken

\* Every caller ends its wait, with chat rows that never end and the batch full
\* (run_on_engine waits for its context without a deadline), but the callers
\* that the stop of the engine leaves.
EveryCallerEnds ==
  <>[](\A j \in Jobs : caller[j] \in {"new", "answered", "timed out"} \/ LeftByStop(j))
=============================================================================
