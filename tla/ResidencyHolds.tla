--------------------------- MODULE ResidencyHolds ---------------------------
(***************************************************************************)
(* A model in use stays in the pool, for every set of threads and models:  *)
(* the in-flight counts are the holds, an eviction takes only what no one  *)
(* but a preload holds, and so the pool implements ModelPool. Below, what  *)
(* the workers' queues and the build lock cannot do to each other: no one  *)
(* waits on a worker under the build lock, and a cold load never runs out  *)
(* of attempts.                                                            *)
(***************************************************************************)
EXTENDS ResidencyProofs, SequenceTheorems

USE DEF pool, bytes, refs, Goto

-----------------------------------------------------------------------------
(* A thread never asks for a model it holds.                               *)

Asking(t) ==
  /\ call[t].op = "acquire"
  /\ \/ pc[t] \in {"reserve", "queue", "locked", "tear", "refit"}
     \/ pc[t] = "leave" /\ call[t].then = "retry"

AskInv == \A t \in Threads : Asking(t) => call[t].m \notin holds[t]

\* A step of t leaves the others' requests and holds alone.
OthersAsk(t) ==
  \A u \in Threads \ {t} :
    pc'[u] = pc[u] /\ call'[u] = call[u] /\ holds'[u] = holds[u]

\* A step of t that asks for nothing new.
AsksNoMore(t) ==
  Asking(t)' => Asking(t) /\ call'[t].m = call[t].m /\ holds'[t] = holds[t]

\* A step that leaves the others' requests alone and asks for nothing new
\* keeps AskInv.
LEMMA AskKept ==
  ASSUME AskInv, NEW t \in Threads, OthersAsk(t), AsksNoMore(t)
  PROVE  AskInv'
  BY DEF AskInv, OthersAsk, AsksNoMore, Asking

\* A client asks acquire for a model it does not hold already.
LEMMA ClientAsk ==
  ASSUME CoreInv, AskInv, NEW t \in Threads, Client(t)
  PROVE  AskInv'
<1> USE DEF CoreInv, TypeOK, CallType, RefsType
<1> PICK m \in Models :
      \/ AcquireHit(t, m) \/ AcquireMiss(t, m) \/ UseWorker(t, m)
      \/ MarkRetained(t, m) \/ Release(t, m)
      \/ \E op \in UnloadOps, past \in SUBSET Models : Unload(t, op, m, past)
  BY DEF Client
<1>0. CallOK(t)
  BY DEF CallInv
<1>1. CASE \/ AcquireHit(t, m) \/ UseWorker(t, m)
           \/ MarkRetained(t, m) \/ Release(t, m)
  <2>1. pc[t] = "idle" /\ UNCHANGED <<pc, call>>
    BY <1>1 DEF AcquireHit, UseWorker, MarkRetained, Release, MayAcquire, MayCall
  <2>2. OthersAsk(t)
    BY <1>1, <2>1 DEF OthersAsk, AcquireHit, TakeHit, UseWorker, MarkRetained, Release
  <2>3. AsksNoMore(t)
    BY <2>1 DEF AsksNoMore, Asking
  <2> QED
    BY <2>2, <2>3, AskKept
<1>2. CASE AcquireMiss(t, m)
  <2> DEFINE d == [NoCall(m) EXCEPT !.op = "acquire", !.n = Price[m]]
  <2>1. d.m = m
    BY DEF NoCall
  <2>2. /\ call' = [call EXCEPT ![t] = d] /\ pc' = [pc EXCEPT ![t] = "reserve"]
        /\ holds' = holds /\ m \notin holds[t]
    BY <1>2 DEF AcquireMiss, MayAcquire
  <2> HIDE DEF d
  <2> QED
    BY <2>1, <2>2 DEF AskInv, Asking
<1>3. CASE \E op \in UnloadOps, past \in SUBSET Models : Unload(t, op, m, past)
  <2> PICK op \in UnloadOps, past \in SUBSET Models : Unload(t, op, m, past)
    BY <1>3
  <2> DEFINE picked == CASE op = "evict" -> {m}
                         [] op = "reap" -> Reapable \cap past
                         [] OTHER -> resident
             w == KindsOf({x \in resident \cap picked : busy[x] = 0})
             d == [NoCall(m) EXCEPT !.op = op, !.want = w]
  <2>1. d.op = op
    BY DEF NoCall
  <2>2. call' = [call EXCEPT ![t] = d] /\ \E p : pc' = [pc EXCEPT ![t] = p]
    BY DEF Unload
  <2>3. holds' = holds
    BY DEF Unload
  <2>4. op # "acquire"
    BY ConstantsAssumption DEF AllUnloads
  <2> HIDE DEF d
  <2> QED
    BY <2>1, <2>2, <2>3, <2>4 DEF AskInv, Asking
<1> QED
  BY <1>1, <1>2, <1>3

\* And holds no more of them before its call is through.
LEMMA InCallAsk ==
  ASSUME CoreInv, AskInv, NEW t \in Threads, InCall(t)
  PROVE  AskInv'
<1> USE DEF CoreInv, TypeOK, CallType, RefsType
<1>0. CallOK(t) /\ call[t] \in CallRec
  BY DEF CallInv
<1>1. SUFFICES OthersAsk(t) /\ AsksNoMore(t)
  BY AskKept
<1> USE DEF OthersAsk, AsksNoMore, Asking
<1>2. CASE Reserve(t)
  BY <1>0, <1>2, WantFields DEF Reserve
<1>3. CASE TakeBuildLock(t)
  BY <1>0, <1>3 DEF TakeBuildLock
<1>4. CASE \E k \in WorkerKinds : Submit(t, k)
  BY <1>0, <1>4 DEF Submit
<1>5. CASE RecheckHit(t)
  <2>1. /\ call' = [call EXCEPT ![t] = [@ EXCEPT !.then = "done"]]
        /\ pc' = [pc EXCEPT ![t] = "leave"]
        /\ \E e : holds' = [holds EXCEPT ![t] = e]
    BY <1>5 DEF RecheckHit, TakeHit
  <2> QED
    BY <1>0, <2>1, ThenFields
<1>6. CASE Widen(t)
  <2> DEFINE f == Widened(call[t].force, Missing(t))
             a == call[t].attempt + 1
             v == IF call[t].attempt < MaxAttempts THEN "retry" ELSE "fail"
             d == [call[t] EXCEPT !.force = f, !.want = {}, !.attempt = a, !.then = v]
  <2>1. /\ call' = [call EXCEPT ![t] = d] /\ pc' = [pc EXCEPT ![t] = "leave"]
        /\ UNCHANGED holds /\ pc[t] = "locked" /\ call[t].op = "acquire"
    BY <1>6 DEF Widen
  <2> HIDE DEF f, a, v
  <2>2. d.m = call[t].m /\ d.op = call[t].op
    BY <1>0, WidenFields
  <2> HIDE DEF d
  <2> QED
    BY <2>1, <2>2
<1>7. CASE MakeRoom(t)
  <2>1. /\ call' = [call EXCEPT ![t] = [@ EXCEPT !.then =
                      IF Deferred(call[t].m, call[t].n, building) THEN "fail" ELSE "build"]]
        /\ pc' = [pc EXCEPT ![t] = "tear"] /\ pc[t] = "locked" /\ holds' = holds
    BY <1>7 DEF MakeRoom, TakeOut
  <2> QED
    BY <1>0, <2>1, ThenFields
<1>8. CASE \E past \in SUBSET Models : Detach(t, past)
  <2>1. /\ call' = call /\ pc' = [pc EXCEPT ![t] = "tear"] /\ pc[t] = "locked"
        /\ holds' = holds
    BY <1>8 DEF Detach, TakeOut
  <2> QED
    BY <2>1
<1>9. CASE \E x \in torn[t] : TearPipeline(t, x)
  BY <1>0, <1>9 DEF TearPipeline
<1>10. CASE \E x \in torn[t], r \in BOOLEAN : TearChat(t, x, r)
  <2>1. PICK v : /\ call' = [call EXCEPT ![t] = [@ EXCEPT !.then = v]]
                 /\ pc[t] \in {"tear", "refit"} /\ UNCHANGED <<pc, holds>>
    BY <1>10 DEF TearChat
  <2> QED
    BY <1>0, <2>1, ThenFields
<1>11. CASE \E x \in rel[t] : Free(t, x) \/ QueueRelease(t, x)
  BY <1>0, <1>11 DEF Free, QueueRelease
<1>12. CASE BuildFails(t) \/ BuildOk(t) \/ InsertFails(t)
  <2>1. PICK v \in {"fail", "insert"} :
          /\ call' = [call EXCEPT ![t] = [@ EXCEPT !.then = v]]
          /\ \/ v = "fail" /\ pc' = [pc EXCEPT ![t] = "leave"]
             \/ pc' = [pc EXCEPT ![t] = "refit"]
          /\ pc[t] \in {"tear", "refit"} /\ UNCHANGED holds
    BY <1>12 DEF BuildFails, BuildOk, InsertFails, Building
  <2> QED
    BY <1>0, <2>1, ThenFields
<1>13. CASE BuildRepriced(t)
  <2>1. PICK n, v :
          /\ call' = [call EXCEPT ![t] = [@ EXCEPT !.n = n, !.then = v]]
          /\ pc' = [pc EXCEPT ![t] = "refit"] /\ pc[t] = "tear" /\ holds' = holds
    BY <1>13 DEF BuildRepriced, Building, TakeOut
  <2> QED
    BY <1>0, <2>1, RepriceFields
<1>14. CASE Abort(t)
  BY <1>0, <1>14 DEF Abort
<1>16. CASE Insert(t)
  <2>1. /\ call' = [call EXCEPT ![t] = [@ EXCEPT !.then = "done"]]
        /\ pc' = [pc EXCEPT ![t] = "leave"]
        /\ \E e : holds' = [holds EXCEPT ![t] = e]
    BY <1>16 DEF Insert
  <2> QED
    BY <1>0, <2>1, ThenFields
<1>17. CASE Leave(t)
  <2>1. /\ holds' = holds /\ \E p : pc' = [pc EXCEPT ![t] = p]
        /\ \E d : call' = [call EXCEPT ![t] = d]
    BY <1>17 DEF Leave
  <2>2. CASE call[t].then = "retry"
    <3>1. /\ call' = [call EXCEPT ![t] = [@ EXCEPT !.then = "done"]]
          /\ pc[t] \in {"leave", "tear"}
      BY <1>17, <2>2 DEF Leave, MayLeave
    <3> QED
      BY <1>0, <2>1, <2>2, <3>1, ThenFields
  <2>3. CASE call[t].then # "retry"
    <3>1. call' = [call EXCEPT ![t] = NoCall(AnyModel)]
      BY <1>17, <2>3 DEF Leave
    <3>2. call'[t].op = "none"
      BY <3>1 DEF NoCall
    <3> QED
      BY <2>1, <3>2
  <2> QED
    BY <2>2, <2>3
<1> QED
  BY <1>2, <1>3, <1>4, <1>5, <1>6, <1>7, <1>8, <1>9, <1>10, <1>11, <1>12, <1>13,
     <1>14, <1>16, <1>17, InCallSteps

-----------------------------------------------------------------------------
(* No model is loaded twice.                                               *)

Loading(t) == pc[t] \in {"tear", "refit"} /\ call[t].op = "acquire"

\* A client's step starts no load under the build lock.
LEMMA ClientLoad ==
  ASSUME CoreInv, NoDoubleLoad, NEW t \in Threads, Client(t)
  PROVE  NoDoubleLoad'
<1> USE DEF CoreInv, TypeOK, CallType
<1> PICK m \in Models :
      \/ AcquireHit(t, m) \/ AcquireMiss(t, m) \/ UseWorker(t, m)
      \/ MarkRetained(t, m) \/ Release(t, m)
      \/ \E op \in UnloadOps, past \in SUBSET Models : Unload(t, op, m, past)
  BY DEF Client
<1>1. CASE \/ AcquireHit(t, m) \/ UseWorker(t, m)
           \/ MarkRetained(t, m) \/ Release(t, m)
  <2>1. UNCHANGED <<pc, call, resident>>
    BY <1>1 DEF AcquireHit, TakeHit, UseWorker, MarkRetained, Release
  <2> QED
    BY <2>1 DEF NoDoubleLoad
<1>2. CASE AcquireMiss(t, m)
  <2>1. /\ \E d : call' = [call EXCEPT ![t] = d]
        /\ pc' = [pc EXCEPT ![t] = "reserve"] /\ resident' = resident
    BY <1>2 DEF AcquireMiss
  <2> QED
    BY <2>1 DEF NoDoubleLoad
<1>3. CASE \E op \in UnloadOps, past \in SUBSET Models : Unload(t, op, m, past)
  <2>1. /\ \E d : call' = [call EXCEPT ![t] = d]
        /\ pc' = [pc EXCEPT ![t] = "queue"] /\ resident' = resident
    BY <1>3 DEF Unload
  <2> QED
    BY <2>1 DEF NoDoubleLoad
<1> QED
  BY <1>1, <1>2, <1>3

\* A step of t that loads nothing new.
LoadsNoMore(t) ==
  /\ resident' \subseteq resident
  /\ Loading(t)' => Loading(t) /\ call'[t].m = call[t].m

\* A step of one thread that loads nothing new, with the others' records as
\* they were, keeps NoDoubleLoad.
LEMMA LoadKept ==
  ASSUME NoDoubleLoad, NEW t \in Threads, Others(t), LoadsNoMore(t)
  PROVE  NoDoubleLoad'
  BY DEF NoDoubleLoad, Others, LoadsNoMore, Loading

\* The second look under the build lock keeps a resident model from being
\* loaded, and only the lock's holder inserts.
LEMMA InCallLoad ==
  ASSUME CoreInv, NoDoubleLoad, NEW t \in Threads, InCall(t)
  PROVE  NoDoubleLoad'
<1> USE DEF CoreInv, TypeOK, CallType
<1>0. CallOK(t) /\ Others(t) /\ call[t] \in CallRec
  BY InCallCallOK DEF CallInv
<1>1. CASE Reserve(t) \/ TakeBuildLock(t) \/ \E k \in WorkerKinds : Submit(t, k)
  <2>1. LoadsNoMore(t)
    BY <1>1 DEF Reserve, TakeBuildLock, Submit, LoadsNoMore, Loading
  <2> QED
    BY <1>0, <2>1, LoadKept
<1>2. CASE RecheckHit(t) \/ Widen(t)
  <2>1. LoadsNoMore(t)
    BY <1>2 DEF RecheckHit, TakeHit, Widen, LoadsNoMore, Loading
  <2> QED
    BY <1>0, <2>1, LoadKept
<1>3. CASE MakeRoom(t)
  <2>1. /\ call' = [call EXCEPT ![t] = [@ EXCEPT !.then =
                      IF Deferred(call[t].m, call[t].n, building) THEN "fail" ELSE "build"]]
        /\ resident' \subseteq resident /\ call[t].m \notin resident
    BY <1>3 DEF MakeRoom, TakeOut, Loaded
  <2>2. call'[t].m = call[t].m
    BY <1>0, <2>1, ThenFields
  <2> QED
    BY <1>0, <2>1, <2>2 DEF NoDoubleLoad, Others
<1>4. CASE \E past \in SUBSET Models : Detach(t, past)
  <2>1. call[t].op # "acquire" /\ call' = call /\ resident' \subseteq resident
    BY <1>4 DEF Detach, TakeOut, AllUnloads
  <2>2. LoadsNoMore(t)
    BY <2>1 DEF LoadsNoMore, Loading
  <2> QED
    BY <1>0, <2>2, LoadKept
<1>5. CASE \E x \in torn[t] : TearPipeline(t, x)
  <2>1. LoadsNoMore(t)
    BY <1>5 DEF TearPipeline, LoadsNoMore, Loading
  <2> QED
    BY <1>0, <2>1, LoadKept
<1>6. CASE \E x \in torn[t], r \in BOOLEAN : TearChat(t, x, r)
  <2>1. PICK v : /\ call' = [call EXCEPT ![t] = [@ EXCEPT !.then = v]]
                 /\ UNCHANGED <<pc, resident>>
    BY <1>6 DEF TearChat
  <2>2. LoadsNoMore(t)
    BY <1>0, <2>1, ThenFields DEF LoadsNoMore, Loading
  <2> QED
    BY <1>0, <2>2, LoadKept
<1>7. CASE \E x \in rel[t] : Free(t, x) \/ QueueRelease(t, x)
  <2>1. LoadsNoMore(t)
    BY <1>7 DEF Free, QueueRelease, LoadsNoMore, Loading
  <2> QED
    BY <1>0, <2>1, LoadKept
<1>8. CASE BuildOk(t)
  <2>1. /\ call' = [call EXCEPT ![t] = [@ EXCEPT !.then = "insert"]]
        /\ pc[t] = "tear" /\ resident' = resident
    BY <1>8 DEF BuildOk, Building
  <2>2. LoadsNoMore(t)
    BY <1>0, <2>1, ThenFields DEF LoadsNoMore, Loading
  <2> QED
    BY <1>0, <2>2, LoadKept
<1>9. CASE BuildRepriced(t)
  <2>1. PICK n, v : /\ call' = [call EXCEPT ![t] = [@ EXCEPT !.n = n, !.then = v]]
                    /\ pc[t] = "tear" /\ resident' \subseteq resident
    BY <1>9 DEF BuildRepriced, Building, TakeOut
  <2>2. LoadsNoMore(t)
    BY <1>0, <2>1, RepriceFields DEF LoadsNoMore, Loading
  <2> QED
    BY <1>0, <2>2, LoadKept
<1>10. CASE BuildFails(t) \/ Abort(t) \/ InsertFails(t)
  <2>1. LoadsNoMore(t)
    BY <1>10 DEF BuildFails, Abort, InsertFails, LoadsNoMore, Loading
  <2> QED
    BY <1>0, <2>1, LoadKept
<1>11. CASE Insert(t)
  <2>1. pc'[t] = "leave" /\ pc[t] = "refit"
    BY <1>11 DEF Insert
  <2>2. \A u \in Threads \ {t} : pc[u] \notin {"tear", "refit"}
    BY <2>1 DEF LockInv, Critical
  <2> QED
    BY <1>0, <2>1, <2>2 DEF NoDoubleLoad, Others
<1>12. CASE Leave(t)
  <2>1. resident' = resident /\ pc'[t] \notin {"tear", "refit"}
    BY <1>12 DEF Leave
  <2> QED
    BY <1>0, <2>1, LoadKept DEF LoadsNoMore, Loading
<1> QED
  BY <1>1, <1>2, <1>3, <1>4, <1>5, <1>6, <1>7, <1>8, <1>9, <1>10, <1>11, <1>12,
     InCallSteps

\* No cold load of a model runs while its entry is in the pool, for every
\* number of threads: a second look under the build lock sees what another
\* thread loaded meanwhile (acquire).
THEOREM LoadedOnce == Spec => []NoDoubleLoad
<1>1. Init => NoDoubleLoad
  BY DEF Init, NoDoubleLoad
<1>2. CoreInv /\ NoDoubleLoad /\ [Next]_vars => NoDoubleLoad'
  <2> SUFFICES ASSUME CoreInv, NoDoubleLoad, [Next]_vars PROVE NoDoubleLoad'
    OBVIOUS
  <2>1. ASSUME UNCHANGED vars PROVE NoDoubleLoad'
    BY <2>1 DEF vars, NoDoubleLoad
  <2>2. ASSUME NEW k \in WorkerKinds, Worker(k) PROVE NoDoubleLoad'
    <3>1. /\ UNCHANGED <<call, resident>>
          /\ \/ pc' = pc
             \/ \E u : pc' = [pc EXCEPT ![u] = "idle"]
             \/ \E u : pc' = [pc EXCEPT ![u] = @]
      BY <2>2 DEF Worker, RunJob, RunRelease
    <3> QED
      BY <3>1 DEF NoDoubleLoad, CoreInv, TypeOK, CallType
  <2> QED
    BY <2>1, <2>2, ClientLoad, InCallLoad DEF Next, Over
<1> QED
  BY <1>1, <1>2, Core, PTL DEF Spec

\* Every step keeps AskInv.
LEMMA AskStep ==
  ASSUME CoreInv, AskInv, [Next]_vars
  PROVE  AskInv'
<1>1. ASSUME UNCHANGED vars PROVE AskInv'
  BY <1>1 DEF vars, AskInv, Asking
<1>2. ASSUME NEW k \in WorkerKinds, Worker(k) PROVE AskInv'
  <2>1. /\ UNCHANGED <<call, holds>>
        /\ \/ pc' = pc
           \/ \E u : pc' = [pc EXCEPT ![u] = "idle"]
           \/ \E u : pc' = [pc EXCEPT ![u] = @]
    BY <1>2 DEF Worker, RunJob, RunRelease
  <2> QED
    BY <2>1 DEF AskInv, Asking, CoreInv, TypeOK, CallType
<1> QED
  BY <1>1, <1>2, ClientAsk, InCallAsk DEF Next, Over

-----------------------------------------------------------------------------
(* What a step does to the entries and the holds on them.                  *)

Hit(t, m) ==
  /\ m \in resident \ holds[t]
  /\ busy' = [busy EXCEPT ![m] = @ + 1]
  /\ holds' = [holds EXCEPT ![t] = @ \cup {m}]
  /\ UNCHANGED <<resident, retained, orphan, marked>>

New(t, m) ==
  /\ m \notin resident \cup holds[t]
  /\ resident' = resident \cup {m}
  /\ busy' = [busy EXCEPT ![m] = 1]
  /\ retained' = [retained EXCEPT ![m] = 0]
  /\ holds' = [holds EXCEPT ![t] = @ \cup {m}]
  /\ UNCHANGED <<orphan, marked>>

Out(t, S) ==
  /\ S \subseteq resident /\ \A m \in S : busy[m] <= retained[m]
  /\ TakeOut(t, S)

RefMove(t) ==
  \/ \E m \in Models : Hit(t, m) \/ New(t, m) \/ MarkRetained(t, m) \/ Release(t, m)
  \/ \E S \in SUBSET Models : Out(t, S)

entries == <<resident, busy, retained, holds, orphan, marked>>

\* An eviction for room takes only entries no one uses.
LEMMA VictimsOut ==
  ASSUME CoreInv, NEW t \in Threads, NEW n, NEW b, TakeOut(t, Victims(n, b))
  PROVE  RefMove(t)
<1>1. \A m \in Victims(n, b) : m \in resident /\ busy[m] = 0 /\ retained[m] \in Nat
  BY DEF Victims, Idle, CoreInv, TypeOK, PoolType
<1>2. Out(t, Victims(n, b)) /\ Victims(n, b) \in SUBSET Models
  BY <1>1 DEF Out, CoreInv, TypeOK, PoolType
<1> QED
  BY <1>2 DEF RefMove

\* So does an unload, but for the holds of a preload.
LEMMA UnloadableOut ==
  ASSUME CoreInv, NEW t \in Threads, NEW op, NEW x, NEW past,
         TakeOut(t, Unloadable(op, x, past))
  PROVE  RefMove(t)
<1> DEFINE S == Unloadable(op, x, past)
<1>1. \A m \in resident : busy[m] \in Nat /\ retained[m] \in Nat
  BY DEF CoreInv, TypeOK, PoolType
<1>2. \A m \in S : m \in resident /\ busy[m] <= retained[m]
  <2>1. CASE op = "reap"
    BY <1>1, <2>1 DEF Unloadable, Reapable
  <2>2. CASE op = "evict" \/ op = "clear"
    BY <1>1, <2>2 DEF Unloadable, LiveCount, Max0
  <2>3. CASE op = "sync"
    BY <1>1, <2>3 DEF Unloadable, LiveCount
  <2> QED
    BY <2>1, <2>2, <2>3 DEF Unloadable
<1>3. Out(t, S) /\ S \in SUBSET Models
  BY <1>2 DEF Out, CoreInv, TypeOK, PoolType
<1> QED
  BY <1>3 DEF RefMove

\* Every step leaves the entries and the references alone, or is one of a
\* few moves on them: a hit, an insert, a mark, a release, a take-out.
LEMMA RefMoves ==
  ASSUME CoreInv, AskInv, NoDoubleLoad, [Next]_vars
  PROVE  UNCHANGED entries \/ \E t \in Threads : RefMove(t)
<1> USE DEF entries
<1>1. ASSUME NEW t \in Threads, Client(t)
      PROVE  UNCHANGED entries \/ RefMove(t)
  <2>1. PICK m \in Models :
          \/ AcquireHit(t, m) \/ AcquireMiss(t, m) \/ UseWorker(t, m)
          \/ MarkRetained(t, m) \/ Release(t, m)
          \/ \E op \in UnloadOps, past \in SUBSET Models : Unload(t, op, m, past)
    BY <1>1 DEF Client
  <2>2. CASE AcquireHit(t, m)
    BY <2>2 DEF AcquireHit, MayAcquire, TakeHit, Hit, RefMove
  <2>3. CASE AcquireMiss(t, m) \/ UseWorker(t, m)
    BY <2>3 DEF AcquireMiss, UseWorker
  <2>4. CASE MarkRetained(t, m) \/ Release(t, m)
    BY <2>4 DEF RefMove
  <2>5. CASE \E op \in UnloadOps, past \in SUBSET Models : Unload(t, op, m, past)
    BY <2>5 DEF Unload
  <2> QED
    BY <2>1, <2>2, <2>3, <2>4, <2>5
<1>2. ASSUME NEW t \in Threads, InCall(t)
      PROVE  UNCHANGED entries \/ RefMove(t)
  <2>0. CallOK(t) /\ call[t].m \in Models
    BY CallFields DEF CoreInv, CallInv
  <2>1. CASE Reserve(t) \/ TakeBuildLock(t) \/ Widen(t) \/ \E k \in WorkerKinds : Submit(t, k)
    BY <2>1 DEF Reserve, TakeBuildLock, Widen, Submit
  <2>2. CASE RecheckHit(t)
    <3>1. call[t].m \notin holds[t]
      BY <2>2 DEF RecheckHit, AskInv, Asking
    <3> QED
      BY <2>0, <2>2, <3>1 DEF RecheckHit, Loaded, TakeHit, Hit, RefMove
  <2>3. CASE MakeRoom(t) \/ BuildRepriced(t)
    <3>1. \E n, b : TakeOut(t, Victims(n, b))
      BY <2>3 DEF MakeRoom, BuildRepriced
    <3> QED
      BY <3>1, VictimsOut
  <2>4. CASE \E past \in SUBSET Models : Detach(t, past)
    <3>1. \E op, x, past : TakeOut(t, Unloadable(op, x, past))
      BY <2>4 DEF Detach
    <3> QED
      BY <3>1, UnloadableOut
  <2>5. CASE \E x \in torn[t] : TearPipeline(t, x)
    BY <2>5 DEF TearPipeline
  <2>6. CASE \E x \in torn[t], r \in BOOLEAN : TearChat(t, x, r)
    BY <2>6 DEF TearChat
  <2>7. CASE \E x \in rel[t] : Free(t, x) \/ QueueRelease(t, x)
    BY <2>7 DEF Free, QueueRelease
  <2>8. CASE BuildFails(t) \/ BuildOk(t) \/ Abort(t) \/ InsertFails(t)
    BY <2>8 DEF BuildFails, BuildOk, Abort, InsertFails
  <2>9. CASE Insert(t)
    <3>1. call[t].m \notin resident \cup holds[t]
      BY <2>0, <2>9 DEF Insert, CallOK, AskInv, Asking, NoDoubleLoad
    <3>2. New(t, call[t].m)
      BY <2>9, <3>1 DEF Insert, New
    <3> QED
      BY <2>0, <3>2 DEF RefMove
  <2>10. CASE Leave(t)
    BY <2>10 DEF Leave
  <2> QED
    BY <1>2, <2>1, <2>2, <2>3, <2>4, <2>5, <2>6, <2>7, <2>8, <2>9, <2>10, InCallSteps
<1>3. ASSUME NEW k \in WorkerKinds, Worker(k)
      PROVE  UNCHANGED entries
  BY <1>3 DEF Worker, RunJob, RunRelease
<1>4. CASE UNCHANGED vars \/ Over
  BY <1>4 DEF vars, Over
<1> QED
  BY <1>1, <1>2, <1>3, <1>4 DEF Next

-----------------------------------------------------------------------------
(* The counts of an entry are its holds.                                   *)

\* The threads that hold the entry of m in the pool; those that keep it.
Holders(m) == {t \in Threads : m \in holds[t] \ orphan[t]}
Keepers(m) == {t \in Threads : m \in marked[t] \ orphan[t]}

HoldInv ==
  /\ \A t \in Threads : orphan[t] \subseteq marked[t] /\ marked[t] \subseteq holds[t]
  /\ \A t \in Threads \ Preloaders : marked[t] = {}
  /\ \A m \in Models \ resident : Holders(m) = {}
  /\ \A m \in Models : /\ busy[m] = Cardinality(Holders(m))
                       /\ retained[m] = Cardinality(Keepers(m))

\* An entry has finitely many holders and keepers, so they can be counted.
LEMMA HoldersFinite ==
  ASSUME NEW m
  PROVE  /\ IsFiniteSet(Holders(m)) /\ Cardinality(Holders(m)) \in Nat
         /\ IsFiniteSet(Keepers(m)) /\ Cardinality(Keepers(m)) \in Nat
<1>1. Holders(m) \in SUBSET Threads /\ Keepers(m) \in SUBSET Threads
  BY DEF Holders, Keepers
<1>2. IsFiniteSet(Threads)
  BY ConstantsAssumption
<1>3. IsFiniteSet(Holders(m)) /\ IsFiniteSet(Keepers(m))
  BY <1>1, <1>2, FS_Subset
<1> QED
  BY <1>3, FS_CardinalityType

\* An entry with no live use is held by keepers alone.
LEMMA KeptOnly ==
  ASSUME HoldInv, NEW m \in Models, busy[m] <= retained[m]
  PROVE  Holders(m) = Keepers(m)
<1>1. Keepers(m) \in SUBSET Holders(m)
  BY DEF HoldInv, Holders, Keepers
<1>2. Cardinality(Keepers(m)) <= Cardinality(Holders(m))
  BY <1>1, HoldersFinite, FS_Subset
<1>3. Cardinality(Holders(m)) <= Cardinality(Keepers(m))
  BY DEF HoldInv
<1>4. Cardinality(Holders(m)) = Cardinality(Keepers(m))
  BY <1>2, <1>3, HoldersFinite
<1> QED
  BY <1>1, <1>4, HoldersFinite, FS_Subset

\* Each move keeps the counts of the entries equal to their holders and
\* the entries in use in the pool.
LEMMA HoldStep ==
  ASSUME TypeOK, HoldInv, NEW t \in Threads, RefMove(t)
  PROVE  HoldInv'
<1> USE DEF TypeOK, PoolType, RefsType
<1>1. ASSUME NEW m \in Models, Hit(t, m) PROVE HoldInv'
  <2>1. t \notin Holders(m)
    BY <1>1 DEF Hit, Holders
  <2>2. Holders(m)' = Holders(m) \cup {t}
    BY <1>1 DEF Hit, Holders, HoldInv
  <2>3. \A x \in Models \ {m} : Holders(x)' = Holders(x)
    BY <1>1 DEF Hit, Holders
  <2>4. \A x \in Models : Keepers(x)' = Keepers(x)
    BY <1>1 DEF Hit, Keepers
  <2>5. busy'[m] = Cardinality(Holders(m)')
    <3>1. Cardinality(Holders(m) \cup {t}) = Cardinality(Holders(m)) + 1
      BY <2>1, HoldersFinite, FS_AddElement
    <3>2. busy'[m] = Cardinality(Holders(m)) + 1
      BY <1>1 DEF Hit, HoldInv
    <3> QED
      BY <2>2, <3>1, <3>2
  <2> QED
    BY <1>1, <2>3, <2>4, <2>5 DEF Hit, HoldInv
<1>2. ASSUME NEW m \in Models, New(t, m) PROVE HoldInv'
  <2>1. Holders(m) = {} /\ Keepers(m) = {}
    BY <1>2 DEF New, HoldInv, Holders, Keepers
  <2>2. Holders(m)' = {t} /\ Keepers(m)' = {}
    BY <1>2, <2>1 DEF New, Holders, Keepers, HoldInv
  <2>3. \A x \in Models \ {m} : Holders(x)' = Holders(x) /\ Keepers(x)' = Keepers(x)
    BY <1>2 DEF New, Holders, Keepers
  <2>4. busy'[m] = Cardinality(Holders(m)') /\ retained'[m] = Cardinality(Keepers(m)')
    BY <1>2, <2>2, FS_Singleton, FS_EmptySet DEF New
  <2> QED
    BY <1>2, <2>3, <2>4 DEF New, HoldInv
<1>3. ASSUME NEW m \in Models, MarkRetained(t, m) PROVE HoldInv'
  <2>1. m \notin orphan[t] /\ t \notin Keepers(m)
    BY <1>3 DEF MarkRetained, HoldInv, Keepers
  <2>2. Keepers(m)' = Keepers(m) \cup {t}
    BY <1>3, <2>1 DEF MarkRetained, Keepers
  <2>3. \A x \in Models \ {m} : Keepers(x)' = Keepers(x)
    BY <1>3 DEF MarkRetained, Keepers
  <2>4. \A x \in Models : Holders(x)' = Holders(x)
    BY <1>3 DEF MarkRetained, Holders
  <2>5. retained'[m] = Cardinality(Keepers(m)')
    <3>1. Cardinality(Keepers(m) \cup {t}) = Cardinality(Keepers(m)) + 1
      BY <2>1, HoldersFinite, FS_AddElement
    <3>2. retained'[m] = Cardinality(Keepers(m)) + 1
      BY <1>3, <2>1 DEF MarkRetained, HoldInv
    <3> QED
      BY <2>2, <3>1, <3>2
  <2> QED
    BY <1>3, <2>3, <2>4, <2>5 DEF MarkRetained, HoldInv
<1>4. ASSUME NEW m \in Models, Release(t, m) PROVE HoldInv'
  <2>1. \A x \in Models \ {m} : Holders(x)' = Holders(x) /\ Keepers(x)' = Keepers(x)
    BY <1>4 DEF Release, Holders, Keepers
  <2>2. Keepers(m)' = Keepers(m)
    BY <1>4 DEF Release, Keepers, HoldInv
  <2>3. Holders(m)' = Holders(m) \ {t}
    BY <1>4 DEF Release, Holders
  <2>4. busy'[m] = Cardinality(Holders(m)')
    <3>1. CASE m \in orphan[t]
      <4>1. Holders(m) \ {t} = Holders(m) /\ busy' = busy
        BY <1>4, <3>1 DEF Release, Holders
      <4> QED
        BY <2>3, <4>1 DEF HoldInv
    <3>2. CASE m \notin orphan[t]
      <4>1. t \in Holders(m) /\ busy'[m] = Max0(busy[m] - 1)
        BY <1>4, <3>2 DEF Release, Holders
      <4>2. Cardinality(Holders(m) \ {t}) = Cardinality(Holders(m)) - 1
        BY <4>1, HoldersFinite, FS_RemoveElement
      <4>3. Cardinality(Holders(m) \ {t}) \in Nat
        BY HoldersFinite, FS_RemoveElement, FS_CardinalityType
      <4> QED
        BY <2>3, <4>1, <4>2, <4>3, HoldersFinite DEF HoldInv, Max0
    <3> QED
      BY <3>1, <3>2
  <2> QED
    BY <1>4, <2>1, <2>2, <2>3, <2>4 DEF Release, HoldInv
<1>5. ASSUME NEW S \in SUBSET Models, Out(t, S) PROVE HoldInv'
  <2>1. \A m \in S : Holders(m) = Keepers(m)
    BY <1>5, KeptOnly DEF Out
  <2>2. /\ orphan' = [u \in Threads |-> orphan[u] \cup (holds[u] \cap S)]
        /\ UNCHANGED <<holds, marked>> /\ resident' = resident \ S
        /\ busy' = [m \in Models |-> IF m \in S THEN 0 ELSE busy[m]]
        /\ retained' = [m \in Models |-> IF m \in S THEN 0 ELSE retained[m]]
    BY <1>5 DEF Out, TakeOut
  <2>3. \A m \in S : Holders(m)' = {} /\ Keepers(m)' = {}
    BY <2>2 DEF Holders, Keepers, HoldInv
  <2>4. \A m \in Models \ S : Holders(m)' = Holders(m) /\ Keepers(m)' = Keepers(m)
    BY <2>2 DEF Holders, Keepers
  <2>5. \A u \in Threads : orphan'[u] \subseteq marked'[u]
    BY <2>1, <2>2 DEF Holders, Keepers, HoldInv
  <2>6. \A m \in Models : /\ busy'[m] = Cardinality(Holders(m)')
                          /\ retained'[m] = Cardinality(Keepers(m)')
    BY <2>2, <2>3, <2>4, FS_EmptySet DEF HoldInv
  <2> QED
    BY <2>2, <2>3, <2>4, <2>5, <2>6 DEF HoldInv
<1> QED
  BY <1>1, <1>2, <1>3, <1>4, <1>5 DEF RefMove

\* The in-flight references counted on an entry are the holds on it, the
\* retained ones those of a preload.
UseInv == CoreInv /\ AskInv /\ NoDoubleLoad /\ HoldInv

\* What relates counts, marks and holds is an invariant of the pool,
\* whatever evictions, unloads and the reaper do beside each other.
THEOREM InUse == Spec => []UseInv
<1>1. Init => AskInv /\ HoldInv
  <2> SUFFICES ASSUME Init PROVE AskInv /\ HoldInv
    OBVIOUS
  <2>1. \A m \in Models : Holders(m) = {} /\ Keepers(m) = {}
    BY DEF Init, Holders, Keepers
  <2>2. HoldInv
    BY <2>1, FS_EmptySet DEF Init, HoldInv
  <2>3. AskInv
    BY DEF Init, AskInv
  <2> QED
    BY <2>2, <2>3
<1>2. CoreInv /\ NoDoubleLoad /\ AskInv /\ HoldInv /\ [Next]_vars => AskInv' /\ HoldInv'
  <2> SUFFICES ASSUME CoreInv, NoDoubleLoad, AskInv, HoldInv, [Next]_vars
               PROVE  HoldInv'
    BY AskStep
  <2>1. CASE UNCHANGED entries
    BY <2>1 DEF entries, HoldInv, Holders, Keepers
  <2>2. CASE \E t \in Threads : RefMove(t)
    BY <2>2, HoldStep DEF CoreInv
  <2> QED
    BY <2>1, <2>2, RefMoves
<1> QED
  BY <1>1, <1>2, Core, LoadedOnce, PTL DEF Spec, UseInv

\* A model a request is using is in the pool until the request releases it,
\* whatever loads, unloads, preloads and idle sweeps run beside it: the
\* pool's one promise to a generation.
THEOREM UsedModelStays == Spec => []HeldStaysResident
<1>1. UseInv => HeldStaysResident
  BY DEF UseInv, CoreInv, TypeOK, RefsType, HoldInv, Holders, HeldStaysResident
<1> QED
  BY <1>1, InUse, PTL

\* No release is lost or counted on another entry: the in-flight count of
\* an entry is the number of threads that hold it.
THEOREM CountsAreHolders == Spec => []BusyIsHolders
<1>1. UseInv => BusyIsHolders
  BY DEF UseInv, CoreInv, TypeOK, PoolType, HoldInv, Holders, BusyIsHolders
<1> QED
  BY <1>1, InUse, PTL

-----------------------------------------------------------------------------
(* The pool implements its contract.                                       *)

uses == [t \in Threads |-> holds[t] \ marked[t]]

\* No use is of what leaves.
LEMMA OutIsUnused ==
  ASSUME TypeOK, HoldInv, NEW t \in Threads, NEW S \in SUBSET Models, Out(t, S)
  PROVE  \A u \in Threads : uses[u] \cap S = {}
<1>1. \A m \in S : Holders(m) = Keepers(m)
  BY KeptOnly DEF Out, TypeOK, PoolType
<1> QED
  BY <1>1 DEF uses, HoldInv, Holders, Keepers

\* Each move is a step of ModelPool: a use, an end of use or an eviction.
LEMMA ContractStep ==
  ASSUME TypeOK, HoldInv, NEW t \in Threads, RefMove(t)
  PROVE  Contract!Next
<1> USE DEF TypeOK, PoolType, RefsType
<1>1. ASSUME NEW m \in Models, Hit(t, m) PROVE Contract!Use(t, m)
  <2>1. m \notin marked[t] /\ resident' = resident \cup {m}
    BY <1>1 DEF Hit, HoldInv
  <2>2. uses' = [uses EXCEPT ![t] = @ \cup {m}]
    <3>1. ASSUME NEW u \in Threads
          PROVE  holds'[u] \ marked'[u]
                   = IF u = t THEN (holds[u] \ marked[u]) \cup {m}
                     ELSE holds[u] \ marked[u]
      BY <1>1, <2>1 DEF Hit
    <3> QED
      BY <3>1 DEF uses
  <2> QED
    BY <2>1, <2>2 DEF uses, Contract!Use
<1>2. ASSUME NEW m \in Models, New(t, m) PROVE Contract!Use(t, m)
  <2>1. m \notin marked[t] /\ resident' = resident \cup {m}
    BY <1>2 DEF New, HoldInv
  <2>2. uses' = [uses EXCEPT ![t] = @ \cup {m}]
    <3>1. ASSUME NEW u \in Threads
          PROVE  holds'[u] \ marked'[u]
                   = IF u = t THEN (holds[u] \ marked[u]) \cup {m}
                     ELSE holds[u] \ marked[u]
      BY <1>2, <2>1 DEF New
    <3> QED
      BY <3>1 DEF uses
  <2> QED
    BY <2>1, <2>2 DEF uses, Contract!Use
<1>3. ASSUME NEW m \in Models, MarkRetained(t, m) PROVE Contract!Done(t, m)
  BY <1>3 DEF MarkRetained, Contract!Done
<1>4. ASSUME NEW m \in Models, Release(t, m) PROVE Contract!Done(t, m)
  BY <1>4 DEF Release, Contract!Done
<1>5. ASSUME NEW S \in SUBSET Models, Out(t, S) PROVE Contract!Evict(S)
  <2>1. resident' = resident \ S /\ UNCHANGED <<holds, marked>>
    BY <1>5 DEF Out, TakeOut
  <2>2. \A u \in Threads : (holds[u] \ marked[u]) \cap S = {}
    BY <1>5, OutIsUnused DEF uses
  <2>3. S \cap Contract!InUse = {}
    BY <2>2 DEF Contract!InUse
  <2> QED
    BY <2>1, <2>3 DEF Contract!Evict
<1> QED
  BY <1>1, <1>2, <1>3, <1>4, <1>5 DEF RefMove, Out, Contract!Next

\* The pool, with its locks, workers, evictions and teardowns, does no more
\* than ModelPool allows: each step of it takes, drops or evicts as the
\* contract says, or does nothing a request can see.
THEOREM PoolKeepsContract == Spec => ImplementsModelPool
<1>1. Init => Contract!Init
  BY DEF Init, Contract!Init
<1>2. UseInv /\ [Next]_vars => [Contract!Next]_(Contract!vars)
  <2> SUFFICES ASSUME UseInv, [Next]_vars PROVE [Contract!Next]_(Contract!vars)
    OBVIOUS
  <2>1. CASE UNCHANGED entries
    BY <2>1 DEF entries, Contract!vars
  <2>2. CASE \E t \in Threads : RefMove(t)
    BY <2>2, ContractStep DEF UseInv, CoreInv
  <2> QED
    BY <2>1, <2>2, RefMoves DEF UseInv
<1> QED
  BY <1>1, <1>2, InUse, PTL DEF Spec, ImplementsModelPool, Contract!Spec

-----------------------------------------------------------------------------
(* Queues.                                                                 *)

\* A job goes to the end of a worker's queue and moves no other.
LEMMA AppendFacts ==
  ASSUME NEW q \in Seq(Items), NEW i \in Items
  PROVE  /\ Append(q, i) # <<>>
         /\ q # <<>> => Head(Append(q, i)) = Head(q)
         /\ \A j \in DOMAIN Append(q, i) :
              \/ j \in DOMAIN q /\ Append(q, i)[j] = q[j]
              \/ Append(q, i)[j] = i
<1>1. Append(q, i) # <<>>
  BY AppendProperties
<1>2. q # <<>> => Head(Append(q, i)) = Head(q)
  BY HeadTailAppend
<1>3. ASSUME NEW j \in DOMAIN Append(q, i)
      PROVE  \/ j \in DOMAIN q /\ Append(q, i)[j] = q[j]
             \/ Append(q, i)[j] = i
  <2>1. j \in 1 .. Len(q) + 1 /\ Len(q) \in Nat /\ DOMAIN q = 1 .. Len(q)
    BY AppendProperties, LenProperties
  <2> QED
    BY <2>1, AppendProperties
<1> QED
  BY <1>1, <1>2, <1>3

\* Ending the running job brings no new one into the queue.
LEMMA TailFacts ==
  ASSUME NEW q \in Seq(Items), q # <<>>
  PROVE  \A j \in DOMAIN Tail(q) : \E l \in DOMAIN q : Tail(q)[j] = q[l]
<1> SUFFICES ASSUME NEW j \in DOMAIN Tail(q)
             PROVE  j + 1 \in DOMAIN q /\ Tail(q)[j] = q[j + 1]
  OBVIOUS
<1> QED
  OBVIOUS

\* Who holds a worker, and who waits on one, before and after a step of t.
HoldsKept(t) ==
  \A u \in Threads \ {t}, k \in WorkerKinds : Holds(u, k) => Holds(u, k)'
WaitsKept(t) ==
  \A u \in Threads \ {t} : Waiting(u)' => Waiting(u)

\* What t queues on worker k.
Queues(t, k, i) ==
  i \in Items /\ i.by = t /\ queue' = [queue EXCEPT ![k] = Append(@, i)]

\* What worker k ends.
Ends(k) ==
  /\ queue[k] # <<>> /\ Head(queue[k]).what # "hold"
  /\ queue' = [queue EXCEPT ![k] = Tail(@)]

\* Queueing something takes no worker from its holder, and makes only the
\* thread that queued it wait.
LEMMA QueuesKept ==
  ASSUME TypeOK, NEW t \in Threads, NEW k \in WorkerKinds, NEW i, Queues(t, k, i)
  PROVE  /\ \A u \in Threads, l \in WorkerKinds : Holds(u, l) => Holds(u, l)'
         /\ WaitsKept(t)
         /\ i.what = "hold" => (Waiting(t)' => Waiting(t))
<1> USE DEF TypeOK, QueueType, Queues
<1>1. ASSUME NEW u \in Threads, NEW l \in WorkerKinds, Holds(u, l)
      PROVE  Holds(u, l)'
  BY <1>1, AppendFacts DEF Holds
<1>2. ASSUME NEW u \in Threads, Waiting(u)', u # t \/ i.what = "hold"
      PROVE  Waiting(u)
  <2> PICK l \in WorkerKinds : \E j \in DOMAIN queue'[l] :
        queue'[l][j].by = u /\ queue'[l][j].what # "hold"
    BY <1>2 DEF Waiting
  <2>1. PICK j \in DOMAIN queue'[l] :
          queue'[l][j].by = u /\ queue'[l][j].what # "hold"
    OBVIOUS
  <2>2. j \in DOMAIN queue[l] /\ queue'[l][j] = queue[l][j]
    BY <1>2, <2>1, AppendFacts
  <2> QED
    BY <2>1, <2>2 DEF Waiting
<1> QED
  BY <1>1, <1>2 DEF WaitsKept

\* A worker that ends a job takes no worker from its holder, and makes no
\* one wait.
LEMMA EndsKept ==
  ASSUME TypeOK, NEW k \in WorkerKinds, Ends(k)
  PROVE  /\ \A u \in Threads, l \in WorkerKinds : Holds(u, l) => Holds(u, l)'
         /\ \A u \in Threads : Waiting(u)' => Waiting(u)
<1> USE DEF TypeOK, QueueType, Ends
<1>1. ASSUME NEW u \in Threads, NEW l \in WorkerKinds, Holds(u, l)
      PROVE  Holds(u, l)'
  BY <1>1 DEF Holds, HoldOf, Item
<1>2. ASSUME NEW u \in Threads, Waiting(u)'
      PROVE  Waiting(u)
  <2> PICK l \in WorkerKinds : \E j \in DOMAIN queue'[l] :
        queue'[l][j].by = u /\ queue'[l][j].what # "hold"
    BY <1>2 DEF Waiting
  <2>1. PICK j \in DOMAIN queue'[l] :
          queue'[l][j].by = u /\ queue'[l][j].what # "hold"
    OBVIOUS
  <2>2. \E h \in DOMAIN queue[l] : queue'[l][j] = queue[l][h]
    BY <2>1, TailFacts
  <2> QED
    BY <2>1, <2>2 DEF Waiting
<1> QED
  BY <1>1, <1>2

\* A call that drops its workers takes none from another thread.
LEMMA LeaveKept ==
  ASSUME TypeOK, NEW t \in Threads, Leave(t)
  PROVE  HoldsKept(t) /\ \A u \in Threads : Waiting(u)' => Waiting(u)
<1> USE DEF TypeOK, QueueType
<1>0. queue' = [k \in WorkerKinds |-> IF Holds(t, k) THEN Tail(queue[k]) ELSE queue[k]]
  BY DEF Leave
<1>1. ASSUME NEW u \in Threads \ {t}, NEW l \in WorkerKinds, Holds(u, l)
      PROVE  Holds(u, l)'
  <2>1. ~Holds(t, l)
    BY <1>1 DEF Holds, HoldOf, Item
  <2> QED
    BY <1>0, <1>1, <2>1 DEF Holds
<1>2. ASSUME NEW u \in Threads, Waiting(u)'
      PROVE  Waiting(u)
  <2> PICK l \in WorkerKinds : \E j \in DOMAIN queue'[l] :
        queue'[l][j].by = u /\ queue'[l][j].what # "hold"
    BY <1>2 DEF Waiting
  <2>1. PICK j \in DOMAIN queue'[l] :
          queue'[l][j].by = u /\ queue'[l][j].what # "hold"
    OBVIOUS
  <2>2. \E h \in DOMAIN queue[l] : queue'[l][j] = queue[l][h]
    BY <1>0, <2>1, TailFacts DEF Holds
  <2> QED
    BY <2>1, <2>2 DEF Waiting
<1> QED
  BY <1>1, <1>2 DEF HoldsKept

\* A step that leaves the queues alone changes no hold and no wait.
LEMMA QueueUnchanged ==
  ASSUME queue' = queue, NEW t \in Threads
  PROVE  /\ \A u \in Threads, l \in WorkerKinds : Holds(u, l) => Holds(u, l)'
         /\ \A u \in Threads : Waiting(u)' => Waiting(u)
  BY DEF Holds, Waiting

-----------------------------------------------------------------------------
(* What each place of a call knows of the workers.                         *)

WaitOK(t) ==
  /\ Waiting(t) => pc[t] \in {"idle", "late"}
  /\ pc[t] = "tear" /\ call[t].op = "acquire" =>
       \A x \in torn[t] \cup rel[t] : OnWorker(x.m) => Holds(t, Kind[x.m])
  /\ pc[t] \in {"queue", "locked"} => call[t].force \subseteq call[t].want
  /\ pc[t] = "locked" => \A k \in call[t].want : Holds(t, k)
  /\ call[t].attempt <= Cardinality(call[t].force) + 1

WaitInv == \A t \in Threads : WaitOK(t)

\* A step of one thread that keeps the others' holds and waits, and what
\* its own place asks of it, keeps WaitInv.
LEMMA WaitKept ==
  ASSUME TypeOK, WaitInv, NEW t \in Threads, Others(t), HoldsKept(t), WaitsKept(t), WaitOK(t)'
  PROVE  WaitInv'
<1> SUFFICES ASSUME NEW u \in Threads PROVE WaitOK(u)'
  BY DEF WaitInv
<1>1. CASE u = t
  BY <1>1
<1>2. CASE u # t
  <2>1. WaitOK(u) /\ (Waiting(u)' => Waiting(u))
    BY <1>2 DEF WaitInv, WaitsKept
  <2>2. \A k \in WorkerKinds : Holds(u, k) => Holds(u, k)'
    BY <1>2 DEF HoldsKept
  <2>3. pc'[u] = pc[u] /\ call'[u] = call[u] /\ torn'[u] = torn[u] /\ rel'[u] = rel[u]
    BY <1>2 DEF Others
  <2>4. call[u].want \subseteq WorkerKinds
    BY CallFields
  <2> QED
    BY <2>1, <2>2, <2>3, <2>4 DEF WaitOK, OnWorker
<1> QED
  BY <1>1, <1>2

\* A step that leaves the queues alone.
LEMMA WaitKeptStill ==
  ASSUME TypeOK, WaitInv, NEW t \in Threads, Others(t), queue' = queue, WaitOK(t)'
  PROVE  WaitInv'
  BY WaitKept, QueueUnchanged DEF HoldsKept, WaitsKept

\* A call that begins knows nothing yet.
LEMMA FreshCall ==
  ASSUME NEW c, c.force = {}, c.attempt = 1
  PROVE  c.attempt <= Cardinality(c.force) + 1
  BY FS_EmptySet

\* A client's step keeps WaitInv: it queues a job only between calls.
LEMMA ClientWait ==
  ASSUME CoreInv, WaitInv, NEW t \in Threads, Client(t)
  PROVE  WaitInv'
<1> USE DEF CoreInv, TypeOK, CallType
<1> PICK m \in Models :
      \/ AcquireHit(t, m) \/ AcquireMiss(t, m) \/ UseWorker(t, m)
      \/ MarkRetained(t, m) \/ Release(t, m)
      \/ \E op \in UnloadOps, past \in SUBSET Models : Unload(t, op, m, past)
  BY DEF Client
<1>0. CallOK(t) /\ WaitOK(t) /\ call[t] \in CallRec
  BY DEF CallInv, WaitInv
<1>1. CASE AcquireHit(t, m) \/ MarkRetained(t, m) \/ Release(t, m)
  <2>1. UNCHANGED <<pc, call, torn, rel, queue>>
    BY <1>1 DEF AcquireHit, MarkRetained, Release
  <2> QED
    BY <2>1 DEF WaitInv, WaitOK, Waiting, OnWorker, Holds
<1>2. CASE AcquireMiss(t, m)
  <2> DEFINE d == [NoCall(m) EXCEPT !.op = "acquire", !.n = Price[m]]
  <2>1. d.force = {} /\ d.attempt = 1
    BY DEF NoCall
  <2>2. /\ call' = [call EXCEPT ![t] = d] /\ pc' = [pc EXCEPT ![t] = "reserve"]
        /\ UNCHANGED <<torn, rel, queue>> /\ ~Waiting(t)
    BY <1>2 DEF AcquireMiss, MayAcquire, MayCall
  <2> HIDE DEF d
  <2>3. Others(t) /\ pc'[t] = "reserve" /\ call'[t] = d
    BY <2>2 DEF Others
  <2>4. ~Waiting(t)'
    BY <2>2, QueueUnchanged
  <2>5. WaitOK(t)'
    BY <2>1, <2>3, <2>4, FreshCall DEF WaitOK
  <2> QED
    BY <2>2, <2>3, <2>5, WaitKeptStill
<1>3. CASE UseWorker(t, m)
  <2>1. Item(t, "job", m) \in Items /\ Kind[m] \in WorkerKinds
    BY <1>3 DEF UseWorker, OnWorker, Item, Items
  <2>2. Queues(t, Kind[m], Item(t, "job", m))
    BY <1>3, <2>1 DEF UseWorker, Queues, Item
  <2>3. UNCHANGED <<pc, call, torn, rel>> /\ pc[t] = "idle"
    BY <1>3 DEF UseWorker, MayCall
  <2>4. HoldsKept(t) /\ WaitsKept(t)
    BY <2>1, <2>2, QueuesKept DEF HoldsKept
  <2>5. WaitOK(t)' /\ Others(t)
    BY <1>0, <2>3 DEF WaitOK, Others
  <2> QED
    BY <2>4, <2>5, WaitKept
<1>4. CASE \E op \in UnloadOps, past \in SUBSET Models : Unload(t, op, m, past)
  <2> PICK op \in UnloadOps, past \in SUBSET Models : Unload(t, op, m, past)
    BY <1>4
  <2> DEFINE picked == CASE op = "evict" -> {m}
                         [] op = "reap" -> Reapable \cap past
                         [] OTHER -> resident
             w == KindsOf({x \in resident \cap picked : busy[x] = 0})
             d == [NoCall(m) EXCEPT !.op = op, !.want = w]
  <2>1. d.force = {} /\ d.attempt = 1
    BY DEF NoCall
  <2>2. /\ call' = [call EXCEPT ![t] = d] /\ pc' = [pc EXCEPT ![t] = "queue"]
        /\ UNCHANGED <<torn, rel, queue>> /\ ~Waiting(t)
    BY DEF Unload, MayCall
  <2> HIDE DEF d
  <2>3. Others(t) /\ pc'[t] = "queue" /\ call'[t] = d
    BY <2>2 DEF Others
  <2>4. ~Waiting(t)'
    BY <2>2, QueueUnchanged
  <2>5. WaitOK(t)'
    BY <2>1, <2>3, <2>4, FreshCall DEF WaitOK
  <2> QED
    BY <2>2, <2>3, <2>5, WaitKeptStill
<1> QED
  BY <1>1, <1>2, <1>3, <1>4

\* The workers a thread lacks are none it asked for: holding them too is
\* one more attempt's worth of workers.
LEMMA WidenCounts ==
  ASSUME NEW f \in SUBSET WorkerKinds, NEW g \in SUBSET WorkerKinds,
         g # {}, f \cap g = {}
  PROVE  Cardinality(f) + 1 <= Cardinality(f \cup g)
<1>1. IsFiniteSet(WorkerKinds)
  <2>1. WorkerKinds = {"image"} \cup {"video"}
    BY DEF WorkerKinds
  <2> QED
    BY <2>1, FS_Singleton, FS_Union
<1>2. PICK k \in g : k \notin f
  OBVIOUS
<1>3. IsFiniteSet(f) /\ IsFiniteSet(f \cup g)
  BY <1>1, FS_Subset
<1>4. Cardinality(f \cup {k}) = Cardinality(f) + 1
  BY <1>2, <1>3, FS_AddElement
<1>5. Cardinality(f \cup {k}) <= Cardinality(f \cup g)
  BY <1>2, <1>3, FS_Subset
<1> QED
  BY <1>4, <1>5

\* Within a call, the step leaves the attempts and the workers forced.
SameAttempt(t) ==
  call'[t].attempt = call[t].attempt /\ call'[t].force = call[t].force

\* A step of a call keeps WaitInv: under the build lock it queues nothing
\* on a worker, for it holds those it releases on.
LEMMA InCallWait ==
  ASSUME CoreInv, WaitInv, NEW t \in Threads, InCall(t)
  PROVE  WaitInv'
<1> USE DEF CoreInv, TypeOK, CallType
<1>0. CallOK(t) /\ WaitOK(t) /\ Others(t) /\ call[t] \in CallRec
  BY InCallCallOK DEF CallInv, WaitInv
<1>1. CASE Reserve(t)
  <2>1. PICK w : /\ call' = [call EXCEPT ![t] = [@ EXCEPT !.want = w]]
                 /\ call[t].force \subseteq w
                 /\ pc' = [pc EXCEPT ![t] = "queue"]
                 /\ pc[t] = "reserve" /\ queue' = queue
    BY <1>1 DEF Reserve
  <2>2. SameAttempt(t) /\ call'[t].want = w /\ ~Waiting(t)'
    BY <1>0, <2>1, WantFields, QueueUnchanged DEF SameAttempt, WaitOK
  <2>3. WaitOK(t)'
    BY <1>0, <2>1, <2>2 DEF WaitOK, SameAttempt
  <2> QED
    BY <1>0, <2>1, <2>3, WaitKeptStill
<1>2. CASE TakeBuildLock(t)
  <2>1. /\ pc' = [pc EXCEPT ![t] = "locked"] /\ pc[t] = "queue"
        /\ call[t].want \subseteq HeldKinds(t) /\ UNCHANGED <<call, queue>>
    BY <1>2 DEF TakeBuildLock
  <2>2. ~Waiting(t)' /\ \A k \in call[t].want : Holds(t, k)'
    BY <1>0, <2>1, QueueUnchanged DEF WaitOK, HeldKinds
  <2>3. WaitOK(t)'
    BY <1>0, <2>1, <2>2 DEF WaitOK
  <2> QED
    BY <1>0, <2>1, <2>3, WaitKeptStill
<1>3. CASE \E k \in WorkerKinds : Submit(t, k)
  <2>1. PICK k \in WorkerKinds : Submit(t, k)
    BY <1>3
  <2>2. HoldOf(t) \in Items /\ HoldOf(t).what = "hold" /\ HoldOf(t).by = t
    BY DEF HoldOf, Item, Items
  <2>3. Queues(t, k, HoldOf(t))
    BY <2>1, <2>2 DEF Submit, Queues
  <2>4. HoldsKept(t) /\ WaitsKept(t) /\ (Waiting(t)' => Waiting(t))
    BY <2>2, <2>3, QueuesKept DEF HoldsKept
  <2>5. WaitOK(t)'
    BY <1>0, <2>1, <2>4 DEF WaitOK, Submit
  <2> QED
    BY <1>0, <2>4, <2>5, WaitKept
<1>4. CASE RecheckHit(t)
  <2>1. /\ call' = [call EXCEPT ![t] = [@ EXCEPT !.then = "done"]]
        /\ pc' = [pc EXCEPT ![t] = "leave"]
        /\ pc[t] = "locked" /\ queue' = queue
    BY <1>4 DEF RecheckHit
  <2>2. SameAttempt(t) /\ ~Waiting(t)'
    BY <1>0, <2>1, ThenFields, QueueUnchanged DEF SameAttempt, WaitOK
  <2>3. WaitOK(t)'
    BY <1>0, <2>1, <2>2 DEF WaitOK, SameAttempt
  <2> QED
    BY <1>0, <2>1, <2>3, WaitKeptStill
<1>5. CASE Widen(t)
  <2> DEFINE f == Widened(call[t].force, Missing(t))
             a == call[t].attempt + 1
             v == IF call[t].attempt < MaxAttempts THEN "retry" ELSE "fail"
             d == [call[t] EXCEPT !.force = f, !.want = {}, !.attempt = a, !.then = v]
  <2>1. /\ call' = [call EXCEPT ![t] = d] /\ pc' = [pc EXCEPT ![t] = "leave"]
        /\ pc[t] = "locked" /\ Missing(t) # {} /\ queue' = queue
    BY <1>5 DEF Widen
  <2>2. call[t].force \cap Missing(t) = {}
    BY <1>0, <2>1 DEF WaitOK, Missing, HeldKinds, VictimKinds, KindsOf
  <2>3. call[t].force \in SUBSET WorkerKinds /\ Missing(t) \in SUBSET WorkerKinds
    BY CallFields DEF Missing, VictimKinds, KindsOf
  <2>4. Cardinality(call[t].force) + 1 <= Cardinality(f)
    BY <2>1, <2>2, <2>3, WidenCounts DEF Widened
  <2>5. Cardinality(f) \in Nat /\ Cardinality(call[t].force) \in Nat
    <3>1. IsFiniteSet(WorkerKinds)
      <4>1. WorkerKinds = {"image"} \cup {"video"}
        BY DEF WorkerKinds
      <4> QED
        BY <4>1, FS_Singleton, FS_Union
    <3> QED
      BY <2>3, <3>1, FS_Subset, FS_CardinalityType DEF Widened
  <2>6. a <= Cardinality(f) + 1
    BY <1>0, <2>4, <2>5, CallFields DEF WaitOK
  <2>7. ~Waiting(t)'
    BY <1>0, <2>1, QueueUnchanged DEF WaitOK
  <2> HIDE DEF f, a, v
  <2>8. d.attempt = a /\ d.force = f
    BY <1>0, WidenFields
  <2> HIDE DEF d
  <2>9. WaitOK(t)'
    BY <2>1, <2>6, <2>7, <2>8 DEF WaitOK
  <2> QED
    BY <1>0, <2>1, <2>9, WaitKeptStill
<1>6. CASE MakeRoom(t)
  <2> DEFINE S == Victims(call[t].n, building)
  <2>1. /\ \E v : call' = [call EXCEPT ![t] = [@ EXCEPT !.then = v]]
        /\ pc' = [pc EXCEPT ![t] = "tear"]
        /\ pc[t] = "locked" /\ UNCHANGED <<queue, rel>> /\ Missing(t) = {}
    BY <1>6 DEF MakeRoom
  <2>2. torn' = [torn EXCEPT ![t] = {[m |-> m, n |-> foot[m]] : m \in S}]
    BY <1>6 DEF MakeRoom, TakeOut
  <2>3. rel'[t] = {}
    BY <1>0, <2>1 DEF CallOK
  <2>4. \A x \in torn'[t] : x.m \in S
    BY <2>2
  <2>5. \A m \in S : OnWorker(m) => Holds(t, Kind[m])
    BY <2>1 DEF Missing, VictimKinds, KindsOf, HeldKinds, OnWorker
  <2>6. SameAttempt(t) /\ ~Waiting(t)'
    BY <1>0, <2>1, ThenFields, QueueUnchanged DEF SameAttempt, WaitOK
  <2>7. \A k \in WorkerKinds : Holds(t, k) => Holds(t, k)'
    BY <2>1, QueueUnchanged
  <2>8. \A x \in torn'[t] \cup rel'[t] : OnWorker(x.m) => Holds(t, Kind[x.m])'
    BY <2>3, <2>4, <2>5, <2>7 DEF OnWorker
  <2>9. WaitOK(t)'
    BY <1>0, <2>1, <2>6, <2>8 DEF WaitOK, SameAttempt, OnWorker
  <2> QED
    BY <1>0, <2>1, <2>9, WaitKeptStill
<1>7. CASE \E past \in SUBSET Models : Detach(t, past)
  <2>1. /\ call[t].op # "acquire" /\ UNCHANGED <<call, queue>>
        /\ pc' = [pc EXCEPT ![t] = "tear"] /\ pc[t] = "locked"
    BY <1>7 DEF Detach, AllUnloads
  <2>2. ~Waiting(t)'
    BY <1>0, <2>1, QueueUnchanged DEF WaitOK
  <2>3. WaitOK(t)'
    BY <1>0, <2>1, <2>2 DEF WaitOK
  <2> QED
    BY <1>0, <2>1, <2>3, WaitKeptStill
<1>8. CASE \E x \in torn[t] : TearPipeline(t, x)
  <2>1. /\ UNCHANGED <<call, pc, queue>>
        /\ torn'[t] \cup rel'[t] \subseteq torn[t] \cup rel[t]
    BY <1>8 DEF TearPipeline
  <2>2. (Waiting(t)' => Waiting(t)) /\ \A k \in WorkerKinds : Holds(t, k) => Holds(t, k)'
    BY <2>1, QueueUnchanged
  <2>3. WaitOK(t)'
    BY <1>0, <2>1, <2>2, CallFields DEF WaitOK, OnWorker
  <2> QED
    BY <1>0, <2>1, <2>3, WaitKeptStill
<1>9. CASE \E x \in torn[t], r \in BOOLEAN : TearChat(t, x, r)
  <2>0. PICK x \in torn[t], r \in BOOLEAN : TearChat(t, x, r)
    BY <1>9
  <2>5. /\ torn' = [torn EXCEPT ![t] = @ \ {x}]
        /\ \E v : call' = [call EXCEPT ![t] = [@ EXCEPT !.then = v]]
        /\ UNCHANGED <<pc, queue, rel>> /\ pc[t] \in {"tear", "refit"}
    BY <2>0 DEF TearChat
  <2>1. /\ UNCHANGED <<pc, queue>> /\ pc[t] \in {"tear", "refit"}
        /\ \E v : call' = [call EXCEPT ![t] = [@ EXCEPT !.then = v]]
        /\ torn'[t] \cup rel'[t] \subseteq torn[t] \cup rel[t]
    BY <2>5
  <2>2. (Waiting(t)' => Waiting(t)) /\ \A k \in WorkerKinds : Holds(t, k) => Holds(t, k)'
    BY <2>1, QueueUnchanged
  <2>3. SameAttempt(t) /\ call'[t].op = call[t].op
    BY <1>0, <2>1, ThenFields DEF SameAttempt
  <2>4. WaitOK(t)'
    BY <1>0, <2>1, <2>2, <2>3 DEF WaitOK, OnWorker, SameAttempt
  <2> QED
    BY <1>0, <2>1, <2>4, WaitKeptStill
<1>10. CASE \E x \in rel[t] : Free(t, x)
  <2>1. /\ UNCHANGED <<call, pc, queue>>
        /\ torn'[t] \cup rel'[t] \subseteq torn[t] \cup rel[t]
    BY <1>10 DEF Free
  <2>2. (Waiting(t)' => Waiting(t)) /\ \A k \in WorkerKinds : Holds(t, k) => Holds(t, k)'
    BY <2>1, QueueUnchanged
  <2>3. WaitOK(t)'
    BY <1>0, <2>1, <2>2, CallFields DEF WaitOK, OnWorker
  <2> QED
    BY <1>0, <2>1, <2>3, WaitKeptStill
<1>11. CASE \E x \in rel[t] : QueueRelease(t, x)
  <2>1. PICK x \in rel[t] : QueueRelease(t, x)
    BY <1>11
  <2>2. OnWorker(x.m) /\ x.m \in Models
    BY <1>0 DEF CallOK, Torn
  <2>3. pc[t] = "late" /\ UNCHANGED <<pc, call, torn, rel>>
    BY <1>0, <2>1, <2>2 DEF QueueRelease, ReleasesBeside, WaitOK, HeldKinds, OnWorker
  <2>4. Item(t, "release", x.m) \in Items
    BY <2>2 DEF Item, Items
  <2>5. Queues(t, Kind[x.m], Item(t, "release", x.m)) /\ Kind[x.m] \in WorkerKinds
    BY <2>1, <2>2, <2>4 DEF QueueRelease, Queues, Item, OnWorker
  <2>6. HoldsKept(t) /\ WaitsKept(t)
    BY <2>5, QueuesKept DEF HoldsKept
  <2>7. WaitOK(t)'
    BY <1>0, <2>3 DEF WaitOK
  <2> QED
    BY <1>0, <2>6, <2>7, WaitKept
<1>12. CASE BuildFails(t) \/ BuildOk(t) \/ InsertFails(t) \/ Insert(t)
  <2>1. /\ \E v : call' = [call EXCEPT ![t] = [@ EXCEPT !.then = v]]
        /\ pc' = [pc EXCEPT ![t] = "leave"] \/ pc' = [pc EXCEPT ![t] = "refit"]
        /\ pc[t] \in {"tear", "refit"} /\ queue' = queue
    BY <1>12 DEF BuildFails, BuildOk, Building, InsertFails, Insert
  <2>2. SameAttempt(t) /\ ~Waiting(t)'
    BY <1>0, <2>1, ThenFields, QueueUnchanged DEF SameAttempt, WaitOK
  <2>3. WaitOK(t)'
    BY <1>0, <2>1, <2>2 DEF WaitOK, SameAttempt
  <2> QED
    BY <1>0, <2>1, <2>3, WaitKeptStill
<1>13. CASE BuildRepriced(t)
  <2>1. /\ \E n, v : call' = [call EXCEPT ![t] = [@ EXCEPT !.n = n, !.then = v]]
        /\ pc' = [pc EXCEPT ![t] = "refit"] /\ pc[t] = "tear" /\ queue' = queue
    BY <1>13 DEF BuildRepriced, Building
  <2>2. SameAttempt(t) /\ ~Waiting(t)'
    BY <1>0, <2>1, RepriceFields, QueueUnchanged DEF SameAttempt, WaitOK
  <2>3. WaitOK(t)'
    BY <1>0, <2>1, <2>2 DEF WaitOK, SameAttempt
  <2> QED
    BY <1>0, <2>1, <2>3, WaitKeptStill
<1>14. CASE Abort(t)
  <2>1. /\ UNCHANGED <<call, queue>>
        /\ pc' = [pc EXCEPT ![t] = "leave"] /\ pc[t] = "refit"
    BY <1>14 DEF Abort
  <2>2. ~Waiting(t)'
    BY <1>0, <2>1, QueueUnchanged DEF WaitOK
  <2>3. WaitOK(t)'
    BY <1>0, <2>1, <2>2 DEF WaitOK
  <2> QED
    BY <1>0, <2>1, <2>3, WaitKeptStill
<1>15. CASE Leave(t)
  <2>1. HoldsKept(t) /\ WaitsKept(t) /\ ~Waiting(t)'
    BY <1>0, <1>15, LeaveKept DEF WaitsKept, WaitOK, Leave, MayLeave
  <2>2. pc'[t] \in {"reserve", "late", "idle"}
    BY <1>15 DEF Leave
  <2>3. call'[t].attempt <= Cardinality(call'[t].force) + 1
    <3>1. CASE call[t].then = "retry"
      <4>1. call' = [call EXCEPT ![t] = [@ EXCEPT !.then = "done"]]
        BY <1>15, <3>1 DEF Leave
      <4> QED
        BY <1>0, <4>1, ThenFields DEF WaitOK
    <3>2. CASE call[t].then # "retry"
      <4>1. call'[t] = NoCall(AnyModel)
        BY <1>15, <3>2 DEF Leave
      <4>2. NoCall(AnyModel).force = {} /\ NoCall(AnyModel).attempt = 1
        BY DEF NoCall
      <4> QED
        BY <4>1, <4>2, FreshCall
    <3> QED
      BY <3>1, <3>2
  <2>4. WaitOK(t)'
    BY <2>1, <2>2, <2>3 DEF WaitOK
  <2> QED
    BY <1>0, <2>1, <2>4, WaitKept
<1> QED
  BY <1>1, <1>2, <1>3, <1>4, <1>5, <1>6, <1>7, <1>8, <1>9, <1>10, <1>11, <1>12,
     <1>13, <1>14, <1>15, InCallSteps

\* A worker's step keeps WaitInv: it ends what a thread outside the lock
\* waits for.
LEMMA WorkerWait ==
  ASSUME CoreInv, WaitInv, NEW k \in WorkerKinds, Worker(k)
  PROVE  WaitInv'
<1> USE DEF CoreInv, TypeOK, CallType
<1>1. Ends(k) /\ call' = call /\ torn' = torn
  BY DEF Worker, RunJob, RunRelease, Ends
<1>2. /\ \A u \in Threads, l \in WorkerKinds : Holds(u, l) => Holds(u, l)'
      /\ \A u \in Threads : Waiting(u)' => Waiting(u)
  BY <1>1, EndsKept
<1>3. \A u \in Threads : /\ rel'[u] \subseteq rel[u]
                         /\ \/ pc'[u] = pc[u]
                            \/ pc[u] = "late" /\ pc'[u] = "idle"
  <2>1. CASE RunJob(k)
    BY <2>1 DEF RunJob
  <2>2. CASE RunRelease(k)
    <3> DEFINE h == Head(queue[k]).by
    <3>1. PICK x \in rel[h] :
            /\ rel' = [rel EXCEPT ![h] = @ \ {x}]
            /\ pc' = [pc EXCEPT ![h] = IF @ = "late" /\ rel[h] = {x} THEN "idle" ELSE @]
      BY <2>2 DEF RunRelease
    <3> QED
      BY <3>1
  <2> QED
    BY <2>1, <2>2 DEF Worker
<1> SUFFICES ASSUME NEW u \in Threads PROVE WaitOK(u)'
  BY DEF WaitInv
<1>4. WaitOK(u) /\ call[u].want \subseteq WorkerKinds
  BY CallFields DEF WaitInv
<1> QED
  BY <1>1, <1>2, <1>3, <1>4 DEF WaitOK, OnWorker

\* Who holds which worker at which place of a call, in every state.
THEOREM Waits == Spec => [](CoreInv /\ WaitInv)
<1>1. Init => WaitInv
  <2> SUFFICES ASSUME Init, NEW t \in Threads PROVE WaitOK(t)
    BY DEF WaitInv
  <2>1. call[t].force = {} /\ call[t].attempt = 1
    BY DEF Init, NoCall
  <2>2. ~Waiting(t)
    BY DEF Init, Waiting
  <2> QED
    BY <2>1, <2>2, FreshCall DEF Init, WaitOK
<1>2. CoreInv /\ WaitInv /\ [Next]_vars => WaitInv'
  <2> SUFFICES ASSUME CoreInv, WaitInv, [Next]_vars PROVE WaitInv'
    OBVIOUS
  <2>1. ASSUME UNCHANGED vars PROVE WaitInv'
    BY <2>1 DEF vars, WaitInv, WaitOK, Waiting, Holds, OnWorker
  <2> QED
    BY <2>1, ClientWait, InCallWait, WorkerWait DEF Next, Over
<1> QED
  BY <1>1, <1>2, Core, PTL DEF Spec

\* Who holds the build lock never waits on a worker, whatever the threads
\* and models: so a reservation that waits for the lock and a release that
\* waits behind the reservation never wait for each other.
THEOREM NoWaitUnderLock == Spec => []NoWaitUnderBuildLock
<1>1. CoreInv /\ WaitInv => NoWaitUnderBuildLock
  BY DEF CoreInv, WaitInv, WaitOK, LockInv, Critical, NoWaitUnderBuildLock
<1> QED
  BY <1>1, Waits, PTL

\* A cold load that finds a worker missing has it the next time, whatever
\* the others do meanwhile: one attempt per worker and one more always do,
\* and the deferral after the last is dead code.
THEOREM AttemptsSuffice == Spec => []NeverGivesUp
<1>1. CoreInv /\ WaitInv => NeverGivesUp
  <2> SUFFICES ASSUME CoreInv, WaitInv, NEW t \in Threads
               PROVE  call[t].attempt <= MaxAttempts
    BY DEF NeverGivesUp
  <2>1. call[t].attempt <= Cardinality(call[t].force) + 1
    BY DEF WaitInv, WaitOK
  <2>2. IsFiniteSet(WorkerKinds)
    <3>1. WorkerKinds = {"image"} \cup {"video"}
      BY DEF WorkerKinds
    <3> QED
      BY <3>1, FS_Singleton, FS_Union
  <2>3. call[t].force \in SUBSET WorkerKinds /\ call[t].attempt \in Nat
    BY CallFields DEF CoreInv
  <2>4. Cardinality(call[t].force) <= Cardinality(WorkerKinds)
    BY <2>2, <2>3, FS_Subset
  <2>5. Cardinality(call[t].force) \in Nat /\ Cardinality(WorkerKinds) \in Nat
    BY <2>2, <2>3, FS_Subset, FS_CardinalityType
  <2> QED
    BY <2>1, <2>3, <2>4, <2>5 DEF MaxAttempts
<1> QED
  BY <1>1, Waits, PTL
=============================================================================
