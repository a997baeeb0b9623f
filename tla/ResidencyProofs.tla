-------------------------- MODULE ResidencyProofs --------------------------
(***************************************************************************)
(* What the pool guarantees for every set of threads and models.           *)
(***************************************************************************)
EXTENDS Residency, FiniteSetTheorems, TLAPS


USE DEF pool, bytes, refs, Goto

\* The model a call record starts from is one of the models.
LEMMA AnyModelIsModel == AnyModel \in Models
  BY ConstantsAssumption DEF AnyModel

\* The record of no call is a call record.
LEMMA NoCallType == ASSUME NEW m \in Models PROVE NoCall(m) \in CallRec
  BY DEF NoCall, CallRec

\* What a miss writes into the record keeps its type (acquire's cold path).
LEMMA AcquireRecord ==
  ASSUME NEW c \in CallRec, NEW n \in Nat
  PROVE  [c EXCEPT !.op = "acquire", !.n = n] \in CallRec
  BY DEF CallRec

\* What an unload writes into the record keeps its type.
LEMMA UnloadRecord ==
  ASSUME NEW c \in CallRec, NEW op \in AllUnloads, NEW w \in SUBSET WorkerKinds
  PROVE  [c EXCEPT !.op = op, !.want = w] \in CallRec
  BY DEF CallRec

\* So does every step that only decides how the call goes on.
LEMMA ThenRecord ==
  ASSUME NEW c \in CallRec,
         NEW v \in {"build", "insert", "fail", "done", "retry"}
  PROVE  [c EXCEPT !.then = v] \in CallRec
  BY DEF CallRec

\* So does the reservation of the workers.
LEMMA WantRecord ==
  ASSUME NEW c \in CallRec, NEW w \in SUBSET WorkerKinds
  PROVE  [c EXCEPT !.want = w] \in CallRec
  BY DEF CallRec

\* So does an attempt that widens the reservation.
LEMMA WidenRecord ==
  ASSUME NEW c \in CallRec, NEW f \in SUBSET WorkerKinds,
         NEW w \in SUBSET WorkerKinds, NEW a \in Nat \ {0},
         NEW v \in {"build", "insert", "fail", "done", "retry"}
  PROVE  [c EXCEPT !.force = f, !.want = w, !.attempt = a, !.then = v] \in CallRec
  BY DEF CallRec

\* So does the refit at the price of the built model.
LEMMA RepriceRecord ==
  ASSUME NEW c \in CallRec, NEW n \in Nat,
         NEW v \in {"build", "insert", "fail", "done", "retry"}
  PROVE  [c EXCEPT !.n = n, !.then = v] \in CallRec
  BY DEF CallRec

\* What a call's record holds, for the steps that read it.
LEMMA CallFields ==
  ASSUME TypeOK, NEW t \in Threads
  PROVE  /\ call[t] \in CallRec
         /\ call[t].m \in Models /\ call[t].n \in Nat
         /\ call[t].force \subseteq WorkerKinds
         /\ call[t].want \subseteq WorkerKinds
         /\ call[t].attempt \in Nat \ {0}
         /\ call[t].then \in {"build", "insert", "fail", "done", "retry"}
  BY DEF TypeOK, CallType, CallRec

\* An empty pool has the right type.
LEMMA InitType == Init => TypeOK
<1> SUFFICES ASSUME Init PROVE TypeOK
  OBVIOUS
<1>1. PoolType
  BY DEF Init, PoolType
<1>4. RefsType /\ building \in Nat
  BY DEF Init, RefsType
<1>2. QueueType
  BY DEF Init, QueueType
<1>3. CallType
  <2>1. call \in [Threads -> CallRec]
    BY AnyModelIsModel, NoCallType DEF Init
  <2> QED
    BY <2>1, ConstantsAssumption DEF Init, CallType, Places
<1> QED
  BY <1>1, <1>2, <1>3, <1>4 DEF TypeOK

\* _touch keeps the order of use well typed.
LEMMA TouchType ==
  ASSUME PoolType, NEW m \in Models, Touch(m), resident' \subseteq Models
  PROVE  older' \in [Models -> SUBSET Models]
  BY DEF Touch, PoolType

\* Taking a hit keeps the entries and the references well typed.
LEMMA TakeHitType ==
  ASSUME TypeOK, NEW t \in Threads, NEW m \in Models, TakeHit(t, m)
  PROVE  PoolType' /\ RefsType'
<1>1. older' \in [Models -> SUBSET Models]
  BY TouchType DEF TakeHit, TypeOK, PoolType
<1>2. busy' \in [Models -> Nat]
  BY DEF TakeHit, TypeOK, PoolType
<1>3. holds' \in [Threads -> SUBSET Models]
  BY DEF TakeHit, TypeOK, RefsType
<1>4. PoolType'
  BY <1>1, <1>2 DEF TakeHit, TypeOK, PoolType
<1>5. RefsType'
  BY <1>3 DEF TakeHit, TypeOK, RefsType
<1> QED
  BY <1>4, <1>5

\* Entries taken out leave every entry's figures in range.
LEMMA TakeOutType ==
  ASSUME TypeOK, NEW t \in Threads, NEW S \in SUBSET Models, TakeOut(t, S)
  PROVE  /\ PoolType' /\ RefsType'
         /\ torn' \in [Threads -> SUBSET Torn]
<1>1. foot' \in [Models -> Nat]
  BY DEF TakeOut, TypeOK, PoolType
<1>2. busy' \in [Models -> Nat] /\ retained' \in [Models -> Nat]
  BY DEF TakeOut, TypeOK, PoolType
<1>3. older' \in [Models -> SUBSET Models]
  BY DEF TakeOut, TypeOK, PoolType
<1>4. orphan' \in [Threads -> SUBSET Models]
  BY DEF TakeOut, TypeOK, RefsType
<1>5. {[m |-> m, n |-> foot[m]] : m \in S} \in SUBSET Torn
  BY DEF TypeOK, PoolType, Torn
<1>6. torn' \in [Threads -> SUBSET Torn]
  BY <1>5 DEF TakeOut, TypeOK, CallType
<1>7. PoolType'
  BY <1>1, <1>2, <1>3 DEF TakeOut, TypeOK, PoolType
<1>8. RefsType'
  BY <1>4 DEF TakeOut, TypeOK, RefsType
<1> QED
  BY <1>6, <1>7, <1>8

\* What a client does between the steps of a call keeps the types:
\* a hit, a miss, a job, a mark, a release, the start of an unload.
LEMMA ClientType ==
  ASSUME TypeOK, NEW t \in Threads, Client(t)
  PROVE  TypeOK'
<1> PICK m \in Models :
      \/ AcquireHit(t, m) \/ AcquireMiss(t, m) \/ UseWorker(t, m)
      \/ MarkRetained(t, m) \/ Release(t, m)
      \/ \E op \in UnloadOps, past \in SUBSET Models : Unload(t, op, m, past)
  BY DEF Client
<1>1. CASE AcquireHit(t, m)
  <2>1. PoolType' /\ RefsType'
    BY <1>1, TakeHitType DEF AcquireHit
  <2>2. CallType'
    BY <1>1 DEF TypeOK, CallType, AcquireHit, MayAcquire, MayCall
  <2>3. QueueType' /\ building' \in Nat
    BY <1>1 DEF TypeOK, QueueType, AcquireHit
  <2> QED
    BY <2>1, <2>2, <2>3 DEF TypeOK
<1>2. CASE AcquireMiss(t, m)
  <2>1. [NoCall(m) EXCEPT !.op = "acquire", !.n = Price[m]] \in CallRec
    <3>1. Price[m] \in Nat
      BY ConstantsAssumption
    <3> QED
      BY <3>1, NoCallType, AcquireRecord
  <2>2. call' \in [Threads -> CallRec]
    BY <1>2, <2>1 DEF TypeOK, CallType, AcquireMiss
  <2>3. CallType'
    BY <1>2, <2>2 DEF TypeOK, CallType, AcquireMiss, MayAcquire, MayCall, Places
  <2> QED
    BY <1>2, <2>3 DEF TypeOK, AcquireMiss, PoolType, QueueType, RefsType
<1>3. CASE UseWorker(t, m)
  <2>1. Item(t, "job", m) \in Items /\ Kind[m] \in WorkerKinds
    BY <1>3 DEF UseWorker, OnWorker, Item, Items
  <2>2. queue' \in [WorkerKinds -> Seq(Items)]
    BY <1>3, <2>1 DEF TypeOK, QueueType, UseWorker
  <2>3. CallType'
    BY <1>3 DEF TypeOK, CallType, UseWorker, MayCall
  <2> QED
    BY <1>3, <2>2, <2>3 DEF TypeOK, UseWorker, PoolType, QueueType, RefsType
<1>4. CASE MarkRetained(t, m)
  <2>1. retained' \in [Models -> Nat] /\ marked' \in [Threads -> SUBSET Models]
    BY <1>4 DEF TypeOK, PoolType, RefsType, MarkRetained
  <2>2. PoolType' /\ RefsType'
    BY <1>4, <2>1 DEF TypeOK, PoolType, RefsType, MarkRetained
  <2> QED
    BY <1>4, <2>2 DEF TypeOK, MarkRetained, QueueType, CallType
<1>5. CASE Release(t, m)
  <2>1. busy' \in [Models -> Nat]
    BY <1>5 DEF TypeOK, PoolType, Release, Max0
  <2>2. PoolType'
    BY <1>5, <2>1 DEF TypeOK, PoolType, Release
  <2>3. RefsType'
    BY <1>5 DEF TypeOK, RefsType, Release
  <2> QED
    BY <1>5, <2>2, <2>3 DEF TypeOK, Release, QueueType, CallType
<1>6. CASE \E op \in UnloadOps, past \in SUBSET Models : Unload(t, op, m, past)
  <2> PICK op \in UnloadOps, past \in SUBSET Models : Unload(t, op, m, past)
    BY <1>6
  <2>1. ASSUME NEW w \in SUBSET WorkerKinds
        PROVE  [NoCall(m) EXCEPT !.op = op, !.want = w] \in CallRec
    <3>1. op \in AllUnloads
      BY ConstantsAssumption
    <3> QED
      BY <3>1, NoCallType, UnloadRecord
  <2>2. PICK w \in SUBSET WorkerKinds :
          call' = [call EXCEPT ![t] = [NoCall(m) EXCEPT !.op = op, !.want = w]]
    <3> DEFINE picked == CASE op = "evict" -> {m}
                           [] op = "reap" -> Reapable \cap past
                           [] OTHER -> resident
               w == KindsOf({x \in resident \cap picked : busy[x] = 0})
    <3>1. w \in SUBSET WorkerKinds
      BY DEF KindsOf
    <3> QED
      BY <3>1 DEF Unload
  <2>4. call' \in [Threads -> CallRec]
    BY <2>1, <2>2 DEF TypeOK, CallType
  <2>3. CallType'
    <3>1. /\ pc' = [pc EXCEPT ![t] = "queue"]
          /\ calls' = [calls EXCEPT ![t] = @ - 1] /\ calls[t] > 0
          /\ UNCHANGED <<torn, rel>>
      BY DEF Unload, MayCall
    <3> QED
      BY <2>4, <3>1 DEF TypeOK, CallType, Places
  <2> QED
    BY <2>3 DEF TypeOK, Unload, PoolType, QueueType, RefsType
<1> QED
  BY <1>1, <1>2, <1>3, <1>4, <1>5, <1>6

\* An eviction takes idle entries of the pool, and nothing else.
LEMMA VictimsAreResident ==
  ASSUME NEW n, NEW b PROVE Victims(n, b) \subseteq Idle /\ Idle \subseteq resident
  BY DEF Victims, Idle

\* Every step of a call under way keeps the types.
LEMMA InCallType ==
  ASSUME TypeOK, NEW t \in Threads, InCall(t)
  PROVE  TypeOK'
<1>1. CASE Reserve(t)
  <2>1. [call[t] EXCEPT !.want = @ \cup call[t].force \cup KindsOf({call[t].m})
           \cup VictimKinds(call[t].n, building)] \in CallRec
    BY CallFields, WantRecord DEF KindsOf, VictimKinds
  <2>2. CallType'
    BY <1>1, <2>1 DEF TypeOK, CallType, Reserve, Places
  <2> QED
    BY <1>1, <2>2 DEF TypeOK, Reserve, PoolType, QueueType, RefsType
<1>2. CASE \E k \in WorkerKinds : Submit(t, k)
  <2> PICK k \in WorkerKinds : Submit(t, k)
    BY <1>2
  <2>1. HoldOf(t) \in Items
    BY DEF HoldOf, Item, Items
  <2>2. QueueType'
    BY <2>1 DEF TypeOK, QueueType, Submit
  <2> QED
    BY <2>2 DEF TypeOK, Submit, PoolType, CallType, RefsType
<1>3. CASE TakeBuildLock(t)
  BY <1>3 DEF TypeOK, TakeBuildLock, PoolType, QueueType, CallType, RefsType, Places
<1>4. CASE RecheckHit(t)
  <2>1. PoolType' /\ RefsType'
    BY <1>4, TakeHitType, CallFields DEF RecheckHit
  <2>2. CallType'
    BY <1>4, CallFields, ThenRecord DEF TypeOK, CallType, RecheckHit, Places
  <2> QED
    BY <1>4, <2>1, <2>2 DEF TypeOK, RecheckHit, QueueType
<1>5. CASE Widen(t)
  <2>1. Widened(call[t].force, Missing(t)) \in SUBSET WorkerKinds
    BY CallFields DEF Widened, Missing, VictimKinds, KindsOf
  <2>2. [call[t] EXCEPT !.force = Widened(@, Missing(t)), !.want = {},
           !.attempt = @ + 1,
           !.then = IF call[t].attempt < MaxAttempts THEN "retry" ELSE "fail"]
         \in CallRec
    <3> DEFINE f == Widened(call[t].force, Missing(t))
               a == call[t].attempt + 1
               v == IF call[t].attempt < MaxAttempts THEN "retry" ELSE "fail"
    <3>1. a \in Nat \ {0} /\ f \in SUBSET WorkerKinds
      BY <2>1, CallFields
    <3>2. v \in {"build", "insert", "fail", "done", "retry"}
      OBVIOUS
    <3>3. call[t] \in CallRec
      BY CallFields
    <3> HIDE DEF f, a, v
    <3>4. [call[t] EXCEPT !.force = f, !.want = {}, !.attempt = a, !.then = v] \in CallRec
      BY <3>1, <3>2, <3>3, WidenRecord
    <3> QED
      BY <3>4 DEF f, a, v
  <2>3. CallType'
    BY <1>5, <2>2 DEF TypeOK, CallType, Widen, Places
  <2> QED
    BY <1>5, <2>3 DEF TypeOK, Widen, PoolType, QueueType, RefsType
<1>6. CASE MakeRoom(t)
  <2>1. Victims(call[t].n, building) \in SUBSET Models
    BY VictimsAreResident DEF TypeOK, PoolType
  <2>2. PoolType' /\ RefsType' /\ torn' \in [Threads -> SUBSET Torn]
    BY <1>6, <2>1, TakeOutType DEF MakeRoom
  <2>3. CallType'
    BY <1>6, <2>2, CallFields, ThenRecord DEF TypeOK, CallType, MakeRoom, Places
  <2>4. building' \in Nat
    BY <1>6, CallFields DEF TypeOK, MakeRoom
  <2> QED
    BY <1>6, <2>2, <2>3, <2>4 DEF TypeOK, MakeRoom, QueueType
<1>7. CASE \E past \in SUBSET Models : Detach(t, past)
  <2> PICK past \in SUBSET Models : Detach(t, past)
    BY <1>7
  <2>1. Unloadable(call[t].op, call[t].m, past) \in SUBSET Models
    BY DEF TypeOK, PoolType, Unloadable, Reapable
  <2>2. PoolType' /\ RefsType' /\ torn' \in [Threads -> SUBSET Torn]
    BY <2>1, TakeOutType DEF Detach
  <2>3. CallType'
    BY <2>2 DEF TypeOK, CallType, Detach, Places
  <2> QED
    BY <2>2, <2>3 DEF TypeOK, Detach, QueueType
<1>8. CASE \E x \in torn[t] : TearPipeline(t, x)
  <2> PICK x \in torn[t] : TearPipeline(t, x)
    BY <1>8
  <2>1. CallType'
    BY DEF TypeOK, CallType, TearPipeline
  <2> QED
    BY <2>1 DEF TypeOK, TearPipeline, PoolType, QueueType, RefsType
<1>9. CASE \E x \in torn[t], r \in BOOLEAN : TearChat(t, x, r)
  <2> PICK x \in torn[t], r \in BOOLEAN : TearChat(t, x, r)
    BY <1>9
  <2>1. CallType'
    BY CallFields, ThenRecord DEF TypeOK, CallType, TearChat
  <2> QED
    BY <2>1 DEF TypeOK, TearChat, PoolType, QueueType, RefsType
<1>10. CASE \E x \in rel[t] : Free(t, x) \/ QueueRelease(t, x)
  <2> PICK x \in rel[t] : Free(t, x) \/ QueueRelease(t, x)
    BY <1>10
  <2>1. CASE Free(t, x)
    BY <2>1 DEF TypeOK, Free, PoolType, QueueType, CallType, RefsType
  <2>2. CASE QueueRelease(t, x)
    <3>1. Item(t, "release", x.m) \in Items
      BY DEF TypeOK, CallType, Torn, Item, Items
    <3>2. QueueType'
      <4>1. queue' = [j \in WorkerKinds |->
                        IF j = Kind[x.m] THEN Append(queue[j], Item(t, "release", x.m))
                        ELSE queue[j]]
        BY <2>2 DEF TypeOK, QueueType, QueueRelease
      <4>2. ASSUME NEW j \in WorkerKinds PROVE queue'[j] \in Seq(Items)
        BY <3>1, <4>1 DEF TypeOK, QueueType
      <4>3. queue' \in [WorkerKinds -> Seq(Items)]
        BY <4>1, <4>2
      <4> QED
        BY <2>2, <4>3 DEF TypeOK, QueueType, QueueRelease
    <3> QED
      BY <2>2, <3>2 DEF TypeOK, QueueRelease, PoolType, CallType, RefsType
  <2> QED
    BY <2>1, <2>2
<1>11. CASE BuildFails(t) \/ BuildOk(t)
  <2>1. CallType'
    <3>1. CASE BuildFails(t)
      BY <3>1, CallFields, ThenRecord DEF TypeOK, CallType, BuildFails, Places
    <3>2. CASE BuildOk(t)
      BY <3>2, CallFields, ThenRecord DEF TypeOK, CallType, BuildOk, Places
    <3> QED
      BY <1>11, <3>1, <3>2
  <2> QED
    BY <1>11, <2>1
    DEF TypeOK, BuildFails, BuildOk, Unbook, PoolType, QueueType, RefsType
<1>12. CASE BuildRepriced(t)
  <2> DEFINE n == call[t].n + Extra[call[t].m]
  <2>1. n \in Nat
    BY CallFields, ConstantsAssumption
  <2>2. Victims(n, 0) \in SUBSET Models
    BY VictimsAreResident DEF TypeOK, PoolType
  <2>3. PoolType' /\ RefsType' /\ torn' \in [Threads -> SUBSET Torn]
    BY <1>12, <2>2, TakeOutType DEF BuildRepriced
  <2>4. CallType'
    BY <1>12, <2>1, <2>3, CallFields, RepriceRecord
    DEF TypeOK, CallType, BuildRepriced, Places
  <2>5. building' \in Nat
    BY <1>12, <2>1 DEF BuildRepriced
  <2> QED
    BY <1>12, <2>3, <2>4, <2>5 DEF TypeOK, BuildRepriced, QueueType
<1>13. CASE Abort(t)
  BY <1>13 DEF TypeOK, Abort, Unbook, PoolType, QueueType, CallType, RefsType, Places
<1>14. CASE InsertFails(t)
  <2>1. [m |-> call[t].m, n |-> 0] \in Torn
    BY CallFields DEF Torn
  <2>2. CallType'
    BY <1>14, <2>1, CallFields, ThenRecord
    DEF TypeOK, CallType, InsertFails, Places
  <2> QED
    BY <1>14, <2>2 DEF TypeOK, InsertFails, Unbook, PoolType, QueueType, RefsType
<1>15. CASE Insert(t)
  <2>1. older' \in [Models -> SUBSET Models]
    BY <1>15, CallFields, TouchType DEF TypeOK, PoolType, Insert
  <2>2. PoolType'
    BY <1>15, <2>1, CallFields DEF TypeOK, PoolType, Insert
  <2>3. RefsType'
    BY <1>15, CallFields DEF TypeOK, RefsType, Insert
  <2>4. CallType'
    BY <1>15, CallFields, ThenRecord DEF TypeOK, CallType, Insert, Places
  <2> QED
    BY <1>15, <2>2, <2>3, <2>4 DEF TypeOK, Insert, QueueType
<1>16. CASE Leave(t)
  <2>1. QueueType'
    BY <1>16 DEF TypeOK, QueueType, Leave, Holds
  <2>2. NoCall(AnyModel) \in CallRec /\ [call[t] EXCEPT !.then = "done"] \in CallRec
    BY AnyModelIsModel, NoCallType, CallFields, ThenRecord
  <2>3. CallType'
    BY <1>16, <2>2 DEF TypeOK, CallType, Leave, Places
  <2> QED
    BY <1>16, <2>1, <2>3 DEF TypeOK, Leave, PoolType, RefsType
<1> QED
  BY <1>1, <1>2, <1>3, <1>4, <1>5, <1>6, <1>7, <1>8, <1>9, <1>10, <1>11, <1>12,
     <1>13, <1>14, <1>15, <1>16 DEF InCall

\* A worker that ends a job or a release keeps the types.
LEMMA WorkerType ==
  ASSUME TypeOK, NEW k \in WorkerKinds, Worker(k)
  PROVE  TypeOK'
<1>1. CASE RunJob(k)
  <2>1. QueueType'
    BY <1>1 DEF TypeOK, QueueType, RunJob
  <2> QED
    BY <1>1, <2>1 DEF TypeOK, RunJob, PoolType, CallType, RefsType
<1>2. CASE RunRelease(k)
  <2>1. QueueType'
    BY <1>2 DEF TypeOK, QueueType, RunRelease
  <2>2. CallType'
    <3> DEFINE u == Head(queue[k]).by
    <3>1. PICK x \in rel[u] :
            /\ rel' = [rel EXCEPT ![u] = @ \ {x}]
            /\ pc' = [pc EXCEPT ![u] = IF @ = "late" /\ rel[u] = {x} THEN "idle" ELSE @]
            /\ UNCHANGED <<call, torn, calls>>
      BY <1>2 DEF RunRelease
    <3>2. rel' \in [Threads -> SUBSET Torn]
      BY <3>1 DEF TypeOK, CallType
    <3>3. pc' \in [Threads -> Places]
      BY <3>1 DEF TypeOK, CallType, Places
    <3> QED
      BY <3>1, <3>2, <3>3 DEF TypeOK, CallType
  <2> QED
    BY <1>2, <2>1, <2>2 DEF TypeOK, RunRelease, PoolType, RefsType
<1> QED
  BY <1>1, <1>2 DEF Worker

\* Every variable of the pool keeps its type, whatever the threads, the
\* models, their prices and the bounds on the calls are.
THEOREM TypeCorrect == Spec => []TypeOK
<1>1. TypeOK /\ [Next]_vars => TypeOK'
  <2> SUFFICES ASSUME TypeOK, [Next]_vars PROVE TypeOK'
    OBVIOUS
  <2>1. ASSUME UNCHANGED vars PROVE TypeOK'
    BY <2>1 DEF vars, TypeOK, PoolType, QueueType, CallType, RefsType
  <2> QED
    BY <2>1, ClientType, InCallType, WorkerType DEF Next, Over
<1> QED
  BY <1>1, InitType, PTL DEF Spec

-----------------------------------------------------------------------------
(* The build lock.                                                         *)

Critical == {"locked", "tear", "refit", "leave"}

\* The places of the build lock's holder, and of no one else.
LockInv == \A t \in Threads : pc[t] \in Critical <=> lock = t

\* How a step moves t: outside the build lock, into it, under it, out of it.
Outside(t) ==
  \E p \in Places \ Critical :
    pc[t] \notin Critical /\ pc' = [pc EXCEPT ![t] = p] /\ lock' = lock
Enter(t) ==
  lock = NoOne /\ lock' = t /\ pc' = [pc EXCEPT ![t] = "locked"]
Inside(t) ==
  \E p \in Critical :
    pc[t] \in Critical /\ pc' = [pc EXCEPT ![t] = p] /\ lock' = lock
Exit(t) ==
  \E p \in Places \ Critical :
    pc[t] \in Critical /\ pc' = [pc EXCEPT ![t] = p] /\ lock' = NoOne

Move(t) == Outside(t) \/ Enter(t) \/ Inside(t) \/ Exit(t)

\* The steps of a call, for a proof by cases.
LEMMA InCallSteps ==
  ASSUME NEW t \in Threads, InCall(t)
  PROVE  \/ Reserve(t) \/ TakeBuildLock(t)
         \/ \E k \in WorkerKinds : Submit(t, k)
         \/ RecheckHit(t) \/ Widen(t) \/ MakeRoom(t)
         \/ \E past \in SUBSET Models : Detach(t, past)
         \/ \E x \in torn[t] : TearPipeline(t, x)
         \/ \E x \in torn[t], r \in BOOLEAN : TearChat(t, x, r)
         \/ \E x \in rel[t] : Free(t, x) \/ QueueRelease(t, x)
         \/ BuildFails(t) \/ BuildOk(t) \/ BuildRepriced(t) \/ Abort(t)
         \/ InsertFails(t) \/ Insert(t) \/ Leave(t)
  BY DEF InCall

\* Every step leaves the places and the build lock alone, or is the move
\* of one thread from a place of its call to the next.
LEMMA Moves ==
  ASSUME TypeOK, [Next]_vars
  PROVE  UNCHANGED <<pc, lock>> \/ \E t \in Threads : Move(t)
<1> USE DEF Critical, Places
<1>1. ASSUME NEW t \in Threads, Client(t)
      PROVE  UNCHANGED <<pc, lock>> \/ Move(t)
  <2>1. PICK m \in Models :
          \/ AcquireHit(t, m) \/ AcquireMiss(t, m) \/ UseWorker(t, m)
          \/ MarkRetained(t, m) \/ Release(t, m)
          \/ \E op \in UnloadOps, past \in SUBSET Models : Unload(t, op, m, past)
    BY <1>1 DEF Client
  <2>2. CASE \/ AcquireHit(t, m) \/ UseWorker(t, m)
             \/ MarkRetained(t, m) \/ Release(t, m)
    BY <2>2 DEF AcquireHit, UseWorker, MarkRetained, Release
  <2>3. CASE AcquireMiss(t, m)
    BY <2>3 DEF AcquireMiss, MayAcquire, MayCall, Outside, Move
  <2>4. CASE \E op \in UnloadOps, past \in SUBSET Models : Unload(t, op, m, past)
    BY <2>4 DEF Unload, MayCall, Outside, Move
  <2> QED
    BY <2>1, <2>2, <2>3, <2>4
<1>2. ASSUME NEW t \in Threads, InCall(t)
      PROVE  UNCHANGED <<pc, lock>> \/ Move(t)
  <2>1. CASE Reserve(t)
    BY <2>1 DEF Reserve, Outside, Move
  <2>2. CASE TakeBuildLock(t)
    BY <2>2 DEF TakeBuildLock, Enter, Move
  <2>3. CASE RecheckHit(t) \/ Widen(t) \/ MakeRoom(t)
    BY <2>3 DEF RecheckHit, Widen, MakeRoom, Inside, Move
  <2>4. CASE \E past \in SUBSET Models : Detach(t, past)
    BY <2>4 DEF Detach, Inside, Move
  <2>5. CASE \E k \in WorkerKinds : Submit(t, k)
    BY <2>5 DEF Submit
  <2>8. CASE \E x \in torn[t] : TearPipeline(t, x)
    BY <2>8 DEF TearPipeline
  <2>9. CASE \E x \in torn[t], r \in BOOLEAN : TearChat(t, x, r)
    BY <2>9 DEF TearChat
  <2>10. CASE \E x \in rel[t] : Free(t, x) \/ QueueRelease(t, x)
    BY <2>10 DEF Free, QueueRelease
  <2>6. CASE \/ BuildFails(t) \/ BuildOk(t) \/ BuildRepriced(t) \/ Abort(t)
             \/ InsertFails(t) \/ Insert(t)
    BY <2>6 DEF BuildFails, BuildOk, BuildRepriced, Building, Abort,
                InsertFails, Insert, Inside, Move
  <2>7. CASE Leave(t)
    <3>1. pc[t] \in Critical
      BY <2>7 DEF Leave, MayLeave
    <3> DEFINE p == IF call[t].then = "retry" THEN "reserve"
                    ELSE IF rel[t] # {} THEN "late" ELSE "idle"
    <3>2. p \in Places \ Critical
      OBVIOUS
    <3>4. pc' = [pc EXCEPT ![t] = p]
      BY <2>7 DEF Leave
    <3> HIDE DEF p
    <3>3. lock' = NoOne
      BY <2>7 DEF Leave
    <3> QED
      BY <3>1, <3>2, <3>3, <3>4 DEF Exit, Move
  <2> QED
    BY <1>2, <2>1, <2>2, <2>3, <2>4, <2>5, <2>6, <2>7, <2>8, <2>9, <2>10,
       InCallSteps
<1>3. ASSUME NEW k \in WorkerKinds, Worker(k)
      PROVE  UNCHANGED <<pc, lock>> \/ \E t \in Threads : Move(t)
  <2>1. CASE RunJob(k)
    BY <2>1 DEF RunJob
  <2>2. CASE RunRelease(k)
    <3> DEFINE u == Head(queue[k]).by
    <3>1. u \in Threads
      <4>1. queue[k] \in Seq(Items) /\ queue[k] # <<>>
        BY <2>2 DEF RunRelease, TypeOK, QueueType
      <4>2. Head(queue[k]) \in Items
        BY <4>1
      <4> QED
        BY <4>2 DEF Items
    <3>2. /\ lock' = lock
          /\ \E x \in rel[u] :
               pc' = [pc EXCEPT ![u] =
                        IF @ = "late" /\ rel[u] = {x} THEN "idle" ELSE @]
      BY <2>2 DEF RunRelease
    <3>3. CASE pc[u] = "late" /\ pc' = [pc EXCEPT ![u] = "idle"]
      BY <3>1, <3>2, <3>3 DEF Outside, Move
    <3>4. CASE pc' = pc
      BY <3>2, <3>4
    <3> QED
      BY <3>1, <3>2, <3>3, <3>4 DEF TypeOK, CallType
  <2> QED
    BY <1>3, <2>1, <2>2 DEF Worker
<1>4. CASE UNCHANGED vars \/ Over
  BY <1>4 DEF vars, Over
<1> QED
  BY <1>1, <1>2, <1>3, <1>4 DEF Next

\* Each step keeps the build lock with the one thread inside it.
LEMMA LockStep ==
  ASSUME TypeOK, LockInv, [Next]_vars
  PROVE  LockInv'
<1>1. CASE UNCHANGED <<pc, lock>>
  BY <1>1 DEF LockInv
<1>2. CASE \E t \in Threads : Outside(t) \/ Inside(t)
  BY <1>2 DEF LockInv, Outside, Inside, TypeOK, CallType
<1>3. CASE \E t \in Threads : Enter(t)
  BY <1>3, ConstantsAssumption DEF LockInv, Enter, TypeOK, CallType, Critical
<1>4. CASE \E t \in Threads : Exit(t)
  BY <1>4, ConstantsAssumption DEF LockInv, Exit, TypeOK, CallType
<1> QED
  BY <1>1, <1>2, <1>3, <1>4, Moves DEF Move

\* The build lock is its holder's alone: of two threads in a teardown, a
\* build or an insert, one has to wait (the pool's _build_lock).
THEOREM MutualExclusion == Spec => []LockInv
<1>1. Init => LockInv
  BY ConstantsAssumption DEF Init, LockInv, Critical
<1>2. TypeOK /\ LockInv /\ [Next]_vars => LockInv'
  BY LockStep
<1> QED
  BY <1>1, <1>2, TypeCorrect, PTL DEF Spec

-----------------------------------------------------------------------------
(* What a call carries from step to step.                                  *)

CallOK(t) ==
  /\ pc[t] \in {"idle", "late"} <=> call[t].op = "none"
  /\ call[t].op \in AllUnloads => call[t].then = "done"
  /\ pc[t] = "tear" /\ call[t].op = "acquire" => call[t].then \in {"build", "fail"}
  /\ pc[t] = "refit" => call[t].op = "acquire" /\ call[t].then \in {"insert", "fail"}
  /\ pc[t] \in {"idle", "reserve", "queue", "locked"} => rel[t] = {}
  /\ pc[t] \notin {"tear", "refit"} => torn[t] = {}
  /\ pc[t] = "leave" /\ call[t].then = "retry" => rel[t] = {}
  /\ \A x \in rel[t] : OnWorker(x.m)

CallInv == \A t \in Threads : CallOK(t)

\* A step of t leaves the calls of the others alone.
Others(t) ==
  \A u \in Threads \ {t} :
    pc'[u] = pc[u] /\ call'[u] = call[u] /\ torn'[u] = torn[u] /\ rel'[u] = rel[u]

\* A step of one thread that leaves the records of the others alone and
\* its own in order leaves all in order.
LEMMA CallOKStep ==
  ASSUME CallInv, NEW t \in Threads, Others(t), CallOK(t)'
  PROVE  CallInv'
<1> SUFFICES ASSUME NEW u \in Threads PROVE CallOK(u)'
  BY DEF CallInv
<1>1. CASE u = t
  BY <1>1
<1>2. CASE u # t
  <2>1. CallOK(u)
    BY DEF CallInv
  <2> QED
    BY <1>2, <2>1 DEF Others, CallOK, OnWorker
<1> QED
  BY <1>1, <1>2

\* An edit of one field of a call's record leaves the others as they were.
LEMMA ThenFields ==
  ASSUME NEW c \in CallRec, NEW v
  PROVE  /\ [c EXCEPT !.then = v].then = v
         /\ [c EXCEPT !.then = v].op = c.op
         /\ [c EXCEPT !.then = v].m = c.m
         /\ [c EXCEPT !.then = v].n = c.n
         /\ [c EXCEPT !.then = v].force = c.force
         /\ [c EXCEPT !.then = v].want = c.want
         /\ [c EXCEPT !.then = v].attempt = c.attempt
  BY DEF CallRec

\* Reserving workers leaves the other fields of the record as they are.
LEMMA WantFields ==
  ASSUME NEW c \in CallRec, NEW w
  PROVE  /\ [c EXCEPT !.want = w].then = c.then
         /\ [c EXCEPT !.want = w].op = c.op
         /\ [c EXCEPT !.want = w].m = c.m
         /\ [c EXCEPT !.want = w].n = c.n
         /\ [c EXCEPT !.want = w].force = c.force
         /\ [c EXCEPT !.want = w].want = w
         /\ [c EXCEPT !.want = w].attempt = c.attempt
  BY DEF CallRec

\* So does the refit, but for the price and how the call goes on.
LEMMA RepriceFields ==
  ASSUME NEW c \in CallRec, NEW n, NEW v
  PROVE  /\ [c EXCEPT !.n = n, !.then = v].then = v
         /\ [c EXCEPT !.n = n, !.then = v].op = c.op
         /\ [c EXCEPT !.n = n, !.then = v].m = c.m
         /\ [c EXCEPT !.n = n, !.then = v].n = n
         /\ [c EXCEPT !.n = n, !.then = v].force = c.force
         /\ [c EXCEPT !.n = n, !.then = v].attempt = c.attempt
  BY DEF CallRec

\* So does a wider reservation, but for the fields it writes.
LEMMA WidenFields ==
  ASSUME NEW c \in CallRec, NEW f, NEW w, NEW a, NEW v
  PROVE  LET d == [c EXCEPT !.force = f, !.want = w, !.attempt = a, !.then = v]
         IN  /\ d.then = v /\ d.op = c.op /\ d.m = c.m /\ d.n = c.n
             /\ d.force = f /\ d.want = w /\ d.attempt = a
  BY DEF CallRec

\* A client's step keeps every call record in order.
LEMMA ClientCallOK ==
  ASSUME TypeOK, CallInv, NEW t \in Threads, Client(t)
  PROVE  CallInv'
<1> PICK m \in Models :
      \/ AcquireHit(t, m) \/ AcquireMiss(t, m) \/ UseWorker(t, m)
      \/ MarkRetained(t, m) \/ Release(t, m)
      \/ \E op \in UnloadOps, past \in SUBSET Models : Unload(t, op, m, past)
  BY DEF Client
<1>0. CallOK(t)
  BY DEF CallInv
<1>1. CASE \/ AcquireHit(t, m) \/ UseWorker(t, m)
           \/ MarkRetained(t, m) \/ Release(t, m)
  <2>1. UNCHANGED <<pc, call, torn, rel>>
    BY <1>1 DEF AcquireHit, UseWorker, MarkRetained, Release
  <2> QED
    BY <2>1 DEF CallInv, CallOK, OnWorker
<1>2. CASE AcquireMiss(t, m)
  <2> DEFINE c == NoCall(m)
             d == [c EXCEPT !.op = "acquire", !.n = Price[m]]
  <2>1. d.op = "acquire"
    <3>1. c \in CallRec
      BY NoCallType
    <3> HIDE DEF c
    <3> QED
      BY <3>1 DEF CallRec
  <2>2. /\ call' = [call EXCEPT ![t] = d] /\ pc' = [pc EXCEPT ![t] = "reserve"]
        /\ UNCHANGED <<torn, rel>> /\ pc[t] = "idle"
    BY <1>2 DEF AcquireMiss, MayAcquire, MayCall
  <2> HIDE DEF d
  <2>3. Others(t) /\ pc'[t] = "reserve" /\ call'[t] = d
    BY <2>2 DEF Others, TypeOK, CallType
  <2>4. CallOK(t)'
    BY <1>0, <2>1, <2>2, <2>3 DEF CallOK, AllUnloads, OnWorker
  <2> QED
    BY <2>3, <2>4, CallOKStep
<1>3. CASE \E op \in UnloadOps, past \in SUBSET Models : Unload(t, op, m, past)
  <2> PICK op \in UnloadOps, past \in SUBSET Models : Unload(t, op, m, past)
    BY <1>3
  <2> DEFINE picked == CASE op = "evict" -> {m}
                         [] op = "reap" -> Reapable \cap past
                         [] OTHER -> resident
             w == KindsOf({x \in resident \cap picked : busy[x] = 0})
             c == NoCall(m)
             d == [c EXCEPT !.op = op, !.want = w]
  <2>1. d.op = op /\ d.then = "done"
    <3>1. c.then = "done" /\ c \in CallRec
      BY NoCallType DEF NoCall
    <3> HIDE DEF c, w
    <3> QED
      BY <3>1 DEF CallRec
  <2>2. /\ call' = [call EXCEPT ![t] = d] /\ pc' = [pc EXCEPT ![t] = "queue"]
        /\ UNCHANGED <<torn, rel>> /\ pc[t] = "idle"
    BY DEF Unload, MayCall
  <2>3. op \in AllUnloads
    BY ConstantsAssumption
  <2> HIDE DEF d
  <2>4. Others(t) /\ pc'[t] = "queue" /\ call'[t] = d
    BY <2>2 DEF Others, TypeOK, CallType
  <2>5. CallOK(t)'
    BY <1>0, <2>1, <2>2, <2>3, <2>4 DEF CallOK, AllUnloads, OnWorker
  <2> QED
    BY <2>4, <2>5, CallOKStep
<1> QED
  BY <1>1, <1>2, <1>3

\* A step of a call keeps its own record in order, and touches no other.
LEMMA InCallCallOK ==
  ASSUME TypeOK, CallInv, NEW t \in Threads, InCall(t)
  PROVE  Others(t) /\ CallOK(t)'
<1> USE DEF TypeOK, CallType
<1>0. CallOK(t) /\ call[t] \in CallRec
  BY DEF CallInv
<1>2. CASE Reserve(t)
  BY <1>0, <1>2, WantFields DEF Reserve, Others, CallOK, OnWorker
<1>3. CASE TakeBuildLock(t)
  BY <1>0, <1>3 DEF TakeBuildLock, Others, CallOK, OnWorker
<1>4. CASE \E k \in WorkerKinds : Submit(t, k)
  BY <1>0, <1>4 DEF Submit, Others, CallOK, OnWorker
<1>5. CASE RecheckHit(t)
  BY <1>0, <1>5, ThenFields DEF RecheckHit, Others, CallOK, OnWorker, AllUnloads
<1>6. CASE Widen(t)
  <2> DEFINE f == Widened(call[t].force, Missing(t))
             a == call[t].attempt + 1
             v == IF call[t].attempt < MaxAttempts THEN "retry" ELSE "fail"
             d == [call[t] EXCEPT !.force = f, !.want = {}, !.attempt = a, !.then = v]
  <2>1. /\ call' = [call EXCEPT ![t] = d] /\ pc' = [pc EXCEPT ![t] = "leave"]
        /\ UNCHANGED <<torn, rel>>
        /\ pc[t] = "locked" /\ call[t].op = "acquire"
    BY <1>6 DEF Widen
  <2> HIDE DEF f, a, v
  <2>2. d.op = call[t].op /\ d.then = v
    BY <1>0, WidenFields
  <2> HIDE DEF d
  <2>3. Others(t) /\ call'[t] = d /\ pc'[t] = "leave"
    BY <2>1 DEF Others
  <2> QED
    BY <1>0, <2>1, <2>2, <2>3 DEF CallOK, OnWorker, AllUnloads
<1>7. CASE MakeRoom(t)
  BY <1>0, <1>7, ThenFields DEF MakeRoom, TakeOut, Others, CallOK, OnWorker, AllUnloads
<1>8. CASE \E past \in SUBSET Models : Detach(t, past)
  BY <1>0, <1>8 DEF Detach, TakeOut, Others, CallOK, OnWorker, AllUnloads
<1>9. CASE \E x \in torn[t] : TearPipeline(t, x)
  BY <1>0, <1>9 DEF TearPipeline, Others, CallOK, OnWorker
<1>10. CASE \E x \in torn[t], r \in BOOLEAN : TearChat(t, x, r)
  <2> PICK x \in torn[t], r \in BOOLEAN : TearChat(t, x, r)
    BY <1>10
  <2> DEFINE v == IF r /\ call[t].op = "acquire" THEN "fail" ELSE call[t].then
  <2>1. /\ call' = [call EXCEPT ![t] = [@ EXCEPT !.then = v]]
        /\ torn' = [torn EXCEPT ![t] = @ \ {x}]
        /\ pc[t] \in {"tear", "refit"} /\ UNCHANGED <<pc, rel>>
    BY DEF TearChat
  <2>2. call'[t].op = call[t].op /\ call'[t].then = v
    BY <1>0, <2>1, ThenFields
  <2>3. Others(t)
    BY <2>1 DEF Others
  <2>4. CallOK(t)'
    BY <1>0, <2>1, <2>2 DEF CallOK, OnWorker, AllUnloads
  <2> QED
    BY <2>3, <2>4
<1>11. CASE \E x \in rel[t] : Free(t, x) \/ QueueRelease(t, x)
  BY <1>0, <1>11 DEF Free, QueueRelease, Others, CallOK, OnWorker
<1>12. CASE BuildFails(t) \/ BuildOk(t)
  <2>1. CASE BuildFails(t)
    <3>1. /\ call' = [call EXCEPT ![t] = [@ EXCEPT !.then = "fail"]]
          /\ pc' = [pc EXCEPT ![t] = "leave"]
          /\ UNCHANGED <<torn, rel>>
          /\ pc[t] = "tear" /\ call[t].then = "build" /\ torn[t] = {}
      BY <2>1 DEF BuildFails, Building
    <3>2. call[t].op = "acquire"
      BY <1>0, <3>1 DEF CallOK, CallRec
    <3> QED
      BY <1>0, <3>1, <3>2, ThenFields DEF Others, CallOK, OnWorker, AllUnloads
  <2>2. CASE BuildOk(t)
    <3>1. /\ call' = [call EXCEPT ![t] = [@ EXCEPT !.then = "insert"]]
          /\ pc' = [pc EXCEPT ![t] = "refit"]
          /\ UNCHANGED <<torn, rel>>
          /\ pc[t] = "tear" /\ call[t].then = "build"
      BY <2>2 DEF BuildOk, Building
    <3>2. call[t].op = "acquire"
      BY <1>0, <3>1 DEF CallOK, CallRec
    <3> QED
      BY <1>0, <3>1, <3>2, ThenFields DEF Others, CallOK, OnWorker, AllUnloads
  <2> QED
    BY <1>12, <2>1, <2>2
<1>13. CASE BuildRepriced(t)
  <2> DEFINE n == call[t].n + Extra[call[t].m]
             v == IF Deferred(call[t].m, n, 0) THEN "fail" ELSE "insert"
             d == [call[t] EXCEPT !.n = n, !.then = v]
  <2>1. /\ call' = [call EXCEPT ![t] = d] /\ pc' = [pc EXCEPT ![t] = "refit"]
        /\ rel' = rel /\ \E e : torn' = [torn EXCEPT ![t] = e]
        /\ pc[t] = "tear" /\ call[t].then = "build"
    BY <1>13 DEF BuildRepriced, Building, TakeOut
  <2>2. v \in {"fail", "insert"}
    OBVIOUS
  <2> HIDE DEF n, v
  <2>3. d.op = call[t].op /\ d.then = v
    BY <1>0, RepriceFields
  <2>4. call[t].op = "acquire"
    BY <1>0, <2>1 DEF CallOK, CallRec
  <2> HIDE DEF d
  <2>5. Others(t) /\ call'[t] = d /\ pc'[t] = "refit"
    BY <2>1 DEF Others
  <2> QED
    BY <1>0, <2>1, <2>2, <2>3, <2>4, <2>5 DEF CallOK, OnWorker, AllUnloads
<1>14. CASE Abort(t)
  BY <1>0, <1>14 DEF Abort, Others, CallOK, OnWorker, AllUnloads
<1>15. CASE InsertFails(t)
  BY <1>0, <1>15, ThenFields DEF InsertFails, Others, CallOK, OnWorker, AllUnloads
<1>16. CASE Insert(t)
  <2>1. /\ call' = [call EXCEPT ![t] = [@ EXCEPT !.then = "done"]]
        /\ pc' = [pc EXCEPT ![t] = "leave"]
        /\ pc[t] = "refit" /\ torn[t] = {} /\ UNCHANGED <<torn, rel>>
    BY <1>16 DEF Insert
  <2> QED
    BY <1>0, <2>1, ThenFields DEF Others, CallOK, OnWorker, AllUnloads
<1>17. CASE Leave(t)
  <2> DEFINE retry == call[t].then = "retry"
  <2>1. /\ UNCHANGED <<torn, rel>> /\ torn[t] = {}
        /\ pc' = [pc EXCEPT ![t] = IF retry THEN "reserve"
                                  ELSE IF rel[t] # {} THEN "late" ELSE "idle"]
        /\ call' = [call EXCEPT ![t] = IF retry THEN [@ EXCEPT !.then = "done"]
                                      ELSE NoCall(AnyModel)]
    BY <1>0, <1>17 DEF Leave, MayLeave, CallOK
  <2>2. Others(t)
    BY <2>1 DEF Others
  <2>3. CASE retry
    <3>1. call[t].op = "acquire" /\ rel[t] = {}
      BY <1>0, <1>17, <2>3 DEF Leave, MayLeave, CallOK, CallRec
    <3>2. call'[t].op = "acquire" /\ call'[t].then = "done" /\ pc'[t] = "reserve"
      BY <1>0, <2>1, <2>3, <3>1, ThenFields
    <3> QED
      BY <2>1, <2>2, <3>1, <3>2 DEF CallOK, AllUnloads
  <2>4. CASE ~retry
    <3>1. call'[t].op = "none"
      BY <2>1, <2>4 DEF NoCall
    <3> QED
      BY <1>0, <2>1, <2>2, <2>4, <3>1 DEF CallOK, AllUnloads, OnWorker
  <2> QED
    BY <2>3, <2>4
<1> QED
  BY <1>2, <1>3, <1>4, <1>5, <1>6, <1>7, <1>8, <1>9, <1>10, <1>11, <1>12, <1>13,
     <1>14, <1>15, <1>16, <1>17, InCallSteps

\* A worker's step keeps every call record in order.
LEMMA WorkerCallOK ==
  ASSUME TypeOK, CallInv, NEW k \in WorkerKinds, Worker(k)
  PROVE  CallInv'
<1> USE DEF TypeOK, CallType
<1>1. CASE RunJob(k)
  BY <1>1 DEF RunJob, CallInv, CallOK, OnWorker
<1>2. CASE RunRelease(k)
  <2>1. Head(queue[k]).by \in Threads
    <3>1. queue[k] \in Seq(Items) /\ queue[k] # <<>>
      BY <1>2 DEF RunRelease, QueueType
    <3>2. Head(queue[k]) \in Items
      BY <3>1
    <3> QED
      BY <3>2 DEF Items
  <2>2. PICK u \in Threads : \E x \in rel[u] :
          /\ rel' = [rel EXCEPT ![u] = @ \ {x}]
          /\ pc' = [pc EXCEPT ![u] = IF @ = "late" /\ rel[u] = {x} THEN "idle" ELSE @]
          /\ UNCHANGED <<call, torn>>
    BY <1>2, <2>1 DEF RunRelease
  <2>3. CallOK(u)
    BY DEF CallInv
  <2>4. Others(u)
    BY <2>2 DEF Others
  <2>5. CallOK(u)'
    BY <2>2, <2>3 DEF CallOK, OnWorker
  <2> QED
    BY <2>4, <2>5, CallOKStep
<1> QED
  BY <1>1, <1>2 DEF Worker

\* What the proofs of the pool's promises build on: the types, the build
\* lock's owner and what a call carries at each place.
CoreInv == TypeOK /\ LockInv /\ CallInv

\* The types, the build lock and the call records hold together in every
\* state: the invariant the other proofs start from.
THEOREM Core == Spec => []CoreInv
<1>1. Init => CallInv
  <2> SUFFICES ASSUME Init, NEW t \in Threads PROVE CallOK(t)
    BY DEF CallInv
  <2>1. call[t] = NoCall(AnyModel)
    BY DEF Init
  <2> QED
    BY <2>1 DEF Init, CallOK, NoCall, AllUnloads
<1>2. TypeOK /\ CallInv /\ [Next]_vars => CallInv'
  <2> SUFFICES ASSUME TypeOK, CallInv, [Next]_vars PROVE CallInv'
    OBVIOUS
  <2>1. ASSUME UNCHANGED vars PROVE CallInv'
    BY <2>1 DEF vars, CallInv, CallOK, OnWorker
  <2> QED
    BY <2>1, ClientCallOK, InCallCallOK, CallOKStep, WorkerCallOK DEF Next, Over
<1> QED
  BY <1>1, <1>2, TypeCorrect, MutualExclusion, PTL DEF Spec, CoreInv
=============================================================================
