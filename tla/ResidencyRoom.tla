---------------------------- MODULE ResidencyRoom ----------------------------
(***************************************************************************)
(* The bytes of the pool, for every set of threads and models: the room a  *)
(* cold load found is booked until its insert and given back on every      *)
(* other way out; the bytes that leave are counted until they are gone;    *)
(* and the budget is exceeded only when nothing is left to evict.          *)
(***************************************************************************)
EXTENDS ResidencyHolds, FiniteSums

USE DEF pool, bytes, refs, Goto

-----------------------------------------------------------------------------
(* The room of a load under way.                                           *)

\* What is booked while t is under the build lock.
BookOK(t) ==
  /\ pc[t] \in {"locked", "leave"} => building = 0
  /\ pc[t] = "tear" /\ call[t].op \in AllUnloads => building = 0
  /\ pc[t] = "tear" /\ call[t].then = "fail" /\ torn[t] = {} => building = 0
  /\ pc[t] \in {"tear", "refit"} /\ call[t].then \in {"build", "insert"}
       => building = call[t].n

BookInv ==
  /\ lock = NoOne => building = 0
  /\ \A t \in Threads : BookOK(t)

\* A step that books nothing and gives nothing back.
LEMMA BookKept ==
  ASSUME BookInv, NEW t \in Threads, Others(t), building' = building,
         BookOK(t)', lock' = NoOne => building' = 0
  PROVE  BookInv'
  BY DEF BookInv, BookOK, Others

\* The build lock's holder books or gives back: no one else has anything.
LEMMA BookMoved ==
  ASSUME CoreInv, BookInv, NEW t \in Threads, pc[t] \in Critical, Others(t),
         BookOK(t)', lock' = lock
  PROVE  BookInv'
<1>1. lock = t
  BY DEF CoreInv, LockInv
<1>2. ASSUME NEW u \in Threads \ {t} PROVE BookOK(u)'
  <2>1. pc[u] \notin Critical
    BY <1>1, <1>2 DEF CoreInv, LockInv
  <2> QED
    BY <2>1, <1>2 DEF Others, BookOK, Critical
<1> QED
  BY <1>1, <1>2, ConstantsAssumption DEF BookInv

\* A client books nothing.
LEMMA ClientBook ==
  ASSUME CoreInv, BookInv, NEW t \in Threads, Client(t)
  PROVE  BookInv'
<1> USE DEF CoreInv, TypeOK, CallType
<1> PICK m \in Models :
      \/ AcquireHit(t, m) \/ AcquireMiss(t, m) \/ UseWorker(t, m)
      \/ MarkRetained(t, m) \/ Release(t, m)
      \/ \E op \in UnloadOps, past \in SUBSET Models : Unload(t, op, m, past)
  BY DEF Client
<1>1. CASE \/ AcquireHit(t, m) \/ UseWorker(t, m)
           \/ MarkRetained(t, m) \/ Release(t, m)
  <2>1. UNCHANGED <<pc, call, torn, lock, building>>
    BY <1>1 DEF AcquireHit, UseWorker, MarkRetained, Release
  <2> QED
    BY <2>1 DEF BookInv, BookOK
<1>2. CASE AcquireMiss(t, m)
  <2>1. /\ \E d : call' = [call EXCEPT ![t] = d]
        /\ pc' = [pc EXCEPT ![t] = "reserve"] /\ UNCHANGED <<torn, lock, building>>
    BY <1>2 DEF AcquireMiss
  <2> QED
    BY <2>1 DEF BookInv, BookOK
<1>3. CASE \E op \in UnloadOps, past \in SUBSET Models : Unload(t, op, m, past)
  <2>1. /\ \E d : call' = [call EXCEPT ![t] = d]
        /\ pc' = [pc EXCEPT ![t] = "queue"] /\ UNCHANGED <<torn, lock, building>>
    BY <1>3 DEF Unload
  <2> QED
    BY <2>1 DEF BookInv, BookOK
<1> QED
  BY <1>1, <1>2, <1>3

\* A call books its room where it found it, and every way out of the build
\* lock, by an error or a deferral as by an insert, gives it back.
LEMMA InCallBook ==
  ASSUME CoreInv, BookInv, NEW t \in Threads, InCall(t)
  PROVE  BookInv'
<1> USE DEF CoreInv, TypeOK, CallType
<1>0. CallOK(t) /\ Others(t) /\ call[t] \in CallRec /\ BookOK(t)
  BY InCallCallOK DEF CallInv, BookInv
<1>1. CASE Reserve(t) \/ \E k \in WorkerKinds : Submit(t, k)
  <2>1. /\ pc'[t] \in {"queue"} /\ UNCHANGED <<lock, building>>
    BY <1>1 DEF Reserve, Submit
  <2> QED
    BY <1>0, <2>1, BookKept DEF BookOK, BookInv
<1>2. CASE TakeBuildLock(t)
  <2>1. /\ pc'[t] = "locked" /\ building' = building /\ building = 0 /\ lock' = t
    BY <1>2 DEF TakeBuildLock, BookInv
  <2> QED
    BY <1>0, <2>1, BookKept, ConstantsAssumption DEF BookOK
<1>3. CASE RecheckHit(t) \/ Widen(t)
  <2>1. /\ pc[t] = "locked" /\ pc'[t] = "leave" /\ UNCHANGED <<lock, building>>
    BY <1>3 DEF RecheckHit, Widen
  <2> QED
    BY <1>0, <2>1, BookMoved DEF BookOK, Critical
<1>4. CASE MakeRoom(t)
  <2> DEFINE deferred == Deferred(call[t].m, call[t].n, building)
             v == IF deferred THEN "fail" ELSE "build"
  <2>1. /\ pc[t] = "locked" /\ pc'[t] = "tear" /\ lock' = lock
        /\ call' = [call EXCEPT ![t] = [@ EXCEPT !.then = v]]
        /\ building' = IF deferred THEN building ELSE call[t].n
        /\ call[t].op = "acquire"
    BY <1>4 DEF MakeRoom
  <2>2. call'[t].op = "acquire" /\ call'[t].n = call[t].n /\ call'[t].then = v
    BY <1>0, <2>1, ThenFields
  <2>3. BookOK(t)'
    BY <1>0, <2>1, <2>2 DEF BookOK, AllUnloads
  <2> QED
    BY <1>0, <2>1, <2>3, BookMoved DEF Critical
<1>5. CASE \E past \in SUBSET Models : Detach(t, past)
  <2>1. /\ pc[t] = "locked" /\ pc'[t] = "tear" /\ UNCHANGED <<lock, building, call>>
        /\ call[t].op \in AllUnloads
    BY <1>5 DEF Detach
  <2>2. BookOK(t)'
    BY <1>0, <2>1 DEF BookOK, CallOK
  <2> QED
    BY <1>0, <2>1, <2>2, BookMoved DEF Critical
<1>6. CASE \E x \in torn[t] : TearPipeline(t, x)
  <2> PICK x \in torn[t] : TearPipeline(t, x)
    BY <1>6
  <2> DEFINE left == torn[t] \ {x}
  <2>1. /\ pc[t] \in {"tear", "refit"} /\ UNCHANGED <<pc, lock, call>>
        /\ torn' = [torn EXCEPT ![t] = left]
        /\ building' = IF pc[t] = "tear" /\ left = {} /\ call[t].then = "fail"
                       THEN 0 ELSE building
    BY DEF TearPipeline
  <2> HIDE DEF left
  <2>2. BookOK(t)'
    BY <1>0, <2>1 DEF BookOK, CallOK
  <2> QED
    BY <1>0, <2>1, <2>2, BookMoved DEF Critical
<1>7. CASE \E x \in torn[t], r \in BOOLEAN : TearChat(t, x, r)
  <2> PICK x \in torn[t], r \in BOOLEAN : TearChat(t, x, r)
    BY <1>7
  <2> DEFINE left == torn[t] \ {x}
             v == IF r /\ call[t].op = "acquire" THEN "fail" ELSE call[t].then
  <2>1. /\ pc[t] \in {"tear", "refit"} /\ UNCHANGED <<pc, lock>>
        /\ torn' = [torn EXCEPT ![t] = left]
        /\ call' = [call EXCEPT ![t] = [@ EXCEPT !.then = v]]
        /\ building' = IF pc[t] = "tear" /\ left = {} /\ v = "fail"
                       THEN 0 ELSE building
    BY DEF TearChat
  <2>2. v = call[t].then \/ v = "fail"
    OBVIOUS
  <2>3. /\ call'[t].op = call[t].op /\ call'[t].n = call[t].n
        /\ call'[t].then = v
    BY <1>0, <2>1, ThenFields
  <2> HIDE DEF left, v
  <2>4. BookOK(t)'
    BY <1>0, <2>1, <2>2, <2>3 DEF BookOK, CallOK
  <2> QED
    BY <1>0, <2>1, <2>4, BookMoved DEF Critical
<1>8. CASE \E x \in rel[t] : Free(t, x) \/ QueueRelease(t, x)
  <2>1. UNCHANGED <<pc, lock, call, torn, building>>
    BY <1>8 DEF Free, QueueRelease
  <2> QED
    BY <2>1 DEF BookInv, BookOK
<1>9. CASE BuildFails(t) \/ Abort(t) \/ InsertFails(t)
  <2>1. /\ pc[t] \in {"tear", "refit"} /\ pc'[t] = "leave"
        /\ lock' = lock /\ building' = 0
    BY <1>9 DEF BuildFails, Building, Abort, InsertFails, Unbook
  <2> QED
    BY <1>0, <2>1, BookMoved DEF BookOK, Critical
<1>10. CASE BuildOk(t)
  <2>1. /\ pc[t] = "tear" /\ pc'[t] = "refit" /\ UNCHANGED <<lock, building>>
        /\ call' = [call EXCEPT ![t] = [@ EXCEPT !.then = "insert"]]
        /\ call[t].then = "build"
    BY <1>10 DEF BuildOk, Building
  <2>2. call'[t].n = call[t].n
    BY <1>0, <2>1, ThenFields
  <2>3. BookOK(t)'
    BY <1>0, <2>1, <2>2 DEF BookOK
  <2> QED
    BY <1>0, <2>1, <2>3, BookMoved DEF Critical
<1>11. CASE BuildRepriced(t)
  <2> DEFINE n == call[t].n + Extra[call[t].m]
             deferred == Deferred(call[t].m, n, 0)
             v == IF deferred THEN "fail" ELSE "insert"
  <2>1. /\ pc[t] = "tear" /\ pc'[t] = "refit" /\ lock' = lock
        /\ call' = [call EXCEPT ![t] = [@ EXCEPT !.n = n, !.then = v]]
        /\ building' = IF v = "fail" THEN 0 ELSE n
    BY <1>11 DEF BuildRepriced, Building
  <2> HIDE DEF n, v
  <2>2. call'[t].n = n /\ call'[t].then = v
    BY <1>0, <2>1, RepriceFields
  <2>3. BookOK(t)'
    BY <2>1, <2>2 DEF BookOK
  <2> QED
    BY <1>0, <2>1, <2>3, BookMoved DEF Critical
<1>12. CASE Insert(t)
  <2>1. /\ pc[t] = "refit" /\ pc'[t] = "leave" /\ lock' = lock /\ building' = 0
    BY <1>12 DEF Insert
  <2> QED
    BY <1>0, <2>1, BookMoved DEF BookOK, Critical
<1>13. CASE Leave(t)
  <2>1. /\ pc'[t] \in {"reserve", "late", "idle"} /\ building' = building
        /\ MayLeave(t)
    BY <1>13 DEF Leave
  <2>2. building = 0
    BY <1>0, <2>1 DEF MayLeave, BookOK
  <2>3. BookOK(t)'
    BY <2>1 DEF BookOK
  <2> QED
    BY <1>0, <2>1, <2>2, <2>3, BookKept
<1> QED
  BY <1>1, <1>2, <1>3, <1>4, <1>5, <1>6, <1>7, <1>8, <1>9, <1>10, <1>11,
     <1>12, <1>13, InCallSteps

\* The invariant of the room, with the one of the calls it rests on.
THEOREM Room == Spec => []BookInv
<1>1. Init => BookInv
  BY DEF Init, BookInv, BookOK
<1>2. CoreInv /\ BookInv /\ [Next]_vars => BookInv'
  <2> SUFFICES ASSUME CoreInv, BookInv, [Next]_vars PROVE BookInv'
    OBVIOUS
  <2>1. ASSUME NEW k \in WorkerKinds, Worker(k) PROVE BookInv'
    <3>1. UNCHANGED <<lock, call, torn, building>>
      BY <2>1 DEF Worker, RunJob, RunRelease
    <3>2. pc' = pc \/ \E u : pc[u] = "late" /\ pc' = [pc EXCEPT ![u] = "idle"]
      BY <2>1 DEF Worker, RunJob, RunRelease, CoreInv, TypeOK, CallType
    <3> QED
      BY <3>1, <3>2 DEF BookInv, BookOK, CoreInv, TypeOK, CallType
  <2>2. CASE UNCHANGED vars \/ Over
    BY <2>2 DEF vars, Over, BookInv, BookOK
  <2> QED
    BY <2>1, <2>2, ClientBook, InCallBook DEF Next
<1> QED
  BY <1>1, <1>2, Core, PTL DEF Spec

\* The bytes of a load under way are counted from the eviction that made
\* its room to the insert, and by nobody once the build lock is free:
\* acquire's `finally` gives them back on every error path.
THEOREM RoomIsBooked == Spec => []BuildingBooked
<1>1. BookInv => BuildingBooked
  BY DEF BookInv, BookOK, BuildingBooked
<1> QED
  BY <1>1, Room, PTL

-----------------------------------------------------------------------------
(* The bytes that leave, counted.                                          *)

\* The bytes of a victim, as a function of it.
Size == [x \in Torn |-> x.n]

\* What a set of victims frees is the sum of their sizes.
LEMMA FreedIsSum ==
  ASSUME NEW X \in SUBSET Torn, IsFiniteSet(X)
  PROVE  Freed(X) = Sum(Size, X) /\ Freed(X) \in Nat
<1> DEFINE f == [x \in X |-> x.n]
<1>1. Freed(X) = Sum(f, X)
  BY DEF Freed, Sum, MapThenSumSet, MapThenFoldSet
<1>2. \A x \in X : f[x] \in Nat /\ f[x] = Size[x]
  BY DEF Size, Torn
<1>3. \A x \in X : Size[x] \in Nat
  BY DEF Size, Torn
<1> HIDE DEF f
<1>4. Sum(f, X) = Sum(Size, X)
  BY <1>2, SumSame
<1> QED
  BY <1>1, <1>3, <1>4, SumNat

\* A victim that is gone frees its own bytes.
LEMMA FreedLess ==
  ASSUME NEW X \in SUBSET Torn, IsFiniteSet(X), NEW x \in X
  PROVE  Freed(X) = x.n + Freed(X \ {x})
<1>1. \A y \in X : Size[y] \in Nat
  BY DEF Size, Torn
<1>2. Sum(Size, X) = Size[x] + Sum(Size, X \ {x})
  BY <1>1, SumRemove
<1>3. IsFiniteSet(X \ {x}) /\ X \ {x} \in SUBSET Torn
  BY FS_RemoveElement
<1>4. Size[x] = x.n
  BY DEF Size
<1> QED
  BY <1>2, <1>3, <1>4, FreedIsSum

\* The victims a take-out of V makes, with the bytes of f.
OutOf(V, f) == {[m |-> m, n |-> f[m]] : m \in V}

\* They free what their entries held.
LEMMA FreedOut ==
  ASSUME NEW V \in SUBSET Models, NEW f \in [Models -> Nat]
  PROVE  /\ OutOf(V, f) \in SUBSET Torn /\ IsFiniteSet(OutOf(V, f))
         /\ Freed(OutOf(V, f)) = Sum(f, V)
<1> DEFINE e(m) == [m |-> m, n |-> f[m]]
           X == {e(m) : m \in V}
<1>1. IsFiniteSet(V)
  BY ConstantsAssumption, FS_Subset
<1>2. X \in SUBSET Torn
  BY DEF Torn
<1>3. IsFiniteSet(X)
  <2> DEFINE g == [m \in V |-> e(m)]
  <2>1. g \in Surjection(V, X)
    BY DEF Surjection
  <2> QED
    BY <1>1, <2>1, FS_Surjection
<1>4. \A x \in X : Size[x] \in Nat
  BY <1>2 DEF Size, Torn
<1>5. \A m \in V : f[m] \in Nat
  OBVIOUS
<1>6. Cardinality(Units(f, V)) = Cardinality(Units(Size, X))
  <2> DEFINE g == [p \in Units(f, V) |-> <<e(p[1]), p[2]>>]
  <2>1. \A p \in Units(f, V) : p[1] \in V /\ p[2] \in Nat /\ p = <<p[1], p[2]>> /\ 1 <= p[2] /\ p[2] <= f[p[1]]
    BY DEF Units
  <2>2. \A m \in V : e(m) \in X /\ Size[e(m)] = f[m] /\ e(m).m = m
    BY <1>2 DEF Size
  <2> HIDE DEF e, X
  <2>3. \A p \in Units(f, V) : <<e(p[1]), p[2]>> \in Units(Size, X)
    BY <2>1, <2>2 DEF Units
  <2>4. \A p, q \in Units(f, V) : <<e(p[1]), p[2]>> = <<e(q[1]), q[2]>> => p = q
    <3> SUFFICES ASSUME NEW p \in Units(f, V), NEW q \in Units(f, V),
                        <<e(p[1]), p[2]>> = <<e(q[1]), q[2]>>
                 PROVE  p = q
      OBVIOUS
    <3>1. e(p[1]) = e(q[1]) /\ p[2] = q[2]
      OBVIOUS
    <3>2. p[1] = q[1]
      BY <2>1, <2>2, <3>1
    <3> QED
      BY <2>1, <3>1, <3>2
  <2>5. \A y \in Units(Size, X) : \E p \in Units(f, V) : <<e(p[1]), p[2]>> = y
    <3> SUFFICES ASSUME NEW y \in Units(Size, X)
                 PROVE  \E p \in Units(f, V) : <<e(p[1]), p[2]>> = y
      OBVIOUS
    <3>1. y[1] \in X /\ y[2] \in Nat /\ y = <<y[1], y[2]>> /\ 1 <= y[2] /\ y[2] <= Size[y[1]]
      BY DEF Units
    <3>2. PICK m \in V : y[1] = e(m)
      BY <3>1 DEF X
    <3>3. <<m, y[2]>> \in Units(f, V)
      BY <2>2, <3>1, <3>2 DEF Units
    <3> QED
      BY <3>1, <3>2, <3>3
  <2>6. g \in Bijection(Units(f, V), Units(Size, X))
    <3>1. g \in [Units(f, V) -> Units(Size, X)]
      BY <2>3
    <3>2. \A p, q \in Units(f, V) : g[p] = g[q] => p = q
      BY <2>4
    <3>3. \A y \in Units(Size, X) : \E p \in Units(f, V) : g[p] = y
      BY <2>5
    <3> HIDE DEF g
    <3> QED
      BY <3>1, <3>2, <3>3 DEF Bijection, Injection, Surjection, IsInjective
  <2>7. IsFiniteSet(Units(f, V))
    BY <1>1, <1>5, UnitsFinite
  <2> QED
    BY <2>6, <2>7, FS_Bijection DEF ExistsBijection
<1>7. Sum(Size, X) = Sum(f, V)
  BY <1>1, <1>3, <1>4, <1>5, <1>6, SumIsUnits
<1>8. Freed(X) = Sum(Size, X)
  BY <1>2, <1>3, FreedIsSum
<1>9. X = OutOf(V, f)
  BY DEF OutOf
<1> QED
  BY <1>2, <1>3, <1>7, <1>8, <1>9

-----------------------------------------------------------------------------
(* What the threads owe.                                                   *)

\* What t still has to tear down or release on the workers of S.
Owe(T, R, S, t) == {x \in T[t] \cup R[t] : Kind[x.m] \in S}
Total(T, R, S) == Sum([t \in Threads |-> Freed(Owe(T, R, S, t))], Threads)

\* Leaving, as a function of what the threads have torn and released.
LEMMA LeavingIs == ASSUME NEW S PROVE Leaving(S) = Total(torn, rel, S)
BY DEF Leaving, Total, Owe, Sum, MapThenSumSet, MapThenFoldSet

\* The same of the next state.
LEMMA LeavingNext == ASSUME NEW S PROVE Leaving(S)' = Total(torn', rel', S)
BY DEF Leaving, Total, Owe, Sum, MapThenSumSet, MapThenFoldSet

\* What the threads have in hand is finite.
Hands(T, R) ==
  \A t \in Threads : T[t] \cup R[t] \in SUBSET Torn /\ IsFiniteSet(T[t] \cup R[t])

\* What one thread owes adds up to a number of bytes.
LEMMA OweNat ==
  ASSUME NEW T, NEW R, Hands(T, R), NEW S, NEW t \in Threads
  PROVE  /\ Owe(T, R, S, t) \in SUBSET Torn /\ IsFiniteSet(Owe(T, R, S, t))
         /\ Freed(Owe(T, R, S, t)) \in Nat
<1>1. Owe(T, R, S, t) \subseteq T[t] \cup R[t]
  BY DEF Owe
<1> QED
  BY <1>1, FS_Subset, FreedIsSum DEF Hands

\* So does what all of them owe, and one owes no more than all.
LEMMA TotalNat ==
  ASSUME NEW T, NEW R, Hands(T, R), NEW S
  PROVE  /\ Total(T, R, S) \in Nat
         /\ \A t \in Threads : Freed(Owe(T, R, S, t)) <= Total(T, R, S)
<1> DEFINE f == [t \in Threads |-> Freed(Owe(T, R, S, t))]
<1>1. \A t \in Threads : f[t] \in Nat /\ f[t] = Freed(Owe(T, R, S, t))
  BY OweNat
<1>2. Total(T, R, S) = Sum(f, Threads)
  BY DEF Total
<1> HIDE DEF f
<1>3. IsFiniteSet(Threads)
  BY ConstantsAssumption
<1>4. Sum(f, Threads) \in Nat
  BY <1>1, <1>3, SumNat
<1>5. ASSUME NEW t \in Threads PROVE f[t] <= Sum(f, Threads)
  <2>1. Sum(f, Threads) = f[t] + Sum(f, Threads \ {t})
    BY <1>1, <1>3, SumRemove
  <2>2. Sum(f, Threads \ {t}) \in Nat
    BY <1>1, <1>3, FS_RemoveElement, SumNat
  <2> QED
    BY <1>1, <2>1, <2>2
<1> QED
  BY <1>1, <1>2, <1>4, <1>5

\* A step that moves what a thread has in hand from one set to the other.
LEMMA TotalSame ==
  ASSUME NEW T, NEW R, NEW T2, NEW R2, NEW S,
         \A t \in Threads : T2[t] \cup R2[t] = T[t] \cup R[t]
  PROVE  Total(T2, R2, S) = Total(T, R, S)
<1>1. \A t \in Threads : Owe(T2, R2, S, t) = Owe(T, R, S, t)
  BY DEF Owe
<1>2. [t \in Threads |-> Freed(Owe(T2, R2, S, t))] = [t \in Threads |-> Freed(Owe(T, R, S, t))]
  BY <1>1
<1> QED
  BY <1>2 DEF Total

\* A step of one thread changes the total by what that thread owes.
LEMMA TotalMoved ==
  ASSUME NEW T, NEW R, NEW T2, NEW R2, Hands(T, R), Hands(T2, R2), NEW S,
         NEW t \in Threads,
         \A u \in Threads \ {t} : T2[u] \cup R2[u] = T[u] \cup R[u]
  PROVE  Total(T2, R2, S) = Total(T, R, S) - Freed(Owe(T, R, S, t)) + Freed(Owe(T2, R2, S, t))
<1> DEFINE f == [u \in Threads |-> Freed(Owe(T, R, S, u))]
           g == [u \in Threads |-> Freed(Owe(T2, R2, S, u))]
<1>1. \A u \in Threads : f[u] \in Nat /\ g[u] \in Nat
  BY OweNat
<1>2. \A u \in Threads \ {t} : g[u] = f[u]
  <2>1. \A u \in Threads \ {t} : Owe(T2, R2, S, u) = Owe(T, R, S, u)
    BY DEF Owe
  <2> QED
    BY <2>1
<1>3. f[t] = Freed(Owe(T, R, S, t)) /\ g[t] = Freed(Owe(T2, R2, S, t))
  OBVIOUS
<1>4. Total(T, R, S) = Sum(f, Threads) /\ Total(T2, R2, S) = Sum(g, Threads)
  BY DEF Total
<1> HIDE DEF f, g
<1>6. IsFiniteSet(Threads)
  BY ConstantsAssumption
<1>5. Sum(g, Threads) = Sum(f, Threads) - f[t] + g[t]
  BY <1>1, <1>2, <1>6, SumChanged
<1> QED
  BY <1>3, <1>4, <1>5

\* A victim that is gone takes its bytes off the totals it counted in.
LEMMA TotalLess ==
  ASSUME NEW T, NEW R, NEW T2, NEW R2, Hands(T, R), Hands(T2, R2), NEW S,
         NEW t \in Threads, NEW x \in T[t] \cup R[t],
         T2[t] \cup R2[t] = (T[t] \cup R[t]) \ {x},
         \A u \in Threads \ {t} : T2[u] \cup R2[u] = T[u] \cup R[u]
  PROVE  Total(T2, R2, S) = IF Kind[x.m] \in S THEN Max0(Total(T, R, S) - x.n)
                            ELSE Total(T, R, S)
<1> DEFINE X == Owe(T, R, S, t)
           Y == Owe(T2, R2, S, t)
<1>0. x \in Torn /\ x.n \in Nat
  BY DEF Hands, Torn
<1>1. Total(T2, R2, S) = Total(T, R, S) - Freed(X) + Freed(Y)
  BY TotalMoved
<1>2. Y = X \ {x}
  BY DEF Owe
<1>3. x \in X <=> Kind[x.m] \in S
  BY DEF Owe
<1>4. X \in SUBSET Torn /\ IsFiniteSet(X) /\ Freed(X) \in Nat /\ Freed(Y) \in Nat
  BY OweNat
<1>5. Total(T, R, S) \in Nat /\ Freed(X) <= Total(T, R, S) /\ Total(T2, R2, S) \in Nat
  BY TotalNat
<1> HIDE DEF X, Y
<1>6. CASE Kind[x.m] \in S
  <2>1. Freed(X) = x.n + Freed(Y)
    BY <1>2, <1>3, <1>4, <1>6, FreedLess
  <2>2. Total(T2, R2, S) = Total(T, R, S) - x.n
    BY <1>0, <1>1, <1>4, <1>5, <2>1
  <2> QED
    BY <1>0, <1>5, <1>6, <2>2 DEF Max0
<1>7. CASE Kind[x.m] \notin S
  <2>1. Y = X
    BY <1>2, <1>3, <1>7
  <2> QED
    BY <1>1, <1>4, <1>5, <1>7, <2>1
<1> QED
  BY <1>6, <1>7

\* A take-out adds the bytes of its entries to the totals they count in.
LEMMA TotalOut ==
  ASSUME NEW T, NEW R, NEW T2, NEW R2, Hands(T, R), Hands(T2, R2), NEW S,
         NEW t \in Threads, NEW V \in SUBSET Models, NEW f \in [Models -> Nat],
         T[t] \cup R[t] = {}, T2[t] \cup R2[t] = OutOf(V, f),
         \A u \in Threads \ {t} : T2[u] \cup R2[u] = T[u] \cup R[u]
  PROVE  Total(T2, R2, S) = Total(T, R, S) + Sum(f, {m \in V : Kind[m] \in S})
<1> DEFINE X == Owe(T, R, S, t)
           Y == Owe(T2, R2, S, t)
           W == {m \in V : Kind[m] \in S}
<1>1. Total(T2, R2, S) = Total(T, R, S) - Freed(X) + Freed(Y)
  BY TotalMoved
<1>2. X = {}
  BY DEF Owe
<1>3. Freed({}) = 0
  <2>1. Freed({}) = Sum(Size, {})
    BY FS_EmptySet, FreedIsSum
  <2> QED
    BY <2>1, SumEmpty
<1>4. Y = OutOf(W, f)
  BY DEF Owe, OutOf
<1>5. Freed(Y) = Sum(f, W)
  BY <1>4, FreedOut
<1>6. Total(T, R, S) \in Nat /\ Freed(Y) \in Nat
  BY TotalNat, OweNat
<1> HIDE DEF X, Y, W
<1>7. Total(T2, R2, S) = Total(T, R, S) + Sum(f, W)
  BY <1>1, <1>2, <1>3, <1>5, <1>6
<1> QED
  BY <1>7 DEF W

\* A victim without bytes changes no total.
LEMMA TotalZero ==
  ASSUME NEW T, NEW R, NEW T2, NEW R2, Hands(T, R), Hands(T2, R2), NEW S,
         NEW t \in Threads, NEW z, z.n = 0,
         T2[t] \cup R2[t] = T[t] \cup R[t] \cup {z},
         \A u \in Threads \ {t} : T2[u] \cup R2[u] = T[u] \cup R[u]
  PROVE  Total(T2, R2, S) = Total(T, R, S)
<1>1. CASE z \in T[t] \cup R[t]
  <2>1. \A u \in Threads : T2[u] \cup R2[u] = T[u] \cup R[u]
    BY <1>1
  <2> QED
    BY <2>1, TotalSame
<1>2. CASE z \notin T[t] \cup R[t]
  <2>1. z \in T2[t] \cup R2[t] /\ T[t] \cup R[t] = (T2[t] \cup R2[t]) \ {z}
    BY <1>2
  <2>2. \A u \in Threads \ {t} : T[u] \cup R[u] = T2[u] \cup R2[u]
    OBVIOUS
  <2>3. Total(T, R, S) = IF Kind[z.m] \in S THEN Max0(Total(T2, R2, S) - z.n)
                         ELSE Total(T2, R2, S)
    BY <2>1, <2>2, TotalLess
  <2>4. Total(T2, R2, S) \in Nat
    BY TotalNat
  <2> QED
    BY <2>3, <2>4 DEF Max0
<1> QED
  BY <1>1, <1>2

-----------------------------------------------------------------------------
(* The tearing counts.                                                     *)

AllKinds == WorkerKinds \cup {"chat"}

\* The counts are what the threads owe.
Counts ==
  /\ tearing = Total(torn, rel, AllKinds)
  /\ tearingKind = [k \in WorkerKinds |-> Total(torn, rel, {k})]

\* A release waits on the worker of its pipeline.
OwnWorker ==
  \A k \in WorkerKinds : \A i \in DOMAIN queue[k] :
    queue[k][i].what = "release" => Kind[queue[k][i].m] = k

TearInv == Counts /\ Hands(torn, rel) /\ OwnWorker

\* How a step moves the bytes that leave: it moves them nowhere, it ends
\* one victim's, it takes entries out, or it tears down one without bytes.
InHand(t) == torn[t] \cup rel[t]
OthersOwe(t) == \A u \in Threads \ {t} : InHand(u)' = InHand(u)
Still == (\A u \in Threads : InHand(u)' = InHand(u)) /\ UNCHANGED <<tearing, tearingKind>>
Ended(t, x) ==
  /\ OthersOwe(t) /\ x \in InHand(t) /\ InHand(t)' = InHand(t) \ {x}
  /\ Gone(Kind[x.m], x.n)
Taken(t, V) ==
  /\ OthersOwe(t) /\ InHand(t) = {}
  /\ InHand(t)' = OutOf(V, foot)
  /\ tearing' = tearing + BytesOf(V)
  /\ tearingKind' = [k \in WorkerKinds |-> tearingKind[k] + BytesOf({m \in V : Kind[m] = k})]
Weightless(t, z) ==
  /\ OthersOwe(t) /\ z \in Torn /\ z.n = 0 /\ InHand(t)' = InHand(t) \cup {z}
  /\ UNCHANGED <<tearing, tearingKind>>

\* A step that moves no bytes keeps the counts.
LEMMA StillCounts ==
  ASSUME Counts, Hands(torn, rel), Still
  PROVE  Counts' /\ Hands(torn, rel)'
<1>1. \A u \in Threads : torn'[u] \cup rel'[u] = torn[u] \cup rel[u]
  BY DEF Still, InHand
<1>2. \A S : Total(torn', rel', S) = Total(torn, rel, S)
  BY <1>1, TotalSame
<1>3. Counts'
  BY <1>2 DEF Counts, Still
<1>4. Hands(torn, rel)'
  BY <1>1 DEF Hands
<1> QED
  BY <1>3, <1>4

\* A victim that is gone is taken off the counts, and none goes below zero.
LEMMA EndedCounts ==
  ASSUME Counts, Hands(torn, rel), NEW t \in Threads, NEW x, Ended(t, x)
  PROVE  Counts' /\ Hands(torn, rel)'
<1>1. /\ x \in torn[t] \cup rel[t] /\ torn'[t] \cup rel'[t] = (torn[t] \cup rel[t]) \ {x}
      /\ \A u \in Threads \ {t} : torn'[u] \cup rel'[u] = torn[u] \cup rel[u]
  BY DEF Ended, OthersOwe, InHand
<1>2. Hands(torn', rel')
  <2>1. IsFiniteSet((torn[t] \cup rel[t]) \ {x})
    BY FS_RemoveElement, <1>1 DEF Hands
  <2> QED
    BY <1>1, <2>1 DEF Hands
<1>3. \A S : Total(torn', rel', S) = IF Kind[x.m] \in S THEN Max0(Total(torn, rel, S) - x.n)
                                     ELSE Total(torn, rel, S)
  BY <1>1, <1>2, TotalLess
<1>4. x.m \in Models /\ Kind[x.m] \in AllKinds
  BY <1>1, ConstantsAssumption DEF Hands, Torn, AllKinds
<1>5. tearing' = Total(torn', rel', AllKinds)
  BY <1>3, <1>4 DEF Counts, Ended, Gone
<1>6. \A k \in WorkerKinds : tearingKind'[k] = Total(torn', rel', {k})
  <2> SUFFICES ASSUME NEW k \in WorkerKinds PROVE tearingKind'[k] = Total(torn', rel', {k})
    OBVIOUS
  <2>1. tearingKind[k] = Total(torn, rel, {k}) /\ DOMAIN tearingKind = WorkerKinds
    BY DEF Counts
  <2>2. CASE Kind[x.m] = k
    <3>1. tearingKind'[k] = Max0(tearingKind[k] - x.n)
      BY <2>1, <2>2 DEF Ended, Gone
    <3>2. Total(torn', rel', {k}) = Max0(Total(torn, rel, {k}) - x.n)
      BY <1>3, <2>2
    <3> QED
      BY <2>1, <3>1, <3>2
  <2>3. CASE Kind[x.m] # k
    <3>1. tearingKind'[k] = tearingKind[k]
      BY <2>1, <2>3 DEF Ended, Gone
    <3>2. Total(torn', rel', {k}) = Total(torn, rel, {k})
      BY <1>3, <2>3
    <3> QED
      BY <2>1, <3>1, <3>2
  <2> QED
    BY <2>2, <2>3
<1>7. tearingKind' = [k \in WorkerKinds |-> tearingKind'[k]]
  <2>1. tearingKind = [k \in WorkerKinds |-> tearingKind[k]]
    BY DEF Counts
  <2> QED
    BY <2>1 DEF Ended, Gone
<1> QED
  BY <1>2, <1>5, <1>6, <1>7 DEF Counts

\* A take-out is counted whole, and each pipeline under its worker.
LEMMA TakenCounts ==
  ASSUME Counts, Hands(torn, rel), foot \in [Models -> Nat],
         NEW t \in Threads, NEW V \in SUBSET Models, Taken(t, V)
  PROVE  Counts' /\ Hands(torn, rel)'
<1> DEFINE X == OutOf(V, foot)
<1>1. /\ torn[t] \cup rel[t] = {} /\ torn'[t] \cup rel'[t] = X
      /\ \A u \in Threads \ {t} : torn'[u] \cup rel'[u] = torn[u] \cup rel[u]
  BY DEF Taken, OthersOwe, InHand
<1>2. Hands(torn', rel')
  <2>1. X \in SUBSET Torn /\ IsFiniteSet(X)
    BY FreedOut
  <2> HIDE DEF X
  <2> QED
    BY <1>1, <2>1 DEF Hands
<1>3. \A S : Total(torn', rel', S) = Total(torn, rel, S) + Sum(foot, {m \in V : Kind[m] \in S})
  <2> SUFFICES ASSUME NEW S
               PROVE  Total(torn', rel', S) = Total(torn, rel, S) + Sum(foot, {m \in V : Kind[m] \in S})
    OBVIOUS
  <2> QED
    BY <1>1, <1>2, TotalOut
<1>4. \A W : BytesOf(W) = Sum(foot, W)
  BY DEF BytesOf, Sum
<1>5. tearing' = Total(torn', rel', AllKinds)
  <2>1. {m \in V : Kind[m] \in AllKinds} = V
    BY ConstantsAssumption DEF AllKinds
  <2> QED
    BY <1>3, <1>4, <2>1 DEF Taken, Counts
<1>6. \A k \in WorkerKinds :
        Total(torn', rel', {k}) = tearingKind[k] + BytesOf({m \in V : Kind[m] = k})
  <2> SUFFICES ASSUME NEW k \in WorkerKinds
               PROVE  Total(torn', rel', {k}) = tearingKind[k] + BytesOf({m \in V : Kind[m] = k})
    OBVIOUS
  <2>1. {m \in V : Kind[m] \in {k}} = {m \in V : Kind[m] = k}
    OBVIOUS
  <2>2. tearingKind[k] = Total(torn, rel, {k})
    BY DEF Counts
  <2>3. Total(torn', rel', {k}) = Total(torn, rel, {k}) + Sum(foot, {m \in V : Kind[m] \in {k}})
    BY <1>3
  <2> QED
    BY <1>4, <2>1, <2>2, <2>3
<1>7. tearingKind' = [k \in WorkerKinds |-> Total(torn', rel', {k})]
  BY <1>6 DEF Taken
<1> QED
  BY <1>2, <1>5, <1>7 DEF Counts

\* A victim without bytes is not counted.
LEMMA WeightlessCounts ==
  ASSUME Counts, Hands(torn, rel), NEW t \in Threads, NEW z, Weightless(t, z)
  PROVE  Counts' /\ Hands(torn, rel)'
<1>1. /\ z.n = 0 /\ z \in Torn /\ torn'[t] \cup rel'[t] = torn[t] \cup rel[t] \cup {z}
      /\ \A u \in Threads \ {t} : torn'[u] \cup rel'[u] = torn[u] \cup rel[u]
  BY DEF Weightless, OthersOwe, InHand
<1>2. Hands(torn', rel')
  <2>1. IsFiniteSet(torn[t] \cup rel[t] \cup {z})
    BY FS_AddElement, <1>1 DEF Hands
  <2> QED
    BY <1>1, <2>1 DEF Hands
<1>3. \A S : Total(torn', rel', S) = Total(torn, rel, S)
  BY <1>1, <1>2, TotalZero
<1> QED
  BY <1>2, <1>3 DEF Counts, Weightless

\* A step that leaves alone what is torn and released moves no bytes.
LEMMA StillWhen ==
  ASSUME UNCHANGED <<torn, rel, tearing, tearingKind>>
  PROVE  Still
  BY DEF Still, InHand

\* A take-out by a thread with empty hands.
LEMMA TakenWhen ==
  ASSUME TypeOK, NEW t \in Threads, NEW V, V \subseteq resident, TakeOut(t, V), rel' = rel,
         torn[t] = {}, rel[t] = {}
  PROVE  V \in SUBSET Models /\ Taken(t, V)
<1>1. torn' = [torn EXCEPT ![t] = OutOf(V, foot)]
  BY DEF TakeOut, OutOf
<1>2. OthersOwe(t) /\ InHand(t) = {} /\ InHand(t)' = OutOf(V, foot)
  BY <1>1 DEF TypeOK, CallType, OthersOwe, InHand
<1>3. V \in SUBSET Models
  BY DEF TypeOK, PoolType
<1> QED
  BY <1>2, <1>3 DEF Taken, TakeOut

\* A call's step ends one victim's bytes, takes entries out, or tears down
\* a model that never had an entry.
LEMMA InCallTear ==
  ASSUME CoreInv, NEW t \in Threads, InCall(t)
  PROVE  \/ Still \/ \E x : Ended(t, x) \/ Weightless(t, x)
         \/ \E V \in SUBSET Models : Taken(t, V)
<1> USE DEF CoreInv
<1>0. /\ CallOK(t) /\ torn \in [Threads -> SUBSET Torn] /\ rel \in [Threads -> SUBSET Torn]
      /\ call[t].m \in Models
  BY CallFields DEF CallInv, TypeOK, CallType
<1>1. CASE \/ Reserve(t) \/ TakeBuildLock(t) \/ \E k \in WorkerKinds : Submit(t, k)
           \/ RecheckHit(t) \/ Widen(t)
  BY <1>1, StillWhen DEF Reserve, TakeBuildLock, Submit, RecheckHit, Widen
<1>2. CASE MakeRoom(t)
  <2>1. /\ TakeOut(t, Victims(call[t].n, building)) /\ rel' = rel /\ pc[t] = "locked"
    BY <1>2 DEF MakeRoom
  <2>2. torn[t] = {} /\ rel[t] = {}
    BY <1>0, <2>1 DEF CallOK
  <2>3. Victims(call[t].n, building) \subseteq resident
    BY VictimsAreResident
  <2> QED
    BY <2>1, <2>2, <2>3, TakenWhen
<1>3. CASE \E past \in SUBSET Models : Detach(t, past)
  <2> PICK past \in SUBSET Models : Detach(t, past)
    BY <1>3
  <2>1. /\ TakeOut(t, Unloadable(call[t].op, call[t].m, past)) /\ rel' = rel /\ pc[t] = "locked"
    BY DEF Detach
  <2>2. torn[t] = {} /\ rel[t] = {}
    BY <1>0, <2>1 DEF CallOK
  <2>3. Unloadable(call[t].op, call[t].m, past) \subseteq resident
    BY DEF Unloadable, Reapable
  <2> QED
    BY <2>1, <2>2, <2>3, TakenWhen
<1>4. CASE \E x \in torn[t] : TearPipeline(t, x)
  <2> PICK x \in torn[t] : TearPipeline(t, x)
    BY <1>4
  <2>1. torn' = [torn EXCEPT ![t] = @ \ {x}] /\ rel' = [rel EXCEPT ![t] = @ \cup {x}]
    BY DEF TearPipeline
  <2>2. \A u \in Threads : torn'[u] \cup rel'[u] = torn[u] \cup rel[u]
    BY <1>0, <2>1
  <2> QED
    BY <2>2 DEF Still, InHand, TearPipeline
<1>5. CASE \E x \in torn[t], r \in BOOLEAN : TearChat(t, x, r)
  <2> PICK x \in torn[t], r \in BOOLEAN : TearChat(t, x, r)
    BY <1>5
  <2>1. torn' = [torn EXCEPT ![t] = @ \ {x}] /\ rel' = rel /\ Gone("chat", x.n) /\ ~OnWorker(x.m)
    BY DEF TearChat
  <2>2. x \notin rel[t]
    BY <1>0, <2>1 DEF CallOK
  <2>3. Kind[x.m] = "chat"
    BY <1>0, <2>1, ConstantsAssumption DEF OnWorker, Torn
  <2>4. OthersOwe(t) /\ x \in InHand(t) /\ InHand(t)' = InHand(t) \ {x}
    BY <1>0, <2>1, <2>2 DEF OthersOwe, InHand
  <2> QED
    BY <2>1, <2>3, <2>4 DEF Ended
<1>6. CASE \E x \in rel[t] : Free(t, x)
  <2> PICK x \in rel[t] : Free(t, x)
    BY <1>6
  <2>1. rel' = [rel EXCEPT ![t] = @ \ {x}] /\ torn' = torn /\ torn[t] = {} /\ Gone(Kind[x.m], x.n)
    BY DEF Free
  <2>2. OthersOwe(t) /\ x \in InHand(t) /\ InHand(t)' = InHand(t) \ {x}
    BY <1>0, <2>1 DEF OthersOwe, InHand
  <2> QED
    BY <2>1, <2>2 DEF Ended
<1>7. CASE \E x \in rel[t] : QueueRelease(t, x)
  BY <1>7, StillWhen DEF QueueRelease
<1>8. CASE BuildFails(t) \/ BuildOk(t) \/ Abort(t) \/ Insert(t) \/ Leave(t)
  BY <1>8, StillWhen DEF BuildFails, BuildOk, Abort, Insert, Leave
<1>9. CASE BuildRepriced(t)
  <2>1. PICK n : TakeOut(t, Victims(n, 0))
    BY <1>9 DEF BuildRepriced
  <2>2. rel' = rel /\ torn[t] = {} /\ rel[t] = {}
    BY <1>9 DEF BuildRepriced, Building
  <2>3. Victims(n, 0) \subseteq resident
    BY VictimsAreResident
  <2> QED
    BY <2>1, <2>2, <2>3, TakenWhen
<1>10. CASE InsertFails(t)
  <2> DEFINE z == [m |-> call[t].m, n |-> 0]
  <2>1. z \in Torn /\ z.n = 0
    BY <1>0 DEF Torn
  <2>2. /\ rel' = IF OnWorker(call[t].m) THEN [rel EXCEPT ![t] = @ \cup {z}] ELSE rel
        /\ UNCHANGED <<torn, tearing, tearingKind>>
    BY <1>10 DEF InsertFails
  <2> HIDE DEF z
  <2>3. CASE OnWorker(call[t].m)
    <3>1. OthersOwe(t) /\ InHand(t)' = InHand(t) \cup {z}
      BY <1>0, <2>2, <2>3 DEF OthersOwe, InHand
    <3> QED
      BY <2>1, <2>2, <3>1 DEF Weightless
  <2>4. CASE ~OnWorker(call[t].m)
    BY <2>2, <2>4, StillWhen
  <2> QED
    BY <2>3, <2>4
<1> QED
  BY <1>1, <1>2, <1>3, <1>4, <1>5, <1>6, <1>7, <1>8, <1>9, <1>10, InCallSteps

\* The head of a queue is the job of a thread, and that thread waits when
\* it is a release.
LEMMA HeadReleases ==
  ASSUME TypeOK, NEW k \in WorkerKinds, queue[k] # <<>>, Head(queue[k]).what = "release"
  PROVE  Head(queue[k]).by \in Threads /\ Waiting(Head(queue[k]).by) /\ 1 \in DOMAIN queue[k]
<1>1. queue[k] \in Seq(Items)
  BY DEF TypeOK, QueueType
<1>2. 1 \in DOMAIN queue[k] /\ Head(queue[k]) = queue[k][1] /\ queue[k][1] \in Items
  BY <1>1
<1> QED
  BY <1>2 DEF Items, Waiting

\* A worker's step ends the bytes of the pipeline it released.
LEMMA WorkerTear ==
  ASSUME CoreInv, WaitInv, OwnWorker, NEW k \in WorkerKinds, Worker(k)
  PROVE  Still \/ \E t \in Threads : \E x : Ended(t, x)
<1> USE DEF CoreInv
<1>1. CASE RunJob(k)
  BY <1>1, StillWhen DEF RunJob
<1>2. CASE RunRelease(k)
  <2>1. queue[k] # <<>> /\ Head(queue[k]).what = "release"
    BY <1>2 DEF RunRelease
  <2>2. PICK t \in Threads : t = Head(queue[k]).by /\ Waiting(t) /\ 1 \in DOMAIN queue[k]
    BY <2>1, HeadReleases
  <2>3. torn[t] = {}
    BY <2>2 DEF WaitInv, WaitOK, CallInv, CallOK
  <2>4. PICK x \in rel[t] :
          /\ x.m = Head(queue[k]).m
          /\ rel' = [rel EXCEPT ![t] = @ \ {x}] /\ Gone(k, x.n) /\ torn' = torn
    BY <1>2, <2>2 DEF RunRelease
  <2>5. Kind[x.m] = k
    <3>1. Head(queue[k]) = queue[k][1]
      BY <2>2
    <3> QED
      BY <2>1, <2>2, <2>4, <3>1 DEF OwnWorker
  <2>6. rel \in [Threads -> SUBSET Torn]
    BY DEF TypeOK, CallType
  <2>7. OthersOwe(t) /\ x \in InHand(t) /\ InHand(t)' = InHand(t) \ {x}
    BY <2>2, <2>3, <2>4, <2>6 DEF OthersOwe, InHand
  <2> QED
    BY <2>2, <2>4, <2>5, <2>7 DEF Ended
<1> QED
  BY <1>1, <1>2 DEF Worker

\* Every release is queued on the worker of its pipeline.
LEMMA OwnWorkerStep ==
  ASSUME TypeOK, OwnWorker, [Next]_vars
  PROVE  OwnWorker'
<1> USE DEF TypeOK, QueueType
<1>1. ASSUME queue' = queue PROVE OwnWorker'
  BY <1>1 DEF OwnWorker
<1>2. ASSUME NEW t \in Threads, NEW k \in WorkerKinds, NEW i, Queues(t, k, i),
             i.what = "release" => Kind[i.m] = k
      PROVE  OwnWorker'
  <2> SUFFICES ASSUME NEW l \in WorkerKinds, NEW j \in DOMAIN queue'[l],
                      queue'[l][j].what = "release"
               PROVE  Kind[queue'[l][j].m] = l
    BY DEF OwnWorker
  <2>1. CASE l = k
    <3>1. queue'[l] = Append(queue[k], i) /\ queue[k] \in Seq(Items) /\ i \in Items
      BY <1>2, <2>1 DEF Queues
    <3>2. \/ j \in DOMAIN queue[k] /\ queue'[l][j] = queue[k][j]
          \/ queue'[l][j] = i
      BY <3>1, AppendFacts
    <3> QED
      BY <1>2, <2>1, <3>2 DEF OwnWorker
  <2>2. CASE l # k
    BY <1>2, <2>2 DEF OwnWorker, Queues
  <2> QED
    BY <2>1, <2>2
<1>3. ASSUME \A l \in WorkerKinds : \/ queue'[l] = queue[l]
                                    \/ queue[l] # <<>> /\ queue'[l] = Tail(queue[l])
      PROVE  OwnWorker'
  <2> SUFFICES ASSUME NEW l \in WorkerKinds, NEW j \in DOMAIN queue'[l],
                      queue'[l][j].what = "release"
               PROVE  Kind[queue'[l][j].m] = l
    BY DEF OwnWorker
  <2>1. \E h \in DOMAIN queue[l] : queue'[l][j] = queue[l][h]
    BY <1>3, TailFacts
  <2> QED
    BY <2>1 DEF OwnWorker
<1>4. ASSUME NEW t \in Threads, Client(t) PROVE OwnWorker'
  <2> PICK m \in Models :
        \/ AcquireHit(t, m) \/ AcquireMiss(t, m) \/ UseWorker(t, m)
        \/ MarkRetained(t, m) \/ Release(t, m)
        \/ \E op \in UnloadOps, past \in SUBSET Models : Unload(t, op, m, past)
    BY <1>4 DEF Client
  <2>1. CASE UseWorker(t, m)
    <3>1. Kind[m] \in WorkerKinds /\ Item(t, "job", m) \in Items
      BY <2>1 DEF UseWorker, OnWorker, Item, Items
    <3>2. Queues(t, Kind[m], Item(t, "job", m)) /\ Item(t, "job", m).what # "release"
      BY <2>1, <3>1 DEF UseWorker, Queues, Item
    <3> QED
      BY <1>2, <3>1, <3>2
  <2>2. CASE ~UseWorker(t, m)
    BY <1>1, <2>2 DEF AcquireHit, AcquireMiss, MarkRetained, Release, Unload
  <2> QED
    BY <2>1, <2>2
<1>5. ASSUME NEW t \in Threads, InCall(t) PROVE OwnWorker'
  <2>1. CASE \E k \in WorkerKinds : Submit(t, k)
    <3> PICK k \in WorkerKinds : Submit(t, k)
      BY <2>1
    <3>1. HoldOf(t) \in Items /\ HoldOf(t).by = t /\ HoldOf(t).what # "release"
      BY DEF HoldOf, Item, Items
    <3>2. Queues(t, k, HoldOf(t))
      BY <3>1 DEF Submit, Queues
    <3> QED
      BY <1>2, <3>1, <3>2
  <2>2. CASE \E x \in rel[t] : QueueRelease(t, x)
    <3> PICK x \in rel[t] : QueueRelease(t, x)
      BY <2>2
    <3> DEFINE i == Item(t, "release", x.m)
    <3>1. i \in Items /\ i.by = t /\ i.m = x.m
      BY DEF Item, Items, CallType, Torn
    <3>2. queue' = [queue EXCEPT ![Kind[x.m]] = Append(@, i)]
      BY DEF QueueRelease
    <3> HIDE DEF i
    <3>3. CASE Kind[x.m] \in WorkerKinds
      BY <1>2, <3>1, <3>2, <3>3 DEF Queues
    <3>4. CASE Kind[x.m] \notin WorkerKinds
      BY <1>1, <3>2, <3>4
    <3> QED
      BY <3>3, <3>4
  <2>3. CASE Leave(t)
    <3>1. \A l \in WorkerKinds : queue'[l] = IF Holds(t, l) THEN Tail(queue[l]) ELSE queue[l]
      BY <2>3 DEF Leave
    <3> QED
      BY <1>3, <3>1 DEF Holds
  <2>4. CASE \/ Reserve(t) \/ TakeBuildLock(t) \/ RecheckHit(t) \/ Widen(t) \/ MakeRoom(t)
             \/ \E past \in SUBSET Models : Detach(t, past)
             \/ \E x \in torn[t] : TearPipeline(t, x)
             \/ \E x \in torn[t], r \in BOOLEAN : TearChat(t, x, r)
             \/ \E x \in rel[t] : Free(t, x)
             \/ BuildFails(t) \/ BuildOk(t) \/ BuildRepriced(t) \/ Abort(t)
             \/ InsertFails(t) \/ Insert(t)
    BY <1>1, <2>4 DEF Reserve, TakeBuildLock, RecheckHit, Widen, MakeRoom, Detach,
       TearPipeline, TearChat, Free, BuildFails, BuildOk, BuildRepriced, Abort,
       InsertFails, Insert
  <2> QED
    BY <1>5, <2>1, <2>2, <2>3, <2>4, InCallSteps
<1>6. ASSUME NEW k \in WorkerKinds, Worker(k) PROVE OwnWorker'
  <2>1. Ends(k)
    BY <1>6 DEF Worker, RunJob, RunRelease, Ends
  <2> QED
    BY <1>3, <2>1 DEF Ends
<1> QED
  BY <1>1, <1>4, <1>5, <1>6 DEF Next, Over, vars

\* The invariant of the tearing counts: what the threads have in hand is
\* finite, and each release waits on its pipeline's worker.
THEOREM Tears == Spec => []TearInv
<1>1. Init => TearInv
  <2> SUFFICES ASSUME Init PROVE TearInv
    OBVIOUS
  <2>1. \A t \in Threads : torn[t] = {} /\ rel[t] = {}
    BY DEF Init
  <2>2. Hands(torn, rel)
    BY <2>1, FS_EmptySet DEF Hands
  <2>3. ASSUME NEW S PROVE Total(torn, rel, S) = 0
    <3>1. \A t \in Threads : Owe(torn, rel, S, t) = {}
      BY <2>1 DEF Owe
    <3>2. Freed({}) = 0
      <4>1. Freed({}) = Sum(Size, {})
        BY FS_EmptySet, FreedIsSum
      <4> QED
        BY <4>1, SumEmpty
    <3> DEFINE f == [t \in Threads |-> Freed(Owe(torn, rel, S, t))]
    <3>3. \A t \in Threads : f[t] = 0
      BY <3>1, <3>2
    <3>4. Total(torn, rel, S) = Sum(f, Threads)
      BY DEF Total
    <3> HIDE DEF f
    <3>5. IsFiniteSet(Threads) /\ \A t \in Threads : f[t] \in Nat
      BY <3>3, ConstantsAssumption
    <3>6. Units(f, Threads) = {}
      BY <3>3 DEF Units
    <3> QED
      BY <3>4, <3>5, <3>6, SumIsUnits, FS_EmptySet
  <2>4. Counts
    BY <2>3 DEF Init, Counts
  <2>5. OwnWorker
    BY DEF Init, OwnWorker
  <2> QED
    BY <2>2, <2>4, <2>5 DEF TearInv
<1>2. CoreInv /\ WaitInv /\ TearInv /\ [Next]_vars => TearInv'
  <2> SUFFICES ASSUME CoreInv, WaitInv, TearInv, [Next]_vars PROVE TearInv'
    OBVIOUS
  <2>1. \/ Still
        \/ \E t \in Threads : \/ \E x : Ended(t, x) \/ Weightless(t, x)
                              \/ \E V \in SUBSET Models : Taken(t, V)
    <3>1. ASSUME NEW t \in Threads, Client(t) PROVE Still
      BY <3>1, StillWhen DEF Client, AcquireHit, AcquireMiss, UseWorker, MarkRetained,
         Release, Unload
    <3>2. UNCHANGED vars => Still
      BY StillWhen DEF vars
    <3> QED
      BY <3>1, <3>2, InCallTear, WorkerTear DEF Next, Over, TearInv
  <2>2. foot \in [Models -> Nat]
    BY DEF CoreInv, TypeOK, PoolType
  <2>3. Counts' /\ Hands(torn, rel)'
    BY <2>1, <2>2, StillCounts, EndedCounts, TakenCounts, WeightlessCounts DEF TearInv
  <2>4. OwnWorker'
    BY OwnWorkerStep DEF CoreInv, TearInv
  <2> QED
    BY <2>3, <2>4 DEF TearInv
<1> QED
  BY <1>1, <1>2, Waits, PTL DEF Spec

\* The tearing bytes are those of the victims a thread still has to tear
\* down or release, in all and for each worker, whatever teardown raises,
\* build fails or release comes late: the reconciliation never counts
\* bytes that are gone, nor misses bytes that are not.
THEOREM TearingIsAccounted == Spec => []TearingAccounted
<1>1. TearInv => TearingAccounted
  BY LeavingIs DEF TearInv, Counts, AllKinds, TearingAccounted
<1> QED
  BY <1>1, Tears, PTL

-----------------------------------------------------------------------------
(* The order of use, and the budget.                                       *)

\* The entries used before an entry are in the pool, itself not among
\* them, and so are those used before those.
OrderInv ==
  \A m \in Models :
    /\ older[m] \subseteq resident \ {m}
    /\ \A k \in older[m] : older[k] \subseteq older[m]

\* _touch keeps the order: the touched entry comes last.
LEMMA TouchOrder ==
  ASSUME TypeOK, OrderInv, NEW m \in Models, Touch(m), resident \subseteq resident',
         m \in resident', resident' \subseteq Models
  PROVE  OrderInv'
<1>1. ASSUME NEW x \in Models
      PROVE  older'[x] = IF x = m THEN resident' \ {m} ELSE older[x] \ {m}
  BY DEF Touch
<1>2. ASSUME NEW x \in Models PROVE older'[x] \subseteq resident' \ {x}
  <2>1. older[x] \subseteq resident \ {x}
    BY DEF OrderInv
  <2> QED
    BY <1>1, <2>1
<1>3. ASSUME NEW x \in Models, NEW k \in older'[x] PROVE older'[k] \subseteq older'[x]
  <2>1. k \in Models /\ k # m
    BY <1>1, <1>2, <1>3
  <2>2. older'[k] = older[k] \ {m} /\ older[k] \subseteq resident
    BY <1>1, <2>1 DEF OrderInv
  <2>3. CASE x = m
    BY <1>1, <2>2, <2>3
  <2>4. CASE x # m
    BY <1>1, <1>3, <2>2, <2>4 DEF OrderInv
  <2> QED
    BY <2>3, <2>4
<1> QED
  BY <1>2, <1>3 DEF OrderInv

\* So does a take-out.
LEMMA TakeOutOrder ==
  ASSUME TypeOK, OrderInv, NEW t \in Threads, NEW S, TakeOut(t, S)
  PROVE  OrderInv'
<1>1. ASSUME NEW x \in Models
      PROVE  older'[x] = IF x \in S THEN {} ELSE older[x] \ S
  BY DEF TakeOut
<1>2. resident' = resident \ S
  BY DEF TakeOut
<1>3. ASSUME NEW x \in Models
      PROVE  older[x] \subseteq resident \ {x} /\ older'[x] \subseteq resident' \ {x}
  <2>1. older[x] \subseteq resident \ {x}
    BY DEF OrderInv
  <2> QED
    BY <1>1, <1>2, <2>1
<1>4. ASSUME NEW x \in Models, NEW k \in older'[x]
      PROVE  older'[k] \subseteq older'[x]
  <2>1. x \notin S /\ k \in older[x] /\ k \notin S
    BY <1>1, <1>4
  <2>2. k \in Models
    BY <1>3, <2>1 DEF TypeOK, PoolType
  <2>3. older[k] \subseteq older[x]
    BY <2>1 DEF OrderInv
  <2> QED
    BY <1>1, <2>1, <2>2, <2>3
<1> QED
  BY <1>3, <1>4 DEF OrderInv

\* What no eviction for n bytes takes fits beside it, unless every idle
\* entry is taken: the scan stops at the first prefix that leaves room.
LEMMA RoomUnlessNoneIdle ==
  ASSUME TypeOK, OrderInv, Budget # 0, NEW n \in Nat, Idle \ Victims(n, 0) # {}
  PROVE  BytesOf(resident \ Victims(n, 0)) + n <= Budget
<1> DEFINE V == Victims(n, 0)
           D == {older[m] : m \in Idle \ V}
<1>0. resident \in SUBSET Models /\ IsFiniteSet(Models) /\ foot \in [Models -> Nat]
  BY ConstantsAssumption DEF TypeOK, PoolType
<1>00. Idle \subseteq resident /\ V \subseteq Idle
  BY VictimsAreResident
<1>1. \A s \in D : IsFiniteSet(s)
  <2>1. \A m \in Models : older[m] \subseteq Models
    BY <1>0 DEF OrderInv
  <2>2. \A m \in Models : IsFiniteSet(older[m])
    BY <1>0, <2>1, FS_Subset
  <2> QED
    BY <1>0, <1>00, <2>2
<1>2. PICK k \in Idle \ V : \A m \in Idle \ V : Cardinality(older[k]) <= Cardinality(older[m])
  <2>1. D # {}
    OBVIOUS
  <2> HIDE DEF V
  <2>2. PICK s \in D : \A r \in D : Cardinality(s) <= Cardinality(r)
    BY <1>1, <2>1, SmallestExists
  <2> QED
    BY <2>2
<1>3. older[k] \cap Idle \subseteq V
  <2> SUFFICES ASSUME NEW j \in older[k] \cap Idle, j \notin V PROVE FALSE
    OBVIOUS
  <2>1. k \in Models /\ j \in Models
    BY <1>0, <1>00
  <2>2. older[j] \subseteq older[k] /\ j \notin older[j]
    BY <2>1 DEF OrderInv
  <2>3. IsFiniteSet(older[k])
    BY <1>1
  <2>4. older[j] \subseteq older[k] \ {j}
    BY <2>2
  <2>5. /\ IsFiniteSet(older[k] \ {j})
        /\ Cardinality(older[k] \ {j}) = Cardinality(older[k]) - 1
    BY <2>3, FS_RemoveElement
  <2>6. Cardinality(older[j]) <= Cardinality(older[k] \ {j}) /\ IsFiniteSet(older[j])
    BY <2>4, <2>5, FS_Subset
  <2>7. Cardinality(older[j]) \in Nat /\ Cardinality(older[k]) \in Nat
    BY <2>3, <2>6, FS_CardinalityType
  <2>8. Cardinality(older[k]) <= Cardinality(older[j])
    BY <1>2
  <2> QED
    BY <2>5, <2>6, <2>7, <2>8
<1> DEFINE P == resident \ (older[k] \cap Idle)
<1>4. BytesOf(P) + 0 + n <= Budget
  <2>1. ~OverCapacity(n, 0, P)
    BY DEF Victims
  <2>2. BytesOf(P) \in Nat /\ Budget \in Nat
    <3>1. BytesOf(P) = Sum(foot, P)
      BY DEF BytesOf, Sum
    <3>2. IsFiniteSet(P) /\ \A m \in P : foot[m] \in Nat
      BY <1>0, FS_Subset
    <3> HIDE DEF P
    <3> QED
      BY <3>1, <3>2, SumNat, ConstantsAssumption
  <2> HIDE DEF P
  <2> QED
    BY <2>1, <2>2 DEF OverCapacity
<1>5. Sum(foot, resident \ V) <= Sum(foot, P)
  <2>1. resident \ V \in SUBSET P
    BY <1>3
  <2>2. IsFiniteSet(P) /\ \A m \in P : foot[m] \in Nat
    BY <1>0, FS_Subset
  <2> HIDE DEF P, V
  <2> QED
    BY <2>1, <2>2, SumSubset
<1>6. Sum(foot, P) \in Nat /\ Sum(foot, resident \ V) \in Nat
  <2>1. P \in SUBSET Models /\ resident \ V \in SUBSET Models
    BY <1>0
  <2> HIDE DEF P, V
  <2>2. IsFiniteSet(P) /\ IsFiniteSet(resident \ V)
    BY <1>0, <2>1, FS_Subset
  <2>3. (\A m \in P : foot[m] \in Nat) /\ \A m \in resident \ V : foot[m] \in Nat
    BY <1>0, <2>1
  <2> QED
    BY <2>2, <2>3, SumNat
<1>7. BytesOf(P) = Sum(foot, P) /\ BytesOf(resident \ V) = Sum(foot, resident \ V)
  BY DEF BytesOf, Sum
<1> HIDE DEF P, V
<1>8. BytesOf(resident \ V) + n <= Budget
  BY <1>4, <1>5, <1>6, <1>7, ConstantsAssumption
<1> QED
  BY <1>8 DEF V

-----------------------------------------------------------------------------
(* What a step does to the bytes held.                                     *)

\* The bytes held after a step.
LEMMA HeldNext ==
  /\ Held = Sum(foot, resident) + building
  /\ Held' = Sum(foot', resident') + building'
BY DEF Held, BytesOf, Sum, MapThenSumSet, MapThenFoldSet

\* A set of entries holds a number of bytes.
LEMMA EntriesNat ==
  ASSUME NEW f \in [Models -> Nat], NEW R \in SUBSET Models
  PROVE  Sum(f, R) \in Nat
<1>1. IsFiniteSet(R) /\ \A m \in R : f[m] \in Nat
  BY ConstantsAssumption, FS_Subset
<1> QED
  BY <1>1, SumNat

\* A step that leaves the entries alone and books nothing holds no more.
LEMMA HeldStill ==
  ASSUME CoreInv, UNCHANGED <<resident, foot>>, building' \in {0, building}
  PROVE  ~(Held' > Held)
<1>1. Sum(foot, resident) \in Nat /\ building \in Nat
  BY EntriesNat DEF CoreInv, TypeOK, PoolType
<1> QED
  BY <1>1, HeldNext

\* What a take-out leaves.
LEMMA HeldOut ==
  ASSUME CoreInv, NEW t \in Threads, NEW S, TakeOut(t, S)
  PROVE  /\ Sum(foot', resident') = Sum(foot, resident \ S)
         /\ Sum(foot, resident \ S) <= Sum(foot, resident)
         /\ Sum(foot, resident \ S) \in Nat /\ Sum(foot, resident) \in Nat
<1>0. foot \in [Models -> Nat] /\ resident \in SUBSET Models
  BY DEF CoreInv, TypeOK, PoolType
<1>1. /\ resident' = resident \ S
      /\ foot' = [m \in Models |-> IF m \in S THEN 0 ELSE foot[m]]
  BY DEF TakeOut
<1>2. IsFiniteSet(resident) /\ IsFiniteSet(resident \ S)
  BY <1>0, ConstantsAssumption, FS_Subset
<1>3. \A m \in resident \ S : foot[m] \in Nat /\ foot[m] = foot'[m]
  BY <1>0, <1>1
<1>4. Sum(foot, resident \ S) = Sum(foot', resident \ S)
  BY <1>2, <1>3, SumSame
<1>5. Sum(foot, resident \ S) <= Sum(foot, resident)
  <2>1. \A m \in resident : foot[m] \in Nat
    BY <1>0
  <2>2. resident \ S \in SUBSET resident
    OBVIOUS
  <2> QED
    BY <1>2, <2>1, <2>2, SumSubset
<1>6. resident \ S \in SUBSET Models
  BY <1>0
<1> QED
  BY <1>0, <1>1, <1>4, <1>5, <1>6, EntriesNat

\* What a step over the budget may be.
Forced ==
  Budget # 0 /\ Held' > Budget /\ Held' > Held
    => /\ Idle' = {}
       /\ call[lock].m \in Streaming => resident' = {}

\* An eviction for n bytes goes over the budget only when it took every
\* idle entry, and then for a model that does not stream or into an empty
\* pool: any other is deferred, and holds no more than before.
LEMMA RoomForced ==
  ASSUME CoreInv, OrderInv, NEW t \in Threads, lock = t, NEW n \in Nat,
         TakeOut(t, Victims(n, 0)),
         IF Deferred(call[t].m, n, 0) THEN building' \in {0, building} ELSE building' = n
  PROVE  Forced
<1> DEFINE V == Victims(n, 0)
<1> SUFFICES ASSUME Budget # 0, Held' > Budget, Held' > Held
             PROVE  Idle' = {} /\ (call[t].m \in Streaming => resident' = {})
  BY DEF Forced
<1>1. /\ Sum(foot', resident') = Sum(foot, resident \ V)
      /\ Sum(foot, resident \ V) <= Sum(foot, resident)
      /\ Sum(foot, resident \ V) \in Nat /\ Sum(foot, resident) \in Nat
  <2> HIDE DEF V
  <2>1. TakeOut(t, V)
    BY DEF V
  <2> QED
    BY <2>1, HeldOut
<1>2. building \in Nat /\ Budget \in Nat
  BY ConstantsAssumption DEF CoreInv, TypeOK
<1>3. ~Deferred(call[t].m, n, 0) /\ building' = n
  BY <1>1, <1>2, HeldNext
<1>4. Sum(foot, resident \ V) + n > Budget
  BY <1>1, <1>2, <1>3, HeldNext
<1>5. BytesOf(resident \ V) = Sum(foot, resident \ V)
  BY DEF BytesOf, Sum
<1>6. Idle \ V = {}
  <2>1. TypeOK
    BY DEF CoreInv
  <2>2. ASSUME Idle \ V # {} PROVE BytesOf(resident \ V) + n <= Budget
    BY <2>1, <2>2, RoomUnlessNoneIdle
  <2> HIDE DEF V
  <2> QED
    BY <1>1, <1>2, <1>4, <1>5, <2>2
<1>7. resident' = resident \ V /\ \A m \in Models \ V : busy'[m] = busy[m]
  BY DEF TakeOut
<1>8. Idle' = {}
  <2>1. Idle' = {m \in resident' : m \notin Pinned /\ busy'[m] = 0}
    BY DEF Idle
  <2>2. resident \subseteq Models
    BY DEF CoreInv, TypeOK, PoolType
  <2> HIDE DEF V
  <2> QED
    BY <1>6, <1>7, <2>1, <2>2 DEF Idle
<1>9. ASSUME call[t].m \in Streaming PROVE resident' = {}
  <2>1. ~(resident \ V # {} /\ BytesOf(resident \ V) + 0 + n > Budget)
    BY <1>3, <1>9 DEF Deferred
  <2> HIDE DEF V
  <2> QED
    BY <1>1, <1>4, <1>5, <1>7, <2>1
<1> QED
  BY <1>8, <1>9

-----------------------------------------------------------------------------
(* The steps.                                                              *)

\* What the budget rests on: the order of use, the booked room, and that
\* no model is loaded while its entry is resident.
BudgetInv == CoreInv /\ BookInv /\ NoDoubleLoad /\ OrderInv

\* A client touches an entry at most.
LEMMA ClientBudget ==
  ASSUME BudgetInv, NEW t \in Threads, Client(t)
  PROVE  OrderInv' /\ Forced
<1> USE DEF BudgetInv
<1> PICK m \in Models :
      \/ AcquireHit(t, m) \/ AcquireMiss(t, m) \/ UseWorker(t, m)
      \/ MarkRetained(t, m) \/ Release(t, m)
      \/ \E op \in UnloadOps, past \in SUBSET Models : Unload(t, op, m, past)
  BY DEF Client
<1>1. UNCHANGED <<resident, foot, building>>
  BY DEF AcquireHit, TakeHit, AcquireMiss, UseWorker, MarkRetained, Release, Unload
<1>2. OrderInv'
  <2>1. CASE AcquireHit(t, m)
    <3>1. TypeOK /\ Touch(m) /\ m \in resident' /\ resident' \subseteq Models /\ resident \subseteq resident'
      BY <1>1, <2>1 DEF AcquireHit, TakeHit, CoreInv, TypeOK, PoolType
    <3> QED
      BY <3>1, TouchOrder
  <2>2. CASE ~AcquireHit(t, m)
    <3>1. older' = older
      BY <2>2 DEF AcquireMiss, UseWorker, MarkRetained, Release, Unload
    <3> QED
      BY <1>1, <3>1 DEF OrderInv
  <2> QED
    BY <2>1, <2>2
<1> QED
  BY <1>1, <1>2, HeldStill DEF Forced

\* A call's step goes over the budget only at an eviction for room.
LEMMA InCallBudget ==
  ASSUME BudgetInv, NEW t \in Threads, InCall(t)
  PROVE  OrderInv' /\ Forced
<1> USE DEF BudgetInv
<1>0. /\ CallOK(t) /\ BookOK(t) /\ call[t].m \in Models /\ call[t].n \in Nat
      /\ TypeOK /\ (pc[t] \in Critical => lock = t)
  BY CallFields DEF CoreInv, CallInv, BookInv, LockInv
<1>1. ASSUME UNCHANGED <<resident, foot, older>>, building' \in {0, building}
      PROVE  OrderInv' /\ Forced
  BY <1>1, HeldStill DEF OrderInv, Forced
<1>2. CASE \/ Reserve(t) \/ TakeBuildLock(t) \/ \E k \in WorkerKinds : Submit(t, k)
           \/ Widen(t)
           \/ \E x \in torn[t] : TearPipeline(t, x)
           \/ \E x \in torn[t], r \in BOOLEAN : TearChat(t, x, r)
           \/ \E x \in rel[t] : Free(t, x) \/ QueueRelease(t, x)
           \/ BuildFails(t) \/ BuildOk(t) \/ Abort(t) \/ InsertFails(t) \/ Leave(t)
  <2>1. UNCHANGED <<resident, foot, older>>
    BY <1>2 DEF Reserve, TakeBuildLock, Submit, Widen, TearPipeline, TearChat, Free,
       QueueRelease, BuildFails, BuildOk, Abort, InsertFails, Leave
  <2>2. building' \in {0, building}
    BY <1>2 DEF Reserve, TakeBuildLock, Submit, Widen, TearPipeline, TearChat, Free,
       QueueRelease, BuildFails, BuildOk, Abort, InsertFails, Leave, Unbook
  <2> QED
    BY <1>1, <2>1, <2>2
<1>3. CASE RecheckHit(t)
  <2>1. /\ Touch(call[t].m) /\ call[t].m \in resident /\ UNCHANGED <<resident, foot, building>>
    BY <1>3 DEF RecheckHit, Loaded, TakeHit
  <2>2. OrderInv'
    BY <1>0, <2>1, TouchOrder DEF TypeOK, PoolType
  <2> QED
    BY <2>1, <2>2, HeldStill DEF Forced
<1>4. CASE MakeRoom(t)
  <2> DEFINE n == call[t].n
  <2>1. pc[t] = "locked" /\ building = 0 /\ lock = t
    BY <1>0, <1>4 DEF MakeRoom, BookOK, Critical
  <2>2. /\ TakeOut(t, Victims(n, 0))
        /\ building' = IF Deferred(call[t].m, n, 0) THEN building ELSE n
    BY <1>4, <2>1 DEF MakeRoom
  <2> HIDE DEF n
  <2>3. OrderInv'
    BY <1>0, <2>2, TakeOutOrder
  <2>4. n \in Nat
    BY <1>0 DEF n
  <2>5. Forced
    BY <2>1, <2>2, <2>4, RoomForced
  <2> QED
    BY <2>3, <2>5
<1>5. CASE \E past \in SUBSET Models : Detach(t, past)
  <2>1. PICK S : TakeOut(t, S) /\ building' = building
    BY <1>5 DEF Detach
  <2>2. OrderInv'
    BY <1>0, <2>1, TakeOutOrder
  <2>3. building \in Nat
    BY DEF CoreInv, TypeOK
  <2>4. /\ Sum(foot', resident') <= Sum(foot, resident)
        /\ Sum(foot', resident') \in Nat /\ Sum(foot, resident) \in Nat
    BY <2>1, HeldOut
  <2>5. ~(Held' > Held)
    BY <2>1, <2>3, <2>4, HeldNext
  <2> QED
    BY <2>2, <2>5 DEF Forced
<1>6. CASE BuildRepriced(t)
  <2> DEFINE n == call[t].n + Extra[call[t].m]
  <2>1. pc[t] = "tear" /\ lock = t
    BY <1>0, <1>6 DEF BuildRepriced, Building, Critical
  <2>2. /\ TakeOut(t, Victims(n, 0))
        /\ building' = IF Deferred(call[t].m, n, 0) THEN 0 ELSE n
    BY <1>6 DEF BuildRepriced
  <2>4. n \in Nat
    BY <1>0, ConstantsAssumption
  <2> HIDE DEF n
  <2>3. OrderInv'
    BY <1>0, <2>2, TakeOutOrder
  <2>5. Forced
    BY <2>1, <2>2, <2>4, RoomForced
  <2> QED
    BY <2>3, <2>5
<1>7. CASE Insert(t)
  <2> DEFINE m == call[t].m
  <2>1. /\ pc[t] = "refit" /\ call[t].then = "insert"
        /\ resident' = resident \cup {call[t].m}
        /\ foot' = [foot EXCEPT ![call[t].m] = call[t].n]
        /\ Touch(call[t].m) /\ building' = 0
    BY <1>7 DEF Insert
  <2>2. call[t].m \notin resident
    BY <1>0, <2>1 DEF NoDoubleLoad, CallOK
  <2>3. building = call[t].n
    BY <1>0, <2>1 DEF BookOK
  <2>4. resident \in SUBSET Models /\ foot \in [Models -> Nat]
    BY <1>0 DEF TypeOK, PoolType
  <2>5. OrderInv'
    <3>1. resident' \subseteq Models /\ resident \subseteq resident' /\ call[t].m \in resident'
      BY <1>0, <2>1, <2>4
    <3> QED
      BY <1>0, <2>1, <3>1, TouchOrder
  <2>6. IsFiniteSet(resident)
    BY <2>4, ConstantsAssumption, FS_Subset
  <2>7. foot' \in [Models -> Nat] /\ foot'[call[t].m] = call[t].n
    BY <1>0, <2>1, <2>4
  <2>8. Sum(foot', resident') = call[t].n + Sum(foot', resident)
    <3>1. \A x \in resident \cup {call[t].m} : foot'[x] \in Nat
      BY <1>0, <2>4, <2>7
    <3>2. Sum(foot', resident \cup {call[t].m}) = foot'[call[t].m] + Sum(foot', resident)
      BY <2>2, <2>6, <3>1, SumAdd
    <3> QED
      BY <2>1, <2>7, <3>2
  <2>9. Sum(foot, resident) = Sum(foot', resident)
    <3>1. \A x \in resident : foot[x] \in Nat /\ foot[x] = foot'[x]
      BY <2>1, <2>2, <2>4
    <3> QED
      BY <2>6, <3>1, SumSame
  <2>10. Sum(foot, resident) \in Nat
    BY <2>4, EntriesNat
  <2>11. ~(Held' > Held)
    BY <1>0, <2>1, <2>3, <2>8, <2>9, <2>10, HeldNext
  <2> QED
    BY <2>5, <2>11 DEF Forced
<1> QED
  BY <1>2, <1>3, <1>4, <1>5, <1>6, <1>7, InCallSteps

\* The order of use and the budget hold together over every step.
LEMMA BudgetStep ==
  ASSUME BudgetInv, [Next]_vars
  PROVE  OrderInv' /\ Forced
<1>1. ASSUME UNCHANGED <<resident, foot, older, building>> PROVE OrderInv' /\ Forced
  <2>1. CoreInv /\ OrderInv
    BY DEF BudgetInv
  <2> QED
    BY <1>1, <2>1, HeldStill DEF OrderInv, Forced
<1>2. ASSUME NEW k \in WorkerKinds, Worker(k) PROVE OrderInv' /\ Forced
  BY <1>1, <1>2 DEF Worker, RunJob, RunRelease
<1>3. CASE UNCHANGED vars
  BY <1>1, <1>3 DEF vars
<1> QED
  BY <1>2, <1>3, ClientBudget, InCallBudget DEF Next, Over

\* The order of use, in every state.
THEOREM UseIsOrdered == Spec => []BudgetInv
<1>1. Init => OrderInv
  BY DEF Init, OrderInv
<1>2. BudgetInv /\ [Next]_vars => OrderInv'
  BY BudgetStep
<1> QED
  BY <1>1, <1>2, Core, Room, LoadedOnce, PTL DEF Spec, BudgetInv

\* The pool goes over its budget only for a load that does not stream, or
\* into an empty pool, and only when no idle entry is left: the eviction
\* stops at the first prefix of the order of use that leaves room, and a
\* streamed load that finds none is deferred, at its header's price as at
\* the price of the built model.
THEOREM OverBudgetIsForced == Spec => OverBudgetOnlyWhenForced
<1>1. BudgetInv /\ [Next]_vars => [Forced]_vars
  BY BudgetStep
<1>2. Spec => [][Forced]_vars
  BY <1>1, UseIsOrdered, PTL DEF Spec
<1> QED
  BY <1>2 DEF OverBudgetOnlyWhenForced, Forced
=============================================================================
