-------------------------- MODULE EngineJobsProofs --------------------------
(***************************************************************************)
(* What the lane of jobs guarantees for any jobs, chat requests and rows,  *)
(* whenever callers leave and the engine stops.                            *)
(***************************************************************************)
EXTENDS EngineJobs, FiniteSetTheorems, TLAPS

\* A job occurs at most once in s.
Once(s) == \A i, k \in DOMAIN s : s[i] = s[k] /\ s[i] \in Jobs => i = k

-----------------------------------------------------------------------------
(* Sequences of jobs and chat requests.                                    *)

\* Appending adds one element.
LEMMA ElemsAppend ==
  ASSUME NEW T, NEW s \in Seq(T), NEW x \in T
  PROVE  /\ Append(s, x) \in Seq(T) /\ Elems(Append(s, x)) = Elems(s) \cup {x}
         /\ Once(s) /\ (x \in Jobs => x \notin Elems(s)) => Once(Append(s, x))
<1>1. /\ Append(s, x) \in Seq(T) /\ DOMAIN Append(s, x) = 1..(Len(s) + 1)
      /\ DOMAIN s = 1..Len(s) /\ Len(s) \in Nat
      /\ \A i \in 1..Len(s) : Append(s, x)[i] = s[i]
      /\ Append(s, x)[Len(s) + 1] = x
  OBVIOUS
<1>2. Elems(Append(s, x)) = Elems(s) \cup {x}
  BY <1>1 DEF Elems
<1>3. ASSUME Once(s), x \in Jobs => x \notin Elems(s)
      PROVE  Once(Append(s, x))
  BY <1>1, <1>3 DEF Once, Elems
<1> QED
  BY <1>1, <1>2, <1>3

\* Its elements, one by one.
LEMMA AppendElems ==
  ASSUME NEW T, NEW s \in Seq(T), NEW x \in T
  PROVE  \A y : y \in Elems(Append(s, x)) <=> y \in Elems(s) \/ y = x
<1>1. /\ DOMAIN Append(s, x) = 1..(Len(s) + 1) /\ DOMAIN s = 1..Len(s) /\ Len(s) \in Nat
      /\ \A i \in 1..Len(s) : Append(s, x)[i] = s[i]
      /\ Append(s, x)[Len(s) + 1] = x
  OBVIOUS
<1> QED
  BY <1>1 DEF Elems

\* A concatenation has the elements of both parts.
LEMMA ElemsConcat ==
  ASSUME NEW T, NEW s \in Seq(T), NEW t \in Seq(T)
  PROVE  /\ s \o t \in Seq(T) /\ Elems(s \o t) = Elems(s) \cup Elems(t)
         /\ Once(s) /\ Once(t) /\ (\A j \in Jobs : j \notin Elems(s) \/ j \notin Elems(t))
              => Once(s \o t)
<1>1. /\ s \o t \in Seq(T) /\ DOMAIN (s \o t) = 1..(Len(s) + Len(t))
      /\ DOMAIN s = 1..Len(s) /\ DOMAIN t = 1..Len(t) /\ Len(s) \in Nat /\ Len(t) \in Nat
      /\ \A i \in 1..(Len(s) + Len(t)) :
           (s \o t)[i] = IF i <= Len(s) THEN s[i] ELSE t[i - Len(s)]
  OBVIOUS
<1>2. Elems(s \o t) = Elems(s) \cup Elems(t)
  <2>1. Elems(s \o t) \subseteq Elems(s) \cup Elems(t)
    BY <1>1 DEF Elems
  <2>2. ASSUME NEW i \in DOMAIN s PROVE s[i] \in Elems(s \o t)
    BY <1>1 DEF Elems
  <2>3. ASSUME NEW i \in DOMAIN t PROVE t[i] \in Elems(s \o t)
    <3>1. /\ Len(s) + i \in DOMAIN (s \o t) /\ (s \o t)[Len(s) + i] = t[i]
      BY <1>1
    <3> QED
      BY <3>1 DEF Elems
  <2> QED
    BY <2>1, <2>2, <2>3 DEF Elems
<1>3. ASSUME Once(s), Once(t), \A j \in Jobs : j \notin Elems(s) \/ j \notin Elems(t),
             NEW i \in DOMAIN (s \o t), NEW k \in DOMAIN (s \o t),
             (s \o t)[i] = (s \o t)[k], (s \o t)[i] \in Jobs
      PROVE  i = k
  <2>1. CASE i <= Len(s) /\ k <= Len(s)
    BY <1>1, <1>3, <2>1 DEF Once
  <2>2. CASE i > Len(s) /\ k > Len(s)
    <3>1. /\ i - Len(s) \in DOMAIN t /\ k - Len(s) \in DOMAIN t
          /\ t[i - Len(s)] = t[k - Len(s)] /\ t[i - Len(s)] \in Jobs
      BY <1>1, <1>3, <2>2
    <3>2. i - Len(s) = k - Len(s)
      BY <1>3, <3>1 DEF Once
    <3> QED
      BY <1>1, <3>2
  <2>3. CASE i <= Len(s) /\ k > Len(s)
    BY <1>1, <1>3, <2>3 DEF Elems
  <2>4. CASE i > Len(s) /\ k <= Len(s)
    BY <1>1, <1>3, <2>4 DEF Elems
  <2> QED
    BY <1>1, <2>1, <2>2, <2>3, <2>4
<1> QED
  BY <1>1, <1>2, <1>3 DEF Once

\* A sequence cut at n: the parts share no job.
LEMMA ElemsCut ==
  ASSUME NEW T, NEW s \in Seq(T), NEW n \in 0..Len(s)
  PROVE  LET front == SubSeq(s, 1, n)
             back == SubSeq(s, n + 1, Len(s))
         IN /\ front \in Seq(T) /\ back \in Seq(T)
            /\ Elems(front) \subseteq Elems(s) /\ Elems(back) \subseteq Elems(s)
            /\ Once(s) => /\ Once(front) /\ Once(back)
                          /\ \A j \in Jobs : j \notin Elems(front) \/ j \notin Elems(back)
<1> DEFINE front == SubSeq(s, 1, n)
           back == SubSeq(s, n + 1, Len(s))
<1>1. /\ front \in Seq(T) /\ DOMAIN front = 1..n /\ n \in Nat /\ n <= Len(s)
      /\ Len(s) \in Nat /\ DOMAIN s = 1..Len(s)
      /\ \A i \in 1..n : front[i] = s[i]
  OBVIOUS
<1>2. /\ back \in Seq(T) /\ DOMAIN back = 1..(Len(s) - n)
      /\ \A i \in 1..(Len(s) - n) : back[i] = s[n + i]
  BY <1>1
<1> HIDE DEF front, back
<1>3. Elems(front) \subseteq Elems(s) /\ Elems(back) \subseteq Elems(s)
  <2>1. \A i \in DOMAIN back : n + i \in DOMAIN s /\ back[i] = s[n + i]
    BY <1>1, <1>2
  <2>2. \A i \in DOMAIN front : i \in DOMAIN s /\ front[i] = s[i]
    BY <1>1
  <2> QED
    BY <2>1, <2>2 DEF Elems
<1>4. ASSUME Once(s)
      PROVE  /\ Once(front) /\ Once(back)
             /\ \A j \in Jobs : j \notin Elems(front) \/ j \notin Elems(back)
  <2>1. Once(front)
    BY <1>1, <1>4 DEF Once
  <2>2. ASSUME NEW i \in DOMAIN back, NEW k \in DOMAIN back,
               back[i] = back[k], back[i] \in Jobs
        PROVE  i = k
    <3>1. /\ n + i \in DOMAIN s /\ n + k \in DOMAIN s /\ s[n + i] = s[n + k]
          /\ s[n + i] \in Jobs
      BY <1>1, <1>2, <2>2
    <3>2. n + i = n + k
      BY <1>4, <3>1 DEF Once
    <3> QED
      BY <1>1, <1>2, <3>2
  <2>3. ASSUME NEW i \in DOMAIN front, NEW k \in DOMAIN back, front[i] = back[k]
        PROVE  front[i] \notin Jobs
    <3>1. /\ i \in DOMAIN s /\ n + k \in DOMAIN s /\ s[i] = s[n + k] /\ i # n + k
          /\ front[i] = s[i]
      BY <1>1, <1>2, <2>3
    <3> QED
      BY <1>4, <3>1 DEF Once
  <2> QED
    BY <2>1, <2>2, <2>3 DEF Once, Elems
<1> QED
  BY <1>1, <1>2, <1>3, <1>4 DEF front, back

\* The head of a sequence and the rest.
LEMMA ElemsTail ==
  ASSUME NEW T, NEW s \in Seq(T), s # <<>>
  PROVE  /\ Tail(s) \in Seq(T) /\ Head(s) \in T /\ Elems(s) = {Head(s)} \cup Elems(Tail(s))
         /\ Once(s) => Once(Tail(s)) /\ (Head(s) \in Jobs => Head(s) \notin Elems(Tail(s)))
<1>1. /\ Tail(s) \in Seq(T) /\ DOMAIN Tail(s) = 1..(Len(s) - 1) /\ Len(s) \in Nat \ {0}
      /\ DOMAIN s = 1..Len(s) /\ Head(s) = s[1] /\ Head(s) \in T
      /\ \A i \in 1..(Len(s) - 1) : Tail(s)[i] = s[i + 1]
  OBVIOUS
<1>2. Elems(s) = {Head(s)} \cup Elems(Tail(s))
  <2>1. {Head(s)} \cup Elems(Tail(s)) \subseteq Elems(s)
    BY <1>1 DEF Elems
  <2>2. ASSUME NEW i \in DOMAIN s PROVE s[i] \in {Head(s)} \cup Elems(Tail(s))
    <3>1. CASE i = 1
      BY <1>1, <3>1
    <3>2. CASE i # 1
      <4>1. i - 1 \in DOMAIN Tail(s) /\ Tail(s)[i - 1] = s[i]
        BY <1>1, <3>2
      <4> QED
        BY <4>1 DEF Elems
    <3> QED
      BY <3>1, <3>2
  <2> QED
    BY <2>1, <2>2 DEF Elems
<1>3. ASSUME Once(s)
      PROVE  Once(Tail(s)) /\ (Head(s) \in Jobs => Head(s) \notin Elems(Tail(s)))
  <2>1. ASSUME NEW i \in DOMAIN Tail(s), NEW k \in DOMAIN Tail(s),
               Tail(s)[i] = Tail(s)[k], Tail(s)[i] \in Jobs
        PROVE  i = k
    <3>1. /\ i + 1 \in DOMAIN s /\ k + 1 \in DOMAIN s /\ s[i + 1] = s[k + 1]
          /\ s[i + 1] \in Jobs
      BY <1>1, <2>1
    <3>2. i + 1 = k + 1
      BY <1>3, <3>1 DEF Once
    <3> QED
      BY <1>1, <3>2
  <2>2. ASSUME NEW i \in DOMAIN Tail(s), Head(s) \in Jobs PROVE Tail(s)[i] # Head(s)
    <3>1. i + 1 \in DOMAIN s /\ 1 \in DOMAIN s /\ i + 1 # 1 /\ Tail(s)[i] = s[i + 1]
      BY <1>1
    <3> QED
      BY <1>1, <1>3, <2>2, <3>1 DEF Once
  <2> QED
    BY <2>1, <2>2 DEF Once, Elems
<1> QED
  BY <1>1, <1>2, <1>3

\* t reads s at n of its positions, in the order f: those that hold an S.
ReadsAt(t, s, S, n, f) ==
  /\ \A i \in 1..n : f[i] \in DOMAIN s /\ t[i] = s[f[i]] /\ t[i] \in S
  /\ DOMAIN t = 1..n
  /\ \A k \in DOMAIN s : s[k] \in S => \E i \in 1..n : f[i] = k
  /\ \A i, k \in 1..n : f[i] = f[k] => i = k

\* What s has of S is s read so.
LEMMA AmongMap ==
  ASSUME NEW T, NEW s \in Seq(T), NEW S, NEW t \in Among(s, S)
  PROVE  t \in Seq(T \cap S) /\ \E n, f : n \in Nat /\ ReadsAt(t, s, S, n, f)
<1> DEFINE K == {i \in DOMAIN s : s[i] \in S}
           n == Cardinality(K)
<1>1. IsFiniteSet(DOMAIN s) /\ K \in SUBSET DOMAIN s
  <2>1. DOMAIN s = 1..Len(s) /\ Len(s) \in Nat
    OBVIOUS
  <2> QED
    BY <2>1, FS_Interval
<1>2. n \in Nat
  BY <1>1, FS_Subset, FS_CardinalityType
<1>3. PICK f \in Bijection(1..n, K) : t = [i \in 1..n |-> s[f[i]]]
  BY DEF Among, Selections
<1> HIDE DEF n
<1>4. /\ f \in [1..n -> K] /\ \A k \in K : \E i \in 1..n : f[i] = k
      /\ \A i, k \in 1..n : f[i] = f[k] => i = k
  BY <1>3 DEF Bijection, Injection, Surjection, IsInjective
<1>5. \A i \in 1..n : f[i] \in DOMAIN s /\ t[i] = s[f[i]] /\ s[f[i]] \in T \cap S
  BY <1>3, <1>4
<1>6. t \in Seq(T \cap S) /\ DOMAIN t = 1..n
  BY <1>2, <1>3, <1>5
<1>7. ReadsAt(t, s, S, n, f)
  BY <1>4, <1>5, <1>6 DEF ReadsAt
<1> QED
  BY <1>2, <1>6, <1>7

\* Its type.
LEMMA AmongType ==
  ASSUME NEW T, NEW s \in Seq(T), NEW S, NEW t \in Among(s, S)
  PROVE  t \in Seq(T \cap S)
BY AmongMap

\* Its elements.
LEMMA AmongElems ==
  ASSUME NEW T, NEW s \in Seq(T), NEW S, NEW t \in Among(s, S)
  PROVE  \A x : x \in Elems(t) <=> x \in Elems(s) /\ x \in S
<1>1. PICK n, f : n \in Nat /\ ReadsAt(t, s, S, n, f)
  BY AmongMap
<1>2. ASSUME NEW i \in DOMAIN t PROVE t[i] \in Elems(s) /\ t[i] \in S
  BY <1>1, <1>2 DEF Elems, ReadsAt
<1>3. ASSUME NEW k \in DOMAIN s, s[k] \in S PROVE s[k] \in Elems(t)
  <2>1. PICK i \in 1..n : f[i] = k
    BY <1>1, <1>3 DEF ReadsAt
  <2>2. i \in DOMAIN t /\ t[i] = s[k]
    BY <1>1, <2>1 DEF ReadsAt
  <2> QED
    BY <2>2 DEF Elems
<1> QED
  BY <1>2, <1>3 DEF Elems

\* Each of its jobs once.
LEMMA AmongOnce ==
  ASSUME NEW T, NEW s \in Seq(T), NEW S, NEW t \in Among(s, S), Once(s)
  PROVE  Once(t)
<1>1. PICK n, f : n \in Nat /\ ReadsAt(t, s, S, n, f)
  BY AmongMap
<1> QED
  BY <1>1 DEF Once, ReadsAt

-----------------------------------------------------------------------------
(* Types.                                                                  *)

USE DEF callers, engine

\* What is put on a job's queue keeps its type.
LEMMA TellType ==
  ASSUME told \in [Jobs -> Seq(Items)], NEW j \in Jobs, NEW item \in Items, Tell(j, item)
  PROVE  /\ told' \in [Jobs -> Seq(Items)]
         /\ told'[j] = Append(told[j], item) /\ Len(told'[j]) = Len(told[j]) + 1
         /\ \A k \in Jobs \ {j} : told'[k] = told[k]
<1>1. Append(told[j], item) \in Seq(Items) /\ Len(Append(told[j], item)) = Len(told[j]) + 1
  OBVIOUS
<1> QED
  BY <1>1 DEF Tell

\* A step of a job takes one of its yields, or answers it and closes it.
LEMMA StepOfJob ==
  ASSUME TypeOK, NEW j \in Jobs, Proceeds(j) \/ Finishes(j)
  PROVE  /\ told' \in [Jobs -> Seq(Items)] /\ left' \in [Jobs -> Nat] /\ open' \subseteq Jobs
         /\ \A k \in Jobs \ {j} : told'[k] = told[k]
         /\ \/ Proceeds(j) /\ told' = told /\ open' = open
            \/ Finishes(j) /\ Len(told'[j]) = Len(told[j]) + 1 /\ open' = open \ {j}
<1>1. told \in [Jobs -> Seq(Items)] /\ left \in [Jobs -> Nat] /\ open \subseteq Jobs
  BY DEF TypeOK
<1>2. CASE Proceeds(j)
  BY <1>1, <1>2 DEF Proceeds
<1>3. CASE Finishes(j)
  <2>1. PICK item \in Answers(j) : Tell(j, item)
    BY <1>3 DEF Finishes
  <2>2. item \in Items
    BY <2>1 DEF Answers, Items
  <2> QED
    BY <1>1, <1>3, <2>1, <2>2, TellType DEF Finishes
<1> QED
  BY <1>2, <1>3

\* What a drain leaves and what it takes are queues.
LEMMA DrainType ==
  ASSUME requests \in Seq(Jobs \cup Chats \cup {None}), NEW room, NEW n \in 0..Len(requests),
         Drain(room, n)
  PROVE  /\ requests' \in Seq(Jobs \cup Chats \cup {None}) /\ quit' \in BOOLEAN
         /\ SubSeq(requests, 1, n) \in Seq(Jobs \cup Chats \cup {None})
BY ElemsCut DEF Drain

\* The initial state has the right types.
LEMMA TypeInit == Init => TypeOK
<1> SUFFICES ASSUME Init PROVE TypeOK
  OBVIOUS
<1>1. <<>> \in Seq(Jobs) /\ <<>> \in Seq(Chats) /\ <<>> \in Seq(Jobs \cup Chats)
      /\ <<>> \in Seq(Jobs \cup Chats \cup {None}) /\ <<>> \in Seq(Items)
  OBVIOUS
<1> QED
  BY <1>1, JobsAssumption DEF Init, TypeOK

\* Every step of a request thread keeps the types.
LEMMA TypeOfCallers ==
  ASSUME TypeOK,
         \/ SetStop \/ PutSentinel
         \/ \E j \in Jobs : Submit(j) \/ Reads(j) \/ TimeOut(j) \/ Disconnect(j)
         \/ \E c \in Chats : SubmitChat(c)
  PROVE  TypeOK'
<1> DEFINE Queue == Seq(Jobs \cup Chats \cup {None})
<1>1. ASSUME NEW x \in Jobs \cup Chats \cup {None}, requests' = Append(requests, x)
      PROVE  requests' \in Queue
  BY <1>1, ElemsAppend DEF TypeOK
<1>2. CASE SetStop
  BY <1>2 DEF SetStop, TypeOK
<1>3. CASE PutSentinel
  BY <1>1, <1>3 DEF PutSentinel, TypeOK
<1>4. ASSUME NEW j \in Jobs, Submit(j) PROVE TypeOK'
  BY <1>1, <1>4 DEF Submit, TypeOK
<1>5. ASSUME NEW j \in Jobs, Reads(j) PROVE TypeOK'
  BY <1>5 DEF Reads, GetContext, GetResult, TypeOK
<1>6. ASSUME NEW j \in Jobs, TimeOut(j) PROVE TypeOK'
  BY <1>6 DEF TimeOut, TypeOK
<1>7. ASSUME NEW j \in Jobs, Disconnect(j) PROVE TypeOK'
  BY <1>7 DEF Disconnect, TypeOK
<1>8. ASSUME NEW c \in Chats, SubmitChat(c) PROVE TypeOK'
  BY <1>1, <1>8 DEF SubmitChat, TypeOK
<1> QED
  BY <1>2, <1>3, <1>4, <1>5, <1>6, <1>7, <1>8

\* Every step of the engine keeps the types. (On an autoregressive engine what
\* arrived are jobs.)
LEMMA TypeOfEngine ==
  ASSUME TypeOK, Engine, ~diffusion => Elems(arrived) \subseteq Jobs,
         pc = "run" => arrived # <<>> /\ Head(arrived) \in Jobs,
         pc \in {"serve", "run"} => diffusion,
         pc \in {"take", "advance", "start", "halt", "tick"} => ~diffusion
  PROVE  TypeOK'
<1> USE JobsAssumption
<1> DEFINE Queue == Seq(Jobs \cup Chats \cup {None})
<1>a. /\ requests \in Queue /\ told \in [Jobs -> Seq(Items)] /\ left \in [Jobs -> Nat]
      /\ open \subseteq Jobs /\ jobs \in Seq(Jobs) /\ arrived \in Seq(Jobs \cup Chats)
      /\ newcomers \in Seq(Chats) /\ active \subseteq Chats
  BY DEF TypeOK
<1>1. CASE Check
  BY <1>1 DEF Check, TypeOK
<1>2. CASE Take
  <2>1. arrived' \in Seq(Jobs \cup Chats) /\ requests' \in Queue
    <3>1. arrived' \in Seq((Jobs \cup Chats \cup {None}) \cap Jobs)
      BY <1>2, <1>a, AmongType DEF Take
    <3>2. requests' \in Seq((Jobs \cup Chats \cup {None}) \cap (Chats \cup {None}))
      BY <1>2, <1>a, AmongType DEF Take
    <3> QED
      BY <3>1, <3>2
  <2> QED
    BY <1>2, <2>1 DEF Take, TypeOK
<1>3. CASE Advance
  <2>1. CASE jobs = <<>>
    BY <1>3, <2>1 DEF Advance, TypeOK
  <2>2. CASE jobs # <<>>
    <3>1. Head(jobs) \in Jobs /\ Tail(jobs) \in Seq(Jobs)
          /\ Append(Tail(jobs), Head(jobs)) \in Seq(Jobs)
      BY <1>a, <2>2
    <3>2. /\ Proceeds(Head(jobs)) \/ Finishes(Head(jobs))
          /\ jobs' \in Seq(Jobs)
      BY <1>3, <2>2, <3>1 DEF Advance
    <3>3. told' \in [Jobs -> Seq(Items)] /\ left' \in [Jobs -> Nat] /\ open' \subseteq Jobs
      BY <3>1, <3>2, StepOfJob
    <3> QED
      BY <1>3, <3>2, <3>3 DEF Advance, TypeOK
  <2> QED
    BY <2>1, <2>2
<1>4. CASE Collect
  <2>1. PICK n \in 0..Len(requests) :
          /\ Drain(Room, n)
          /\ \E more \in Among(SubSeq(requests, 1, n), Jobs) : arrived' = arrived \o more
          /\ newcomers' \in Among(SubSeq(requests, 1, n), Chats)
    BY <1>4 DEF Collect
  <2>2. /\ requests' \in Queue /\ quit' \in BOOLEAN
        /\ SubSeq(requests, 1, n) \in Queue
    BY <1>a, <2>1, DrainType
  <2>3. PICK more \in Among(SubSeq(requests, 1, n), Jobs) : arrived' = arrived \o more
    BY <2>1
  <2>4. more \in Seq((Jobs \cup Chats \cup {None}) \cap Jobs)
    BY <2>2, AmongType
  <2>5. newcomers' \in Seq((Jobs \cup Chats \cup {None}) \cap Chats)
    BY <2>1, <2>2, AmongType
  <2>6. more \in Seq(Jobs \cup Chats) /\ newcomers' \in Seq(Chats)
    BY <2>4, <2>5
  <2>7. arrived' \in Seq(Jobs \cup Chats)
    BY <1>a, <2>3, <2>6
  <2> QED
    BY <1>4, <2>2, <2>6, <2>7 DEF Collect, TypeOK
<1>5. ASSUME NEW bad \in SUBSET Elems(arrived), Start(bad) PROVE TypeOK'
  <2>1. ~diffusion /\ Elems(arrived) \subseteq Jobs
    BY <1>5 DEF Start
  <2>2. told' \in [Jobs -> Seq(Items)]
    <3>1. \A s \in Seq(Items) :
            /\ s \o <<"context", "cancelled">> \in Seq(Items)
            /\ s \o <<"context", "error">> \in Seq(Items)
            /\ Append(s, "context") \in Seq(Items)
      BY DEF Items
    <3> QED
      BY <1>5, <1>a, <3>1 DEF Start
  <2>3. jobs' \in Seq(Jobs)
    <3>1. PICK more \in Among(arrived, Elems(arrived) \ (stop \cup bad)) : jobs' = jobs \o more
      BY <1>5 DEF Start
    <3>2. more \in Seq((Jobs \cup Chats) \cap (Elems(arrived) \ (stop \cup bad)))
      BY <1>a, <3>1, AmongType
    <3>3. more \in Seq(Jobs)
      BY <2>1, <3>2
    <3> QED
      BY <1>a, <3>1, <3>3
  <2>4. open' \subseteq Jobs /\ arrived' \in Seq(Jobs \cup Chats)
    BY <1>5, <1>a, <2>1 DEF Start
  <2> QED
    BY <1>5, <2>2, <2>3, <2>4 DEF Start, TypeOK
<1>6. CASE Halt
  <2>1. \A s \in Seq(Items) : Append(s, "stopped") \in Seq(Items)
    BY DEF Items
  <2>2. /\ told' \in [Jobs -> Seq(Items)] /\ open' \subseteq Jobs /\ jobs' \in Seq(Jobs)
    <3>1. CASE stopping = "no"
      BY <1>6, <1>a, <3>1 DEF Halt
    <3>2. CASE stopping # "no"
      <4>1. /\ told' = [j \in Jobs |->
                         IF j \in Elems(jobs) THEN Append(told[j], "stopped") ELSE told[j]]
            /\ open' = open \ Elems(jobs) /\ jobs' = <<>>
        BY <1>6, <3>2 DEF Halt
      <4>2. <<>> \in Seq(Jobs)
        OBVIOUS
      <4> QED
        BY <1>a, <2>1, <4>1, <4>2
    <3> QED
      BY <3>1, <3>2
  <2> QED
    BY <1>6, <2>2 DEF Halt, TypeOK
<1>7. CASE Tick
  <2>1. active' \subseteq Chats /\ newcomers' \in Seq(Chats)
    <3>1. Elems(newcomers) \subseteq Chats
      BY <1>a DEF Elems
    <3> QED
      BY <1>7, <1>a, <3>1 DEF Tick
  <2> QED
    BY <1>7, <2>1 DEF Tick, TypeOK
<1>8. CASE CheckDiffusion
  BY <1>8 DEF CheckDiffusion, TypeOK
<1>9. CASE CollectDiffusion
  <2>1. PICK n \in 0..Len(requests) :
          /\ Drain(Len(requests) + 1, n)
          /\ arrived' \in Among(SubSeq(requests, 1, n), Jobs \cup Chats)
    BY <1>9 DEF CollectDiffusion
  <2>2. /\ requests' \in Queue /\ quit' \in BOOLEAN
        /\ SubSeq(requests, 1, n) \in Queue
    BY <1>a, <2>1, DrainType
  <2>3. arrived' \in Seq((Jobs \cup Chats \cup {None}) \cap (Jobs \cup Chats))
    BY <2>1, <2>2, AmongType
  <2>4. arrived' \in Seq(Jobs \cup Chats)
    BY <2>3
  <2> QED
    BY <1>9, <2>2, <2>4 DEF CollectDiffusion, TypeOK
<1>10. CASE Serve
  <2>1. CASE arrived = <<>>
    BY <1>10, <2>1 DEF Serve, TypeOK
  <2>2. CASE arrived # <<>>
    <3>1. Tail(arrived) \in Seq(Jobs \cup Chats)
      BY <1>a, <2>2
    <3>2. arrived' \in Seq(Jobs \cup Chats)
      BY <1>10, <1>a, <2>2, <3>1 DEF Serve
    <3>3. told' \in [Jobs -> Seq(Items)] /\ open' \subseteq Jobs /\ pc' \in {"serve", "run"}
      <4>1. CASE Head(arrived) \in Chats
        BY <1>10, <1>a, <2>2, <4>1 DEF Serve
      <4>2. CASE Head(arrived) \in Jobs /\ Head(arrived) \in stop
        <5>1. told[Head(arrived)] \o <<"context", "cancelled">> \in Seq(Items)
          BY <1>a, <4>2 DEF Items
        <5> QED
          BY <1>10, <1>a, <2>2, <4>2, <5>1 DEF Serve
      <4>3. CASE Head(arrived) \in Jobs /\ Head(arrived) \notin stop
        <5>1. Tell(Head(arrived), "context") /\ open' = open \cup {Head(arrived)} /\ pc' = "run"
          BY <1>10, <2>2, <4>3 DEF Serve
        <5> QED
          BY <1>a, <4>3, <5>1, TellType DEF Items
      <4> QED
        BY <1>10, <2>2, <4>1, <4>2, <4>3 DEF Serve
    <3> QED
      BY <1>10, <3>2, <3>3 DEF Serve, TypeOK
  <2> QED
    BY <2>1, <2>2
<1>11. CASE Run
  <2>1. pc = "run" /\ arrived # <<>> /\ Head(arrived) \in Jobs
        /\ (Proceeds(Head(arrived)) \/ Finishes(Head(arrived)))
    BY <1>11 DEF Run
  <2>2. told' \in [Jobs -> Seq(Items)] /\ left' \in [Jobs -> Nat] /\ open' \subseteq Jobs
    BY <2>1, StepOfJob
  <2>3. arrived' \in Seq(Jobs \cup Chats) /\ pc' \in {"run", "serve"}
    <3>1. Tail(arrived) \in Seq(Jobs \cup Chats)
      BY <1>a, <2>1
    <3>2. (arrived' = arrived /\ pc' = pc) \/ (arrived' = Tail(arrived) /\ pc' = "serve")
      BY <1>11 DEF Run
    <3> QED
      BY <1>a, <2>1, <3>1, <3>2
  <2> QED
    BY <1>11, <2>2, <2>3 DEF Run, TypeOK
<1> QED
  BY <1>1, <1>2, <1>3, <1>4, <1>5, <1>6, <1>7, <1>8, <1>9, <1>10, <1>11 DEF Engine

-----------------------------------------------------------------------------
(* The invariant of the lane.                                              *)

\* A job waits in one place, with nothing told; it has been told its context
\* while it is open, and is not open in its caller's future.
JobInPlace(j) ==
  /\ Len(told[j]) <= 2
  /\ caller[j] = "new" => told[j] = <<>> /\ j \notin Elems(requests) \cup Elems(arrived) \cup open
  /\ j \in Elems(requests) => told[j] = <<>> /\ j \notin Elems(arrived) \cup open
  /\ j \in Elems(arrived) \ open => told[j] = <<>>
  /\ j \in open => Len(told[j]) = 1

\* The jobs that are open: those in turn, or the one a diffusion engine runs.
OpenIsServed ==
  IF diffusion
  THEN /\ jobs = <<>> /\ pc \in {"check", "collect", "serve", "run", "ended"}
       /\ pc = "run" => arrived # <<>> /\ open = {Head(arrived)}
       /\ pc # "run" => open = {}
  ELSE /\ pc \notin {"serve", "run"} /\ open = Elems(jobs)
       /\ Elems(arrived) \subseteq Jobs \ open

LaneInv ==
  /\ Once(requests) /\ Once(arrived) /\ Once(jobs)
  /\ (\A j \in Jobs : JobInPlace(j)) /\ OpenIsServed

\* It holds at the start.
LEMMA LaneInit == Init => LaneInv
BY DEF Init, LaneInv, Once, JobInPlace, OpenIsServed, Elems

\* The threads of the callers keep it.
LEMMA LaneOfCallers ==
  ASSUME TypeOK, LaneInv,
         \/ SetStop \/ PutSentinel
         \/ \E j \in Jobs : Submit(j) \/ Reads(j) \/ TimeOut(j) \/ Disconnect(j)
         \/ \E c \in Chats : SubmitChat(c)
  PROVE  LaneInv'
<1> DEFINE Queue == Jobs \cup Chats \cup {None}
<1>1. requests \in Seq(Queue) /\ told \in [Jobs -> Seq(Items)]
      /\ caller \in [Jobs -> {"new", "context", "result", "answered", "timed out"}]
  BY DEF TypeOK
<1>q. Jobs \subseteq Queue /\ Chats \cup {None} \subseteq Queue
  OBVIOUS
<1> HIDE DEF Queue
<1>2. UNCHANGED <<told, open, jobs, arrived, pc, diffusion>>
  BY DEF SetStop, PutSentinel, Submit, Reads, GetContext, GetResult, TimeOut, Disconnect, SubmitChat
<1>3. ASSUME NEW x \in (Chats \cup {None}) \ Jobs, requests' = Append(requests, x), caller' = caller
      PROVE  LaneInv'
  <2>1. Once(requests') /\ Elems(requests') = Elems(requests) \cup {x}
    <3>1. Once(requests) /\ x \notin Jobs /\ x \in Queue
      BY <1>q, <1>3 DEF LaneInv
    <3>2. Once(requests')
      BY <1>1, <1>3, <3>1, ElemsAppend
    <3>3. Elems(requests') = Elems(requests) \cup {x}
      <4>1. \A y : y \in Elems(Append(requests, x)) <=> y \in Elems(requests) \/ y = x
        BY <1>1, <3>1, AppendElems
      <4> QED
        BY <1>3, <4>1
    <3> QED
      BY <3>2, <3>3
  <2>2. \A j \in Jobs : j \in Elems(requests') <=> j \in Elems(requests)
    BY <1>3, <2>1
  <2> QED
    BY <1>2, <1>3, <2>1, <2>2 DEF LaneInv, JobInPlace, OpenIsServed, Once
<1>4. ASSUME UNCHANGED requests, \A j \in Jobs : caller'[j] = "new" => caller[j] = "new"
      PROVE  LaneInv'
  BY <1>2, <1>4 DEF LaneInv, JobInPlace, OpenIsServed, Once
<1>5. ASSUME NEW j \in Jobs, Submit(j) PROVE LaneInv'
  <2>1. /\ caller[j] = "new" /\ requests' = Append(requests, j)
        /\ caller' = [caller EXCEPT ![j] = "context"]
    BY <1>5 DEF Submit
  <2>2. told[j] = <<>> /\ j \notin Elems(requests) \cup Elems(arrived) \cup open
    BY <2>1 DEF LaneInv, JobInPlace
  <2>3. Once(requests') /\ Elems(requests') = Elems(requests) \cup {j}
    <3>1. Once(requests) /\ j \in Queue
      BY <1>q DEF LaneInv
    <3>2. Once(requests')
      BY <1>1, <2>1, <2>2, <3>1, ElemsAppend
    <3>3. Elems(requests') = Elems(requests) \cup {j}
      <4>1. \A y : y \in Elems(Append(requests, j)) <=> y \in Elems(requests) \/ y = j
        BY <1>1, <3>1, AppendElems
      <4> QED
        BY <2>1, <4>1
    <3> QED
      BY <3>2, <3>3
  <2>4. \A k \in Jobs : JobInPlace(k)'
    BY <1>1, <1>2, <2>1, <2>2, <2>3 DEF LaneInv, JobInPlace
  <2> QED
    BY <1>2, <2>3, <2>4 DEF LaneInv, OpenIsServed, Once
<1>6. ASSUME NEW j \in Jobs, Reads(j) \/ TimeOut(j) PROVE LaneInv'
  BY <1>1, <1>4, <1>6 DEF Reads, GetContext, GetResult, TimeOut
<1>7. ASSUME NEW j \in Jobs, Disconnect(j) PROVE LaneInv'
  BY <1>4, <1>7 DEF Disconnect
<1>8. CASE SetStop
  BY <1>4, <1>8 DEF SetStop
<1>9. CASE PutSentinel
  BY <1>3, <1>9, JobsAssumption DEF PutSentinel
<1>10. ASSUME NEW c \in Chats, SubmitChat(c) PROVE LaneInv'
  BY <1>3, <1>10, JobsAssumption DEF SubmitChat
<1> QED
  BY <1>5, <1>6, <1>7, <1>8, <1>9, <1>10

\* The turn of an autoregressive engine keeps it.
LEMMA LaneOfTurns ==
  ASSUME TypeOK, LaneInv, ~diffusion,
         \/ Check \/ Take \/ Advance \/ Collect \/ Halt \/ Tick
         \/ \E bad \in SUBSET Elems(arrived) : Start(bad)
  PROVE  LaneInv'
<1> DEFINE Queue == Jobs \cup Chats \cup {None}
<1>a. /\ requests \in Seq(Queue) /\ told \in [Jobs -> Seq(Items)] /\ jobs \in Seq(Jobs)
      /\ arrived \in Seq(Jobs \cup Chats) /\ open \subseteq Jobs
  BY DEF TypeOK
<1>b. /\ Once(requests) /\ Once(arrived) /\ Once(jobs) /\ (\A j \in Jobs : JobInPlace(j))
      /\ pc \notin {"serve", "run"} /\ open = Elems(jobs) /\ Elems(arrived) \subseteq Jobs \ open
  BY DEF LaneInv, OpenIsServed
<1>c. UNCHANGED <<diffusion, caller>>
  BY DEF Check, Take, Advance, Collect, Halt, Tick, Start
<1>1. CASE Check \/ Tick
  <2>1. UNCHANGED <<requests, told, open, jobs, arrived>> /\ pc' \in {"ended", "take", "check"}
    BY <1>1 DEF Check, Tick
  <2> QED
    BY <1>b, <1>c, <2>1 DEF LaneInv, JobInPlace, OpenIsServed, Once
<1>2. CASE Take
  <2>1. /\ arrived' \in Among(requests, Jobs) /\ requests' \in Among(requests, Chats \cup {None})
        /\ UNCHANGED <<told, open, jobs>> /\ pc' = "advance"
    BY <1>2 DEF Take
  <2>2. /\ \A x : x \in Elems(arrived') <=> x \in Elems(requests) /\ x \in Jobs
        /\ Once(arrived')
    BY <1>a, <1>b, <2>1, AmongElems, AmongOnce
  <2>3. /\ \A x : x \in Elems(requests') <=> x \in Elems(requests) /\ x \in Chats \cup {None}
        /\ Once(requests')
    BY <1>a, <1>b, <2>1, AmongElems, AmongOnce
  <2>4. \A j \in Jobs : JobInPlace(j)'
    BY <1>b, <1>c, <2>1, <2>2, <2>3, JobsAssumption DEF JobInPlace
  <2>5. Elems(arrived') \subseteq Jobs \ open
    BY <1>b, <2>2 DEF JobInPlace
  <2> QED
    BY <1>b, <1>c, <2>1, <2>2, <2>3, <2>4, <2>5 DEF LaneInv, OpenIsServed, Once
<1>3. CASE Advance
  <2>0. UNCHANGED <<requests, arrived>> /\ pc' = "collect"
    BY <1>3 DEF Advance
  <2>1. CASE jobs = <<>>
    <3>1. UNCHANGED <<told, open, jobs>>
      BY <1>3, <2>1 DEF Advance
    <3> QED
      BY <1>b, <1>c, <2>0, <3>1 DEF LaneInv, JobInPlace, OpenIsServed, Once
  <2>2. CASE jobs # <<>>
    <3>1. PICK j \in Jobs : j = Head(jobs)
      BY <1>a, <2>2, ElemsTail
    <3>2. /\ Tail(jobs) \in Seq(Jobs) /\ Elems(jobs) = {j} \cup Elems(Tail(jobs))
          /\ Once(Tail(jobs)) /\ j \notin Elems(Tail(jobs))
      BY <1>a, <1>b, <2>2, <3>1, ElemsTail
    <3>3. /\ Append(Tail(jobs), j) \in Seq(Jobs) /\ Once(Append(Tail(jobs), j))
          /\ Elems(Append(Tail(jobs), j)) = Elems(jobs)
      <4>1. PICK rest \in Seq(Jobs) : rest = Tail(jobs)
        BY <3>2
      <4>2. Once(Append(rest, j)) /\ Append(rest, j) \in Seq(Jobs)
        BY <3>2, <4>1, ElemsAppend
      <4>3. Elems(Append(rest, j)) = Elems(rest) \cup {j}
        BY ElemsAppend
      <4> QED
        BY <3>2, <4>1, <4>2, <4>3
    <3>4. \/ Proceeds(j) /\ jobs' = Append(Tail(jobs), j)
          \/ Finishes(j) /\ jobs' = Tail(jobs)
      BY <1>3, <2>2, <3>1 DEF Advance
    <3>5. CASE Proceeds(j) /\ jobs' = Append(Tail(jobs), j)
      <4>1. UNCHANGED <<told, open>>
        BY <3>5 DEF Proceeds
      <4>2. Once(jobs') /\ Elems(jobs') = open'
        BY <1>b, <3>3, <3>5, <4>1
      <4> QED
        BY <1>b, <1>c, <2>0, <4>1, <4>2 DEF LaneInv, JobInPlace, OpenIsServed, Once
    <3>6. CASE Finishes(j) /\ jobs' = Tail(jobs)
      <4>1. /\ Len(told'[j]) = Len(told[j]) + 1 /\ open' = open \ {j}
            /\ \A k \in Jobs \ {j} : told'[k] = told[k]
        <5>1. PICK item \in Answers(j) : Tell(j, item)
          BY <3>6 DEF Finishes
        <5>2. item \in Items
          BY <5>1 DEF Answers, Items
        <5> QED
          BY <1>a, <3>6, <5>1, <5>2, TellType DEF Finishes
      <4>2. Once(jobs') /\ Elems(jobs') = open'
        BY <1>b, <3>2, <3>6, <4>1
      <4>3. j \in open /\ Len(told[j]) = 1
        BY <1>b, <3>2 DEF JobInPlace
      <4>4. caller[j] # "new" /\ j \notin Elems(requests) /\ j \notin Elems(arrived)
        BY <1>b, <4>3 DEF JobInPlace
      <4>5. \A k \in Jobs : JobInPlace(k)'
        <5>1. ASSUME NEW k \in Jobs \ {j} PROVE JobInPlace(k)'
          BY <1>b, <1>c, <2>0, <4>1 DEF JobInPlace
        <5>2. JobInPlace(j)'
          BY <1>c, <2>0, <4>1, <4>3, <4>4 DEF JobInPlace
        <5> QED
          BY <5>1, <5>2
      <4> QED
        BY <1>b, <1>c, <2>0, <4>1, <4>2, <4>5 DEF LaneInv, OpenIsServed, Once
    <3> QED
      BY <3>4, <3>5, <3>6
  <2> QED
    BY <2>1, <2>2
<1>4. CASE Collect
  <2>1. PICK n \in 0..Len(requests) :
          /\ requests' = SubSeq(requests, n + 1, Len(requests))
          /\ \E more \in Among(SubSeq(requests, 1, n), Jobs) : arrived' = arrived \o more
    BY <1>4 DEF Collect, Drain
  <2>2. PICK more \in Among(SubSeq(requests, 1, n), Jobs) : arrived' = arrived \o more
    BY <2>1
  <2>3. UNCHANGED <<told, open, jobs>> /\ pc' = "start"
    BY <1>4 DEF Collect
  <2> DEFINE front == SubSeq(requests, 1, n)
  <2>4. /\ front \in Seq(Queue) /\ Elems(front) \subseteq Elems(requests) /\ Once(front)
        /\ Elems(requests') \subseteq Elems(requests) /\ Once(requests')
        /\ \A j \in Jobs : j \notin Elems(front) \/ j \notin Elems(requests')
    BY <1>a, <1>b, <2>1, ElemsCut
  <2>5. /\ more \in Seq(Queue \cap Jobs) /\ Once(more)
        /\ \A x : x \in Elems(more) <=> x \in Elems(front) /\ x \in Jobs
    <3>1. PICK s \in Seq(Queue) : s = SubSeq(requests, 1, n)
      BY <2>4
    <3>2. more \in Among(s, Jobs) /\ Once(s)
      BY <2>2, <2>4, <3>1
    <3>3. more \in Seq(Queue \cap Jobs)
      BY <3>2, AmongType
    <3>4. Once(more) /\ \A x : x \in Elems(more) <=> x \in Elems(s) /\ x \in Jobs
      BY <3>2, AmongElems, AmongOnce
    <3> QED
      BY <3>1, <3>3, <3>4
  <2>6. \A j \in Jobs : j \notin Elems(arrived) \/ j \notin Elems(more)
    BY <1>b, <2>4, <2>5 DEF JobInPlace
  <2>7. more \in Seq(Jobs \cup Chats)
    BY <2>5
  <2>8. Elems(arrived') = Elems(arrived) \cup Elems(more) /\ Once(arrived')
    BY <1>a, <1>b, <2>2, <2>5, <2>6, <2>7, ElemsConcat
  <2>9. \A j \in Jobs : JobInPlace(j)'
    <3>1. ASSUME NEW j \in Jobs PROVE JobInPlace(j)'
      <4>1. j \in Elems(more) => j \in Elems(requests) /\ j \notin Elems(requests')
        BY <2>4, <2>5
      <4>2. j \in Elems(requests') => j \in Elems(requests)
        BY <2>4
      <4> QED
        BY <1>b, <1>c, <2>3, <2>8, <4>1, <4>2 DEF JobInPlace
    <3> QED
      BY <3>1
  <2>10. Elems(arrived') \subseteq Jobs \ open
    BY <1>b, <2>4, <2>5, <2>8 DEF JobInPlace
  <2> QED
    BY <1>b, <1>c, <2>3, <2>4, <2>8, <2>9, <2>10 DEF LaneInv, OpenIsServed, Once
<1>5. ASSUME NEW bad \in SUBSET Elems(arrived), Start(bad) PROVE LaneInv'
  <2> DEFINE fresh == Elems(arrived) \ (stop \cup bad)
  <2>1. /\ UNCHANGED requests /\ pc' = "halt" /\ arrived' = <<>> /\ open' = open \cup fresh
        /\ told' = [j \in Jobs |->
                      IF j \notin Elems(arrived) THEN told[j]
                      ELSE IF j \in stop THEN told[j] \o <<"context", "cancelled">>
                      ELSE IF j \in bad THEN told[j] \o <<"context", "error">>
                      ELSE Append(told[j], "context")]
    BY <1>5 DEF Start
  <2>2. PICK more \in Among(arrived, fresh) : jobs' = jobs \o more
    BY <1>5 DEF Start
  <2>3. more \in Seq((Jobs \cup Chats) \cap fresh) /\ Elems(more) = fresh /\ Once(more)
    <3> HIDE DEF fresh
    <3>1. more \in Seq((Jobs \cup Chats) \cap fresh) /\ Once(more)
      BY <1>a, <1>b, <2>2, AmongType, AmongOnce
    <3>2. \A x : x \in Elems(more) <=> x \in Elems(arrived) /\ x \in fresh
      BY <1>a, <2>2, AmongElems
    <3> QED
      BY <3>1, <3>2 DEF fresh
  <2>4. more \in Seq(Jobs)
    BY <1>b, <2>3
  <2>5. Elems(jobs') = open' /\ Once(jobs')
    BY <1>a, <1>b, <2>1, <2>2, <2>3, <2>4, ElemsConcat
  <2>6. Elems(arrived') = {} /\ Once(arrived')
    BY <2>1 DEF Elems, Once
  <2>7. \A j \in Jobs : JobInPlace(j)'
    <3>1. ASSUME NEW j \in Jobs \ Elems(arrived) PROVE JobInPlace(j)'
      <4>1. told'[j] = told[j] /\ (j \in open' <=> j \in open)
        BY <2>1, <3>1
      <4> QED
        BY <1>b, <1>c, <2>1, <2>6, <4>1 DEF JobInPlace
    <3>2. ASSUME NEW j \in Elems(arrived) PROVE JobInPlace(j)'
      <4>1. /\ j \in Jobs /\ told[j] = <<>> /\ caller[j] # "new" /\ j \notin Elems(requests)
            /\ j \notin open
        BY <1>b, <3>2 DEF JobInPlace
      <4>2. CASE j \in stop \cup bad
        <5>1. Len(told'[j]) = 2 /\ j \notin open'
          BY <2>1, <3>2, <4>1, <4>2
        <5> QED
          BY <1>c, <2>1, <2>6, <4>1, <5>1 DEF JobInPlace
      <4>3. CASE j \notin stop \cup bad
        <5>1. Len(told'[j]) = 1
          BY <2>1, <3>2, <4>1, <4>3
        <5> QED
          BY <1>c, <2>1, <2>6, <4>1, <5>1 DEF JobInPlace
      <4> QED
        BY <4>2, <4>3
    <3> QED
      BY <3>1, <3>2
  <2> QED
    BY <1>b, <1>c, <2>1, <2>5, <2>6, <2>7 DEF LaneInv, OpenIsServed, Once
<1>6. CASE Halt
  <2>0. UNCHANGED <<requests, arrived>> /\ pc' \in {"ended", "tick"}
    BY <1>6 DEF Halt
  <2>1. CASE stopping = "no"
    <3>1. UNCHANGED <<told, open, jobs>>
      BY <1>6, <2>1 DEF Halt
    <3> QED
      BY <1>b, <1>c, <2>0, <3>1 DEF LaneInv, JobInPlace, OpenIsServed, Once
  <2>2. CASE stopping # "no"
    <3>1. /\ told' = [j \in Jobs |->
                       IF j \in Elems(jobs) THEN Append(told[j], "stopped") ELSE told[j]]
          /\ open' = open \ Elems(jobs) /\ jobs' = <<>>
      BY <1>6, <2>2 DEF Halt
    <3>2. open' = {} /\ Elems(jobs') = {} /\ Once(jobs')
      BY <1>b, <3>1 DEF Elems, Once
    <3>3. ASSUME NEW j \in Jobs PROVE JobInPlace(j)'
      <4>1. CASE j \in open
        <5>1. Len(told[j]) = 1 /\ told[j] \in Seq(Items) /\ told'[j] = Append(told[j], "stopped")
          BY <1>a, <1>b, <3>1, <4>1 DEF JobInPlace
        <5>2. Len(told'[j]) = 2
          BY <5>1
        <5>3. /\ caller[j] # "new" /\ j \notin Elems(requests) /\ j \notin Elems(arrived)
          BY <1>b, <4>1 DEF JobInPlace
        <5> QED
          BY <1>c, <2>0, <3>2, <5>2, <5>3 DEF JobInPlace
      <4>2. CASE j \notin open
        <5>1. told'[j] = told[j]
          BY <1>b, <3>1, <4>2
        <5> QED
          BY <1>b, <1>c, <2>0, <3>2, <4>2, <5>1 DEF JobInPlace
      <4> QED
        BY <4>1, <4>2
    <3> QED
      BY <1>b, <1>c, <2>0, <3>2, <3>3 DEF LaneInv, OpenIsServed, Once
  <2> QED
    BY <2>1, <2>2
<1> QED
  BY <1>1, <1>2, <1>3, <1>4, <1>5, <1>6

\* The turn of a diffusion engine keeps it.
LEMMA LaneOfDiffusion ==
  ASSUME TypeOK, LaneInv, diffusion,
         CheckDiffusion \/ CollectDiffusion \/ Serve \/ Run
  PROVE  LaneInv'
<1> DEFINE Queue == Jobs \cup Chats \cup {None}
<1>a. /\ requests \in Seq(Queue) /\ told \in [Jobs -> Seq(Items)]
      /\ arrived \in Seq(Jobs \cup Chats) /\ open \subseteq Jobs
  BY DEF TypeOK
<1>b. /\ Once(requests) /\ Once(arrived) /\ Once(jobs) /\ (\A j \in Jobs : JobInPlace(j))
      /\ jobs = <<>>
      /\ pc = "run" => arrived # <<>> /\ open = {Head(arrived)}
      /\ pc # "run" => open = {}
  BY DEF LaneInv, OpenIsServed
<1>c. UNCHANGED <<diffusion, caller, jobs>>
  BY DEF CheckDiffusion, CollectDiffusion, Serve, Run
<1>1. CASE CheckDiffusion
  <2>1. UNCHANGED <<requests, told, open, arrived>> /\ pc = "check" /\ pc' \in {"ended", "collect"}
    BY <1>1 DEF CheckDiffusion
  <2> QED
    BY <1>b, <1>c, <2>1 DEF LaneInv, JobInPlace, OpenIsServed, Once
<1>2. CASE CollectDiffusion
  <2>1. PICK n \in 0..Len(requests) :
          /\ requests' = SubSeq(requests, n + 1, Len(requests))
          /\ arrived' \in Among(SubSeq(requests, 1, n), Jobs \cup Chats)
    BY <1>2 DEF CollectDiffusion, Drain
  <2>2. UNCHANGED <<told, open>> /\ pc = "collect" /\ pc' \in {"ended", "serve"}
    BY <1>2 DEF CollectDiffusion
  <2> DEFINE front == SubSeq(requests, 1, n)
  <2>3. /\ front \in Seq(Queue) /\ Elems(front) \subseteq Elems(requests) /\ Once(front)
        /\ Elems(requests') \subseteq Elems(requests) /\ Once(requests')
        /\ \A j \in Jobs : j \notin Elems(front) \/ j \notin Elems(requests')
    BY <1>a, <1>b, <2>1, ElemsCut
  <2>4. /\ \A x : x \in Elems(arrived') <=> x \in Elems(front) /\ x \in Jobs \cup Chats
        /\ Once(arrived')
    <3>1. PICK s \in Seq(Queue) : s = SubSeq(requests, 1, n)
      BY <2>3
    <3>2. arrived' \in Among(s, Jobs \cup Chats) /\ Once(s)
      BY <2>1, <2>3, <3>1
    <3>3. Once(arrived') /\ \A x : x \in Elems(arrived') <=> x \in Elems(s) /\ x \in Jobs \cup Chats
      BY <3>2, AmongElems, AmongOnce
    <3> QED
      BY <3>1, <3>3
  <2>5. ASSUME NEW j \in Jobs PROVE JobInPlace(j)'
    <3>1. j \in Elems(arrived') => j \in Elems(requests) /\ j \notin Elems(requests')
      BY <2>3, <2>4
    <3>2. j \in Elems(requests') => j \in Elems(requests)
      BY <2>3
    <3> QED
      BY <1>b, <1>c, <2>2, <3>1, <3>2 DEF JobInPlace
  <2> QED
    BY <1>b, <1>c, <2>2, <2>3, <2>4, <2>5 DEF LaneInv, OpenIsServed, Once
<1>3. CASE Serve
  <2>0. UNCHANGED requests /\ pc = "serve" /\ open = {}
    BY <1>3, <1>b DEF Serve
  <2>1. CASE arrived = <<>>
    <3>1. UNCHANGED <<told, open, arrived>> /\ pc' = "check"
      BY <1>3, <2>1 DEF Serve
    <3> QED
      BY <1>b, <1>c, <2>0, <3>1 DEF LaneInv, JobInPlace, OpenIsServed, Once
  <2>2. CASE arrived # <<>>
    <3>1. /\ Head(arrived) \in Jobs \cup Chats /\ Elems(arrived) = {Head(arrived)} \cup Elems(Tail(arrived))
          /\ Once(Tail(arrived)) /\ (Head(arrived) \in Jobs => Head(arrived) \notin Elems(Tail(arrived)))
      BY <1>a, <1>b, <2>2, ElemsTail
    <3>2. CASE Head(arrived) \in Chats
      <4>1. UNCHANGED <<told, open, pc>> /\ arrived' = Tail(arrived)
        BY <1>3, <2>2, <3>2, JobsAssumption DEF Serve
      <4> QED
        BY <1>b, <1>c, <2>0, <3>1, <4>1 DEF LaneInv, JobInPlace, OpenIsServed, Once
    <3>3. CASE Head(arrived) \in Jobs
      <4>1. PICK j \in Jobs : j = Head(arrived)
        BY <3>3
      <4>2. /\ told[j] = <<>> /\ caller[j] # "new" /\ j \notin Elems(requests)
        BY <1>b, <2>0, <3>1, <4>1 DEF JobInPlace
      <4>3. CASE j \in stop
        <5>1. /\ told' = [told EXCEPT ![j] = @ \o <<"context", "cancelled">>]
              /\ arrived' = Tail(arrived) /\ UNCHANGED <<open, pc>>
          BY <1>3, <2>2, <4>1, <4>3, JobsAssumption DEF Serve
        <5>2. Len(told'[j]) = 2 /\ \A k \in Jobs \ {j} : told'[k] = told[k]
          BY <1>a, <4>2, <5>1
        <5>3. ASSUME NEW k \in Jobs PROVE JobInPlace(k)'
          BY <1>b, <1>c, <2>0, <3>1, <4>1, <4>2, <5>1, <5>2 DEF JobInPlace
        <5> QED
          BY <1>b, <1>c, <2>0, <3>1, <5>1, <5>3 DEF LaneInv, OpenIsServed, Once
      <4>4. CASE j \notin stop
        <5>1. /\ Tell(j, "context") /\ open' = open \cup {j} /\ pc' = "run" /\ UNCHANGED arrived
          BY <1>3, <2>2, <4>1, <4>4, JobsAssumption DEF Serve
        <5>2. Len(told'[j]) = 1 /\ \A k \in Jobs \ {j} : told'[k] = told[k]
          BY <1>a, <4>2, <5>1 DEF Tell
        <5>3. ASSUME NEW k \in Jobs PROVE JobInPlace(k)'
          <6>1. CASE k = j
            <7>1. caller'[j] # "new" /\ j \notin Elems(requests') /\ j \in open'
              BY <1>c, <2>0, <4>2, <5>1
            <7>2. Len(told'[j]) = 1
              BY <5>2
            <7>3. JobInPlace(j)'
              BY <7>1, <7>2 DEF JobInPlace
            <7> QED
              BY <6>1, <7>3
          <6>2. CASE k # j
            <7>1. told'[k] = told[k] /\ k \notin open'
              BY <2>0, <5>1, <5>2, <6>2
            <7> QED
              BY <1>b, <1>c, <2>0, <5>1, <7>1 DEF JobInPlace
          <6> QED
            BY <6>1, <6>2
        <5> QED
          BY <1>b, <1>c, <2>0, <2>2, <4>1, <5>1, <5>3 DEF LaneInv, OpenIsServed, Once
      <4> QED
        BY <4>3, <4>4
    <3> QED
      BY <3>1, <3>2, <3>3
  <2> QED
    BY <2>1, <2>2
<1>4. CASE Run
  <2>0. UNCHANGED requests /\ pc = "run" /\ arrived # <<>> /\ open = {Head(arrived)}
    BY <1>4, <1>b DEF Run
  <2>1. PICK j \in Jobs : j = Head(arrived)
    BY <1>a, <2>0
  <2>2. /\ Elems(arrived) = {j} \cup Elems(Tail(arrived))
        /\ Once(Tail(arrived)) /\ j \notin Elems(Tail(arrived))
    BY <1>a, <1>b, <2>0, <2>1, ElemsTail
  <2>3. CASE Proceeds(j) /\ UNCHANGED <<arrived, pc>>
    <3>1. UNCHANGED <<told, open>>
      BY <2>3 DEF Proceeds
    <3> QED
      BY <1>b, <1>c, <2>0, <2>3, <3>1 DEF LaneInv, JobInPlace, OpenIsServed, Once
  <2>4. CASE Finishes(j) /\ arrived' = Tail(arrived) /\ pc' = "serve"
    <3>1. PICK item \in Answers(j) : Tell(j, item)
      BY <2>4 DEF Finishes
    <3>2. item \in Items
      BY <3>1 DEF Answers, Items
    <3>3. /\ Len(told'[j]) = Len(told[j]) + 1 /\ open' = {}
          /\ \A k \in Jobs \ {j} : told'[k] = told[k]
      BY <1>a, <2>0, <2>1, <2>4, <3>1, <3>2, TellType DEF Finishes
    <3>4. Len(told[j]) = 1 /\ caller[j] # "new" /\ j \notin Elems(requests)
      BY <1>b, <2>0, <2>1 DEF JobInPlace
    <3>5. ASSUME NEW k \in Jobs PROVE JobInPlace(k)'
      <4>1. CASE k = j
        <5>1. Len(told'[j]) = 2 /\ j \notin Elems(arrived') \cup Elems(requests') \cup open'
          BY <2>0, <2>2, <2>4, <3>3, <3>4
        <5> QED
          BY <1>c, <3>4, <4>1, <5>1 DEF JobInPlace
      <4>2. CASE k # j
        <5>1. k \notin open /\ told'[k] = told[k] /\ (k \in Elems(arrived') => k \in Elems(arrived))
          BY <2>0, <2>1, <2>2, <2>4, <3>3, <4>2
        <5> QED
          BY <1>b, <1>c, <2>0, <3>3, <4>2, <5>1 DEF JobInPlace
      <4> QED
        BY <4>1, <4>2
    <3> QED
      BY <1>b, <1>c, <2>0, <2>2, <2>4, <3>3, <3>5 DEF LaneInv, OpenIsServed, Once
  <2> QED
    BY <1>4, <2>0, <2>1, <2>3, <2>4 DEF Run
<1> QED
  BY <1>1, <1>2, <1>3, <1>4

-----------------------------------------------------------------------------
(* Theorems.                                                               *)

\* Every step keeps the types and the invariant of the lane.
LEMMA LaneStep ==
  ASSUME TypeOK, LaneInv, [Next]_vars
  PROVE  TypeOK' /\ LaneInv'
<1>1. CASE UNCHANGED vars
  <2>1. UNCHANGED <<diffusion, requests, stopping, caller, stop, told, left, open, jobs, arrived,
                    newcomers, active, quit, pc, sent, late, overtaken>>
    BY <1>1 DEF vars
  <2> QED
    BY <2>1 DEF TypeOK, LaneInv, JobInPlace, OpenIsServed, Once
<1>2. CASE Engine
  <2>1. /\ ~diffusion => Elems(arrived) \subseteq Jobs
        /\ pc = "run" => arrived # <<>> /\ Head(arrived) \in Jobs
        /\ pc \in {"serve", "run"} => diffusion
        /\ pc \in {"take", "advance", "start", "halt", "tick"} => ~diffusion
    BY DEF LaneInv, OpenIsServed, TypeOK
  <2>2. TypeOK'
    BY <1>2, <2>1, TypeOfEngine
  <2>3. CASE diffusion
    <3>1. CheckDiffusion \/ CollectDiffusion \/ Serve \/ Run
      BY <1>2, <2>1, <2>3 DEF Engine, Check, Take, Advance, Collect, Halt, Tick, Start
    <3> QED
      BY <2>2, <2>3, <3>1, LaneOfDiffusion
  <2>4. CASE ~diffusion
    <3>1. \/ Check \/ Take \/ Advance \/ Collect \/ Halt \/ Tick
          \/ \E bad \in SUBSET Elems(arrived) : Start(bad)
      BY <1>2, <2>1, <2>4 DEF Engine, CheckDiffusion, CollectDiffusion, Serve, Run
    <3> QED
      BY <2>2, <2>4, <3>1, LaneOfTurns
  <2> QED
    BY <2>3, <2>4
<1>3. CASE \/ SetStop \/ PutSentinel
           \/ \E j \in Jobs : Submit(j) \/ Reads(j) \/ TimeOut(j) \/ Disconnect(j)
           \/ \E c \in Chats : SubmitChat(c)
  BY <1>3, TypeOfCallers, LaneOfCallers
<1> QED
  BY <1>1, <1>2, <1>3 DEF Next

\* The lane keeps its types and its invariant: a job waits in one place, and what
\* is open is what the engine serves.
THEOREM Lane == Spec => [](TypeOK /\ LaneInv)
<1>1. Init => TypeOK /\ LaneInv
  BY TypeInit, LaneInit
<1>2. TypeOK /\ LaneInv /\ [Next]_vars => (TypeOK /\ LaneInv)'
  BY LaneStep
<1> QED
  BY <1>1, <1>2, PTL DEF Spec

\* Every variable keeps its type.
THEOREM TypeCorrect == Spec => []TypeOK
BY Lane, PTL

\* A job is answered once, whoever ends it, and then neither runs nor waits for a
\* turn (engine_jobs.py: _advance, _start and the stop).
THEOREM JobAnsweredOnce == Spec => []AnswerEndsJob
<1>1. TypeOK /\ LaneInv => AnswerEndsJob
  <2> SUFFICES ASSUME TypeOK, LaneInv, NEW j \in Jobs
               PROVE  /\ Len(told[j]) <= 2
                      /\ j \in open \/ j \in Elems(jobs) => Len(told[j]) = 1
    BY DEF AnswerEndsJob
  <2>1. JobInPlace(j)
    BY DEF LaneInv
  <2>2. j \in Elems(jobs) => j \in open
    BY DEF LaneInv, OpenIsServed, Elems
  <2> QED
    BY <2>1, <2>2 DEF JobInPlace
<1> QED
  BY <1>1, Lane, PTL
=============================================================================
