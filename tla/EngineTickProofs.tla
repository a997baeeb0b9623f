-------------------------- MODULE EngineTickProofs --------------------------
(***************************************************************************)
(* What the engine thread guarantees for any requests, prompts, budgets,   *)
(* widths and bounds: rows are in one place and priced, a request keeps    *)
(* its row until its end, and the reply each client reads is the one the   *)
(* contract (module ReplyStream) promises.                                 *)
(***************************************************************************)
EXTENDS EngineTick, FiniteSums, TLAPS

-----------------------------------------------------------------------------
(* The inductive invariant.                                                *)

PendingRows == [uid : Nat, len : Nat, left : Nat]
PromptRows == [uid : Nat, max : Nat]
BatchRows == [uid : Nat, num : Nat, max : Nat]

\* The variables the argument reads keep their types.
Types ==
  /\ client \in [Requests -> {"new", "queued", "streaming", "closed"}]
  /\ uidOf \in [Requests -> Nat] /\ got \in [Requests -> Nat] /\ end \in [Requests -> Ends]
  /\ waiting \in Seq(Requests) /\ taken \in Seq(Requests) /\ owner \in Seq(Requests)
  /\ active \subseteq DOMAIN owner
  /\ prompt = [rows |-> prompt.rows, left |-> prompt.left]
  /\ pc \in {"collect", "insert", "govern", "step", "deliver", "raise"}
  /\ failed \subseteq Requests

\* The queue q, the prompt batch's rows R and the batch b hold typed rows of uids
\* the owners o know.
Typed(o, q, R, b) ==
  /\ o \in Seq(Requests)
  /\ q \in Seq(PendingRows) /\ R \subseteq PromptRows /\ b \subseteq BatchRows
  /\ \A i \in DOMAIN q : q[i].uid \in DOMAIN o
  /\ \A x \in R \cup b : x.uid \in DOMAIN o

\* Each uid is in one row.
Apart(q, R, b) ==
  /\ \A i, k \in DOMAIN q : q[i].uid = q[k].uid => i = k
  /\ \A x, y \in R : x.uid = y.uid => x = y
  /\ \A x, y \in b : x.uid = y.uid => x = y
  /\ \A i \in DOMAIN q, x \in R \cup b : q[i].uid # x.uid
  /\ \A x \in R, y \in b : x.uid # y.uid

\* What a row may still emit is within what its request has left of its budget,
\* by the ledger l.
Priced(o, q, R, b, l) ==
  /\ l \in [DOMAIN l -> Nat]
  /\ \A i \in DOMAIN q : /\ q[i].uid \in DOMAIN l /\ q[i].left > 0
                         /\ l[q[i].uid] + q[i].left <= Budget[o[q[i].uid]]
  /\ \A x \in R : /\ x.uid \in DOMAIN l /\ x.max > 0
                  /\ l[x.uid] + x.max <= Budget[o[x.uid]]
  /\ \A x \in b : /\ x.uid \in DOMAIN l /\ x.num < x.max
                  /\ l[x.uid] + (x.max - x.num) <= Budget[o[x.uid]]

RowsOK(o, q, R, b, l) == Typed(o, q, R, b) /\ Apart(q, R, b) /\ Priced(o, q, R, b, l)

\* A request waits in one place, is taken once and numbered once; the loop serves
\* the numbered requests whose reply is open.
Numbering ==
  /\ IsInjective(waiting)
  /\ \A r \in Elems(waiting) : client[r] = "queued" /\ end[r] = "open"
  /\ pc = "insert" =>
       /\ IsInjective(taken)
       /\ \A r \in Elems(taken) : client[r] = "queued" /\ end[r] = "open"
  /\ \A r \in Elems(taken) : client[r] # "new" /\ r \notin Elems(waiting)
  /\ \A u \in DOMAIN owner : /\ client[owner[u]] \in {"streaming", "closed"}
                             /\ uidOf[owner[u]] = u
                             /\ end[owner[u]] = "open" <=> u \in active
  /\ \A r \in Requests : client[r] = "new" => end[r] = "open"
  /\ \A r \in Requests : client[r] \in {"new", "queued"} => got[r] = 0

\* What the tick said is about rows that are gone or open, and no row both
\* answered and failed.
Spoken ==
  /\ out # {} => pc = "deliver"
  /\ mailbox # {} => pc \in {"step", "deliver", "raise"}
  /\ \A o \in out : /\ o.uid \in DOMAIN owner
                    /\ o.last => o.uid \notin Held
                    /\ o.uid \in active => got[owner[o.uid]] < Budget[owner[o.uid]]
  /\ \A m \in mailbox : /\ m.uid \in DOMAIN owner /\ m.uid \notin Held
                        /\ \A o \in out : o.uid # m.uid
  /\ \A r \in failed : end[r] = "open" => \E m \in mailbox : owner[m.uid] = r

\* The ledger knows no uid the generator did not number.
Ledgered ==
  /\ DOMAIN ledger \subseteq DOMAIN owner
  /\ LedgerIsDelivered

Inv ==
  /\ Types /\ RowsOK(owner, pending, prompt.rows, batch, ledger)
  /\ Numbering /\ Spoken /\ Ledgered /\ NoOrphanRow /\ ActiveIsHeld

-----------------------------------------------------------------------------
(* Sequences.                                                              *)

\* The two parts of a sequence cut at n.
LEMMA CutSeq ==
  ASSUME NEW T, NEW s \in Seq(T), NEW n \in 0..Len(s)
  PROVE  /\ SubSeq(s, 1, n) \in Seq(T) /\ DOMAIN SubSeq(s, 1, n) = 1..n
         /\ \A i \in 1..n : SubSeq(s, 1, n)[i] = s[i]
         /\ SubSeq(s, n + 1, Len(s)) \in Seq(T)
         /\ DOMAIN SubSeq(s, n + 1, Len(s)) = 1..(Len(s) - n)
         /\ \A i \in 1..(Len(s) - n) : SubSeq(s, n + 1, Len(s))[i] = s[n + i]
OBVIOUS

\* t reads s at the positions K, n of them, in the order f.
ReadsAt(t, s, K, n, f) ==
  /\ DOMAIN t = 1..n /\ \A i \in 1..n : f[i] \in K /\ t[i] = s[f[i]]
  /\ \A k \in K : \E i \in 1..n : f[i] = k
  /\ \A i, k \in 1..n : f[i] = f[k] => i = k

\* What is picked out of s is s read so.
LEMMA PickSeq ==
  ASSUME NEW T, NEW s \in Seq(T), NEW K \in SUBSET DOMAIN s, NEW t \in Selections(s, K)
  PROVE  t \in Seq(T) /\ \E n, f : n \in Nat /\ ReadsAt(t, s, K, n, f)
<1> DEFINE n == Cardinality(K)
<1>1. IsFiniteSet(DOMAIN s)
  <2>1. DOMAIN s = 1..Len(s) /\ Len(s) \in Nat
    OBVIOUS
  <2> QED
    BY <2>1, FS_Interval
<1>2. n \in Nat
  BY <1>1, FS_Subset, FS_CardinalityType
<1>3. PICK f \in Bijection(1..n, K) : t = [i \in 1..n |-> s[f[i]]]
  BY DEF Selections
<1> HIDE DEF n
<1>4. /\ f \in [1..n -> K] /\ \A k \in K : \E i \in 1..n : f[i] = k
      /\ \A i, k \in 1..n : f[i] = f[k] => i = k
  BY <1>3 DEF Bijection, Injection, Surjection, IsInjective
<1>5. \A i \in 1..n : f[i] \in K /\ t[i] = s[f[i]] /\ s[f[i]] \in T
  BY <1>3, <1>4
<1>6. t \in Seq(T) /\ DOMAIN t = 1..n
  BY <1>2, <1>3, <1>5
<1>7. ReadsAt(t, s, K, n, f)
  BY <1>4, <1>5, <1>6 DEF ReadsAt
<1> QED
  BY <1>2, <1>6, <1>7

-----------------------------------------------------------------------------
(* Rows.                                                                   *)

\* The uids of a queue, of a prompt batch's rows and of a batch.
HeldOf(q, R, b) == Uids(Elems(q)) \cup Uids(R) \cup Uids(b)

\* Which they are.
LEMMA HeldIs ==
  ASSUME NEW q, NEW R, NEW b
  PROVE  \A u : u \in HeldOf(q, R, b) <=>
                  \/ \E i \in DOMAIN q : q[i].uid = u
                  \/ \E x \in R : x.uid = u
                  \/ \E x \in b : x.uid = u
BY DEF HeldOf, Uids, Elems

\* Fewer rows of a prompt batch and of a batch are as good.
LEMMA FewerRows ==
  ASSUME NEW o, NEW q, NEW R, NEW b, NEW l, RowsOK(o, q, R, b, l),
         NEW S \in SUBSET R, NEW c \in SUBSET b
  PROVE  RowsOK(o, q, S, c, l)
<1>1. Typed(o, q, S, c)
  BY DEF RowsOK, Typed
<1>2. Apart(q, S, c)
  BY DEF RowsOK, Apart
<1>3. Priced(o, q, S, c, l)
  BY DEF RowsOK, Priced
<1> QED
  BY <1>1, <1>2, <1>3 DEF RowsOK

\* So is a queue read at some of its positions.
LEMMA FewerPending ==
  ASSUME NEW o, NEW q, NEW R, NEW b, NEW l, RowsOK(o, q, R, b, l),
         NEW K \in SUBSET DOMAIN q, NEW t \in Selections(q, K)
  PROVE  /\ RowsOK(o, t, R, b, l)
         /\ \A u : (\E i \in DOMAIN t : t[i].uid = u) <=> \E k \in K : q[k].uid = u
<1>0. q \in Seq(PendingRows)
  BY DEF RowsOK, Typed
<1>1. t \in Seq(PendingRows)
  BY <1>0, PickSeq
<1>2. PICK n, f : n \in Nat /\ ReadsAt(t, q, K, n, f)
  BY <1>0, PickSeq
<1>3. \A i \in DOMAIN t : f[i] \in DOMAIN q /\ t[i] = q[f[i]]
  BY <1>2 DEF ReadsAt
<1>4. Typed(o, t, R, b)
  BY <1>1, <1>3 DEF RowsOK, Typed
<1>5. Apart(t, R, b)
  <2>1. \A i, k \in DOMAIN t : t[i].uid = t[k].uid => i = k
    BY <1>2, <1>3 DEF RowsOK, Apart, ReadsAt
  <2> QED
    BY <1>3, <2>1 DEF RowsOK, Apart
<1>6. Priced(o, t, R, b, l)
  BY <1>3 DEF RowsOK, Priced
<1>7. ASSUME NEW k \in K PROVE \E i \in DOMAIN t : t[i].uid = q[k].uid
  <2>1. PICK i \in 1..n : f[i] = k
    BY <1>2 DEF ReadsAt
  <2>2. i \in DOMAIN t /\ t[i] = q[k]
    BY <1>2, <2>1 DEF ReadsAt
  <2> QED
    BY <2>2
<1>8. ASSUME NEW i \in DOMAIN t PROVE \E k \in K : q[k].uid = t[i].uid
  BY <1>2, <1>8 DEF ReadsAt
<1> QED
  BY <1>4, <1>5, <1>6, <1>7, <1>8 DEF RowsOK

\* The first n pending rows become a prompt batch.
LEMMA FormRows ==
  ASSUME NEW o, NEW q, NEW b, NEW l, RowsOK(o, q, {}, b, l), NEW n \in 0..Len(q)
  PROVE  LET R == {[uid |-> q[i].uid, max |-> q[i].left] : i \in 1..n}
             t == SubSeq(q, n + 1, Len(q))
         IN /\ RowsOK(o, t, R, b, l)
            /\ \A u : u \in HeldOf(t, R, b) <=> u \in HeldOf(q, {}, b)
<1> DEFINE R == {[uid |-> q[i].uid, max |-> q[i].left] : i \in 1..n}
           t == SubSeq(q, n + 1, Len(q))
<1>0. q \in Seq(PendingRows) /\ DOMAIN q = 1..Len(q) /\ Len(q) \in Nat /\ n <= Len(q)
  BY DEF RowsOK, Typed
<1>1. /\ t \in Seq(PendingRows) /\ DOMAIN t = 1..(Len(q) - n)
      /\ \A i \in DOMAIN t : t[i] = q[n + i] /\ n + i \in DOMAIN q
  BY <1>0, CutSeq
<1>2. \A i \in DOMAIN q : q[i] \in PendingRows
  BY <1>0
<1>3. \A x \in R : \E i \in DOMAIN q : i \in 1..n /\ x = [uid |-> q[i].uid, max |-> q[i].left]
  BY <1>0
<1>4. \A i \in 1..n : [uid |-> q[i].uid, max |-> q[i].left] \in R
  OBVIOUS
<1> HIDE DEF R, t
<1>5. Typed(o, t, R, b)
  <2>1. R \subseteq PromptRows
    BY <1>2, <1>3 DEF PendingRows, PromptRows
  <2>2. \A x \in R : x.uid \in DOMAIN o
    BY <1>3 DEF RowsOK, Typed
  <2> QED
    BY <1>1, <2>1, <2>2 DEF RowsOK, Typed
<1>6. Apart(t, R, b)
  <2>1. \A i, k \in DOMAIN t : t[i].uid = t[k].uid => i = k
    <3> SUFFICES ASSUME NEW i \in DOMAIN t, NEW k \in DOMAIN t, t[i].uid = t[k].uid
                 PROVE  i = k
      OBVIOUS
    <3>1. n + i = n + k
      BY <1>1 DEF RowsOK, Apart
    <3>2. i \in Int /\ k \in Int /\ n \in Int
      BY <1>0, <1>1
    <3> QED
      BY <3>1, <3>2
  <2>2. \A x, y \in R : x.uid = y.uid => x = y
    BY <1>3 DEF RowsOK, Apart
  <2>3. \A i \in DOMAIN t, x \in R : t[i].uid # x.uid
    <3> TAKE i \in DOMAIN t, x \in R
    <3>1. PICK k \in DOMAIN q : k \in 1..n /\ x = [uid |-> q[k].uid, max |-> q[k].left]
      BY <1>3
    <3>2. n + i # k /\ n + i \in DOMAIN q /\ t[i] = q[n + i]
      BY <1>0, <1>1, <3>1
    <3> QED
      BY <3>1, <3>2 DEF RowsOK, Apart
  <2>4. \A i \in DOMAIN t, y \in b : t[i].uid # y.uid
    BY <1>1 DEF RowsOK, Apart
  <2>5. \A x \in R, y \in b : x.uid # y.uid
    BY <1>3 DEF RowsOK, Apart
  <2>6. \A x, y \in b : x.uid = y.uid => x = y
    BY DEF RowsOK, Apart
  <2> QED
    BY <2>1, <2>2, <2>3, <2>4, <2>5, <2>6 DEF Apart
<1>7. Priced(o, t, R, b, l)
  <2>1. \A x \in R : x.uid \in DOMAIN l /\ x.max > 0 /\ l[x.uid] + x.max <= Budget[o[x.uid]]
    BY <1>3 DEF RowsOK, Priced
  <2> QED
    BY <1>1, <2>1 DEF RowsOK, Priced
<1>8. \A u : u \in HeldOf(t, R, b) <=> u \in HeldOf(q, {}, b)
  <2>1. ASSUME NEW i \in DOMAIN t PROVE \E k \in DOMAIN q : q[k].uid = t[i].uid
    BY <1>1
  <2>2. ASSUME NEW x \in R PROVE \E k \in DOMAIN q : q[k].uid = x.uid
    BY <1>3
  <2>3. ASSUME NEW k \in DOMAIN q
        PROVE  (\E i \in DOMAIN t : t[i].uid = q[k].uid) \/ \E x \in R : x.uid = q[k].uid
    <3>1. CASE k <= n
      <4>1. k \in 1..n
        BY <1>0, <3>1
      <4>2. [uid |-> q[k].uid, max |-> q[k].left] \in R
        BY <1>4, <4>1
      <4> QED
        BY <4>2
    <3>2. CASE k > n
      <4>1. k - n \in DOMAIN t /\ t[k - n] = q[k]
        BY <1>0, <1>1, <3>2
      <4> QED
        BY <4>1
    <3> QED
      BY <1>0, <3>1, <3>2
  <2> QED
    BY <2>1, <2>2, <2>3, HeldIs
<1> QED
  BY <1>5, <1>6, <1>7, <1>8 DEF RowsOK, R, t

\* The rows of a prompt batch join the batch.
LEMMA JoinRows ==
  ASSUME NEW o, NEW q, NEW R, NEW b, NEW l, RowsOK(o, q, R, b, l)
  PROVE  LET c == b \cup {[uid |-> x.uid, num |-> 0, max |-> x.max] : x \in R}
         IN /\ RowsOK(o, q, {}, c, l)
            /\ \A u : u \in HeldOf(q, {}, c) <=> u \in HeldOf(q, R, b)
<1> DEFINE J == {[uid |-> x.uid, num |-> 0, max |-> x.max] : x \in R}
           c == b \cup J
<1>1. R \subseteq PromptRows /\ b \subseteq BatchRows
  BY DEF RowsOK, Typed
<1>2. \A y \in J : \E x \in R : y = [uid |-> x.uid, num |-> 0, max |-> x.max]
  OBVIOUS
<1>3. \A x \in R : [uid |-> x.uid, num |-> 0, max |-> x.max] \in J
  OBVIOUS
<1> HIDE DEF J
<1>4. Typed(o, q, {}, c)
  <2>1. J \subseteq BatchRows
    BY <1>1, <1>2 DEF PromptRows, BatchRows
  <2>2. \A y \in J : y.uid \in DOMAIN o
    BY <1>2 DEF RowsOK, Typed
  <2> QED
    BY <2>1, <2>2 DEF RowsOK, Typed
<1>5. Apart(q, {}, c)
  <2>1. \A x, y \in J : x.uid = y.uid => x = y
    BY <1>2 DEF RowsOK, Apart
  <2>2. \A x \in J, y \in b : x.uid # y.uid
    BY <1>2 DEF RowsOK, Apart
  <2>3. \A i \in DOMAIN q, x \in J : q[i].uid # x.uid
    BY <1>2 DEF RowsOK, Apart
  <2> QED
    BY <2>1, <2>2, <2>3 DEF RowsOK, Apart
<1>6. Priced(o, q, {}, c, l)
  <2>1. ASSUME NEW y \in J
        PROVE  /\ y.uid \in DOMAIN l /\ y.num < y.max
               /\ l[y.uid] + (y.max - y.num) <= Budget[o[y.uid]]
    <3>1. PICK x \in R : y = [uid |-> x.uid, num |-> 0, max |-> x.max]
      BY <1>2
    <3>2. x.max \in Nat /\ x.uid \in DOMAIN l /\ x.max > 0
          /\ l[x.uid] + x.max <= Budget[o[x.uid]]
      BY <1>1 DEF RowsOK, Priced, PromptRows
    <3> QED
      BY <3>1, <3>2
  <2> QED
    BY <2>1 DEF RowsOK, Priced
<1>7. \A u : u \in HeldOf(q, {}, c) <=> u \in HeldOf(q, R, b)
  <2>1. \A y \in J : \E x \in R : y.uid = x.uid
    BY <1>2
  <2>2. \A x \in R : \E y \in J : y.uid = x.uid
    BY <1>3
  <2> QED
    BY <2>1, <2>2, HeldIs
<1> QED
  BY <1>4, <1>5, <1>6, <1>7 DEF RowsOK, J

\* A row leaves the batch for good: its uid is in no row, nor in the ledger.
LEMMA FailedRow ==
  ASSUME NEW o, NEW q, NEW R, NEW b, NEW l, RowsOK(o, q, R, b, l), NEW x \in b
  PROVE  LET c == Without(b, {x.uid})
             m == Restrict(l, DOMAIN l \ {x.uid})
         IN /\ RowsOK(o, q, R, c, m) /\ RowsOK(o, q, R, c, l)
            /\ \A u : u \in HeldOf(q, R, c) <=> u \in HeldOf(q, R, b) /\ u # x.uid
<1> DEFINE c == Without(b, {x.uid})
           m == Restrict(l, DOMAIN l \ {x.uid})
<1>1. c \subseteq b /\ (\A y \in c : y.uid # x.uid) /\ \A y \in b : y.uid # x.uid => y \in c
  BY DEF Without
<1>2. RowsOK(o, q, R, c, l)
  BY <1>1, FewerRows
<1>3. l \in [DOMAIN l -> Nat]
  BY DEF RowsOK, Priced
<1>4. DOMAIN m = DOMAIN l \ {x.uid} /\ \A u \in DOMAIN m : m[u] = l[u]
  BY DEF Restrict
<1>5. m \in [DOMAIN m -> Nat]
  BY <1>3 DEF Restrict
<1> HIDE DEF c, m
<1>6. Priced(o, q, R, c, m)
  <2>1. \A i \in DOMAIN q : q[i].uid # x.uid
    BY DEF RowsOK, Apart
  <2>2. \A y \in R : y.uid # x.uid
    BY DEF RowsOK, Apart
  <2> QED
    BY <1>1, <1>2, <1>4, <1>5, <2>1, <2>2 DEF RowsOK, Priced
<1>7. \A u : u \in HeldOf(q, R, c) <=> u \in HeldOf(q, R, b) /\ u # x.uid
  <2>1. \A i \in DOMAIN q : q[i].uid # x.uid
    BY DEF RowsOK, Apart
  <2>2. \A y \in R : y.uid # x.uid
    BY DEF RowsOK, Apart
  <2> QED
    BY <1>1, <2>1, <2>2, HeldIs
<1> QED
  BY <1>2, <1>6, <1>7 DEF RowsOK, c, m

\* A row leaves the batch to wait for its replay at the head of the queue.
LEMMA ReplayedRow ==
  ASSUME NEW o, NEW q, NEW R, NEW b, NEW l, RowsOK(o, q, R, b, l), NEW x \in b,
         NEW r \in PendingRows, r.uid = x.uid, r.left > 0,
         l[r.uid] + r.left <= Budget[o[r.uid]]
  PROVE  LET c == Without(b, {x.uid})
             t == <<r>> \o q
         IN /\ RowsOK(o, t, R, c, l)
            /\ \A u : u \in HeldOf(t, R, c) <=> u \in HeldOf(q, R, b)
<1> DEFINE c == Without(b, {x.uid})
           t == <<r>> \o q
<1>0. q \in Seq(PendingRows) /\ Len(q) \in Nat /\ DOMAIN q = 1..Len(q)
  BY DEF RowsOK, Typed
<1>1. /\ t \in Seq(PendingRows) /\ DOMAIN t = 1..(Len(q) + 1) /\ t[1] = r
      /\ \A i \in 1..Len(q) : t[i + 1] = q[i]
  BY <1>0
<1>2. RowsOK(o, q, R, c, l)
  BY FailedRow
<1>3. \A y \in c : y.uid # x.uid
  BY DEF Without
<1>4. x.uid \in DOMAIN o /\ x.uid \in DOMAIN l
  BY DEF RowsOK, Typed, Priced
<1>5. \A i \in DOMAIN q : q[i].uid # x.uid
  BY DEF RowsOK, Apart
<1>6. \A y \in R : y.uid # x.uid
  BY DEF RowsOK, Apart
<1>7. \A i \in DOMAIN t : \/ i = 1 /\ t[i] = r
                          \/ i - 1 \in DOMAIN q /\ t[i] = q[i - 1]
  <2> SUFFICES ASSUME NEW i \in DOMAIN t, i # 1
               PROVE  i - 1 \in DOMAIN q /\ t[i] = q[i - 1]
    BY <1>1
  <2>1. i - 1 \in 1..Len(q) /\ i = (i - 1) + 1
    BY <1>0, <1>1
  <2> QED
    BY <1>0, <1>1, <2>1
<1> HIDE DEF t, c
<1>8. Typed(o, t, R, c)
  BY <1>1, <1>2, <1>4, <1>7 DEF RowsOK, Typed
<1>9. Apart(t, R, c)
  <2>1. ASSUME NEW i \in DOMAIN t, NEW k \in DOMAIN t, t[i].uid = t[k].uid
        PROVE  i = k
    <3>0. \A j \in DOMAIN t : j # 1 => t[j].uid # x.uid
      BY <1>5, <1>7
    <3>1. CASE i = 1
      BY <1>1, <2>1, <3>0, <3>1
    <3>2. CASE k = 1
      BY <1>1, <2>1, <3>0, <3>2
    <3>3. CASE i # 1 /\ k # 1
      <4>1. i - 1 \in DOMAIN q /\ k - 1 \in DOMAIN q /\ q[i - 1].uid = q[k - 1].uid
        BY <1>7, <2>1, <3>3
      <4>2. i - 1 = k - 1
        BY <4>1 DEF RowsOK, Apart
      <4> QED
        BY <1>1, <4>2
    <3> QED
      BY <3>1, <3>2, <3>3
  <2>2. \A i \in DOMAIN t, y \in R \cup c : t[i].uid # y.uid
    BY <1>2, <1>3, <1>6, <1>7 DEF RowsOK, Apart
  <2> QED
    BY <1>2, <2>1, <2>2 DEF RowsOK, Apart
<1>10. Priced(o, t, R, c, l)
  BY <1>2, <1>4, <1>7 DEF RowsOK, Priced
<1>11. \A u : u \in HeldOf(t, R, c) <=> u \in HeldOf(q, R, b)
  <2>1. ASSUME NEW k \in DOMAIN q PROVE \E i \in DOMAIN t : t[i].uid = q[k].uid
    <3>1. k + 1 \in DOMAIN t /\ t[k + 1] = q[k]
      BY <1>0, <1>1
    <3> QED
      BY <3>1
  <2>2. \E i \in DOMAIN t : t[i].uid = x.uid
    BY <1>0, <1>1
  <2>3. \A i \in DOMAIN t : t[i].uid = x.uid \/ \E k \in DOMAIN q : q[k].uid = t[i].uid
    BY <1>7
  <2>4. c \subseteq b /\ \A y \in b : y.uid = x.uid \/ y \in c
    BY DEF c, Without
  <2> QED
    BY <2>1, <2>2, <2>3, <2>4, HeldIs
<1> QED
  BY <1>8, <1>9, <1>10, <1>11 DEF RowsOK, c, t

\* A decode: the rows that go on have emitted a token each, and no more than
\* one is committed for any of them.
LEMMA DecodedRows ==
  ASSUME NEW o, NEW q, NEW R, NEW l, RowsOK(o, q, R, batch, l), NEW stops, NEW m,
         m \in [DOMAIN m -> Nat],
         \A u \in HeldOf(q, R, batch) \ Finished(stops) :
           u \in DOMAIN m /\ m[u] <= l[u] + IF u \in Uids(batch) THEN 1 ELSE 0
  PROVE  /\ RowsOK(o, q, R, Decoded(stops), m)
         /\ \A u : u \in HeldOf(q, R, Decoded(stops)) <=>
                     u \in HeldOf(q, R, batch) /\ u \notin Finished(stops)
<1> DEFINE c == Decoded(stops)
           F == Finished(stops)
<1>1. \A x \in batch : x.uid \in Nat /\ x.num \in Nat /\ x.max \in Nat
                       /\ x = [uid |-> x.uid, num |-> x.num, max |-> x.max]
  BY DEF RowsOK, Typed, BatchRows
<1>2. \A x \in batch : x.uid \notin F => x.num + 1 < x.max
  BY <1>1 DEF Finished, Finishes, Uids
<1>3. \A u \in F : \E x \in batch : x.uid = u
  BY DEF Finished, Uids
<1>4. \A x \in batch : [x EXCEPT !.num = @ + 1] = [uid |-> x.uid, num |-> x.num + 1, max |-> x.max]
  BY <1>1
<1>5. ASSUME NEW y \in c
      PROVE  \E x \in batch : /\ y = [uid |-> x.uid, num |-> x.num + 1, max |-> x.max]
                              /\ x.uid \notin F
  <2>1. PICK x \in batch : y = [x EXCEPT !.num = @ + 1] /\ y.uid \notin F
    BY <1>5 DEF Decoded, Without
  <2> QED
    BY <1>4, <2>1
<1>6. ASSUME NEW x \in batch, x.uid \notin F
      PROVE  [uid |-> x.uid, num |-> x.num + 1, max |-> x.max] \in c
  BY <1>4, <1>6 DEF Decoded, Without
<1>7. /\ \A i \in DOMAIN q, x \in batch : q[i].uid # x.uid
      /\ \A x \in R, y \in batch : x.uid # y.uid
      /\ \A x, y \in batch : x.uid = y.uid => x = y
  BY DEF RowsOK, Apart
<1> HIDE DEF c, F
<1>8. Typed(o, q, R, c)
  <2>1. c \subseteq BatchRows
    BY <1>1, <1>5 DEF BatchRows
  <2>2. \A y \in c : y.uid \in DOMAIN o
    BY <1>5 DEF RowsOK, Typed
  <2> QED
    BY <2>1, <2>2 DEF RowsOK, Typed
<1>9. Apart(q, R, c)
  <2>1. \A x, y \in c : x.uid = y.uid => x = y
    BY <1>5, <1>7
  <2>2. \A i \in DOMAIN q, y \in c : q[i].uid # y.uid
    BY <1>5, <1>7
  <2>3. \A x \in R, y \in c : x.uid # y.uid
    BY <1>5, <1>7
  <2> QED
    BY <2>1, <2>2, <2>3 DEF RowsOK, Apart
<1>10. \A u \in DOMAIN o : Budget[o[u]] \in Nat
  <2>1. \A u \in DOMAIN o : o[u] \in Requests
    BY DEF RowsOK, Typed
  <2> QED
    BY <2>1, EngineAssumption
<1>11. \A u \in DOMAIN l : l[u] \in Nat
  BY DEF RowsOK, Priced
<1>12. \A u \in DOMAIN m : m[u] \in Nat
  OBVIOUS
<1>13. Priced(o, q, R, c, m)
  <2>1. ASSUME NEW i \in DOMAIN q
        PROVE  /\ q[i].uid \in DOMAIN m /\ q[i].left > 0
               /\ m[q[i].uid] + q[i].left <= Budget[o[q[i].uid]]
    <3>1. q[i] \in PendingRows /\ q[i].uid \in DOMAIN o
      BY DEF RowsOK, Typed
    <3>2. /\ q[i].left \in Nat /\ q[i].left > 0 /\ q[i].uid \in DOMAIN l
          /\ l[q[i].uid] + q[i].left <= Budget[o[q[i].uid]]
      BY <3>1 DEF RowsOK, Priced, PendingRows
    <3>3. q[i].uid \in HeldOf(q, R, batch) \ F /\ q[i].uid \notin Uids(batch)
      BY <1>3, <1>7, HeldIs DEF Uids
    <3>4. q[i].uid \in DOMAIN m /\ m[q[i].uid] <= l[q[i].uid] + 0
      BY <3>3 DEF F
    <3> QED
      BY <1>10, <1>11, <1>12, <3>1, <3>2, <3>4
  <2>2. ASSUME NEW x \in R
        PROVE  x.uid \in DOMAIN m /\ x.max > 0 /\ m[x.uid] + x.max <= Budget[o[x.uid]]
    <3>1. x \in PromptRows /\ x.uid \in DOMAIN o
      BY DEF RowsOK, Typed
    <3>2. /\ x.max \in Nat /\ x.max > 0 /\ x.uid \in DOMAIN l
          /\ l[x.uid] + x.max <= Budget[o[x.uid]]
      BY <3>1 DEF RowsOK, Priced, PromptRows
    <3>3. x.uid \in HeldOf(q, R, batch) \ F /\ x.uid \notin Uids(batch)
      BY <1>3, <1>7, HeldIs DEF Uids
    <3>4. x.uid \in DOMAIN m /\ m[x.uid] <= l[x.uid] + 0
      BY <3>3 DEF F
    <3> QED
      BY <1>10, <1>11, <1>12, <3>1, <3>2, <3>4
  <2>3. ASSUME NEW y \in c
        PROVE  /\ y.uid \in DOMAIN m /\ y.num < y.max
               /\ m[y.uid] + (y.max - y.num) <= Budget[o[y.uid]]
    <3>1. PICK x \in batch : /\ y = [uid |-> x.uid, num |-> x.num + 1, max |-> x.max]
                             /\ x.uid \notin F
      BY <1>5
    <3>2. /\ x.uid \in DOMAIN o /\ x.uid \in DOMAIN l
          /\ l[x.uid] + (x.max - x.num) <= Budget[o[x.uid]]
      BY DEF RowsOK, Priced, Typed
    <3>3. x.uid \in HeldOf(q, R, batch) \ F /\ x.uid \in Uids(batch)
      BY <3>1, HeldIs DEF Uids
    <3>4. x.uid \in DOMAIN m /\ m[x.uid] <= l[x.uid] + 1
      BY <3>3 DEF F
    <3>5. x.num + 1 < x.max /\ x.num \in Nat /\ x.max \in Nat
      BY <1>1, <1>2, <3>1
    <3>6. m[x.uid] + (x.max - (x.num + 1)) <= Budget[o[x.uid]]
      BY <1>10, <1>11, <1>12, <3>2, <3>4, <3>5
    <3> QED
      BY <3>1, <3>4, <3>5, <3>6
  <2> QED
    BY <2>1, <2>2, <2>3 DEF Priced
<1>14. \A u : u \in HeldOf(q, R, c) <=> u \in HeldOf(q, R, batch) /\ u \notin F
  <2>1. \A i \in DOMAIN q : q[i].uid \notin F
    BY <1>3, <1>7
  <2>2. \A x \in R : x.uid \notin F
    BY <1>3, <1>7
  <2>3. \A x \in batch : x.uid \notin F => \E y \in c : y.uid = x.uid
    BY <1>6
  <2>4. \A y \in c : y.uid \notin F /\ \E x \in batch : x.uid = y.uid
    BY <1>5
  <2> QED
    BY <2>1, <2>2, <2>3, <2>4, HeldIs
<1> QED
  BY <1>8, <1>9, <1>13, <1>14 DEF RowsOK, c, F

-----------------------------------------------------------------------------
(* The ladder.                                                             *)

USE DEF clients, queues, rows, gates, guard, history

\* What a rung of the ladder does to the queue q and the batch b it finds: it
\* fails the rows of G, and keeps the others.
LadderStep(q, b) ==
  \E G \in SUBSET Uids(b) :
    /\ RowsOK(owner, pending', prompt'.rows, batch', ledger')
    /\ \A u : u \in HeldOf(pending', prompt'.rows, batch') <=>
                u \in HeldOf(q, prompt'.rows, b) /\ u \notin G
    /\ mailbox' = mailbox \cup {[uid |-> u, mine |-> TRUE] : u \in G}
    /\ failed' = failed \cup {owner[u] : u \in G}
    /\ DOMAIN ledger' \subseteq DOMAIN ledger
    /\ \A u \in DOMAIN ledger' : ledger'[u] = ledger[u]

\* The victim is a row of the batch.
LEMMA VictimIsRow == ASSUME NEW b, NEW x \in Victim(b) PROVE x \in b
<1>1. \A X : Largest(X) \subseteq X
  BY DEF Largest
<1> QED
  BY <1>1 DEF Victim

\* No rung keeps every row.
LEMMA KeepIsLadder ==
  ASSUME NEW q, NEW b, RowsOK(owner, q, prompt'.rows, b, ledger), KeepRows(q, b)
  PROVE  LadderStep(q, b)
<1>1. /\ batch' = b /\ pending' = q /\ ledger' = ledger /\ mailbox' = mailbox
      /\ failed' = failed
  BY DEF KeepRows
<1>2. {} \in SUBSET Uids(b) /\ {[uid |-> u, mine |-> TRUE] : u \in {}} = {}
      /\ {owner[u] : u \in {}} = {}
  OBVIOUS
<1>3. RowsOK(owner, pending', prompt'.rows, batch', ledger')
  BY <1>1
<1> QED
  BY <1>1, <1>2, <1>3 DEF LadderStep

\* A row that is rebuilt has tokens left, and waits for its replay.
LEMMA RebuildIsLadder ==
  ASSUME NEW q, NEW b, RowsOK(owner, q, prompt'.rows, b, ledger), NEW x \in b,
         Rebuild(x.uid, q, b)
  PROVE  LadderStep(q, b)
<1>1. /\ x \in BatchRows /\ x.uid \in DOMAIN owner /\ owner \in Seq(Requests)
      /\ x.uid \in DOMAIN ledger /\ ledger \in [DOMAIN ledger -> Nat] /\ x.num < x.max
      /\ ledger[x.uid] + (x.max - x.num) <= Budget[owner[x.uid]]
  BY DEF RowsOK, Typed, Priced
<1>2. /\ owner[x.uid] \in Requests /\ ledger[x.uid] \in Nat /\ x.num \in Nat /\ x.max \in Nat
      /\ x.uid \in Nat
  BY <1>1 DEF BatchRows
<1>3. Budget[owner[x.uid]] \in Nat /\ Prompt[owner[x.uid]] \in Nat
  BY <1>2, EngineAssumption
<1>4. Remaining(x.uid) \in Nat /\ Remaining(x.uid) > 0
      /\ ledger[x.uid] + Remaining(x.uid) <= Budget[owner[x.uid]]
  BY <1>1, <1>2, <1>3 DEF Remaining
<1>5. PICK r : r = Replay(x.uid)
  OBVIOUS
<1>6. r \in PendingRows /\ r.uid = x.uid /\ r.left = Remaining(x.uid)
  BY <1>2, <1>3, <1>4, <1>5 DEF Replay, PendingRows
<1>7. /\ batch' = Without(b, {x.uid}) /\ pending' = <<r>> \o q
      /\ ledger' = ledger /\ mailbox' = mailbox /\ failed' = failed
  BY <1>1, <1>4, <1>5 DEF Rebuild
<1>8. /\ RowsOK(owner, <<r>> \o q, prompt'.rows, Without(b, {x.uid}), ledger)
      /\ \A u : u \in HeldOf(<<r>> \o q, prompt'.rows, Without(b, {x.uid})) <=>
                  u \in HeldOf(q, prompt'.rows, b)
  BY <1>4, <1>6, ReplayedRow
<1>9. {} \in SUBSET Uids(b) /\ {[uid |-> u, mine |-> TRUE] : u \in {}} = {}
      /\ {owner[u] : u \in {}} = {}
  OBVIOUS
<1> QED
  BY <1>7, <1>8, <1>9 DEF LadderStep

\* A row that is failed leaves the batch and the ledger for the mailbox.
LEMMA FailIsLadder ==
  ASSUME NEW q, NEW b, RowsOK(owner, q, prompt'.rows, b, ledger), NEW x \in b,
         FailRow(x.uid, q, b)
  PROVE  LadderStep(q, b)
<1> DEFINE m == Restrict(ledger, DOMAIN ledger \ {x.uid})
<1>1. /\ batch' = Without(b, {x.uid}) /\ pending' = q /\ ledger' = m
      /\ mailbox' = mailbox \cup {[uid |-> x.uid, mine |-> TRUE]}
      /\ failed' = failed \cup {owner[x.uid]}
  BY DEF FailRow
<1>2. /\ RowsOK(owner, q, prompt'.rows, Without(b, {x.uid}), m)
      /\ \A u : u \in HeldOf(q, prompt'.rows, Without(b, {x.uid})) <=>
                  u \in HeldOf(q, prompt'.rows, b) /\ u # x.uid
  BY FailedRow
<1>3. DOMAIN m \subseteq DOMAIN ledger /\ \A u \in DOMAIN m : m[u] = ledger[u]
  BY DEF Restrict
<1> HIDE DEF m
<1>4. /\ {x.uid} \in SUBSET Uids(b)
      /\ {[uid |-> u, mine |-> TRUE] : u \in {x.uid}} = {[uid |-> x.uid, mine |-> TRUE]}
      /\ {owner[u] : u \in {x.uid}} = {owner[x.uid]}
  BY DEF Uids
<1>5. \A u : u \notin {x.uid} <=> u # x.uid
  OBVIOUS
<1> QED
  BY <1>1, <1>2, <1>3, <1>4, <1>5 DEF LadderStep

\* What is held, by the rows.
LEMMA HeldRows == Held = HeldOf(pending, prompt.rows, batch)
BY DEF Held, HeldOf

\* A rung of the ladder, after a tick that may have lost rows of requests a fault
\* dropped, keeps the invariant.
LEMMA LadderKeeps ==
  ASSUME Inv, NEW q, NEW b, LadderStep(q, b),
         UNCHANGED <<clients, queues, owner, active, out>>, out = {},
         pc' \in {"step", "deliver", "raise"},
         prompt' = [rows |-> prompt'.rows, left |-> prompt'.left],
         \A u : u \in HeldOf(q, prompt'.rows, b) => u \in Held,
         dropped \subseteq dropped',
         \A u \in Held \cap active : u \in HeldOf(q, prompt'.rows, b) \/ owner[u] \in dropped'
  PROVE  Inv'
<1>1. PICK G \in SUBSET Uids(b) :
        /\ RowsOK(owner, pending', prompt'.rows, batch', ledger')
        /\ \A u : u \in HeldOf(pending', prompt'.rows, batch') <=>
                    u \in HeldOf(q, prompt'.rows, b) /\ u \notin G
        /\ mailbox' = mailbox \cup {[uid |-> u, mine |-> TRUE] : u \in G}
        /\ failed' = failed \cup {owner[u] : u \in G}
        /\ DOMAIN ledger' \subseteq DOMAIN ledger
        /\ \A u \in DOMAIN ledger' : ledger'[u] = ledger[u]
  BY DEF LadderStep
<1>2. Held' = HeldOf(pending', prompt'.rows, batch')
  BY DEF Held, HeldOf
<1>3. \A u \in G : u \in HeldOf(q, prompt'.rows, b)
  BY DEF HeldOf
<1>4. /\ Types /\ RowsOK(owner, pending, prompt.rows, batch, ledger)
      /\ Numbering /\ Spoken /\ Ledgered /\ NoOrphanRow /\ ActiveIsHeld
  BY DEF Inv
<1>5. \A u \in Held : u \in DOMAIN owner
  BY <1>4, HeldRows, HeldIs DEF RowsOK, Typed
<1>6. \A u \in G : u \in Held /\ u \in DOMAIN owner
  BY <1>3, <1>5
<1>7. \A u : u \in Held' => u \in Held /\ u \notin G
  BY <1>1, <1>2
<1>8. /\ UNCHANGED <<client, uidOf, got, end, waiting, cancelled, taken, owner, active, out>>
  OBVIOUS
<1>9. Types'
  <2>1. failed' \subseteq Requests
    BY <1>1, <1>4, <1>6 DEF Types
  <2> QED
    BY <1>4, <1>8, <2>1 DEF Types
<1>10. RowsOK(owner, pending, prompt.rows, batch, ledger)'
  BY <1>1, <1>8
<1>11. Numbering'
  BY <1>4, <1>8 DEF Numbering
<1>12. Spoken'
  <2>1. ASSUME NEW m \in mailbox' PROVE m.uid \in DOMAIN owner /\ m.uid \notin Held'
    <3>1. CASE m \in mailbox
      BY <1>4, <1>7, <3>1 DEF Spoken
    <3>2. CASE m \notin mailbox
      BY <1>1, <1>6, <1>7, <3>2
    <3> QED
      BY <3>1, <3>2
  <2>2. ASSUME NEW r \in failed', end[r] = "open" PROVE \E m \in mailbox' : owner[m.uid] = r
    <3>1. CASE r \in failed
      BY <1>1, <1>4, <2>2, <3>1 DEF Spoken
    <3>2. CASE r \notin failed
      <4>1. PICK u \in G : r = owner[u]
        BY <1>1, <3>2
      <4>2. [uid |-> u, mine |-> TRUE] \in mailbox'
        BY <1>1
      <4> QED
        BY <4>1, <4>2
    <3> QED
      BY <3>1, <3>2
  <2> QED
    BY <1>8, <2>1, <2>2 DEF Spoken
<1>13. Ledgered'
  BY <1>1, <1>4, <1>8 DEF Ledgered, LedgerIsDelivered
<1>14. NoOrphanRow'
  BY <1>4, <1>7, <1>8 DEF NoOrphanRow
<1>15. ActiveIsHeld'
  <2> SUFFICES ASSUME NEW u \in active
               PROVE  \/ u \in Held'
                      \/ [uid |-> u, mine |-> TRUE] \in mailbox'
                      \/ owner[u] \in dropped'
    BY <1>8 DEF ActiveIsHeld
  <2>1. CASE u \in Held
    <3>1. CASE u \in HeldOf(q, prompt'.rows, b) /\ u \notin G
      BY <1>1, <1>2, <3>1
    <3>2. CASE u \in G
      BY <1>1, <3>2
    <3> QED
      BY <2>1, <3>1, <3>2
  <2>2. CASE u \notin Held
    BY <1>1, <1>4, <2>2 DEF ActiveIsHeld
  <2> QED
    BY <2>1, <2>2
<1> QED
  BY <1>9, <1>10, <1>11, <1>12, <1>13, <1>14, <1>15 DEF Inv

\* What the governor does in its part of the tick keeps the invariant.
LEMMA GovernKeeps == ASSUME Inv, Govern PROVE Inv'
<1>1. /\ pc = "govern" /\ pc' = "step"
      /\ UNCHANGED <<client, uidOf, got, end, waiting, cancelled, taken, owner, active, out,
                     prompt, dropped>>
  BY DEF Govern
<1>2. RowsOK(owner, pending, prompt'.rows, batch, ledger) /\ out = {}
  BY <1>1 DEF Inv, Spoken
<1>3. LadderStep(pending, batch)
  <2>1. CASE KeepRows(pending, batch)
    BY <1>2, <2>1, KeepIsLadder
  <2>2. ASSUME NEW x \in Victim(batch),
               Rebuild(x.uid, pending, batch) \/ FailRow(x.uid, pending, batch)
        PROVE  LadderStep(pending, batch)
    BY <1>2, <2>2, VictimIsRow, RebuildIsLadder, FailIsLadder
  <2> QED
    BY <2>1, <2>2 DEF Govern
<1>4. prompt' = [rows |-> prompt'.rows, left |-> prompt'.left]
  BY <1>1 DEF Inv, Types
<1>5. \A u : u \in HeldOf(pending, prompt'.rows, batch) <=> u \in Held
  BY <1>1, HeldRows
<1> QED
  BY <1>1, <1>2, <1>3, <1>4, <1>5, LadderKeeps

-----------------------------------------------------------------------------
(* A tick.                                                                 *)

\* How many pending rows a prompt batch takes of what the gates pass.
LEMMA AdmitsFew ==
  ASSUME pending \in Seq(PendingRows), NEW cut \in Cuts
  PROVE  /\ Admits(SubSeq(pending, 1, cut)) \in 0..Len(pending)
         /\ prompt.rows # {} => Admits(SubSeq(pending, 1, cut)) = 0
<1> USE EngineAssumption
<1>1. PICK q : q = SubSeq(pending, 1, cut)
  OBVIOUS
<1>2. cut \in 0..Len(pending) /\ Len(pending) \in Nat
  BY DEF Cuts, Lesser
<1>3. q \in Seq(PendingRows) /\ Len(q) = cut
  BY <1>1, <1>2
<1>4. Len(Passed(q)) \in Nat /\ Len(Passed(q)) <= cut
  <2>1. CASE Declines(q)
    <3>1. Passed(q) = <<>>
      BY <2>1 DEF Passed
    <3> QED
      BY <1>2, <3>1
  <2>2. CASE ~Declines(q) /\ Weighs(q) /\ ~fits
    <3>1. Passed(q) = <<Head(q)>> /\ q # <<>>
      BY <2>2 DEF Passed, Weighs, MayForm
    <3> QED
      BY <1>2, <1>3, <3>1
  <2>3. CASE ~Declines(q) /\ ~(Weighs(q) /\ ~fits)
    <3>1. Passed(q) = q
      BY <2>3 DEF Passed
    <3> QED
      BY <1>2, <1>3, <3>1
  <2> QED
    BY <2>1, <2>2, <2>3
<1>5. Admits(q) \in 0..cut /\ (prompt.rows # {} => Admits(q) = 0)
  BY <1>2, <1>4 DEF Admits, Lesser
<1> QED
  BY <1>1, <1>2, <1>5

\* The rows with the prompt batch a tick works on, and without it.
LEMMA FormedRows ==
  ASSUME NEW b, NEW l, RowsOK(owner, pending, prompt.rows, b, l),
         prompt = [rows |-> prompt.rows, left |-> prompt.left], NEW cut \in Cuts
  PROVE  LET q == SubSeq(pending, 1, cut)
             p == Forming(q)
             t == Behind(Admits(q))
             front == SubSeq(pending, 1, Admits(q))
         IN /\ p = [rows |-> p.rows, left |-> p.left]
            /\ RowsOK(owner, t, p.rows, b, l) /\ RowsOK(owner, t, prompt.rows, b, l)
            /\ \A u : u \in HeldOf(t, p.rows, b) <=> u \in HeldOf(pending, prompt.rows, b)
            /\ \A u : u \in HeldOf(t, prompt.rows, b) => u \in HeldOf(pending, prompt.rows, b)
            /\ \A u : u \in HeldOf(pending, prompt.rows, b) =>
                        u \in HeldOf(t, prompt.rows, b) \cup Uids(Elems(front))
<1>1. PICK q : q = SubSeq(pending, 1, cut)
  OBVIOUS
<1>2. PICK n : n = Admits(q)
  OBVIOUS
<1>3. PICK p : p = Forming(q)
  OBVIOUS
<1>4. pending \in Seq(PendingRows)
  BY DEF RowsOK, Typed
<1>5. n \in 0..Len(pending) /\ (prompt.rows # {} => n = 0)
  BY <1>1, <1>2, <1>4, AdmitsFew
<1>6. CASE prompt.rows # {}
  <2>1. Behind(n) = pending
    <3>1. SubSeq(pending, 0 + 1, Len(pending)) = pending
      BY <1>4
    <3> QED
      BY <1>5, <1>6, <3>1 DEF Behind
  <2>2. p = prompt
    BY <1>3, <1>6 DEF Forming
  <2> QED
    BY <1>1, <1>2, <1>3, <2>1, <2>2
<1>7. CASE prompt.rows = {}
  <2> DEFINE R == {[uid |-> pending[i].uid, max |-> pending[i].left] : i \in 1..n}
             t == SubSeq(pending, n + 1, Len(pending))
             front == SubSeq(pending, 1, n)
  <2>1. p = [rows |-> R, left |-> Max({pending[i].len : i \in 1..n}) - 1]
    BY <1>2, <1>3, <1>7 DEF Forming
  <2>2. RowsOK(owner, pending, {}, b, l)
    BY <1>7
  <2>3. /\ RowsOK(owner, t, R, b, l)
        /\ \A u : u \in HeldOf(t, R, b) <=> u \in HeldOf(pending, {}, b)
    BY <1>5, <2>2, FormRows
  <2>4. p.rows = R /\ p = [rows |-> p.rows, left |-> p.left] /\ Behind(n) = t
    BY <2>1 DEF Behind
  <2>5. \A i \in 1..n : \E k \in DOMAIN front : front[k] = pending[i]
    BY <1>4, <1>5, CutSeq
  <2> HIDE DEF R, t, front
  <2>6. RowsOK(owner, t, {}, b, l)
    <3>1. {} \subseteq R /\ b \subseteq b
      OBVIOUS
    <3> QED
      BY <2>3, <3>1, FewerRows
  <2>7. \A u : u \in HeldOf(t, {}, b) => u \in HeldOf(t, R, b)
    BY HeldIs
  <2>8. \A u : u \in HeldOf(t, R, b) => u \in HeldOf(t, {}, b) \cup Uids(Elems(front))
    <3>1. \A x \in R : \E k \in DOMAIN front : front[k].uid = x.uid
      BY <2>5 DEF R
    <3>2. \A x \in R : x.uid \in Uids(Elems(front))
      BY <3>1 DEF Uids, Elems
    <3> QED
      BY <3>2, HeldIs
  <2> QED
    BY <1>1, <1>2, <1>3, <1>7, <2>3, <2>4, <2>6, <2>7, <2>8 DEF front
<1> QED
  BY <1>6, <1>7

\* A tick that throws keeps the invariant, wherever it throws.
LEMMA ThrowKeeps ==
  ASSUME Inv, NEW cut \in Cuts, NEW stops, NEW kind, NEW point \in Points,
         TickThrows(kind, point, cut, stops)
  PROVE  Inv'
<1>1. PICK q : q = SubSeq(pending, 1, cut)
  OBVIOUS
<1>2. PICK b : b = IF point = "decode" THEN batch ELSE Decoded(stops)
  OBVIOUS
<1>3. PICK n : n = IF point \in {"prefill", "build"} THEN Admits(q) ELSE 0
  OBVIOUS
<1>4. PICK lost : lost = (IF point = "decode" THEN {} ELSE Finished(stops)) \cup
                         (IF point = "build" THEN Uids(Elems(SubSeq(pending, 1, n))) ELSE {})
  OBVIOUS
<1>5. /\ pc = "step"
      /\ prompt' = (IF point = "prefill" THEN Forming(q) ELSE prompt)
      /\ dropped' = dropped \cup {owner[u] : u \in lost \cap active}
      /\ \/ ContainMemory(Behind(n), b)
         \/ LetThrough(kind, Behind(n), b)
      /\ UNCHANGED <<client, uidOf, got, end, waiting, cancelled, taken, owner, active, out>>
  BY <1>1, <1>2, <1>3, <1>4 DEF TickThrows
<1>6. /\ RowsOK(owner, pending, prompt.rows, batch, ledger) /\ out = {}
      /\ prompt = [rows |-> prompt.rows, left |-> prompt.left]
      /\ pending \in Seq(PendingRows)
  BY <1>5 DEF Inv, Types, Spoken, RowsOK, Typed
<1>7. /\ RowsOK(owner, Behind(n), prompt'.rows, b, ledger)
      /\ prompt' = [rows |-> prompt'.rows, left |-> prompt'.left]
      /\ \A u : u \in HeldOf(Behind(n), prompt'.rows, b) => u \in Held
      /\ \A u \in Held : u \in HeldOf(Behind(n), prompt'.rows, b) \/ u \in lost
  <2>1. CASE point = "decode"
    <3>1. Behind(n) = pending
      <4>1. SubSeq(pending, 0 + 1, Len(pending)) = pending
        BY <1>6
      <4> QED
        BY <1>3, <2>1, <4>1 DEF Behind
    <3>2. b = batch /\ prompt' = prompt
      BY <1>2, <1>5, <2>1
    <3> QED
      BY <1>6, <3>1, <3>2, HeldRows
  <2>2. CASE point # "decode"
    <3>1. b = Decoded(stops)
      BY <1>2, <2>2
    <3>2. /\ ledger \in [DOMAIN ledger -> Nat]
          /\ \A u \in HeldOf(pending, prompt.rows, batch) : u \in DOMAIN ledger
      BY <1>6, HeldIs DEF RowsOK, Priced
    <3>3. \A u \in HeldOf(pending, prompt.rows, batch) \ Finished(stops) :
            u \in DOMAIN ledger /\ ledger[u] <= ledger[u] + IF u \in Uids(batch) THEN 1 ELSE 0
      BY <3>2
    <3>4. /\ RowsOK(owner, pending, prompt.rows, b, ledger)
          /\ \A u : u \in HeldOf(pending, prompt.rows, b) <=>
                      u \in HeldOf(pending, prompt.rows, batch) /\ u \notin Finished(stops)
      BY <1>6, <3>1, <3>2, <3>3, DecodedRows
    <3>5. PICK p : p = Forming(q)
      OBVIOUS
    <3>6. point \in {"prefill", "build"} =>
          /\ p = [rows |-> p.rows, left |-> p.left]
          /\ RowsOK(owner, Behind(n), p.rows, b, ledger)
          /\ RowsOK(owner, Behind(n), prompt.rows, b, ledger)
          /\ \A u : u \in HeldOf(Behind(n), p.rows, b) <=> u \in HeldOf(pending, prompt.rows, b)
          /\ \A u : u \in HeldOf(Behind(n), prompt.rows, b) =>
                      u \in HeldOf(pending, prompt.rows, b)
          /\ \A u : u \in HeldOf(pending, prompt.rows, b) =>
                      \/ u \in HeldOf(Behind(n), prompt.rows, b)
                      \/ u \in Uids(Elems(SubSeq(pending, 1, n)))
      BY <1>1, <1>3, <1>6, <3>1, <3>4, <3>5, FormedRows
    <3>7. CASE point = "prefill"
      <4>1. prompt' = p /\ lost = Finished(stops)
        BY <1>4, <1>5, <3>5, <3>7
      <4> QED
        BY <3>4, <3>6, <3>7, <4>1, HeldRows
    <3>8. CASE point = "build"
      <4>1. prompt' = prompt /\ lost = Finished(stops) \cup Uids(Elems(SubSeq(pending, 1, n)))
        BY <1>4, <1>5, <3>8
      <4> QED
        BY <1>6, <3>4, <3>6, <3>8, <4>1, HeldRows
    <3>9. CASE point = "cache"
      <4>1. Behind(n) = pending
        <5>1. SubSeq(pending, 0 + 1, Len(pending)) = pending
          BY <1>6
        <5> QED
          BY <1>3, <3>9, <5>1 DEF Behind
      <4>2. prompt' = prompt /\ lost = Finished(stops)
        BY <1>4, <1>5, <3>9
      <4> QED
        BY <1>6, <3>4, <4>1, <4>2, HeldRows
    <3> QED
      BY <2>2, <3>7, <3>8, <3>9 DEF Points
  <2> QED
    BY <2>1, <2>2
<1>8. LadderStep(Behind(n), b) /\ pc' \in {"deliver", "raise"}
  <2>1. CASE KeepRows(Behind(n), b)
    BY <1>5, <1>7, <2>1, KeepIsLadder DEF ContainMemory, LetThrough
  <2>2. CASE ~KeepRows(Behind(n), b)
    <3>1. ContainMemory(Behind(n), b)
      BY <1>5, <2>2 DEF LetThrough
    <3>2. PICK x \in Victim(b) : Rebuild(x.uid, Behind(n), b) \/ FailRow(x.uid, Behind(n), b)
      BY <2>2, <3>1 DEF ContainMemory
    <3>3. pc' = "deliver"
      BY <3>1 DEF ContainMemory
    <3> QED
      BY <1>7, <3>2, <3>3, VictimIsRow, RebuildIsLadder, FailIsLadder
  <2> QED
    BY <2>1, <2>2
<1>9. dropped \subseteq dropped' /\ \A u \in lost \cap active : owner[u] \in dropped'
  BY <1>5
<1> QED
  BY <1>5, <1>6, <1>7, <1>8, <1>9, LadderKeeps

\* The rows after a tick that returns: those that finished are gone.
LEMMA TickRows ==
  ASSUME Inv, NEW cut \in Cuts, NEW stops, Tick(cut, stops)
  PROVE  /\ RowsOK(owner, pending, prompt.rows, batch, ledger)'
         /\ prompt' = [rows |-> prompt'.rows, left |-> prompt'.left]
         /\ \A u : u \in Held' <=> u \in Held /\ u \notin Finished(stops)
<1>1. PICK q : q = SubSeq(pending, 1, cut)
  OBVIOUS
<1>2. PICK b : b = Decoded(stops)
  OBVIOUS
<1>3. PICK p : p = Forming(q)
  OBVIOUS
<1>4. /\ IF ~Prefills(q, b)
         THEN batch' = b /\ UNCHANGED <<pending, prompt>>
         ELSE /\ pending' = Behind(Admits(q))
              /\ IF p.left > 0
                 THEN batch' = b /\ prompt' = [p EXCEPT !.left = @ - 1]
                 ELSE batch' = b \cup Joined(p) /\ prompt' = NoPrompt
      /\ UNCHANGED owner
  BY <1>1, <1>2, <1>3 DEF Tick, StockTick
<1>5. /\ RowsOK(owner, pending, prompt.rows, batch, ledger)
      /\ prompt = [rows |-> prompt.rows, left |-> prompt.left]
  BY DEF Inv, Types
<1>6. PICK m : m = ledger'
  OBVIOUS
<1>7. /\ RowsOK(owner, pending, prompt.rows, b, m)
      /\ \A u : u \in HeldOf(pending, prompt.rows, b) <=> u \in Held /\ u \notin Finished(stops)
  <2>1. m = [u \in DOMAIN ledger \ Finished(stops) |->
               ledger[u] + IF u \in Uids(batch) THEN 1 ELSE 0]
    BY <1>6 DEF Tick
  <2>2. \A u \in DOMAIN ledger : ledger[u] \in Nat
    BY <1>5 DEF RowsOK, Priced
  <2>3. m \in [DOMAIN m -> Nat]
    BY <2>1, <2>2
  <2>4. \A u \in HeldOf(pending, prompt.rows, batch) : u \in DOMAIN ledger
    BY <1>5, HeldIs DEF RowsOK, Priced
  <2>5. \A u \in HeldOf(pending, prompt.rows, batch) \ Finished(stops) :
          u \in DOMAIN m /\ m[u] <= ledger[u] + IF u \in Uids(batch) THEN 1 ELSE 0
    BY <2>1, <2>2, <2>4
  <2> QED
    BY <1>2, <1>5, <2>3, <2>5, DecodedRows, HeldRows
<1>8. /\ p = [rows |-> p.rows, left |-> p.left]
      /\ RowsOK(owner, Behind(Admits(q)), p.rows, b, m)
      /\ \A u : u \in HeldOf(Behind(Admits(q)), p.rows, b) <=> u \in HeldOf(pending, prompt.rows, b)
  BY <1>1, <1>3, <1>5, <1>7, FormedRows
<1>9. Held' = HeldOf(pending', prompt'.rows, batch')
  BY DEF Held, HeldOf
<1>10. CASE ~Prefills(q, b)
  <2>1. batch' = b /\ pending' = pending /\ prompt' = prompt
    BY <1>4, <1>10
  <2> QED
    BY <1>4, <1>5, <1>6, <1>7, <1>9, <2>1
<1>11. CASE Prefills(q, b) /\ p.left > 0
  <2>1. batch' = b /\ pending' = Behind(Admits(q)) /\ prompt' = [p EXCEPT !.left = @ - 1]
    BY <1>4, <1>11
  <2>2. prompt'.rows = p.rows /\ prompt' = [rows |-> prompt'.rows, left |-> prompt'.left]
    BY <1>8, <2>1
  <2> QED
    BY <1>4, <1>6, <1>7, <1>8, <1>9, <2>1, <2>2
<1>12. CASE Prefills(q, b) /\ ~(p.left > 0)
  <2>1. batch' = b \cup Joined(p) /\ pending' = Behind(Admits(q)) /\ prompt' = NoPrompt
    BY <1>4, <1>12
  <2>2. prompt'.rows = {} /\ prompt' = [rows |-> prompt'.rows, left |-> prompt'.left]
    BY <2>1 DEF NoPrompt
  <2>3. Joined(p) = {[uid |-> x.uid, num |-> 0, max |-> x.max] : x \in p.rows}
    BY DEF Joined
  <2>4. PICK t : t = Behind(Admits(q))
    OBVIOUS
  <2>5. PICK R : R = p.rows
    OBVIOUS
  <2>6. /\ RowsOK(owner, t, {}, b \cup {[uid |-> x.uid, num |-> 0, max |-> x.max] : x \in R}, m)
        /\ \A u : u \in HeldOf(t, {}, b \cup {[uid |-> x.uid, num |-> 0, max |-> x.max] : x \in R})
                    <=> u \in HeldOf(t, R, b)
    BY <1>8, <2>4, <2>5, JoinRows
  <2>7. batch' = b \cup {[uid |-> x.uid, num |-> 0, max |-> x.max] : x \in R} /\ pending' = t
    BY <2>1, <2>3, <2>4, <2>5
  <2> QED
    BY <1>4, <1>6, <1>7, <1>8, <1>9, <2>2, <2>4, <2>5, <2>6, <2>7
<1> QED
  BY <1>10, <1>11, <1>12

\* A tick that returns keeps the invariant: what it answers it commits.
LEMMA TickKeeps ==
  ASSUME Inv, NEW cut \in Cuts, NEW stops, Tick(cut, stops)
  PROVE  Inv'
<1> DEFINE F == Finished(stops)
<1>1. /\ pc = "step" /\ pc' = "deliver"
      /\ out' = {[uid |-> u, last |-> u \in F] : u \in Uids(batch)}
      /\ ledger' = [u \in DOMAIN ledger \ F |->
                      ledger[u] + IF u \in Uids(batch) THEN 1 ELSE 0]
      /\ UNCHANGED <<client, uidOf, got, end, waiting, cancelled, taken, owner, active, mailbox,
                     dropped, failed, trouble, closes>>
  BY DEF Tick
<1>2. /\ Types /\ RowsOK(owner, pending, prompt.rows, batch, ledger)
      /\ Numbering /\ Spoken /\ Ledgered /\ NoOrphanRow /\ ActiveIsHeld
  BY DEF Inv
<1>3. /\ RowsOK(owner, pending, prompt.rows, batch, ledger)'
      /\ prompt' = [rows |-> prompt'.rows, left |-> prompt'.left]
      /\ \A u : u \in Held' <=> u \in Held /\ u \notin F
  BY TickRows
<1>4. F \subseteq Uids(batch) /\ Uids(batch) \subseteq Held
  BY DEF Finished, Held, Uids
<1>5. out = {}
  BY <1>1, <1>2 DEF Spoken
<1>6. \A u \in Held : u \in DOMAIN owner /\ u \in DOMAIN ledger
  BY <1>2, HeldRows, HeldIs DEF RowsOK, Typed, Priced
<1> HIDE DEF F
<1>7. Types'
  BY <1>1, <1>2, <1>3 DEF Types
<1>8. Numbering'
  BY <1>1, <1>2 DEF Numbering
<1>9. Spoken'
  <2>1. ASSUME NEW o \in out'
        PROVE  /\ o.uid \in DOMAIN owner
               /\ o.last => o.uid \notin Held'
               /\ o.uid \in active => got[owner[o.uid]] < Budget[owner[o.uid]]
    <3>1. PICK u \in Uids(batch) : o = [uid |-> u, last |-> u \in F]
      BY <1>1
    <3>2. PICK x \in batch : x.uid = u
      BY DEF Uids
    <3>3. u \in DOMAIN owner /\ (u \in F => u \notin Held') /\ u \in DOMAIN ledger
      BY <1>3, <1>4, <1>6
    <3>4. ASSUME u \in active PROVE got[owner[u]] < Budget[owner[u]]
      <4>1. ledger[u] = got[owner[u]] + 0
        BY <1>2, <1>5, <3>3, <3>4 DEF Ledgered, LedgerIsDelivered
      <4>2. x.num < x.max /\ ledger[u] + (x.max - x.num) <= Budget[owner[u]]
        BY <1>2, <3>2 DEF RowsOK, Priced
      <4>3. owner[u] \in Requests /\ x.num \in Nat /\ x.max \in Nat /\ ledger[u] \in Nat
        BY <1>2, <3>2, <3>3 DEF RowsOK, Typed, Priced, BatchRows
      <4>4. Budget[owner[u]] \in Nat /\ got[owner[u]] \in Nat
        BY <1>2, <4>3, EngineAssumption DEF Types
      <4> QED
        BY <4>1, <4>2, <4>3, <4>4
    <3> QED
      BY <3>1, <3>3, <3>4
  <2>2. \A m \in mailbox : /\ m.uid \in DOMAIN owner /\ m.uid \notin Held'
                           /\ \A o \in out' : o.uid # m.uid
    BY <1>1, <1>2, <1>3, <1>4 DEF Spoken
  <2>3. \A r \in failed : end[r] = "open" => \E m \in mailbox : owner[m.uid] = r
    BY <1>2 DEF Spoken
  <2> QED
    BY <1>1, <2>1, <2>2, <2>3 DEF Spoken
<1>10. Ledgered'
  <2>1. DOMAIN ledger' \subseteq DOMAIN owner
    BY <1>1, <1>2 DEF Ledgered
  <2>2. ASSUME NEW u \in active, u \in DOMAIN ledger'
        PROVE  ledger'[u] = got[owner[u]] + IF \E o \in out' : o.uid = u THEN 1 ELSE 0
    <3>1. u \in DOMAIN ledger /\ ledger[u] = got[owner[u]] + 0
      BY <1>1, <1>2, <1>5, <2>2 DEF Ledgered, LedgerIsDelivered
    <3>2. got[owner[u]] \in Nat
      BY <1>2 DEF Types
    <3>3. (\E o \in out' : o.uid = u) <=> u \in Uids(batch)
      <4>1. ASSUME NEW o \in out' PROVE o.uid \in Uids(batch)
        BY <1>1
      <4>2. ASSUME u \in Uids(batch) PROVE \E o \in out' : o.uid = u
        <5>1. [uid |-> u, last |-> u \in F] \in out'
          BY <1>1, <4>2
        <5> QED
          BY <5>1
      <4> QED
        BY <4>1, <4>2
    <3>4. ledger'[u] = ledger[u] + IF u \in Uids(batch) THEN 1 ELSE 0
      BY <1>1, <2>2
    <3> QED
      BY <3>1, <3>2, <3>3, <3>4
  <2> QED
    BY <1>1, <2>1, <2>2 DEF Ledgered, LedgerIsDelivered
<1>11. NoOrphanRow'
  BY <1>1, <1>2, <1>3 DEF NoOrphanRow
<1>12. ActiveIsHeld'
  <2>1. \A u \in F : [uid |-> u, last |-> TRUE] \in out'
    BY <1>1, <1>4
  <2> QED
    BY <1>1, <1>2, <1>3, <1>5, <2>1 DEF ActiveIsHeld
<1> QED
  BY <1>3, <1>7, <1>8, <1>9, <1>10, <1>11, <1>12 DEF Inv

-----------------------------------------------------------------------------
(* The other steps of the loop.                                            *)

\* Two numbers of one request are one.
LEMMA OwnerOnce ==
  ASSUME Numbering, NEW u \in DOMAIN owner, NEW v \in DOMAIN owner, owner[u] = owner[v]
  PROVE  u = v
BY DEF Numbering

\* Delivering the responses and the failures keeps the invariant.
LEMMA DeliverKeeps == ASSUME Inv, Deliver PROVE Inv'
<1> DEFINE told == {m.uid : m \in mailbox}
           last == {u \in active : [uid |-> u, last |-> TRUE] \in out}
           shed == (active \ last) \cap told
<1>1. /\ pc = "deliver" /\ pc' = "collect"
      /\ got' = [r \in Requests |->
                   got[r] + IF \E o \in out : o.uid \in active /\ owner[o.uid] = r THEN 1 ELSE 0]
      /\ end' = [r \in Requests |->
                   IF \E u \in last : owner[u] = r THEN "finish"
                   ELSE IF \E u \in shed : owner[u] = r THEN "shed" ELSE end[r]]
      /\ active' = active \ (last \cup shed)
      /\ out' = {} /\ mailbox' = {} /\ taken' = <<>>
      /\ UNCHANGED <<client, uidOf, waiting, cancelled, owner, pending, prompt, batch, ledger,
                     dropped, failed>>
  BY DEF Deliver
<1>2. /\ Types /\ RowsOK(owner, pending, prompt.rows, batch, ledger)
      /\ Numbering /\ Spoken /\ Ledgered /\ NoOrphanRow /\ ActiveIsHeld
  BY DEF Inv
<1>3. /\ \A u \in last : u \in active /\ u \notin Held
      /\ \A u \in shed : u \in active /\ u \notin Held
  <2>1. ASSUME NEW u \in last PROVE u \in active /\ u \notin Held
    <3>1. [uid |-> u, last |-> TRUE] \in out
      BY <2>1
    <3> QED
      BY <1>2, <3>1 DEF Spoken
  <2>2. ASSUME NEW u \in shed PROVE u \in active /\ u \notin Held
    BY <1>2, <2>2 DEF Spoken
  <2> QED
    BY <2>1, <2>2
<1>4. \A u \in active : u \in told \/ u \in last \/ u \in active' \/ u \in shed
  BY <1>1
<1>5. \A u \in active : u \in told => u \in last \cup shed
  OBVIOUS
<1>6. \A u \in active : [uid |-> u, last |-> TRUE] \in out => u \in last
  OBVIOUS
<1>7. \A m \in mailbox : m.uid \in told
  OBVIOUS
<1> HIDE DEF told, last, shed
<1>8. active \subseteq DOMAIN owner /\ \A u \in DOMAIN owner : owner[u] \in Requests
  BY <1>2 DEF Types
<1>9. \A u \in active : /\ u \in last \cup shed => end'[owner[u]] \in {"finish", "shed"}
                        /\ u \notin last \cup shed => end'[owner[u]] = end[owner[u]]
  <2>1. \A u \in active, v \in last \cup shed : owner[u] = owner[v] => u = v
    BY <1>2, <1>3, <1>8, OwnerOnce
  <2> QED
    BY <1>1, <1>8, <2>1
<1>10. \A r \in Requests : (\A u \in active : owner[u] # r) => end'[r] = end[r]
  BY <1>1, <1>3
<1>11. \A r \in Requests : end'[r] = end[r] \/ end'[r] \in {"finish", "shed"}
  BY <1>1
<1>12. Types'
  <2>1. end' \in [Requests -> Ends]
    BY <1>1, <1>2 DEF Types, Ends
  <2>2. got' \in [Requests -> Nat]
    BY <1>1, <1>2 DEF Types
  <2>3. <<>> \in Seq(Requests)
    OBVIOUS
  <2> QED
    BY <1>1, <1>2, <2>1, <2>2, <2>3 DEF Types
<1>13. RowsOK(owner, pending, prompt.rows, batch, ledger)' /\ Held' = Held
  BY <1>1, <1>2 DEF Held
<1>14. Numbering'
  <2>1. \A r \in Requests : client[r] \in {"new", "queued"} => \A u \in active : owner[u] # r
    BY <1>2, <1>8 DEF Numbering
  <2>2. \A r \in Requests : client[r] \in {"new", "queued"} => end'[r] = end[r] /\ got'[r] = got[r]
    <3>1. \A r \in Requests : (\A u \in active : owner[u] # r) => got'[r] = got[r] + 0
      BY <1>1
    <3> QED
      BY <1>2, <1>10, <2>1, <3>1 DEF Types
  <2>3. \A r \in Elems(waiting) : r \in Requests
    BY <1>2 DEF Types, Elems
  <2>4. ASSUME NEW u \in DOMAIN owner
        PROVE  end'[owner[u]] = "open" <=> u \in active'
    <3>1. CASE u \in active
      BY <1>1, <1>2, <1>9, <3>1 DEF Numbering
    <3>2. CASE u \notin active
      <4>1. \A v \in active : owner[v] # owner[u]
        BY <1>2, <1>8, <3>2, OwnerOnce
      <4>2. end'[owner[u]] = end[owner[u]]
        BY <1>8, <1>10, <4>1
      <4> QED
        BY <1>1, <1>2, <3>2, <4>2 DEF Numbering
    <3> QED
      BY <3>1, <3>2
  <2>5. Elems(taken') = {}
    BY <1>1 DEF Elems
  <2> QED
    BY <1>1, <1>2, <2>2, <2>3, <2>4, <2>5 DEF Numbering
<1>15. Spoken'
  <2>1. ASSUME NEW r \in failed, end'[r] = "open" PROVE FALSE
    <3>1. r \in Requests /\ end[r] = "open"
      BY <1>2, <1>11, <2>1 DEF Types
    <3>2. PICK m \in mailbox : owner[m.uid] = r /\ m.uid \in DOMAIN owner
      BY <1>2, <3>1 DEF Spoken
    <3>3. m.uid \in active
      BY <1>2, <3>1, <3>2 DEF Numbering
    <3>4. m.uid \in last \cup shed
      BY <1>5, <1>7, <3>3
    <3> QED
      BY <1>9, <2>1, <3>2, <3>3, <3>4
  <2> QED
    BY <1>1, <2>1 DEF Spoken
<1>16. Ledgered'
  <2>1. ASSUME NEW u \in active', u \in DOMAIN ledger
        PROVE  ledger[u] = got'[owner[u]] + 0
    <3>1. u \in active /\ u \in DOMAIN owner
      BY <1>1, <1>8, <2>1
    <3>2. ledger[u] = got[owner[u]] + IF \E o \in out : o.uid = u THEN 1 ELSE 0
      BY <1>2, <2>1, <3>1 DEF Ledgered, LedgerIsDelivered
    <3>3. (\E o \in out : o.uid \in active /\ owner[o.uid] = owner[u]) <=> \E o \in out : o.uid = u
      BY <1>2, <1>8, <3>1, OwnerOnce
    <3>4. got[owner[u]] \in Nat /\ owner[u] \in Requests
      BY <1>2, <1>8, <3>1 DEF Types
    <3> QED
      BY <1>1, <3>2, <3>3, <3>4
  <2> QED
    BY <1>1, <1>2, <2>1 DEF Ledgered, LedgerIsDelivered
<1>17. NoOrphanRow'
  <2>1. ASSUME NEW u \in Held PROVE u \in active' \/ end'[owner[u]] = "cancel"
    <3>1. CASE u \in active
      BY <1>1, <1>3, <3>1
    <3>2. CASE u \notin active
      <4>1. u \in DOMAIN owner
        BY <1>2, HeldRows, HeldIs DEF RowsOK, Typed
      <4>2. \A v \in active : owner[v] # owner[u]
        BY <1>2, <1>8, <3>2, <4>1, OwnerOnce
      <4>3. end'[owner[u]] = end[owner[u]]
        BY <1>8, <1>10, <4>1, <4>2
      <4> QED
        BY <1>2, <3>2, <4>3 DEF NoOrphanRow
    <3> QED
      BY <3>1, <3>2
  <2> QED
    BY <1>1, <1>13, <2>1 DEF NoOrphanRow
<1>18. ActiveIsHeld'
  <2>1. ASSUME NEW u \in active' PROVE u \in Held \/ owner[u] \in dropped
    <3>1. u \in active /\ u \notin last \cup shed
      BY <1>1
    <3>2. u \notin told /\ [uid |-> u, last |-> TRUE] \notin out
      BY <1>5, <1>6, <3>1
    <3>3. [uid |-> u, mine |-> TRUE] \notin mailbox
      <4>1. [uid |-> u, mine |-> TRUE].uid = u
        OBVIOUS
      <4> QED
        BY <1>7, <3>2, <4>1
    <3> QED
      BY <1>2, <3>1, <3>2, <3>3 DEF ActiveIsHeld
  <2> QED
    BY <1>1, <1>13, <2>1 DEF ActiveIsHeld
<1> QED
  BY <1>12, <1>13, <1>14, <1>15, <1>16, <1>17, <1>18 DEF Inv

\* Taking requests from the queue and dropping cancelled rows keeps the invariant.
LEMMA CollectKeeps == ASSUME Inv, Collect PROVE Inv'
<1>1. PICK n : n = Lesser(Len(waiting), Capacity)
  OBVIOUS
<1>2. PICK gone : gone = {c.uid : c \in cancelled} \cap active
  OBVIOUS
<1>3. /\ pc = "collect" /\ pc' = "insert"
      /\ taken' = SubSeq(waiting, 1, n) /\ waiting' = SubSeq(waiting, n + 1, Len(waiting))
      /\ active' = active \ gone
      /\ pending' \in Selections(pending, {i \in DOMAIN pending : pending[i].uid \notin gone})
      /\ prompt' = PromptWithout(gone) /\ batch' = Without(batch, gone)
      /\ end' = [r \in Requests |-> IF \E u \in gone : owner[u] = r THEN "cancel" ELSE end[r]]
      /\ UNCHANGED <<client, uidOf, got, owner, ledger, out, mailbox, dropped, failed>>
  BY <1>1, <1>2 DEF Collect
<1>4. /\ Types /\ RowsOK(owner, pending, prompt.rows, batch, ledger)
      /\ Numbering /\ Spoken /\ Ledgered /\ NoOrphanRow /\ ActiveIsHeld
  BY DEF Inv
<1>5. /\ gone \subseteq active /\ active \subseteq DOMAIN owner
      /\ \A u \in DOMAIN owner : owner[u] \in Requests
      /\ out = {} /\ mailbox = {}
  BY <1>2, <1>3, <1>4 DEF Types, Spoken
<1>6. n \in 0..Len(waiting)
  <2>1. IsFiniteSet(active)
    <3>1. DOMAIN owner = 1..Len(owner) /\ Len(owner) \in Nat
      BY <1>4 DEF Types
    <3>2. IsFiniteSet(1..Len(owner))
      BY <3>1, FS_Interval
    <3>3. active \in SUBSET (1..Len(owner))
      BY <1>5, <3>1
    <3> QED
      BY <3>2, <3>3, FS_Subset
  <2>2. Cardinality(active) \in Nat
    BY <2>1, FS_CardinalityType
  <2>3. Capacity \in Nat
    BY <2>2, EngineAssumption DEF Capacity
  <2>4. Len(waiting) \in Nat
    BY <1>4 DEF Types
  <2> QED
    BY <1>1, <2>3, <2>4 DEF Lesser
<1>7. /\ taken' \in Seq(Requests) /\ waiting' \in Seq(Requests)
      /\ IsInjective(taken') /\ IsInjective(waiting')
      /\ Elems(taken') \subseteq Elems(waiting) /\ Elems(waiting') \subseteq Elems(waiting)
      /\ \A r \in Elems(taken') : r \notin Elems(waiting')
  <2>1. waiting \in Seq(Requests) /\ DOMAIN waiting = 1..Len(waiting) /\ Len(waiting) \in Nat
    BY <1>4 DEF Types
  <2>2. /\ taken' \in Seq(Requests) /\ DOMAIN taken' = 1..n
        /\ \A i \in 1..n : taken'[i] = waiting[i] /\ i \in DOMAIN waiting
        /\ waiting' \in Seq(Requests) /\ DOMAIN waiting' = 1..(Len(waiting) - n)
        /\ \A i \in 1..(Len(waiting) - n) : /\ waiting'[i] = waiting[n + i]
                                            /\ n + i \in DOMAIN waiting
    BY <1>3, <1>6, <2>1, CutSeq
  <2>3. \A i, k \in DOMAIN waiting : waiting[i] = waiting[k] => i = k
    BY <1>4 DEF Numbering, IsInjective
  <2>4. IsInjective(taken')
    BY <2>2, <2>3 DEF IsInjective
  <2>5. IsInjective(waiting')
    <3> SUFFICES ASSUME NEW i \in DOMAIN waiting', NEW k \in DOMAIN waiting',
                        waiting'[i] = waiting'[k]
                 PROVE  i = k
      BY DEF IsInjective
    <3>1. n + i = n + k
      BY <2>2, <2>3
    <3> QED
      BY <1>6, <2>1, <2>2, <3>1
  <2>6. \A i \in DOMAIN taken', k \in DOMAIN waiting' : taken'[i] # waiting'[k]
    <3> SUFFICES ASSUME NEW i \in DOMAIN taken', NEW k \in DOMAIN waiting' PROVE i # n + k
      BY <2>2, <2>3
    <3> QED
      BY <1>6, <2>1, <2>2
  <2> QED
    BY <2>2, <2>4, <2>5, <2>6 DEF Elems
<1>8. /\ \A r \in Elems(waiting) : end'[r] = end[r]
      /\ \A r \in Requests : client[r] \in {"new", "queued"} => end'[r] = end[r]
  <2>1. \A r \in Requests : client[r] \in {"new", "queued"} => end'[r] = end[r]
    BY <1>3, <1>4, <1>5 DEF Numbering
  <2>2. \A r \in Elems(waiting) : r \in Requests /\ client[r] = "queued"
    BY <1>4 DEF Types, Elems, Numbering
  <2> QED
    BY <2>1, <2>2
<1>9. \A u \in DOMAIN owner : end'[owner[u]] = IF u \in gone THEN "cancel" ELSE end[owner[u]]
  <2>1. \A u \in DOMAIN owner, v \in gone : owner[u] = owner[v] => u = v
    BY <1>4, <1>5, OwnerOnce
  <2> QED
    BY <1>3, <1>5, <2>1
<1>10. \A r \in Requests : end'[r] \in {end[r], "cancel"}
  BY <1>3
<1>11. prompt'.rows \subseteq prompt.rows /\ prompt' = [rows |-> prompt'.rows, left |-> prompt'.left]
       /\ \A x \in prompt.rows : x.uid \in gone \/ x \in prompt'.rows
  <2>1. prompt' = NoPrompt \/ prompt' = prompt
    BY <1>3 DEF PromptWithout
  <2>2. prompt' = prompt \/ \A x \in prompt.rows : x.uid \in gone
    BY <1>3 DEF PromptWithout, Uids
  <2> QED
    BY <1>4, <2>1, <2>2 DEF NoPrompt, Types
<1>12. batch' \subseteq batch /\ \A x \in batch : x.uid \in gone \/ x \in batch'
  BY <1>3 DEF Without
<1>13. /\ RowsOK(owner, pending', prompt'.rows, batch', ledger)
       /\ \A i \in DOMAIN pending' : \E k \in DOMAIN pending : pending[k].uid = pending'[i].uid
       /\ \A k \in DOMAIN pending : \/ pending[k].uid \in gone
                                    \/ \E i \in DOMAIN pending' : pending'[i].uid = pending[k].uid
  <2>1. PICK K \in SUBSET DOMAIN pending : K = {i \in DOMAIN pending : pending[i].uid \notin gone}
    OBVIOUS
  <2>0. pending' \in Selections(pending, K)
    BY <1>3, <2>1
  <2>2. /\ RowsOK(owner, pending', prompt.rows, batch, ledger)
        /\ \A u : (\E i \in DOMAIN pending' : pending'[i].uid = u) <=> \E k \in K : pending[k].uid = u
    BY <1>4, <2>0, FewerPending
  <2>3. RowsOK(owner, pending', prompt'.rows, batch', ledger)
    BY <1>11, <1>12, <2>2, FewerRows
  <2> QED
    BY <2>1, <2>2, <2>3
<1>14. Held' = HeldOf(pending', prompt'.rows, batch')
  BY DEF Held, HeldOf
<1>15. /\ \A u \in Held' : u \in Held
       /\ \A u \in Held : u \in gone \/ u \in Held'
  <2>1. \A u \in Held' : u \in Held
    BY <1>11, <1>12, <1>13, <1>14, HeldRows, HeldIs
  <2>2. \A u \in Held : u \in gone \/ u \in Held'
    BY <1>11, <1>12, <1>13, <1>14, HeldRows, HeldIs
  <2> QED
    BY <2>1, <2>2
<1>16. Types'
  <2>1. end' \in [Requests -> Ends]
    BY <1>3, <1>4 DEF Types, Ends
  <2> QED
    BY <1>3, <1>4, <1>7, <1>11, <2>1 DEF Types
<1>17. Numbering'
  <2>1. \A u \in DOMAIN owner : end'[owner[u]] = "open" <=> u \in active'
    BY <1>3, <1>4, <1>9 DEF Numbering
  <2>2. \A r \in Elems(waiting) : client[r] = "queued" /\ end'[r] = "open"
    BY <1>4, <1>8 DEF Numbering
  <2>3. /\ \A r \in Elems(waiting') : client[r] = "queued" /\ end'[r] = "open"
        /\ \A r \in Elems(taken') : client[r] = "queued" /\ end'[r] = "open"
    BY <1>7, <2>2
  <2>4. \A u \in DOMAIN owner : /\ client[owner[u]] \in {"streaming", "closed"}
                                /\ uidOf[owner[u]] = u
    BY <1>4 DEF Numbering
  <2>5. /\ \A r \in Requests : client[r] = "new" => end'[r] = "open"
        /\ \A r \in Requests : client[r] \in {"new", "queued"} => got[r] = 0
    BY <1>4, <1>8 DEF Numbering
  <2>6. \A u \in DOMAIN owner' : /\ client'[owner'[u]] \in {"streaming", "closed"}
                                 /\ uidOf'[owner'[u]] = u
                                 /\ end'[owner'[u]] = "open" <=> u \in active'
    BY <1>3, <2>1, <2>4
  <2>7. \A r \in Elems(taken') : client'[r] # "new" /\ r \notin Elems(waiting')
    BY <1>3, <1>7, <2>3
  <2>8. /\ \A r \in Requests : client'[r] = "new" => end'[r] = "open"
        /\ \A r \in Requests : client'[r] \in {"new", "queued"} => got'[r] = 0
        /\ \A r \in Elems(waiting') : client'[r] = "queued" /\ end'[r] = "open"
        /\ \A r \in Elems(taken') : client'[r] = "queued" /\ end'[r] = "open"
    BY <1>3, <2>3, <2>5
  <2> QED
    BY <1>7, <2>6, <2>7, <2>8 DEF Numbering
<1>18. Spoken'
  <2>1. \A r \in failed : end'[r] # "open"
    BY <1>4, <1>5, <1>10 DEF Spoken, Types
  <2> QED
    BY <1>3, <1>5, <2>1 DEF Spoken
<1>19. Ledgered'
  BY <1>3, <1>4 DEF Ledgered, LedgerIsDelivered
<1>20. NoOrphanRow'
  <2>1. \A u \in Held : u \in DOMAIN owner
    BY <1>4, HeldRows, HeldIs DEF RowsOK, Typed
  <2> QED
    BY <1>3, <1>4, <1>9, <1>15, <2>1 DEF NoOrphanRow
<1>21. ActiveIsHeld'
  BY <1>3, <1>4, <1>5, <1>15 DEF ActiveIsHeld
<1> QED
  BY <1>3, <1>13, <1>16, <1>17, <1>18, <1>19, <1>20, <1>21 DEF Inv

\* The loop's error ends every request it serves and drops every row.
LEMMA LoopErrorKeeps ==
  ASSUME Inv, NEW shed \in SUBSET active, LoopError(shed), mailbox' = {}, out = {}
  PROVE  Inv'
<1>1. /\ end' = [r \in Requests |->
                   IF end[r] # "open" THEN end[r]
                   ELSE IF \E u \in shed : owner[u] = r THEN "shed"
                   ELSE IF r \in Elems(taken) \/ \E u \in active : owner[u] = r THEN "error"
                   ELSE "open"]
      /\ active' = {} /\ owner' = <<>> /\ pending' = <<>> /\ prompt' = NoPrompt /\ batch' = {}
      /\ ledger' = Empty /\ taken' = <<>> /\ pc' = "collect"
      /\ UNCHANGED <<client, uidOf, got, waiting, cancelled, out, dropped, failed>>
  BY DEF LoopError
<1>2. Types /\ Numbering /\ Spoken
  BY DEF Inv
<1>3. <<>> \in Seq(Requests) /\ <<>> \in Seq(PendingRows) /\ DOMAIN <<>> = {}
  OBVIOUS
<1>4. Elems(taken') = {} /\ DOMAIN owner' = {} /\ DOMAIN pending' = {} /\ DOMAIN ledger' = {}
      /\ prompt'.rows = {} /\ prompt' = [rows |-> prompt'.rows, left |-> prompt'.left]
  BY <1>1, <1>3 DEF Elems, NoPrompt, Empty
<1>5. \A u \in active : u \in DOMAIN owner
  BY <1>2 DEF Types
<1>6. Types'
  <2>1. end' \in [Requests -> Ends]
    BY <1>1, <1>2 DEF Types, Ends
  <2> QED
    BY <1>1, <1>2, <1>3, <1>4, <2>1 DEF Types
<1>7. RowsOK(owner, pending, prompt.rows, batch, ledger)'
  <2>1. ledger' \in [DOMAIN ledger' -> Nat]
    BY <1>1 DEF Empty
  <2> QED
    BY <1>1, <1>3, <1>4, <2>1 DEF RowsOK, Typed, Apart, Priced
<1>8. Numbering'
  <2>1. \A r \in Requests : client[r] = "new" => end'[r] = "open"
    BY <1>1, <1>2, <1>5 DEF Numbering
  <2>2. \A r \in Elems(waiting) : end'[r] = "open"
    <3>1. \A r \in Elems(waiting) : r \in Requests
      BY <1>2 DEF Types, Elems
    <3> QED
      BY <1>1, <1>2, <1>5, <3>1 DEF Numbering
  <2> QED
    BY <1>1, <1>2, <1>4, <2>1, <2>2 DEF Numbering
<1>9. Spoken'
  <2>1. ASSUME NEW r \in failed, end'[r] = "open" PROVE FALSE
    <3>1. r \in Requests
      BY <1>2 DEF Types
    <3>2. end[r] = "open" /\ \A u \in active : owner[u] # r
      BY <1>1, <2>1, <3>1
    <3>3. PICK m \in mailbox : owner[m.uid] = r /\ m.uid \in DOMAIN owner
      BY <1>2, <3>2 DEF Spoken
    <3> QED
      BY <1>2, <3>2, <3>3 DEF Numbering
  <2> QED
    BY <1>1, <2>1 DEF Spoken
<1>10. Ledgered'
  BY <1>1, <1>4 DEF Ledgered, LedgerIsDelivered
<1>11. NoOrphanRow'
  <2>1. Held' = {}
    BY <1>1, <1>4 DEF Held, Uids, Elems
  <2> QED
    BY <2>1 DEF NoOrphanRow
<1>12. ActiveIsHeld'
  BY <1>1 DEF ActiveIsHeld
<1> QED
  BY <1>6, <1>7, <1>8, <1>9, <1>10, <1>11, <1>12 DEF Inv

\* So do the two places it is raised from.
LEMMA RaisesKeep == ASSUME Inv, Raise \/ EmbedRaises PROVE Inv'
<1>1. CASE Raise
  <2>1. out = {}
    BY <1>1 DEF Raise, Inv, Spoken
  <2> QED
    BY <1>1, <2>1, LoopErrorKeeps DEF Raise
<1>2. CASE EmbedRaises
  <2>1. out = {} /\ mailbox' = {}
    BY <1>2 DEF EmbedRaises, Inv, Spoken
  <2> QED
    BY <1>2, <2>1, LoopErrorKeeps DEF EmbedRaises
<1> QED
  BY <1>1, <1>2

-----------------------------------------------------------------------------
(* Insertion.                                                              *)

\* Two queues of the same uids.
SameUids(s, t) ==
  \A u : (\E i \in DOMAIN s : s[i].uid = u) <=> \E i \in DOMAIN t : t[i].uid = u

\* A queue put in order holds the same rows.
LEMMA SortedRows ==
  ASSUME NEW o, NEW q, NEW R, NEW b, NEW l, RowsOK(o, q, R, b, l), NEW f \in SortingOrders(q),
         NEW t, t = [i \in DOMAIN q |-> q[f[i]]]
  PROVE  RowsOK(o, t, R, b, l) /\ SameUids(t, q)
<1>1. /\ f \in [DOMAIN q -> DOMAIN q] /\ \A k \in DOMAIN q : \E i \in DOMAIN q : f[i] = k
      /\ \A i, k \in DOMAIN q : f[i] = f[k] => i = k
  BY DEF SortingOrders, Bijection, Injection, Surjection, IsInjective
<1>2. q \in Seq(PendingRows)
  BY DEF RowsOK, Typed
<1>3. t \in Seq(PendingRows) /\ DOMAIN t = DOMAIN q
  <2>1. DOMAIN q = 1..Len(q) /\ Len(q) \in Nat /\ \A i \in DOMAIN q : q[f[i]] \in PendingRows
    BY <1>1, <1>2
  <2> QED
    BY <2>1
<1>4. \A i \in DOMAIN t : t[i] = q[f[i]] /\ f[i] \in DOMAIN q
  BY <1>1
<1>5. Typed(o, t, R, b)
  BY <1>3, <1>4 DEF RowsOK, Typed
<1>6. Apart(t, R, b)
  <2>1. ASSUME NEW i \in DOMAIN t, NEW k \in DOMAIN t, t[i].uid = t[k].uid PROVE i = k
    <3>1. f[i] = f[k]
      BY <1>4, <2>1 DEF RowsOK, Apart
    <3> QED
      BY <1>1, <1>3, <3>1
  <2>2. \A i \in DOMAIN t, x \in R \cup b : t[i].uid # x.uid
    BY <1>4 DEF RowsOK, Apart
  <2> QED
    BY <2>1, <2>2 DEF RowsOK, Apart
<1>7. Priced(o, t, R, b, l)
  BY <1>4 DEF RowsOK, Priced
<1>8. SameUids(t, q)
  <2>1. ASSUME NEW k \in DOMAIN q PROVE \E i \in DOMAIN t : t[i].uid = q[k].uid
    BY <1>1, <1>3, <1>4
  <2>2. ASSUME NEW i \in DOMAIN t PROVE \E k \in DOMAIN q : q[k].uid = t[i].uid
    BY <1>4
  <2>3. ASSUME NEW u, NEW i \in DOMAIN t, t[i].uid = u PROVE \E k \in DOMAIN q : q[k].uid = u
    BY <2>2, <2>3
  <2>4. ASSUME NEW u, NEW k \in DOMAIN q, q[k].uid = u PROVE \E i \in DOMAIN t : t[i].uid = u
    BY <2>1, <2>4
  <2> QED
    BY <2>3, <2>4 DEF SameUids
<1> QED
  BY <1>5, <1>6, <1>7, <1>8 DEF RowsOK

\* The rows of new requests, numbered after the others.
NewRows(o, g) ==
  [i \in 1..Len(g) |-> [uid |-> Len(o) + i, len |-> Prompt[g[i]], left |-> Budget[g[i]]]]

\* The queue t is q and new rows.
Follows(t, q, o, g) ==
  /\ \A i \in DOMAIN t :
       \/ i \in DOMAIN q /\ t[i] = q[i]
       \/ \E k \in 1..Len(g) : t[i] = [uid |-> Len(o) + k, len |-> Prompt[g[k]],
                                       left |-> Budget[g[k]]]
  /\ \A i \in DOMAIN q : \E k \in DOMAIN t : t[k].uid = q[i].uid
  /\ \A k \in 1..Len(g) : \E i \in DOMAIN t : t[i].uid = Len(o) + k

\* They keep the rows typed and apart.
LEMMA AddedRows ==
  ASSUME NEW o, NEW g \in Seq(Requests), NEW q, NEW R, NEW b, NEW l, RowsOK(o, q, R, b, l),
         NEW t, t = q \o NewRows(o, g)
  PROVE  /\ Typed(o \o g, t, R, b) /\ Apart(t, R, b)
         /\ Follows(t, q, o, g)
<1> DEFINE w == NewRows(o, g)
<1>0. t = q \o w
  OBVIOUS
<1>1. /\ o \in Seq(Requests) /\ q \in Seq(PendingRows) /\ R \subseteq PromptRows
      /\ b \subseteq BatchRows /\ \A i \in DOMAIN q : q[i].uid \in DOMAIN o
      /\ \A x \in R \cup b : x.uid \in DOMAIN o
  BY DEF RowsOK, Typed
<1>2. /\ Len(o) \in Nat /\ DOMAIN o = 1..Len(o) /\ Len(g) \in Nat /\ DOMAIN g = 1..Len(g)
      /\ Len(q) \in Nat /\ DOMAIN q = 1..Len(q)
  BY <1>1
<1>3. w \in Seq(PendingRows) /\ Len(w) = Len(g) /\ DOMAIN w = 1..Len(g)
      /\ \A k \in 1..Len(g) : w[k] = [uid |-> Len(o) + k, len |-> Prompt[g[k]],
                                      left |-> Budget[g[k]]]
  <2>1. \A k \in 1..Len(g) : g[k] \in Requests
    BY <1>2
  <2>2. \A k \in 1..Len(g) : Prompt[g[k]] \in Nat /\ Budget[g[k]] \in Nat /\ Len(o) + k \in Nat
    BY <1>2, <2>1, EngineAssumption
  <2>3. \A k \in 1..Len(g) :
          [uid |-> Len(o) + k, len |-> Prompt[g[k]], left |-> Budget[g[k]]] \in PendingRows
    BY <2>2 DEF PendingRows
  <2> QED
    BY <1>2, <2>3 DEF NewRows
<1>4. /\ o \o g \in Seq(Requests) /\ DOMAIN (o \o g) = 1..(Len(o) + Len(g))
  BY <1>1, <1>2
<1> HIDE DEF w
<1>5. /\ t \in Seq(PendingRows) /\ DOMAIN t = 1..(Len(q) + Len(g))
      /\ \A i \in 1..Len(q) : t[i] = q[i]
      /\ \A k \in 1..Len(g) : t[Len(q) + k] = w[k]
  <2>1. t \in Seq(PendingRows)
    BY <1>0, <1>1, <1>3
  <2>2. Len(t) = Len(q) + Len(w) /\ DOMAIN t = 1..(Len(q) + Len(w))
    <3>1. Len(t) = Len(q) + Len(w)
      <4>1. \A a, c \in Seq(PendingRows) : Len(a \o c) = Len(a) + Len(c)
        OBVIOUS
      <4>2. q \in Seq(PendingRows) /\ w \in Seq(PendingRows)
        BY <1>1, <1>3
      <4> QED
        BY <1>0, <4>1, <4>2
    <3>2. DOMAIN t = 1..Len(t)
      BY <2>1
    <3> QED
      BY <3>1, <3>2
  <2>3. \A i \in 1..Len(q) : t[i] = q[i]
    BY <1>0, <1>1, <1>2, <1>3
  <2>4. \A k \in 1..Len(w) : t[Len(q) + k] = w[k]
    BY <1>0, <1>1, <1>2, <1>3
  <2> QED
    BY <1>3, <2>1, <2>2, <2>3, <2>4
<1>6. ASSUME NEW i \in DOMAIN t
      PROVE  \/ i \in DOMAIN q /\ t[i] = q[i]
             \/ i - Len(q) \in 1..Len(g) /\ t[i] = w[i - Len(q)]
  <2>1. CASE i <= Len(q)
    BY <1>2, <1>5, <2>1
  <2>2. CASE i > Len(q)
    <3>1. i - Len(q) \in 1..Len(g) /\ Len(q) + (i - Len(q)) = i
      BY <1>2, <1>5, <2>2
    <3> QED
      BY <1>5, <3>1
  <2> QED
    BY <1>2, <1>5, <2>1, <2>2
<1>7. \A k \in 1..Len(g) : w[k].uid = Len(o) + k
  BY <1>3
<1>8. \A i \in DOMAIN q, k \in 1..Len(g) : q[i].uid # w[k].uid
  <2> SUFFICES ASSUME NEW i \in DOMAIN q, NEW k \in 1..Len(g) PROVE q[i].uid # Len(o) + k
    BY <1>7
  <2>1. q[i].uid \in 1..Len(o)
    BY <1>1, <1>2
  <2> QED
    BY <1>2, <2>1
<1>9. \A x \in R \cup b, k \in 1..Len(g) : x.uid # w[k].uid
  <2> SUFFICES ASSUME NEW x \in R \cup b, NEW k \in 1..Len(g) PROVE x.uid # Len(o) + k
    BY <1>7
  <2>1. x.uid \in 1..Len(o)
    BY <1>1, <1>2
  <2> QED
    BY <1>2, <2>1
<1>10. Typed(o \o g, t, R, b)
  <2>1. \A u \in DOMAIN o : u \in DOMAIN (o \o g)
    BY <1>2, <1>4
  <2>2. \A k \in 1..Len(g) : w[k].uid \in DOMAIN (o \o g)
    BY <1>2, <1>4, <1>7
  <2>3. \A i \in DOMAIN t : t[i].uid \in DOMAIN (o \o g)
    BY <1>1, <1>6, <2>1, <2>2
  <2> QED
    BY <1>1, <1>4, <1>5, <2>1, <2>3 DEF Typed
<1>11. Apart(t, R, b)
  <2>1. ASSUME NEW i \in DOMAIN t, NEW k \in DOMAIN t, t[i].uid = t[k].uid PROVE i = k
    <3>1. CASE i \in DOMAIN q /\ k \in DOMAIN q
      BY <1>2, <1>5, <2>1, <3>1 DEF RowsOK, Apart
    <3>2. CASE i \notin DOMAIN q /\ k \notin DOMAIN q
      <4>1. /\ i - Len(q) \in 1..Len(g) /\ t[i].uid = Len(o) + (i - Len(q))
            /\ k - Len(q) \in 1..Len(g) /\ t[k].uid = Len(o) + (k - Len(q))
        BY <1>6, <1>7, <3>2
      <4>2. Len(o) + (i - Len(q)) = Len(o) + (k - Len(q))
        BY <2>1, <4>1
      <4>3. i \in Int /\ k \in Int
        BY <1>2, <1>5
      <4> QED
        BY <1>2, <4>2, <4>3
    <3>3. CASE i \in DOMAIN q /\ k \notin DOMAIN q
      BY <1>2, <1>5, <1>6, <1>8, <2>1, <3>3
    <3>4. CASE i \notin DOMAIN q /\ k \in DOMAIN q
      BY <1>2, <1>5, <1>6, <1>8, <2>1, <3>4
    <3> QED
      BY <3>1, <3>2, <3>3, <3>4
  <2>2. \A i \in DOMAIN t, x \in R \cup b : t[i].uid # x.uid
    BY <1>6, <1>9 DEF RowsOK, Apart
  <2> QED
    BY <2>1, <2>2 DEF RowsOK, Apart
<1>12. \A i \in DOMAIN q : \E k \in DOMAIN t : t[k].uid = q[i].uid
  <2> SUFFICES ASSUME NEW i \in DOMAIN q PROVE i \in DOMAIN t /\ t[i] = q[i]
    OBVIOUS
  <2> QED
    BY <1>2, <1>5
<1>13. ASSUME NEW k \in 1..Len(g) PROVE \E i \in DOMAIN t : t[i].uid = Len(o) + k
  <2>1. Len(q) + k \in DOMAIN t /\ t[Len(q) + k] = w[k]
    BY <1>2, <1>5
  <2> QED
    BY <1>7, <2>1
<1> QED
  <2>1. \A i \in DOMAIN t :
          \/ i \in DOMAIN q /\ t[i] = q[i]
          \/ \E k \in 1..Len(g) : t[i] = [uid |-> Len(o) + k, len |-> Prompt[g[k]],
                                          left |-> Budget[g[k]]]
    BY <1>3, <1>6
  <2>2. Follows(t, q, o, g)
    BY <1>12, <1>13, <2>1 DEF Follows
  <2> QED
    BY <1>10, <1>11, <2>2

\* The uids of the queue s are those of q and the new ones.
Grown(s, q, o, g) ==
  \A u : (\E i \in DOMAIN s : s[i].uid = u) <=>
            \/ \E i \in DOMAIN q : q[i].uid = u
            \/ \E k \in 1..Len(g) : u = Len(o) + k

\* Sorted or left alone, they are the rows of an insert, the new ones at no token.
LEMMA InsertedRows ==
  ASSUME NEW o, NEW g \in Seq(Requests), NEW q, NEW R, NEW b, NEW l, RowsOK(o, q, R, b, l),
         DOMAIN l \subseteq DOMAIN o, NEW s,
         g = <<>> => s = q,
         g # <<>> => \E f \in SortingOrders(q \o NewRows(o, g)) :
                       s = [i \in DOMAIN (q \o NewRows(o, g)) |-> (q \o NewRows(o, g))[f[i]]]
  PROVE  RowsOK(o \o g, s, R, b, Harvest(l, s)) /\ Grown(s, q, o, g)
<1> DEFINE t == q \o NewRows(o, g)
           m == Harvest(l, t)
<1>1. Typed(o \o g, t, R, b) /\ Apart(t, R, b) /\ Follows(t, q, o, g)
  BY AddedRows
<1>2. /\ o \in Seq(Requests) /\ Len(o) \in Nat /\ DOMAIN o = 1..Len(o)
      /\ Len(g) \in Nat /\ DOMAIN g = 1..Len(g) /\ q \in Seq(PendingRows)
  BY DEF RowsOK, Typed
<1>3. g = <<>> => t = q
  <2>1. SUFFICES ASSUME g = <<>> PROVE q \o NewRows(o, g) = q
    OBVIOUS
  <2>2. NewRows(o, g) = <<>>
    BY <2>1 DEF NewRows
  <2> QED
    BY <1>2, <2>2
<1> HIDE DEF t
<1>4. /\ DOMAIN m = DOMAIN l \cup Uids(Elems(t))
      /\ \A u \in DOMAIN m : m[u] = IF u \in DOMAIN l THEN l[u] ELSE 0
      /\ m = [u \in DOMAIN m |-> IF u \in DOMAIN l THEN l[u] ELSE 0]
  BY DEF Harvest
<1>5. \A i \in DOMAIN t : t[i].uid \in Uids(Elems(t))
  BY DEF Uids, Elems
<1> HIDE DEF m
<1>6. /\ \A u \in DOMAIN o : (o \o g)[u] = o[u]
      /\ \A k \in 1..Len(g) : (o \o g)[Len(o) + k] = g[k] /\ Len(o) + k \notin DOMAIN o
  BY <1>2
<1>7. Priced(o \o g, t, R, b, m)
  <2>1. l \in [DOMAIN l -> Nat]
    BY DEF RowsOK, Priced
  <2>2. m \in [DOMAIN m -> Nat]
    BY <1>4, <2>1
  <2>3. ASSUME NEW i \in DOMAIN t
        PROVE  /\ t[i].uid \in DOMAIN m /\ t[i].left > 0
               /\ m[t[i].uid] + t[i].left <= Budget[(o \o g)[t[i].uid]]
    <3>1. t[i].uid \in DOMAIN m
      BY <1>4, <1>5
    <3>2. CASE i \in DOMAIN q /\ t[i] = q[i]
      <4>1. q[i].uid \in DOMAIN o /\ q[i].uid \in DOMAIN l
        BY <3>2 DEF RowsOK, Typed, Priced
      <4> QED
        BY <1>4, <1>6, <3>1, <3>2, <4>1 DEF RowsOK, Priced
    <3>3. ASSUME NEW k \in 1..Len(g),
                 t[i] = [uid |-> Len(o) + k, len |-> Prompt[g[k]], left |-> Budget[g[k]]]
          PROVE  t[i].left > 0 /\ m[t[i].uid] + t[i].left <= Budget[(o \o g)[t[i].uid]]
      <4>1. Len(o) + k \notin DOMAIN l /\ (o \o g)[Len(o) + k] = g[k]
        BY <1>6
      <4>2. m[t[i].uid] = 0
        BY <1>4, <3>1, <3>3, <4>1
      <4>3. g[k] \in Requests
        BY <1>2
      <4>4. Budget[g[k]] \in Nat \ {0}
        BY <4>3, EngineAssumption
      <4> QED
        BY <3>3, <4>1, <4>2, <4>4
    <3> QED
      BY <1>1, <3>1, <3>2, <3>3 DEF Follows
  <2>4. ASSUME NEW x \in R \cup b
        PROVE  x.uid \in DOMAIN m /\ m[x.uid] = l[x.uid] /\ (o \o g)[x.uid] = o[x.uid]
    <3>1. x.uid \in DOMAIN o /\ x.uid \in DOMAIN l
      BY DEF RowsOK, Typed, Priced
    <3> QED
      BY <1>4, <1>6, <3>1
  <2>5. \A x \in R : /\ x.uid \in DOMAIN m /\ x.max > 0
                     /\ m[x.uid] + x.max <= Budget[(o \o g)[x.uid]]
    BY <2>4 DEF RowsOK, Priced
  <2>6. \A x \in b : /\ x.uid \in DOMAIN m /\ x.num < x.max
                     /\ m[x.uid] + (x.max - x.num) <= Budget[(o \o g)[x.uid]]
    BY <2>4 DEF RowsOK, Priced
  <2> QED
    BY <2>2, <2>3, <2>5, <2>6 DEF Priced
<1>8. RowsOK(o \o g, t, R, b, m)
  BY <1>1, <1>7 DEF RowsOK
<1>9. \A u : (\E i \in DOMAIN t : t[i].uid = u) <=>
                \/ \E i \in DOMAIN q : q[i].uid = u
                \/ \E k \in 1..Len(g) : u = Len(o) + k
  <2>1. ASSUME NEW i \in DOMAIN t
        PROVE  (\E j \in DOMAIN q : q[j].uid = t[i].uid) \/ \E k \in 1..Len(g) : t[i].uid = Len(o) + k
    BY <1>1 DEF Follows
  <2> QED
    BY <1>1, <2>1 DEF Follows
<1>10. RowsOK(o \o g, s, R, b, m) /\ SameUids(s, t)
  <2>1. CASE g = <<>>
    BY <1>3, <1>8, <2>1 DEF SameUids
  <2>2. CASE g # <<>>
    <3>1. PICK f \in SortingOrders(t) : s = [i \in DOMAIN t |-> t[f[i]]]
      BY <2>2 DEF t
    <3> QED
      BY <1>8, <3>1, SortedRows
  <2> QED
    BY <2>1, <2>2
<1>11. Harvest(l, s) = m
  <2>1. /\ \A u : u \in Uids(Elems(s)) <=> \E i \in DOMAIN s : s[i].uid = u
        /\ \A u : u \in Uids(Elems(t)) <=> \E i \in DOMAIN t : t[i].uid = u
    BY DEF Uids, Elems
  <2>2. Uids(Elems(s)) = Uids(Elems(t))
    BY <1>10, <2>1 DEF SameUids
  <2> QED
    BY <2>2 DEF Harvest, m
<1> QED
  BY <1>9, <1>10, <1>11 DEF SameUids, Grown

\* The number a new request gets.
LEMMA NumberedIs ==
  ASSUME NEW o \in Seq(Requests), NEW g \in Seq(Requests), NEW k \in 1..Len(g),
         \A i, j \in 1..Len(g) : g[i] = g[j] => i = j
  PROVE  Numbered(o, g, g[k]) = Len(o) + k
<1> DEFINE P(u) == u \in 1..(Len(o) + Len(g)) /\ u > Len(o) /\ g[u - Len(o)] = g[k]
<1>1. Len(o) \in Nat /\ Len(g) \in Nat
  OBVIOUS
<1>2. P(Len(o) + k)
  BY <1>1
<1>3. ASSUME NEW u, P(u) PROVE u = Len(o) + k
  <2>1. u - Len(o) \in 1..Len(g)
    BY <1>1, <1>3
  <2>2. u - Len(o) = k
    BY <1>3, <2>1
  <2> QED
    BY <1>1, <1>3, <2>2
<1>4. (CHOOSE u : P(u)) = Len(o) + k
  BY <1>2, <1>3
<1>5. Numbered(o, g, g[k]) = CHOOSE u : P(u)
  BY DEF Numbered
<1> QED
  BY <1>4, <1>5

\* What a generator counts from: nothing, when it is made anew.
LEMMA BaseIs ==
  ASSUME Inv, pc = "insert", NEW turn,
         turn => active = {} /\ ~HasWork
  PROVE  \E base, lb :
           /\ base = IF turn THEN <<>> ELSE owner
           /\ lb = IF turn THEN Empty ELSE ledger
           /\ RowsOK(base, pending, prompt.rows, batch, lb)
           /\ DOMAIN lb \subseteq DOMAIN base
           /\ base \in Seq(Requests) /\ active \subseteq DOMAIN base
           /\ \A u \in DOMAIN base : u \in DOMAIN owner /\ base[u] = owner[u]
           /\ \A u \in DOMAIN lb : u \in DOMAIN ledger /\ lb[u] = ledger[u]
<1>1. /\ owner \in Seq(Requests) /\ active \subseteq DOMAIN owner
      /\ RowsOK(owner, pending, prompt.rows, batch, ledger) /\ DOMAIN ledger \subseteq DOMAIN owner
  BY DEF Inv, Types, Ledgered
<1>2. CASE ~turn
  BY <1>1, <1>2
<1>3. CASE turn
  <2>1. active = {} /\ pending = <<>> /\ prompt.rows = {} /\ batch = {}
    BY <1>3 DEF HasWork
  <2>2. <<>> \in Seq(Requests) /\ <<>> \in Seq(PendingRows) /\ DOMAIN <<>> = {}
    OBVIOUS
  <2>3. Empty \in [DOMAIN Empty -> Nat] /\ DOMAIN Empty = {}
    BY DEF Empty
  <2>4. RowsOK(<<>>, <<>>, {}, {}, Empty)
    BY <2>2, <2>3 DEF RowsOK, Typed, Apart, Priced
  <2>5. RowsOK(<<>>, pending, prompt.rows, batch, Empty)
    BY <2>1, <2>4
  <2> QED
    BY <1>3, <2>1, <2>2, <2>3, <2>5
<1> QED
  BY <1>2, <1>3

\* What an insert of good does to the requests and their rows, from base and lb.
Inserts(base, lb, good, bad) ==
  /\ owner' = base \o good
  /\ IF good = <<>> THEN pending' = pending
     ELSE \E f \in SortingOrders(pending \o NewRows(base, good)) :
            pending' = [i \in DOMAIN (pending \o NewRows(base, good)) |->
                          (pending \o NewRows(base, good))[f[i]]]
  /\ active' = active \cup ((Len(base) + 1)..(Len(base) + Len(good)))
  /\ ledger' = Harvest(lb, pending')
  /\ uidOf' = [r \in Requests |-> IF r \in Elems(good) THEN Numbered(base, good, r)
                                  ELSE uidOf[r]]
  /\ client' = [r \in Requests |-> IF r \in Elems(good) THEN "streaming" ELSE client[r]]
  /\ end' = [r \in Requests |-> IF r \in bad THEN "error" ELSE end[r]]

\* Inserting the new requests keeps the invariant.
LEMMA InsertKeeps == ASSUME Inv, NEW bad, Insert(bad) PROVE Inv'
<1> DEFINE turn == taken # <<>> /\ active = {} /\ ~HasWork
<1>1. pc = "insert" /\ bad \subseteq Elems(taken) /\ pc' \in {"collect", "govern"}
      /\ (taken' = <<>> \/ taken' = taken)
      /\ UNCHANGED <<got, waiting, cancelled, prompt, batch, out, mailbox, dropped, failed>>
  BY DEF Insert
<1>2. /\ Types /\ RowsOK(owner, pending, prompt.rows, batch, ledger)
      /\ Numbering /\ Spoken /\ Ledgered /\ NoOrphanRow /\ ActiveIsHeld
  BY DEF Inv
<1>3. PICK base, lb :
           /\ base = IF turn THEN <<>> ELSE owner
           /\ lb = IF turn THEN Empty ELSE ledger
           /\ RowsOK(base, pending, prompt.rows, batch, lb)
           /\ DOMAIN lb \subseteq DOMAIN base
           /\ base \in Seq(Requests) /\ active \subseteq DOMAIN base
           /\ \A u \in DOMAIN base : u \in DOMAIN owner /\ base[u] = owner[u]
           /\ \A u \in DOMAIN lb : u \in DOMAIN ledger /\ lb[u] = ledger[u]
  BY <1>1, BaseIs
<1> DEFINE K == {i \in DOMAIN taken : taken[i] \notin bad}
<1>4. PICK good \in Selections(taken, K) : Inserts(base, lb, good, bad)
  <2>1. \E good \in Selections(taken, K) :
          Inserts(IF turn THEN <<>> ELSE owner, IF turn THEN Empty ELSE ledger, good, bad)
    BY DEF Insert, Inserts, NewRows
  <2> QED
    BY <1>3, <2>1
<1>5. taken \in Seq(Requests)
  BY <1>2 DEF Types
<1>6. PICK n, sel : n \in Nat /\ good \in Seq(Requests) /\ ReadsAt(good, taken, K, n, sel)
  BY <1>5, PickSeq
<1>7. /\ good \in Seq(Requests) /\ Len(good) \in Nat /\ DOMAIN good = 1..Len(good)
      /\ \A k \in 1..Len(good) : good[k] \in Requests
  BY <1>6
<1>8. \A k \in 1..Len(good) : good[k] \in Elems(taken) /\ good[k] \notin bad
  BY <1>6, <1>7 DEF ReadsAt, Elems
<1>9. \A i, j \in 1..Len(good) : good[i] = good[j] => i = j
  <2>1. \A i, j \in DOMAIN taken : taken[i] = taken[j] => i = j
    BY <1>1, <1>2 DEF Numbering, IsInjective
  <2> QED
    BY <1>6, <1>7, <2>1 DEF ReadsAt
<1> HIDE DEF turn, K
<1>10. \A r : r \in Elems(good) <=> \E k \in 1..Len(good) : good[k] = r
  BY <1>7 DEF Elems
<1>11. \A r \in Elems(good) : r \in Elems(taken) /\ r \notin bad /\ r \in Requests
  BY <1>7, <1>8, <1>10
<1>12. \A r \in Elems(taken) : /\ r \in Requests /\ client[r] = "queued" /\ end[r] = "open"
                               /\ r \notin Elems(waiting) /\ got[r] = 0
  <2>1. \A r \in Elems(taken) : r \in Requests
    BY <1>5 DEF Elems
  <2> QED
    BY <1>1, <1>2, <2>1 DEF Numbering
<1>13. /\ Len(base) \in Nat /\ DOMAIN base = 1..Len(base)
       /\ owner' \in Seq(Requests) /\ DOMAIN owner' = 1..(Len(base) + Len(good))
       /\ \A u \in DOMAIN base : owner'[u] = base[u] /\ u \in DOMAIN owner'
       /\ \A k \in 1..Len(good) : owner'[Len(base) + k] = good[k]
  BY <1>3, <1>4, <1>7 DEF Inserts
<1>14. \A u \in DOMAIN owner' : u \in DOMAIN base \/ \E k \in 1..Len(good) : u = Len(base) + k
  <2>1. ASSUME NEW u \in DOMAIN owner', u \notin DOMAIN base
        PROVE  u - Len(base) \in 1..Len(good) /\ u = Len(base) + (u - Len(base))
    BY <1>7, <1>13, <2>1
  <2> QED
    BY <2>1
<1>15. \A k \in 1..Len(good) : /\ Len(base) + k \in active' /\ Len(base) + k \notin DOMAIN base
                               /\ Len(base) + k \in DOMAIN owner' /\ Len(base) + k \in Nat
  BY <1>4, <1>7, <1>13 DEF Inserts
<1>16. /\ \A u \in DOMAIN base : u \in active' <=> u \in active
       /\ \A u \in active' : u \in DOMAIN owner'
  BY <1>3, <1>4, <1>7, <1>13 DEF Inserts
<1>17. /\ RowsOK(owner', pending', prompt.rows, batch, ledger')
       /\ Grown(pending', pending, base, good)
  <2>1. good = <<>> => pending' = pending
    BY <1>4 DEF Inserts
  <2>2. good # <<>> =>
          \E f \in SortingOrders(pending \o NewRows(base, good)) :
            pending' = [i \in DOMAIN (pending \o NewRows(base, good)) |->
                          (pending \o NewRows(base, good))[f[i]]]
    BY <1>4 DEF Inserts
  <2>3. owner' = base \o good /\ ledger' = Harvest(lb, pending')
    BY <1>4 DEF Inserts
  <2>4. RowsOK(base, pending, prompt.rows, batch, lb) /\ DOMAIN lb \subseteq DOMAIN base
    BY <1>3
  <2>5. RowsOK(base \o good, pending', prompt.rows, batch, Harvest(lb, pending'))
        /\ Grown(pending', pending, base, good)
    BY <1>7, <2>1, <2>2, <2>4, InsertedRows
  <2> QED
    BY <2>3, <2>5
<1>18. \A u : u \in Held' <=> u \in Held \/ \E k \in 1..Len(good) : u = Len(base) + k
  <2>1. /\ Held = HeldOf(pending, prompt.rows, batch)
        /\ Held' = HeldOf(pending', prompt.rows, batch)
    BY <1>1 DEF Held, HeldOf
  <2>2. \A u : u \in Held <=> \/ \E i \in DOMAIN pending : pending[i].uid = u
                              \/ \E x \in prompt.rows : x.uid = u
                              \/ \E x \in batch : x.uid = u
    BY <2>1, HeldIs
  <2>3. \A u : u \in Held' <=> \/ \E i \in DOMAIN pending' : pending'[i].uid = u
                               \/ \E x \in prompt.rows : x.uid = u
                               \/ \E x \in batch : x.uid = u
    BY <2>1, HeldIs
  <2> QED
    BY <1>17, <2>2, <2>3 DEF Grown
<1>19. \A u \in Held : u \in DOMAIN base /\ u \in DOMAIN owner
  <2>1. \A u \in Held : u \in DOMAIN base
    BY <1>3, HeldRows, HeldIs DEF RowsOK, Typed
  <2> QED
    BY <1>3, <2>1
<1>20. \A k \in 1..Len(good) : uidOf'[good[k]] = Len(base) + k
  <2> SUFFICES ASSUME NEW k \in 1..Len(good) PROVE uidOf'[good[k]] = Len(base) + k
    OBVIOUS
  <2>1. Numbered(base, good, good[k]) = Len(base) + k
    BY <1>3, <1>7, <1>9, NumberedIs
  <2>2. good[k] \in Elems(good) /\ good[k] \in Requests
    BY <1>7, <1>10
  <2> QED
    BY <1>4, <2>1, <2>2 DEF Inserts
<1>21. \A r \in Requests : /\ r \notin Elems(good) => uidOf'[r] = uidOf[r] /\ client'[r] = client[r]
                           /\ r \in Elems(good) => client'[r] = "streaming"
                           /\ r \notin bad => end'[r] = end[r]
                           /\ r \in bad => end'[r] = "error"
  BY <1>4 DEF Inserts
<1>22. Types'
  <2>1. uidOf' \in [Requests -> Nat]
    <3>1. \A r \in Requests : r \in Elems(good) => uidOf'[r] \in Nat
      BY <1>10, <1>15, <1>20
    <3>2. \A r \in Requests : r \notin Elems(good) => uidOf'[r] \in Nat
      BY <1>2, <1>21 DEF Types
    <3> QED
      BY <1>4, <3>1, <3>2 DEF Inserts
  <2>2. client' \in [Requests -> {"new", "queued", "streaming", "closed"}]
    BY <1>2, <1>4 DEF Types, Inserts
  <2>3. end' \in [Requests -> Ends]
    BY <1>2, <1>4 DEF Types, Ends, Inserts
  <2>4. taken' \in Seq(Requests)
    <3>1. <<>> \in Seq(Requests)
      OBVIOUS
    <3>2. taken' = <<>> \/ taken' = taken
      BY <1>1
    <3> QED
      BY <1>5, <3>1, <3>2
  <2>5. active' \subseteq DOMAIN owner'
    BY <1>16
  <2> QED
    BY <1>1, <1>2, <1>13, <2>1, <2>2, <2>3, <2>4, <2>5 DEF Types
<1>23. Numbering'
  <2>1. ASSUME NEW r \in Elems(waiting)
        PROVE  r \in Requests /\ client'[r] = "queued" /\ end'[r] = "open"
    <3>1. r \in Requests
      BY <1>2 DEF Types, Elems
    <3>2. r \notin Elems(taken) /\ r \notin Elems(good) /\ r \notin bad
      BY <1>1, <1>11, <1>12
    <3> QED
      BY <1>2, <1>21, <3>1, <3>2 DEF Numbering
  <2>2. \A r \in Elems(taken') : client'[r] # "new" /\ r \notin Elems(waiting)
    <3>1. \A r \in Elems(taken') : r \in Elems(taken)
      BY <1>1 DEF Elems
    <3> QED
      BY <1>12, <1>21, <3>1
  <2>3. ASSUME NEW u \in DOMAIN base
        PROVE  /\ client'[owner'[u]] \in {"streaming", "closed"} /\ uidOf'[owner'[u]] = u
               /\ end'[owner'[u]] = "open" <=> u \in active'
    <3>1. owner'[u] = owner[u] /\ u \in DOMAIN owner /\ owner[u] \in Requests
      BY <1>2, <1>3, <1>13 DEF Types
    <3>2. client[owner[u]] \in {"streaming", "closed"}
      BY <1>2, <3>1 DEF Numbering
    <3>3. owner[u] \notin Elems(taken)
      BY <1>12, <3>2
    <3>4. owner[u] \notin Elems(good) /\ owner[u] \notin bad
      BY <1>1, <1>11, <3>3
    <3>5. uidOf[owner[u]] = u /\ (end[owner[u]] = "open" <=> u \in active)
      BY <1>2, <3>1 DEF Numbering
    <3> QED
      BY <1>16, <1>21, <3>1, <3>2, <3>4, <3>5
  <2>4. ASSUME NEW k \in 1..Len(good)
        PROVE  /\ owner'[Len(base) + k] = good[k] /\ client'[good[k]] = "streaming"
               /\ end'[good[k]] = "open"
    BY <1>7, <1>8, <1>10, <1>12, <1>13, <1>21
  <2>5. ASSUME NEW u \in DOMAIN owner'
        PROVE  /\ client'[owner'[u]] \in {"streaming", "closed"} /\ uidOf'[owner'[u]] = u
               /\ end'[owner'[u]] = "open" <=> u \in active'
    <3>1. CASE u \in DOMAIN base
      BY <2>3, <3>1
    <3>2. ASSUME NEW k \in 1..Len(good), u = Len(base) + k
          PROVE  /\ client'[owner'[u]] \in {"streaming", "closed"} /\ uidOf'[owner'[u]] = u
                 /\ end'[owner'[u]] = "open" <=> u \in active'
      BY <1>15, <1>20, <2>4, <3>2
    <3> QED
      BY <1>14, <3>1, <3>2
  <2>6. ASSUME NEW r \in Requests, client'[r] \in {"new", "queued"}
        PROVE  client[r] \in {"new", "queued"} /\ (client'[r] = "new" => end'[r] = "open")
    <3>1. client'[r] = client[r]
      BY <1>21, <2>6
    <3>2. client[r] = "new" => r \notin bad
      BY <1>1, <1>12
    <3> QED
      BY <1>2, <1>21, <2>6, <3>1, <3>2 DEF Numbering
  <2>7. pc' # "insert" /\ waiting' = waiting /\ got' = got
    BY <1>1
  <2> QED
    BY <1>2, <2>1, <2>2, <2>5, <2>6, <2>7 DEF Numbering
<1>24. out = {} /\ mailbox = {}
  BY <1>1, <1>2 DEF Spoken
<1>25. Spoken'
  <2>1. ASSUME NEW r \in failed, end'[r] = "open" PROVE FALSE
    <3>1. r \in Requests
      BY <1>2 DEF Types
    <3>2. end[r] = "open"
      BY <1>21, <2>1, <3>1
    <3> QED
      BY <1>2, <1>24, <3>2 DEF Spoken
  <2> QED
    BY <1>1, <1>24, <2>1 DEF Spoken
<1>26. /\ DOMAIN ledger' = DOMAIN lb \cup Uids(Elems(pending'))
       /\ \A u \in DOMAIN ledger' : ledger'[u] = IF u \in DOMAIN lb THEN lb[u] ELSE 0
  BY <1>4 DEF Harvest, Inserts
<1>27. \A u : u \in Uids(Elems(pending')) <=> \E i \in DOMAIN pending' : pending'[i].uid = u
  BY DEF Uids, Elems
<1>28. Ledgered'
  <2>1. ASSUME NEW u \in DOMAIN ledger' PROVE u \in DOMAIN owner'
    <3>1. CASE u \in DOMAIN lb
      BY <1>3, <1>13, <3>1
    <3>2. CASE u \notin DOMAIN lb
      BY <1>17, <1>26, <1>27, <3>2 DEF RowsOK, Typed
    <3> QED
      BY <3>1, <3>2
  <2>2. ASSUME NEW u \in active', u \in DOMAIN ledger'
        PROVE  ledger'[u] = got[owner'[u]] + 0
    <3>1. CASE u \in DOMAIN base
      <4>1. u \in active /\ u \in DOMAIN owner /\ owner'[u] = owner[u]
        BY <1>3, <1>13, <1>16, <2>2, <3>1
      <4>2. u \in DOMAIN lb
        <5>1. SUFFICES ASSUME u \notin DOMAIN lb PROVE FALSE
          OBVIOUS
        <5>2. \E i \in DOMAIN pending' : pending'[i].uid = u
          BY <1>26, <1>27, <2>2, <5>1
        <5>3. \E i \in DOMAIN pending : pending[i].uid = u
          BY <1>15, <1>17, <3>1, <5>2 DEF Grown
        <5> QED
          BY <1>3, <5>1, <5>3 DEF RowsOK, Priced
      <4>3. u \in DOMAIN ledger /\ ledger'[u] = ledger[u]
        BY <1>3, <1>26, <2>2, <4>2
      <4>4. ledger[u] = got[owner[u]] + 0
        BY <1>2, <1>24, <4>1, <4>3 DEF Ledgered, LedgerIsDelivered
      <4> QED
        BY <4>1, <4>3, <4>4
    <3>2. ASSUME NEW k \in 1..Len(good), u = Len(base) + k PROVE ledger'[u] = got[owner'[u]] + 0
      <4>1. u \notin DOMAIN lb /\ owner'[u] = good[k]
        BY <1>3, <1>13, <1>15, <3>2
      <4>2. got[good[k]] = 0
        BY <1>8, <1>12
      <4> QED
        BY <1>26, <2>2, <4>1, <4>2
    <3> QED
      BY <1>14, <1>16, <2>2, <3>1, <3>2
  <2>3. \A u \in active' \cap DOMAIN ledger' :
          ledger'[u] = got'[owner'[u]] + IF \E o \in out' : o.uid = u THEN 1 ELSE 0
    BY <1>1, <1>24, <2>2
  <2> QED
    BY <2>1, <2>3 DEF Ledgered, LedgerIsDelivered
<1>29. NoOrphanRow'
  <2>1. ASSUME NEW u \in Held PROVE u \in active' \/ end'[owner'[u]] = "cancel"
    <3>1. owner'[u] = owner[u] /\ u \in DOMAIN base /\ owner[u] \in Requests
      BY <1>2, <1>3, <1>13, <1>19 DEF Types
    <3>2. owner[u] \notin bad
      BY <1>1, <1>2, <1>12, <1>19 DEF Numbering
    <3> QED
      BY <1>2, <1>16, <1>21, <3>1, <3>2 DEF NoOrphanRow
  <2>2. \A u \in Held' : u \in active' \/ end'[owner'[u]] = "cancel"
    BY <1>15, <1>18, <2>1
  <2> QED
    BY <2>2 DEF NoOrphanRow
<1>30. ActiveIsHeld'
  <2>1. ASSUME NEW u \in active' PROVE u \in Held' \/ owner'[u] \in dropped'
    <3>1. CASE u \in DOMAIN base
      <4>1. u \in active /\ owner'[u] = owner[u]
        BY <1>3, <1>13, <1>16, <2>1, <3>1
      <4>2. u \in Held \/ owner[u] \in dropped
        BY <1>2, <1>24, <4>1 DEF ActiveIsHeld
      <4> QED
        BY <1>1, <1>18, <4>1, <4>2
    <3>2. CASE u \notin DOMAIN base
      BY <1>14, <1>16, <1>18, <2>1, <3>2
    <3> QED
      BY <3>1, <3>2
  <2> QED
    BY <2>1 DEF ActiveIsHeld
<1>31. RowsOK(owner, pending, prompt.rows, batch, ledger)'
  BY <1>1, <1>17
<1> QED
  BY <1>22, <1>23, <1>25, <1>28, <1>29, <1>30, <1>31 DEF Inv

-----------------------------------------------------------------------------
(* The clients.                                                            *)

\* A submitted request waits once.
LEMMA SubmitKeeps == ASSUME Inv, NEW r \in Requests, Submit(r) PROVE Inv'
<1>1. /\ pc = "collect" /\ client[r] = "new"
      /\ client' = [client EXCEPT ![r] = "queued"] /\ waiting' = Append(waiting, r)
      /\ UNCHANGED <<uidOf, got, end, cancelled, taken, owner, active, pending, prompt, batch,
                     ledger, out, mailbox, pc, dropped, failed>>
  BY DEF Submit
<1>2. /\ Types /\ RowsOK(owner, pending, prompt.rows, batch, ledger)
      /\ Numbering /\ Spoken /\ Ledgered /\ NoOrphanRow /\ ActiveIsHeld
  BY DEF Inv
<1>3. /\ waiting \in Seq(Requests) /\ waiting' \in Seq(Requests)
      /\ client' \in [Requests -> {"new", "queued", "streaming", "closed"}]
      /\ client'[r] = "queued" /\ \A q \in Requests \ {r} : client'[q] = client[q]
  BY <1>1, <1>2 DEF Types
<1>4. Types'
  BY <1>1, <1>2, <1>3 DEF Types
<1>5. /\ DOMAIN waiting' = 1..(Len(waiting) + 1) /\ DOMAIN waiting = 1..Len(waiting)
      /\ waiting'[Len(waiting) + 1] = r /\ Len(waiting) \in Nat
      /\ \A i \in 1..Len(waiting) : waiting'[i] = waiting[i]
  BY <1>1, <1>3
<1>6. \A q \in Elems(waiting) : q # r /\ q \in Requests
  BY <1>1, <1>2, <1>3 DEF Numbering, Elems
<1>7. \A q \in Elems(waiting') : q = r \/ q \in Elems(waiting)
  BY <1>5 DEF Elems
<1>8. \A i \in 1..Len(waiting) : waiting[i] \in Elems(waiting)
  BY <1>5 DEF Elems
<1>9. Numbering'
  <2>1. ASSUME NEW i \in DOMAIN waiting', NEW j \in DOMAIN waiting', waiting'[i] = waiting'[j]
        PROVE  i = j
    <3>1. \A k, l \in 1..Len(waiting) : waiting[k] = waiting[l] => k = l
      BY <1>2, <1>5 DEF Numbering, IsInjective
    <3>2. \A k \in 1..Len(waiting) : waiting'[k] # r
      BY <1>5, <1>6, <1>8
    <3> QED
      BY <1>5, <2>1, <3>1, <3>2
  <2>2. IsInjective(waiting')
    BY <2>1 DEF IsInjective
  <2>3. \A q \in Elems(waiting') : client'[q] = "queued" /\ end[q] = "open"
    BY <1>1, <1>2, <1>3, <1>6, <1>7 DEF Numbering
  <2>4. \A q \in Elems(taken) : q \in Requests /\ q # r
    BY <1>1, <1>2 DEF Numbering, Types, Elems
  <2>5. \A q \in Elems(taken) : client'[q] # "new" /\ q \notin Elems(waiting')
    BY <1>2, <1>3, <1>7, <2>4 DEF Numbering
  <2>6. \A u \in DOMAIN owner : owner[u] \in Requests /\ owner[u] # r
    <3>1. \A u \in DOMAIN owner : owner[u] \in Requests
      BY <1>2 DEF Types
    <3> QED
      BY <1>1, <1>2, <3>1 DEF Numbering
  <2>7. \A u \in DOMAIN owner : client'[owner[u]] = client[owner[u]]
    BY <1>3, <2>6
  <2>8. \A q \in Requests : client'[q] = "new" => end[q] = "open"
    BY <1>2, <1>3 DEF Numbering
  <2>9. \A q \in Requests : client'[q] \in {"new", "queued"} => got[q] = 0
    BY <1>1, <1>2, <1>3 DEF Numbering
  <2> QED
    BY <1>1, <1>2, <2>2, <2>3, <2>5, <2>7, <2>8, <2>9 DEF Numbering
<1>10. Held' = Held
  BY <1>1 DEF Held
<1>11. Spoken'
  BY <1>1, <1>2, <1>10 DEF Spoken
<1>12. Ledgered'
  BY <1>1, <1>2 DEF Ledgered, LedgerIsDelivered
<1>13. NoOrphanRow'
  BY <1>1, <1>2, <1>10 DEF NoOrphanRow
<1>14. ActiveIsHeld'
  BY <1>1, <1>2, <1>10 DEF ActiveIsHeld
<1>15. RowsOK(owner, pending, prompt.rows, batch, ledger)'
  BY <1>1, <1>2
<1> QED
  BY <1>4, <1>9, <1>11, <1>12, <1>13, <1>14, <1>15 DEF Inv

\* A client that leaves changes its own state alone.
LEMMA LeaveKeeps == ASSUME Inv, NEW r \in Requests, Leave(r) PROVE Inv'
<1>1. /\ client[r] = "streaming" /\ client' = [client EXCEPT ![r] = "closed"]
      /\ UNCHANGED <<uidOf, got, end, waiting, taken, owner, active, pending, prompt, batch,
                     ledger, out, mailbox, pc, dropped, failed>>
  BY DEF Leave
<1>2. /\ Types /\ RowsOK(owner, pending, prompt.rows, batch, ledger)
      /\ Numbering /\ Spoken /\ Ledgered /\ NoOrphanRow /\ ActiveIsHeld
  BY DEF Inv
<1>3. /\ client' \in [Requests -> {"new", "queued", "streaming", "closed"}]
      /\ client'[r] = "closed" /\ \A q \in Requests \ {r} : client'[q] = client[q]
  BY <1>1, <1>2 DEF Types
<1>4. Types'
  BY <1>1, <1>2, <1>3 DEF Types
<1>5. Numbering'
  <2>1. \A q \in Elems(waiting) : q \in Requests /\ q # r
    <3>1. \A q \in Elems(waiting) : q \in Requests
      BY <1>2 DEF Types, Elems
    <3> QED
      BY <1>1, <1>2, <3>1 DEF Numbering
  <2>2. \A q \in Elems(taken) : q \in Requests
    BY <1>2 DEF Types, Elems
  <2>3. \A q \in Elems(taken) : client'[q] # "new" /\ q \notin Elems(waiting)
    BY <1>2, <1>3, <2>2 DEF Numbering
  <2>4. \A q \in Elems(waiting) : client'[q] = "queued" /\ end[q] = "open"
    BY <1>2, <1>3, <2>1 DEF Numbering
  <2>5. pc = "insert" => \A q \in Elems(taken) : client'[q] = "queued" /\ end[q] = "open"
    BY <1>1, <1>2, <1>3, <2>2 DEF Numbering
  <2>6. \A u \in DOMAIN owner : owner[u] \in Requests
    BY <1>2 DEF Types
  <2>7. \A u \in DOMAIN owner : client'[owner[u]] \in {"streaming", "closed"}
    BY <1>2, <1>3, <2>6 DEF Numbering
  <2>8. \A q \in Requests : /\ client'[q] = "new" => end[q] = "open"
                            /\ client'[q] \in {"new", "queued"} => got[q] = 0
    BY <1>2, <1>3 DEF Numbering
  <2> QED
    BY <1>1, <1>2, <2>3, <2>4, <2>5, <2>7, <2>8 DEF Numbering
<1>6. Held' = Held
  BY <1>1 DEF Held
<1>7. Spoken'
  BY <1>1, <1>2, <1>6 DEF Spoken
<1>8. Ledgered'
  BY <1>1, <1>2 DEF Ledgered, LedgerIsDelivered
<1>9. NoOrphanRow'
  BY <1>1, <1>2, <1>6 DEF NoOrphanRow
<1>10. ActiveIsHeld'
  BY <1>1, <1>2, <1>6 DEF ActiveIsHeld
<1>11. RowsOK(owner, pending, prompt.rows, batch, ledger)'
  BY <1>1, <1>2
<1> QED
  BY <1>4, <1>5, <1>7, <1>8, <1>9, <1>10, <1>11 DEF Inv

-----------------------------------------------------------------------------
(* The theorems.                                                           *)

\* The engine starts in the invariant.
LEMMA InitKeeps == ASSUME Init PROVE Inv
<1>1. <<>> \in Seq(Requests) /\ <<>> \in Seq(PendingRows) /\ DOMAIN <<>> = {}
  OBVIOUS
<1>2. /\ Elems(waiting) = {} /\ Elems(taken) = {} /\ DOMAIN owner = {} /\ DOMAIN pending = {}
      /\ prompt.rows = {} /\ prompt = [rows |-> prompt.rows, left |-> prompt.left]
      /\ DOMAIN waiting = {}
  BY <1>1 DEF Init, Elems, NoPrompt
<1>3. ledger \in [DOMAIN ledger -> Nat] /\ DOMAIN ledger = {}
  BY DEF Init, Empty
<1>4. Types
  BY <1>1, <1>2 DEF Init, Types, Ends
<1>5. RowsOK(owner, pending, prompt.rows, batch, ledger)
  BY <1>1, <1>2, <1>3 DEF Init, RowsOK, Typed, Apart, Priced
<1>6. Numbering
  BY <1>2 DEF Init, Numbering, IsInjective
<1>7. Spoken
  BY DEF Init, Spoken
<1>8. Ledgered /\ ActiveIsHeld
  BY <1>3 DEF Init, Ledgered, LedgerIsDelivered, ActiveIsHeld
<1>9. NoOrphanRow
  <2>1. Held = {}
    BY <1>2 DEF Init, Held, Uids, Elems
  <2> QED
    BY <2>1 DEF NoOrphanRow
<1> QED
  BY <1>4, <1>5, <1>6, <1>7, <1>8, <1>9 DEF Inv

\* No step leaves it.
LEMMA NextKeeps == ASSUME Inv, [Next]_vars PROVE Inv'
<1>1. CASE Collect
  BY <1>1, CollectKeeps
<1>2. ASSUME NEW bad, Insert(bad) PROVE Inv'
  BY <1>2, InsertKeeps
<1>3. CASE EmbedRaises \/ Raise
  BY <1>3, RaisesKeep
<1>4. CASE Govern
  BY <1>4, GovernKeeps
<1>5. CASE Deliver
  BY <1>5, DeliverKeeps
<1>6. ASSUME NEW cut \in Cuts, NEW stops, Tick(cut, stops) PROVE Inv'
  BY <1>6, TickKeeps
<1>7. ASSUME NEW cut \in Cuts, NEW stops, NEW kind, NEW point \in Points,
             TickThrows(kind, point, cut, stops)
      PROVE  Inv'
  BY <1>7, ThrowKeeps
<1>8. ASSUME NEW r \in Requests, Submit(r) \/ Close(r) \/ TimeOut(r) PROVE Inv'
  BY <1>8, SubmitKeeps, LeaveKeeps DEF Close, TimeOut
<1>9. CASE UNCHANGED vars
  BY <1>9 DEF vars, Inv, Types, RowsOK, Typed, Apart, Priced, Numbering, Spoken, Ledgered,
              LedgerIsDelivered, NoOrphanRow, ActiveIsHeld, Held
<1> QED
  BY <1>1, <1>2, <1>3, <1>4, <1>5, <1>6, <1>7, <1>8, <1>9 DEF Next, Engine

\* The invariant of the engine thread: the rows of the queue, the prompt batch and
\* the batch are typed, apart and within their budgets; requests wait in one place
\* and are numbered once; what a tick said is of rows that are open or gone.
THEOREM Rows == Spec => []Inv
<1>1. Init => Inv
  BY InitKeeps
<1>2. Inv /\ [Next]_vars => Inv'
  BY NextKeeps
<1> QED
  BY <1>1, <1>2, PTL DEF Spec

\* A request the loop serves keeps its row, its last response or its failure,
\* wherever a tick throws, unless a fault dropped its row.
THEOREM RowKept == Spec => []ActiveIsHeld
<1>1. Inv => ActiveIsHeld
  BY DEF Inv
<1> QED
  BY <1>1, Rows, PTL

\* No row decodes for nobody, but one cancelled in a prompt batch of several.
THEOREM NoOrphan == Spec => []NoOrphanRow
<1>1. Inv => NoOrphanRow
  BY DEF Inv
<1> QED
  BY <1>1, Rows, PTL

\* What a rebuild would replay is what the client has.
THEOREM LedgerTrue == Spec => []LedgerIsDelivered
<1>1. Inv => LedgerIsDelivered
  BY DEF Inv, Ledgered
<1> QED
  BY <1>1, Rows, PTL

\* With one engine, the request of a failed row is told once the tick is over.
THEOREM FailedTold == Spec => []FailedIsTold
<1>1. ASSUME Inv PROVE FailedIsTold
  <2>1. pc = "collect" => mailbox = {}
    BY <1>1 DEF Inv, Spoken
  <2>2. \A r \in failed : end[r] = "open" => \E m \in mailbox : owner[m.uid] = r
    BY <1>1 DEF Inv, Spoken
  <2> QED
    BY <2>1, <2>2 DEF FailedIsTold
<1> QED
  BY <1>1, Rows, PTL

-----------------------------------------------------------------------------
(* One row for each uid, counted.                                          *)

\* The uids of a set of rows that are apart are as many as the rows.
LEMMA UidsCount ==
  ASSUME NEW X, NEW U, IsFiniteSet(U), \A x \in X : x.uid \in U,
         \A x, y \in X : x.uid = y.uid => x = y
  PROVE  IsFiniteSet(Uids(X)) /\ Cardinality(Uids(X)) = Cardinality(X)
<1> DEFINE f == [x \in X |-> x.uid]
<1>1. Uids(X) \in SUBSET U
  BY DEF Uids
<1>2. IsFiniteSet(Uids(X))
  BY <1>1, FS_Subset
<1>3. f \in Injection(X, Uids(X)) /\ f \in Surjection(X, Uids(X))
  BY DEF Injection, Surjection, IsInjective, Uids
<1> QED
  BY <1>2, <1>3, FS_Injection

\* Those of a queue are as many as its length.
LEMMA QueueCount ==
  ASSUME NEW q \in Seq(PendingRows), \A i, k \in DOMAIN q : q[i].uid = q[k].uid => i = k
  PROVE  IsFiniteSet(Uids(Elems(q))) /\ Cardinality(Uids(Elems(q))) = Len(q)
<1> DEFINE f == [i \in 1..Len(q) |-> q[i].uid]
<1>1. DOMAIN q = 1..Len(q) /\ Len(q) \in Nat
  OBVIOUS
<1>2. \A u : u \in Uids(Elems(q)) <=> \E i \in 1..Len(q) : q[i].uid = u
  BY <1>1 DEF Uids, Elems
<1>3. f \in Injection(1..Len(q), Uids(Elems(q))) /\ f \in Surjection(1..Len(q), Uids(Elems(q)))
  BY <1>1, <1>2 DEF Injection, Surjection, IsInjective
<1>4. IsFiniteSet(1..Len(q)) /\ Cardinality(1..Len(q)) = Len(q)
  <2>1. 1 \in Int /\ Len(q) \in Int
    BY <1>1
  <2> QED
    BY <1>1, <2>1, FS_Interval
<1> HIDE DEF f
<1> QED
  BY <1>3, <1>4, FS_Surjection

\* The rows are in one place each: the uids held are as many as the rows.
THEOREM OneRow == Spec => []OneRowEach
<1>1. ASSUME Inv PROVE OneRowEach
  <2> DEFINE P == Uids(Elems(pending))
             R == Uids(prompt.rows)
             B == Uids(batch)
  <2>1. RowsOK(owner, pending, prompt.rows, batch, ledger) /\ owner \in Seq(Requests)
    BY <1>1 DEF Inv, Types
  <2>2. IsFiniteSet(DOMAIN owner)
    <3>1. DOMAIN owner = 1..Len(owner) /\ 1 \in Int /\ Len(owner) \in Int
      BY <2>1
    <3> QED
      BY <3>1, FS_Interval
  <2>3. IsFiniteSet(P) /\ Cardinality(P) = Len(pending)
    BY <2>1, QueueCount DEF RowsOK, Typed, Apart
  <2>4. IsFiniteSet(R) /\ Cardinality(R) = Cardinality(prompt.rows)
    <3>1. /\ \A x \in prompt.rows : x.uid \in DOMAIN owner
          /\ \A x, y \in prompt.rows : x.uid = y.uid => x = y
      BY <2>1 DEF RowsOK, Typed, Apart
    <3> QED
      BY <2>2, <3>1, UidsCount
  <2>5. IsFiniteSet(B) /\ Cardinality(B) = Cardinality(batch)
    <3>1. /\ \A x \in batch : x.uid \in DOMAIN owner
          /\ \A x, y \in batch : x.uid = y.uid => x = y
      BY <2>1 DEF RowsOK, Typed, Apart
    <3> QED
      BY <2>2, <3>1, UidsCount
  <2>6. P \cap R = {} /\ (P \cup R) \cap B = {}
    BY <2>1 DEF RowsOK, Apart, Uids, Elems
  <2> HIDE DEF P, R, B
  <2>7. Cardinality({}) = 0
    BY FS_EmptySet
  <2>8. IsFiniteSet(P \cup R) /\ Cardinality(P \cup R) = Cardinality(P) + Cardinality(R) - 0
    BY <2>3, <2>4, <2>6, <2>7, FS_Union
  <2>9. Cardinality(P \cup R \cup B) = Cardinality(P \cup R) + Cardinality(B) - 0
    BY <2>5, <2>6, <2>7, <2>8, FS_Union
  <2>10. /\ Cardinality(P) \in Nat /\ Cardinality(R) \in Nat /\ Cardinality(B) \in Nat
         /\ Held = P \cup R \cup B
    BY <2>3, <2>4, <2>5, FS_CardinalityType DEF Held, P, R, B
  <2> QED
    BY <2>3, <2>4, <2>5, <2>8, <2>9, <2>10 DEF OneRowEach
<1> QED
  BY <1>1, Rows, PTL

-----------------------------------------------------------------------------
(* The contract of a reply.                                                *)

\* What a step may do to a request: nothing, or one of the contract's moves.
ClientStep(r) ==
  \/ client'[r] = client[r] /\ end'[r] = end[r] /\ got'[r] = got[r]
  \/ client[r] = "new" /\ end[r] = "open" /\ client'[r] = "queued" /\ end'[r] = "open" /\
     got'[r] = got[r]
  \/ client[r] = "streaming" /\ client'[r] = "closed" /\ end'[r] = end[r] /\ got'[r] = got[r]
  \/ client[r] = "queued" /\ end[r] = "open" /\ client'[r] = "streaming" /\ end'[r] = "open" /\
     got'[r] = got[r]
  \/ client[r] # "new" /\ end[r] = "open" /\ client'[r] = client[r] /\
     end'[r] \in {"shed", "error", "cancel"} /\ got'[r] = got[r]
  \/ client[r] \in {"streaming", "closed"} /\ end[r] = "open" /\ client'[r] = client[r] /\
     end'[r] \in {"open", "finish"} /\ got'[r] = got[r] + 1 /\ got[r] < Budget[r]

\* The steps that leave the requests alone.
LEMMA QuietSteps == ASSUME UNCHANGED clients PROVE \A r \in Requests : ClientStep(r)
BY DEF ClientStep

\* The clients' steps.
LEMMA ClientsStep ==
  ASSUME Inv, NEW q \in Requests, Submit(q) \/ Close(q) \/ TimeOut(q)
  PROVE  \A r \in Requests : ClientStep(r)
<1>1. /\ client \in [Requests -> {"new", "queued", "streaming", "closed"}]
      /\ client[q] = "new" => end[q] = "open"
  BY DEF Inv, Types, Numbering
<1>2. CASE Submit(q)
  BY <1>1, <1>2 DEF Submit, ClientStep
<1>3. CASE Leave(q)
  BY <1>1, <1>3 DEF Leave, ClientStep
<1> QED
  BY <1>2, <1>3 DEF Close, TimeOut

\* A request that is served is one that streams or has closed.
LEMMA ServedIs ==
  ASSUME Inv, NEW u \in active
  PROVE  /\ u \in DOMAIN owner /\ owner[u] \in Requests
         /\ client[owner[u]] \in {"streaming", "closed"} /\ end[owner[u]] = "open"
<1>1. u \in DOMAIN owner /\ owner[u] \in Requests
  BY DEF Inv, Types
<1> QED
  BY <1>1 DEF Inv, Numbering

\* Collect cancels requests that are served.
LEMMA CollectSteps == ASSUME Inv, Collect PROVE \A r \in Requests : ClientStep(r)
<1>1. PICK gone \in SUBSET active :
        end' = [r \in Requests |-> IF \E u \in gone : owner[u] = r THEN "cancel" ELSE end[r]]
  BY DEF Collect
<1>2. UNCHANGED <<client, got>>
  BY DEF Collect
<1> SUFFICES ASSUME NEW r \in Requests PROVE ClientStep(r)
  OBVIOUS
<1>3. CASE \E u \in gone : owner[u] = r
  <2>1. PICK u \in active : owner[u] = r
    BY <1>3
  <2>2. client[r] # "new" /\ end[r] = "open"
    BY <2>1, ServedIs
  <2> QED
    BY <1>1, <1>2, <1>3, <2>2 DEF ClientStep
<1>4. CASE ~\E u \in gone : owner[u] = r
  BY <1>1, <1>2, <1>4 DEF ClientStep
<1> QED
  BY <1>3, <1>4

\* Insert serves requests that were queued, or tells them of an error.
LEMMA InsertSteps == ASSUME Inv, NEW bad, Insert(bad) PROVE \A r \in Requests : ClientStep(r)
<1>1. pc = "insert" /\ bad \subseteq Elems(taken) /\ UNCHANGED got
  BY DEF Insert
<1> DEFINE K == {i \in DOMAIN taken : taken[i] \notin bad}
<1>2. PICK good \in Selections(taken, K) :
        /\ client' = [r \in Requests |-> IF r \in Elems(good) THEN "streaming" ELSE client[r]]
        /\ end' = [r \in Requests |-> IF r \in bad THEN "error" ELSE end[r]]
  BY DEF Insert
<1>3. taken \in Seq(Requests)
  BY DEF Inv, Types
<1>4. PICK n, f : n \in Nat /\ ReadsAt(good, taken, K, n, f)
  BY <1>3, PickSeq
<1>5. \A r \in Elems(good) : r \in Elems(taken) /\ r \notin bad
  BY <1>4 DEF ReadsAt, Elems
<1>6. \A r \in Elems(taken) : client[r] = "queued" /\ end[r] = "open"
  BY <1>1 DEF Inv, Numbering
<1> HIDE DEF K
<1> SUFFICES ASSUME NEW r \in Requests PROVE ClientStep(r)
  OBVIOUS
<1>7. CASE r \in Elems(good)
  BY <1>1, <1>2, <1>5, <1>6, <1>7 DEF ClientStep
<1>8. CASE r \in bad
  BY <1>1, <1>2, <1>5, <1>6, <1>8 DEF ClientStep
<1>9. CASE r \notin Elems(good) /\ r \notin bad
  BY <1>1, <1>2, <1>9 DEF ClientStep
<1> QED
  BY <1>7, <1>8, <1>9

\* The loop's error breaks replies that are open.
LEMMA ErrorSteps ==
  ASSUME Inv, NEW shed \in SUBSET active, LoopError(shed)
  PROVE  \A r \in Requests : ClientStep(r)
<1> SUFFICES ASSUME NEW r \in Requests PROVE ClientStep(r)
  OBVIOUS
<1>1. /\ UNCHANGED <<client, got>>
      /\ end'[r] = IF end[r] # "open" THEN end[r]
                   ELSE IF \E u \in shed : owner[u] = r THEN "shed"
                   ELSE IF r \in Elems(taken) \/ \E u \in active : owner[u] = r THEN "error"
                   ELSE "open"
  BY DEF LoopError
<1>2. (\E u \in active : owner[u] = r) => client[r] # "new"
  BY ServedIs
<1>3. r \in Elems(taken) => client[r] # "new"
  BY DEF Inv, Numbering
<1>4. (\E u \in shed : owner[u] = r) => client[r] # "new"
  BY <1>2
<1> QED
  BY <1>1, <1>2, <1>3, <1>4 DEF ClientStep

\* A delivery gives a token to a request that is served, and no other with its end.
LEMMA DeliverSteps == ASSUME Inv, Deliver PROVE \A r \in Requests : ClientStep(r)
<1> DEFINE told == {m.uid : m \in mailbox}
           last == {u \in active : [uid |-> u, last |-> TRUE] \in out}
           shed == (active \ last) \cap told
<1> SUFFICES ASSUME NEW r \in Requests PROVE ClientStep(r)
  OBVIOUS
<1>1. /\ client'[r] = client[r]
      /\ got'[r] = got[r] + IF \E o \in out : o.uid \in active /\ owner[o.uid] = r THEN 1 ELSE 0
      /\ end'[r] = IF \E u \in last : owner[u] = r THEN "finish"
                   ELSE IF \E u \in shed : owner[u] = r THEN "shed" ELSE end[r]
  BY DEF Deliver
<1>2. Spoken /\ Numbering /\ got[r] \in Nat
  BY DEF Inv, Types
<1>3. CASE \E o \in out : o.uid \in active /\ owner[o.uid] = r
  <2>1. PICK o \in out : o.uid \in active /\ owner[o.uid] = r
    BY <1>3
  <2>2. client[r] \in {"streaming", "closed"} /\ end[r] = "open" /\ o.uid \in DOMAIN owner
    BY <2>1, ServedIs
  <2>3. got[r] < Budget[r]
    BY <1>2, <2>1 DEF Spoken
  <2>4. o.uid \notin told
    BY <1>2, <2>1 DEF Spoken
  <2>5. \A u \in shed : owner[u] # r
    <3>1. \A u \in shed : u \in DOMAIN owner /\ u # o.uid
      BY <2>4, ServedIs
    <3> QED
      BY <1>2, <2>1, <2>2, <3>1, OwnerOnce
  <2>6. end'[r] \in {"open", "finish"}
    BY <1>1, <2>2, <2>5
  <2> QED
    BY <1>1, <1>3, <2>2, <2>3, <2>6 DEF ClientStep
<1>4. CASE ~\E o \in out : o.uid \in active /\ owner[o.uid] = r
  <2>1. \A u \in last : owner[u] # r
    <3>1. ASSUME NEW u \in last PROVE \E o \in out : o.uid = u /\ u \in active
      OBVIOUS
    <3> QED
      BY <1>4, <3>1
  <2>2. got'[r] = got[r]
    BY <1>1, <1>2, <1>4
  <2>3. CASE \E u \in shed : owner[u] = r
    <3>1. client[r] # "new" /\ end[r] = "open"
      BY <2>3, ServedIs
    <3> QED
      BY <1>1, <2>1, <2>2, <2>3, <3>1 DEF ClientStep
  <2>4. CASE ~\E u \in shed : owner[u] = r
    BY <1>1, <2>1, <2>2, <2>4 DEF ClientStep
  <2> QED
    BY <2>3, <2>4
<1> QED
  BY <1>3, <1>4

\* Every step moves each request so.
LEMMA EveryStep == ASSUME Inv, [Next]_vars PROVE \A r \in Requests : ClientStep(r)
<1>1. CASE Collect
  BY <1>1, CollectSteps
<1>2. ASSUME NEW bad, Insert(bad) PROVE \A r \in Requests : ClientStep(r)
  BY <1>2, InsertSteps
<1>3. CASE EmbedRaises
  BY <1>3, ErrorSteps DEF EmbedRaises
<1>4. CASE Raise
  BY <1>4, ErrorSteps DEF Raise
<1>5. CASE Deliver
  BY <1>5, DeliverSteps
<1>6. ASSUME NEW r \in Requests, Submit(r) \/ Close(r) \/ TimeOut(r)
      PROVE  \A q \in Requests : ClientStep(q)
  BY <1>6, ClientsStep
<1>7. CASE Govern \/ UNCHANGED vars
  BY <1>7, QuietSteps DEF Govern, vars
<1>8. ASSUME NEW cut, NEW stops, Tick(cut, stops) PROVE \A r \in Requests : ClientStep(r)
  BY <1>8, QuietSteps DEF Tick
<1>9. ASSUME NEW cut, NEW stops, NEW kind, NEW point, TickThrows(kind, point, cut, stops)
      PROVE  \A r \in Requests : ClientStep(r)
  BY <1>9, QuietSteps DEF TickThrows
<1> QED
  BY <1>1, <1>2, <1>3, <1>4, <1>5, <1>6, <1>7, <1>8, <1>9 DEF Next, Engine

\* No reply is longer than its budget.
Bounded == \A r \in Requests : got[r] <= Budget[r]

\* That is inductive.
LEMMA StaysBounded ==
  ASSUME Inv, Bounded, [Next]_vars
  PROVE  Bounded'
<1> SUFFICES ASSUME NEW r \in Requests PROVE got'[r] <= Budget[r]
  BY DEF Bounded
<1>1. ClientStep(r) /\ got[r] \in Nat /\ Budget[r] \in Nat /\ got[r] <= Budget[r]
  BY EveryStep, EngineAssumption DEF Inv, Types, Bounded
<1> QED
  BY <1>1 DEF ClientStep

\* The phase of a request, by its client and its end.
LEMMA PhaseIs ==
  ASSUME Types, NEW r \in Requests
  PROVE  /\ end[r] = "finish" => Phase[r] = "finished"
         /\ end[r] \in {"shed", "error", "cancel"} => Phase[r] = "broken"
         /\ end[r] = "open" /\ client[r] = "new" => Phase[r] = "new"
         /\ end[r] = "open" /\ client[r] = "queued" => Phase[r] = "waiting"
         /\ end[r] = "open" /\ client[r] \in {"streaming", "closed"} => Phase[r] = "running"
BY DEF Phase, Types, Ends

\* And after a step.
LEMMA PhaseBecomes ==
  ASSUME Types', NEW r \in Requests
  PROVE  /\ end'[r] = "finish" => Phase'[r] = "finished"
         /\ end'[r] \in {"shed", "error", "cancel"} => Phase'[r] = "broken"
         /\ end'[r] = "open" /\ client'[r] = "new" => Phase'[r] = "new"
         /\ end'[r] = "open" /\ client'[r] = "queued" => Phase'[r] = "waiting"
         /\ end'[r] = "open" /\ client'[r] \in {"streaming", "closed"} => Phase'[r] = "running"
BY DEF Phase, Types, Ends

\* A step of a request is a step of the contract.
LEMMA StepIsReplyStep ==
  ASSUME Types, Types', NEW r \in Requests, ClientStep(r), got'[r] <= Budget[r]
  PROVE  Reply!Step(r)
<1>1. /\ client[r] \in {"new", "queued", "streaming", "closed"} /\ end[r] \in Ends
      /\ client'[r] \in {"new", "queued", "streaming", "closed"} /\ end'[r] \in Ends
      /\ got[r] \in Nat /\ got'[r] \in Nat
  BY DEF Types
<1>2. CASE client'[r] = client[r] /\ end'[r] = end[r] /\ got'[r] = got[r]
  <2>1. Phase'[r] = Phase[r]
    BY <1>1, <1>2, PhaseIs, PhaseBecomes DEF Ends
  <2> QED
    BY <1>2, <2>1 DEF Reply!Step
<1>3. CASE client[r] = "new" /\ end[r] = "open" /\ client'[r] = "queued" /\ end'[r] = "open" /\
           got'[r] = got[r]
  <2>1. Phase[r] = "new" /\ Phase'[r] = "waiting" /\ got'[r] = got[r] + 0
    BY <1>1, <1>3, PhaseIs, PhaseBecomes
  <2> QED
    BY <2>1 DEF Reply!Step, Reply!Moves
<1>4. CASE client[r] = "streaming" /\ client'[r] = "closed" /\ end'[r] = end[r] /\ got'[r] = got[r]
  <2>1. Phase'[r] = Phase[r]
    BY <1>1, <1>4, PhaseIs, PhaseBecomes DEF Ends
  <2> QED
    BY <1>4, <2>1 DEF Reply!Step
<1>5. CASE client[r] = "queued" /\ end[r] = "open" /\ client'[r] = "streaming" /\
           end'[r] = "open" /\ got'[r] = got[r]
  <2>1. Phase[r] = "waiting" /\ Phase'[r] = "running" /\ got'[r] = got[r] + 0
    BY <1>1, <1>5, PhaseIs, PhaseBecomes
  <2> QED
    BY <2>1 DEF Reply!Step, Reply!Moves
<1>6. CASE client[r] # "new" /\ end[r] = "open" /\ client'[r] = client[r] /\
           end'[r] \in {"shed", "error", "cancel"} /\ got'[r] = got[r]
  <2>1. Phase[r] \in {"waiting", "running"} /\ Phase'[r] = "broken" /\ got'[r] = got[r] + 0
    BY <1>1, <1>6, PhaseIs, PhaseBecomes
  <2> QED
    BY <2>1 DEF Reply!Step, Reply!Moves
<1>7. CASE client[r] \in {"streaming", "closed"} /\ end[r] = "open" /\ client'[r] = client[r] /\
           end'[r] \in {"open", "finish"} /\ got'[r] = got[r] + 1 /\ got[r] < Budget[r]
  <2>1. Phase[r] = "running" /\ Phase'[r] \in {"running", "finished"} /\ got'[r] = got[r] + 1
    BY <1>1, <1>7, PhaseIs, PhaseBecomes
  <2> QED
    BY <2>1 DEF Reply!Step, Reply!Moves
<1> QED
  BY <1>2, <1>3, <1>4, <1>5, <1>6, <1>7 DEF ClientStep

\* The engine implements the contract of a reply: each request waits, is taken,
\* streams at most its budget and ends once, with nothing after its end, whatever
\* is shed, thrown, rebuilt or cancelled.
THEOREM KeepsContract == Spec => ImplementsReplyStream
<1>1. ASSUME Init PROVE Reply!Init /\ Bounded
  <2>1. Phase = [r \in Requests |-> "new"]
    BY <1>1 DEF Init, Phase
  <2>2. \A r \in Requests : Budget[r] \in Nat \ {0}
    BY EngineAssumption
  <2> QED
    BY <1>1, <2>1, <2>2 DEF Init, Reply!Init, Bounded
<1>2. ASSUME Inv, Inv', Bounded, Bounded', [Next]_vars
      PROVE  [Reply!Next]_<<Phase, got>>
  <2>1. Types /\ Types'
    BY <1>2 DEF Inv
  <2>2. \A r \in Requests : Reply!Step(r)
    BY <1>2, <2>1, EveryStep, StepIsReplyStep DEF Bounded
  <2>3. \A r \in Requests : Phase'[r] \in {"new", "waiting", "running", "finished", "broken"}
    <3>1. \A r \in Requests : /\ client'[r] \in {"new", "queued", "streaming", "closed"}
                              /\ end'[r] \in Ends
      BY <2>1 DEF Types
    <3> QED
      BY <2>1, <3>1, PhaseBecomes DEF Ends
  <2>4. Phase' \in [Requests -> {"new", "waiting", "running", "finished", "broken"}]
    <3>1. Phase' = [r \in Requests |-> Phase'[r]]
      BY DEF Phase
    <3> QED
      BY <2>3, <3>1
  <2>5. got' \in [Requests -> Nat]
    BY <2>1 DEF Types
  <2> QED
    BY <2>2, <2>4, <2>5 DEF Reply!Next
<1>3. Inv /\ Bounded /\ [Next]_vars => Bounded'
  BY StaysBounded
<1> QED
  BY <1>1, <1>2, <1>3, Rows, PTL DEF Spec, ImplementsReplyStream, Reply!Spec

-----------------------------------------------------------------------------
(* Who closed a request that was cancelled.                                *)

\* Another request of the same uid closed, once it had ended otherwise.
Namesake(r) ==
  \E q \in Requests \ {r} : /\ client[q] = "closed" /\ uidOf[q] = uidOf[r]
                            /\ end[q] \notin {"open", "cancel"}

\* A request that streams or has closed, its end open, is served.
AllServed ==
  \A r \in Requests :
    client[r] \in {"streaming", "closed"} /\ end[r] = "open" => \E v \in active : owner[v] = r

\* A pending cancel is a closed client's, under its uid; a request that was
\* cancelled before its own client's close reached the loop has a namesake.
Closers ==
  /\ AllServed
  /\ \A c \in cancelled : c.by \in Requests /\ client[c.by] = "closed" /\ uidOf[c.by] = c.uid
  /\ \A r \in Requests : end[r] = "cancel" =>
       /\ client[r] \in {"streaming", "closed"}
       /\ \/ client[r] = "closed" /\ \A c \in cancelled : c.by # r
          \/ Namesake(r)

\* Inserting keeps every open request served.
LEMMA InsertServes == ASSUME Inv, AllServed, NEW bad, Insert(bad) PROVE AllServed'
<1> DEFINE turn == taken # <<>> /\ active = {} /\ ~HasWork
           K == {i \in DOMAIN taken : taken[i] \notin bad}
<1>1. PICK good \in Selections(taken, K) :
        Inserts(IF turn THEN <<>> ELSE owner, IF turn THEN Empty ELSE ledger, good, bad)
  BY DEF Insert, Inserts, NewRows
<1>2. PICK base : base = IF turn THEN <<>> ELSE owner
  OBVIOUS
<1>3. /\ owner' = base \o good
      /\ active' = active \cup ((Len(base) + 1)..(Len(base) + Len(good)))
      /\ client' = [r \in Requests |-> IF r \in Elems(good) THEN "streaming" ELSE client[r]]
      /\ end' = [r \in Requests |-> IF r \in bad THEN "error" ELSE end[r]]
  BY <1>1, <1>2 DEF Inserts
<1>4. taken \in Seq(Requests) /\ owner \in Seq(Requests) /\ active \subseteq DOMAIN owner
  BY DEF Inv, Types
<1>5. good \in Seq(Requests)
  BY <1>4, PickSeq
<1>6. base \in Seq(Requests)
  <2>1. <<>> \in Seq(Requests)
    OBVIOUS
  <2> QED
    BY <1>2, <1>4, <2>1
<1>7. ASSUME NEW r \in Requests, client'[r] \in {"streaming", "closed"}, end'[r] = "open"
      PROVE  \E v \in active' : owner'[v] = r
  <2>1. CASE r \in Elems(good)
    <3>1. PICK k \in 1..Len(good) : good[k] = r
      BY <1>5, <2>1 DEF Elems
    <3>2. owner'[Len(base) + k] = r /\ Len(base) + k \in active'
      BY <1>3, <1>5, <1>6, <3>1
    <3> QED
      BY <3>2
  <2>2. CASE r \notin Elems(good)
    <3>1. client[r] \in {"streaming", "closed"} /\ end[r] = "open"
      BY <1>3, <1>7, <2>2
    <3>2. PICK v \in active : owner[v] = r
      BY <3>1 DEF AllServed
    <3>3. base = owner /\ v \in DOMAIN owner
      BY <1>2, <1>4, <3>2
    <3>4. owner'[v] = r
      BY <1>3, <1>4, <1>5, <3>2, <3>3
    <3> QED
      BY <1>3, <3>4
  <2> QED
    BY <2>1, <2>2
<1> QED
  BY <1>7 DEF AllServed

\* So does every step.
LEMMA StepServes == ASSUME Inv, AllServed, [Next]_vars PROVE AllServed'
<1>1. \A r \in Requests : end[r] = "open" \/ end'[r] = end[r]
  BY EveryStep DEF ClientStep
<1>2. CASE Collect
  <2>1. PICK gone \in SUBSET active :
          /\ end' = [r \in Requests |-> IF \E u \in gone : owner[u] = r THEN "cancel" ELSE end[r]]
          /\ active' = active \ gone
    BY <1>2 DEF Collect
  <2>2. UNCHANGED <<client, owner>>
    BY <1>2 DEF Collect
  <2> QED
    BY <2>1, <2>2 DEF AllServed
<1>3. ASSUME NEW bad, Insert(bad) PROVE AllServed'
  BY <1>3, InsertServes
<1>4. ASSUME NEW shed, LoopError(shed) PROVE AllServed'
  <2>1. ASSUME NEW r \in Requests, client'[r] \in {"streaming", "closed"}, end'[r] = "open"
        PROVE  FALSE
    <3>1. /\ client' = client
          /\ end'[r] = IF end[r] # "open" THEN end[r]
                       ELSE IF \E u \in shed : owner[u] = r THEN "shed"
                       ELSE IF r \in Elems(taken) \/ \E u \in active : owner[u] = r THEN "error"
                       ELSE "open"
      BY <1>4 DEF LoopError
    <3>2. end[r] = "open"
      BY <1>1, <2>1
    <3>3. \E u \in active : owner[u] = r
      BY <2>1, <3>1, <3>2 DEF AllServed
    <3> QED
      BY <2>1, <3>1, <3>2, <3>3
  <2> QED
    BY <2>1 DEF AllServed
<1>5. CASE Deliver
  <2>1. PICK last, shed :
          /\ end' = [r \in Requests |->
                       IF \E u \in last : owner[u] = r THEN "finish"
                       ELSE IF \E u \in shed : owner[u] = r THEN "shed" ELSE end[r]]
          /\ active' = active \ (last \cup shed)
    BY <1>5 DEF Deliver
  <2>2. UNCHANGED <<client, owner>>
    BY <1>5 DEF Deliver
  <2> QED
    BY <2>1, <2>2 DEF AllServed
<1>6. CASE UNCHANGED <<client, end, owner, active>>
  BY <1>6 DEF AllServed
<1>7. ASSUME NEW q \in Requests, Submit(q) PROVE AllServed'
  BY <1>7 DEF Submit, AllServed, Inv, Types
<1>8. ASSUME NEW q \in Requests, Leave(q) PROVE AllServed'
  <2>1. /\ client[q] = "streaming" /\ client' = [client EXCEPT ![q] = "closed"]
        /\ UNCHANGED <<end, owner, active>>
    BY <1>8 DEF Leave
  <2> QED
    BY <2>1 DEF AllServed, Inv, Types
<1>9. ASSUME NEW cut, NEW stops, Tick(cut, stops) PROVE AllServed'
  BY <1>6, <1>9 DEF Tick
<1>10. ASSUME NEW cut, NEW stops, NEW kind, NEW point, TickThrows(kind, point, cut, stops)
       PROVE  AllServed'
  BY <1>6, <1>10 DEF TickThrows
<1>11. CASE Govern \/ UNCHANGED vars
  BY <1>6, <1>11 DEF Govern, vars
<1> QED
  BY <1>2, <1>3, <1>4, <1>5, <1>7, <1>8, <1>9, <1>10, <1>11
     DEF Next, Engine, EmbedRaises, Raise, Close, TimeOut

\* The uid of a request changes when it is inserted, alone.
LEMMA UidStays ==
  ASSUME Inv, [Next]_vars
  PROVE  \A r \in Requests : uidOf'[r] = uidOf[r] \/ client[r] = "queued"
<1>1. ASSUME NEW bad, Insert(bad)
      PROVE  \A r \in Requests : uidOf'[r] = uidOf[r] \/ client[r] = "queued"
  <2> DEFINE K == {i \in DOMAIN taken : taken[i] \notin bad}
  <2>1. PICK good \in Selections(taken, K) :
          \A r \in Requests : r \notin Elems(good) => uidOf'[r] = uidOf[r]
    BY <1>1 DEF Insert
  <2>2. pc = "insert" /\ taken \in Seq(Requests)
    BY <1>1 DEF Insert, Inv, Types
  <2>3. PICK n, f : n \in Nat /\ ReadsAt(good, taken, K, n, f)
    BY <2>2, PickSeq
  <2>4. \A r \in Elems(good) : r \in Elems(taken)
    BY <2>3 DEF ReadsAt, Elems
  <2>5. \A r \in Elems(taken) : client[r] = "queued"
    BY <2>2 DEF Inv, Numbering
  <2> QED
    BY <2>1, <2>4, <2>5
<1>2. CASE UNCHANGED uidOf
  BY <1>2
<1>3. ASSUME NEW cut, NEW stops, Tick(cut, stops) PROVE UNCHANGED uidOf
  BY <1>3 DEF Tick
<1>4. ASSUME NEW cut, NEW stops, NEW kind, NEW point, TickThrows(kind, point, cut, stops)
      PROVE  UNCHANGED uidOf
  BY <1>4 DEF TickThrows
<1>5. ASSUME Collect \/ Govern \/ Deliver \/ Raise \/ EmbedRaises \/ UNCHANGED vars
      PROVE  UNCHANGED uidOf
  BY <1>5 DEF Collect, Govern, Deliver, Raise, EmbedRaises, LoopError, vars
<1>6. ASSUME NEW q \in Requests, Submit(q) \/ Close(q) \/ TimeOut(q) PROVE UNCHANGED uidOf
  BY <1>6 DEF Submit, Close, TimeOut, Leave
<1> QED
  BY <1>1, <1>2, <1>3, <1>4, <1>5, <1>6 DEF Next, Engine

\* A namesake remains.
LEMMA NamesakeStays ==
  ASSUME Inv, [Next]_vars, NEW r \in Requests, client[r] # "queued", Namesake(r)
  PROVE  Namesake(r)'
<1>1. PICK q \in Requests \ {r} : /\ client[q] = "closed" /\ uidOf[q] = uidOf[r]
                                  /\ end[q] \notin {"open", "cancel"}
  BY DEF Namesake
<1>2. ClientStep(q)
  BY EveryStep
<1>3. client'[q] = "closed" /\ end'[q] = end[q]
  BY <1>1, <1>2 DEF ClientStep
<1>4. uidOf'[q] = uidOf[q] /\ uidOf'[r] = uidOf[r]
  BY <1>1, UidStays
<1> QED
  BY <1>1, <1>3, <1>4 DEF Namesake

\* A step that makes no cancel keeps who closed.
LEMMA PlainCloses ==
  ASSUME Inv, Closers, [Next]_vars, cancelled' = cancelled,
         \A r \in Requests : end'[r] = "cancel" => end[r] = "cancel"
  PROVE  Closers'
<1>1. \A c \in cancelled' : c.by \in Requests /\ client'[c.by] = "closed" /\ uidOf'[c.by] = c.uid
  <2> SUFFICES ASSUME NEW c \in cancelled
               PROVE  c.by \in Requests /\ client'[c.by] = "closed" /\ uidOf'[c.by] = c.uid
    OBVIOUS
  <2>1. c.by \in Requests /\ client[c.by] = "closed" /\ uidOf[c.by] = c.uid
    BY DEF Closers
  <2>2. ClientStep(c.by)
    BY <2>1, EveryStep
  <2> QED
    BY <2>1, <2>2, UidStays DEF ClientStep
<1>2. ASSUME NEW r \in Requests, end'[r] = "cancel"
      PROVE  /\ client'[r] \in {"streaming", "closed"}
             /\ ((client'[r] = "closed" /\ (\A c \in cancelled' : c.by # r)) \/ Namesake(r)')
  <2>1. /\ end[r] = "cancel" /\ client[r] \in {"streaming", "closed"}
        /\ \/ client[r] = "closed" /\ \A c \in cancelled : c.by # r
          \/ Namesake(r)
    BY <1>2 DEF Closers
  <2>2. ClientStep(r)
    BY EveryStep
  <2>3. client'[r] \in {"streaming", "closed"} /\ (client[r] = "closed" => client'[r] = "closed")
    BY <2>1, <2>2 DEF ClientStep
  <2> QED
    BY <2>1, <2>3, NamesakeStays
<1>3. AllServed'
  BY StepServes DEF Closers
<1> QED
  BY <1>1, <1>2, <1>3 DEF Closers

\* Nor does a client that leaves change it.
LEMMA LeaveCloses ==
  ASSUME Inv, Closers, [Next]_vars, NEW q \in Requests, Leave(q)
  PROVE  Closers'
<1>1. /\ client[q] = "streaming" /\ client' = [client EXCEPT ![q] = "closed"]
      /\ cancelled' = cancelled \cup {[uid |-> uidOf[q], by |-> q]}
      /\ UNCHANGED <<end, uidOf>> /\ client \in [Requests -> {"new", "queued", "streaming", "closed"}]
  BY DEF Leave, Inv, Types
<1>2. \A c \in cancelled' : c.by \in Requests /\ client'[c.by] = "closed" /\ uidOf'[c.by] = c.uid
  BY <1>1 DEF Closers
<1>3. ASSUME NEW r \in Requests, end'[r] = "cancel"
      PROVE  /\ client'[r] \in {"streaming", "closed"}
             /\ ((client'[r] = "closed" /\ (\A c \in cancelled' : c.by # r)) \/ Namesake(r)')
  <2>1. /\ client[r] \in {"streaming", "closed"}
        /\ \/ client[r] = "closed" /\ \A c \in cancelled : c.by # r
          \/ Namesake(r)
    BY <1>1, <1>3 DEF Closers
  <2>2. CASE Namesake(r)
    BY <1>1, <2>1, <2>2, NamesakeStays
  <2>3. CASE ~Namesake(r)
    <3>1. r # q
      BY <1>1, <2>1, <2>3
    <3> QED
      BY <1>1, <2>1, <2>3, <3>1
  <2> QED
    BY <1>1, <2>1, <2>2, <2>3
<1>4. AllServed'
  BY StepServes DEF Closers
<1> QED
  BY <1>2, <1>3, <1>4 DEF Closers

\* A cancel that reaches the loop is its client's, or a namesake's.
LEMMA CollectCloses == ASSUME Inv, Closers, [Next]_vars, Collect PROVE Closers'
<1> DEFINE gone == {c.uid : c \in cancelled} \cap active
<1>1. /\ cancelled' = {} /\ UNCHANGED <<client, uidOf, owner>>
      /\ end' = [r \in Requests |-> IF \E u \in gone : owner[u] = r THEN "cancel" ELSE end[r]]
  BY DEF Collect
<1>2. ASSUME NEW r \in Requests, end'[r] = "cancel"
      PROVE  client[r] \in {"streaming", "closed"} /\ (client[r] = "closed" \/ Namesake(r)')
  <2>1. CASE end[r] = "cancel"
    <3>1. /\ client[r] \in {"streaming", "closed"}
          /\ client[r] = "closed" \/ Namesake(r)
      BY <2>1 DEF Closers
    <3> QED
      BY <3>1, NamesakeStays
  <2>2. CASE end[r] # "cancel"
    <3>1. PICK u \in gone : owner[u] = r
      BY <1>1, <1>2, <2>2
    <3>2. PICK c \in cancelled : c.uid = u
      BY <3>1
    <3>3. /\ client[r] \in {"streaming", "closed"} /\ end[r] = "open" /\ u \in DOMAIN owner
      BY <3>1, ServedIs
    <3>4. uidOf[r] = u
      BY <3>1, <3>3 DEF Inv, Numbering
    <3>5. c.by \in Requests /\ client[c.by] = "closed" /\ uidOf[c.by] = u
      BY <3>2 DEF Closers
    <3>6. CASE c.by = r
      BY <3>3, <3>5, <3>6
    <3>7. CASE c.by # r
      <4>1. end[c.by] # "open"
        <5>1. SUFFICES ASSUME end[c.by] = "open" PROVE FALSE
          OBVIOUS
        <5>2. PICK v \in active : owner[v] = c.by
          BY <3>5, <5>1 DEF Closers, AllServed
        <5>3. v \in DOMAIN owner /\ uidOf[c.by] = v
          BY <5>2, ServedIs DEF Inv, Numbering
        <5> QED
          BY <3>1, <3>5, <3>7, <5>2, <5>3
      <4>2. Namesake(r)
        <5>1. CASE end[c.by] # "cancel"
          BY <3>4, <3>5, <3>7, <4>1, <5>1 DEF Namesake
        <5>2. CASE end[c.by] = "cancel"
          <6>1. Namesake(c.by)
            BY <3>2, <3>5, <5>2 DEF Closers
          <6> QED
            BY <3>3, <3>4, <3>5, <6>1 DEF Namesake
        <5> QED
          BY <5>1, <5>2
      <4> QED
        BY <3>3, <4>2, NamesakeStays
    <3> QED
      BY <3>6, <3>7
  <2> QED
    BY <2>1, <2>2
<1>3. AllServed'
  BY StepServes DEF Closers
<1> QED
  BY <1>1, <1>2, <1>3 DEF Closers

\* No other step cancels.
LEMMA StepCloses == ASSUME Inv, Closers, [Next]_vars PROVE Closers'
<1>1. CASE Collect
  BY <1>1, CollectCloses
<1>2. ASSUME NEW q \in Requests, Close(q) \/ TimeOut(q) PROVE Closers'
  BY <1>2, LeaveCloses DEF Close, TimeOut
<1> DEFINE Plain == /\ cancelled' = cancelled
                    /\ \A r \in Requests : end'[r] = "cancel" => end[r] = "cancel"
<1>3. ASSUME NEW q \in Requests, Submit(q) PROVE Plain
  BY <1>3 DEF Submit
<1>4. ASSUME NEW bad, Insert(bad) PROVE Plain
  BY <1>4 DEF Insert
<1>5. ASSUME NEW shed, LoopError(shed) PROVE Plain
  <2>1. cancelled' = cancelled /\
        end' = [r \in Requests |->
                  IF end[r] # "open" THEN end[r]
                  ELSE IF \E u \in shed : owner[u] = r THEN "shed"
                  ELSE IF r \in Elems(taken) \/ \E u \in active : owner[u] = r THEN "error"
                  ELSE "open"]
    BY <1>5 DEF LoopError
  <2> QED
    BY <2>1
<1>6. ASSUME Deliver PROVE Plain
  <2>1. ASSUME NEW r \in Requests, end'[r] = "cancel" PROVE end[r] = "cancel"
    <3>1. end'[r] = "finish" \/ end'[r] = "shed" \/ end'[r] = end[r]
      BY <1>6 DEF Deliver
    <3> QED
      BY <2>1, <3>1
  <2>2. cancelled' = cancelled
    BY <1>6 DEF Deliver
  <2> QED
    BY <2>1, <2>2
<1>7. ASSUME NEW cut, NEW stops, Tick(cut, stops) PROVE Plain
  BY <1>7 DEF Tick
<1>8. ASSUME NEW cut, NEW stops, NEW kind, NEW point, TickThrows(kind, point, cut, stops)
      PROVE  Plain
  BY <1>8 DEF TickThrows
<1>9. ASSUME Govern \/ UNCHANGED vars PROVE Plain
  BY <1>9 DEF Govern, vars
<1>10. Plain => Closers'
  BY PlainCloses
<1> HIDE DEF Plain
<1> QED
  BY <1>1, <1>2, <1>3, <1>4, <1>5, <1>6, <1>7, <1>8, <1>9, <1>10
     DEF Next, Engine, EmbedRaises, Raise

\* A request is cancelled because its client closed, or a namesake's client did,
\* of an earlier generator, once its reply had ended.
THEOREM CancelOwned == Spec => []CancelHasACloser
<1>1. Init => Closers
  BY DEF Init, Closers, AllServed
<1>2. Inv /\ Closers /\ [Next]_vars => Closers'
  BY StepCloses
<1>3. Closers => CancelHasACloser
  BY DEF Closers, CancelHasACloser, Namesake
<1> QED
  BY <1>1, <1>2, <1>3, Rows, PTL DEF Spec

-----------------------------------------------------------------------------
(* Past the ceiling, one row at a time.                                    *)

\* All the uids of pending but one are in the queue q.
AllButOne(q) == \E x : Uids(Elems(pending)) \subseteq Uids(Elems(q)) \cup {x}

\* They are in what follows the first row at most.
LEMMA BehindFew ==
  ASSUME pending \in Seq(PendingRows), NEW n \in 0..1, n <= Len(pending)
  PROVE  AllButOne(Behind(n))
<1>1. /\ Len(pending) \in Nat /\ DOMAIN pending = 1..Len(pending)
      /\ n \in 0..Len(pending)
  OBVIOUS
<1>2. PICK s : s = Behind(n)
  OBVIOUS
<1>3. DOMAIN s = 1..(Len(pending) - n) /\ \A i \in 1..(Len(pending) - n) : s[i] = pending[n + i]
  BY <1>1, <1>2, CutSeq DEF Behind
<1>4. ASSUME NEW i \in DOMAIN pending
      PROVE  pending[i].uid \in Uids(Elems(s)) \/ i = 1
  <2>1. CASE i > n
    <3>1. i - n \in DOMAIN s /\ s[i - n] = pending[i]
      <4>1. i - n \in 1..(Len(pending) - n) /\ n + (i - n) = i
        BY <1>1, <2>1
      <4> QED
        BY <1>3, <4>1
    <3> QED
      BY <3>1 DEF Uids, Elems
  <2>2. CASE ~(i > n)
    BY <1>1, <2>2
  <2> QED
    BY <2>1, <2>2
<1>5. Uids(Elems(pending)) \subseteq Uids(Elems(s)) \cup {pending[1].uid}
  BY <1>4 DEF Uids, Elems
<1> QED
  BY <1>2, <1>5 DEF AllButOne

\* A queue that gained rows in front has them still.
LEMMA FrontKeeps ==
  ASSUME NEW T, NEW q \in Seq(T), NEW x, AllButOne(q)
  PROVE  AllButOne(<<x>> \o q)
<1>1. PICK t : t = <<x>> \o q
  OBVIOUS
<1>2. PICK S : S = T \cup {x}
  OBVIOUS
<1>3. /\ q \in Seq(S) /\ <<x>> \in Seq(S) /\ Len(<<x>>) = 1
      /\ Len(q) \in Nat /\ DOMAIN q = 1..Len(q)
  BY <1>2
<1>4. \A i \in 1..Len(q) : 1 + i \in DOMAIN t /\ t[1 + i] = q[i]
  BY <1>1, <1>3
<1>5. Uids(Elems(q)) \subseteq Uids(Elems(t))
  BY <1>3, <1>4 DEF Uids, Elems
<1> QED
  BY <1>1, <1>5 DEF AllButOne

\* While the memory does not fit, the gate lets one row through.
LEMMA OnePasses ==
  ASSUME pending \in Seq(PendingRows), Weighs(pending), ~fits, NEW cut \in Cuts
  PROVE  Admits(SubSeq(pending, 1, cut)) \in 0..1
<1> USE EngineAssumption
<1>1. Len(pending) \in Nat /\ pending # <<>> /\ prompt.rows = {} /\ batch # {}
      /\ Width - Cardinality(batch) >= PrefillBatch
  BY DEF Weighs, MayForm
<1>2. cut \in 1..Len(pending)
  BY <1>1 DEF Cuts, Lesser
<1>3. PICK q : q = SubSeq(pending, 1, cut)
  OBVIOUS
<1>4. q \in Seq(PendingRows) /\ Len(q) = cut /\ q # <<>>
  <2>1. q \in Seq(PendingRows) /\ Len(q) = cut
    BY <1>1, <1>2, <1>3
  <2> QED
    BY <1>2, <2>1
<1>5. Weighs(q)
  BY <1>1, <1>4 DEF Weighs, MayForm
<1>6. Len(Passed(q)) = 0 \/ Len(Passed(q)) = 1
  <2>1. CASE Declines(q)
    <3>1. Passed(q) = <<>>
      BY <2>1 DEF Passed
    <3> QED
      BY <3>1
  <2>2. CASE ~Declines(q)
    <3>1. Passed(q) = <<Head(q)>>
      BY <1>5, <2>2 DEF Passed
    <3> QED
      BY <3>1
  <2> QED
    BY <2>1, <2>2
<1>7. Admits(q) \in 0..1
  <2>1. PrefillBatch \in Nat /\ PrefillBatch >= 1
    OBVIOUS
  <2>2. Lesser(PrefillBatch, 0) = 0 /\ Lesser(PrefillBatch, 1) = 1
    BY <2>1 DEF Lesser
  <2>3. Admits(q) = Lesser(PrefillBatch, Len(Passed(q)))
    BY <1>1 DEF Admits
  <2>4. CASE Len(Passed(q)) = 0
    BY <2>2, <2>3, <2>4
  <2>5. CASE Len(Passed(q)) = 1
    BY <2>2, <2>3, <2>5
  <2> QED
    BY <1>6, <2>4, <2>5
<1> QED
  BY <1>3, <1>7

\* What a tick returns or throws keeps all but one.
LEMMA TickIsSerial ==
  ASSUME Inv, Weighs(pending), ~fits, NEW cut \in Cuts, NEW stops,
         \/ Tick(cut, stops)
         \/ \E kind \in {"memory", "gpu", "other"}, point \in Points :
              TickThrows(kind, point, cut, stops)
  PROVE  AllButOne(pending')
<1>1. PICK q : q = SubSeq(pending, 1, cut)
  OBVIOUS
<1>2. pending \in Seq(PendingRows) /\ Len(pending) \in Nat
  BY DEF Inv, RowsOK, Typed
<1>3. Admits(q) \in 0..1 /\ Admits(q) <= Len(pending)
  BY <1>1, <1>2, AdmitsFew, OnePasses
<1>4. ASSUME NEW n, n = 0 \/ n = Admits(q)
      PROVE  AllButOne(Behind(n)) /\ Behind(n) \in Seq(PendingRows)
  <2>1. n \in 0..1 /\ n <= Len(pending) /\ n \in 0..Len(pending)
    BY <1>2, <1>3, <1>4
  <2> QED
    BY <1>2, <2>1, BehindFew, CutSeq DEF Behind
<1>5. AllButOne(pending)
  BY DEF AllButOne
<1>6. CASE Tick(cut, stops)
  <2>1. pending' = pending \/ pending' = Behind(Admits(q))
    BY <1>1, <1>6 DEF Tick, StockTick
  <2> QED
    BY <1>4, <1>5, <2>1
<1>7. ASSUME NEW kind, NEW point, TickThrows(kind, point, cut, stops)
      PROVE  AllButOne(pending')
  <2>1. PICK n, b :
          /\ n = 0 \/ n = Admits(q)
          /\ ContainMemory(Behind(n), b) \/ LetThrough(kind, Behind(n), b)
    <3>1. PICK b : b = IF point = "decode" THEN batch ELSE Decoded(stops)
      OBVIOUS
    <3>2. PICK n : n = IF point \in {"prefill", "build"} THEN Admits(q) ELSE 0
      OBVIOUS
    <3>3. ContainMemory(Behind(n), b) \/ LetThrough(kind, Behind(n), b)
      BY <1>1, <1>7, <3>1, <3>2 DEF TickThrows
    <3> QED
      BY <3>2, <3>3
  <2>2. AllButOne(Behind(n)) /\ Behind(n) \in Seq(PendingRows)
    BY <1>4, <2>1
  <2>3. pending' = Behind(n) \/ \E u : pending' = <<Replay(u)>> \o Behind(n)
    <3>1. CASE LetThrough(kind, Behind(n), b)
      BY <3>1 DEF LetThrough, KeepRows
    <3>2. CASE ContainMemory(Behind(n), b)
      BY <3>2 DEF ContainMemory, KeepRows, FailRow, Rebuild
    <3> QED
      BY <2>1, <3>1, <3>2
  <2>4. ASSUME NEW u, pending' = <<Replay(u)>> \o Behind(n) PROVE AllButOne(pending')
    BY <2>2, <2>4, FrontKeeps
  <2> QED
    BY <2>2, <2>3, <2>4
<1> QED
  BY <1>6, <1>7

\* While rows decode, the memory does not fit and the width has room, a tick admits
\* one row at most.
THEOREM Serial == Spec => CeilingIsSerial
<1>1. ASSUME Inv, [Next]_vars, pc = "step", Weighs(pending), ~fits
      PROVE  AllButOne(pending')
  <2>1. AllButOne(pending)
    BY DEF AllButOne
  <2>2. CASE pending' = pending
    BY <2>1, <2>2
  <2>3. ASSUME NEW cut \in Cuts, NEW stops,
               \/ Tick(cut, stops)
               \/ \E kind \in {"memory", "gpu", "other"}, point \in Points :
                    TickThrows(kind, point, cut, stops)
        PROVE  AllButOne(pending')
    BY <1>1, <2>3, TickIsSerial
  <2>4. ASSUME NEW r, TimeOut(r) \/ Close(r) \/ Submit(r) PROVE pending' = pending
    BY <2>4 DEF TimeOut, Close, Submit, Leave
  <2>5. ASSUME UNCHANGED vars PROVE pending' = pending
    BY <2>5 DEF vars
  <2>6. ~Collect /\ ~EmbedRaises /\ ~Govern /\ ~Deliver /\ ~Raise /\ \A bad : ~Insert(bad)
    BY <1>1 DEF Collect, EmbedRaises, Govern, Deliver, Raise, Insert
  <2> QED
    BY <1>1, <2>2, <2>3, <2>4, <2>5, <2>6 DEF Next, Engine
<1>2. ASSUME Inv, [Next]_vars
      PROVE  [pc = "step" /\ Weighs(pending) /\ ~fits =>
                \E x : Uids(Elems(pending)) \subseteq Uids(Elems(pending')) \cup {x}]_vars
  BY <1>1, <1>2 DEF AllButOne
<1> QED
  BY <1>2, Rows, PTL DEF Spec, CeilingIsSerial

-----------------------------------------------------------------------------
(* The types of every variable.                                            *)

\* Every prompt that waits has a chunk, and the prompt batch a number of them.
Chunky(q) == \A i \in DOMAIN q : q[i].len > 0
Chunks == prompt.left \in Nat /\ Chunky(pending)

\* The gates' credits, the pacer's debt, the guard's counts.
Counters ==
  /\ DOMAIN deferred \subseteq Nat /\ \A u \in DOMAIN deferred : deferred[u] \in Nat
  /\ owed \in 0..MaxOwed /\ fits \in BOOLEAN
  /\ rebuilt \subseteq Nat /\ lastVictim \in Nat
  /\ failStreak \in 0..2 /\ faultStreak \in 0..1

\* What the threads say to each other, and what has happened.
Sayings ==
  /\ cancelled \subseteq [uid : Nat, by : Requests]
  /\ out \subseteq [uid : Nat, last : BOOLEAN]
  /\ mailbox \subseteq [uid : Nat, mine : BOOLEAN]
Bounds ==
  /\ dropped \subseteq Requests
  /\ trouble \in 0..MaxTrouble /\ closes \in 0..MaxCloses

Rest == Chunks /\ Counters /\ Sayings /\ Bounds

\* What the other invariant knows of the rows, for these.
LEMMA KnownRows ==
  ASSUME Inv
  PROVE  /\ owner \in Seq(Requests) /\ pending \in Seq(PendingRows)
         /\ \A i \in DOMAIN pending : pending[i].uid \in Nat /\ pending[i].len \in Nat
         /\ \A x \in batch : x.uid \in Nat /\ x.uid \in DOMAIN owner
         /\ active \subseteq DOMAIN owner /\ taken \in Seq(Requests)
         /\ ledger \in [DOMAIN ledger -> Nat]
<1>1. /\ owner \in Seq(Requests) /\ pending \in Seq(PendingRows) /\ batch \subseteq BatchRows
      /\ \A x \in batch : x.uid \in DOMAIN owner
      /\ ledger \in [DOMAIN ledger -> Nat]
  BY DEF Inv, RowsOK, Typed, Priced
<1>2. active \subseteq DOMAIN owner /\ taken \in Seq(Requests)
  BY DEF Inv, Types
<1>3. \A i \in DOMAIN pending : pending[i].uid \in Nat /\ pending[i].len \in Nat
  <2>1. \A i \in DOMAIN pending : pending[i] \in PendingRows
    BY <1>1
  <2> QED
    BY <2>1 DEF PendingRows
<1> QED
  BY <1>1, <1>2, <1>3 DEF BatchRows

\* Trouble comes within its bound.
LEMMA ComesTo ==
  ASSUME Bounds, NEW kind, Comes(kind)
  PROVE  trouble' \in 0..MaxTrouble
<1>1. Cost[kind] \in Nat /\ trouble + Cost[kind] <= MaxTrouble /\ MaxTrouble \in Nat
  BY EngineAssumption DEF Comes
<1> QED
  BY <1>1 DEF Comes, Bounds

\* The chunks of a prompt batch that forms from a queue.
LEMMA FormingLeft ==
  ASSUME Inv, Chunks, NEW q, prompt.rows = {} => Admits(q) \in 1..Len(pending)
  PROVE  Forming(q).left \in Nat
<1>1. CASE prompt.rows # {}
  BY <1>1 DEF Forming, Chunks
<1>2. CASE prompt.rows = {}
  <2> DEFINE n == Admits(q)
             S == {pending[i].len : i \in 1..n}
  <2>1. n \in Nat /\ 1 <= n /\ 1..n \subseteq DOMAIN pending
    BY <1>2, KnownRows
  <2>2. Forming(q).left = Max(S) - 1
    BY <1>2 DEF Forming
  <2> HIDE DEF n
  <2>3. \A i \in 1..n : pending[i].len \in Nat /\ pending[i].len > 0
    BY <2>1, KnownRows DEF Chunks, Chunky
  <2>4. IsFiniteSet(S)
    <3> DEFINE f == [i \in 1..n |-> pending[i].len]
    <3>1. f \in Surjection(1..n, S)
      BY DEF Surjection
    <3>2. IsFiniteSet(1..n)
      BY <2>1, FS_Interval
    <3> QED
      BY <3>1, <3>2, FS_Surjection
  <2>5. S \in SUBSET Nat /\ \A s \in S : s > 0
    BY <2>3
  <2>6. S # {}
    <3>1. pending[1].len \in S
      BY <2>1
    <3> QED
      BY <3>1
  <2> HIDE DEF S
  <2>7. PICK m \in S : \A x \in S : x <= m
    BY <2>4, <2>5, <2>6, GreatestExists
  <2>8. \A y \in S : m >= y
    BY <2>5, <2>7
  <2>9. Max(S) \in S
    BY <2>7, <2>8 DEF Max
  <2>10. Max(S) \in Nat /\ Max(S) > 0
    BY <2>5, <2>9
  <2>11. Max(S) - 1 \in Nat
    BY <2>10
  <2> QED
    BY <2>2, <2>11
<1> QED
  BY <1>1, <1>2

\* The charges of the gate.
LEMMA ChargedType ==
  ASSUME Inv, Counters, NEW cut \in 0..Len(pending)
  PROVE  LET c == Charged(SubSeq(pending, 1, cut)) IN
         DOMAIN c \subseteq Nat /\ \A u \in DOMAIN c : c[u] \in Nat
<1> DEFINE q == SubSeq(pending, 1, cut)
           C == IF Declines(q) THEN Candidates(q) ELSE {}
           D == DOMAIN deferred \cap Uids(Elems(q))
           c == [u \in D \cup C |-> Credit(u) + IF u \in C THEN 1 ELSE 0]
<1>1. /\ q \in Seq(PendingRows) /\ DOMAIN q = 1..cut /\ Len(q) = cut
      /\ \A i \in 1..cut : q[i] = pending[i] /\ i \in DOMAIN pending
  BY KnownRows, CutSeq
<1>2. Candidates(q) \subseteq Nat
  <2> HIDE DEF q
  <2>1. \A i \in 1..Lesser(PrefillBatch, Len(q)) : i \in 1..cut
    BY <1>1, EngineAssumption DEF Lesser
  <2> QED
    BY <1>1, <2>1, KnownRows DEF Candidates
<1>3. \A u \in Nat : Credit(u) \in Nat
  BY DEF Credit, Counters
<1>4. C \subseteq Nat /\ D \subseteq Nat
  BY <1>2 DEF Counters
<1> HIDE DEF C, D
<1>5. DOMAIN c \subseteq Nat /\ \A u \in DOMAIN c : c[u] \in Nat
  <2>1. DOMAIN c = D \cup C
    OBVIOUS
  <2>2. ASSUME NEW u \in D \cup C PROVE c[u] \in Nat
    <3>1. Credit(u) \in Nat
      BY <1>3, <1>4
    <3>2. c[u] = Credit(u) + IF u \in C THEN 1 ELSE 0
      OBVIOUS
    <3> QED
      BY <3>1, <3>2
  <2> QED
    BY <1>4, <2>1, <2>2
<1>6. Charged(q) = deferred \/ Charged(q) = c
  BY DEF Charged, C, D
<1> HIDE DEF q, c
<1>7. DOMAIN Charged(q) \subseteq Nat /\ \A u \in DOMAIN Charged(q) : Charged(q)[u] \in Nat
  BY <1>5, <1>6 DEF Counters
<1> QED
  BY <1>7 DEF q

\* What the ladder leaves of the rows and says of them.
LadderTypes(q) ==
  /\ Chunky(pending') /\ rebuilt' \subseteq Nat /\ mailbox' \subseteq [uid : Nat, mine : BOOLEAN]

\* Each rung keeps the types.
LEMMA LadderType ==
  ASSUME Inv, Rest, NEW q \in Seq(PendingRows), Chunky(q), NEW b, NEW u,
         KeepRows(q, b) \/ (u \in DOMAIN owner /\ (Rebuild(u, q, b) \/ FailRow(u, q, b)))
  PROVE  LadderTypes(q)
<1>1. CASE KeepRows(q, b)
  BY <1>1 DEF KeepRows, LadderTypes, Rest, Counters, Sayings
<1>2. CASE u \in DOMAIN owner /\ FailRow(u, q, b)
  <2>1. u \in Nat
    BY <1>2, KnownRows
  <2>2. [uid |-> u, mine |-> TRUE] \in [uid : Nat, mine : BOOLEAN]
    BY <2>1
  <2>3. /\ pending' = q /\ rebuilt' = rebuilt
        /\ mailbox' = mailbox \cup {[uid |-> u, mine |-> TRUE]}
    BY <1>2 DEF FailRow
  <2>4. mailbox' \subseteq [uid : Nat, mine : BOOLEAN]
    BY <2>2, <2>3 DEF Rest, Sayings
  <2> QED
    BY <2>3, <2>4 DEF LadderTypes, Rest, Counters
<1>3. CASE u \in DOMAIN owner /\ Rebuild(u, q, b)
  <2>1. u \in Nat /\ owner[u] \in Requests
    BY <1>3, KnownRows
  <2>2. mailbox' = mailbox
    BY <1>3 DEF Rebuild
  <2>3. CASE u \in DOMAIN ledger /\ Remaining(u) > 0
    <3> DEFINE r == Replay(u)
    <3>1. pending' = <<r>> \o q /\ rebuilt' = rebuilt \cup {u}
      BY <1>3, <2>3 DEF Rebuild
    <3>2. r.len > 0
      <4>1. Prompt[owner[u]] \in Nat \ {0} /\ ledger[u] \in Nat
        BY <2>1, <2>3, KnownRows, EngineAssumption
      <4> QED
        BY <4>1 DEF Replay
    <3> HIDE DEF r
    <3>3. ASSUME NEW i \in DOMAIN (<<r>> \o q) PROVE (<<r>> \o q)[i].len > 0
      <4>1. i \in 1..(1 + Len(q)) /\ (<<r>> \o q)[i] = IF i = 1 THEN r ELSE q[i - 1]
        BY <3>3
      <4> QED
        BY <3>2, <4>1 DEF Chunky
    <3> QED
      BY <2>1, <2>2, <3>1, <3>3 DEF LadderTypes, Chunky, Rest, Counters, Sayings
  <2>4. CASE ~(u \in DOMAIN ledger /\ Remaining(u) > 0)
    <3>1. pending' = q /\ rebuilt' = rebuilt
      BY <1>3, <2>4 DEF Rebuild
    <3> QED
      BY <2>2, <3>1 DEF LadderTypes, Rest, Counters, Sayings
  <2> QED
    BY <2>3, <2>4
<1> QED
  BY <1>1, <1>2, <1>3

-----------------------------------------------------------------------------
(* The steps.                                                              *)

\* Nothing is owed, said or lost before the first step.
LEMMA RestInit == ASSUME Init PROVE Rest
<1>1. Chunks
  BY DEF Init, Chunks, Chunky, NoPrompt
<1>2. Counters
  BY EngineAssumption DEF Init, Counters, Empty
<1>3. Sayings /\ Bounds
  BY EngineAssumption DEF Init, Sayings, Bounds
<1> QED
  BY <1>1, <1>2, <1>3 DEF Rest

\* A client's close is heard within its bound.
LEMMA ClientRest ==
  ASSUME Inv, Rest, NEW r \in Requests, Submit(r) \/ Close(r) \/ TimeOut(r)
  PROVE  Rest'
<1>1. UNCHANGED <<pending, prompt, deferred, owed, fits, rebuilt, lastVictim, failStreak,
                  faultStreak, out, mailbox, dropped, trouble>>
  BY DEF Submit, Close, TimeOut, Leave, rows, gates, guard, history
<1>2. cancelled' = cancelled \/ cancelled' = cancelled \cup {[uid |-> uidOf[r], by |-> r]}
  BY DEF Submit, Close, TimeOut, Leave
<1>3. [uid |-> uidOf[r], by |-> r] \in [uid : Nat, by : Requests]
  BY DEF Inv, Types
<1>4. closes' \in 0..MaxCloses
  <2>1. closes \in 0..MaxCloses /\ MaxCloses \in Nat
    BY EngineAssumption DEF Rest, Bounds
  <2> QED
    BY <2>1 DEF Submit, Close, TimeOut, Leave, history
<1>5. Chunks' /\ Counters'
  BY <1>1 DEF Rest, Chunks, Chunky, Counters
<1>6. Sayings'
  BY <1>1, <1>2, <1>3 DEF Rest, Sayings
<1> QED
  BY <1>1, <1>4, <1>5, <1>6 DEF Rest, Bounds

\* What is picked out of the queue has its chunks.
LEMMA CollectRest == ASSUME Inv, Rest, Collect PROVE Rest'
<1>1. /\ UNCHANGED <<deferred, owed, fits, rebuilt, lastVictim, failStreak, faultStreak, out,
                     mailbox, dropped, trouble, closes>>
      /\ cancelled' = {}
  BY DEF Collect, gates, guard, history
<1>2. prompt' = prompt \/ prompt' = NoPrompt
  BY DEF Collect, PromptWithout
<1>3. PICK K \in SUBSET DOMAIN pending : pending' \in Selections(pending, K)
  BY DEF Collect
<1>4. PICK n, f : n \in Nat /\ ReadsAt(pending', pending, K, n, f)
  BY <1>3, KnownRows, PickSeq
<1>5. Chunky(pending')
  BY <1>4 DEF ReadsAt, Rest, Chunks, Chunky
<1>6. Chunks'
  BY <1>2, <1>5 DEF Chunks, Rest, NoPrompt
<1>7. Counters' /\ Sayings'
  BY <1>1 DEF Rest, Counters, Sayings
<1> QED
  BY <1>1, <1>6, <1>7 DEF Rest, Bounds

\* A generator made anew counts from nothing.
LEMMA FreshCounters ==
  ASSUME FreshGenerator, fits' \in BOOLEAN
  PROVE  Counters'
  BY EngineAssumption DEF FreshGenerator, Counters, Empty

\* What joins two sequences is in one of them.
LEMMA JoinSeq ==
  ASSUME NEW T, NEW s \in Seq(T), NEW t \in Seq(T), NEW k \in DOMAIN (s \o t)
  PROVE  \/ k \in DOMAIN s /\ (s \o t)[k] = s[k]
         \/ k - Len(s) \in DOMAIN t /\ (s \o t)[k] = t[k - Len(s)]
<1>1. /\ Len(s) \in Nat /\ Len(t) \in Nat /\ DOMAIN s = 1..Len(s) /\ DOMAIN t = 1..Len(t)
      /\ k \in 1..(Len(s) + Len(t))
      /\ (s \o t)[k] = IF k <= Len(s) THEN s[k] ELSE t[k - Len(s)]
  OBVIOUS
<1> QED
  BY <1>1

\* A new row has the chunks of its prompt.
LEMMA InsertRest == ASSUME Inv, Rest, NEW bad, Insert(bad) PROVE Rest'
<1>1. UNCHANGED <<prompt, fits, out, mailbox, cancelled, dropped, closes>>
  BY DEF Insert
<1>2. trouble' \in 0..MaxTrouble
  BY ComesTo DEF Insert, Rest, Bounds
<1>3. Counters'
  <2>1. FreshGenerator \/ UNCHANGED <<deferred, owed, rebuilt, lastVictim, failStreak, faultStreak>>
    BY DEF Insert
  <2> QED
    BY <1>1, <2>1, FreshCounters DEF Rest, Counters
<1> DEFINE turn == taken # <<>> /\ active = {} /\ ~HasWork
<1>4. \E good \in Selections(taken, {i \in DOMAIN taken : taken[i] \notin bad}) :
        Inserts(IF turn THEN <<>> ELSE owner, IF turn THEN Empty ELSE ledger, good, bad)
  BY DEF Insert, Inserts, NewRows
<1>5. PICK good \in Selections(taken, {i \in DOMAIN taken : taken[i] \notin bad}),
           base \in {owner, <<>>} :
          IF good = <<>> THEN pending' = pending
          ELSE \E f \in SortingOrders(pending \o NewRows(base, good)) :
                 pending' = [i \in DOMAIN (pending \o NewRows(base, good)) |->
                               (pending \o NewRows(base, good))[f[i]]]
  <2> HIDE DEF turn
  <2>1. PICK base \in {owner, <<>>} : base = IF turn THEN <<>> ELSE owner
    OBVIOUS
  <2>2. PICK good \in Selections(taken, {i \in DOMAIN taken : taken[i] \notin bad}) :
          Inserts(base, IF turn THEN Empty ELSE ledger, good, bad)
    BY <1>4, <2>1
  <2> QED
    BY <2>2 DEF Inserts
<1>6. good \in Seq(Requests)
  BY KnownRows, PickSeq
<1>7. Chunky(pending')
  <2>1. CASE good = <<>>
    BY <1>5, <2>1 DEF Rest, Chunks
  <2>2. CASE good # <<>>
    <3> DEFINE new == NewRows(base, good)
               queue == pending \o new
    <3>1. PICK f \in SortingOrders(queue) : pending' = [i \in DOMAIN queue |-> queue[f[i]]]
      BY <1>5, <2>2
    <3>2. new \in Seq(PendingRows) /\ \A i \in DOMAIN new : new[i].len > 0
      <4>1. Len(good) \in Nat /\ Len(base) \in Nat
        BY <1>6, KnownRows
      <4>2. \A i \in 1..Len(good) :
              /\ Len(base) + i \in Nat /\ Prompt[good[i]] \in Nat /\ Prompt[good[i]] > 0
              /\ Budget[good[i]] \in Nat
        <5>1. \A i \in 1..Len(good) : good[i] \in Requests
          BY <1>6
        <5> QED
          BY <4>1, <5>1, EngineAssumption
      <4> QED
        BY <4>1, <4>2 DEF NewRows, PendingRows
    <3>3. pending \in Seq(PendingRows) /\ \A i \in DOMAIN pending : pending[i].len > 0
      BY KnownRows DEF Rest, Chunks, Chunky
    <3>5. f \in [DOMAIN queue -> DOMAIN queue]
      BY <3>1 DEF SortingOrders, Bijection, Injection
    <3> HIDE DEF new
    <3>6. ASSUME NEW k \in DOMAIN queue PROVE queue[k].len > 0
      BY <3>2, <3>3, JoinSeq
    <3> HIDE DEF queue
    <3> QED
      BY <3>1, <3>5, <3>6 DEF Chunky
  <2> QED
    BY <2>1, <2>2
<1>8. Chunks' /\ Sayings'
  BY <1>1, <1>7 DEF Rest, Chunks, Sayings
<1> QED
  BY <1>1, <1>2, <1>3, <1>8 DEF Rest, Bounds

\* The loop's except leaves nothing.
LEMMA ErrorRest == ASSUME Inv, Rest, Raise \/ EmbedRaises PROVE Rest'
<1>1. PICK shed : LoopError(shed)
  BY DEF Raise, EmbedRaises
<1>2. /\ FreshGenerator /\ fits' = TRUE /\ pending' = <<>> /\ prompt' = NoPrompt
      /\ UNCHANGED <<cancelled, out, dropped, closes>>
  BY <1>1 DEF LoopError
<1>3. mailbox' = {} \/ mailbox' = mailbox
  BY DEF Raise, EmbedRaises
<1>4. trouble' \in 0..MaxTrouble
  BY ComesTo DEF Raise, EmbedRaises, Rest, Bounds
<1>5. Chunks' /\ Counters' /\ Sayings'
  BY <1>2, <1>3, FreshCounters DEF Chunks, Chunky, NoPrompt, Rest, Sayings
<1> QED
  BY <1>2, <1>4, <1>5 DEF Rest, Bounds

\* A victim is numbered.
LEMMA VictimUid ==
  ASSUME Inv, NEW b, \A y \in b : y.uid \in Uids(batch), NEW x \in Victim(b)
  PROVE  x.uid \in Nat /\ x.uid \in DOMAIN owner
<1>1. x.uid \in Uids(batch)
  BY VictimIsRow
<1> QED
  BY <1>1, KnownRows DEF Uids

\* The governor's part.
LEMMA GovernRest == ASSUME Inv, Rest, Govern PROVE Rest'
<1>1. UNCHANGED <<prompt, cancelled, deferred, owed, failStreak, faultStreak, out, dropped, closes>>
  BY DEF Govern, clients, queues
<1>2. fits' \in BOOLEAN
  BY DEF Govern
<1>3. \A y \in batch : y.uid \in Uids(batch)
  BY DEF Uids
<1>4. /\ lastVictim' \in Nat /\ trouble' \in 0..MaxTrouble
      /\ \E u : KeepRows(pending, batch) \/ (u \in DOMAIN owner /\ (Rebuild(u, pending, batch) \/ FailRow(u, pending, batch)))
  <2>1. CASE KeepRows(pending, batch) /\ UNCHANGED <<lastVictim, trouble>>
    BY <2>1 DEF Rest, Counters, Bounds
  <2>2. ASSUME NEW x \in Victim(batch), lastVictim' = x.uid,
               \/ Comes("retire") /\ Rebuild(x.uid, pending, batch)
               \/ Comes("fail") /\ FailRow(x.uid, pending, batch)
        PROVE  /\ lastVictim' \in Nat /\ trouble' \in 0..MaxTrouble
               /\ \E u : u \in DOMAIN owner /\ (Rebuild(u, pending, batch) \/ FailRow(u, pending, batch))
    BY <1>3, <2>2, VictimUid, ComesTo DEF Rest
  <2> QED
    BY <2>1, <2>2 DEF Govern
<1>5. LadderTypes(pending)
  BY <1>4, KnownRows, LadderType DEF Rest, Chunks
<1>6. Chunks' /\ Counters' /\ Sayings'
  BY <1>1, <1>2, <1>4, <1>5 DEF Rest, LadderTypes, Chunks, Counters, Sayings
<1> QED
  BY <1>1, <1>4, <1>6 DEF Rest, Bounds
\* The rows that wait behind the first n have their chunks.
LEMMA BehindChunky ==
  ASSUME Inv, Chunks, NEW n \in 0..Len(pending)
  PROVE  Behind(n) \in Seq(PendingRows) /\ Chunky(Behind(n))
<1>1. pending \in Seq(PendingRows) /\ DOMAIN pending = 1..Len(pending) /\ Len(pending) \in Nat
  BY KnownRows
<1>2. PICK s : s = Behind(n)
  OBVIOUS
<1>3. /\ s \in Seq(PendingRows) /\ DOMAIN s = 1..(Len(pending) - n)
      /\ \A i \in 1..(Len(pending) - n) : s[i] = pending[n + i]
  BY <1>1, <1>2, CutSeq DEF Behind
<1>4. \A i \in 1..(Len(pending) - n) : n + i \in DOMAIN pending
  BY <1>1
<1> QED
  BY <1>2, <1>3, <1>4 DEF Chunks, Chunky

\* Where the queue is cut.
LEMMA CutWithin ==
  ASSUME Inv, NEW cut \in Cuts
  PROVE  cut \in 0..Len(pending)
<1>1. Len(pending) \in Nat
  BY KnownRows
<1> QED
  BY <1>1, EngineAssumption DEF Cuts, Lesser

\* A prompt batch forms of one row at least.
LEMMA PrefillsSome ==
  ASSUME Inv, NEW cut \in Cuts, NEW b, Prefills(SubSeq(pending, 1, cut), b)
  PROVE  prompt.rows = {} => Admits(SubSeq(pending, 1, cut)) \in 1..Len(pending)
<1>1. PICK q : q = SubSeq(pending, 1, cut)
  OBVIOUS
<1>2. Admits(q) \in 0..Len(pending)
  BY <1>1, KnownRows, AdmitsFew
<1>3. ASSUME prompt.rows = {} PROVE Admits(q) > 0
  <2>1. Passed(q) # <<>>
    BY <1>1, <1>3 DEF Prefills
  <2>2. pending \in Seq(PendingRows) /\ cut \in 0..Len(pending)
    BY KnownRows, CutWithin
  <2>3. q \in Seq(PendingRows)
    BY <1>1, <2>2
  <2>4. Passed(q) = q \/ Passed(q) = <<Head(q)>>
    BY <2>1 DEF Passed
  <2>5. Len(Passed(q)) \in Nat /\ Len(Passed(q)) > 0
    BY <2>1, <2>3, <2>4
  <2> QED
    BY <1>3, <2>5, EngineAssumption DEF Admits, Lesser
<1> QED
  BY <1>1, <1>2, <1>3

\* A tick that returns.
LEMMA TickRest ==
  ASSUME Inv, Rest, NEW cut \in Cuts, NEW stops, Tick(cut, stops)
  PROVE  Rest'
<1>1. PICK q : q = SubSeq(pending, 1, cut)
  OBVIOUS
<1>2. /\ UNCHANGED <<cancelled, lastVictim, mailbox, dropped, trouble, closes>>
      /\ failStreak' = 0 /\ faultStreak' = 0 /\ fits' = TRUE
      /\ rebuilt' = rebuilt \ Finished(stops)
  BY DEF Tick, queues, history
<1>3. deferred' = Charged(q)
  BY <1>1 DEF Tick
<1>4. DOMAIN deferred' \subseteq Nat /\ \A u \in DOMAIN deferred' : deferred'[u] \in Nat
  BY <1>1, <1>3, CutWithin, ChargedType DEF Rest
<1>5. owed' \in 0..MaxOwed
  <2>1. owed \in 0..MaxOwed /\ MaxOwed \in Nat
    BY EngineAssumption DEF Rest, Counters
  <2>2. CASE Paced(q)
    BY <1>1, <2>1, <2>2 DEF Tick, Paced
  <2>3. CASE ~Paced(q)
    BY <1>1, <2>1, <2>3 DEF Tick
  <2> QED
    BY <2>2, <2>3
<1>6. out' \subseteq [uid : Nat, last : BOOLEAN]
  <2>1. Uids(batch) \subseteq Nat
    BY KnownRows DEF Uids
  <2>2. \A u \in Uids(batch) : [uid |-> u, last |-> u \in Finished(stops)] \in [uid : Nat, last : BOOLEAN]
    BY <2>1
  <2>3. out' = {[uid |-> u, last |-> u \in Finished(stops)] : u \in Uids(batch)}
    BY DEF Tick
  <2> QED
    BY <2>2, <2>3
<1>7. StockTick(q, stops)
  BY <1>1 DEF Tick
<1>8. Chunky(pending') /\ prompt'.left \in Nat
  <2>1. CASE ~Prefills(q, Decoded(stops))
    BY <1>7, <2>1 DEF StockTick, Rest, Chunks
  <2>2. CASE Prefills(q, Decoded(stops))
    <3>1. prompt.rows = {} => Admits(q) \in 1..Len(pending)
      BY <1>1, <2>2, PrefillsSome
    <3>2. Admits(q) \in 0..Len(pending)
      BY <1>1, KnownRows, AdmitsFew
    <3>3. PICK p : p = Forming(q)
      OBVIOUS
    <3>4. p.left \in Nat
      BY <3>1, <3>3, FormingLeft DEF Rest
    <3>5. /\ pending' = Behind(Admits(q))
          /\ \/ p.left > 0 /\ prompt' = [p EXCEPT !.left = @ - 1]
             \/ prompt' = NoPrompt
      BY <1>7, <2>2, <3>3 DEF StockTick
    <3>6. p = [rows |-> p.rows, left |-> p.left]
      BY <3>3 DEF Forming, Inv, Types
    <3>7. prompt'.left \in Nat
      BY <3>4, <3>5, <3>6 DEF NoPrompt
    <3> QED
      BY <3>2, <3>5, <3>7, BehindChunky DEF Rest
  <2> QED
    BY <2>1, <2>2
<1>9. Chunks'
  BY <1>8 DEF Chunks
<1>10. Counters'
  <2>1. rebuilt' \subseteq Nat /\ lastVictim' \in Nat /\ fits' \in BOOLEAN
    BY <1>2 DEF Rest, Counters
  <2>2. failStreak' \in 0..2 /\ faultStreak' \in 0..1
    BY <1>2
  <2> QED
    BY <1>4, <1>5, <2>1, <2>2 DEF Counters
<1>11. Sayings' /\ Bounds'
  BY <1>2, <1>6 DEF Rest, Sayings, Bounds
<1> QED
  BY <1>9, <1>10, <1>11 DEF Rest

\* The rows a decode leaves were in the batch.
LEMMA DecodedUids ==
  ASSUME Inv, NEW stops
  PROVE  \A y \in Decoded(stops) : y.uid \in Uids(batch)
<1>1. \A x \in batch : x = [uid |-> x.uid, num |-> x.num, max |-> x.max]
  BY DEF Inv, RowsOK, Typed, BatchRows
<1>2. \A x \in batch : [x EXCEPT !.num = @ + 1].uid = x.uid
  BY <1>1
<1> QED
  BY <1>2 DEF Decoded, Without, Uids

\* What a fault drops was served.
LEMMA LostRequests ==
  ASSUME Inv, NEW lost
  PROVE  {owner[u] : u \in lost \cap active} \subseteq Requests
BY KnownRows

\* A tick that throws.
LEMMA ThrowRest ==
  ASSUME Inv, Rest, NEW cut \in Cuts, NEW stops, NEW kind, NEW point \in Points,
         TickThrows(kind, point, cut, stops)
  PROVE  Rest'
<1>1. PICK q : q = SubSeq(pending, 1, cut)
  OBVIOUS
<1>2. PICK b : b = IF point = "decode" THEN batch ELSE Decoded(stops)
  OBVIOUS
<1>3. PICK n : n = IF point \in {"prefill", "build"} THEN Admits(q) ELSE 0
  OBVIOUS
<1>4. /\ UNCHANGED <<cancelled, owed, out, closes>> /\ fits' = TRUE
      /\ Comes(kind) /\ deferred' = Charged(q)
      /\ prompt' = IF point = "prefill" THEN Forming(q) ELSE prompt
      /\ point \in {"prefill", "build"} => Prefills(q, b)
      /\ \E lost : dropped' = dropped \cup {owner[u] : u \in lost \cap active}
      /\ ContainMemory(Behind(n), b) \/ LetThrough(kind, Behind(n), b)
  BY <1>1, <1>2, <1>3 DEF TickThrows, queues
<1>5. trouble' \in 0..MaxTrouble
  BY <1>4, ComesTo DEF Rest
<1>6. dropped' \subseteq Requests
  BY <1>4, LostRequests DEF Rest, Bounds
<1>7. DOMAIN deferred' \subseteq Nat /\ \A u \in DOMAIN deferred' : deferred'[u] \in Nat
  BY <1>1, <1>4, CutWithin, ChargedType DEF Rest
<1>8. prompt'.left \in Nat
  <2>1. CASE point # "prefill"
    BY <1>4, <2>1 DEF Rest, Chunks
  <2>2. CASE point = "prefill"
    <3>1. prompt.rows = {} => Admits(q) \in 1..Len(pending)
      BY <1>1, <1>4, <2>2, PrefillsSome
    <3> QED
      BY <1>4, <2>2, <3>1, FormingLeft DEF Rest
  <2> QED
    BY <2>1, <2>2
<1>9. n \in 0..Len(pending)
  BY <1>1, <1>3, KnownRows, AdmitsFew
<1>10. PICK k : k = Behind(n)
  OBVIOUS
<1>11. k \in Seq(PendingRows) /\ Chunky(k)
  BY <1>9, <1>10, BehindChunky DEF Rest
<1>12. \A y \in b : y.uid \in Uids(batch)
  BY <1>2, DecodedUids DEF Uids
<1>13. ContainMemory(k, b) \/ LetThrough(kind, k, b)
  BY <1>4, <1>10
<1>14. /\ lastVictim' \in Nat
       /\ \E u : KeepRows(k, b) \/ (u \in DOMAIN owner /\ (Rebuild(u, k, b) \/ FailRow(u, k, b)))
  <2>1. CASE KeepRows(k, b) /\ UNCHANGED lastVictim
    BY <2>1 DEF Rest, Counters
  <2>2. ASSUME NEW x \in Victim(b), lastVictim' = x.uid, FailRow(x.uid, k, b) \/ Rebuild(x.uid, k, b)
        PROVE  /\ lastVictim' \in Nat
               /\ \E u : u \in DOMAIN owner /\ (Rebuild(u, k, b) \/ FailRow(u, k, b))
    BY <1>12, <2>2, VictimUid
  <2> QED
    BY <1>13, <2>1, <2>2 DEF ContainMemory, LetThrough
<1>15. LadderTypes(k)
  BY <1>11, <1>14, LadderType
<1>16. failStreak' \in 0..2 /\ faultStreak' \in 0..1
  <2>1. failStreak \in 0..2 /\ faultStreak \in 0..1
    BY DEF Rest, Counters
  <2> QED
    BY <1>13, <2>1 DEF ContainMemory, LetThrough, Lesser
<1>17. Chunks' /\ Counters' /\ Sayings'
  BY <1>4, <1>7, <1>8, <1>14, <1>15, <1>16 DEF Rest, LadderTypes, Chunks, Counters, Sayings
<1> QED
  BY <1>4, <1>5, <1>6, <1>17 DEF Rest, Bounds

\* What is delivered is no more to say.
LEMMA DeliverRest == ASSUME Rest, Deliver PROVE Rest'
<1>1. /\ UNCHANGED <<pending, prompt, cancelled, deferred, owed, fits, rebuilt, lastVictim,
                     failStreak, faultStreak, dropped, trouble, closes>>
      /\ out' = {} /\ mailbox' = {}
  BY DEF Deliver, rows, gates, guard, history
<1> QED
  BY <1>1 DEF Rest, Chunks, Chunky, Counters, Sayings, Bounds

\* Every step.
LEMMA NextRest == ASSUME Inv, Rest, [Next]_vars PROVE Rest'
<1>1. CASE UNCHANGED vars
  BY <1>1 DEF vars, queues, rows, gates, guard, history,
              Rest, Chunks, Chunky, Counters, Sayings, Bounds
<1>2. ASSUME NEW bad, Insert(bad) PROVE Rest'
  BY <1>2, InsertRest
<1>3. ASSUME NEW cut \in Cuts, NEW stops, Tick(cut, stops) PROVE Rest'
  BY <1>3, TickRest
<1>4. ASSUME NEW cut \in Cuts, NEW stops, NEW kind, NEW point \in Points,
             TickThrows(kind, point, cut, stops)
      PROVE  Rest'
  BY <1>4, ThrowRest
<1>5. ASSUME NEW r \in Requests, Submit(r) \/ Close(r) \/ TimeOut(r) PROVE Rest'
  BY <1>5, ClientRest
<1>6. CASE Collect \/ EmbedRaises \/ Raise \/ Govern \/ Deliver
  BY <1>6, CollectRest, ErrorRest, GovernRest, DeliverRest
<1> QED
  BY <1>1, <1>2, <1>3, <1>4, <1>5, <1>6 DEF Next, Engine

-----------------------------------------------------------------------------
(* The types.                                                              *)

\* A request is numbered once: there are at most as many uids as requests.
LEMMA OwnersFit ==
  ASSUME Inv
  PROVE  DOMAIN owner \subseteq UidSet
<1>1. owner \in Seq(Requests) /\ Len(owner) \in Nat /\ DOMAIN owner = 1..Len(owner)
  BY KnownRows
<1>2. \A u \in DOMAIN owner : owner[u] \in Requests /\ uidOf[owner[u]] = u
  BY <1>1 DEF Inv, Numbering
<1>3. owner \in Injection(1..Len(owner), Requests)
  BY <1>1, <1>2 DEF Injection, IsInjective
<1>4. IsFiniteSet(Requests)
  BY EngineAssumption
<1>5. Cardinality(Requests) \in Nat
  BY <1>4, FS_CardinalityType
<1>6. IsFiniteSet(1..Len(owner)) /\ Cardinality(1..Len(owner)) <= Cardinality(Requests)
  BY <1>3, <1>4, FS_Injection
<1>7. Cardinality(1..Len(owner)) = Len(owner)
  BY <1>1, FS_Interval
<1> QED
  BY <1>1, <1>5, <1>6, <1>7 DEF UidSet

\* What the invariants say of the types of the rows.
LEMMA RowTypes ==
  ASSUME Inv, Rest
  PROVE  /\ pending \in Seq(PendingRow) /\ batch \subseteq BatchRow
         /\ prompt \in [rows : SUBSET PromptRow, left : Nat]
<1>1. /\ pending \in Seq(PendingRows) /\ batch \subseteq BatchRows
      /\ prompt.rows \subseteq PromptRows
      /\ \A i \in DOMAIN pending : pending[i].uid \in UidSet
      /\ \A x \in prompt.rows \cup batch : x.uid \in UidSet
  BY OwnersFit DEF Inv, RowsOK, Typed
<1>2. \A i \in DOMAIN pending : pending[i].left > 0 /\ pending[i].len > 0
  BY DEF Inv, RowsOK, Priced, Rest, Chunks, Chunky
<1>3. (\A x \in prompt.rows : x.max > 0) /\ \A x \in batch : x.num < x.max
  BY DEF Inv, RowsOK, Priced
<1>4. pending \in Seq(PendingRow)
  <2>1. \A i \in DOMAIN pending : pending[i] \in PendingRows
    BY <1>1
  <2>2. \A i \in DOMAIN pending : pending[i] \in PendingRow
    BY <1>1, <1>2, <2>1 DEF PendingRows, PendingRow
  <2> QED
    BY <1>1, <2>2
<1>5. prompt.rows \subseteq PromptRow
  BY <1>1, <1>3 DEF PromptRows, PromptRow
<1>6. batch \subseteq BatchRow
  BY <1>1, <1>3 DEF BatchRows, BatchRow
<1>7. prompt = [rows |-> prompt.rows, left |-> prompt.left] /\ prompt.left \in Nat
  BY DEF Inv, Types, Rest, Chunks
<1> QED
  BY <1>4, <1>5, <1>6, <1>7

\* What no row, request or gate tells keeps its type too.
THEOREM RestKept == Spec => [](Inv /\ Rest)
<1>1. Init => Inv /\ Rest
  BY InitKeeps, RestInit
<1>2. (Inv /\ Rest) /\ [Next]_vars => (Inv /\ Rest)'
  BY NextKeeps, NextRest
<1> QED
  BY <1>1, <1>2, PTL DEF Spec

\* Every variable of the engine thread keeps its type: a uid is of one request, a
\* row that waits has chunks and a budget left, the pacer owes no more than a chunk
\* allows, no streak passes the rung it stands for.
THEOREM TypesHold == Spec => []TypeOK
<1>1. Inv /\ Rest => TypeOK
  <2> SUFFICES ASSUME Inv, Rest PROVE TypeOK
    OBVIOUS
  <2>1. Types /\ DOMAIN ledger \subseteq Nat /\ \A u \in DOMAIN ledger : ledger[u] \in Nat
    <3>1. DOMAIN ledger \subseteq DOMAIN owner /\ ledger \in [DOMAIN ledger -> Nat]
      BY KnownRows DEF Inv, Ledgered
    <3>2. DOMAIN owner \subseteq Nat
      BY KnownRows
    <3> QED
      BY <3>1, <3>2 DEF Inv
  <2>2. Counters /\ Sayings /\ Bounds
    BY DEF Rest
  <2> QED
    BY <2>1, <2>2, RowTypes DEF TypeOK, Types, Counters, Sayings, Bounds
<1> QED
  BY <1>1, RestKept, PTL
=============================================================================
