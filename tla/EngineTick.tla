----------------------------- MODULE EngineTick -----------------------------
(***************************************************************************)
(* The engine thread of one autoregressive model: the loop of              *)
(* ResponseGenerator._run_impl (_vendor/mlx_vlm/server/generation.py), the *)
(* batch generator's _next (_vendor/mlx_vlm/generate/ar.py) and the        *)
(* wrappers gmlx puts around it: the tick guard, the governor's sheds, the *)
(* fresh gate, the admission gate, the pacer, and the bridge that tells a  *)
(* client of its failed row (patches/row_failed.py).                       *)
(*                                                                         *)
(* One turn of the loop is five steps of pc. Only the engine thread        *)
(* touches the batch. A token is a count; a prompt is its prefill chunks.  *)
(* What the memory allows (fits), when the governor sheds and where a tick *)
(* throws are free. Another engine of the process is in EngineShared.      *)
(*                                                                         *)
(* Left out: speculative batches, embeddings (_flush), prompt caches, the  *)
(* stop of the thread and the jobs (EngineJobs), what sheds an admission   *)
(* past its ceiling asks of the governor.                                  *)
(***************************************************************************)
EXTENDS Integers, Sequences, FiniteSets, FiniteSetsExt, Functions, Selections

CONSTANTS
  Requests,
  Prompt,        \* Prompt[r]: the prefill chunks of r's prompt
  Budget,        \* Budget[r]: its max_tokens
  Width,         \* completion_batch_size
  PrefillBatch,  \* prefill_batch_size
  MaxSeqs,       \* --max-num-seqs
  DeferMax,      \* GMLX_ADMIT_DEFER_MAX_S, in declined ticks
  MaxOwed,       \* bound: the decode ticks owed to a prefill chunk
  Cost,          \* bound: what each kind of trouble that may come counts
  MaxTrouble,    \* bound: how much of it comes
  MaxCloses      \* bound: the clients that close before their end

\* Where an exception leaves _next.
Points == {"decode", "cache", "prefill", "build"}
\* What throws: memory refused, another GPU failure, anything else, a vision
\* encoder, an insert; the sheds of the governor, and another engine's.
TroubleKinds ==
  {"memory", "gpu", "other", "embed", "insert", "retire", "fail", "neighbour"}
Ends == {"open", "finish", "shed", "error", "cancel"}

ASSUME EngineAssumption ==
  /\ IsFiniteSet(Requests)
  /\ Prompt \in [Requests -> Nat \ {0}] /\ Budget \in [Requests -> Nat \ {0}]
  /\ Width \in Nat \ {0} /\ PrefillBatch \in 1..Width /\ MaxSeqs \in Nat \ {0}
  /\ DeferMax \in Nat /\ MaxOwed \in Nat
  /\ DOMAIN Cost \subseteq TroubleKinds /\ (\A k \in DOMAIN Cost : Cost[k] \in Nat \ {0})
  /\ MaxTrouble \in Nat /\ MaxCloses \in Nat

VARIABLES
  client,      \* client[r]: "new", "queued", "streaming" or "closed"
  uidOf,       \* uidOf[r]: the uid its iterator would cancel, 0 before
  got,         \* got[r]: the tokens put on its queue
  end,         \* end[r]: how its queue ended
  waiting,     \* ResponseGenerator.requests
  cancelled,   \* _cancelled, with who closed
  taken,       \* new_items of this turn
  owner,       \* owner[u]: the request the generator numbered u
  active,      \* the uids of the loop's active map
  pending,     \* _unprocessed_sequences
  prompt,      \* _prompt_batch: its rows, and the chunks before its last
  batch,       \* _generation_batch: its rows, whose order tells nothing
  deferred,    \* _kq_admit_deferred_s: uid -> declined ticks charged
  owed,        \* decode ticks the pacer owes to the last chunk
  fits,        \* the memory the gate measures this tick allows its candidates
  ledger,      \* the tick guard's: uid -> tokens committed
  rebuilt, lastVictim, failStreak, faultStreak,
  out,         \* the responses of the tick, not delivered
  mailbox,     \* row_failed._pending, with whose row it was
  pc,
  dropped,     \* history: requests a fault left without their row
  failed,      \* history: requests whose row was failed for good
  trouble, closes

clients == <<client, uidOf, got, end>>
queues == <<waiting, cancelled, taken>>
rows == <<pending, prompt, batch>>
gates == <<deferred, owed, fits>>
guard == <<ledger, rebuilt, lastVictim, failStreak, faultStreak>>
history == <<dropped, failed, trouble, closes>>
vars == <<clients, queues, owner, active, rows, gates, guard, out, mailbox, pc, history>>

NoPrompt == [rows |-> {}, left |-> 0]
Empty == [u \in {} |-> 0]

Init ==
  /\ client = [r \in Requests |-> "new"] /\ uidOf = [r \in Requests |-> 0]
  /\ got = [r \in Requests |-> 0] /\ end = [r \in Requests |-> "open"]
  /\ waiting = <<>> /\ cancelled = {} /\ taken = <<>>
  /\ owner = <<>> /\ active = {}
  /\ pending = <<>> /\ prompt = NoPrompt /\ batch = {}
  /\ deferred = Empty /\ owed = 0 /\ fits = TRUE
  /\ ledger = Empty /\ rebuilt = {} /\ lastVictim = 0
  /\ failStreak = 0 /\ faultStreak = 0
  /\ out = {} /\ mailbox = {} /\ pc = "collect"
  /\ dropped = {} /\ failed = {} /\ trouble = 0 /\ closes = 0

\* Trouble of a kind may come, within the bound.
Comes(kind) ==
  /\ kind \in DOMAIN Cost /\ trouble + Cost[kind] <= MaxTrouble
  /\ trouble' = trouble + Cost[kind]

-----------------------------------------------------------------------------
(* The clients' threads. The queue and _cancelled are all they share with  *)
(* the loop, which reads them in Collect alone: what a client does between *)
(* two other steps commutes to the next Collect, and is taken there.       *)

Submit(r) ==
  /\ pc = "collect" /\ client[r] = "new"
  /\ client' = [client EXCEPT ![r] = "queued"] /\ waiting' = Append(waiting, r)
  /\ UNCHANGED <<uidOf, got, end, cancelled, taken, owner, active, rows, gates, guard,
                 out, mailbox, pc, history>>

\* _TokenIterator.close, of a client that has not read its end, put or not. A
\* client that reads it closes without effect: it stays "streaming" here.
Leave(r) ==
  /\ client[r] = "streaming"
  /\ client' = [client EXCEPT ![r] = "closed"]
  /\ cancelled' = cancelled \cup {[uid |-> uidOf[r], by |-> r]}
  /\ UNCHANGED <<uidOf, got, end, waiting, taken, owner, active, rows, gates, guard,
                 out, mailbox, pc, dropped, failed, trouble>>

Close(r) ==
  /\ pc = "collect" /\ closes < MaxCloses /\ closes' = closes + 1
  /\ Leave(r)

\* No token for MLX_VLM_TOKEN_QUEUE_TIMEOUT: __next__ closes.
TimeOut(r) == r \in dropped /\ end[r] = "open" /\ Leave(r) /\ UNCHANGED closes

-----------------------------------------------------------------------------
(* Rows.                                                                   *)

Uids(X) == {x.uid : x \in X}
Without(X, U) == {x \in X : x.uid \notin U}
Lesser(m, n) == IF m < n THEN m ELSE n
HasWork == pending # <<>> \/ prompt.rows # {} \/ batch # {}
Held == Uids(Elems(pending)) \cup Uids(prompt.rows) \cup Uids(batch)

\* The orders that sort q by prompt length and keep ties as they are.
SortingOrders(q) ==
  {f \in Bijection(DOMAIN q, DOMAIN q) :
     \A i, j \in DOMAIN q : i < j =>
       \/ q[f[i]].len < q[f[j]].len
       \/ q[f[i]].len = q[f[j]].len /\ f[i] < f[j]}

\* Mutant: removing one row of a prompt batch removes the batch.
PromptWithoutAny(U) == IF Uids(prompt.rows) \cap U # {} THEN NoPrompt ELSE prompt

\* BatchGenerator.remove: a row of a prompt batch of several stays.
PromptWithout(U) ==
  IF Cardinality(prompt.rows) = 1 /\ Uids(prompt.rows) \subseteq U THEN NoPrompt ELSE prompt

-----------------------------------------------------------------------------
(* The loop up to the tick.                                                *)

Capacity == IF Cardinality(active) < MaxSeqs THEN MaxSeqs - Cardinality(active) ELSE 0

\* Take requests from the queue, then drop the cancelled rows.
Collect ==
  /\ pc = "collect"
  /\ active # {} \/ waiting # <<>> \/ cancelled # {}
  /\ LET n == Lesser(Len(waiting), Capacity)
         gone == {c.uid : c \in cancelled} \cap active
     IN /\ taken' = SubSeq(waiting, 1, n)
        /\ waiting' = SubSeq(waiting, n + 1, Len(waiting))
        /\ cancelled' = {}
        /\ active' = active \ gone
        /\ pending' \in Selections(pending, {i \in DOMAIN pending : pending[i].uid \notin gone})
        /\ prompt' = PromptWithout(gone)
        /\ batch' = Without(batch, gone)
        /\ end' = [r \in Requests |->
                     IF \E u \in gone : owner[u] = r THEN "cancel" ELSE end[r]]
  /\ pc' = "insert"
  /\ UNCHANGED <<client, uidOf, got, owner, gates, guard, out, mailbox, history>>

\* A generator made for the new requests: everything kept on it starts anew.
FreshGenerator ==
  /\ deferred' = Empty /\ owed' = 0
  /\ rebuilt' = {} /\ lastVictim' = 0 /\ failStreak' = 0 /\ faultStreak' = 0

\* Mutant: each insert numbers its rows from the start.
NumberedAnew(base, good, r) == CHOOSE u \in DOMAIN good : good[u] = r

\* The uid of r when a generator that numbered base inserts good.
Numbered(base, good, r) ==
  CHOOSE u \in 1..(Len(base) + Len(good)) :
    u > Len(base) /\ good[u - Len(base)] = r

\* Mutant: a row that waits again is taken for a new one.
HarvestAnew(l, q) ==
  LET U == Uids(Elems(q)) IN
  [u \in DOMAIN l \cup U |-> IF u \in U THEN 0 ELSE l[u]]

\* _harvest_pending: the ledger opens a row for what is pending.
Harvest(l, q) ==
  [u \in DOMAIN l \cup Uids(Elems(q)) |-> IF u \in DOMAIN l THEN l[u] ELSE 0]

\* Insert the new requests but the bad ones, whose insert raised. The tick
\* that follows opens its ledger first; nothing reads it before.
Insert(bad) ==
  /\ pc = "insert"
  /\ bad \subseteq Elems(taken)
  /\ IF bad = {} THEN UNCHANGED trouble ELSE Comes("insert")
  /\ \E good \in Selections(taken, {i \in DOMAIN taken : taken[i] \notin bad}) :
     LET turnover == taken # <<>> /\ active = {} /\ ~HasWork
         base == IF turnover THEN <<>> ELSE owner
         queue == pending \o [i \in 1..Len(good) |->
                     [uid |-> Len(base) + i, len |-> Prompt[good[i]], left |-> Budget[good[i]]]]
     IN /\ owner' = base \o good
        /\ IF good = <<>> THEN pending' = pending
           ELSE \E f \in SortingOrders(queue) : pending' = [i \in DOMAIN queue |-> queue[f[i]]]
        /\ active' = active \cup ((Len(base) + 1)..(Len(base) + Len(good)))
        /\ ledger' = Harvest(IF turnover THEN Empty ELSE ledger, pending')
        /\ IF turnover THEN FreshGenerator
           ELSE UNCHANGED <<deferred, owed, rebuilt, lastVictim, failStreak, faultStreak>>
        /\ uidOf' = [r \in Requests |-> IF r \in Elems(good) THEN Numbered(base, good, r) ELSE uidOf[r]]
        /\ client' = [r \in Requests |-> IF r \in Elems(good) THEN "streaming" ELSE client[r]]
        /\ end' = [r \in Requests |-> IF r \in bad THEN "error" ELSE end[r]]
  /\ IF active' = {} THEN pc' = "collect" /\ taken' = <<>>
                      ELSE pc' = "govern" /\ UNCHANGED taken
  /\ UNCHANGED <<got, waiting, cancelled, prompt, batch, fits, out, mailbox, dropped,
                 failed, closes>>

\* The loop's except: every active and every new request gets the error, but
\* those already told that their row was shed; the generator is gone.
LoopError(shed) ==
  /\ end' = [r \in Requests |->
               IF end[r] # "open" THEN end[r]
               ELSE IF \E u \in shed : owner[u] = r THEN "shed"
               ELSE IF r \in Elems(taken) \/ \E u \in active : owner[u] = r THEN "error"
               ELSE "open"]
  /\ active' = {} /\ owner' = <<>>
  /\ pending' = <<>> /\ prompt' = NoPrompt /\ batch' = {}
  /\ ledger' = Empty /\ FreshGenerator /\ fits' = TRUE
  /\ taken' = <<>> /\ pc' = "collect"
  /\ UNCHANGED <<client, uidOf, got, waiting, cancelled, out, dropped, failed, closes>>

\* The encoder of a new request raised.
EmbedRaises ==
  /\ pc = "insert" /\ taken # <<>> /\ Comes("embed")
  /\ LoopError({}) /\ UNCHANGED mailbox

-----------------------------------------------------------------------------
(* The tick guard's ladder.                                                *)

Size(x) == x.num + IF x.uid \in DOMAIN ledger THEN Prompt[owner[x.uid]] ELSE 0
Larger(x, y) == Size(x) > Size(y) \/ (Size(x) = Size(y) /\ x.uid > y.uid)
\* The largest row of X: a set of one row, if X has any.
Largest(X) == {x \in X : \A y \in X \ {x} : Larger(x, y)}

\* _pick_victim, a set of one row: the largest, or the second when it is as
\* large and the largest was the last victim.
Victim(b) ==
  UNION {LET second == Largest(b \ {top}) IN
         IF top.uid = lastVictim /\ (\E y \in second : Size(y) = Size(top))
         THEN second ELSE {top} : top \in Largest(b)}

\* Mutant: a replayed row gets its whole budget again.
RemainingAll(u) == Budget[owner[u]]

\* What row u may still emit once it is replayed.
Remaining(u) == Budget[owner[u]] - ledger[u]
Replay(u) ==
  [uid |-> u, len |-> Prompt[owner[u]] + ledger[u], left |-> Remaining(u)]

\* Mutant: the row is queued for its replay and decodes on.
RebuildKeeping(u, q, b) ==
  /\ batch' = b /\ pending' = <<Replay(u)>> \o q
  /\ rebuilt' = rebuilt \cup {u} /\ UNCHANGED <<ledger, mailbox, failed>>

\* _rebuild_row, of a row of b, with q pending.
Rebuild(u, q, b) ==
  /\ batch' = Without(b, {u})
  /\ IF u \in DOMAIN ledger /\ Remaining(u) > 0
     THEN pending' = <<Replay(u)>> \o q /\ rebuilt' = rebuilt \cup {u} /\ UNCHANGED ledger
     ELSE pending' = q /\ UNCHANGED rebuilt /\ ledger' = Restrict(ledger, DOMAIN ledger \ {u})
  /\ UNCHANGED <<mailbox, failed>>

\* Mutant: the failed row stays in the batch.
FailRowKeeping(u, q, b) ==
  /\ batch' = b /\ pending' = q
  /\ ledger' = Restrict(ledger, DOMAIN ledger \ {u})
  /\ mailbox' = mailbox \cup {[uid |-> u, mine |-> TRUE]}
  /\ failed' = failed \cup {owner[u]}
  /\ UNCHANGED rebuilt

\* _fail_row_permanently, and the bridge's _collect.
FailRow(u, q, b) ==
  /\ batch' = Without(b, {u}) /\ pending' = q
  /\ ledger' = Restrict(ledger, DOMAIN ledger \ {u})
  /\ mailbox' = mailbox \cup {[uid |-> u, mine |-> TRUE]}
  /\ failed' = failed \cup {owner[u]}
  /\ UNCHANGED rebuilt

KeepRows(q, b) ==
  batch' = b /\ pending' = q /\ UNCHANGED <<ledger, rebuilt, mailbox, failed>>

\* The governor's part of a tick: nothing, a row retired, or a row failed.
Govern ==
  /\ pc = "govern"
  /\ \/ KeepRows(pending, batch) /\ UNCHANGED <<lastVictim, trouble>>
     \/ \E x \in Victim(batch) :
          /\ lastVictim' = x.uid
          /\ \/ Comes("retire") /\ Rebuild(x.uid, pending, batch)
             \/ Comes("fail") /\ FailRow(x.uid, pending, batch)
  /\ fits' \in IF pending' # <<>> /\ batch' # {} THEN BOOLEAN ELSE {TRUE}
  /\ pc' = "step"
  /\ UNCHANGED <<clients, queues, owner, active, prompt, deferred, owed, failStreak,
                 faultStreak, out, dropped, closes>>

-----------------------------------------------------------------------------
(* A tick: the gates decide what the stock body sees of the queue.         *)

\* A prompt batch could form from q.
MayForm(q) ==
  q # <<>> /\ prompt.rows = {} /\ Width - Cardinality(batch) >= PrefillBatch

\* Mutant: the queue may be cut before its head.
CutsAny == 0..Len(pending)

\* fresh_gate: the queue is cut before a follower, never before the head.
Cuts ==
  {Len(pending)} \cup
    (IF MayForm(pending) THEN 1..(Lesser(PrefillBatch, Len(pending)) - 1) ELSE {})

Weighs(q) == MayForm(q) /\ batch # {}
Candidates(q) == {q[i].uid : i \in 1..Lesser(PrefillBatch, Len(q))}
Credit(u) == IF u \in DOMAIN deferred THEN deferred[u] ELSE 0
PastCeiling(q) == \E u \in Candidates(q) : Credit(u) > DeferMax
Declines(q) == Weighs(q) /\ ~fits /\ ~PastCeiling(q)

\* The pending rows the stock body sees of q: all, the head alone, or none.
Passed(q) ==
  IF Declines(q) THEN <<>>
  ELSE IF Weighs(q) /\ ~fits THEN <<Head(q)>> ELSE q

\* A declined tick is charged to each candidate; others' charges are pruned.
Charged(q) ==
  LET charge == IF Declines(q) THEN Candidates(q) ELSE {} IN
  IF ~Weighs(q) THEN deferred
  ELSE [u \in (DOMAIN deferred \cap Uids(Elems(q))) \cup charge |->
          Credit(u) + IF u \in charge THEN 1 ELSE 0]

LastColumn == prompt.rows # {} /\ prompt.left = 0
\* Mutant: it hides it whether or not decode is owed.
PacedAlways(q) == batch # {} /\ ~LastColumn /\ (prompt.rows # {} \/ Passed(q) # <<>>)

\* The pacer hides the prompt work while decode is owed.
Paced(q) ==
  /\ owed > 0 /\ batch # {} /\ ~LastColumn
  /\ prompt.rows # {} \/ Passed(q) # <<>>

\* GenerationBatch.next: every row emits; the rows in stops emit a stop token.
Finishes(x, stops) == x.num + 1 >= x.max \/ x.uid \in stops
Finished(stops) == Uids({x \in batch : Finishes(x, stops)})
Decoded(stops) ==
  Without({[x EXCEPT !.num = @ + 1] : x \in batch}, Finished(stops))

\* The prefill arm runs after a decode that leaves b.
Prefills(q, b) ==
  /\ ~Paced(q) /\ Cardinality(b) < Width
  /\ prompt.rows # {} \/ (Passed(q) # <<>> /\ Width - Cardinality(b) >= PrefillBatch)

\* How many pending rows it takes, and the prompt batch it works on.
Admits(q) == IF prompt.rows # {} THEN 0 ELSE Lesser(PrefillBatch, Len(Passed(q)))
Forming(q) ==
  IF prompt.rows # {} THEN prompt
  ELSE [rows |-> {[uid |-> pending[i].uid, max |-> pending[i].left] : i \in 1..Admits(q)},
        left |-> Max({pending[i].len : i \in 1..Admits(q)}) - 1]
Joined(p) == {[uid |-> x.uid, num |-> 0, max |-> x.max] : x \in p.rows}
Behind(n) == SubSeq(pending, n + 1, Len(pending))

\* The rows after a tick without a fault.
StockTick(q, stops) ==
  LET b == Decoded(stops)
      p == Forming(q)
  IN IF ~Prefills(q, b)
     THEN batch' = b /\ UNCHANGED <<pending, prompt>>
     ELSE /\ pending' = Behind(Admits(q))
          /\ IF p.left > 0
             THEN batch' = b /\ prompt' = [p EXCEPT !.left = @ - 1]
             ELSE batch' = b \cup Joined(p) /\ prompt' = NoPrompt

\* The tick returns: the guard clears its streaks and commits each token.
Tick(cut, stops) ==
  /\ pc = "step"
  /\ LET q == SubSeq(pending, 1, cut) IN
     /\ StockTick(q, stops)
     /\ deferred' = Charged(q)
     /\ IF Paced(q) THEN owed' = owed - 1
        ELSE IF Prefills(q, Decoded(stops)) /\ ~LastColumn THEN owed' \in 0..MaxOwed
        ELSE owed' = owed
  /\ out' = {[uid |-> u, last |-> u \in Finished(stops)] : u \in Uids(batch)}
  /\ ledger' = [u \in DOMAIN ledger \ Finished(stops) |->
                  ledger[u] + IF u \in Uids(batch) THEN 1 ELSE 0]
  /\ rebuilt' = rebuilt \ Finished(stops)
  /\ failStreak' = 0 /\ faultStreak' = 0 /\ fits' = TRUE
  /\ pc' = "deliver"
  /\ UNCHANGED <<clients, queues, owner, active, lastVictim, mailbox, history>>

\* _contain: the first failure retries, a repeat makes room.
ContainMemory(q, b) ==
  /\ failStreak' = Lesser(failStreak + 1, 2) /\ UNCHANGED faultStreak /\ pc' = "deliver"
  /\ IF failStreak = 0 \/ b = {}
     THEN KeepRows(q, b) /\ UNCHANGED lastVictim
     ELSE \E x \in Victim(b) :
          /\ lastVictim' = x.uid
          /\ IF x.uid \in rebuilt THEN FailRow(x.uid, q, b) ELSE Rebuild(x.uid, q, b)

\* _contain_fault: a second GPU fault in a row goes through, as any other.
LetThrough(kind, q, b) ==
  /\ KeepRows(q, b) /\ UNCHANGED <<lastVictim, failStreak>>
  /\ IF kind = "gpu" /\ faultStreak = 0
     THEN faultStreak' = 1 /\ pc' = "deliver"
     ELSE UNCHANGED faultStreak /\ pc' = "raise"

\* The tick throws at a point: in decode, after it before any prefill work is
\* taken (the evaluation of the caches, the merge of cached prompts), in the
\* prefill, or where the rows of a new prompt batch have left the queue and are
\* in no batch. The responses of the decode are lost.
TickThrows(kind, point, cut, stops) ==
  /\ pc = "step" /\ Comes(kind)
  /\ LET q == SubSeq(pending, 1, cut)
         b == IF point = "decode" THEN batch ELSE Decoded(stops)
         n == IF point \in {"prefill", "build"} THEN Admits(q) ELSE 0
         lost == (IF point = "decode" THEN {} ELSE Finished(stops)) \cup
                 (IF point = "build" THEN Uids(Elems(SubSeq(pending, 1, n))) ELSE {})
     IN /\ point \in {"prefill", "build"} => Prefills(q, b)
        /\ point = "build" => n > 0
        /\ prompt' = IF point = "prefill" THEN Forming(q) ELSE prompt
        /\ deferred' = Charged(q)
        /\ dropped' = dropped \cup {owner[u] : u \in lost \cap active}
        /\ \/ kind = "memory" /\ ContainMemory(Behind(n), b)
           \/ kind \in {"gpu", "other"} /\ LetThrough(kind, Behind(n), b)
  /\ fits' = TRUE
  /\ UNCHANGED <<clients, queues, owner, active, owed, out, closes>>

-----------------------------------------------------------------------------
(* After the tick.                                                         *)

\* _step puts each response on its request's queue; then the bridge ends the
\* requests of the failed rows.
Deliver ==
  /\ pc = "deliver"
  /\ LET told == {m.uid : m \in mailbox}
         last == {u \in active : [uid |-> u, last |-> TRUE] \in out}
         shed == (active \ last) \cap told
     IN /\ got' = [r \in Requests |->
                     got[r] + IF \E o \in out : o.uid \in active /\ owner[o.uid] = r
                              THEN 1 ELSE 0]
        /\ end' = [r \in Requests |->
                     IF \E u \in last : owner[u] = r THEN "finish"
                     ELSE IF \E u \in shed : owner[u] = r THEN "shed" ELSE end[r]]
        /\ active' = active \ (last \cup shed)
  /\ out' = {} /\ mailbox' = {} /\ taken' = <<>> /\ pc' = "collect"
  /\ UNCHANGED <<client, uidOf, waiting, cancelled, owner, rows, gates, guard, history>>

\* The tick raised: the bridge ran first.
Raise ==
  /\ pc = "raise"
  /\ LoopError(active \cap {m.uid : m \in mailbox})
  /\ mailbox' = {} /\ UNCHANGED trouble

-----------------------------------------------------------------------------
Engine ==
  \/ Collect \/ Insert({}) \/ EmbedRaises \/ Govern \/ Deliver \/ Raise
  \/ \E bad \in (SUBSET Requests) \ {{}} : Insert(bad)
  \/ \E cut \in Cuts, stops \in SUBSET Uids(batch) :
       \/ Tick(cut, stops)
       \/ \E kind \in {"memory", "gpu", "other"}, point \in Points :
            TickThrows(kind, point, cut, stops)

Next ==
  \/ Engine
  \/ \E r \in Requests : Submit(r) \/ Close(r) \/ TimeOut(r)

Fairness == WF_vars(Engine) /\ \A r \in Requests : WF_vars(TimeOut(r))
Spec == Init /\ [][Next]_vars /\ Fairness

-----------------------------------------------------------------------------
(* Properties.                                                             *)

UidSet == 1..Cardinality(Requests)
PendingRow == [uid : UidSet, len : Nat \ {0}, left : Nat \ {0}]
PromptRow == [uid : UidSet, max : Nat \ {0}]
BatchRow == [uid : UidSet, num : Nat, max : Nat \ {0}]

\* Every variable keeps its type (the loop's and the generator's state).
TypeOK ==
  /\ client \in [Requests -> {"new", "queued", "streaming", "closed"}]
  /\ uidOf \in [Requests -> Nat] /\ got \in [Requests -> Nat] /\ end \in [Requests -> Ends]
  /\ waiting \in Seq(Requests) /\ taken \in Seq(Requests) /\ owner \in Seq(Requests)
  /\ cancelled \subseteq [uid : Nat, by : Requests]
  /\ active \subseteq DOMAIN owner
  /\ pending \in Seq(PendingRow) /\ batch \subseteq BatchRow
  /\ prompt \in [rows : SUBSET PromptRow, left : Nat]
  /\ DOMAIN deferred \subseteq Nat /\ \A u \in DOMAIN deferred : deferred[u] \in Nat
  /\ owed \in 0..MaxOwed /\ fits \in BOOLEAN
  /\ DOMAIN ledger \subseteq Nat /\ \A u \in DOMAIN ledger : ledger[u] \in Nat
  /\ rebuilt \subseteq Nat /\ lastVictim \in Nat
  /\ failStreak \in 0..2 /\ faultStreak \in 0..1
  /\ out \subseteq [uid : Nat, last : BOOLEAN]
  /\ mailbox \subseteq [uid : Nat, mine : BOOLEAN]
  /\ pc \in {"collect", "insert", "govern", "step", "deliver", "raise"}
  /\ dropped \subseteq Requests /\ failed \subseteq Requests /\ trouble \in 0..MaxTrouble
  /\ closes \in 0..MaxCloses

\* A row is in one place: a rebuild, an admission and a join move it whole,
\* wherever a tick throws.
OneRowEach ==
  Cardinality(Held) = Len(pending) + Cardinality(prompt.rows) + Cardinality(batch)

\* A request the loop serves has its row, its last response in hand or its
\* failure in the mailbox, unless a fault dropped its row.
ActiveIsHeld ==
  \A u \in active :
    \/ u \in Held
    \/ [uid |-> u, last |-> TRUE] \in out
    \/ [uid |-> u, mine |-> TRUE] \in mailbox
    \/ owner[u] \in dropped

\* No row decodes for nobody, but one cancelled in a prompt batch of several.
NoOrphanRow ==
  \A u \in Held : u \in active \/ end[owner[u]] = "cancel"

\* What a rebuild would replay is what the client has: the committed tokens
\* of a row are those on its queue and the one in hand.
LedgerIsDelivered ==
  \A u \in active \cap DOMAIN ledger :
    ledger[u] = got[owner[u]] + IF \E o \in out : o.uid = u THEN 1 ELSE 0

\* A cancel ends a request of a client that closed, or, after the turn of the
\* generator, the new bearer of the uid of one that closed once it had ended.
CancelHasACloser ==
  \A r \in Requests : end[r] = "cancel" =>
    \/ client[r] = "closed"
    \/ \E q \in Requests \ {r} : /\ client[q] = "closed" /\ uidOf[q] = uidOf[r]
                                /\ end[q] \notin {"open", "cancel"}

\* While rows decode, the memory does not fit and the width has room, a tick
\* admits one row at most. (The room that rows make which end in the very tick
\* is not weighed: the gate looks at the width before the decode.)
CeilingIsSerial ==
  [][pc = "step" /\ Weighs(pending) /\ ~fits =>
       \E x : Uids(Elems(pending)) \subseteq Uids(Elems(pending')) \cup {x}]_vars

\* The phase of a request in the contract.
Phase ==
  [r \in Requests |->
     CASE end[r] = "finish" -> "finished"
       [] end[r] \in {"shed", "error", "cancel"} -> "broken"
       [] end[r] = "open" /\ client[r] = "new" -> "new"
       [] end[r] = "open" /\ client[r] = "queued" -> "waiting"
       [] OTHER -> "running"]

\* The engine implements the contract of a reply (module ReplyStream).
Reply == INSTANCE ReplyStream WITH phase <- Phase
ImplementsReplyStream == Reply!Spec

\* After the tick that failed a row, its request is told (row_failed.py).
FailedIsTold ==
  pc = "collect" => \A r \in failed : end[r] # "open"

\* Every request submitted comes to an end: no gate, pacer, ladder or queue
\* holds it for ever, and a row a fault dropped ends by its token timeout. (An
\* end is for good and the requests are finite: a leads-to for each of them.)
EveryRequestEnds ==
  <>[](\A r \in Requests : client[r] = "new" \/ end[r] # "open")
=============================================================================
