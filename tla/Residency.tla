----------------------------- MODULE Residency -----------------------------
(***************************************************************************)
(* The model residency pool of src/gmlx/serve/residency.py: which models   *)
(* are loaded, who uses them, and how a cold load, an unload and the idle  *)
(* reaper take and tear down what they evict.                              *)
(*                                                                         *)
(* Threads are request threads, the preload thread and the callers of an   *)
(* unload. Three kinds of lock are held by them, always in this order: the *)
(* image worker, the video worker (each a one-thread executor with a FIFO  *)
(* queue), then the pool's build lock. The inner lock _lock is held for a  *)
(* few assignments at a time, so each hold of it is one action here.       *)
(*                                                                         *)
(* Left out: the LoRA turn and its ledgers, the published snapshot, what a *)
(* build does inside its environment window, time (an entry is past its    *)
(* TTL whenever it suits the reaper), the keep mark.                       *)
(***************************************************************************)
EXTENDS Integers, Sequences, FiniteSets, FiniteSetsExt

CONSTANTS
  Threads,      \* the threads that call the pool
  Preloaders,   \* the threads whose hold is a preload's, kept for good
  Models,       \* cache keys: what the pool loads
  Kind,         \* Kind[m]: "chat", "image" or "video"
  Price,        \* Price[m]: the bytes a cold load is priced at
  Extra,        \* Extra[m]: the bytes a streamed install may cost on top
  Streaming,    \* the chat models that stream experts
  Pinned,       \* the models whose path is pinned
  Budget,       \* the byte budget, 0 for none
  MaxModels,    \* the count cap
  MaxHolds,     \* bound: the models one thread holds at a time
  Calls,        \* bound: Calls[t], the pool calls thread t makes
  UnloadOps,    \* which unloads happen: "evict", "clear", "sync", "reap"
  NoOne

WorkerKinds == {"image", "video"}
AllUnloads == {"evict", "clear", "sync", "reap"}

\* _WORKER_ORDER: the workers taken before worker k.
TakenBefore(k) == IF k = "video" THEN {"image"} ELSE {}

MaxAttempts == Cardinality(WorkerKinds) + 1

ASSUME ConstantsAssumption ==
  /\ IsFiniteSet(Threads) /\ IsFiniteSet(Models) /\ Models # {}
  /\ Preloaders \subseteq Threads
  /\ Kind \in [Models -> WorkerKinds \cup {"chat"}]
  /\ Price \in [Models -> Nat \ {0}]
  /\ Extra \in [Models -> Nat]
  /\ Streaming \subseteq {m \in Models : Kind[m] = "chat"}
  /\ Pinned \subseteq Models
  /\ Budget \in Nat /\ MaxModels \in Nat \ {0} /\ MaxHolds \in Nat
  /\ Calls \in [Threads -> Nat]
  /\ UnloadOps \subseteq AllUnloads
  /\ NoOne \notin Threads \cup Models

VARIABLES
  resident,   \* the models of the entries in the pool
  foot,       \* foot[m]: the footprint of m's entry
  busy,       \* busy[m]: the in-flight references on m's entry
  retained,   \* retained[m]: those a preload keeps for good
  older,      \* older[m]: the entries touched before m (a smaller seq)
  building,   \* the bytes of the cold load in flight
  tearing,    \* the bytes of the victims whose teardown runs
  tearingKind,\* tearingKind[k]: those of the pipelines of worker k
  lock,       \* who holds the build lock
  queue,      \* queue[k]: the jobs of worker k, the running one first
  pc,         \* pc[t]: where t is in its pool call
  call,       \* call[t]: the call's own variables
  torn,       \* torn[t]: victims t took out and has not torn down
  rel,        \* rel[t]: pipelines t has torn down and not released
  holds,      \* holds[t]: the models t holds an in-flight reference on
  orphan,     \* orphan[t]: those whose entry was torn down since
  marked,     \* marked[t]: those marked retained
  calls       \* calls[t]: the calls t still makes

pool == <<resident, foot, busy, retained, older>>
bytes == <<building, tearing, tearingKind>>
refs == <<holds, orphan, marked>>
vars == <<pool, bytes, lock, queue, pc, call, torn, rel, refs, calls>>

-----------------------------------------------------------------------------
(* The pool's arithmetic and its choice of victims.                        *)

Max0(n) == IF n < 0 THEN 0 ELSE n

BytesOf(S) == MapThenSumSet(LAMBDA m : foot[m], S)

OnWorker(m) == Kind[m] \in WorkerKinds

\* Broken: an eviction that forgets the entries in use.
IdleOrBusy == resident \ Pinned

\* What an eviction for room may take: never a pinned or a busy entry.
Idle == {m \in resident : m \notin Pinned /\ busy[m] = 0}

\* Broken: room is made for what is resident, not for what comes in.
OverCapacityNow(n, b, S) ==
  \/ Budget # 0 /\ BytesOf(S) + b > Budget
  \/ Cardinality(S) >= MaxModels

\* _over_capacity for n more bytes, were the entries of the pool those of
\* S and the build in flight b bytes.
OverCapacity(n, b, S) ==
  \/ Budget # 0 /\ BytesOf(S) + b + n > Budget
  \/ Cardinality(S) >= MaxModels

\* The idle entries an eviction for n bytes takes: in the order they were
\* last used, each while the pool without the earlier ones has no room.
Victims(n, b) ==
  {m \in Idle : OverCapacity(n, b, resident \ (older[m] \cap Idle))}

\* Broken: a chat entry counts as one of a worker.
KindsOfAny(S) == {Kind[m] : m \in S}

KindsOf(S) == {Kind[m] : m \in S} \cap WorkerKinds
VictimKinds(n, b) == KindsOf(Victims(n, b))

\* A streamed model past the budget beside what no eviction may take is
\* deferred; any other model exceeds the budget.
Deferred(m, n, b) ==
  LET rest == resident \ Victims(n, b) IN
  /\ m \in Streaming /\ Budget # 0
  /\ rest # {} /\ BytesOf(rest) + b + n > Budget

LiveCount(m, ignoreRetained) ==
  IF ignoreRetained THEN Max0(busy[m] - retained[m]) ELSE busy[m]

\* Broken: the reaper trusts the server's in-flight count alone.
ReapableDrained == resident \ Pinned

\* The entries the reaper takes, once past their TTL.
Reapable == {m \in resident : m \notin Pinned /\ busy[m] <= retained[m]}

-----------------------------------------------------------------------------
(* The workers' queues.                                                    *)

Item(t, what, m) == [by |-> t, what |-> what, m |-> m]
HoldOf(t) == Item(t, "hold", NoOne)
Submitted(t, k) == \E i \in DOMAIN queue[k] : queue[k][i] = HoldOf(t)
Items == [by : Threads, what : {"hold", "job", "release"},
          m : Models \cup {NoOne}]

\* t holds worker k: its reservation runs there, so t's jobs run at once.
Holds(t, k) ==
  /\ queue[k] # <<>>
  /\ Head(queue[k]) = HoldOf(t)
HeldKinds(t) == {k \in WorkerKinds : Holds(t, k)}

\* t waits for a job or a release it queued.
Waiting(t) ==
  \E k \in WorkerKinds : \E i \in DOMAIN queue[k] :
    queue[k][i].by = t /\ queue[k][i].what # "hold"

-----------------------------------------------------------------------------
AnyModel == CHOOSE m \in Models : TRUE
NoCall(m) == [op |-> "none", m |-> m, n |-> 0, force |-> {}, want |-> {},
              attempt |-> 1, then |-> "done"]
CallRec == [op : {"none", "acquire"} \cup AllUnloads, m : Models, n : Nat,
            force : SUBSET WorkerKinds, want : SUBSET WorkerKinds,
            attempt : Nat \ {0},
            then : {"build", "insert", "fail", "done", "retry"}]
Torn == [m : Models, n : Nat]

Init ==
  /\ resident = {}
  /\ foot = [m \in Models |-> 0]
  /\ busy = [m \in Models |-> 0]
  /\ retained = [m \in Models |-> 0]
  /\ older = [m \in Models |-> {}]
  /\ building = 0 /\ tearing = 0
  /\ tearingKind = [k \in WorkerKinds |-> 0]
  /\ lock = NoOne
  /\ queue = [k \in WorkerKinds |-> <<>>]
  /\ pc = [t \in Threads |-> "idle"]
  /\ call = [t \in Threads |-> NoCall(AnyModel)]
  /\ torn = [t \in Threads |-> {}]
  /\ rel = [t \in Threads |-> {}]
  /\ holds = [t \in Threads |-> {}]
  /\ orphan = [t \in Threads |-> {}]
  /\ marked = [t \in Threads |-> {}]
  /\ calls = Calls

-----------------------------------------------------------------------------
(* Using an entry.                                                         *)

\* _touch: m becomes the entry used last.
Touch(m) ==
  older' = [x \in Models |-> IF x = m THEN resident' \ {m}
                             ELSE older[x] \ {m}]

\* Broken: a hit that takes no reference.
TakeHitUncounted(t, m) ==
  /\ resident' = resident
  /\ Touch(m)
  /\ holds' = [holds EXCEPT ![t] = @ \cup {m}]
  /\ UNCHANGED <<foot, busy, retained, orphan, marked>>

\* The entry of m is resident: take an in-flight reference on it.
TakeHit(t, m) ==
  /\ busy' = [busy EXCEPT ![m] = @ + 1]
  /\ resident' = resident
  /\ Touch(m)
  /\ holds' = [holds EXCEPT ![t] = @ \cup {m}]
  /\ UNCHANGED <<foot, retained, orphan, marked>>

MayCall(t) == pc[t] = "idle" /\ calls[t] > 0 /\ ~Waiting(t)

MayAcquire(t, m) ==
  /\ MayCall(t)
  /\ m \notin holds[t] /\ Cardinality(holds[t]) < MaxHolds

\* acquire, its fast path: a hit never waits for a cold build.
AcquireHit(t, m) ==
  /\ MayAcquire(t, m)
  /\ m \in resident
  /\ TakeHit(t, m)
  /\ calls' = [calls EXCEPT ![t] = @ - 1]
  /\ UNCHANGED <<bytes, lock, queue, pc, call, torn, rel>>

\* acquire, a miss: the load is priced and the cold path begins.
AcquireMiss(t, m) ==
  /\ MayAcquire(t, m)
  /\ m \notin resident
  /\ call' = [call EXCEPT ![t] = [NoCall(m) EXCEPT !.op = "acquire",
                                                  !.n = Price[m]]]
  /\ pc' = [pc EXCEPT ![t] = "reserve"]
  /\ calls' = [calls EXCEPT ![t] = @ - 1]
  /\ UNCHANGED <<pool, bytes, lock, queue, torn, rel, refs>>

\* A job of t on the worker of an entry it holds.
UseWorker(t, m) ==
  /\ MayCall(t)
  /\ m \in holds[t] \ orphan[t] /\ OnWorker(m)
  /\ queue' = [queue EXCEPT ![Kind[m]] = Append(@, Item(t, "job", m))]
  /\ calls' = [calls EXCEPT ![t] = @ - 1]
  /\ UNCHANGED <<pool, bytes, lock, pc, call, torn, rel, refs>>

\* The preload's hold counts as retained from a step of its own.
MarkRetained(t, m) ==
  /\ t \in Preloaders /\ pc[t] = "idle"
  /\ m \in holds[t] \ marked[t]
  /\ marked' = [marked EXCEPT ![t] = @ \cup {m}]
  /\ retained' = IF m \in orphan[t] THEN retained
                 ELSE [retained EXCEPT ![m] = @ + 1]
  /\ UNCHANGED <<resident, foot, busy, older, bytes, lock, queue, pc, call,
                 torn, rel, holds, orphan, calls>>

\* Broken: the hold is dropped on whatever entry the model has now.
ReleaseByName(t, m) ==
  /\ pc[t] = "idle" /\ ~Waiting(t)
  /\ m \in holds[t]
  /\ t \in Preloaders => m \in orphan[t]
  /\ busy' = [busy EXCEPT ![m] = Max0(@ - 1)]
  /\ holds' = [holds EXCEPT ![t] = @ \ {m}]
  /\ orphan' = [orphan EXCEPT ![t] = @ \ {m}]
  /\ marked' = [marked EXCEPT ![t] = @ \ {m}]
  /\ UNCHANGED <<resident, foot, retained, older, bytes, lock, queue, pc,
                 call, torn, rel, calls>>

\* A request ends and drops its hold; a preload's hold is dropped once an
\* unload tore its entry down, on the entry object it was taken on.
Release(t, m) ==
  /\ pc[t] = "idle" /\ ~Waiting(t)
  /\ m \in holds[t]
  /\ t \in Preloaders => m \in orphan[t]
  /\ busy' = IF m \in orphan[t] THEN busy
             ELSE [busy EXCEPT ![m] = Max0(@ - 1)]
  /\ holds' = [holds EXCEPT ![t] = @ \ {m}]
  /\ orphan' = [orphan EXCEPT ![t] = @ \ {m}]
  /\ marked' = [marked EXCEPT ![t] = @ \ {m}]
  /\ UNCHANGED <<resident, foot, retained, older, bytes, lock, queue, pc,
                 call, torn, rel, calls>>

-----------------------------------------------------------------------------
(* The workers, then the build lock.                                       *)

Goto(t, place) == pc' = [pc EXCEPT ![t] = place]

\* _worker_for of a cold load: the workers it builds and releases on.
Reserve(t) ==
  /\ pc[t] = "reserve"
  /\ call' = [call EXCEPT ![t].want =
       @ \cup call[t].force \cup KindsOf({call[t].m})
         \cup VictimKinds(call[t].n, building)]
  /\ Goto(t, "queue")
  /\ UNCHANGED <<pool, bytes, lock, queue, torn, rel, refs, calls>>

\* What an unload would take, were the entries of `past` those past their
\* TTL: an entry with a live reference is busy (a 409), skipped or kept.
Unloadable(op, m, past) ==
  CASE op = "evict" -> {x \in resident \cap {m} : LiveCount(x, TRUE) = 0}
    [] op = "clear" -> {x \in resident : LiveCount(x, TRUE) = 0}
    [] op = "sync" -> {x \in resident : LiveCount(x, FALSE) = 0}
    [] op = "reap" -> Reapable \cap past
    [] OTHER -> {}

\* evict, clear and reap_idle begin: the workers of the idle entries each
\* may take.
Unload(t, op, m, past) ==
  /\ MayCall(t)
  /\ op # "evict" => m = AnyModel
  /\ op # "reap" => past = {}
  /\ calls' = [calls EXCEPT ![t] = @ - 1]
  /\ LET picked == CASE op = "evict" -> {m}
                     [] op = "reap" -> Reapable \cap past
                     [] OTHER -> resident
     IN call' = [call EXCEPT ![t] = [NoCall(m) EXCEPT
          !.op = op, !.want = KindsOf({x \in resident \cap picked : busy[x] = 0})]]
  /\ Goto(t, "queue")
  /\ UNCHANGED <<pool, bytes, lock, queue, torn, rel, refs>>

\* reserved(): queue the hold on worker k, once those before k are held.
Submit(t, k) ==
  /\ pc[t] = "queue"
  /\ k \in call[t].want /\ ~Submitted(t, k)
  /\ call[t].want \cap TakenBefore(k) \subseteq HeldKinds(t)
  /\ queue' = [queue EXCEPT ![k] = Append(@, HoldOf(t))]
  /\ UNCHANGED <<pool, bytes, lock, pc, call, torn, rel, refs, calls>>

TakeBuildLock(t) ==
  /\ pc[t] = "queue"
  /\ call[t].want \subseteq HeldKinds(t)
  /\ lock = NoOne
  /\ lock' = t
  /\ Goto(t, "locked")
  /\ UNCHANGED <<pool, bytes, queue, call, torn, rel, refs, calls>>

-----------------------------------------------------------------------------
(* Under the build lock: the second look, the room, the teardown.          *)

\* Broken: no second look under the build lock.
LoadedUnseen(t) == FALSE

Loaded(t) == call[t].m \in resident

\* Another thread loaded the model while this one waited.
RecheckHit(t) ==
  /\ pc[t] = "locked" /\ call[t].op = "acquire"
  /\ Loaded(t)
  /\ TakeHit(t, call[t].m)
  /\ call' = [call EXCEPT ![t].then = "done"]
  /\ Goto(t, "leave")
  /\ UNCHANGED <<bytes, lock, queue, torn, rel, calls>>

\* Broken: the eviction trusts the reservation made before the lock.
NoneMissing(t) == {}

\* The workers of the victims that went idle since the reservation.
Missing(t) == VictimKinds(call[t].n, building) \ HeldKinds(t)

\* Broken: each attempt forgets the workers of the one before.
WidenedAfresh(force, missing) == missing

\* The workers the next attempt holds whatever the eviction takes then.
Widened(force, missing) == force \cup missing

\* An idle victim's worker is not held: nothing is evicted, and the next
\* attempt holds that worker too. After the last attempt the load defers.
Widen(t) ==
  /\ pc[t] = "locked" /\ call[t].op = "acquire"
  /\ ~Loaded(t) /\ Missing(t) # {}
  /\ call' = [call EXCEPT
       ![t].force = Widened(@, Missing(t)), ![t].want = {},
       ![t].attempt = @ + 1,
       ![t].then = IF call[t].attempt < MaxAttempts THEN "retry" ELSE "fail"]
  /\ Goto(t, "leave")
  /\ UNCHANGED <<pool, bytes, lock, queue, torn, rel, refs, calls>>

\* _detach of the entries of S: out of the pool, their bytes tearing.
TakeOut(t, S) ==
  LET zeroed(f) == [m \in Models |-> IF m \in S THEN 0 ELSE f[m]]
      ofKind(k) == {m \in S : Kind[m] = k}
  IN
  /\ resident' = resident \ S
  /\ foot' = zeroed(foot) /\ busy' = zeroed(busy)
  /\ retained' = zeroed(retained)
  /\ older' = [m \in Models |-> IF m \in S THEN {} ELSE older[m] \ S]
  /\ torn' = [torn EXCEPT ![t] = {[m |-> m, n |-> foot[m]] : m \in S}]
  /\ tearing' = tearing + BytesOf(S)
  /\ tearingKind' = [k \in WorkerKinds |-> tearingKind[k] + BytesOf(ofKind(k))]
  /\ orphan' = [u \in Threads |-> orphan[u] \cup (holds[u] \cap S)]
  /\ UNCHANGED <<holds, marked>>

\* _evict_for_room and the room of the build in one hold of _lock: no one
\* takes the room between. Left short, a streamed model defers.
MakeRoom(t) ==
  LET n == call[t].n
      deferred == Deferred(call[t].m, n, building)
  IN
  /\ pc[t] = "locked" /\ call[t].op = "acquire"
  /\ ~Loaded(t) /\ Missing(t) = {}
  /\ TakeOut(t, Victims(n, building))
  /\ building' = IF deferred THEN building ELSE n
  /\ call' = [call EXCEPT ![t].then = IF deferred THEN "fail" ELSE "build"]
  /\ Goto(t, "tear")
  /\ UNCHANGED <<lock, queue, rel, calls>>

\* The unload takes its entries out, judged again under _lock.
Detach(t, past) ==
  /\ pc[t] = "locked" /\ call[t].op \in AllUnloads
  /\ call[t].op # "reap" => past = {}
  /\ TakeOut(t, Unloadable(call[t].op, call[t].m, past))
  /\ Goto(t, "tear")
  /\ UNCHANGED <<building, lock, queue, call, rel, calls>>

\* Broken: the count of the worker's kind is forgotten.
GoneFromTotal(k, n) ==
  /\ tearing' = Max0(tearing - n)
  /\ UNCHANGED tearingKind

\* The tearing bytes a finished teardown or release gives back (_torn).
Gone(k, n) ==
  /\ tearing' = Max0(tearing - n)
  /\ tearingKind' = IF k \in WorkerKinds
                    THEN [tearingKind EXCEPT ![k] = Max0(@ - n)]
                    ELSE tearingKind

\* _teardown_all on one chat entry. A teardown that raises gives its bytes
\* back all the same; the rest is torn down, and a cold load ends then.
TearChat(t, x, raises) ==
  LET left == torn[t] \ {x}
      then == IF raises /\ call[t].op = "acquire" THEN "fail" ELSE call[t].then
  IN
  /\ pc[t] \in {"tear", "refit"}
  /\ x \in torn[t] /\ ~OnWorker(x.m)
  /\ torn' = [torn EXCEPT ![t] = left]
  /\ Gone("chat", x.n)
  /\ call' = [call EXCEPT ![t].then = then]
  /\ building' = IF pc[t] = "tear" /\ left = {} /\ then = "fail" THEN 0
                 ELSE building
  /\ UNCHANGED <<pool, lock, queue, pc, rel, refs, calls>>

\* _teardown_all on an image or video entry: its pipeline is to release,
\* and its bytes stay tearing until that release ends.
TearPipeline(t, x) ==
  LET left == torn[t] \ {x} IN
  /\ pc[t] \in {"tear", "refit"}
  /\ x \in torn[t] /\ OnWorker(x.m)
  /\ torn' = [torn EXCEPT ![t] = left]
  /\ rel' = [rel EXCEPT ![t] = @ \cup {x}]
  /\ building' = IF pc[t] = "tear" /\ left = {} /\ call[t].then = "fail" THEN 0
                 ELSE building
  /\ UNCHANGED <<pool, tearing, tearingKind, lock, queue, pc, call, refs, calls>>

-----------------------------------------------------------------------------
(* _release_images: each pipeline on its worker.                           *)

\* The worker is held: the release runs at once.
Free(t, x) ==
  /\ pc[t] = "tear" /\ torn[t] = {}
  /\ x \in rel[t] /\ Kind[x.m] \in HeldKinds(t)
  /\ rel' = [rel EXCEPT ![t] = @ \ {x}]
  /\ Gone(Kind[x.m], x.n)
  /\ UNCHANGED <<pool, building, lock, queue, pc, call, torn, refs, calls>>

\* Where the pipelines whose worker is not held are released: a cold load's
\* with its other victims, an unload's after the build lock is dropped.
ReleasesBeside(t) ==
  \/ pc[t] = "tear" /\ torn[t] = {} /\ call[t].op = "acquire"
  \/ pc[t] = "late"

\* The worker is not held: the release is queued on it and waited for.
QueueRelease(t, x) ==
  /\ ReleasesBeside(t) /\ ~Waiting(t)
  /\ x \in rel[t] /\ Kind[x.m] \notin HeldKinds(t)
  /\ queue' = [queue EXCEPT ![Kind[x.m]] = Append(@, Item(t, "release", x.m))]
  /\ UNCHANGED <<pool, bytes, lock, pc, call, torn, rel, refs, calls>>

\* Worker k ends the release it runs; a call that waited on its last one
\* returns.
RunRelease(k) ==
  /\ queue[k] # <<>> /\ Head(queue[k]).what = "release"
  /\ LET t == Head(queue[k]).by IN
     \E x \in rel[t] :
       /\ x.m = Head(queue[k]).m
       /\ queue' = [queue EXCEPT ![k] = Tail(@)]
       /\ rel' = [rel EXCEPT ![t] = @ \ {x}]
       /\ Gone(k, x.n)
       /\ pc' = [pc EXCEPT ![t] =
            IF @ = "late" /\ rel[t] = {x} THEN "idle" ELSE @]
  /\ UNCHANGED <<pool, building, lock, call, torn, refs, calls>>

RunJob(k) ==
  /\ queue[k] # <<>> /\ Head(queue[k]).what = "job"
  /\ queue' = [queue EXCEPT ![k] = Tail(@)]
  /\ UNCHANGED <<pool, bytes, lock, pc, call, torn, rel, refs, calls>>

-----------------------------------------------------------------------------
(* The build, its insert, and the way out.                                 *)

\* Broken: a load that ends early leaves its room booked.
KeepBooked == UNCHANGED building

\* The build lock's holder gives up its room.
Unbook == building' = 0

Building(t) ==
  /\ pc[t] = "tear" /\ call[t].then = "build"
  /\ torn[t] = {} /\ rel[t] = {}

BuildFails(t) ==
  /\ Building(t)
  /\ Unbook
  /\ call' = [call EXCEPT ![t].then = "fail"]
  /\ Goto(t, "leave")
  /\ UNCHANGED <<pool, tearing, tearingKind, lock, queue, torn, rel, refs, calls>>

BuildOk(t) ==
  /\ Building(t)
  /\ call' = [call EXCEPT ![t].then = "insert"]
  /\ Goto(t, "refit")
  /\ UNCHANGED <<pool, bytes, lock, queue, torn, rel, refs, calls>>

\* The install streamed less than the header predicted (_fit_repriced):
\* evict for the new price, with the old one out of the count; when it
\* does not fit, the new model is unloaded and the request deferred.
BuildRepriced(t) ==
  LET n == call[t].n + Extra[call[t].m]
      deferred == Deferred(call[t].m, n, 0)
  IN
  /\ Building(t)
  /\ call[t].m \in Streaming /\ Extra[call[t].m] > 0
  /\ TakeOut(t, Victims(n, 0))
  /\ building' = IF deferred THEN 0 ELSE n
  /\ call' = [call EXCEPT ![t].n = n,
                         ![t].then = IF deferred THEN "fail" ELSE "insert"]
  /\ Goto(t, "refit")
  /\ UNCHANGED <<lock, queue, rel, calls>>

\* The refit failed: the new model is torn down and no entry made.
Abort(t) ==
  /\ pc[t] = "refit" /\ torn[t] = {} /\ call[t].then = "fail"
  /\ Unbook
  /\ Goto(t, "leave")
  /\ UNCHANGED <<pool, tearing, tearingKind, lock, queue, call, torn, rel,
                 refs, calls>>

\* The LoRA figures cannot be read: the new entry is torn down, its
\* pipeline among those released after the build lock.
InsertFails(t) ==
  /\ pc[t] = "refit" /\ torn[t] = {} /\ call[t].then = "insert"
  /\ rel' = IF OnWorker(call[t].m)
            THEN [rel EXCEPT ![t] = @ \cup {[m |-> call[t].m, n |-> 0]}]
            ELSE rel
  /\ Unbook
  /\ call' = [call EXCEPT ![t].then = "fail"]
  /\ Goto(t, "leave")
  /\ UNCHANGED <<pool, tearing, tearingKind, lock, queue, torn, refs, calls>>

Insert(t) ==
  LET m == call[t].m IN
  /\ pc[t] = "refit" /\ torn[t] = {} /\ call[t].then = "insert"
  /\ resident' = resident \cup {m}
  /\ foot' = [foot EXCEPT ![m] = call[t].n]
  /\ busy' = [busy EXCEPT ![m] = 1]
  /\ retained' = [retained EXCEPT ![m] = 0]
  /\ Touch(m)
  /\ building' = 0
  /\ holds' = [holds EXCEPT ![t] = @ \cup {m}]
  /\ call' = [call EXCEPT ![t].then = "done"]
  /\ Goto(t, "leave")
  /\ UNCHANGED <<tearing, tearingKind, lock, queue, torn, rel, orphan, marked,
                 calls>>

\* The call is through with the build lock.
MayLeave(t) ==
  \/ pc[t] = "leave"
  \/ /\ pc[t] = "tear" /\ torn[t] = {}
     /\ \/ call[t].op \in AllUnloads /\ KindsOf({x.m : x \in rel[t]}) \cap HeldKinds(t) = {}
        \/ call[t].op = "acquire" /\ call[t].then = "fail" /\ rel[t] = {}

\* The build lock drops, then the workers. A load short of a worker tries
\* again; what is left to release is released now, on workers not held.
Leave(t) ==
  LET retry == call[t].then = "retry" IN
  /\ MayLeave(t)
  /\ lock' = NoOne
  /\ queue' = [k \in WorkerKinds |-> IF Holds(t, k) THEN Tail(queue[k]) ELSE queue[k]]
  /\ Goto(t, IF retry THEN "reserve" ELSE IF rel[t] # {} THEN "late" ELSE "idle")
  /\ call' = [call EXCEPT ![t] = IF retry THEN [@ EXCEPT !.then = "done"]
                               ELSE NoCall(AnyModel)]
  /\ UNCHANGED <<pool, bytes, torn, rel, refs, calls>>

-----------------------------------------------------------------------------
InCall(t) ==
  \/ Reserve(t) \/ \E k \in WorkerKinds : Submit(t, k)
  \/ TakeBuildLock(t)
  \/ RecheckHit(t) \/ Widen(t) \/ MakeRoom(t)
  \/ \E past \in SUBSET Models : Detach(t, past)
  \/ \E x \in torn[t] : TearPipeline(t, x) \/ \E r \in BOOLEAN : TearChat(t, x, r)
  \/ \E x \in rel[t] : Free(t, x) \/ QueueRelease(t, x)
  \/ BuildFails(t) \/ BuildOk(t) \/ BuildRepriced(t) \/ Abort(t)
  \/ InsertFails(t) \/ Insert(t) \/ Leave(t)

Worker(k) == RunJob(k) \/ RunRelease(k)

Client(t) ==
  \E m \in Models :
    \/ AcquireHit(t, m) \/ AcquireMiss(t, m) \/ UseWorker(t, m)
    \/ MarkRetained(t, m) \/ Release(t, m)
    \/ \E op \in UnloadOps, past \in SUBSET Models : Unload(t, op, m, past)

\* Every call is made and over: the bounded model stops here.
Over ==
  /\ \A t \in Threads : pc[t] = "idle" /\ ~Waiting(t)
  /\ UNCHANGED vars

Next ==
  \/ \E t \in Threads : Client(t) \/ InCall(t)
  \/ \E k \in WorkerKinds : Worker(k)
  \/ Over

Spec == Init /\ [][Next]_vars

\* A thread in a call and a worker with a job keep going. What a client
\* does between calls is up to the client.
Fairness ==
  /\ \A t \in Threads : WF_vars(InCall(t))
  /\ \A k \in WorkerKinds : WF_vars(Worker(k))

FairSpec == Spec /\ Fairness

-----------------------------------------------------------------------------
(* Properties.                                                             *)

Places == {"idle", "reserve", "queue", "locked", "tear", "refit", "leave", "late"}

PoolType ==
  /\ resident \subseteq Models
  /\ foot \in [Models -> Nat]
  /\ busy \in [Models -> Nat] /\ retained \in [Models -> Nat]
  /\ older \in [Models -> SUBSET Models]

QueueType ==
  /\ lock \in Threads \cup {NoOne}
  /\ queue \in [WorkerKinds -> Seq(Items)]

CallType ==
  /\ pc \in [Threads -> Places]
  /\ call \in [Threads -> CallRec]
  /\ calls \in [Threads -> Nat]
  /\ torn \in [Threads -> SUBSET Torn] /\ rel \in [Threads -> SUBSET Torn]

RefsType ==
  /\ holds \in [Threads -> SUBSET Models]
  /\ orphan \in [Threads -> SUBSET Models]
  /\ marked \in [Threads -> SUBSET Models]

\* What every variable holds; the tearing counts are TearingAccounted's.
TypeOK == PoolType /\ QueueType /\ CallType /\ RefsType /\ building \in Nat

\* A model a request is using stays in the pool, however evictions, unloads
\* and the reaper interleave: only an entry whose every hold is a preload's
\* goes with a hold on it.
HeldStaysResident ==
  \A t \in Threads : \A m \in holds[t] \ marked[t] :
    m \in resident /\ m \notin orphan[t]

\* The in-flight count of an entry is the number of its holders, so no
\* release is lost and none is counted on another entry.
BusyIsHolders ==
  \A m \in resident :
    busy[m] = Cardinality({t \in Threads : m \in holds[t] \ orphan[t]})

\* Who holds the build lock waits on no worker's queue: a release would
\* queue behind a reservation that waits for the lock (acquire's comment).
NoWaitUnderBuildLock == \A t \in Threads : lock = t => ~Waiting(t)

\* A cold load holds the worker of every pipeline it evicts or loads, and
\* needs no more attempts than there are workers and one: the deferral
\* after the last is never reached.
NeverGivesUp == \A t \in Threads : call[t].attempt <= MaxAttempts

\* No model is loaded while its entry is resident.
NoDoubleLoad ==
  \A t \in Threads :
    /\ pc[t] \in {"tear", "refit"}
    /\ call[t].op = "acquire"
    => call[t].m \notin resident

\* The bytes of the entries of X, taken out.
Freed(X) == MapThenSumSet(LAMBDA x : x.n, X)

\* The bytes of the pipelines and models taken out and not gone yet, by
\* what the threads still have to tear down or release.
Leaving(S) ==
  MapThenSumSet(LAMBDA t : Freed({x \in torn[t] \cup rel[t] : Kind[x.m] \in S}), Threads)

\* The tearing counts are those bytes, whatever fails on the way.
TearingAccounted ==
  /\ tearing = Leaving(WorkerKinds \cup {"chat"})
  /\ \A k \in WorkerKinds : tearingKind[k] = Leaving({k})

\* The room a cold load found stays booked until its insert, and no longer
\* than its build lock.
BuildingBooked ==
  /\ lock = NoOne => building = 0
  /\ \A t \in Threads :
       pc[t] \in {"tear", "refit"} /\ call[t].then \in {"build", "insert"}
       => building = call[t].n

Held == BytesOf(resident) + building

\* The pool goes over its budget only for a load that does not stream, or
\* into an empty pool, and only when nothing is left to evict.
OverBudgetOnlyWhenForced ==
  [][ Budget # 0 /\ Held' > Budget /\ Held' > Held
      => /\ Idle' = {}
         /\ call[lock].m \in Streaming => resident' = {} ]_vars

\* The pool keeps the promise of ModelPool, with a use for each hold that
\* is not a preload's.
Contract == INSTANCE ModelPool
              WITH uses <- [t \in Threads |-> holds[t] \ marked[t]]
ImplementsModelPool == Contract!Spec

\* Every pool call ends: no wait for a lock, a worker or another thread's
\* teardown is for good, and no request's generation is waited for.
EveryCallEnds == \A t \in Threads : pc[t] # "idle" ~> pc[t] = "idle"
=============================================================================
