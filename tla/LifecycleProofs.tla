--------------------------- MODULE LifecycleProofs ---------------------------
(***************************************************************************)
(* Proofs about Lifecycle, for every number of workers: whichever call     *)
(* fails, nothing is released twice, nothing is released before what lives *)
(* in it, and initialisation leaves all or nothing.                        *)
(***************************************************************************)
EXTENDS Lifecycle, TLAPS

\* Worker w has its resource r.
Has(r, w) == <<r, w>> \in held

\* Worker w has what the calls of InitCalls before the n-th acquire.
MadeUpTo(w, n) ==
  /\ Has("mutex", w) <=> n > 1
  /\ Has("base", w) <=> n > 2
  /\ Has("http", w) <=> n > 3
  /\ Has("ev", w) <=> n > 4

\* Worker w has what Releases lists from the n-th on.
LeftFrom(w, n) ==
  /\ Has("mutex", w) <=> n < 2
  /\ Has("ev", w) <=> n < 3
  /\ Has("http", w) <=> n < 4
  /\ Has("base", w) <=> n < 5

Full(w) == Has("mutex", w) /\ Has("base", w) /\ Has("http", w) /\ Has("ev", w)
Bare(w) == ~ Has("mutex", w) /\ ~ Has("base", w) /\ ~ Has("http", w) /\ ~ Has("ev", w)

\* After FAIL: the calls made are a prefix of InitCalls, the releases of Releases.
Failing(w, n) ==
  /\ Has("mutex", w) <=> n < 2
  /\ Has("ev", w) => n < 3 /\ Has("base", w)
  /\ Has("http", w) => n < 4 /\ Has("base", w)

\* Where root_handler is before the first worker, and after the last.
Early == {"evthread", "malloc", "lbmutex"}
Served == {"listener", "serving", "destroy"}

\* The counters of the loops, by the loop the main thread is in.
CountersInv ==
  /\ pc \in Early => i = 0 /\ step = 1
  /\ pc \in {"worker", "FAIL"} => i \in Workers
  /\ pc \in {"FAIL", "unwind", "destroy"} => step \in 1 .. 4
  /\ pc = "FAIL" => j = 0 /\ bound = i
  /\ Unwinding /\ j = bound => step = 1
  /\ pc = "destroy" => bound = NWorkers
  /\ pc = "listener" => step \in 1 .. (IF sync THEN 3 ELSE 2)
  /\ pc \in Early \cup {"worker", "FAIL", "unwind"} => ~ balanced
  /\ pc \in Served => balanced

\* A field is null exactly when what it points to is not held, from memset on.
PointersInv ==
  pc \notin {"lbmutex", "returned"} =>
    \A w \in Workers, r \in Fields : r \in ptr[w] <=> Has(r, w)

\* What each worker has, by the worker the main thread is at.
WorkerInv(w) ==
  /\ pc \in Early \cup {"returned"} => Bare(w)
  /\ pc \in {"listener", "serving"} => Full(w)
  /\ pc \in {"worker", "FAIL"} => (w < i => Full(w)) /\ (w > i => Bare(w))
  /\ pc = "worker" /\ w = i => MadeUpTo(w, step)
  /\ pc = "FAIL" /\ w = i => Failing(w, step)
  /\ Unwinding => /\ w < j \/ w >= bound => Bare(w)
                  /\ w > j /\ w < bound => Full(w)
                  /\ w = j /\ w < bound => LeftFrom(w, step)

\* What the balancer has apart from its workers, and what the listener has.
OthersInv ==
  /\ Array \in held <=> pc \notin {"evthread", "malloc", "returned"}
  /\ pc \notin Early \cup {"returned"} => LbMutex \in held
  /\ pc \in Early \/ (pc = "returned" /\ ~ balanced) => LbMutex \notin held
  /\ pc \in {"listener", "serving"} =>
       /\ Socket \in held <=> sync /\ (pc = "serving" \/ step > 1)
       /\ LBase \in held <=> ~ sync /\ (pc = "serving" \/ step > 1)
       /\ Listener \in held <=> ~ sync /\ pc = "serving"
  /\ balanced => (Socket \in held => sync)
  /\ pc \in {"destroy", "returned"} => Socket \notin held
  /\ pc = "destroy" => /\ LBase \in held <=> Listener \in held
                       /\ LBase \in held => ~ sync
  /\ ~ balanced => Socket \notin held /\ LBase \notin held /\ Listener \notin held

\* Threads and timers of the workers before any of them is destroyed.
ThreadInv(w) ==
  /\ pc \in Early => thread[w] = "none"
  /\ pc \in {"listener", "serving"} => w \in armed /\ thread[w] \notin {"none", "ended"}
  /\ pc \in {"worker", "FAIL"} =>
       /\ w < i => w \in armed /\ thread[w] \notin {"none", "ended"}
       /\ w > i => thread[w] = "none"
  /\ pc = "worker" /\ w = i =>
       /\ step > 5 => w \in armed
       /\ step = 7 <=> thread[w] # "none"
       /\ thread[w] # "ended"
  /\ pc = "FAIL" /\ w = i => thread[w] = "none"

IInv ==
  /\ TypeOK
  /\ ReleasedOnce
  /\ CountersInv
  /\ PointersInv
  /\ OthersInv
  /\ \A w \in Workers : WorkerInv(w) /\ ThreadInv(w)
-----------------------------------------------------------------------------
(* The tables of calls and of releases, and what a single release does.     *)

\* The two tables, entry by entry.
LEMMA Tables ==
  /\ Len(InitCalls) = 6 /\ Len(Releases) = 4
  /\ InitCalls[1] = "mutex" /\ InitCalls[2] = "base" /\ InitCalls[3] = "http"
  /\ InitCalls[4] = "ev" /\ InitCalls[5] = "event_add" /\ InitCalls[6] = "pthread_create"
  /\ Releases[1] = "mutex" /\ Releases[2] = "ev" /\ Releases[3] = "http"
  /\ Releases[4] = "base"
  BY DEF InitCalls, Releases

\* The workers are numbered from 0.
LEMMA WorkerCount == NWorkers \in 1 .. 255 /\ Workers = 0 .. NWorkers - 1
  BY ConfigAssumption DEF Workers

\* A worker's resource is never one of those that belong to no worker.
LEMMA OtherResources ==
  ASSUME NEW r \in Fields \cup {"mutex"}, NEW w
  PROVE  <<r, w>> \notin {Array, LbMutex, Socket, LBase, Listener}
  BY DEF Array, LbMutex, Socket, LBase, Listener, Fields

\* Releasing what is held releases it once, and nothing else.
LEMMA OneRelease ==
  ASSUME NEW r, NEW w, Has(r, w), Release({<<r, w>>})
  PROVE  /\ faults' = faults
         /\ \A q, v : Has(q, v)' <=> Has(q, v) /\ ~ (q = r /\ v = w)
         /\ held' \subseteq held
         /\ r \in Fields \cup {"mutex"} =>
              \A x \in {Array, LbMutex, Socket, LBase, Listener} : x \in held' <=> x \in held
  BY OtherResources DEF Release, Has

\* The resources of a worker are told apart by name.
LEMMA InLbResources ==
  ASSUME NEW r \in Fields \cup {"mutex"}, NEW w \in Workers
  PROVE  <<r, w>> \in LbResources
  BY DEF LbResources, WorkerResources, Fields

\* Before root_handler has called anything there is nothing to release.
LEMMA InitIInv == Init => IInv
<1> SUFFICES ASSUME Init PROVE IInv
  OBVIOUS
<1>1. TypeOK
  <2>1. ptr \in [Workers -> SUBSET Fields]
    BY DEF Init
  <2>2. thread \in [Workers -> {"none", "created", "loop", "ended"}]
    BY DEF Init
  <2>3. /\ pc = "evthread" /\ i = 0 /\ j = 0 /\ bound = 0 /\ step = 1
        /\ held = {} /\ faults = {} /\ armed = {} /\ balanced = FALSE /\ sync \in BOOLEAN
    BY DEF Init
  <2>4. /\ step \in 1 .. Len(InitCalls) + 1 /\ i \in 0 .. NWorkers
        /\ j \in 0 .. bound /\ bound \in 0 .. NWorkers
    BY <2>3, Tables, WorkerCount
  <2>5. /\ held \subseteq LbResources \cup ListenerResources /\ faults \subseteq LbResources
        /\ armed \subseteq Workers
    BY <2>3
  <2> QED BY <2>1, <2>2, <2>3, <2>4, <2>5 DEF TypeOK
<1>2. ReleasedOnce /\ CountersInv /\ PointersInv
  BY DEF Init, ReleasedOnce, CountersInv, PointersInv, Has, Early, Served, Unwinding
<1>3. OthersInv
  BY DEF Init, OthersInv, Early
<1>4. ASSUME NEW w \in Workers PROVE WorkerInv(w) /\ ThreadInv(w)
  BY DEF Init, WorkerInv, ThreadInv, Early, Bare, Has, Unwinding
<1> QED BY <1>1, <1>2, <1>3, <1>4 DEF IInv

-----------------------------------------------------------------------------
(* One lemma per action.                                                    *)

\* evthread_use_pthreads acquires nothing.
LEMMA StepUseThreads == IInv /\ UseThreads => IInv'
<1> SUFFICES ASSUME IInv, UseThreads PROVE IInv'
  OBVIOUS
<1>1. TypeOK'
  BY DEF IInv, TypeOK, UseThreads
<1>2. ReleasedOnce' /\ CountersInv' /\ PointersInv' /\ OthersInv'
  BY DEF IInv, UseThreads, ReleasedOnce, CountersInv, PointersInv, OthersInv, Has, Early, Served,
         Unwinding
<1>3. ASSUME NEW w \in Workers PROVE WorkerInv(w)' /\ ThreadInv(w)'
  BY DEF IInv, UseThreads, WorkerInv, ThreadInv, Early, Bare, Full, Has, Unwinding
<1> QED BY <1>1, <1>2, <1>3 DEF IInv

\* malloc gives the array, whose fields may hold anything.
LEMMA StepMallocWorkers == IInv /\ MallocWorkers => IInv'
<1> SUFFICES ASSUME IInv, MallocWorkers PROVE IInv'
  OBVIOUS
<1>0. Array \in LbResources /\ Array \notin {LbMutex, Socket, LBase, Listener}
  BY DEF LbResources, Array, LbMutex, Socket, LBase, Listener
<1>a. \A r \in Fields \cup {"mutex"} : \A w : Has(r, w)' <=> Has(r, w)
  BY OtherResources DEF MallocWorkers, Has
<1>1. TypeOK'
  BY <1>0 DEF IInv, TypeOK, MallocWorkers
<1>2. ReleasedOnce' /\ CountersInv' /\ PointersInv'
  BY <1>a DEF IInv, MallocWorkers, ReleasedOnce, CountersInv, PointersInv, Early, Served,
         Unwinding
<1>3. OthersInv'
  BY <1>0 DEF IInv, MallocWorkers, OthersInv, CountersInv, Early
<1>4. ASSUME NEW w \in Workers PROVE WorkerInv(w)' /\ ThreadInv(w)'
  BY <1>a DEF IInv, MallocWorkers, WorkerInv, ThreadInv, Early, Bare, Full, Unwinding, Fields
<1> QED BY <1>1, <1>2, <1>3, <1>4 DEF IInv

\* The memset after pthread_mutex_init makes every pointer null again.
LEMMA StepInitMutex == IInv /\ InitMutex => IInv'
<1> SUFFICES ASSUME IInv, InitMutex PROVE IInv'
  OBVIOUS
<1>0. /\ LbMutex \in LbResources /\ LbMutex \notin {Array, Socket, LBase, Listener}
      /\ Array \notin {LbMutex, Socket, LBase, Listener}
  BY DEF LbResources, Array, LbMutex, Socket, LBase, Listener
<1>a. \A r \in Fields \cup {"mutex"} : \A w : Has(r, w)' <=> Has(r, w)
  BY OtherResources DEF InitMutex, Has, Release
<1>b. Array \in held
  BY DEF IInv, OthersInv, InitMutex
<1>1. TypeOK'
  <2>1. faults' = faults
    BY <1>b DEF InitMutex, Release
  <2>2. ptr' \in [Workers -> SUBSET Fields]
    BY DEF IInv, TypeOK, InitMutex
  <2> QED BY <2>1, <2>2, <1>0, WorkerCount DEF IInv, TypeOK, InitMutex, CountersInv, Early, Release
<1>2. ReleasedOnce' /\ CountersInv'
  BY <1>b, WorkerCount
  DEF IInv, InitMutex, Release, ReleasedOnce, CountersInv, Early, Served, Unwinding
<1>3. PointersInv'
  BY <1>a DEF IInv, InitMutex, PointersInv, WorkerInv, Early, Bare, Fields
<1>4. OthersInv'
  BY <1>0 DEF IInv, InitMutex, Release, OthersInv, CountersInv, Early
<1>5. ASSUME NEW w \in Workers PROVE WorkerInv(w)' /\ ThreadInv(w)'
  BY <1>a DEF IInv, InitMutex, WorkerInv, ThreadInv, CountersInv, Early, Bare, MadeUpTo, Unwinding,
              Fields, Workers
<1> QED BY <1>1, <1>2, <1>3, <1>4, <1>5 DEF IInv

\* Each call of worker_init that succeeds adds its resource, pointer, timer or thread.
LEMMA StepWorkerCall == IInv /\ WorkerCall => IInv'
<1> SUFFICES ASSUME IInv, WorkerCall PROVE IInv'
  OBVIOUS
<1> DEFINE r == InitCalls[step]
<1>0. /\ pc = "worker" /\ pc' = "worker" /\ i \in Workers /\ step \in 1 .. 6 /\ step' = step + 1
      /\ sync' = sync /\ i' = i /\ j' = j /\ bound' = bound /\ faults' = faults
      /\ balanced' = balanced
  BY Tables DEF IInv, TypeOK, CountersInv, WorkerCall
<1>a. step \in 1 .. 4 => r \in Fields \cup {"mutex"}
  BY Tables DEF Fields
<1>b. /\ held' = IF step \in 1 .. 4 THEN held \cup {<<r, i>>} ELSE held
      /\ ptr' = IF r \in Fields THEN [ptr EXCEPT ![i] = @ \cup {r}] ELSE ptr
      /\ armed' = IF step = 5 THEN armed \cup {i} ELSE armed
      /\ thread' = IF step = 6 THEN [thread EXCEPT ![i] = "created"] ELSE thread
  BY <1>0, Tables DEF WorkerCall
<1>c. r \in Fields <=> step \in 2 .. 4
  BY <1>0, Tables DEF Fields
<1> HIDE DEF r
<1>d. \A q, v : Has(q, v)' <=> Has(q, v) \/ (step \in 1 .. 4 /\ q = r /\ v = i)
  BY <1>b DEF Has
<1>e. \A v \in Workers, q \in Fields :
        q \in ptr'[v] <=> q \in ptr[v] \/ (step \in 1 .. 4 /\ q = r /\ v = i)
  BY <1>0, <1>b, <1>c DEF IInv, TypeOK
<1>1. TypeOK'
  <2>1. ptr' \in [Workers -> SUBSET Fields]
    BY <1>0, <1>b DEF IInv, TypeOK
  <2>2. thread' \in [Workers -> {"none", "created", "loop", "ended"}]
    BY <1>0, <1>b DEF IInv, TypeOK
  <2>3. held' \subseteq LbResources \cup ListenerResources /\ armed' \subseteq Workers
    BY <1>0, <1>a, <1>b, InLbResources DEF IInv, TypeOK
  <2>4. step' \in 1 .. Len(InitCalls) + 1
    BY <1>0, Tables
  <2> QED BY <1>0, <2>1, <2>2, <2>3, <2>4 DEF IInv, TypeOK
<1>2. ReleasedOnce' /\ CountersInv'
  BY <1>0 DEF IInv, ReleasedOnce, CountersInv, Early, Served, Unwinding
<1>3. PointersInv'
  BY <1>0, <1>d, <1>e DEF IInv, PointersInv
<1>4. OthersInv'
  <2>1. \A x \in {Array, LbMutex, Socket, LBase, Listener} : x \in held' <=> x \in held
    BY <1>a, <1>b, OtherResources
  <2> QED BY <1>0, <2>1 DEF IInv, OthersInv, CountersInv, Early
<1>5. ASSUME NEW w \in Workers PROVE WorkerInv(w)'
  <2>1. CASE w = i
    <3>1. MadeUpTo(w, step)
      BY <1>0, <2>1 DEF IInv, WorkerInv
    <3>2. MadeUpTo(w, step)'
      BY <1>0, <1>d, <2>1, <3>1, Tables DEF MadeUpTo, r
    <3> QED BY <1>0, <2>1, <3>2, WorkerCount DEF WorkerInv, Early, Unwinding
  <2>2. CASE w # i
    <3>1. \A q : Has(q, w)' <=> Has(q, w)
      BY <1>d, <2>2
    <3> QED BY <1>0, <2>2, <3>1 DEF IInv, WorkerInv, Full, Bare, Early, Unwinding
  <2> QED BY <2>1, <2>2
<1>6. ASSUME NEW w \in Workers PROVE ThreadInv(w)'
  <2>1. thread'[w] = IF step = 6 /\ w = i THEN "created" ELSE thread[w]
    BY <1>0, <1>b DEF IInv, TypeOK
  <2> QED BY <1>0, <1>b, <2>1, WorkerCount DEF IInv, ThreadInv, Early
<1> QED BY <1>1, <1>2, <1>3, <1>4, <1>5, <1>6 DEF IInv

\* After its sixth call a worker is full, with its thread, and the next one is bare.
LEMMA StepWorkerDone == IInv /\ WorkerDone => IInv'
<1> SUFFICES ASSUME IInv, WorkerDone PROVE IInv'
  OBVIOUS
<1>0. /\ pc = "worker" /\ i \in Workers /\ step = 7 /\ step' = 1 /\ i' = i + 1
      /\ pc' = IF i + 1 < NWorkers THEN "worker" ELSE "listener"
      /\ balanced' = (i + 1 = NWorkers)
      /\ UNCHANGED <<sync, j, bound, ptr, held, faults, armed, thread>>
  BY Tables DEF IInv, TypeOK, CountersInv, WorkerDone
<1>1. TypeOK'
  BY <1>0, Tables, WorkerCount DEF IInv, TypeOK
<1>2. ReleasedOnce' /\ PointersInv'
  BY <1>0 DEF IInv, ReleasedOnce, PointersInv, Has
<1>a. balanced' <=> pc' = "listener"
  <2>1. CASE i + 1 = NWorkers
    <3>1. balanced' = TRUE
      BY <1>0, <2>1, Zenon
    <3>2. pc' = "listener"
      BY <1>0, <2>1, WorkerCount
    <3> QED BY <3>1, <3>2
  <2>2. CASE i + 1 # NWorkers
    <3>1. i + 1 < NWorkers
      BY <1>0, <2>2, WorkerCount
    <3>2. ~ balanced' /\ pc' # "listener"
      BY <1>0, <2>2, <3>1
    <3> QED BY <3>2
  <2> QED BY <2>1, <2>2
<1>b. pc' \in {"worker", "listener"} /\ (pc' = "worker" => i' \in Workers)
  BY <1>0, WorkerCount
<1>c. CountersInv'
  BY <1>0, <1>a, <1>b DEF CountersInv, Early, Served, Unwinding
<1>3. OthersInv'
  BY <1>0, WorkerCount DEF IInv, OthersInv, CountersInv, Early
<1>4. ASSUME NEW w \in Workers PROVE WorkerInv(w)' /\ ThreadInv(w)'
  BY <1>0, WorkerCount
  DEF IInv, WorkerInv, ThreadInv, MadeUpTo, Full, Bare, Has, Early, Unwinding
<1> QED BY <1>1, <1>2, <1>c, <1>3, <1>4 DEF IInv

\* Whichever call fails, what has been acquired is a prefix of the table.
LEMMA StepWorkerCallFails == IInv /\ WorkerCallFails => IInv'
<1> SUFFICES ASSUME IInv, WorkerCallFails PROVE IInv'
  OBVIOUS
<1>0. /\ pc = "worker" /\ i \in Workers /\ step \in 1 .. 6 /\ step' = 1 /\ i' = i
      /\ pc' = IF step = 1 THEN "unwind" ELSE "FAIL"
      /\ j' = 0 /\ bound' = i
      /\ UNCHANGED <<sync, ptr, held, faults, armed, thread, balanced>>
  BY Tables DEF IInv, TypeOK, CountersInv, WorkerCallFails
<1>1. TypeOK'
  BY <1>0, Tables, WorkerCount DEF IInv, TypeOK
<1>2. ReleasedOnce' /\ CountersInv' /\ PointersInv'
  BY <1>0 DEF IInv, ReleasedOnce, CountersInv, PointersInv, Has, Early, Served, Unwinding
<1>3. OthersInv'
  BY <1>0 DEF IInv, OthersInv, CountersInv, Early
<1>4. ASSUME NEW w \in Workers PROVE WorkerInv(w)' /\ ThreadInv(w)'
  BY <1>0, WorkerCount
  DEF IInv, WorkerInv, ThreadInv, MadeUpTo, Failing, LeftFrom, Full, Bare, Has, Early, Unwinding
<1> QED BY <1>1, <1>2, <1>3, <1>4 DEF IInv

\* A release of FailRelease is skipped exactly when the resource is not held.
LEMMA StepFailRelease == IInv /\ FailRelease => IInv'
<1> SUFFICES ASSUME IInv, FailRelease PROVE IInv'
  OBVIOUS
<1> DEFINE r == Releases[step]
<1>0. /\ pc = "FAIL" /\ i \in Workers /\ step \in 1 .. 4 /\ j = 0 /\ bound = i
      /\ step' = (IF step = 4 THEN 1 ELSE step + 1)
      /\ pc' = (IF step = 4 THEN "unwind" ELSE "FAIL")
      /\ UNCHANGED <<sync, i, j, bound, thread, balanced>>
  BY Tables DEF IInv, CountersInv, FailRelease, NextRelease
<1>a. r \in Fields \cup {"mutex"} /\ (r = "mutex" <=> step = 1)
  BY <1>0, Tables DEF Fields
<1>b. IF r = "mutex" \/ r \in ptr[i]
      THEN Release({<<r, i>>}) /\ ptr' = [ptr EXCEPT ![i] = @ \ {r}] /\ Disarm(r, i)
      ELSE UNCHANGED <<held, faults, ptr, armed>>
  BY DEF FailRelease
<1> HIDE DEF r
<1>c. (r = "mutex" \/ r \in ptr[i]) <=> Has(r, i)
  BY <1>0, <1>a, <1>b DEF IInv, WorkerInv, Failing, PointersInv
<1>d. /\ \A q, v : Has(q, v)' <=> Has(q, v) /\ ~ (q = r /\ v = i)
      /\ held' \subseteq held /\ faults' = faults
      /\ \A x \in {Array, LbMutex, Socket, LBase, Listener} : x \in held' <=> x \in held
  <2>1. CASE Has(r, i)
    BY <1>a, <1>b, <1>c, <2>1, OneRelease
  <2>2. CASE ~ Has(r, i)
    BY <1>b, <1>c, <2>2 DEF Has
  <2> QED BY <2>1, <2>2
<1>e. /\ ptr' \in [Workers -> SUBSET Fields]
      /\ \A v \in Workers, q \in Fields : q \in ptr'[v] <=> q \in ptr[v] /\ ~ (q = r /\ v = i)
  BY <1>0, <1>a, <1>b DEF IInv, TypeOK
<1>f. armed' \subseteq armed /\ \A v \in Workers : v # i => (v \in armed' <=> v \in armed)
  BY <1>b DEF Disarm
<1>1. TypeOK'
  BY <1>0, <1>d, <1>e, <1>f, Tables, WorkerCount DEF IInv, TypeOK
<1>2. ReleasedOnce' /\ CountersInv'
  BY <1>0, <1>d, WorkerCount DEF IInv, ReleasedOnce, CountersInv, Early, Served, Unwinding
<1>3. PointersInv'
  BY <1>0, <1>d, <1>e DEF IInv, PointersInv
<1>4. OthersInv'
  BY <1>0, <1>d DEF IInv, OthersInv, CountersInv, Early
<1>5. ASSUME NEW w \in Workers PROVE WorkerInv(w)'
  <2>1. CASE w = i
    <3>1. Failing(w, step)
      BY <1>0, <2>1 DEF IInv, WorkerInv
    <3>2. CASE step = 4
      <4>1. Bare(w)'
        BY <1>0, <1>d, <2>1, <3>1, <3>2, Tables DEF Failing, Bare, r
      <4> QED BY <1>0, <2>1, <3>2, <4>1, WorkerCount DEF WorkerInv, Early, Unwinding
    <3>3. CASE step # 4
      <4>1. Failing(w, step)'
        BY <1>0, <1>d, <2>1, <3>1, <3>3, Tables DEF Failing, r
      <4> QED BY <1>0, <2>1, <3>3, <4>1, WorkerCount DEF WorkerInv, Early, Unwinding
    <3> QED BY <3>2, <3>3
  <2>2. CASE w # i
    <3>1. \A q : Has(q, w)' <=> Has(q, w)
      BY <1>d, <2>2
    <3> QED BY <1>0, <2>2, <3>1, WorkerCount
            DEF IInv, WorkerInv, Full, Bare, LeftFrom, Early, Unwinding
  <2> QED BY <2>1, <2>2
<1>6. ASSUME NEW w \in Workers PROVE ThreadInv(w)'
  BY <1>0, <1>f, WorkerCount DEF IInv, ThreadInv, Early
<1> QED BY <1>1, <1>2, <1>3, <1>4, <1>5, <1>6 DEF IInv

\* worker_destroy only meets full workers, and empties them one resource at a time.
LEMMA StepDestroyWorker == IInv /\ DestroyWorker => IInv'
<1> SUFFICES ASSUME IInv, DestroyWorker PROVE IInv'
  OBVIOUS
<1> DEFINE r == Releases[step]
<1>0. /\ pc \in {"unwind", "destroy"} /\ j \in Workers /\ j < bound /\ step \in 1 .. 4
      /\ bound \in 0 .. NWorkers
      /\ UNCHANGED <<sync, pc, i, bound, thread, balanced>>
  BY WorkerCount DEF IInv, TypeOK, CountersInv, DestroyWorker, Unwinding
<1>g. LeftFrom(j, step)
  BY <1>0 DEF IInv, WorkerInv, Unwinding
<1>h. "base" \in ptr[j]
  BY <1>0, <1>g DEF IInv, PointersInv, LeftFrom, Fields
<1>a. r \in Fields \cup {"mutex"} /\ Has(r, j)
  BY <1>0, <1>g, Tables DEF Fields, LeftFrom
<1>b. /\ Release({<<r, j>>}) /\ ptr' = [ptr EXCEPT ![j] = @ \ {r}] /\ Disarm(r, j)
      /\ step' = (IF step = 4 THEN 1 ELSE step + 1)
      /\ j' = (IF step = 4 THEN j + 1 ELSE j)
  BY <1>0, <1>h, Tables DEF DestroyWorker, NextRelease
<1> HIDE DEF r
<1>d. /\ \A q, v : Has(q, v)' <=> Has(q, v) /\ ~ (q = r /\ v = j)
      /\ held' \subseteq held /\ faults' = faults
      /\ \A x \in {Array, LbMutex, Socket, LBase, Listener} : x \in held' <=> x \in held
  BY <1>a, <1>b, OneRelease
<1>e. /\ ptr' \in [Workers -> SUBSET Fields]
      /\ \A v \in Workers, q \in Fields : q \in ptr'[v] <=> q \in ptr[v] /\ ~ (q = r /\ v = j)
  BY <1>0, <1>a, <1>b DEF IInv, TypeOK
<1>f. armed' \subseteq armed
  BY <1>b DEF Disarm
<1>1. TypeOK'
  <2>1. step' \in 1 .. Len(InitCalls) + 1 /\ j' \in 0 .. bound
    BY <1>0, <1>b, Tables, WorkerCount
  <2> QED BY <1>0, <1>d, <1>e, <1>f, <2>1 DEF IInv, TypeOK
<1>2. ReleasedOnce' /\ CountersInv'
  BY <1>0, <1>b, <1>d, WorkerCount
  DEF IInv, ReleasedOnce, CountersInv, Early, Served, Unwinding
<1>3. PointersInv'
  BY <1>0, <1>d, <1>e DEF IInv, PointersInv
<1>4. OthersInv'
  BY <1>0, <1>d DEF IInv, OthersInv, CountersInv, Early
<1>5. ASSUME NEW w \in Workers PROVE WorkerInv(w)'
  <2>1. CASE w = j
    <3>1. CASE step = 4
      <4>1. Bare(w)'
        BY <1>0, <1>d, <1>g, <2>1, <3>1, Tables DEF LeftFrom, Bare, r
      <4> QED BY <1>0, <1>b, <2>1, <3>1, <4>1, WorkerCount DEF WorkerInv, Early, Unwinding
    <3>2. CASE step # 4
      <4>1. LeftFrom(w, step)'
        BY <1>0, <1>b, <1>d, <1>g, <2>1, <3>2, Tables DEF LeftFrom, r
      <4> QED BY <1>0, <1>b, <2>1, <3>2, <4>1, WorkerCount DEF WorkerInv, Early, Unwinding
    <3> QED BY <3>1, <3>2
  <2>2. CASE w # j
    <3>1. \A q : Has(q, w)' <=> Has(q, w)
      BY <1>d, <2>2
    <3>2. CASE step = 4
      BY <1>0, <1>b, <2>2, <3>1, <3>2, WorkerCount
      DEF IInv, WorkerInv, Full, Bare, LeftFrom, Early, Unwinding
    <3>3. CASE step # 4
      BY <1>0, <1>b, <2>2, <3>1, <3>3, WorkerCount
      DEF IInv, WorkerInv, Full, Bare, Early, Unwinding
    <3> QED BY <3>2, <3>3
  <2> QED BY <2>1, <2>2
<1>6. ASSUME NEW w \in Workers PROVE ThreadInv(w)'
  BY <1>0 DEF ThreadInv, Early
<1> QED BY <1>1, <1>2, <1>3, <1>4, <1>5, <1>6 DEF IInv

\* When the array goes, no worker has anything left.
LEMMA StepFreeWorkers == IInv /\ FreeWorkers => IInv'
<1> SUFFICES ASSUME IInv, FreeWorkers PROVE IInv'
  OBVIOUS
<1>0. /\ pc \in {"unwind", "destroy"} /\ j = bound /\ pc' = "returned"
      /\ UNCHANGED <<sync, i, j, bound, step, ptr, armed, thread, balanced>>
      /\ pc = "unwind" => ~ balanced
      /\ pc = "destroy" => bound = NWorkers /\ balanced
  BY DEF IInv, FreeWorkers, Unwinding, CountersInv, Early, Served
<1>a. Array \in held /\ LbMutex \in held
  BY <1>0 DEF IInv, OthersInv, Early
<1>b. /\ faults' = faults
      /\ held' = held \ (IF pc = "unwind" THEN {Array, LbMutex} ELSE {Array})
  BY <1>a DEF FreeWorkers, Release
<1>c. /\ LbMutex \notin {Array, Socket, LBase, Listener}
      /\ Array \notin {LbMutex, Socket, LBase, Listener}
  BY DEF Array, LbMutex, Socket, LBase, Listener
<1>d. \A r \in Fields \cup {"mutex"} : \A w : Has(r, w)' <=> Has(r, w)
  BY <1>b, OtherResources DEF Has
<1>1. TypeOK'
  BY <1>0, <1>b DEF IInv, TypeOK
<1>2. ReleasedOnce' /\ CountersInv' /\ PointersInv'
  BY <1>0, <1>b DEF IInv, ReleasedOnce, CountersInv, PointersInv, Early, Served, Unwinding
<1>3. OthersInv'
  BY <1>0, <1>b, <1>c DEF IInv, OthersInv, Early
<1>4. ASSUME NEW w \in Workers PROVE WorkerInv(w)' /\ ThreadInv(w)'
  <2>1. Bare(w)
    BY <1>0, WorkerCount DEF IInv, TypeOK, WorkerInv, Unwinding
  <2>2. Bare(w)'
    BY <1>d, <2>1 DEF Bare, Fields
  <2> QED BY <1>0, <2>2 DEF WorkerInv, ThreadInv, Early, Unwinding
<1> QED BY <1>1, <1>2, <1>3, <1>4 DEF IInv

\* The resources of the listener are apart from all others and from each other.
LEMMA ListenerNames ==
  /\ {Socket, LBase, Listener} \cap {Array, LbMutex} = {}
  /\ Socket # LBase /\ Socket # Listener /\ LBase # Listener
  /\ ListenerResources = {Socket, LBase, Listener}
  BY DEF Socket, LBase, Listener, Array, LbMutex, ListenerResources

\* What the calls of either listener acquire.
LEMMA AcquiresWhat ==
  /\ sync => /\ Len(ListenerCalls) = 3 /\ Acquires(ListenerCalls[1]) = {Socket}
             /\ Acquires(ListenerCalls[2]) = {} /\ Acquires(ListenerCalls[3]) = {}
  /\ ~ sync => /\ Len(ListenerCalls) = 2 /\ Acquires(ListenerCalls[1]) = {LBase}
               /\ Acquires(ListenerCalls[2]) = {Listener}
<1>1. CASE sync
  <2>1. ListenerCalls = <<"socket", "bind", "listen">>
    BY <1>1 DEF ListenerCalls
  <2> QED BY <1>1, <2>1 DEF Acquires
<1>2. CASE ~ sync
  <2>1. ListenerCalls = <<"event_base_new", "evconnlistener_new_bind">>
    BY <1>2 DEF ListenerCalls
  <2> QED BY <1>2, <2>1 DEF Acquires
<1> QED BY <1>1, <1>2

\* A step of the listener's init that acquires nothing but the listener's own resources.
LEMMA ListenerCallKeeps ==
  ASSUME IInv, pc = "listener", pc' \in {"listener", "serving"},
         UNCHANGED <<sync, i, j, bound, ptr, faults, armed, thread, balanced>>,
         pc' = "listener" => step' \in 1 .. (IF sync THEN 3 ELSE 2),
         step' \in 1 .. 7,
         \A x : x \in held' => x \in held \cup ListenerResources,
         \A x : x \in held => x \in held',
         OthersInv'
  PROVE  IInv'
<1>1. TypeOK'
  BY Tables DEF IInv, TypeOK
<1>2. \A r \in Fields \cup {"mutex"} : \A w : Has(r, w)' <=> Has(r, w)
  BY OtherResources, ListenerNames DEF Has
<1>3. CountersInv'
  BY DEF IInv, CountersInv, Early, Served, Unwinding
<1>4. ReleasedOnce' /\ PointersInv'
  BY <1>2 DEF IInv, ReleasedOnce, PointersInv
<1>5. ASSUME NEW w \in Workers PROVE WorkerInv(w)' /\ ThreadInv(w)'
  BY <1>2 DEF IInv, WorkerInv, ThreadInv, Full, Early, Unwinding, Fields
<1> QED BY <1>1, <1>3, <1>4, <1>5 DEF IInv

\* The calls of the listener that succeed, synchronous and asynchronous.
LEMMA StepListenerCall == IInv /\ ListenerCall => IInv'
<1> SUFFICES ASSUME IInv, ListenerCall PROVE IInv'
  OBVIOUS
<1>0. /\ pc = "listener" /\ held' = held \cup Acquires(ListenerCalls[step])
      /\ pc' \in {"listener", "serving"}
      /\ UNCHANGED <<sync, i, j, bound, ptr, faults, armed, thread, balanced>>
  BY DEF ListenerCall
<1>1. CASE sync
  <2>1. step \in 1 .. 3
    BY <1>1 DEF IInv, TypeOK, CountersInv, ListenerCall
  <2>0. Len(ListenerCalls) = 3
    BY <1>1, AcquiresWhat
  <2>2. step < 3 => step' = step + 1 /\ pc' = "listener"
    BY <2>0 DEF ListenerCall
  <2>3. step = 3 => step' = 1 /\ pc' = "serving"
    BY <2>0 DEF ListenerCall
  <2>4. Acquires(ListenerCalls[step]) = IF step = 1 THEN {Socket} ELSE {}
    BY <1>1, <2>1, AcquiresWhat
  <2>5. \A x : x \in held' <=> x \in held \/ (step = 1 /\ x = Socket)
    BY <1>0, <2>4
  <2>6. OthersInv'
    BY <1>0, <1>1, <2>1, <2>2, <2>3, <2>5, ListenerNames
    DEF IInv, OthersInv, CountersInv, Early, Served
  <2>7. /\ \A x : x \in held' => x \in held \cup ListenerResources
        /\ \A x : x \in held => x \in held'
    BY <2>5, ListenerNames
  <2>8. step' \in 1 .. 7 /\ (pc' = "listener" => step' \in 1 .. (IF sync THEN 3 ELSE 2))
    BY <1>1, <2>1, <2>2, <2>3
  <2> QED BY <1>0, <2>6, <2>7, <2>8, ListenerCallKeeps
<1>2. CASE ~ sync
  <2>1. step \in 1 .. 2
    BY <1>2 DEF IInv, TypeOK, CountersInv, ListenerCall
  <2>0. Len(ListenerCalls) = 2
    BY <1>2, AcquiresWhat
  <2>2. step < 2 => step' = step + 1 /\ pc' = "listener"
    BY <2>0 DEF ListenerCall
  <2>3. step = 2 => step' = 1 /\ pc' = "serving"
    BY <2>0 DEF ListenerCall
  <2>4. Acquires(ListenerCalls[step]) = IF step = 1 THEN {LBase} ELSE {Listener}
    <3>1. CASE step = 1
      BY <1>2, <3>1, AcquiresWhat
    <3>2. CASE step = 2
      BY <1>2, <3>2, AcquiresWhat
    <3> QED BY <2>1, <3>1, <3>2
  <2>5. \A x : x \in held' <=>
              x \in held \/ (step = 1 /\ x = LBase) \/ (step = 2 /\ x = Listener)
    BY <1>0, <2>1, <2>4
  <2>6. OthersInv'
    BY <1>0, <1>2, <2>1, <2>2, <2>3, <2>5, ListenerNames
    DEF IInv, OthersInv, CountersInv, Early, Served
  <2>7. /\ \A x : x \in held' => x \in held \cup ListenerResources
        /\ \A x : x \in held => x \in held'
    BY <2>5, ListenerNames
  <2>8. step' \in 1 .. 7 /\ (pc' = "listener" => step' \in 1 .. (IF sync THEN 3 ELSE 2))
    BY <1>2, <2>1, <2>2, <2>3
  <2> QED BY <1>0, <2>6, <2>7, <2>8, ListenerCallKeeps
<1> QED BY <1>1, <1>2

\* From the listener or from its service to END: the workers are all there.
LEMMA ToEnd ==
  ASSUME IInv, pc \in {"listener", "serving"}, GotoEnd,
         UNCHANGED <<sync, i, ptr, faults, armed, thread, balanced>>,
         held' \subseteq held,
         \A r \in Fields \cup {"mutex"} : \A w : Has(r, w)' <=> Has(r, w),
         Array \in held' /\ LbMutex \in held' /\ Socket \notin held',
         LBase \in held' <=> Listener \in held', LBase \in held' => ~ sync
  PROVE  IInv'
<1>1. TypeOK'
  BY Tables, WorkerCount DEF IInv, TypeOK, GotoEnd
<1>2. ReleasedOnce' /\ CountersInv' /\ PointersInv'
  BY WorkerCount
  DEF IInv, GotoEnd, ReleasedOnce, CountersInv, PointersInv, Early, Served, Unwinding
<1>3. OthersInv'
  BY DEF IInv, GotoEnd, OthersInv, CountersInv, Early, Served
<1>4. ASSUME NEW w \in Workers PROVE WorkerInv(w)' /\ ThreadInv(w)'
  BY WorkerCount
  DEF IInv, GotoEnd, WorkerInv, ThreadInv, LeftFrom, Full, Early, Unwinding, Fields
<1> QED BY <1>1, <1>2, <1>3, <1>4 DEF IInv

\* A failing call of the listener gives back what the first one acquired.
LEMMA StepListenerCallFails == IInv /\ ListenerCallFails => IInv'
<1> SUFFICES ASSUME IInv, ListenerCallFails PROVE IInv'
  OBVIOUS
<1>0. /\ pc = "listener" /\ GotoEnd /\ sync \in BOOLEAN /\ step \in 1 .. (IF sync THEN 3 ELSE 2)
      /\ UNCHANGED <<sync, i, ptr, armed, thread, balanced>>
  BY DEF IInv, TypeOK, CountersInv, ListenerCallFails
<1>1. /\ faults' = faults
      /\ held' = held \ (IF step = 1 THEN {} ELSE IF sync THEN {Socket} ELSE {LBase})
  BY <1>0, AcquiresWhat DEF IInv, OthersInv, ListenerCallFails, Release
<1>2. \A r \in Fields \cup {"mutex"} : \A w : Has(r, w)' <=> Has(r, w)
  BY <1>1, OtherResources DEF Has
<1>3. /\ Array \in held' /\ LbMutex \in held' /\ Socket \notin held'
      /\ LBase \notin held' /\ Listener \notin held'
  <2>1. Array \in held /\ LbMutex \in held /\ Listener \notin held
    BY <1>0 DEF IInv, OthersInv, Early
  <2>2. CASE sync
    <3>1. LBase \notin held /\ (Socket \in held => step # 1)
      BY <1>0, <2>2 DEF IInv, OthersInv
    <3> QED BY <1>1, <2>1, <2>2, <3>1, ListenerNames
  <2>3. CASE ~ sync
    <3>1. Socket \notin held /\ (LBase \in held => step # 1)
      BY <1>0, <2>3 DEF IInv, OthersInv
    <3> QED BY <1>1, <2>1, <2>3, <3>1, ListenerNames
  <2> QED BY <2>2, <2>3
<1>4. /\ held' \subseteq held
      /\ LBase \in held' <=> Listener \in held'
      /\ LBase \in held' => ~ sync
  BY <1>1, <1>3
<1>5. UNCHANGED <<sync, i, ptr, faults, armed, thread, balanced>> /\ pc \in {"listener", "serving"}
  BY <1>0, <1>1
<1> QED BY <1>0, <1>2, <1>3, <1>4, <1>5, ToEnd

\* The asynchronous service ends with the listener and its base still held.
LEMMA StepServeReturns == IInv /\ ServeReturns => IInv'
<1> SUFFICES ASSUME IInv, ServeReturns PROVE IInv'
  OBVIOUS
<1>1. /\ pc = "serving" /\ GotoEnd /\ ~ sync
      /\ UNCHANGED <<sync, i, ptr, held, faults, armed, thread, balanced>>
  BY DEF ServeReturns
<1>2. \A r \in Fields \cup {"mutex"} : \A w : Has(r, w)' <=> Has(r, w)
  BY <1>1 DEF Has
<1>3. /\ Array \in held' /\ LbMutex \in held' /\ Socket \notin held'
      /\ LBase \in held' <=> Listener \in held'
  BY <1>1 DEF IInv, OthersInv, Early
<1> QED BY <1>1, <1>2, <1>3, ToEnd

\* Before the workers are destroyed, their timers keep the threads in their loops.
LEMMA StepThreads ==
  ASSUME NEW w \in Workers
  PROVE  IInv /\ (ThreadRuns(w) \/ ThreadEnds(w)) => IInv'
<1> SUFFICES ASSUME IInv, ThreadRuns(w) \/ ThreadEnds(w) PROVE IInv'
  OBVIOUS
<1>0. /\ UNCHANGED <<sync, pc, i, j, bound, step, ptr, held, faults, armed, balanced>>
      /\ thread[w] # "none" /\ thread[w] # "ended"
      /\ \/ thread' = [thread EXCEPT ![w] = "loop"]
         \/ thread' = [thread EXCEPT ![w] = "ended"] /\ w \notin armed
  BY DEF ThreadRuns, ThreadEnds
<1>1. TypeOK'
  BY <1>0 DEF IInv, TypeOK
<1>2. ReleasedOnce' /\ CountersInv' /\ PointersInv' /\ OthersInv'
  BY <1>0 DEF IInv, ReleasedOnce, CountersInv, PointersInv, OthersInv, Has, Unwinding
<1>3. ASSUME NEW v \in Workers PROVE WorkerInv(v)' /\ ThreadInv(v)'
  <2>1. WorkerInv(v)'
    BY <1>0 DEF IInv, WorkerInv, MadeUpTo, LeftFrom, Failing, Full, Bare, Has, Unwinding
  <2>2. thread'[v] = thread[v] \/ (v = w /\ thread'[v] = "loop")
          \/ (v = w /\ thread'[v] = "ended" /\ v \notin armed)
    BY <1>0 DEF IInv, TypeOK
  <2>3. ThreadInv(v)'
    BY <1>0, <2>2 DEF IInv, ThreadInv
  <2> QED BY <2>1, <2>3
<1> QED BY <1>1, <1>2, <1>3 DEF IInv
-----------------------------------------------------------------------------
(* The theorems.                                                            *)

\* Every step, of the main thread and of the threads, keeps the invariant.
LEMMA StepIInv == IInv /\ [Next]_vars => IInv'
<1> SUFFICES ASSUME IInv, [Next]_vars PROVE IInv'
  OBVIOUS
<1>1. CASE Main
  BY <1>1, StepUseThreads, StepMallocWorkers, StepInitMutex, StepWorkerCall, StepWorkerDone,
     StepWorkerCallFails, StepFailRelease, StepDestroyWorker, StepFreeWorkers, StepListenerCall,
     StepListenerCallFails DEF Main
<1>2. CASE ServeReturns
  BY <1>2, StepServeReturns
<1>3. ASSUME NEW w \in Workers, ThreadRuns(w) \/ ThreadEnds(w) PROVE IInv'
  BY <1>3, StepThreads
<1>4. CASE UNCHANGED vars
  BY <1>4 DEF vars, IInv, TypeOK, ReleasedOnce, CountersInv, PointersInv, OthersInv, WorkerInv,
              ThreadInv, MadeUpTo, LeftFrom, Failing, Full, Bare, Has, Unwinding
<1> QED BY <1>1, <1>2, <1>3, <1>4 DEF Next

\* What is held is determined by where root_handler is, and by the counters of its loops.
THEOREM InductiveInvariant == Spec => []IInv
<1> QED BY InitIInv, StepIInv, PTL DEF Spec

\* Types: the loops over the workers, the calls and the releases stay in their bounds.
THEOREM TypesHold == Spec => []TypeOK
<1>1. IInv => TypeOK
  BY DEF IInv
<1> QED BY <1>1, InductiveInvariant, PTL

\* Whichever call fails, nothing is released twice or without having been acquired.
THEOREM NothingReleasedTwice == Spec => []ReleasedOnce
<1>1. IInv => ReleasedOnce
  BY DEF IInv
<1> QED BY <1>1, InductiveInvariant, PTL

\* The event and the HTTP server of a worker go before the base they live in.
THEOREM BaseReleasedLast == Spec => []BaseLast
<1>1. ASSUME IInv, NEW w \in Workers, ~ Has("base", w)
      PROVE  ~ Has("ev", w) /\ ~ Has("http", w)
  <2>1. WorkerInv(w) /\ TypeOK
    BY <1>1 DEF IInv
  <2>2. CASE pc \in {"worker", "FAIL"}
    BY <1>1, <2>1, <2>2, WorkerCount, Tables
    DEF WorkerInv, MadeUpTo, Failing, Full, Bare, TypeOK
  <2>3. CASE pc \in {"unwind", "destroy"}
    BY <1>1, <2>1, <2>3, WorkerCount, Tables DEF IInv, CountersInv, WorkerInv, LeftFrom, Full, Bare,
       Unwinding, TypeOK
  <2>4. CASE pc \notin {"worker", "FAIL", "unwind", "destroy"}
    BY <1>1, <2>1, <2>4 DEF WorkerInv, Full, Bare, Early, TypeOK
  <2> QED BY <2>2, <2>3, <2>4
<1>2. IInv => BaseLast
  BY <1>1 DEF BaseLast, Has
<1> QED BY <1>2, InductiveInvariant, PTL

\* load_balancer_init makes every worker with its thread, or leaves nothing behind.
THEOREM InitialisesAllOrNothing == Spec => []InitAllOrNothing
<1>1. ASSUME IInv, pc = "returned", ~ balanced PROVE held = {}
  <2>1. \A w \in Workers : Bare(w)
    BY <1>1 DEF IInv, WorkerInv
  <2>2. \A w \in Workers, r \in {"mutex", "ev", "http", "base"} : <<r, w>> \notin held
    BY <2>1 DEF Bare, Has
  <2>3. Array \notin held /\ LbMutex \notin held
    BY <1>1 DEF IInv, OthersInv
  <2>4. Socket \notin held /\ LBase \notin held /\ Listener \notin held
    BY <1>1 DEF IInv, OthersInv
  <2>5. held \subseteq LbResources \cup ListenerResources
    BY <1>1 DEF IInv, TypeOK
  <2>6. ASSUME NEW x \in held PROVE FALSE
    <3>1. CASE x \in LbResources
      <4>1. x \in {Array, LbMutex} \/ \E w \in Workers : x \in WorkerResources(w)
        BY <3>1 DEF LbResources
      <4>2. ASSUME NEW w \in Workers, x \in WorkerResources(w) PROVE FALSE
        <5>1. PICK r \in {"mutex", "ev", "http", "base"} : x = <<r, w>>
          BY <4>2 DEF WorkerResources
        <5> QED BY <2>2, <5>1
      <4> QED BY <2>3, <4>1, <4>2
    <3>2. CASE x \in ListenerResources
      BY <2>4, <3>2 DEF ListenerResources
    <3> QED BY <2>5, <3>1, <3>2
  <2> QED BY <2>6
<1>2. ASSUME IInv, pc \in {"listener", "serving"}
      PROVE  LbResources \subseteq held /\ \A w \in Workers : thread[w] # "none"
  <2>1. \A w \in Workers : Full(w)
    BY <1>2 DEF IInv, WorkerInv
  <2>2. \A w \in Workers, r \in {"mutex", "ev", "http", "base"} : <<r, w>> \in held
    BY <2>1 DEF Full, Has
  <2>3. Array \in held /\ LbMutex \in held
    BY <1>2 DEF IInv, OthersInv, Early
  <2>4. ASSUME NEW x \in LbResources PROVE x \in held
    <3>1. x \in {Array, LbMutex} \/ \E w \in Workers : x \in WorkerResources(w)
      BY DEF LbResources
    <3>2. ASSUME NEW w \in Workers, x \in WorkerResources(w) PROVE x \in held
      <4>1. PICK r \in {"mutex", "ev", "http", "base"} : x = <<r, w>>
        BY <3>2 DEF WorkerResources
      <4> QED BY <2>2, <4>1
    <3> QED BY <2>3, <3>1, <3>2
  <2>5. \A w \in Workers : thread[w] # "none"
    BY <1>2 DEF IInv, ThreadInv
  <2> QED BY <2>4, <2>5
<1>3. IInv => InitAllOrNothing
  BY <1>1, <1>2 DEF InitAllOrNothing
<1> QED BY <1>3, InductiveInvariant, PTL

\* Before any worker is destroyed its thread finds its timer pending and its base in place.
THEOREM ThreadsRunUntilDestroyed == Spec => []ThreadsKeepRunning
<1>1. ASSUME IInv, ~ Unwinding, pc # "returned", NEW w \in Workers
      PROVE  thread[w] # "ended" /\ (thread[w] # "none" => w \in armed /\ Has("base", w))
  <2>1. WorkerInv(w) /\ ThreadInv(w) /\ TypeOK
    BY <1>1 DEF IInv
  <2>2. CASE pc \in {"worker", "FAIL"}
    BY <1>1, <2>1, <2>2, WorkerCount, Tables
    DEF WorkerInv, ThreadInv, MadeUpTo, Full, TypeOK
  <2>3. CASE pc \notin {"worker", "FAIL"}
    BY <1>1, <2>1, <2>3 DEF WorkerInv, ThreadInv, Full, Early, TypeOK, Unwinding
  <2> QED BY <2>2, <2>3
<1>2. IInv => ThreadsKeepRunning
  BY <1>1 DEF ThreadsKeepRunning, Has
<1> QED BY <1>2, InductiveInvariant, PTL

\* A listener that could not be initialised keeps no socket and no base.
THEOREM ListenerInitialisesAllOrNothing == Spec => []ListenerAllOrNothing
<1>1. ASSUME IInv, pc = "destroy"
      PROVE  \/ held \cap ListenerResources = {}
             \/ ~ sync /\ held \cap ListenerResources = {LBase, Listener}
  BY <1>1, ListenerNames DEF IInv, OthersInv
<1>2. IInv => ListenerAllOrNothing
  BY <1>1 DEF ListenerAllOrNothing
<1> QED BY <1>2, InductiveInvariant, PTL

\* What root_handler can leave behind when it returns.
LeavesAtMost == pc = "returned" => held \subseteq {LbMutex, LBase, Listener}

\* Whatever failed, no worker, no array and no socket is left when root_handler returns: all it
\* can leave is the balancer's mutex and the base and the listener of an asynchronous service.
THEOREM LeaksAreBounded == Spec => []LeavesAtMost
<1>1. ASSUME IInv, pc = "returned", NEW x \in held PROVE x \in {LbMutex, LBase, Listener}
  <2>1. Array \notin held /\ Socket \notin held
    BY <1>1 DEF IInv, OthersInv
  <2>2. x \in {Array, LbMutex} \cup {Socket, LBase, Listener}
          \/ \E w \in Workers : x \in WorkerResources(w)
    BY <1>1 DEF IInv, TypeOK, LbResources, ListenerResources
  <2>3. ASSUME NEW w \in Workers, x \in WorkerResources(w) PROVE FALSE
    <3>1. PICK r \in {"mutex", "ev", "http", "base"} : x = <<r, w>>
      BY <2>3 DEF WorkerResources
    <3>2. Bare(w)
      BY <1>1 DEF IInv, WorkerInv
    <3> QED BY <1>1, <3>1, <3>2 DEF Bare, Has
  <2> QED BY <1>1, <2>1, <2>2, <2>3
<1>2. IInv => LeavesAtMost
  BY <1>1 DEF LeavesAtMost
<1> QED BY <1>2, InductiveInvariant, PTL
-----------------------------------------------------------------------------
(* Every step goes on.                                                      *)

\* The order in which root_handler comes to its parts.
Part(p) == CASE p = "evthread" -> 0 [] p = "malloc" -> 1 [] p = "lbmutex" -> 2
             [] p = "worker" -> 3 [] p = "FAIL" -> 4 [] p = "unwind" -> 5
             [] p = "listener" -> 6 [] p = "serving" -> 7 [] p = "destroy" -> 8
             [] p = "returned" -> 9

\* The main thread comes to a later part, or to a later worker or call in a loop.
MainGoesOn ==
  \/ Part(pc) < Part(pc')
  \/ pc' = pc /\ pc = "worker" /\ (i < i' \/ (i' = i /\ step < step'))
  \/ pc' = pc /\ pc \in {"FAIL", "listener"} /\ step < step'
  \/ pc' = pc /\ Unwinding /\ (j < j' \/ (j' = j /\ step < step'))

Stage(t) == CASE t = "none" -> 0 [] t = "created" -> 1 [] t = "loop" -> 2 [] t = "ended" -> 3

\* Thread w comes to its next stage, and nothing else changes.
ThreadGoesOn(w) ==
  /\ UNCHANGED <<pc, i, j, step>>
  /\ Stage(thread[w]) < Stage(thread'[w])
  /\ \A v \in Workers \ {w} : thread'[v] = thread[v]

\* No step of the main thread goes back: the counters of the loops only rise.
LEMMA MainStepGoesOn ==
  ASSUME IInv, Main \/ ServeReturns
  PROVE  MainGoesOn
<1> USE DEF MainGoesOn, Part, Unwinding
<1>1. i \in Nat /\ j \in Nat /\ step \in Nat /\ NWorkers \in Nat
  BY WorkerCount DEF IInv, TypeOK
<1>2. CASE UseThreads \/ MallocWorkers \/ InitMutex
  BY <1>2 DEF UseThreads, MallocWorkers, InitMutex
<1>3. CASE WorkerCall \/ WorkerDone \/ WorkerCallFails
  BY <1>1, <1>3 DEF WorkerCall, WorkerDone, WorkerCallFails
<1>4. CASE FailRelease
  BY <1>1, <1>4 DEF FailRelease, NextRelease
<1>5. CASE DestroyWorker \/ FreeWorkers
  BY <1>1, <1>5 DEF DestroyWorker, FreeWorkers, NextRelease
<1>6. CASE ListenerCall \/ ListenerCallFails \/ ServeReturns
  BY <1>1, <1>6 DEF ListenerCall, ListenerCallFails, GotoEnd, ServeReturns
<1> QED BY <1>2, <1>3, <1>4, <1>5, <1>6 DEF Main

\* Every step brings root_handler or one of the threads further, within the bounds TypesHold
\* gives the counters: whichever calls fail, the loops of initialisation and of release come to
\* their ends, and root_handler never starts anew.  This is the part of ServesOrReturns that
\* needs no fairness.
THEOREM EveryStepGoesOn == Spec => [][MainGoesOn \/ \E w \in Workers : ThreadGoesOn(w)]_vars
<1>1. ASSUME IInv, [Next]_vars
      PROVE  [MainGoesOn \/ \E w \in Workers : ThreadGoesOn(w)]_vars
  <2>1. CASE Main \/ ServeReturns
    BY <1>1, <2>1, MainStepGoesOn
  <2>2. ASSUME NEW w \in Workers, ThreadRuns(w) \/ ThreadEnds(w)
        PROVE  ThreadGoesOn(w)
    BY <1>1, <2>2 DEF ThreadRuns, ThreadEnds, ThreadGoesOn, Stage, IInv, TypeOK
  <2> QED BY <1>1, <2>1, <2>2 DEF Next
<1> QED BY <1>1, InductiveInvariant, PTL DEF Spec
=============================================================================
