------------------------------ MODULE Lifecycle ------------------------------
(***************************************************************************)
(* What root_handler of src/example.c acquires and releases: the workers   *)
(* of load_balancer_init, the listener, and load_balancer_destroy, with    *)
(* every call that can fail failing or not.  Each worker thread runs on    *)
(* its own, from pthread_create until its event loop finds no event to     *)
(* wait for.                                                               *)
(***************************************************************************)
EXTENDS Integers, Sequences

CONSTANT NWorkers  \* load_balancer->worker

ASSUME ConfigAssumption == NWorkers \in 1 .. 255

Workers == 0 .. NWorkers - 1

\* Resources, each with the worker it belongs to (0 when it belongs to none).
Array    == <<"_workers", 0>>
LbMutex  == <<"_mutex", 0>>
Socket   == <<"s", 0>>
LBase    == <<"lbase", 0>>
Listener == <<"listener", 0>>
Fields   == {"ev", "http", "base"}   \* the pointers of worker_t

InitCallsThreadFirst ==   \* mutant: the thread is started before its event is added
  <<"mutex", "base", "http", "ev", "pthread_create", "event_add">>

\* The calls of worker_init that can fail, in order.  The first four acquire
\* the resource of their name, event_add arms the timer of ev.
InitCalls == <<"mutex", "base", "http", "ev", "event_add", "pthread_create">>
\* The order of release, in worker_init after FAIL and in worker_destroy.
Releases == <<"mutex", "ev", "http", "base">>

VARIABLES
  sync,     \* flags->sync: sync_listener_t rather than async_listener_t
  pc,       \* where root_handler is
  i,        \* worker being initialised
  j,        \* worker being destroyed
  bound,    \* workers worker_destroy is called for: those below it
  step,     \* next call of InitCalls or ListenerCalls, or next of Releases
  ptr,      \* ptr[w]: the fields of worker w that are not null
  held,     \* resources acquired and not released
  faults,   \* history: resources released while they were not held
  armed,    \* workers whose ev is pending in their base
  thread,   \* thread[w]: the thread of w
  balanced  \* history: load_balancer_init has succeeded

vars == <<sync, pc, i, j, bound, step, ptr, held, faults, armed, thread, balanced>>

\* The calls of the listener's init that can fail, with what each acquires.
ListenerCalls == IF sync THEN <<"socket", "bind", "listen">>
                 ELSE <<"event_base_new", "evconnlistener_new_bind">>
Acquires(call) == CASE call = "socket"                  -> {Socket}
                    [] call = "event_base_new"          -> {LBase}
                    [] call = "evconnlistener_new_bind" -> {Listener}
                    [] OTHER                            -> {}

Init ==
  /\ sync \in BOOLEAN
  /\ pc = "evthread" /\ i = 0 /\ j = 0 /\ bound = 0 /\ step = 1
  /\ ptr = [w \in Workers |-> {}]
  /\ held = {} /\ faults = {} /\ armed = {}
  /\ thread = [w \in Workers |-> "none"]
  /\ balanced = FALSE

Release(rs) == held' = held \ rs /\ faults' = faults \cup (rs \ held)

UseThreads ==
  /\ pc = "evthread"
  /\ pc' \in {"malloc", "returned"}
  /\ UNCHANGED <<sync, i, j, bound, step, ptr, held, faults, armed, thread, balanced>>

-----------------------------------------------------------------------------
(* load_balancer_init.                                                     *)

\* malloc leaves any bytes in the workers.
MallocWorkers ==
  /\ pc = "malloc"
  /\ \/ /\ pc' = "lbmutex" /\ held' = held \cup {Array}
        /\ ptr' \in [Workers -> SUBSET Fields]
     \/ pc' = "returned" /\ UNCHANGED <<held, ptr>>
  /\ UNCHANGED <<sync, i, j, bound, step, faults, armed, thread, balanced>>

InitMutexWithoutMemset ==   \* mutant: the workers are not cleared
  /\ pc = "lbmutex"
  /\ \/ /\ held' = held \cup {LbMutex} /\ pc' = "worker"
        /\ UNCHANGED <<ptr, faults>>
     \/ Release({Array}) /\ pc' = "returned" /\ UNCHANGED ptr
  /\ UNCHANGED <<sync, i, j, bound, step, armed, thread, balanced>>

\* pthread_mutex_init, then memset.
InitMutex ==
  /\ pc = "lbmutex"
  /\ \/ /\ held' = held \cup {LbMutex} /\ pc' = "worker"
        /\ ptr' = [w \in Workers |-> {}]
        /\ UNCHANGED faults
     \/ Release({Array}) /\ pc' = "returned" /\ UNCHANGED ptr
  /\ UNCHANGED <<sync, i, j, bound, step, armed, thread, balanced>>

\* A call of libevent_http_serve_worker_init succeeds.
WorkerCall ==
  /\ pc = "worker" /\ step < Len(InitCalls) + 1
  /\ LET call == InitCalls[step]
     IN  /\ held' = IF step <= Len(Releases) THEN held \cup {<<call, i>>} ELSE held
         /\ ptr' = IF call \in Fields THEN [ptr EXCEPT ![i] = @ \cup {call}] ELSE ptr
         /\ armed' = IF call = "event_add" THEN armed \cup {i} ELSE armed
         /\ thread' = IF call = "pthread_create" THEN [thread EXCEPT ![i] = "created"]
                      ELSE thread
  /\ step' = step + 1
  /\ UNCHANGED <<sync, pc, i, j, bound, faults, balanced>>

WorkerDonePastEnd ==   \* mutant: i <= worker in the loop over the workers
  /\ pc = "worker" /\ step = Len(InitCalls) + 1
  /\ step' = 1 /\ i' = i + 1
  /\ pc' = IF i + 1 <= NWorkers THEN "worker" ELSE "listener"
  /\ balanced' = (i = NWorkers)
  /\ UNCHANGED <<sync, j, bound, ptr, held, faults, armed, thread>>

\* libevent_http_serve_worker_init returns 0: the next worker, or return 0.
WorkerDone ==
  /\ pc = "worker" /\ step = Len(InitCalls) + 1
  /\ step' = 1 /\ i' = i + 1
  /\ pc' = IF i + 1 < NWorkers THEN "worker" ELSE "listener"
  /\ balanced' = (i + 1 = NWorkers)
  /\ UNCHANGED <<sync, j, bound, ptr, held, faults, armed, thread>>

\* A call fails: goto FAIL, but a failing pthread_mutex_init returns at once.
WorkerCallFails ==
  /\ pc = "worker" /\ step < Len(InitCalls) + 1
  /\ pc' = IF InitCalls[step] = "mutex" THEN "unwind" ELSE "FAIL"
  /\ step' = 1 /\ j' = 0 /\ bound' = i
  /\ UNCHANGED <<sync, i, ptr, held, faults, armed, thread, balanced>>

NextRelease == IF step = Len(Releases) THEN 1 ELSE step + 1

\* event_free takes the event out of its base first.
Disarm(r, w) == armed' = IF r = "ev" THEN armed \ {w} ELSE armed

\* After FAIL: what was acquired is released, the mutex always.
FailRelease ==
  /\ pc = "FAIL"
  /\ LET r == Releases[step]
     IN  IF r = "mutex" \/ r \in ptr[i]
         THEN Release({<<r, i>>}) /\ ptr' = [ptr EXCEPT ![i] = @ \ {r}] /\ Disarm(r, i)
         ELSE UNCHANGED <<held, faults, ptr, armed>>
  /\ step' = NextRelease
  /\ pc' = IF NextRelease = 1 THEN "unwind" ELSE "FAIL"
  /\ UNCHANGED <<sync, i, j, bound, thread, balanced>>
-----------------------------------------------------------------------------
(* libevent_http_serve_worker_destroy, called by load_balancer_init for the *)
(* workers before the one that failed ("unwind") and by                    *)
(* load_balancer_destroy for all of them ("destroy").                      *)

Unwinding == pc \in {"unwind", "destroy"}

DestroyBaseFirst ==   \* mutant: the base goes before what lives in it
  /\ Unwinding /\ j < bound
  /\ LET r == <<"mutex", "base", "http", "ev">>[step]
     IN  Release({<<r, j>>}) /\ ptr' = [ptr EXCEPT ![j] = @ \ {r}] /\ Disarm(r, j)
  /\ step' = NextRelease
  /\ j' = IF NextRelease = 1 THEN j + 1 ELSE j
  /\ UNCHANGED <<sync, pc, i, bound, thread, balanced>>

DestroyWorkerForever ==   \* mutant: the next worker is not taken
  /\ Unwinding /\ j < bound
  /\ LET r == Releases[step]
     IN  Release({<<r, j>>}) /\ ptr' = [ptr EXCEPT ![j] = @ \ {r}] /\ Disarm(r, j)
  /\ step' = NextRelease
  /\ UNCHANGED <<sync, pc, i, j, bound, thread, balanced>>

\* A worker without a base is skipped, of any other everything is released.
DestroyWorker ==
  /\ Unwinding /\ j < bound
  /\ IF "base" \in ptr[j]
     THEN LET r == Releases[step]
          IN  /\ Release({<<r, j>>}) /\ ptr' = [ptr EXCEPT ![j] = @ \ {r}] /\ Disarm(r, j)
              /\ step' = NextRelease
              /\ j' = IF NextRelease = 1 THEN j + 1 ELSE j
     ELSE j' = j + 1 /\ UNCHANGED <<step, ptr, held, faults, armed>>
  /\ UNCHANGED <<sync, pc, i, bound, thread, balanced>>

FreeWorkersKeepMutex ==   \* mutant: load_balancer_init does not destroy _mutex
  /\ Unwinding /\ j = bound
  /\ Release({Array})
  /\ pc' = "returned"
  /\ UNCHANGED <<sync, i, j, bound, step, ptr, armed, thread, balanced>>

\* load_balancer_init destroys its mutex as well, load_balancer_destroy does not.
FreeWorkers ==
  /\ Unwinding /\ j = bound
  /\ Release(IF pc = "unwind" THEN {Array, LbMutex} ELSE {Array})
  /\ pc' = "returned"
  /\ UNCHANGED <<sync, i, j, bound, step, ptr, armed, thread, balanced>>
-----------------------------------------------------------------------------
(* The listener: its init, its service, and the label END of root_handler. *)

ListenerCall ==
  /\ pc = "listener"
  /\ held' = held \cup Acquires(ListenerCalls[step])
  /\ IF step < Len(ListenerCalls) THEN step' = step + 1 /\ UNCHANGED pc
     ELSE step' = 1 /\ pc' = "serving"
  /\ UNCHANGED <<sync, i, j, bound, ptr, faults, armed, thread, balanced>>

\* goto END, which destroys every worker.
GotoEnd == pc' = "destroy" /\ j' = 0 /\ bound' = NWorkers /\ step' = 1

ListenerCallFailsOpen ==   \* mutant: the socket or the base stays open
  /\ pc = "listener"
  /\ GotoEnd
  /\ UNCHANGED <<sync, i, ptr, held, faults, armed, thread, balanced>>

\* A later call fails: what the first one acquired is released.
ListenerCallFails ==
  /\ pc = "listener"
  /\ IF step = 1 THEN UNCHANGED <<held, faults>> ELSE Release(Acquires(ListenerCalls[1]))
  /\ GotoEnd
  /\ UNCHANGED <<sync, i, ptr, armed, thread, balanced>>

\* event_base_dispatch of the listener's base gives up; sync_listener_serve never returns.
ServeReturns ==
  /\ pc = "serving" /\ ~ sync
  /\ GotoEnd
  /\ UNCHANGED <<sync, i, ptr, held, faults, armed, thread, balanced>>

\* A worker thread enters event_base_dispatch, which returns when no event is pending.
ThreadRuns(w) ==
  /\ thread[w] = "created"
  /\ thread' = [thread EXCEPT ![w] = "loop"]
  /\ UNCHANGED <<sync, pc, i, j, bound, step, ptr, held, faults, armed, balanced>>

ThreadEnds(w) ==
  /\ thread[w] = "loop" /\ w \notin armed
  /\ thread' = [thread EXCEPT ![w] = "ended"]
  /\ UNCHANGED <<sync, pc, i, j, bound, step, ptr, held, faults, armed, balanced>>

\* The main thread outside the listener's service.
Main == \/ UseThreads \/ MallocWorkers \/ InitMutex
        \/ WorkerCall \/ WorkerDone \/ WorkerCallFails \/ FailRelease
        \/ DestroyWorker \/ FreeWorkers
        \/ ListenerCall \/ ListenerCallFails

Next == \/ Main \/ ServeReturns
        \/ \E w \in Workers : ThreadRuns(w) \/ ThreadEnds(w)

\* The main thread is scheduled; whether a service ever returns is not assumed.
Spec == Init /\ [][Next]_vars /\ WF_vars(Main)
-----------------------------------------------------------------------------
(* Properties.                                                             *)

WorkerResources(w) == {"mutex", "ev", "http", "base"} \X {w}
LbResources == {Array, LbMutex} \cup UNION {WorkerResources(w) : w \in Workers}
ListenerResources == {Socket, LBase, Listener}

\* Types: the loop of load_balancer_init never reaches past the last worker.
TypeOK ==
  /\ pc \in {"evthread", "malloc", "lbmutex", "worker", "FAIL", "unwind", "listener",
             "serving", "destroy", "returned"}
  /\ i \in 0 .. NWorkers /\ (pc \in {"worker", "FAIL"} => i \in Workers)
  /\ j \in 0 .. bound /\ bound \in 0 .. NWorkers
  /\ step \in 1 .. Len(InitCalls) + 1
  /\ ptr \in [Workers -> SUBSET Fields]
  /\ held \subseteq LbResources \cup ListenerResources /\ faults \subseteq LbResources
  /\ armed \subseteq Workers
  /\ thread \in [Workers -> {"none", "created", "loop", "ended"}]
  /\ balanced \in BOOLEAN /\ sync \in BOOLEAN

\* Whichever call fails, nothing is released twice or without having been
\* acquired: worker_init and load_balancer_init do not free what malloc left
\* in the worker, nor what another path has freed.
ReleasedOnce == faults = {}

\* The event and the HTTP server of a worker are released before the base
\* they live in, after FAIL, in load_balancer_init and in load_balancer_destroy.
BaseLast ==
  \A w \in Workers :
    <<"base", w>> \notin held => <<"ev", w>> \notin held /\ <<"http", w>> \notin held

\* load_balancer_init either makes every worker with its thread, or leaves
\* none of the resources of the balancer and of its workers behind.
InitAllOrNothing ==
  /\ pc = "returned" /\ ~ balanced => held = {}
  /\ pc \in {"listener", "serving"} =>
       LbResources \subseteq held /\ \A w \in Workers : thread[w] # "none"

\* A thread finds a pending event however early it runs, so it does not leave
\* its loop, and worker_init never releases a base that has a thread, as long
\* as no worker is being destroyed.
ThreadsKeepRunning ==
  \/ Unwinding \/ pc = "returned"
  \/ \A w \in Workers :
       /\ thread[w] # "ended"
       /\ thread[w] # "none" => w \in armed /\ <<"base", w>> \in held

\* A listener that could not be initialised keeps no socket and no base.
ListenerAllOrNothing ==
  pc = "destroy" =>
    \/ held \cap ListenerResources = {}
    \/ ~ sync /\ held \cap ListenerResources = {LBase, Listener}

\* Whatever fails, the main thread comes to serve or root_handler returns: the loops of
\* initialisation and of release pass from worker to worker, over six calls and four
\* resources each, and none is entered that does not end.
ServesOrReturns == []<>(pc \in {"serving", "returned"})

\* example.c, at END: free all resources.
FreesAllResources == pc = "returned" => held = {}
=============================================================================
