---------------------------- MODULE LoadBalancer ----------------------------
(***************************************************************************)
(* The running server of src/shared/load_balancer.c and listener.c: the    *)
(* main thread starts the workers, then accepts connections and pushes     *)
(* each to the list of one worker; every worker thread runs a libevent     *)
(* loop whose event callback pops its list and serves what it finds.       *)
(*                                                                         *)
(* A connection is the number of the accept() that produced it.  A list is *)
(* the sequence of the tasks it links; the pointer the main thread keeps   *)
(* while it walks a list is the task it stopped at (tail), so that a link  *)
(* written through a stale pointer is lost here as it would be in C.       *)
(***************************************************************************)
EXTENDS Integers, Sequences

CONSTANTS NWorkers,  \* load_balancer->worker, a uint8_t
          Balances,  \* values of load_balancer->balance, a uint8_t
          MaxConns,  \* bound: connections accepted in a behaviour
          MaxTimeouts \* bound: expirations of the one-year timers in a behaviour

ASSUME ConfigAssumption ==
  /\ NWorkers \in 1 .. 255
  /\ Balances \subseteq 0 .. 255
  /\ MaxConns \in Nat
  /\ MaxTimeouts \in Nat

LOAD_BALANCE_ROUND  == 1
Workers == 0 .. NWorkers - 1
Conns   == 1 .. MaxConns
NoConn  == 0              \* a null task pointer
Failed  == -1             \* what accept() returns on error

VARIABLES
  balance,   \* load_balancer->balance
  sync,      \* TRUE: sync_listener_t, FALSE: async_listener_t
  pc,        \* where the main thread is
  k,         \* i of the loop in load_balancer_init
  accepted,  \* connections the listener has produced
  s,         \* the socket accept() returned last
  rr,        \* load_balancer->_i
  target,    \* the worker chosen by load_balancer_serve
  tail,      \* the last task found by its walk, NoConn when worker->next was 0
  id,        \* id[w]: worker->id
  mutex,     \* mutex[w]: who holds worker->mutex
  queue,     \* queue[w]: the list at worker->next
  active,    \* active[w]: worker->ev waits in the active queue of the base
  timeouts,  \* expirations of the timers of the worker events so far
  wpc,       \* wpc[w]: where the thread of w is
  wnext,     \* wnext[w]: local next of worker_on_ev
  assigned,  \* history: the connections sent to w
  served,    \* history: the connections w gave to evhttp_serve
  replies    \* history: <<connection, id in the reply>> of http_handler

parameters == <<balance, sync>>
mainVars   == <<parameters, pc, k, accepted, s, rr, target, tail, id>>
workerVars == <<wpc, wnext, served, replies>>
vars == <<mainVars, mutex, queue, active, timeouts, assigned, workerVars>>

RangeOf(seq) == {seq[i] : i \in DOMAIN seq}
-----------------------------------------------------------------------------
(* The main thread: load_balancer_init.                                    *)

Init ==
  /\ balance \in Balances /\ sync \in BOOLEAN
  /\ pc = "start" /\ k = 0
  /\ accepted = 0 /\ s = NoConn
  /\ rr = 0 /\ target = 0 /\ tail = NoConn
  /\ id = [w \in Workers |-> 0]
  /\ mutex = [w \in Workers |-> "free"]
  /\ queue = [w \in Workers |-> << >>]
  /\ active = [w \in Workers |-> FALSE] /\ timeouts = 0
  /\ wpc = [w \in Workers |-> "none"]
  /\ wnext = [w \in Workers |-> NoConn]
  /\ assigned = [w \in Workers |-> << >>]
  /\ served = [w \in Workers |-> << >>]
  /\ replies = {}

\* libevent_http_serve_worker_init(_workers + i) succeeds: the thread runs.
StartWorker ==
  /\ pc = "start"
  /\ wpc' = [wpc EXCEPT ![k] = "loop"]
  /\ pc' = "setid"
  /\ UNCHANGED <<parameters, k, accepted, s, rr, target, tail, id, mutex, queue, active,
                 timeouts, assigned, wnext, served, replies>>

SetIdMissing ==   \* mutant: worker->id keeps the 0 of memset
  /\ pc = "setid"
  /\ k' = k + 1
  /\ pc' = IF k + 1 < NWorkers THEN "start" ELSE "accept"
  /\ UNCHANGED <<parameters, accepted, s, rr, target, tail, id, mutex, queue, active,
                 timeouts, assigned, workerVars>>

\* The id is written after the thread was created.
SetId ==
  /\ pc = "setid"
  /\ id' = [id EXCEPT ![k] = k]
  /\ k' = k + 1
  /\ pc' = IF k + 1 < NWorkers THEN "start" ELSE "accept"
  /\ UNCHANGED <<parameters, accepted, s, rr, target, tail, mutex, queue, active,
                 timeouts, assigned, workerVars>>
-----------------------------------------------------------------------------
(* The main thread: the listener and load_balancer_serve.                  *)

Accept ==
  /\ pc = "accept"
  /\ accepted < MaxConns
  /\ accepted' = accepted + 1
  /\ s' = accepted + 1
  /\ pc' = "select"
  /\ UNCHANGED <<parameters, k, rr, target, tail, id, mutex, queue, active, timeouts,
                 assigned, workerVars>>

AcceptFailFallsThrough ==   \* mutant: no continue after the error message
  /\ pc = "accept"
  /\ sync
  /\ pc' = "select"
  /\ UNCHANGED <<parameters, k, accepted, s, rr, target, tail, id, mutex, queue, active,
                 timeouts, assigned, workerVars>>

\* accept() fails: the sync listener goes round its loop again.
AcceptFail ==
  /\ pc = "accept"
  /\ sync
  /\ s' = Failed
  /\ UNCHANGED <<parameters, pc, k, accepted, rr, target, tail, id, mutex, queue,
                 active, timeouts, assigned, workerVars>>

NextIndexNoWrap(i)    == (i + 1) % 256                            \* mutant
NextIndexWrapEarly(i) == IF i + 1 >= NWorkers - 1 THEN 0 ELSE i + 1  \* mutant

\* ++_i on a uint8_t, back to 0 after the last worker.
NextIndex(i) == LET n == (i + 1) % 256 IN IF n = NWorkers THEN 0 ELSE n

Choose(w) ==
  /\ target' = w
  /\ assigned' = [assigned EXCEPT ![w] = Append(@, s)]
  /\ pc' = "lock"
  /\ UNCHANGED <<parameters, k, accepted, s, tail, id, mutex, queue, active, timeouts,
                 workerVars>>

SelectRound ==
  /\ pc = "select"
  /\ balance = LOAD_BALANCE_ROUND
  /\ rr' = NextIndex(rr)
  /\ Choose(rr)

SelectRandom ==
  /\ pc = "select"
  /\ balance # LOAD_BALANCE_ROUND
  /\ \E w \in Workers : Choose(w)
  /\ UNCHANGED rr

LockQueue ==
  /\ pc = "lock"
  /\ mutex[target] = "free"
  /\ mutex' = [mutex EXCEPT ![target] = "main"]
  /\ pc' = "walk"
  /\ UNCHANGED <<parameters, k, accepted, s, rr, target, tail, id, queue, active,
                 timeouts, assigned, workerVars>>

FindTail ==
  /\ pc = "walk"
  /\ tail' = IF queue[target] = << >> THEN NoConn
             ELSE queue[target][Len(queue[target])]
  /\ pc' = "link"
  /\ UNCHANGED <<parameters, k, accepted, s, rr, target, id, mutex, queue, active,
                 timeouts, assigned, workerVars>>

LinkedFront(q) == <<s>> \o q   \* mutant: pushed to the front

\* next->next = conn through the pointer of the walk, or worker->next = conn.
Linked(q) ==
  IF tail = NoConn THEN <<s>>
  ELSE IF q # << >> /\ q[Len(q)] = tail THEN Append(q, s) ELSE q

LinkTask ==
  /\ pc = "link"
  /\ queue' = [queue EXCEPT ![target] = Linked(@)]
  /\ mutex' = [mutex EXCEPT ![target] = "free"]
  /\ pc' = "activate"
  /\ UNCHANGED <<parameters, k, accepted, s, rr, target, tail, id, active, timeouts,
                 assigned, workerVars>>

Activate ==
  /\ pc = "activate"
  /\ active' = [active EXCEPT ![target] = TRUE]
  /\ pc' = "accept"
  /\ UNCHANGED <<parameters, k, accepted, s, rr, target, tail, id, mutex, queue,
                 timeouts, assigned, workerVars>>

Main == \/ StartWorker \/ SetId \/ Accept \/ AcceptFail
        \/ SelectRound \/ SelectRandom
        \/ LockQueue \/ FindTail \/ LinkTask \/ Activate
-----------------------------------------------------------------------------
(* A worker thread: the event loop, worker_on_ev and http_handler.         *)

\* The timer of worker->ev (one year) expires: the callback runs as well.
Timeout(w) ==
  /\ wpc[w] = "loop"
  /\ ~ active[w] /\ timeouts < MaxTimeouts
  /\ active' = [active EXCEPT ![w] = TRUE]
  /\ timeouts' = timeouts + 1
  /\ UNCHANGED <<mainVars, mutex, queue, assigned, workerVars>>

\* The loop takes the event off the active queue, then calls worker_on_ev.
RunCallback(w) ==
  /\ wpc[w] = "loop"
  /\ active[w]
  /\ active' = [active EXCEPT ![w] = FALSE]
  /\ wpc' = [wpc EXCEPT ![w] = "lock"]
  /\ UNCHANGED <<mainVars, mutex, queue, timeouts, assigned, wnext, served, replies>>

LockWithoutMutex(w) ==   \* mutant: worker_on_ev does not lock
  /\ wpc[w] = "lock"
  /\ wpc' = [wpc EXCEPT ![w] = "check"]
  /\ UNCHANGED <<mainVars, mutex, queue, active, timeouts, assigned, wnext, served,
                 replies>>

Lock(w) ==
  /\ wpc[w] = "lock"
  /\ mutex[w] = "free"
  /\ mutex' = [mutex EXCEPT ![w] = "worker"]
  /\ wpc' = [wpc EXCEPT ![w] = "check"]
  /\ UNCHANGED <<mainVars, queue, active, timeouts, assigned, wnext, served, replies>>

ReturnWithoutUnlock(w) ==   \* mutant: the early return keeps the mutex
  /\ wpc[w] = "check"
  /\ queue[w] = << >>
  /\ wpc' = [wpc EXCEPT ![w] = "loop"]
  /\ UNCHANGED <<mainVars, mutex, queue, active, timeouts, assigned, wnext, served,
                 replies>>

\* !worker->next: unlock and return to the loop.
Return(w) ==
  /\ wpc[w] = "check"
  /\ queue[w] = << >>
  /\ mutex' = [mutex EXCEPT ![w] = "free"]
  /\ wpc' = [wpc EXCEPT ![w] = "loop"]
  /\ UNCHANGED <<mainVars, queue, active, timeouts, assigned, wnext, served, replies>>

TakeHead(w) ==
  /\ wpc[w] = "check"
  /\ queue[w] # << >>
  /\ wnext' = [wnext EXCEPT ![w] = Head(queue[w])]
  /\ wpc' = [wpc EXCEPT ![w] = "unlink"]
  /\ UNCHANGED <<mainVars, mutex, queue, active, timeouts, assigned, served, replies>>

\* worker->next = next->next, then unlock.
Unlink(w) ==
  /\ wpc[w] = "unlink"
  /\ queue' = [queue EXCEPT ![w] = Tail(@)]
  /\ mutex' = [mutex EXCEPT ![w] = "free"]
  /\ wpc' = [wpc EXCEPT ![w] = "serve"]
  /\ UNCHANGED <<mainVars, active, timeouts, assigned, wnext, served, replies>>

ServeOneTask(w) ==   \* mutant: one task for each callback
  /\ wpc[w] = "serve"
  /\ served' = [served EXCEPT ![w] = Append(@, wnext[w])]
  /\ wnext' = [wnext EXCEPT ![w] = NoConn]
  /\ wpc' = [wpc EXCEPT ![w] = "loop"]
  /\ UNCHANGED <<mainVars, mutex, queue, active, timeouts, assigned, replies>>

\* evhttp_serve(worker->http, next->fd, ...), free(next), round the loop again.
Serve(w) ==
  /\ wpc[w] = "serve"
  /\ served' = [served EXCEPT ![w] = Append(@, wnext[w])]
  /\ wnext' = [wnext EXCEPT ![w] = NoConn]
  /\ wpc' = [wpc EXCEPT ![w] = "lock"]
  /\ UNCHANGED <<mainVars, mutex, queue, active, timeouts, assigned, replies>>

\* A request arrives on a connection the HTTP server of w holds.
HandleRequest(w) ==
  /\ wpc[w] = "loop"
  /\ \E c \in RangeOf(served[w]) : replies' = replies \cup {<<c, id[w]>>}
  /\ UNCHANGED <<mainVars, mutex, queue, active, timeouts, assigned, wpc, wnext,
                 served>>

Callback(w) == RunCallback(w) \/ Lock(w) \/ Return(w) \/ TakeHead(w)
               \/ Unlink(w) \/ Serve(w)

Worker(w) == Callback(w) \/ Timeout(w) \/ HandleRequest(w)

Next == Main \/ \E w \in Workers : Worker(w)

Safety == Init /\ [][Next]_vars

\* Threads are scheduled: the main thread finishes what it began (it may wait
\* in accept for ever), and a worker loop runs a callback that is active.
Fairness ==
  /\ WF_vars(StartWorker \/ SetId)
  /\ WF_vars(SelectRound \/ SelectRandom \/ LockQueue \/ FindTail \/ LinkTask
             \/ Activate)
  /\ \A w \in Workers : WF_vars(Callback(w))

Spec == Safety /\ Fairness
-----------------------------------------------------------------------------
(* Properties.                                                             *)

\* Every variable stays in its domain; in particular the round-robin index
\* and the chosen worker always lie inside the _workers array.
TypeOK ==
  /\ balance \in Balances /\ sync \in BOOLEAN
  /\ pc \in {"start", "setid", "accept", "select", "lock", "walk", "link", "activate"}
  /\ k \in 0 .. NWorkers
  /\ accepted \in 0 .. MaxConns
  /\ s \in Conns \cup {NoConn, Failed}
  /\ rr \in Workers /\ target \in Workers
  /\ tail \in Conns \cup {NoConn}
  /\ id \in [Workers -> Workers]
  /\ mutex \in [Workers -> {"free", "main", "worker"}]
  /\ queue \in [Workers -> Seq(Conns)]
  /\ active \in [Workers -> BOOLEAN] /\ timeouts \in 0 .. MaxTimeouts
  /\ wpc \in [Workers -> {"none", "loop", "lock", "check", "unlink", "serve"}]
  /\ wnext \in [Workers -> Conns \cup {NoConn}]
  /\ assigned \in [Workers -> Seq(Conns)]
  /\ served \in [Workers -> Seq(Conns)]
  /\ replies \subseteq Conns \X Workers

\* The task the main thread holds for w before it is linked, and the task a
\* worker holds between unlinking and serving it.
Unlinked(w) == IF target = w /\ pc \in {"lock", "walk", "link"} THEN <<s>> ELSE << >>
InHand(w)   == IF wpc[w] = "serve" THEN <<wnext[w]>> ELSE << >>

\* No connection is lost, duplicated, reordered or moved to another worker
\* between load_balancer_serve and evhttp_serve, whatever the interleaving of
\* the push with the pops of worker_on_ev.
Conservation ==
  \A w \in Workers :
    assigned[w] = served[w] \o InHand(w) \o queue[w] \o Unlinked(w)

\* No lost wake-up: while a list holds a task, its event is active, or its
\* callback is still running and will look at the list again, or the main
\* thread is about to call event_active for it.
NoLostWakeup ==
  \A w \in Workers :
    queue[w] # << >> =>
      \/ active[w]
      \/ wpc[w] \in {"lock", "check", "unlink", "serve"}
      \/ pc = "activate" /\ target = w

\* Every accepted connection has been sent to exactly one worker, exactly
\* once, except the one load_balancer_serve is looking at.
Positions == UNION {{w} \X DOMAIN assigned[w] : w \in Workers}

SentOnce ==
  \A c \in 1 .. accepted :
    LET at == {p \in Positions : assigned[p[1]][p[2]] = c}
    IN  IF pc = "select" /\ c = accepted THEN at = {}
        ELSE \E p \in at : at = {p}

\* LOAD_BALANCE_ROUND is fair: the workers' shares differ by at most one, the
\* larger ones being those before the index.
RoundRobinFair ==
  balance = LOAD_BALANCE_ROUND =>
    \A v, w \in Workers : v < w =>
      Len(assigned[v]) - Len(assigned[w]) = IF v < rr /\ rr <= w THEN 1 ELSE 0

\* A reply names the worker its connection was sent to, although worker->id
\* is written by the main thread after the worker thread has started.
RepliesNameTheirWorker ==
  \A r \in replies : r[1] \in RangeOf(assigned[r[2]])

\* Every connection the listener accepted is eventually served.
EventuallyServed ==
  \A c \in Conns :
    accepted >= c ~> \E w \in Workers : c \in RangeOf(served[w])

\* The load balancer implements Dispatch: a connection is handed out when its
\* worker is chosen, and served when evhttp_serve is called.
D == INSTANCE Dispatch WITH handed <- IF pc = "select" THEN accepted - 1 ELSE accepted
ImplementsDispatch == D!Spec
=============================================================================
