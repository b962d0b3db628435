------------------------- MODULE LoadBalancerProofs -------------------------
(***************************************************************************)
(* Theorems about LoadBalancer for every number of workers and of          *)
(* connections, with either algorithm and either listener.                 *)
(***************************************************************************)
EXTENDS LoadBalancer, SequenceTheorems, TLAPS

\* The socket in s is a connection from accept() to the link, the counter of
\* the loop of load_balancer_init stays below worker inside the loop, threads
\* not yet created do nothing, and a worker that is about to unlink or serve holds a task.
InHandOK ==
  /\ pc \in {"select", "lock", "walk", "link"} => s \in Conns
  /\ pc \in {"start", "setid"} => k < NWorkers
  /\ pc = "start" => \A w \in Workers : w >= k => wpc[w] = "none"
  /\ pc = "setid" => \A w \in Workers : w > k => wpc[w] = "none"
  /\ \A w \in Workers : wpc[w] \in {"unlink", "serve"} => wnext[w] \in Conns
  /\ \A w \in Workers : wpc[w] = "unlink" => queue[w] # << >>

\* worker->mutex is held exactly by the thread that is inside its critical section.
MutexInv ==
  \A w \in Workers :
    /\ mutex[w] = "main" <=> target = w /\ pc \in {"walk", "link"}
    /\ mutex[w] = "worker" <=> wpc[w] \in {"check", "unlink"}

TypeInv == TypeOK /\ InHandOK /\ MutexInv

\* What the uint8_t increment with its wrap computes: it never leaves the _workers array.
LEMMA NextIndexInRange ==
  ASSUME NEW i \in Workers
  PROVE  /\ NextIndex(i) \in Workers
         /\ NextIndex(i) = IF i = NWorkers - 1 THEN 0 ELSE i + 1
BY ConfigAssumption DEF NextIndex, Workers

\* The state before load_balancer_init has the types and mutexes in order.
LEMMA InitTypeInv == Init => TypeInv
BY ConfigAssumption
DEF Init, TypeInv, TypeOK, InHandOK, MutexInv, Workers, Conns, NoConn, Failed

\* Every step of the main thread keeps TypeInv.
LEMMA MainTypeInv ==
  ASSUME TypeInv, Main
  PROVE  TypeInv'
<1> USE ConfigAssumption
    DEF TypeInv, TypeOK, InHandOK, MutexInv, workerVars, parameters, NoConn, Failed
<1>1. CASE StartWorker
  <2>1. k \in Workers /\ wpc[k] = "none"  BY <1>1 DEF StartWorker, Workers
  <2>2. TypeOK'    BY <1>1, <2>1 DEF StartWorker
  <2>3. InHandOK'
    <3>1. \A v \in Workers : wpc'[v] = IF v = k THEN "loop" ELSE wpc[v]
      BY <1>1, <2>1 DEF StartWorker
    <3>2. \A v \in Workers : v > k => wpc'[v] = "none"
      <4> SUFFICES ASSUME NEW v \in Workers, v > k PROVE wpc'[v] = "none"
        OBVIOUS
      <4>1. v >= k /\ v # k  BY <2>1 DEF Workers
      <4>2. wpc[v] = "none"  BY <1>1, <4>1 DEF StartWorker
      <4> QED BY <3>1, <4>1, <4>2
    <3>3. \A v \in Workers :
            wpc'[v] \in {"unlink", "serve"} => wpc[v] = wpc'[v]
      BY <3>1
    <3>4. /\ pc' = "setid" /\ k' = k /\ queue' = queue /\ wnext' = wnext
          /\ k < NWorkers
      BY <1>1 DEF StartWorker
    <3> HIDE DEF TypeInv, TypeOK, MutexInv
    <3>5. InHandOK  BY DEF TypeInv
    <3> QED BY <3>2, <3>3, <3>4, <3>5
  <2>4. MutexInv'  BY <1>1, <2>1 DEF StartWorker
  <2> QED BY <2>2, <2>3, <2>4
<1>2. CASE SetId
  <2>1. k \in Workers /\ k + 1 \in 0 .. NWorkers  BY <1>2 DEF SetId, Workers
  <2>2. TypeOK'    BY <1>2, <2>1 DEF SetId
  <2>3. InHandOK'  BY <1>2, <2>1 DEF SetId, Workers
  <2>4. MutexInv'  BY <1>2 DEF SetId
  <2> QED BY <2>2, <2>3, <2>4
<1>3. CASE Accept
  <2>1. TypeOK'  BY <1>3 DEF Accept, Conns
  <2>2. InHandOK'  BY <1>3 DEF Accept, Conns
  <2>3. MutexInv'  BY <1>3 DEF Accept, Conns
  <2> QED BY <2>1, <2>2, <2>3
<1>4. CASE AcceptFail
  BY <1>4 DEF AcceptFail
<1>5. CASE SelectRound
  BY <1>5, NextIndexInRange DEF SelectRound, Choose
<1>6. CASE SelectRandom
  BY <1>6 DEF SelectRandom, Choose
<1>7. CASE LockQueue
  BY <1>7 DEF LockQueue
<1>8. CASE FindTail
  <2>1. queue[target] # << >> => queue[target][Len(queue[target])] \in Conns
    BY LenProperties, EmptySeq, ElementOfSeq
  <2>2. tail' \in Conns \cup {NoConn}  BY <1>8, <2>1 DEF FindTail
  <2> QED BY <1>8, <2>2 DEF FindTail
<1>9. CASE LinkTask
  <2>1. TypeOK'  BY <1>9 DEF LinkTask, Linked
  <2>2. InHandOK'  BY <1>9 DEF LinkTask, Linked
  <2>3. MutexInv'  BY <1>9 DEF LinkTask, Linked
  <2> QED BY <2>1, <2>2, <2>3
<1>10. CASE Activate
  <2>1. TypeOK'  BY <1>10 DEF Activate
  <2>2. InHandOK'  BY <1>10 DEF Activate
  <2>3. MutexInv'  BY <1>10 DEF Activate
  <2> QED BY <2>1, <2>2, <2>3
<1> QED BY <1>1, <1>2, <1>3, <1>4, <1>5, <1>6, <1>7, <1>8, <1>9, <1>10 DEF Main

\* Every step of a worker thread keeps TypeInv.
LEMMA WorkerTypeInv ==
  ASSUME TypeInv, NEW w \in Workers, Worker(w)
  PROVE  TypeInv'
<1> USE ConfigAssumption
    DEF TypeInv, TypeOK, InHandOK, MutexInv, mainVars, parameters, NoConn, Failed
<1>1. CASE Timeout(w)
  BY <1>1 DEF Timeout, workerVars
<1>2. CASE RunCallback(w)
  BY <1>2 DEF RunCallback
<1>3. CASE Lock(w)
  BY <1>3 DEF Lock
<1>4. CASE Return(w)
  BY <1>4 DEF Return
<1>5. CASE TakeHead(w)
  BY <1>5 DEF TakeHead
<1>6. CASE Unlink(w)
  <2>1. TypeOK'  BY <1>6, HeadTailProperties DEF Unlink
  <2>2. InHandOK'  BY <1>6 DEF Unlink
  <2>3. MutexInv'  BY <1>6 DEF Unlink
  <2> QED BY <2>1, <2>2, <2>3
<1>7. CASE Serve(w)
  BY <1>7 DEF Serve
<1>8. CASE HandleRequest(w)
  <2>1. PICK c \in RangeOf(served[w]) : replies' = replies \cup {<<c, id[w]>>}
    BY <1>8 DEF HandleRequest
  <2>2. c \in Conns  BY <2>1, LenProperties, ElementOfSeq DEF RangeOf
  <2>3. replies' \subseteq Conns \X Workers  BY <2>1, <2>2
  <2> QED BY <1>8, <2>3 DEF HandleRequest, workerVars
<1> QED BY <1>1, <1>2, <1>3, <1>4, <1>5, <1>6, <1>7, <1>8 DEF Worker, Callback

\* The lists are only written between Init and the link, and every step keeps TypeInv.
LEMMA NextTypeInv == TypeInv /\ [Next]_vars => TypeInv'
<1>1. ASSUME TypeInv, UNCHANGED vars PROVE TypeInv'
  BY <1>1 DEF vars, mainVars, workerVars, parameters, TypeInv, TypeOK, InHandOK, MutexInv
<1> QED BY <1>1, MainTypeInv, WorkerTypeInv DEF Next

\* Type correctness: in particular the round-robin index and the worker
\* load_balancer_serve picks always lie inside the _workers array.
THEOREM TypeCorrect == Spec => []TypeOK
<1>1. TypeInv => TypeOK  BY DEF TypeInv
<1> QED BY InitTypeInv, NextTypeInv, <1>1, PTL DEF Spec, Safety

\* The strengthened type invariant: beside the types, who holds what (the mutexes
\* and the tasks in hand) follows from where the threads are.
THEOREM TypeInvariant == Spec => []TypeInv
BY InitTypeInv, NextTypeInv, PTL DEF Spec, Safety

\* Mutual exclusion: never are the main thread and the worker thread both
\* between pthread_mutex_lock and pthread_mutex_unlock of worker->mutex.
MutualExclusion ==
  \A w \in Workers :
    ~ (target = w /\ pc \in {"walk", "link"} /\ wpc[w] \in {"check", "unlink"})

\* load_balancer_serve and worker_on_ev are never both inside the mutex of one worker.
THEOREM CriticalSectionsExclude == Spec => []MutualExclusion
<1>1. TypeInv => MutualExclusion
  BY DEF TypeInv, TypeOK, MutexInv, MutualExclusion
<1> QED BY TypeInvariant, <1>1, PTL
-----------------------------------------------------------------------------
(* Round robin.                                                            *)

\* The algorithm and the listener are chosen before the load balancer starts.
LEMMA ParametersFixed == [Next]_vars => UNCHANGED parameters
<1>1. Main => UNCHANGED parameters
  BY DEF Main, StartWorker, SetId, Accept, AcceptFail, SelectRound, SelectRandom, Choose,
         LockQueue, FindTail, LinkTask, Activate
<1>2. ASSUME NEW w \in Workers, Worker(w) PROVE UNCHANGED parameters
  BY <1>2 DEF Worker, Callback, Timeout, RunCallback, Lock, Return, TakeHead, Unlink, Serve,
              HandleRequest, mainVars
<1>3. UNCHANGED vars => UNCHANGED parameters  BY DEF vars, mainVars
<1> QED BY <1>1, <1>2, <1>3 DEF Next

\* LOAD_BALANCE_ROUND never gives one worker two connections more than another.
THEOREM RoundRobinIsFair == Spec => []RoundRobinFair
<1>1. Init => RoundRobinFair
  BY ConfigAssumption DEF Init, RoundRobinFair, Workers
<1>2. ASSUME TypeInv, RoundRobinFair, [Next]_vars
      PROVE  RoundRobinFair'
  <2>0. balance' = balance
    BY <1>2, ParametersFixed DEF parameters
  <2> SUFFICES ASSUME balance = LOAD_BALANCE_ROUND,
                      NEW v \in Workers, NEW w \in Workers, v < w
               PROVE  Len(assigned'[v]) - Len(assigned'[w])
                        = IF v < rr' /\ rr' <= w THEN 1 ELSE 0
    BY <1>2, <2>0 DEF RoundRobinFair
  <2>1. Len(assigned[v]) - Len(assigned[w]) = IF v < rr /\ rr <= w THEN 1 ELSE 0
    BY <1>2 DEF RoundRobinFair
  <2>2. CASE SelectRound
    <3>1. /\ rr \in Workers /\ s \in Conns
          /\ assigned \in [Workers -> Seq(Conns)]
          /\ assigned' = [assigned EXCEPT ![rr] = Append(@, s)]
          /\ rr' = IF rr = NWorkers - 1 THEN 0 ELSE rr + 1
      BY <1>2, <2>2, NextIndexInRange
      DEF SelectRound, Choose, TypeInv, TypeOK, InHandOK
    <3>2. \A u \in Workers :
            Len(assigned'[u]) = Len(assigned[u]) + IF u = rr THEN 1 ELSE 0
      BY <3>1, AppendProperties, LenProperties
    <3>3. Len(assigned[v]) \in Nat /\ Len(assigned[w]) \in Nat
      BY <3>1, LenProperties
    <3>4. Len(assigned'[v]) \in Nat /\ Len(assigned'[w]) \in Nat
      BY <3>2, <3>3
    <3> DEFINE a == Len(assigned[v])   a1 == Len(assigned'[v])
               b == Len(assigned[w])   b1 == Len(assigned'[w])
    <3>5. a1 = a + IF v = rr THEN 1 ELSE 0  BY <3>2
    <3>6. b1 = b + IF w = rr THEN 1 ELSE 0  BY <3>2
    <3>7. rr \in Workers /\ rr' = IF rr = NWorkers - 1 THEN 0 ELSE rr + 1
      BY <3>1
    <3>8. /\ a \in Nat /\ a1 \in Nat /\ b \in Nat /\ b1 \in Nat
          /\ a - b = IF v < rr /\ rr <= w THEN 1 ELSE 0
      BY <2>1, <3>3, <3>4
    <3> HIDE DEF a, a1, b, b1
    <3>9. a1 - b1 = IF v < rr' /\ rr' <= w THEN 1 ELSE 0
      BY <3>5, <3>6, <3>7, <3>8, ConfigAssumption DEF Workers
    <3> QED BY <3>9 DEF a1, b1
  <2>3. CASE UNCHANGED <<balance, rr, assigned>>
    BY <2>1, <2>3
  <2>4. \/ SelectRound \/ UNCHANGED <<balance, rr, assigned>>
    BY <1>2, ConfigAssumption
    DEF Next, Main, Worker, Callback, StartWorker, SetId, Accept, AcceptFail,
        SelectRandom, LockQueue, FindTail, LinkTask, Activate, Timeout, RunCallback,
        Lock, Return, TakeHead, Unlink, Serve, HandleRequest, vars, mainVars, workerVars,
        parameters
  <2> QED BY <2>2, <2>3, <2>4
<1> QED BY <1>1, <1>2, TypeInvariant, PTL DEF Spec, Safety
-----------------------------------------------------------------------------
(* The lists: nothing is lost between load_balancer_serve and evhttp_serve. *)

\* The pointer the main thread walked to is still the end of the list, and the
\* task a worker is about to unlink is still its head: both threads hold the
\* mutex from the moment they read the list to the moment they change it.
ListInv ==
  /\ pc = "link" =>
       tail = IF queue[target] = << >> THEN NoConn ELSE queue[target][Len(queue[target])]
  /\ \A w \in Workers : wpc[w] = "unlink" => wnext[w] = Head(queue[w])

IInv == TypeInv /\ ListInv /\ Conservation /\ NoLostWakeup

\* The link always appends: a walk of a non-empty list ends at a task, which is not 0.
LEMMA LinkedAppends ==
  ASSUME TypeInv, ListInv, pc = "link"
  PROVE  Linked(queue[target]) = Append(queue[target], s)
<1>1. queue[target] \in Seq(Conns) /\ s \in Conns
  BY DEF TypeInv, TypeOK, InHandOK
<1>2. CASE queue[target] = << >>
  BY <1>1, <1>2, AppendIsConcat, ConcatEmptySeq DEF Linked, ListInv
<1>3. CASE queue[target] # << >>
  <2>1. queue[target][Len(queue[target])] \in Conns
    BY <1>1, <1>3, LenProperties, EmptySeq, ElementOfSeq
  <2> QED BY <2>1, <1>3 DEF Linked, ListInv, Conns, NoConn
<1> QED BY <1>2, <1>3

\* No step makes the pointer of the walk stale, which holds thanks to the mutex.
LEMMA NextListInv == TypeInv /\ ListInv /\ [Next]_vars => ListInv'
<1> SUFFICES ASSUME TypeInv, ListInv, [Next]_vars PROVE ListInv'
  OBVIOUS
<1> USE DEF TypeInv, TypeOK, MutexInv, InHandOK, ListInv
<1>1. CASE LockQueue  BY <1>1 DEF LockQueue, workerVars
<1>2. CASE FindTail  BY <1>2 DEF FindTail, workerVars
<1>3. CASE LinkTask  BY <1>3 DEF LinkTask, workerVars
<1>4. ASSUME NEW w \in Workers, TakeHead(w) PROVE ListInv'
  BY <1>4 DEF TakeHead, mainVars
<1>5. ASSUME NEW w \in Workers, Unlink(w) PROVE ListInv'
  BY <1>5 DEF Unlink, mainVars
<1>6. ASSUME NEW w \in Workers, Serve(w) PROVE ListInv'
  BY <1>6 DEF Serve, mainVars
<1>7. ASSUME NEW w \in Workers,
             RunCallback(w) \/ Lock(w) \/ Return(w) \/ Timeout(w) \/ HandleRequest(w)
      PROVE ListInv'
  BY <1>7 DEF RunCallback, Lock, Return, Timeout, HandleRequest, mainVars, workerVars
<1>8. ASSUME StartWorker \/ SetId \/ Accept \/ AcceptFail \/ SelectRound
               \/ SelectRandom \/ Activate
      PROVE ListInv'
  BY <1>8 DEF StartWorker, SetId, Accept, AcceptFail, SelectRound, SelectRandom, Choose,
              Activate, workerVars
<1>9. CASE UNCHANGED vars  BY <1>9 DEF vars, mainVars, workerVars
<1> QED BY <1>1, <1>2, <1>3, <1>4, <1>5, <1>6, <1>7, <1>8, <1>9
        DEF Next, Main, Worker, Callback

\* How the four ways a connection moves act on the concatenation of Conservation:
\* it is assigned to the worker, linked, unlinked and served.
LEMMA MoveAssigned ==
  ASSUME NEW S, NEW y \in Seq(S), NEW e \in S
  PROVE  Append(y \o << >>, e) = y \o <<e>>
BY ConcatEmptySeq, AppendIsConcat

\* Linking moves the connection from behind the list to its end.
LEMMA MoveLinked ==
  ASSUME NEW S, NEW p \in Seq(S), NEW q \in Seq(S), NEW e \in S
  PROVE  (p \o q) \o <<e>> = (p \o Append(q, e)) \o << >>
<1>1. <<e>> \in Seq(S) /\ Append(q, e) = q \o <<e>> /\ Append(q, e) \in Seq(S)
  BY AppendIsConcat, AppendProperties
<1>2. (p \o q) \o <<e>> = p \o (q \o <<e>>)
  BY <1>1, ConcatAssociative
<1>3. p \o Append(q, e) \in Seq(S)  BY <1>1, ConcatProperties
<1> QED BY <1>1, <1>2, <1>3, ConcatEmptySeq

\* Unlinking moves the connection from the head of the list to the hand of the worker.
LEMMA MoveUnlinked ==
  ASSUME NEW S, NEW x \in Seq(S), NEW q \in Seq(S), q # << >>
  PROVE  (x \o << >>) \o q = (x \o <<Head(q)>>) \o Tail(q)
<1>1. Head(q) \in S /\ Tail(q) \in Seq(S)
  BY HeadTailProperties
<1>2. <<Head(q)>> \in Seq(S)  BY <1>1
<1>3. q = <<Head(q)>> \o Tail(q)
  <2>1. Len(q) \in 1 .. Len(q) /\ 1 \in 1 .. Len(q) /\ Len(q) \in Nat
    BY EmptySeq, LenProperties
  <2>2. SubSeq(q, 1, Len(q)) = <<q[1]>> \o SubSeq(q, 2, Len(q))
    BY <2>1, SubSeqRecursiveFirst
  <2> QED BY <2>2, SubSeqFull, TailIsSubSeq
<1> QED BY <1>1, <1>2, <1>3, ConcatAssociative, ConcatEmptySeq

\* Serving moves the connection from the hand of the worker to what it has served.
LEMMA MoveServed ==
  ASSUME NEW S, NEW x \in Seq(S), NEW e \in S
  PROVE  x \o <<e>> = Append(x, e) \o << >>
BY ConcatEmptySeq, AppendIsConcat, AppendProperties

\* No step of either thread loses, duplicates or reorders a connection.
LEMMA NextConservation ==
  TypeInv /\ ListInv /\ Conservation /\ [Next]_vars => Conservation'
<1> SUFFICES ASSUME TypeInv, ListInv, Conservation, [Next]_vars, NEW w \in Workers
             PROVE  assigned'[w] = served'[w] \o InHand(w)' \o queue'[w] \o Unlinked(w)'
  BY DEF Conservation
<1>1. assigned[w] = served[w] \o InHand(w) \o queue[w] \o Unlinked(w)
  BY DEF Conservation
<1>2. CASE /\ assigned'[w] = assigned[w] /\ served'[w] = served[w]
           /\ InHand(w)' = InHand(w)
           /\ queue'[w] = queue[w] /\ Unlinked(w)' = Unlinked(w)
  BY <1>1, <1>2
<1>3. /\ served[w] \in Seq(Conns) /\ queue[w] \in Seq(Conns)
      /\ InHand(w) \in Seq(Conns) /\ served[w] \o InHand(w) \in Seq(Conns)
  BY ConcatProperties DEF TypeInv, TypeOK, InHandOK, InHand
<1>4. ASSUME NEW v \in Workers, pc = "select", Choose(v), UNCHANGED workerVars
      PROVE  assigned'[w] = served'[w] \o InHand(w)' \o queue'[w] \o Unlinked(w)'
  <2>1. /\ assigned' = [assigned EXCEPT ![v] = Append(@, s)] /\ s \in Conns
        /\ served' = served /\ queue' = queue /\ InHand(w)' = InHand(w)
        /\ Unlinked(w) = << >> /\ Unlinked(w)' = IF v = w THEN <<s>> ELSE << >>
        /\ assigned \in [Workers -> Seq(Conns)]
    BY <1>4 DEF Choose, TypeInv, TypeOK, InHandOK, InHand, Unlinked, workerVars
  <2>2. (served[w] \o InHand(w)) \o queue[w] \in Seq(Conns)
    BY <1>3, ConcatProperties
  <2>3. CASE v = w
    <3>1. assigned'[w] = Append(((served[w] \o InHand(w)) \o queue[w]) \o << >>, s)
      BY <1>1, <2>1, <2>3
    <3> QED BY <2>1, <2>2, <2>3, <3>1, MoveAssigned
  <2> QED BY <1>2, <2>1, <2>3
<1>5. CASE LinkTask
  <2>1. /\ assigned' = assigned /\ served' = served /\ InHand(w)' = InHand(w)
        /\ queue' = [queue EXCEPT ![target] = Append(@, s)] /\ s \in Conns
        /\ Unlinked(w) = (IF target = w THEN <<s>> ELSE << >>) /\ Unlinked(w)' = << >>
        /\ queue \in [Workers -> Seq(Conns)]
    BY <1>5, LinkedAppends
    DEF LinkTask, TypeInv, TypeOK, InHandOK, InHand, Unlinked, workerVars
  <2>2. CASE target = w
    <3>1. assigned[w] = ((served[w] \o InHand(w)) \o queue[w]) \o <<s>>
      BY <1>1, <2>1, <2>2
    <3>2. queue'[w] = Append(queue[w], s)
      BY <2>1, <2>2
    <3>3. ((served[w] \o InHand(w)) \o queue[w]) \o <<s>>
            = ((served[w] \o InHand(w)) \o Append(queue[w], s)) \o << >>
      <4>1. served[w] \o InHand(w) \in Seq(Conns) /\ queue[w] \in Seq(Conns) /\ s \in Conns
        BY <1>3, <2>1
      <4> QED BY <4>1, MoveLinked, Zenon
    <3> QED BY <2>1, <3>1, <3>2, <3>3
  <2> QED BY <1>2, <2>1, <2>2
<1>6. CASE Unlink(w)
  <2>1. /\ assigned' = assigned /\ served' = served /\ Unlinked(w)' = Unlinked(w)
        /\ InHand(w) = << >> /\ InHand(w)' = <<Head(queue[w])>>
        /\ queue'[w] = Tail(queue[w]) /\ queue[w] # << >>
    BY <1>6 DEF Unlink, TypeInv, TypeOK, InHandOK, ListInv, InHand, Unlinked, mainVars
  <2>2. (served[w] \o << >>) \o queue[w] = (served[w] \o <<Head(queue[w])>>) \o Tail(queue[w])
    BY <1>3, <2>1, MoveUnlinked
  <2> QED BY <1>1, <2>1, <2>2
<1>7. CASE Serve(w)
  <2>1. /\ assigned' = assigned /\ queue' = queue /\ Unlinked(w)' = Unlinked(w)
        /\ InHand(w) = <<wnext[w]>> /\ InHand(w)' = << >> /\ wnext[w] \in Conns
        /\ served'[w] = Append(served[w], wnext[w])
    BY <1>7 DEF Serve, TypeInv, TypeOK, InHandOK, InHand, Unlinked, mainVars
  <2>2. served[w] \o <<wnext[w]>> = Append(served[w], wnext[w]) \o << >>
    BY <1>3, <2>1, MoveServed
  <2> QED BY <1>1, <2>1, <2>2
<1>8. CASE LockQueue \/ FindTail \/ Activate \/ Accept \/ AcceptFail \/ StartWorker \/ SetId
  <2> USE DEF TypeInv, TypeOK, InHandOK, InHand, Unlinked, workerVars
  <2>1. CASE LockQueue \/ FindTail
    BY <1>2, <2>1 DEF LockQueue, FindTail
  <2>2. CASE Activate \/ Accept \/ AcceptFail \/ SetId
    BY <1>2, <2>2 DEF Activate, Accept, AcceptFail, SetId
  <2>3. CASE StartWorker
    <3>1. wpc[k] = "none" /\ k \in Workers
      BY <2>3, ConfigAssumption DEF StartWorker, Workers
    <3> QED BY <1>2, <2>3, <3>1 DEF StartWorker
  <2> QED BY <1>8, <2>1, <2>2, <2>3
<1>9. ASSUME NEW v \in Workers, Worker(v), v # w
      PROVE  assigned'[w] = served'[w] \o InHand(w)' \o queue'[w] \o Unlinked(w)'
  BY <1>2, <1>9
  DEF Worker, Callback, Timeout, RunCallback, Lock, Return, TakeHead, Unlink, Serve,
      HandleRequest, mainVars, workerVars, TypeInv, TypeOK, InHand, Unlinked
<1>10. CASE Timeout(w) \/ RunCallback(w) \/ Lock(w) \/ Return(w) \/ TakeHead(w)
              \/ HandleRequest(w)
  BY <1>2, <1>10
  DEF Timeout, RunCallback, Lock, Return, TakeHead, HandleRequest, mainVars, workerVars,
      TypeInv, TypeOK, InHand, Unlinked
<1>11. CASE UNCHANGED vars
  BY <1>2, <1>11 DEF vars, mainVars, workerVars, InHand, Unlinked
<1>12. CASE SelectRound \/ SelectRandom
  <2>1. PICK v \in Workers : pc = "select" /\ Choose(v)
    BY <1>12 DEF SelectRound, SelectRandom, TypeInv, TypeOK
  <2> QED BY <1>4, <2>1 DEF Choose
<1> QED BY <1>5, <1>6, <1>7, <1>8, <1>9, <1>10, <1>11, <1>12
        DEF Next, Main, Worker, Callback

\* No step empties the active queue while the list holds a task nobody will look at.
LEMMA NextNoLostWakeup == TypeInv /\ NoLostWakeup /\ [Next]_vars => NoLostWakeup'
<1> SUFFICES ASSUME TypeInv, NoLostWakeup, [Next]_vars PROVE NoLostWakeup'
  OBVIOUS
<1> USE DEF TypeInv, TypeOK, InHandOK, NoLostWakeup
<1>1. CASE LinkTask  BY <1>1 DEF LinkTask, workerVars
<1>2. CASE Activate  BY <1>2 DEF Activate, workerVars
<1>3. CASE StartWorker
  <2>1. wpc[k] = "none" /\ k \in Workers
    BY <1>3, ConfigAssumption DEF StartWorker, Workers
  <2> QED BY <1>3, <2>1 DEF StartWorker
<1>4. CASE SetId \/ Accept \/ AcceptFail \/ SelectRound \/ SelectRandom \/ LockQueue
             \/ FindTail
  BY <1>4 DEF SetId, Accept, AcceptFail, SelectRound, SelectRandom, Choose, LockQueue,
              FindTail, workerVars
<1>5. ASSUME NEW w \in Workers, Worker(w) PROVE NoLostWakeup'
  <2> SUFFICES ASSUME NEW v \in Workers, queue'[v] # << >>
               PROVE  \/ active'[v]
                      \/ wpc'[v] \in {"lock", "check", "unlink", "serve"}
                      \/ pc' = "activate" /\ target' = v
    BY DEF NoLostWakeup
  <2>1. CASE v = w
    <3>1. CASE Return(w)  BY <2>1, <3>1 DEF Return
    <3>2. CASE RunCallback(w) \/ Lock(w) \/ TakeHead(w)
      BY <2>1, <3>2 DEF RunCallback, Lock, TakeHead
    <3>3. CASE Unlink(w) \/ Serve(w)
      <4>1. wpc'[v] \in {"serve", "lock"}  BY <2>1, <3>3 DEF Unlink, Serve
      <4> QED BY <4>1
    <3>4. CASE Timeout(w)
      <4>1. active'[v] = TRUE  BY <2>1, <3>4 DEF Timeout
      <4> QED BY <4>1
    <3>5. CASE HandleRequest(w)  BY <3>5 DEF HandleRequest, mainVars
    <3> QED BY <1>5, <3>1, <3>2, <3>3, <3>4, <3>5 DEF Worker, Callback
  <2>2. pc' = pc /\ target' = target
    <3> HIDE DEF TypeInv, TypeOK, InHandOK, NoLostWakeup
    <3> USE DEF mainVars
    <3>1. CASE Return(w) \/ RunCallback(w) \/ Lock(w) \/ TakeHead(w)
      BY <3>1 DEF Return, RunCallback, Lock, TakeHead
    <3>2. CASE Unlink(w) \/ Serve(w) \/ Timeout(w) \/ HandleRequest(w)
      BY <3>2 DEF Unlink, Serve, Timeout, HandleRequest
    <3> QED BY <1>5, <3>1, <3>2 DEF Worker, Callback
  <2>3. CASE v # w
    <3>1. queue'[v] = queue[v] /\ active'[v] = active[v] /\ wpc'[v] = wpc[v]
      BY <1>5, <2>3 DEF Worker, Callback, Return, RunCallback, Lock, TakeHead, Unlink, Serve,
                        Timeout, HandleRequest, workerVars
    <3> QED BY <2>2, <3>1
  <2> QED BY <2>1, <2>3
<1>6. CASE UNCHANGED vars  BY <1>6 DEF vars, mainVars, workerVars
<1> QED BY <1>1, <1>2, <1>3, <1>4, <1>5, <1>6 DEF Next, Main

\* The inductive invariant behind the theorems about the lists.
LEMMA InitIInv == Init => IInv
<1> SUFFICES ASSUME Init PROVE IInv
  OBVIOUS
<1>1. TypeInv  BY InitTypeInv
<1>2. ListInv /\ NoLostWakeup  BY DEF Init, ListInv, NoLostWakeup
<1>3. << >> \o << >> \o << >> \o << >> = << >>
  BY EmptySeq, ConcatEmptySeq
<1>4. Conservation
  BY <1>3 DEF Init, Conservation, InHand, Unlinked
<1> QED BY <1>1, <1>2, <1>4 DEF IInv

\* The inductive invariant holds in every state the server reaches.
THEOREM InductiveInvariant == Spec => []IInv
<1>1. IInv /\ [Next]_vars => IInv'
  BY NextTypeInv, NextListInv, NextConservation, NextNoLostWakeup DEF IInv
<1> QED BY InitIInv, <1>1, PTL DEF Spec, Safety

\* No connection is lost, duplicated, reordered or moved to another worker
\* between load_balancer_serve and evhttp_serve.
THEOREM NothingLost == Spec => []Conservation
<1>1. IInv => Conservation  BY DEF IInv
<1> QED BY InductiveInvariant, <1>1, PTL

\* A list that holds a task always has a callback under way or a wake-up to come.
THEOREM WakeupsAreNotLost == Spec => []NoLostWakeup
<1>1. IInv => NoLostWakeup  BY DEF IInv
<1> QED BY InductiveInvariant, <1>1, PTL
-----------------------------------------------------------------------------
(* The load balancer implements Dispatch.                                  *)

\* Inside load_balancer_serve, s is the connection accepted last.
SocketInv == pc = "select" => s = accepted /\ accepted \in Conns

\* The socket in hand changes only with accept, and then load_balancer_serve follows.
LEMMA NextSocketInv == TypeInv /\ SocketInv /\ [Next]_vars => SocketInv'
<1> SUFFICES ASSUME TypeInv, SocketInv, [Next]_vars PROVE SocketInv'
  OBVIOUS
<1>1. CASE Accept
  BY <1>1, ConfigAssumption DEF Accept, SocketInv, TypeInv, TypeOK, Conns
<1>2. CASE pc' # "select" \/ UNCHANGED <<pc, s, accepted>>
  BY <1>2 DEF SocketInv
<1>3. CASE Main /\ ~ Accept
  BY <1>2, <1>3
  DEF Main, StartWorker, SetId, AcceptFail, SelectRound, SelectRandom, Choose, LockQueue,
      FindTail, LinkTask, Activate, SocketInv
<1>4. ASSUME NEW w \in Workers, Worker(w) PROVE UNCHANGED <<pc, s, accepted>>
  <2> USE DEF mainVars
  <2>1. CASE Return(w) \/ RunCallback(w) \/ Lock(w) \/ TakeHead(w)
    BY <2>1 DEF Return, RunCallback, Lock, TakeHead
  <2>2. CASE Unlink(w) \/ Serve(w) \/ Timeout(w) \/ HandleRequest(w)
    BY <2>2 DEF Unlink, Serve, Timeout, HandleRequest
  <2> QED BY <1>4, <2>1, <2>2 DEF Worker, Callback
<1>5. CASE UNCHANGED vars  BY <1>2, <1>5 DEF vars, mainVars
<1> QED BY <1>1, <1>2, <1>3, <1>4, <1>5 DEF Next

\* What comes right after the connections served is the one in hand.
LEMMA NextInLine ==
  ASSUME NEW S, NEW x \in Seq(S), NEW e \in S, NEW q \in Seq(S), NEW u \in Seq(S)
  PROVE  /\ Len(x) < Len(((x \o <<e>>) \o q) \o u)
         /\ (((x \o <<e>>) \o q) \o u)[Len(x) + 1] = e
<1>1. <<e>> \in Seq(S) /\ Len(<<e>>) = 1 /\ <<e>>[1] = e
  OBVIOUS
<1>2. Len(x) \in Nat /\ Len(q) \in Nat /\ Len(u) \in Nat
  BY LenProperties
<1> DEFINE xe == x \o <<e>>   xeq == xe \o q
<1>3. /\ xe \in Seq(S) /\ Len(xe) = Len(x) + 1
      /\ \A i \in 1 .. Len(x) + 1 : xe[i] = IF i <= Len(x) THEN x[i] ELSE <<e>>[i - Len(x)]
  BY <1>1, ConcatProperties
<1>4. xe[Len(x) + 1] = e
  <2>1. Len(x) + 1 \in 1 .. Len(x) + 1 /\ ~ (Len(x) + 1 <= Len(x)) /\ Len(x) + 1 - Len(x) = 1
    BY <1>2
  <2> QED BY <1>1, <1>3, <2>1
<1> HIDE DEF xe
<1>5. /\ xeq \in Seq(S) /\ Len(xeq) = Len(xe) + Len(q)
      /\ \A i \in 1 .. Len(xe) + Len(q) : i <= Len(xe) => xeq[i] = xe[i]
  <2>1. /\ xe \o q \in Seq(S) /\ Len(xe \o q) = Len(xe) + Len(q)
        /\ \A i \in 1 .. Len(xe) + Len(q) :
             (xe \o q)[i] = IF i <= Len(xe) THEN xe[i] ELSE q[i - Len(xe)]
    <3>1. xe \in Seq(S)  BY <1>3
    <3> QED BY <3>1, ConcatProperties
  <2> QED BY <2>1
<1> HIDE DEF xeq
<1>6. /\ Len(xeq \o u) = Len(xeq) + Len(u)
      /\ \A i \in 1 .. Len(xeq) + Len(u) : i <= Len(xeq) => (xeq \o u)[i] = xeq[i]
  BY <1>5, ConcatProperties
<1>7. Len(x) < Len(xeq \o u) /\ (xeq \o u)[Len(x) + 1] = e
  BY <1>2, <1>3, <1>4, <1>5, <1>6
<1> QED BY <1>7 DEF xe, xeq

\* Every step of the threads is a step of Dispatch or leaves its variables alone.
LEMMA StepRefines == IInv /\ SocketInv /\ [Next]_vars => [D!Next]_(D!vars)
<1> SUFFICES ASSUME IInv, SocketInv, [Next]_vars PROVE [D!Next]_(D!vars)
  OBVIOUS
<1> DEFINE H == IF pc = "select" THEN accepted - 1 ELSE accepted
<1> USE DEF IInv
<1>1. CASE UNCHANGED <<assigned, served>> /\ H' = H
  BY <1>1 DEF D!vars
<1>2. CASE SelectRound \/ SelectRandom
  <2>1. PICK w \in Workers : pc = "select" /\ Choose(w) /\ UNCHANGED <<served, accepted>>
    BY <1>2 DEF SelectRound, SelectRandom, Choose, workerVars, TypeInv, TypeOK
  <2>2. D!Hand(w)
    BY <2>1, ConfigAssumption DEF Choose, D!Hand, SocketInv, TypeInv, TypeOK, Conns
  <2> QED BY <2>1, <2>2 DEF D!Next, D!Workers, Workers
<1>3. ASSUME NEW w \in Workers, Serve(w) PROVE D!Serve(w)
  <2>1. /\ served[w] \in Seq(Conns) /\ wnext[w] \in Conns
        /\ queue[w] \in Seq(Conns) /\ Unlinked(w) \in Seq(Conns)
        /\ assigned[w] = ((served[w] \o <<wnext[w]>>) \o queue[w]) \o Unlinked(w)
    <3>1. wpc[w] = "serve" /\ InHand(w) = <<wnext[w]>>
      BY <1>3 DEF Serve, InHand
    <3>2. /\ served[w] \in Seq(Conns) /\ wnext[w] \in Conns
          /\ queue[w] \in Seq(Conns) /\ Unlinked(w) \in Seq(Conns)
      BY <3>1 DEF TypeInv, TypeOK, InHandOK, Unlinked
    <3> QED BY <3>1, <3>2 DEF Conservation
  <2>2. /\ Len(served[w]) < Len(assigned[w])
        /\ assigned[w][Len(served[w]) + 1] = wnext[w]
    <3>1. LET a == ((served[w] \o <<wnext[w]>>) \o queue[w]) \o Unlinked(w)
          IN  Len(served[w]) < Len(a) /\ a[Len(served[w]) + 1] = wnext[w]
      <4> DEFINE x == served[w]   e == wnext[w]   q == queue[w]   u == Unlinked(w)
      <4>1. x \in Seq(Conns) /\ e \in Conns /\ q \in Seq(Conns) /\ u \in Seq(Conns)
        BY <2>1
      <4> HIDE DEF x, e, q, u
      <4>2. /\ Len(x) < Len(((x \o <<e>>) \o q) \o u)
            /\ (((x \o <<e>>) \o q) \o u)[Len(x) + 1] = e
        BY <4>1, NextInLine
      <4> QED BY <4>2 DEF x, e, q, u
    <3> QED BY <2>1, <3>1
  <2>3. served' = [served EXCEPT ![w] = Append(@, wnext[w])] /\ UNCHANGED <<assigned, H>>
    BY <1>3 DEF Serve, mainVars
  <2> QED BY <2>2, <2>3 DEF D!Serve
<1>4. CASE Main /\ ~ (SelectRound \/ SelectRandom)
  <2>1. UNCHANGED <<assigned, served>>
    BY <1>4 DEF Main, StartWorker, SetId, Accept, AcceptFail, LockQueue, FindTail, LinkTask,
                Activate, workerVars
  <2>2. CASE StartWorker \/ SetId \/ AcceptFail
    BY <1>1, <2>1, <2>2 DEF StartWorker, SetId, AcceptFail
  <2>3. CASE Accept
    BY <1>1, <2>1, <2>3 DEF Accept, TypeInv, TypeOK
  <2>4. CASE LockQueue \/ FindTail \/ LinkTask \/ Activate
    BY <1>1, <2>1, <2>4 DEF LockQueue, FindTail, LinkTask, Activate
  <2> QED BY <1>4, <2>2, <2>3, <2>4 DEF Main
<1>5. ASSUME NEW w \in Workers, Worker(w), ~ Serve(w)
      PROVE UNCHANGED <<assigned, served>> /\ H' = H
  <2> USE DEF mainVars
  <2>1. CASE Return(w) \/ RunCallback(w) \/ Lock(w) \/ TakeHead(w)
    BY <2>1 DEF Return, RunCallback, Lock, TakeHead
  <2>2. CASE Unlink(w) \/ Timeout(w) \/ HandleRequest(w)
    BY <2>2 DEF Unlink, Timeout, HandleRequest, workerVars
  <2> QED BY <1>5, <2>1, <2>2 DEF Worker, Callback
<1>6. CASE UNCHANGED vars  BY <1>1, <1>6 DEF vars, mainVars, workerVars
<1> QED BY <1>1, <1>2, <1>3, <1>4, <1>5, <1>6 DEF Next, D!Next, D!Workers, Workers

\* Every behaviour of the threads is, seen from outside, a behaviour of Dispatch:
\* connections are handed out in the order of acceptance, and each worker serves
\* what it was handed, once and in that order.
THEOREM RefinesDispatch == Spec => D!Safety
<1>1. Init => D!Init
  BY DEF Init, D!Init, D!Workers, Workers
<1>2. Init => SocketInv
  BY DEF Init, SocketInv
<1>3. IInv => TypeInv  BY DEF IInv
<1> QED BY <1>1, <1>2, <1>3, NextSocketInv, StepRefines, InductiveInvariant, PTL
        DEF Spec, Safety, D!Safety
-----------------------------------------------------------------------------
(* Who is sent what, and who answers.                                       *)

\* Connection c is the p-th that load_balancer_serve sent to w.
Sent(w, p, c) == p \in DOMAIN assigned[w] /\ assigned[w][p] = c

\* The connections sent so far are those accepted, without the one in hand; no two places
\* hold the same one; and none is sent before every worker has its id.
SentInv ==
  /\ \A w \in Workers : \A p, c : Sent(w, p, c) =>
       /\ c \in 1 .. accepted /\ (pc = "select" => c # accepted)
       /\ \A v \in Workers : \A q : Sent(v, q, c) => v = w /\ q = p
  /\ \A c \in 1 .. accepted :
       (pc = "select" /\ c = accepted) \/ \E w \in Workers : \E p : Sent(w, p, c)
  /\ \A w \in Workers : w < k => id[w] = w
  /\ IF pc \in {"start", "setid"} THEN \A w \in Workers : assigned[w] = << >>
     ELSE \A w \in Workers : id[w] = w

\* Appending to the list of what w was sent adds one place and keeps the others.
LEMMA ChooseSends ==
  ASSUME TypeInv, NEW v \in Workers, Choose(v), s \in Conns
  PROVE  \A w \in Workers : \A p, c :
           Sent(w, p, c)' <=> Sent(w, p, c) \/ (w = v /\ p = Len(assigned[v]) + 1 /\ c = s)
<1> SUFFICES ASSUME NEW w \in Workers, NEW p, NEW c
             PROVE  Sent(w, p, c)'
                      <=> Sent(w, p, c) \/ (w = v /\ p = Len(assigned[v]) + 1 /\ c = s)
  OBVIOUS
<1>1. /\ assigned \in [Workers -> Seq(Conns)]
      /\ assigned' = [assigned EXCEPT ![v] = Append(@, s)]
  BY DEF Choose, TypeInv, TypeOK
<1>2. CASE w # v
  BY <1>1, <1>2 DEF Sent
<1>3. CASE w = v
  <2> DEFINE a == assigned[v]
  <2>1. a \in Seq(Conns) /\ assigned'[w] = Append(a, s) /\ assigned[w] = a
    BY <1>1, <1>3
  <2> HIDE DEF a
  <2>2. /\ Append(a, s) \in Seq(Conns) /\ Len(Append(a, s)) = Len(a) + 1
        /\ \A i \in 1 .. Len(a) : Append(a, s)[i] = a[i]
        /\ Append(a, s)[Len(a) + 1] = s
    BY <2>1, AppendProperties
  <2>3. /\ DOMAIN a = 1 .. Len(a) /\ Len(a) \in Nat
        /\ DOMAIN Append(a, s) = 1 .. Len(a) + 1
    BY <2>1, <2>2, LenProperties
  <2>4. Sent(w, p, c)' <=> p \in 1 .. Len(a) + 1 /\ Append(a, s)[p] = c
    BY <2>1, <2>3 DEF Sent
  <2>5. Sent(w, p, c) <=> p \in 1 .. Len(a) /\ a[p] = c
    BY <2>1, <2>3 DEF Sent
  <2>6. p \in 1 .. Len(a) + 1 <=> p \in 1 .. Len(a) \/ p = Len(a) + 1
    BY <2>3
  <2>7. p \in 1 .. Len(a) => p # Len(a) + 1
    BY <2>3
  <2>8. Sent(w, p, c)' <=> Sent(w, p, c) \/ (p = Len(a) + 1 /\ c = s)
    BY <2>2, <2>4, <2>5, <2>6, <2>7
  <2> QED BY <1>3, <2>8 DEF a
<1> QED BY <1>2, <1>3

\* Each step sends the connection in hand, or sends nothing.
LEMMA NextSentInv == TypeInv /\ SocketInv /\ SentInv /\ [Next]_vars => SentInv'
<1> SUFFICES ASSUME TypeInv, SocketInv, SentInv, [Next]_vars PROVE SentInv'
  OBVIOUS
<1>t. /\ accepted \in Nat /\ k \in Nat /\ id \in [Workers -> Workers]
      /\ pc \in {"start", "setid"} => k \in Workers
  <2>1. accepted \in 0 .. MaxConns /\ k \in 0 .. NWorkers /\ id \in [Workers -> Workers]
    BY DEF TypeInv, TypeOK
  <2>2. pc \in {"start", "setid"} => k < NWorkers
    BY DEF TypeInv, InHandOK
  <2> QED BY <2>1, <2>2, ConfigAssumption DEF Workers
<1>1. CASE SelectRound \/ SelectRandom
  <2>1. PICK v \in Workers : pc = "select" /\ Choose(v)
    BY <1>1 DEF SelectRound, SelectRandom, TypeInv, TypeOK
  <2>2. /\ pc' = "lock" /\ UNCHANGED <<accepted, k, id>> /\ s = accepted /\ s \in Conns
        /\ accepted \in 1 .. accepted
    BY <2>1, <1>t DEF Choose, SocketInv, Conns
  <2>3. \A w \in Workers : \A p, c :
          Sent(w, p, c)' <=> Sent(w, p, c) \/ (w = v /\ p = Len(assigned[v]) + 1 /\ c = s)
    BY <2>1, <2>2, ChooseSends
  <2>4. ASSUME NEW w \in Workers, NEW p, NEW c, Sent(w, p, c)'
        PROVE  /\ c \in 1 .. accepted
               /\ \A u \in Workers : \A q : Sent(u, q, c)' => u = w /\ q = p
    <3>1. CASE c = accepted
      <4>1. \A u \in Workers : \A q : ~ Sent(u, q, c)
        BY <2>1, <3>1 DEF SentInv
      <4> QED BY <2>2, <2>3, <2>4, <3>1, <4>1
    <3>2. CASE c # accepted
      <4>1. \A u \in Workers : \A q : Sent(u, q, c)' <=> Sent(u, q, c)
        BY <2>2, <2>3, <3>2
      <4> QED BY <2>4, <4>1 DEF SentInv
    <3> QED BY <3>1, <3>2
  <2>5. ASSUME NEW c \in 1 .. accepted PROVE \E w \in Workers : \E p : Sent(w, p, c)'
    <3>1. CASE c = accepted
      BY <2>2, <2>3, <3>1
    <3>2. CASE c # accepted
      <4>1. PICK w \in Workers : \E p : Sent(w, p, c)
        BY <3>2 DEF SentInv
      <4> QED BY <2>3, <4>1
    <3> QED BY <3>1, <3>2
  <2>6. \A w \in Workers : id'[w] = w
    BY <2>1, <2>2 DEF SentInv
  <2> QED BY <2>2, <2>4, <2>5, <2>6 DEF SentInv
<1>2. CASE Accept
  <2>1. /\ pc = "accept" /\ pc' = "select" /\ accepted' = accepted + 1
        /\ UNCHANGED <<k, id, assigned>>
    BY <1>2 DEF Accept
  <2>2. \A w, p, c : Sent(w, p, c)' <=> Sent(w, p, c)
    BY <2>1 DEF Sent
  <2> QED BY <1>t, <2>1, <2>2 DEF SentInv
<1>3. CASE SetId
  <2>1. /\ pc = "setid" /\ pc' \in {"start", "accept"} /\ k' = k + 1
        /\ id' = [id EXCEPT ![k] = k] /\ (pc' = "accept" => k + 1 >= NWorkers)
        /\ UNCHANGED <<accepted, assigned>>
    BY <1>3, <1>t, ConfigAssumption DEF SetId
  <2>2. \A w, p, c : Sent(w, p, c)' <=> Sent(w, p, c)
    BY <2>1 DEF Sent
  <2>3. \A w \in Workers : id'[w] = IF w = k THEN k ELSE id[w]
    BY <1>t, <2>1
  <2>4. ASSUME NEW w \in Workers, w < k' PROVE id'[w] = w
    BY <1>t, <2>1, <2>3, <2>4 DEF SentInv, Workers
  <2>5. pc' = "accept" => \A w \in Workers : id'[w] = w
    BY <1>t, <2>1, <2>4, ConfigAssumption DEF Workers
  <2> QED BY <2>1, <2>2, <2>4, <2>5 DEF SentInv
<1>4. CASE Main /\ ~ (SelectRound \/ SelectRandom \/ Accept \/ SetId)
  <2>1. /\ UNCHANGED <<accepted, k, id, assigned>>
        /\ pc = "select" <=> pc' = "select"
        /\ pc \in {"start", "setid"} <=> pc' \in {"start", "setid"}
    BY <1>4 DEF Main, StartWorker, AcceptFail, LockQueue, FindTail, LinkTask, Activate
  <2>2. \A w, p, c : Sent(w, p, c)' <=> Sent(w, p, c)
    BY <2>1 DEF Sent
  <2> QED BY <2>1, <2>2 DEF SentInv
<1>5. CASE UNCHANGED <<mainVars, assigned>>
  <2>1. \A w, p, c : Sent(w, p, c)' <=> Sent(w, p, c)
    BY <1>5 DEF Sent
  <2> QED BY <1>5, <2>1 DEF SentInv, mainVars
<1>6. ASSUME NEW w \in Workers, Worker(w) PROVE UNCHANGED <<mainVars, assigned>>
  BY <1>6 DEF Worker, Callback, Return, RunCallback, Lock, TakeHead, Unlink, Serve, Timeout,
              HandleRequest
<1> QED BY <1>1, <1>2, <1>3, <1>4, <1>5, <1>6 DEF Next, vars

\* Nothing has been sent when the server starts.
LEMMA InitSentInv == Init => SentInv
  BY ConfigAssumption DEF Init, SentInv, Sent, Workers

\* The socket, the places and the lists, together.
SendInv == IInv /\ SocketInv /\ SentInv

\* The invariant of what has been sent holds in every state.
LEMMA SendInvariant == Spec => []SendInv
<1>1. Init => SendInv
  BY InitIInv, InitSentInv DEF Init, SocketInv, SendInv
<1>2. SendInv /\ [Next]_vars => SendInv'
  BY NextTypeInv, NextListInv, NextConservation, NextNoLostWakeup, NextSocketInv, NextSentInv
  DEF IInv, SendInv
<1> QED BY <1>1, <1>2, PTL DEF Spec, Safety

\* Every accepted connection is sent to exactly one worker, exactly once.
THEOREM EachIsSentOnce == Spec => []SentOnce
<1>1. ASSUME SendInv, NEW c \in 1 .. accepted
      PROVE  LET at == {p \in Positions : assigned[p[1]][p[2]] = c}
             IN  IF pc = "select" /\ c = accepted THEN at = {} ELSE \E p \in at : at = {p}
  <2> DEFINE at == {p \in Positions : assigned[p[1]][p[2]] = c}
  <2>1. ASSUME NEW w \in Workers, NEW q PROVE <<w, q>> \in at <=> Sent(w, q, c)
    BY DEF Positions, Sent
  <2>2. ASSUME NEW x \in at PROVE \E w \in Workers : \E q : x = <<w, q>> /\ Sent(w, q, c)
    <3>1. PICK w \in Workers : x \in {w} \X DOMAIN assigned[w]
      BY DEF Positions
    <3>2. PICK q \in DOMAIN assigned[w] : x = <<w, q>>
      BY <3>1
    <3> QED BY <2>1, <3>2
  <2> HIDE DEF at
  <2>3. CASE pc = "select" /\ c = accepted
    <3>1. at = {}
      BY <1>1, <2>2, <2>3 DEF SendInv, SentInv
    <3> QED BY <2>3, <3>1 DEF at
  <2>4. CASE ~ (pc = "select" /\ c = accepted)
    <3>1. PICK w \in Workers : \E q : Sent(w, q, c)
      BY <1>1, <2>4 DEF SendInv, SentInv
    <3>2. PICK q : Sent(w, q, c)
      BY <3>1
    <3>3. <<w, q>> \in at
      BY <2>1, <3>2
    <3>4. ASSUME NEW x \in at PROVE x = <<w, q>>
      BY <1>1, <2>2, <3>2 DEF SendInv, SentInv
    <3>5. at = {<<w, q>>}
      BY <3>3, <3>4
    <3>6. \E p \in at : at = {p}
      BY <3>3, <3>5
    <3> QED BY <2>4, <3>6 DEF at
  <2> QED BY <2>3, <2>4
<1>2. SendInv => SentOnce
  BY <1>1 DEF SentOnce
<1> QED BY <1>2, SendInvariant, PTL

\* What is in a sequence is in every longer one.
LEMMA RangeOfPrefix ==
  ASSUME NEW S, NEW x \in Seq(S), NEW y \in Seq(S)
  PROVE  RangeOf(x) \subseteq RangeOf(x \o y) /\ x \o y \in Seq(S)
<1>1. /\ x \o y \in Seq(S) /\ Len(x \o y) = Len(x) + Len(y)
      /\ \A i \in 1 .. Len(x) + Len(y) : i <= Len(x) => (x \o y)[i] = x[i]
  BY ConcatProperties
<1>2. /\ Len(x) \in Nat /\ Len(y) \in Nat /\ DOMAIN x = 1 .. Len(x)
      /\ DOMAIN (x \o y) = 1 .. Len(x) + Len(y)
  BY <1>1, LenProperties
<1>3. ASSUME NEW i \in DOMAIN x PROVE x[i] \in RangeOf(x \o y)
  <2>1. i \in DOMAIN (x \o y) /\ (x \o y)[i] = x[i]
    BY <1>1, <1>2
  <2> QED BY <2>1 DEF RangeOf
<1> QED BY <1>1, <1>3 DEF RangeOf

\* What a worker has served it was sent.
LEMMA ServedWasAssigned ==
  ASSUME IInv, NEW w \in Workers
  PROVE  RangeOf(served[w]) \subseteq RangeOf(assigned[w])
<1> DEFINE a == served[w]   b == InHand(w)   c == queue[w]   d == Unlinked(w)
<1>1. a \in Seq(Conns) /\ b \in Seq(Conns) /\ c \in Seq(Conns) /\ d \in Seq(Conns)
  BY DEF IInv, TypeInv, TypeOK, InHandOK, InHand, Unlinked
<1>2. assigned[w] = a \o b \o c \o d
  BY DEF IInv, Conservation
<1> HIDE DEF a, b, c, d
<1>3. RangeOf(a) \subseteq RangeOf(a \o b) /\ a \o b \in Seq(Conns)
  BY <1>1, RangeOfPrefix
<1>4. RangeOf(a \o b) \subseteq RangeOf(a \o b \o c) /\ a \o b \o c \in Seq(Conns)
  BY <1>1, <1>3, RangeOfPrefix
<1>5. RangeOf(a \o b \o c) \subseteq RangeOf(a \o b \o c \o d)
  BY <1>1, <1>4, RangeOfPrefix
<1>6. RangeOf(a) \subseteq RangeOf(assigned[w])
  BY <1>2, <1>3, <1>4, <1>5
<1> QED BY <1>6 DEF a

\* What a worker was sent stays in its history.
LEMMA AssignedGrows ==
  ASSUME SendInv, [Next]_vars, NEW w \in Workers
  PROVE  RangeOf(assigned[w]) \subseteq RangeOf(assigned'[w])
<1>1. CASE UNCHANGED assigned
  BY <1>1
<1>2. CASE SelectRound \/ SelectRandom
  <2>1. PICK v \in Workers : pc = "select" /\ Choose(v)
    BY <1>2 DEF SelectRound, SelectRandom, SendInv, IInv, TypeInv, TypeOK
  <2>2. s \in Conns
    BY <2>1 DEF SendInv, IInv, TypeInv, InHandOK
  <2>3. \A p, c : Sent(w, p, c) => Sent(w, p, c)'
    BY <2>1, <2>2, ChooseSends DEF SendInv, IInv
  <2>4. ASSUME NEW p \in DOMAIN assigned[w] PROVE assigned[w][p] \in RangeOf(assigned'[w])
    BY <2>3 DEF Sent, RangeOf
  <2> QED BY <2>4 DEF RangeOf
<1>3. \/ SelectRound \/ SelectRandom \/ UNCHANGED assigned
  BY DEF Next, Main, Worker, Callback, StartWorker, SetId, Accept, AcceptFail,
         LockQueue, FindTail, LinkTask, Activate, Timeout, RunCallback,
         Lock, Return, TakeHead, Unlink, Serve, HandleRequest, vars
<1> QED BY <1>1, <1>2, <1>3

\* A reply names the worker its connection was sent to: no worker has anything to serve before
\* its id is written, though its thread runs before that.
THEOREM RepliesAreRight == Spec => []RepliesNameTheirWorker
<1>1. Init => RepliesNameTheirWorker
  BY DEF Init, RepliesNameTheirWorker
<1>2. ASSUME SendInv, RepliesNameTheirWorker, [Next]_vars PROVE RepliesNameTheirWorker'
  <2> SUFFICES ASSUME NEW r \in replies' PROVE r[1] \in RangeOf(assigned'[r[2]])
    BY DEF RepliesNameTheirWorker
  <2>1. CASE r \in replies
    <3>1. r[2] \in Workers /\ r[1] \in RangeOf(assigned[r[2]])
      BY <1>2, <2>1 DEF RepliesNameTheirWorker, SendInv, IInv, TypeInv, TypeOK
    <3> QED BY <1>2, <3>1, AssignedGrows
  <2>2. CASE r \notin replies
    <3>1. PICK w \in Workers : HandleRequest(w)
      BY <1>2, <2>2
      DEF Next, Main, Worker, Callback, StartWorker, SetId, Accept, AcceptFail, SelectRound,
          SelectRandom, Choose, LockQueue, FindTail, LinkTask, Activate, Timeout, RunCallback,
          Lock, Return, TakeHead, Unlink, Serve, vars, workerVars
    <3>2. PICK c \in RangeOf(served[w]) : r = <<c, id[w]>>
      BY <2>2, <3>1 DEF HandleRequest
    <3>3. c \in RangeOf(assigned[w]) /\ UNCHANGED assigned
      BY <1>2, <3>1, <3>2, ServedWasAssigned DEF SendInv, HandleRequest
    <3>4. assigned[w] # << >>
      BY <3>3 DEF RangeOf
    <3>5. id[w] = w
      BY <1>2, <3>4 DEF SendInv, SentInv
    <3> QED BY <3>2, <3>3, <3>5
  <2> QED BY <2>1, <2>2
<1> QED BY <1>1, <1>2, SendInvariant, PTL DEF Spec, Safety
=============================================================================
