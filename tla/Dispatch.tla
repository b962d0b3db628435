------------------------------ MODULE Dispatch ------------------------------
(***************************************************************************)
(* What the load balancer promises, without threads, locks or wake-ups:    *)
(* connections are handed out in the order they were accepted, each to one *)
(* worker, and a worker serves what it was handed once and in that order.  *)
(* LoadBalancer implements this specification.                             *)
(***************************************************************************)
EXTENDS Naturals, Sequences

CONSTANTS NWorkers,  \* number of worker threads
          MaxConns   \* bound: connections handed out in a behaviour

Workers == 0 .. NWorkers - 1
Conns   == 1 .. MaxConns

VARIABLES handed,    \* connections handed out so far; they are numbered 1, 2, ...
          assigned,  \* assigned[w]: the connections handed to w, in order
          served     \* served[w]: the connections w has passed to its HTTP server

vars == <<handed, assigned, served>>

Init ==
  /\ handed = 0
  /\ assigned = [w \in Workers |-> << >>]
  /\ served = [w \in Workers |-> << >>]

Hand(w) ==
  /\ handed < MaxConns
  /\ handed' = handed + 1
  /\ assigned' = [assigned EXCEPT ![w] = Append(@, handed + 1)]
  /\ UNCHANGED served

Serve(w) ==
  /\ Len(served[w]) < Len(assigned[w])
  /\ served' = [served EXCEPT ![w] = Append(@, assigned[w][Len(@) + 1])]
  /\ UNCHANGED <<handed, assigned>>

Next == \E w \in Workers : Hand(w) \/ Serve(w)

Safety == Init /\ [][Next]_vars

Spec == Safety /\ \A w \in Workers : WF_vars(Serve(w))
=============================================================================
