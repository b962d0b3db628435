----------------------------- MODULE ArrayFlags -----------------------------
(***************************************************************************)
(* What the array flags of src/shared/flags.c promise: the variable behind *)
(* a flag holds its default until the flag is first given, from then on    *)
(* the values given, in their order.  Nothing is said of memory.           *)
(***************************************************************************)
EXTENDS Sequences, Naturals

CONSTANTS Values,     \* the caller's variables
          Flags,      \* flags there can be
          Elements,
          NoValue

VARIABLES list,       \* list[v]: what variable v holds
          bound,      \* bound[f]: the variable of flag f, or NoValue
          given,      \* flags that have been given
          closed      \* command_destroy was called

vars == <<list, bound, given, closed>>

Init == /\ list \in [Values -> Seq(Elements)]
        /\ bound = [f \in Flags |-> NoValue]
        /\ given = {} /\ closed = FALSE

Add(f, v) == /\ ~ closed /\ bound[f] = NoValue
             /\ bound' = [bound EXCEPT ![f] = v]
             /\ UNCHANGED <<list, given, closed>>

Give(f, x) == /\ ~ closed /\ bound[f] \in Values
              /\ list' = [list EXCEPT ![bound[f]] =
                            IF f \in given THEN Append(@, x) ELSE <<x>>]
              /\ given' = given \cup {f}
              /\ UNCHANGED <<bound, closed>>

Close == /\ ~ closed /\ closed' = TRUE
         /\ UNCHANGED <<list, bound, given>>

\* Destruction empties the arrays it frees.
Release(v) == /\ closed
              /\ list' = [list EXCEPT ![v] = << >>]
              /\ UNCHANGED <<bound, given, closed>>

Next == \/ \E f \in Flags : (\E v \in Values : Add(f, v)) \/ (\E x \in Elements : Give(f, x))
        \/ Close
        \/ \E v \in Values : Release(v)

Spec == Init /\ [][Next]_vars
=============================================================================
