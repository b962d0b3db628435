------------------------------ MODULE FlagArray ------------------------------
(***************************************************************************)
(* ppp_c_flags_gropw of src/shared/flags.c: how the array behind a flag    *)
(* grows before one more value is stored in it.  An array is the caller's  *)
(* variable: p, where its elements are (null, an array of the caller that  *)
(* was never allocated, or an allocated block), cap, which is 0 unless the *)
(* block is allocated, and len; mem is what the memory at p holds.         *)
(***************************************************************************)
EXTENDS Integers, Sequences

CONSTANTS Chunk,   \* elements of a first allocation, 64
          Junk     \* what memory holds that nobody wrote

ASSUME ArrayAssumption == Chunk \in Nat \ {0}

\* As the code finds it: every block has the elements cap says, and the caller's
\* own array those of len.
IsArray(a, Elements) ==
  /\ a = [p |-> a.p, cap |-> a.cap, len |-> a.len, mem |-> a.mem]
  /\ a.cap \in Nat /\ a.len \in Nat /\ a.mem \in Seq(Elements)
  /\ a.cap = 0 => a.len = Len(a.mem)
  /\ a.cap > 0 => a.len <= a.cap /\ a.cap = Len(a.mem)

\* The default counts until the flag is given for the first time.
Kept(a, set) == IF set THEN a.len ELSE 0

\* available < n
Full(a, set) == a.cap = 0 \/ Kept(a, set) >= a.cap

Larger(m, n)  == IF m < n THEN n ELSE m
Smaller(m, n) == IF m < n THEN m ELSE n

\* Twice the capacity, or a chunk at first.
Wanted(cap, len) ==
  IF cap = 0 THEN IF len + 1 < Chunk THEN Chunk ELSE Larger(2 * Chunk, 2 * len + 1)
  ELSE Larger(2 * cap, len + 1)

NewCapNoMinimum(cap, len, argc) == Smaller(Wanted(cap, len), argc + len)  \* mutant: no argc++, no min

\* The new capacity, when argc elements of the command line are left: no more than
\* these could need, and room for one at least.
NewCap(cap, len, argc) == Larger(Smaller(Wanted(cap, len), argc + 1 + len), len + 1)

\* memcpy copies the new capacity out of the old memory.
CopyOf(mem, cap) == [k \in 1 .. cap |-> IF k <= Len(mem) THEN mem[k] ELSE Junk]
ReadsPastEnd(a, set, argc) ==
  Full(a, set) /\ NewCap(a.cap, Kept(a, set), argc) > Len(a.mem)

\* The array after gropw; block is where malloc put it.
Grown(a, set, argc, block) ==
  IF Full(a, set)
  THEN LET cap == NewCap(a.cap, Kept(a, set), argc)
       IN  [p |-> block, cap |-> cap, len |-> Kept(a, set), mem |-> CopyOf(a.mem, cap)]
  ELSE [a EXCEPT !.len = Kept(a, set)]

\* vals->p[vals->len++] = new_value
Stored(a, x) == [a EXCEPT !.len = @ + 1, !.mem = [@ EXCEPT ![a.len + 1] = x]]

\* The values the caller sees.
ValuesOf(a) == SubSeq(a.mem, 1, a.len)
=============================================================================
