------------------------- MODULE FlagsRegistryProofs -------------------------
(***************************************************************************)
(* Theorems about FlagArray and FlagsRegistry for every tree, every names  *)
(* and values, every chunk size, and every number of arguments left.       *)
(***************************************************************************)
EXTENDS FlagsRegistry, FiniteSetTheorems, SequenceTheorems, TLAPS

-----------------------------------------------------------------------------
(* ppp_c_flags_gropw on one array.                                         *)

\* What gropw keeps of an array lies within its values and its memory.
LEMMA KeptLength ==
  ASSUME NEW E, NEW a, IsArray(a, E), NEW set0 \in BOOLEAN
  PROVE  /\ Kept(a, set0) \in Nat /\ Kept(a, set0) <= a.len
         /\ Kept(a, set0) <= Len(a.mem) /\ Len(a.mem) \in Nat
<1>1. a.len \in Nat /\ a.cap \in Nat /\ Len(a.mem) \in Nat /\ a.len <= Len(a.mem)
  BY DEF IsArray
<1> QED BY <1>1 DEF Kept

\* The capacity gropw computes has room for one more value, and is bounded by argc.
LEMMA CapacityBounds ==
  ASSUME NEW cap \in Nat, NEW len \in Nat, NEW argc \in Nat
  PROVE  /\ NewCap(cap, len, argc) \in Nat
         /\ len + 1 <= NewCap(cap, len, argc)
         /\ NewCap(cap, len, argc) <= len + 1 + argc
<1>1. Wanted(cap, len) \in Nat /\ Wanted(cap, len) >= len + 1
  BY ArrayAssumption DEF Wanted, Larger
<1> HIDE DEF Wanted
<1> QED BY <1>1 DEF NewCap, Larger, Smaller

\* After gropw there is room for one more value, so that the store behind it stays inside
\* the block: whatever the capacity, the length, the first allocation and argc.
THEOREM GrowthMakesRoom ==
  ASSUME NEW E, NEW a, IsArray(a, E), NEW set0 \in BOOLEAN, NEW argc \in Nat, NEW block
  PROVE  /\ Grown(a, set0, argc, block).len = Kept(a, set0)
         /\ Grown(a, set0, argc, block).len < Grown(a, set0, argc, block).cap
         /\ Grown(a, set0, argc, block).cap = Len(Grown(a, set0, argc, block).mem)
<1> DEFINE n == Kept(a, set0)
           c == NewCap(a.cap, n, argc)
<1>1. n \in Nat /\ a.cap \in Nat /\ a.len \in Nat
  BY KeptLength DEF IsArray
<1>2. c \in Nat /\ n + 1 <= c
  BY <1>1, CapacityBounds
<1> HIDE DEF c
<1>3. CASE Full(a, set0)
  <2>1. Grown(a, set0, argc, block) = [p |-> block, cap |-> c, len |-> n, mem |-> CopyOf(a.mem, c)]
    BY <1>3 DEF Grown, c
  <2>2. Len(CopyOf(a.mem, c)) = c
    BY <1>2 DEF CopyOf
  <2> QED BY <1>1, <1>2, <2>1, <2>2
<1>4. CASE ~ Full(a, set0)
  <2>1. Grown(a, set0, argc, block) = [p |-> a.p, cap |-> a.cap, len |-> n, mem |-> a.mem]
    BY <1>4 DEF Grown, IsArray
  <2> QED BY <1>1, <1>4, <2>1 DEF Full, IsArray
<1> QED BY <1>3, <1>4

\* Every time a full allocated array grows gropw reads behind its end: the copy takes the
\* size of the new block, which is larger, for every capacity and argc.
THEOREM GrowthReadsPastTheEnd ==
  ASSUME NEW E, NEW a, IsArray(a, E), a.cap > 0, NEW set0 \in BOOLEAN, Full(a, set0), NEW argc \in Nat
  PROVE  ReadsPastEnd(a, set0, argc)
<1>1. /\ Kept(a, set0) \in Nat /\ a.cap \in Nat /\ a.cap = Len(a.mem)
      /\ Kept(a, set0) >= a.cap
  BY KeptLength DEF IsArray, Full
<1>2. NewCap(a.cap, Kept(a, set0), argc) >= Kept(a, set0) + 1
      /\ NewCap(a.cap, Kept(a, set0), argc) \in Nat
  BY <1>1, CapacityBounds
<1> QED BY <1>1, <1>2 DEF ReadsPastEnd

\* The values of an array after a growth and a store: those it kept, then the new one.
KeptValues(a, set0)   == SubSeq(a.mem, 1, Kept(a, set0))
NewValues(a, set0, x) == Append(KeptValues(a, set0), x)

\* A store behind gropw appends to what gropw keeps.
LEMMA StoredValues ==
  ASSUME NEW E, NEW a, IsArray(a, E), NEW set0 \in BOOLEAN, NEW argc \in Nat, NEW block, NEW x
  PROVE  ValuesOf(Stored(Grown(a, set0, argc, block), x)) = NewValues(a, set0, x)
<1> DEFINE n == Kept(a, set0)
           g == Grown(a, set0, argc, block)
<1>1. n \in Nat /\ n <= Len(a.mem) /\ a.mem \in Seq(E)
  BY KeptLength DEF IsArray
<1>2. /\ g = [p |-> g.p, cap |-> g.cap, len |-> n, mem |-> g.mem]
      /\ Len(g.mem) \in Nat /\ n + 1 <= Len(g.mem) /\ DOMAIN g.mem = 1 .. Len(g.mem)
      /\ g.mem = [k \in 1 .. Len(g.mem) |-> g.mem[k]]
      /\ \A k \in 1 .. n : g.mem[k] = a.mem[k]
  <2> DEFINE c == NewCap(a.cap, n, argc)
  <2>0. c \in Nat /\ n + 1 <= c
    BY <1>1, CapacityBounds DEF IsArray
  <2> HIDE DEF c
  <2>1. CASE Full(a, set0)
    <3>1. g = [p |-> block, cap |-> c, len |-> n, mem |-> CopyOf(a.mem, c)]
      BY <2>1 DEF Grown, c
    <3>2. /\ Len(CopyOf(a.mem, c)) = c /\ DOMAIN CopyOf(a.mem, c) = 1 .. c
          /\ CopyOf(a.mem, c) = [k \in 1 .. c |-> CopyOf(a.mem, c)[k]]
          /\ \A k \in 1 .. n : CopyOf(a.mem, c)[k] = a.mem[k]
      BY <1>1, <2>0 DEF CopyOf
    <3> HIDE DEF g, n
    <3> QED BY <2>0, <3>1, <3>2
  <2>2. CASE ~ Full(a, set0)
    <3>1. g = [p |-> a.p, cap |-> a.cap, len |-> n, mem |-> a.mem]
      BY <2>2 DEF Grown, IsArray
    <3>2. n < Len(a.mem)
      BY <1>1, <2>2 DEF Full, IsArray
    <3> HIDE DEF g, n
    <3> QED BY <1>1, <3>1, <3>2
  <2> QED BY <2>1, <2>2
<1> HIDE DEF g, n
<1> DEFINE st == Stored(g, x)
<1>3. st.len = n + 1 /\ st.mem = [g.mem EXCEPT ![n + 1] = x]
  BY <1>2 DEF Stored
<1>4. Len(st.mem) = Len(g.mem) /\ DOMAIN st.mem = 1 .. Len(g.mem)
  BY <1>1, <1>2, <1>3
<1>5. \A k \in 1 .. n + 1 : st.mem[k] = IF k = n + 1 THEN x ELSE a.mem[k]
  BY <1>1, <1>2, <1>3
<1> HIDE DEF st
<1>6. ValuesOf(st) = [k \in 1 .. n + 1 |-> IF k = n + 1 THEN x ELSE a.mem[k]]
  BY <1>1, <1>3, <1>4, <1>5 DEF ValuesOf
<1>7. Append(SubSeq(a.mem, 1, n), x) = [k \in 1 .. n + 1 |-> IF k = n + 1 THEN x ELSE a.mem[k]]
  BY <1>1
<1> QED BY <1>6, <1>7 DEF n, g, st, NewValues, KeptValues

-----------------------------------------------------------------------------
(* The invariants of the registry.                                         *)

TreeInv ==
  /\ commands \in 0 .. MaxCommands /\ flags \in 0 .. MaxFlags
  /\ name = [c \in Commands |-> name[c]] /\ parent \in [Commands -> 0 .. MaxCommands]
  /\ child \in [Commands -> Seq(1 .. commands)] /\ flag \in [Commands -> Seq(1 .. flags)]
  /\ fname = [f \in Flags |-> fname[f]] /\ short = [f \in Flags |-> short[f]]
  /\ value \in [Flags -> Values \cup {NoValue}]
  /\ \A f \in Flags : f > flags => value[f] = NoValue
  /\ phase = "create" => commands = 0
  /\ phase # "create" => commands > 0

\* A command is in the list of its parent, so that NextOf finds it there.
FamilyInv ==
  \A c \in 1 .. commands :
    parent[c] # None => /\ parent[c] \in Commands
                        /\ \E k \in DOMAIN child[parent[c]] : child[parent[c]][k] = c

\* The labels in a list are different, but for some that may be repeated.
Different(list, label, but) ==
  \A j, k \in DOMAIN list :
    label[list[j]] = label[list[k]] => j = k \/ label[list[j]] \in but

\* Names in a list are different, and no flag takes the names of help.
NamesInv ==
  \A c \in Commands :
    /\ Different(child[c], name, {})
    /\ Different(flag[c], fname, {}) /\ Different(flag[c], short, {NoShort})
    /\ \A k \in DOMAIN flag[c] : fname[flag[c][k]] # "help" /\ short[flag[c][k]] # "h"

Frames == [c : 1 .. commands, at : {"next", "child", "flags"}, left : Seq(1 .. flags)]

StackInv ==
  /\ stack \in Seq(Frames)
  /\ phase \in {"create", "build", "crashed"} => stack = << >>
  /\ phase = "destroy" => stack # << >>

ArrayInv ==
  /\ array = [v \in Values |-> array[v]]
  /\ \A v \in Values : IsArray(array[v], Elements \cup {Junk})

RestInv ==
  /\ phase \in {"create", "build", "destroy", "done", "crashed"}
  /\ err \in BOOLEAN /\ blocks \in 0 .. MaxBlocks /\ set \subseteq 1 .. flags

IInv == TreeInv /\ FamilyInv /\ NamesInv /\ StackInv /\ ArrayInv /\ RestInv

\* Before the program starts there are no nodes, and the arrays are the caller's.
LEMMA InitEstablishes ==
  ASSUME Init  PROVE IInv
<1>1. MaxCommands \in Nat \ {0} /\ MaxFlags \in Nat /\ MaxBlocks \in Nat /\ Values \subseteq 1 .. MaxBlocks
  BY RegistryAssumption
<1>2. TreeInv /\ FamilyInv /\ NamesInv /\ StackInv
  <2>1. phase = "create" /\ commands = 0 /\ flags = 0 /\ stack = << >>
    BY DEF Init
  <2>2. TreeInv
    <3>1. child = [c \in Commands |-> << >>] /\ flag = [c \in Commands |-> << >>]
      BY DEF Init
    <3>2. name = [c \in Commands |-> name[c]]
      <4>1. name = [c \in Commands |-> ""]
        BY DEF Init
      <4> QED BY <4>1, Zenon
    <3>3. fname = [f \in Flags |-> fname[f]]
      <4>1. fname = [f \in Flags |-> ""]
        BY DEF Init
      <4> QED BY <4>1, Zenon
    <3>4. short = [f \in Flags |-> short[f]]
      BY DEF Init
    <3>5. parent = [c \in Commands |-> None] /\ value = [f \in Flags |-> NoValue]
      BY DEF Init
    <3>6. parent \in [Commands -> 0 .. MaxCommands]
      BY <1>1, <3>5 DEF None
    <3>7. value \in [Flags -> Values \cup {NoValue}] /\ \A f \in Flags : value[f] = NoValue
      BY <3>5
    <3>8. << >> \in Seq(1 .. commands) /\ << >> \in Seq(1 .. flags)
      OBVIOUS
    <3>9. child \in [Commands -> Seq(1 .. commands)] /\ flag \in [Commands -> Seq(1 .. flags)]
      BY <3>1, <3>8, Zenon
    <3> QED BY <1>1, <2>1, <3>2, <3>3, <3>4, <3>6, <3>7, <3>9 DEF TreeInv
  <2>3. FamilyInv
    BY <2>1 DEF FamilyInv
  <2>4. NamesInv
    <3>0. \A c \in Commands : child[c] = << >> /\ flag[c] = << >>
      BY DEF Init
    <3>1. \A c \in Commands : DOMAIN child[c] = {} /\ DOMAIN flag[c] = {}
      BY <3>0
    <3> QED BY <3>1 DEF NamesInv, Different
  <2>5. StackInv
    <3>1. stack \in Seq(Frames)
      BY <2>1
    <3> QED BY <2>1, <3>1 DEF StackInv
  <2> QED BY <2>2, <2>3, <2>4, <2>5
<1>3. Cardinality(Values) \in 0 .. MaxBlocks
  <2>1. IsFiniteSet(1 .. MaxBlocks) /\ Cardinality(1 .. MaxBlocks) = MaxBlocks
    BY <1>1, FS_Interval
  <2>2. IsFiniteSet(Values) /\ Cardinality(Values) <= MaxBlocks
    BY <1>1, <2>1, FS_Subset
  <2> QED BY <1>1, <2>2, FS_CardinalityType
<1>4. RestInv
  BY <1>3 DEF Init, RestInv
<1>5. ArrayInv
  <2>1. PICK a \in [Values -> Initial] :
          array = [v \in Values |->
                     [p   |-> IF a[v].p = "allocated" THEN Block(v) ELSE <<a[v].p, v>>,
                      cap |-> a[v].cap, len |-> a[v].len, mem |-> a[v].mem]]
    BY DEF Init
  <2>2. ASSUME NEW v \in Values  PROVE IsArray(array[v], Elements \cup {Junk})
    <3>1. IsArray(a[v], Elements)
      BY RegistryAssumption
    <3>2. \E q : array[v] = [p |-> q, cap |-> a[v].cap, len |-> a[v].len, mem |-> a[v].mem]
      BY <2>1
    <3>3. a[v].mem \in Seq(Elements \cup {Junk})
      BY <3>1 DEF IsArray
    <3> QED BY <3>1, <3>2, <3>3 DEF IsArray
  <2> QED BY <2>1, <2>2 DEF ArrayInv
<1> QED BY <1>2, <1>4, <1>5 DEF IInv

-----------------------------------------------------------------------------
(* Calls that add a node.                                                  *)

\* A list that is extended by x.
LEMMA Extended ==
  ASSUME NEW n \in Nat, NEW list \in Seq(1 .. n)
  PROVE  LET new == Append(list, n + 1)
         IN  /\ new \in Seq(1 .. n + 1)
             /\ Len(list) \in Nat /\ DOMAIN list = 1 .. Len(list)
             /\ DOMAIN new = 1 .. Len(list) + 1
             /\ new[Len(list) + 1] = n + 1
             /\ \A k \in DOMAIN list : new[k] = list[k] /\ list[k] \in 1 .. n
<1>1. list \in Seq(1 .. n + 1)
  OBVIOUS
<1> QED BY <1>1

\* Names that are different stay so when one that is not among them is added.
LEMMA StillDifferent ==
  ASSUME NEW n \in Nat, NEW list \in Seq(1 .. n), NEW label, NEW S, label = [s \in S |-> label[s]],
         1 .. n + 1 \subseteq S, NEW but, Different(list, label, but), NEW x,
         x \notin but => \A k \in DOMAIN list : label[list[k]] # x
  PROVE  Different(Append(list, n + 1), [label EXCEPT ![n + 1] = x], but)
<1> DEFINE new == Append(list, n + 1)
           lab == [label EXCEPT ![n + 1] = x]
<1>1. /\ DOMAIN list = 1 .. Len(list) /\ Len(list) \in Nat /\ DOMAIN new = 1 .. Len(list) + 1
      /\ new[Len(list) + 1] = n + 1
      /\ \A k \in DOMAIN list : new[k] = list[k] /\ list[k] \in 1 .. n
  BY Extended
<1>2. lab[n + 1] = x /\ \A y \in 1 .. n : lab[y] = label[y]
  <2>1. n + 1 \in S /\ \A y \in 1 .. n : y \in S /\ y # n + 1
    OBVIOUS
  <2> QED BY <2>1
<1> HIDE DEF new, lab
<1> SUFFICES ASSUME NEW j \in DOMAIN new, NEW k \in DOMAIN new, lab[new[j]] = lab[new[k]]
             PROVE  j = k \/ lab[new[j]] \in but
  BY DEF Different, new, lab
<1>3. CASE j \in DOMAIN list /\ k \in DOMAIN list
  <2>1. new[j] = list[j] /\ new[k] = list[k] /\ list[j] \in 1 .. n /\ list[k] \in 1 .. n
    BY <1>1, <1>3
  <2>2. label[list[j]] = label[list[k]] /\ lab[new[j]] = label[list[j]]
    BY <1>2, <2>1
  <2>3. j = k \/ label[list[j]] \in but
    BY <1>3, <2>2 DEF Different
  <2> QED BY <2>2, <2>3
<1>4. CASE j \in DOMAIN list /\ k = Len(list) + 1
  BY <1>1, <1>2, <1>4
<1>5. CASE j = Len(list) + 1 /\ k \in DOMAIN list
  BY <1>1, <1>2, <1>5
<1>6. CASE j = Len(list) + 1 /\ k = Len(list) + 1
  BY <1>6
<1> QED BY <1>1, <1>3, <1>4, <1>5, <1>6

\* A list of others is not affected.
LEMMA DifferentUnaffected ==
  ASSUME NEW n \in Nat, NEW list \in Seq(1 .. n), NEW label, NEW S, label = [s \in S |-> label[s]],
         1 .. n \subseteq S, NEW but, Different(list, label, but), NEW x
  PROVE  Different(list, [label EXCEPT ![n + 1] = x], but)
<1> DEFINE lab == [label EXCEPT ![n + 1] = x]
<1>1. \A k \in DOMAIN list : list[k] \in 1 .. n
  OBVIOUS
<1>2. \A y \in 1 .. n : lab[y] = label[y]
  <2>1. \A y \in 1 .. n : y \in S /\ y # n + 1
    OBVIOUS
  <2> QED BY <2>1
<1> HIDE DEF lab
<1>3. \A k \in DOMAIN list : lab[list[k]] = label[list[k]]
  BY <1>1, <1>2
<1> QED BY <1>3 DEF Different, lab

\* A list of nodes made before is one of the nodes made by now.
LEMMA LongerRange ==
  ASSUME NEW n \in Nat, NEW list \in Seq(1 .. n)  PROVE list \in Seq(1 .. n + 1)
OBVIOUS

\* Both ways to make a command: the root, and a subcommand of c.
LEMMA CommandAdded ==
  ASSUME TreeInv, FamilyInv, NamesInv, NEW c, NEW n, NewCommand(c, n), phase' = "build",
         commands < MaxCommands,
         \/ c = None /\ commands = 0 /\ UNCHANGED child
         \/ /\ c \in 1 .. commands /\ ~ HasChild(c, n)
            /\ child' = [child EXCEPT ![c] = Append(@, commands + 1)]
  PROVE  TreeInv' /\ FamilyInv' /\ NamesInv'
<1> DEFINE m == commands
<1>1. /\ m = commands /\ m \in Nat /\ commands' = m + 1 /\ m + 1 \in Commands /\ 1 .. m + 1 \subseteq Commands
      /\ MaxCommands \in Nat
  BY RegistryAssumption DEF TreeInv, NewCommand, Commands
<1>2. /\ name' = [name EXCEPT ![m + 1] = n] /\ parent' = [parent EXCEPT ![m + 1] = c]
      /\ UNCHANGED <<flags, flag, fname, short, value>>
  BY DEF NewCommand
<1>3. /\ child \in [Commands -> Seq(1 .. m)] /\ name = [d \in Commands |-> name[d]]
      /\ parent \in [Commands -> 0 .. MaxCommands] /\ c \in 0 .. MaxCommands
  BY <1>1 DEF TreeInv, None
<1>4. ASSUME NEW d \in Commands
      PROVE  \/ child'[d] = child[d]
             \/ d = c /\ ~ HasChild(d, n) /\ child'[d] = Append(child[d], m + 1)
  BY <1>3
<1> HIDE DEF m
<1>5. child' \in [Commands -> Seq(1 .. m + 1)]
  <2>1. DOMAIN child' = Commands /\ child' = [d \in Commands |-> child'[d]]
    BY <1>3 DEF m
  <2>2. ASSUME NEW d \in Commands  PROVE child'[d] \in Seq(1 .. m + 1)
    <3>1. child[d] \in Seq(1 .. m)
      BY <1>3
    <3>2. child[d] \in Seq(1 .. m + 1) /\ Append(child[d], m + 1) \in Seq(1 .. m + 1)
      BY <1>1, <3>1, LongerRange, Extended
    <3> QED BY <1>4, <3>2
  <2> QED BY <2>1, <2>2
<1>6. TreeInv'
  <2>1. name' = [d \in Commands |-> name'[d]] /\ parent' \in [Commands -> 0 .. MaxCommands]
    BY <1>1, <1>2, <1>3
  <2>2. /\ commands' \in 0 .. MaxCommands /\ commands' > 0 /\ phase' # "create"
        /\ child' \in [Commands -> Seq(1 .. commands')]
    BY <1>1, <1>5
  <2>3. /\ flags' \in 0 .. MaxFlags /\ flag' \in [Commands -> Seq(1 .. flags')]
        /\ fname' = [f \in Flags |-> fname'[f]] /\ short' = [f \in Flags |-> short'[f]]
        /\ value' \in [Flags -> Values \cup {NoValue}]
        /\ \A f \in Flags : f > flags' => value'[f] = NoValue
    BY <1>2, Zenon DEF TreeInv
  <2> HIDE DEF Commands, Flags
  <2> QED BY <2>1, <2>2, <2>3 DEF TreeInv
<1>7. FamilyInv'
  <2> SUFFICES ASSUME NEW d \in 1 .. m + 1, parent'[d] # None
               PROVE  /\ parent'[d] \in Commands
                      /\ \E k \in DOMAIN child'[parent'[d]] : child'[parent'[d]][k] = d
    BY <1>1 DEF FamilyInv
  <2>1. CASE d = m + 1
    <3>1. parent'[d] = c /\ c \in 1 .. m /\ c \in Commands
      BY <1>1, <1>2, <1>3, <2>1 DEF m
    <3>2. child'[c] = Append(child[c], m + 1) /\ child[c] \in Seq(1 .. m)
      BY <1>3, <3>1 DEF m, None
    <3>3. /\ Len(child[c]) \in Nat /\ DOMAIN child'[c] = 1 .. Len(child[c]) + 1
          /\ child'[c][Len(child[c]) + 1] = m + 1
      BY <1>1, <3>2, Extended
    <3>4. Len(child[c]) + 1 \in DOMAIN child'[c]
      BY <3>3
    <3> QED BY <2>1, <3>1, <3>3, <3>4
  <2>2. CASE d \in 1 .. m
    <3>1. parent'[d] = parent[d] /\ parent[d] \in Commands
      BY <1>1, <1>2, <1>3, <2>2 DEF FamilyInv, m
    <3>2. PICK k \in DOMAIN child[parent[d]] : child[parent[d]][k] = d
      BY <2>2, <3>1 DEF FamilyInv, m
    <3>3. child[parent[d]] \in Seq(1 .. m)
      BY <1>3, <3>1
    <3>4. CASE child'[parent[d]] = child[parent[d]]
      BY <3>1, <3>2, <3>4
    <3>5. CASE child'[parent[d]] = Append(child[parent[d]], m + 1)
      <4>1. k \in DOMAIN child'[parent[d]] /\ child'[parent[d]][k] = d
        BY <1>1, <3>2, <3>3, <3>5, Extended
      <4> QED BY <3>1, <4>1
    <3> QED BY <1>4, <3>1, <3>4, <3>5
  <2> QED BY <1>1, <2>1, <2>2
<1>8. NamesInv'
  <2> SUFFICES ASSUME NEW d \in Commands  PROVE Different(child'[d], name', {})
    BY <1>2 DEF NamesInv
  <2>1. Different(child[d], name, {}) /\ child[d] \in Seq(1 .. m)
    BY <1>3 DEF NamesInv
  <2>2. CASE child'[d] = child[d]
    <3>1. Different(child[d], [name EXCEPT ![m + 1] = n], {})
      <4>1. 1 .. m \subseteq Commands
        BY <1>1
      <4> QED BY <1>1, <1>3, <2>1, <4>1, DifferentUnaffected
    <3> QED BY <1>2, <2>2, <3>1
  <2>3. CASE ~ HasChild(d, n) /\ child'[d] = Append(child[d], m + 1)
    <3>1. \A k \in DOMAIN child[d] : name[child[d][k]] # n
      BY <2>3 DEF HasChild
    <3>2. Different(Append(child[d], m + 1), [name EXCEPT ![m + 1] = n], {})
      BY <1>1, <1>3, <2>1, <3>1, StillDifferent
    <3> QED BY <1>2, <2>3, <3>2
  <2> QED BY <1>4, <2>2, <2>3
<1> QED BY <1>6, <1>7, <1>8

\* A flag of command c.
LEMMA FlagAdded ==
  ASSUME TreeInv, FamilyInv, NamesInv, NEW c \in 1 .. commands, NEW n, n # "help",
         NEW sh, sh # "h", NEW v \in Values \cup {NoValue},
         flags < MaxFlags, ~ HasFlag(c, n, sh),
         flags' = flags + 1,
         fname' = [fname EXCEPT ![flags + 1] = n],
         short' = [short EXCEPT ![flags + 1] = sh],
         value' = [value EXCEPT ![flags + 1] = v],
         flag' = [flag EXCEPT ![c] = Append(@, flags + 1)],
         UNCHANGED <<phase, commands, name, parent, child>>
  PROVE  TreeInv' /\ FamilyInv' /\ NamesInv'
<1> DEFINE m == flags
<1>1. /\ m = flags /\ m \in Nat /\ flags' = m + 1 /\ m + 1 \in Flags /\ 1 .. m + 1 \subseteq Flags
      /\ 1 .. m \subseteq Flags /\ MaxFlags \in Nat
  BY RegistryAssumption DEF TreeInv, Flags
<1>2. /\ flag \in [Commands -> Seq(1 .. m)] /\ fname = [f \in Flags |-> fname[f]]
      /\ short = [f \in Flags |-> short[f]] /\ value \in [Flags -> Values \cup {NoValue}]
  BY DEF TreeInv
<1>3. ASSUME NEW d \in Commands
      PROVE  \/ flag'[d] = flag[d]
             \/ ~ HasFlag(d, n, sh) /\ flag'[d] = Append(flag[d], m + 1)
  BY <1>2
<1> HIDE DEF m
<1>4. flag' \in [Commands -> Seq(1 .. m + 1)]
  <2>1. DOMAIN flag' = Commands /\ flag' = [d \in Commands |-> flag'[d]]
    BY <1>2 DEF m
  <2>2. ASSUME NEW d \in Commands  PROVE flag'[d] \in Seq(1 .. m + 1)
    <3>1. flag[d] \in Seq(1 .. m)
      BY <1>2
    <3>2. flag[d] \in Seq(1 .. m + 1) /\ Append(flag[d], m + 1) \in Seq(1 .. m + 1)
      BY <1>1, <3>1, LongerRange, Extended
    <3> QED BY <1>3, <3>2
  <2> QED BY <2>1, <2>2
<1>5. TreeInv'
  <2>1. /\ flags' \in 0 .. MaxFlags /\ flag' \in [Commands -> Seq(1 .. flags')]
    BY <1>1, <1>4
  <2>2. fname' = [f \in Flags |-> fname'[f]] /\ short' = [f \in Flags |-> short'[f]]
    BY <1>1, <1>2
  <2>3. value' \in [Flags -> Values \cup {NoValue}]
    BY <1>1, <1>2
  <2>4. \A f \in Flags : f > flags' => value'[f] = NoValue
    BY <1>1, <1>2 DEF TreeInv, Flags
  <2>5. /\ commands' \in 0 .. MaxCommands
        /\ name' = [d \in Commands |-> name'[d]] /\ parent' \in [Commands -> 0 .. MaxCommands]
        /\ child' \in [Commands -> Seq(1 .. commands')]
        /\ phase' = "create" => commands' = 0
        /\ phase' # "create" => commands' > 0
    BY Zenon DEF TreeInv
  <2> HIDE DEF Commands, Flags
  <2> QED BY <2>1, <2>2, <2>3, <2>4, <2>5 DEF TreeInv
<1>6. FamilyInv'
  BY Zenon DEF FamilyInv
<1>7. NamesInv'
  <2> SUFFICES ASSUME NEW d \in Commands
               PROVE  /\ Different(flag'[d], fname', {}) /\ Different(flag'[d], short', {NoShort})
                      /\ \A k \in DOMAIN flag'[d] :
                           fname'[flag'[d][k]] # "help" /\ short'[flag'[d][k]] # "h"
    <3>1. child' = child /\ name' = name /\ \A d \in Commands : Different(child[d], name, {})
      BY DEF NamesInv
    <3> QED BY <3>1, Zenon DEF NamesInv
  <2>1. /\ Different(flag[d], fname, {}) /\ Different(flag[d], short, {NoShort})
        /\ flag[d] \in Seq(1 .. m)
        /\ \A k \in DOMAIN flag[d] : fname[flag[d][k]] # "help" /\ short[flag[d][k]] # "h"
    <3>1. flag[d] \in Seq(1 .. m)
      BY <1>2
    <3> QED BY <3>1, Zenon DEF NamesInv
  <2>2. \A f \in 1 .. m : fname'[f] = fname[f] /\ short'[f] = short[f]
    <3>1. \A f \in 1 .. m : f \in Flags /\ f # m + 1
      BY <1>1
    <3> QED BY <1>1, <1>2, <3>1
  <2>3. fname'[m + 1] = n /\ short'[m + 1] = sh
    BY <1>1, <1>2
  <2>4. \A k \in DOMAIN flag[d] : flag[d][k] \in 1 .. m
    BY <1>1, <2>1, Extended
  <2>5. CASE flag'[d] = flag[d]
    <3>1. Different(flag[d], [fname EXCEPT ![m + 1] = n], {})
      BY <1>1, <1>2, <2>1, DifferentUnaffected
    <3>2. Different(flag[d], [short EXCEPT ![m + 1] = sh], {NoShort})
      BY <1>1, <1>2, <2>1, DifferentUnaffected
    <3> QED BY <1>1, <2>1, <2>2, <2>4, <2>5, <3>1, <3>2
  <2>6. CASE ~ HasFlag(d, n, sh) /\ flag'[d] = Append(flag[d], m + 1)
    <3>1. \A k \in DOMAIN flag[d] : fname[flag[d][k]] # n
      BY <2>6 DEF HasFlag
    <3>2. sh \notin {NoShort} => \A k \in DOMAIN flag[d] : short[flag[d][k]] # sh
      BY <2>6 DEF HasFlag
    <3>3. Different(Append(flag[d], m + 1), [fname EXCEPT ![m + 1] = n], {})
      BY <1>1, <1>2, <2>1, <3>1, StillDifferent
    <3>4. Different(Append(flag[d], m + 1), [short EXCEPT ![m + 1] = sh], {NoShort})
      BY <1>1, <1>2, <2>1, <3>2, StillDifferent
    <3>5. ASSUME NEW k \in DOMAIN flag'[d]
          PROVE  fname'[flag'[d][k]] # "help" /\ short'[flag'[d][k]] # "h"
      <4>1. \/ k \in DOMAIN flag[d] /\ flag'[d][k] = flag[d][k]
            \/ flag'[d][k] = m + 1
        BY <1>1, <2>1, <2>6, Extended
      <4> QED BY <2>1, <2>2, <2>3, <2>4, <4>1
    <3> QED BY <1>1, <2>6, <3>3, <3>4, <3>5
  <2> QED BY <1>3, <2>5, <2>6
<1> QED BY <1>5, <1>6, <1>7

-----------------------------------------------------------------------------
(* command_destroy: its frames are of commands of the tree.                *)

\* What NextOf and ChildOf find, if anything, are commands of the tree.
LEMMA ChildIsACommand ==
  ASSUME TreeInv, NEW c \in 1 .. commands
  PROVE  ChildOf(c) \in 1 .. commands \cup {None}
<1>1. child[c] \in Seq(1 .. commands)
  BY RegistryAssumption DEF TreeInv, Commands
<1> DEFINE list == child[c]
<1>2. ChildOf(c) = IF list = << >> THEN None ELSE list[1]
  BY DEF ChildOf
<1> HIDE DEF list
<1>3. CASE list = << >>
  BY <1>2, <1>3
<1>4. CASE list # << >>
  <2>1. 1 \in 1 .. Len(list)
    BY <1>1, <1>4, EmptySeq DEF list
  <2>2. list[1] \in 1 .. commands
    BY <1>1, <2>1, ElementOfSeq DEF list
  <2> QED BY <1>2, <1>4, <2>2
<1> QED BY <1>3, <1>4

\* The same of the next command in a list.
LEMMA NextIsACommand ==
  ASSUME TreeInv, FamilyInv, NEW c \in 1 .. commands
  PROVE  NextOf(c) \in 1 .. commands \cup {None}
<1>1. CASE parent[c] = None
  BY <1>1 DEF NextOf
<1>2. CASE parent[c] # None
  <2> DEFINE list == child[parent[c]]
             k    == CHOOSE k \in DOMAIN list : list[k] = c
  <2>1. parent[c] \in Commands /\ \E j \in DOMAIN list : list[j] = c
    BY <1>2 DEF FamilyInv
  <2>2. list \in Seq(1 .. commands)
    BY <2>1 DEF TreeInv
  <2>3. k \in DOMAIN list
    BY <2>1
  <2>4. NextOf(c) = IF k < Len(list) THEN list[k + 1] ELSE None
    BY <1>2 DEF NextOf
  <2> HIDE DEF list, k
  <2>5. Len(list) \in Nat /\ DOMAIN list = 1 .. Len(list)
    BY <2>2, LenProperties
  <2>6. k < Len(list) => k + 1 \in 1 .. Len(list)
    BY <2>3, <2>5
  <2>7. k < Len(list) => list[k + 1] \in 1 .. commands
    BY <2>2, <2>6, ElementOfSeq
  <2> QED BY <2>4, <2>7
<1> QED BY <1>1, <1>2

\* The calls of command_destroy are calls for commands.
LEMMA FramesOfCommands ==
  ASSUME TreeInv, NEW c \in 1 .. commands
  PROVE  Frame(c) \in Frames
<1>1. flag[c] \in Seq(1 .. flags)
  BY RegistryAssumption DEF TreeInv, Commands
<1> QED BY <1>1 DEF Frame, Frames

\* The call under way.
LEMMA TopIsAFrame ==
  ASSUME StackInv, phase = "destroy"
  PROVE  Top \in Frames /\ Below \in Seq(Frames)
<1>1. stack \in Seq(Frames) /\ stack # << >>
  BY DEF StackInv
<1> HIDE DEF Frames
<1> QED BY <1>1 DEF Top, Below

\* Each step of command_destroy leaves calls for commands.
LEMMA StackKept ==
  ASSUME TreeInv, FamilyInv, StackInv,
         Destroy \/ VisitNext \/ VisitChild \/ FreeFlag \/ FreeCommand
  PROVE  StackInv'
<1> DEFINE Pushed(c) == IF c = None THEN << >> ELSE <<Frame(c)>>
<1>1. commands' = commands /\ flags' = flags /\ Frames' = Frames
  BY DEF Destroy, VisitNext, VisitChild, FreeFlag, FreeCommand, tree, Frames
<1>2. ASSUME phase = "destroy", NEW at \in {"next", "child", "flags"}
      PROVE  Continue(at) \in Seq(Frames) /\ Continue(at) # << >>
  <2>1. Top \in Frames /\ Below \in Seq(Frames)
    BY <1>2, TopIsAFrame
  <2>2. [Top EXCEPT !.at = at] \in Frames
    BY <2>1 DEF Frames
  <2> HIDE DEF Frames
  <2> DEFINE t == [Top EXCEPT !.at = at]
             b == Below
  <2>3. t \in Frames /\ b \in Seq(Frames) /\ Continue(at) = Append(b, t)
    BY <2>1, <2>2 DEF Continue
  <2> HIDE DEF t, b
  <2> QED BY <2>3
<1>3. ASSUME phase = "destroy", NEW c \in 1 .. commands \cup {None}
      PROVE  Pushed(c) \in Seq(Frames)
  <2>1. c # None => Frame(c) \in Frames
    BY <1>3, FramesOfCommands
  <2> HIDE DEF Frames
  <2> QED BY <2>1
<1>4. phase = "destroy" => Top.c \in 1 .. commands /\ Top.left \in Seq(1 .. flags)
  BY TopIsAFrame DEF Frames
<1> HIDE DEF Pushed
<1>5. CASE Destroy
  <2>1. 1 \in 1 .. commands
    BY <1>5 DEF TreeInv, Destroy
  <2>2. Frame(root) \in Frames
    BY <2>1, FramesOfCommands DEF root
  <2> HIDE DEF Frames
  <2>3. <<Frame(root)>> \in Seq(Frames) /\ <<Frame(root)>> # << >>
    BY <2>2
  <2>4. stack' = <<Frame(root)>> /\ phase' = "destroy"
    BY <1>5 DEF Destroy
  <2> QED BY <1>1, <2>3, <2>4 DEF StackInv
<1>6. ASSUME NEW at \in {"next", "child", "flags"}, NEW c \in 1 .. commands \cup {None},
             phase = "destroy", phase' = phase, stack' = Continue(at) \o Pushed(c)
      PROVE  StackInv'
  <2>1. Continue(at) \in Seq(Frames) /\ Continue(at) # << >> /\ Pushed(c) \in Seq(Frames)
    BY <1>2, <1>3, <1>6
  <2> HIDE DEF Frames
  <2>2. stack' \in Seq(Frames) /\ stack' # << >>
    <3> DEFINE s == Continue(at)  t == Pushed(c)
    <3>1. s \in Seq(Frames) /\ s # << >> /\ t \in Seq(Frames) /\ stack' = s \o t
      BY <1>6, <2>1
    <3> HIDE DEF s, t
    <3> QED BY <3>1
  <2> QED BY <1>1, <1>6, <2>2 DEF StackInv
<1>7. CASE VisitNext
  <2>1. phase = "destroy" /\ phase' = phase /\ stack' = Continue("child") \o Pushed(NextOf(Top.c))
    BY <1>7 DEF VisitNext, Pushed
  <2> QED BY <1>4, <1>6, <2>1, NextIsACommand
<1>8. CASE VisitChild
  <2>1. phase = "destroy" /\ phase' = phase /\ stack' = Continue("flags") \o Pushed(ChildOf(Top.c))
    BY <1>8 DEF VisitChild, Pushed
  <2> QED BY <1>4, <1>6, <2>1, ChildIsACommand
<1>9. CASE FreeFlag
  <2>1. phase = "destroy" /\ phase' = phase /\ Top.left # << >>
        /\ stack' = Append(Below, [Top EXCEPT !.left = Tail(Top.left)])
    BY <1>9 DEF FreeFlag
  <2>2. Tail(Top.left) \in Seq(1 .. flags)
    BY <1>4, <2>1, HeadTailProperties
  <2>3. [Top EXCEPT !.left = Tail(Top.left)] \in Frames /\ Below \in Seq(Frames)
    BY <2>1, <2>2, TopIsAFrame DEF Frames
  <2> HIDE DEF Frames
  <2>4. stack' \in Seq(Frames) /\ stack' # << >>
    BY <2>1, <2>3
  <2> QED BY <1>1, <2>1, <2>4 DEF StackInv
<1>10. CASE FreeCommand
  <2>1. phase = "destroy" /\ stack' = Below /\ phase' = IF Below = << >> THEN "done" ELSE phase
    BY <1>10 DEF FreeCommand
  <2>2. Below \in Seq(Frames)
    BY <2>1, TopIsAFrame
  <2> QED BY <1>1, <2>1, <2>2 DEF StackInv
<1> QED BY <1>5, <1>7, <1>8, <1>9, <1>10

-----------------------------------------------------------------------------
(* The arrays.                                                             *)

\* Growth and store yield an array within its memory.
LEMMA ArrayStaysAnArray ==
  ASSUME NEW E, Junk \in E, NEW a, IsArray(a, E), NEW set0 \in BOOLEAN, NEW argc \in Nat,
         NEW block, NEW x \in E
  PROVE  IsArray(Stored(Grown(a, set0, argc, block), x), E)
<1> DEFINE g == Grown(a, set0, argc, block)
           n == Kept(a, set0)
           c == NewCap(a.cap, n, argc)
<1>1. g.len = n /\ n \in Nat /\ g.len < g.cap /\ g.cap = Len(g.mem)
  BY GrowthMakesRoom, KeptLength
<1>2. a.mem \in Seq(E) /\ a.cap \in Nat /\ c \in Nat
  BY <1>1, CapacityBounds DEF IsArray
<1> HIDE DEF c
<1>3. /\ g = [p |-> g.p, cap |-> g.cap, len |-> g.len, mem |-> g.mem] /\ g.mem \in Seq(E)
  <2>1. CASE Full(a, set0)
    <3>1. g = [p |-> block, cap |-> c, len |-> n, mem |-> CopyOf(a.mem, c)]
      BY <2>1 DEF Grown, c
    <3>2. CopyOf(a.mem, c) \in Seq(E)
      <4>1. \A k \in 1 .. Len(a.mem) : a.mem[k] \in E
        BY <1>2, ElementOfSeq
      <4>2. CopyOf(a.mem, c) \in [1 .. c -> E]
        BY <1>2, <4>1, LenProperties DEF CopyOf
      <4> QED BY <1>2, <4>2
    <3> HIDE DEF g, n
    <3> QED BY <3>1, <3>2
  <2>2. CASE ~ Full(a, set0)
    <3>1. g = [p |-> a.p, cap |-> a.cap, len |-> n, mem |-> a.mem]
      BY <2>2 DEF Grown, IsArray
    <3> HIDE DEF g, n
    <3> QED BY <1>2, <3>1
  <2> QED BY <2>1, <2>2
<1>4. Len(g.mem) \in Nat /\ g.cap \in Nat
  BY <1>1, <1>3, LenProperties
<1> HIDE DEF g, n
<1>5. n + 1 \in 1 .. Len(g.mem)
  BY <1>1, <1>4
<1> DEFINE mem == [g.mem EXCEPT ![n + 1] = x]
<1>6. mem \in Seq(E) /\ Len(mem) = Len(g.mem)
  BY <1>3, <1>5, ExceptSeq
<1>7. Stored(g, x) = [p |-> g.p, cap |-> g.cap, len |-> n + 1, mem |-> mem]
  <2>1. Stored(g, x) = [g EXCEPT !.len = g.len + 1, !.mem = [g.mem EXCEPT ![g.len + 1] = x]]
    BY DEF Stored
  <2>2. g.len + 1 = n + 1 /\ [g.mem EXCEPT ![g.len + 1] = x] = mem
    BY <1>1
  <2> HIDE DEF mem
  <2>3. Stored(g, x) = [g EXCEPT !.len = n + 1, !.mem = mem]
    BY <2>1, <2>2
  <2> QED BY <1>3, <2>3
<1> HIDE DEF mem
<1>8. IsArray(Stored(g, x), E)
  BY <1>1, <1>4, <1>6, <1>7 DEF IsArray
<1> QED BY <1>8 DEF g

\* So does freeing it.
LEMMA EmptiedIsAnArray ==
  ASSUME NEW E, NEW a
  PROVE  IsArray(Emptied(a), E) /\ ValuesOf(Emptied(a)) = << >>
<1>1. << >> \in Seq(E) /\ Len(<< >>) = 0
  BY EmptySeq
<1>2. SubSeq(<< >>, 1, 0) = << >>
  BY SubSeqEmpty
<1> QED BY <1>1, <1>2 DEF Emptied, IsArray, ValuesOf

\* What set_flag does to the variable of a flag.
LEMMA SetArrayStores ==
  ASSUME ArrayInv, TreeInv, NEW f \in Flags, NEW x \in Elements, NEW argc \in 0 .. MaxArgc,
         SetArray(f, x, argc), phase' # "crashed"
  PROVE  /\ value[f] \in Values /\ f \in 1 .. flags /\ set' = set \cup {f}
         /\ DOMAIN array' = Values
         /\ \A v \in Values \ {value[f]} : array'[v] = array[v]
         /\ \E block : array'[value[f]] =
              Stored(Grown(array[value[f]], f \in set, argc, block), x)
<1>1. value[f] \in Values /\ f \in 1 .. flags
  BY DEF SetArray, TreeInv
<1>2. DOMAIN array = Values
  BY DEF ArrayInv
<1> DEFINE st == Stored(Grown(array[value[f]], f \in set, argc, Block(blocks + 1)), x)
<1>3. array' = [array EXCEPT ![value[f]] = st] /\ set' = set \cup {f}
  BY DEF SetArray
<1> HIDE DEF st
<1>4. array'[value[f]] = st
  BY <1>1, <1>2, <1>3
<1>5. \E block : array'[value[f]] = Stored(Grown(array[value[f]], f \in set, argc, block), x)
  BY <1>4 DEF st
<1> QED BY <1>1, <1>2, <1>3, <1>5

\* Freeing a flag empties its array and no other.
LEMMA FreeFlagEmpties ==
  ASSUME ArrayInv, TreeInv, StackInv, FreeFlag
  PROVE  \/ array' = array
         \/ \E v \in Values : array' = [array EXCEPT ![v] = Emptied(array[v])]
<1> DEFINE f == Top.left[1]
           v == value[f]
<1>1. phase = "destroy" /\ Top.left # << >>
  BY DEF FreeFlag
<1>2. Top.left \in Seq(1 .. flags)
  BY <1>1, TopIsAFrame DEF Frames
<1>3. f \in 1 .. flags
  <2>1. 1 \in 1 .. Len(Top.left)
    BY <1>1, <1>2, EmptySeq
  <2> QED BY <1>2, <2>1, ElementOfSeq
<1>4. f \in Flags
  BY <1>3, RegistryAssumption DEF TreeInv, Flags
<1>5. v \in Values \cup {NoValue}
  BY <1>4 DEF TreeInv
<1> DEFINE owned == IF v # NoValue /\ array[v].cap > 0 THEN {array[v].p} ELSE {}
<1>6. array' = IF owned # {} THEN [array EXCEPT ![v] = Emptied(array[v])] ELSE array
  BY DEF FreeFlag
<1>7. owned # {} => v \in Values
  BY <1>5
<1> HIDE DEF owned, v
<1> QED BY <1>6, <1>7

\* Each action keeps all arrays within their memory.
LEMMA ArraysKept ==
  ASSUME IInv, Next
  PROVE  ArrayInv'
<1> DEFINE E == Elements \cup {Junk}
<1>1. ArrayInv /\ TreeInv /\ StackInv
  BY DEF IInv
<1>2. CASE UNCHANGED array
  BY <1>1, <1>2 DEF ArrayInv
<1>3. ASSUME NEW f \in Flags, NEW x \in Elements, NEW argc \in 0 .. MaxArgc, SetArray(f, x, argc),
             phase' # "crashed"
      PROVE  ArrayInv'
  <2>1. /\ value[f] \in Values
        /\ DOMAIN array' = Values
        /\ \A v \in Values \ {value[f]} : array'[v] = array[v]
    BY <1>1, <1>3, SetArrayStores
  <2>2. PICK block : array'[value[f]] = Stored(Grown(array[value[f]], f \in set, argc, block), x)
    BY <1>1, <1>3, SetArrayStores
  <2>3. IsArray(array[value[f]], E)
    BY <1>1, <2>1 DEF ArrayInv
  <2>4. argc \in Nat /\ x \in E /\ Junk \in E /\ (f \in set) \in BOOLEAN
    BY RegistryAssumption
  <2>5. IsArray(array'[value[f]], E)
    <3> DEFINE given == f \in set
               a     == array[value[f]]
    <3>1. given \in BOOLEAN /\ IsArray(a, E) /\ array'[value[f]] = Stored(Grown(a, given, argc, block), x)
      BY <2>2, <2>3
    <3> HIDE DEF given, a, E
    <3>2. IsArray(Stored(Grown(a, given, argc, block), x), E)
      BY <2>4, <3>1, ArrayStaysAnArray
    <3> QED BY <3>1, <3>2
  <2>6. \A v \in Values : IsArray(array'[v], E)
    BY <1>1, <2>1, <2>5 DEF ArrayInv
  <2>7. array' = [v \in Values |-> array'[v]]
    <3>1. array' = [array EXCEPT ![value[f]] =
                      Stored(Grown(array[value[f]], f \in set, argc, Block(blocks + 1)), x)]
      BY <1>3 DEF SetArray
    <3>2. array = [v \in Values |-> array[v]]
      BY <1>1 DEF ArrayInv
    <3> DEFINE st == Stored(Grown(array[value[f]], f \in set, argc, Block(blocks + 1)), x)
    <3>3. array' = [array EXCEPT ![value[f]] = st]
      BY <3>1
    <3> HIDE DEF st
    <3> QED BY <2>1, <3>2, <3>3
  <2> QED BY <2>6, <2>7 DEF ArrayInv
<1>4. ASSUME NEW f \in Flags, NEW x \in Elements, NEW argc \in 0 .. MaxArgc, SetArray(f, x, argc),
             phase' = "crashed"
      PROVE  ArrayInv'
  <2>1. phase = "build" /\ phase' # phase
    BY <1>4 DEF SetArray
  <2>2. array' = array
    BY <1>4, <2>1, Zenon DEF SetArray
  <2> QED BY <1>2, <2>2
<1>5. CASE FreeFlag
  <2>1. CASE array' = array
    BY <1>2, <2>1
  <2>2. ASSUME NEW v \in Values, array' = [array EXCEPT ![v] = Emptied(array[v])]
        PROVE  ArrayInv'
    <3>1. IsArray(Emptied(array[v]), E)
      BY EmptiedIsAnArray
    <3> HIDE DEF E
    <3>2. array = [w \in Values |-> array[w]] /\ \A w \in Values : IsArray(array[w], E)
      BY <1>1 DEF ArrayInv, E
    <3>3. array' = [w \in Values |-> array'[w]]
          /\ \A w \in Values : array'[w] = array[w] \/ array'[w] = Emptied(array[v])
      BY <2>2, <3>2
    <3>4. \A w \in Values : IsArray(array'[w], E)
      BY <3>1, <3>2, <3>3
    <3> QED BY <3>3, <3>4 DEF ArrayInv, E
  <2> QED BY <1>1, <1>5, <2>1, <2>2, FreeFlagEmpties
<1>6. CASE \E n \in CommandNames : CommandCreate(n)
  BY <1>2, <1>6 DEF CommandCreate, Refuse, NewCommand
<1>7. CASE \E c \in 1 .. commands, n \in CommandNames : AddCommand(c, n)
  BY <1>2, <1>7 DEF AddCommand, Refuse, NewCommand
<1>8. ASSUME NEW c, NEW n, NEW sh, NEW t, NEW v, AddFlag(c, n, sh, t, v)  PROVE ArrayInv'
  BY <1>2, <1>8 DEF AddFlag, Refuse
<1>9. CASE Destroy \/ VisitNext \/ VisitChild \/ FreeCommand
  BY <1>2, <1>9 DEF Destroy, VisitNext, VisitChild, FreeCommand
<1>10. CASE UNCHANGED vars
  BY <1>2, <1>10 DEF vars
<1> QED BY <1>3, <1>4, <1>5, <1>6, <1>7, <1>8, <1>9, <1>10 DEF Next, GrowthFails

-----------------------------------------------------------------------------
(* The invariants are inductive.                                           *)

\* A step that leaves the tree alone.
LEMMA TreeKept ==
  ASSUME TreeInv, FamilyInv, NamesInv, UNCHANGED tree, phase # "create", phase' # "create"
  PROVE  TreeInv' /\ FamilyInv' /\ NamesInv'
<1>1. /\ UNCHANGED <<commands, flags, name, parent, child, flag, fname, short, value>>
  BY DEF tree
<1>2. TreeInv'
  BY <1>1 DEF TreeInv
<1>3. FamilyInv'
  BY <1>1, Zenon DEF FamilyInv
<1>4. NamesInv'
  BY <1>1, Zenon DEF NamesInv
<1> QED BY <1>2, <1>3, <1>4

\* A refused node changes nothing but err.
LEMMA RefusalKeeps ==
  ASSUME IInv, Refuse  PROVE IInv'
<1>1. /\ UNCHANGED <<phase, commands, flags, name, parent, child, flag, fname, short, value,
                     blocks, set, array, stack>>
      /\ err' \in BOOLEAN
  BY DEF Refuse, tree
<1>2. TreeInv' /\ FamilyInv' /\ NamesInv'
  BY <1>1, Zenon DEF IInv, TreeInv, FamilyInv, NamesInv
<1>3. StackInv' /\ RestInv'
  <2>1. Frames' = Frames
    BY <1>1 DEF Frames
  <2> QED BY <1>1, <2>1, Zenon DEF IInv, StackInv, RestInv
<1>4. ArrayInv'
  BY <1>1, Zenon DEF IInv, ArrayInv
<1> QED BY <1>2, <1>3, <1>4 DEF IInv

\* The first parts of IInv in a step that is not a refused call.
LEMMA TreeStep ==
  ASSUME IInv, Next, ~ Refuse, ~ UNCHANGED vars
  PROVE  TreeInv' /\ FamilyInv' /\ NamesInv'
<1>1. TreeInv /\ FamilyInv /\ NamesInv
  BY DEF IInv
<1>2. ASSUME NEW n, CommandCreate(n)  PROVE TreeInv' /\ FamilyInv' /\ NamesInv'
  <2>1. /\ NewCommand(None, n) /\ phase' = "build" /\ phase = "create" /\ UNCHANGED child
    BY <1>2 DEF CommandCreate
  <2>2. commands = 0 /\ commands < MaxCommands
    BY <1>1, <2>1, RegistryAssumption DEF TreeInv
  <2> QED BY <1>1, <2>1, <2>2, CommandAdded
<1>3. ASSUME NEW c \in 1 .. commands, NEW n, AddCommand(c, n)
      PROVE  TreeInv' /\ FamilyInv' /\ NamesInv'
  <2>1. /\ NewCommand(c, n) /\ phase' = "build" /\ ~ HasChild(c, n) /\ commands < MaxCommands
        /\ child' = [child EXCEPT ![c] = Append(@, commands + 1)]
    BY <1>3 DEF AddCommand
  <2> QED BY <1>1, <2>1, CommandAdded
<1>4. ASSUME NEW c \in 1 .. commands, NEW n, NEW sh, NEW t, NEW v \in Values \cup {NoValue},
             AddFlag(c, n, sh, t, v)
      PROVE  TreeInv' /\ FamilyInv' /\ NamesInv'
  <2>1. /\ n # "help" /\ sh # "h" /\ ~ HasFlag(c, n, sh) /\ flags < MaxFlags
        /\ flags' = flags + 1
        /\ fname' = [fname EXCEPT ![flags + 1] = n]
        /\ short' = [short EXCEPT ![flags + 1] = sh]
        /\ value' = [value EXCEPT ![flags + 1] = v]
        /\ flag' = [flag EXCEPT ![c] = Append(@, flags + 1)]
        /\ UNCHANGED <<phase, commands, name, parent, child>>
    BY <1>4 DEF AddFlag
  <2> QED BY <1>1, <2>1, FlagAdded
<1>5. ASSUME NEW f, NEW x, NEW argc, SetArray(f, x, argc)
      PROVE  TreeInv' /\ FamilyInv' /\ NamesInv'
  <2>1. UNCHANGED tree /\ phase = "build" /\ (phase' = "crashed" \/ phase' = phase)
    BY <1>5 DEF SetArray
  <2> QED BY <1>1, <2>1, TreeKept
<1>6. CASE Destroy \/ VisitNext \/ VisitChild \/ FreeFlag \/ FreeCommand
  <2>1. UNCHANGED tree /\ phase # "create" /\ phase' # "create"
    BY <1>6 DEF Destroy, VisitNext, VisitChild, FreeFlag, FreeCommand
  <2> QED BY <1>1, <2>1, TreeKept
<1> QED BY <1>2, <1>3, <1>4, <1>5, <1>6 DEF Next, GrowthFails

\* So does every other step, since nodes are only added.
LEMMA StackStep ==
  ASSUME IInv, Next, ~ Refuse, ~ UNCHANGED vars
  PROVE  StackInv'
<1>1. TreeInv /\ FamilyInv /\ StackInv
  BY DEF IInv
<1>2. ASSUME phase \in {"create", "build"}, phase' \in {"build", "crashed"}, stack' = stack
      PROVE  StackInv'
  <2>1. stack' = << >>
    BY <1>1, <1>2 DEF StackInv
  <2>2. stack' \in Seq(Frames')
    BY <2>1, EmptySeq
  <2> QED BY <1>2, <2>1, <2>2 DEF StackInv
<1>3. ASSUME NEW n, CommandCreate(n)  PROVE StackInv'
  BY <1>2, <1>3 DEF CommandCreate, NewCommand
<1>4. ASSUME NEW c, NEW n, AddCommand(c, n)  PROVE StackInv'
  BY <1>2, <1>4 DEF AddCommand, NewCommand
<1>5. ASSUME NEW c, NEW n, NEW sh, NEW t, NEW v, AddFlag(c, n, sh, t, v)  PROVE StackInv'
  BY <1>2, <1>5 DEF AddFlag
<1>6. ASSUME NEW f, NEW x, NEW argc, SetArray(f, x, argc)  PROVE StackInv'
  <2>1. stack' = stack /\ phase = "build" /\ (phase' = "crashed" \/ phase' = phase)
    BY <1>6 DEF SetArray
  <2> QED BY <1>2, <2>1
<1> QED BY <1>1, <1>3, <1>4, <1>5, <1>6, StackKept DEF Next, GrowthFails

\* The other parts of the invariant.
LEMMA RestStep ==
  ASSUME IInv, Next, ~ Refuse, ~ UNCHANGED vars
  PROVE  RestInv'
<1>1. RestInv /\ TreeInv /\ MaxBlocks \in Nat
  BY RegistryAssumption DEF IInv
<1>2. CASE \E n \in CommandNames : CommandCreate(n)
  BY <1>1, <1>2 DEF CommandCreate, NewCommand, RestInv
<1>3. CASE \E c \in 1 .. commands, n \in CommandNames : AddCommand(c, n)
  BY <1>1, <1>3 DEF AddCommand, NewCommand, RestInv
<1>4. ASSUME NEW c, NEW n, NEW sh, NEW t, NEW v, AddFlag(c, n, sh, t, v)  PROVE RestInv'
  <2>1. flags' = flags + 1 /\ flags \in Nat /\ err' = FALSE /\ phase' = phase
        /\ blocks' = blocks /\ set' = set
    BY <1>1, <1>4, RegistryAssumption DEF AddFlag, TreeInv
  <2>2. 1 .. flags \subseteq 1 .. flags'
    BY <2>1
  <2>3. set' \subseteq 1 .. flags'
    BY <1>1, <2>1, <2>2 DEF RestInv
  <2> QED BY <1>1, <2>1, <2>3 DEF RestInv
<1>5. ASSUME NEW f, NEW x, NEW argc, SetArray(f, x, argc)  PROVE RestInv'
  <2>1. flags' = flags /\ err' = err
    BY <1>5 DEF SetArray, tree
  <2>2. phase' = "crashed" \/ phase' = phase
    BY <1>5 DEF SetArray
  <2>3. set' = set \/ (set' = set \cup {f} /\ f \in 1 .. flags)
    BY <1>5 DEF SetArray
  <2>4. blocks' \in 0 .. MaxBlocks
    <3>1. \/ blocks' = blocks
          \/ blocks < MaxBlocks /\ blocks' = blocks + 1
      BY <1>5, Zenon DEF SetArray
    <3> QED BY <1>1, <3>1 DEF RestInv
  <2>5. set' \subseteq 1 .. flags'
    BY <1>1, <2>1, <2>3 DEF RestInv
  <2>6. phase' \in {"create", "build", "destroy", "done", "crashed"} /\ err' \in BOOLEAN
    BY <1>1, <2>1, <2>2 DEF RestInv
  <2> QED BY <2>4, <2>5, <2>6 DEF RestInv
<1>6. CASE Destroy \/ VisitNext \/ VisitChild \/ FreeFlag \/ FreeCommand
  <2>1. UNCHANGED <<err, flags, blocks, set>> /\ phase' \in {"destroy", "done", phase}
    BY <1>6 DEF Destroy, VisitNext, VisitChild, FreeFlag, FreeCommand, tree
  <2> QED BY <1>1, <2>1 DEF RestInv
<1> QED BY <1>2, <1>3, <1>4, <1>5, <1>6 DEF Next, GrowthFails

\* Every step keeps the invariant.
LEMMA InvariantKept ==
  ASSUME IInv, [Next]_vars  PROVE IInv'
<1>1. CASE Refuse
  BY <1>1, RefusalKeeps
<1>2. CASE ~ Refuse /\ Next /\ ~ UNCHANGED vars
  BY <1>2, TreeStep, StackStep, ArraysKept, RestStep DEF IInv
<1>3. CASE UNCHANGED vars
  <2>1. /\ UNCHANGED <<phase, commands, flags, name, parent, child, flag, fname, short, value,
                       blocks, set, array, stack, err>>
    BY <1>3 DEF vars, tree
  <2>2. TreeInv' /\ FamilyInv' /\ NamesInv'
    BY <2>1, Zenon DEF IInv, TreeInv, FamilyInv, NamesInv
  <2>3. Frames' = Frames
    BY <2>1 DEF Frames
  <2>4. StackInv' /\ RestInv' /\ ArrayInv'
    BY <2>1, <2>3, Zenon DEF IInv, StackInv, RestInv, ArrayInv
  <2> QED BY <2>2, <2>4 DEF IInv
<1> QED BY <1>1, <1>2, <1>3

\* The inductive invariant of the registry.
LEMMA InvariantHolds == Spec => []IInv
<1>1. Init => IInv
  BY InitEstablishes
<1>2. IInv /\ [Next]_vars => IInv'
  BY InvariantKept
<1> QED BY <1>1, <1>2, PTL DEF Spec

\* The registry keeps to its types, and the values of every array lie within its memory, for
\* every program that builds the tree and gives the flags.
THEOREM TypeCorrect == Spec => []TypeOK
<1>1. IInv => TypeOK
  <2> SUFFICES ASSUME IInv  PROVE TypeOK
    OBVIOUS
  <2>1. \A c \in Commands : child[c] \in Seq(1 .. commands) /\ flag[c] \in Seq(1 .. flags)
    BY DEF IInv, TreeInv
  <2>2. \A v \in Values : IsArray(array[v], Elements \cup {Junk})
    BY DEF IInv, ArrayInv
  <2>3. /\ parent \in [Commands -> 0 .. MaxCommands] /\ value \in [Flags -> Values \cup {NoValue}]
        /\ commands \in 0 .. MaxCommands /\ flags \in 0 .. MaxFlags
    BY DEF IInv, TreeInv
  <2> QED BY <2>1, <2>2, <2>3 DEF IInv, RestInv, TypeOK
<1> QED BY <1>1, InvariantHolds, PTL

\* The first node with a name is the only one.
LEMMA FirstMatch ==
  ASSUME NEW n \in Nat, NEW list \in Seq(1 .. n), NEW label, NEW but,
         Different(list, label, but), NEW k \in DOMAIN list, label[list[k]] \notin but
  PROVE  Lookup(list, label, label[list[k]]) = list[k]
<1> DEFINE ks == {l \in DOMAIN list : label[list[l]] = label[list[k]]}
<1>1. ks = {k}
  BY DEF Different
<1>2. k \in Nat
  BY LenProperties
<1>3. (CHOOSE l \in ks : \A o \in ks : l <= o) = k
  BY <1>1, <1>2
<1>4. Lookup(list, label, label[list[k]])
        = IF ks = {} THEN None ELSE list[CHOOSE l \in ks : \A o \in ks : l <= o]
  BY DEF Lookup
<1> QED BY <1>1, <1>3, <1>4

\* Nothing that was added to the tree is hidden: execute finds each command and each flag
\* by its name, whatever was added before and after, and whatever was refused.
THEOREM AddedNodesAreFound == Spec => []EachFoundByItsName
<1>1. IInv => EachFoundByItsName
  <2> SUFFICES ASSUME IInv, NEW c \in 1 .. commands
               PROVE  /\ \A k \in DOMAIN child[c] :
                           Lookup(child[c], name, name[child[c][k]]) = child[c][k]
                      /\ \A k \in DOMAIN flag[c] :
                           LET f == flag[c][k]
                           IN  /\ fname[f] # "help" /\ Lookup(flag[c], fname, fname[f]) = f
                               /\ short[f] # NoShort =>
                                    short[f] # "h" /\ Lookup(flag[c], short, short[f]) = f
    BY DEF EachFoundByItsName
  <2>1. c \in Commands /\ commands \in Nat /\ flags \in Nat
    BY RegistryAssumption DEF IInv, TreeInv, Commands
  <2>2. child[c] \in Seq(1 .. commands) /\ flag[c] \in Seq(1 .. flags)
    BY <2>1 DEF IInv, TreeInv
  <2>3. /\ Different(child[c], name, {})
        /\ Different(flag[c], fname, {}) /\ Different(flag[c], short, {NoShort})
        /\ \A k \in DOMAIN flag[c] : fname[flag[c][k]] # "help" /\ short[flag[c][k]] # "h"
    BY <2>1, Zenon DEF IInv, NamesInv
  <2>4. ASSUME NEW k \in DOMAIN child[c]
        PROVE  Lookup(child[c], name, name[child[c][k]]) = child[c][k]
    <3>1. name[child[c][k]] \notin {}
      OBVIOUS
    <3> QED BY <2>1, <2>2, <2>3, <3>1, FirstMatch
  <2>5. ASSUME NEW k \in DOMAIN flag[c]
        PROVE  Lookup(flag[c], fname, fname[flag[c][k]]) = flag[c][k]
    <3>1. fname[flag[c][k]] \notin {}
      OBVIOUS
    <3> QED BY <2>1, <2>2, <2>3, <3>1, FirstMatch
  <2>6. ASSUME NEW k \in DOMAIN flag[c], short[flag[c][k]] # NoShort
        PROVE  Lookup(flag[c], short, short[flag[c][k]]) = flag[c][k]
    <3>1. short[flag[c][k]] \notin {NoShort}
      BY <2>6
    <3> QED BY <2>1, <2>2, <2>3, <3>1, FirstMatch
  <2> QED BY <2>3, <2>4, <2>5, <2>6
<1> QED BY <1>1, InvariantHolds, PTL

-----------------------------------------------------------------------------
(* The refinement.                                                         *)

Held(v) == ValuesOf(array[v])
list    == [v \in Values |-> Held(v)]
closed  == phase \in {"destroy", "done"}

\* The arrays the program starts with are the values ArrayFlags starts with.
LEMMA InitRefines ==
  ASSUME Init  PROVE AF!Init
<1>1. value = [f \in Flags |-> NoValue] /\ set = {} /\ closed = FALSE
  <2>1. phase = "create" /\ value = [f \in Flags |-> NoValue] /\ set = {}
    BY DEF Init
  <2> QED BY <2>1 DEF closed
<1>2. ASSUME NEW v \in Values  PROVE Held(v) \in Seq(Elements)
  <2>1. PICK a \in [Values -> Initial] :
          array = [w \in Values |->
                     [p   |-> IF a[w].p = "allocated" THEN Block(w) ELSE <<a[w].p, w>>,
                      cap |-> a[w].cap, len |-> a[w].len, mem |-> a[w].mem]]
    BY DEF Init
  <2>2. IsArray(a[v], Elements)
    BY RegistryAssumption
  <2>3. array[v].len = a[v].len /\ array[v].mem = a[v].mem
    BY <2>1
  <2>4. a[v].mem \in Seq(Elements) /\ a[v].len \in Nat /\ Len(a[v].mem) \in Nat
        /\ a[v].len <= Len(a[v].mem)
    BY <2>2 DEF IsArray
  <2>5. \A k \in 1 .. a[v].len : a[v].mem[k] \in Elements
    BY <2>4, ElementOfSeq
  <2>6. SubSeq(a[v].mem, 1, a[v].len) \in Seq(Elements)
    BY <2>4, <2>5, SubSeqProperties
  <2> QED BY <2>3, <2>6 DEF Held, ValuesOf
<1>3. list \in [Values -> Seq(Elements)]
  BY <1>2 DEF list
<1> QED BY <1>1, <1>3 DEF AF!Init, list, closed, Held

\* A step that changes no array, no variable of a flag and no set.
LEMMA Stutters ==
  ASSUME UNCHANGED <<array, value, set>>, closed' = closed
  PROVE  UNCHANGED <<list, value, set, closed>>
BY DEF list, Held

\* Giving a flag appends, or replaces the default the first time.
LEMMA GivingRefines ==
  ASSUME IInv, NEW f \in Flags, NEW x \in Elements, NEW argc \in 0 .. MaxArgc,
         SetArray(f, x, argc), phase' # "crashed"
  PROVE  AF!Give(f, x)
<1>1. ArrayInv /\ TreeInv
  BY DEF IInv
<1> DEFINE v     == value[f]
           given == f \in set
           a     == array[v]
<1>2. /\ v \in Values /\ set' = set \cup {f} /\ DOMAIN array' = Values
      /\ \A w \in Values \ {v} : array'[w] = array[w]
  BY <1>1, SetArrayStores
<1>3. PICK block : array'[v] = Stored(Grown(a, given, argc, block), x)
  BY <1>1, SetArrayStores
<1>4. IsArray(a, Elements \cup {Junk}) /\ given \in BOOLEAN /\ argc \in Nat
  <2>1. IsArray(a, Elements \cup {Junk})
    BY <1>1, <1>2 DEF ArrayInv
  <2>2. argc \in Nat
    BY RegistryAssumption
  <2> QED BY <2>1, <2>2
<1>5. value' = value /\ phase = "build" /\ phase' = "build"
  BY DEF SetArray, tree
<1> HIDE DEF v, a
<1>6. Held(v)' = NewValues(a, given, x)
  <2> HIDE DEF given
  <2>1. v' = v
    BY <1>5 DEF v
  <2>2. ValuesOf(Stored(Grown(a, given, argc, block), x)) = NewValues(a, given, x)
    BY <1>4, StoredValues
  <2> QED BY <1>3, <2>1, <2>2 DEF Held
<1>7. NewValues(a, given, x) = IF given THEN Append(Held(v), x) ELSE <<x>>
  <2>1. CASE given
    <3>1. Kept(a, given) = a.len
      BY <2>1 DEF Kept
    <3> QED BY <2>1, <3>1 DEF Held, ValuesOf, a, NewValues, KeptValues
  <2>2. CASE ~ given
    <3>1. Kept(a, given) = 0
      BY <2>2 DEF Kept
    <3>2. SubSeq(a.mem, 1, 0) = << >>
      BY SubSeqEmpty
    <3>3. Append(<< >>, x) = <<x>>
      OBVIOUS
    <3> QED BY <2>2, <3>1, <3>2, <3>3 DEF NewValues, KeptValues
  <2> QED BY <2>1, <2>2
<1>8. list' = [list EXCEPT ![v] = IF given THEN Append(Held(v), x) ELSE <<x>>]
  <2>1. v' = v
    BY <1>5 DEF v
  <2>2. ASSUME NEW w \in Values, w # v  PROVE ValuesOf(array'[w]) = Held(w)
    BY <1>2, <2>2 DEF Held
  <2> DEFINE new == IF given THEN Append(Held(v), x) ELSE <<x>>
  <2>3. ValuesOf(array'[v]) = new
    BY <1>6, <1>7, <2>1 DEF Held
  <2> HIDE DEF new
  <2>4. list' = [w \in Values |-> ValuesOf(array'[w])]
    BY DEF list, Held
  <2>5. list = [w \in Values |-> Held(w)]
    BY DEF list
  <2>6. [list EXCEPT ![v] = new] = [w \in Values |-> IF w = v THEN new ELSE Held(w)]
    BY <1>2, <2>5
  <2>7. \A w \in Values : ValuesOf(array'[w]) = IF w = v THEN new ELSE Held(w)
    BY <2>2, <2>3
  <2> QED BY <2>4, <2>6, <2>7 DEF new
<1>9. Held(v) = list[v]
  BY <1>2 DEF list
<1> QED BY <1>2, <1>5, <1>8, <1>9 DEF AF!Give, list, Held, closed, v

\* Every step is one of ArrayFlags or a stutter.
LEMMA StepRefines ==
  ASSUME IInv, [Next]_vars  PROVE [AF!Next]_AF!vars
<1> DEFINE Stutter == UNCHANGED <<list, value, set, closed>>
<1>1. ASSUME Stutter  PROVE [AF!Next]_AF!vars
  BY <1>1 DEF AF!vars, list, Held, closed
<1>2. ASSUME UNCHANGED <<array, value, set>>, closed' = closed  PROVE Stutter
  BY <1>2, Stutters
<1> HIDE DEF Stutter
<1>3. CASE UNCHANGED vars
  BY <1>1, <1>2, <1>3 DEF vars, tree, closed
<1>4. CASE \E n \in CommandNames : CommandCreate(n)
  BY <1>1, <1>2, <1>4 DEF CommandCreate, Refuse, NewCommand, tree, closed
<1>5. CASE \E c \in 1 .. commands, n \in CommandNames : AddCommand(c, n)
  BY <1>1, <1>2, <1>5 DEF AddCommand, Refuse, NewCommand, tree, closed
<1>6. ASSUME NEW c, NEW n, NEW sh, NEW t, NEW v \in Values \cup {NoValue}, AddFlag(c, n, sh, t, v)
      PROVE  [AF!Next]_AF!vars
  <2>1. CASE Refuse
    BY <1>1, <1>2, <2>1 DEF Refuse, tree, closed
  <2>2. CASE ~ Refuse
    <3>1. /\ value' = [value EXCEPT ![flags + 1] = v] /\ flags < MaxFlags
          /\ phase = "build" /\ phase' = "build" /\ UNCHANGED <<array, set>>
      BY <1>6, <2>2 DEF AddFlag
    <3>2. flags + 1 \in Flags /\ value[flags + 1] = NoValue
          /\ value = [f \in Flags |-> value[f]]
      BY <3>1, RegistryAssumption DEF IInv, TreeInv, Flags
    <3>3. UNCHANGED <<list, set, closed>> /\ closed = FALSE
      BY <3>1 DEF list, Held, closed
    <3>4. CASE v = NoValue
      <4>1. value' = value
        BY <3>1, <3>2, <3>4
      <4> QED BY <1>1, <1>2, <3>1, <3>3, <4>1
    <3>5. CASE v \in Values
      <4>1. AF!Add(flags + 1, v)
        BY <3>1, <3>2, <3>3 DEF AF!Add, list, Held, closed
      <4> QED BY <3>2, <3>5, <4>1 DEF AF!Next
    <3> QED BY <3>4, <3>5
  <2> QED BY <2>1, <2>2
<1>7. ASSUME NEW f \in Flags, NEW x \in Elements, NEW argc \in 0 .. MaxArgc, SetArray(f, x, argc)
      PROVE  [AF!Next]_AF!vars
  <2>1. CASE phase' = "crashed"
    <3>1. phase = "build" /\ value' = value /\ array' = array /\ set' = set
      <4>1. phase = "build" /\ value' = value
        BY <1>7 DEF SetArray, tree
      <4>2. array' = array /\ set' = set
        BY <1>7, <2>1, <4>1, Zenon DEF SetArray
      <4> QED BY <4>1, <4>2
    <3> QED BY <1>1, <1>2, <2>1, <3>1 DEF closed
  <2>2. CASE phase' # "crashed"
    BY <1>7, <2>2, GivingRefines DEF AF!Next
  <2> QED BY <2>1, <2>2
<1>8. CASE Destroy
  <2>1. /\ phase = "build" /\ phase' = "destroy" /\ UNCHANGED <<array, value, set>>
    BY <1>8 DEF Destroy, tree
  <2>2. AF!Close
    BY <2>1 DEF AF!Close
  <2> QED BY <2>2 DEF AF!Next
<1>9. CASE VisitNext \/ VisitChild \/ FreeCommand
  <2>1. /\ phase = "destroy" /\ phase' \in {"destroy", "done"} /\ UNCHANGED <<array, value, set>>
    BY <1>9 DEF VisitNext, VisitChild, FreeCommand, tree
  <2> QED BY <1>1, <1>2, <2>1 DEF closed
<1>10. CASE FreeFlag
  <2>1. /\ phase = "destroy" /\ phase' = phase /\ UNCHANGED <<value, set>>
    BY <1>10 DEF FreeFlag, tree
  <2>2. CASE array' = array
    BY <1>1, <1>2, <2>1, <2>2 DEF closed
  <2>3. ASSUME NEW v \in Values, array' = [array EXCEPT ![v] = Emptied(array[v])]
        PROVE  AF!Release(v)
    <3>1. DOMAIN array = Values
      BY DEF IInv, ArrayInv
    <3>2. ValuesOf(Emptied(array[v])) = << >>
      BY EmptiedIsAnArray
    <3> DEFINE em == Emptied(array[v])
    <3>3. ValuesOf(em) = << >> /\ array' = [array EXCEPT ![v] = em]
      BY <2>3, <3>2
    <3> HIDE DEF em
    <3>4. \A w \in Values : array'[w] = IF w = v THEN em ELSE array[w]
      BY <3>1, <3>3
    <3>5. \A w \in Values : ValuesOf(array'[w]) = IF w = v THEN << >> ELSE ValuesOf(array[w])
      BY <3>3, <3>4
    <3>6. [w \in Values |-> ValuesOf(array'[w])]
            = [[w \in Values |-> ValuesOf(array[w])] EXCEPT ![v] = << >>]
      BY <3>5
    <3> QED BY <2>1, <3>6 DEF AF!Release
  <2> QED BY <1>10, <2>2, <2>3, FreeFlagEmpties DEF AF!Next, IInv
<1> QED BY <1>3, <1>4, <1>5, <1>6, <1>7, <1>8, <1>9, <1>10 DEF Next, GrowthFails

\* What is reallocated, copied, shared or emptied never shows: the registry implements the
\* array flags, for every chunk size, every argc and any number of variables and flags.
THEOREM RefinesArrayFlags == Spec => ImplementsArrayFlags
<1>1. Init => AF!Init
  BY InitRefines
<1>2. IInv /\ [Next]_vars => [AF!Next]_AF!vars
  BY StepRefines
<1> QED BY <1>1, <1>2, InvariantHolds, PTL DEF Spec, AF!Spec, ImplementsArrayFlags
=============================================================================
