-------------------------- MODULE FlagsDestroyProofs --------------------------
(***************************************************************************)
(* What command_destroy frees, for every tree: each command, each flag and *)
(* each array of a flag, once, while nothing that was freed is used.       *)
(***************************************************************************)
EXTENDS FlagsRegistryProofs, WellFoundedInduction

\* Nodes are appended as they are made: a command comes after its parent and after the
\* commands before it in its list, and a flag is in one list, once.
ParentsInv  == \A c \in 1 .. commands : IF c = root THEN parent[c] = None ELSE parent[c] \in 1 .. c - 1
ChildrenInv == \A p \in Commands : \A k \in DOMAIN child[p] : parent[child[p][k]] = p
OrderInv    == \A p \in Commands : \A j, k \in DOMAIN child[p] : j < k => child[p][j] < child[p][k]
OnceInv     == \A c, d \in Commands : \A j \in DOMAIN flag[c], k \in DOMAIN flag[d] :
                 flag[c][j] = flag[d][k] => c = d /\ j = k
ListedInv   == \A f \in 1 .. flags : \E c \in 1 .. commands : \E k \in DOMAIN flag[c] : flag[c][k] = f
ShapeInv == ParentsInv /\ ChildrenInv /\ OrderInv /\ OnceInv /\ ListedInv

\* The two commands a call of command_destroy calls itself for.
nextOf  == [c \in 1 .. commands |-> NextOf(c)]
childOf == [c \in 1 .. commands |-> ChildOf(c)]
Succ(c, n) == nextOf[c] = n \/ childOf[c] = n

\* A command that is freed; that the recursion has not come to; and one, or none, that is.
Freed(c)     == CommandNode(c) \notin held
OnStack(c)   == \E k \in DOMAIN stack : stack[k].c = c
Untouched(c) == ~ Freed(c) /\ ~ OnStack(c)
NoneOrFreed(c)     == c = None \/ Freed(c)
NoneOrUntouched(c) == c = None \/ Untouched(c)

\* Frame k of the stack: what it has called is freed, what it will call has not been
\* touched, and what it is calling is the frame after it.
Calls(k, c) == IF k = Len(stack) THEN NoneOrFreed(c) ELSE stack[k + 1].c = c
FrameInv(k) ==
  LET c  == stack[k].c
      at == stack[k].at
  IN  /\ ~ Freed(c)
      /\ at = "next"  => k = Len(stack) /\ NoneOrUntouched(nextOf[c])
      /\ at # "flags" => NoneOrUntouched(childOf[c])
      /\ at = "child" => Calls(k, nextOf[c])
      /\ at = "flags" => NoneOrFreed(nextOf[c]) /\ Calls(k, childOf[c])

FramesInv   == \A k \in DOMAIN stack : FrameInv(k)
OnceOnStack == \A j, k \in DOMAIN stack : stack[j].c = stack[k].c => j = k
\* Nothing is freed before what it calls for, or begun after it.
ClosedInv   == \A c, n \in 1 .. commands :
                 Succ(c, n) => (Freed(c) => Freed(n)) /\ (Untouched(c) => Untouched(n))
StagesInv ==
  /\ stack # << >> => stack[1].c = root
  /\ phase \in {"create", "build", "crashed"} => \A c \in 1 .. commands : ~ Freed(c)
  /\ phase = "done" => stack = << >> /\ Freed(root)
RecursionInv == FramesInv /\ OnceOnStack /\ ClosedInv /\ StagesInv

\* The flags of a command go with it: those of a frame are freed but for the ones left.
FlagHeld(f)   == FlagNode(f) \in held
Home(c, f)    == \E k \in DOMAIN flag[c] : flag[c][k] = f
Left(k, f)    == \E j \in DOMAIN stack[k].left : stack[k].left[j] = f
FlagsOfInv(c) == \A f \in 1 .. flags : Home(c, f) =>
                   (Untouched(c) => FlagHeld(f)) /\ (Freed(c) => ~ FlagHeld(f))
FlagsLeftInv(k) ==
  /\ \A f \in 1 .. flags : Home(stack[k].c, f) => (FlagHeld(f) <=> Left(k, f))
  /\ \A j \in DOMAIN stack[k].left : Home(stack[k].c, stack[k].left[j])
  /\ \A i, j \in DOMAIN stack[k].left : stack[k].left[i] = stack[k].left[j] => i = j
FlagsInv == /\ \A c \in 1 .. commands : FlagsOfInv(c)
            /\ \A k \in DOMAIN stack : FlagsLeftInv(k)

\* Memory of the arrays: each variable has a block of its own as long as cap is not 0, and
\* what is held is a node of the tree or such a block.
Owner(v) == array[v].cap > 0
OwnersInv ==
  \A v \in Values : /\ array[v].p[1] = "array" <=> Owner(v)
                    /\ Owner(v) => array[v].p \in held /\ \E b \in 1 .. blocks : array[v].p = Block(b)
UnusedInv  == \A v \in Values : (\A f \in 1 .. flags : value[f] # v) /\ Owner(v) => array[v].p = Block(v)
ApartInv   == \A v, w \in Values : Owner(v) /\ Owner(w) /\ array[v].p = array[w].p => v = w
AccountInv == \A b \in held : \/ \E c \in 1 .. commands : b = CommandNode(c)
                              \/ \E f \in 1 .. flags : b = FlagNode(f)
                              \/ \E v \in Values : Owner(v) /\ b = array[v].p
EmptiedInv == \A f \in 1 .. flags : ~ FlagHeld(f) /\ value[f] # NoValue => ~ Owner(value[f])
BlocksInv  == OwnersInv /\ UnusedInv /\ ApartInv /\ AccountInv /\ EmptiedInv /\ blocks >= Cardinality(Values)

MemoryInv == ShapeInv /\ RecursionInv /\ FlagsInv /\ BlocksInv /\ faults = {}

-----------------------------------------------------------------------------
(* The shape of the tree.                                                  *)

\* What the types give for one command.
LEMMA ListFacts ==
  ASSUME TreeInv, NEW c \in Commands
  PROVE  /\ Len(child[c]) \in Nat /\ DOMAIN child[c] = 1 .. Len(child[c])
         /\ \A k \in DOMAIN child[c] : child[c][k] \in 1 .. commands
         /\ Len(flag[c]) \in Nat /\ DOMAIN flag[c] = 1 .. Len(flag[c])
         /\ \A k \in DOMAIN flag[c] : flag[c][k] \in 1 .. flags
<1>1. child[c] \in Seq(1 .. commands) /\ flag[c] \in Seq(1 .. flags)
  BY DEF TreeInv
<1> QED BY <1>1, LenProperties, ElementOfSeq

\* Numbers of nodes.
LEMMA NodeNumbers ==
  ASSUME TreeInv
  PROVE  /\ commands \in Nat /\ flags \in Nat /\ MaxCommands \in Nat /\ MaxFlags \in Nat
         /\ 1 .. commands \subseteq Commands /\ 1 .. flags \subseteq Flags
  BY RegistryAssumption DEF TreeInv, Commands, Flags

\* There are no nodes yet.
LEMMA InitShape ==
  ASSUME Init  PROVE ShapeInv
<1>1. commands = 0 /\ flags = 0 /\ \A p \in Commands : child[p] = << >> /\ flag[p] = << >>
  BY DEF Init
<1>2. DOMAIN << >> = {}
  OBVIOUS
<1>3. \A p \in Commands : DOMAIN child[p] = {} /\ DOMAIN flag[p] = {}
  BY <1>1, <1>2
<1> QED BY <1>1, <1>3 DEF ShapeInv, ParentsInv, ChildrenInv, OrderInv, OnceInv, ListedInv

\* A new command at the end of the list of its parent.
LEMMA CommandShape ==
  ASSUME TreeInv, ShapeInv, NEW c, NEW n, NewCommand(c, n), commands < MaxCommands,
         \/ c = None /\ commands = 0 /\ UNCHANGED child
         \/ /\ c \in 1 .. commands
            /\ child' = [child EXCEPT ![c] = Append(@, commands + 1)]
  PROVE  ShapeInv'
<1> DEFINE new == commands + 1
<1>0. /\ commands \in Nat /\ new \in Commands /\ commands' = new /\ flags' = flags /\ flag' = flag
      /\ parent' = [parent EXCEPT ![new] = c] /\ parent = [d \in Commands |-> parent[d]]
      /\ child \in [Commands -> Seq(1 .. commands)] /\ 1 .. commands \subseteq Commands
  BY NodeNumbers, RegistryAssumption DEF NewCommand, TreeInv, Commands
<1>1. parent'[new] = c /\ \A d \in Commands : d # new => parent'[d] = parent[d]
  BY <1>0
<1>2. \A d \in 1 .. commands : parent'[d] = parent[d]
  BY <1>0, <1>1
<1>3. \A p \in Commands :
        \/ p # c /\ child'[p] = child[p]
        \/ /\ p = c
           /\ DOMAIN child'[p] = 1 .. Len(child[p]) + 1
           /\ child'[p][Len(child[p]) + 1] = new
           /\ \A k \in DOMAIN child[p] : child'[p][k] = child[p][k]
  <2>1. CASE c = None
    BY <2>1, <1>0 DEF None, Commands
  <2>2. CASE c # None
    <3>1. child' = [child EXCEPT ![c] = Append(child[c], new)] /\ c \in Commands
      BY <2>2, <1>0
    <3>2. child'[c] = Append(child[c], new) /\ child[c] \in Seq(1 .. commands)
      BY <3>1, <1>0
    <3>3. \A p \in Commands : p # c => child'[p] = child[p]
      BY <3>1, <1>0
    <3>4. /\ DOMAIN child'[c] = 1 .. Len(child[c]) + 1
          /\ child'[c][Len(child[c]) + 1] = new
          /\ \A k \in DOMAIN child[c] : child'[c][k] = child[c][k]
      BY <3>2, <1>0, Extended
    <3> QED BY <3>3, <3>4
  <2> QED BY <2>1, <2>2
<1> HIDE DEF new
<1>4. new = commands + 1
  BY DEF new
<1>5. \A d \in 1 .. commands' : IF d = root THEN parent'[d] = None ELSE parent'[d] \in 1 .. d - 1
  <2> SUFFICES ASSUME NEW d \in 1 .. commands'
               PROVE  IF d = root THEN parent'[d] = None ELSE parent'[d] \in 1 .. d - 1
    OBVIOUS
  <2>1. CASE d \in 1 .. commands
    BY <2>1, <1>2 DEF ShapeInv, ParentsInv
  <2>2. CASE d = new
    BY <2>2, <1>0, <1>1, <1>4 DEF root
  <2> QED BY <2>1, <2>2, <1>0, <1>4
<1>6. \A p \in Commands : \A k \in DOMAIN child'[p] : parent'[child'[p][k]] = p
  <2> SUFFICES ASSUME NEW p \in Commands, NEW k \in DOMAIN child'[p]
               PROVE  parent'[child'[p][k]] = p
    OBVIOUS
  <2>1. Len(child[p]) \in Nat /\ DOMAIN child[p] = 1 .. Len(child[p])
        /\ \A j \in DOMAIN child[p] : child[p][j] \in 1 .. commands /\ parent[child[p][j]] = p
    BY ListFacts DEF ShapeInv, ChildrenInv
  <2>2. CASE k \in DOMAIN child[p]
    <3>1. child'[p][k] = child[p][k]
      BY <2>2, <1>3
    <3> QED BY <3>1, <2>1, <2>2, <1>2
  <2>3. CASE k \notin DOMAIN child[p]
    <3>1. p = c /\ k = Len(child[p]) + 1 /\ child'[p][k] = new
      BY <2>1, <2>3, <1>3
    <3> QED BY <3>1, <1>1
  <2> QED BY <2>2, <2>3
<1>7. \A p \in Commands : \A j, k \in DOMAIN child'[p] : j < k => child'[p][j] < child'[p][k]
  <2> SUFFICES ASSUME NEW p \in Commands, NEW j \in DOMAIN child'[p], NEW k \in DOMAIN child'[p], j < k
               PROVE  child'[p][j] < child'[p][k]
    OBVIOUS
  <2>1. Len(child[p]) \in Nat /\ DOMAIN child[p] = 1 .. Len(child[p])
        /\ \A i \in DOMAIN child[p] : child[p][i] \in 1 .. commands
    BY ListFacts
  <2>2. CASE k \in DOMAIN child[p]
    <3>1. j \in DOMAIN child[p]
      BY <2>1, <2>2, <1>3
    <3>2. child'[p][j] = child[p][j] /\ child'[p][k] = child[p][k]
      BY <2>2, <3>1, <1>3
    <3> QED BY <2>2, <3>1, <3>2 DEF ShapeInv, OrderInv
  <2>3. CASE k \notin DOMAIN child[p]
    <3>1. child'[p][k] = new /\ k = Len(child[p]) + 1 /\ DOMAIN child'[p] = 1 .. Len(child[p]) + 1
      BY <2>1, <2>3, <1>3
    <3>2. j \in DOMAIN child[p]
      BY <2>1, <3>1
    <3>3. child'[p][j] = child[p][j]
      BY <3>2, <1>3
    <3> QED BY <2>1, <3>1, <3>2, <3>3, <1>0, <1>4
  <2> QED BY <2>2, <2>3
<1>8. OnceInv' /\ ListedInv'
  <2>1. 1 .. commands \subseteq 1 .. commands'
    BY <1>0, <1>4
  <2>2. OnceInv /\ ListedInv /\ flag' = flag /\ flags' = flags
    BY <1>0 DEF ShapeInv
  <2>3. OnceInv'
    BY <2>2 DEF OnceInv
  <2>4. ListedInv'
    BY <2>1, <2>2 DEF ListedInv
  <2> QED BY <2>3, <2>4
<1> QED BY <1>5, <1>6, <1>7, <1>8 DEF ShapeInv, ParentsInv, ChildrenInv, OrderInv

\* A new flag at the end of the list of its command.
LEMMA FlagShape ==
  ASSUME TreeInv, ShapeInv, NEW c \in 1 .. commands, flags < MaxFlags,
         flags' = flags + 1, flag' = [flag EXCEPT ![c] = Append(@, flags + 1)],
         UNCHANGED <<commands, parent, child>>
  PROVE  ShapeInv'
<1> DEFINE new == flags + 1
<1>0. /\ flags \in Nat /\ c \in Commands /\ flag \in [Commands -> Seq(1 .. flags)]
      /\ 1 .. commands \subseteq Commands /\ commands' = commands
  BY NodeNumbers DEF TreeInv
<1>1. \A p \in Commands : p # c => flag'[p] = flag[p]
  BY <1>0
<1>2. /\ DOMAIN flag'[c] = 1 .. Len(flag[c]) + 1 /\ DOMAIN flag[c] = 1 .. Len(flag[c])
      /\ Len(flag[c]) \in Nat
      /\ flag'[c][Len(flag[c]) + 1] = new
      /\ \A k \in DOMAIN flag[c] : flag'[c][k] = flag[c][k]
  <2>1. flag'[c] = Append(flag[c], new) /\ flag[c] \in Seq(1 .. flags)
    BY <1>0
  <2> QED BY <2>1, <1>0, Extended
<1> HIDE DEF new
<1>3. new = flags + 1
  BY DEF new
<1>4. \A p \in Commands : \A k \in DOMAIN flag'[p] :
        \/ k \in DOMAIN flag[p] /\ flag'[p][k] = flag[p][k] /\ flag[p][k] \in 1 .. flags
        \/ p = c /\ k = Len(flag[c]) + 1 /\ flag'[p][k] = new
  <2> SUFFICES ASSUME NEW p \in Commands, NEW k \in DOMAIN flag'[p]
               PROVE  \/ k \in DOMAIN flag[p] /\ flag'[p][k] = flag[p][k] /\ flag[p][k] \in 1 .. flags
                      \/ p = c /\ k = Len(flag[c]) + 1 /\ flag'[p][k] = new
    OBVIOUS
  <2>1. \A j \in DOMAIN flag[p] : flag[p][j] \in 1 .. flags
    BY ListFacts
  <2>2. CASE p # c
    BY <2>1, <2>2, <1>1
  <2>3. CASE p = c /\ k \in DOMAIN flag[c]
    BY <2>1, <2>3, <1>2
  <2>4. CASE p = c /\ k \notin DOMAIN flag[c]
    BY <2>4, <1>2
  <2> QED BY <2>2, <2>3, <2>4
<1>5. \A d, e \in Commands : \A j \in DOMAIN flag'[d], k \in DOMAIN flag'[e] :
        flag'[d][j] = flag'[e][k] => d = e /\ j = k
  <2> SUFFICES ASSUME NEW d \in Commands, NEW e \in Commands,
                      NEW j \in DOMAIN flag'[d], NEW k \in DOMAIN flag'[e],
                      flag'[d][j] = flag'[e][k]
               PROVE  d = e /\ j = k
    OBVIOUS
  <2>1. \/ j \in DOMAIN flag[d] /\ flag'[d][j] = flag[d][j] /\ flag[d][j] \in 1 .. flags
        \/ d = c /\ j = Len(flag[c]) + 1 /\ flag'[d][j] = new
    BY <1>4
  <2>2. \/ k \in DOMAIN flag[e] /\ flag'[e][k] = flag[e][k] /\ flag[e][k] \in 1 .. flags
        \/ e = c /\ k = Len(flag[c]) + 1 /\ flag'[e][k] = new
    BY <1>4
  <2>3. new \notin 1 .. flags
    BY <1>0, <1>3
  <2> QED BY <2>1, <2>2, <2>3 DEF ShapeInv, OnceInv
<1>6. \A f \in 1 .. flags' : \E d \in 1 .. commands' : \E k \in DOMAIN flag'[d] : flag'[d][k] = f
  <2> SUFFICES ASSUME NEW f \in 1 .. flags'
               PROVE  \E d \in 1 .. commands : \E k \in DOMAIN flag'[d] : flag'[d][k] = f
    BY <1>0
  <2>1. CASE f \in 1 .. flags
    <3>1. PICK d \in 1 .. commands : \E k \in DOMAIN flag[d] : flag[d][k] = f
      BY <2>1 DEF ShapeInv, ListedInv
    <3>2. PICK k \in DOMAIN flag[d] : flag[d][k] = f
      BY <3>1
    <3>3. k \in DOMAIN flag'[d] /\ flag'[d][k] = f
      <4>1. CASE d # c
        BY <4>1, <3>2, <1>0, <1>1
      <4>2. CASE d = c
        BY <4>2, <3>2, <1>2
      <4> QED BY <4>1, <4>2
    <3> QED BY <3>3
  <2>2. CASE f = new
    <3>1. Len(flag[c]) + 1 \in DOMAIN flag'[c]
      BY <1>2
    <3> QED BY <2>2, <3>1, <1>2
  <2> QED BY <2>1, <2>2, <1>0, <1>3
<1>7. ParentsInv' /\ ChildrenInv' /\ OrderInv'
  <2>1. ParentsInv /\ ChildrenInv /\ OrderInv /\ parent' = parent /\ child' = child /\ commands' = commands
    BY DEF ShapeInv
  <2> QED BY <2>1 DEF ParentsInv, ChildrenInv, OrderInv
<1> QED BY <1>5, <1>6, <1>7 DEF ShapeInv, OnceInv, ListedInv

\* What keeps the tree in shape: nodes are only appended.
LEMMA StepShape ==
  ASSUME IInv, ShapeInv, [Next]_vars  PROVE ShapeInv'
<1>1. TreeInv
  BY DEF IInv
<1>2. ASSUME UNCHANGED <<commands, flags, parent, child, flag>>  PROVE ShapeInv'
  <2>1. commands' = commands /\ flags' = flags /\ parent' = parent /\ child' = child /\ flag' = flag
    BY <1>2
  <2>2. ParentsInv' /\ ChildrenInv' /\ OrderInv' /\ OnceInv' /\ ListedInv'
    BY <2>1 DEF ShapeInv, ParentsInv, ChildrenInv, OrderInv, OnceInv, ListedInv
  <2> QED BY <2>2 DEF ShapeInv
<1>3. ASSUME NEW n, CommandCreate(n), ~ Refuse  PROVE ShapeInv'
  <2>1. NewCommand(None, n) /\ phase = "create" /\ UNCHANGED child
    BY <1>3 DEF CommandCreate
  <2>2. commands = 0 /\ commands < MaxCommands
    BY <1>1, <2>1, RegistryAssumption DEF TreeInv
  <2> QED BY <1>1, <2>1, <2>2, CommandShape
<1>4. ASSUME NEW c \in 1 .. commands, NEW n, AddCommand(c, n), ~ Refuse  PROVE ShapeInv'
  <2>1. NewCommand(c, n) /\ commands < MaxCommands
        /\ child' = [child EXCEPT ![c] = Append(@, commands + 1)]
    BY <1>4 DEF AddCommand
  <2> QED BY <1>1, <2>1, CommandShape
<1>5. ASSUME NEW c \in 1 .. commands, NEW n, NEW sh, NEW t, NEW v, AddFlag(c, n, sh, t, v), ~ Refuse
      PROVE  ShapeInv'
  <2>1. flags < MaxFlags /\ flags' = flags + 1 /\ flag' = [flag EXCEPT ![c] = Append(@, flags + 1)]
        /\ UNCHANGED <<commands, parent, child>>
    BY <1>5 DEF AddFlag
  <2> QED BY <1>1, <2>1, FlagShape
<1>6. CASE Refuse \/ UNCHANGED vars
  BY <1>2, <1>6 DEF Refuse, vars, tree
<1>7. ASSUME NEW f, NEW x, NEW argc, SetArray(f, x, argc)  PROVE ShapeInv'
  BY <1>2, <1>7 DEF SetArray, tree
<1>8. CASE Destroy \/ VisitNext \/ VisitChild \/ FreeFlag \/ FreeCommand
  BY <1>2, <1>8 DEF Destroy, VisitNext, VisitChild, FreeFlag, FreeCommand, tree
<1> QED BY <1>3, <1>4, <1>5, <1>6, <1>7, <1>8 DEF Next, GrowthFails

-----------------------------------------------------------------------------
(* The commands command_destroy calls itself for make a binary tree.       *)

\* What NextOf finds: the node after c in the list of its parent.
LEMMA NextIsBehind ==
  ASSUME TreeInv, FamilyInv, ShapeInv, NEW c \in 1 .. commands, NextOf(c) # None
  PROVE  \E p \in Commands : \E k \in DOMAIN child[p] :
           k + 1 \in DOMAIN child[p] /\ child[p][k] = c /\ child[p][k + 1] = NextOf(c)
<1>1. parent[c] # None
  BY DEF NextOf
<1> DEFINE p    == parent[c]
           siblings == child[p]
           k    == CHOOSE j \in DOMAIN siblings : siblings[j] = c
<1>2. p \in Commands /\ \E j \in DOMAIN siblings : siblings[j] = c
  BY <1>1 DEF FamilyInv
<1>3. k \in DOMAIN siblings /\ siblings[k] = c
  BY <1>2
<1>4. NextOf(c) = IF k < Len(siblings) THEN siblings[k + 1] ELSE None
  BY <1>1 DEF NextOf
<1> HIDE DEF k
<1>5. Len(siblings) \in Nat /\ DOMAIN siblings = 1 .. Len(siblings)
  BY <1>2, ListFacts
<1>6. k < Len(siblings) /\ NextOf(c) = siblings[k + 1]
  BY <1>4
<1>7. k + 1 \in DOMAIN siblings
  BY <1>3, <1>5, <1>6
<1> QED BY <1>2, <1>3, <1>6, <1>7

\* And it finds it: a command is in one place only.
LEMMA BehindIsNext ==
  ASSUME TreeInv, FamilyInv, ShapeInv, NEW p \in Commands, NEW k \in DOMAIN child[p],
         k + 1 \in DOMAIN child[p]
  PROVE  NextOf(child[p][k]) = child[p][k + 1]
<1> DEFINE c    == child[p][k]
           siblings == child[p]
           i    == CHOOSE j \in DOMAIN siblings : siblings[j] = c
<1>1. p # None /\ parent[c] = p
  BY NodeNumbers DEF ShapeInv, ChildrenInv, Commands, None
<1>2. Len(siblings) \in Nat /\ DOMAIN siblings = 1 .. Len(siblings)
      /\ \A j \in DOMAIN siblings : siblings[j] \in 1 .. commands
  BY ListFacts
<1>3. \A j \in DOMAIN siblings : siblings[j] = c => j = k
  <2> SUFFICES ASSUME NEW j \in DOMAIN siblings, siblings[j] = c  PROVE j = k
    OBVIOUS
  <2>1. (j < k => siblings[j] < siblings[k]) /\ (k < j => siblings[k] < siblings[j])
    BY DEF ShapeInv, OrderInv
  <2>2. siblings[k] \in 1 .. commands /\ commands \in Nat
    BY <1>2, NodeNumbers
  <2>3. ~ (siblings[k] < siblings[k])
    BY <2>2
  <2> QED BY <2>1, <2>3, <1>2
<1>4. i = k
  BY <1>3
<1>5. NextOf(c) = IF i < Len(siblings) THEN siblings[i + 1] ELSE None
  BY <1>1 DEF NextOf
<1> HIDE DEF i
<1>6. k < Len(siblings)
  BY <1>2
<1> QED BY <1>4, <1>5, <1>6

\* The first child of a command is what command_destroy calls itself for.
LEMMA FirstIsChild ==
  ASSUME TreeInv, ShapeInv, NEW c \in 1 .. commands, ChildOf(c) # None
  PROVE  1 \in DOMAIN child[c] /\ child[c][1] = ChildOf(c) /\ parent[ChildOf(c)] = c
<1>1. child[c] # << >> /\ ChildOf(c) = child[c][1]
  BY DEF ChildOf
<1>2. c \in Commands /\ child[c] \in Seq(1 .. commands)
  BY NodeNumbers DEF TreeInv
<1>3. 1 \in DOMAIN child[c]
  BY <1>1, <1>2, EmptySeq
<1>4. parent[child[c][1]] = c
  BY <1>2, <1>3 DEF ShapeInv, ChildrenInv
<1> QED BY <1>1, <1>3, <1>4

\* Each command but the root is called for from one other, made before it, by one of the two
\* calls: so the recursion comes to all commands, to each once.
BinaryTree ==
  /\ nextOf \in [1 .. commands -> 1 .. commands \cup {None}]
  /\ childOf \in [1 .. commands -> 1 .. commands \cup {None}]
  /\ root \in 1 .. commands => nextOf[root] = None
  /\ \A c, n \in 1 .. commands : Succ(c, n) => c < n
  /\ \A c, d, n \in 1 .. commands : Succ(c, n) /\ Succ(d, n) => c = d
  /\ \A c, n \in 1 .. commands : ~ (nextOf[c] = n /\ childOf[c] = n)
  /\ \A n \in 1 .. commands : n # root => \E c \in 1 .. commands : Succ(c, n)

\* The calls of command_destroy run over a binary tree of the commands.
LEMMA DestroyVisitsATree ==
  ASSUME IInv, ShapeInv  PROVE BinaryTree
<1>0. TreeInv /\ FamilyInv
  BY DEF IInv
<1>n. /\ commands \in Nat /\ MaxCommands \in Nat /\ 1 .. commands \subseteq Commands
      /\ \A n \in 1 .. commands : n # None
      /\ \A n \in Commands : n # None
  BY <1>0, NodeNumbers DEF None, Commands
<1>1. \A c \in 1 .. commands : NextOf(c) \in 1 .. commands \cup {None}
                               /\ ChildOf(c) \in 1 .. commands \cup {None}
  BY <1>0, NextIsACommand, ChildIsACommand
<1>2. root \in 1 .. commands => NextOf(root) = None
  BY DEF ShapeInv, ParentsInv, NextOf
<1>s. \A c \in 1 .. commands : nextOf[c] = NextOf(c) /\ childOf[c] = ChildOf(c)
  BY DEF nextOf, childOf
\* A node is behind one other at most, or it is the first of one list.
<1>3. ASSUME NEW c \in 1 .. commands, NEW n \in 1 .. commands, NextOf(c) = n
      PROVE  \E k \in DOMAIN child[parent[n]] :
               /\ parent[n] \in Commands /\ k + 1 \in DOMAIN child[parent[n]]
               /\ child[parent[n]][k] = c /\ child[parent[n]][k + 1] = n
  <2>1. PICK p \in Commands : \E k \in DOMAIN child[p] :
           k + 1 \in DOMAIN child[p] /\ child[p][k] = c /\ child[p][k + 1] = NextOf(c)
    BY <1>0, <1>3, <1>n, NextIsBehind
  <2>2. PICK k \in DOMAIN child[p] :
           k + 1 \in DOMAIN child[p] /\ child[p][k] = c /\ child[p][k + 1] = NextOf(c)
    BY <2>1
  <2>3. parent[n] = p
    BY <1>3, <2>2 DEF ShapeInv, ChildrenInv
  <2> QED BY <1>3, <2>2, <2>3
<1>4. ASSUME NEW c \in 1 .. commands, NEW n \in 1 .. commands, ChildOf(c) = n
      PROVE  parent[n] = c /\ c \in Commands /\ 1 \in DOMAIN child[c] /\ child[c][1] = n
  BY <1>0, <1>4, <1>n, FirstIsChild
<1>5. ASSUME NEW p \in Commands, NEW j \in DOMAIN child[p], NEW k \in DOMAIN child[p],
             child[p][j] = child[p][k]
      PROVE  j = k
  <2>1. j \in Nat /\ k \in Nat /\ child[p][j] \in 1 .. commands /\ child[p][k] \in 1 .. commands
    BY <1>0, ListFacts
  <2>2. (j < k => child[p][j] < child[p][k]) /\ (k < j => child[p][k] < child[p][j])
    BY DEF ShapeInv, OrderInv
  <2> QED BY <1>5, <2>1, <2>2
<1>6. ASSUME NEW c \in 1 .. commands, NEW n \in 1 .. commands, Succ(c, n)  PROVE c < n
  <2>1. CASE NextOf(c) = n
    <3>1. PICK k \in DOMAIN child[parent[n]] :
             /\ parent[n] \in Commands /\ k + 1 \in DOMAIN child[parent[n]]
             /\ child[parent[n]][k] = c /\ child[parent[n]][k + 1] = n
      BY <2>1, <1>3
    <3>2. k < k + 1
      BY <1>0, <3>1, ListFacts
    <3> QED BY <3>1, <3>2 DEF ShapeInv, OrderInv
  <2>2. CASE ChildOf(c) = n
    <3>1. parent[n] = c /\ c # None
      BY <2>2, <1>4, <1>n
    <3> QED BY <3>1, <1>n DEF ShapeInv, ParentsInv
  <2> QED BY <1>6, <2>1, <2>2, <1>s DEF Succ
<1>7. ASSUME NEW c \in 1 .. commands, NEW n \in 1 .. commands, NextOf(c) = n,
             NEW d \in 1 .. commands, ChildOf(d) = n
      PROVE  FALSE
  <2>1. PICK k \in DOMAIN child[parent[n]] :
           /\ parent[n] \in Commands /\ k + 1 \in DOMAIN child[parent[n]]
           /\ child[parent[n]][k] = c /\ child[parent[n]][k + 1] = n
    BY <1>3, <1>7
  <2>2. parent[n] = d /\ 1 \in DOMAIN child[d] /\ child[d][1] = n
    BY <1>4, <1>7
  <2>3. k + 1 = 1
    BY <1>5, <2>1, <2>2
  <2>4. k \in Nat \ {0}
    BY <1>0, <2>1, ListFacts
  <2> QED BY <2>3, <2>4
<1>8. ASSUME NEW c \in 1 .. commands, NEW d \in 1 .. commands, NEW n \in 1 .. commands,
             Succ(c, n), Succ(d, n)
      PROVE  c = d
  <2>1. CASE NextOf(c) = n /\ NextOf(d) = n
    <3>1. PICK j \in DOMAIN child[parent[n]] :
             /\ parent[n] \in Commands /\ j + 1 \in DOMAIN child[parent[n]]
             /\ child[parent[n]][j] = c /\ child[parent[n]][j + 1] = n
      BY <2>1, <1>3
    <3>2. PICK k \in DOMAIN child[parent[n]] :
             /\ k + 1 \in DOMAIN child[parent[n]]
             /\ child[parent[n]][k] = d /\ child[parent[n]][k + 1] = n
      BY <2>1, <1>3
    <3>3. j + 1 = k + 1
      BY <1>5, <3>1, <3>2
    <3>4. j \in Nat /\ k \in Nat
      BY <1>0, <3>1, ListFacts
    <3>5. j = k
      BY <3>3, <3>4
    <3> QED BY <3>1, <3>2, <3>5
  <2>2. CASE ChildOf(c) = n /\ ChildOf(d) = n
    BY <2>2, <1>4
  <2> QED BY <1>7, <1>8, <2>1, <2>2, <1>s DEF Succ
<1>9. ASSUME NEW n \in 1 .. commands, n # root  PROVE \E c \in 1 .. commands : Succ(c, n)
  <2>1. parent[n] \in 1 .. n - 1
    BY <1>9 DEF ShapeInv, ParentsInv
  <2>2. parent[n] \in 1 .. commands /\ parent[n] # None /\ parent[n] \in Commands
    BY <2>1, <1>n
  <2>3. PICK k \in DOMAIN child[parent[n]] : child[parent[n]][k] = n
    BY <1>0, <2>2 DEF FamilyInv
  <2>4. /\ Len(child[parent[n]]) \in Nat /\ DOMAIN child[parent[n]] = 1 .. Len(child[parent[n]])
        /\ \A j \in DOMAIN child[parent[n]] : child[parent[n]][j] \in 1 .. commands
        /\ child[parent[n]] \in Seq(1 .. commands)
    BY <1>0, <2>2, ListFacts DEF TreeInv
  <2>5. CASE k = 1
    <3>1. child[parent[n]] # << >>
      BY <2>3, <2>4, EmptySeq
    <3>2. ChildOf(parent[n]) = n
      BY <2>3, <2>5, <3>1 DEF ChildOf
    <3> QED BY <2>2, <3>2, <1>s DEF Succ
  <2>6. CASE k # 1
    <3>1. k - 1 \in DOMAIN child[parent[n]] /\ (k - 1) + 1 = k
      BY <2>4, <2>6
    <3>2. NextOf(child[parent[n]][k - 1]) = n
      BY <1>0, <2>2, <2>3, <3>1, BehindIsNext
    <3>3. child[parent[n]][k - 1] \in 1 .. commands
      BY <2>4, <3>1
    <3> QED BY <3>2, <3>3, <1>s DEF Succ
  <2> QED BY <2>5, <2>6
<1>10. /\ nextOf \in [1 .. commands -> 1 .. commands \cup {None}]
       /\ childOf \in [1 .. commands -> 1 .. commands \cup {None}]
  BY <1>1 DEF nextOf, childOf
<1>11. /\ root \in 1 .. commands => nextOf[root] = None
       /\ \A c, n \in 1 .. commands : ~ (nextOf[c] = n /\ childOf[c] = n)
  BY <1>2, <1>7, <1>s
<1> QED BY <1>6, <1>8, <1>9, <1>10, <1>11 DEF BinaryTree

-----------------------------------------------------------------------------
(* The recursion: calls, and returns from them.                            *)

\* A frame calls command_destroy for d.
LEMMA CallKeeps ==
  ASSUME BinaryTree, RecursionInv, phase = "destroy",
         UNCHANGED <<phase, commands, held, nextOf, childOf>>,
         NEW n \in Nat \ {0}, DOMAIN stack = 1 .. n, Len(stack) = n,
         \A k \in 1 .. n : stack[k].c \in 1 .. commands /\ stack[k].at \in {"next", "child", "flags"},
         NEW c, c = stack[n].c, NEW d \in 1 .. commands, NEW at,
         \/ stack[n].at = "next"  /\ d = nextOf[c]  /\ at = "child"
         \/ stack[n].at = "child" /\ d = childOf[c] /\ at = "flags",
         DOMAIN stack' = 1 .. n + 1, Len(stack') = n + 1,
         \A k \in 1 .. n - 1 : stack'[k] = stack[k],
         stack'[n].c = c, stack'[n].at = at, stack'[n + 1].c = d, stack'[n + 1].at = "next"
  PROVE  RecursionInv' /\ Untouched(d) /\ \A e \in 1 .. commands : Untouched(e)' => Untouched(e)
<1>1. /\ c \in 1 .. commands /\ n \in DOMAIN stack /\ n = Len(stack) /\ d # None
      /\ Succ(c, d) /\ FrameInv(n)
  BY DEF RecursionInv, FramesInv, Succ, None
<1>2. Untouched(d)
  BY <1>1 DEF FrameInv, NoneOrUntouched
<1>3. \A e \in 1 .. commands : Freed(e)' <=> Freed(e)
  BY DEF Freed
<1>4. \A e \in 1 .. commands : OnStack(e)' <=> OnStack(e) \/ e = d
  <2> SUFFICES ASSUME NEW e \in 1 .. commands  PROVE OnStack(e)' <=> OnStack(e) \/ e = d
    OBVIOUS
  <2>1. ASSUME OnStack(e)'  PROVE OnStack(e) \/ e = d
    <3>1. PICK k \in 1 .. n + 1 : stack'[k].c = e
      BY <2>1 DEF OnStack
    <3>2. k \in 1 .. n - 1 \/ k = n \/ k = n + 1
      BY <3>1
    <3> QED BY <3>1, <3>2, <1>1 DEF OnStack
  <2>2. ASSUME OnStack(e)  PROVE OnStack(e)'
    <3>1. PICK k \in 1 .. n : stack[k].c = e
      BY <2>2 DEF OnStack
    <3>2. k \in 1 .. n - 1 \/ k = n
      BY <3>1
    <3>3. stack'[k].c = e /\ k \in DOMAIN stack'
      BY <3>1, <3>2
    <3> QED BY <3>3 DEF OnStack
  <2>3. n + 1 \in DOMAIN stack'
    OBVIOUS
  <2> QED BY <2>1, <2>2, <2>3 DEF OnStack
<1>5. \A e \in 1 .. commands : Untouched(e)' <=> Untouched(e) /\ e # d
  BY <1>3, <1>4 DEF Untouched
<1>6. ASSUME NEW k \in 1 .. n + 1  PROVE FrameInv(k)'
  <2>1. CASE k = n + 1
    <3>1. ~ Freed(d)' /\ stack'[k].c = d /\ stack'[k].at = "next" /\ k = Len(stack')
      BY <2>1, <1>2, <1>3 DEF Untouched
    <3>2. NoneOrUntouched(nextOf[d])' /\ NoneOrUntouched(childOf[d])'
      <4>1. ASSUME NEW e \in 1 .. commands, Succ(d, e)  PROVE Untouched(e)'
        BY <4>1, <1>2, <1>5 DEF RecursionInv, ClosedInv, BinaryTree
      <4>2. nextOf' = nextOf /\ childOf' = childOf
            /\ nextOf[d] \in 1 .. commands \cup {None} /\ childOf[d] \in 1 .. commands \cup {None}
        BY DEF BinaryTree
      <4> QED BY <4>1, <4>2 DEF NoneOrUntouched, Succ
    <3> QED BY <3>1, <3>2 DEF FrameInv
  <2>2. CASE k = n
    <3>1. ~ Freed(c)' /\ stack'[k].c = c /\ stack'[k].at = at /\ k # Len(stack') /\ stack'[k + 1].c = d
      BY <2>2, <1>1, <1>3 DEF FrameInv
    <3>2. CASE at = "child"
      <4>1. d = nextOf[c] /\ NoneOrUntouched(childOf[c]) /\ childOf[c] # d
        BY <3>2, <1>1 DEF FrameInv, BinaryTree
      <4>2. childOf[c] \in 1 .. commands \cup {None}
        BY <1>1 DEF BinaryTree
      <4>3. childOf[c] = None \/ Untouched(childOf[c])'
        BY <4>1, <4>2, <1>5 DEF NoneOrUntouched
      <4> QED BY <3>1, <3>2, <4>1, <4>3 DEF FrameInv, NoneOrUntouched, Calls
    <3>3. CASE at = "flags"
      <4>1. d = childOf[c] /\ NoneOrFreed(nextOf[c])
        BY <3>3, <1>1 DEF FrameInv, Calls
      <4>2. nextOf[c] \in 1 .. commands \cup {None}
        BY <1>1 DEF BinaryTree
      <4>3. nextOf[c] = None \/ Freed(nextOf[c])'
        BY <4>1, <4>2, <1>3 DEF NoneOrFreed
      <4> QED BY <3>1, <3>3, <4>1, <4>3 DEF FrameInv, NoneOrFreed, Calls
    <3> QED BY <3>2, <3>3
  <2>3. CASE k \in 1 .. n - 1
    <3> DEFINE b == stack[k].c
    <3>1. /\ stack'[k] = stack[k] /\ k # Len(stack) /\ k # Len(stack') /\ k \in DOMAIN stack /\ k # n
          /\ b \in 1 .. commands /\ FrameInv(k) /\ stack[k].at # "next"
      BY <2>3 DEF RecursionInv, FramesInv, FrameInv
    <3>2. stack'[k + 1].c = stack[k + 1].c
      <4>1. k + 1 \in 1 .. n - 1 \/ k + 1 = n
        BY <2>3
      <4> QED BY <4>1
    <3>3. b # c
      BY <3>1, <1>1 DEF RecursionInv, OnceOnStack
    <3>4. ~ Freed(b)'
      BY <3>1, <1>3 DEF FrameInv
    <3>5. stack[k].at = "child" => childOf[b] = None \/ Untouched(childOf[b])'
      <4>1. childOf[b] \in 1 .. commands \cup {None}
        BY <3>1 DEF BinaryTree
      <4>2. childOf[b] # d
        BY <3>1, <3>3, <1>1 DEF BinaryTree, Succ
      <4> QED BY <3>1, <4>1, <4>2, <1>5 DEF FrameInv, NoneOrUntouched
    <3>6. stack[k].at = "flags" => nextOf[b] = None \/ Freed(nextOf[b])'
      <4>1. nextOf[b] \in 1 .. commands \cup {None}
        BY <3>1 DEF BinaryTree
      <4> QED BY <3>1, <4>1, <1>3 DEF FrameInv, NoneOrFreed
    <3>7. /\ stack[k].at = "child" => stack[k + 1].c = nextOf[b]
          /\ stack[k].at = "flags" => stack[k + 1].c = childOf[b]
      BY <3>1 DEF FrameInv, Calls
    <3>8. stack[k].at \in {"child", "flags"}
      BY <3>1
    <3> QED BY <3>1, <3>2, <3>4, <3>5, <3>6, <3>7, <3>8 DEF FrameInv, NoneOrFreed, NoneOrUntouched, Calls
  <2> QED BY <2>1, <2>2, <2>3
<1>7. FramesInv'
  BY <1>6 DEF FramesInv
<1>8. OnceOnStack'
  <2>1. \A k \in 1 .. n : stack'[k].c = stack[k].c
    BY <1>1
  <2>2. \A k \in 1 .. n : stack[k].c # d
    BY <1>2 DEF Untouched, OnStack
  <2> SUFFICES ASSUME NEW j \in 1 .. n + 1, NEW k \in 1 .. n + 1, stack'[j].c = stack'[k].c  PROVE j = k
    BY DEF OnceOnStack
  <2>3. (j \in 1 .. n \/ j = n + 1) /\ (k \in 1 .. n \/ k = n + 1)
    OBVIOUS
  <2> QED BY <2>1, <2>2, <2>3 DEF RecursionInv, OnceOnStack
<1>9. ClosedInv'
  <2> SUFFICES ASSUME NEW a \in 1 .. commands, NEW e \in 1 .. commands, Succ(a, e)
               PROVE  (Freed(a)' => Freed(e)') /\ (Untouched(a)' => Untouched(e)')
    BY DEF ClosedInv, Succ
  <2>1. (Freed(a) => Freed(e)) /\ (Untouched(a) => Untouched(e))
    BY DEF RecursionInv, ClosedInv
  <2>2. e = d => a = c
    BY <1>1 DEF BinaryTree
  <2>3. ~ Untouched(c)
    BY <1>1 DEF Untouched, OnStack
  <2> QED BY <2>1, <2>2, <2>3, <1>3, <1>5
<1>10. StagesInv'
  <2>1. 1 \in 1 .. n /\ stack # << >> /\ stack[1].c = root
    BY DEF RecursionInv, StagesInv
  <2>2. stack'[1].c = root
    <3>1. 1 \in 1 .. n - 1 \/ n = 1
      OBVIOUS
    <3> QED BY <3>1, <2>1
  <2> QED BY <2>2 DEF StagesInv
<1> QED BY <1>2, <1>5, <1>7, <1>8, <1>9, <1>10 DEF RecursionInv

\* No call is made: the list ends here, there are no children, or a flag is freed.
LEMMA NoCallKeeps ==
  ASSUME BinaryTree, RecursionInv, phase = "destroy",
         UNCHANGED <<phase, commands, nextOf, childOf>>,
         \A e \in 1 .. commands : Freed(e)' <=> Freed(e),
         NEW n \in Nat \ {0}, DOMAIN stack = 1 .. n, Len(stack) = n,
         \A k \in 1 .. n : stack[k].c \in 1 .. commands /\ stack[k].at \in {"next", "child", "flags"},
         NEW c, c = stack[n].c, NEW at,
         \/ stack[n].at = "next"  /\ nextOf[c] = None  /\ at = "child"
         \/ stack[n].at = "child" /\ childOf[c] = None /\ at = "flags"
         \/ stack[n].at = at,
         DOMAIN stack' = 1 .. n, Len(stack') = n,
         \A k \in 1 .. n - 1 : stack'[k] = stack[k],
         stack'[n].c = c, stack'[n].at = at
  PROVE  RecursionInv' /\ \A e \in 1 .. commands : Untouched(e)' => Untouched(e)
<1>1. c \in 1 .. commands /\ n \in DOMAIN stack /\ n = Len(stack) /\ FrameInv(n)
  BY DEF RecursionInv, FramesInv
<1>2. \A k \in 1 .. n : stack'[k].c = stack[k].c
  BY <1>1
<1>3. \A e \in 1 .. commands : Untouched(e)' <=> Untouched(e)
  <2>1. \A e \in 1 .. commands : OnStack(e)' <=> OnStack(e)
    BY <1>2 DEF OnStack
  <2> QED BY <2>1 DEF Untouched
<1>4. ASSUME NEW k \in 1 .. n  PROVE FrameInv(k)'
  <2> DEFINE b == stack[k].c
  <2>1. /\ b \in 1 .. commands /\ stack'[k].c = b /\ FrameInv(k) /\ k \in DOMAIN stack
        /\ nextOf[b] \in 1 .. commands \cup {None} /\ childOf[b] \in 1 .. commands \cup {None}
        /\ (k = Len(stack') <=> k = Len(stack))
    BY <1>2 DEF RecursionInv, FramesInv, BinaryTree
  <2>2. k # n => stack'[k + 1].c = stack[k + 1].c /\ stack'[k].at = stack[k].at
    <3>1. k # n => k + 1 \in 1 .. n /\ k \in 1 .. n - 1
      OBVIOUS
    <3> QED BY <3>1, <1>2
  <2>3. /\ NoneOrUntouched(nextOf[b])' <=> NoneOrUntouched(nextOf[b])
        /\ NoneOrUntouched(childOf[b])' <=> NoneOrUntouched(childOf[b])
        /\ NoneOrFreed(nextOf[b])' <=> NoneOrFreed(nextOf[b])
        /\ NoneOrFreed(childOf[b])' <=> NoneOrFreed(childOf[b])
        /\ ~ Freed(b)'
    BY <2>1, <1>3 DEF NoneOrUntouched, NoneOrFreed, FrameInv
  <2>4. CASE k # n
    BY <2>1, <2>2, <2>3, <2>4 DEF FrameInv, Calls
  <2>5. CASE k = n
    <3>1. b = c /\ stack'[k].at = at /\ k = Len(stack')
      BY <2>5
    <3>2. CASE stack[n].at = at
      BY <2>1, <2>3, <2>5, <3>1, <3>2 DEF FrameInv, Calls
    <3>3. CASE stack[n].at = "next"  /\ nextOf[c] = None  /\ at = "child"
      <4>1. NoneOrUntouched(childOf[b])
        BY <2>1, <2>5, <3>3 DEF FrameInv
      <4>2. NoneOrFreed(nextOf[b])'
        BY <3>1, <3>3 DEF NoneOrFreed
      <4> QED BY <2>1, <2>3, <3>1, <3>3, <4>1, <4>2 DEF FrameInv, Calls
    <3>4. CASE stack[n].at = "child" /\ childOf[c] = None /\ at = "flags"
      <4>1. NoneOrFreed(nextOf[b])
        BY <2>1, <2>5, <3>4 DEF FrameInv, Calls
      <4>2. NoneOrFreed(childOf[b])'
        BY <3>1, <3>4 DEF NoneOrFreed
      <4> QED BY <2>1, <2>3, <3>1, <3>4, <4>1, <4>2 DEF FrameInv, Calls
    <3> QED BY <3>2, <3>3, <3>4
  <2> QED BY <2>4, <2>5
<1>5. FramesInv'
  BY <1>4 DEF FramesInv
<1>6. OnceOnStack'
  BY <1>2 DEF RecursionInv, OnceOnStack
<1>7. ClosedInv'
  BY <1>3 DEF RecursionInv, ClosedInv, Succ
<1>8. StagesInv'
  <2>1. 1 \in 1 .. n /\ stack # << >> /\ stack[1].c = root
    BY DEF RecursionInv, StagesInv
  <2> QED BY <2>1, <1>2 DEF StagesInv
<1> QED BY <1>3, <1>5, <1>6, <1>7, <1>8 DEF RecursionInv

\* The last line of command_destroy: the command is freed, and the call returns.
LEMMA ReturnKeeps ==
  ASSUME BinaryTree, RecursionInv, phase = "destroy",
         UNCHANGED <<commands, nextOf, childOf>>,
         NEW n \in Nat \ {0}, DOMAIN stack = 1 .. n, Len(stack) = n,
         \A k \in 1 .. n : stack[k].c \in 1 .. commands /\ stack[k].at \in {"next", "child", "flags"},
         NEW c, c = stack[n].c, stack[n].at = "flags",
         \A e \in 1 .. commands : Freed(e)' <=> Freed(e) \/ e = c,
         phase' = IF n = 1 THEN "done" ELSE phase,
         n = 1 => stack' = << >>,
         DOMAIN stack' = 1 .. n - 1, Len(stack') = n - 1,
         \A k \in 1 .. n - 1 : stack'[k] = stack[k]
  PROVE  RecursionInv' /\ \A e \in 1 .. commands : Untouched(e)' => Untouched(e)
<1>1. c \in 1 .. commands /\ n \in DOMAIN stack /\ n = Len(stack) /\ FrameInv(n)
  BY DEF RecursionInv, FramesInv
<1>2. NoneOrFreed(nextOf[c]) /\ NoneOrFreed(childOf[c])
  BY <1>1 DEF FrameInv, Calls
<1>3. \A k \in 1 .. n - 1 : stack[k].c # c
  BY <1>1 DEF RecursionInv, OnceOnStack
<1>4. \A e \in 1 .. commands : OnStack(e)' <=> OnStack(e) /\ e # c
  <2> SUFFICES ASSUME NEW e \in 1 .. commands  PROVE OnStack(e)' <=> OnStack(e) /\ e # c
    OBVIOUS
  <2>1. ASSUME OnStack(e)'  PROVE OnStack(e) /\ e # c
    <3>1. PICK k \in 1 .. n - 1 : stack'[k].c = e
      BY <2>1 DEF OnStack
    <3>2. stack[k].c = e /\ k \in DOMAIN stack
      BY <3>1
    <3> QED BY <3>1, <3>2, <1>3 DEF OnStack
  <2>2. ASSUME OnStack(e), e # c  PROVE OnStack(e)'
    <3>1. PICK k \in 1 .. n : stack[k].c = e
      BY <2>2 DEF OnStack
    <3>2. k \in 1 .. n - 1
      BY <2>2, <3>1
    <3> QED BY <3>1, <3>2 DEF OnStack
  <2> QED BY <2>1, <2>2
<1>5. \A e \in 1 .. commands : Untouched(e)' <=> Untouched(e)
  <2>1. OnStack(c)
    BY <1>1 DEF OnStack
  <2> QED BY <2>1, <1>4 DEF Untouched
<1>6. ASSUME NEW k \in 1 .. n - 1  PROVE FrameInv(k)'
  <2> DEFINE b == stack[k].c
  <2>0. /\ b \in 1 .. commands /\ b # c /\ stack'[k] = stack[k] /\ k \in DOMAIN stack /\ k # Len(stack)
        /\ FrameInv(k)
    BY <1>3 DEF RecursionInv, FramesInv
  <2>1. /\ b \in 1 .. commands /\ b # c /\ stack'[k] = stack[k] /\ k \in DOMAIN stack /\ k # Len(stack)
        /\ FrameInv(k) /\ stack[k].at # "next"
        /\ nextOf[b] \in 1 .. commands \cup {None} /\ childOf[b] \in 1 .. commands \cup {None}
    BY <2>0 DEF FrameInv, BinaryTree
  <2>2. ~ Freed(b)'
    BY <2>1 DEF FrameInv
  <2>3. /\ NoneOrUntouched(childOf[b])' <=> NoneOrUntouched(childOf[b])
        /\ NoneOrFreed(nextOf[b]) => NoneOrFreed(nextOf[b])'
    BY <2>1, <1>5 DEF NoneOrUntouched, NoneOrFreed
  <2>4. ASSUME NEW e \in 1 .. commands \cup {None}, stack[k + 1].c = e
        PROVE  IF k = Len(stack') THEN e = None \/ Freed(e)' ELSE stack'[k + 1].c = e
    <3>1. CASE k = n - 1
      <4>1. stack[n].c = e
        BY <2>4, <3>1
      <4> QED BY <4>1, <3>1, <1>1
    <3>2. CASE k # n - 1
      <4>1. k + 1 \in 1 .. n - 1
        BY <3>2
      <4> QED BY <4>1, <2>4, <3>2
    <3> QED BY <3>1, <3>2
  <2>5. CASE stack[k].at = "child"
    <3>1. stack[k + 1].c = nextOf[b] /\ NoneOrUntouched(childOf[b])
      BY <2>1, <2>5 DEF FrameInv, Calls
    <3>2. Calls(k, nextOf[b])'
      BY <2>1, <2>4, <3>1 DEF Calls, NoneOrFreed
    <3> QED BY <2>1, <2>2, <2>3, <2>5, <3>1, <3>2 DEF FrameInv
  <2>6. CASE stack[k].at = "flags"
    <3>1. stack[k + 1].c = childOf[b] /\ NoneOrFreed(nextOf[b])
      BY <2>1, <2>6 DEF FrameInv, Calls
    <3>2. Calls(k, childOf[b])'
      BY <2>1, <2>4, <3>1 DEF Calls, NoneOrFreed
    <3> QED BY <2>1, <2>2, <2>3, <2>6, <3>1, <3>2 DEF FrameInv
  <2> QED BY <2>1, <2>5, <2>6
<1>7. FramesInv'
  BY <1>6 DEF FramesInv
<1>8. OnceOnStack'
  BY DEF RecursionInv, OnceOnStack
<1>9. ClosedInv'
  <2> SUFFICES ASSUME NEW a \in 1 .. commands, NEW e \in 1 .. commands, Succ(a, e)
               PROVE  (Freed(a)' => Freed(e)') /\ (Untouched(a)' => Untouched(e)')
    BY DEF ClosedInv, Succ
  <2>1. (Freed(a) => Freed(e)) /\ (Untouched(a) => Untouched(e))
    BY DEF RecursionInv, ClosedInv
  <2>2. a = c => Freed(e)
    BY <1>2 DEF Succ, NoneOrFreed, None
  <2> QED BY <2>1, <2>2, <1>5
<1>10. StagesInv'
  <2>1. 1 \in 1 .. n /\ stack # << >> /\ stack[1].c = root
    BY DEF RecursionInv, StagesInv
  <2>2. CASE n = 1
    <3>1. Freed(root)'
      BY <2>1, <2>2, <1>1
    <3> QED BY <2>2, <3>1 DEF StagesInv
  <2>3. CASE n # 1
    <3>1. 1 \in 1 .. n - 1
      BY <2>3
    <3> QED BY <2>1, <2>3, <3>1 DEF StagesInv
  <2> QED BY <2>2, <2>3
<1> QED BY <1>5, <1>7, <1>8, <1>9, <1>10 DEF RecursionInv

\* Before the recursion starts nothing is freed; the first call is that of the root.
LEMMA BuildingKeeps ==
  ASSUME stack' = << >>, phase' \in {"create", "build", "crashed"},
         \A e \in 1 .. commands' : ~ Freed(e)'
  PROVE  RecursionInv'
<1>1. DOMAIN stack' = {}
  OBVIOUS
<1>2. FramesInv' /\ OnceOnStack'
  BY <1>1 DEF FramesInv, OnceOnStack
<1>3. \A e \in 1 .. commands' : Untouched(e)'
  BY <1>1 DEF Untouched, OnStack
<1>4. ClosedInv'
  BY <1>3 DEF ClosedInv
<1>5. StagesInv'
  BY DEF StagesInv
<1> QED BY <1>2, <1>4, <1>5 DEF RecursionInv

\* The call of command_destroy by its user starts the recursion at the root.
LEMMA FirstCallKeeps ==
  ASSUME BinaryTree, RecursionInv, phase = "build", root \in 1 .. commands, commands \in Nat,
         UNCHANGED <<commands, held, nextOf, childOf>>,
         phase' = "destroy", stack' = <<Frame(root)>>
  PROVE  RecursionInv'
<1>1. /\ DOMAIN stack' = {1} /\ Len(stack') = 1
      /\ stack'[1].c = root /\ stack'[1].at = "next"
  BY DEF Frame
<1>2. \A e \in 1 .. commands : ~ Freed(e)'
  BY DEF RecursionInv, StagesInv, Freed
<1>3. \A e \in 1 .. commands : Untouched(e)' <=> e # root
  BY <1>1, <1>2 DEF Untouched, OnStack
<1>4. \A c, e \in 1 .. commands : Succ(c, e) => e # root
  BY DEF BinaryTree, root
<1>5. FramesInv'
  <2>1. nextOf'[root] = None
    BY DEF BinaryTree
  <2>2. childOf'[root] = None \/ Untouched(childOf[root])'
    <3>1. childOf[root] \in 1 .. commands \cup {None}
      BY DEF BinaryTree
    <3> QED BY <3>1, <1>3, <1>4 DEF Succ
  <2>3. FrameInv(1)'
    BY <1>1, <1>2, <2>1, <2>2 DEF FrameInv, NoneOrUntouched
  <2> QED BY <1>1, <2>3 DEF FramesInv
<1>6. OnceOnStack'
  BY <1>1 DEF OnceOnStack
<1>7. ClosedInv'
  BY <1>2, <1>3, <1>4 DEF ClosedInv, Succ
<1>8. StagesInv'
  BY <1>1 DEF StagesInv
<1> QED BY <1>5, <1>6, <1>7, <1>8 DEF RecursionInv

-----------------------------------------------------------------------------
(* The stack before and after a step, frame by frame.                      *)

\* The frames of a stack that is not empty.
LEMMA FramesOfStack ==
  ASSUME StackInv, phase = "destroy"
  PROVE  /\ Len(stack) \in Nat \ {0} /\ DOMAIN stack = 1 .. Len(stack) /\ Top = stack[Len(stack)]
         /\ \A k \in 1 .. Len(stack) : stack[k] \in Frames
         /\ \A k \in 1 .. Len(stack) : /\ stack[k].c \in 1 .. commands
                                       /\ stack[k].at \in {"next", "child", "flags"}
                                       /\ stack[k].left \in Seq(1 .. flags)
<1>1. stack \in Seq(Frames) /\ stack # << >>
  BY DEF StackInv
<1>2. \A k \in 1 .. Len(stack) : stack[k] \in Frames
  BY <1>1, ElementOfSeq
<1>3. ASSUME NEW k \in 1 .. Len(stack)
      PROVE  /\ stack[k].c \in 1 .. commands
             /\ stack[k].at \in {"next", "child", "flags"}
             /\ stack[k].left \in Seq(1 .. flags)
  BY <1>2 DEF Frames
<1>4. Len(stack) \in Nat \ {0} /\ DOMAIN stack = 1 .. Len(stack)
  <2> HIDE DEF Frames
  <2> QED BY <1>1, EmptySeq, LenProperties
<1> QED BY <1>2, <1>3, <1>4 DEF Top

\* Below and one frame in the place of the top.
LEMMA TopReplaced ==
  ASSUME StackInv, phase = "destroy", NEW t, NEW s, s = Append(Below, t)
  PROVE  /\ DOMAIN s = 1 .. Len(stack) /\ Len(s) = Len(stack) /\ s[Len(stack)] = t
         /\ \A k \in 1 .. Len(stack) - 1 : s[k] = stack[k]
         /\ DOMAIN Below = 1 .. Len(stack) - 1 /\ Len(Below) = Len(stack) - 1
         /\ \A k \in 1 .. Len(stack) - 1 : Below[k] = stack[k]
<1> DEFINE n == Len(stack)
           T == Frames \cup {t}
<1>1. stack \in Seq(T) /\ n \in Nat \ {0} /\ DOMAIN stack = 1 .. n
  <2>1. n \in Nat \ {0} /\ DOMAIN stack = 1 .. n
    BY FramesOfStack
  <2>2. stack \in Seq(Frames)
    BY DEF StackInv
  <2> HIDE DEF Frames
  <2>3. \A k \in 1 .. n : stack[k] \in T
    BY <2>2, ElementOfSeq
  <2> HIDE DEF T
  <2> QED BY <2>1, <2>2, <2>3
<1> HIDE DEF T
<1>2. Below \in Seq(T) /\ Len(Below) = n - 1 /\ \A k \in 1 .. n - 1 : Below[k] = stack[k]
  BY <1>1 DEF Below
<1>3. t \in T
  BY DEF T
<1>4. DOMAIN Below = 1 .. n - 1
  BY <1>1, <1>2
<1> DEFINE b == Below
<1>5. b \in Seq(T) /\ Len(b) = n - 1 /\ s = Append(b, t) /\ \A k \in 1 .. n - 1 : b[k] = stack[k]
  BY <1>2
<1> HIDE DEF b
<1>6. Len(s) = n /\ DOMAIN s = 1 .. n /\ s[n] = t /\ \A k \in 1 .. n - 1 : s[k] = b[k]
  <2>1. /\ s \in Seq(T) /\ Len(s) = Len(b) + 1 /\ s[Len(b) + 1] = t
        /\ \A k \in 1 .. Len(b) : s[k] = b[k]
    BY <1>3, <1>5, AppendProperties
  <2>2. DOMAIN s = 1 .. Len(s)
    BY <2>1, LenProperties
  <2>3. Len(b) + 1 = n
    BY <1>1, <1>5
  <2> QED BY <2>1, <2>2, <2>3, <1>5
<1> QED BY <1>2, <1>4, <1>5, <1>6

\* A call of the recursion: the top goes on, and there is a frame for d unless it is None.
Called(at, d) == Continue(at) \o (IF d = None THEN << >> ELSE <<Frame(d)>>)

\* The frames after a recursive call, one by one.
LEMMA StackAfterCall ==
  ASSUME StackInv, TreeInv, phase = "destroy", NEW at \in {"next", "child", "flags"},
         NEW d \in 1 .. commands \cup {None}
  PROVE  /\ Called(at, d)[Len(stack)].c = Top.c /\ Called(at, d)[Len(stack)].at = at
         /\ Called(at, d)[Len(stack)].left = Top.left
         /\ \A k \in 1 .. Len(stack) - 1 : Called(at, d)[k] = stack[k]
         /\ d = None => DOMAIN Called(at, d) = 1 .. Len(stack) /\ Len(Called(at, d)) = Len(stack)
         /\ d # None => /\ DOMAIN Called(at, d) = 1 .. Len(stack) + 1
                        /\ Len(Called(at, d)) = Len(stack) + 1
                        /\ Called(at, d)[Len(stack) + 1].c = d
                        /\ Called(at, d)[Len(stack) + 1].at = "next"
                        /\ Called(at, d)[Len(stack) + 1].left = flag[d]
<1> DEFINE s == Called(at, d)
           n == Len(stack)
           t == [Top EXCEPT !.at = at]
           r == Append(Below, t)
<1>1. n \in Nat \ {0} /\ Top \in Frames
  BY FramesOfStack
<1>2. t \in Frames /\ t.c = Top.c /\ t.at = at /\ t.left = Top.left
  BY <1>1 DEF Frames
<1>3. /\ DOMAIN r = 1 .. n /\ Len(r) = n /\ r[n] = t
      /\ \A k \in 1 .. n - 1 : r[k] = stack[k]
  <2> HIDE DEF t, r
  <2>1. r = Append(Below, t)
    BY DEF r
  <2> QED BY <2>1, TopReplaced
<1>4. r \in Seq(Frames)
  <2>1. Below \in Seq(Frames)
    BY TopIsAFrame
  <2> HIDE DEF t
  <2> DEFINE b == Below
  <2>2. b \in Seq(Frames) /\ r = Append(b, t)
    BY <2>1
  <2> HIDE DEF b, r
  <2> QED BY <2>2, <1>2
<1>5. s = r \o (IF d = None THEN << >> ELSE <<Frame(d)>>)
  BY DEF Called, Continue
<1> HIDE DEF r, t, s
<1>6. CASE d = None
  <2>1. s = r \o << >>
    BY <1>5, <1>6
  <2>2. s = r
    <3> HIDE DEF Frames
    <3> QED BY <1>4, <2>1
  <2> QED BY <2>2, <1>1, <1>2, <1>3, <1>6 DEF s
<1>7. CASE d # None
  <2> DEFINE x == Frame(d)
  <2>1. x \in Frames
    BY <1>7, FramesOfCommands
  <2>2. x.c = d /\ x.at = "next" /\ x.left = flag[d]
    BY DEF Frame
  <2>3. s = r \o <<x>>
    BY <1>5, <1>7
  <2> HIDE DEF x
  <2>4. /\ DOMAIN s = 1 .. n + 1 /\ Len(s) = n + 1 /\ s[n + 1] = x
        /\ \A k \in 1 .. n : s[k] = r[k]
    BY <1>1, <1>3, <1>4, <2>1, <2>3
  <2>5. s[n] = t /\ \A k \in 1 .. n - 1 : s[k] = stack[k]
    BY <2>4, <1>1, <1>3
  <2> QED BY <2>2, <2>4, <2>5, <1>2, <1>7 DEF s
<1> QED BY <1>6, <1>7

\* The nodes of different kinds, and of different numbers, are different.
LEMMA DifferentNodes ==
  ASSUME NEW a, NEW b
  PROVE  /\ CommandNode(a) # FlagNode(b) /\ CommandNode(a) # Block(b) /\ FlagNode(a) # Block(b)
         /\ CommandNode(a)[1] # "array" /\ FlagNode(a)[1] # "array" /\ Block(a)[1] = "array"
         /\ CommandNode(a) = CommandNode(b) => a = b
         /\ FlagNode(a) = FlagNode(b) => a = b
         /\ Block(a) = Block(b) => a = b
BY DEF CommandNode, FlagNode, Block

\* A flag is in the list of one command.
LEMMA OneHome ==
  ASSUME TreeInv, ShapeInv
  PROVE  /\ \A c, d \in Commands : \A f : Home(c, f) /\ Home(d, f) => c = d
         /\ \A f \in 1 .. flags : \E c \in 1 .. commands : Home(c, f)
         /\ \A c \in Commands : \A f : Home(c, f) => f \in 1 .. flags
<1>1. \A c, d \in Commands : \A f : Home(c, f) /\ Home(d, f) => c = d
  BY DEF ShapeInv, OnceInv, Home
<1>2. \A f \in 1 .. flags : \E c \in 1 .. commands : Home(c, f)
  BY DEF ShapeInv, ListedInv, Home
<1>3. \A c \in Commands : \A f : Home(c, f) => f \in 1 .. flags
  BY ListFacts DEF Home
<1> QED BY <1>1, <1>2, <1>3

\* The two calls of a command change only with the tree.
LEMMA TreeUnchanged ==
  ASSUME UNCHANGED tree
  PROVE  UNCHANGED <<commands, flags, flag, value, parent, child, nextOf, childOf>>
<1>1. commands' = commands /\ flags' = flags /\ flag' = flag /\ value' = value
      /\ parent' = parent /\ child' = child
  BY DEF tree
<1>2. nextOf' = nextOf /\ childOf' = childOf
  BY <1>1 DEF nextOf, childOf, NextOf, ChildOf
<1> QED BY <1>1, <1>2

-----------------------------------------------------------------------------
(* The flags of the commands.                                              *)

\* A step that frees no flag: the frames keep their flags, or are of commands whose flags
\* are all there, and what is freed is a command without flags left.
LEMMA FlagsKept ==
  ASSUME FlagsInv, TreeInv, ShapeInv, UNCHANGED <<commands, flags, flag>>,
         \A f \in 1 .. flags : FlagHeld(f)' <=> FlagHeld(f),
         \A e \in 1 .. commands : Untouched(e)' => Untouched(e),
         \A e \in 1 .. commands :
           Freed(e)' => Freed(e) \/ \A f \in 1 .. flags : Home(e, f) => ~ FlagHeld(f),
         \A k \in DOMAIN stack' :
           \/ \E j \in DOMAIN stack : stack'[k].c = stack[j].c /\ stack'[k].left = stack[j].left
           \/ stack'[k].c \in 1 .. commands /\ Untouched(stack'[k].c)
              /\ stack'[k].left = flag[stack'[k].c]
  PROVE  FlagsInv'
<1>1. \A c, f : Home(c, f)' <=> Home(c, f)
  BY DEF Home
<1>2. ASSUME NEW c \in 1 .. commands  PROVE FlagsOfInv(c)'
  <2>1. FlagsOfInv(c)
    BY DEF FlagsInv
  <2> SUFFICES ASSUME NEW f \in 1 .. flags, Home(c, f)
               PROVE  (Untouched(c)' => FlagHeld(f)') /\ (Freed(c)' => ~ FlagHeld(f)')
    BY <1>1 DEF FlagsOfInv
  <2> QED BY <2>1 DEF FlagsOfInv
<1>3. ASSUME NEW k \in DOMAIN stack'  PROVE FlagsLeftInv(k)'
  <2> DEFINE c    == stack'[k].c
             rest == stack'[k].left
  <2>1. ASSUME /\ \A f \in 1 .. flags : Home(c, f) => (FlagHeld(f) <=> \E j \in DOMAIN rest : rest[j] = f)
               /\ \A j \in DOMAIN rest : Home(c, rest[j])
               /\ \A i, j \in DOMAIN rest : rest[i] = rest[j] => i = j
        PROVE  FlagsLeftInv(k)'
    BY <2>1 DEF FlagsLeftInv, Home, Left
  <2>2. ASSUME NEW j \in DOMAIN stack, c = stack[j].c, rest = stack[j].left
        PROVE  FlagsLeftInv(k)'
    <3>1. FlagsLeftInv(j)
      BY DEF FlagsInv
    <3> QED BY <2>1, <2>2, <3>1 DEF FlagsLeftInv, Left
  <2>3. ASSUME c \in 1 .. commands, Untouched(c), rest = flag[c]
        PROVE  FlagsLeftInv(k)'
    <3>1. c \in Commands
      BY <2>3, NodeNumbers
    <3>2. \A f \in 1 .. flags : Home(c, f) => FlagHeld(f)
      BY <2>3 DEF FlagsInv, FlagsOfInv
    <3>3. \A i, j \in DOMAIN rest : rest[i] = rest[j] => i = j
      BY <2>3, <3>1 DEF ShapeInv, OnceInv
    <3> QED BY <2>1, <2>3, <3>2, <3>3 DEF Home
  <2> QED BY <2>2, <2>3
<1> QED BY <1>2, <1>3 DEF FlagsInv

\* One turn of the loop over the flags of the top frame.
LEMMA OneFlagLess ==
  ASSUME FlagsInv, RecursionInv, TreeInv, ShapeInv, UNCHANGED <<commands, flags, flag>>,
         NEW n \in Nat \ {0}, DOMAIN stack = 1 .. n, DOMAIN stack' = 1 .. n,
         \A k \in 1 .. n : stack[k].c \in 1 .. commands,
         \A k \in 1 .. n - 1 : stack'[k] = stack[k],
         stack[n].left \in Seq(1 .. flags), stack[n].left # << >>,
         stack'[n].c = stack[n].c, stack'[n].left = Tail(stack[n].left),
         NEW f, f = stack[n].left[1],
         \A g \in 1 .. flags : FlagHeld(g)' <=> FlagHeld(g) /\ g # f,
         \A e \in 1 .. commands : Freed(e)' <=> Freed(e)
  PROVE  FlagsInv' /\ FlagHeld(f) /\ f \in 1 .. flags
<1> DEFINE c   == stack[n].c
           all == stack[n].left
<1>1. \A d, g : Home(d, g)' <=> Home(d, g)
  BY DEF Home
<1>2. n \in DOMAIN stack /\ c \in 1 .. commands /\ 1 .. commands \subseteq Commands
  BY NodeNumbers
<1>3. FlagsLeftInv(n)
  BY <1>2 DEF FlagsInv
<1>4. /\ Len(all) \in Nat \ {0} /\ DOMAIN all = 1 .. Len(all) /\ Len(Tail(all)) = Len(all) - 1
      /\ DOMAIN Tail(all) = 1 .. Len(all) - 1
      /\ \A j \in 1 .. Len(all) - 1 : Tail(all)[j] = all[j + 1]
  <2> HIDE DEF all
  <2>1. all \in Seq(1 .. flags) /\ all # << >>
    BY DEF all
  <2> QED BY <2>1, EmptySeq, HeadTailProperties, LenProperties
<1>5. 1 \in DOMAIN all /\ f = all[1] /\ f \in 1 .. flags
  <2>1. 1 \in 1 .. Len(all)
    BY <1>4
  <2> QED BY <2>1, <1>4, ElementOfSeq
<1>6. Home(c, f) /\ FlagHeld(f)
  BY <1>3, <1>5 DEF FlagsLeftInv, Left
<1>7. \A e \in 1 .. commands : e # c => ~ Home(e, f)
  BY <1>2, <1>6, OneHome
<1>8. \A e \in 1 .. commands : Untouched(e)' <=> Untouched(e)
  <2>1. \A k \in 1 .. n : stack'[k].c = stack[k].c
    <3>1. \A k \in 1 .. n : k \in 1 .. n - 1 \/ k = n
      OBVIOUS
    <3> QED BY <3>1
  <2>2. \A e \in 1 .. commands : OnStack(e)' <=> OnStack(e)
    BY <2>1 DEF OnStack
  <2> QED BY <2>2 DEF Untouched
<1>9. ~ Untouched(c) /\ ~ Freed(c)
  BY <1>2 DEF Untouched, OnStack, RecursionInv, FramesInv, FrameInv
<1>10. ASSUME NEW e \in 1 .. commands  PROVE FlagsOfInv(e)'
  <2>1. FlagsOfInv(e)
    BY DEF FlagsInv
  <2> SUFFICES ASSUME NEW g \in 1 .. flags, Home(e, g)
               PROVE  (Untouched(e)' => FlagHeld(g)') /\ (Freed(e)' => ~ FlagHeld(g)')
    BY <1>1 DEF FlagsOfInv
  <2>2. CASE e = c
    BY <2>2, <1>8, <1>9
  <2>3. CASE e # c
    <3>1. g # f
      BY <2>3, <1>7
    <3> QED BY <3>1, <2>1, <1>8 DEF FlagsOfInv
  <2> QED BY <2>2, <2>3
<1>11. ASSUME NEW k \in 1 .. n  PROVE FlagsLeftInv(k)'
  <2>1. CASE k = n
    <3> DEFINE rest == Tail(all)
    <3>1. \A g : (\E j \in DOMAIN rest : rest[j] = g) <=> (\E j \in DOMAIN all : all[j] = g) /\ g # f
      <4> SUFFICES ASSUME NEW g
                   PROVE  (\E j \in DOMAIN rest : rest[j] = g) <=> (\E j \in DOMAIN all : all[j] = g) /\ g # f
        OBVIOUS
      <4>1. ASSUME NEW j \in DOMAIN rest, rest[j] = g
            PROVE  (\E i \in DOMAIN all : all[i] = g) /\ g # f
        <5>1. j + 1 \in DOMAIN all /\ all[j + 1] = g /\ j + 1 # 1
          BY <4>1, <1>4
        <5> QED BY <5>1, <1>3, <1>5 DEF FlagsLeftInv
      <4>2. ASSUME NEW j \in DOMAIN all, all[j] = g, g # f
            PROVE  \E i \in DOMAIN rest : rest[i] = g
        <5>1. j # 1
          BY <4>2, <1>5
        <5>2. j - 1 \in DOMAIN rest /\ (j - 1) + 1 = j
          BY <4>2, <5>1, <1>4
        <5> QED BY <4>2, <5>2, <1>4
      <4> QED BY <4>1, <4>2
    <3>2. \A j \in DOMAIN rest : Home(c, rest[j])
      <4> SUFFICES ASSUME NEW j \in DOMAIN rest  PROVE Home(c, rest[j])
        OBVIOUS
      <4>1. j + 1 \in DOMAIN all /\ rest[j] = all[j + 1]
        BY <1>4
      <4> QED BY <4>1, <1>3 DEF FlagsLeftInv
    <3>3. \A i, j \in DOMAIN rest : rest[i] = rest[j] => i = j
      <4> SUFFICES ASSUME NEW i \in DOMAIN rest, NEW j \in DOMAIN rest, rest[i] = rest[j]
                   PROVE  i = j
        OBVIOUS
      <4>1. /\ i + 1 \in DOMAIN all /\ rest[i] = all[i + 1]
            /\ j + 1 \in DOMAIN all /\ rest[j] = all[j + 1] /\ i \in Nat /\ j \in Nat
        BY <1>4
      <4>2. i + 1 = j + 1
        BY <4>1, <1>3 DEF FlagsLeftInv
      <4> QED BY <4>1, <4>2
    <3>4. \A g \in 1 .. flags : Home(c, g) => (FlagHeld(g)' <=> \E j \in DOMAIN rest : rest[j] = g)
      BY <3>1, <1>3 DEF FlagsLeftInv, Left
    <3>5. stack'[k].left = rest /\ stack'[k].c = c
      BY <2>1
    <3> HIDE DEF rest, c
    <3> QED BY <3>2, <3>3, <3>4, <3>5, <1>1 DEF FlagsLeftInv, Left, Home
  <2>2. CASE k # n
    <3>1. /\ stack'[k] = stack[k] /\ FlagsLeftInv(k) /\ k \in DOMAIN stack
          /\ stack[k].c \in 1 .. commands /\ stack[k].c # c
      BY <2>2, <1>2 DEF FlagsInv, RecursionInv, OnceOnStack
    <3>2. \A g \in 1 .. flags : Home(stack[k].c, g) => g # f
      BY <3>1, <1>7
    <3>3. \A g \in 1 .. flags : Home(stack[k].c, g) => (FlagHeld(g)' <=> Left(k, g))
      BY <3>1, <3>2 DEF FlagsLeftInv
    <3> QED BY <3>1, <3>3 DEF FlagsLeftInv, Left, Home
  <2> QED BY <2>1, <2>2
<1>12. FlagsInv'
  BY <1>10, <1>11 DEF FlagsInv
<1> QED BY <1>5, <1>6, <1>12

-----------------------------------------------------------------------------
(* What each step of command_destroy frees.                                *)

\* A flag goes with its array, if that is allocated.
LEMMA FreeFlagFrees ==
  ASSUME TreeInv, StackInv, BlocksInv, FreeFlag,
         NEW f, f = Top.left[1], NEW v, v = value[f]
  PROVE  /\ f \in 1 .. flags /\ v \in Values \cup {NoValue}
         /\ \/ /\ v \in Values => ~ Owner(v)
               /\ array' = array /\ held' = held \ {FlagNode(f)}
               /\ faults' = faults \cup ({FlagNode(f)} \ held)
            \/ /\ v \in Values /\ Owner(v)
               /\ array' = [array EXCEPT ![v] = Emptied(array[v])]
               /\ held' = held \ {array[v].p, FlagNode(f)}
               /\ faults' = faults \cup ({array[v].p, FlagNode(f)} \ held)
<1>1. phase = "destroy" /\ Top.left # << >>
  BY DEF FreeFlag
<1>2. Top.left \in Seq(1 .. flags)
  BY <1>1, TopIsAFrame DEF Frames
<1>3. f \in 1 .. flags
  <2>1. 1 \in 1 .. Len(Top.left)
    BY <1>1, <1>2, EmptySeq
  <2> QED BY <1>2, <2>1, ElementOfSeq
<1>4. f \in Flags
  BY <1>3, NodeNumbers
<1>5. v \in Values \cup {NoValue}
  BY <1>4 DEF TreeInv
<1> DEFINE owned == IF v # NoValue /\ array[v].cap > 0 THEN {array[v].p} ELSE {}
<1>6. /\ array' = IF owned # {} THEN [array EXCEPT ![v] = Emptied(array[v])] ELSE array
      /\ held' = held \ (owned \cup {FlagNode(f)})
      /\ faults' = faults \cup ((owned \cup {FlagNode(f)}) \ held)
  BY DEF FreeFlag
<1>7. v \notin Values => v = NoValue
  BY <1>5
<1>8. NoValue \notin Values
  BY RegistryAssumption DEF NoValue
<1>9. CASE v \in Values /\ Owner(v)
  <2>1. owned = {array[v].p}
    BY <1>8, <1>9 DEF Owner
  <2> HIDE DEF owned
  <2>2. owned # {} /\ owned \cup {FlagNode(f)} = {array[v].p, FlagNode(f)}
    BY <2>1
  <2>3. /\ array' = [array EXCEPT ![v] = Emptied(array[v])]
        /\ held' = held \ {array[v].p, FlagNode(f)}
        /\ faults' = faults \cup ({array[v].p, FlagNode(f)} \ held)
    BY <1>6, <2>2
  <2> QED BY <1>3, <1>9, <2>3
<1>10. CASE ~ (v \in Values /\ Owner(v))
  <2>1. owned = {}
    BY <1>7, <1>10 DEF Owner
  <2> HIDE DEF owned
  <2>2. owned \cup {FlagNode(f)} = {FlagNode(f)}
    BY <2>1
  <2>3. array' = array /\ held' = held \ {FlagNode(f)} /\ faults' = faults \cup ({FlagNode(f)} \ held)
    BY <1>6, <2>1, <2>2
  <2> QED BY <1>3, <1>5, <1>10, <2>3
<1> QED BY <1>9, <1>10

\* The two recursive calls.
LEMMA CallStep ==
  ASSUME IInv, ShapeInv, RecursionInv, FlagsInv, phase = "destroy",
         UNCHANGED <<phase, tree, held>>,
         NEW at, NEW d,
         \/ Top.at = "next"  /\ d = nextOf[Top.c]  /\ at = "child"
         \/ Top.at = "child" /\ d = childOf[Top.c] /\ at = "flags",
         stack' = Called(at, d)
  PROVE  RecursionInv' /\ FlagsInv'
<1> DEFINE n == Len(stack)
           c == stack[n].c
<1>1. TreeInv /\ StackInv /\ BinaryTree
  BY DestroyVisitsATree DEF IInv
<1>2. /\ n \in Nat \ {0} /\ DOMAIN stack = 1 .. n /\ Top = stack[n]
      /\ \A k \in 1 .. n : stack[k].c \in 1 .. commands /\ stack[k].at \in {"next", "child", "flags"}
  BY <1>1, FramesOfStack
<1>3. n \in 1 .. n /\ c \in 1 .. commands
  BY <1>2
<1>4. d \in 1 .. commands \cup {None} /\ at \in {"next", "child", "flags"}
  BY <1>1, <1>2, <1>3 DEF BinaryTree
<1>5. UNCHANGED <<commands, flags, flag, nextOf, childOf>> /\ UNCHANGED held /\ UNCHANGED phase
  BY TreeUnchanged
<1>6. /\ stack'[n].c = c /\ stack'[n].at = at /\ stack'[n].left = stack[n].left
      /\ \A k \in 1 .. n - 1 : stack'[k] = stack[k]
      /\ d = None => DOMAIN stack' = 1 .. n /\ Len(stack') = n
      /\ d # None => /\ DOMAIN stack' = 1 .. n + 1 /\ Len(stack') = n + 1
                     /\ stack'[n + 1].c = d /\ stack'[n + 1].at = "next"
                     /\ stack'[n + 1].left = flag[d]
  <2>1. /\ Called(at, d)[n].c = Top.c /\ Called(at, d)[n].at = at /\ Called(at, d)[n].left = Top.left
        /\ \A k \in 1 .. n - 1 : Called(at, d)[k] = stack[k]
        /\ d = None => DOMAIN Called(at, d) = 1 .. n /\ Len(Called(at, d)) = n
        /\ d # None => /\ DOMAIN Called(at, d) = 1 .. n + 1 /\ Len(Called(at, d)) = n + 1
                       /\ Called(at, d)[n + 1].c = d /\ Called(at, d)[n + 1].at = "next"
                       /\ Called(at, d)[n + 1].left = flag[d]
    BY <1>1, <1>4, StackAfterCall
  <2> QED BY <1>2, <2>1
<1>7. \/ stack[n].at = "next"  /\ d = nextOf[c]  /\ at = "child"
      \/ stack[n].at = "child" /\ d = childOf[c] /\ at = "flags"
  BY <1>2
<1>8. \A f : FlagHeld(f)' <=> FlagHeld(f)
  BY <1>5 DEF FlagHeld
<1>9. \A e : Freed(e)' <=> Freed(e)
  BY <1>5 DEF Freed
<1> HIDE DEF n, c
<1>n. n = Len(stack) /\ c = stack[n].c
  BY DEF n, c
<1>10. CASE d = None
  <2>0. /\ \/ stack[n].at = "next"  /\ nextOf[c] = None  /\ at = "child"
           \/ stack[n].at = "child" /\ childOf[c] = None /\ at = "flags"
           \/ stack[n].at = at
        /\ DOMAIN stack' = 1 .. n /\ Len(stack') = n
        /\ UNCHANGED <<phase, commands, nextOf, childOf>>
        /\ \A e \in 1 .. commands : Freed(e)' <=> Freed(e)
    BY <1>5, <1>6, <1>7, <1>9, <1>10
  <2>1. RecursionInv' /\ \A e \in 1 .. commands : Untouched(e)' => Untouched(e)
    BY <1>1, <1>2, <1>6, <1>n, <2>0, NoCallKeeps, ZenonT(40)
  <2>2. ASSUME NEW k \in DOMAIN stack'
        PROVE  \E j \in DOMAIN stack : stack'[k].c = stack[j].c /\ stack'[k].left = stack[j].left
    <3>1. k \in DOMAIN stack /\ (k = n \/ k \in 1 .. n - 1)
      BY <1>2, <1>6, <1>10
    <3> QED BY <3>1, <1>6, <1>n
  <2>3. FlagsInv'
    BY <1>1, <1>5, <1>8, <1>9, <2>1, <2>2, FlagsKept
  <2> QED BY <2>1, <2>3
<1>11. CASE d # None
  <2>1. d \in 1 .. commands
    BY <1>4, <1>11
  <2>0. /\ DOMAIN stack' = 1 .. n + 1 /\ Len(stack') = n + 1
        /\ stack'[n + 1].c = d /\ stack'[n + 1].at = "next" /\ stack'[n + 1].left = flag[d]
        /\ UNCHANGED <<phase, commands, held, nextOf, childOf>>
    BY <1>5, <1>6, <1>11
  <2>2. RecursionInv' /\ Untouched(d) /\ \A e \in 1 .. commands : Untouched(e)' => Untouched(e)
    BY <1>1, <1>2, <1>6, <1>7, <1>n, <2>0, <2>1, CallKeeps, ZenonT(40)
  <2>3. ASSUME NEW k \in DOMAIN stack'
        PROVE  \/ \E j \in DOMAIN stack : stack'[k].c = stack[j].c /\ stack'[k].left = stack[j].left
               \/ /\ stack'[k].c \in 1 .. commands /\ Untouched(stack'[k].c)
                  /\ stack'[k].left = flag[stack'[k].c]
    <3>1. k = n \/ k \in 1 .. n - 1 \/ k = n + 1
      <4>1. k \in 1 .. n + 1 /\ n \in Nat \ {0}
        BY <1>2, <2>0
      <4> QED BY <4>1
    <3>2. k \in 1 .. n - 1 => k \in DOMAIN stack
      BY <1>2
    <3>3. k = n => k \in DOMAIN stack
      BY <1>2, <1>3
    <3>4. CASE k = n + 1
      BY <3>4, <2>0, <2>1, <2>2
    <3> QED BY <3>1, <3>2, <3>3, <3>4, <1>6, <1>n
  <2>4. FlagsInv'
    BY <1>1, <1>5, <1>8, <1>9, <2>2, <2>3, FlagsKept
  <2> QED BY <2>2, <2>4
<1> QED BY <1>10, <1>11

\* The five steps of command_destroy.
LEMMA DestroyStep ==
  ASSUME IInv, ShapeInv, RecursionInv, FlagsInv, BlocksInv,
         Destroy \/ VisitNext \/ VisitChild \/ FreeFlag \/ FreeCommand
  PROVE  RecursionInv' /\ FlagsInv'
<1> DEFINE n == Len(stack)
           c == stack[n].c
<1>1. TreeInv /\ StackInv /\ BinaryTree
  BY DestroyVisitsATree DEF IInv
<1>2. UNCHANGED <<commands, flags, flag, value, nextOf, childOf>>
  <2>1. UNCHANGED tree
    BY DEF Destroy, VisitNext, VisitChild, FreeFlag, FreeCommand
  <2> QED BY <2>1, TreeUnchanged
<1>3. ASSUME phase = "destroy"
      PROVE  /\ n \in Nat \ {0} /\ DOMAIN stack = 1 .. n /\ Top = stack[n] /\ n \in 1 .. n
             /\ \A k \in 1 .. n : stack[k].c \in 1 .. commands /\ stack[k].at \in {"next", "child", "flags"}
             /\ c \in 1 .. commands /\ stack[n].left \in Seq(1 .. flags)
             /\ nextOf[c] = NextOf(c) /\ childOf[c] = ChildOf(c)
  <2>1. /\ n \in Nat \ {0} /\ DOMAIN stack = 1 .. n /\ Top = stack[n]
        /\ \A k \in 1 .. n : /\ stack[k].c \in 1 .. commands
                             /\ stack[k].at \in {"next", "child", "flags"}
                             /\ stack[k].left \in Seq(1 .. flags)
    BY <1>1, <1>3, FramesOfStack
  <2>2. n \in 1 .. n
    BY <2>1
  <2> QED BY <2>1, <2>2 DEF nextOf, childOf
<1>4. CASE Destroy
  <2>1. phase = "build" /\ phase' = "destroy" /\ stack' = <<Frame(root)>> /\ held' = held
        /\ stack = << >>
    BY <1>1, <1>4 DEF Destroy, memory, StackInv
  <2>2. root \in 1 .. commands /\ commands \in Nat
    BY <1>1, <2>1, NodeNumbers DEF TreeInv, root
  <2>3. RecursionInv'
    BY <1>1, <1>2, <2>1, <2>2, FirstCallKeeps
  <2>4. \A e \in 1 .. commands : Untouched(e)
    <3>1. DOMAIN stack = {}
      BY <2>1
    <3> QED BY <2>1, <3>1 DEF Untouched, OnStack, RecursionInv, StagesInv
  <2>5. \A k \in DOMAIN stack' : stack'[k].c = root /\ stack'[k].left = flag[root]
    BY <2>1 DEF Frame
  <2>6. (\A f : FlagHeld(f)' <=> FlagHeld(f)) /\ \A e : Freed(e)' <=> Freed(e)
    BY <2>1 DEF FlagHeld, Freed
  <2>7. FlagsInv'
    BY <1>1, <1>2, <2>2, <2>4, <2>5, <2>6, FlagsKept
  <2> QED BY <2>3, <2>7
<1>5. CASE VisitNext
  <2>1. /\ phase = "destroy" /\ Top.at = "next" /\ UNCHANGED <<phase, tree, held>>
        /\ stack' = Called("child", NextOf(Top.c))
    BY <1>5 DEF VisitNext, Called
  <2>2. NextOf(Top.c) = nextOf[Top.c]
    BY <1>3, <2>1
  <2> QED BY <2>1, <2>2, CallStep
<1>6. CASE VisitChild
  <2>1. /\ phase = "destroy" /\ Top.at = "child" /\ UNCHANGED <<phase, tree, held>>
        /\ stack' = Called("flags", ChildOf(Top.c))
    BY <1>6 DEF VisitChild, Called
  <2>2. ChildOf(Top.c) = childOf[Top.c]
    BY <1>3, <2>1
  <2> QED BY <2>1, <2>2, CallStep
<1>7. CASE FreeFlag
  <2> DEFINE f == Top.left[1]
             t == [Top EXCEPT !.left = Tail(Top.left)]
  <2>1. /\ phase = "destroy" /\ Top.at = "flags" /\ Top.left # << >> /\ phase' = phase
        /\ stack' = Append(Below, t)
    BY <1>7 DEF FreeFlag
  <2>2. /\ DOMAIN stack' = 1 .. n /\ Len(stack') = n /\ stack'[n] = t
        /\ \A k \in 1 .. n - 1 : stack'[k] = stack[k]
    <3> HIDE DEF t
    <3>1. \A s : s = Append(Below, t) => /\ DOMAIN s = 1 .. n /\ Len(s) = n /\ s[n] = t
                                        /\ \A k \in 1 .. n - 1 : s[k] = stack[k]
      BY <1>1, <2>1, TopReplaced
    <3> QED BY <2>1, <3>1
  <2>3. t.c = Top.c /\ t.at = Top.at /\ t.left = Tail(Top.left)
    <3>1. Top \in Frames
      BY <1>1, <2>1, TopIsAFrame
    <3> QED BY <3>1 DEF Frames
  <2>4. /\ f \in 1 .. flags
        /\ \/ held' = held \ {FlagNode(f)}
           \/ \E v \in Values : Owner(v) /\ held' = held \ {array[v].p, FlagNode(f)}
    BY <1>1, <1>7, FreeFlagFrees
  <2>5. \A v \in Values : Owner(v) => array[v].p[1] = "array"
    BY DEF BlocksInv, OwnersInv
  <2>6. \A e : Freed(e)' <=> Freed(e)
    BY <2>4, <2>5, DifferentNodes DEF Freed
  <2>7. \A g : FlagHeld(g)' <=> FlagHeld(g) /\ g # f
    BY <2>4, <2>5, DifferentNodes DEF FlagHeld
  <2> HIDE DEF t, f
  <2>8. RecursionInv'
    BY <1>1, <1>2, <1>3, <2>1, <2>2, <2>3, <2>6, NoCallKeeps
  <2>9. f = stack[n].left[1] /\ stack[n].left # << >> /\ stack[n].left \in Seq(1 .. flags)
        /\ stack'[n].c = stack[n].c /\ stack'[n].left = Tail(stack[n].left)
    BY <1>3, <2>1, <2>2, <2>3 DEF f
  <2>10. FlagsInv'
    BY <1>1, <1>2, <1>3, <2>1, <2>2, <2>6, <2>7, <2>9, OneFlagLess
  <2> QED BY <2>8, <2>10
<1>8. CASE FreeCommand
  <2>1. /\ phase = "destroy" /\ Top.at = "flags" /\ Top.left = << >> /\ stack' = Below
        /\ held' = held \ {CommandNode(Top.c)}
        /\ phase' = IF Below = << >> THEN "done" ELSE phase
    BY <1>8 DEF FreeCommand
  <2>2. /\ DOMAIN stack' = 1 .. n - 1 /\ Len(stack') = n - 1
        /\ \A k \in 1 .. n - 1 : stack'[k] = stack[k]
    BY <1>1, <2>1, TopReplaced
  <2>3. stack' = << >> <=> n = 1
    <3>1. stack' \in Seq(Frames)
      BY <1>1, <2>1, TopIsAFrame
    <3> HIDE DEF Frames
    <3> QED BY <1>3, <2>1, <2>2, <3>1, EmptySeq
  <2>4. /\ \A e : Freed(e)' <=> Freed(e) \/ e = c
        /\ \A f : FlagHeld(f)' <=> FlagHeld(f)
    BY <1>3, <2>1, DifferentNodes DEF Freed, FlagHeld
  <2>5. RecursionInv' /\ \A e \in 1 .. commands : Untouched(e)' => Untouched(e)
    BY <1>1, <1>2, <1>3, <2>1, <2>2, <2>3, <2>4, ReturnKeeps
  <2>6. \A f \in 1 .. flags : Home(c, f) => ~ FlagHeld(f)
    <3>1. FlagsLeftInv(n) /\ DOMAIN stack[n].left = {}
      BY <1>3, <2>1 DEF FlagsInv
    <3> QED BY <3>1 DEF FlagsLeftInv, Left
  <2>7. \A k \in DOMAIN stack' : k \in DOMAIN stack /\ stack'[k] = stack[k]
    BY <1>3, <2>1, <2>2
  <2>8. FlagsInv'
    BY <1>1, <1>2, <2>4, <2>5, <2>6, <2>7, FlagsKept
  <2> QED BY <2>5, <2>8
<1> QED BY <1>4, <1>5, <1>6, <1>7, <1>8

-----------------------------------------------------------------------------
(* Building the tree, and the arrays while the flags are given.            *)

\* While the tree is built every node of it is held.
LEMMA AllThere ==
  ASSUME TreeInv, StackInv, ShapeInv, RecursionInv, FlagsInv, phase \in {"create", "build", "crashed"}
  PROVE  /\ stack = << >> /\ \A c \in 1 .. commands : ~ Freed(c)
         /\ \A f \in 1 .. flags : FlagHeld(f)
<1>1. stack = << >> /\ \A c \in 1 .. commands : ~ Freed(c)
  BY DEF StackInv, RecursionInv, StagesInv
<1>2. DOMAIN stack = {}
  BY <1>1
<1>3. \A c \in 1 .. commands : Untouched(c)
  BY <1>1, <1>2 DEF Untouched, OnStack
<1>4. \A f \in 1 .. flags : \E c \in 1 .. commands : Home(c, f)
  BY OneHome
<1> QED BY <1>1, <1>3, <1>4 DEF FlagsInv, FlagsOfInv

\* While the tree is built every node is held, which is all there is to show.
LEMMA AllThereKept ==
  ASSUME stack' = << >>, phase' \in {"create", "build", "crashed"},
         \A c \in 1 .. commands' : ~ Freed(c)', \A f \in 1 .. flags' : FlagHeld(f)'
  PROVE  RecursionInv' /\ FlagsInv'
<1>1. RecursionInv'
  BY BuildingKeeps
<1>2. DOMAIN stack' = {}
  OBVIOUS
<1>3. \A c \in 1 .. commands' : FlagsOfInv(c)'
  BY DEF FlagsOfInv
<1>4. FlagsInv'
  BY <1>2, <1>3 DEF FlagsInv
<1> QED BY <1>1, <1>4

\* What gropw and the store behind it do to p and cap.
LEMMA StoredBlock ==
  ASSUME NEW E, NEW a, IsArray(a, E), NEW set0 \in BOOLEAN, NEW argc \in Nat, NEW block, NEW x
  PROVE  LET st == Stored(Grown(a, set0, argc, block), x)
         IN  IF Full(a, set0) THEN st.p = block /\ st.cap > 0 ELSE st.p = a.p /\ st.cap = a.cap
<1> DEFINE g  == Grown(a, set0, argc, block)
           st == Stored(g, x)
           n  == Kept(a, set0)
           c  == NewCap(a.cap, n, argc)
<1>1. n \in Nat /\ a.cap \in Nat /\ a.len \in Nat
  BY KeptLength DEF IsArray
<1>2. g.len = n /\ g.len < g.cap
  BY GrowthMakesRoom
<1>3. CASE Full(a, set0)
  <2>1. g = [p |-> block, cap |-> c, len |-> n, mem |-> CopyOf(a.mem, c)]
    BY <1>3 DEF Grown
  <2>2. c \in Nat
    BY <1>1, CapacityBounds
  <2> HIDE DEF c, n
  <2>3. g.p = block /\ g.cap = c /\ st.p = g.p /\ st.cap = g.cap
    BY <2>1 DEF Stored
  <2>4. g.cap > 0
    BY <1>1, <1>2, <2>2, <2>3
  <2> QED BY <1>3, <2>3, <2>4
<1>4. CASE ~ Full(a, set0)
  <2>1. g = [p |-> a.p, cap |-> a.cap, len |-> n, mem |-> a.mem]
    BY <1>4 DEF Grown, IsArray
  <2> HIDE DEF n
  <2>2. st.p = a.p /\ st.cap = a.cap
    BY <2>1 DEF Stored
  <2> QED BY <1>4, <2>2
<1> QED BY <1>3, <1>4

\* Giving an array flag, as far as memory is concerned: the program crashes, the value is
\* stored where the array is, or the array moves to a block of its own.
Moved(v) ==
  /\ blocks' = blocks + 1 /\ array'[v].p = Block(blocks + 1) /\ Owner(v)'
  /\ held' = (held \ FreesOld(array[v])) \cup {Block(blocks + 1)}
  /\ faults' = faults \cup Uses(array[v].p) \cup (FreesOld(array[v]) \ held)
InPlace(v) ==
  /\ blocks' = blocks /\ array'[v].p = array[v].p /\ (Owner(v)' <=> Owner(v))
  /\ held' = held /\ faults' = faults \cup Uses(array[v].p)

\* Giving an array flag is one of the three.
LEMMA SetArrayMoves ==
  ASSUME IInv, NEW f \in Flags, NEW x \in Elements, NEW argc \in 0 .. MaxArgc,
         SetArray(f, x, argc), NEW v, v = value[f]
  PROVE  /\ v \in Values /\ f \in 1 .. flags /\ phase = "build"
         /\ UNCHANGED tree /\ stack' = stack
         /\ \/ phase' = "crashed" /\ UNCHANGED <<blocks, array, held, faults>>
            \/ /\ phase' = "build" /\ \A w \in Values : w # v => array'[w] = array[w]
               /\ Moved(v) \/ InPlace(v)
<1>1. TreeInv /\ ArrayInv
  BY DEF IInv
<1>2. v \in Values /\ f \in 1 .. flags /\ phase = "build" /\ UNCHANGED tree /\ stack' = stack
  BY <1>1 DEF SetArray, TreeInv
<1>3. CASE phase' = "crashed"
  <2>1. UNCHANGED <<blocks, set, array, memory>>
    BY <1>2, <1>3 DEF SetArray
  <2> QED BY <1>2, <1>3, <2>1 DEF memory
<1>4. CASE phase' # "crashed"
  <2> DEFINE a  == array[v]
             g0 == f \in set
             st == Stored(Grown(a, g0, argc, Block(blocks + 1)), x)
             grow == Full(a, g0)
             new == Grown(a, g0, argc, Block(blocks + 1))
  <2>1. /\ array' = [array EXCEPT ![v] = st]
        /\ blocks' = IF grow THEN blocks + 1 ELSE blocks
        /\ held' = IF grow THEN (held \ FreesOld(a)) \cup {new.p} ELSE held
        /\ faults' = faults \cup Uses(a.p) \cup (IF grow THEN FreesOld(a) \ held ELSE {})
        /\ phase' = phase
    BY <1>4 DEF SetArray
  <2>2. grow => new.p = Block(blocks + 1)
    BY DEF Grown
  <2>3. IF grow THEN st.p = Block(blocks + 1) /\ st.cap > 0 ELSE st.p = a.p /\ st.cap = a.cap
    <3>1. IsArray(a, Elements \cup {Junk})
      BY <1>1, <1>2 DEF ArrayInv
    <3>2. g0 \in BOOLEAN
      OBVIOUS
    <3>3. argc \in Nat
      BY RegistryAssumption
    <3> HIDE DEF a, g0
    <3> QED BY <3>1, <3>2, <3>3, StoredBlock
  <2>4. DOMAIN array = Values
    BY <1>1 DEF ArrayInv
  <2> HIDE DEF st, grow, new
  <2>5. array'[v] = st /\ \A w \in Values : w # v => array'[w] = array[w]
    BY <1>2, <2>1, <2>4
  <2>6. CASE grow
    BY <1>2, <2>1, <2>2, <2>3, <2>5, <2>6 DEF Moved, Owner
  <2>7. CASE ~ grow
    BY <1>2, <2>1, <2>3, <2>5, <2>7 DEF InPlace, Owner
  <2> QED BY <2>6, <2>7
<1> QED BY <1>3, <1>4

\* Nodes are added, or nothing is.
LEMMA BlocksWithNewNodes ==
  ASSUME BlocksInv, UNCHANGED <<array, blocks>>, held \subseteq held',
         1 .. commands \subseteq 1 .. commands', 1 .. flags \subseteq 1 .. flags',
         \A f \in 1 .. flags : value'[f] = value[f],
         \A b \in held' \ held : \/ \E c \in 1 .. commands' : b = CommandNode(c)
                                 \/ \E f \in 1 .. flags' : b = FlagNode(f),
         \A f \in 1 .. flags' : FlagHeld(f)'
  PROVE  BlocksInv'
<1>1. \A v : Owner(v)' <=> Owner(v)
  BY DEF Owner
<1>2. OwnersInv'
  BY <1>1 DEF BlocksInv, OwnersInv
<1>3. UnusedInv'
  BY <1>1 DEF BlocksInv, UnusedInv
<1>4. ApartInv'
  BY <1>1 DEF BlocksInv, ApartInv
<1>5. AccountInv'
  BY <1>1 DEF BlocksInv, AccountInv
<1>6. EmptiedInv'
  BY DEF EmptiedInv
<1> QED BY <1>2, <1>3, <1>4, <1>5, <1>6 DEF BlocksInv

\* Nodes are freed, or nothing is.
LEMMA BlocksWithLessNodes ==
  ASSUME BlocksInv, UNCHANGED <<array, blocks, commands, flags, value>>, held' \subseteq held,
         \A b \in held \ held' : b[1] # "array",
         \A f \in 1 .. flags :
           ~ FlagHeld(f)' => ~ FlagHeld(f) \/ value[f] = NoValue \/ ~ Owner(value[f])
  PROVE  BlocksInv'
<1>1. \A v : Owner(v)' <=> Owner(v)
  BY DEF Owner
<1>2. OwnersInv'
  <2> SUFFICES ASSUME NEW v \in Values
               PROVE  /\ array[v].p[1] = "array" <=> Owner(v)
                      /\ Owner(v) => array[v].p \in held' /\ \E b \in 1 .. blocks : array[v].p = Block(b)
    BY <1>1 DEF OwnersInv
  <2> QED BY DEF BlocksInv, OwnersInv
<1>3. UnusedInv'
  BY <1>1 DEF BlocksInv, UnusedInv
<1>4. ApartInv'
  BY <1>1 DEF BlocksInv, ApartInv
<1>5. AccountInv'
  BY <1>1 DEF BlocksInv, AccountInv
<1>6. EmptiedInv'
  BY <1>1 DEF BlocksInv, EmptiedInv
<1> QED BY <1>2, <1>3, <1>4, <1>5, <1>6 DEF BlocksInv

\* The numbers of blocks start behind a natural number of arrays.
LEMMA ArraysAreFinite == Cardinality(Values) \in Nat
<1>1. Values \subseteq 1 .. MaxBlocks /\ 1 \in Int /\ MaxBlocks \in Int
  BY RegistryAssumption
<1>2. IsFiniteSet(1 .. MaxBlocks)
  BY <1>1, FS_Interval
<1>3. IsFiniteSet(Values)
  BY <1>1, <1>2, FS_Subset
<1> QED BY <1>3, FS_CardinalityType

\* What is owned is held.
LEMMA OwnedIsHeld ==
  ASSUME OwnersInv, NEW v \in Values
  PROVE  Uses(array[v].p) = {} /\ FreesOld(array[v]) \ held = {}
BY DEF OwnersInv, Owner, Uses, FreesOld

\* An array moves to a block with a number of its own.
LEMMA BlocksMoved ==
  ASSUME TreeInv, RestInv, BlocksInv, UNCHANGED tree, NEW v \in Values, Moved(v),
         \A w \in Values : w # v => array'[w] = array[w],
         NEW f \in 1 .. flags, v = value[f], \A g \in 1 .. flags : FlagHeld(g)
  PROVE  BlocksInv'
<1> DEFINE old == FreesOld(array[v])
           new == Block(blocks + 1)
<1>1. blocks \in Nat /\ UNCHANGED <<commands, flags, value>>
  BY TreeUnchanged, RegistryAssumption DEF RestInv
<1>2. \A w \in Values : w # v => (Owner(w)' <=> Owner(w)) /\ array'[w].p = array[w].p
  BY DEF Owner
<1>3. Owner(v)' /\ array'[v].p = new /\ held' = (held \ old) \cup {new} /\ blocks' = blocks + 1
  BY DEF Moved
<1>4. old = IF Owner(v) THEN {array[v].p} ELSE {}
  BY DEF FreesOld, Owner
<1>5. \A w \in Values : Owner(w) => array[w].p # new
  <2>1. \A b \in 1 .. blocks : b # blocks + 1
    BY <1>1
  <2> QED BY <2>1, DifferentNodes DEF BlocksInv, OwnersInv
<1>6. \A b \in 1 .. blocks : b \in 1 .. blocks'
  BY <1>1, <1>3
<1>7. blocks + 1 \in 1 .. blocks' /\ new[1] = "array"
  BY <1>1, <1>3, DifferentNodes
<1> HIDE DEF old, new
<1>8. OwnersInv'
  <2> SUFFICES ASSUME NEW w \in Values
               PROVE  /\ array'[w].p[1] = "array" <=> Owner(w)'
                      /\ Owner(w)' => array'[w].p \in held' /\ \E b \in 1 .. blocks' : array'[w].p = Block(b)
    BY DEF OwnersInv
  <2>1. CASE w = v
    BY <2>1, <1>3, <1>7 DEF new
  <2>2. CASE w # v
    <3>1. Owner(w) => array[w].p \notin old
      BY <2>2, <1>4 DEF BlocksInv, ApartInv
    <3> QED BY <2>2, <3>1, <1>2, <1>3, <1>6 DEF BlocksInv, OwnersInv
  <2> QED BY <2>1, <2>2
<1>9. UnusedInv'
  BY <1>1, <1>2 DEF BlocksInv, UnusedInv
<1>10. ApartInv'
  BY <1>2, <1>3, <1>5 DEF BlocksInv, ApartInv
<1>11. AccountInv'
  <2> SUFFICES ASSUME NEW b \in held'
               PROVE  \/ \E c \in 1 .. commands : b = CommandNode(c)
                      \/ \E g \in 1 .. flags : b = FlagNode(g)
                      \/ \E w \in Values : Owner(w)' /\ b = array'[w].p
    BY <1>1 DEF AccountInv
  <2>1. CASE b = new
    BY <2>1, <1>3
  <2>2. CASE b \in held /\ b \notin old
    <3>1. ASSUME NEW w \in Values, Owner(w), b = array[w].p
          PROVE  Owner(w)' /\ b = array'[w].p
      BY <2>2, <3>1, <1>2, <1>4
    <3> QED BY <2>2, <3>1 DEF BlocksInv, AccountInv
  <2> QED BY <2>1, <2>2, <1>3
<1>12. EmptiedInv'
  <2>1. \A g \in 1 .. flags : FlagHeld(g)'
    <3>1. \A g \in 1 .. flags : FlagNode(g) \notin old
      BY <1>4, DifferentNodes DEF BlocksInv, OwnersInv
    <3> QED BY <3>1, <1>3 DEF FlagHeld
  <2> QED BY <2>1, <1>1 DEF EmptiedInv
<1>13. blocks' >= Cardinality(Values)
  <2>1. Cardinality(Values) \in Nat
    BY ArraysAreFinite
  <2> QED BY <2>1, <1>1, <1>3 DEF BlocksInv
<1> QED BY <1>8, <1>9, <1>10, <1>11, <1>12, <1>13 DEF BlocksInv

\* A value is stored where the array is.
LEMMA BlocksInPlace ==
  ASSUME TreeInv, BlocksInv, UNCHANGED tree, NEW v \in Values, InPlace(v),
         \A w \in Values : w # v => array'[w] = array[w]
  PROVE  BlocksInv'
<1>1. UNCHANGED <<commands, flags, value, blocks, held>>
  BY TreeUnchanged DEF InPlace
<1>2. \A w \in Values : (Owner(w)' <=> Owner(w)) /\ array'[w].p = array[w].p
  <2>1. Owner(v)' <=> Owner(v)
    BY DEF InPlace
  <2>2. array'[v].p = array[v].p
    BY DEF InPlace
  <2>3. \A w \in Values : w # v => (Owner(w)' <=> Owner(w)) /\ array'[w].p = array[w].p
    BY DEF Owner
  <2> QED BY <2>1, <2>2, <2>3
<1>3. OwnersInv'
  BY <1>1, <1>2 DEF BlocksInv, OwnersInv
<1>4. UnusedInv'
  BY <1>1, <1>2 DEF BlocksInv, UnusedInv
<1>5. ApartInv'
  BY <1>2 DEF BlocksInv, ApartInv
<1>6. AccountInv'
  BY <1>1, <1>2 DEF BlocksInv, AccountInv
<1>7. EmptiedInv'
  <2>1. \A g \in 1 .. flags : value[g] \in Values \cup {NoValue}
    BY NodeNumbers DEF TreeInv
  <2>2. \A g \in 1 .. flags : FlagHeld(g)' <=> FlagHeld(g)
    BY <1>1 DEF FlagHeld
  <2> QED BY <1>1, <1>2, <2>1, <2>2 DEF BlocksInv, EmptiedInv
<1> QED BY <1>1, <1>3, <1>4, <1>5, <1>6, <1>7 DEF BlocksInv

\* A flag is freed with its array, and the variable is emptied.
LEMMA BlocksEmptied ==
  ASSUME TreeInv, ArrayInv, BlocksInv, UNCHANGED <<commands, flags, value, blocks>>,
         NEW f \in 1 .. flags, NEW v \in Values, v = value[f], Owner(v),
         array' = [array EXCEPT ![v] = Emptied(array[v])],
         held' = held \ {array[v].p, FlagNode(f)}
  PROVE  BlocksInv'
<1>1. /\ array'[v] = Emptied(array[v]) /\ \A w \in Values : w # v => array'[w] = array[w]
  BY DEF ArrayInv
<1>2. /\ ~ Owner(v)' /\ array'[v].p[1] # "array"
      /\ \A w \in Values : w # v => (Owner(w)' <=> Owner(w)) /\ array'[w].p = array[w].p
  BY <1>1 DEF Owner, Emptied
<1>3. \A w \in Values : w # v /\ Owner(w) => array[w].p \in held'
  <2> SUFFICES ASSUME NEW w \in Values, w # v, Owner(w)  PROVE array[w].p \in held'
    OBVIOUS
  <2>1. array[w].p \in held /\ array[w].p[1] = "array" /\ array[w].p # array[v].p
    BY DEF BlocksInv, OwnersInv, ApartInv
  <2>2. array[w].p # FlagNode(f)
    BY <2>1, DifferentNodes
  <2> QED BY <2>1, <2>2
<1>4. OwnersInv'
  BY <1>2, <1>3 DEF BlocksInv, OwnersInv
<1>5. UnusedInv'
  BY <1>2 DEF BlocksInv, UnusedInv
<1>6. ApartInv'
  BY <1>2 DEF BlocksInv, ApartInv
<1>7. AccountInv'
  <2> SUFFICES ASSUME NEW b \in held'
               PROVE  \/ \E c \in 1 .. commands : b = CommandNode(c)
                      \/ \E g \in 1 .. flags : b = FlagNode(g)
                      \/ \E w \in Values : Owner(w)' /\ b = array'[w].p
    BY DEF AccountInv
  <2>1. b \in held /\ b # array[v].p
    OBVIOUS
  <2>2. ASSUME NEW w \in Values, Owner(w), b = array[w].p
        PROVE  Owner(w)' /\ b = array'[w].p
    BY <2>1, <2>2, <1>2
  <2> QED BY <2>1, <2>2 DEF BlocksInv, AccountInv
<1>8. EmptiedInv'
  <2> SUFFICES ASSUME NEW g \in 1 .. flags, ~ FlagHeld(g)', value[g] # NoValue, Owner(value[g])'
               PROVE  FALSE
    BY DEF EmptiedInv
  <2>1. value[g] \in Values /\ value[g] # v
    BY <1>2, NodeNumbers DEF TreeInv
  <2>2. FlagHeld(g)
    BY <1>2, <2>1 DEF BlocksInv, EmptiedInv
  <2>3. g # f
    BY <2>1
  <2>4. FlagNode(g) # array[v].p /\ FlagNode(g) # FlagNode(f)
    BY <2>3, DifferentNodes DEF BlocksInv, OwnersInv
  <2> QED BY <2>2, <2>4 DEF FlagHeld
<1> QED BY <1>4, <1>5, <1>6, <1>7, <1>8 DEF BlocksInv

-----------------------------------------------------------------------------
(* The invariant.                                                          *)

\* Before the program starts only the caller's allocated arrays are held.
LEMMA InitMemory ==
  ASSUME Init  PROVE MemoryInv
<1>1. /\ phase = "create" /\ commands = 0 /\ flags = 0 /\ blocks = Cardinality(Values)
      /\ faults = {} /\ stack = << >>
  BY DEF Init
<1>2. ShapeInv
  BY InitShape
<1>3. DOMAIN stack = {} /\ 1 .. commands = {} /\ 1 .. flags = {}
  BY <1>1
<1>4. RecursionInv /\ FlagsInv
  BY <1>1, <1>3 DEF RecursionInv, FramesInv, OnceOnStack, ClosedInv, StagesInv, FlagsInv
<1>5. PICK a \in [Values -> Initial] :
        /\ array = [v \in Values |->
                      [p   |-> IF a[v].p = "allocated" THEN Block(v) ELSE <<a[v].p, v>>,
                       cap |-> a[v].cap, len |-> a[v].len, mem |-> a[v].mem]]
        /\ held = {Block(v) : v \in {v \in Values : a[v].p = "allocated"}}
  BY DEF Init
<1>6. \A v \in Values : /\ a[v].p \in {"null", "static", "allocated"}
                        /\ a[v].p = "allocated" <=> a[v].cap > 0
                        /\ array[v].p = IF a[v].p = "allocated" THEN Block(v) ELSE <<a[v].p, v>>
                        /\ array[v].cap = a[v].cap
  BY <1>5, RegistryAssumption
<1>7. \A v \in Values : /\ Owner(v) <=> a[v].p = "allocated"
                        /\ Owner(v) => array[v].p = Block(v)
                        /\ ~ Owner(v) => array[v].p = <<a[v].p, v>>
  BY <1>6 DEF Owner
<1>8. \A v \in Values : v \in 1 .. blocks
  BY <1>1, RegistryAssumption
<1>9. ASSUME NEW v \in Values
      PROVE  /\ array[v].p[1] = "array" <=> Owner(v)
             /\ Owner(v) => array[v].p \in held /\ \E b \in 1 .. blocks : array[v].p = Block(b)
  <2>1. CASE Owner(v)
    BY <2>1, <1>5, <1>7, <1>8, DifferentNodes
  <2>2. CASE ~ Owner(v)
    <3>1. array[v].p[1] = a[v].p
      BY <2>2, <1>7
    <3> QED BY <2>2, <3>1, <1>6
  <2> QED BY <2>1, <2>2
<1>10. OwnersInv
  BY <1>9 DEF OwnersInv
<1>11. UnusedInv /\ ApartInv
  <2>1. UnusedInv
    BY <1>7 DEF UnusedInv
  <2>2. ASSUME NEW v \in Values, NEW w \in Values, Owner(v), Owner(w), array[v].p = array[w].p
        PROVE  v = w
    <3>1. Block(v) = Block(w)
      BY <2>2, <1>7
    <3> QED BY <3>1, DifferentNodes
  <2> QED BY <2>1, <2>2 DEF ApartInv
<1>12. AccountInv /\ EmptiedInv
  BY <1>3, <1>5, <1>7 DEF AccountInv, EmptiedInv
<1>13. blocks >= Cardinality(Values)
  <2>1. Cardinality(Values) \in Nat
    BY ArraysAreFinite
  <2> QED BY <1>1, <2>1
<1> QED BY <1>1, <1>2, <1>4, <1>10, <1>11, <1>12, <1>13 DEF MemoryInv, BlocksInv

\* The calls that build the tree, and the flags given.
LEMMA BuildMemory ==
  ASSUME IInv, MemoryInv, ShapeInv',
         \/ \E n \in CommandNames : CommandCreate(n)
         \/ \E c \in 1 .. commands, n \in CommandNames : AddCommand(c, n)
         \/ \E c, n, sh, t, v : AddFlag(c, n, sh, t, v)
         \/ \E f \in Flags, x \in Elements, argc \in 0 .. MaxArgc : SetArray(f, x, argc)
         \/ UNCHANGED <<phase, tree, blocks, array, memory, stack>>
            /\ phase \in {"create", "build", "crashed"}
  PROVE  MemoryInv'
<1>1. /\ TreeInv /\ StackInv /\ RestInv /\ ShapeInv /\ RecursionInv /\ FlagsInv /\ BlocksInv /\ faults = {}
      /\ commands \in Nat /\ flags \in Nat
  BY NodeNumbers DEF IInv, MemoryInv
<1>2. CASE UNCHANGED <<phase, tree, blocks, array, memory, stack>>
           /\ phase \in {"create", "build", "crashed"}
  <2>1. UNCHANGED <<phase, commands, flags, value, blocks, array, held, faults, stack>>
    BY <1>2, TreeUnchanged DEF memory
  <2>2. /\ stack = << >> /\ \A c \in 1 .. commands : ~ Freed(c)
        /\ \A f \in 1 .. flags : FlagHeld(f)
    BY <1>1, <1>2, AllThere
  <2>3. (\A c : Freed(c)' <=> Freed(c)) /\ \A f : FlagHeld(f)' <=> FlagHeld(f)
    BY <2>1 DEF Freed, FlagHeld
  <2>4. RecursionInv' /\ FlagsInv'
    BY <1>2, <2>1, <2>2, <2>3, AllThereKept
  <2>5. BlocksInv'
    BY <1>1, <2>1, <2>2, <2>3, BlocksWithNewNodes
  <2> QED BY <1>1, <2>1, <2>4, <2>5 DEF MemoryInv
<1>3. ASSUME NEW c, NEW n, NewCommand(c, n), phase \in {"create", "build"}, phase' = "build"
      PROVE  MemoryInv'
  <2>1. /\ commands' = commands + 1 /\ held' = held \cup {CommandNode(commands + 1)}
        /\ UNCHANGED <<flags, value, blocks, array, faults, stack>>
    BY <1>3 DEF NewCommand
  <2>2. /\ stack = << >> /\ \A d \in 1 .. commands : ~ Freed(d)
        /\ \A f \in 1 .. flags : FlagHeld(f)
    BY <1>1, <1>3, AllThere
  <2>3. \A d \in 1 .. commands' : d \in 1 .. commands \/ d = commands + 1
    BY <1>1, <2>1
  <2>4. (\A d \in 1 .. commands' : ~ Freed(d)') /\ \A f \in 1 .. flags' : FlagHeld(f)'
    BY <2>1, <2>2, <2>3 DEF Freed, FlagHeld
  <2>5. RecursionInv' /\ FlagsInv'
    BY <1>3, <2>1, <2>2, <2>4, AllThereKept
  <2>6. commands + 1 \in 1 .. commands' /\ 1 .. commands \subseteq 1 .. commands'
    BY <1>1, <2>1
  <2>7. BlocksInv'
    BY <1>1, <2>1, <2>4, <2>6, BlocksWithNewNodes
  <2> QED BY <1>1, <2>1, <2>5, <2>7 DEF MemoryInv
<1>4. ASSUME NEW n, CommandCreate(n)  PROVE MemoryInv'
  <2>1. CASE Refuse
    BY <1>2, <1>4, <2>1 DEF Refuse, CommandCreate
  <2>2. CASE ~ Refuse
    BY <1>3, <1>4, <2>2 DEF CommandCreate
  <2> QED BY <2>1, <2>2
<1>5. ASSUME NEW c, NEW n, AddCommand(c, n)  PROVE MemoryInv'
  <2>1. CASE Refuse
    BY <1>2, <1>5, <2>1 DEF Refuse, AddCommand
  <2>2. CASE ~ Refuse
    BY <1>3, <1>5, <2>2 DEF AddCommand
  <2> QED BY <2>1, <2>2
<1>6. ASSUME NEW c, NEW n, NEW sh, NEW t, NEW v, AddFlag(c, n, sh, t, v)  PROVE MemoryInv'
  <2>1. CASE Refuse
    BY <1>2, <1>6, <2>1 DEF Refuse, AddFlag
  <2>2. CASE ~ Refuse
    <3>1. /\ flags' = flags + 1 /\ held' = held \cup {FlagNode(flags + 1)} /\ phase = "build"
          /\ value' = [value EXCEPT ![flags + 1] = v]
          /\ UNCHANGED <<phase, commands, blocks, array, faults, stack>>
      BY <1>6, <2>2 DEF AddFlag
    <3>2. /\ stack = << >> /\ \A d \in 1 .. commands : ~ Freed(d)
          /\ \A f \in 1 .. flags : FlagHeld(f)
      BY <1>1, <3>1, AllThere
    <3>3. \A f \in 1 .. flags' : f \in 1 .. flags \/ f = flags + 1
      BY <1>1, <3>1
    <3>4. (\A d \in 1 .. commands' : ~ Freed(d)') /\ \A f \in 1 .. flags' : FlagHeld(f)'
      BY <3>1, <3>2, <3>3 DEF Freed, FlagHeld
    <3>5. RecursionInv' /\ FlagsInv'
      BY <3>1, <3>2, <3>4, AllThereKept
    <3>6. flags + 1 \in 1 .. flags' /\ 1 .. flags \subseteq 1 .. flags'
      BY <1>1, <3>1
    <3>7. \A f \in 1 .. flags : value'[f] = value[f]
      <4>1. DOMAIN value = Flags /\ 1 .. flags \subseteq Flags /\ \A f \in 1 .. flags : f # flags + 1
        BY <1>1, NodeNumbers DEF TreeInv
      <4> QED BY <3>1, <4>1
    <3>8. BlocksInv'
      BY <1>1, <3>1, <3>4, <3>6, <3>7, BlocksWithNewNodes
    <3> QED BY <1>1, <3>1, <3>5, <3>8 DEF MemoryInv
  <2> QED BY <2>1, <2>2
<1>7. ASSUME NEW f \in Flags, NEW x \in Elements, NEW argc \in 0 .. MaxArgc, SetArray(f, x, argc)
      PROVE  MemoryInv'
  <2> DEFINE v == value[f]
  <2>1. /\ v \in Values /\ f \in 1 .. flags /\ phase = "build"
        /\ UNCHANGED tree /\ stack' = stack
        /\ \/ phase' = "crashed" /\ UNCHANGED <<blocks, array, held, faults>>
           \/ /\ phase' = "build" /\ \A w \in Values : w # v => array'[w] = array[w]
              /\ Moved(v) \/ InPlace(v)
    BY <1>7, SetArrayMoves
  <2> HIDE DEF v
  <2>2. /\ stack = << >> /\ \A d \in 1 .. commands : ~ Freed(d)
        /\ \A g \in 1 .. flags : FlagHeld(g)
    BY <1>1, <2>1, AllThere
  <2>3. UNCHANGED <<commands, flags, value>>
    BY <2>1, TreeUnchanged
  <2>4. OwnersInv
    BY <1>1 DEF BlocksInv
  <2>5. \A b \in held \ held' : b[1] = "array"
    <3>1. FreesOld(array[v]) = {} \/ (FreesOld(array[v]) = {array[v].p} /\ Owner(v))
      BY DEF FreesOld, Owner
    <3>2. Owner(v) => array[v].p[1] = "array"
      BY <2>1, <2>4 DEF OwnersInv
    <3>3. held' = held \/ held' = (held \ FreesOld(array[v])) \cup {Block(blocks + 1)}
      BY <2>1 DEF Moved, InPlace
    <3> QED BY <3>1, <3>2, <3>3
  <2>6. (\A d \in 1 .. commands' : ~ Freed(d)') /\ \A g \in 1 .. flags' : FlagHeld(g)'
    <3>1. \A d : CommandNode(d) \in held' => CommandNode(d) \in held
      <4>1. \A d : CommandNode(d) # Block(blocks + 1)
        BY DifferentNodes
      <4>2. held' \subseteq held \cup {Block(blocks + 1)}
        BY <2>1 DEF Moved, InPlace
      <4> QED BY <4>1, <4>2
    <3>2. \A d : CommandNode(d) \in held => CommandNode(d) \in held'
      BY <2>5, DifferentNodes
    <3>3. \A g : FlagNode(g) \in held => FlagNode(g) \in held'
      BY <2>5, DifferentNodes
    <3> QED BY <2>2, <2>3, <3>2, <3>3 DEF Freed, FlagHeld
  <2>7. RecursionInv' /\ FlagsInv'
    BY <2>1, <2>2, <2>6, AllThereKept
  <2>8. BlocksInv' /\ faults' = {}
    <3>1. CASE phase' = "crashed" /\ UNCHANGED <<blocks, array, held, faults>>
      <4>1. BlocksInv'
        BY <1>1, <2>3, <2>6, <3>1, BlocksWithNewNodes
      <4> QED BY <1>1, <3>1, <4>1
    <3>2. CASE Moved(v) /\ \A w \in Values : w # v => array'[w] = array[w]
      <4>1. BlocksInv'
        BY <1>1, <2>1, <2>2, <3>2, BlocksMoved DEF v
      <4>2. faults' = {}
        BY <1>1, <2>1, <2>4, <3>2, OwnedIsHeld DEF Moved
      <4> QED BY <4>1, <4>2
    <3>3. CASE InPlace(v) /\ \A w \in Values : w # v => array'[w] = array[w]
      <4>1. BlocksInv'
        BY <1>1, <2>1, <3>3, BlocksInPlace
      <4>2. faults' = {}
        BY <1>1, <2>1, <2>4, <3>3, OwnedIsHeld DEF InPlace
      <4> QED BY <4>1, <4>2
    <3> QED BY <2>1, <3>1, <3>2, <3>3
  <2> QED BY <2>7, <2>8 DEF MemoryInv
<1> QED BY <1>2, <1>4, <1>5, <1>6, <1>7

\* command_destroy uses and frees only what is held.
LEMMA DestroyMemory ==
  ASSUME IInv, MemoryInv, Destroy \/ VisitNext \/ VisitChild \/ FreeFlag \/ FreeCommand
  PROVE  BlocksInv' /\ faults' = {}
<1>1. /\ TreeInv /\ StackInv /\ RestInv /\ ArrayInv
      /\ ShapeInv /\ RecursionInv /\ FlagsInv /\ BlocksInv /\ faults = {}
  BY DEF IInv, MemoryInv
<1>2. UNCHANGED <<commands, flags, flag, value>> /\ blocks' = blocks
  <2>1. UNCHANGED tree /\ blocks' = blocks
    BY DEF Destroy, VisitNext, VisitChild, FreeFlag, FreeCommand
  <2> QED BY <2>1, TreeUnchanged
<1>3. ASSUME phase = "destroy"  PROVE ~ Freed(Top.c) /\ Len(stack) \in DOMAIN stack /\ Top = stack[Len(stack)]
  <2>1. Len(stack) \in DOMAIN stack /\ Top = stack[Len(stack)]
    BY <1>1, <1>3, FramesOfStack
  <2> QED BY <1>1, <2>1 DEF RecursionInv, FramesInv, FrameInv
<1>4. CASE Destroy \/ VisitNext \/ VisitChild
  <2>1. array' = array /\ held' = held
    BY <1>4 DEF Destroy, VisitNext, VisitChild, memory
  <2>2. faults' = {}
    <3>1. CASE Destroy
      BY <1>1, <3>1 DEF Destroy, memory
    <3>2. CASE VisitNext \/ VisitChild
      <4>1. phase = "destroy" /\ Touch(CommandNode(Top.c))
        BY <3>2 DEF VisitNext, VisitChild
      <4>2. CommandNode(Top.c) \in held
        BY <4>1, <1>3 DEF Freed
      <4> QED BY <4>1, <4>2, <1>1 DEF Touch
    <3> QED BY <1>4, <3>1, <3>2
  <2>3. \A f : FlagHeld(f)' <=> FlagHeld(f)
    BY <2>1 DEF FlagHeld
  <2>4. BlocksInv'
    BY <1>1, <1>2, <2>1, <2>3, BlocksWithLessNodes
  <2> QED BY <2>2, <2>4
<1>5. CASE FreeCommand
  <2>1. /\ phase = "destroy" /\ Touch(CommandNode(Top.c)) /\ array' = array
        /\ held' = held \ {CommandNode(Top.c)}
    BY <1>5 DEF FreeCommand
  <2>2. CommandNode(Top.c) \in held
    BY <2>1, <1>3 DEF Freed
  <2>3. faults' = {}
    BY <1>1, <2>1, <2>2 DEF Touch
  <2>4. (\A f : FlagHeld(f)' <=> FlagHeld(f)) /\ \A b \in held \ held' : b[1] # "array"
    BY <2>1, DifferentNodes DEF FlagHeld
  <2>5. BlocksInv'
    BY <1>1, <1>2, <2>1, <2>4, BlocksWithLessNodes
  <2> QED BY <2>3, <2>5
<1>6. CASE FreeFlag
  <2> DEFINE f == Top.left[1]
             v == value[f]
  <2>1. phase = "destroy" /\ Top.left # << >>
    BY <1>6 DEF FreeFlag
  <2>2. /\ f \in 1 .. flags /\ v \in Values \cup {NoValue}
        /\ \/ /\ v \in Values => ~ Owner(v)
              /\ array' = array /\ held' = held \ {FlagNode(f)}
              /\ faults' = faults \cup ({FlagNode(f)} \ held)
           \/ /\ v \in Values /\ Owner(v)
              /\ array' = [array EXCEPT ![v] = Emptied(array[v])]
              /\ held' = held \ {array[v].p, FlagNode(f)}
              /\ faults' = faults \cup ({array[v].p, FlagNode(f)} \ held)
    BY <1>1, <1>6, FreeFlagFrees
  <2>3. FlagNode(f) \in held
    <3>1. FlagsLeftInv(Len(stack)) /\ Top = stack[Len(stack)]
      BY <1>1, <1>3, <2>1 DEF FlagsInv
    <3>2. 1 \in DOMAIN Top.left
      <4>1. Top.left \in Seq(1 .. flags)
        BY <1>1, <2>1, TopIsAFrame DEF Frames
      <4>2. Len(Top.left) \in Nat \ {0} /\ DOMAIN Top.left = 1 .. Len(Top.left)
        BY <2>1, <4>1, EmptySeq, LenProperties
      <4> QED BY <4>2
    <3>3. Home(stack[Len(stack)].c, f) /\ Left(Len(stack), f)
      BY <3>1, <3>2 DEF FlagsLeftInv, Left
    <3> QED BY <3>1, <3>3, <2>2 DEF FlagsLeftInv, FlagHeld
  <2> HIDE DEF f, v
  <2>4. CASE /\ v \in Values => ~ Owner(v)
             /\ array' = array /\ held' = held \ {FlagNode(f)}
             /\ faults' = faults \cup ({FlagNode(f)} \ held)
    <3>1. faults' = {}
      BY <1>1, <2>3, <2>4
    <3>2. \A b \in held \ held' : b[1] # "array"
      BY <2>4, DifferentNodes
    <3>3. ASSUME NEW g \in 1 .. flags, ~ FlagHeld(g)', FlagHeld(g)
          PROVE  value[g] = NoValue \/ ~ Owner(value[g])
      <4>1. FlagNode(g) = FlagNode(f)
        BY <2>4, <3>3 DEF FlagHeld
      <4>2. g = f
        BY <4>1, DifferentNodes
      <4> QED BY <4>2, <2>2, <2>4 DEF v
    <3>4. BlocksInv'
      BY <1>1, <1>2, <2>4, <3>2, <3>3, BlocksWithLessNodes
    <3> QED BY <3>1, <3>4
  <2>5. CASE /\ v \in Values /\ Owner(v)
             /\ array' = [array EXCEPT ![v] = Emptied(array[v])]
             /\ held' = held \ {array[v].p, FlagNode(f)}
             /\ faults' = faults \cup ({array[v].p, FlagNode(f)} \ held)
    <3>1. array[v].p \in held
      BY <1>1, <2>5 DEF BlocksInv, OwnersInv
    <3>2. faults' = {}
      BY <1>1, <2>3, <2>5, <3>1
    <3>3. v = value[f]
      BY DEF v
    <3>4. BlocksInv'
      BY <1>1, <1>2, <2>2, <2>5, <3>3, BlocksEmptied
    <3> QED BY <3>2, <3>4
  <2> QED BY <2>2, <2>4, <2>5
<1> QED BY <1>4, <1>5, <1>6

\* Every step of the registry.
LEMMA StepMemory ==
  ASSUME IInv, MemoryInv, [Next]_vars  PROVE MemoryInv'
<1>1. ShapeInv'
  BY StepShape DEF MemoryInv
<1>2. CASE Destroy \/ VisitNext \/ VisitChild \/ FreeFlag \/ FreeCommand
  <2>1. RecursionInv' /\ FlagsInv'
    BY <1>2, DestroyStep DEF MemoryInv
  <2>2. BlocksInv' /\ faults' = {}
    BY <1>2, DestroyMemory
  <2> QED BY <1>1, <2>1, <2>2 DEF MemoryInv
<1>3. CASE \/ \E n \in CommandNames : CommandCreate(n)
           \/ \E c \in 1 .. commands, n \in CommandNames : AddCommand(c, n)
           \/ \E c, n, sh, t, v : AddFlag(c, n, sh, t, v)
           \/ \E f \in Flags, x \in Elements, argc \in 0 .. MaxArgc : SetArray(f, x, argc)
  BY <1>1, <1>3, BuildMemory
<1>4. CASE UNCHANGED vars
  <2>1. UNCHANGED <<phase, commands, flags, value, blocks, array, held, faults, stack, flag, nextOf, childOf>>
    <3>1. UNCHANGED tree /\ UNCHANGED memory /\ UNCHANGED <<phase, blocks, array, stack>>
      BY <1>4 DEF vars
    <3> QED BY <3>1, TreeUnchanged DEF memory
  <2>2. RecursionInv' /\ FlagsInv'
    BY <2>1 DEF MemoryInv, RecursionInv, FlagsInv, FramesInv, FrameInv, OnceOnStack, ClosedInv,
                StagesInv, Succ, Freed, OnStack, Untouched, NoneOrFreed, NoneOrUntouched, Calls,
                FlagHeld, Home, Left, FlagsOfInv, FlagsLeftInv
  <2>3. BlocksInv' /\ faults' = {}
    BY <2>1 DEF MemoryInv, BlocksInv, OwnersInv, UnusedInv, ApartInv, AccountInv, EmptiedInv, Owner, FlagHeld
  <2> QED BY <1>1, <2>2, <2>3 DEF MemoryInv
<1>5. \/ \E n \in CommandNames : CommandCreate(n)
      \/ \E c \in 1 .. commands, n \in CommandNames : AddCommand(c, n)
      \/ \E c, n, sh, t, v : AddFlag(c, n, sh, t, v)
      \/ \E f \in Flags, x \in Elements, argc \in 0 .. MaxArgc : SetArray(f, x, argc)
      \/ Destroy \/ VisitNext \/ VisitChild \/ FreeFlag \/ FreeCommand
      \/ UNCHANGED vars
  BY DEF Next, GrowthFails
<1> QED BY <1>2, <1>3, <1>4, <1>5

\* The invariant holds throughout.
LEMMA MemoryHolds == Spec => [](IInv /\ MemoryInv)
<1>1. Init => IInv /\ MemoryInv
  BY InitEstablishes, InitMemory
<1>2. IInv /\ MemoryInv /\ [Next]_vars => (IInv /\ MemoryInv)'
  BY InvariantKept, StepMemory
<1> QED BY <1>1, <1>2, PTL DEF Spec

\* No block is freed twice, or used or freed while it is not held: for every tree of commands
\* and flags, every array of the caller, every way flags share arrays, and every growth
\* before command_destroy runs.
THEOREM NothingFreedTwice == Spec => []ReleasedOnce
<1>1. MemoryInv => ReleasedOnce
  BY DEF MemoryInv, ReleasedOnce
<1> QED BY <1>1, MemoryHolds, PTL

-----------------------------------------------------------------------------
(* What is left when command_destroy returns.                              *)

\* When the root is freed and nothing is on the stack every command is freed: the one with the
\* least number that is not would be called for by a freed one.
LEMMA AllCommandsFreed ==
  ASSUME IInv, MemoryInv, phase = "done"
  PROVE  \A c \in 1 .. commands : Freed(c)
<1>1. BinaryTree /\ ClosedInv /\ Freed(root) /\ commands \in Nat
  BY DestroyVisitsATree, NodeNumbers DEF IInv, MemoryInv, RecursionInv, StagesInv
<1> DEFINE U == {c \in 1 .. commands : ~ Freed(c)}
           R == OpToRel(<, Nat)
<1>2. \A x, y \in Nat : x < y => <<x, y>> \in R
  BY DEF OpToRel
<1>3. IsWellFoundedOn(R, Nat)
  BY NatLessThanWellFounded
<1> HIDE DEF R
<1>4. U = {}
  <2> SUFFICES ASSUME U # {}  PROVE FALSE
    OBVIOUS
  <2>1. U \subseteq Nat
    BY <1>1
  <2>2. \E x \in U : \A y \in U : ~ (<<y, x>> \in R)
    BY <1>3, <2>1, WFMin
  <2>3. PICK n \in U : \A y \in U : ~ (y < n)
    BY <1>2, <2>1, <2>2
  <2>4. n \in 1 .. commands /\ ~ Freed(n) /\ n # root
    BY <1>1, <2>3
  <2>5. PICK c \in 1 .. commands : Succ(c, n)
    BY <1>1, <2>4 DEF BinaryTree
  <2>6. c < n
    BY <1>1, <2>4, <2>5 DEF BinaryTree
  <2>7. Freed(c)
    BY <2>3, <2>5, <2>6
  <2> QED BY <1>1, <2>4, <2>5, <2>7 DEF ClosedInv
<1> QED BY <1>4

\* When command_destroy returns every command, every flag and every array of a flag is freed,
\* and no variable of a flag points to what was freed: for every tree and all arrays.
THEOREM EverythingIsFreed == Spec => []ReleasesEverything
<1>1. ASSUME IInv, MemoryInv, phase = "done"
      PROVE  /\ held \subseteq {Block(v) : v \in Values \ {value[f] : f \in 1 .. flags}}
             /\ \A v \in {value[f] : f \in 1 .. flags} \ {NoValue} : array[v].p[1] # "array"
  <2>1. /\ TreeInv /\ ShapeInv /\ FlagsInv /\ OwnersInv /\ UnusedInv /\ AccountInv /\ EmptiedInv
        /\ 1 .. commands \subseteq Commands
    BY <1>1, NodeNumbers DEF IInv, MemoryInv, BlocksInv
  <2>2. \A c \in 1 .. commands : Freed(c)
    BY <1>1, AllCommandsFreed
  <2>3. ASSUME NEW f \in 1 .. flags  PROVE ~ FlagHeld(f)
    <3>1. PICK c \in 1 .. commands : Home(c, f)
      BY <2>1, OneHome
    <3> QED BY <2>1, <2>2, <3>1 DEF FlagsInv, FlagsOfInv
  <2>4. \A f \in 1 .. flags : value[f] # NoValue => value[f] \in Values /\ ~ Owner(value[f])
    <3>1. \A f \in 1 .. flags : value[f] \in Values \cup {NoValue}
      BY <2>1, NodeNumbers DEF TreeInv
    <3> QED BY <2>1, <2>3, <3>1 DEF EmptiedInv
  <2>5. \A v \in {value[f] : f \in 1 .. flags} \ {NoValue} : array[v].p[1] # "array"
    BY <2>1, <2>4 DEF OwnersInv
  <2>6. ASSUME NEW b \in held
        PROVE  \E v \in Values \ {value[f] : f \in 1 .. flags} : b = Block(v)
    <3>1. PICK v \in Values : Owner(v) /\ b = array[v].p
      BY <2>1, <2>2, <2>3 DEF AccountInv, Freed, FlagHeld
    <3>2. \A f \in 1 .. flags : value[f] # v
      BY <2>4, <3>1, RegistryAssumption DEF NoValue
    <3>3. array[v].p = Block(v)
      BY <2>1, <3>1, <3>2 DEF UnusedInv
    <3> QED BY <3>1, <3>2, <3>3
  <2> QED BY <2>5, <2>6
<1>2. IInv /\ MemoryInv => ReleasesEverything
  BY <1>1 DEF ReleasesEverything
<1> QED BY <1>2, MemoryHolds, PTL

-----------------------------------------------------------------------------
(* The recursion comes to its end.                                         *)

\* What command_destroy does once for each command, and what it has yet to do.
Steps == {"begin", "next", "child", "free"}
Ahead(c, s) ==
  \/ Untouched(c)
  \/ s = "free" /\ ~ Freed(c)
  \/ \E k \in DOMAIN stack :
       /\ stack[k].c = c
       /\ \/ s = "next"  /\ stack[k].at = "next"
          \/ s = "child" /\ stack[k].at \in {"next", "child"}
ToDo      == {x \in (1 .. commands) \X Steps : Ahead(x[1], x[2])}
FlagsToDo == {f \in 1 .. flags : FlagHeld(f)}

\* Something less is left to be done, and nothing has come to it.
LessIsLeft ==
  /\ ToDo' \subseteq ToDo /\ FlagsToDo' \subseteq FlagsToDo
  /\ ToDo' # ToDo \/ FlagsToDo' # FlagsToDo

\* No step adds to it that frees no less, keeps its frames or frees their commands, and moves frames
\* on or makes new ones for commands the recursion had not come to.
LEMMA NothingComesToIt ==
  ASSUME commands' = commands,
         \A c \in 1 .. commands : Freed(c) => Freed(c)',
         \A c \in 1 .. commands : OnStack(c) => Freed(c)' \/ OnStack(c)',
         \A j \in DOMAIN stack' :
           \/ Untouched(stack'[j].c)
           \/ \E k \in DOMAIN stack :
                /\ stack[k].c = stack'[j].c
                /\ stack'[j].at = "next" => stack[k].at = "next"
                /\ stack'[j].at = "child" => stack[k].at \in {"next", "child"}
  PROVE  ToDo' \subseteq ToDo
<1>1. ASSUME NEW c \in 1 .. commands, Untouched(c)'
      PROVE  Untouched(c)
  <2>1. ~ Freed(c)' /\ ~ OnStack(c)'
    BY <1>1 DEF Untouched
  <2> QED BY <2>1 DEF Untouched
<1>2. ASSUME NEW c \in 1 .. commands, NEW s \in Steps, Ahead(c, s)'
      PROVE  Ahead(c, s)
  <2>1. CASE Untouched(c)'
    BY <1>1, <2>1 DEF Ahead
  <2>2. CASE s = "free" /\ ~ Freed(c)'
    BY <2>2 DEF Ahead
  <2>3. ASSUME NEW j \in DOMAIN stack', stack'[j].c = c,
               \/ s = "next"  /\ stack'[j].at = "next"
               \/ s = "child" /\ stack'[j].at \in {"next", "child"}
        PROVE  Ahead(c, s)
    BY <2>3 DEF Ahead
  <2> QED BY <1>2, <2>1, <2>2, <2>3 DEF Ahead
<1> QED BY <1>2 DEF ToDo

\* The steps of the recursion.
LEMMA DestroyLeavesLess ==
  ASSUME IInv, MemoryInv, MemoryInv', phase = "destroy", [Next]_vars, ~ UNCHANGED vars
  PROVE  LessIsLeft
<1>0. PICK n, c : n = Len(stack) /\ c = stack[n].c
  OBVIOUS
<1>1. TreeInv /\ StackInv /\ BinaryTree /\ RecursionInv /\ FlagsInv /\ BlocksInv /\ ShapeInv
  BY DestroyVisitsATree DEF IInv, MemoryInv
<1>2. VisitNext \/ VisitChild \/ FreeFlag \/ FreeCommand
  BY DEF Next, CommandCreate, AddCommand, AddFlag, SetArray, GrowthFails, Destroy
<1>3. UNCHANGED <<commands, flags>>
  BY <1>2 DEF tree, VisitNext, VisitChild, FreeFlag, FreeCommand
<1>4. /\ n \in Nat \ {0} /\ DOMAIN stack = 1 .. n /\ Top = stack[n] /\ n \in 1 .. n
      /\ \A k \in 1 .. n : stack[k].c \in 1 .. commands /\ stack[k].at \in {"next", "child", "flags"}
      /\ c \in 1 .. commands /\ stack[n].left \in Seq(1 .. flags)
      /\ nextOf[c] = NextOf(c) /\ childOf[c] = ChildOf(c)
  <2>1. /\ n \in Nat \ {0} /\ DOMAIN stack = 1 .. n /\ Top = stack[n]
        /\ \A k \in 1 .. n : /\ stack[k].c \in 1 .. commands
                             /\ stack[k].at \in {"next", "child", "flags"}
                             /\ stack[k].left \in Seq(1 .. flags)
    BY <1>0, <1>1, FramesOfStack
  <2>2. n \in 1 .. n
    BY <2>1
  <2> QED BY <1>0, <2>1, <2>2 DEF nextOf, childOf
<1>5. FrameInv(n) /\ OnceOnStack' /\ FlagsLeftInv(n)
  BY <1>1, <1>4 DEF MemoryInv, RecursionInv, FramesInv, FlagsInv
<1>6. ASSUME NEW at, NEW d, UNCHANGED held,
             \/ Top.at = "next"  /\ d = nextOf[c]  /\ at = "child"
             \/ Top.at = "child" /\ d = childOf[c] /\ at = "flags",
             stack' = Called(at, d)
      PROVE  LessIsLeft
  <2>1. d \in 1 .. commands \cup {None} /\ at \in {"next", "child", "flags"}
    <3>1. nextOf[c] \in 1 .. commands \cup {None} /\ childOf[c] \in 1 .. commands \cup {None}
      <4>1. \A e \in 1 .. commands : NextOf(e) \in 1 .. commands \cup {None}
                                    /\ ChildOf(e) \in 1 .. commands \cup {None}
        BY <1>1 DEF BinaryTree, nextOf, childOf
      <4> QED BY <1>4, <4>1
    <3>2. at \in {"next", "child", "flags"}
      BY <1>6
    <3>3. d = nextOf[c] \/ d = childOf[c]
      BY <1>6
    <3> QED BY <3>1, <3>2, <3>3
  <2>2. /\ stack'[n].c = c /\ stack'[n].at = at
        /\ \A k \in 1 .. n - 1 : stack'[k] = stack[k]
        /\ d = None => DOMAIN stack' = 1 .. n
        /\ d # None => DOMAIN stack' = 1 .. n + 1 /\ stack'[n + 1].c = d
    <3>1. /\ Called(at, d)[n].c = Top.c /\ Called(at, d)[n].at = at
          /\ \A k \in 1 .. n - 1 : Called(at, d)[k] = stack[k]
          /\ d = None => DOMAIN Called(at, d) = 1 .. n
          /\ d # None => DOMAIN Called(at, d) = 1 .. n + 1 /\ Called(at, d)[n + 1].c = d
      BY <1>0, <1>1, <2>1, StackAfterCall
    <3> QED BY <1>0, <1>4, <1>6, <3>1
  <2>3. d # None => Untouched(d)
    BY <1>0, <1>4, <1>5, <1>6 DEF FrameInv, NoneOrUntouched
  <2>4. /\ \A e : Freed(e)' <=> Freed(e)
        /\ \A f : FlagHeld(f)' <=> FlagHeld(f)
    BY <1>6 DEF Freed, FlagHeld
  <2>5. \A k \in 1 .. n : k \in DOMAIN stack' /\ stack'[k].c = stack[k].c
    <3> SUFFICES ASSUME NEW k \in 1 .. n
                 PROVE  k \in DOMAIN stack' /\ stack'[k].c = stack[k].c
      OBVIOUS
    <3>1. k = n \/ k \in 1 .. n - 1
      BY <1>4
    <3>2. k \in DOMAIN stack'
      BY <1>4, <2>2
    <3> QED BY <1>0, <2>2, <3>1, <3>2
  <2>6. \A k \in DOMAIN stack' : k \in 1 .. n - 1 \/ k = n \/ (d # None /\ k = n + 1)
    <3>1. \A k \in 1 .. n : k \in 1 .. n - 1 \/ k = n
      BY <1>4
    <3>2. \A k \in 1 .. n + 1 : k \in 1 .. n \/ k = n + 1
      BY <1>4
    <3> QED BY <2>2, <3>1, <3>2
  <2>7. ToDo' \subseteq ToDo
    <3>1. ASSUME NEW j \in DOMAIN stack'
          PROVE  \/ Untouched(stack'[j].c)
                 \/ \E k \in DOMAIN stack :
                      /\ stack[k].c = stack'[j].c
                      /\ stack'[j].at = "next" => stack[k].at = "next"
                      /\ stack'[j].at = "child" => stack[k].at \in {"next", "child"}
      <4>1. CASE j \in 1 .. n - 1
        BY <1>4, <2>2, <4>1
      <4>2. CASE j = n
        BY <1>0, <1>4, <1>6, <2>2, <4>2
      <4>3. CASE d # None /\ j = n + 1
        BY <2>2, <2>3, <4>3
      <4> QED BY <2>6, <4>1, <4>2, <4>3
    <3>2. \A e \in 1 .. commands : OnStack(e) => OnStack(e)'
      BY <1>4, <2>5 DEF OnStack
    <3> QED BY <1>3, <2>4, <3>1, <3>2, NothingComesToIt
  <2>8. FlagsToDo' = FlagsToDo
    BY <1>3, <2>4 DEF FlagsToDo
  <2>9. PICK s \in Steps : Top.at = s /\ (s = "next" \/ s = "child") /\ at # s /\ (s = "child" => at = "flags")
    BY <1>6 DEF Steps
  <2>10. <<c, s>> \in ToDo
    <3>1. stack[n].c = c /\ stack[n].at = s /\ n \in DOMAIN stack
      BY <1>0, <1>4, <2>9
    <3>2. Ahead(c, s)
      BY <2>9, <3>1 DEF Ahead
    <3> QED BY <1>4, <3>2 DEF ToDo
  <2>11. ~ Ahead(c, s)'
    <3>1. OnStack(c)' /\ ~ Untouched(c)'
      <4>1. n \in DOMAIN stack' /\ stack'[n].c = c
        BY <1>4, <2>2, <2>5
      <4> QED BY <4>1 DEF OnStack, Untouched
    <3>2. ASSUME NEW k \in DOMAIN stack', stack'[k].c = c
          PROVE  stack'[k].at = at
      <4>1. k = n
        <5>1. n \in DOMAIN stack' /\ stack'[n].c = c
          BY <1>4, <2>2, <2>5
        <5> QED BY <1>5, <3>2, <5>1 DEF OnceOnStack
      <4> QED BY <2>2, <4>1
    <3> QED BY <2>9, <3>1, <3>2 DEF Ahead
  <2>12. ToDo' # ToDo
    <3>1. <<c, s>> \notin ToDo'
      BY <2>11 DEF ToDo
    <3> QED BY <2>10, <3>1
  <2> QED BY <2>7, <2>8, <2>12 DEF LessIsLeft
<1>7. CASE VisitNext
  <2>1. Top.at = "next" /\ held' = held /\ stack' = Called("child", NextOf(Top.c)) /\ Top.c = c
    BY <1>0, <1>4, <1>7 DEF VisitNext, Called
  <2> QED BY <1>4, <1>6, <2>1
<1>8. CASE VisitChild
  <2>1. Top.at = "child" /\ held' = held /\ stack' = Called("flags", ChildOf(Top.c)) /\ Top.c = c
    BY <1>0, <1>4, <1>8 DEF VisitChild, Called
  <2> QED BY <1>4, <1>6, <2>1
<1>9. CASE FreeFlag
  <2>1. PICK f, t : f = Top.left[1] /\ t = [Top EXCEPT !.left = Tail(Top.left)]
    OBVIOUS
  <2>2. Top.at = "flags" /\ Top.left # << >> /\ stack' = Append(Below, t)
    BY <1>9, <2>1 DEF FreeFlag
  <2>3. DOMAIN stack' = 1 .. n /\ stack'[n] = t /\ \A k \in 1 .. n - 1 : stack'[k] = stack[k]
    BY <1>0, <1>1, <2>2, TopReplaced
  <2>4. t.c = c /\ t.at = "flags"
    <3>1. Top \in Frames
      BY <1>1, TopIsAFrame
    <3> QED BY <1>0, <1>4, <2>1, <2>2, <3>1 DEF Frames
  <2>5. /\ f \in 1 .. flags
        /\ \/ held' = held \ {FlagNode(f)}
           \/ \E v \in Values : Owner(v) /\ held' = held \ {array[v].p, FlagNode(f)}
    BY <1>1, <1>9, <2>1, FreeFlagFrees
  <2>6. \A v \in Values : Owner(v) => array[v].p[1] = "array"
    BY <1>1 DEF BlocksInv, OwnersInv
  <2>7. /\ \A e : Freed(e)' <=> Freed(e)
        /\ \A g : FlagHeld(g)' <=> FlagHeld(g) /\ g # f
    BY <2>5, <2>6, DifferentNodes DEF Freed, FlagHeld
  <2>8. FlagHeld(f)
    <3>1. 1 \in DOMAIN stack[n].left /\ stack[n].left[1] = f
      <4>1. Len(Top.left) # 0
        BY <1>4, <2>2, EmptySeq
      <4> QED BY <1>4, <2>1, <4>1, LenProperties
    <3>2. Home(stack[n].c, f) /\ Left(n, f)
      BY <1>5, <3>1 DEF FlagsLeftInv, Left
    <3> QED BY <1>5, <2>5, <3>2 DEF FlagsLeftInv
  <2>9. FlagsToDo' \subseteq FlagsToDo /\ FlagsToDo' # FlagsToDo
    BY <1>3, <2>5, <2>7, <2>8 DEF FlagsToDo
  <2>10. \A k \in 1 .. n : stack'[k].c = stack[k].c /\ stack'[k].at = stack[k].at
    <3>1. \A k \in 1 .. n : k = n \/ k \in 1 .. n - 1
      BY <1>4
    <3> QED BY <1>0, <1>4, <2>2, <2>3, <2>4, <3>1
  <2>11. ToDo' \subseteq ToDo
    <3>1. \A e \in 1 .. commands : OnStack(e) => OnStack(e)'
      BY <1>4, <2>3, <2>10 DEF OnStack
    <3> QED BY <1>3, <1>4, <2>3, <2>7, <2>10, <3>1, NothingComesToIt
  <2> QED BY <2>9, <2>11 DEF LessIsLeft
<1>10. CASE FreeCommand
  <2>1. stack' = Below /\ held' = held \ {CommandNode(c)}
    BY <1>0, <1>4, <1>10 DEF FreeCommand
  <2>2. DOMAIN stack' = 1 .. n - 1 /\ \A k \in 1 .. n - 1 : stack'[k] = stack[k]
    BY <1>0, <1>1, <2>1, TopReplaced
  <2>3. /\ \A e : Freed(e)' <=> Freed(e) \/ e = c
        /\ \A f : FlagHeld(f)' <=> FlagHeld(f)
    BY <2>1, DifferentNodes DEF Freed, FlagHeld
  <2>4. \A k \in 1 .. n : k = n \/ k \in 1 .. n - 1
    BY <1>4
  <2>5. \A k \in 1 .. n - 1 : k \in 1 .. n
    BY <1>4
  <2>6. ToDo' \subseteq ToDo
    <3>1. \A e \in 1 .. commands : OnStack(e) => Freed(e)' \/ OnStack(e)'
      BY <1>0, <1>4, <2>2, <2>3, <2>4 DEF OnStack
    <3> QED BY <1>3, <1>4, <2>2, <2>3, <2>5, <3>1, NothingComesToIt
  <2>7. FlagsToDo' = FlagsToDo
    BY <1>3, <2>3 DEF FlagsToDo
  <2>8. <<c, "free">> \in ToDo
    BY <1>0, <1>4, <1>5 DEF FrameInv, ToDo, Ahead, Steps
  <2>9. <<c, "free">> \notin ToDo'
    <3>1. ~ Untouched(c)' /\ Freed(c)'
      BY <2>3 DEF Untouched
    <3> QED BY <3>1 DEF ToDo, Ahead
  <2> QED BY <2>6, <2>7, <2>8, <2>9 DEF LessIsLeft
<1> QED BY <1>2, <1>7, <1>8, <1>9, <1>10

\* Every step of command_destroy leaves less of a finite number of things to do, and none of
\* them comes back: each command begun, its next command and its child called for and itself
\* freed, and each flag freed, once.  So the recursion ends for every tree.
THEOREM DestructionEnds == Spec => [][phase = "destroy" => LessIsLeft]_vars
<1>1. IInv /\ MemoryInv /\ (IInv /\ MemoryInv)' /\ [Next]_vars => [phase = "destroy" => LessIsLeft]_vars
  BY DestroyLeavesLess
<1> QED BY <1>1, MemoryHolds, PTL DEF Spec
=============================================================================
