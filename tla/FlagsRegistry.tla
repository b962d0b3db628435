---------------------------- MODULE FlagsRegistry ----------------------------
(***************************************************************************)
(* The tree of commands and flags of src/shared/flags.c: how it is built   *)
(* (command_create, add_command, add_flag, each with malloc failing or     *)
(* not), what the array flags in it hold while a command line is read, and *)
(* how command_destroy takes it apart, one call of the recursion after the *)
(* other.  Commands, flags and allocated arrays are numbered as they are   *)
(* made; a list linked by _next is the sequence of its nodes.              *)
(***************************************************************************)
EXTENDS FlagArray, FiniteSets

CONSTANTS
  CommandNames, FlagNames,   \* names given to add_command and add_flag
  LegalCommands, LegalFlags, \* names check_command and check_flag let pass
  Shorts,                    \* short names, NoShort for '\0'
  NoShort,
  Values,                    \* the caller's array variables, numbers
  Initial,                   \* what they are before the program starts
  Elements,                  \* values an array holds
  MaxCommands, MaxFlags,     \* bounds: nodes made in a behaviour
  MaxBlocks,                 \* bound: numbers for allocated arrays
  MaxLen,                    \* bound: values in an array
  MaxArgc                    \* bound: elements left of the command line

ASSUME RegistryAssumption ==
  /\ MaxCommands \in Nat \ {0} /\ MaxFlags \in Nat
  /\ MaxBlocks \in Nat /\ MaxLen \in Nat /\ MaxArgc \in Nat
  /\ Values \subseteq 1 .. MaxBlocks /\ Values = 1 .. Cardinality(Values)
  /\ \A a \in Initial : IsArray(a, Elements) /\ (a.p = "null" => a.cap = 0 /\ a.len = 0)
  /\ \A a \in Initial : a.p \in {"null", "static", "allocated"}
  /\ \A a \in Initial : a.p = "allocated" <=> a.cap > 0

Commands == 1 .. MaxCommands
Flags    == 1 .. MaxFlags
root     == 1
NoValue  == 0           \* a flag that is not an array
Types    == {"scalar", "array", "unknown"}
None     == 0

VARIABLES
  phase,     \* "create", "build", "destroy", "done" or "crashed"
  err,       \* the last call that adds a node has failed
  commands,  \* commands made so far
  flags,     \* flags made so far
  blocks,    \* numbers used for allocated arrays
  name,      \* name[c]: _name of command c
  parent,    \* parent[c]: its _parent
  child,     \* child[c]: the list at _child
  flag,      \* flag[c]: the list at _flag
  fname, short,   \* of flag f: _name, _short_name
  value,     \* value[f]: _value, NoValue for the scalar types
  set,       \* flags with _set_value
  array,     \* array[v]: the caller's variable v
  held,      \* history: blocks allocated and not freed
  faults,    \* history: blocks freed or used while they were not held
  stack      \* calls of command_destroy under way

tree   == <<commands, flags, name, parent, child, flag, fname, short, value>>
memory == <<held, faults>>
vars   == <<phase, err, tree, blocks, set, array, memory, stack>>

CommandNode(c) == <<"command", c>>
FlagNode(f)    == <<"flag", f>>
Block(b)       == <<"array", b>>

\* The caller's arrays that are allocated when the program starts.
Init ==
  /\ phase = "create" /\ err = FALSE
  /\ commands = 0 /\ flags = 0 /\ blocks = Cardinality(Values)
  /\ name = [c \in Commands |-> ""] /\ parent = [c \in Commands |-> None]
  /\ child = [c \in Commands |-> << >>] /\ flag = [c \in Commands |-> << >>]
  /\ fname = [f \in Flags |-> ""] /\ short = [f \in Flags |-> NoShort]
  /\ value = [f \in Flags |-> NoValue] /\ set = {}
  /\ \E a \in [Values -> Initial] :
       /\ array = [v \in Values |->
                     [p   |-> IF a[v].p = "allocated" THEN Block(v) ELSE <<a[v].p, v>>,
                      cap |-> a[v].cap, len |-> a[v].len, mem |-> a[v].mem]]
       /\ held = {Block(v) : v \in {v \in Values : a[v].p = "allocated"}}
  /\ faults = {} /\ stack = << >>
-----------------------------------------------------------------------------
(* Building the tree.                                                      *)

\* 0 is returned, and why in err; nothing has been changed by then.
Refuse == err' = TRUE /\ UNCHANGED <<phase, tree, blocks, set, array, memory, stack>>

\* A new command node, in no list yet.
NewCommand(p, n) ==
  /\ commands' = commands + 1
  /\ name' = [name EXCEPT ![commands + 1] = n]
  /\ parent' = [parent EXCEPT ![commands + 1] = p]
  /\ held' = held \cup {CommandNode(commands + 1)}
  /\ err' = FALSE
  /\ UNCHANGED <<flags, blocks, flag, fname, short, value, set, array, faults, stack>>

\* Where malloc is called it may fail, so any call may be refused.
CommandCreate(n) ==
  /\ phase = "create"
  /\ \/ Refuse
     \/ /\ n \in LegalCommands
        /\ NewCommand(None, n)
        /\ phase' = "build"
        /\ UNCHANGED child

HasChild(c, n) == \E k \in DOMAIN child[c] : name[child[c][k]] = n

AddCommand(c, n) ==
  /\ phase = "build" /\ commands < MaxCommands
  /\ \/ Refuse
     \/ /\ n \in LegalCommands /\ ~ HasChild(c, n)
        /\ NewCommand(c, n)
        /\ child' = [child EXCEPT ![c] = Append(@, commands + 1)]
        /\ UNCHANGED phase

LastNotCompared(c, n, sh) ==   \* mutant: nothing is compared after the loop over back->_next
  \E k \in DOMAIN flag[c] :
    k < Len(flag[c]) /\ (fname[flag[c][k]] = n \/ (sh # NoShort /\ short[flag[c][k]] = sh))

\* Both names are compared with those of every flag the command has.
HasFlag(c, n, sh) ==
  \E k \in DOMAIN flag[c] :
    fname[flag[c][k]] = n \/ (sh # NoShort /\ short[flag[c][k]] = sh)

AddFlag(c, n, sh, t, v) ==
  /\ phase = "build" /\ flags < MaxFlags
  /\ \/ Refuse
     \/ /\ n \in LegalFlags \ {"help"} /\ sh # "h" /\ t \in {"scalar", "array"}
        /\ ~ HasFlag(c, n, sh)
        /\ flags' = flags + 1
        /\ fname' = [fname EXCEPT ![flags + 1] = n]
        /\ short' = [short EXCEPT ![flags + 1] = sh]
        /\ value' = [value EXCEPT ![flags + 1] = v]
        /\ flag' = [flag EXCEPT ![c] = Append(@, flags + 1)]
        /\ held' = held \cup {FlagNode(flags + 1)}
        /\ err' = FALSE
        /\ UNCHANGED <<phase, commands, blocks, name, parent, child, set, array, faults, stack>>
-----------------------------------------------------------------------------
(* set_flag of an array flag, while execute reads the command line.        *)

\* Memory that is used: a fault if it was allocated once and is no longer.
Uses(b) == IF b[1] = "array" THEN {b} \ held ELSE {}

\* The caller's own array is not freed.
FreesOld(a) == IF a.cap > 0 THEN {a.p} ELSE {}

\* gropw, then the store; a value that verify refuses changes nothing.  Nothing can be
\* copied from a null pointer.
SetArray(f, x, argc) ==
  /\ phase = "build" /\ f \in 1 .. flags /\ value[f] # NoValue
  /\ LET v    == value[f]
         a    == array[v]
         grow == Full(a, f \in set)
         new  == Grown(a, f \in set, argc, Block(blocks + 1))
     IN  /\ new.len < MaxLen /\ (grow => blocks < MaxBlocks)
         /\ IF grow /\ a.p[1] = "null"
            THEN phase' = "crashed" /\ UNCHANGED <<blocks, set, array, memory>>
            ELSE /\ array' = [array EXCEPT ![v] = Stored(new, x)]
                 /\ set' = set \cup {f}
                 /\ blocks' = IF grow THEN blocks + 1 ELSE blocks
                 /\ held' = IF grow THEN (held \ FreesOld(a)) \cup {new.p} ELSE held
                 /\ faults' = faults \cup Uses(a.p) \cup (IF grow THEN FreesOld(a) \ held ELSE {})
                 /\ UNCHANGED phase
  /\ UNCHANGED <<err, tree, stack>>
GrowthFailsInPlace(f) ==   \* mutant: gropw works on the caller's structure, not on a copy
  /\ phase = "build" /\ f \in 1 .. flags /\ value[f] # NoValue
  /\ LET a == array[value[f]]
     IN  /\ Full(a, f \in set)
         /\ array' = [array EXCEPT ![value[f]].len = Kept(a, f \in set)]
  /\ UNCHANGED <<phase, err, tree, blocks, set, memory, stack>>

\* malloc fails in gropw: len was set to 0 for a first value, but in temp, which is dropped.
GrowthFails(f) ==
  /\ phase = "build" /\ f \in 1 .. flags /\ value[f] # NoValue
  /\ Full(array[value[f]], f \in set)
  /\ UNCHANGED vars
-----------------------------------------------------------------------------
(* command_destroy of the root, call by call.  A frame has the command, what *)
(* the call does next, and the flags its loop has not come to.               *)

Frame(c) == [c |-> c, at |-> "next", left |-> flag[c]]
Top      == stack[Len(stack)]
Below    == SubSeq(stack, 1, Len(stack) - 1)
Continue(at)  == Append(Below, [Top EXCEPT !.at = at])

\* The node after c in its list.
NextOf(c) ==
  IF parent[c] = None THEN None
  ELSE LET list == child[parent[c]]
           k    == CHOOSE k \in DOMAIN list : list[k] = c
       IN  IF k < Len(list) THEN list[k + 1] ELSE None
ChildOf(c) == IF child[c] = << >> THEN None ELSE child[c][1]

Touch(b) == faults' = faults \cup ({b} \ held)

Destroy ==
  /\ phase = "build"
  /\ phase' = "destroy"
  /\ stack' = <<Frame(root)>>
  /\ UNCHANGED <<err, tree, blocks, set, array, memory>>

VisitNextOmitted ==   \* mutant: c->_next is not destroyed
  /\ phase = "destroy" /\ Top.at = "next"
  /\ Touch(CommandNode(Top.c))
  /\ stack' = Continue("child")
  /\ UNCHANGED <<phase, err, tree, blocks, set, array, held>>

\* The two recursive calls.
VisitNext ==
  /\ phase = "destroy" /\ Top.at = "next"
  /\ Touch(CommandNode(Top.c))
  /\ stack' = Continue("child") \o (IF NextOf(Top.c) = None THEN << >>
                                    ELSE <<Frame(NextOf(Top.c))>>)
  /\ UNCHANGED <<phase, err, tree, blocks, set, array, held>>

VisitChild ==
  /\ phase = "destroy" /\ Top.at = "child"
  /\ Touch(CommandNode(Top.c))
  /\ stack' = Continue("flags") \o (IF ChildOf(Top.c) = None THEN << >>
                                    ELSE <<Frame(ChildOf(Top.c))>>)
  /\ UNCHANGED <<phase, err, tree, blocks, set, array, held>>

EmptiedNotReset(a) == a   \* mutant: p, cap and len keep their values

Emptied(a) == [p |-> <<"null", 0>>, cap |-> 0, len |-> 0, mem |-> << >>]

\* One turn of the loop over the flags.  The array of a flag is the caller's, and
\* several flags may share it.
FreeFlag ==
  /\ phase = "destroy" /\ Top.at = "flags" /\ Top.left # << >>
  /\ LET f     == Top.left[1]
         v     == value[f]
         owned == IF v # NoValue /\ array[v].cap > 0 THEN {array[v].p} ELSE {}
         freed == owned \cup {FlagNode(f)}
     IN  /\ array' = IF owned # {} THEN [array EXCEPT ![v] = Emptied(@)] ELSE array
         /\ held' = held \ freed
         /\ faults' = faults \cup (freed \ held)
  /\ stack' = Append(Below, [Top EXCEPT !.left = Tail(@)])
  /\ UNCHANGED <<phase, err, tree, blocks, set>>

FreeCommand ==
  /\ phase = "destroy" /\ Top.at = "flags" /\ Top.left = << >>
  /\ held' = held \ {CommandNode(Top.c)}
  /\ Touch(CommandNode(Top.c))
  /\ stack' = Below
  /\ phase' = IF Below = << >> THEN "done" ELSE phase
  /\ UNCHANGED <<err, tree, blocks, set, array>>

Next ==
  \/ \E n \in CommandNames : CommandCreate(n)
  \/ \E c \in 1 .. commands, n \in CommandNames : AddCommand(c, n)
  \/ \E c \in 1 .. commands, n \in FlagNames, sh \in Shorts :
       \/ \E v \in Values : AddFlag(c, n, sh, "array", v)
       \/ \E t \in {"scalar", "unknown"} : AddFlag(c, n, sh, t, NoValue)
  \/ \E f \in Flags, x \in Elements, argc \in 0 .. MaxArgc : SetArray(f, x, argc)
  \/ \E f \in Flags : GrowthFails(f)
  \/ Destroy \/ VisitNext \/ VisitChild \/ FreeFlag \/ FreeCommand

Spec == Init /\ [][Next]_vars
-----------------------------------------------------------------------------
(* Properties.                                                             *)

\* Types; the values of an array lie within its memory.
TypeOK ==
  /\ phase \in {"create", "build", "destroy", "done", "crashed"}
  /\ err \in BOOLEAN
  /\ commands \in 0 .. MaxCommands /\ flags \in 0 .. MaxFlags /\ blocks \in 0 .. MaxBlocks
  /\ \A c \in Commands : child[c] \in Seq(1 .. commands) /\ flag[c] \in Seq(1 .. flags)
  /\ parent \in [Commands -> 0 .. MaxCommands]
  /\ value \in [Flags -> Values \cup {NoValue}] /\ set \subseteq 1 .. flags
  /\ \A v \in Values : IsArray(array[v], Elements \cup {Junk})

\* What execute looks for in a list: the first node with the name.
Lookup(list, label, n) ==
  LET ks == {k \in DOMAIN list : label[list[k]] = n}
  IN  IF ks = {} THEN None ELSE list[CHOOSE k \in ks : \A l \in ks : k <= l]

\* execute, which stops at the first match and tries help and -h before any flag,
\* finds every command and every flag by its name, and a flag by its short name:
\* nothing that was added is hidden by what was added before or after it.
EachFoundByItsName ==
  \A c \in 1 .. commands :
    /\ \A k \in DOMAIN child[c] : Lookup(child[c], name, name[child[c][k]]) = child[c][k]
    /\ \A k \in DOMAIN flag[c] :
         LET f == flag[c][k]
         IN  /\ fname[f] # "help" /\ Lookup(flag[c], fname, fname[f]) = f
             /\ short[f] # NoShort =>
                  short[f] # "h" /\ Lookup(flag[c], short, short[f]) = f

\* No block is freed twice, used after it was freed or freed without having been
\* allocated: not when an array leaves the caller's own memory or grows, not when flags
\* share a variable, and not in any order of the recursion of command_destroy.
ReleasedOnce == faults = {}

\* command_destroy frees all commands, flags and arrays of flags, and no variable
\* of a flag keeps a pointer to what was freed.
ReleasesEverything ==
  phase = "done" =>
    LET used == {value[f] : f \in 1 .. flags}
    IN  /\ held \subseteq {Block(v) : v \in Values \ used}
        /\ \A v \in used \ {NoValue} : array[v].p[1] # "array"

\* The arrays behind the flags hold their default, then the values given, whatever is
\* reallocated on the way, whoever shares them and whichever malloc fails.
AF == INSTANCE ArrayFlags WITH
        list   <- [v \in Values |-> ValuesOf(array[v])],
        bound  <- value,
        given  <- set,
        closed <- phase \in {"destroy", "done"}
ImplementsArrayFlags == AF!Spec

\* flags.h: execute parses the parameters and executes the callback of the command, so a
\* flag that is given does not end the program.
FlagsCanBeGiven == phase # "crashed"
=============================================================================
