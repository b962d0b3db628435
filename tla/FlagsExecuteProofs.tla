------------------------- MODULE FlagsExecuteProofs -------------------------
(***************************************************************************)
(* Theorems about FlagsExecute for every tree of commands and flags, every *)
(* parser of values, every verify function and every command line.         *)
(*                                                                         *)
(* A step is first reduced to one of a few kinds (StepKinds): what it does *)
(* with the element at hand, to the flags and to the uses.  The invariants *)
(* are then shown of the kinds.                                            *)
(***************************************************************************)
EXTENDS FlagsExecute, FiniteSetTheorems, SequenceTheorems, TLAPS

Errors == {"0", "MALLOC_ARGV", "INVALID_ARGUMENT", "UNKNOW_FLAG", "UNKNOW_SHORT_FLAG"}

-----------------------------------------------------------------------------
(* The kinds of steps.                                                     *)

\* At most one flag of the command is changed, to a value its verify lets pass.
Stores ==
  \/ value' = value
  \/ \E f \in FlagsOf[command] : \E x \in Legal[f] : value' = [value EXCEPT ![f] = x]

Same == UNCHANGED <<argv, command, err, returned, calls>>

\* The element is looked at: a flag, long or short.
Looks == /\ state = "NONE" /\ i < argc
         /\ input' /\ state' \in {"FLAGS", "FLAGS_SHORT"}
         /\ state' = "FLAGS_SHORT" => ~ short_input' /\ Current.k = "short" /\ s' = Current.text
         /\ short_input' \in BOOLEAN
         /\ Same /\ UNCHANGED <<i, value, role, positionals>>

Enters == /\ state = "NONE" /\ i < argc /\ ~ input
          /\ command' \in Commands
          /\ i' = i + 1 /\ Used(i + 1, "subcommand")
          /\ UNCHANGED <<argv, err, returned, calls, state, input, short_input, value, positionals>>

\* What push_args does to handler_argv, its blocks included, and whether it writes outside of it.
Pushes(a) ==
  /\ handler_argv' = IF handler_argc < Len(Buffer) THEN [Buffer EXCEPT ![handler_argc + 1] = a]
                     ELSE Buffer
  /\ wild' = (wild \/ handler_argc >= Len(Buffer)
                   \/ (Full /\ ~ First /\ handler_argc > Room * PtrSize))
  /\ handler_cap' = IF Full /\ First THEN Room ELSE handler_cap
  /\ owned' = IF Full THEN owned + 1 - Freed ELSE owned

Passes == /\ i < argc /\ (state = "FLAGS_SHORT" => ~ short_input) /\ Pushes(Current)
          /\ i' = i + 1 /\ input' = TRUE /\ state' = "NONE" /\ Used(i + 1, "positional")
          /\ handler_argc' = handler_argc + 1 /\ wild' \in BOOLEAN
          /\ Same /\ UNCHANGED <<value, short_input>>

\* A flag is done with, and with it n elements.
Takes == /\ state # "NONE" /\ i < argc
         /\ i' = i + 1 /\ state' = "NONE" /\ Used(i + 1, "flag")
         /\ Stores /\ Same /\ UNCHANGED <<input, short_input, positionals>>

TakesNext == /\ state # "NONE" /\ i + 1 < argc
             /\ i' = i + 2 /\ state' = "NONE"
             /\ role' = [role EXCEPT ![i + 1] = @ \cup {"flag"}, ![i + 2] = @ \cup {"value"}]
             /\ Stores /\ Same /\ UNCHANGED <<input, short_input, positionals>>

TakesLetter == /\ state = "FLAGS_SHORT" /\ state' = state /\ short_input' = TRUE
               /\ Len(s) > 1 /\ s' = Tail(s)
               /\ Used(i + 1, "flag")
               /\ Stores /\ Same /\ UNCHANGED <<i, input, positionals>>

\* execute returns.
Fails == /\ returned' = TRUE /\ err' \in Errors \ {"0"}
         /\ owned' = IF err' = "MALLOC_ARGV" THEN owned - Freed ELSE owned
         /\ UNCHANGED <<argv, command, i, s, state, input, short_input, value, calls, role,
                        handler_argc, handler_argv, handler_cap, wild>>

Helps == /\ returned' = TRUE /\ state # "NONE" /\ Used(i + 1, "flag")
         /\ UNCHANGED <<argv, command, i, s, state, err, input, short_input, value, calls,
                        positionals>>

Finishes == /\ returned' = TRUE /\ state = "NONE" /\ i >= argc
            /\ \/ calls' = calls /\ owned' = owned
               \/ /\ calls' = Append(calls, [command |-> command, argc |-> handler_argc,
                                             argv |-> SubSeq(handler_argv, 1, handler_argc)])
                  /\ owned' = owned - Freed
            /\ UNCHANGED <<argv, command, i, s, state, err, input, short_input, value, role,
                           handler_argc, handler_argv, handler_cap, wild>>

Kinds == ~ returned /\ ( \/ Looks \/ Enters \/ Passes \/ Takes \/ TakesNext \/ TakesLetter
                         \/ Fails \/ Helps \/ Finishes )
-----------------------------------------------------------------------------
(* The invariants.                                                         *)

\* Types, of what the kinds of steps need.
TypeInv ==
  /\ argc \in Nat
  /\ command \in Commands /\ i \in 0 .. argc
  /\ state \in {"NONE", "FLAGS", "FLAGS_SHORT"} /\ (state # "NONE" => i < argc)
  /\ err \in Errors
  /\ {input, short_input, returned, wild} \subseteq BOOLEAN
  /\ handler_argc \in 0 .. i
  /\ value = [f \in Flags |-> value[f]]
  /\ role \in [1 .. argc -> SUBSET Roles]

\* Before any flag or positional argument was met no flag has been set.
OwnInv ==
  /\ state # "NONE" => input
  /\ ~ input => value = Default
  /\ OnlyOwnFlags

\* While execute runs no handler was called, every element behind it has been used, and
\* none before it, except letters of a cluster.
UseInv ==
  /\ ~ returned =>
       /\ calls = <<>> /\ err = "0"
       /\ \A k \in 1 .. argc :
            /\ k <= i => role[k] # {}
            /\ k > i => \/ role[k] = {}
                        \/ /\ k = i + 1 /\ role[k] = {"flag"}
                           /\ state = "FLAGS_SHORT" /\ short_input
  /\ Len(calls) \in 0 .. 1
  /\ EachArgumentUsedOnce
-----------------------------------------------------------------------------
(* Every step of the code is of one of the kinds.                          *)

\* set_flag changes the flag at hand or nothing.
LEMMA SetFlagStores ==
  ASSUME NEW f \in FlagsOf[command], NEW text, SetFlag(f, text)
  PROVE  Stores
BY DEF SetFlag, Accepts, Stores

\* ppp_c_flags_push_args.
LEMMA PushArgsPasses ==
  ASSUME ~ returned, i < argc, state = "FLAGS_SHORT" => ~ short_input, wild \in BOOLEAN,
         PushArgs(Current)
  PROVE  Kinds
<1>1. CASE err' = "MALLOC_ARGV" /\ returned' = TRUE /\ owned' = owned - Freed
           /\ UNCHANGED <<parameters, command, i, s, state, input, short_input, handler_argc,
                          handler_argv, handler_cap, wild, value, calls, role>>
  BY <1>1 DEF parameters, Fails, Kinds, Errors
<1>2. CASE /\ Pushes(Current)
           /\ handler_argc' = handler_argc + 1
           /\ i' = i + 1 /\ input' = TRUE /\ state' = "NONE"
           /\ Used(i + 1, "positional")
           /\ UNCHANGED <<parameters, command, s, short_input, err, value, returned, calls>>
  <2>1. wild' \in BOOLEAN
    BY <1>2, Zenon DEF Pushes
  <2> QED BY <1>2, <2>1 DEF parameters, Passes, Same, Kinds
<1> QED BY <1>1, <1>2, Zenon DEF PushArgs, Pushes

\* An error returns.
LEMMA FailStep ==
  ASSUME ~ returned, NEW e \in Errors \ {"0", "MALLOC_ARGV"}, Fail(e)
  PROVE  Kinds
BY DEF Fail, Fails, Kinds, parameters, positionals

\* A bool takes only its own element.
LEMMA BoolWithoutValueTakes ==
  ASSUME ~ returned, state # "NONE", i < argc, NEW f \in FlagsOf[command], BoolWithoutValue(f)
  PROVE  Kinds
<1>1. Stores  BY SetFlagStores DEF BoolWithoutValue
<1> QED BY <1>1 DEF BoolWithoutValue, Advance, Takes, Same, Kinds, parameters

\* A flag without a value: each way it can go.
LEMMA WithoutValueKinds ==
  ASSUME ~ returned, state # "NONE", i < argc,
         NEW f \in FlagsOf[command], WithoutValue(f)
  PROVE  Kinds
<1>1. CASE BoolWithoutValue(f)
  BY <1>1, BoolWithoutValueTakes
<1>2. CASE ValueNext(f) /\ Accepts(f, TextOf(argv[i + 2]))
  <2>1. SetFlag(f, TextOf(argv[i + 2]))
    BY <1>2 DEF ValueNext
  <2>2. Stores
    BY <2>1, SetFlagStores
  <2> QED BY <1>2, <2>2 DEF ValueNext, Advance, TakesNext, Same, Kinds, parameters
<1>3. CASE ValueNext(f) /\ ~ Accepts(f, TextOf(argv[i + 2]))
  <2>1. Fail("INVALID_ARGUMENT")
    BY <1>3 DEF ValueNext
  <2> QED BY <2>1, FailStep DEF Errors
<1>4. CASE ValueMissing(f)
  BY <1>4, FailStep DEF ValueMissing, Errors
<1> QED BY <1>1, <1>2, <1>3, <1>4 DEF WithoutValue

\* A flag with its value in the element.
LEMMA WithValueKinds ==
  ASSUME ~ returned, state # "NONE", i < argc,
         NEW f \in FlagsOf[command], NEW text, WithValue(f, text)
  PROVE  Kinds
<1>1. CASE Accepts(f, text)
  <2>1. SetFlag(f, text)
    BY <1>1 DEF WithValue
  <2>2. Stores
    BY <2>1, SetFlagStores
  <2> QED BY <1>1, <2>2 DEF WithValue, Advance, Takes, Same, Kinds, parameters
<1>2. CASE ~ Accepts(f, text)
  BY <1>2, FailStep DEF WithValue, Errors
<1> QED BY <1>1, <1>2

\* --help returns without an error.
LEMMA HelpStep ==
  ASSUME ~ returned, state # "NONE", Help
  PROVE  Kinds
BY DEF Help, Helps, Kinds, parameters

\* --help=text.
LEMMA HelpIsKinds ==
  ASSUME ~ returned, state # "NONE", i < argc, NEW text, HelpIs(text)
  PROVE  Kinds
<1>1. CASE ParseBool(text) = 0
  BY <1>1 DEF HelpIs, Advance, Takes, Stores, Same, Kinds, parameters
<1>2. CASE ParseBool(text) = 1
  BY <1>2, HelpStep DEF HelpIs
<1>3. CASE ParseBool(text) # 0 /\ ParseBool(text) # 1
  BY <1>3, FailStep DEF HelpIs, Errors
<1> QED BY <1>1, <1>2, <1>3

\* All ways through the three states of the machine.
LEMMA StepKinds ==
  ASSUME TypeInv, Next
  PROVE  Kinds
<1> USE DEF At
<1>0. wild \in BOOLEAN
  BY DEF TypeInv
<1>1. CASE Call
  BY <1>0, <1>1 DEF Call, Finishes, Kinds, parameters
<1>2. CASE LongArg
  BY <1>2 DEF LongArg, Looks, Same, Kinds, parameters, TypeInv
<1>3. CASE ShortArg
  BY <1>3 DEF ShortArg, Looks, Same, Kinds, parameters, TypeInv
<1>4. CASE Subcommand
  <2>1. command' \in Commands
    BY <1>4, ExecuteAssumption DEF Subcommand, IsSubcommand, TypeInv
  <2> QED BY <1>4, <2>1 DEF Subcommand, IsSubcommand, Enters, Kinds, parameters
<1>5. CASE Positional
  BY <1>0, <1>5, PushArgsPasses DEF Positional
<1>6. CASE NextFlags
  <2>1. ~ returned /\ state # "NONE" /\ i < argc /\ state = "FLAGS"
    BY <1>6 DEF NextFlags, TypeInv
  <2>2. CASE HelpIs(Current.text) \/ Help
    BY <1>0, <2>1, <2>2, HelpIsKinds, HelpStep
  <2>3. ASSUME NEW f \in FlagsOf[command], WithValue(f, Current.text) \/ WithoutValue(f)
        PROVE  Kinds
    BY <1>0, <2>1, <2>3, WithValueKinds, WithoutValueKinds
  <2>4. CASE Unknown(allow_unknow, "UNKNOW_FLAG")
    BY <1>0, <2>1, <2>4, PushArgsPasses, FailStep DEF Unknown, Errors
  <2> QED BY <1>6, <2>2, <2>3, <2>4 DEF NextFlags
<1>7. CASE NextShort
  <2>1. ~ returned /\ state # "NONE" /\ i < argc /\ state = "FLAGS_SHORT"
    BY <1>7 DEF NextShort, TypeInv
  <2>2. CASE HelpIs(SubSeq(s, 3, Len(s))) \/ Help
    BY <1>0, <2>1, <2>2, HelpIsKinds, HelpStep
  <2>3. ASSUME NEW f \in FlagsOf[command], ShortFlag(f)
        PROVE  Kinds
    <3>1. CASE WithoutValue(f) \/ WithValue(f, SubSeq(s, 3, Len(s))) \/ WithValue(f, Tail(s))
      BY <1>0, <2>1, <3>1, WithValueKinds, WithoutValueKinds
    <3>2. CASE ClusteredBool(f) /\ Len(s) > 1
      <4>1. Stores
        BY <3>2, SetFlagStores DEF ClusteredBool
      <4> QED BY <2>1, <3>2, <4>1 DEF ClusteredBool, TakesLetter, Same, Kinds, parameters
    <3> QED BY <2>3, <3>1, <3>2 DEF ShortFlag
  <2>4. CASE Unknown(PassShort, "UNKNOW_SHORT_FLAG")
    <3>1. CASE PassShort
      BY <1>0, <2>1, <2>4, <3>1, PushArgsPasses DEF Unknown, PassShort
    <3>2. CASE ~ PassShort
      BY <1>0, <2>1, <2>4, <3>2, FailStep DEF Unknown, Errors
    <3> QED BY <3>1, <3>2
  <2> QED BY <1>7, <2>2, <2>3, <2>4 DEF NextShort
<1> QED BY <1>1, <1>2, <1>3, <1>4, <1>5, <1>6, <1>7 DEF Next
-----------------------------------------------------------------------------
(* Type correctness.                                                       *)

\* execute is entered with nothing read.
LEMMA InitTypes == Init => TypeInv
<1> SUFFICES ASSUME Init
             PROVE  TypeInv
  OBVIOUS
<1>1. argc \in Nat
  BY ExecuteAssumption DEF Init, argc
<1>2. role \in [1 .. argc -> SUBSET Roles]
  BY <1>1 DEF Init, argc
<1>3. value = [f \in Flags |-> value[f]]
  BY ExecuteAssumption DEF Init
<1>4. command \in Commands
  BY ExecuteAssumption DEF Init
<1>5. {input, short_input, returned, wild} \subseteq BOOLEAN
  BY DEF Init
<1>6. i = 0 /\ handler_argc = 0 /\ state = "NONE" /\ err \in Errors
  BY DEF Init, Errors
<1> HIDE DEF Init
<1> QED BY <1>1, <1>2, <1>3, <1>4, <1>5, <1>6 DEF TypeInv

\* A store keeps the flags that there are.
LEMMA StoresTypes ==
  ASSUME Stores, value = [f \in Flags |-> value[f]]
  PROVE  value' = [f \in Flags |-> value'[f]]
BY DEF Stores

\* Each kind of step keeps the types.
LEMMA KindsKeepTypes ==
  ASSUME TypeInv, Kinds
  PROVE  TypeInv'
<1> USE DEF TypeInv
<1>0. /\ argc \in Nat /\ i \in 0 .. argc
      /\ handler_argc \in 0 .. i
  OBVIOUS
<1>a. argv' = argv
  BY DEF Kinds, Looks, Enters, Passes, Takes, TakesNext, TakesLetter, Fails, Helps, Finishes, Same
<1>b. argc' = argc
  BY <1>a DEF argc
<1> HIDE DEF TypeInv
<1>1. CASE Looks
  BY <1>1, <1>b DEF Looks, Same, positionals, TypeInv
<1>2. CASE Enters
  <2>1. role' \in [1 .. argc -> SUBSET Roles]
    BY <1>2 DEF Enters, Used, Roles, TypeInv
  <2> QED BY <1>2, <2>1, <1>b DEF Enters, positionals, TypeInv
<1>3. CASE Passes
  <2>1. role' \in [1 .. argc -> SUBSET Roles]
    BY <1>3 DEF Passes, Used, Roles, TypeInv
  <2> QED BY <1>3, <2>1, <1>b DEF Passes, Same, TypeInv
<1>4. CASE Takes
  <2>1. role' \in [1 .. argc -> SUBSET Roles]
    BY <1>4 DEF Takes, Used, Roles, TypeInv
  <2>2. value' = [f \in Flags |-> value'[f]]
    BY <1>4, StoresTypes DEF Takes, TypeInv
  <2> QED BY <1>4, <2>1, <2>2, <1>b DEF Takes, Same, positionals, TypeInv
<1>5. CASE TakesNext
  <2>1. role' \in [1 .. argc -> SUBSET Roles]
    BY <1>5 DEF TakesNext, Roles, TypeInv
  <2>2. value' = [f \in Flags |-> value'[f]]
    BY <1>5, StoresTypes DEF TakesNext, TypeInv
  <2> QED BY <1>5, <2>1, <2>2, <1>b DEF TakesNext, Same, positionals, TypeInv
<1>6. CASE TakesLetter
  <2>1. role' \in [1 .. argc -> SUBSET Roles]
    BY <1>6 DEF TakesLetter, Used, Roles, TypeInv
  <2>2. value' = [f \in Flags |-> value'[f]]
    BY <1>6, StoresTypes DEF TakesLetter, TypeInv
  <2> QED BY <1>6, <2>1, <2>2, <1>b DEF TakesLetter, Same, positionals, TypeInv
<1>7. CASE Fails
  BY <1>7, <1>b DEF Fails, TypeInv
<1>8. CASE Helps
  <2>1. role' \in [1 .. argc -> SUBSET Roles]
    BY <1>8 DEF Helps, Used, Roles, TypeInv
  <2> QED BY <1>8, <2>1, <1>b DEF Helps, positionals, TypeInv
<1>9. CASE Finishes
  BY <1>9, <1>b DEF Finishes, TypeInv
<1> QED BY <1>1, <1>2, <1>3, <1>4, <1>5, <1>6, <1>7, <1>8, <1>9 DEF Kinds

\* The history calls, which TypeOK bounds, is left to UseInv.
LEMMA TypesInvariant == Spec => []TypeInv
<1>1. TypeInv /\ [Next]_vars => TypeInv'
  <2>1. TypeInv /\ Next => TypeInv'
    BY StepKinds, KindsKeepTypes
  <2>2. TypeInv /\ UNCHANGED vars => TypeInv'
    BY DEF TypeInv, vars, argc
  <2> QED BY <2>1, <2>2
<1> QED BY <1>1, InitTypes, PTL DEF Spec
-----------------------------------------------------------------------------
(* What the flags hold.                                                    *)

\* No value that verify refused is ever stored, whatever parse and verify are and whichever
\* way the machine takes: ppp_c_flags_execute.
THEOREM RefusedValuesAreNotStored == Spec => []OnlyLegalValues
<1>1. Init => OnlyLegalValues
  BY DEF Init, OnlyLegalValues
<1>2. TypeInv /\ OnlyLegalValues /\ [Next]_vars => OnlyLegalValues'
  <2> SUFFICES ASSUME TypeInv, OnlyLegalValues, [Next]_vars
               PROVE  OnlyLegalValues'
    OBVIOUS
  <2>1. CASE value' = value
    BY <2>1 DEF OnlyLegalValues
  <2>2. ASSUME Stores
        PROVE  OnlyLegalValues'
    BY <2>2 DEF Stores, OnlyLegalValues, TypeInv
  <2>3. CASE Kinds
    BY <2>1, <2>2, <2>3 DEF Kinds, Looks, Enters, Passes, Takes, TakesNext, TakesLetter, Fails,
                            Helps, Finishes
  <2>4. CASE UNCHANGED vars
    BY <2>1, <2>4 DEF vars
  <2> QED BY <2>3, <2>4, StepKinds
<1> QED BY <1>1, <1>2, TypesInvariant, PTL DEF Spec

\* A store changes a flag of the command that is entered.
LEMMA StoresOwn ==
  ASSUME Stores, TypeInv, OnlyOwnFlags, command' = command
  PROVE  OnlyOwnFlags'
BY DEF Stores, TypeInv, OnlyOwnFlags

\* A handler finds only flags of its own command set, for every tree: ppp_c_flags_next_none
\* enters no subcommand after a flag of its parent.
THEOREM FlagsBelongToTheCommand == Spec => []OnlyOwnFlags
<1>1. Init => OwnInv
  BY DEF Init, OwnInv, OnlyOwnFlags
<1>2. TypeInv /\ OwnInv /\ [Next]_vars => OwnInv'
  <2> SUFFICES ASSUME TypeInv, OwnInv, [Next]_vars
               PROVE  OwnInv'
    OBVIOUS
  <2>1. CASE Kinds /\ Looks
    BY <2>1 DEF Looks, Same, OwnInv, OnlyOwnFlags
  <2>2. CASE Kinds /\ Enters
    BY <2>2 DEF Enters, OwnInv, OnlyOwnFlags
  <2>3. CASE Kinds /\ Passes
    BY <2>3 DEF Passes, Same, OwnInv, OnlyOwnFlags
  <2>4. CASE Kinds /\ (Takes \/ TakesNext \/ TakesLetter)
    <3>1. state # "NONE" /\ Stores /\ command' = command /\ input' = input
      BY <2>4 DEF Takes, TakesNext, TakesLetter, Same
    <3>2. OnlyOwnFlags'
      BY <3>1, StoresOwn DEF OwnInv
    <3> QED BY <3>1, <3>2 DEF OwnInv
  <2>5. CASE Kinds /\ (Fails \/ Helps \/ Finishes)
    BY <2>5 DEF Fails, Helps, Finishes, OwnInv, OnlyOwnFlags
  <2>6. CASE UNCHANGED vars
    BY <2>6 DEF vars, OwnInv, OnlyOwnFlags
  <2> QED BY <2>1, <2>2, <2>3, <2>4, <2>5, <2>6, StepKinds DEF Kinds
<1>3. OwnInv => OnlyOwnFlags
  BY DEF OwnInv
<1> QED BY <1>1, <1>2, <1>3, TypesInvariant, PTL DEF Spec
-----------------------------------------------------------------------------
(* What the elements are used for.                                         *)

\* The element at hand has not been used, unless as a cluster of flags.
LEMMA AtHand ==
  ASSUME TypeInv, UseInv, ~ returned, i < argc
  PROVE  /\ i + 1 \in 1 .. argc
         /\ role[i + 1] = {} \/ (role[i + 1] = {"flag"} /\ state = "FLAGS_SHORT" /\ short_input)
BY DEF TypeInv, UseInv

\* Using the element at hand and moving on to the next.
LEMMA UsesOne ==
  ASSUME TypeInv, UseInv, ~ returned, i < argc, NEW as,
         as = "flag" \/ role[i + 1] = {},
         Used(i + 1, as), i' = i + 1, state' = "NONE", argv' = argv, err' = err,
         returned' = returned, calls' = calls
  PROVE  UseInv'
<1>0. argc' = argc /\ argc \in Nat /\ i \in 0 .. argc /\ calls = <<>> /\ err = "0"
  BY DEF argc, TypeInv, UseInv
<1>1. role[i + 1] \cup {as} = {as}
  BY AtHand
<1>2. role' = [role EXCEPT ![i + 1] = {as}]
  BY <1>1 DEF Used
<1>3. \A j \in 1 .. argc : role'[j] = IF j = i + 1 THEN {as} ELSE role[j]
  BY <1>2 DEF TypeInv
<1>4. ASSUME NEW j \in 1 .. argc
      PROVE  /\ j <= i + 1 => role'[j] # {}
             /\ j > i + 1 => role'[j] = {}
             /\ \A a, b \in role'[j] : a = b
  <2>1. CASE j = i + 1
    <3>1. role'[j] = {as}
      BY <1>3, <2>1
    <3>2. ~ (j > i + 1)
      BY <1>0, <2>1
    <3>3. role'[j] # {} /\ \A a, b \in role'[j] : a = b
      BY <3>1
    <3> QED BY <3>2, <3>3
  <2>2. CASE j # i + 1
    BY <1>0, <1>3, <2>2 DEF UseInv, EachArgumentUsedOnce
  <2> QED BY <2>1, <2>2
<1> QED BY <1>0, <1>4 DEF UseInv, EachArgumentUsedOnce

\* Each kind of step uses what is at i, and moves behind it.
LEMMA KindsKeepUses ==
  ASSUME TypeInv, UseInv, Kinds
  PROVE  UseInv'
<1>0. /\ ~ returned /\ calls = <<>> /\ err = "0" /\ argc \in Nat /\ i \in 0 .. argc
      /\ state \in {"NONE", "FLAGS", "FLAGS_SHORT"}
  BY DEF Kinds, TypeInv, UseInv
<1>1. CASE Looks
  <2>1. argc' = argc
    BY <1>1 DEF Looks, Same, argc
  <2>2. \A j \in 1 .. argc : j > i => role[j] = {}
    BY <1>0, <1>1 DEF Looks, UseInv
  <2>3. i' = i /\ role' = role /\ returned' = returned /\ calls' = calls /\ err' = err
    BY <1>1 DEF Looks, Same
  <2>4. \A j \in 1 .. argc : j <= i => role[j] # {}
    BY <1>0 DEF UseInv
  <2>5. \A j \in 1 .. argc : \A a, b \in role[j] : a = b
    BY DEF UseInv, EachArgumentUsedOnce
  <2>6. Len(calls) \in 0 .. 1
    BY DEF UseInv
  <2> QED BY <1>0, <2>1, <2>2, <2>3, <2>4, <2>5, <2>6 DEF UseInv, EachArgumentUsedOnce
<1>2. CASE Enters
  BY <1>0, <1>2, UsesOne, AtHand DEF Enters
<1>3. CASE Passes
  BY <1>0, <1>3, UsesOne, AtHand DEF Passes, Same
<1>4. CASE Takes
  BY <1>0, <1>4, UsesOne DEF Takes, Same
<1>5. CASE TakesNext
  <2>1. argc' = argc /\ i + 1 \in 1 .. argc /\ i + 2 \in 1 .. argc
    BY <1>0, <1>5 DEF TakesNext, Same, argc
  <2>2. role[i + 1] \subseteq {"flag"} /\ role[i + 2] = {}
    BY <1>0, <1>5, <2>1 DEF TakesNext, UseInv
  <2>3. \A j \in 1 .. argc : role'[j] = IF j = i + 1 THEN {"flag"}
                                        ELSE IF j = i + 2 THEN {"value"} ELSE role[j]
    <3>1. role[i + 1] \cup {"flag"} = {"flag"} /\ role[i + 2] \cup {"value"} = {"value"}
      BY <2>2
    <3>2. role' = [role EXCEPT ![i + 1] = {"flag"}, ![i + 2] = {"value"}]
      BY <1>5, <3>1 DEF TakesNext
    <3>3. role \in [1 .. argc -> SUBSET Roles] /\ i + 1 # i + 2
      BY <1>0 DEF TypeInv
    <3> SUFFICES ASSUME NEW j \in 1 .. argc
                 PROVE  role'[j] = IF j = i + 1 THEN {"flag"}
                                   ELSE IF j = i + 2 THEN {"value"} ELSE role[j]
      OBVIOUS
    <3>4. CASE j = i + 1
      BY <2>1, <3>2, <3>3, <3>4
    <3>5. CASE j = i + 2
      BY <2>1, <3>2, <3>3, <3>5
    <3>6. CASE j # i + 1 /\ j # i + 2
      BY <2>1, <3>2, <3>3, <3>6
    <3> QED BY <3>4, <3>5, <3>6
  <2>4. ASSUME NEW j \in 1 .. argc
        PROVE  /\ j <= i + 2 => role'[j] # {}
               /\ j > i + 2 => role'[j] = {}
               /\ \A a, b \in role'[j] : a = b
    <3>1. CASE j \in {i + 1, i + 2}
      BY <1>0, <2>3, <3>1
    <3>2. CASE j \notin {i + 1, i + 2}
      BY <1>0, <2>3, <3>2 DEF UseInv, EachArgumentUsedOnce
    <3> QED BY <3>1, <3>2
  <2> QED BY <1>0, <1>5, <2>1, <2>4 DEF TakesNext, Same, UseInv, EachArgumentUsedOnce
<1>6. CASE TakesLetter
  <2>1. argc' = argc /\ i + 1 \in 1 .. argc /\ i < argc
    BY <1>0, <1>6 DEF TakesLetter, Same, argc, TypeInv
  <2>2. role[i + 1] \cup {"flag"} = {"flag"}
    BY <1>0, <2>1, AtHand
  <2>3. \A j \in 1 .. argc : role'[j] = IF j = i + 1 THEN {"flag"} ELSE role[j]
    BY <1>6, <2>1, <2>2 DEF TakesLetter, Used, TypeInv
  <2>4. ASSUME NEW j \in 1 .. argc
        PROVE  /\ j <= i => role'[j] # {}
               /\ j > i => role'[j] = {} \/ (j = i + 1 /\ role'[j] = {"flag"})
               /\ \A a, b \in role'[j] : a = b
    <3>1. CASE j = i + 1
      BY <1>0, <2>3, <3>1
    <3>2. CASE j # i + 1
      BY <1>0, <2>3, <3>2 DEF UseInv, EachArgumentUsedOnce
    <3> QED BY <3>1, <3>2
  <2>5. /\ i' = i /\ returned' = returned /\ calls' = calls /\ err' = err
        /\ state' = "FLAGS_SHORT" /\ short_input'
    BY <1>6 DEF TakesLetter, Same
  <2>6. Len(calls) \in 0 .. 1
    BY DEF UseInv
  <2> QED BY <1>0, <2>1, <2>4, <2>5, <2>6 DEF UseInv, EachArgumentUsedOnce
<1>7. CASE Fails
  <2>1. argc' = argc
    BY <1>7 DEF Fails, argc
  <2> QED BY <1>0, <1>7, <2>1 DEF Fails, UseInv, EachArgumentUsedOnce
<1>8. CASE Helps
  <2>1. argc' = argc /\ i + 1 \in 1 .. argc /\ i < argc
    BY <1>0, <1>8 DEF Helps, argc, TypeInv
  <2>2. role[i + 1] \cup {"flag"} = {"flag"}
    BY <1>0, <2>1, AtHand
  <2>3. \A j \in 1 .. argc : role'[j] = IF j = i + 1 THEN {"flag"} ELSE role[j]
    BY <1>8, <2>1, <2>2 DEF Helps, Used, TypeInv
  <2>4. \A j \in 1 .. argc : \A a, b \in role'[j] : a = b
    BY <2>3 DEF UseInv, EachArgumentUsedOnce
  <2> QED BY <1>0, <1>8, <2>1, <2>4 DEF Helps, UseInv, EachArgumentUsedOnce
<1>9. CASE Finishes
  <2>1. argc' = argc /\ i = argc
    BY <1>0, <1>9 DEF Finishes, argc
  <2>2. \A j \in 1 .. argc : role[j] # {}
    BY <1>0, <2>1 DEF UseInv
  <2>3. Len(calls') \in 0 .. 1
    BY <1>0, <1>9 DEF Finishes
  <2> QED BY <1>0, <1>9, <2>1, <2>2, <2>3 DEF Finishes, UseInv, EachArgumentUsedOnce
<1> QED BY <1>1, <1>2, <1>3, <1>4, <1>5, <1>6, <1>7, <1>8, <1>9 DEF Kinds

\* What is behind i has been used, once.
LEMMA UsesInvariant == Spec => []UseInv
<1>1. Init => UseInv
  <2> SUFFICES ASSUME Init
               PROVE  UseInv
    OBVIOUS
  <2>1. TypeInv
    BY InitTypes
  <2>2. \A j \in 1 .. argc : role[j] = {} /\ ~ (j <= i)
    BY <2>1 DEF Init, argc, TypeInv
  <2>3. calls = <<>> /\ err = "0" /\ Len(calls) = 0
    BY DEF Init
  <2> QED BY <2>2, <2>3 DEF UseInv, EachArgumentUsedOnce
<1>2. TypeInv /\ UseInv /\ [Next]_vars => UseInv'
  <2>1. TypeInv /\ UseInv /\ Next => UseInv'
    BY StepKinds, KindsKeepUses
  <2>2. UseInv /\ UNCHANGED vars => UseInv'
    BY DEF UseInv, EachArgumentUsedOnce, vars, argc
  <2> QED BY <2>1, <2>2
<1> QED BY <1>1, <1>2, TypesInvariant, PTL DEF Spec

\* Before the first positional argument there is no room in handler_argv, so that the first push
\* takes a block.
BlockInv == OneBlock /\ (handler_argc = 0 => handler_cap = 0)

\* Each kind of step keeps what is owned of handler_argv.
LEMMA KindsKeepBlock ==
  ASSUME TypeInv, UseInv, BlockInv, Kinds
  PROVE  BlockInv'
<1>1. /\ calls = <<>> /\ err = "0" /\ handler_argc \in Nat
      /\ owned = IF handler_argc > 0 THEN 1 ELSE 0
      /\ handler_argc = 0 => handler_cap = 0
  BY DEF Kinds, TypeInv, UseInv, BlockInv, OneBlock
<1>2. owned - Freed = 0
  BY <1>1 DEF Freed, First
<1>3. CASE Looks \/ Enters \/ Takes \/ TakesNext \/ TakesLetter \/ Helps
  <2>1. UNCHANGED <<handler_argc, handler_cap, owned, calls, err>>
    BY <1>3 DEF Looks, Enters, Takes, TakesNext, TakesLetter, Helps, Same, positionals
  <2> QED BY <2>1 DEF BlockInv, OneBlock
<1>4. CASE Passes
  <2>1. /\ handler_argc' = handler_argc + 1 /\ UNCHANGED <<calls, err>>
        /\ owned' = IF Full THEN owned + 1 - Freed ELSE owned
    BY <1>4 DEF Passes, Pushes, Same
  <2>2. First => Full /\ owned + 1 - Freed = 1
    BY <1>1 DEF First, Full, Freed
  <2>3. ~ First => owned = 1 /\ owned + 1 - Freed = 1
    BY <1>1 DEF First, Freed
  <2>4. owned' = 1
    BY <2>1, <2>2, <2>3
  <2> QED BY <1>1, <2>1, <2>4 DEF BlockInv, OneBlock
<1>5. CASE Fails
  <2>1. /\ UNCHANGED <<handler_argc, handler_cap, calls>>
        /\ owned' = IF err' = "MALLOC_ARGV" THEN owned - Freed ELSE owned
    BY <1>5 DEF Fails
  <2> QED BY <1>1, <1>2, <2>1 DEF BlockInv, OneBlock
<1>6. CASE Finishes
  <2>1. /\ UNCHANGED <<handler_argc, handler_cap, err>>
        /\ \/ calls' = calls /\ owned' = owned
           \/ calls' # <<>> /\ owned' = owned - Freed
    BY <1>1, <1>6 DEF Finishes
  <2> QED BY <1>1, <1>2, <2>1 DEF BlockInv, OneBlock
<1> QED BY <1>3, <1>4, <1>5, <1>6 DEF Kinds

\* The inductive invariant of what is owned.
LEMMA BlockInvariant == Spec => []BlockInv
<1>1. Init => BlockInv
  BY DEF Init, BlockInv, OneBlock
<1>2. TypeInv /\ UseInv /\ BlockInv /\ [Next]_vars => BlockInv'
  <2>1. TypeInv /\ UseInv /\ BlockInv /\ Next => BlockInv'
    BY StepKinds, KindsKeepBlock
  <2>2. BlockInv /\ UNCHANGED vars => BlockInv'
    BY DEF BlockInv, OneBlock, vars
  <2> QED BY <2>1, <2>2
<1> QED BY <1>1, <1>2, TypesInvariant, UsesInvariant, PTL DEF Spec

\* handler_argv is one block from the first positional argument on, through every growth and for
\* every command line.  It is freed once, by the call of a handler or a failing malloc, and
\* left exactly where execute ends with another error, the help or no handler.
THEOREM HandlerArgvIsOneBlock == Spec => []OneBlock
<1>1. BlockInv => OneBlock
  BY DEF BlockInv
<1> QED BY <1>1, BlockInvariant, PTL

\* Type correctness of the machine; in particular argv is not read past its end, and no
\* handler is called twice.
THEOREM TypeCorrect == Spec => []TypeOK
<1>1. TypeInv /\ UseInv /\ BlockInv => TypeOK
  <2>1. BlockInv => owned \in 0 .. 1
    BY DEF BlockInv, OneBlock
  <2> QED BY <2>1 DEF TypeInv, UseInv, TypeOK, Errors
<1> QED BY <1>1, TypesInvariant, UsesInvariant, BlockInvariant, PTL

\* Every element of every command line is used for one thing, and the handler is called
\* only when all of them were.
THEOREM ArgumentsAreUsedOnce == Spec => []EachArgumentUsedOnce
<1>1. UseInv => EachArgumentUsedOnce
  BY DEF UseInv
<1> QED BY <1>1, UsesInvariant, PTL
-----------------------------------------------------------------------------
(* What the handler is given.                                              *)

\* Where the k-th element of argv is among the positional arguments, if it is one.
Place(k) == Cardinality(PositionalIndices \cap (1 .. k))
HasPositionals(buffer) == \A k \in PositionalIndices : buffer[Place(k)] = argv[k]

\* What handler_argv is while the first allocation lasts: it has room for Chunk pointers or for
\* all elements that are left.
BufferInv ==
  /\ ~ wild
  /\ handler_argv \in Seq(Args \cup {Uninit})
  /\ handler_argc = 0 => handler_cap = 0
  /\ handler_argc # 0 =>
       /\ handler_cap = Len(handler_argv) /\ handler_argc <= handler_cap
       /\ handler_cap = Chunk \/ handler_cap >= handler_argc + (argc - i)
  /\ HasPositionals(handler_argv)
  /\ \A n \in DOMAIN calls : calls[n].argc = handler_argc /\ HasPositionals(calls[n].argv)

PositionalInv ==
  /\ argv \in Seq(Args)
  /\ PositionalIndices \subseteq 1 .. i
  /\ handler_argc = Cardinality(PositionalIndices)
  /\ handler_argc <= Chunk => BufferInv

\* The places of the positional arguments are those of handler_argv.
LEMMA PlacesFit ==
  ASSUME TypeInv, PositionalInv
  PROVE  \A k \in PositionalIndices : Place(k) \in 1 .. handler_argc /\ k \in 1 .. argc
<1>1. i \in Nat /\ argc \in Nat
  BY DEF TypeInv
<1>2. IsFiniteSet(1 .. i)
  BY <1>1, FS_Interval
<1>3. IsFiniteSet(PositionalIndices)
  BY <1>2, FS_Subset DEF PositionalInv
<1> SUFFICES ASSUME NEW k \in PositionalIndices
             PROVE  Place(k) \in 1 .. handler_argc /\ k \in 1 .. argc
  OBVIOUS
<1> DEFINE Q == PositionalIndices \cap (1 .. k)
<1>4. k \in 1 .. argc /\ k \in Q
  BY <1>1 DEF PositionalIndices
<1>5. IsFiniteSet(Q) /\ Cardinality(Q) <= Cardinality(PositionalIndices)
  BY <1>3, FS_Subset
<1>6. Cardinality(Q) \in Nat /\ Cardinality(Q) # 0
  BY <1>4, <1>5, FS_CardinalityType, FS_EmptySet
<1>7. handler_argc \in Nat
  BY <1>1 DEF TypeInv
<1> QED BY <1>4, <1>5, <1>6, <1>7 DEF Place, PositionalInv

\* Steps that pass nothing on keep the positional arguments.
LEMMA NoneAdded ==
  ASSUME TypeInv, PositionalInv,
         PositionalIndices' = PositionalIndices, argv' = argv, i' \in Nat, i <= i', i' <= argc,
         calls' = calls, UNCHANGED <<handler_argc, handler_argv, handler_cap, wild>>
  PROVE  PositionalInv'
<1>1. /\ argc' = argc /\ argc \in Nat /\ i \in Nat /\ handler_argc \in Nat /\ Chunk \in Nat
      /\ argv' \in Seq(Args)
  BY ExecuteAssumption DEF argc, TypeInv, PositionalInv
<1>2. PositionalIndices' \subseteq 1 .. i'
  BY <1>1 DEF PositionalInv
<1>3. handler_argc' = Cardinality(PositionalIndices')
  BY DEF PositionalInv
<1>4. \A buffer : HasPositionals(buffer)' <=> HasPositionals(buffer)
  BY DEF HasPositionals, Place
<1>5. ASSUME BufferInv
      PROVE  BufferInv'
  <2>1. HasPositionals(handler_argv)'
    BY <1>5 DEF BufferInv, HasPositionals, Place
  <2>2. \A n \in DOMAIN calls' : calls'[n].argc = handler_argc' /\ HasPositionals(calls[n].argv)'
    BY <1>5 DEF BufferInv, HasPositionals, Place
  <2>3. Len(handler_argv) \in Nat
    BY <1>5, LenProperties DEF BufferInv
  <2>4. handler_argc' # 0 =>
          /\ handler_cap' = Len(handler_argv') /\ handler_argc' <= handler_cap'
          /\ handler_cap' = Chunk \/ handler_cap' >= handler_argc' + (argc' - i')
    BY <1>1, <1>5, <2>3 DEF BufferInv
  <2>5. ~ wild' /\ handler_argv' \in Seq(Args \cup {Uninit})
        /\ (handler_argc' = 0 => handler_cap' = 0)
    BY <1>5 DEF BufferInv
  <2> QED BY <2>1, <2>2, <2>4, <2>5 DEF BufferInv
<1> QED BY <1>1, <1>2, <1>3, <1>5 DEF PositionalInv

\* What is used as a flag, a value or a subcommand is not passed on.
LEMMA UsedOtherwise ==
  ASSUME TypeInv, NEW as, as # "positional", i < argc, Used(i + 1, as), argv' = argv
  PROVE  PositionalIndices' = PositionalIndices
<1>1. argc' = argc /\ i + 1 \in 1 .. argc
  BY DEF argc, TypeInv
<1>2. \A k \in 1 .. argc : "positional" \in role'[k] <=> "positional" \in role[k]
  <2> SUFFICES ASSUME NEW k \in 1 .. argc
               PROVE  "positional" \in role'[k] <=> "positional" \in role[k]
    OBVIOUS
  <2>1. role'[k] = IF k = i + 1 THEN role[k] \cup {as} ELSE role[k]
    BY <1>1 DEF Used, TypeInv
  <2> QED BY <2>1
<1> QED BY <1>1, <1>2 DEF PositionalIndices

\* push_args: the element passed on is the last positional argument.
LEMMA OneAdded ==
  ASSUME TypeInv, PositionalInv, i < argc, Used(i + 1, "positional"), argv' = argv, i' = i + 1
  PROVE  /\ PositionalIndices' = PositionalIndices \cup {i + 1}
         /\ Cardinality(PositionalIndices') = handler_argc + 1
         /\ \A k : k = i + 1 => Place(k)' = handler_argc + 1
         /\ \A k \in PositionalIndices : Place(k)' = Place(k)
<1>1. argc' = argc /\ i + 1 \in 1 .. argc /\ i \in Nat
  BY DEF argc, TypeInv
<1>2. PositionalIndices' = PositionalIndices \cup {i + 1}
  <2>1. \A k \in 1 .. argc : "positional" \in role'[k] <=> k = i + 1 \/ "positional" \in role[k]
    <3> SUFFICES ASSUME NEW k \in 1 .. argc
                 PROVE  "positional" \in role'[k] <=> k = i + 1 \/ "positional" \in role[k]
      OBVIOUS
    <3>1. role'[k] = IF k = i + 1 THEN role[k] \cup {"positional"} ELSE role[k]
      BY <1>1 DEF Used, TypeInv
    <3> QED BY <3>1
  <2> QED BY <1>1, <2>1 DEF PositionalIndices
<1>3. PositionalIndices \subseteq 1 .. i /\ i + 1 \notin PositionalIndices
  BY <1>1 DEF PositionalInv
<1>4. IsFiniteSet(PositionalIndices)
  <2>1. IsFiniteSet(1 .. i)
    BY <1>1, FS_Interval
  <2> QED BY <1>3, <2>1, FS_Subset
<1>5. Cardinality(PositionalIndices') = handler_argc + 1
  BY <1>2, <1>3, <1>4, FS_AddElement DEF PositionalInv
<1>6. PositionalIndices' \cap (1 .. i + 1) = PositionalIndices'
  <2>1. \A k \in PositionalIndices \cup {i + 1} : k \in 1 .. i + 1
    BY <1>1, <1>3
  <2> QED BY <1>2, <2>1
<1>7. ASSUME NEW k \in PositionalIndices
      PROVE  PositionalIndices' \cap (1 .. k) = PositionalIndices \cap (1 .. k)
  BY <1>1, <1>2, <1>3
<1> QED BY <1>1, <1>2, <1>5, <1>6, <1>7 DEF Place

\* Up to Chunk of them push_args never allocates a second time.
LEMMA PassesKeeps ==
  ASSUME TypeInv, PositionalInv, ~ returned, calls = <<>>, Passes
  PROVE  PositionalInv'
<1>1. /\ argv' = argv /\ argc' = argc /\ argc \in Nat /\ i \in Nat /\ i < argc /\ i' = i + 1
      /\ handler_argc \in Nat /\ handler_argc' = handler_argc + 1 /\ Chunk \in Nat \ {0}
      /\ argv \in Seq(Args) /\ calls' = <<>> /\ Pushes(Current) /\ Used(i + 1, "positional")
  BY ExecuteAssumption DEF Passes, Same, argc, TypeInv, PositionalInv
<1>2. /\ PositionalIndices' = PositionalIndices \cup {i + 1}
      /\ Cardinality(PositionalIndices') = handler_argc + 1
      /\ \A k : k = i + 1 => Place(k)' = handler_argc + 1
      /\ \A k \in PositionalIndices : Place(k)' = Place(k)
  BY <1>1, OneAdded
<1>3. PositionalIndices' \subseteq 1 .. i'
  BY <1>1, <1>2 DEF PositionalInv
<1>4. ASSUME handler_argc + 1 <= Chunk
      PROVE  BufferInv'
  <2>1. BufferInv
    BY <1>1, <1>4 DEF PositionalInv
  <2>2. Current \in Args /\ Current = argv[i + 1]
    BY <1>1, ElementOfSeq DEF Current, argc
  <2>3. /\ Buffer \in Seq(Args \cup {Uninit}) /\ handler_argc + 1 \in 1 .. Len(Buffer)
        /\ handler_cap' = Len(Buffer)
        /\ Len(Buffer) = Chunk \/ Len(Buffer) >= handler_argc' + (argc' - i')
        /\ ~ (Full /\ ~ First)
        /\ \A k \in 1 .. handler_argc : Buffer[k] = handler_argv[k]
    <3>1. CASE First
      <4>1. handler_argc = 0 /\ handler_cap = 0 /\ Full
        BY <1>1, <2>1, <3>1 DEF BufferInv, First, Full
      <4>2. Room \in Nat /\ Room >= 1 /\ (Room = Chunk \/ Room = argc - i)
        BY <1>1, <4>1 DEF Room
      <4>3. Buffer = [k \in 1 .. Room |-> Uninit]
        BY <3>1, <4>1 DEF Buffer
      <4>4. Buffer \in Seq(Args \cup {Uninit}) /\ Len(Buffer) = Room
        BY <4>2, <4>3
      <4>5. handler_cap' = Room
        BY <1>1, <3>1, <4>1 DEF Pushes
      <4> QED BY <1>1, <3>1, <4>1, <4>2, <4>4, <4>5
    <3>2. CASE ~ First
      <4>1. /\ handler_cap = Len(handler_argv) /\ Len(handler_argv) \in Nat
            /\ handler_cap = Chunk \/ handler_cap >= handler_argc + (argc - i)
        BY <2>1, <3>2, LenProperties DEF BufferInv, First
      <4>2. ~ Full
        BY <1>1, <1>4, <4>1 DEF Full
      <4>3. Buffer = handler_argv
        BY <4>2 DEF Buffer
      <4>4. handler_argc + 1 <= Len(handler_argv)
        BY <1>1, <4>1, <4>2 DEF Full
      <4>5. handler_cap' = handler_cap
        BY <1>1, <4>2 DEF Pushes
      <4> QED BY <1>1, <2>1, <4>1, <4>2, <4>3, <4>4, <4>5 DEF BufferInv
    <3> QED BY <3>1, <3>2
  <2>4. Len(Buffer) \in Nat /\ DOMAIN Buffer = 1 .. Len(Buffer)
    BY <2>3, LenProperties
  <2>5. handler_argv' = [Buffer EXCEPT ![handler_argc + 1] = Current]
    BY <1>1, <2>3, <2>4 DEF Pushes
  <2>6. /\ handler_argv' \in Seq(Args \cup {Uninit}) /\ Len(handler_argv') = Len(Buffer)
        /\ handler_argv'[handler_argc + 1] = Current
        /\ \A k \in 1 .. handler_argc : handler_argv'[k] = handler_argv[k]
    <3>1. handler_argv' \in Seq(Args \cup {Uninit}) /\ Len(handler_argv') = Len(Buffer)
      BY <2>2, <2>3, <2>5, ExceptSeq
    <3>2. \A k \in 1 .. Len(Buffer) :
            handler_argv'[k] = IF k = handler_argc + 1 THEN Current ELSE Buffer[k]
      BY <2>4, <2>5
    <3>3. \A k \in 1 .. handler_argc : k \in 1 .. Len(Buffer) /\ k # handler_argc + 1
      BY <1>1, <2>3, <2>4
    <3> QED BY <2>3, <3>1, <3>2, <3>3
  <2>7. ~ wild'
    <3>1. wild' = (wild \/ handler_argc >= Len(Buffer)
                       \/ (Full /\ ~ First /\ handler_argc > Room * PtrSize))
      BY <1>1 DEF Pushes
    <3>2. ~ wild
      BY <2>1 DEF BufferInv
    <3>3. ~ (handler_argc >= Len(Buffer))
      BY <1>1, <2>3, <2>4
    <3> QED BY <2>3, <3>1, <3>2, <3>3, Zenon
  <2>8. handler_argc' # 0
    BY <1>1
  <2>9. HasPositionals(handler_argv)'
    <3>1. ASSUME NEW k \in PositionalIndices
          PROVE  handler_argv'[Place(k)'] = argv[k]
      <4>1. Place(k) \in 1 .. handler_argc
        BY PlacesFit
      <4>2. handler_argv[Place(k)] = argv[k]
        BY <2>1 DEF BufferInv, HasPositionals
      <4> QED BY <1>2, <2>6, <4>1, <4>2
    <3>2. \A k : k = i + 1 => handler_argv'[Place(k)'] = argv[k]
      BY <1>2, <2>2, <2>6
    <3>3. ASSUME NEW k \in PositionalIndices'
          PROVE  handler_argv'[Place(k)'] = argv[k]
      <4>1. k \in PositionalIndices \/ k = i + 1
        BY <1>2
      <4>2. CASE k = i + 1
        BY <3>2, <4>2
      <4> QED BY <3>1, <4>1, <4>2
    <3> QED BY <1>1, <3>3 DEF HasPositionals
  <2>10. /\ handler_cap' = Len(handler_argv') /\ handler_argc' <= handler_cap'
         /\ handler_cap' = Chunk \/ handler_cap' >= handler_argc' + (argc' - i')
    BY <1>1, <2>3, <2>4, <2>6
  <2>11. DOMAIN calls' = {}
    BY <1>1
  <2> QED BY <2>6, <2>7, <2>8, <2>9, <2>10, <2>11 DEF BufferInv
<1> QED BY <1>1, <1>2, <1>3, <1>4 DEF PositionalInv

\* ppp_c_flags_call hands over handler_argv as it is.
LEMMA FinishesKeeps ==
  ASSUME TypeInv, PositionalInv, calls = <<>>, Finishes
  PROVE  PositionalInv'
<1>1. /\ argv' = argv /\ argc' = argc /\ argc \in Nat /\ i \in Nat /\ i' = i
      /\ handler_argc \in Nat /\ Chunk \in Nat
      /\ UNCHANGED <<role, handler_argc, handler_argv, handler_cap, wild>>
      /\ PositionalIndices' = PositionalIndices
  BY ExecuteAssumption DEF Finishes, argc, TypeInv, PositionalIndices
<1>2. CASE calls' = calls
  <2>1. i <= argc
    BY DEF TypeInv
  <2> QED BY <1>1, <1>2, <2>1, NoneAdded
<1>3. CASE calls' = Append(calls, [command |-> command, argc |-> handler_argc,
                                   argv |-> SubSeq(handler_argv, 1, handler_argc)])
  <2>1. /\ DOMAIN calls' = {1} /\ calls'[1].argc = handler_argc
        /\ calls'[1].argv = SubSeq(handler_argv, 1, handler_argc)
    BY <1>3
  <2>2. ASSUME BufferInv
        PROVE  BufferInv'
    <3>1. /\ handler_argc # 0 => handler_argc <= Len(handler_argv)
          /\ Len(handler_argv) \in Nat
      BY <1>1, <2>2, LenProperties DEF BufferInv
    <3>2. \A k \in 1 .. handler_argc : SubSeq(handler_argv, 1, handler_argc)[k] = handler_argv[k]
      BY <1>1, <2>2, <3>1 DEF BufferInv
    <3>3. HasPositionals(SubSeq(handler_argv, 1, handler_argc))
      BY <2>2, <3>2, PlacesFit DEF HasPositionals, BufferInv
    <3>4. HasPositionals(calls[1].argv)'
      BY <1>1, <2>1, <3>3 DEF HasPositionals, Place
    <3>5. HasPositionals(handler_argv)'
      BY <1>1, <2>2 DEF HasPositionals, Place, BufferInv
    <3>6. \A n \in DOMAIN calls' : calls'[n].argc = handler_argc' /\ HasPositionals(calls[n].argv)'
      BY <1>1, <2>1, <3>4
    <3>7. /\ ~ wild' /\ handler_argv' \in Seq(Args \cup {Uninit})
          /\ handler_argc' = 0 => handler_cap' = 0
          /\ handler_argc' # 0 =>
               /\ handler_cap' = Len(handler_argv') /\ handler_argc' <= handler_cap'
               /\ handler_cap' = Chunk \/ handler_cap' >= handler_argc' + (argc' - i')
      BY <1>1, <2>2 DEF BufferInv
    <3> QED BY <3>5, <3>6, <3>7 DEF BufferInv
  <2> QED BY <1>1, <2>2 DEF PositionalInv
<1> QED BY <1>2, <1>3 DEF Finishes

\* Each kind of step keeps the positional arguments in their places.
LEMMA KindsKeepPositionals ==
  ASSUME TypeInv, UseInv, PositionalInv, Kinds
  PROVE  PositionalInv'
<1>1. ~ returned /\ calls = <<>> /\ i \in Nat /\ argc \in Nat /\ i <= argc
  BY DEF Kinds, UseInv, TypeInv
<1>2. CASE Looks
  BY <1>1, <1>2, NoneAdded DEF Looks, Same, positionals, PositionalIndices, argc
<1>3. CASE Enters
  BY <1>1, <1>3, NoneAdded, UsedOtherwise DEF Enters, positionals
<1>4. CASE Passes
  BY <1>1, <1>4, PassesKeeps
<1>5. CASE Takes
  BY <1>1, <1>5, NoneAdded, UsedOtherwise DEF Takes, Same, positionals
<1>6. CASE TakesNext
  <2>1. argc' = argc /\ i + 1 \in 1 .. argc /\ i + 2 \in 1 .. argc
    BY <1>1, <1>6 DEF TakesNext, Same, argc
  <2>2. \A k \in 1 .. argc : "positional" \in role'[k] <=> "positional" \in role[k]
    <3> SUFFICES ASSUME NEW k \in 1 .. argc
                 PROVE  "positional" \in role'[k] <=> "positional" \in role[k]
      OBVIOUS
    <3>1. role'[k] = IF k = i + 2 THEN role[k] \cup {"value"}
                     ELSE IF k = i + 1 THEN role[k] \cup {"flag"} ELSE role[k]
      BY <1>1, <1>6, <2>1 DEF TakesNext, TypeInv
    <3> QED BY <3>1
  <2>3. PositionalIndices' = PositionalIndices
    BY <2>1, <2>2 DEF PositionalIndices
  <2> QED BY <1>1, <1>6, <2>1, <2>3, NoneAdded DEF TakesNext, Same, positionals
<1>7. CASE TakesLetter
  <2>1. i < argc
    BY <1>7 DEF TakesLetter, TypeInv
  <2> QED BY <1>1, <1>7, <2>1, NoneAdded, UsedOtherwise DEF TakesLetter, Same, positionals
<1>8. CASE Fails
  BY <1>1, <1>8, NoneAdded DEF Fails, PositionalIndices, argc
<1>9. CASE Helps
  <2>1. i < argc
    BY <1>9 DEF Helps, TypeInv
  <2> QED BY <1>1, <1>9, <2>1, NoneAdded, UsedOtherwise DEF Helps, positionals
<1>10. CASE Finishes
  BY <1>1, <1>10, FinishesKeeps
<1> QED BY <1>2, <1>3, <1>4, <1>5, <1>6, <1>7, <1>8, <1>9, <1>10 DEF Kinds

\* The inductive invariant of handler_argv.
LEMMA PositionalsInvariant == Spec => []PositionalInv
<1>1. Init => PositionalInv
  <2> SUFFICES ASSUME Init
               PROVE  PositionalInv
    OBVIOUS
  <2>1. argv \in Seq(Args) /\ TypeInv
    BY InitTypes, ExecuteAssumption DEF Init
  <2>2. PositionalIndices = {}
    BY DEF Init, PositionalIndices, argc
  <2>3. handler_argc = 0 /\ Cardinality({}) = 0
    BY FS_EmptySet DEF Init
  <2>4. BufferInv
    BY <2>2, ExecuteAssumption DEF Init, BufferInv, HasPositionals
  <2> QED BY <2>1, <2>2, <2>3, <2>4 DEF PositionalInv
<1>2. TypeInv /\ UseInv /\ PositionalInv /\ [Next]_vars => PositionalInv'
  <2>1. TypeInv /\ UseInv /\ PositionalInv /\ Next => PositionalInv'
    BY StepKinds, KindsKeepPositionals
  <2>2. PositionalInv /\ UNCHANGED vars => PositionalInv'
    BY DEF PositionalInv, BufferInv, HasPositionals, Place, PositionalIndices, argc, vars,
           positionals
  <2> QED BY <2>1, <2>2
<1> QED BY <1>1, <1>2, TypesInvariant, UsesInvariant, PTL DEF Spec

\* Up to Chunk positional arguments, the 32 pointers handler_argv first has room for, every
\* handler is called with all of them, in their order, and nothing is written outside of the
\* array: for every command line.  With one more the second allocation breaks both.
THEOREM HandlerGetsUpToChunk ==
  Spec => [](Cardinality(PositionalIndices) <= Chunk => HandlerGetsPositionals)
<1>1. PositionalInv => (Cardinality(PositionalIndices) <= Chunk => HandlerGetsPositionals)
  BY DEF PositionalInv, BufferInv, HasPositionals, Place, HandlerGetsPositionals
<1> QED BY <1>1, PositionalsInvariant, PTL
-----------------------------------------------------------------------------
(* Every step goes on.                                                     *)

\* While letters are read, s is a text.
LettersInv ==
  /\ \A k \in 1 .. argc : argv[k] \in Args
  /\ state = "FLAGS_SHORT" => \E S : s \in Seq(S)

\* What is left becomes less: execute returns, or passes at least one element, or
\* has looked at the element at hand, or has one letter less of it.
GoesOn ==
  /\ ~ returned
  /\ \/ returned'
     \/ i < i' /\ i' <= argc
     \/ i' = i /\ state = "NONE" /\ state' # "NONE"
     \/ i' = i /\ state = "FLAGS_SHORT" /\ state' = state /\ Len(s') < Len(s)

\* Every kind of step goes on, and leaves the rest of a cluster of letters a text.
LEMMA KindsGoOn ==
  ASSUME TypeInv, LettersInv, Kinds
  PROVE  GoesOn /\ LettersInv'
<1>1. argc \in Nat /\ i \in 0 .. argc /\ (state # "NONE" => i < argc)
  BY DEF TypeInv
<1>2. argv' = argv /\ argc' = argc
  BY DEF Kinds, Looks, Enters, Passes, Takes, TakesNext, TakesLetter, Fails, Helps, Finishes,
         Same, argc
<1>3. CASE Looks
  <2>1. GoesOn
    BY <1>3 DEF Looks, GoesOn, Kinds
  <2>2. state' = "FLAGS_SHORT" => \E S : s' \in Seq(S)
    <3> SUFFICES ASSUME state' = "FLAGS_SHORT"
                 PROVE  \E S : s' \in Seq(S)
      OBVIOUS
    <3>1. s' = Current.text /\ Current.k = "short" /\ i + 1 \in 1 .. argc
      BY <1>1, <1>3 DEF Looks
    <3>2. Current \in Args
      BY <3>1 DEF LettersInv, Current
    <3>3. Current.text \in Seq({Current.text[j] : j \in DOMAIN Current.text})
      BY <3>1, <3>2, ExecuteAssumption
    <3> QED BY <3>1, <3>3
  <2> QED BY <1>2, <2>1, <2>2 DEF LettersInv
<1>4. CASE Enters \/ Passes \/ Takes \/ TakesNext
  <2>1. i' \in {i + 1, i + 2} /\ i' <= argc /\ state' = "NONE"
    BY <1>1, <1>4 DEF Enters, Passes, Takes, TakesNext
  <2>2. GoesOn
    BY <1>1, <2>1 DEF GoesOn, Kinds
  <2> QED BY <1>2, <2>1, <2>2 DEF LettersInv
<1>5. CASE TakesLetter
  <2>1. state = "FLAGS_SHORT" /\ state' = state /\ Len(s) > 1 /\ s' = Tail(s) /\ i' = i
    BY <1>5 DEF TakesLetter
  <2>2. PICK S : s \in Seq(S)
    BY <2>1 DEF LettersInv
  <2>3. s # <<>>
    BY <2>1
  <2>4. Tail(s) \in Seq(S) /\ Len(Tail(s)) = Len(s) - 1 /\ Len(s) \in Nat
    BY <2>2, <2>3, HeadTailProperties, LenProperties
  <2>5. GoesOn
    BY <2>1, <2>4 DEF GoesOn, Kinds
  <2> QED BY <1>2, <2>1, <2>4, <2>5 DEF LettersInv
<1>6. CASE Fails \/ Helps \/ Finishes
  <2>1. GoesOn
    BY <1>6 DEF Fails, Helps, Finishes, GoesOn, Kinds
  <2>2. s' = s /\ state' = state
    BY <1>6 DEF Fails, Helps, Finishes
  <2> QED BY <1>2, <2>1, <2>2 DEF LettersInv
<1> QED BY <1>3, <1>4, <1>5, <1>6 DEF Kinds

\* Every step of execute makes what is left of the command line less, in the order elements,
\* look, letters, and none is made after it returned: no command line keeps the loop of
\* ppp_c_flags_execute going.  This is the part of Terminates that needs no fairness.
THEOREM EveryStepGoesOn == Spec => [][GoesOn]_vars
<1>1. Init => LettersInv
  BY ExecuteAssumption DEF Init, LettersInv, argc
<1>2. TypeInv /\ LettersInv /\ [Next]_vars => LettersInv' /\ [GoesOn]_vars
  <2> SUFFICES ASSUME TypeInv, LettersInv, [Next]_vars
               PROVE  LettersInv' /\ [GoesOn]_vars
    OBVIOUS
  <2>1. CASE Next
    BY <2>1, StepKinds, KindsGoOn
  <2>2. CASE UNCHANGED vars
    BY <2>2 DEF vars, LettersInv, argc
  <2> QED BY <2>1, <2>2
<1> QED BY <1>1, <1>2, TypesInvariant, PTL DEF Spec
=============================================================================
