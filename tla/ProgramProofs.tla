---------------------------- MODULE ProgramProofs ----------------------------
(***************************************************************************)
(* Theorems about Program for every command line, every path in argv[0],   *)
(* every way addresses and numbers are parsed and every call that fails.   *)
(***************************************************************************)
EXTENDS Program, SequenceTheorems, TLAPS

\* The flags behind the first n of those main has added.
Rest(n) == [k \in 1 .. added - n |-> n + k]
Nodes(n) == {R!CommandNode(1)} \cup {R!FlagNode(f) : f \in n + 1 .. added}

\* The command as main makes it: without parent and subcommands, its flags in their order.
CommandInv ==
  /\ commands = 1 /\ flags = added
  /\ parent[1] = R!None /\ child[1] = << >> /\ flag[1] = Rest(0)
  /\ \A k \in 1 .. added : fname[k] = Names[k] /\ short[k] = Letter[Names[k]] /\ var[k] = R!NoValue
Built == CommandInv /\ phase = "build" /\ stack = << >> /\ held = Nodes(0)

\* command_destroy is one call, which has freed the first n flags.
Destroying ==
  /\ CommandInv /\ phase = "destroy"
  /\ \E n \in 0 .. added, at \in {"next", "child", "flags"} :
       stack = <<[c |-> 1, at |-> at, left |-> Rest(n)]>> /\ held = Nodes(n)

\* What main holds where it is.
RegistryInv ==
  /\ faults = {} /\ added \in 0 .. Len(Names)
  /\ fname = [f \in R!Flags |-> fname[f]] /\ short = [f \in R!Flags |-> short[f]]
  /\ var = [f \in R!Flags |-> var[f]]
  /\ flag = [c \in R!Commands |-> flag[c]]
  /\ parent = [c \in R!Commands |-> parent[c]]
  /\ pc = "create" =>
       /\ phase = "create" /\ commands = 0 /\ flags = 0 /\ added = 0 /\ held = {} /\ stack = << >>
       /\ flag[1] = << >> /\ child[1] = << >>
  /\ pc = "add" => added < Len(Names)
  /\ pc = "execute" => added = Len(Names)
  /\ pc \notin {"create", "FAIL", "exit"} => Built
  /\ pc = "FAIL" => Built \/ Destroying
  /\ pc = "exit" => held = {}

\* What execute leaves: legal values, a handler called or an error, and at most one block.
ExecuteInv ==
  /\ DOMAIN value = Flags /\ E!OnlyLegalValues
  /\ command = "root" /\ returned \in BOOLEAN
  /\ ~ returned => calls = << >> /\ err = "0"
  /\ calls # << >> => err = "0"
  /\ handler_argc \in Nat /\ (handler_argc = 0 => handler_cap = 0)
  /\ E!OneBlock

\* How far main and root_handler have come.
InHandler == {"root_handler", "evthread", "balancer", "serving"}
ControlInv ==
  /\ pc \in {"create", "add", "execute", "result", "FAIL", "exit"} \cup InHandler
  /\ status \in -1 .. 1 /\ handler_result \in -1 .. 0
  /\ pc \in {"create", "add", "execute"} => ~ returned
  /\ pc \in InHandler \cup {"result"} => returned
  /\ pc \in InHandler => calls # << >>
  /\ pc = "serving" => served
  /\ pc = "result" /\ calls # << >> => handler_result = -1 \/ served
  /\ pc \notin {"result", "FAIL", "exit"} => handler_result = 0
  /\ pc = "result" /\ calls = << >> => handler_result = 0
  /\ pc \in {"FAIL", "exit"} /\ status = 0 => served \/ (returned /\ err = "0" /\ calls = << >>)
  /\ pc \in {"evthread", "balancer", "serving"} => addr \in 1 .. MaxPort
  /\ \A k \in DOMAIN balancer : balancer[k].worker \in 2 .. 255 /\ balancer[k].balance \in {1, 2}

IInv == RegistryInv /\ ExecuteInv /\ ControlInv
-----------------------------------------------------------------------------
(* The steps of execute.                                                   *)

\* At most one flag is changed, to a value its verify lets pass; execute goes on, with an
\* argument passed to handler_argv or not, fails, prints the help or calls the handler.  Only the
\* call and a failing malloc free handler_argv.
Stores == \/ value' = value
          \/ \E f \in Flags : \E x \in Legal[f] : value' = [value EXCEPT ![f] = x]
Keeps  == UNCHANGED <<handler_argc, handler_cap, owned>>
Pushes == /\ handler_argc' = handler_argc + 1
          /\ owned' = IF E!Full THEN owned + 1 - E!Freed ELSE owned
Frees  == UNCHANGED <<handler_argc, handler_cap>> /\ owned' = owned - E!Freed
Outcome ==
  \/ UNCHANGED <<returned, err, calls>> /\ (Keeps \/ Pushes)
  \/ returned' = TRUE /\ err' \notin {"0", "MALLOC_ARGV"} /\ calls' = calls /\ Keeps
  \/ returned' = TRUE /\ err' = "MALLOC_ARGV" /\ calls' = calls /\ Frees
  \/ returned' = TRUE /\ err' = err /\ calls' = calls /\ Keeps
  \/ returned' = TRUE /\ err' = err /\ Frees /\ \E c : calls' = Append(calls, c)
Step == Stores /\ Outcome /\ command' = command

\* set_flag changes the flag at hand or nothing.
LEMMA SetFlagStores ==
  ASSUME NEW f \in Flags, NEW text, E!SetFlag(f, text)
  PROVE  Stores
BY DEF E!SetFlag, E!Accepts, Stores

\* An error returns.
LEMMA FailStep ==
  ASSUME NEW e, e \notin {"0", "MALLOC_ARGV"}, E!Fail(e)
  PROVE  Step
BY DEF E!Fail, E!positionals, Step, Stores, Outcome, Keeps

\* push_args stores no flag.
LEMMA PushArgsStep ==
  ASSUME NEW a, E!PushArgs(a)
  PROVE  Step
<1>1. CASE UNCHANGED <<command, err, value, returned, calls>> /\ Pushes
  BY <1>1 DEF Step, Stores, Outcome
<1>2. CASE /\ err' = "MALLOC_ARGV" /\ returned' = TRUE /\ UNCHANGED <<command, value, calls>>
           /\ Frees
  BY <1>2 DEF Step, Stores, Outcome
<1> QED BY <1>1, <1>2, Zenon DEF E!PushArgs, Pushes, Frees

\* A flag without a value: each way it can go.
LEMMA WithoutValueStep ==
  ASSUME NEW f \in Flags, E!WithoutValue(f)
  PROVE  Step
<1>1. CASE E!BoolWithoutValue(f)
  <2>1. Stores
    BY <1>1, SetFlagStores DEF E!BoolWithoutValue
  <2> QED BY <1>1, <2>1 DEF E!BoolWithoutValue, E!positionals, Step, Outcome, Keeps
<1>2. CASE E!ValueNext(f) /\ E!Accepts(f, E!TextOf(argv[i + 2]))
  <2>1. Stores
    BY <1>2, SetFlagStores DEF E!ValueNext
  <2> QED BY <1>2, <2>1 DEF E!ValueNext, E!positionals, Step, Outcome, Keeps
<1>3. CASE E!Fail("INVALID_ARGUMENT")
  BY <1>3, FailStep
<1> QED BY <1>1, <1>2, <1>3 DEF E!WithoutValue, E!ValueNext, E!ValueMissing

\* A flag with its value in the element.
LEMMA WithValueStep ==
  ASSUME NEW f \in Flags, NEW text, E!WithValue(f, text)
  PROVE  Step
<1>1. CASE E!Accepts(f, text)
  <2>1. Stores
    BY <1>1, SetFlagStores DEF E!WithValue
  <2> QED BY <1>1, <2>1 DEF E!WithValue, E!positionals, Step, Outcome, Keeps
<1>2. CASE ~ E!Accepts(f, text)
  BY <1>2, FailStep DEF E!WithValue
<1> QED BY <1>1, <1>2

\* --help returns without an error.
LEMMA HelpStep ==
  ASSUME E!Help  PROVE Step
BY DEF E!Help, E!positionals, Step, Stores, Outcome, Keeps

\* --help=text.
LEMMA HelpIsStep ==
  ASSUME NEW text, E!HelpIs(text)  PROVE Step
<1>1. CASE ParseBool(text) = 0
  BY <1>1 DEF E!HelpIs, E!positionals, Step, Stores, Outcome, Keeps
<1>2. CASE ParseBool(text) = 1
  BY <1>2, HelpStep DEF E!HelpIs
<1>3. CASE ParseBool(text) # 0 /\ ParseBool(text) # 1
  BY <1>3, FailStep DEF E!HelpIs
<1> QED BY <1>1, <1>2, <1>3

\* Every step of execute is one of those.
LEMMA ExecuteSteps ==
  ASSUME ExecuteInv, E!Next
  PROVE  Step
<1>0. command = "root" /\ [c \in {"root"} |-> Flags][command] = Flags
      /\ DOMAIN [c \in {"root"} |-> << >>][command] = {}
  BY DEF ExecuteInv
<1>1. CASE E!Call
  <2>1. Stores /\ returned' = TRUE /\ err' = err /\ command' = command
    BY <1>1 DEF E!Call, Stores
  <2>2. command \in {"root"}
    BY <1>0
  <2>3. Frees /\ \E c : calls' = Append(calls, c)
    BY <1>1, <2>2 DEF E!Call, Frees
  <2> QED BY <2>1, <2>3 DEF Step, Outcome
<1>2. CASE E!LongArg \/ E!ShortArg
  BY <1>2 DEF E!LongArg, E!ShortArg, E!positionals, Step, Stores, Outcome, Keeps
<1>3. CASE E!Subcommand
  BY <1>0, <1>3 DEF E!Subcommand, E!IsSubcommand
<1>4. CASE E!Positional
  BY <1>4, PushArgsStep DEF E!Positional
<1>5. CASE E!NextFlags
  <2>1. CASE E!HelpIs(E!Current.text) \/ E!Help
    BY <2>1, HelpIsStep, HelpStep
  <2>2. ASSUME NEW f \in Flags, E!WithValue(f, E!Current.text) \/ E!WithoutValue(f)
        PROVE  Step
    BY <2>2, WithValueStep, WithoutValueStep
  <2>3. CASE E!Unknown(allow_unknow, "UNKNOW_FLAG")
    BY <2>3, PushArgsStep, FailStep DEF E!Unknown
  <2> QED BY <1>0, <1>5, <2>1, <2>2, <2>3 DEF E!NextFlags
<1>6. CASE E!NextShort
  <2>1. CASE E!HelpIs(SubSeq(s, 3, Len(s))) \/ E!Help
    BY <2>1, HelpIsStep, HelpStep
  <2>2. ASSUME NEW f \in Flags, E!ShortFlag(f)
        PROVE  Step
    <3>1. CASE E!WithoutValue(f) \/ E!WithValue(f, SubSeq(s, 3, Len(s))) \/ E!WithValue(f, Tail(s))
      BY <3>1, WithValueStep, WithoutValueStep
    <3>2. CASE E!ClusteredBool(f)
      <4>1. Stores
        BY <3>2, SetFlagStores DEF E!ClusteredBool
      <4> QED BY <3>2, <4>1 DEF E!ClusteredBool, E!positionals, Step, Outcome, Keeps
    <3> QED BY <2>2, <3>1, <3>2 DEF E!ShortFlag
  <2>3. CASE E!Unknown(E!PassShort, "UNKNOW_SHORT_FLAG")
    <3>1. CASE E!PassShort
      BY <2>3, <3>1, PushArgsStep DEF E!Unknown, E!PassShort
    <3>2. CASE ~ E!PassShort
      BY <2>3, <3>2, FailStep DEF E!Unknown, E!PassShort
    <3> QED BY <3>1, <3>2
  <2> QED BY <1>0, <1>6, <2>1, <2>2, <2>3 DEF E!NextShort
<1> QED BY <1>1, <1>2, <1>3, <1>4, <1>5, <1>6 DEF E!Next

\* What execute has stored is legal, and it calls a handler or reports an error.
LEMMA StepKeeps ==
  ASSUME ExecuteInv, ~ returned, Step
  PROVE  ExecuteInv'
<1>1. DOMAIN value' = Flags /\ E!OnlyLegalValues'
  <2>1. CASE value' = value
    BY <2>1 DEF ExecuteInv, E!OnlyLegalValues
  <2>2. ASSUME NEW f \in Flags, NEW x \in Legal[f], value' = [value EXCEPT ![f] = x]
        PROVE  DOMAIN value' = Flags /\ E!OnlyLegalValues'
    BY <2>2 DEF ExecuteInv, E!OnlyLegalValues
  <2> QED BY <2>1, <2>2 DEF Step, Stores
<1>2. calls = << >> /\ err = "0" /\ command = "root" /\ command' = "root" /\ returned \in BOOLEAN
  BY DEF ExecuteInv, Step
<1>3. (~ returned' => calls' = << >> /\ err' = "0") /\ (calls' # << >> => err' = "0")
      /\ returned' \in BOOLEAN
  BY <1>2 DEF Step, Outcome
<1>4. /\ handler_argc \in Nat /\ (handler_argc = 0 => handler_cap = 0)
      /\ owned = IF handler_argc > 0 THEN 1 ELSE 0
  BY <1>2 DEF ExecuteInv, E!OneBlock
<1>5. owned - E!Freed = 0
  BY <1>4 DEF E!Freed, E!First
<1>d. handler_argc' \in Nat =>
        (E!OneBlock' <=> owned' = IF handler_argc' > 0 /\ calls' = << >> /\ err' # "MALLOC_ARGV"
                                  THEN 1 ELSE 0)
  BY DEF E!OneBlock
<1> DEFINE Block == handler_argc \in Nat /\ (handler_argc = 0 => handler_cap = 0) /\ E!OneBlock
<1>6. ASSUME Keeps, calls' = calls, err' # "MALLOC_ARGV"
      PROVE  Block'
  BY <1>2, <1>4, <1>6, <1>d DEF Keeps
<1>7. ASSUME Pushes, calls' = calls, err' = err
      PROVE  Block'
  <2>1. E!First => E!Full /\ owned + 1 - E!Freed = 1
    BY <1>4 DEF E!First, E!Full, E!Freed
  <2>2. ~ E!First => owned = 1 /\ owned + 1 - E!Freed = 1
    BY <1>4 DEF E!First, E!Freed
  <2>3. owned' = 1 /\ handler_argc' = handler_argc + 1
    BY <1>7, <2>1, <2>2 DEF Pushes
  <2> QED BY <1>2, <1>4, <1>7, <1>d, <2>3
<1>8. ASSUME Frees, err' = "MALLOC_ARGV" \/ calls' # << >>
      PROVE  Block'
  BY <1>4, <1>5, <1>8, <1>d DEF Frees
<1>9. Block'
  <2>1. \A c : Append(calls, c) # << >>
    BY <1>2
  <2> QED BY <1>2, <1>6, <1>7, <1>8, <2>1 DEF Step, Outcome
<1> QED BY <1>1, <1>2, <1>3, <1>9 DEF ExecuteInv
-----------------------------------------------------------------------------
(* The command of main and its flags.                                      *)

\* The flags of main, spelled out.
LEMMA FourFlags ==
  /\ Len(Names) = 4 /\ DOMAIN Names = 1 .. 4 /\ Flags = {"sync", "addr", "balance", "worker"}
  /\ \A f \in Flags : \E k \in 1 .. 4 : Names[k] = f
  /\ R!Flags = 1 .. 4 /\ R!Commands = {1} /\ R!root = 1 /\ R!NoValue = 0 /\ R!None = 0
<1>1. Len(Names) = 4 /\ DOMAIN Names = 1 .. 4
  BY DEF Names
<1>2. Names[1] = "sync" /\ Names[2] = "addr" /\ Names[3] = "balance" /\ Names[4] = "worker"
  BY DEF Names
<1>3. 1 .. 4 = {1, 2, 3, 4}
  OBVIOUS
<1>4. Flags = {"sync", "addr", "balance", "worker"}
  <2>1. Flags = {Names[k] : k \in {1, 2, 3, 4}}
    BY <1>1, <1>3 DEF Flags
  <2>2. \A f : f \in Flags <=> \E k \in {1, 2, 3, 4} : f = Names[k]
    BY <2>1
  <2>3. \A f : f \in Flags <=> f = Names[1] \/ f = Names[2] \/ f = Names[3] \/ f = Names[4]
    BY <2>2
  <2> QED BY <1>2, <2>3
<1>5. \A f \in Flags : \E k \in 1 .. 4 : Names[k] = f
  BY <1>2, <1>3, <1>4
<1>6. R!Commands = {1}
  BY DEF R!Commands
<1> QED BY <1>1, <1>4, <1>5, <1>6 DEF R!Flags, R!root, R!NoValue, R!None

\* Lists of flags.
LEMMA RestIsAList ==
  ASSUME added \in 0 .. 4, NEW n \in 0 .. added
  PROVE  /\ Rest(n) \in Seq(Nat) /\ Len(Rest(n)) = added - n
         /\ n < added => Rest(n)[1] = n + 1 /\ Tail(Rest(n)) = Rest(n + 1)
<1>1. /\ added - n \in Nat /\ DOMAIN Rest(n) = 1 .. added - n
      /\ \A k \in 1 .. added - n : Rest(n)[k] = n + k /\ n + k \in Nat
  BY DEF Rest
<1>2. Rest(n) \in Seq(Nat) /\ Len(Rest(n)) = added - n
  BY <1>1 DEF Rest
<1>3. n < added => Rest(n) # << >>
  BY <1>2, EmptySeq
<1>4. ASSUME n < added
      PROVE  Rest(n)[1] = n + 1 /\ Tail(Rest(n)) = Rest(n + 1)
  <2>1. 1 \in 1 .. added - n
    BY <1>4
  <2>2. Len(Tail(Rest(n))) = added - (n + 1) /\ Tail(Rest(n)) \in Seq(Nat)
        /\ \A k \in 1 .. added - (n + 1) : Tail(Rest(n))[k] = Rest(n)[k + 1]
    BY <1>2, <1>3, <1>4, HeadTailProperties
  <2>3. \A k \in 1 .. added - (n + 1) : k + 1 \in 1 .. added - n /\ n + (k + 1) = (n + 1) + k
    OBVIOUS
  <2>4. \A k \in 1 .. added - (n + 1) : Tail(Rest(n))[k] = (n + 1) + k
    BY <1>1, <2>2, <2>3
  <2>5. Tail(Rest(n)) = [k \in 1 .. added - (n + 1) |-> Tail(Rest(n))[k]]
    BY <2>2, LenProperties
  <2> QED BY <1>1, <2>1, <2>4, <2>5 DEF Rest
<1> QED BY <1>2, <1>4

\* The list is at its end when all flags are freed.
LEMMA RestIsEmpty ==
  ASSUME added \in 0 .. 4
  PROVE  \A n \in 0 .. added : (Rest(n) = << >>) <=> (n = added)
<1> SUFFICES ASSUME NEW n \in 0 .. added
             PROVE  (Rest(n) = << >>) <=> (n = added)
  OBVIOUS
<1>1. Rest(n) \in Seq(Nat) /\ Len(Rest(n)) = added - n
  BY RestIsAList
<1> QED BY <1>1, EmptySeq

\* Nodes of different flags differ, and none is the command.
LEMMA NodesDiffer ==
  ASSUME NEW f, NEW g
  PROVE  /\ R!CommandNode(1) # R!FlagNode(f)
         /\ R!FlagNode(f) = R!FlagNode(g) => f = g
BY DEF R!CommandNode, R!FlagNode

\* Freeing the next flag leaves those behind it, freeing the command leaves none.
LEMMA NodesLeft ==
  ASSUME added \in 0 .. 4, NEW n \in 0 .. added
  PROVE  /\ n < added => /\ R!FlagNode(n + 1) \in Nodes(n)
                         /\ Nodes(n) \ {R!FlagNode(n + 1)} = Nodes(n + 1)
         /\ Nodes(added) = {R!CommandNode(1)}
<1>1. added + 1 .. added = {}
  OBVIOUS
<1>2. ASSUME n < added
      PROVE  n + 1 .. added = {n + 1} \cup (n + 2 .. added) /\ n + 1 \notin n + 2 .. added
             /\ (n + 1) + 1 = n + 2
  BY <1>2
<1>3. ASSUME n < added
      PROVE  /\ R!FlagNode(n + 1) \in Nodes(n)
             /\ Nodes(n) \ {R!FlagNode(n + 1)} = Nodes(n + 1)
  <2>1. Nodes(n) = {R!CommandNode(1)} \cup {R!FlagNode(n + 1)} \cup {R!FlagNode(f) : f \in n + 2 .. added}
    BY <1>2, <1>3 DEF Nodes
  <2>2. R!FlagNode(n + 1) \notin {R!CommandNode(1)} \cup {R!FlagNode(f) : f \in n + 2 .. added}
    BY <1>2, <1>3, NodesDiffer
  <2>3. Nodes(n + 1) = {R!CommandNode(1)} \cup {R!FlagNode(f) : f \in n + 2 .. added}
    BY <1>2, <1>3 DEF Nodes
  <2> QED BY <2>1, <2>2, <2>3
<1>4. Nodes(added) = {R!CommandNode(1)}
  BY <1>1 DEF Nodes
<1> QED BY <1>3, <1>4

\* The one frame of command_destroy.
LEMMA OneFrame ==
  ASSUME NEW t, stack = <<t>>
  PROVE  /\ R!Top = t /\ R!Below = << >>
         /\ \A x : Append(R!Below, x) = <<x>> /\ Append(R!Below, x) \o << >> = <<x>>
<1>1. Len(stack) = 1 /\ stack[1] = t /\ SubSeq(stack, 1, 0) = << >>
  OBVIOUS
<1>2. Len(stack) - 1 = 0
  BY <1>1
<1>3. R!Below = << >> /\ R!Top = t
  BY <1>1, <1>2 DEF R!Below, R!Top
<1>4. \A x : Append(<< >>, x) = <<x>> /\ <<x>> \o << >> = <<x>>
  OBVIOUS
<1> QED BY <1>3, <1>4
\* command_create: the command, or nothing.
LEMMA CreateStep ==
  ASSUME RegistryInv, Create
  PROVE  RegistryInv'
<1>1. PICK p \in Paths : R!CommandCreate(BaseName(p))
  BY DEF Create
<1>2. /\ pc = "create" /\ added' = added
      /\ refused' => pc' = "exit"
      /\ ~ refused' => pc' = "add"
  BY DEF Create
<1>3. /\ phase = "create" /\ commands = 0 /\ flags = 0 /\ added = 0 /\ held = {} /\ stack = << >>
      /\ flag[1] = << >> /\ child[1] = << >> /\ faults = {}
      /\ fname = [f \in R!Flags |-> fname[f]] /\ short = [f \in R!Flags |-> short[f]]
      /\ var = [f \in R!Flags |-> var[f]]
      /\ flag = [c \in R!Commands |-> flag[c]] /\ parent = [c \in R!Commands |-> parent[c]]
  BY <1>2 DEF RegistryInv
<1>4. CASE R!Refuse
  <2>1. refused' /\ UNCHANGED <<held, faults, fname, short, var, flag, parent>>
    BY <1>4 DEF R!Refuse, R!tree, R!memory
  <2> QED BY <1>2, <1>3, <2>1, FourFlags DEF RegistryInv
<1>5. CASE /\ R!NewCommand(R!None, BaseName(p)) /\ phase' = "build" /\ UNCHANGED child
  <2>1. /\ commands' = 1 /\ parent' = [parent EXCEPT ![1] = R!None]
        /\ held' = {R!CommandNode(1)} /\ refused' = FALSE
        /\ UNCHANGED <<flags, flag, fname, short, var, faults, stack>>
    BY <1>3, <1>5 DEF R!NewCommand
  <2>2. parent'[1] = R!None /\ parent' = [c \in R!Commands |-> parent'[c]]
    BY <1>3, <2>1, FourFlags
  <2>3. added' = 0 /\ 1 .. 0 = {} /\ 0 + 1 .. 0 = {}
    BY <1>2, <1>3
  <2>4. Rest(0)' = << >> /\ Nodes(0)' = {R!CommandNode(1)}
    <3>1. Rest(0)' = [k \in 1 .. 0 - 0 |-> 0 + k]
      BY <2>3 DEF Rest
    <3>2. 0 - 0 = 0 /\ Nodes(0)' = {R!CommandNode(1)} \cup {R!FlagNode(f) : f \in 0 + 1 .. 0}
      BY <2>3 DEF Nodes
    <3> QED BY <2>3, <3>1, <3>2
  <2>5. Built'
    BY <1>3, <1>5, <2>1, <2>2, <2>3, <2>4 DEF Built, CommandInv
  <2> QED BY <1>2, <1>3, <2>1, <2>2, <2>3, <2>5, FourFlags DEF RegistryInv
<1> QED BY <1>1, <1>4, <1>5 DEF R!CommandCreate

\* add_flag of the next flag: it is the last of the list, or nothing has changed.
LEMMA AddNextStep ==
  ASSUME RegistryInv, AddNext
  PROVE  RegistryInv'
<1> DEFINE new == added + 1
<1>1. /\ pc = "add" /\ R!AddFlag(R!root, Names[new], Letter[Names[new]], "scalar", R!NoValue)
      /\ IF refused' THEN pc' = "FAIL" /\ UNCHANGED added
         ELSE added' = new /\ pc' = IF added' = Len(Names) THEN "execute" ELSE "add"
  BY DEF AddNext
<1>2. /\ added \in 0 .. 3 /\ Built /\ CommandInv /\ faults = {}
      /\ fname = [f \in R!Flags |-> fname[f]] /\ short = [f \in R!Flags |-> short[f]]
      /\ var = [f \in R!Flags |-> var[f]]
      /\ flag = [c \in R!Commands |-> flag[c]] /\ parent = [c \in R!Commands |-> parent[c]]
  BY <1>1, FourFlags DEF RegistryInv, Built
<1>3. CASE R!Refuse
  <2>1. refused' /\ UNCHANGED <<phase, commands, flags, parent, child, flag, fname, short, var, held, faults, stack>>
    BY <1>3 DEF R!Refuse, R!tree, R!memory
  <2>2. added' = added /\ pc' = "FAIL"
    BY <1>1, <2>1
  <2>3. Built'
    BY <1>2, <2>1, <2>2 DEF Built, CommandInv, Rest, Nodes
  <2> QED BY <1>2, <2>1, <2>2, <2>3, FourFlags DEF RegistryInv
<1>4. CASE ~ R!Refuse
  <2>1. /\ flags' = flags + 1
        /\ fname' = [fname EXCEPT ![flags + 1] = Names[new]]
        /\ short' = [short EXCEPT ![flags + 1] = Letter[Names[new]]]
        /\ var' = [var EXCEPT ![flags + 1] = R!NoValue]
        /\ flag' = [flag EXCEPT ![1] = Append(flag[1], flags + 1)]
        /\ held' = held \cup {R!FlagNode(flags + 1)}
        /\ refused' = FALSE
        /\ UNCHANGED <<phase, commands, parent, child, faults, stack>>
    BY <1>1, <1>4, FourFlags DEF R!AddFlag
  <2>2. flags = added /\ added' = new /\ flags' = new /\ new \in 1 .. 4 /\ 0 \in 0 .. added
        /\ pc' = IF new = 4 THEN "execute" ELSE "add"
    BY <1>1, <1>2, <2>1, FourFlags DEF CommandInv
  <2>3. fname' = [f \in R!Flags |-> fname'[f]] /\ short' = [f \in R!Flags |-> short'[f]]
        /\ var' = [f \in R!Flags |-> var'[f]] /\ flag' = [c \in R!Commands |-> flag'[c]]
    BY <1>2, <2>1
  <2>4. flag'[1] = Append(Rest(0), new)
    BY <1>2, <2>1, <2>2, FourFlags DEF CommandInv
  <2>5. Append(Rest(0), new) = [k \in 1 .. new |-> k]
    <3>1. Rest(0) = [k \in 1 .. added |-> k] /\ added \in Nat
      <4>1. added - 0 = added /\ \A k \in 1 .. added : 0 + k = k
        BY <1>2
      <4> QED BY <1>2, <4>1 DEF Rest
    <3> QED BY <3>1
  <2>6. Rest(0)' = [k \in 1 .. new |-> k]
    <3>1. new - 0 = new /\ \A k \in 1 .. new : 0 + k = k
      BY <2>2
    <3> QED BY <2>2, <3>1 DEF Rest
  <2>7. Nodes(0)' = Nodes(0) \cup {R!FlagNode(new)}
    <3>1. 0 + 1 .. new = (0 + 1 .. added) \cup {new}
      BY <1>2
    <3>2. Nodes(0)' = {R!CommandNode(1)} \cup {R!FlagNode(f) : f \in 0 + 1 .. new}
      BY <2>2 DEF Nodes
    <3> QED BY <3>1, <3>2 DEF Nodes
  <2>8. \A k \in 1 .. new : fname'[k] = Names[k] /\ short'[k] = Letter[Names[k]] /\ var'[k] = R!NoValue
    <3>1. 1 .. new \subseteq R!Flags /\ \A k \in 1 .. new : k = new \/ (k \in 1 .. added /\ k # new)
      BY <1>2, FourFlags
    <3> HIDE DEF new
    <3> QED BY <1>2, <2>1, <2>2, <3>1 DEF CommandInv
  <2>9. Built'
    BY <1>2, <2>1, <2>2, <2>4, <2>5, <2>6, <2>7, <2>8 DEF Built, CommandInv
  <2> QED BY <1>2, <2>1, <2>2, <2>3, <2>9, FourFlags DEF RegistryInv
<1> QED BY <1>3, <1>4

\* The steps that do not touch the registry.
LEMMA RegistryUntouched ==
  ASSUME RegistryInv, UNCHANGED <<added, registry>>,
         \/ pc' = pc
         \/ pc \notin {"create", "add", "FAIL", "exit"} /\ pc' \notin {"create", "add", "execute", "exit"}
  PROVE  RegistryInv'
<1>1. UNCHANGED <<added, phase, commands, flags, parent, child, flag, fname, short, var, held, faults, stack>>
  BY DEF registry
<1>2. (Built' <=> Built) /\ (Destroying' <=> Destroying)
  BY <1>1 DEF Built, Destroying, CommandInv, Rest, Nodes
<1> QED BY <1>1, <1>2 DEF RegistryInv

\* command_destroy, step by step.
LEMMA FreeStep ==
  ASSUME RegistryInv, FreeCommand
  PROVE  RegistryInv'
<1>1. /\ pc = "FAIL" /\ added' = added /\ added \in 0 .. 4 /\ faults = {}
      /\ pc' = IF phase' = "done" THEN "exit" ELSE "FAIL"
      /\ Built \/ Destroying
  BY FourFlags DEF FreeCommand, RegistryInv
<1>2. CommandInv /\ flags = added
  BY <1>1 DEF Built, Destroying, CommandInv
<1>3. /\ UNCHANGED <<commands, flags, parent, child, flag, fname, short, var>>
  BY DEF FreeCommand, R!Destroy, R!VisitNext, R!VisitChild, R!FreeFlag, R!FreeCommand, R!tree
<1>4. CommandInv' /\ \A n : Rest(n)' = Rest(n) /\ Nodes(n)' = Nodes(n)
  BY <1>1, <1>2, <1>3 DEF CommandInv, Rest, Nodes
<1>r. \A m \in 0 .. added : (Rest(m) = << >>) <=> (m = added)
  BY <1>1, RestIsEmpty
<1>5. ASSUME phase' = "destroy", faults' = {},
             NEW n \in 0 .. added, NEW at \in {"next", "child", "flags"},
             stack' = <<[c |-> 1, at |-> at, left |-> Rest(n)]>>, held' = Nodes(n)
      PROVE  RegistryInv'
  <2>1. Destroying'
    BY <1>1, <1>4, <1>5 DEF Destroying
  <2> QED BY <1>1, <1>3, <1>5, <2>1 DEF RegistryInv
<1>6. CASE R!Destroy
  <2>1. /\ phase = "build" /\ phase' = "destroy" /\ stack' = <<R!Frame(1)>> /\ held' = held /\ faults' = faults
    BY <1>6, FourFlags DEF R!Destroy, R!memory
  <2>2. held = Nodes(0) /\ R!Frame(1) = [c |-> 1, at |-> "next", left |-> Rest(0)]
    BY <1>1, <1>2, <2>1 DEF Built, Destroying, CommandInv, R!Frame
  <2> QED BY <1>1, <1>5, <2>1, <2>2
<1>7. CASE R!VisitNext \/ R!VisitChild \/ R!FreeFlag \/ R!FreeCommand
  <2>1. phase = "destroy"
    BY <1>7 DEF R!VisitNext, R!VisitChild, R!FreeFlag, R!FreeCommand
  <2>2. PICK n \in 0 .. added, at \in {"next", "child", "flags"} :
          stack = <<[c |-> 1, at |-> at, left |-> Rest(n)]>> /\ held = Nodes(n)
    BY <1>1, <2>1 DEF Built, Destroying
  <2> DEFINE t == [c |-> 1, at |-> at, left |-> Rest(n)]
  <2>3. /\ R!Top = t /\ R!Below = << >>
        /\ \A x : Append(R!Below, x) = <<x>> /\ Append(R!Below, x) \o << >> = <<x>>
    BY <2>2, OneFrame
  <2>4. R!CommandNode(1) \in held
    BY <2>2 DEF Nodes
  <2>5. R!NextOf(1) = R!None /\ R!ChildOf(1) = R!None
    BY <1>2 DEF CommandInv, R!NextOf, R!ChildOf
  <2>r. (Rest(n) = << >>) <=> (n = added)
    BY <1>r, Zenon
  <2>6. CASE R!VisitNext \/ R!VisitChild
    <3>1. /\ R!Touch(R!CommandNode(1)) /\ held' = held /\ phase' = phase
          /\ \E to \in {"child", "flags"} : stack' = Append(R!Below, [R!Top EXCEPT !.at = to]) \o << >>
      BY <2>3, <2>5, <2>6 DEF R!VisitNext, R!VisitChild, R!Continue
    <3>2. faults' = {}
      BY <1>1, <2>4, <3>1 DEF R!Touch
    <3>3. PICK to \in {"child", "flags"} : stack' = <<[R!Top EXCEPT !.at = to]>>
      BY <2>3, <3>1
    <3>4. [R!Top EXCEPT !.at = to] = [c |-> 1, at |-> to, left |-> Rest(n)]
      BY <2>3
    <3> QED BY <1>5, <2>1, <2>2, <3>1, <3>2, <3>3, <3>4
  <2>7. CASE R!FreeFlag
    <3>1. n # added /\ n \in 0 .. added - 1
      <4>1. Rest(n) # << >>
        BY <2>3, <2>7 DEF R!FreeFlag
      <4> QED BY <1>1, <2>r, <4>1
    <3>2. Rest(n)[1] = n + 1 /\ Tail(Rest(n)) = Rest(n + 1)
      <4>1. added \in 0 .. 4 /\ n < added
        BY <1>1, <3>1
      <4> QED BY <4>1, RestIsAList, ZenonT(40)
    <3>3. var[n + 1] = R!NoValue
      BY <1>1, <1>2, <3>1 DEF CommandInv
    <3>4. /\ held' = held \ {R!FlagNode(n + 1)}
          /\ faults' = faults \cup ({R!FlagNode(n + 1)} \ held)
          /\ stack' = Append(R!Below, [R!Top EXCEPT !.left = Tail(@)]) /\ phase' = phase
      BY <2>3, <2>7, <3>2, <3>3 DEF R!FreeFlag
    <3>5. R!FlagNode(n + 1) \in held /\ held' = Nodes(n + 1)
      BY <1>1, <2>2, <3>1, <3>4, NodesLeft
    <3>6. faults' = {}
      BY <1>1, <3>4, <3>5
    <3>7. stack' = <<[c |-> 1, at |-> at, left |-> Rest(n + 1)]>>
      <4>1. \A l, x : [[c |-> 1, at |-> at, left |-> l] EXCEPT !.left = x]
                         = [c |-> 1, at |-> at, left |-> x]
        OBVIOUS
      <4>2. t.left = Rest(n) /\ [t EXCEPT !.left = Tail(@)] = [t EXCEPT !.left = Tail(t.left)]
        OBVIOUS
      <4>3. [t EXCEPT !.left = Tail(t.left)] = [c |-> 1, at |-> at, left |-> Rest(n + 1)]
        BY <3>2, <4>1, <4>2, Zenon
      <4>4. [R!Top EXCEPT !.left = Tail(@)] = [c |-> 1, at |-> at, left |-> Rest(n + 1)]
        <5> HIDE DEF t
        <5> QED BY <2>3, <4>2, <4>3
      <4> QED BY <2>3, <3>4, <4>4
    <3>8. n + 1 \in 0 .. added
      BY <1>1, <3>1
    <3> QED BY <1>5, <2>1, <3>4, <3>5, <3>6, <3>7, <3>8
  <2>8. CASE R!FreeCommand
    <3>1. n = added
      <4>1. Rest(n) = << >>
        BY <2>3, <2>8 DEF R!FreeCommand
      <4> QED BY <2>r, <4>1
    <3>2. /\ held' = held \ {R!CommandNode(1)} /\ R!Touch(R!CommandNode(1))
          /\ phase' = "done"
      BY <2>3, <2>8 DEF R!FreeCommand
    <3>3. held' = {} /\ faults' = {}
      BY <1>1, <2>2, <2>4, <3>1, <3>2, NodesLeft DEF R!Touch
    <3>4. pc' = "exit"
      BY <1>1, <3>2
    <3> QED BY <1>1, <1>3, <3>3, <3>4 DEF RegistryInv
  <2> QED BY <1>7, <2>6, <2>7, <2>8
<1> QED BY <1>6, <1>7 DEF FreeCommand
-----------------------------------------------------------------------------
(* main and root_handler.                                                  *)

\* What verify lets pass, and the defaults, are what the balancer and the listener need.
LEMMA Configuration ==
  ASSUME ExecuteInv
  PROVE  /\ value["worker"] \in 2 .. 255 /\ value["balance"] \in {1, 2}
         /\ AddressFits(value["addr"]) /\ AddressPort(value["addr"]) \in 1 .. MaxPort
<1>1. \A f \in Flags : value[f] = Default[f] \/ value[f] \in Legal[f]
  BY DEF ExecuteInv, E!OnlyLegalValues
<1>2. "worker" \in Flags /\ "balance" \in Flags /\ "addr" \in Flags
  BY FourFlags
<1>3. /\ Default["worker"] = 8 /\ Legal["worker"] = 2 .. 255
      /\ Default["balance"] = 1 /\ Legal["balance"] = {1, 2}
      /\ Default["addr"] = DefaultAddr /\ Legal["addr"] = {t \in Texts : AddressFits(t)}
  BY <1>2 DEF Default, Legal, VerifyWorker, VerifyBalance
<1>4. value["worker"] \in 2 .. 255 /\ value["balance"] \in {1, 2}
  BY <1>1, <1>2, <1>3
<1>5. value["addr"] \in Texts /\ AddressFits(value["addr"])
  BY <1>1, <1>2, <1>3, ProgramAssumption
<1> QED BY <1>4, <1>5, ProgramAssumption

\* main starts with nothing made.
LEMMA InitEstablishes ==
  ASSUME Init  PROVE IInv
<1>1. /\ pc = "create" /\ added = 0 /\ status = 0 /\ handler_result = 0 /\ balancer = << >>
      /\ served = FALSE /\ R!Init /\ E!Init
  BY DEF Init
<1>2. RegistryInv
  <2>1. /\ phase = "create" /\ commands = 0 /\ flags = 0 /\ faults = {} /\ stack = << >>
        /\ child = [c \in R!Commands |-> << >>] /\ flag = [c \in R!Commands |-> << >>]
        /\ parent = [c \in R!Commands |-> R!None]
        /\ fname = [f \in R!Flags |-> ""] /\ short = [f \in R!Flags |-> "none"]
        /\ var = [f \in R!Flags |-> R!NoValue]
    BY <1>1 DEF R!Init
  <2>2. held = {}
    <3>1. \E a : held = {R!Block(v) : v \in {v \in {} : a[v].p = "allocated"}}
      BY <1>1 DEF R!Init
    <3> QED BY <3>1
  <2>3. fname = [f \in R!Flags |-> fname[f]] /\ short = [f \in R!Flags |-> short[f]]
    <3>1. fname = [f \in R!Flags |-> ""] /\ short = [f \in R!Flags |-> "none"]
      BY <2>1
    <3> QED BY <3>1, Zenon
  <2>4. flag = [c \in R!Commands |-> flag[c]] /\ parent = [c \in R!Commands |-> parent[c]]
        /\ var = [f \in R!Flags |-> var[f]]
    <3>1. flag = [c \in R!Commands |-> << >>] /\ parent = [c \in R!Commands |-> R!None]
          /\ var = [f \in R!Flags |-> R!NoValue]
      BY <2>1
    <3> QED BY <3>1, Zenon
  <2>5. flag[1] = << >> /\ child[1] = << >>
    BY <2>1, FourFlags
  <2>6. added \in 0 .. Len(Names)
    BY <1>1, FourFlags
  <2> QED BY <1>1, <2>1, <2>2, <2>3, <2>4, <2>5, <2>6, Zenon DEF RegistryInv
<1>3. ExecuteInv
  <2>1. value = Default /\ command = "root" /\ returned = FALSE /\ calls = << >> /\ err = "0"
    BY <1>1 DEF E!Init
  <2>2. DOMAIN Default = Flags
    BY DEF Default
  <2>3. handler_argc = 0 /\ handler_cap = 0 /\ E!OneBlock
    BY <1>1 DEF E!Init, E!OneBlock
  <2> QED BY <2>1, <2>2, <2>3 DEF ExecuteInv, E!OnlyLegalValues
<1>4. ControlInv
  <2>1. returned = FALSE
    BY <1>1 DEF E!Init
  <2>2. DOMAIN balancer = {}
    BY <1>1
  <2> QED BY <1>1, <2>1, <2>2 DEF ControlInv, InHandler
<1> QED BY <1>2, <1>3, <1>4 DEF IInv

\* Each step of main keeps what is held in step with where main is.
LEMMA StepKeepsRegistry ==
  ASSUME IInv, [Next]_vars  PROVE RegistryInv'
<1>1. RegistryInv
  BY DEF IInv
<1>2. CASE Create
  BY <1>1, <1>2, CreateStep
<1>3. CASE AddNext
  BY <1>1, <1>3, AddNextStep
<1>4. CASE FreeCommand
  BY <1>1, <1>4, FreeStep
<1>5. CASE Execute \/ ParseAddress \/ StartBalancer \/ StartListener \/ ServeReturns \/ Result
  <2>1. UNCHANGED <<added, registry>>
    BY <1>5 DEF Execute, ParseAddress, StartBalancer, StartListener, ServeReturns, Result
  <2>2. \/ pc' = pc
        \/ pc \notin {"create", "add", "FAIL", "exit"} /\ pc' \notin {"create", "add", "execute", "exit"}
    BY <1>5 DEF Execute, ParseAddress, StartBalancer, StartListener, ServeReturns, Result, HandlerReturns
  <2> QED BY <1>1, <2>1, <2>2, RegistryUntouched
<1>6. CASE UNCHANGED vars
  <2>1. UNCHANGED <<added, registry>> /\ pc' = pc
    BY <1>6 DEF vars
  <2> QED BY <1>1, <2>1, RegistryUntouched
<1> QED BY <1>2, <1>3, <1>4, <1>5, <1>6 DEF Next, Main

\* Only execute changes what execute has.
LEMMA StepKeepsExecute ==
  ASSUME IInv, [Next]_vars  PROVE ExecuteInv'
<1>1. ExecuteInv
  BY DEF IInv
<1>2. CASE Execute
  <2>1. ~ returned /\ E!Next
    BY <1>2 DEF Execute, IInv, ControlInv
  <2> QED BY <1>1, <2>1, ExecuteSteps, StepKeeps
<1>3. CASE UNCHANGED execution
  BY <1>1, <1>3 DEF execution, ExecuteInv, E!OnlyLegalValues, E!OneBlock
<1>4. Execute \/ UNCHANGED execution
  BY DEF Next, Main, Create, AddNext, ParseAddress, StartBalancer, StartListener, ServeReturns,
         Result, FreeCommand, vars
<1> QED BY <1>2, <1>3, <1>4

\* Each step of main and of root_handler goes where the code goes.
LEMMA StepKeepsControl ==
  ASSUME IInv, [Next]_vars  PROVE ControlInv'
<1>1. ExecuteInv /\ ControlInv
  BY DEF IInv
<1>2. CASE UNCHANGED vars
  BY <1>1, <1>2 DEF vars, handler, execution, ControlInv
<1>3. CASE Create \/ AddNext
  <2>1. /\ UNCHANGED <<handler_result, addr, balancer, served, returned, err, calls>>
        /\ pc \in {"create", "add"}
        /\ \/ pc' \in {"FAIL", "exit"} /\ status' \in {-1, 1}
           \/ pc' \in {"add", "execute"} /\ status' = status
    <3>1. CASE Create
      BY <3>1 DEF Create, handler, execution
    <3>2. CASE AddNext
      BY <3>2 DEF AddNext, handler, execution
    <3> QED BY <1>3, <3>1, <3>2
  <2> QED BY <1>1, <2>1 DEF ControlInv, InHandler
<1>4. CASE Execute
  <2>1. /\ pc = "execute" /\ UNCHANGED <<status, handler_result, addr, balancer, served>>
        /\ pc' = IF ~ returned' THEN "execute" ELSE IF calls' # << >> THEN "root_handler" ELSE "result"
    BY <1>4 DEF Execute, handler
  <2>2. returned' \in BOOLEAN
    BY StepKeepsExecute DEF ExecuteInv
  <2> QED BY <1>1, <2>1, <2>2 DEF ControlInv, InHandler
<1>5. CASE ParseAddress
  <2>1. addr' \in 1 .. MaxPort
    BY <1>1, <1>5, Configuration DEF ParseAddress
  <2> QED BY <1>1, <1>5, <2>1 DEF ParseAddress, execution, ControlInv, InHandler
<1>6. CASE StartBalancer
  <2>1. /\ pc = "evthread" /\ UNCHANGED <<status, addr, served>> /\ UNCHANGED <<returned, err, calls>>
        /\ \/ pc' = "result" /\ handler_result' = -1 /\ balancer' = balancer
           \/ /\ balancer' = <<[balance |-> value["balance"], worker |-> value["worker"]]>>
              /\ pc' = "balancer" /\ handler_result' = handler_result
    BY <1>6 DEF StartBalancer, HandlerReturns, execution
  <2>2. \A k \in DOMAIN balancer' : balancer'[k].worker \in 2 .. 255 /\ balancer'[k].balance \in {1, 2}
    <3>1. value["worker"] \in 2 .. 255 /\ value["balance"] \in {1, 2}
      BY <1>1, Configuration
    <3>2. CASE balancer' = <<[balance |-> value["balance"], worker |-> value["worker"]]>>
      <4>1. /\ DOMAIN balancer' = {1}
            /\ balancer'[1].worker = value["worker"] /\ balancer'[1].balance = value["balance"]
        BY <3>2
      <4> QED BY <3>1, <4>1
    <3>3. CASE balancer' = balancer
      BY <1>1, <3>3 DEF ControlInv
    <3> QED BY <2>1, <3>2, <3>3
  <2> QED BY <1>1, <2>1, <2>2 DEF ControlInv, InHandler
<1>7. CASE StartListener \/ ServeReturns
  <2>1. /\ UNCHANGED <<status, addr, balancer, returned, err, calls>>
        /\ \/ pc = "balancer" /\ pc' = "result" /\ handler_result' = -1 /\ served' = served
           \/ pc = "balancer" /\ pc' = "serving" /\ handler_result' = handler_result /\ served' = TRUE
           \/ pc = "serving" /\ pc' = "result" /\ handler_result' = 0 /\ served' = served
    <3>1. CASE StartListener
      BY <3>1 DEF StartListener, HandlerReturns, execution
    <3>2. CASE ServeReturns
      BY <3>2 DEF ServeReturns, HandlerReturns, execution
    <3> QED BY <1>7, <3>1, <3>2
  <2> QED BY <1>1, <2>1 DEF ControlInv, InHandler
<1>8. CASE Result
  BY <1>1, <1>8 DEF Result, handler, execution, ControlInv, ExecuteInv, InHandler
<1>9. CASE FreeCommand
  BY <1>1, <1>9 DEF FreeCommand, handler, execution, ControlInv, InHandler
<1> QED BY <1>2, <1>3, <1>4, <1>5, <1>6, <1>7, <1>8, <1>9 DEF Next, Main

\* The inductive invariant of main.
LEMMA InvariantHolds == Spec => []IInv
<1>1. Init => IInv
  BY InitEstablishes
<1>2. IInv /\ [Next]_vars => IInv'
  BY StepKeepsRegistry, StepKeepsExecute, StepKeepsControl DEF IInv
<1> QED BY <1>1, <1>2, PTL DEF Spec

\* main comes to command_destroy only with a command, and returns -1, 0 or 1.
THEOREM TypeCorrect == Spec => []TypeOK
<1>1. IInv => TypeOK
  BY DEF IInv, RegistryInv, ControlInv, InHandler, Built, Destroying, CommandInv, TypeOK
<1> QED BY <1>1, InvariantHolds, PTL

\* load_balancer_init is given at least two workers and a known algorithm and the listener a
\* port, for every command line and all parsers of numbers and addresses.
THEOREM OnlyLegalConfigurations == Spec => []BalancerConfigured
<1>1. IInv => BalancerConfigured
  BY DEF IInv, ControlInv, BalancerConfigured
<1> QED BY <1>1, InvariantHolds, PTL

\* execute runs on a command with all four flags, each under its name and letter.
THEOREM FlagsAreComplete == Spec => []ExecuteSeesItsFlags
<1>1. ASSUME IInv, pc = "execute"
      PROVE  /\ flags = Len(Names)
             /\ \A f \in Flags : \E k \in DOMAIN flag[1] :
                  fname[flag[1][k]] = f /\ short[flag[1][k]] = Letter[f]
  <2>1. CommandInv /\ added = 4
    BY <1>1, FourFlags DEF IInv, RegistryInv, Built
  <2>2. DOMAIN flag[1] = 1 .. 4 /\ \A k \in 1 .. 4 : flag[1][k] = k
    BY <2>1 DEF CommandInv, Rest
  <2> QED BY <2>1, <2>2, FourFlags DEF CommandInv
<1>2. IInv => ExecuteSeesItsFlags
  BY <1>1 DEF ExecuteSeesItsFlags
<1> QED BY <1>2, InvariantHolds, PTL

\* The exit status is 0 only when a listener was run or the help was printed.
THEOREM NoFailureIsLost == Spec => []ZeroMeansServedOrHelp
<1>1. IInv => ZeroMeansServedOrHelp
  BY DEF IInv, ControlInv, ZeroMeansServedOrHelp
<1> QED BY <1>1, InvariantHolds, PTL

\* However main comes to its return, the command and its flags have been freed, once.  Of
\* handler_argv no block is freed twice or replaced without being freed; one is left when, and
\* only when, execute has ended behind a positional argument without calling the handler and
\* without a failing malloc.
THEOREM OnlyHandlerArgvIsLeft == Spec => []FreedAtExit
<1>1. IInv => FreedAtExit
  BY DEF IInv, RegistryInv, ExecuteInv, FreedAtExit
<1> QED BY <1>1, InvariantHolds, PTL
=============================================================================
