------------------------------- MODULE Program -------------------------------
(***************************************************************************)
(* src/example.c from main to its return: the command and its four flags   *)
(* are added (FlagsRegistry), the command line is executed (FlagsExecute), *)
(* root_handler parses the address a second time (SharedAddress) and runs  *)
(* the server, and the command is destroyed.                               *)
(***************************************************************************)
EXTENDS Integers, Sequences

CONSTANTS
  Paths,         \* values of argv[0], sequences of characters
  Args, MaxArgc, \* the rest of the command line, as in FlagsExecute
  ParseBool(_),  \* ppp_c_flags_parse_bool of a text: 0, 1 or -1
  ParseUint8(_), \* parse_uint64 in 8 bits of a text, or Bad
  Bad,
  Texts,         \* texts the command line may have for an address
  AddressFits(_), AddressPort(_),  \* parse_shared_address of a text: its verdict, its port
  MaxPort,
  DefaultAddr    \* the text ":9000"

ASSUME ProgramAssumption ==
  /\ MaxArgc \in Nat /\ MaxPort \in Nat
  /\ DefaultAddr \in Texts /\ AddressFits(DefaultAddr)
  /\ \A t \in Texts : AddressFits(t) => AddressPort(t) \in 1 .. MaxPort

-----------------------------------------------------------------------------
(* The command line of the program.                                        *)

\* The flags in the order of main.
Names == <<"sync", "addr", "balance", "worker">>
Flags == {Names[k] : k \in DOMAIN Names}
Letter == [f \in Flags |-> CASE f = "sync" -> "s" [] f = "addr" -> "a"
                             [] f = "balance" -> "b" [] f = "worker" -> "w"]

\* root_flags_t as main initialises it.
Default == [f \in Flags |-> CASE f = "sync" -> 0 [] f = "addr" -> DefaultAddr
                              [] f = "balance" -> 1 [] f = "worker" -> 8]

\* set_flag of the four types.
Parse(f, text) ==
  CASE f = "sync" -> IF ParseBool(text) = -1 THEN Bad ELSE ParseBool(text)
    [] f = "addr" -> text
    [] OTHER      -> ParseUint8(text)

VerifyWorkerAboveZero == 1 .. 255   \* mutant: value < 1 is refused

VerifyWorker  == 2 .. 255
VerifyBalance == {1, 2}

\* The values the verify functions let pass; sync has none.
Legal == [f \in Flags |-> CASE f = "sync"    -> {0, 1}
                            [] f = "addr"    -> {t \in Texts : AddressFits(t)}
                            [] f = "balance" -> VerifyBalance
                            [] f = "worker"  -> VerifyWorker]

\* ppp_c_flags_base_name: what follows the last '/' that is not the first character.
Slashes(path) == {k \in 2 .. Len(path) : path[k] = "/"}
BaseName(path) ==
  IF Len(path) > 2 /\ Slashes(path) # {}
  THEN SubSeq(path, 1 + CHOOSE k \in Slashes(path) : \A l \in Slashes(path) : l <= k, Len(path))
  ELSE path

\* ppp_c_flags_check_command.
CheckCommand(n) == n # << >> /\ n[1] # "-" /\ \A k \in DOMAIN n : n[k] \notin {"'", "\"", "\r", "\n"}
-----------------------------------------------------------------------------
VARIABLES
  pc,              \* where main or root_handler is
  added,           \* flags main has added
  status,          \* err of main
  handler_result,  \* what root_handler returned
  addr,            \* port of the shared_address_t of root_handler, -1 uninitialised
  balancer,        \* history: the configuration load_balancer_init was given
  served           \* history: a listener was run

\* The tree, and the state of execute.
VARIABLES phase, refused, commands, flags, blocks, name, parent, child, flag, fname, short,
          var, set, array, held, faults, stack
VARIABLES argv, allow_unknow, command, i, s, state, err, input, short_input,
          handler_argc, handler_argv, handler_cap, value, returned, calls, role, wild, owned

registry == <<phase, refused, commands, flags, blocks, name, parent, child, flag, fname, short,
              var, set, array, held, faults, stack>>
execution == <<argv, allow_unknow, command, i, s, state, err, input, short_input,
               handler_argc, handler_argv, handler_cap, value, returned, calls, role, wild, owned>>
handler == <<handler_result, addr, balancer, served>>
vars == <<pc, added, status, handler, registry, execution>>

R == INSTANCE FlagsRegistry WITH
       Chunk <- 64, Junk <- Bad, Elements <- {}, Values <- {}, Initial <- {},
       CommandNames <- {BaseName(p) : p \in Paths},
       LegalCommands <- {n \in {BaseName(p) : p \in Paths} : CheckCommand(n)},
       FlagNames <- Flags, LegalFlags <- Flags,
       Shorts <- {Letter[f] : f \in Flags}, NoShort <- "none",
       MaxCommands <- 1, MaxFlags <- 4, MaxBlocks <- 0, MaxLen <- 0, MaxArgc <- MaxArgc,
       err <- refused, value <- var

E == INSTANCE FlagsExecute WITH
       Root <- "root", Commands <- {"root"}, Child <- [c \in {"root"} |-> << >>],
       HasHandler <- {"root"}, FlagsOf <- [c \in {"root"} |-> Flags],
       Short <- Letter, BoolFlags <- {"sync"}, NoShort <- "none", Chunk <- 32, PtrSize <- 8

Init ==
  /\ pc = "create" /\ added = 0 /\ status = 0
  /\ handler_result = 0 /\ addr = -1 /\ balancer = << >> /\ served = FALSE
  /\ R!Init /\ E!Init /\ allow_unknow

CreateGotoFail ==   \* mutant: goto FAIL instead of return
  /\ pc = "create"
  /\ \E p \in Paths : R!CommandCreate(BaseName(p))
  /\ IF refused' THEN pc' = "FAIL" /\ status' = -1 ELSE pc' = "add" /\ UNCHANGED status
  /\ UNCHANGED <<added, handler, execution>>

\* ppp_c_flags_command_create; without a command main returns at once.
Create ==
  /\ pc = "create"
  /\ \E p \in Paths : R!CommandCreate(BaseName(p))
  /\ IF refused' THEN pc' = "exit" /\ status' = -1 ELSE pc' = "add" /\ UNCHANGED status
  /\ UNCHANGED <<added, handler, execution>>

AddNextKeepsGoing ==   \* mutant: no goto FAIL
  /\ pc = "add"
  /\ R!AddFlag(R!root, Names[added + 1], Letter[Names[added + 1]], "scalar", R!NoValue)
  /\ added' = added + 1
  /\ pc' = IF added' = Len(Names) THEN "execute" ELSE "add"
  /\ UNCHANGED <<status, handler, execution>>

\* PPP_C_FLAGS_ADD_FLAG and PPP_C_FLAGS_SET_ADD_FLAG, with err and goto FAIL.
AddNext ==
  /\ pc = "add"
  /\ R!AddFlag(R!root, Names[added + 1], Letter[Names[added + 1]], "scalar", R!NoValue)
  /\ IF refused' THEN pc' = "FAIL" /\ status' = 1 /\ UNCHANGED added
     ELSE /\ added' = added + 1
          /\ pc' = IF added' = Len(Names) THEN "execute" ELSE "add"
          /\ UNCHANGED status
  /\ UNCHANGED <<handler, execution>>

\* The loop of execute, up to the call of the handler or an early return.
Execute ==
  /\ pc = "execute"
  /\ E!Next
  /\ pc' = IF ~ returned' THEN "execute" ELSE IF calls' # << >> THEN "root_handler" ELSE "result"
  /\ UNCHANGED <<added, status, handler, registry>>

\* root_handler: the second parse, whose result is not looked at.
ParseAddress ==
  /\ pc = "root_handler"
  /\ addr' = IF AddressFits(value["addr"]) THEN AddressPort(value["addr"]) ELSE addr
  /\ pc' = "evthread"
  /\ UNCHANGED <<added, status, handler_result, balancer, served, registry, execution>>

HandlerReturns(n) == pc' = "result" /\ handler_result' = n

\* evthread_use_pthreads fails, or load_balancer_init is called.
StartBalancer ==
  /\ pc = "evthread"
  /\ \/ HandlerReturns(-1) /\ UNCHANGED balancer
     \/ /\ balancer' = <<[balance |-> value["balance"], worker |-> value["worker"]]>>
        /\ pc' = "balancer" /\ UNCHANGED handler_result
  /\ UNCHANGED <<added, status, addr, served, registry, execution>>

\* load_balancer_init or the init of the listener fails, or it listens.
StartListener ==
  /\ pc = "balancer"
  /\ \/ HandlerReturns(-1) /\ UNCHANGED served
     \/ pc' = "serving" /\ served' = TRUE /\ UNCHANGED handler_result
  /\ UNCHANGED <<added, status, addr, balancer, registry, execution>>

\* Only async_listener_serve returns.
ServeReturns ==
  /\ pc = "serving" /\ value["sync"] = 0
  /\ HandlerReturns(0)
  /\ UNCHANGED <<added, status, addr, balancer, served, registry, execution>>

ResultOfExecuteOnly ==   \* mutant: handler_result is not looked at
  /\ pc = "result"
  /\ status' = IF err # "0" THEN 1 ELSE 0
  /\ pc' = "FAIL"
  /\ UNCHANGED <<added, handler, registry, execution>>

\* err of execute, or else handler_result.
Result ==
  /\ pc = "result"
  /\ status' = IF err # "0" THEN 1 ELSE handler_result
  /\ pc' = "FAIL"
  /\ UNCHANGED <<added, handler, registry, execution>>

\* command_destroy, down to the return of main.
FreeCommand ==
  /\ pc = "FAIL"
  /\ R!Destroy \/ R!VisitNext \/ R!VisitChild \/ R!FreeFlag \/ R!FreeCommand
  /\ pc' = IF phase' = "done" THEN "exit" ELSE "FAIL"
  /\ UNCHANGED <<added, status, handler, execution>>

Main == \/ Create \/ AddNext \/ Execute
        \/ ParseAddress \/ StartBalancer \/ StartListener
        \/ Result \/ FreeCommand
Next == Main \/ ServeReturns

\* The one thread runs; whether a service ever returns is not assumed.
Spec == Init /\ [][Next]_vars /\ WF_vars(Main)
-----------------------------------------------------------------------------
(* Properties.                                                             *)

\* Types; main destroys the command only after it was made.
TypeOK ==
  /\ pc \in {"create", "add", "execute", "root_handler", "evthread", "balancer", "serving",
             "result", "FAIL", "exit"}
  /\ added \in 0 .. Len(Names) /\ status \in -1 .. 1 /\ handler_result \in -1 .. 0
  /\ pc = "FAIL" => commands = 1

\* Whatever the command line says, load_balancer_init gets at least two workers and an
\* algorithm it knows, and the listener a port: what LoadBalancer, Lifecycle and the
\* listeners take for granted.  The defaults count where no flag was given, and refused
\* values never get through.
BalancerConfigured ==
  /\ \A k \in DOMAIN balancer : /\ balancer[k].worker \in 2 .. 255
                                /\ balancer[k].balance \in {1, 2}
  /\ pc \in {"balancer", "serving"} => addr \in 1 .. MaxPort

\* When execute runs, the command has all of the flags that root_handler and the model of
\* execute rely on, each under its name and letter.
ExecuteSeesItsFlags ==
  pc = "execute" =>
    /\ flags = Len(Names)
    /\ \A f \in Flags : \E k \in DOMAIN flag[1] :
         fname[flag[1][k]] = f /\ short[flag[1][k]] = Letter[f]

\* The program exits with 0 only when a listener was run or the help was asked for: no
\* failure on the way, of main, execute or root_handler, is lost.
ZeroMeansServedOrHelp ==
  pc = "exit" /\ status = 0 => served \/ (returned /\ err = "0" /\ calls = << >>)

\* On every path to the return of main the command and its flags are freed, once.  Of
\* handler_argv there is never more than one block: it is freed once when the handler was called
\* or malloc failed, and left, as the code does, exactly where execute ends with another
\* error or the help after a positional argument.
FreedAtExit ==
  /\ faults = {} /\ E!OneBlock
  /\ pc = "exit" => held = {}

\* main comes to serve or returns.
ServesOrExits == []<>(pc \in {"serving", "exit"})
=============================================================================
