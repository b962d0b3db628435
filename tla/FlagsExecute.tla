---------------------------- MODULE FlagsExecute ----------------------------
(***************************************************************************)
(* ppp_c_flags_execute of src/shared/flags.c: one command line, read from  *)
(* left to right by a machine of three states, over a tree of commands.    *)
(* An element of argv is a record: k = "word" is one without a leading     *)
(* dash (and "-" and "--"), "long" is --name or --name=text, "short" is    *)
(* -text.  A text is a sequence of symbols.                                *)
(***************************************************************************)
EXTENDS Integers, Sequences, FiniteSets

CONSTANTS
  Args,          \* elements of a command line
  MaxArgc,       \* bound of a command line's length
  Root,          \* the command execute is given
  Commands,      \* its tree
  Child,         \* Child[c]: from the names of c's subcommands to the commands
  HasHandler,    \* commands with a handler
  Flags,         \* flags of all the commands
  FlagsOf,       \* FlagsOf[c]: flags of command c
  Short,         \* Short[f]: its short name, or NoShort
  BoolFlags,     \* flags of type bool
  Default,       \* Default[f]: value before the command line is read
  Legal,         \* Legal[f]: values its verify lets pass
  ParseBool(_),  \* ppp_c_flags_parse_bool of a text: 0, 1 or -1
  Parse(_, _),   \* Parse(f, text): value of the text for f, or Bad
  NoShort, Bad,
  Chunk,         \* pointers handler_argv first has room for, 32
  PtrSize        \* bytes of a pointer

ASSUME ExecuteAssumption ==
  /\ MaxArgc \in Nat /\ Chunk \in Nat \ {0} /\ PtrSize \in Nat \ {0}
  /\ Root \in Commands /\ HasHandler \subseteq Commands /\ BoolFlags \subseteq Flags
  /\ FlagsOf \in [Commands -> SUBSET Flags]
  /\ \A c \in Commands : \A n \in DOMAIN Child[c] : Child[c][n] \in Commands
  /\ Default = [f \in Flags |-> Default[f]]
  /\ \A f \in Flags : Default[f] # Bad /\ Bad \notin Legal[f]
  /\ \A a \in Args : a.k = "short" => a.text \in Seq({a.text[j] : j \in DOMAIN a.text})

VARIABLES
  argv, allow_unknow,          \* the arguments of execute
  command, i, s, state, err,   \* args of ppp_c_flags_execute_args_t; s of a short is its rest
  input, short_input,
  handler_argc, handler_argv, handler_cap,
  value,      \* value[f]: *flag->_value
  returned,   \* execute has returned err
  calls,      \* history: what the handlers were called with
  role,       \* history: role[k], what argv[k] has been used for
  wild,       \* history: handler_argv was written past its end
  owned       \* history: blocks allocated for handler_argv less those freed

vars == <<argv, allow_unknow, command, i, s, state, err, input, short_input,
          handler_argc, handler_argv, handler_cap, value, returned, calls, role, wild, owned>>
parameters == <<argv, allow_unknow>>
positionals == <<handler_argc, handler_argv, handler_cap, wild, owned>>

argc == Len(argv)
Uninit == [k |-> "uninitialised"]

Init ==
  /\ argv \in UNION {[1 .. n -> Args] : n \in 0 .. MaxArgc}
  /\ allow_unknow \in BOOLEAN
  /\ command = Root /\ i = 0 /\ s = <<>> /\ state = "NONE" /\ err = "0"
  /\ input = FALSE /\ short_input = FALSE
  /\ handler_argc = 0 /\ handler_argv = <<>> /\ handler_cap = 0
  /\ value = Default
  /\ returned = FALSE /\ calls = <<>> /\ wild = FALSE /\ owned = 0
  /\ role = [k \in 1 .. Len(argv) |-> {}]

\* argv[i] counts from 0 in the code, from 1 here.
Current == argv[i + 1]

\* What an element is when a flag takes it for its value.
TextOf(a) == CASE a.k = "word"  -> a.text
               [] a.k = "short" -> <<"-">> \o a.text
               [] a.k = "long"  -> <<"-", "-", a.name>> \o a.text

Used(k, as) == role' = [role EXCEPT ![k] = @ \cup {as}]

Fail(e) ==
  /\ err' = e /\ returned' = TRUE
  /\ UNCHANGED <<parameters, command, i, s, state, input, short_input, positionals, value,
                 calls, role>>

-----------------------------------------------------------------------------
(* set_flag of the flag types: parse, verify, store.                       *)

AcceptsUnverified(f, text) == Parse(f, text) # Bad   \* mutant: the verdict of verify is dropped

\* PPP_C_FLAGS_VERIFY_FLAG returns before the value is stored.
Accepts(f, text) == Parse(f, text) # Bad /\ Parse(f, text) \in Legal[f]
SetFlag(f, text) ==
  value' = IF Accepts(f, text) THEN [value EXCEPT ![f] = Parse(f, text)] ELSE value

-----------------------------------------------------------------------------
(* ppp_c_flags_push_args and ppp_c_flags_call.                             *)

RoomMinusOne ==   \* mutant: the element at hand is not counted
  LET cap == IF handler_argc * 2 < Chunk THEN Chunk ELSE handler_argc * 2
  IN  IF cap > argc - i - 1 THEN argc - i - 1 ELSE cap

\* Pointers to make room for: no more than the elements that are left.
Room ==
  LET cap == IF handler_argc * 2 < Chunk THEN Chunk ELSE handler_argc * 2
  IN  IF cap > argc - i THEN argc - i ELSE cap

\* memcpy copies handler_argc bytes, so that many whole pointers.
Copied(new) ==
  [k \in 1 .. new |-> IF k * PtrSize <= handler_argc THEN handler_argv[k] ELSE Uninit]

Full == handler_argc + 1 > handler_cap
First == handler_argc = 0   \* handler_argv is null: nothing has been stored yet

Buffer ==
  IF ~ Full THEN handler_argv
  ELSE IF First THEN [k \in 1 .. Room |-> Uninit] ELSE Copied(Room)

FreedNever == 0   \* mutant: the pointer is dropped without a free

\* What a free of handler_argv gives back: nothing of a null pointer.
Freed == IF First THEN 0 ELSE 1

\* Growing takes a new block and frees the old one; a failing malloc frees the old one, too.
PushArgs(a) ==
  \/ /\ LET buffer == Buffer
        IN  /\ handler_argv' = IF handler_argc < Len(buffer)
                               THEN [buffer EXCEPT ![handler_argc + 1] = a] ELSE buffer
            /\ wild' = (wild \/ handler_argc >= Len(buffer)
                             \/ (Full /\ ~ First /\ handler_argc > Room * PtrSize))
     /\ handler_cap' = IF Full /\ First THEN Room ELSE handler_cap
     /\ handler_argc' = handler_argc + 1
     /\ owned' = IF Full THEN owned + 1 - Freed ELSE owned
     /\ i' = i + 1 /\ input' = TRUE /\ state' = "NONE"
     /\ Used(i + 1, "positional")
     /\ UNCHANGED <<parameters, command, s, short_input, err, value, returned, calls>>
  \/ /\ Full
     /\ err' = "MALLOC_ARGV" /\ returned' = TRUE /\ owned' = owned - Freed
     /\ UNCHANGED <<parameters, command, i, s, state, input, short_input, handler_argc,
                    handler_argv, handler_cap, wild, value, calls, role>>

At(st) == ~ returned /\ state = st

\* The end of the command line: handler_argv is freed after the handler, if there is one.
Call ==
  /\ At("NONE") /\ i >= argc
  /\ returned' = TRUE
  /\ calls' = IF command \in HasHandler
              THEN Append(calls, [command |-> command, argc |-> handler_argc,
                                  argv |-> SubSeq(handler_argv, 1, handler_argc)])
              ELSE calls
  /\ owned' = IF command \in HasHandler THEN owned - Freed ELSE owned
  /\ UNCHANGED <<parameters, command, i, s, state, err, input, short_input, handler_argc,
                 handler_argv, handler_cap, wild, value, role>>

-----------------------------------------------------------------------------
(* ppp_c_flags_next_none: argv[i] is not looked at yet.                    *)

LongArgKeepsInput ==   \* mutant: input is not set
  /\ At("NONE") /\ i < argc /\ Current.k = "long"
  /\ state' = "FLAGS"
  /\ UNCHANGED <<parameters, command, i, s, err, input, short_input, positionals, value,
                 returned, calls, role>>

LongArg ==
  /\ At("NONE") /\ i < argc /\ Current.k = "long"
  /\ input' = TRUE /\ state' = "FLAGS"
  /\ UNCHANGED <<parameters, command, i, s, err, short_input, positionals, value,
                 returned, calls, role>>

ShortArg ==
  /\ At("NONE") /\ i < argc /\ Current.k = "short"
  /\ s' = Current.text
  /\ input' = TRUE /\ short_input' = FALSE /\ state' = "FLAGS_SHORT"
  /\ UNCHANGED <<parameters, command, i, err, positionals, value, returned, calls, role>>

IsSubcommand == ~ input /\ Current.text \in DOMAIN Child[command]

Subcommand ==
  /\ At("NONE") /\ i < argc /\ Current.k = "word" /\ IsSubcommand
  /\ command' = Child[command][Current.text]
  /\ i' = i + 1
  /\ Used(i + 1, "subcommand")
  /\ UNCHANGED <<parameters, s, state, err, input, short_input, positionals, value,
                 returned, calls>>

Positional ==
  /\ At("NONE") /\ i < argc /\ Current.k = "word" /\ ~ IsSubcommand
  /\ PushArgs(Current)

-----------------------------------------------------------------------------
(* What a flag does, for both spellings.                                   *)

\* The element is done with.
Advance(n) == i' = i + n /\ state' = "NONE"

BoolWithoutValueTakesNext(f) ==   \* mutant: skips the next element, too
  /\ f \in BoolFlags
  /\ Advance(2) /\ SetFlag(f, <<"1">>) /\ Used(i + 1, "flag")
  /\ UNCHANGED <<parameters, command, s, err, input, short_input, positionals, returned, calls>>

\* ppp_c_flags_next_flags_set_value: no value with the flag.  What set_flag
\* says of a bool is ignored.
BoolWithoutValue(f) ==
  /\ f \in BoolFlags
  /\ Advance(1) /\ SetFlag(f, <<"1">>) /\ Used(i + 1, "flag")
  /\ UNCHANGED <<parameters, command, s, err, input, short_input, positionals, returned, calls>>

\* Any other flag takes the next element, whatever it looks like.
ValueNext(f) ==
  /\ f \notin BoolFlags /\ i + 1 < argc
  /\ LET text == TextOf(argv[i + 2])
     IN  IF Accepts(f, text)
         THEN /\ Advance(2) /\ SetFlag(f, text)
              /\ role' = [role EXCEPT ![i + 1] = @ \cup {"flag"}, ![i + 2] = @ \cup {"value"}]
              /\ UNCHANGED <<parameters, command, s, err, input, short_input, positionals,
                             returned, calls>>
         ELSE Fail("INVALID_ARGUMENT")

ValueMissing(f) ==
  /\ f \notin BoolFlags /\ i + 1 >= argc
  /\ Fail("INVALID_ARGUMENT")

WithoutValue(f) == BoolWithoutValue(f) \/ ValueNext(f) \/ ValueMissing(f)

\* ppp_c_flags_next_flags_set: the value is part of the element.
WithValue(f, text) ==
  IF Accepts(f, text)
  THEN /\ Advance(1) /\ SetFlag(f, text) /\ Used(i + 1, "flag")
       /\ UNCHANGED <<parameters, command, s, err, input, short_input, positionals,
                      returned, calls>>
  ELSE Fail("INVALID_ARGUMENT")

\* help and h print the usage and stop, without an error.
Help == /\ returned' = TRUE
        /\ Used(i + 1, "flag")
        /\ UNCHANGED <<parameters, command, i, s, state, err, input, short_input, positionals,
                       value, calls>>

HelpIsStays(text) ==   \* mutant: the element is not passed over
  CASE ParseBool(text) = 0 -> /\ state' = "NONE" /\ Used(i + 1, "flag")
                              /\ UNCHANGED <<parameters, command, i, s, err, input, short_input,
                                             positionals, value, returned, calls>>
    [] ParseBool(text) = 1 -> Help
    [] OTHER               -> Fail("INVALID_ARGUMENT")

HelpIs(text) ==
  CASE ParseBool(text) = 0 -> /\ Advance(1) /\ Used(i + 1, "flag")
                              /\ UNCHANGED <<parameters, command, s, err, input, short_input,
                                             positionals, value, returned, calls>>
    [] ParseBool(text) = 1 -> Help
    [] OTHER               -> Fail("INVALID_ARGUMENT")

-----------------------------------------------------------------------------
(* ppp_c_flags_next_flags and ppp_c_flags_next_short.                      *)

Unknown(passed, e) == IF passed THEN PushArgs(Current) ELSE Fail(e)

NextFlags ==
  /\ At("FLAGS")
  /\ IF Current.name = "help"
     THEN IF Current.eq THEN HelpIs(Current.text) ELSE Help
     ELSE \/ \E f \in FlagsOf[command] :
               /\ f = Current.name
               /\ IF Current.eq THEN WithValue(f, Current.text) ELSE WithoutValue(f)
          \/ /\ Current.name \notin FlagsOf[command]
             /\ Unknown(allow_unknow, "UNKNOW_FLAG")

\* A bool that other letters follow: the state stays FLAGS_SHORT.
ClusteredBool(f) ==
  /\ SetFlag(f, <<"1">>)
  /\ s' = Tail(s) /\ short_input' = TRUE
  /\ Used(i + 1, "flag")
  /\ UNCHANGED <<parameters, command, i, state, err, input, positionals, returned, calls>>

ShortFlag(f) ==
  \/ Len(s) = 1 /\ WithoutValue(f)
  \/ Len(s) > 1 /\ s[2] = "=" /\ WithValue(f, SubSeq(s, 3, Len(s)))
  \/ Len(s) > 1 /\ s[2] # "=" /\ f \in BoolFlags /\ ClusteredBool(f)
  \/ Len(s) > 1 /\ s[2] # "=" /\ f \notin BoolFlags /\ WithValue(f, Tail(s))

PassShortAnyway == allow_unknow   \* mutant: passed on after some of its letters were set

\* An unknown short goes to the handler as a whole, or not at all.
PassShort == allow_unknow /\ ~ short_input

NextShort ==
  /\ At("FLAGS_SHORT")
  /\ IF s = <<"h">> THEN Help
     ELSE IF Len(s) > 1 /\ s[1] = "h" /\ s[2] = "=" THEN HelpIs(SubSeq(s, 3, Len(s)))
     ELSE \/ \E f \in FlagsOf[command] : Short[f] = s[1] /\ ShortFlag(f)
          \/ /\ \A f \in FlagsOf[command] : Short[f] # s[1]
             /\ Unknown(PassShort, "UNKNOW_SHORT_FLAG")

Next == \/ Call \/ LongArg \/ ShortArg \/ Subcommand \/ Positional
        \/ NextFlags \/ NextShort

\* execute loops until one of its states returns.
Spec == Init /\ [][Next]_vars /\ WF_vars(Next)
-----------------------------------------------------------------------------
(* Properties.                                                             *)

Roles == {"subcommand", "flag", "value", "positional"}

\* Types: argv is never read past its end.
TypeOK ==
  /\ command \in Commands /\ i \in 0 .. argc
  /\ state \in {"NONE", "FLAGS", "FLAGS_SHORT"} /\ (state # "NONE" => i < argc)
  /\ err \in {"0", "MALLOC_ARGV", "INVALID_ARGUMENT", "UNKNOW_FLAG", "UNKNOW_SHORT_FLAG"}
  /\ {input, short_input, returned, wild} \subseteq BOOLEAN /\ owned \in 0 .. 1
  /\ handler_argc \in 0 .. i /\ Len(calls) \in 0 .. 1
  /\ role \in [1 .. argc -> SUBSET Roles]

\* The handler is called with the elements of the command line that are
\* neither flags nor values nor subcommands, all of them, in their order, and
\* nothing is written outside the array it gets them in.
PositionalIndices == {k \in 1 .. argc : "positional" \in role[k]}
HandlerGetsPositionals ==
  /\ ~ wild
  /\ \A n \in DOMAIN calls :
       /\ calls[n].argc = Cardinality(PositionalIndices)
       /\ \A k \in PositionalIndices :
            calls[n].argv[Cardinality(PositionalIndices \cap (1 .. k))] = argv[k]

\* Every element is used for one thing: a flag is not passed on as well, a
\* value is not read again as a flag; and the handler is called, without an
\* error, only when every element was used.
EachArgumentUsedOnce ==
  /\ \A k \in 1 .. argc : \A a, b \in role[k] : a = b
  /\ calls # <<>> => err = "0" /\ \A k \in 1 .. argc : role[k] # {}

\* No value that verify refused is ever stored, not even on the way to an error.
OnlyLegalValues == \A f \in Flags : value[f] = Default[f] \/ value[f] \in Legal[f]

\* Only flags of the command whose handler is called have been set: no
\* subcommand is entered after a flag of its parent.
OnlyOwnFlags == \A f \in Flags \ FlagsOf[command] : value[f] = Default[f]

\* From the first positional argument on handler_argv is one block, however often it was
\* replaced by a larger one.  It is freed once: behind the handler, or where malloc fails; and
\* it is left where execute ends otherwise, with an error, the help or no handler.
OneBlock ==
  owned = IF handler_argc > 0 /\ calls = <<>> /\ err # "MALLOC_ARGV" THEN 1 ELSE 0

\* execute returns for every command line.
Terminates == <>returned
=============================================================================
