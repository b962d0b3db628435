--------------------------- MODULE MCFlagsExecute ---------------------------
(***************************************************************************)
(* FlagsExecute with flags sync and balance as in src/example.c, and a     *)
(* subcommand that has no handler of its own in one configuration.         *)
(***************************************************************************)
EXTENDS FlagsExecute, TLC

Word(text) == [k |-> "word", text |-> text]
ShortOf(text) == [k |-> "short", text |-> text]
Long(name) == [k |-> "long", name |-> name, eq |-> FALSE, text |-> <<>>]
LongIs(name, text) == [k |-> "long", name |-> name, eq |-> TRUE, text |-> text]

MCArgs ==
  {Word(<<"1">>), Word(<<"9">>), Word(<<"run">>),
   Long("sync"), Long("balance"), Long("tag"), Long("help"), Long("nope"),
   LongIs("balance", <<"2">>), LongIs("sync", <<"x">>), LongIs("help", <<"0">>),
   ShortOf(<<"s">>), ShortOf(<<"s", "x">>), ShortOf(<<"s", "b", "1">>), ShortOf(<<"b">>),
   ShortOf(<<"b", "=", "9">>), ShortOf(<<"s", "h">>), ShortOf(<<"h", "=", "0">>),
   LongIs("help", <<"x">>), ShortOf(<<"h", "=", "1">>), LongIs("tag", <<>>)}
MCManyArgs == {Word(<<"1">>)}

MCCommands == {"root", "run", "empty"}
MCChild == [c \in MCCommands |->
              IF c = "root" THEN (<<"run">> :> "run") ELSE
              IF c = "run" THEN (<<"9">> :> "empty") ELSE <<>>]
MCHandlers == {"root", "run"}
MCFlags == {"sync", "balance", "tag"}
MCFlagsOf == [c \in MCCommands |-> IF c = "root" THEN {"sync", "balance"} ELSE {"tag"}]
MCShort == [f \in MCFlags |-> CASE f = "sync" -> "s" [] f = "balance" -> "b" [] OTHER -> "none"]
MCDefault == [f \in MCFlags |-> <<"default">>]
MCBad == <<"bad">>

\* verify_balance; tag takes any text.
MCLegal == [f \in MCFlags |->
              IF f = "balance" THEN {<<"1">>, <<"2">>}
              ELSE IF f = "sync" THEN {<<"0">>, <<"1">>}
              ELSE {TextOf(a) : a \in MCArgs} \cup {<<>>}]
MCParseBool(text) == CASE text = <<"1">> -> 1 [] text = <<"0">> -> 0 [] OTHER -> -1
MCParse(f, text) ==
  CASE f = "sync"    -> IF MCParseBool(text) = -1 THEN MCBad ELSE text
    [] f = "balance" -> IF text \in {<<"1">>, <<"2">>, <<"9">>} THEN text ELSE MCBad
    [] OTHER         -> text
=============================================================================
