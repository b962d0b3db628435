------------------------------ MODULE MCProgram ------------------------------
(***************************************************************************)
(* Program with the addresses of SharedAddress over two digits, and        *)
(* command lines of two elements.                                          *)
(***************************************************************************)
EXTENDS Program, TLC

\* parse_shared_address is that of SharedAddress, whose variables play no part here.
A == INSTANCE SharedAddress WITH
       Chars <- {":", "[", "]", "0", "1"}, MaxLen <- 5,
       Digit <- ("0" :> 0 @@ "1" :> 1), MaxPort <- 100,
       V4Text <- LAMBDA t : FALSE, V6Text <- LAMBDA t : t = <<":", ":">>,
       MAX_IPV4_STRING_LEN <- 3, MAX_IPV6_STRING_LEN <- 2,
       pc <- pc, text <- value["addr"], addr <- addr, copied <- 0, family <- 0

MCFits(t) == A!Parses(t)
MCPort(t) == A!Port(A!PortText(t))

Word(text) == [k |-> "word", text |-> text]
ShortOf(text) == [k |-> "short", text |-> text]
Long(name_) == [k |-> "long", name |-> name_, eq |-> FALSE, text |-> << >>]
LongIs(name_, text) == [k |-> "long", name |-> name_, eq |-> TRUE, text |-> text]

MCArgs ==
  {Word(<<"1">>), Word(<<":", "1">>), Long("addr"), Long("worker"), Long("help"), Long("nope"),
   LongIs("addr", <<":", "1", "0">>), LongIs("addr", <<"[", "]", ":", "0">>),
   LongIs("balance", <<"2">>), LongIs("balance", <<"9">>), LongIs("worker", <<"0">>),
   LongIs("worker", <<"2">>), ShortOf(<<"s">>), ShortOf(<<"s", "b", "1">>), ShortOf(<<"w">>), LongIs("help", <<"0">>)}
MCDefaultAddr == <<":", "1">>
\* What a flag may take for an address: a text, or a whole element with its dashes.
MCTexts == UNION {{a.text, <<"-">> \o a.text} : a \in MCArgs}
           \cup {<<"-", "-", a.name>> \o a.text : a \in {a \in MCArgs : a.k = "long"}}

MCPaths == {<<"/", "b", "/", "s">>, <<"/", "-", "s">>, <<"b", "/", "-", "s">>, <<"b", "s", "/">>}

MCParseBool(text) == CASE text = <<"1">> -> 1 [] text = <<"0">> -> 0 [] OTHER -> -1
MCParseUint8(text) ==
  CASE text = <<"0">> -> 0 [] text = <<"1">> -> 1 [] text = <<"2">> -> 2
    [] text = <<"9">> -> 9 [] OTHER -> Bad
=============================================================================
