--------------------------- MODULE MCFlagsRegistry ---------------------------
(***************************************************************************)
(* FlagsRegistry with one array variable, which two flags may share.  "-c" *)
(* may name a flag but not a command.                                      *)
(***************************************************************************)
EXTENDS FlagsRegistry, TLC

MCCommandNames == {"a", "b", "-c"}
MCFlagNames    == {"a", "-c", "help"}
MCLegalCommands == {"a", "b"}
MCLegalFlags    == {"a", "-c", "help"}

Null      == [p |-> "null", cap |-> 0, len |-> 0, mem |-> << >>]
Static    == [p |-> "static", cap |-> 0, len |-> 1, mem |-> <<1>>]
Allocated == [p |-> "allocated", cap |-> 1, len |-> 1, mem |-> <<1>>]
MCInitial  == {Null, Static, Allocated}
MCNull     == {Null}
=============================================================================
