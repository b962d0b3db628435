--------------------------- MODULE MCSharedAddress ---------------------------
(* Two digits; the addresses of the documentation in miniature: 1. stands   *)
(* for the IPv4 addresses, :: and 1: for the IPv6 addresses.                *)
EXTENDS SharedAddress, TLC

MCChars == {":", "[", "]", "0", "1"}
MCDigit == ("0" :> 0 @@ "1" :> 1)
MCV4Text(t) == Len(t) \in 2 .. 3 /\ \A k \in DOMAIN t : t[k] \in {"0", "1"}
MCV6Text(t) == t \in {<<":", ":">>, <<"1", ":">>}
=============================================================================
