---------------------------- MODULE SharedAddress ----------------------------
(***************************************************************************)
(* parse_shared_address of src/shared/shared.c, called twice with the same *)
(* text: by verify_addr of src/example.c without a place for the result,   *)
(* and by root_handler with an uninitialised one, whose content            *)
(* sync_listener_init and async_listener_init then read.                   *)
(***************************************************************************)
EXTENDS Integers, Sequences, FiniteSetsExt

CONSTANTS
  Chars,      \* characters of an address
  MaxLen,     \* bound of its length
  Digit,      \* Digit[c]: value of the characters that are digits
  MaxPort,    \* 65535
  V4Text(_),  \* inet_pton(AF_INET) accepts the text
  V6Text(_),  \* inet_pton(AF_INET6) accepts the text
  MAX_IPV4_STRING_LEN, MAX_IPV6_STRING_LEN

ASSUME AddressAssumption ==
  /\ MaxLen \in Nat /\ MaxPort \in Nat
  /\ MAX_IPV4_STRING_LEN \in Nat /\ MAX_IPV6_STRING_LEN \in Nat
  /\ DOMAIN Digit \subseteq Chars /\ \A c \in DOMAIN Digit : Digit[c] \in 0 .. 9

\* inet_pton(AF_INET6) accepts "::", the text of in6addr_any.
ASSUME AnyAssumption == V6Text(<<":", ":">>)

VARIABLES
  pc,      \* "verify_addr", "root_handler", "listen", "listening" or "refused"
  text,    \* flags->addr
  addr,    \* shared_address_t of root_handler
  copied,  \* history: bytes written to ip, and its size
  family   \* history: address family the listener's socket is bound with

vars == <<pc, text, addr, copied, family>>

\* What inet_pton returns.
InetPton(accepted) == IF accepted THEN 1 ELSE 0

\* Index of the last ':', 0 when there is none.
Colon(t) == Max({0} \cup {k \in 1 .. Len(t) : t[k] = ":"})

PortZero(t) ==   \* mutant: port 0 is let through
  LET value[n \in 0 .. Len(t)] == IF n = 0 THEN 0 ELSE value[n - 1] * 10 + Digit[t[n]]
  IN  IF t # <<>> /\ (\A k \in DOMAIN t : t[k] \in DOMAIN Digit) THEN value[Len(t)] ELSE -1

\* ppp_c_flags_parse_uint64 in base 10 and 16 bits; -1 where it fails or gives 0.
Port(t) ==
  LET value[n \in 0 .. Len(t)] == IF n = 0 THEN 0 ELSE value[n - 1] * 10 + Digit[t[n]]
  IN  IF t # <<>> /\ (\A k \in DOMAIN t : t[k] \in DOMAIN Digit)
         /\ value[Len(t)] \in 1 .. MaxPort
      THEN value[Len(t)] ELSE -1

Host(t) == SubSeq(t, 1, Colon(t) - 1)
PortText(t) == SubSeq(t, Colon(t) + 1, Len(t))
Bracketed(h) == Len(h) >= 2 /\ h[1] = "[" /\ h[Len(h)] = "]"
Inside(h) == SubSeq(h, 2, Len(h) - 1)

\* The texts that reach a branch of the host, and the branch they reach.
HasPort(t) == Colon(t) > 0 /\ Port(PortText(t)) # -1

BranchLongV4(t) ==   \* mutant: one character too many fits
  LET h == Host(t)
  IN  IF ~ HasPort(t) \/ Len(h) = 1 THEN "fail"
      ELSE IF h = <<>> THEN "any"
      ELSE IF Bracketed(h) THEN IF Len(h) - 2 > MAX_IPV6_STRING_LEN THEN "fail" ELSE "v6"
      ELSE IF Len(h) > MAX_IPV4_STRING_LEN + 1 THEN "fail" ELSE "v4"

Branch(t) ==
  LET h == Host(t)
  IN  IF ~ HasPort(t) \/ Len(h) = 1 THEN "fail"
      ELSE IF h = <<>> THEN "any"
      ELSE IF Bracketed(h) THEN IF Len(h) - 2 > MAX_IPV6_STRING_LEN THEN "fail" ELSE "v6"
      ELSE IF Len(h) > MAX_IPV4_STRING_LEN THEN "fail" ELSE "v4"

\* The return value, which is the same with and without addr: the branches of
\* a host fail when inet_pton does not return 0.
Parses(t) ==
  CASE Branch(t) = "fail" -> FALSE
    [] Branch(t) = "any"  -> TRUE
    [] Branch(t) = "v6"   -> InetPton(V6Text(Inside(Host(t)))) = 0
    [] Branch(t) = "v4"   -> InetPton(V4Text(Host(t))) = 0

\* In the code the branches with addr are written a second time.
ParsesIntoStrict(t) ==   \* mutant: the two copies of the v4 test disagree
  Parses(t) /\ (Branch(t) = "v4" => V4Text(Host(t)))
ParsesInto(t) == Parses(t)

\* Bytes the host and its terminator take in ip, and the bytes ip has.
CopiedBy(t) ==
  CASE Branch(t) = "v6" -> [n |-> Len(Host(t)) - 1, size |-> MAX_IPV6_STRING_LEN + 1]
    [] Branch(t) = "v4" -> [n |-> Len(Host(t)) + 1, size |-> MAX_IPV4_STRING_LEN + 1]
    [] OTHER            -> [n |-> 0, size |-> 0]

StoredV6Unset(t, old) ==   \* mutant: the v6 branch does not assign v6 either
  [v6   |-> IF Branch(t) = "any" THEN InetPton(V6Text(<<":", ":">>)) ELSE old.v6,
   port |-> IF ParsesInto(t) THEN Port(PortText(t)) ELSE old.port]

\* What a parse leaves in addr: the v4 branch does not assign v6, and a
\* branch that fails has set v6 but no port.
Stored(t, old) ==
  [v6   |-> IF Branch(t) = "any" THEN InetPton(V6Text(<<":", ":">>))
            ELSE IF Branch(t) = "v6" THEN 1 ELSE old.v6,
   port |-> IF ParsesInto(t) THEN Port(PortText(t)) ELSE old.port]

Init ==
  /\ pc = "verify_addr"
  /\ text \in UNION {[1 .. n -> Chars] : n \in 0 .. MaxLen}
  /\ addr = [v6 |-> 0, port |-> 0] /\ family = "none"
  /\ copied = [n |-> 0, size |-> 0]

\* verify_addr: a text that does not parse ends the program.
VerifyAddr ==
  /\ pc = "verify_addr"
  /\ pc' = IF Parses(text) THEN "root_handler" ELSE "refused"
  /\ copied' = CopiedBy(text)
  /\ UNCHANGED <<text, addr, family>>

\* root_handler: addr is not initialised, and the return value not looked at.
ParseAgain ==
  /\ pc = "root_handler"
  /\ \E v6 \in {0, 1} : addr' = Stored(text, [v6 |-> v6, port |-> 0])
  /\ copied' = CopiedBy(text)
  /\ pc' = "listen"
  /\ UNCHANGED <<text, family>>

\* The socket's family follows addr->v6 in both listeners.
Listen ==
  /\ pc = "listen"
  /\ family' = IF addr.v6 = 1 THEN "AF_INET6" ELSE "AF_INET"
  /\ pc' = "listening"
  /\ UNCHANGED <<text, addr, copied>>

Next == VerifyAddr \/ ParseAgain \/ Listen
Spec == Init /\ [][Next]_vars
-----------------------------------------------------------------------------
(* Properties.                                                             *)

\* The port a listener is bound with is the number after the last ':', not 0
\* and no more than 16 bits: the parse that fills addr accepts what the parse
\* of verify_addr accepted, although root_handler does not look.
ListensOnPort ==
  pc \in {"listen", "listening"} =>
    addr.port \in 1 .. MaxPort /\ addr.port = Port(PortText(text))

\* Neither ip buffer is written past its end, terminator included.
NoOverrun == copied.n <= copied.size

\* An empty host listens on any address of the family the system has, and a
\* host in brackets on IPv6.
FamilyOfBrackets ==
  pc = "listening" /\ Branch(text) \in {"any", "v6"} => family = "AF_INET6"

\* example.c, the help of addr: [::]:80 127.0.0.1:80 are examples of [host]:port.
AcceptsDocumented ==
  pc = "refused" =>
    /\ HasPort(text) => ~ V4Text(Host(text))
    /\ HasPort(text) /\ Bracketed(Host(text)) => ~ V6Text(Inside(Host(text)))

\* shared.h: parse [host]:port to sockaddr_in.  An address without brackets
\* is an AF_INET one.
PlainHostIsV4 == pc = "listening" /\ Branch(text) = "v4" => family = "AF_INET"
=============================================================================
