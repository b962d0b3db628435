------------------------- MODULE SharedAddressProofs -------------------------
(***************************************************************************)
(* Theorems about SharedAddress for every set of characters, every length, *)
(* and whatever texts inet_pton accepts.                                   *)
(***************************************************************************)
EXTENDS SharedAddress, SequenceTheorems, WellFoundedInduction, TLAPS

\* The last ':' exists: a set of numbers up to a bound that is not empty has a largest one.
LEMMA LargestExists ==
  ASSUME NEW n \in Nat, NEW T \in SUBSET (0 .. n), T # {}
  PROVE  Max(T) \in T /\ \A y \in T : Max(T) >= y
<1> DEFINE R == OpToRel(<, Nat)
           U == {n - x : x \in T}
<1>1. U \subseteq Nat /\ U # {}
  <2>1. \A x \in T : x \in 0 .. n /\ n - x \in Nat
    OBVIOUS
  <2>2. U \subseteq Nat
    BY <2>1
  <2>3. PICK x \in T : TRUE
    OBVIOUS
  <2>4. n - x \in U
    BY <2>3
  <2> QED BY <2>2, <2>4
<1>2. \A x, y \in Nat : x < y => <<x, y>> \in R
  BY DEF OpToRel
<1>3. IsWellFoundedOn(R, Nat)
  BY NatLessThanWellFounded
<1> HIDE DEF R
<1>4. \E x \in U : \A y \in U : ~ (<<y, x>> \in R)
  BY <1>1, <1>3, WFMin
<1>5. PICK x \in T : \A y \in T : ~ (n - y < n - x)
  BY <1>1, <1>2, <1>4
<1>6. \A y \in T : x >= y
  BY <1>5
<1> QED BY <1>6 DEF Max

\* The colon is a position of the text, or 0.
LEMMA ColonIsPosition ==
  ASSUME NEW t \in Seq(Chars)
  PROVE  /\ Colon(t) \in 0 .. Len(t)
         /\ Colon(t) > 0 => t[Colon(t)] = ":" /\ \A k \in Colon(t) + 1 .. Len(t) : t[k] # ":"
         /\ Colon(t) = 0 => \A k \in 1 .. Len(t) : t[k] # ":"
<1> DEFINE T == {0} \cup {k \in 1 .. Len(t) : t[k] = ":"}
<1>1. Len(t) \in Nat /\ T \in SUBSET (0 .. Len(t)) /\ T # {}
  BY LenProperties
<1>2. Max(T) \in T /\ \A y \in T : Max(T) >= y
  BY <1>1, LargestExists
<1>3. Colon(t) = Max(T)
  BY DEF Colon
<1>4. Colon(t) \in T /\ \A y \in T : Colon(t) >= y
  BY <1>2, <1>3
<1> QED BY <1>1, <1>4

\* What Port returns is in range, or says that it failed.
LEMMA PortInRange ==
  ASSUME NEW t
  PROVE  Port(t) = -1 \/ Port(t) \in 1 .. MaxPort
  BY DEF Port

\* The branches of a host are reached with its lengths: what is copied fits.
LEMMA BranchLengths ==
  ASSUME NEW t \in Seq(Chars)
  PROVE  CopiedBy(t).n <= CopiedBy(t).size
<1>0. /\ Colon(t) \in 0 .. Len(t) /\ Len(t) \in Nat
      /\ MAX_IPV4_STRING_LEN \in Nat /\ MAX_IPV6_STRING_LEN \in Nat
  BY ColonIsPosition, LenProperties, AddressAssumption
<1>1. CASE Branch(t) = "fail" \/ Branch(t) = "any"
  <2>1. CopiedBy(t) = [n |-> 0, size |-> 0]
    BY <1>1 DEF CopiedBy
  <2> QED BY <2>1
<1>2. ASSUME Branch(t) \notin {"fail", "any"} PROVE Len(Host(t)) \in Nat
  <2>1. Colon(t) > 0
    BY <1>2 DEF Branch, HasPort
  <2>2. Host(t) \in Seq(Chars)
    BY <1>0, <2>1, SubSeqProperties DEF Host
  <2> QED BY <2>2, LenProperties
<1>3. CASE Branch(t) = "v6"
  <2>1. Len(Host(t)) - 2 <= MAX_IPV6_STRING_LEN
    BY <1>0, <1>2, <1>3 DEF Branch
  <2>2. CopiedBy(t) = [n |-> Len(Host(t)) - 1, size |-> MAX_IPV6_STRING_LEN + 1]
    BY <1>3 DEF CopiedBy
  <2> QED BY <1>0, <1>2, <1>3, <2>1, <2>2
<1>4. CASE Branch(t) = "v4"
  <2>1. Len(Host(t)) <= MAX_IPV4_STRING_LEN
    BY <1>0, <1>2, <1>4 DEF Branch
  <2>2. CopiedBy(t) = [n |-> Len(Host(t)) + 1, size |-> MAX_IPV4_STRING_LEN + 1]
    BY <1>4 DEF CopiedBy
  <2> QED BY <1>0, <1>2, <1>4, <2>1, <2>2
<1>5. Branch(t) \in {"fail", "any", "v6", "v4"}
  BY DEF Branch
<1> QED BY <1>1, <1>3, <1>4, <1>5

\* A text that parses has a port in range.
LEMMA ParsedHasPort ==
  ASSUME NEW t, Parses(t)
  PROVE  Port(PortText(t)) \in 1 .. MaxPort
<1>1. Branch(t) # "fail"
  BY DEF Parses
<1>2. Port(PortText(t)) # -1
  BY <1>1 DEF Branch, HasPort
<1> QED BY <1>2, PortInRange

\* What a parse that succeeds leaves in addr, in the two branches that assign v6.
LEMMA StoredWhat ==
  ASSUME NEW t, NEW old, Parses(t)
  PROVE  /\ Stored(t, old).port = Port(PortText(t))
         /\ Branch(t) \in {"any", "v6"} => Stored(t, old).v6 = 1
<1>1. Stored(t, old).port = Port(PortText(t))
  BY DEF Stored, ParsesInto
<1>2. Stored(t, old).v6 = IF Branch(t) = "any" THEN InetPton(V6Text(<<":", ":">>))
                          ELSE IF Branch(t) = "v6" THEN 1 ELSE old.v6
  BY DEF Stored
<1>3. InetPton(V6Text(<<":", ":">>)) = 1
  BY AnyAssumption DEF InetPton
<1> QED BY <1>1, <1>2, <1>3
-----------------------------------------------------------------------------
(* The two parses of one text, and the socket.                              *)

\* What root_handler parses is what verify_addr accepted, and the socket follows addr.
IInv ==
  /\ text \in Seq(Chars)
  /\ pc \in {"verify_addr", "root_handler", "listen", "listening", "refused"}
  /\ copied.n <= copied.size
  /\ pc \in {"root_handler", "listen", "listening"} => Parses(text)
  /\ pc \in {"listen", "listening"} =>
       /\ addr.port = Port(PortText(text))
       /\ Branch(text) \in {"any", "v6"} => addr.v6 = 1
  /\ pc = "listening" => family = IF addr.v6 = 1 THEN "AF_INET6" ELSE "AF_INET"

\* The text comes from the command line; nothing has been parsed.
LEMMA InitIInv == Init => IInv
<1> SUFFICES ASSUME Init PROVE IInv
  OBVIOUS
<1>1. text \in Seq(Chars)
  BY AddressAssumption DEF Init
<1>2. copied.n <= copied.size
  BY DEF Init
<1> QED BY <1>1, <1>2 DEF Init, IInv

\* Each parse, and the socket, keep it.
LEMMA StepIInv == IInv /\ [Next]_vars => IInv'
<1> SUFFICES ASSUME IInv, [Next]_vars PROVE IInv'
  OBVIOUS
<1>1. CopiedBy(text).n <= CopiedBy(text).size
  BY BranchLengths DEF IInv
<1>2. CASE VerifyAddr
  BY <1>1, <1>2 DEF VerifyAddr, IInv
<1>3. CASE ParseAgain
  <2>1. PICK old : addr' = Stored(text, old)
    BY <1>3 DEF ParseAgain
  <2>2. /\ Parses(text) /\ pc' = "listen" /\ copied' = CopiedBy(text)
        /\ UNCHANGED <<text, family>>
    BY <1>3 DEF ParseAgain, IInv
  <2>3. /\ addr'.port = Port(PortText(text))
        /\ Branch(text) \in {"any", "v6"} => addr'.v6 = 1
    BY <2>1, <2>2, StoredWhat
  <2> QED BY <1>1, <2>2, <2>3 DEF IInv
<1>4. CASE Listen
  BY <1>4 DEF Listen, IInv
<1>5. CASE UNCHANGED vars
  BY <1>5 DEF vars, IInv
<1> QED BY <1>2, <1>3, <1>4, <1>5 DEF Next

\* The inductive invariant holds from the command line to the listening socket.
THEOREM InductiveInvariant == Spec => []IInv
  BY InitIInv, StepIInv, PTL DEF Spec

\* A listener is bound with the number after the last ':', between 1 and 65535, although
\* root_handler does not look at what its parse returned.
THEOREM PortIsTheOneGiven == Spec => []ListensOnPort
<1>1. IInv => ListensOnPort
  BY ParsedHasPort DEF IInv, ListensOnPort
<1> QED BY <1>1, InductiveInvariant, PTL

\* Neither ip buffer is written past its end.
THEOREM NothingOverrun == Spec => []NoOverrun
<1>1. IInv => NoOverrun
  BY DEF IInv, NoOverrun
<1> QED BY <1>1, InductiveInvariant, PTL

\* An empty host and a host in brackets listen on IPv6.
THEOREM BracketsAreV6 == Spec => []FamilyOfBrackets
<1>1. IInv => FamilyOfBrackets
  BY DEF IInv, FamilyOfBrackets
<1> QED BY <1>1, InductiveInvariant, PTL
=============================================================================
