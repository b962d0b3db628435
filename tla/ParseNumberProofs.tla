-------------------------- MODULE ParseNumberProofs --------------------------
(***************************************************************************)
(* Theorems about ParseNumber for every word size, base, bit_size and      *)
(* input: the loop of parse_uint64 never wraps, its two tests detect       *)
(* overflow exactly, and a call accepts exactly the numbers in range and   *)
(* reports every other number as an overflow.                              *)
(***************************************************************************)
EXTENDS ParseNumber, SequenceTheorems, WellFoundedInduction, TLAPS

\* What WordAssumption says of the largest word.
LEMMA WordFacts == MaxWord \in Nat /\ MaxWord >= 35 /\ Word = MaxWord + 1
BY WordAssumption DEF MaxWord

\* cutoff is the smallest word whose product with base does not fit a word.
LEMMA CutoffIsExact ==
  ASSUME NEW b \in 2 .. 36, NEW m \in Nat
  PROVE  m < MaxWord \div b + 1 <=> m * b <= MaxWord
<1> DEFINE q == MaxWord \div b
<1>1. q \in Nat /\ q * b <= MaxWord /\ MaxWord < (q + 1) * b
  BY WordFacts
<1>2. CASE m <= q
  <2>1. m * b <= q * b  BY <1>1, <1>2
  <2> QED BY <1>1, <1>2, <2>1, WordFacts
<1>3. CASE m >= q + 1
  <2>1. m * b >= (q + 1) * b  BY <1>1, <1>3
  <2> QED BY <1>1, <1>3, <2>1, WordFacts
<1> QED BY <1>1, <1>2, <1>3

\* What is known inside the loop of parse_uint64.
LoopInv ==
  pc = "loop" =>
    /\ base \in 2 .. 36
    /\ maxVal \in 1 .. MaxWord
    /\ cutoff = MaxWord \div base + 1
    /\ n \in 0 .. maxVal
    /\ exact = n

IInv == /\ (pc \in {"sign", "prefix"} => n = 0 /\ exact = 0)
        /\ LoopInv

\* On words: the product fits when n < cutoff, and the sum wrapped or is too
\* large exactly when the number is.
LEMMA OverflowTests ==
  ASSUME IInv, pc = "loop", NEW d \in 0 .. 35, d < base
  PROVE  /\ n >= cutoff \/ TooBig(d) <=> n * base + d > maxVal
         /\ n * base + d <= maxVal => Sum(d) = n * base + d
<1> DEFINE p == n * base
<1>1. /\ base \in 2 .. 36 /\ n \in Nat /\ MaxWord \in Nat /\ maxVal \in Nat
      /\ maxVal <= MaxWord /\ Word = MaxWord + 1 /\ cutoff = MaxWord \div base + 1
      /\ cutoff \in Nat
  <2>1. MaxWord \in Nat /\ Word = MaxWord + 1
    BY WordFacts
  <2>2. MaxWord \div base \in Nat
    BY <2>1 DEF IInv, LoopInv
  <2> QED BY <2>1, <2>2 DEF IInv, LoopInv
<1>2. p \in Nat  BY <1>1
<1>3. n < cutoff <=> p <= MaxWord
  BY <1>1, CutoffIsExact
<1> HIDE DEF p
<1>4. CASE p > MaxWord
  BY <1>1, <1>2, <1>3, <1>4 DEF p
<1>5. CASE p <= MaxWord /\ p + d <= MaxWord
  <2>1. Product = p /\ Sum(d) = p + d
    BY <1>1, <1>2, <1>5 DEF Product, Sum, p
  <2> QED BY <1>1, <1>2, <1>3, <1>5, <2>1 DEF TooBig, p
<1>6. CASE p <= MaxWord /\ p + d > MaxWord
  <2>1. Product = p  BY <1>1, <1>2, <1>6 DEF Product, p
  <2>2. Sum(d) = p + d - Word
    <3>1. p + d - Word \in 0 .. Word - 1 /\ p + d = Word + (p + d - Word)
      BY <1>1, <1>2, <1>6, WordFacts
    <3>2. (p + d) % Word = p + d - Word
      BY <1>1, <1>2, <3>1
    <3> QED BY <2>1, <3>2 DEF Sum
  <2>3. d <= MaxWord
    BY <1>1, WordFacts
  <2> QED BY <1>1, <1>2, <1>3, <1>6, <2>1, <2>2, <2>3 DEF TooBig, p
<1> QED BY <1>1, <1>2, <1>4, <1>5, <1>6

\* The prefix detection of parse_uint64 always ends with a base from 2 to 36.
LEMMA DetectedBase ==
  ASSUME NEW s, baseArg \in {0} \cup 2 .. 36
  PROVE  Detect(s).base \in 2 .. 36
<1> DEFINE d == Detect(s)
<1>1. d.base \in {baseArg, 10, 8, 2, 16} /\ (d.base = baseArg => baseArg # 0)
  BY DEF Detect
<1> QED BY <1>1

\* The invariant holds when parse_uint64 or parse_int64 is entered.
LEMMA InitIInv == Init => IInv
BY DEF Init, IInv, LoopInv

\* Every step of the loop keeps the word equal to the value of the digits.
LEMMA NextIInv == IInv /\ [Next]_vars => IInv'
<1> SUFFICES ASSUME IInv, [Next]_vars PROVE IInv'
  OBVIOUS
<1> USE DEF IInv, LoopInv
<1>1. CASE Sign  BY <1>1 DEF Sign, locals
<1>2. CASE Prefix
  <2>1. base' \in 2 .. 36 /\ cutoff' = MaxWord \div base' + 1
    BY <1>2, DetectedBase DEF Prefix, ArgumentsOK, CutoffOf
  <2>2. maxVal' \in 1 .. MaxWord
    BY <1>2, WordAssumption DEF Prefix, ArgumentsOK
  <2>3. n' = 0 /\ exact' = 0 /\ pc' = "loop"
    BY <1>2 DEF Prefix
  <2> QED BY <2>1, <2>2, <2>3, WordFacts
<1>3. CASE Digit
  <2>1. /\ pc = "loop" /\ pc' = "loop" /\ UNCHANGED locals
        /\ str[pos] \in 0 .. 35 /\ str[pos] < base
        /\ n < cutoff /\ ~ TooBig(str[pos])
        /\ n' = Sum(str[pos]) /\ exact' = exact * base + str[pos]
    BY <1>3 DEF Digit, AtChar, IsDigit, Digits
  <2>2. cutoff \in Int /\ n * base + str[pos] \in Nat /\ maxVal \in Nat
    BY <2>1, WordFacts
  <2>3. n * base + str[pos] <= maxVal
    BY <2>1, <2>2, OverflowTests
  <2>4. n' = n * base + str[pos]
    BY <2>1, <2>3, OverflowTests
  <2> QED BY <2>1, <2>2, <2>3, <2>4 DEF locals
<1>4. CASE SkipUnderscore  BY <1>4 DEF SkipUnderscore, AtChar, locals
<1>5. CASE BadArguments \/ BadCharacter \/ Overflow \/ Misplaced \/ Finish
  BY <1>5 DEF BadArguments, BadCharacter, Overflow, Misplaced, Finish, Return, AtChar
<1>6. CASE Narrow  BY <1>6 DEF Narrow
<1>7. CASE UNCHANGED vars  BY <1>7 DEF vars, locals
<1> QED BY <1>1, <1>2, <1>3, <1>4, <1>5, <1>6, <1>7 DEF Next

\* The inductive invariant of the loop holds throughout the call.
THEOREM InductiveInvariant == Spec => []IInv
BY InitIInv, NextIInv, PTL DEF Spec

\* The word n is, for every word size and bit_size, the value of the digits read.
THEOREM WordNeverWraps == Spec => []NeverWraps
<1>1. IInv => NeverWraps
  BY WordFacts DEF IInv, LoopInv, NeverWraps
<1> QED BY InductiveInvariant, <1>1, PTL

\* The tests n >= cutoff and n1 < n || n1 > maxVal report overflow exactly when the
\* number does not fit bit_size.
THEOREM OverflowDetectedExactly == Spec => []OverflowTestExact
<1>1. IInv => OverflowTestExact
  <2> SUFFICES ASSUME IInv, AtChar, IsDigit
               PROVE  n >= cutoff \/ TooBig(str[pos]) <=> exact * base + str[pos] > maxVal
    BY DEF OverflowTestExact
  <2>1. pc = "loop" /\ str[pos] \in 0 .. 35 /\ str[pos] < base /\ exact = n
    BY DEF AtChar, IsDigit, Digits, IInv, LoopInv
  <2> QED BY <2>1, OverflowTests
<1> QED BY InductiveInvariant, <1>1, PTL
-----------------------------------------------------------------------------
(* Two facts about natural numbers up to a limit.                          *)

\* Induction up to L, over a set.
LEMMA InductionTo ==
  ASSUME NEW L \in Nat, NEW T \in SUBSET (0 .. L), 0 \in T,
         \A k \in T : k < L => k + 1 \in T
  PROVE  \A k \in 0 .. L : k \in T
<1> DEFINE R == OpToRel(<, Nat)
           U == (0 .. L) \ T
<1>1. \A x, y \in Nat : x < y => <<x, y>> \in R
  BY DEF OpToRel
<1>2. IsWellFoundedOn(R, Nat)
  BY NatLessThanWellFounded
<1> HIDE DEF R
<1>3. ASSUME U # {}
      PROVE  FALSE
  <2>1. U \subseteq Nat
    OBVIOUS
  <2>2. \E x \in U : \A y \in U : ~ (<<y, x>> \in R)
    BY <1>2, <1>3, <2>1, WFMin
  <2>3. PICK x \in U : \A y \in U : ~ (y < x)
    BY <1>1, <2>1, <2>2
  <2>4. x \in 1 .. L /\ x - 1 \in 0 .. L /\ x - 1 < x /\ x - 1 < L
    BY <2>3
  <2>5. x - 1 \in T
    BY <2>3, <2>4
  <2>6. (x - 1) + 1 \in T /\ (x - 1) + 1 = x
    BY <2>4, <2>5
  <2> QED BY <2>3, <2>6
<1> QED BY <1>3

\* A recursion over 1 .. L has a solution.
LEMMA RecursionExists ==
  ASSUME NEW L \in Nat, NEW S, NEW s0 \in S, NEW step \in [1 .. L -> [S -> S]]
  PROVE  \E f \in [0 .. L -> S] : f[0] = s0 /\ \A k \in 1 .. L : f[k] = step[k][f[k - 1]]
<1> DEFINE Solves(f, m) == f[0] = s0 /\ \A k \in 1 .. m : f[k] = step[k][f[k - 1]]
           T == {m \in 0 .. L : \E f \in [0 .. m -> S] : Solves(f, m)}
<1>1. 0 \in T
  <2> DEFINE f == [k \in 0 .. 0 |-> s0]
  <2>1. f \in [0 .. 0 -> S] /\ f[0] = s0 /\ 1 .. 0 = {}
    OBVIOUS
  <2>2. Solves(f, 0) /\ 0 \in 0 .. L
    BY <2>1
  <2> HIDE DEF f
  <2>3. \E g \in [0 .. 0 -> S] : Solves(g, 0)
    BY <2>1, <2>2, Zenon
  <2> QED BY <2>2, <2>3
<1>2. ASSUME NEW m \in T, m < L
      PROVE  m + 1 \in T
  <2>1. PICK f \in [0 .. m -> S] : Solves(f, m)
    OBVIOUS
  <2> DEFINE g == [k \in 0 .. m + 1 |-> IF k = m + 1 THEN step[m + 1][f[m]] ELSE f[k]]
  <2>2. m \in Nat /\ m + 1 \in 1 .. L /\ m + 1 \in 0 .. L
    BY <1>2
  <2>3. step[m + 1][f[m]] \in S
    BY <2>1, <2>2
  <2>4. g \in [0 .. m + 1 -> S]
    BY <2>1, <2>2, <2>3
  <2>5. \A k \in 0 .. m : g[k] = f[k]
    BY <2>2
  <2>6. g[m + 1] = step[m + 1][f[m]]
    BY <2>2
  <2> HIDE DEF g
  <2>7. g[0] = s0
    BY <2>1, <2>2, <2>5
  <2>8. ASSUME NEW k \in 1 .. m + 1
        PROVE  g[k] = step[k][g[k - 1]]
    <3>1. CASE k = m + 1
      <4>1. k - 1 = m /\ m \in 0 .. m
        BY <2>2, <3>1
      <4> QED BY <2>5, <2>6, <3>1, <4>1
    <3>2. CASE k # m + 1
      <4>1. k \in 1 .. m /\ k \in 0 .. m /\ k - 1 \in 0 .. m
        BY <2>2, <3>2
      <4> QED BY <2>1, <2>5, <4>1
    <3> QED BY <3>1, <3>2
  <2> QED BY <2>2, <2>4, <2>7, <2>8
<1> HIDE DEF T
<1>3. T \in SUBSET (0 .. L)
  BY DEF T
<1>4. \A m \in 0 .. L : m \in T
  BY <1>1, <1>2, <1>3, InductionTo
<1>5. L \in T
  BY <1>4
<1> QED BY <1>5 DEF T

-----------------------------------------------------------------------------
(* The whole string.                                                       *)

Chars == Digits \cup {Underscore, Minus, Plus, Other}
ArgsInv == str \in Seq(Chars) /\ baseArg \in Int /\ bits \in Int /\ signed \in BOOLEAN

\* The arguments parse_uint64 does not refuse at once.
Admitted == RestOfArgs # << >> /\ baseArg \in {0} \cup 2 .. 36 /\ bits \in 0 .. WordBits
Skip == Detect(RestOfArgs).skip
Radix == Detect(RestOfArgs).base

\* Characters are integers, and the digits among them natural numbers.
LEMMA CharsAreInts == Chars \subseteq Int /\ Digits \subseteq Nat
BY DEF Chars, Digits, Underscore, Minus, Plus, Other

\* Digits are no other characters.
LEMMA DigitsAreNat ==
  /\ \A c : c \in 0 .. 35 => c \in Nat /\ c \notin {Underscore, Minus, Plus}
  /\ Underscore \notin {Minus, Plus} /\ Underscore \notin 0 .. 35
  /\ \A c, r : c \in 0 .. 35 /\ r \in 2 .. 36 /\ c < r =>
       /\ r <= 10 => c \in 0 .. 9
       /\ r = 16 => c \in 0 .. 9 \/ c \in 10 .. F
BY DEF Underscore, Minus, Plus, F

\* parse_int64 leaves parse_uint64 the string behind the sign.
Start == IF signed /\ str # << >> /\ str[1] \in {Minus, Plus} THEN 2 ELSE 1
LEMMA RestFacts ==
  ASSUME ArgsInv
  PROVE  /\ RestOfArgs \in Seq(Chars) /\ RestOfArgs = SubSeq(str, Start, Len(str))
         /\ Len(str) \in Nat /\ Start \in 1 .. Len(str) + 1 /\ Start \in 1 .. 2
         /\ Len(RestOfArgs) = Len(str) + 1 - Start
         /\ \A k \in 1 .. Len(RestOfArgs) : RestOfArgs[k] = str[Start + k - 1]
<1>1. str \in Seq(Chars) /\ Len(str) \in Nat
  BY LenProperties DEF ArgsInv
<1>2. CASE Start = 1
  <2>1. RestOfArgs = str
    BY <1>2 DEF RestOfArgs, Start
  <2>2. SubSeq(str, 1, Len(str)) = str
    BY <1>1
  <2> QED BY <1>1, <1>2, <2>1, <2>2
<1>3. CASE Start # 1
  <2>1. Start = 2 /\ str # << >> /\ RestOfArgs = Tail(str)
    BY <1>3 DEF RestOfArgs, Start
  <2>2. Len(str) \in Nat \ {0}
    BY <1>1, <2>1, EmptySeq
  <2>3. Tail(str) \in Seq(Chars) /\ Len(Tail(str)) = Len(str) - 1
        /\ \A k \in 1 .. Len(str) - 1 : Tail(str)[k] = str[k + 1]
    BY <1>1, <2>1, HeadTailProperties
  <2>4. Tail(str) = SubSeq(str, 2, Len(str))
    BY <1>1, <2>1, <2>2
  <2>5. \A k \in 1 .. Len(str) - 1 : Tail(str)[k] = str[2 + k - 1]
    BY <2>2, <2>3
  <2> QED BY <1>1, <2>1, <2>2, <2>3, <2>4, <2>5
<1> QED BY <1>2, <1>3

\* The characters of the prefix are there.
LEMMA SkipFacts ==
  ASSUME ArgsInv, Admitted
  PROVE  /\ Skip \in 0 .. 2 /\ Radix \in 2 .. 36
         /\ Skip <= Len(RestOfArgs) /\ Len(RestOfArgs) \in Nat \ {0}
<1>1. RestOfArgs \in Seq(Chars) /\ RestOfArgs # << >>
  BY RestFacts DEF Admitted
<1>2. Len(RestOfArgs) \in Nat \ {0}
  BY <1>1, EmptySeq
<1>3. \/ Skip = 0
      \/ Skip = 1
      \/ Skip = 2 /\ ~ (Len(RestOfArgs) < 3)
  BY DEF Detect, Skip
<1>4. Radix \in 2 .. 36
  BY DetectedBase DEF Radix, Admitted
<1> QED BY <1>2, <1>3, <1>4

\* The digits and underscores are what is left behind the prefix.
LEMMA BodyFacts ==
  ASSUME ArgsInv, Admitted
  PROVE  /\ Body \in Seq(Chars) /\ Len(Body) = Len(RestOfArgs) - Skip /\ Len(Body) \in Nat
         /\ DOMAIN Body = 1 .. Len(Body)
         /\ \A k \in 1 .. Len(Body) : Body[k] = RestOfArgs[Skip + k] /\ Body[k] \in Chars
<1>1. RestOfArgs \in Seq(Chars)
  BY RestFacts
<1>2. Skip \in 0 .. 2 /\ Skip <= Len(RestOfArgs) /\ Len(RestOfArgs) \in Nat
  BY SkipFacts
<1>3. Body = SubSeq(RestOfArgs, Skip + 1, Len(RestOfArgs))
  BY DEF Body, Skip
<1> HIDE DEF Body
<1>4. Body \in Seq(Chars) /\ Len(Body) = Len(RestOfArgs) - Skip
  BY <1>1, <1>2, <1>3
<1>5. \A k \in 1 .. Len(Body) : Body[k] = RestOfArgs[Skip + k]
  BY <1>1, <1>2, <1>3, <1>4
<1>6. DOMAIN Body = 1 .. Len(Body) /\ \A k \in 1 .. Len(Body) : Body[k] \in Chars
  BY <1>4, LenProperties
<1> QED BY <1>2, <1>4, <1>5, <1>6

\* The function Value names, written out to be reasoned about.
LEMMA ValueIs ==
  LET StepOf(v, i) == IF i = 0 THEN 0
                      ELSE IF Body[i] = Underscore THEN v[i - 1]
                      ELSE v[i - 1] * Detect(RestOfArgs).base + Body[i]
  IN  Value = CHOOSE v : v = [i \in 0 .. Len(Body) |-> StepOf(v, i)]
BY DEF Value

\* The value of a string, character by character.
LEMMA ValueFacts ==
  ASSUME ArgsInv, Admitted
  PROVE  /\ Value \in [0 .. Len(Body) -> Int] /\ Value[0] = 0
         /\ \A i \in 1 .. Len(Body) :
              Value[i] = IF Body[i] = Underscore THEN Value[i - 1] ELSE Value[i - 1] * Radix + Body[i]
<1>0. Radix \in Int
  <2>1. Radix \in 2 .. 36
    BY SkipFacts
  <2> QED BY <2>1
<1> DEFINE L == Len(Body)
           step == [i \in 1 .. L |-> [x \in Int |-> IF Body[i] = Underscore THEN x
                                                    ELSE x * Radix + Body[i]]]
           Rec(v) == [i \in 0 .. L |-> IF i = 0 THEN 0
                                       ELSE IF Body[i] = Underscore THEN v[i - 1]
                                       ELSE v[i - 1] * Radix + Body[i]]
<1>1. L \in Nat /\ Radix \in Int /\ \A i \in 1 .. L : Body[i] \in Int
  <2>1. L \in Nat /\ \A i \in 1 .. L : Body[i] \in Chars
    BY BodyFacts, Zenon
  <2>2. Radix \in Int
    BY <1>0
  <2> HIDE DEF L
  <2> QED BY <2>1, <2>2, CharsAreInts
<1>2. step \in [1 .. L -> [Int -> Int]]
  <2>1. \A i \in 1 .. L, x \in Int : x * Radix + Body[i] \in Int
    BY <1>1
  <2> QED BY <2>1
<1>3. \A i \in 1 .. L, x \in Int :
        step[i][x] = IF Body[i] = Underscore THEN x ELSE x * Radix + Body[i]
  OBVIOUS
<1>4. Value = CHOOSE v : v = Rec(v)
  BY ValueIs DEF Radix
<1> HIDE DEF step
<1>5. PICK f \in [0 .. L -> Int] : f[0] = 0 /\ \A i \in 1 .. L : f[i] = step[i][f[i - 1]]
  <2>1. 0 \in Int
    OBVIOUS
  <2> HIDE DEF L
  <2>2. \E f \in [0 .. L -> Int] : f[0] = 0 /\ \A i \in 1 .. L : f[i] = step[i][f[i - 1]]
    <3> DEFINE P(l, V, z, g) == \E f \in [0 .. l -> V] : f[0] = z /\ \A i \in 1 .. l : f[i] = g[i][f[i - 1]]
    <3>1. \A l \in Nat : \A V : \A z \in V : \A g \in [1 .. l -> [V -> V]] : P(l, V, z, g)
      BY RecursionExists, Zenon
    <3> HIDE DEF P
    <3>2. P(L, Int, 0, step)
      BY <1>1, <1>2, <2>1, <3>1
    <3> QED BY <3>2 DEF P
  <2> QED BY <2>2
<1>6. f = Rec(f)
  <2>1. \A i \in 0 .. L : f[i] = Rec(f)[i]
    <3> SUFFICES ASSUME NEW i \in 0 .. L
                 PROVE  f[i] = Rec(f)[i]
      OBVIOUS
    <3>1. CASE i = 0
      BY <1>5, <3>1
    <3>2. CASE i # 0
      <4>1. i \in 1 .. L /\ i - 1 \in 0 .. L
        BY <1>1, <3>2
      <4>2. f[i - 1] \in Int
        BY <1>5, <4>1
      <4>3. f[i] = IF Body[i] = Underscore THEN f[i - 1] ELSE f[i - 1] * Radix + Body[i]
        BY <1>3, <1>5, <4>1, <4>2
      <4> QED BY <3>2, <4>3
    <3> QED BY <3>1, <3>2
  <2> QED BY <1>5, <2>1
<1>7. Value = Rec(Value)
  BY <1>4, <1>6
<1>8. /\ DOMAIN Value = 0 .. L /\ Value[0] = 0
      /\ \A i \in 1 .. L :
           Value[i] = IF Body[i] = Underscore THEN Value[i - 1] ELSE Value[i - 1] * Radix + Body[i]
  <2>1. DOMAIN Value = 0 .. L
    BY <1>7
  <2>2. \A i \in 0 .. L : Value[i] = Rec(Value)[i]
    BY <1>7
  <2>3. Value[0] = 0
    BY <1>1, <2>2
  <2>4. \A i \in 1 .. L : i \in 0 .. L /\ i # 0
    BY <1>1
  <2> QED BY <2>1, <2>2, <2>3, <2>4
<1>9. \A i \in 0 .. L : Value[i] \in Int
  <2> DEFINE T == {i \in 0 .. L : Value[i] \in Int}
  <2>1. T \in SUBSET (0 .. L) /\ 0 \in T
    BY <1>1, <1>8
  <2>2. ASSUME NEW i \in T, i < L
        PROVE  i + 1 \in T
    <3>1. i + 1 \in 1 .. L /\ i + 1 \in 0 .. L /\ (i + 1) - 1 = i /\ Value[i] \in Int
      BY <1>1, <2>2
    <3>2. Value[i + 1] = IF Body[i + 1] = Underscore THEN Value[i] ELSE Value[i] * Radix + Body[i + 1]
      BY <1>8, <3>1
    <3>3. Body[i + 1] \in Int
      BY <1>1, <3>1
    <3>4. Value[i + 1] \in Int
      BY <1>1, <3>1, <3>2, <3>3
    <3> QED BY <3>1, <3>4
  <2> HIDE DEF T
  <2>3. \A i \in 0 .. L : i \in T
    BY <1>1, <2>1, <2>2, InductionTo
  <2> QED BY <2>3 DEF T
<1> QED BY <1>1, <1>7, <1>8, <1>9

\* Characters of Body parse_uint64 reads on over.
Readable(k) == IsDigitAt(k) \/ Body[k] = Underscore

\* The value does not become less.
LEMMA ValueGrows ==
  ASSUME ArgsInv, Admitted, NEW m \in 0 .. Len(Body), \A k \in 1 .. m : Readable(k)
  PROVE  \A i \in 0 .. m : Value[i] \in Nat /\ Value[i] <= Value[m]
<1> DEFINE T == {j \in 0 .. m : Value[j] \in Nat /\ \A i \in 0 .. j : Value[i] \in Nat /\ Value[i] <= Value[j]}
<1>1. Len(Body) \in Nat /\ m \in Nat /\ m <= Len(Body)
  BY BodyFacts
<1>2. T \in SUBSET (0 .. m) /\ 0 \in T
  <2>1. Value[0] = 0
    BY ValueFacts
  <2> QED BY <1>1, <2>1
<1>3. ASSUME NEW j \in T, j < m
      PROVE  j + 1 \in T
  <2>1. j + 1 \in 1 .. Len(Body) /\ j + 1 \in 1 .. m /\ (j + 1) - 1 = j /\ Value[j] \in Nat
    BY <1>1, <1>3
  <2>2. Value[j + 1] = IF Body[j + 1] = Underscore THEN Value[j] ELSE Value[j] * Radix + Body[j + 1]
    BY <2>1, ValueFacts
  <2>3. Radix \in 2 .. 36
    BY SkipFacts
  <2>4. Readable(j + 1)
    BY <2>1
  <2>5. CASE Body[j + 1] = Underscore
    BY <2>1, <2>2, <2>5
  <2>6. CASE Body[j + 1] # Underscore
    <3>1. Body[j + 1] \in Nat
      <4>1. Body[j + 1] \in 0 .. 35
        BY <2>4, <2>6 DEF Readable, IsDigitAt, Digits
      <4> QED BY <4>1, DigitsAreNat, Zenon
    <3>2. Value[j] * Radix >= Value[j]
      BY <2>1, <2>3
    <3>3. Value[j] * Radix \in Nat
      BY <2>1, <2>3
    <3> QED BY <2>2, <2>6, <2>1, <3>1, <3>2, <3>3
  <2>7. Value[j + 1] \in Nat /\ Value[j] <= Value[j + 1]
    BY <2>1, <2>2, <2>5, <2>6
  <2>8. \A i \in 0 .. j + 1 : Value[i] \in Nat /\ Value[i] <= Value[j + 1]
    <3> SUFFICES ASSUME NEW i \in 0 .. j + 1
                 PROVE  Value[i] \in Nat /\ Value[i] <= Value[j + 1]
      OBVIOUS
    <3>1. CASE i = j + 1
      BY <2>7, <3>1
    <3>2. CASE i # j + 1
      <4>1. i \in 0 .. j
        BY <1>1, <3>2
      <4>2. Value[i] \in Nat /\ Value[i] <= Value[j]
        BY <4>1
      <4> QED BY <2>1, <2>7, <4>2
    <3> QED BY <3>1, <3>2
  <2> QED BY <2>1, <2>7, <2>8
<1> HIDE DEF T
<1>4. \A j \in 0 .. m : j \in T
  BY <1>1, <1>2, <1>3, InductionTo
<1>5. m \in T
  BY <1>1, <1>4
<1> QED BY <1>5 DEF T
-----------------------------------------------------------------------------
(* underscore_ok.                                                          *)

Unsigned(s)  == IF s[1] \in {Minus, Plus} THEN Tail(s) ELSE s
HasPrefix(t) == Len(t) >= 2 /\ t[1] = 0 /\ t[2] \in {B, O, X}
First(t)     == IF HasPrefix(t) THEN 2 ELSE 0
SawStep(t, saw) ==
  [i \in First(t) .. Len(t) |->
     IF i = First(t) THEN IF HasPrefix(t) THEN "digit" ELSE "start"
     ELSE Saw(saw[i - 1], t[i], HasPrefix(t) /\ t[2] = X)]
SawOf(t) == CHOOSE saw : saw = SawStep(t, saw)

\* underscore_ok in terms of the definitions above.
LEMMA UnderscoreOKIs ==
  ASSUME NEW s
  PROVE  UnderscoreOK(s) <=> SawOf(Unsigned(s))[Len(Unsigned(s))] \notin {"underscore", "bad"}
BY DEF UnderscoreOK, SawOf, SawStep, First, HasPrefix, Unsigned

Seen == {"start", "digit", "underscore", "other", "bad"}
LEMMA SawIsSeen ==
  ASSUME NEW x \in Seen, NEW c, NEW hex  PROVE Saw(x, c, hex) \in Seen
BY DEF Saw, Seen

\* What underscore_ok has seen, character by character.
LEMMA SawFacts ==
  ASSUME NEW S, NEW t \in Seq(S)
  PROVE  /\ First(t) \in 0 .. Len(t) /\ Len(t) \in Nat
         /\ SawOf(t)[First(t)] = IF HasPrefix(t) THEN "digit" ELSE "start"
         /\ \A i \in First(t) + 1 .. Len(t) :
              SawOf(t)[i] = Saw(SawOf(t)[i - 1], t[i], HasPrefix(t) /\ t[2] = X)
<1>1. First(t) \in 0 .. Len(t) /\ Len(t) \in Nat
  BY LenProperties DEF First, HasPrefix
<1> DEFINE a     == First(t)
           L     == Len(t) - a
           begin == IF HasPrefix(t) THEN "digit" ELSE "start"
           hex   == HasPrefix(t) /\ t[2] = X
           step  == [k \in 1 .. L |-> [x \in Seen |-> Saw(x, t[a + k], hex)]]
<1>2. L \in Nat /\ begin \in Seen
  BY <1>1 DEF Seen
<1>3. step \in [1 .. L -> [Seen -> Seen]] /\ \A k \in 1 .. L, x \in Seen : step[k][x] = Saw(x, t[a + k], hex)
  BY SawIsSeen
<1> HIDE DEF L, begin, step, hex
<1>4. PICK f \in [0 .. L -> Seen] : f[0] = begin /\ \A k \in 1 .. L : f[k] = step[k][f[k - 1]]
  <2> DEFINE P(l, V, z, g) == \E f \in [0 .. l -> V] : f[0] = z /\ \A k \in 1 .. l : f[k] = g[k][f[k - 1]]
  <2>1. \A l \in Nat : \A V : \A z \in V : \A g \in [1 .. l -> [V -> V]] : P(l, V, z, g)
    BY RecursionExists, Zenon
  <2> HIDE DEF P
  <2>2. P(L, Seen, begin, step)
    BY <1>2, <1>3, <2>1
  <2> QED BY <2>2 DEF P
<1> DEFINE saw == [i \in a .. Len(t) |-> f[i - a]]
<1>5. saw = SawStep(t, saw)
  <2>1. \A i \in a .. Len(t) : saw[i] = SawStep(t, saw)[i]
    <3> SUFFICES ASSUME NEW i \in a .. Len(t)
                 PROVE  saw[i] = SawStep(t, saw)[i]
      OBVIOUS
    <3>1. CASE i = a
      <4>1. i - a = 0
        BY <1>1, <3>1
      <4>2. saw[i] = begin
        BY <1>4, <4>1
      <4> QED BY <3>1, <4>2 DEF SawStep, begin
    <3>2. CASE i # a
      <4>1. i - a \in 1 .. L /\ (i - a) - 1 \in 0 .. L /\ i - 1 \in a .. Len(t)
            /\ (i - 1) - a = (i - a) - 1 /\ a + (i - a) = i
        BY <1>1, <3>2 DEF L
      <4>2. saw[i] = f[i - a] /\ saw[i - 1] = f[(i - a) - 1]
        BY <4>1
      <4>3. f[(i - a) - 1] \in Seen
        BY <1>4, <4>1
      <4>4. saw[i] = Saw(saw[i - 1], t[i], hex)
        BY <1>3, <1>4, <4>1, <4>2, <4>3
      <4>5. SawStep(t, saw)[i] = Saw(saw[i - 1], t[i], hex)
        BY <3>2 DEF SawStep, hex
      <4> QED BY <4>4, <4>5
    <3> QED BY <3>1, <3>2
  <2> HIDE DEF saw
  <2>2. DOMAIN saw = a .. Len(t)
    BY DEF saw
  <2>3. saw = [i \in a .. Len(t) |-> saw[i]]
    BY DEF saw
  <2>4. SawStep(t, saw) = [i \in a .. Len(t) |-> SawStep(t, saw)[i]]
    BY DEF SawStep
  <2> QED BY <2>1, <2>3, <2>4
<1> HIDE DEF saw
<1>6. SawOf(t) = SawStep(t, SawOf(t))
  BY <1>5 DEF SawOf
<1>7. \A i \in a .. Len(t) : SawOf(t)[i] = SawStep(t, SawOf(t))[i]
  BY <1>6
<1>8. SawOf(t)[a] = begin
  <2>1. a \in a .. Len(t)
    BY <1>1
  <2>2. SawStep(t, SawOf(t))[a] = begin
    BY <2>1 DEF SawStep, begin
  <2> QED BY <1>7, <2>1, <2>2
<1>9. ASSUME NEW i \in a + 1 .. Len(t)
      PROVE  SawOf(t)[i] = Saw(SawOf(t)[i - 1], t[i], hex)
  <2>1. i \in a .. Len(t) /\ i # a
    BY <1>1
  <2>2. SawStep(t, SawOf(t))[i] = Saw(SawOf(t)[i - 1], t[i], hex)
    BY <2>1 DEF SawStep, hex
  <2> QED BY <1>7, <2>1, <2>2
<1> QED BY <1>1, <1>8, <1>9 DEF begin, hex

\* With base 0 a prefix is what underscore_ok takes for one, once all of Body is readable.
LEMMA PrefixesAgree ==
  ASSUME ArgsInv, Admitted, baseArg = 0, \A k \in 1 .. Len(Body) : Readable(k)
  PROVE  /\ Unsigned(RestOfArgs) = RestOfArgs
         /\ HasPrefix(RestOfArgs) <=> Skip = 2
         /\ Skip = 1 => RestOfArgs[1] = 0
         /\ HasPrefix(RestOfArgs) /\ RestOfArgs[2] = X => Radix = 16
         /\ ~ (HasPrefix(RestOfArgs) /\ RestOfArgs[2] = X) => Radix <= 10
<1> DEFINE s == RestOfArgs
<1>1. s \in Seq(Chars) /\ Len(s) \in Nat \ {0}
  BY RestFacts, SkipFacts
<1>2. Len(Body) = Len(s) - Skip /\ \A k \in 1 .. Len(Body) : Body[k] = s[Skip + k]
  BY BodyFacts
<1>3. \A k \in 1 .. Len(Body) : (Body[k] \in 0 .. 35 /\ Body[k] < Radix) \/ Body[k] = Underscore
  BY DEF Readable, IsDigitAt, Radix, Digits
<1>4. CASE s[1] # 0
  <2>1. Skip = 0 /\ Radix = 10
    BY <1>4 DEF Detect, Skip, Radix
  <2>2. 1 \in 1 .. Len(Body) /\ Skip + 1 = 1
    BY <1>1, <1>2, <2>1
  <2>3. s[1] \in 0 .. 35 \/ s[1] = Underscore
    BY <1>2, <1>3, <2>2
  <2>4. s[1] \notin {Minus, Plus}
    BY <2>3, DigitsAreNat, Zenon
  <2> QED BY <1>4, <2>1, <2>4 DEF Unsigned, HasPrefix
<1>5. CASE s[1] = 0
  <2>1. Unsigned(s) = s
    BY <1>5 DEF Unsigned, Minus, Plus
  <2>2. CASE Len(s) < 3
    <3>1. Skip = 1 /\ Radix = 8
      BY <1>5, <2>2 DEF Detect, Skip, Radix
    <3>2. ASSUME Len(s) >= 2
          PROVE  s[2] \notin {B, O, X}
      <4>1. 1 \in 1 .. Len(Body) /\ Skip + 1 = 2
        BY <1>1, <1>2, <3>1, <3>2
      <4>2. (s[2] \in 0 .. 35 /\ s[2] < 8) \/ s[2] = Underscore
        BY <1>2, <1>3, <3>1, <4>1
      <4> QED BY <4>2 DEF B, O, X, Underscore
    <3> QED BY <1>5, <2>1, <3>1, <3>2 DEF HasPrefix
  <2>3. CASE ~ (Len(s) < 3)
    <3>1. Len(s) >= 2
      BY <1>1, <2>3
    <3>2. CASE s[2] = X
      BY <1>5, <2>1, <2>3, <3>1, <3>2 DEF Detect, Skip, Radix, HasPrefix, B, O, X
    <3>3. CASE s[2] = B \/ s[2] = O
      BY <1>5, <2>1, <2>3, <3>1, <3>3 DEF Detect, Skip, Radix, HasPrefix, B, O, X
    <3>4. CASE s[2] \notin {B, O, X}
      BY <1>5, <2>1, <2>3, <3>1, <3>4 DEF Detect, Skip, Radix, HasPrefix, B, O, X
    <3> QED BY <3>2, <3>3, <3>4
  <2> QED BY <2>2, <2>3
<1> QED BY <1>4, <1>5

\* An underscore before which there is neither a digit nor the prefix.
Before(k)     == IF k = 1 THEN Skip > 0 ELSE Body[k - 1] # Underscore
Dangling(m)   == \E k \in 1 .. m : Body[k] = Underscore /\ ~ Before(k)

\* What underscore_ok has seen behind the m-th character of Body.
SeenBehind(m) ==
  IF Dangling(m) THEN "bad"
  ELSE IF m = 0 THEN IF Skip = 0 THEN "start" ELSE "digit"
  ELSE IF Body[m] = Underscore THEN "underscore" ELSE "digit"

\* What underscore_ok has seen after the prefix and k characters.
LEMMA SeenIs ==
  ASSUME ArgsInv, Admitted, baseArg = 0, \A k \in 1 .. Len(Body) : Readable(k)
  PROVE  \A m \in 0 .. Len(Body) : SawOf(RestOfArgs)[Skip + m] = SeenBehind(m)
<1> DEFINE s   == RestOfArgs
           L   == Len(Body)
           hex == HasPrefix(s) /\ s[2] = X
           T   == {m \in 0 .. L : SawOf(s)[Skip + m] = SeenBehind(m)}
<1>1. s \in Seq(Chars)
  BY RestFacts
<1>2. /\ First(s) \in 0 .. Len(s) /\ Len(s) \in Nat
      /\ SawOf(s)[First(s)] = IF HasPrefix(s) THEN "digit" ELSE "start"
      /\ \A i \in First(s) + 1 .. Len(s) : SawOf(s)[i] = Saw(SawOf(s)[i - 1], s[i], hex)
  BY <1>1, SawFacts
<1>3. /\ HasPrefix(s) <=> Skip = 2
      /\ Skip = 1 => s[1] = 0
      /\ hex => Radix = 16
      /\ ~ hex => Radix <= 10
  BY PrefixesAgree
<1>4. /\ Skip \in 0 .. 2 /\ Skip <= Len(s) /\ L = Len(s) - Skip /\ L \in Nat /\ Radix \in 2 .. 36
      /\ \A k \in 1 .. L : Body[k] = s[Skip + k]
  BY SkipFacts, BodyFacts
<1>5. ASSUME NEW k \in 1 .. L, NEW x
      PROVE  Saw(x, Body[k], hex) = IF x = "bad" THEN "bad"
                                    ELSE IF Body[k] # Underscore THEN "digit"
                                    ELSE IF x = "digit" THEN "underscore" ELSE "bad"
  <2>1. Readable(k)
    OBVIOUS
  <2>2. CASE Body[k] = Underscore
    <3>1. ~ (Body[k] \in 0 .. 9 \/ (hex /\ Body[k] \in 10 .. F))
      BY <2>2 DEF Underscore
    <3> QED BY <2>2, <3>1 DEF Saw
  <2>3. CASE Body[k] # Underscore
    <3>1. Body[k] \in 0 .. 35 /\ Body[k] < Radix
      BY <2>1, <2>3 DEF Readable, IsDigitAt, Digits, Radix
    <3>2. Body[k] \in 0 .. 9 \/ (hex /\ Body[k] \in 10 .. F)
      BY <1>3, <1>4, <3>1, DigitsAreNat
    <3> QED BY <2>3, <3>2 DEF Saw
  <2> QED BY <2>2, <2>3
<1>6. SawOf(s)[Skip] = IF Skip = 0 THEN "start" ELSE "digit"
  <2>1. CASE Skip = 2
    BY <1>2, <1>3, <2>1 DEF First
  <2>2. CASE Skip = 0
    BY <1>2, <1>3, <2>2 DEF First
  <2>3. CASE Skip = 1
    <3>1. First(s) = 0 /\ ~ HasPrefix(s) /\ s[1] = 0
      BY <1>3, <2>3 DEF First
    <3>2. 1 \in First(s) + 1 .. Len(s) /\ 1 - 1 = 0
      BY <1>2, <1>4, <2>3, <3>1
    <3>3. SawOf(s)[1] = Saw("start", 0, hex)
      BY <1>2, <3>1, <3>2
    <3>4. Saw("start", 0, hex) = "digit"
      BY DEF Saw
    <3> QED BY <2>3, <3>3, <3>4
  <2> QED BY <1>4, <2>1, <2>2, <2>3
<1> HIDE DEF hex
<1>7. T \in SUBSET (0 .. L) /\ 0 \in T
  <2>1. ~ Dangling(0)
    BY DEF Dangling
  <2>2. Skip + 0 = Skip
    BY <1>4
  <2> QED BY <1>4, <1>6, <2>1, <2>2 DEF SeenBehind
<1>8. ASSUME NEW m \in T, m < L
      PROVE  m + 1 \in T
  <2>1. /\ m \in Nat /\ m + 1 \in 1 .. L /\ SawOf(s)[Skip + m] = SeenBehind(m)
        /\ Skip + (m + 1) \in First(s) + 1 .. Len(s) /\ (Skip + (m + 1)) - 1 = Skip + m
    <3>1. First(s) <= Skip
      BY <1>3, <1>4 DEF First
    <3> QED BY <1>2, <1>4, <1>8, <3>1
  <2>2. SawOf(s)[Skip + (m + 1)] = Saw(SeenBehind(m), Body[m + 1], hex)
    BY <1>2, <1>4, <2>1
  <2>3. Dangling(m + 1) <=> Dangling(m) \/ (Body[m + 1] = Underscore /\ ~ Before(m + 1))
    <3>1. \A k : k \in 1 .. m + 1 <=> k \in 1 .. m \/ k = m + 1
      BY <2>1
    <3> QED BY <3>1 DEF Dangling
  <2>4. ~ Dangling(m) => (Before(m + 1) <=> SeenBehind(m) = "digit")
    <3>1. CASE m = 0
      BY <1>4, <3>1 DEF Before, SeenBehind
    <3>2. CASE m # 0
      <4>1. m + 1 # 1 /\ (m + 1) - 1 = m
        BY <2>1, <3>2
      <4> QED BY <3>2, <4>1 DEF Before, SeenBehind
    <3> QED BY <3>1, <3>2
  <2>5. SeenBehind(m) = "bad" <=> Dangling(m)
    BY DEF SeenBehind
  <2>6. Saw(SeenBehind(m), Body[m + 1], hex) = SeenBehind(m + 1)
    <3>1. m + 1 # 0
      BY <2>1
    <3>2. SeenBehind(m + 1) = IF Dangling(m + 1) THEN "bad"
                              ELSE IF Body[m + 1] = Underscore THEN "underscore" ELSE "digit"
      BY <3>1 DEF SeenBehind
    <3>3. Saw(SeenBehind(m), Body[m + 1], hex) =
            IF SeenBehind(m) = "bad" THEN "bad"
            ELSE IF Body[m + 1] # Underscore THEN "digit"
            ELSE IF SeenBehind(m) = "digit" THEN "underscore" ELSE "bad"
      BY <1>5, <2>1
    <3> QED BY <2>3, <2>4, <2>5, <3>2, <3>3
  <2> QED BY <2>1, <2>2, <2>6
<1> HIDE DEF T
<1>9. \A m \in 0 .. L : m \in T
  BY <1>4, <1>7, <1>8, InductionTo
<1> QED BY <1>9 DEF T

\* underscore_ok tells well-formed numbers from others.
LEMMA UnderscoresPlaced ==
  ASSUME ArgsInv, Admitted, baseArg = 0, \A k \in 1 .. Len(Body) : Readable(k)
  PROVE  UnderscoreOK(RestOfArgs) <=>
           \A k \in 1 .. Len(Body) : Body[k] = Underscore =>
             IsDigitAt(k + 1) /\ (IsDigitAt(k - 1) \/ (k = 1 /\ Skip > 0))
<1> DEFINE s == RestOfArgs
           L == Len(Body)
<1>1. L \in Nat /\ Skip \in 0 .. 2 /\ Len(s) = Skip + L /\ DOMAIN Body = 1 .. L
  BY SkipFacts, BodyFacts
<1>2. UnderscoreOK(s) <=> SawOf(s)[Len(s)] \notin {"underscore", "bad"}
  BY PrefixesAgree, UnderscoreOKIs
<1>3. SawOf(s)[Len(s)] = SeenBehind(L)
  BY <1>1, SeenIs
<1>4. UnderscoreOK(s) <=> ~ Dangling(L) /\ (L = 0 \/ Body[L] # Underscore)
  BY <1>2, <1>3 DEF SeenBehind
<1>5. \A k \in 1 .. L : IsDigitAt(k) <=> Body[k] # Underscore
  BY <1>1, DigitsAreNat DEF Readable, IsDigitAt, Digits
<1>6. \A k : k \notin 1 .. L => ~ IsDigitAt(k)
  BY <1>1 DEF IsDigitAt
<1>7. ASSUME ~ Dangling(L), L = 0 \/ Body[L] # Underscore, NEW k \in 1 .. L, Body[k] = Underscore
      PROVE  IsDigitAt(k + 1) /\ (IsDigitAt(k - 1) \/ (k = 1 /\ Skip > 0))
  <2>1. Before(k)
    BY <1>7 DEF Dangling
  <2>2. k # L /\ k + 1 \in 1 .. L /\ k + 1 # 1 /\ (k + 1) - 1 = k
    <3>1. k \in Nat /\ k >= 1 /\ k <= L /\ L # 0
      BY <1>1
    <3>2. k # L
      BY <1>7, <3>1, Zenon
    <3> HIDE DEF L
    <3> QED BY <1>1, <3>1, <3>2
  <2>3. Body[k + 1] # Underscore
    BY <1>7, <2>2 DEF Dangling, Before
  <2>4. k # 1 => k - 1 \in 1 .. L
    BY <1>1
  <2> QED BY <1>5, <2>1, <2>2, <2>3, <2>4 DEF Before
<1>8. ASSUME \A k \in 1 .. L : Body[k] = Underscore =>
               IsDigitAt(k + 1) /\ (IsDigitAt(k - 1) \/ (k = 1 /\ Skip > 0))
      PROVE  ~ Dangling(L) /\ (L = 0 \/ Body[L] # Underscore)
  <2>1. L = 0 \/ Body[L] # Underscore
    <3>1. L # 0 => L \in 1 .. L /\ L + 1 \notin 1 .. L
      BY <1>1
    <3> QED BY <1>6, <1>8, <3>1
  <2>2. ASSUME NEW k \in 1 .. L, Body[k] = Underscore
        PROVE  Before(k)
    <3>1. IsDigitAt(k - 1) => k - 1 \in 1 .. L /\ k # 1
      BY <1>1, <1>6
    <3> QED BY <1>5, <1>8, <2>2, <3>1 DEF Before
  <2> QED BY <2>1, <2>2 DEF Dangling
<1> QED BY <1>4, <1>7, <1>8
-----------------------------------------------------------------------------
(* What a call must return.                                                *)

\* The arguments do not change, and so nothing that is stated on them.
LEMMA ArgsKept ==
  ASSUME UNCHANGED args
  PROVE  /\ RestOfArgs' = RestOfArgs /\ Body' = Body /\ Value' = Value
         /\ Start' = Start /\ Skip' = Skip /\ Radix' = Radix /\ (Admitted' <=> Admitted)
         /\ Limit' = Limit /\ (Negative' <=> Negative)
<1>1. str' = str /\ baseArg' = baseArg /\ bits' = bits /\ signed' = signed
  BY DEF args
<1>2. RestOfArgs' = RestOfArgs /\ Start' = Start /\ Limit' = Limit /\ (Negative' <=> Negative)
  BY <1>1 DEF RestOfArgs, Start, Limit, Negative
<1>3. Detect(RestOfArgs)' = Detect(RestOfArgs)
  BY <1>1, <1>2 DEF Detect
<1>4. Skip' = Skip /\ Radix' = Radix /\ Body' = Body
  BY <1>2, <1>3 DEF Skip, Radix, Body
<1>5. Admitted' <=> Admitted
  BY <1>1, <1>2 DEF Admitted
<1>6. Value' = Value
  BY <1>1, <1>2, <1>3, <1>4 DEF Value
<1> QED BY <1>2, <1>4, <1>5, <1>6

\* The limits of bit_size: only one bit has no more magnitudes than its negative limit.
LEMMA LimitFacts ==
  ASSUME bits \in 0 .. WordBits
  PROVE  /\ Limit \in Nat \ {0} /\ MaxOf(bits) = 2 * Limit - 1 /\ MaxOf(bits) \in 1 .. MaxWord
         /\ bits # 1 => MaxOf(bits) > Limit
<1>1. /\ WordBits \in Nat \ {0} /\ MaxWord >= 35 /\ MaxWord \in Nat /\ Word = MaxWord + 1
      /\ MaxOf(bits) \in 1 .. MaxWord
  BY WordAssumption, WordFacts
<1>2. \A b \in 1 .. WordBits : 2 ^ (b - 1) \in Nat \ {0} /\ 2 ^ b = 2 * 2 ^ (b - 1)
  BY WordAssumption
<1>3. CASE bits = 0
  <2>1. WordBits \in 1 .. WordBits
    BY <1>1
  <2>2. Limit = 2 ^ (WordBits - 1) /\ Limit \in Nat \ {0} /\ Word = 2 * Limit
    BY <1>2, <1>3, <2>1 DEF Limit, Word
  <2>3. MaxOf(bits) = MaxWord
    BY <1>3 DEF MaxOf
  <2> QED BY <1>1, <2>2, <2>3
<1>4. CASE bits # 0
  <2>1. bits \in 1 .. WordBits
    BY <1>1, <1>4
  <2>2. Limit = 2 ^ (bits - 1) /\ Limit \in Nat \ {0} /\ 2 ^ bits = 2 * Limit
    BY <1>2, <1>4, <2>1 DEF Limit
  <2>3. MaxOf(bits) = 2 ^ bits - 1
    BY <1>4 DEF MaxOf
  <2>4. MaxOf(bits) = 2 * Limit - 1
    BY <2>2, <2>3
  <2>5. bits # 1 => Limit > 1
    <3> SUFFICES ASSUME bits # 1
                 PROVE  Limit > 1
      OBVIOUS
    <3>1. bits - 1 \in 1 .. WordBits
      BY <1>1, <2>1
    <3>2. 2 ^ ((bits - 1) - 1) \in Nat \ {0} /\ 2 ^ (bits - 1) = 2 * 2 ^ ((bits - 1) - 1)
      BY <1>2, <3>1
    <3> DEFINE h == 2 ^ ((bits - 1) - 1)
    <3>3. h \in Nat \ {0} /\ Limit = 2 * h
      BY <2>2, <3>2
    <3> HIDE DEF h
    <3> QED BY <3>3
  <2> QED BY <1>1, <2>2, <2>4, <2>5
<1> QED BY <1>3, <1>4

\* What parse_uint64 returns, e, and leaves in out, o.
Parsed(e, o) ==
  /\ e = 0 => /\ WellFormed /\ o = Value[Len(Body)] /\ o <= MaxOf(bits)
  /\ e = 1 => /\ o = MaxOf(bits)
              /\ \E i \in DOMAIN Body : (\A j \in 1 .. i : Readable(j)) /\ Value[i] > MaxOf(bits)
  /\ e = -1 => ~ WellFormed

\* What the call returns.
Correct(e, o) ==
  /\ e = 0 <=> WellFormed /\ InRange(Value[Len(Body)])
  /\ e = 0 => o = Signed(Value[Len(Body)])
  /\ WellFormed /\ ~ InRange(Value[Len(Body)]) => e = 1
  /\ e = 1 =>
       /\ o = IF Negative THEN Smallest ELSE Largest
       /\ \E i \in DOMAIN Body : (\A j \in 1 .. i : Readable(j)) /\ ~ InRange(Value[i])

\* The same of what is stated on a result.
LEMMA ResultsKept ==
  ASSUME UNCHANGED args
  PROVE  \A e, o : (Parsed(e, o)' <=> Parsed(e, o)) /\ (Correct(e, o)' <=> Correct(e, o))
<1>1. /\ Body' = Body /\ Value' = Value /\ RestOfArgs' = RestOfArgs
      /\ Limit' = Limit /\ (Negative' <=> Negative) /\ Detect(RestOfArgs)' = Detect(RestOfArgs)
      /\ str' = str /\ baseArg' = baseArg /\ bits' = bits /\ signed' = signed
  <2>1. str' = str /\ baseArg' = baseArg /\ bits' = bits /\ signed' = signed
    BY DEF args
  <2>2. RestOfArgs' = RestOfArgs
    BY ArgsKept
  <2>3. Detect(RestOfArgs)' = Detect(RestOfArgs)
    BY <2>1, <2>2 DEF Detect
  <2> QED BY <2>1, <2>2, <2>3, ArgsKept
<1>2. \A k : IsDigitAt(k)' <=> IsDigitAt(k)
  BY <1>1 DEF IsDigitAt
<1>3. \A k : Readable(k)' <=> Readable(k)
  BY <1>1, <1>2 DEF Readable
<1>4. WellFormed' <=> WellFormed
  BY <1>1, <1>2 DEF WellFormed
<1>5. \A v : InRange(v)' <=> InRange(v)
  BY <1>1 DEF InRange, Smallest, Largest, Signed
<1>6. \A v : Signed(v)' = Signed(v)
  BY <1>1 DEF Signed
<1>7. Smallest' = Smallest /\ Largest' = Largest
  BY <1>1 DEF Smallest, Largest
<1> QED BY <1>1, <1>3, <1>4, <1>5, <1>6, <1>7 DEF Parsed, Correct

\* A well-formed number is read to its end.
LEMMA WellFormedIsRead ==
  ASSUME ArgsInv, WellFormed
  PROVE  /\ Admitted /\ \A k \in 1 .. Len(Body) : Readable(k)
         /\ \A i \in 0 .. Len(Body) : Value[i] \in Nat /\ Value[i] <= Value[Len(Body)]
<1>1. Admitted
  BY DEF WellFormed, Admitted
<1>2. Len(Body) \in Nat /\ DOMAIN Body = 1 .. Len(Body)
  BY <1>1, BodyFacts
<1>3. \A k \in 1 .. Len(Body) : Readable(k)
  BY <1>2 DEF WellFormed, Readable
<1>4. Len(Body) \in 0 .. Len(Body)
  BY <1>2
<1> QED BY <1>1, <1>3, <1>4, ValueGrows

\* What parse_uint64 returns is right for parse_uint64.
LEMMA UnsignedCorrect ==
  ASSUME ArgsInv, ~ signed, NEW e \in {-1, 0, 1}, NEW o, Parsed(e, o), e = 1 => Admitted
  PROVE  Correct(e, o)
<1>1. \A v \in Nat : (InRange(v) <=> v <= MaxOf(bits)) /\ Signed(v) = v
  BY DEF InRange, Smallest, Largest, Signed, Negative
<1>2. ~ Negative
  BY DEF Negative
<1>3. CASE e = -1
  BY <1>3 DEF Parsed, Correct
<1>4. CASE e = 0
  <2>1. WellFormed /\ o = Value[Len(Body)] /\ o <= MaxOf(bits)
    BY <1>4 DEF Parsed
  <2>2. Value[Len(Body)] \in Nat
    <3>1. Len(Body) \in 0 .. Len(Body)
      BY <2>1, WellFormedIsRead, BodyFacts
    <3> QED BY <2>1, <3>1, WellFormedIsRead
  <2> QED BY <1>1, <1>4, <2>1, <2>2 DEF Correct
<1>5. CASE e = 1
  <2>1. o = MaxOf(bits)
    BY <1>5 DEF Parsed
  <2>2. PICK i \in DOMAIN Body : (\A j \in 1 .. i : Readable(j)) /\ Value[i] > MaxOf(bits)
    BY <1>5 DEF Parsed
  <2>3. i \in 0 .. Len(Body) /\ i \in 0 .. i /\ MaxOf(bits) \in Nat /\ Len(Body) \in 0 .. Len(Body)
    <3>1. MaxOf(bits) \in 1 .. MaxWord /\ MaxWord \in Nat
      BY <1>5, WordAssumption, WordFacts DEF Admitted
    <3>2. DOMAIN Body = 1 .. Len(Body) /\ Len(Body) \in Nat
      BY <1>5, BodyFacts
    <3> QED BY <3>1, <3>2
  <2>4. Value[i] \in Nat
    BY <1>5, <2>2, <2>3, ValueGrows
  <2>5. ~ InRange(Value[i])
    BY <1>1, <2>2, <2>3, <2>4
  <2>6. WellFormed => ~ InRange(Value[Len(Body)])
    <3> SUFFICES ASSUME WellFormed
                 PROVE  ~ InRange(Value[Len(Body)])
      OBVIOUS
    <3>1. Value[Len(Body)] \in Nat /\ Value[i] <= Value[Len(Body)]
      BY <2>3, WellFormedIsRead
    <3> QED BY <1>1, <2>2, <2>3, <2>4, <3>1
  <2>7. Largest = MaxOf(bits)
    BY DEF Largest
  <2> QED BY <1>2, <1>5, <2>1, <2>2, <2>5, <2>6, <2>7 DEF Correct
<1> QED BY <1>3, <1>4, <1>5

\* What parse_int64 makes of it is right for parse_int64, unless bit_size is 1.
LEMMA SignedCorrect ==
  ASSUME ArgsInv, signed, bits # 1, Admitted, err \in {0, 1}, Parsed(err, out)
  PROVE  Correct(Narrowed.err, Narrowed.out)
<1>1. Limit \in Nat \ {0} /\ MaxOf(bits) \in Nat /\ MaxOf(bits) > Limit
  <2>1. bits \in 0 .. WordBits /\ MaxWord \in Nat
    BY WordFacts DEF Admitted
  <2> QED BY <2>1, LimitFacts
<1>2. \A v \in Nat : /\ InRange(v) <=> IF Negative THEN v <= Limit ELSE v < Limit
                     /\ Signed(v) = IF Negative THEN - v ELSE v
  BY <1>1 DEF InRange, Smallest, Largest, Signed
<1>3. Smallest = - Limit /\ Largest = Limit - 1
  BY DEF Smallest, Largest
<1>4. DOMAIN Body = 1 .. Len(Body) /\ Len(Body) \in Nat
  BY BodyFacts
<1>5. CASE err = 0
  <2>1. WellFormed /\ out = Value[Len(Body)]
    BY <1>5 DEF Parsed
  <2>2. out \in Nat /\ Value[0] = 0
    <3>1. Len(Body) \in 0 .. Len(Body)
      BY <1>4
    <3> QED BY <2>1, <3>1, WellFormedIsRead, ValueFacts
  <2>3. CASE InRange(out)
    <3>1. Narrowed = [err |-> 0, out |-> Signed(out)]
      BY <1>1, <1>2, <2>2, <2>3 DEF Narrowed
    <3> QED BY <2>1, <2>3, <3>1 DEF Correct
  <2>4. CASE ~ InRange(out)
    <3>1. Narrowed = [err |-> 1, out |-> IF Negative THEN - Limit ELSE Limit - 1]
      BY <1>1, <1>2, <2>2, <2>4 DEF Narrowed
    <3>2. Len(Body) \in DOMAIN Body /\ \A j \in 1 .. Len(Body) : Readable(j)
      <4>1. Len(Body) # 0
        BY <1>1, <1>2, <2>1, <2>2, <2>4
      <4> QED BY <1>4, <2>1, <4>1, WellFormedIsRead
    <3> QED BY <1>3, <2>1, <2>4, <3>1, <3>2 DEF Correct
  <2> QED BY <2>3, <2>4
<1>6. CASE err = 1
  <2>1. out = MaxOf(bits)
    BY <1>6 DEF Parsed
  <2>2. Narrowed = [err |-> 1, out |-> IF Negative THEN - Limit ELSE Limit - 1]
    BY <1>1, <2>1 DEF Narrowed
  <2>3. PICK i \in DOMAIN Body : (\A j \in 1 .. i : Readable(j)) /\ Value[i] > MaxOf(bits)
    BY <1>6 DEF Parsed
  <2>4. i \in 0 .. Len(Body) /\ i \in 0 .. i /\ Len(Body) \in 0 .. Len(Body)
    BY <1>4
  <2>5. Value[i] \in Nat
    BY <2>3, <2>4, ValueGrows
  <2>6. ~ InRange(Value[i])
    BY <1>1, <1>2, <2>3, <2>5
  <2>7. WellFormed => ~ InRange(Value[Len(Body)])
    <3> SUFFICES ASSUME WellFormed
                 PROVE  ~ InRange(Value[Len(Body)])
      OBVIOUS
    <3>1. Value[Len(Body)] \in Nat /\ Value[i] <= Value[Len(Body)]
      BY <2>4, WellFormedIsRead
    <3> QED BY <1>1, <1>2, <2>3, <2>5, <3>1
  <2> QED BY <1>3, <2>2, <2>3, <2>6, <2>7 DEF Correct
<1> QED BY <1>5, <1>6
-----------------------------------------------------------------------------
(* What the call has read.                                                 *)

\* The arguments are those of a call.
LEMMA ArgsInvariant == Spec => []ArgsInv
<1>1. Init => ArgsInv
  <2> SUFFICES ASSUME Init
               PROVE  ArgsInv
    OBVIOUS
  <2>1. PICK c \in Calls : str = c.str /\ baseArg = c.base /\ bits = c.bits /\ signed = c.signed
    BY DEF Init
  <2>2. /\ c.str \in Seq(Digits \cup {Underscore, Minus, Plus, Other})
        /\ c.base \in Int /\ c.bits \in Int /\ c.signed \in BOOLEAN
    BY CallsAssumption
  <2> QED BY <2>1, <2>2 DEF ArgsInv, Chars
<1>2. [Next]_vars => UNCHANGED args
  BY DEF Next, vars, Sign, Prefix, BadArguments, SkipUnderscore, BadCharacter, Overflow, Digit,
         Misplaced, Finish, Narrow
<1>3. ArgsInv /\ UNCHANGED args => ArgsInv'
  BY DEF ArgsInv, args
<1> QED BY <1>1, <1>2, <1>3, PTL DEF Spec

\* The characters of Body behind the loop.
At == pos - from - Skip

\* The loop has read the first k characters of Body.
SoFar(k) ==
  /\ exact = Value[k]
  /\ \A j \in 1 .. k : Readable(j) /\ (Body[j] = Underscore => baseArg = 0)
  /\ underscores <=> \E j \in 1 .. k : Body[j] = Underscore

LoopRead ==
  pc = "loop" => base = Radix /\ maxVal = MaxOf(bits) /\ At \in 0 .. Len(Body) /\ SoFar(At)

ReadInv ==
  /\ pos \in Int
  /\ pc \in {"sign", "prefix"} => pos = 1 /\ underscores = FALSE
  /\ from = IF pc = "sign" THEN 1 ELSE Start
  /\ pc \in {"loop", "narrow"} => Admitted
  /\ LoopRead

\* parse_uint64 reads the string behind the sign.
LEMMA RestIs ==
  ASSUME ArgsInv, from = Start
  PROVE  Rest = RestOfArgs
BY RestFacts DEF Rest

\* The character the loop is at.
LEMMA CharacterRead ==
  ASSUME ArgsInv, ReadInv, pc = "loop"
  PROVE  /\ At \in 0 .. Len(Body) /\ Len(Body) \in Nat
         /\ pos \in 1 .. Len(str) + 1 /\ Len(str) \in Nat
         /\ pos <= Len(str) => At + 1 \in 1 .. Len(Body) /\ Body[At + 1] = str[pos]
         /\ ~ (pos <= Len(str)) => At = Len(Body)
<1>1. Admitted /\ from = Start /\ pos \in Int /\ At \in 0 .. Len(Body)
  BY DEF ReadInv, LoopRead
<1>2. /\ Len(str) \in Nat /\ Start \in 1 .. 2 /\ Start <= Len(str) + 1
      /\ Len(RestOfArgs) = Len(str) + 1 - Start
      /\ \A k \in 1 .. Len(RestOfArgs) : RestOfArgs[k] = str[Start + k - 1]
  BY RestFacts
<1>3. Skip \in 0 .. 2 /\ Skip <= Len(RestOfArgs) /\ Len(RestOfArgs) \in Nat
  BY <1>1, SkipFacts
<1>4. /\ Len(Body) = Len(RestOfArgs) - Skip /\ Len(Body) \in Nat
      /\ \A k \in 1 .. Len(Body) : Body[k] = RestOfArgs[Skip + k]
  BY <1>1, BodyFacts
<1>5. pos = Start + Skip + At
  BY <1>1, <1>2, <1>3 DEF At
<1> HIDE DEF At
<1>6. Len(Body) = Len(str) + 1 - Start - Skip
  BY <1>2, <1>3, <1>4
<1>7. pos \in 1 .. Len(str) + 1
  BY <1>1, <1>2, <1>3, <1>5, <1>6
<1>8. ASSUME pos <= Len(str)
      PROVE  At + 1 \in 1 .. Len(Body) /\ Body[At + 1] = str[pos]
  <2>1. At + 1 \in 1 .. Len(Body)
    BY <1>1, <1>2, <1>3, <1>5, <1>6, <1>8
  <2>2. Body[At + 1] = RestOfArgs[Skip + (At + 1)]
    BY <1>4, <2>1
  <2>3. Skip + (At + 1) \in 1 .. Len(RestOfArgs) /\ Start + (Skip + (At + 1)) - 1 = pos
    BY <1>1, <1>2, <1>3, <1>4, <1>5, <2>1
  <2> QED BY <1>2, <2>1, <2>2, <2>3
<1>9. ~ (pos <= Len(str)) => At = Len(Body)
  BY <1>1, <1>2, <1>3, <1>5, <1>6
<1> QED BY <1>1, <1>2, <1>4, <1>7, <1>8, <1>9

\* A call starts with nothing read.
LEMMA InitReadInv == Init => ReadInv
BY DEF Init, ReadInv, LoopRead

\* What is stated on the arguments and what has been read stays when neither changes.
LEMMA SoFarKept ==
  ASSUME UNCHANGED args
  PROVE  /\ At' = pos' - from' - Skip
         /\ \A k : SoFar(k)' <=> /\ exact' = Value[k]
                                 /\ \A j \in 1 .. k : Readable(j) /\ (Body[j] = Underscore => baseArg = 0)
                                 /\ underscores' <=> \E j \in 1 .. k : Body[j] = Underscore
<1>1. Value' = Value /\ Body' = Body /\ Skip' = Skip /\ baseArg' = baseArg
      /\ str' = str /\ signed' = signed /\ Radix' = Radix
  BY ArgsKept DEF args
<1>2. \A j : Readable(j)' <=> Readable(j)
  BY <1>1 DEF Readable, IsDigitAt, Radix
<1> QED BY <1>1, <1>2 DEF SoFar, At

\* Every step keeps the account of what has been read.
LEMMA NextReadInv == ArgsInv /\ IInv /\ ReadInv /\ [Next]_vars => ReadInv'
<1> SUFFICES ASSUME ArgsInv, IInv, ReadInv, [Next]_vars
             PROVE  ReadInv'
  OBVIOUS
<1>1. UNCHANGED args => /\ Start' = Start /\ (Admitted' <=> Admitted) /\ Radix' = Radix
                        /\ Body' = Body /\ bits' = bits
  BY ArgsKept DEF args
<1>2. CASE Sign
  BY <1>1, <1>2 DEF Sign, ReadInv, LoopRead, Start
<1>3. CASE Prefix
  <2>1. /\ UNCHANGED args /\ pc = "prefix" /\ pc' = "loop" /\ ArgumentsOK
        /\ base' = Detect(Rest).base /\ pos' = from + Detect(Rest).skip
        /\ maxVal' = MaxOf(bits) /\ from' = from
        /\ underscores' = underscores /\ exact' = exact
    BY <1>3 DEF Prefix
  <2>2. from = Start /\ underscores = FALSE /\ exact = 0
    BY <2>1 DEF ReadInv, IInv
  <2>3. Rest = RestOfArgs
    BY <2>2, RestIs
  <2>4. Admitted /\ base' = Radix /\ pos' = Start + Skip
    BY <2>1, <2>2, <2>3 DEF Admitted, ArgumentsOK, Radix, Skip
  <2>5. Start \in Int /\ Skip \in Int /\ Len(Body) \in Nat /\ Value[0] = 0
    <3>1. Start \in 1 .. 2 /\ Skip \in 0 .. 2
      BY <2>4, RestFacts, SkipFacts
    <3> QED BY <2>4, <3>1, BodyFacts, ValueFacts
  <2>6. At' = 0 /\ pos' \in Int
    BY <2>1, <2>2, <2>4, <2>5, SoFarKept
  <2>7. SoFar(0)'
    BY <2>1, <2>2, <2>5, SoFarKept
  <2>8. SoFar(At)'
    BY <2>6, <2>7 DEF SoFar
  <2>9. 0 \in 0 .. Len(Body)
    BY <2>5
  <2> QED BY <1>1, <2>1, <2>2, <2>4, <2>6, <2>8, <2>9 DEF ReadInv, LoopRead
<1>4. ASSUME SkipUnderscore \/ Digit
      PROVE  ReadInv'
  <2>1. /\ UNCHANGED args /\ pc = "loop" /\ pc' = "loop" /\ pos <= Len(str)
        /\ UNCHANGED locals /\ from' = from /\ pos' = pos + 1
    BY <1>4 DEF SkipUnderscore, Digit, AtChar
  <2>2. /\ base = Radix /\ maxVal = MaxOf(bits) /\ SoFar(At) /\ Admitted /\ from = Start /\ pos \in Int
        /\ base' = base /\ maxVal' = maxVal
    BY <2>1 DEF ReadInv, LoopRead, locals
  <2>3. /\ At \in 0 .. Len(Body) /\ Len(Body) \in Nat
        /\ At + 1 \in 1 .. Len(Body) /\ Body[At + 1] = str[pos]
    BY <2>1, CharacterRead
  <2>4. At' = At + 1
    <3>1. Start \in 1 .. 2 /\ Skip \in 0 .. 2
      BY <2>2, RestFacts, SkipFacts
    <3>2. At' = (pos + 1) - from - Skip
      BY <2>1, SoFarKept
    <3> QED BY <2>2, <3>1, <3>2 DEF At
  <2>k. PICK k \in 0 .. Len(Body) : k = At
    BY <2>3
  <2>5. /\ k \in 0 .. Len(Body) /\ k + 1 \in 1 .. Len(Body) /\ Body[k + 1] = str[pos] /\ SoFar(k)
        /\ (k + 1) - 1 = k
    BY <2>2, <2>3, <2>k
  <2>6. Value[k + 1] = IF Body[k + 1] = Underscore THEN Value[k] ELSE Value[k] * Radix + Body[k + 1]
    BY <2>2, <2>5, ValueFacts
  <2>7. /\ exact' = Value[k + 1] /\ (Readable(k + 1) /\ (Body[k + 1] = Underscore => baseArg = 0))
        /\ underscores' <=> underscores \/ Body[k + 1] = Underscore
    <3>1. CASE SkipUnderscore
      BY <2>5, <2>6, <3>1 DEF SkipUnderscore, Skipped, SoFar, Readable
    <3>2. CASE Digit
      <4>1. /\ str[pos] \in 0 .. 35 /\ str[pos] < base /\ exact' = exact * base + str[pos]
            /\ underscores' = underscores
        BY <3>2 DEF Digit, IsDigit, Digits
      <4>2. Body[k + 1] # Underscore
        BY <2>5, <4>1, DigitsAreNat
      <4>3. IsDigitAt(k + 1)
        BY <2>2, <2>5, <4>1, BodyFacts DEF IsDigitAt, Digits, Radix
      <4>4. exact = Value[k]
        BY <2>5 DEF SoFar
      <4> QED BY <2>2, <2>5, <2>6, <4>1, <4>2, <4>3, <4>4 DEF Readable
    <3> QED BY <1>4, <3>1, <3>2
  <2>8. \A j : j \in 1 .. k + 1 <=> j \in 1 .. k \/ j = k + 1
    BY <2>3, <2>k
  <2>9. SoFar(k + 1)' <=> /\ exact' = Value[k + 1]
                          /\ \A j \in 1 .. k + 1 : Readable(j) /\ (Body[j] = Underscore => baseArg = 0)
                          /\ underscores' <=> \E j \in 1 .. k + 1 : Body[j] = Underscore
    BY <2>1, SoFarKept
  <2>10. \A j \in 1 .. k + 1 : Readable(j) /\ (Body[j] = Underscore => baseArg = 0)
    BY <2>5, <2>7, <2>8 DEF SoFar
  <2>11. underscores' <=> \E j \in 1 .. k + 1 : Body[j] = Underscore
    <3>1. underscores <=> \E j \in 1 .. k : Body[j] = Underscore
      BY <2>5 DEF SoFar
    <3> QED BY <2>7, <2>8, <3>1
  <2>12. SoFar(k + 1)'
    BY <2>7, <2>9, <2>10, <2>11
  <2>13. SoFar(At)'
    <3>1. At' = k + 1
      BY <2>4, <2>k
    <3> QED BY <2>12, <3>1 DEF SoFar
  <2>14. At' \in 0 .. Len(Body)
    BY <2>3, <2>4
  <2> QED BY <1>1, <2>1, <2>2, <2>13, <2>14 DEF ReadInv, LoopRead
<1>5. ASSUME BadArguments \/ BadCharacter \/ Overflow \/ Misplaced \/ Finish
      PROVE  ReadInv'
  <2>1. /\ UNCHANGED args /\ pc \in {"prefix", "loop"} /\ pc' \in {"narrow", "done"}
        /\ from' = from /\ pos' = pos /\ (pc = "prefix" => pc' = "done")
    BY <1>5 DEF BadArguments, BadCharacter, Overflow, Misplaced, Finish, Return, AtChar, AtEnd
  <2> QED BY <1>1, <2>1 DEF ReadInv, LoopRead
<1>6. CASE Narrow
  BY <1>1, <1>6 DEF Narrow, ReadInv, LoopRead
<1>7. CASE UNCHANGED vars
  <2>1. UNCHANGED args /\ pc' = pc /\ from' = from /\ pos' = pos /\ base' = base /\ maxVal' = maxVal
        /\ underscores' = underscores /\ exact' = exact
    BY <1>7 DEF vars, locals
  <2>2. At' = At
    BY <2>1, SoFarKept DEF At
  <2>3. SoFar(At) => SoFar(At)'
    <3> SUFFICES ASSUME SoFar(At)
                 PROVE  SoFar(At)'
      OBVIOUS
    <3>1. Value' = Value /\ Body' = Body /\ baseArg' = baseArg
      BY <2>1, ArgsKept DEF args
    <3>2. \A j : Readable(j)' <=> Readable(j)
      <4>1. Radix' = Radix
        BY <2>1, ArgsKept
      <4> QED BY <3>1, <4>1 DEF Readable, IsDigitAt, Radix
    <3> QED BY <2>1, <2>2, <3>1, <3>2 DEF SoFar
  <2> QED BY <1>1, <2>1, <2>2, <2>3 DEF ReadInv, LoopRead
<1> QED BY <1>2, <1>3, <1>4, <1>5, <1>6, <1>7 DEF Next

\* The account of what has been read holds throughout the call.
LEMMA ReadInvariant == Spec => [](ArgsInv /\ IInv /\ ReadInv)
BY ArgsInvariant, InductiveInvariant, InitReadInv, NextReadInv, PTL DEF Spec
-----------------------------------------------------------------------------
(* The result.                                                             *)

\* Between parse_uint64 and the rest of parse_int64, and at the end of the call.
ResultInv ==
  /\ pc = "narrow" => signed /\ err \in {0, 1} /\ out \in 0 .. MaxWord /\ Parsed(err, out)
  /\ pc = "done" => (signed /\ bits = 1) \/ Correct(err, out)

\* What parse_uint64 returns is what either call needs.
LEMMA ReturnIsRight ==
  ASSUME ArgsInv, NEW c \in {-1, 0, 1}, NEW v, Return(c, v), UNCHANGED args, Parsed(c, v),
         c # -1 => Admitted /\ v \in 0 .. MaxWord
  PROVE  ResultInv'
<1>1. err' = c /\ out' = v /\ signed' = signed /\ bits' = bits /\ signed \in BOOLEAN
  BY DEF Return, args, ArgsInv
<1>2. CASE signed /\ c # -1
  <2>1. pc' = "narrow"
    BY <1>2 DEF Return
  <2>2. Parsed(c, v)'
    BY ResultsKept
  <2>3. Parsed(err, out)'
    BY <1>1, <2>2 DEF Parsed
  <2>4. MaxWord' = MaxWord
    BY DEF MaxWord, Word
  <2> QED BY <1>1, <1>2, <2>1, <2>3, <2>4 DEF ResultInv
<1>3. CASE ~ (signed /\ c # -1)
  <2>1. pc' = "done"
    BY <1>3 DEF Return
  <2>2. Correct(c, v)
    <3>1. CASE c = -1
      BY <3>1 DEF Parsed, Correct
    <3>2. CASE c # -1
      BY <1>1, <1>3, <3>2, UnsignedCorrect
    <3> QED BY <3>1, <3>2
  <2>3. Correct(c, v)'
    BY <2>2, ResultsKept
  <2>4. Correct(err, out)'
    BY <1>1, <2>3 DEF Correct
  <2> QED BY <2>1, <2>4 DEF ResultInv
<1> QED BY <1>2, <1>3

\* parse_uint64 refuses what it has to.
LEMMA ArgumentsRefused ==
  ASSUME ArgsInv, ReadInv, pc = "prefix", ~ ArgumentsOK
  PROVE  ~ WellFormed
<1>1. Rest = RestOfArgs
  BY RestIs DEF ReadInv
<1> QED BY <1>1 DEF ArgumentsOK, WellFormed

\* A character that is neither a digit nor an underscore allowed there is no part of a number.
LEMMA CharacterRefused ==
  ASSUME ArgsInv, ReadInv, AtChar, ~ Skipped, ~ IsDigit
  PROVE  ~ WellFormed
<1>1. pc = "loop" /\ pos <= Len(str)
  BY DEF AtChar
<1>2. At + 1 \in 1 .. Len(Body) /\ Body[At + 1] = str[pos]
  BY <1>1, CharacterRead
<1>3. Admitted /\ base = Radix
  BY <1>1 DEF ReadInv, LoopRead
<1>4. ~ IsDigitAt(At + 1)
  BY <1>2, <1>3 DEF IsDigit, IsDigitAt, Radix
<1>5. ~ (Body[At + 1] = Underscore /\ baseArg = 0)
  BY <1>2 DEF Skipped
<1>6. DOMAIN Body = 1 .. Len(Body)
  BY <1>3, BodyFacts
<1> QED BY <1>2, <1>4, <1>5, <1>6 DEF WellFormed

\* At the end everything has been read, and underscore_ok has been asked if need be.
LEMMA EndFacts ==
  ASSUME ArgsInv, IInv, ReadInv, AtEnd
  PROVE  /\ WellFormed <=> (underscores => UnderscoreOK(Rest))
         /\ n = Value[Len(Body)] /\ n \in 0 .. MaxWord /\ n <= MaxOf(bits) /\ Admitted
<1>1. pc = "loop" /\ ~ (pos <= Len(str)) /\ Admitted /\ from = Start /\ SoFar(At) /\ maxVal = MaxOf(bits)
  <2>1. pc = "loop" /\ pos > Len(str)
    BY DEF AtEnd
  <2>2. pos \in 1 .. Len(str) + 1 /\ Len(str) \in Nat
    BY <2>1, CharacterRead
  <2> QED BY <2>1, <2>2 DEF ReadInv, LoopRead
<1>2. At = Len(Body) /\ Rest = RestOfArgs /\ DOMAIN Body = 1 .. Len(Body) /\ Len(Body) \in Nat
  BY <1>1, CharacterRead, RestIs, BodyFacts
<1>3. SoFar(Len(Body))
  BY <1>1, <1>2
<1>4. n = Value[Len(Body)] /\ n \in 0 .. MaxWord /\ n <= MaxOf(bits)
  BY <1>1, <1>3, WordFacts DEF SoFar, IInv, LoopInv
<1>5. \A k \in 1 .. Len(Body) : Readable(k) /\ (Body[k] = Underscore => baseArg = 0)
  BY <1>3 DEF SoFar
<1>6. underscores <=> \E k \in 1 .. Len(Body) : Body[k] = Underscore
  BY <1>3 DEF SoFar
<1>7. WellFormed <=> \A k \in 1 .. Len(Body) : Body[k] = Underscore =>
                       IsDigitAt(k + 1) /\ (IsDigitAt(k - 1) \/ (k = 1 /\ Skip > 0))
  <2>1. \A k \in 1 .. Len(Body) : Body[k] = Underscore => ~ IsDigitAt(k)
    BY DigitsAreNat DEF IsDigitAt, Digits
  <2> QED BY <1>1, <1>2, <1>5, <2>1 DEF WellFormed, Admitted, Readable, Skip
<1>8. CASE ~ underscores
  BY <1>1, <1>4, <1>6, <1>7, <1>8
<1>9. CASE underscores
  <2>1. baseArg = 0
    BY <1>5, <1>6, <1>9
  <2> QED BY <1>1, <1>2, <1>4, <1>5, <1>7, <1>9, <2>1, UnderscoresPlaced
<1> QED BY <1>8, <1>9

\* On overflow the digits read with the next one exceed bit_size.
LEMMA OverflowRead ==
  ASSUME ArgsInv, IInv, ReadInv, AtChar, ~ Skipped, IsDigit, n >= cutoff \/ TooBig(str[pos])
  PROVE  Parsed(1, maxVal) /\ maxVal \in 0 .. MaxWord /\ Admitted
<1>1. pc = "loop" /\ pos <= Len(str) /\ str[pos] \in 0 .. 35 /\ str[pos] < base
  BY DEF AtChar, IsDigit, Digits
<1>2. Admitted /\ base = Radix /\ maxVal = MaxOf(bits) /\ SoFar(At)
  BY <1>1 DEF ReadInv, LoopRead
<1>3. n = exact /\ maxVal \in 1 .. MaxWord
  BY <1>1 DEF IInv, LoopInv
<1>4. /\ At \in 0 .. Len(Body) /\ Len(Body) \in Nat
      /\ At + 1 \in 1 .. Len(Body) /\ Body[At + 1] = str[pos]
  BY <1>1, CharacterRead
<1>5. PICK k \in 0 .. Len(Body) : k = At
  BY <1>4
<1>6. /\ k + 1 \in 1 .. Len(Body) /\ Body[k + 1] = str[pos] /\ SoFar(k) /\ (k + 1) - 1 = k
  BY <1>2, <1>4, <1>5
<1>7. Body[k + 1] # Underscore
  BY <1>1, <1>6, DigitsAreNat
<1>8. Value[k + 1] = Value[k] * Radix + str[pos]
  BY <1>2, <1>6, <1>7, ValueFacts
<1>9. n * base + str[pos] > maxVal
  BY <1>1, OverflowTests
<1>10. Value[k + 1] > MaxOf(bits)
  BY <1>2, <1>3, <1>6, <1>8, <1>9 DEF SoFar
<1>11. DOMAIN Body = 1 .. Len(Body)
  BY <1>2, BodyFacts
<1>12. IsDigitAt(k + 1)
  BY <1>1, <1>2, <1>6, <1>11 DEF IsDigitAt, Digits, Radix
<1>13. \A j \in 1 .. k + 1 : Readable(j)
  <2>1. \A j : j \in 1 .. k + 1 <=> j \in 1 .. k \/ j = k + 1
    BY <1>4, <1>5
  <2> QED BY <1>6, <1>12, <2>1 DEF SoFar, Readable
<1>14. \E i \in DOMAIN Body : (\A j \in 1 .. i : Readable(j)) /\ Value[i] > MaxOf(bits)
  BY <1>6, <1>10, <1>11, <1>13
<1>15. Parsed(1, maxVal)
  BY <1>2, <1>14 DEF Parsed
<1> QED BY <1>2, <1>3, <1>15

\* Every step returns what is right.
LEMMA NextResultInv == ArgsInv /\ IInv /\ ReadInv /\ ResultInv /\ [Next]_vars => ResultInv'
<1> SUFFICES ASSUME ArgsInv, IInv, ReadInv, ResultInv, [Next]_vars
             PROVE  ResultInv'
  OBVIOUS
<1>1. \A v : ~ WellFormed => Parsed(-1, v)
  BY DEF Parsed
<1>2. CASE Sign \/ Prefix \/ SkipUnderscore \/ Digit
  BY <1>2 DEF Sign, Prefix, SkipUnderscore, Digit, AtChar, ResultInv
<1>3. CASE BadArguments
  BY <1>1, <1>3, ArgumentsRefused, ReturnIsRight DEF BadArguments
<1>4. CASE BadCharacter
  BY <1>1, <1>4, CharacterRefused, ReturnIsRight DEF BadCharacter
<1>5. CASE Overflow
  BY <1>5, OverflowRead, ReturnIsRight DEF Overflow
<1>6. CASE Misplaced
  BY <1>1, <1>6, EndFacts, ReturnIsRight DEF Misplaced
<1>7. CASE Finish
  <2>1. WellFormed /\ n = Value[Len(Body)] /\ n \in 0 .. MaxWord /\ n <= MaxOf(bits) /\ Admitted
    BY <1>7, EndFacts DEF Finish
  <2>2. Parsed(0, n)
    BY <2>1 DEF Parsed
  <2> QED BY <1>7, <2>1, <2>2, ReturnIsRight DEF Finish
<1>8. CASE Narrow
  <2>1. /\ UNCHANGED args /\ pc = "narrow" /\ pc' = "done"
        /\ err' = Narrowed.err /\ out' = Narrowed.out
    BY <1>8 DEF Narrow
  <2>2. signed /\ err \in {0, 1} /\ Parsed(err, out) /\ Admitted
    BY <2>1 DEF ResultInv, ReadInv
  <2>3. CASE bits = 1
    BY <2>1, <2>2, <2>3 DEF ResultInv, args
  <2>4. CASE bits # 1
    <3>1. PICK e, o : e = Narrowed.err /\ o = Narrowed.out
      OBVIOUS
    <3>2. Correct(e, o)
      BY <2>2, <2>4, <3>1, SignedCorrect
    <3>3. Correct(e, o)'
      BY <2>1, <3>2, ResultsKept
    <3>4. Correct(err, out)'
      BY <2>1, <3>1, <3>3 DEF Correct
    <3> QED BY <2>1, <3>4 DEF ResultInv
  <2> QED BY <2>3, <2>4
<1>9. CASE UNCHANGED vars
  <2>1. UNCHANGED args /\ pc' = pc /\ err' = err /\ out' = out /\ signed' = signed /\ bits' = bits
    BY <1>9 DEF vars, args
  <2>2. PICK e, o : e = err /\ o = out
    OBVIOUS
  <2>3. (Parsed(e, o)' <=> Parsed(e, o)) /\ (Correct(e, o)' <=> Correct(e, o))
    BY <2>1, ResultsKept
  <2>4. (Parsed(err, out)' <=> Parsed(e, o)') /\ (Correct(err, out)' <=> Correct(e, o)')
    BY <2>1, <2>2 DEF Parsed, Correct
  <2>5. MaxWord' = MaxWord
    BY DEF MaxWord, Word
  <2> QED BY <2>1, <2>2, <2>3, <2>4, <2>5 DEF ResultInv
<1> QED BY <1>2, <1>3, <1>4, <1>5, <1>6, <1>7, <1>8, <1>9 DEF Next

\* What a call returns is right throughout.
LEMMA ResultInvariant == Spec => []ResultInv
<1>1. Init => ResultInv
  BY DEF Init, ResultInv
<1> QED BY <1>1, NextResultInv, ReadInvariant, PTL DEF Spec

\* A call accepts exactly the well-formed numbers in the range of bit_size, and
\* yields their value: for every string, base and bit_size but one.  parse_int64
\* with bit_size 1, which no flag type asks for, accepts -2 and all below it as
\* -1: parse_uint64 has cut them to 1, which is Limit.
THEOREM AcceptsExactlyTheNumbers == Spec => [](~ (signed /\ bits = 1) => AcceptsExactly)
<1>1. ResultInv => (~ (signed /\ bits = 1) => AcceptsExactly)
  BY DEF ResultInv, AcceptsExactly, Correct
<1> QED BY <1>1, ResultInvariant, PTL

\* A call reports every well-formed number out of range, never without a reason,
\* and leaves the limit of the range to the caller.
THEOREM OverflowIsReported == Spec => [](~ (signed /\ bits = 1) => OverflowReported)
<1>1. ResultInv => (~ (signed /\ bits = 1) => OverflowReported)
  BY DEF ResultInv, OverflowReported, Correct, Readable
<1> QED BY <1>1, ResultInvariant, PTL

\* cutoff is no larger than the number of words.
LEMMA CutoffIsAWord ==
  ASSUME NEW b \in 2 .. 36
  PROVE  MaxWord \div b + 1 \in 0 .. MaxWord + 1
<1> DEFINE q == MaxWord \div b
<1>1. q \in Nat /\ q * b <= MaxWord
  BY WordFacts
<1>2. q <= q * b /\ q * b \in Nat
  BY <1>1
<1> HIDE DEF q
<1>3. q + 1 \in 0 .. MaxWord + 1
  BY <1>1, <1>2, WordFacts
<1> QED BY <1>3 DEF q

\* The loop stays in the string.
LEMMA LoopPosition == ArgsInv /\ ReadInv /\ pc = "loop" => pos \in 1 .. Len(str) + 1
BY CharacterRead

\* Every variable of the call keeps its type.
THEOREM TypeCorrect == Spec => []TypeOK
<1>1. Init => TypeOK
  <2> SUFFICES ASSUME Init
               PROVE  TypeOK
    OBVIOUS
  <2>1. MaxWord \in Nat
    BY WordFacts
  <2>2. PICK c \in Calls : str = c.str
    BY DEF Init
  <2>3. Len(str) \in Nat
    BY <2>2, CallsAssumption, LenProperties
  <2>4. 0 \in 0 .. MaxWord /\ 0 \in 0 .. MaxWord + 1 /\ 0 \in - MaxWord .. MaxWord
        /\ 1 \in 1 .. Len(str) + 1 /\ 1 \in 1 .. 2 /\ 0 \in 0 .. 36 /\ 0 \in Nat
    BY <2>1, <2>3
  <2> QED BY <2>4 DEF Init, TypeOK
<1>2. (ArgsInv /\ ReadInv /\ pc = "loop" => pos \in 1 .. Len(str) + 1)'
  BY LoopPosition, PTL
<1>3. ASSUME ArgsInv, IInv, ReadInv, (ArgsInv /\ IInv /\ ReadInv)', ResultInv, TypeOK, [Next]_vars
      PROVE  TypeOK'
  <2>1. MaxWord \in Nat /\ MaxWord >= 35 /\ Len(str) \in Nat /\ MaxWord' = MaxWord
    BY <1>3, WordFacts, LenProperties DEF ArgsInv, MaxWord, Word
  <2>2. CASE Sign
    BY <1>3, <2>1, <2>2 DEF Sign, TypeOK, locals, args
  <2>3. CASE Prefix
    <3>1. pos' \in 1 .. Len(str) + 1
      <4>1. pc' = "loop" /\ str' = str
        BY <2>3 DEF Prefix, args
      <4>2. (pos \in 1 .. Len(str) + 1)'
        BY <1>3, <1>2, <4>1
      <4> QED BY <4>1, <4>2
    <3>2. base' \in 2 .. 36 /\ maxVal' \in 1 .. MaxWord /\ cutoff' = MaxWord \div base' + 1 /\ pc' = "loop"
      BY <1>3, <2>1, <2>3 DEF Prefix, IInv, LoopInv
    <3>3. cutoff' \in 0 .. MaxWord + 1
      BY <3>2, CutoffIsAWord
    <3>4. UNCHANGED <<str, from, n, underscores, err, out, exact>>
      BY <2>3 DEF Prefix, args
    <3>5. base' \in 0 .. 36 /\ maxVal' \in 0 .. MaxWord
      BY <2>1, <3>2
    <3> QED BY <1>3, <2>1, <3>1, <3>2, <3>3, <3>4, <3>5 DEF TypeOK
  <2>4. CASE SkipUnderscore
    BY <1>3, <2>1, <2>4 DEF SkipUnderscore, AtChar, TypeOK, locals, args
  <2>5. CASE Digit
    <3>1. n' \in 0 .. maxVal' /\ exact' = n' /\ maxVal' = maxVal
      BY <1>3, <2>5 DEF Digit, AtChar, IInv, LoopInv, locals
    <3>2. UNCHANGED <<str, pc, from, base, maxVal, cutoff, underscores, err, out>>
          /\ pos' = pos + 1 /\ pos <= Len(str)
      BY <2>5 DEF Digit, AtChar, locals, args
    <3>3. n' \in 0 .. MaxWord /\ exact' \in Nat
      BY <1>3, <2>1, <3>1 DEF TypeOK
    <3>4. pos' \in 1 .. Len(str') + 1
      BY <1>3, <2>1, <3>2 DEF TypeOK
    <3> QED BY <1>3, <2>1, <3>2, <3>3, <3>4 DEF TypeOK
  <2>6. CASE BadArguments \/ BadCharacter \/ Overflow \/ Misplaced \/ Finish
    <3>1. UNCHANGED <<str, from, pos, base, maxVal, cutoff, n, underscores, exact>>
      BY <2>6 DEF BadArguments, BadCharacter, Overflow, Misplaced, Finish, locals, args
    <3>2. err' \in {-1, 0, 1} /\ pc' \in {"narrow", "done"} /\ out' \in {out, n, maxVal}
      BY <2>6 DEF BadArguments, BadCharacter, Overflow, Misplaced, Finish, Return
    <3>3. n \in - MaxWord .. MaxWord /\ maxVal \in - MaxWord .. MaxWord
      BY <1>3, <2>1 DEF TypeOK
    <3>4. out' \in - MaxWord .. MaxWord
      BY <1>3, <3>2, <3>3 DEF TypeOK
    <3> QED BY <1>3, <2>1, <3>1, <3>2, <3>4 DEF TypeOK
  <2>7. CASE Narrow
    <3>1. /\ UNCHANGED <<str, from, pos, base, maxVal, cutoff, n, underscores, exact>>
          /\ pc = "narrow" /\ pc' = "done" /\ err' = Narrowed.err /\ out' = Narrowed.out
      BY <2>7 DEF Narrow, locals, args
    <3>2. out \in 0 .. MaxWord /\ Limit \in Nat \ {0}
      <4>1. Admitted /\ out \in 0 .. MaxWord
        BY <1>3, <3>1 DEF ReadInv, ResultInv
      <4> QED BY <4>1, LimitFacts DEF Admitted
    <3>3. Narrowed.err \in {0, 1} /\ Narrowed.out \in - MaxWord .. MaxWord
      BY <2>1, <3>2 DEF Narrowed
    <3> QED BY <1>3, <2>1, <3>1, <3>3 DEF TypeOK
  <2>8. CASE UNCHANGED vars
    BY <1>3, <2>1, <2>8 DEF vars, locals, args, TypeOK
  <2> QED BY <1>3, <2>2, <2>3, <2>4, <2>5, <2>6, <2>7, <2>8 DEF Next
<1> QED BY <1>1, <1>3, ReadInvariant, ResultInvariant, PTL DEF Spec
=============================================================================
