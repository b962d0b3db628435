----------------------------- MODULE ParseNumber -----------------------------
(***************************************************************************)
(* ppp_c_flags_parse_uint64, ppp_c_flags_parse_int64 and                   *)
(* ppp_c_flags_underscore_ok of src/shared/flags.c: one call, character by *)
(* character, on words of WordBits bits (64 in the code).                  *)
(*                                                                         *)
(* A character is the value of the digit or letter it stands for (0 .. 35, *)
(* upper and lower case being read alike), or one of the codes below.      *)
(***************************************************************************)
EXTENDS Integers, Sequences

CONSTANTS WordBits,  \* bits of uint64_t
          Calls      \* the calls made: records of str, base, bits (bit_size)
                     \* and signed (TRUE: parse_int64, FALSE: parse_uint64)

Underscore == -1
Minus      == -2
Plus       == -3
Other      == -4
B == 11   O == 24   X == 33   F == 15   \* the letters b, o, x and f

Digits  == 0 .. 35
Word    == 2 ^ WordBits
MaxWord == Word - 1

\* The table of maxVal.
MaxOf(bits) == IF bits = 0 THEN MaxWord ELSE 2 ^ bits - 1

ASSUME WordAssumption ==
  /\ WordBits \in Nat \ {0}
  /\ Word \in Nat /\ MaxWord >= 35   \* any digit fits a word
  /\ \A b \in 0 .. WordBits : MaxOf(b) \in 1 .. MaxWord
  /\ \A b \in 1 .. WordBits : 2 ^ (b - 1) \in Nat \ {0} /\ 2 ^ b = 2 * 2 ^ (b - 1)

ASSUME CallsAssumption ==
  \A c \in Calls :
    /\ c.str \in Seq(Digits \cup {Underscore, Minus, Plus, Other})
    /\ c.base \in Int /\ c.bits \in Int /\ c.signed \in BOOLEAN

VARIABLES
  str, baseArg, bits, signed,  \* the arguments
  pc,          \* where the call is
  from,        \* first character after the sign
  pos,         \* next character of the loop
  base, maxVal, cutoff, n, underscores,  \* locals of parse_uint64
  err, out,    \* result; out is written only when err is 0 or 1
  exact        \* history: the value of the digits read, in unbounded arithmetic

args   == <<str, baseArg, bits, signed>>
locals == <<base, maxVal, cutoff>>
vars   == <<args, pc, from, pos, locals, n, underscores, err, out, exact>>

Init ==
  /\ \E c \in Calls :
       str = c.str /\ baseArg = c.base /\ bits = c.bits /\ signed = c.signed
  /\ pc = "sign" /\ from = 1 /\ pos = 1
  /\ base = 0 /\ maxVal = 0 /\ cutoff = 0 /\ n = 0 /\ underscores = FALSE
  /\ err = 0 /\ out = 0 /\ exact = 0

Negative == signed /\ str # << >> /\ str[1] = Minus
Rest     == SubSeq(str, from, Len(str))   \* s0 of parse_uint64

\* parse_uint64 returns; parse_int64 goes on unless the syntax is wrong.
Return(code, value) ==
  /\ err' = code /\ out' = value
  /\ pc' = IF signed /\ code # -1 THEN "narrow" ELSE "done"

\* Pick off the sign.
Sign ==
  /\ pc = "sign"
  /\ from' = IF signed /\ str # << >> /\ str[1] \in {Minus, Plus} THEN 2 ELSE 1
  /\ pc' = "prefix"
  /\ UNCHANGED <<args, pos, locals, n, underscores, err, out, exact>>

\* The base and the characters its prefix takes.
Detect(s) ==
  IF baseArg # 0    THEN [base |-> baseArg, skip |-> 0]
  ELSE IF s[1] # 0  THEN [base |-> 10, skip |-> 0]
  ELSE IF Len(s) < 3 THEN [base |-> 8, skip |-> 1]
  ELSE CASE s[2] = B -> [base |-> 2, skip |-> 2]
         [] s[2] = O -> [base |-> 8, skip |-> 2]
         [] s[2] = X -> [base |-> 16, skip |-> 2]
         [] OTHER    -> [base |-> 8, skip |-> 1]

ArgumentsOK == Rest # << >> /\ baseArg \in {0} \cup 2 .. 36 /\ bits \in 0 .. WordBits

CutoffTooLarge(b) == MaxWord \div b + 2   \* mutant: one too large

\* The smallest word whose product with b does not fit a word.
CutoffOf(b) == MaxWord \div b + 1

Prefix ==
  /\ pc = "prefix"
  /\ ArgumentsOK
  /\ base' = Detect(Rest).base
  /\ pos' = from + Detect(Rest).skip
  /\ maxVal' = MaxOf(bits)
  /\ cutoff' = CutoffOf(Detect(Rest).base)
  /\ pc' = "loop"
  /\ UNCHANGED <<args, from, n, underscores, err, out, exact>>

BadArguments ==
  /\ pc = "prefix"
  /\ ~ ArgumentsOK
  /\ Return(-1, out)
  /\ UNCHANGED <<args, from, pos, locals, n, underscores, exact>>
-----------------------------------------------------------------------------
(* The loop over the characters.                                           *)

AtChar  == pc = "loop" /\ pos <= Len(str)
Skipped == str[pos] = Underscore /\ baseArg = 0
IsDigit == str[pos] \in Digits /\ str[pos] < base

SkipUnderscoreAndNext ==   \* mutant: skips the character after it as well
  /\ AtChar /\ Skipped
  /\ underscores' = TRUE
  /\ pos' = pos + 2
  /\ UNCHANGED <<args, pc, from, locals, n, err, out, exact>>

SkipUnderscore ==
  /\ AtChar /\ Skipped
  /\ underscores' = TRUE
  /\ pos' = pos + 1
  /\ UNCHANGED <<args, pc, from, locals, n, err, out, exact>>

BadCharacter ==
  /\ AtChar /\ ~ Skipped /\ ~ IsDigit
  /\ Return(-1, out)
  /\ UNCHANGED <<args, from, pos, locals, n, underscores, exact>>

\* n * base + d on words, and the test that its addition wrapped or is too large.
Product   == (n * base) % Word
Sum(d)    == (Product + d) % Word
TooBigWithoutWrapTest(d) == Sum(d) > maxVal          \* mutant
TooBig(d) == Sum(d) < Product \/ Sum(d) > maxVal

OverflowKeepsPart ==   \* mutant: the digits read so far instead of the limit
  /\ AtChar /\ ~ Skipped /\ IsDigit
  /\ n >= cutoff \/ TooBig(str[pos])
  /\ Return(1, n)
  /\ UNCHANGED <<args, from, pos, locals, n, underscores, exact>>

Overflow ==
  /\ AtChar /\ ~ Skipped /\ IsDigit
  /\ n >= cutoff \/ TooBig(str[pos])
  /\ Return(1, maxVal)
  /\ UNCHANGED <<args, from, pos, locals, n, underscores, exact>>

Digit ==
  /\ AtChar /\ ~ Skipped /\ IsDigit
  /\ n < cutoff /\ ~ TooBig(str[pos])
  /\ n' = Sum(str[pos])
  /\ exact' = exact * base + str[pos]
  /\ pos' = pos + 1
  /\ UNCHANGED <<args, pc, from, locals, underscores, err, out>>
-----------------------------------------------------------------------------
(* The end of the string.                                                  *)

SawLoose(seen, c, hex) ==   \* mutant: an underscore may follow an underscore
  IF seen = "bad" THEN "bad"
  ELSE IF c \in 0 .. 9 \/ (hex /\ c \in 10 .. F) THEN "digit"
  ELSE IF c = Underscore THEN IF seen \in {"digit", "underscore"} THEN "underscore" ELSE "bad"
  ELSE IF seen = "underscore" THEN "bad" ELSE "other"

\* underscore_ok: what was seen last, "bad" once it has returned 0.
Saw(seen, c, hex) ==
  IF seen = "bad" THEN "bad"
  ELSE IF c \in 0 .. 9 \/ (hex /\ c \in 10 .. F) THEN "digit"
  ELSE IF c = Underscore THEN IF seen = "digit" THEN "underscore" ELSE "bad"
  ELSE IF seen = "underscore" THEN "bad" ELSE "other"

UnderscoreOK(s) ==
  LET t      == IF s[1] \in {Minus, Plus} THEN Tail(s) ELSE s
      prefix == Len(t) >= 2 /\ t[1] = 0 /\ t[2] \in {B, O, X}
      first  == IF prefix THEN 2 ELSE 0
      saw[i \in first .. Len(t)] ==
        IF i = first THEN IF prefix THEN "digit" ELSE "start"
        ELSE Saw(saw[i - 1], t[i], prefix /\ t[2] = X)
  IN  saw[Len(t)] \notin {"underscore", "bad"}

AtEnd == pc = "loop" /\ pos > Len(str)

Misplaced ==
  /\ AtEnd
  /\ underscores /\ ~ UnderscoreOK(Rest)
  /\ Return(-1, out)
  /\ UNCHANGED <<args, from, pos, locals, n, underscores, exact>>

Finish ==
  /\ AtEnd
  /\ underscores => UnderscoreOK(Rest)
  /\ Return(0, n)
  /\ UNCHANGED <<args, from, pos, locals, n, underscores, exact>>

\* parse_int64 after parse_uint64: un is in out.
Limit == IF bits = 0 THEN 2 ^ (WordBits - 1) ELSE 2 ^ (bits - 1)

Narrowed ==
  IF Negative
  THEN IF out > Limit  THEN [err |-> 1, out |-> - Limit]    ELSE [err |-> 0, out |-> - out]
  ELSE IF out >= Limit THEN [err |-> 1, out |-> Limit - 1]  ELSE [err |-> 0, out |-> out]

Narrow ==
  /\ pc = "narrow"
  /\ err' = Narrowed.err /\ out' = Narrowed.out
  /\ pc' = "done"
  /\ UNCHANGED <<args, from, pos, locals, n, underscores, exact>>

Next == \/ Sign \/ Prefix \/ BadArguments
        \/ SkipUnderscore \/ BadCharacter \/ Overflow \/ Digit
        \/ Misplaced \/ Finish \/ Narrow

Spec == Init /\ [][Next]_vars
-----------------------------------------------------------------------------
(* What a call must return, stated on the whole string.                    *)

\* The digits and underscores after the sign and the prefix.
RestOfArgs == IF signed /\ str # << >> /\ str[1] \in {Minus, Plus} THEN Tail(str) ELSE str
Body       == SubSeq(RestOfArgs, Detect(RestOfArgs).skip + 1, Len(RestOfArgs))
IsDigitAt(i) == i \in DOMAIN Body /\ Body[i] \in Digits /\ Body[i] < Detect(RestOfArgs).base

\* Underscores only when base is 0, and only between digits or between the
\* prefix and a digit.
WellFormed ==
  /\ RestOfArgs # << >> /\ baseArg \in {0} \cup 2 .. 36 /\ bits \in 0 .. WordBits
  /\ \A i \in DOMAIN Body :
       \/ IsDigitAt(i)
       \/ /\ Body[i] = Underscore /\ baseArg = 0
          /\ IsDigitAt(i + 1)
          /\ IsDigitAt(i - 1) \/ (i = 1 /\ Detect(RestOfArgs).skip > 0)

\* The value of the first i characters of Body.
Value ==
  LET v[i \in 0 .. Len(Body)] ==
        IF i = 0 THEN 0
        ELSE IF Body[i] = Underscore THEN v[i - 1]
        ELSE v[i - 1] * Detect(RestOfArgs).base + Body[i]
  IN  v

Smallest == IF ~ signed THEN 0 ELSE - Limit
Largest  == IF ~ signed THEN MaxOf(bits) ELSE Limit - 1
Signed(v) == IF Negative THEN - v ELSE v
InRange(v) == Smallest <= Signed(v) /\ Signed(v) <= Largest

\* The call is consistent with its arguments, and its result is that of the code or none.
TypeOK ==
  /\ pc \in {"sign", "prefix", "loop", "narrow", "done"}
  /\ from \in 1 .. 2 /\ pos \in 1 .. Len(str) + 1
  /\ base \in 0 .. 36 /\ maxVal \in 0 .. MaxWord /\ cutoff \in 0 .. MaxWord + 1
  /\ n \in 0 .. MaxWord
  /\ underscores \in BOOLEAN
  /\ err \in {-1, 0, 1}
  /\ out \in - MaxWord .. MaxWord
  /\ exact \in Nat

\* The word n never wraps: it is the value of the digits read, and it fits bit_size.
NeverWraps == pc = "loop" => n = exact /\ n <= maxVal

\* The two overflow tests of the loop, which only see words, together say whether
\* the number with the next digit exceeds the limit of bit_size.
OverflowTestExact ==
  AtChar /\ ~ Skipped /\ IsDigit =>
    (n >= cutoff \/ TooBig(str[pos]) <=> exact * base + str[pos] > maxVal)

\* A call succeeds exactly on the well-formed numbers in the range of bit_size,
\* and then yields the number itself.
AcceptsExactly ==
  pc = "done" =>
    /\ err = 0 <=> WellFormed /\ InRange(Value[Len(Body)])
    /\ err = 0 => out = Signed(Value[Len(Body)])

\* flags.h: overflow: return 1.  A well-formed number out
\* of range is always reported, a report means that some leading digits of the input exceed
\* the range, and the value left for the caller is then the limit of the range.
OverflowReported ==
  pc = "done" =>
    /\ WellFormed /\ ~ InRange(Value[Len(Body)]) => err = 1
    /\ err = 1 =>
         /\ out = IF Negative THEN Smallest ELSE Largest
         /\ \E i \in DOMAIN Body : (\A j \in 1 .. i : IsDigitAt(j) \/ Body[j] = Underscore)
                                   /\ ~ InRange(Value[i])
=============================================================================
