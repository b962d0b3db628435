---------------------------- MODULE MCParseNumber ----------------------------
(* The calls of ParseNumber its configurations make.                       *)
EXTENDS ParseNumber, TLC

Strings(alphabet, maxLen) == UNION {[1 .. len -> alphabet] : len \in 0 .. maxLen}
CallsWith(strings, bases, bitSizes, signs) ==
  [str : strings, base : bases, bits : bitSizes, signed : signs]

\* Prefixes and underscores: 0 1 9 b o x _ and a character that is no digit.
PrefixCalls ==
  CallsWith(Strings({0, 1, 9, B, O, X, Underscore, Other}, 4), {0}, {8}, BOOLEAN)
\* Carries and limits: the digits of 128, 255 and 256, and both signs; the
\* arguments base and bit_size inside and just outside their ranges.
RangeCalls ==
  CallsWith(Strings({0, 1, 2, 5, 6, 8, Minus, Plus}, 4), {-1, 10, 16, 37}, {-1, 0, 4, 8, 9}, BOOLEAN)
AllCalls == PrefixCalls \cup RangeCalls
=============================================================================
