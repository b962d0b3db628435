CONSTANTS
  Chars <- MCChars
  MaxLen = 7
  Digit <- MCDigit
  MaxPort = 100
  V4Text <- MCV4Text
  V6Text <- MCV6Text
  MAX_IPV4_STRING_LEN = 3
  MAX_IPV6_STRING_LEN = 2
SPECIFICATION Spec
CHECK_DEADLOCK FALSE
INVARIANTS ListensOnPort NoOverrun FamilyOfBrackets
