CONSTANTS
  WordBits = 8
  Calls <- AllCalls
SPECIFICATION Spec
INVARIANTS TypeOK NeverWraps OverflowTestExact AcceptsExactly OverflowReported
CHECK_DEADLOCK FALSE
