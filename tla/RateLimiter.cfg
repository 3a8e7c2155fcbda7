CONSTANTS
  maxTokens = 2
  Second = 3
  MaxNow = 9
SPECIFICATION Spec
INVARIANTS AtMostTwice
PROPERTY OnlyOffendersRejected
CHECK_DEADLOCK FALSE
