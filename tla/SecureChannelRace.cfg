CONSTANTS
  MaxSends <- Sends
  Sequencer <- MainThread
  MaxNoise = 2
SPECIFICATION Spec
CHECK_DEADLOCK FALSE
INVARIANT SameIV
