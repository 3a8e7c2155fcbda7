CONSTANTS
  pingInterval = 5
  pongTimeout = 2
  Latency = 1
  MaxNow = 22
  Width = 64
SPECIFICATION Spec
INVARIANTS NoWrapAround ZombieBound
PROPERTY NoFalseTimeout
CHECK_DEADLOCK FALSE
