CONSTANTS
  Session = {s1, s2}
  Player = {p1, p2}
  Mover = {p1}
  roomCount = 2
  MaxEnter = 1
  NoPlayer = NoPlayer
SPECIFICATION Spec
CHECK_DEADLOCK FALSE
INVARIANTS NoGhost
