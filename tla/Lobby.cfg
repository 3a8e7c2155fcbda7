CONSTANTS
  Session = {s1, s2}
  Player = {p1, p2}
  Mover = {p1}
  roomCount = 1
  MaxEnter = 2
  NoPlayer = NoPlayer
SPECIFICATION FairSpec
INVARIANTS NoGhost FirstEntersInTime RegistryExact
PROPERTIES EveryoneLeaves
CHECK_DEADLOCK FALSE
