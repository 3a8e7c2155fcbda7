CONSTANTS
  m1 = m1
  Player = {p1, p2}
  Monster = {m1}
  Arrow = {a1}
  MaxX = 2
  MaxY = 2
  Wall <- Corner
  Home <- HomeOne
  MaxHp <- HitPoints
  Damage = 1
  Search = 3
  Chase = 3
  SkillRange = 1
  MoveState = {"Idle"}
  NoObject = NoObject
  NoCell = NoCell
SPECIFICATION Spec
SYMMETRY Symmetry
INVARIANTS RoomPointers GridSound IteratorsValid LeaveFindsArrow ViewExact GoneStaysGone
INVARIANTS RoomFindsPath RoomStrayPath
PROPERTIES MonstersStep
