----------------------------- MODULE RoomProofs -----------------------------
(***************************************************************************)
(* Proofs about Room for every map, every number of players, monsters and  *)
(* arrows, all hit points and ranges, whatever FindPath answers: the       *)
(* room's containers, the grid, the _room pointers and what the players    *)
(* are told never contradict each other, and no loop of Update changes the *)
(* container it is in.  Then about what FindPath does answer, for all      *)
(* walls, starts and destinations; and that monsters walk, by that.        *)
(***************************************************************************)
EXTENDS Room, WellFoundedInduction, FiniteSetTheorems, SequenceTheorems, TLAPS

(* A player is in the room between its enter job and its leave job: dying  *)
(* and entering again does not change that.                                *)
Visitors == players = entered \ gone

(* Nothing stands on a wall, on the grid or off it. *)
Clear == \A o \in Object : pos[o] \notin Wall

(* There is one Update: its timer runs, or it waits in the queue, behind   *)
(* the arrows of the last one, or it is running.                           *)
UpdateOnce ==
  /\ updateDue => loop = "none"
  /\ updateDue \/ loop # "none" => \A i \in 1..Len(jobs) : jobs[i] # "Update"
  /\ \A i \in 1..Len(jobs) : jobs[i] = "Update" => i = Len(jobs)

(* So when it gets to the arrows, those of earlier updates have left, and  *)
(* none that is still to be updated has posted its leaving.                *)
ArrowsLeft ==
  /\ loop = "monsters" => jobs = <<>>
  /\ loop = "projectiles" =>
       \A a \in todo : a \in projectiles /\ \A i \in 1..Len(jobs) : jobs[i] # a

IInv ==
  /\ TypeOK /\ RoomPointers /\ Visitors /\ GridSound /\ Clear /\ IteratorsValid
  /\ UpdateOnce /\ ArrowsLeft /\ LeaveFindsArrow /\ ViewExact

(* What _objects is, and what the players know. *)
Grids == [Cell -> Creature \cup {NoObject}]
Views == [Player -> [Object -> Cell \cup {NoCell}]]

-----------------------------------------------------------------------------
LEMMA SpawnIsFree == Spawn \in Cell /\ Spawn \notin Wall
BY MapAssumption DEF Spawn, Cell

(* ApplyLeave takes the object off whatever cell has it, and nothing else. *)
LEMMA LiftedGrid ==
  ASSUME TypeOK, GridSound, NEW o \in Creature
  PROVE  /\ Lifted(o) \in Grids
         /\ \A c \in Cell : Lifted(o)[c] # o
         /\ \A c \in Cell : Lifted(o)[c] # NoObject => Lifted(o)[c] = grid[c]
<1>1. grid \in Grids /\ pos[o] \in Cell /\ o # NoObject
  BY DisjointAssumption DEF TypeOK, Grids, Object, Creature
<1>2. \A c \in Cell : grid[c] = o => pos[o] = c
  BY <1>1 DEF GridSound
<1>. QED BY <1>1, <1>2 DEF Lifted, Grids

(* ApplyMove puts a creature on one cell, off the walls, or on none. *)
LEMMA Moved ==
  ASSUME TypeOK, GridSound, NEW o \in Creature, NEW dest, ApplyMove(o, dest)
  PROVE  /\ grid' \in Grids /\ pos' \in [Object -> Cell]
         /\ \A x \in Object \ {o} : pos'[x] = pos[x]
         /\ pos'[o] = pos[o] \/ (pos'[o] = dest /\ dest \notin Wall)
         /\ \A c \in Cell : grid'[c] # NoObject =>
              \/ grid'[c] = o /\ pos'[o] = c /\ c \notin Wall
              \/ grid'[c] # o /\ grid'[c] = grid[c]
<1>1. /\ Lifted(o) \in Grids
      /\ \A c \in Cell : Lifted(o)[c] # o
      /\ \A c \in Cell : Lifted(o)[c] # NoObject => Lifted(o)[c] = grid[c]
  BY LiftedGrid
<1>2. pos \in [Object -> Cell] /\ o \in Object
  BY DEF TypeOK, Object, Creature
<1>3. CASE CanGo(Lifted(o), dest)
  <2>1. dest \in Cell /\ dest \notin Wall
    BY <1>3 DEF CanGo
  <2>2. grid' = [Lifted(o) EXCEPT ![dest] = o] /\ pos' = [pos EXCEPT ![o] = dest]
    BY <1>3 DEF ApplyMove
  <2> HIDE DEF ApplyMove
  <2>3. grid' \in Grids
    BY <1>1, <2>2 DEF Grids
  <2>4. pos' \in [Object -> Cell] /\ pos'[o] = dest /\ \A x \in Object \ {o} : pos'[x] = pos[x]
    BY <1>2, <2>1, <2>2
  <2>5. ASSUME NEW c \in Cell, grid'[c] # NoObject
        PROVE  \/ grid'[c] = o /\ pos'[o] = c /\ c \notin Wall
               \/ grid'[c] # o /\ grid'[c] = grid[c]
    BY <1>1, <2>1, <2>2, <2>4, <2>5 DEF Grids
  <2>. QED BY <2>1, <2>3, <2>4, <2>5
<1>4. CASE ~CanGo(Lifted(o), dest)
  <2>1. grid' = Lifted(o) /\ pos' = pos
    BY <1>4 DEF ApplyMove
  <2>. QED BY <1>1, <1>2, <2>1
<1>. QED BY <1>3, <1>4

-----------------------------------------------------------------------------
(* The packets of one job, client by client. *)
LEMMA EnterTold ==
  ASSUME TypeOK, NEW o \in Object, NEW at \in Cell, TellEnter(o, at)
  PROVE  /\ seen' \in Views
         /\ \A p \in players \ {o} : /\ seen'[p][o] = at
                                     /\ \A x \in Object \ {o} : seen'[p][x] = seen[p][x]
         /\ o \in Player => \A x \in Object \ {o} :
              seen'[o][x] = IF x \in Members THEN pos[x] ELSE NoCell
<1>1. seen \in Views /\ pos \in [Object -> Cell] /\ players \subseteq Player
  BY DEF TypeOK, Views
<1>. QED BY <1>1 DEF TellEnter, Views

LEMMA LeaveTold ==
  ASSUME TypeOK, NEW o \in Object, TellLeave(o)
  PROVE  /\ seen' \in Views
         /\ \A p \in players \ {o} : /\ seen'[p][o] = NoCell
                                     /\ \A x \in Object \ {o} : seen'[p][x] = seen[p][x]
<1>1. seen \in Views /\ players \subseteq Player
  BY DEF TypeOK, Views
<1>. QED BY <1>1 DEF TellLeave, Views

LEMMA MoveTold ==
  ASSUME TypeOK, NEW o \in Object, NEW at \in Cell, TellMove(o, at)
  PROVE  /\ seen' \in Views
         /\ \A p \in players \ {o} :
              /\ seen'[p][o] = IF seen[p][o] # NoCell THEN at ELSE NoCell
              /\ \A x \in Object \ {o} : seen'[p][x] = seen[p][x]
         /\ o \in Player => seen'[o] = seen[o]
<1>1. seen \in Views /\ players \subseteq Player
  BY DEF TypeOK, Views
<1>. QED BY <1>1 DEF TellMove, Views

(***************************************************************************)
(* OnDamaged.  Who is in the room stays in it: the dead enter where they   *)
(* left, and those who are not there are left alone.                       *)
(***************************************************************************)
LEMMA Damaged ==
  ASSUME TypeOK, RoomPointers, GridSound, NEW o \in Creature, NEW by, OnDamaged(o, by)
  PROVE  /\ players' = players /\ monsters' = monsters /\ inRoom' = inRoom
         /\ hp' \in [Creature -> Nat] /\ \A x \in Creature : hp'[x] \in 1..MaxHp[x]
         /\ state' \in [Creature -> {"Idle", "Moving", "Skill"}]
         /\ target' \in [Monster -> Player \cup {NoObject}]
         /\ grid' \in Grids /\ pos' \in [Object -> Cell]
         /\ \A x \in Object \ {o} : pos'[x] = pos[x]
         /\ pos'[o] = pos[o] \/ pos'[o] = Spawn
         /\ \A c \in Cell : grid'[c] # NoObject =>
              \/ grid'[c] = o /\ pos'[o] = c /\ c \notin Wall /\ o \in inRoom
              \/ (grid'[c] # o \/ pos'[o] = pos[o]) /\ grid'[c] = grid[c]
         /\ modified' \subseteq modified \cup {IF o \in Player THEN "players" ELSE "monsters"}
         /\ \/ UNCHANGED <<pos, seen>>
            \/ TellEnter(o, Spawn) /\ pos'[o] = Spawn
<1>1. /\ players \subseteq Player /\ monsters = Monster /\ pos \in [Object -> Cell]
      /\ grid \in Grids /\ target \in [Monster -> Player \cup {NoObject}]
      /\ state \in [Creature -> {"Idle", "Moving", "Skill"}]
      /\ hp \in [Creature -> Nat] /\ \A x \in Creature : hp[x] \in 1..MaxHp[x]
  BY DEF TypeOK, Grids
<1>2. o \in Object /\ MaxHp \in [Creature -> Nat \ {0}] /\ Damage \in Nat
  BY NumberAssumption DEF Object, Creature
<1>3. CASE o \notin inRoom /\ NoDamage
  BY <1>1, <1>3 DEF NoDamage
<1>4. CASE o \in inRoom /\ Wound(o)
  <2>1. /\ UNCHANGED <<players, monsters, inRoom, state, target, pos, grid, modified, seen>>
        /\ hp' = [hp EXCEPT ![o] = hp[o] - Damage] /\ hp[o] > Damage
    BY <1>4 DEF Wound
  <2>2. hp[o] - Damage \in Nat /\ hp[o] - Damage \in 1..MaxHp[o]
    BY <1>1, <1>2, <2>1
  <2>3. hp' \in [Creature -> Nat] /\ \A x \in Creature : hp'[x] \in 1..MaxHp[x]
    BY <1>1, <2>1, <2>2
  <2>. QED BY <1>1, <2>1, <2>3
<1>5. CASE o \in inRoom /\ OnDead(o, by)
  <2>1. o \in Members
    BY <1>5 DEF RoomPointers
  <2>2. players' = players /\ monsters' = monsters /\ inRoom' = inRoom
    <3>1. (o \in Player => o \in players) /\ (o \in Monster => o \in monsters)
      BY <1>1, <2>1, DisjointAssumption DEF Members, TypeOK
    <3>. QED BY <1>5, <3>1 DEF OnDead
  <2>3. /\ Lifted(o) \in Grids
        /\ \A c \in Cell : Lifted(o)[c] # o
        /\ \A c \in Cell : Lifted(o)[c] # NoObject => Lifted(o)[c] = grid[c]
    BY LiftedGrid
  <2>4. hp' \in [Creature -> Nat] /\ \A x \in Creature : hp'[x] \in 1..MaxHp[x]
    <3>1. MaxHp[o] \in Nat /\ MaxHp[o] \in 1..MaxHp[o]
      BY <1>2
    <3>2. hp' = [hp EXCEPT ![o] = MaxHp[o]]
      BY <1>5 DEF OnDead
    <3>. QED BY <1>1, <3>1, <3>2
  <2>5. /\ state' \in [Creature -> {"Idle", "Moving", "Skill"}]
        /\ target' \in [Monster -> Player \cup {NoObject}]
    BY <1>1, <1>5 DEF OnDead
  <2>6. pos' = [pos EXCEPT ![o] = Spawn]
    BY <1>5 DEF OnDead
  <2>7. /\ pos' \in [Object -> Cell] /\ pos'[o] = Spawn
        /\ \A x \in Object \ {o} : pos'[x] = pos[x]
    BY <1>1, <1>2, <2>6, SpawnIsFree
  <2>8. /\ grid' \in Grids
        /\ \A c \in Cell : grid'[c] # NoObject =>
              \/ grid'[c] = o /\ pos'[o] = c /\ c \notin Wall /\ o \in inRoom
              \/ grid'[c] # o /\ grid'[c] = grid[c]
    <3>1. CASE CanGo(Lifted(o), Spawn)
      <4>1. grid' = [Lifted(o) EXCEPT ![Spawn] = o]
        BY <1>5, <3>1 DEF OnDead
      <4>. QED BY <1>5, <2>3, <2>7, <4>1, SpawnIsFree DEF Grids
    <3>2. CASE ~CanGo(Lifted(o), Spawn)
      <4>1. grid' = Lifted(o)
        BY <1>5, <3>2 DEF OnDead
      <4>. QED BY <2>3, <4>1 DEF Grids
    <3>. QED BY <3>1, <3>2
  <2>9. /\ modified' \subseteq modified \cup {IF o \in Player THEN "players" ELSE "monsters"}
        /\ TellEnter(o, Spawn)
    BY <1>5 DEF OnDead
  <2>. QED BY <2>2, <2>4, <2>5, <2>7, <2>8, <2>9
<1>. QED BY <1>3, <1>4, <1>5 DEF OnDamaged

-----------------------------------------------------------------------------
(***************************************************************************)
(* What a step does to who is where.  Nothing,                             *)
(***************************************************************************)
Still == UNCHANGED <<containers, grid, pos, visits, seen>>

(* a creature moves, or does not get there, or is gone already, *)
Walks(o) ==
  /\ UNCHANGED <<containers, visits>>
  /\ (o \in inRoom /\ \E dest : ApplyMove(o, dest)) \/ UNCHANGED <<grid, pos>>
  /\ TellMove(o, pos'[o]) \/ UNCHANGED <<pos, seen>>

(* an arrow flies, *)
Flies(a) ==
  /\ UNCHANGED <<containers, visits, grid>>
  /\ \E dest : /\ CanGo(grid, dest)
               /\ pos' = [pos EXCEPT ![a] = dest]
               /\ TellMove(a, dest)

(* somebody is hit, *)
Hurts(o) == UNCHANGED <<projectiles, visits>> /\ \E by : OnDamaged(o, by)

(* or somebody or something comes or goes. *)
Comes(p) ==
  \/ EnterPlayer(p) \/ LeavePlayer(p)
  \/ \E a \in Arrow, d \in Direction : HandleSkillProjectile(p, a, d)

LEMMA StepKinds ==
  ASSUME TypeOK, RoomPointers, [Next]_vars
  PROVE  \/ Still
         \/ \E o \in Creature : Walks(o)
         \/ \E a \in Arrow : Flies(a)
         \/ \E o \in Creature : Hurts(o)
         \/ \E p \in Player : Comes(p)
         \/ LeaveProjectile
<1>1. CASE UNCHANGED vars
  BY <1>1 DEF vars, Still, containers, visits
<1>2. CASE TimerFires \/ Update \/ UpdateProjectiles \/ UpdateEnd
  BY <1>2 DEF TimerFires, Update, UpdateProjectiles, UpdateEnd, Still
<1>3. CASE LeaveProjectile
  BY <1>3
<1>4. ASSUME NEW m \in Monster, MonsterUpdate(m)
      PROVE  Still \/ Walks(m) \/ \E o \in Creature : Hurts(o)
  <2>1. CASE MonsterWaits(m) \/ MonsterGivesUp(m) \/ MonsterAims(m) \/ MonsterStopsSkill(m)
             \/ MonsterCools(m) \/ \E p \in Player : UpdateIdle(m, p)
    BY <2>1 DEF MonsterWaits, MonsterGivesUp, MonsterAims, MonsterStopsSkill, MonsterCools,
         UpdateIdle, ChangesOnly, Turn, Hits, Still, containers
  <2>2. CASE MonsterMoves(m)
    <3>1. UNCHANGED <<containers, visits>>
      BY <2>2 DEF MonsterMoves, Turn, Hits, containers
    <3>2. m \in inRoom
      BY DEF TypeOK, RoomPointers, Members
    <3>3. PICK path \in Paths(m) :
            /\ ApplyMove(m, NextCell(path))
            /\ IF pos'[m] = NextCell(path) THEN TellMove(m, pos'[m]) ELSE UNCHANGED seen
      BY <2>2 DEF MonsterMoves
    <3>4. CASE pos'[m] = NextCell(path)
      BY <3>1, <3>2, <3>3, <3>4 DEF Walks
    <3>5. CASE pos'[m] # NextCell(path)
      <4>1. UNCHANGED <<pos, seen>>
        BY <3>3, <3>5 DEF ApplyMove, TypeOK, Object
      <4>. QED BY <3>1, <3>2, <3>3, <4>1 DEF Walks
    <3>. QED BY <3>4, <3>5
  <2>3. CASE MonsterAttacks(m)
    <3>1. target[m] \in Creature
      BY <2>3 DEF MonsterAttacks, TypeOK, Creature
    <3>. QED BY <2>3, <3>1 DEF MonsterAttacks, Hits, Hurts
  <2>. QED BY <1>4, <2>1, <2>2, <2>3 DEF MonsterUpdate
<1>5. ASSUME NEW a \in Arrow, ArrowWaits(a) \/ ArrowActs(a)
      PROVE  Still \/ Flies(a) \/ \E o \in Creature : Hurts(o)
  <2>1. CASE ArrowWaits(a)
    BY <2>1 DEF ArrowWaits, Turn, Hits, Still, containers
  <2>2. CASE ArrowFlies(a)
    BY <2>2 DEF ArrowFlies, Turn, Hits, Flies, containers
  <2>3. CASE ArrowHits(a)
    <3> DEFINE struck == Find(Front(pos[a], dir[a]))
    <3>1. UNCHANGED <<projectiles, visits>>
      BY <2>3 DEF ArrowHits, Hits
    <3>2. CASE struck = NoObject
      BY <2>3, <3>1, <3>2 DEF ArrowHits, NoDamage, Still, containers
    <3>3. CASE struck # NoObject
      <4>1. struck \in Creature
        BY <3>3 DEF Find, TypeOK
      <4>2. OnDamaged(struck, a)
        BY <2>3, <3>3 DEF ArrowHits
      <4>. QED BY <3>1, <4>1, <4>2 DEF Hurts
    <3>. QED BY <3>2, <3>3
  <2>. QED BY <1>5, <2>1, <2>2, <2>3 DEF ArrowActs
<1>6. ASSUME NEW p \in Player, SessionJob(p)
      PROVE  Still \/ Walks(p) \/ Comes(p)
  <2>1. CASE EnterPlayer(p) \/ LeavePlayer(p) \/ \E a \in Arrow, d \in Direction : HandleSkillProjectile(p, a, d)
    BY <2>1 DEF Comes
  <2>2. CASE HandleSkillAuto(p)
    BY <2>2 DEF HandleSkillAuto, Still
  <2>3. ASSUME NEW c \in Cell, NEW st \in MoveState, HandleMove(p, c, st)
        PROVE  Walks(p)
    BY <2>3 DEF HandleMove, Walks
  <2>. QED BY <1>6, <2>1, <2>2, <2>3 DEF SessionJob
<1>7. Monster \subseteq Creature /\ Player \subseteq Creature
  BY DEF Creature
<1>. QED BY <1>1, <1>2, <1>3, <1>4, <1>5, <1>6, <1>7 DEF Next, RoomJob

-----------------------------------------------------------------------------
(* Types of who is where; those of the rest are further down. *)
MapTypes ==
  /\ players \subseteq Player /\ monsters = Monster /\ projectiles \subseteq Arrow
  /\ inRoom \subseteq Object
  /\ grid \in Grids /\ pos \in [Object -> Cell] /\ seen \in Views
  /\ entered \subseteq Player /\ gone \subseteq entered

LEMMA Places ==
  ASSUME TypeOK
  PROVE  MapTypes
BY DEF TypeOK, MapTypes, Grids, Views

(* Every step leaves everybody on a cell, and the grid with creatures. *)
LEMMA NextMapTypes ==
  ASSUME TypeOK, RoomPointers, GridSound, [Next]_vars
  PROVE  MapTypes'
<1> USE Places DEF MapTypes
<1>1. CASE Still
  BY <1>1 DEF Still, containers, visits
<1>2. ASSUME NEW o \in Creature, Walks(o) PROVE MapTypes'
  <2>1. grid' \in Grids /\ pos' \in [Object -> Cell]
    <3>1. ASSUME NEW dest, ApplyMove(o, dest)
          PROVE  grid' \in Grids /\ pos' \in [Object -> Cell]
      BY <3>1, Moved
    <3>. QED BY <1>2, <3>1 DEF Walks
  <2>2. o \in Object
    BY DEF Object, Creature
  <2>3. TellMove(o, pos'[o]) => seen' \in Views
    BY <2>1, <2>2, MoveTold
  <2>4. seen' \in Views
    BY <1>2, <2>3 DEF Walks
  <2>. QED BY <1>2, <2>1, <2>4 DEF Walks, containers, visits
<1>3. ASSUME NEW a \in Arrow, Flies(a) PROVE MapTypes'
  <2>1. PICK dest : CanGo(grid, dest) /\ pos' = [pos EXCEPT ![a] = dest] /\ TellMove(a, dest)
    BY <1>3 DEF Flies
  <2>2. dest \in Cell /\ a \in Object
    BY <2>1 DEF CanGo, Object
  <2>3. seen' \in Views
    BY <2>1, <2>2, MoveTold
  <2>4. pos' \in [Object -> Cell]
    BY <2>1, <2>2
  <2>. QED BY <1>3, <2>3, <2>4 DEF Flies, containers, visits
<1>4. ASSUME NEW o \in Creature, Hurts(o) PROVE MapTypes'
  <2>1. PICK by : OnDamaged(o, by)
    BY <1>4 DEF Hurts
  <2>2. /\ players' = players /\ monsters' = monsters /\ inRoom' = inRoom
        /\ grid' \in Grids /\ pos' \in [Object -> Cell]
        /\ UNCHANGED <<pos, seen>> \/ TellEnter(o, Spawn)
    BY <2>1, Damaged
  <2>3. o \in Object
    BY DEF Object, Creature
  <2>4. seen' \in Views
    BY <2>2, <2>3, EnterTold, SpawnIsFree
  <2>. QED BY <1>4, <2>2, <2>4 DEF Hurts, visits
<1>5. ASSUME NEW p \in Player, EnterPlayer(p) PROVE MapTypes'
  <2>1. p \in Creature /\ p \in Object /\ pos[p] \in Cell
    BY DEF Object, Creature
  <2>2. grid' \in Grids /\ pos' \in [Object -> Cell]
    BY <1>5, <2>1, Moved DEF EnterPlayer
  <2>3. seen' \in Views
    BY <1>5, <2>1, EnterTold DEF EnterPlayer
  <2>. QED BY <1>5, <2>1, <2>2, <2>3 DEF EnterPlayer
<1>6. ASSUME NEW p \in Player, LeavePlayer(p) PROVE MapTypes'
  <2>1. p \in Creature /\ p \in Object
    BY DEF Object, Creature
  <2>2. grid' \in Grids
    BY <1>6, <2>1, LiftedGrid DEF LeavePlayer
  <2>3. seen' \in Views
    BY <1>6, <2>1, LeaveTold DEF LeavePlayer
  <2>. QED BY <1>6, <2>1, <2>2, <2>3 DEF LeavePlayer
<1>7. ASSUME NEW p \in Player, NEW a \in Arrow, NEW d \in Direction, HandleSkillProjectile(p, a, d)
      PROVE  MapTypes'
  <2>1. p \in Object /\ a \in Object /\ pos[p] \in Cell
    BY DEF Object
  <2>2. seen' \in Views
    BY <1>7, <2>1, EnterTold DEF HandleSkillProjectile
  <2>. QED BY <1>7, <2>1, <2>2 DEF HandleSkillProjectile, visits
<1>8. CASE LeaveProjectile
  <2> DEFINE a == Head(jobs)
  <2>1. a \in Object
    BY <1>8 DEF LeaveProjectile, Object
  <2>2. seen' \in Views
    BY <1>8, <2>1, LeaveTold DEF LeaveProjectile
  <2>. QED BY <1>8, <2>1, <2>2, SpawnIsFree DEF LeaveProjectile, visits
<1>. QED BY <1>1, <1>2, <1>3, <1>4, <1>5, <1>6, <1>7, <1>8, StepKinds DEF Comes

(* Containers and _room change together. *)
LEMMA NextRoomPointers ==
  ASSUME TypeOK, RoomPointers, GridSound, [Next]_vars
  PROVE  RoomPointers'
<1> USE Places DEF MapTypes, RoomPointers, Members
<1>1. CASE Still
  BY <1>1 DEF Still, containers
<1>2. ASSUME NEW o \in Creature, Walks(o) PROVE RoomPointers'
  BY <1>2 DEF Walks, containers
<1>3. ASSUME NEW a \in Arrow, Flies(a) PROVE RoomPointers'
  BY <1>3 DEF Flies, containers
<1>4. ASSUME NEW o \in Creature, Hurts(o) PROVE RoomPointers'
  BY <1>4, Damaged DEF Hurts
<1>5. ASSUME NEW p \in Player, Comes(p) PROVE RoomPointers'
  <2>1. CASE EnterPlayer(p)
    BY <2>1 DEF EnterPlayer
  <2>2. CASE LeavePlayer(p)
    BY <2>2, DisjointAssumption DEF LeavePlayer
  <2>3. ASSUME NEW a \in Arrow, NEW d \in Direction, HandleSkillProjectile(p, a, d)
        PROVE  RoomPointers'
    BY <2>3 DEF HandleSkillProjectile
  <2>. QED BY <1>5, <2>1, <2>2, <2>3 DEF Comes
<1>6. CASE LeaveProjectile
  BY <1>6, DisjointAssumption DEF LeaveProjectile
<1>. QED BY <1>1, <1>2, <1>3, <1>4, <1>5, <1>6, StepKinds

(* Only the enter and the leave job change _players. *)
LEMMA NextVisitors ==
  ASSUME TypeOK, RoomPointers, GridSound, Visitors, [Next]_vars
  PROVE  Visitors'
<1> USE Places DEF MapTypes, Visitors
<1>1. CASE Still
  BY <1>1 DEF Still, containers, visits
<1>2. ASSUME NEW o \in Creature, Walks(o) PROVE Visitors'
  BY <1>2 DEF Walks, containers, visits
<1>3. ASSUME NEW a \in Arrow, Flies(a) PROVE Visitors'
  BY <1>3 DEF Flies, containers, visits
<1>4. ASSUME NEW o \in Creature, Hurts(o) PROVE Visitors'
  BY <1>4, Damaged DEF Hurts, visits
<1>5. ASSUME NEW p \in Player, Comes(p) PROVE Visitors'
  BY <1>5 DEF Comes, EnterPlayer, LeavePlayer, HandleSkillProjectile, visits
<1>6. CASE LeaveProjectile
  BY <1>6 DEF LeaveProjectile, visits
<1>. QED BY <1>1, <1>2, <1>3, <1>4, <1>5, <1>6, StepKinds

(* Whoever gets onto a cell of the grid is there, and is off all others. *)
LEMMA NextGridSound ==
  ASSUME TypeOK, RoomPointers, GridSound, [Next]_vars
  PROVE  GridSound'
<1> USE Places DEF MapTypes
<1> DEFINE Sound(c) == grid[c] # NoObject =>
             grid[c] \in players \cup monsters /\ pos[grid[c]] = c /\ c \notin Wall
<1>0. /\ \A c \in Cell : Sound(c)
      /\ \A c \in Cell : grid[c] \in Creature \cup {NoObject}
      /\ Creature \subseteq Object /\ Creature \cap Arrow = {}
  BY DisjointAssumption DEF GridSound, Grids, Creature, Object
<1> SUFFICES ASSUME NEW c \in Cell, grid'[c] # NoObject
             PROVE  /\ grid'[c] \in players' \cup monsters'
                    /\ pos'[grid'[c]] = c /\ c \notin Wall
  BY DEF GridSound
<1> DEFINE Goal == /\ grid'[c] \in players' \cup monsters'
                   /\ pos'[grid'[c]] = c /\ c \notin Wall
<1>1. CASE Still
  BY <1>0, <1>1 DEF Still, containers
<1>2. ASSUME NEW o \in Creature, Walks(o) PROVE Goal
  <2>1. players' = players /\ monsters' = monsters
    BY <1>2 DEF Walks, containers
  <2>2. ASSUME NEW dest, ApplyMove(o, dest), o \in inRoom PROVE Goal
    <3>1. /\ \A x \in Object \ {o} : pos'[x] = pos[x]
          /\ \/ grid'[c] = o /\ pos'[o] = c /\ c \notin Wall
             \/ grid'[c] # o /\ grid'[c] = grid[c]
      BY <2>2, Moved
    <3>2. o \in players \cup monsters
      BY <1>0, <2>2 DEF RoomPointers, Members
    <3>. QED BY <1>0, <2>1, <3>1, <3>2
  <2>3. CASE UNCHANGED <<grid, pos>>
    BY <1>0, <2>1, <2>3
  <2>. QED BY <1>2, <2>2, <2>3 DEF Walks
<1>3. ASSUME NEW a \in Arrow, Flies(a) PROVE Goal
  <2>1. UNCHANGED <<players, monsters, grid>> /\ \A x \in Object \ {a} : pos'[x] = pos[x]
    BY <1>3 DEF Flies, containers
  <2>. QED BY <1>0, <2>1
<1>4. ASSUME NEW o \in Creature, Hurts(o) PROVE Goal
  <2>1. PICK by : OnDamaged(o, by)
    BY <1>4 DEF Hurts
  <2>2. /\ players' = players /\ monsters' = monsters
        /\ \A x \in Object \ {o} : pos'[x] = pos[x]
        /\ \/ grid'[c] = o /\ pos'[o] = c /\ c \notin Wall /\ o \in inRoom
           \/ (grid'[c] # o \/ pos'[o] = pos[o]) /\ grid'[c] = grid[c]
    BY <2>1, Damaged
  <2>3. o \in inRoom => o \in players \cup monsters
    BY <1>0 DEF RoomPointers, Members
  <2>. QED BY <1>0, <2>2, <2>3
<1>5. ASSUME NEW p \in Player, EnterPlayer(p) PROVE Goal
  <2>1. p \in Creature /\ ApplyMove(p, pos[p])
    BY <1>5 DEF EnterPlayer, Creature
  <2>2. /\ \A x \in Object \ {p} : pos'[x] = pos[x]
        /\ \/ grid'[c] = p /\ pos'[p] = c /\ c \notin Wall
           \/ grid'[c] # p /\ grid'[c] = grid[c]
    BY <2>1, Moved
  <2>3. players' = players \cup {p} /\ monsters' = monsters
    BY <1>5 DEF EnterPlayer
  <2>. QED BY <1>0, <2>2, <2>3
<1>6. ASSUME NEW p \in Player, LeavePlayer(p) PROVE Goal
  <2>1. p \in Creature
    BY DEF Creature
  <2>2. grid'[c] # p /\ grid'[c] = grid[c]
    BY <1>6, <2>1, LiftedGrid DEF LeavePlayer
  <2>3. players' = players \ {p} /\ monsters' = monsters /\ pos' = pos
    BY <1>6 DEF LeavePlayer
  <2>. QED BY <1>0, <2>2, <2>3
<1>7. ASSUME NEW p \in Player, NEW a \in Arrow, NEW d \in Direction, HandleSkillProjectile(p, a, d)
      PROVE  Goal
  <2>1. UNCHANGED <<players, monsters, grid>> /\ \A x \in Object \ {a} : pos'[x] = pos[x]
    BY <1>7 DEF HandleSkillProjectile
  <2>. QED BY <1>0, <2>1
<1>8. CASE LeaveProjectile
  <2>1. /\ UNCHANGED <<players, monsters, grid>> /\ Head(jobs) \in Arrow
        /\ \A x \in Object \ {Head(jobs)} : pos'[x] = pos[x]
    BY <1>8 DEF LeaveProjectile
  <2>. QED BY <1>0, <2>1
<1>. QED BY <1>1, <1>2, <1>3, <1>4, <1>5, <1>6, <1>7, <1>8, StepKinds DEF Comes

(* A move ends where CanGo says yes; the spawn is no wall. *)
LEMMA NextClear ==
  ASSUME TypeOK, RoomPointers, GridSound, Clear, [Next]_vars
  PROVE  Clear'
<1> USE Places DEF MapTypes
<1>0. Creature \subseteq Object /\ Arrow \subseteq Object /\ Player \subseteq Creature
  BY DEF Creature, Object
<1>1. CASE Still
  BY <1>1 DEF Still, Clear
<1>2. ASSUME NEW o \in Creature, Walks(o) PROVE Clear'
  BY <1>0, <1>2, Moved DEF Walks, Clear
<1>3. ASSUME NEW a \in Arrow, Flies(a) PROVE Clear'
  BY <1>0, <1>3 DEF Flies, CanGo, Clear
<1>4. ASSUME NEW o \in Creature, Hurts(o) PROVE Clear'
  <2>1. PICK by : OnDamaged(o, by)
    BY <1>4 DEF Hurts
  <2>2. /\ \A x \in Object \ {o} : pos'[x] = pos[x]
        /\ pos'[o] = pos[o] \/ pos'[o] = Spawn
    BY <2>1, Damaged
  <2>. QED BY <1>0, <2>2, SpawnIsFree DEF Clear
<1>5. ASSUME NEW p \in Player, EnterPlayer(p) PROVE Clear'
  <2>1. p \in Creature /\ ApplyMove(p, pos[p])
    BY <1>5 DEF EnterPlayer, Creature
  <2>2. /\ \A x \in Object \ {p} : pos'[x] = pos[x]
        /\ pos'[p] = pos[p] \/ pos'[p] \notin Wall
    BY <2>1, Moved
  <2>. QED BY <1>0, <2>2 DEF Clear
<1>6. ASSUME NEW p \in Player, LeavePlayer(p) PROVE Clear'
  BY <1>6 DEF LeavePlayer, Clear
<1>7. ASSUME NEW p \in Player, NEW a \in Arrow, NEW d \in Direction, HandleSkillProjectile(p, a, d)
      PROVE  Clear'
  BY <1>0, <1>7 DEF HandleSkillProjectile, Clear
<1>8. CASE LeaveProjectile
  BY <1>0, <1>8, SpawnIsFree DEF LeaveProjectile, Clear
<1>. QED BY <1>1, <1>2, <1>3, <1>4, <1>5, <1>6, <1>7, <1>8, StepKinds DEF Comes

(* Every change of a place is told to everybody, and no other. *)
LEMMA NextViewExact ==
  ASSUME TypeOK, RoomPointers, GridSound, Visitors, ViewExact, [Next]_vars
  PROVE  ViewExact'
<1> USE Places DEF MapTypes
<1> DEFINE At(o) == IF o \in Members THEN pos[o] ELSE NoCell
<1>0. /\ \A p \in players : \A o \in Object \ {p} : seen[p][o] = At(o)
      /\ Creature \subseteq Object /\ Arrow \subseteq Object /\ Player \subseteq Creature
      /\ \A o \in Object : pos[o] # NoCell
      /\ Player \cap Monster = {} /\ Player \cap Arrow = {} /\ Monster \cap Arrow = {}
  BY DisjointAssumption DEF ViewExact, Creature, Object
<1> SUFFICES ASSUME NEW p \in players', NEW o \in Object \ {p}
             PROVE  seen'[p][o] = At(o)'
  BY DEF ViewExact
<1> DEFINE Goal == seen'[p][o] = At(o)'
<1>1. CASE Still
  BY <1>0, <1>1 DEF Still, containers, Members
<1>2. ASSUME NEW x \in Creature, Walks(x) PROVE Goal
  <2>1. p \in players /\ Members' = Members /\ x \in Object
    BY <1>0, <1>2 DEF Walks, containers, Members
  <2>2. /\ \A y \in Object \ {x} : pos'[y] = pos[y]
        /\ pos'[x] \in Cell /\ (x \in Members \/ pos' = pos)
    <3>1. ASSUME NEW dest, x \in inRoom, ApplyMove(x, dest)
          PROVE  \A y \in Object \ {x} : pos'[y] = pos[y]
      BY <3>1, Moved
    <3>2. pos'[x] \in Cell
      BY <2>1, NextMapTypes
    <3>. QED BY <1>2, <3>1, <3>2 DEF Walks, RoomPointers
  <2>3. CASE UNCHANGED <<pos, seen>>
    BY <1>0, <2>1, <2>3
  <2>4. CASE TellMove(x, pos'[x])
    <3>1. CASE p = x
      <4>1. seen'[p] = seen[p]
        BY <1>0, <2>1, <2>2, <2>4, <3>1, MoveTold
      <4>. QED BY <1>0, <2>1, <2>2, <3>1, <4>1
    <3>2. CASE p # x
      <4>1. /\ seen'[p][x] = IF seen[p][x] # NoCell THEN pos'[x] ELSE NoCell
            /\ \A y \in Object \ {x} : seen'[p][y] = seen[p][y]
        BY <2>1, <2>2, <2>4, <3>2, MoveTold
      <4>2. CASE o = x
        BY <1>0, <2>1, <2>2, <4>1, <4>2
      <4>3. CASE o # x
        BY <1>0, <2>1, <2>2, <4>1, <4>3
      <4>. QED BY <4>2, <4>3
    <3>. QED BY <3>1, <3>2
  <2>. QED BY <1>2, <2>3, <2>4 DEF Walks
<1>3. ASSUME NEW a \in Arrow, Flies(a) PROVE Goal
  <2>1. PICK dest : CanGo(grid, dest) /\ pos' = [pos EXCEPT ![a] = dest] /\ TellMove(a, dest)
    BY <1>3 DEF Flies
  <2>2. p \in players /\ Members' = Members /\ a \in Object /\ p # a /\ dest \in Cell
    BY <1>0, <1>3, <2>1 DEF Flies, containers, Members, CanGo
  <2>3. /\ seen'[p][a] = IF seen[p][a] # NoCell THEN dest ELSE NoCell
        /\ \A y \in Object \ {a} : seen'[p][y] = seen[p][y]
    BY <2>1, <2>2, MoveTold
  <2>4. pos'[a] = dest /\ \A y \in Object \ {a} : pos'[y] = pos[y]
    BY <2>1, <2>2
  <2>. QED BY <1>0, <2>2, <2>3, <2>4
<1>4. ASSUME NEW x \in Creature, Hurts(x) PROVE Goal
  <2>1. PICK by : OnDamaged(x, by)
    BY <1>4 DEF Hurts
  <2>2. /\ players' = players /\ monsters' = monsters
        /\ \A y \in Object \ {x} : pos'[y] = pos[y]
        /\ UNCHANGED <<pos, seen>> \/ (TellEnter(x, Spawn) /\ pos'[x] = Spawn /\ x \in Members)
    <3>1. UNCHANGED <<pos, seen>> \/ x \in Members
      BY <2>1 DEF OnDamaged, NoDamage, Wound, RoomPointers
    <3>. QED BY <2>1, <3>1, Damaged
  <2>3. p \in players /\ Members' = Members /\ x \in Object
    BY <1>0, <1>4, <2>2 DEF Hurts, Members
  <2>4. CASE UNCHANGED <<pos, seen>>
    BY <1>0, <2>3, <2>4
  <2>5. CASE TellEnter(x, Spawn) /\ pos'[x] = Spawn /\ x \in Members
    <3>1. /\ p # x => /\ seen'[p][x] = Spawn
                      /\ \A y \in Object \ {x} : seen'[p][y] = seen[p][y]
          /\ p = x => \A y \in Object \ {x} :
                        seen'[x][y] = IF y \in Members THEN pos[y] ELSE NoCell
      BY <1>0, <2>3, <2>5, EnterTold, SpawnIsFree
    <3>. QED BY <1>0, <2>2, <2>3, <2>5, <3>1
  <2>. QED BY <2>2, <2>4, <2>5
<1>5. ASSUME NEW q \in Player, EnterPlayer(q) PROVE Goal
  <2>1. q \in Object /\ pos[q] \in Cell /\ q \notin Members /\ ApplyMove(q, pos[q])
    BY <1>0, <1>5 DEF EnterPlayer, Visitors, Members
  <2>2. /\ \A x \in Object \ {q} : pos'[x] = pos[x]
        /\ pos'[q] = pos[q]
    BY <1>0, <2>1, Moved
  <2>3. Members' = Members \cup {q} /\ players' = players \cup {q} /\ TellEnter(q, pos[q])
    BY <1>5 DEF EnterPlayer, Members
  <2>4. /\ p # q => /\ seen'[p][q] = pos[q]
                    /\ \A x \in Object \ {q} : seen'[p][x] = seen[p][x]
        /\ p = q => \A x \in Object \ {q} :
                      seen'[q][x] = IF x \in Members THEN pos[x] ELSE NoCell
    BY <1>0, <2>1, <2>3, EnterTold
  <2>. QED BY <1>0, <2>1, <2>2, <2>3, <2>4
<1>6. ASSUME NEW q \in Player, LeavePlayer(q) PROVE Goal
  <2>1. /\ Members' = Members \ {q} /\ players' = players \ {q} /\ pos' = pos
        /\ TellLeave(q) /\ q \in Object
    BY <1>0, <1>6 DEF LeavePlayer, Members
  <2>2. /\ seen'[p][q] = NoCell /\ \A x \in Object \ {q} : seen'[p][x] = seen[p][x]
    BY <2>1, LeaveTold
  <2>. QED BY <1>0, <2>1, <2>2
<1>7. ASSUME NEW q \in Player, NEW a \in Arrow, NEW d \in Direction, HandleSkillProjectile(q, a, d)
      PROVE  Goal
  <2>1. /\ Members' = Members \cup {a} /\ players' = players /\ TellEnter(a, pos[q])
        /\ pos' = [pos EXCEPT ![a] = pos[q]] /\ a \in Object /\ pos[q] \in Cell /\ p # a
    BY <1>0, <1>7 DEF HandleSkillProjectile, Members
  <2>2. seen'[p][a] = pos[q] /\ \A x \in Object \ {a} : seen'[p][x] = seen[p][x]
    BY <2>1, EnterTold
  <2>. QED BY <1>0, <2>1, <2>2
<1>8. CASE LeaveProjectile
  <2> DEFINE a == Head(jobs)
  <2>1. /\ Members' = Members \ {a} /\ players' = players /\ TellLeave(a)
        /\ \A x \in Object \ {a} : pos'[x] = pos[x]
        /\ a \in Object /\ p # a
    BY <1>0, <1>8 DEF LeaveProjectile, Members
  <2>2. seen'[p][a] = NoCell /\ \A x \in Object \ {a} : seen'[p][x] = seen[p][x]
    BY <2>1, LeaveTold
  <2>. QED BY <1>0, <2>1, <2>2
<1>. QED BY <1>1, <1>2, <1>3, <1>4, <1>5, <1>6, <1>7, <1>8, StepKinds DEF Comes

-----------------------------------------------------------------------------
(***************************************************************************)
(* What a step does to the room's jobs and to Update's loops: nothing,     *)
(* another phase, or the turn of one monster or arrow.                     *)
(***************************************************************************)
MonsterTurn(m) ==
  /\ Hits("monsters", m) /\ UNCHANGED jobs
  /\ modified' \subseteq modified \cup {"players"}

ArrowTurn(a) ==
  /\ Hits("projectiles", a)
  /\ jobs' = jobs \/ jobs' = Append(jobs, a)
  /\ modified' \subseteq modified \cup {"players", "monsters"}

LEMMA ControlKinds ==
  ASSUME TypeOK, RoomPointers, GridSound, [Next]_vars
  PROVE  \/ UNCHANGED <<control, modified>> /\ projectiles \subseteq projectiles'
         \/ TimerFires \/ Update \/ UpdateProjectiles \/ UpdateEnd \/ LeaveProjectile
         \/ \E m \in Monster : MonsterTurn(m)
         \/ \E a \in Arrow : ArrowTurn(a)
<1>1. CASE UNCHANGED vars
  BY <1>1 DEF vars, containers
<1>2. ASSUME NEW m \in Monster, MonsterUpdate(m) PROVE MonsterTurn(m)
  <2>1. CASE MonsterAttacks(m)
    <3>1. target[m] \in Player /\ target[m] \in Creature
      BY <2>1 DEF MonsterAttacks, TypeOK, Creature
    <3>2. modified' \subseteq modified \cup {"players"}
      BY <2>1, <3>1, Damaged DEF MonsterAttacks
    <3>. QED BY <2>1, <3>2 DEF MonsterAttacks, MonsterTurn
  <2>2. CASE MonsterMoves(m)
    BY <2>2 DEF MonsterMoves, Turn, MonsterTurn
  <2>3. CASE ~MonsterAttacks(m) /\ ~MonsterMoves(m)
    BY <1>2, <2>3 DEF MonsterUpdate, MonsterWaits, MonsterGivesUp, MonsterAims,
         MonsterStopsSkill, MonsterCools, UpdateIdle, ChangesOnly, Turn, MonsterTurn
  <2>. QED BY <2>1, <2>2, <2>3
<1>3. ASSUME NEW a \in Arrow, ArrowWaits(a) \/ ArrowActs(a) PROVE ArrowTurn(a)
  <2>1. CASE ArrowHits(a)
    <3> DEFINE struck == Find(Front(pos[a], dir[a]))
    <3>1. CASE struck = NoObject
      BY <2>1, <3>1 DEF ArrowHits, NoDamage, ArrowTurn
    <3>2. CASE struck # NoObject
      <4>1. struck \in Creature
        BY <3>2 DEF Find, TypeOK
      <4>2. OnDamaged(struck, a)
        BY <2>1, <3>2 DEF ArrowHits
      <4>3. modified' \subseteq modified \cup {"players", "monsters"}
        BY <4>1, <4>2, Damaged
      <4>. QED BY <2>1, <4>3 DEF ArrowHits, ArrowTurn
    <3>. QED BY <3>1, <3>2
  <2>. QED BY <1>3, <2>1 DEF ArrowWaits, ArrowActs, ArrowFlies, Turn, ArrowTurn
<1>4. ASSUME NEW p \in Player, SessionJob(p)
      PROVE  UNCHANGED <<control, modified>> /\ projectiles \subseteq projectiles'
  BY <1>4 DEF SessionJob, EnterPlayer, LeavePlayer, HandleSkillAuto, HandleMove,
       HandleSkillProjectile, containers
<1>. QED BY <1>1, <1>2, <1>3, <1>4 DEF Next, RoomJob

(* The jobs, the loops and the history of what they changed. *)
ControlTypes ==
  /\ jobs \in Seq(Arrow \cup {"Update"}) /\ updateDue \in BOOLEAN
  /\ loop \in {"none", "monsters", "projectiles"} /\ todo \subseteq Object
  /\ modified \subseteq {"players", "monsters", "projectiles"}

LEMMA NextControlTypes ==
  ASSUME TypeOK, RoomPointers, GridSound, [Next]_vars
  PROVE  ControlTypes'
<1>0. ControlTypes /\ monsters \subseteq Object /\ projectiles \subseteq Object
  BY DEF TypeOK, ControlTypes, Object
<1> USE DEF ControlTypes
<1>1. CASE UNCHANGED <<control, modified>>
  BY <1>0, <1>1 DEF control
<1>2. CASE TimerFires \/ Update \/ UpdateProjectiles \/ UpdateEnd
  <2>1. jobs' \in Seq(Arrow \cup {"Update"})
    BY <1>0, <1>2 DEF TimerFires, Update, UpdateProjectiles, UpdateEnd
  <2>2. CASE TimerFires
    BY <1>0, <2>1, <2>2 DEF TimerFires
  <2>3. CASE Update
    BY <1>0, <2>1, <2>3 DEF Update
  <2>4. CASE UpdateProjectiles \/ UpdateEnd
    BY <1>0, <2>1, <2>4 DEF UpdateProjectiles, UpdateEnd
  <2>. QED BY <1>2, <2>2, <2>3, <2>4
<1>3. CASE LeaveProjectile
  BY <1>0, <1>3 DEF LeaveProjectile
<1>4. ASSUME NEW m \in Monster, MonsterTurn(m) PROVE ControlTypes'
  BY <1>0, <1>4 DEF MonsterTurn, Hits
<1>5. ASSUME NEW a \in Arrow, ArrowTurn(a) PROVE ControlTypes'
  <2>1. jobs' \in Seq(Arrow \cup {"Update"})
    BY <1>0, <1>5 DEF ArrowTurn
  <2>. QED BY <1>0, <1>5, <2>1 DEF ArrowTurn, Hits
<1>. QED BY <1>1, <1>2, <1>3, <1>4, <1>5, ControlKinds

(* Hit points, states, targets and the rest that belongs to one object. *)
CreatureTypes ==
  /\ hp \in [Creature -> Nat] /\ \A o \in Creature : hp[o] \in 1..MaxHp[o]
  /\ state \in [Creature -> {"Idle", "Moving", "Skill"}]
  /\ dir \in [Arrow -> Direction]
  /\ target \in [Monster -> Player \cup {NoObject}]
  /\ cool \in [Monster -> BOOLEAN]

(* Everybody is alive after every step: the dead are back at once. *)
LEMMA NextCreatureTypes ==
  ASSUME TypeOK, RoomPointers, GridSound, [Next]_vars
  PROVE  CreatureTypes'
<1>0. CreatureTypes /\ Player \subseteq Creature /\ Monster \subseteq Creature
  BY DEF TypeOK, CreatureTypes, Creature
<1> USE DEF CreatureTypes
<1>1. CASE UNCHANGED vars
  BY <1>0, <1>1 DEF vars, creatures
<1>2. CASE TimerFires \/ Update \/ UpdateProjectiles \/ UpdateEnd
  BY <1>0, <1>2 DEF TimerFires, Update, UpdateProjectiles, UpdateEnd, creatures
<1>3. CASE LeaveProjectile
  <2>1. Down \in Direction
    BY DEF Down, Direction
  <2>. QED BY <1>0, <1>3, <2>1 DEF LeaveProjectile, creatures
<1>4. ASSUME NEW m \in Monster, MonsterUpdate(m) PROVE CreatureTypes'
  <2>1. CASE MonsterAttacks(m)
    <3>1. target[m] \in Creature
      BY <1>0, <2>1 DEF MonsterAttacks
    <3>2. OnDamaged(target[m], m) /\ cool' = [cool EXCEPT ![m] = TRUE] /\ dir' = dir
      BY <2>1 DEF MonsterAttacks
    <3>. QED BY <1>0, <3>1, <3>2, Damaged
  <2>2. CASE MonsterWaits(m) \/ MonsterMoves(m)
    BY <1>0, <2>2 DEF MonsterWaits, MonsterMoves, creatures
  <2>3. CASE MonsterAims(m) \/ MonsterCools(m)
    BY <1>0, <2>3 DEF MonsterAims, MonsterCools
  <2>4. CASE MonsterGivesUp(m) \/ MonsterStopsSkill(m)
    BY <1>0, <2>4 DEF MonsterGivesUp, MonsterStopsSkill, ChangesOnly
  <2>5. ASSUME NEW p \in Player, UpdateIdle(m, p) PROVE CreatureTypes'
    BY <1>0, <2>5 DEF UpdateIdle, ChangesOnly
  <2>. QED BY <1>4, <2>1, <2>2, <2>3, <2>4, <2>5 DEF MonsterUpdate
<1>5. ASSUME NEW a \in Arrow, ArrowWaits(a) \/ ArrowActs(a) PROVE CreatureTypes'
  <2>1. CASE ArrowHits(a)
    <3> DEFINE struck == Find(Front(pos[a], dir[a]))
    <3>1. CASE struck = NoObject
      BY <1>0, <2>1, <3>1 DEF ArrowHits, NoDamage
    <3>2. CASE struck # NoObject
      <4>1. struck \in Creature
        BY <3>2 DEF Find, TypeOK
      <4>2. OnDamaged(struck, a) /\ cool' = cool /\ dir' = dir
        BY <2>1, <3>2 DEF ArrowHits
      <4>. QED BY <1>0, <4>1, <4>2, Damaged
    <3>. QED BY <3>1, <3>2
  <2>. QED BY <1>0, <1>5, <2>1 DEF ArrowWaits, ArrowActs, ArrowFlies, creatures
<1>6. ASSUME NEW p \in Player, SessionJob(p) PROVE CreatureTypes'
  <2>1. CASE EnterPlayer(p) \/ LeavePlayer(p)
    BY <1>0, <2>1 DEF EnterPlayer, LeavePlayer, creatures
  <2>2. CASE HandleSkillAuto(p)
    BY <1>0, <2>2 DEF HandleSkillAuto
  <2>3. ASSUME NEW c \in Cell, NEW st \in MoveState, HandleMove(p, c, st) PROVE CreatureTypes'
    BY <1>0, <2>3, NumberAssumption DEF HandleMove
  <2>4. ASSUME NEW a \in Arrow, NEW d \in Direction, HandleSkillProjectile(p, a, d)
        PROVE  CreatureTypes'
    BY <1>0, <2>4 DEF HandleSkillProjectile
  <2>. QED BY <1>6, <2>1, <2>2, <2>3, <2>4 DEF SessionJob
<1>. QED BY <1>1, <1>2, <1>3, <1>4, <1>5, <1>6 DEF Next, RoomJob

LEMMA NextTypeOK == TypeOK /\ RoomPointers /\ GridSound /\ [Next]_vars => TypeOK'
BY NextMapTypes, NextCreatureTypes, NextControlTypes
   DEF TypeOK, MapTypes, CreatureTypes, ControlTypes, Grids, Views

(* Only OnDead modifies, and never the container of the loop it is in. *)
LEMMA NextIteratorsValid ==
  ASSUME TypeOK, RoomPointers, GridSound, IteratorsValid, [Next]_vars
  PROVE  IteratorsValid'
<1>0. ControlTypes
  BY DEF TypeOK, ControlTypes
<1> USE <1>0 DEF ControlTypes, IteratorsValid
<1>1. CASE UNCHANGED <<control, modified>>
  BY <1>1 DEF control
<1>2. CASE TimerFires \/ Update \/ UpdateProjectiles \/ UpdateEnd \/ LeaveProjectile
  BY <1>2 DEF TimerFires, Update, UpdateProjectiles, UpdateEnd, LeaveProjectile
<1>3. ASSUME NEW m \in Monster, MonsterTurn(m) PROVE IteratorsValid'
  BY <1>3 DEF MonsterTurn, Hits
<1>4. ASSUME NEW a \in Arrow, ArrowTurn(a) PROVE IteratorsValid'
  BY <1>4 DEF ArrowTurn, Hits
<1>. QED BY <1>1, <1>2, <1>3, <1>4, ControlKinds

-----------------------------------------------------------------------------
(* Taking a job out of the queue, and putting one in, position by position. *)
LEMMA Dequeued ==
  ASSUME TypeOK, jobs # <<>>, jobs' = Tail(jobs)
  PROVE  /\ Len(jobs) \in Nat \ {0} /\ Len(jobs') = Len(jobs) - 1 /\ Head(jobs) = jobs[1]
         /\ \A i \in 1..Len(jobs') : jobs'[i] = jobs[i + 1] /\ i + 1 \in 1..Len(jobs)
<1>1. jobs \in Seq(Arrow \cup {"Update"})
  BY DEF TypeOK
<1>. QED BY <1>1

LEMMA Enqueued ==
  ASSUME TypeOK, NEW j \in Arrow \cup {"Update"}, jobs' = Append(jobs, j)
  PROVE  /\ Len(jobs) \in Nat /\ Len(jobs') = Len(jobs) + 1 /\ jobs'[Len(jobs')] = j
         /\ \A i \in 1..Len(jobs) : jobs'[i] = jobs[i]
<1>1. jobs \in Seq(Arrow \cup {"Update"})
  BY DEF TypeOK
<1>. QED BY <1>1, AppendProperties

(* The timer is started at the end of Update, and only there. *)
LEMMA NextUpdateOnce ==
  ASSUME TypeOK, RoomPointers, GridSound, UpdateOnce, [Next]_vars
  PROVE  UpdateOnce'
<1> USE DisjointAssumption DEF UpdateOnce
<1>0. Len(jobs) \in Nat
  BY DEF TypeOK
<1>1. CASE UNCHANGED <<control, modified>>
  BY <1>1 DEF control
<1>2. CASE TimerFires
  <2>1. /\ Len(jobs') = Len(jobs) + 1 /\ jobs'[Len(jobs')] = "Update"
        /\ \A i \in 1..Len(jobs) : jobs'[i] = jobs[i]
    BY <1>2, Enqueued DEF TimerFires
  <2>2. loop' = "none" /\ ~updateDue' /\ \A i \in 1..Len(jobs) : jobs[i] # "Update"
    BY <1>2 DEF TimerFires
  <2>. QED BY <1>0, <2>1, <2>2
<1>3. CASE Update
  <2>1. /\ Len(jobs) \in Nat \ {0} /\ Len(jobs') = Len(jobs) - 1 /\ jobs[1] = "Update"
        /\ \A i \in 1..Len(jobs') : jobs'[i] = jobs[i + 1] /\ i + 1 \in 1..Len(jobs)
    BY <1>3, Dequeued DEF Update
  <2>2. Len(jobs) = 1
    BY <2>1
  <2>3. updateDue' = updateDue /\ ~updateDue
    <3>1. updateDue' = updateDue
      BY <1>3 DEF Update
    <3>2. 1 \in 1..Len(jobs)
      BY <2>1
    <3>3. ~updateDue
      BY <2>1, <3>2
    <3>. QED BY <3>1, <3>3
  <2>. QED BY <2>1, <2>2, <2>3
<1>4. CASE UpdateProjectiles \/ UpdateEnd
  BY <1>4 DEF UpdateProjectiles, UpdateEnd
<1>5. CASE LeaveProjectile
  <2>1. /\ Len(jobs) \in Nat \ {0} /\ Len(jobs') = Len(jobs) - 1
        /\ \A i \in 1..Len(jobs') : jobs'[i] = jobs[i + 1] /\ i + 1 \in 1..Len(jobs)
    BY <1>5, Dequeued DEF LeaveProjectile
  <2>2. UNCHANGED <<updateDue, loop>>
    BY <1>5 DEF LeaveProjectile
  <2>. QED BY <2>1, <2>2
<1>6. ASSUME NEW m \in Monster, MonsterTurn(m) PROVE UpdateOnce'
  BY <1>6 DEF MonsterTurn, Hits
<1>7. ASSUME NEW a \in Arrow, ArrowTurn(a) PROVE UpdateOnce'
  <2>1. UNCHANGED <<updateDue, loop>> /\ loop = "projectiles"
    BY <1>7 DEF ArrowTurn, Hits
  <2>2. CASE jobs' = jobs
    BY <2>1, <2>2
  <2>3. CASE jobs' = Append(jobs, a)
    <3>1. /\ Len(jobs') = Len(jobs) + 1 /\ jobs'[Len(jobs')] = a
          /\ \A i \in 1..Len(jobs) : jobs'[i] = jobs[i]
      BY <2>3, Enqueued
    <3>2. \A i \in 1..Len(jobs') : jobs'[i] # "Update"
      BY <1>0, <2>1, <3>1
    <3>. QED BY <2>1, <3>2
  <2>. QED BY <1>7, <2>2, <2>3 DEF ArrowTurn
<1>. QED BY <1>1, <1>2, <1>3, <1>4, <1>5, <1>6, <1>7, ControlKinds

(* Update waits behind the arrows of the one before it. *)
LEMMA NextArrowsLeft ==
  ASSUME TypeOK, RoomPointers, GridSound, UpdateOnce, ArrowsLeft, [Next]_vars
  PROVE  ArrowsLeft'
<1> USE DEF ArrowsLeft
<1>0. Len(jobs) \in Nat /\ jobs \in Seq(Arrow \cup {"Update"})
  BY DEF TypeOK
<1>1. CASE UNCHANGED <<control, modified>> /\ projectiles \subseteq projectiles'
  BY <1>1 DEF control
<1>2. CASE TimerFires
  BY <1>2 DEF TimerFires, UpdateOnce
<1>3. CASE Update
  <2>1. /\ Len(jobs) \in Nat \ {0} /\ Len(jobs') = Len(jobs) - 1 /\ jobs[1] = "Update"
    BY <1>3, Dequeued DEF Update
  <2>2. Len(jobs) = 1
    BY <2>1 DEF UpdateOnce
  <2>3. jobs' = <<>> /\ loop' = "monsters"
    BY <1>0, <1>3, <2>2 DEF Update
  <2>. QED BY <2>3
<1>4. CASE UpdateProjectiles
  BY <1>0, <1>4 DEF UpdateProjectiles, containers
<1>5. CASE UpdateEnd \/ LeaveProjectile
  BY <1>5 DEF UpdateEnd, LeaveProjectile, Free
<1>6. ASSUME NEW m \in Monster, MonsterTurn(m) PROVE ArrowsLeft'
  BY <1>6 DEF MonsterTurn, Hits
<1>7. ASSUME NEW a \in Arrow, ArrowTurn(a) PROVE ArrowsLeft'
  <2>1. UNCHANGED <<projectiles, loop>> /\ loop = "projectiles" /\ todo' = todo \ {a}
    BY <1>7 DEF ArrowTurn, Hits
  <2>2. CASE jobs' = jobs
    BY <2>1, <2>2
  <2>3. CASE jobs' = Append(jobs, a)
    <3>1. /\ Len(jobs') = Len(jobs) + 1 /\ jobs'[Len(jobs')] = a
          /\ \A i \in 1..Len(jobs) : jobs'[i] = jobs[i]
      BY <2>3, Enqueued
    <3>. QED BY <1>0, <2>1, <3>1
  <2>. QED BY <1>7, <2>2, <2>3 DEF ArrowTurn
<1>. QED BY <1>1, <1>2, <1>3, <1>4, <1>5, <1>6, <1>7, ControlKinds

(* An arrow posts its leaving in its last turn. *)
LEMMA NextLeaveFindsArrow ==
  ASSUME TypeOK, RoomPointers, GridSound, ArrowsLeft, LeaveFindsArrow, [Next]_vars
  PROVE  LeaveFindsArrow'
<1> USE DisjointAssumption DEF LeaveFindsArrow
<1>0. Len(jobs) \in Nat
  BY DEF TypeOK
<1>1. CASE UNCHANGED <<control, modified>> /\ projectiles \subseteq projectiles'
  BY <1>1 DEF control
<1>2. CASE TimerFires
  <2>1. /\ Len(jobs') = Len(jobs) + 1 /\ jobs'[Len(jobs')] = "Update"
        /\ \A i \in 1..Len(jobs) : jobs'[i] = jobs[i]
    BY <1>2, Enqueued DEF TimerFires
  <2>2. projectiles' = projectiles
    BY <1>2 DEF TimerFires, containers
  <2>. QED BY <1>0, <2>1, <2>2
<1>3. CASE Update
  <2>1. /\ Len(jobs) \in Nat \ {0} /\ Len(jobs') = Len(jobs) - 1
        /\ \A i \in 1..Len(jobs') : jobs'[i] = jobs[i + 1] /\ i + 1 \in 1..Len(jobs)
    BY <1>3, Dequeued DEF Update
  <2>2. projectiles' = projectiles
    BY <1>3 DEF Update, containers
  <2>. QED BY <2>1, <2>2
<1>4. CASE UpdateProjectiles \/ UpdateEnd
  BY <1>4 DEF UpdateProjectiles, UpdateEnd, containers
<1>5. CASE LeaveProjectile
  <2>1. /\ Len(jobs) \in Nat \ {0} /\ Len(jobs') = Len(jobs) - 1 /\ Head(jobs) = jobs[1]
        /\ \A i \in 1..Len(jobs') : jobs'[i] = jobs[i + 1] /\ i + 1 \in 1..Len(jobs)
    BY <1>5, Dequeued DEF LeaveProjectile
  <2>2. projectiles' = projectiles \ {jobs[1]} /\ jobs[1] \in Arrow
    BY <1>5, <2>1 DEF LeaveProjectile
  <2>3. ASSUME NEW i \in 1..Len(jobs'), jobs'[i] \in Arrow
        PROVE  jobs'[i] \in projectiles' /\ \A k \in 1..Len(jobs') : jobs'[k] = jobs'[i] => k = i
    BY <2>1, <2>2, <2>3
  <2>. QED BY <2>3
<1>6. ASSUME NEW m \in Monster, MonsterTurn(m) PROVE LeaveFindsArrow'
  BY <1>6 DEF MonsterTurn, Hits
<1>7. ASSUME NEW a \in Arrow, ArrowTurn(a) PROVE LeaveFindsArrow'
  <2>1. /\ UNCHANGED projectiles /\ a \in projectiles
        /\ \A i \in 1..Len(jobs) : jobs[i] # a
    BY <1>7 DEF ArrowTurn, Hits, ArrowsLeft
  <2>2. CASE jobs' = jobs
    BY <2>1, <2>2
  <2>3. CASE jobs' = Append(jobs, a)
    <3>1. /\ Len(jobs') = Len(jobs) + 1 /\ jobs'[Len(jobs')] = a
          /\ \A i \in 1..Len(jobs) : jobs'[i] = jobs[i]
      BY <2>3, Enqueued
    <3>. QED BY <1>0, <2>1, <3>1
  <2>. QED BY <1>7, <2>2, <2>3 DEF ArrowTurn
<1>. QED BY <1>1, <1>2, <1>3, <1>4, <1>5, <1>6, <1>7, ControlKinds

-----------------------------------------------------------------------------
(* Initially the monsters stand where Room::Init puts them. *)
LEMMA InitInv == Init => IInv
<1> SUFFICES ASSUME Init PROVE IInv
  OBVIOUS
<1> USE DEF Init
<1>1. Creature \subseteq Object /\ Monster \subseteq Creature
  BY DEF Creature, Object
<1>2. TypeOK
  <2>1. ASSUME NEW c \in Cell PROVE grid[c] \in Monster \cup {NoObject}
    BY <2>1
  <2>2. grid \in [Cell -> Creature \cup {NoObject}]
    BY <1>1, <2>1
  <2>3. pos \in [Object -> Cell]
    BY SpawnIsFree, MapAssumption
  <2>4. hp \in [Creature -> Nat] /\ \A o \in Creature : hp[o] \in 1..MaxHp[o]
    BY NumberAssumption
  <2>5. dir \in [Arrow -> Direction]
    BY DEF Down, Direction
  <2>6. monsters = Monster /\ inRoom \subseteq Object
    BY <1>1
  <2>. QED BY <2>2, <2>3, <2>4, <2>5, <2>6 DEF TypeOK
<1>3. GridSound
  <2>1. ASSUME NEW c \in Cell, grid[c] # NoObject
        PROVE  grid[c] \in Monster /\ Home[grid[c]] = c
    BY <2>1
  <2>. QED BY <1>1, <2>1, MapAssumption DEF GridSound
<1>4. Clear
  BY SpawnIsFree, MapAssumption DEF Clear
<1>5. RoomPointers /\ Visitors /\ IteratorsValid /\ UpdateOnce /\ ArrowsLeft /\ LeaveFindsArrow
      /\ ViewExact
  BY DEF RoomPointers, Members, Visitors, IteratorsValid, UpdateOnce, ArrowsLeft,
         LeaveFindsArrow, ViewExact
<1>. QED BY <1>2, <1>3, <1>4, <1>5 DEF IInv

LEMMA NextInv == IInv /\ [Next]_vars => IInv'
BY NextTypeOK, NextRoomPointers, NextVisitors, NextGridSound, NextClear, NextIteratorsValid,
   NextUpdateOnce, NextArrowsLeft, NextLeaveFindsArrow, NextViewExact DEF IInv

LEMMA Invariance == Spec => []IInv
BY InitInv, NextInv, PTL DEF Spec

-----------------------------------------------------------------------------
(* The variables keep their types, so that everybody in the room is alive. *)
THEOREM TypeCorrect == Spec => []TypeOK
<1>1. IInv => TypeOK
  BY DEF IInv
<1>. QED BY <1>1, Invariance, PTL

(* _room and the room's containers agree, whoever enters, leaves or dies. *)
THEOREM PointersRight == Spec => []RoomPointers
<1>1. IInv => RoomPointers
  BY DEF IInv
<1>. QED BY <1>1, Invariance, PTL

(* Whatever order the moves, deaths and leavings come in, the grid shows   *)
(* nobody who is not there, and nobody twice.                              *)
THEOREM GridCorrect == Spec => []GridSound
<1>1. IInv => GridSound
  BY DEF IInv
<1>. QED BY <1>1, Invariance, PTL

(* The range-for loops of Update are safe, although a hit may take its     *)
(* victim out of the room and put it in again.                             *)
THEOREM LoopsUndisturbed == Spec => []IteratorsValid
<1>1. IInv => IteratorsValid
  BY DEF IInv
<1>. QED BY <1>1, Invariance, PTL

(* No arrow leaves twice. *)
THEOREM ArrowsLeaveOnce == Spec => []LeaveFindsArrow
<1>1. IInv => LeaveFindsArrow
  BY DEF IInv
<1>. QED BY <1>1, Invariance, PTL

(* Every player's picture of the room is right after every job. *)
THEOREM ViewsAgree == Spec => []ViewExact
<1>1. IInv => ViewExact
  BY DEF IInv
<1>. QED BY <1>1, Invariance, PTL

(* Nothing that goes on in the room brings back a player who has left. *)
THEOREM LeftForGood == Spec => []GoneStaysGone
<1>1. ASSUME IInv PROVE GoneStaysGone
  <2>1. ASSUME NEW p \in gone
        PROVE  p \notin Members \cup inRoom /\ \A c \in Cell : grid[c] # p
    <3>1. p \notin players /\ p \in Player /\ p # NoObject
      BY <1>1, DisjointAssumption DEF IInv, Visitors, TypeOK, Object
    <3>2. p \notin Members
      BY <1>1, <3>1, DisjointAssumption DEF IInv, TypeOK, Members
    <3>. QED BY <1>1, <3>1, <3>2 DEF IInv, RoomPointers, GridSound, Members
  <2>. QED BY <2>1 DEF GoneStaysGone
<1>. QED BY <1>1, Invariance, PTL

-----------------------------------------------------------------------------
(* Arithmetic of natural numbers and of the map *)

(* Induction on numbers, from a least one, since < is well-founded. *)
LEMMA LessThan == \E R : IsWellFoundedOn(R, Nat) /\ \A x, y \in Nat : <<y, x>> \in R <=> y < x
<1>1. \A x, y \in Nat : <<y, x>> \in OpToRel(<, Nat) <=> y < x
  BY DEF OpToRel
<1>2. QED
  BY <1>1, NatLessThanWellFounded, Zenon

LEMMA LeastNumber ==
  ASSUME NEW T \in SUBSET Nat, T # {}
  PROVE  \E x \in T : \A y \in T : x <= y
<1>1. PICK R : IsWellFoundedOn(R, Nat) /\ \A x, y \in Nat : <<y, x>> \in R <=> y < x
  BY LessThan
<1>2. PICK x \in T : \A y \in T : <<y, x>> \notin R
  BY <1>1, WFMin
<1>3. \A y \in T : ~(y < x)
  BY <1>1, <1>2
<1>. QED BY <1>3

LEMMA SetInduction ==
  ASSUME NEW S, 0 \in S, \A n \in Nat : n \in S => n + 1 \in S
  PROVE  \A n \in Nat : n \in S
<1> SUFFICES ASSUME Nat \ S # {} PROVE FALSE
  OBVIOUS
<1>1. PICK x \in Nat \ S : \A y \in Nat \ S : x <= y
  BY LeastNumber
<1>2. x # 0 /\ x - 1 \in Nat
  OBVIOUS
<1>3. x - 1 \in S
  BY <1>1, <1>2
<1>. QED BY <1>2, <1>3

-----------------------------------------------------------------------------
(* FindPath's rounds *)

(* The states of the search after a round from those before it. *)
Round(ss, walls, to) ==
  UNION {IF Done(s, to) THEN {s} ELSE {Visit(s, walls, node, to) : node \in Tops(s)} : s \in ss}

IsRounds(f, n, walls, from, to) ==
  f = [k \in 0..n |-> IF k = 0 THEN {SearchStart(from, to)} ELSE Round(f[k - 1], walls, to)]

LEMMA CellCountNat == CellCount \in Nat \ {0}
<1>1. \A a, b \in Nat : (a + 1) * (b + 1) \in Nat \ {0}
  <2> SUFFICES ASSUME NEW a \in Nat, NEW b \in Nat PROVE (a + 1) * (b + 1) \in Nat \ {0}
    OBVIOUS
  <2>1. (a + 1) * (b + 1) = a * b + a + b + 1
    OBVIOUS
  <2>2. a * b \in Nat
    OBVIOUS
  <2>. QED BY <2>1, <2>2
<1>. QED BY <1>1, MapAssumption DEF CellCount

(* The rounds can be counted off, and Searches is what the last one leaves. *)
LEMMA RoundsExist ==
  ASSUME NEW walls, NEW from, NEW to
  PROVE  \A n \in Nat : \E f : IsRounds(f, n, walls, from, to)
<1> DEFINE S == {n \in Nat : \E f : IsRounds(f, n, walls, from, to)}
<1>1. 0 \in S
  <2>1. IsRounds([k \in 0..0 |-> {SearchStart(from, to)}], 0, walls, from, to)
    BY DEF IsRounds
  <2>. QED BY <2>1
<1>2. ASSUME NEW n \in Nat, n \in S PROVE n + 1 \in S
  <2>1. PICK f : IsRounds(f, n, walls, from, to)
    BY <1>2
  <2> DEFINE g == [k \in 0..n + 1 |-> IF k = n + 1 THEN Round(f[n], walls, to) ELSE f[k]]
  <2>2. ASSUME NEW k \in 0..n + 1
        PROVE  g[k] = IF k = 0 THEN {SearchStart(from, to)} ELSE Round(g[k - 1], walls, to)
    <3>1. CASE k = n + 1
      <4>1. k # 0 /\ n \in 0..n + 1 /\ n # n + 1 /\ k - 1 = n
        BY <3>1
      <4>2. g[n] = f[n] /\ g[k] = Round(f[n], walls, to)
        BY <3>1, <4>1
      <4>. QED BY <4>1, <4>2
    <3>2. CASE k \in 0..n
      <4>1. g[k] = f[k] /\ (k # 0 => g[k - 1] = f[k - 1])
        BY <3>2
      <4>2. f[k] = IF k = 0 THEN {SearchStart(from, to)} ELSE Round(f[k - 1], walls, to)
        BY <2>1, <3>2 DEF IsRounds
      <4>. QED BY <4>1, <4>2
    <3>. QED BY <3>1, <3>2
  <2>3. IsRounds(g, n + 1, walls, from, to)
    BY <2>2 DEF IsRounds
  <2> HIDE DEF g
  <2>4. \E h : IsRounds(h, n + 1, walls, from, to)
    BY <2>3
  <2>. QED BY <2>4
<1>. HIDE DEF S
<1>3. \A n \in Nat : n \in S
  BY <1>1, <1>2, SetInduction
<1>. QED BY <1>3 DEF S

LEMMA Rounds ==
  ASSUME NEW walls, NEW from, NEW to
  PROVE  \E f : IsRounds(f, CellCount, walls, from, to) /\ Searches(walls, from, to) = f[CellCount]
<1> DEFINE F == CHOOSE f : IsRounds(f, CellCount, walls, from, to)
<1>1. Searches(walls, from, to) = F[CellCount]
  BY DEF Searches, IsRounds, Round
<1>2. IsRounds(F, CellCount, walls, from, to)
  BY RoundsExist, CellCountNat, Zenon
<1>. HIDE DEF F
<1>. QED BY <1>1, <1>2


(* The cells that a visit puts into pq. *)
Opened(s, walls, node, to) == IF node = to THEN {} ELSE Found(s, walls, node, to)

LEMMA VisitDoes ==
  ASSUME NEW s, NEW walls, NEW node, NEW to
  PROVE  /\ Visit(s, walls, node, to).closed = s.closed \cup {node}
         /\ Visit(s, walls, node, to).pq = (s.pq \ {node}) \cup Opened(s, walls, node, to)
         /\ Visit(s, walls, node, to).parent =
              [c \in Cell |-> IF c \in Opened(s, walls, node, to) THEN node ELSE s.parent[c]]
         /\ Visit(s, walls, node, to).open =
              [c \in Cell |-> IF c \in Opened(s, walls, node, to) THEN Cost(c, to) ELSE s.open[c]]
BY DEF Visit, Opened

LEMMA CellParts ==
  ASSUME NEW c \in Cell
  PROVE  /\ c = <<c[1], c[2]>> /\ c[1] \in 0..MaxX /\ c[2] \in 0..MaxY
         /\ c[1] \in Int /\ c[2] \in Int
BY MapAssumption DEF Cell

LEMMA OriginCell == Origin \in Cell
BY MapAssumption DEF Origin, Cell

(* Distances are natural numbers, and symmetric. *)
LEMMA DistFacts ==
  ASSUME NEW c \in Cell, NEW d \in Cell
  PROVE  /\ CellDist(c, d) \in Nat
         /\ CellDist(c, d) = CellDist(d, c)
         /\ CellDist(c, d) = 0 <=> c = d
<1>1. c = <<c[1], c[2]>> /\ d = <<d[1], d[2]>> /\ c[1] \in Int /\ c[2] \in Int /\ d[1] \in Int /\ d[2] \in Int
  BY CellParts
<1>2. \A x, y \in Int : Abs(x - y) \in Nat /\ Abs(x - y) = Abs(y - x) /\ (Abs(x - y) = 0 <=> x = y)
  BY DEF Abs
<1>3. CellDist(c, d) \in Nat /\ CellDist(c, d) = CellDist(d, c)
  BY <1>1, <1>2 DEF CellDist
<1>4. CellDist(c, d) = 0 <=> c[1] = d[1] /\ c[2] = d[2]
  BY <1>1, <1>2 DEF CellDist
<1>. QED BY <1>1, <1>3, <1>4

LEMMA NeighbourFacts ==
  ASSUME NEW c \in Cell, NEW d \in Neighbours(c)
  PROVE  d \in Cell /\ d # c /\ CellDist(d, c) = 1 /\ CellDist(c, d) = 1 /\ c \in Neighbours(d)
<1>1. d \in Cell /\ CellDist(d, c) = 1
  BY DEF Neighbours
<1>2. CellDist(c, d) = 1 /\ d # c
  BY <1>1, DistFacts
<1>. QED BY <1>1, <1>2 DEF Neighbours

(* A square of a number that is as far from 0 at most. *)
LEMMA Squares ==
  ASSUME NEW m \in Nat, NEW x \in Int, x <= m, -x <= m
  PROVE  x * x \in Nat /\ x * x <= m * m
<1>1. \A a, b \in Nat : a <= b => a * a \in Nat /\ a * a <= b * b
  <2> SUFFICES ASSUME NEW a \in Nat, NEW b \in Nat, a <= b PROVE a * a \in Nat /\ a * a <= b * b
    OBVIOUS
  <2>1. PICK n \in Nat : b = a + n
    <3>1. b - a \in Nat /\ b = a + (b - a)
      OBVIOUS
    <3>. QED BY <3>1
  <2>2. b * b = a * a + 2 * (a * n) + n * n
    BY <2>1
  <2>3. a * a \in Nat /\ a * n \in Nat /\ n * n \in Nat
    OBVIOUS
  <2>. QED BY <2>2, <2>3
<1>2. CASE x \in Nat
  BY <1>1, <1>2
<1>3. CASE x \notin Nat
  <2>1. -x \in Nat
    BY <1>3
  <2>2. (-x) * (-x) = x * x
    OBVIOUS
  <2>3. (-x) * (-x) \in Nat /\ (-x) * (-x) <= m * m
    BY <1>1, <2>1
  <2>. QED BY <2>2, <2>3
<1>. QED BY <1>2, <1>3

(* No cell costs more than one that was not found. *)
LEMMA CostBound ==
  ASSUME NEW c \in Cell, NEW to \in Cell
  PROVE  Cost(c, to) \in Nat /\ Cost(c, to) <= NoCost
<1> DEFINE x == to[1] - c[1]
           y == to[2] - c[2]
<1>1. x \in Int /\ x <= MaxX /\ -x <= MaxX /\ y \in Int /\ y <= MaxY /\ -y <= MaxY
  BY CellParts, MapAssumption
<1>2. x * x \in Nat /\ x * x <= MaxX * MaxX /\ y * y \in Nat /\ y * y <= MaxY * MaxY
  <2> HIDE DEF x, y
  <2>. QED BY <1>1, MapAssumption, Squares
<1>3. MaxX * MaxX + MaxY * MaxY <= CellCount * CellCount
  <2>1. \A a, b \in Nat : a * b \in Nat
    OBVIOUS
  <2>2. CellCount = MaxX * MaxY + MaxX + MaxY + 1
    BY MapAssumption DEF CellCount
  <2>3. MaxX * MaxY \in Nat
    BY <2>1, MapAssumption
  <2>4. MaxX + MaxY \in Nat /\ MaxX + MaxY <= CellCount /\ -(MaxX + MaxY) <= CellCount
    BY <2>2, <2>3, MapAssumption
  <2>5. (MaxX + MaxY) * (MaxX + MaxY) <= CellCount * CellCount
    BY <2>4, CellCountNat, Squares
  <2>6. (MaxX + MaxY) * (MaxX + MaxY) = MaxX * MaxX + MaxY * MaxY + 2 * (MaxX * MaxY)
    BY MapAssumption
  <2>7. CellCount * CellCount \in Nat /\ MaxX * MaxX \in Nat /\ MaxY * MaxY \in Nat
    BY <2>1, MapAssumption, CellCountNat
  <2>8. (MaxX + MaxY) * (MaxX + MaxY) \in Nat
    BY <2>1, <2>4
  <2> DEFINE P == (MaxX + MaxY) * (MaxX + MaxY)
             Q == MaxX * MaxX + MaxY * MaxY
             R == CellCount * CellCount
             T == MaxX * MaxY
  <2>9. P = Q + 2 * T /\ P <= R /\ T \in Nat /\ Q \in Nat /\ R \in Nat
    BY <2>3, <2>5, <2>6, <2>7
  <2> HIDE DEF P, Q, R, T
  <2>10. Q <= R
    BY <2>9
  <2>. QED BY <2>10 DEF Q, R
<1>4. Cost(c, to) = 10 * (x * x + y * y) /\ NoCost = 10 * (CellCount * CellCount)
  <2>1. \A a \in Nat : 10 * a * a = 10 * (a * a)
    OBVIOUS
  <2>. QED BY <2>1, CellCountNat DEF Cost, NoCost
<1> DEFINE M == MaxX * MaxX
           N == MaxY * MaxY
           X == x * x
           Y == y * y
           K == CellCount * CellCount
<1>5. X \in Nat /\ Y \in Nat /\ X <= M /\ Y <= N /\ M + N <= K /\ M \in Int /\ N \in Int /\ K \in Int
  BY <1>2, <1>3, MapAssumption, CellCountNat
<1>6. Cost(c, to) = 10 * (X + Y) /\ NoCost = 10 * K
  BY <1>4
<1> HIDE DEF M, N, X, Y, K
<1>. QED BY <1>5, <1>6

-----------------------------------------------------------------------------
(* The search after its first round: what the locals are, *)
Searching(s, from, to) ==
  /\ s.closed \subseteq Cell /\ s.pq \subseteq Cell /\ s.pq \cap s.closed = {}
  /\ s.open \in [Cell -> Nat] /\ s.parent \in [Cell -> Cell]
  /\ from \in s.closed /\ s.parent[from] = from
  /\ \A c \in Cell \ {from} : s.open[c] = NoCost \/ s.open[c] = Cost(c, to)

(* what lies around the cells visited, and who found it; a cell that was   *)
(* not found has the parent that Pos() makes.                              *)
Frontier(s, walls, to) ==
  /\ \A c \in s.closed \ {to} : Neighbours(c) \ walls \subseteq s.closed \cup s.pq
  /\ \A d \in s.pq :
       d \notin walls /\ s.parent[d] \in s.closed \ {to} /\ d \in Neighbours(s.parent[d])
  /\ \A c \in Cell \ (s.closed \cup s.pq) : s.parent[c] = Origin

(* A way of n cells from the start to c, along the parents. *)
IsWay(p, n, s, walls, from, c) ==
  /\ p \in [1..n -> s.closed \ walls] /\ p[1] = from /\ p[n] = c
  /\ \A i \in 1..n - 1 : s.parent[p[i + 1]] = p[i] /\ CellDist(p[i], p[i + 1]) = 1
  /\ \A i, j \in 1..n : p[i] = p[j] => i = j

(* Every cell visited has one. *)
Ways(s, walls, from) ==
  \A c \in s.closed : \E n \in Nat \ {0} : \E p : IsWay(p, n, s, walls, from, c)

(* As many cells were visited as there were rounds. *)
Counted(s, to, k) == Done(s, to) \/ Cardinality(s.closed) = k

(* Without walls the search goes straight: the cell visited last is the    *)
(* cheapest, its neighbours are the only cells of pq that may cost less,   *)
(* and every cell visited is nearer than its parent.                       *)
LastVisited(n, s, to) ==
  /\ n # to => \A d \in Neighbours(n) : d \in s.closed \/ (d \in s.pq /\ s.parent[d] = n)
  /\ \A d \in s.pq : Cost(n, to) <= Cost(d, to) \/ s.parent[d] = n
  /\ \A c \in s.closed : Cost(n, to) <= Cost(c, to)

Straight(s, from, to) ==
  /\ \E n \in s.closed : LastVisited(n, s, to)
  /\ \A c \in s.closed \ {from} : CellDist(c, to) + 1 = CellDist(s.parent[c], to)
  /\ \A d \in s.pq : s.open[d] = Cost(d, to)

SearchInv(s, walls, from, to, k) ==
  /\ Searching(s, from, to) /\ Frontier(s, walls, to) /\ Ways(s, walls, from)
  /\ Counted(s, to, k)
  /\ walls = {} => Straight(s, from, to)

(* A visit opens the neighbours that are free and were not visited. *)
LEMMA OpenedCells ==
  ASSUME NEW walls, NEW from \in Cell \ walls, NEW to \in Cell \ walls,
         NEW s, Searching(s, from, to), NEW node \in Cell, node # to
  PROVE  Opened(s, walls, node, to) = (Neighbours(node) \ walls) \ s.closed
<1>1. ASSUME NEW c \in Neighbours(node), c \notin s.closed PROVE ~ s.open[c] < Cost(c, to)
  <2>1. c \in Cell \ {from}
    BY <1>1 DEF Searching, Neighbours
  <2>2. s.open[c] = NoCost \/ s.open[c] = Cost(c, to)
    BY <2>1 DEF Searching
  <2>3. Cost(c, to) \in Nat /\ Cost(c, to) <= NoCost /\ NoCost \in Int
    <3>1. NoCost \in Int
      BY CellCountNat DEF NoCost
    <3>. QED BY <2>1, <3>1, CostBound
  <2>. QED BY <2>2, <2>3
<1>2. \A c : CanVisit(walls, c, to) <=> c \notin walls
  BY DEF CanVisit
<1>. QED BY <1>1, <1>2 DEF Opened, Found

(* A visit of a cell of pq keeps what the locals are, *)
LEMMA VisitSearching ==
  ASSUME NEW walls, NEW from \in Cell \ walls, NEW to \in Cell \ walls,
         NEW s, Searching(s, from, to), NEW node \in s.pq
  PROVE  Searching(Visit(s, walls, node, to), from, to)
<1> DEFINE t == Visit(s, walls, node, to)
           found == Opened(s, walls, node, to)
<1>0. /\ t.closed = s.closed \cup {node} /\ t.pq = (s.pq \ {node}) \cup found
      /\ t.parent = [c \in Cell |-> IF c \in found THEN node ELSE s.parent[c]]
      /\ t.open = [c \in Cell |-> IF c \in found THEN Cost(c, to) ELSE s.open[c]]
  BY VisitDoes
<1>1. /\ s.closed \subseteq Cell /\ s.pq \subseteq Cell /\ s.pq \cap s.closed = {}
      /\ s.open \in [Cell -> Nat] /\ s.parent \in [Cell -> Cell]
      /\ from \in s.closed /\ s.parent[from] = from
      /\ \A c \in Cell \ {from} : s.open[c] = NoCost \/ s.open[c] = Cost(c, to)
      /\ node \in Cell /\ node \notin s.closed
  BY DEF Searching
<1>2. found \subseteq Cell /\ found \cap (s.closed \cup {node}) = {}
  <2>1. CASE node = to
    BY <2>1 DEF Opened
  <2>2. CASE node # to
    <3>1. found = (Neighbours(node) \ walls) \ s.closed
      BY <1>1, <2>2, OpenedCells
    <3>2. \A c \in Neighbours(node) : c \in Cell /\ c # node
      BY <1>1, NeighbourFacts
    <3>. QED BY <3>1, <3>2
  <2>. QED BY <2>1, <2>2
<1>. HIDE DEF t, found
<1>3. t.closed \subseteq Cell /\ t.pq \subseteq Cell /\ t.pq \cap t.closed = {}
  BY <1>0, <1>1, <1>2
<1>4. t.open \in [Cell -> Nat]
  <2>1. \A c \in Cell : Cost(c, to) \in Nat
    BY CostBound
  <2>. QED BY <1>0, <1>1, <2>1
<1>5. t.parent \in [Cell -> Cell]
  BY <1>0, <1>1
<1>6. from \in t.closed /\ t.parent[from] = from
  BY <1>0, <1>1, <1>2
<1>7. \A c \in Cell \ {from} : t.open[c] = NoCost \/ t.open[c] = Cost(c, to)
  BY <1>0, <1>1
<1>. QED BY <1>3, <1>4, <1>5, <1>6, <1>7 DEF Searching, t

(* of the frontier, *)
LEMMA VisitFrontier ==
  ASSUME NEW walls, NEW from \in Cell \ walls, NEW to \in Cell \ walls,
         NEW s, Searching(s, from, to), Frontier(s, walls, to), to \notin s.closed, NEW node \in s.pq
  PROVE  Frontier(Visit(s, walls, node, to), walls, to)
<1> DEFINE t == Visit(s, walls, node, to)
           found == Opened(s, walls, node, to)
<1>0. /\ t.closed = s.closed \cup {node} /\ t.pq = (s.pq \ {node}) \cup found
      /\ t.parent = [c \in Cell |-> IF c \in found THEN node ELSE s.parent[c]]
      /\ t.open = [c \in Cell |-> IF c \in found THEN Cost(c, to) ELSE s.open[c]]
  BY VisitDoes
<1>1. /\ s.closed \subseteq Cell /\ s.pq \subseteq Cell /\ s.pq \cap s.closed = {}
      /\ node \in Cell /\ node \notin s.closed
  BY DEF Searching
<1>2. /\ node = to => found = {}
      /\ node # to => found = (Neighbours(node) \ walls) \ s.closed
  BY <1>1, OpenedCells DEF Opened
<1>3. \A c \in Cell : Neighbours(c) \subseteq Cell
  BY DEF Neighbours
<1>. HIDE DEF t, found
<1>4. \A c \in t.closed \ {to} : Neighbours(c) \ walls \subseteq t.closed \cup t.pq
  <2>1. ASSUME NEW c \in t.closed \ {to} PROVE Neighbours(c) \ walls \subseteq t.closed \cup t.pq
    <3>1. CASE c = node
      BY <1>0, <1>2, <2>1, <3>1
    <3>2. CASE c \in s.closed
      <4>1. Neighbours(c) \ walls \subseteq s.closed \cup s.pq
        BY <2>1, <3>2 DEF Frontier
      <4>. QED BY <1>0, <4>1
    <3>. QED BY <1>0, <2>1, <3>1, <3>2
  <2>. QED BY <2>1
<1>5. \A d \in t.pq :
        d \notin walls /\ t.parent[d] \in t.closed \ {to} /\ d \in Neighbours(t.parent[d])
  <2>1. ASSUME NEW d \in found
        PROVE  d \notin walls /\ t.parent[d] \in t.closed \ {to} /\ d \in Neighbours(t.parent[d])
    <3>1. node # to /\ d \in Neighbours(node) \ walls /\ d \in Cell
      BY <1>1, <1>2, <1>3
    <3>2. t.parent[d] = node
      BY <1>0, <3>1
    <3>. QED BY <1>0, <3>1, <3>2
  <2>2. ASSUME NEW d \in s.pq, d \notin found
        PROVE  d \notin walls /\ t.parent[d] \in t.closed \ {to} /\ d \in Neighbours(t.parent[d])
    <3>1. t.parent[d] = s.parent[d]
      BY <1>0, <1>1, <2>2
    <3>2. d \notin walls /\ s.parent[d] \in s.closed \ {to} /\ d \in Neighbours(s.parent[d])
      BY <2>2 DEF Frontier
    <3>. QED BY <1>0, <3>1, <3>2
  <2>. QED BY <1>0, <2>1, <2>2
<1>6. \A c \in Cell \ (t.closed \cup t.pq) : t.parent[c] = Origin
  <2>1. ASSUME NEW c \in Cell \ (t.closed \cup t.pq) PROVE t.parent[c] = Origin
    <3>1. c \notin found /\ c \in Cell \ (s.closed \cup s.pq)
      BY <1>0, <2>1
    <3>2. s.parent[c] = Origin
      BY <3>1 DEF Frontier
    <3>. QED BY <1>0, <3>1, <3>2
  <2>. QED BY <2>1
<1>. QED BY <1>4, <1>5, <1>6 DEF Frontier, t

(* and gives the visited cell a way: that of its parent, and one step. *)
LEMMA VisitWays ==
  ASSUME NEW walls, NEW from \in Cell \ walls, NEW to \in Cell \ walls,
         NEW s, Searching(s, from, to), Frontier(s, walls, to), Ways(s, walls, from),
         NEW node \in s.pq
  PROVE  Ways(Visit(s, walls, node, to), walls, from)
<1> DEFINE t == Visit(s, walls, node, to)
           found == Opened(s, walls, node, to)
<1>0. /\ t.closed = s.closed \cup {node} /\ t.pq = (s.pq \ {node}) \cup found
      /\ t.parent = [c \in Cell |-> IF c \in found THEN node ELSE s.parent[c]]
      /\ t.open = [c \in Cell |-> IF c \in found THEN Cost(c, to) ELSE s.open[c]]
  BY VisitDoes
<1>1. /\ s.closed \subseteq Cell /\ node \in Cell /\ node \notin s.closed /\ node \notin walls
      /\ s.parent[node] \in s.closed /\ node \in Neighbours(s.parent[node])
  BY DEF Searching, Frontier
<1>2. found \cap (s.closed \cup {node}) = {}
  <2>1. CASE node = to
    BY <2>1 DEF Opened
  <2>2. CASE node # to
    <3>1. found = (Neighbours(node) \ walls) \ s.closed
      BY <1>1, <2>2, OpenedCells
    <3>2. \A c \in Neighbours(node) : c # node
      BY <1>1, NeighbourFacts
    <3>. QED BY <3>1, <3>2
  <2>. QED BY <2>1, <2>2
<1>. HIDE DEF t, found
<1>3. \A c \in s.closed \cup {node} : t.parent[c] = s.parent[c]
  BY <1>0, <1>1, <1>2
<1>4. ASSUME NEW c \in s.closed, NEW n \in Nat \ {0}, NEW p, IsWay(p, n, s, walls, from, c)
      PROVE  IsWay(p, n, t, walls, from, c)
  <2>1. /\ p \in [1..n -> s.closed \ walls] /\ p[1] = from /\ p[n] = c
        /\ \A i \in 1..n - 1 : s.parent[p[i + 1]] = p[i] /\ CellDist(p[i], p[i + 1]) = 1
        /\ \A i, j \in 1..n : p[i] = p[j] => i = j
    BY <1>4 DEF IsWay
  <2>2. p \in [1..n -> t.closed \ walls]
    BY <1>0, <2>1
  <2>3. \A i \in 1..n - 1 : t.parent[p[i + 1]] = p[i]
    <3> SUFFICES ASSUME NEW i \in 1..n - 1 PROVE t.parent[p[i + 1]] = p[i]
      OBVIOUS
    <3>1. i + 1 \in 1..n
      OBVIOUS
    <3>2. p[i + 1] \in s.closed
      BY <2>1, <3>1
    <3>. QED BY <1>3, <2>1, <3>2
  <2>. QED BY <2>1, <2>2, <2>3 DEF IsWay
<1>5. \E n \in Nat \ {0} : \E p : IsWay(p, n, t, walls, from, node)
  <2>0. PICK n \in Nat \ {0} : \E p : IsWay(p, n, s, walls, from, s.parent[node])
    BY <1>1 DEF Ways
  <2>1. PICK p : IsWay(p, n, s, walls, from, s.parent[node])
    BY <2>0
  <2> DEFINE q == [i \in 1..n + 1 |-> IF i = n + 1 THEN node ELSE p[i]]
  <2>2. IsWay(p, n, t, walls, from, s.parent[node])
    BY <1>1, <1>4, <2>1
  <2>3. /\ p \in [1..n -> s.closed \ walls] /\ p[1] = from /\ p[n] = s.parent[node]
        /\ \A i \in 1..n - 1 : t.parent[p[i + 1]] = p[i] /\ CellDist(p[i], p[i + 1]) = 1
        /\ \A i, j \in 1..n : p[i] = p[j] => i = j
    BY <2>1, <2>2 DEF IsWay
  <2>4. q[n + 1] = node /\ (\A i \in 1..n : q[i] = p[i]) /\ n \in Nat /\ n >= 1 /\ DOMAIN q = 1..n + 1
    OBVIOUS
  <2>5. q \in [1..n + 1 -> t.closed \ walls]
    BY <1>0, <1>1, <2>3
  <2>. HIDE DEF q
  <2>6. q[1] = from
    <3>1. 1 \in 1..n
      BY <2>4
    <3>. QED BY <2>3, <2>4, <3>1
  <2>7. ASSUME NEW i \in 1..(n + 1) - 1
        PROVE  t.parent[q[i + 1]] = q[i] /\ CellDist(q[i], q[i + 1]) = 1
    <3>1. i \in 1..n /\ q[i] = p[i]
      BY <2>4
    <3>2. CASE i = n
      <4>1. CellDist(s.parent[node], node) = 1
        BY <1>1, NeighbourFacts
      <4>. QED BY <1>3, <2>3, <2>4, <3>1, <3>2, <4>1
    <3>3. CASE i # n
      <4>1. i \in 1..n - 1 /\ i + 1 \in 1..n
        BY <3>1, <3>3
      <4>. QED BY <2>3, <2>4, <3>1, <4>1
    <3>. QED BY <3>2, <3>3
  <2>8. ASSUME NEW i \in 1..n + 1, NEW j \in 1..n + 1, q[i] = q[j] PROVE i = j
    <3>1. \A l \in 1..n : q[l] # node
      BY <1>1, <2>3, <2>4
    <3>2. CASE i \in 1..n /\ j \in 1..n
      BY <2>3, <2>4, <2>8, <3>2
    <3>3. CASE i = n + 1 \/ j = n + 1
      BY <2>4, <2>8, <3>1, <3>3
    <3>. QED BY <2>4, <3>2, <3>3
  <2>9. IsWay(q, n + 1, t, walls, from, node)
    BY <2>4, <2>5, <2>6, <2>7, <2>8 DEF IsWay
  <2>10. n + 1 \in Nat \ {0}
    OBVIOUS
  <2>. QED BY <2>9, <2>10
<1>6. ASSUME NEW c \in s.closed PROVE \E n \in Nat \ {0} : \E p : IsWay(p, n, t, walls, from, c)
  <2>0. PICK n \in Nat \ {0} : \E p : IsWay(p, n, s, walls, from, c)
    BY <1>6 DEF Ways
  <2>1. PICK p : IsWay(p, n, s, walls, from, c)
    BY <2>0
  <2>. QED BY <1>4, <1>6, <2>1
<1>. QED BY <1>0, <1>5, <1>6 DEF Ways, t

LEMMA CellFinite == IsFiniteSet(Cell) /\ Cardinality(Cell) = CellCount
<1>1. /\ IsFiniteSet(0..MaxX) /\ Cardinality(0..MaxX) = MaxX + 1
      /\ IsFiniteSet(0..MaxY) /\ Cardinality(0..MaxY) = MaxY + 1
  BY MapAssumption, FS_Interval
<1>. QED BY <1>1, FS_Product DEF Cell, CellCount

(* Until it has ended, every round visits one cell more. *)
LEMMA VisitCounted ==
  ASSUME NEW from \in Cell, NEW to \in Cell, NEW walls, NEW k \in Nat,
         NEW s, Searching(s, from, to), Counted(s, to, k), ~Done(s, to), NEW node \in s.pq
  PROVE  Counted(Visit(s, walls, node, to), to, k + 1)
<1> DEFINE t == Visit(s, walls, node, to)
           found == Opened(s, walls, node, to)
<1>1. /\ t.closed = s.closed \cup {node} /\ t.pq = (s.pq \ {node}) \cup found
      /\ t.parent = [c \in Cell |-> IF c \in found THEN node ELSE s.parent[c]]
      /\ t.open = [c \in Cell |-> IF c \in found THEN Cost(c, to) ELSE s.open[c]]
  BY VisitDoes
<1>2. s.closed \subseteq Cell /\ node \notin s.closed /\ Cardinality(s.closed) = k
  BY DEF Searching, Counted
<1>3. IsFiniteSet(s.closed)
  BY <1>2, CellFinite, FS_Subset
<1>4. Cardinality(s.closed \cup {node}) = k + 1
  BY <1>2, <1>3, FS_AddElement
<1>5. t.closed = s.closed \cup {node}
  BY <1>1
<1>. HIDE DEF t
<1>. QED BY <1>4, <1>5 DEF Counted, t

(* A neighbour costs less exactly if it is nearer. *)
LEMMA CheaperIsNearer ==
  ASSUME NEW to \in Cell, NEW c \in Cell, NEW d \in Neighbours(c)
  PROVE  Cost(d, to) < Cost(c, to) <=> CellDist(d, to) + 1 = CellDist(c, to)
<1> DEFINE x == to[1] - c[1]
           y == to[2] - c[2]
           u == to[1] - d[1]
           v == to[2] - d[2]
<1>1. x \in Int /\ y \in Int /\ u \in Int /\ v \in Int
  BY CellParts, NeighbourFacts
<1>2. (u = x /\ (v = y + 1 \/ v = y - 1)) \/ (v = y /\ (u = x + 1 \/ u = x - 1))
  <2>1. CellDist(d, c) = 1 /\ d \in Cell
    BY NeighbourFacts
  <2>2. c[1] \in Int /\ c[2] \in Int /\ d[1] \in Int /\ d[2] \in Int /\ to[1] \in Int /\ to[2] \in Int
    BY <2>1, CellParts
  <2>. QED BY <2>1, <2>2 DEF CellDist, Abs
<1>3. Cost(c, to) = 10 * (x * x + y * y) /\ Cost(d, to) = 10 * (u * u + v * v)
  BY DEF Cost
<1>4. CellDist(c, to) = Abs(x) + Abs(y) /\ CellDist(d, to) = Abs(u) + Abs(v)
  <2>1. d \in Cell
    BY NeighbourFacts
  <2>2. c[1] \in Int /\ c[2] \in Int /\ d[1] \in Int /\ d[2] \in Int /\ to[1] \in Int /\ to[2] \in Int
    BY <2>1, CellParts
  <2>. QED BY <2>2 DEF CellDist, Abs
<1>. HIDE DEF x, y, u, v
<1>5. \A a \in Int : /\ (a + 1) * (a + 1) = a * a + 2 * a + 1 /\ (a - 1) * (a - 1) = a * a - 2 * a + 1
                     /\ a * a \in Int
  OBVIOUS
<1>6. ASSUME NEW a \in Int, NEW b \in {a + 1, a - 1}
      PROVE  b * b < a * a <=> Abs(b) + 1 = Abs(a)
  <2> DEFINE A == a * a
  <2>1. A \in Int
    OBVIOUS
  <2>2. CASE b = a + 1
    <3>1. b * b = A + 2 * a + 1
      BY <2>2, <1>5
    <3>. HIDE DEF A
    <3>2. A + 2 * a + 1 < A <=> Abs(a + 1) + 1 = Abs(a)
      BY <2>1 DEF Abs
    <3>. QED BY <2>2, <3>1, <3>2 DEF A
  <2>3. CASE b = a - 1
    <3>1. b * b = A - 2 * a + 1
      BY <2>3, <1>5
    <3>. HIDE DEF A
    <3>2. A - 2 * a + 1 < A <=> Abs(a - 1) + 1 = Abs(a)
      BY <2>1 DEF Abs
    <3>. QED BY <2>3, <3>1, <3>2 DEF A
  <2>. QED BY <2>2, <2>3
<1>7. \A a \in Int : Abs(a) \in Nat /\ a * a \in Int
  BY DEF Abs
<1> DEFINE X == x * x
           Y == y * y
           U == u * u
           V == v * v
<1>8. X \in Int /\ Y \in Int /\ U \in Int /\ V \in Int /\ Abs(x) \in Nat /\ Abs(y) \in Nat
      /\ Abs(u) \in Nat /\ Abs(v) \in Nat
  BY <1>1, <1>7
<1>9. CASE u = x /\ v \in {y + 1, y - 1}
  <2>1. V < Y <=> Abs(v) + 1 = Abs(y)
    BY <1>1, <1>6, <1>9
  <2>2. U = X /\ Abs(u) = Abs(x)
    BY <1>9
  <2>3. Cost(c, to) = 10 * (X + Y) /\ Cost(d, to) = 10 * (U + V)
    BY <1>3
  <2>. HIDE DEF X, Y, U, V
  <2>. QED BY <1>4, <1>8, <2>1, <2>2, <2>3
<1>10. CASE v = y /\ u \in {x + 1, x - 1}
  <2>1. U < X <=> Abs(u) + 1 = Abs(x)
    BY <1>1, <1>6, <1>10
  <2>2. V = Y /\ Abs(v) = Abs(y)
    BY <1>10
  <2>3. Cost(c, to) = 10 * (X + Y) /\ Cost(d, to) = 10 * (U + V)
    BY <1>3
  <2>. HIDE DEF X, Y, U, V
  <2>. QED BY <1>4, <1>8, <2>1, <2>2, <2>3
<1>. QED BY <1>2, <1>9, <1>10

(* Every cell but the destination has a neighbour that is nearer. *)
LEMMA NearerNeighbour ==
  ASSUME NEW to \in Cell, NEW c \in Cell, c # to
  PROVE  \E d \in Neighbours(c) : CellDist(d, to) + 1 = CellDist(c, to)
<1>1. /\ c = <<c[1], c[2]>> /\ c[1] \in 0..MaxX /\ c[2] \in 0..MaxY
      /\ to = <<to[1], to[2]>> /\ to[1] \in 0..MaxX /\ to[2] \in 0..MaxY
  BY CellParts
<1>2. PICK d1 \in 0..MaxX, d2 \in 0..MaxY :
        /\ Abs(d1 - c[1]) + Abs(d2 - c[2]) = 1
        /\ Abs(d1 - to[1]) + Abs(d2 - to[2]) + 1 = Abs(c[1] - to[1]) + Abs(c[2] - to[2])
  <2>1. c[1] # to[1] \/ c[2] # to[2]
    BY <1>1
  <2>2. CASE c[1] < to[1]
    <3>1. c[1] + 1 \in 0..MaxX
      BY <1>1, <2>2, MapAssumption
    <3>2. /\ Abs((c[1] + 1) - c[1]) + Abs(c[2] - c[2]) = 1
          /\ Abs((c[1] + 1) - to[1]) + Abs(c[2] - to[2]) + 1 = Abs(c[1] - to[1]) + Abs(c[2] - to[2])
      BY <1>1, <2>2, MapAssumption DEF Abs
    <3>. QED BY <1>1, <3>1, <3>2
  <2>3. CASE to[1] < c[1]
    <3>1. c[1] - 1 \in 0..MaxX
      BY <1>1, <2>3, MapAssumption
    <3>2. /\ Abs((c[1] - 1) - c[1]) + Abs(c[2] - c[2]) = 1
          /\ Abs((c[1] - 1) - to[1]) + Abs(c[2] - to[2]) + 1 = Abs(c[1] - to[1]) + Abs(c[2] - to[2])
      BY <1>1, <2>3, MapAssumption DEF Abs
    <3>. QED BY <1>1, <3>1, <3>2
  <2>4. CASE c[2] < to[2]
    <3>1. c[2] + 1 \in 0..MaxY
      BY <1>1, <2>4, MapAssumption
    <3>2. /\ Abs(c[1] - c[1]) + Abs((c[2] + 1) - c[2]) = 1
          /\ Abs(c[1] - to[1]) + Abs((c[2] + 1) - to[2]) + 1 = Abs(c[1] - to[1]) + Abs(c[2] - to[2])
      BY <1>1, <2>4, MapAssumption DEF Abs
    <3>. QED BY <1>1, <3>1, <3>2
  <2>5. CASE to[2] < c[2]
    <3>1. c[2] - 1 \in 0..MaxY
      BY <1>1, <2>5, MapAssumption
    <3>2. /\ Abs(c[1] - c[1]) + Abs((c[2] - 1) - c[2]) = 1
          /\ Abs(c[1] - to[1]) + Abs((c[2] - 1) - to[2]) + 1 = Abs(c[1] - to[1]) + Abs(c[2] - to[2])
      BY <1>1, <2>5, MapAssumption DEF Abs
    <3>. QED BY <1>1, <3>1, <3>2
  <2>. QED BY <1>1, <2>1, <2>2, <2>3, <2>4, <2>5, MapAssumption
<1>3. <<d1, d2>> \in Neighbours(c)
  BY <1>2 DEF Neighbours, Cell, CellDist
<1>4. CellDist(<<d1, d2>>, to) + 1 = CellDist(c, to)
  BY <1>2 DEF CellDist
<1>. QED BY <1>3, <1>4

(* Without walls the cell visited next is a neighbour of the last one, and *)
(* nearer.                                                                 *)
LEMMA VisitStraight ==
  ASSUME NEW from \in Cell, NEW to \in Cell, NEW s, Searching(s, from, to), Frontier(s, {}, to),
         Straight(s, from, to), to \notin s.closed, NEW node \in Tops(s)
  PROVE  Straight(Visit(s, {}, node, to), from, to)
<1> DEFINE t == Visit(s, {}, node, to)
           found == Opened(s, {}, node, to)
<1>0. /\ t.closed = s.closed \cup {node} /\ t.pq = (s.pq \ {node}) \cup found
      /\ t.parent = [c \in Cell |-> IF c \in found THEN node ELSE s.parent[c]]
      /\ t.open = [c \in Cell |-> IF c \in found THEN Cost(c, to) ELSE s.open[c]]
  BY VisitDoes
<1>1. /\ s.closed \subseteq Cell /\ s.pq \subseteq Cell /\ s.pq \cap s.closed = {}
      /\ node \in s.pq /\ \A d \in s.pq : s.open[node] <= s.open[d]
  BY DEF Searching, Tops
<1>2. found = IF node = to THEN {} ELSE Neighbours(node) \ s.closed
  <2>1. CASE node = to
    BY <2>1 DEF Opened
  <2>2. CASE node # to
    <3>1. from \in Cell \ {} /\ to \in Cell \ {} /\ node \in Cell
      BY <1>1
    <3>2. found = (Neighbours(node) \ {}) \ s.closed
      BY <2>2, <3>1, OpenedCells
    <3>. QED BY <2>2, <3>2
  <2>. QED BY <2>1, <2>2
<1>3. \A d \in Neighbours(node) : d \in Cell /\ d # node
  BY <1>1, NeighbourFacts
<1>4. PICK n \in s.closed : LastVisited(n, s, to)
  BY DEF Straight
<1>5. \A c \in Cell : Cost(c, to) \in Nat
  BY CostBound
<1>6. \A d \in s.pq : s.open[d] = Cost(d, to)
  BY DEF Straight
<1>7. \A d \in s.pq : Cost(node, to) <= Cost(d, to)
  BY <1>1, <1>6
<1>. HIDE DEF t, found
<1>8. Cost(node, to) < Cost(n, to) /\ node \in Neighbours(n) /\ s.parent[node] = n
  <2>1. n \in Cell /\ n # to
    BY <1>1
  <2>2. PICK d \in Neighbours(n) : CellDist(d, to) + 1 = CellDist(n, to)
    BY <2>1, NearerNeighbour
  <2>3. Cost(d, to) < Cost(n, to) /\ d \in Cell
    BY <2>1, <2>2, CheaperIsNearer, NeighbourFacts
  <2>4. d \in s.pq
    <3>1. d \in s.closed => Cost(n, to) <= Cost(d, to)
      BY <1>4 DEF LastVisited
    <3>2. d \in s.closed \/ d \in s.pq
      BY <1>4, <2>1 DEF LastVisited
    <3>. QED BY <1>5, <2>1, <2>3, <3>1, <3>2
  <2>5. Cost(node, to) < Cost(n, to)
    BY <1>1, <1>5, <1>7, <2>1, <2>3, <2>4
  <2>6. s.parent[node] = n
    <3>1. Cost(n, to) <= Cost(node, to) \/ s.parent[node] = n
      BY <1>1, <1>4 DEF LastVisited
    <3>. QED BY <1>1, <1>5, <2>1, <2>5, <3>1
  <2>7. node \in Neighbours(s.parent[node])
    BY <1>1 DEF Frontier
  <2>. QED BY <2>5, <2>6, <2>7
<1>9. CellDist(node, to) + 1 = CellDist(n, to)
  BY <1>1, <1>8, CheaperIsNearer
<1>10. LastVisited(node, t, to)
  <2>1. ASSUME node # to, NEW d \in Neighbours(node)
        PROVE  d \in t.closed \/ (d \in t.pq /\ t.parent[d] = node)
    BY <1>0, <1>2, <1>3, <2>1
  <2>2. ASSUME NEW d \in t.pq PROVE Cost(node, to) <= Cost(d, to) \/ t.parent[d] = node
    BY <1>0, <1>1, <1>2, <1>3, <1>7, <2>2
  <2>3. ASSUME NEW c \in t.closed PROVE Cost(node, to) <= Cost(c, to)
    <3>1. CASE c = node
      BY <1>1, <1>5, <3>1
    <3>2. CASE c \in s.closed
      <4>1. Cost(n, to) <= Cost(c, to)
        BY <1>4, <3>2 DEF LastVisited
      <4>2. Cost(n, to) \in Nat /\ Cost(c, to) \in Nat /\ Cost(node, to) \in Nat
        BY <1>1, <1>5, <3>2
      <4>. QED BY <1>8, <4>1, <4>2
    <3>. QED BY <1>0, <3>1, <3>2
  <2>. QED BY <2>1, <2>2, <2>3 DEF LastVisited
<1>11. ASSUME NEW c \in t.closed \ {from} PROVE CellDist(c, to) + 1 = CellDist(t.parent[c], to)
  <2>1. c \in Cell /\ c \notin found /\ t.parent[c] = s.parent[c]
    BY <1>0, <1>1, <1>2, <1>3
  <2>2. CASE c = node
    BY <1>8, <1>9, <2>1, <2>2
  <2>3. CASE c \in s.closed
    BY <2>1, <2>3 DEF Straight
  <2>. QED BY <1>0, <2>2, <2>3
<1>12. ASSUME NEW d \in t.pq PROVE t.open[d] = Cost(d, to)
  BY <1>0, <1>1, <1>2, <1>3, <1>6
<1>. QED BY <1>0, <1>10, <1>11, <1>12 DEF Straight, t

(* The start is at the top of pq first. *)
LEMMA TopOfStart ==
  ASSUME NEW from \in Cell, NEW to \in Cell
  PROVE  ~Done(SearchStart(from, to), to) /\ Tops(SearchStart(from, to)) = {from}
<1>1. SearchStart(from, to).closed = {} /\ SearchStart(from, to).pq = {from}
  BY DEF SearchStart
<1>2. SearchStart(from, to).open[from] = 10 * CellDist(from, to)
  BY DEF SearchStart
<1>3. SearchStart(from, to).open[from] \in Nat
  BY <1>2, DistFacts
<1>. QED BY <1>1, <1>3 DEF Done, Tops

(* The first round visits the start: from there on, SearchInv holds. *)
LEMMA FirstRound ==
  ASSUME NEW walls, NEW from \in Cell \ walls, NEW to \in Cell \ walls
  PROVE  SearchInv(Visit(SearchStart(from, to), walls, from, to), walls, from, to, 1)
<1> DEFINE s == SearchStart(from, to)
           t == Visit(s, walls, from, to)
           found == Opened(s, walls, from, to)
<1>1. /\ t.closed = s.closed \cup {from} /\ t.pq = (s.pq \ {from}) \cup found
      /\ t.parent = [c \in Cell |-> IF c \in found THEN from ELSE s.parent[c]]
      /\ t.open = [c \in Cell |-> IF c \in found THEN Cost(c, to) ELSE s.open[c]]
  BY VisitDoes
<1>2. /\ s.closed = {} /\ s.pq = {from}
      /\ s.open = [c \in Cell |-> IF c = from THEN 10 * CellDist(from, to) ELSE NoCost]
      /\ s.parent = [c \in Cell |-> IF c = from THEN from ELSE Origin]
  BY DEF SearchStart
<1>3. NoCost \in Nat
  BY CellCountNat DEF NoCost
<1>4. \A c \in Cell : Cost(c, to) \in Nat /\ Cost(c, to) <= NoCost
  BY CostBound
<1>5. \A c \in Neighbours(from) : c \in Cell /\ c # from
  BY NeighbourFacts
<1>6. from = to => found = {}
  BY DEF Opened
<1>7. from # to => found = Neighbours(from) \ walls
  <2>1. \A c \in Neighbours(from) : c \notin s.closed /\ ~ s.open[c] < Cost(c, to)
    BY <1>2, <1>3, <1>4, <1>5
  <2>2. \A c : CanVisit(walls, c, to) <=> c \notin walls
    BY DEF CanVisit
  <2>. HIDE DEF s
  <2>. QED BY <2>1, <2>2 DEF Opened, Found
<1>. HIDE DEF s, t, found
<1>8. t.closed = {from} /\ t.pq = found /\ found \subseteq Cell \ {from}
  BY <1>1, <1>2, <1>5, <1>6, <1>7
<1>9. t.parent = [c \in Cell |-> IF c \in found \cup {from} THEN from ELSE Origin]
  BY <1>1, <1>2
<1>10. Searching(t, from, to)
  <2>1. \A c \in Cell \ {from} : t.open[c] = NoCost \/ t.open[c] = Cost(c, to)
    BY <1>1, <1>2
  <2>2. t.open \in [Cell -> Nat]
    <3>1. 10 * CellDist(from, to) \in Nat
      BY DistFacts
    <3>. QED BY <1>1, <1>2, <1>3, <1>4, <3>1
  <2>3. t.parent \in [Cell -> Cell] /\ t.parent[from] = from
    BY <1>9, OriginCell
  <2>. QED BY <1>8, <2>1, <2>2, <2>3 DEF Searching
<1>11. Frontier(t, walls, to)
  <2>1. \A c \in t.closed \ {to} : Neighbours(c) \ walls \subseteq t.closed \cup t.pq
    BY <1>7, <1>8
  <2>2. ASSUME NEW d \in t.pq
        PROVE  d \notin walls /\ t.parent[d] \in t.closed \ {to} /\ d \in Neighbours(t.parent[d])
    <3>1. from # to /\ d \in Neighbours(from) \ walls /\ d \in Cell
      BY <1>6, <1>7, <1>8, <2>2
    <3>2. t.parent[d] = from
      BY <1>8, <1>9, <2>2
    <3>. QED BY <1>8, <3>1, <3>2
  <2>3. \A c \in Cell \ (t.closed \cup t.pq) : t.parent[c] = Origin
    BY <1>8, <1>9
  <2>. QED BY <2>1, <2>2, <2>3 DEF Frontier
<1>12. Ways(t, walls, from)
  <2>1. IsWay([i \in 1..1 |-> from], 1, t, walls, from, from)
    BY <1>8 DEF IsWay
  <2>2. 1 \in Nat \ {0}
    OBVIOUS
  <2>. QED BY <1>8, <2>1, <2>2 DEF Ways
<1>13. Counted(t, to, 1)
  BY <1>8, FS_Singleton DEF Counted
<1>14. walls = {} => Straight(t, from, to)
  <2> SUFFICES ASSUME walls = {} PROVE Straight(t, from, to)
    OBVIOUS
  <2>1. LastVisited(from, t, to)
    <3>1. ASSUME from # to, NEW d \in Neighbours(from) PROVE d \in t.pq /\ t.parent[d] = from
      BY <1>5, <1>7, <1>8, <1>9, <3>1
    <3>2. \A d \in t.pq : t.parent[d] = from
      BY <1>8, <1>9
    <3>3. Cost(from, to) <= Cost(from, to)
      BY <1>4
    <3>. QED BY <1>8, <3>1, <3>2, <3>3 DEF LastVisited
  <2>2. \A d \in t.pq : t.open[d] = Cost(d, to)
    BY <1>1, <1>8
  <2>. QED BY <1>8, <2>1, <2>2 DEF Straight
<1>. QED BY <1>10, <1>11, <1>12, <1>13, <1>14 DEF SearchInv, t, s

(* Every further round keeps it; a search that has ended stays as it is. *)
LEMMA NextRound ==
  ASSUME NEW walls, NEW from \in Cell \ walls, NEW to \in Cell \ walls, NEW k \in Nat,
         NEW ss, \A s \in ss : SearchInv(s, walls, from, to, k)
  PROVE  \A t \in Round(ss, walls, to) : SearchInv(t, walls, from, to, k + 1)
<1> SUFFICES ASSUME NEW s \in ss,
                    NEW t \in IF Done(s, to) THEN {s} ELSE {Visit(s, walls, node, to) : node \in Tops(s)}
             PROVE  SearchInv(t, walls, from, to, k + 1)
  BY DEF Round
<1>1. /\ Searching(s, from, to) /\ Frontier(s, walls, to) /\ Ways(s, walls, from)
      /\ Counted(s, to, k) /\ (walls = {} => Straight(s, from, to))
  BY DEF SearchInv
<1>2. CASE Done(s, to)
  <2>1. t = s
    BY <1>2
  <2>2. Counted(s, to, k + 1)
    BY <1>2 DEF Counted
  <2>. QED BY <1>1, <2>1, <2>2 DEF SearchInv
<1>3. CASE ~Done(s, to)
  <2>1. PICK node \in Tops(s) : t = Visit(s, walls, node, to)
    BY <1>3
  <2>2. node \in s.pq /\ to \notin s.closed
    BY <1>3 DEF Tops, Done
  <2>3. Searching(t, from, to)
    BY <1>1, <2>1, <2>2, VisitSearching
  <2>4. Frontier(t, walls, to)
    BY <1>1, <2>1, <2>2, VisitFrontier
  <2>5. Ways(t, walls, from)
    BY <1>1, <2>1, <2>2, VisitWays
  <2>6. Counted(t, to, k + 1)
    BY <1>1, <1>3, <2>1, <2>2, VisitCounted
  <2>7. walls = {} => Straight(t, from, to)
    BY <1>1, <2>1, <2>2, VisitStraight
  <2>. QED BY <2>3, <2>4, <2>5, <2>6, <2>7 DEF SearchInv
<1>. QED BY <1>2, <1>3

(* A search that has not ended has a cell at the top of pq, *)
LEMMA RoundNotEmpty ==
  ASSUME NEW walls, NEW from, NEW to, NEW ss, ss # {}, \A s \in ss : Searching(s, from, to)
  PROVE  Round(ss, walls, to) # {}
<1>1. PICK s \in ss : Searching(s, from, to)
  OBVIOUS
<1>2. CASE Done(s, to)
  BY <1>2 DEF Round
<1>3. CASE ~Done(s, to)
  <2>1. s.pq # {} /\ s.pq \subseteq Cell /\ s.open \in [Cell -> Nat]
    BY <1>1, <1>3 DEF Done, Searching
  <2> DEFINE T == {s.open[c] : c \in s.pq}
  <2>2. T \in SUBSET Nat /\ T # {}
    BY <2>1
  <2>3. PICK x \in T : \A y \in T : x <= y
    <3>. HIDE DEF T
    <3>. QED BY <2>2, LeastNumber
  <2>4. PICK node \in s.pq : s.open[node] = x
    OBVIOUS
  <2>5. node \in Tops(s)
    BY <2>3, <2>4 DEF Tops
  <2>6. Visit(s, walls, node, to) \in Round(ss, walls, to)
    BY <1>3, <2>5 DEF Round
  <2>. QED BY <2>6
<1>. QED BY <1>2, <1>3

(* So there are searches, and they have all ended when FindPath is done. *)
LEMMA SearchesEnd ==
  ASSUME NEW walls, NEW from \in Cell \ walls, NEW to \in Cell \ walls
  PROVE  /\ Searches(walls, from, to) # {}
         /\ \A s \in Searches(walls, from, to) :
              SearchInv(s, walls, from, to, CellCount) /\ Done(s, to)
<1>1. PICK f : IsRounds(f, CellCount, walls, from, to) /\ Searches(walls, from, to) = f[CellCount]
  BY Rounds
<1>2. CellCount \in Nat /\ CellCount >= 1
  BY CellCountNat
<1> DEFINE Good == {n \in Nat : n + 1 <= CellCount =>
                       /\ f[n + 1] # {}
                       /\ \A u \in f[n + 1] : SearchInv(u, walls, from, to, n + 1)}
<1>3. ASSUME NEW n \in 0..CellCount
      PROVE  f[n] = IF n = 0 THEN {SearchStart(from, to)} ELSE Round(f[n - 1], walls, to)
  BY <1>1 DEF IsRounds
<1>4. 0 \in Good
  <2>1. f[0] = {SearchStart(from, to)}
    BY <1>2, <1>3
  <2>2. f[1] = Round(f[0], walls, to)
    BY <1>2, <1>3
  <2>3. f[1] = {Visit(SearchStart(from, to), walls, from, to)}
    BY <2>1, <2>2, TopOfStart DEF Round
  <2>. QED BY <2>3, FirstRound
<1>5. ASSUME NEW n \in Nat, n \in Good PROVE n + 1 \in Good
  <2> SUFFICES ASSUME (n + 1) + 1 <= CellCount
               PROVE  /\ f[(n + 1) + 1] # {}
                      /\ \A u \in f[(n + 1) + 1] : SearchInv(u, walls, from, to, (n + 1) + 1)
    OBVIOUS
  <2>1. f[n + 1] # {} /\ \A u \in f[n + 1] : SearchInv(u, walls, from, to, n + 1)
    BY <1>2, <1>5
  <2>2. (n + 1) + 1 \in 0..CellCount /\ (n + 1) + 1 # 0 /\ ((n + 1) + 1) - 1 = n + 1 /\ n + 1 \in Nat
    BY <1>2
  <2>3. f[(n + 1) + 1] = Round(f[n + 1], walls, to)
    BY <1>3, <2>2
  <2>4. \A u \in f[n + 1] : Searching(u, from, to)
    BY <2>1 DEF SearchInv
  <2>5. f[(n + 1) + 1] # {}
    BY <2>1, <2>3, <2>4, RoundNotEmpty
  <2>. QED BY <2>1, <2>2, <2>3, <2>5, NextRound
<1>6. Searches(walls, from, to) # {}
      /\ \A s \in Searches(walls, from, to) : SearchInv(s, walls, from, to, CellCount)
  <2>1. \A n \in Nat : n \in Good
    <3>. HIDE DEF Good
    <3>. QED BY <1>4, <1>5, SetInduction
  <2>2. CellCount - 1 \in Good /\ (CellCount - 1) + 1 = CellCount
    <3>1. CellCount - 1 \in Nat /\ (CellCount - 1) + 1 = CellCount
      BY <1>2
    <3>. HIDE DEF Good
    <3>. QED BY <2>1, <3>1
  <2>. QED BY <1>1, <1>2, <2>2
<1>7. ASSUME NEW s \in Searches(walls, from, to) PROVE Done(s, to)
  <2> SUFFICES ASSUME ~Done(s, to) PROVE FALSE
    OBVIOUS
  <2>1. Cardinality(s.closed) = CellCount /\ s.closed \subseteq Cell
    BY <1>6 DEF SearchInv, Counted, Searching
  <2>2. s.closed = Cell
    <3>1. IsFiniteSet(s.closed) /\ Cardinality(Cell) = CellCount /\ IsFiniteSet(Cell)
      BY <2>1, CellFinite, FS_Subset
    <3>. QED BY <2>1, <3>1, FS_Subset
  <2>. QED BY <2>2 DEF Done
<1>. QED BY <1>6, <1>7

-----------------------------------------------------------------------------
(* CalcCellPathFromParent *)

(* f has what comes of x when g is applied to it 0 to n times. *)
Iterates(f, n, S, x, g) ==
  f \in [0..n -> S] /\ \A k \in 0..n : f[k] = IF k = 0 THEN x ELSE g[f[k - 1]]

(* A function on a set can be applied any number of times. *)
LEMMA Recursion ==
  ASSUME NEW S, NEW x \in S, NEW g \in [S -> S]
  PROVE  \A n \in Nat : \E f : Iterates(f, n, S, x, g)
<1> DEFINE Rec(f, n) == \A k \in 0..n : f[k] = IF k = 0 THEN x ELSE g[f[k - 1]]
           T == {n \in Nat : \E f \in [0..n -> S] : Rec(f, n)}
<1>1. 0 \in T
  <2>1. [k \in 0..0 |-> x] \in [0..0 -> S] /\ Rec([k \in 0..0 |-> x], 0)
    OBVIOUS
  <2>. QED BY <2>1
<1>2. ASSUME NEW n \in Nat, n \in T PROVE n + 1 \in T
  <2>1. PICK f \in [0..n -> S] : Rec(f, n)
    BY <1>2
  <2> DEFINE h == [k \in 0..n + 1 |-> IF k = n + 1 THEN g[f[n]] ELSE f[k]]
  <2>2. h \in [0..n + 1 -> S]
    <3>1. f[n] \in S /\ \A k \in 0..n : f[k] \in S
      OBVIOUS
    <3>. QED BY <3>1
  <2>3. ASSUME NEW k \in 0..n + 1 PROVE h[k] = IF k = 0 THEN x ELSE g[h[k - 1]]
    <3>1. CASE k = n + 1
      <4>1. k # 0 /\ n \in 0..n + 1 /\ n # n + 1 /\ k - 1 = n
        BY <3>1
      <4>2. h[n] = f[n] /\ h[k] = g[f[n]]
        BY <3>1, <4>1
      <4>. QED BY <4>1, <4>2
    <3>2. CASE k \in 0..n
      <4>1. h[k] = f[k] /\ (k # 0 => h[k - 1] = f[k - 1])
        BY <3>2
      <4>. QED BY <2>1, <3>2, <4>1
    <3>. QED BY <3>1, <3>2
  <2>. HIDE DEF h
  <2>. QED BY <2>2, <2>3
<1>. HIDE DEF T
<1>3. \A n \in Nat : n \in T
  BY <1>1, <1>2, SetInduction
<1>4. \A n \in Nat : \E f \in [0..n -> S] : Rec(f, n)
  BY <1>3 DEF T
<1>. QED BY <1>4 DEF Iterates

(* A sequence of n cells without repetitions is not longer than the map. *)
LEMMA NoLongerThanMap ==
  ASSUME NEW n \in Nat, NEW p \in [1..n -> Cell], \A i, j \in 1..n : p[i] = p[j] => i = j
  PROVE  n <= CellCount
<1>1. p \in Injection(1..n, Cell)
  BY DEF Injection, IsInjective
<1>2. Cardinality(1..n) <= Cardinality(Cell)
  BY <1>1, CellFinite, FS_Injection
<1>3. Cardinality(1..n) = n
  BY FS_Interval
<1>. QED BY <1>2, <1>3, CellFinite

(* n cells, each the parent of the next one, from a cell that is its own   *)
(* parent down to c.                                                       *)
IsUpward(p, n, parent, c) ==
  /\ p \in [1..n -> Cell] /\ p[n] = c /\ parent[p[1]] = p[1]
  /\ \A i \in 1..n - 1 : parent[p[i + 1]] = p[i]
  /\ \A i, j \in 1..n : p[i] = p[j] => i = j

(* CalcCellPathFromParent returns them. *)
LEMMA UpwardPath ==
  ASSUME NEW parent \in [Cell -> Cell], NEW c \in Cell, NEW n \in Nat \ {0}, NEW p,
         IsUpward(p, n, parent, c)
  PROVE  PathFromParent(parent, c) = p
<1>1. /\ p \in [1..n -> Cell] /\ p[n] = c /\ parent[p[1]] = p[1]
      /\ \A i \in 1..n - 1 : parent[p[i + 1]] = p[i]
      /\ \A i, j \in 1..n : p[i] = p[j] => i = j
  BY DEF IsUpward
<1>2. n \in Nat /\ n >= 1 /\ n <= CellCount /\ CellCount \in Nat
  BY <1>1, CellCountNat, NoLongerThanMap
<1> DEFINE IsUp(f) == f = [k \in 0..CellCount |-> IF k = 0 THEN c ELSE parent[f[k - 1]]]
           up == CHOOSE f : IsUp(f)
           AtRoot(k) == parent[up[k]] = up[k] \/ k = CellCount
           steps == CHOOSE k \in 0..CellCount : AtRoot(k) /\ \A i \in 0..(k - 1) : ~AtRoot(i)
<1>3. PathFromParent(parent, c) = [i \in 1..(steps + 1) |-> up[steps + 1 - i]]
  BY DEF PathFromParent
<1>4. IsUp(up)
  <2>1. PICK f : Iterates(f, CellCount, Cell, c, parent)
    BY <1>2, Recursion
  <2>2. IsUp(f)
    BY <2>1 DEF Iterates
  <2>. QED BY <2>2
<1>5. \A k \in 0..CellCount : up[k] = IF k = 0 THEN c ELSE parent[up[k - 1]]
  <2>. HIDE DEF up
  <2>. QED BY <1>4
<1>. HIDE DEF up
<1>6. \A k \in 0..n - 1 : up[k] = p[n - k]
  <2> DEFINE T == {k \in Nat : k <= n - 1 => up[k] = p[n - k]}
  <2>1. 0 \in T
    BY <1>1, <1>2, <1>5
  <2>2. ASSUME NEW k \in Nat, k \in T PROVE k + 1 \in T
    <3> SUFFICES ASSUME k + 1 <= n - 1 PROVE up[k + 1] = p[n - (k + 1)]
      OBVIOUS
    <3>1. up[k] = p[n - k]
      BY <1>2, <2>2
    <3>2. k + 1 \in 0..CellCount /\ k + 1 # 0 /\ (k + 1) - 1 = k
      BY <1>2
    <3>3. up[k + 1] = parent[up[k]]
      BY <1>5, <3>2
    <3>4. n - (k + 1) \in 1..n - 1 /\ (n - (k + 1)) + 1 = n - k
      BY <1>2
    <3>. QED BY <1>1, <3>1, <3>3, <3>4
  <2>. HIDE DEF T
  <2>3. \A k \in Nat : k \in T
    BY <2>1, <2>2, SetInduction
  <2>. QED BY <1>2, <2>3 DEF T
<1>7. AtRoot(n - 1)
  <2>1. n - 1 \in 0..n - 1 /\ n - (n - 1) = 1
    BY <1>2
  <2>. QED BY <1>1, <1>6, <2>1
<1>8. ASSUME NEW k \in Nat, k < n - 1 PROVE ~AtRoot(k)
  <2>1. k \in 0..n - 1 /\ n - k \in 1..n /\ n - (k + 1) \in 1..n - 1 /\ n - (k + 1) \in 1..n
        /\ (n - (k + 1)) + 1 = n - k /\ n - k # n - (k + 1) /\ k # CellCount
    BY <1>2, <1>8
  <2>2. up[k] = p[n - k] /\ parent[p[n - k]] = p[n - (k + 1)] /\ p[n - k] # p[n - (k + 1)]
    BY <1>1, <1>6, <2>1
  <2>. QED BY <2>1, <2>2
<1>9. steps = n - 1
  <2>. HIDE DEF AtRoot
  <2>1. n - 1 \in 0..CellCount /\ \A i \in 0..(n - 1) - 1 : ~AtRoot(i)
    BY <1>2, <1>8
  <2>2. steps \in 0..CellCount /\ AtRoot(steps) /\ \A i \in 0..(steps - 1) : ~AtRoot(i)
    BY <1>7, <2>1
  <2>. HIDE DEF steps
  <2>3. ~(steps < n - 1)
    BY <1>8, <2>2
  <2>4. ~(n - 1 < steps)
    <3>1. n - 1 < steps => n - 1 \in 0..(steps - 1)
      BY <1>2, <2>2
    <3>. QED BY <1>7, <2>2, <3>1
  <2>. QED BY <1>2, <2>2, <2>3, <2>4
<1>. HIDE DEF steps
<1>10. PathFromParent(parent, c) = [i \in 1..n |-> up[n - i]]
  <2>1. 1..(steps + 1) = 1..n /\ \A i \in 1..n : up[steps + 1 - i] = up[n - i]
    <3>1. steps + 1 = n /\ \A i \in 1..n : steps + 1 - i = n - i
      BY <1>2, <1>9
    <3>. QED BY <3>1
  <2>. QED BY <1>3, <2>1
<1>11. ASSUME NEW i \in 1..n PROVE up[n - i] = p[i]
  <2>1. n - i \in 0..n - 1 /\ n - (n - i) = i
    BY <1>2
  <2>. QED BY <1>6, <2>1
<1>. QED BY <1>1, <1>10, <1>11

(* The cells that a step from those of X leads to, and the start. *)
StepFrom(X, walls, from) == {from} \cup UNION {Neighbours(c) \ walls : c \in X}

(* The cells connected with the start, within k steps. *)
LEMMA WithinSteps ==
  ASSUME NEW walls, NEW from \in Cell
  PROVE  \E f : /\ Component(walls, from) = f[CellCount]
                /\ f[0] = {from}
                /\ \A k \in 0..CellCount - 1 :
                     f[k + 1] = StepFrom(f[k], walls, from)
<1> DEFINE Step(X) == StepFrom(X, walls, from)
           IsWithin(f) == f = [k \in 0..CellCount |-> IF k = 0 THEN {from} ELSE Step(f[k - 1])]
           F == CHOOSE f : IsWithin(f)
           g == [X \in SUBSET Cell |-> Step(X)]
<1>1. Component(walls, from) = F[CellCount]
  BY DEF Component, StepFrom
<1>2. CellCount \in Nat
  BY CellCountNat
<1>3. \A X \in SUBSET Cell : Step(X) \in SUBSET Cell
  BY DEF Neighbours, StepFrom
<1>4. PICK f : Iterates(f, CellCount, SUBSET Cell, {from}, g)
  <2>1. {from} \in SUBSET Cell /\ g \in [SUBSET Cell -> SUBSET Cell]
    BY <1>3
  <2>. HIDE DEF g
  <2>. QED BY <1>2, <2>1, Recursion
<1>5. IsWithin(f)
  <2>. HIDE DEF Step
  <2>0. f \in [0..CellCount -> SUBSET Cell]
    BY <1>4 DEF Iterates
  <2>1. ASSUME NEW k \in 0..CellCount PROVE f[k] = IF k = 0 THEN {from} ELSE Step(f[k - 1])
    <3>1. k # 0 => f[k - 1] \in SUBSET Cell
      BY <1>2, <2>0
    <3>2. f[k] = IF k = 0 THEN {from} ELSE g[f[k - 1]]
      BY <1>4 DEF Iterates
    <3>. QED BY <3>1, <3>2
  <2>. QED BY <2>0, <2>1
<1>6. IsWithin(F)
  <2>. HIDE DEF IsWithin
  <2>. QED BY <1>5
<1>. HIDE DEF F
<1>7. F[0] = {from}
  BY <1>2, <1>6
<1>8. ASSUME NEW k \in 0..CellCount - 1 PROVE F[k + 1] = Step(F[k])
  <2>1. k + 1 \in 0..CellCount /\ k + 1 # 0 /\ (k + 1) - 1 = k
    BY <1>2
  <2>. HIDE DEF Step
  <2>. QED BY <1>6, <2>1
<1>. QED BY <1>1, <1>7, <1>8

(* They are within every set of cells that nothing leads out of, *)
LEMMA ComponentWithin ==
  ASSUME NEW walls, NEW from \in Cell, NEW X, from \in X, \A c \in X : Neighbours(c) \ walls \subseteq X
  PROVE  Component(walls, from) \subseteq X
<1>1. PICK f : /\ Component(walls, from) = f[CellCount]
               /\ f[0] = {from}
               /\ \A k \in 0..CellCount - 1 :
                    f[k + 1] = StepFrom(f[k], walls, from)
  BY WithinSteps
<1> DEFINE T == {k \in Nat : k <= CellCount => f[k] \subseteq X}
<1>2. CellCount \in Nat
  BY CellCountNat
<1>3. 0 \in T
  BY <1>1
<1>4. ASSUME NEW k \in Nat, k \in T PROVE k + 1 \in T
  <2> SUFFICES ASSUME k + 1 <= CellCount PROVE f[k + 1] \subseteq X
    OBVIOUS
  <2>1. k \in 0..CellCount - 1 /\ f[k] \subseteq X
    BY <1>2, <1>4
  <2>2. f[k + 1] = StepFrom(f[k], walls, from)
    BY <1>1, <2>1
  <2>. QED BY <2>1, <2>2 DEF StepFrom
<1>. HIDE DEF T
<1>5. CellCount \in T
  BY <1>2, <1>3, <1>4, SetInduction
<1>. QED BY <1>1, <1>2, <1>5 DEF T

(* and a way leads to cells connected with the start. *)
LEMMA WayWithin ==
  ASSUME NEW walls, NEW from \in Cell, NEW s, s.closed \subseteq Cell, NEW c,
         NEW n \in Nat \ {0}, NEW p, IsWay(p, n, s, walls, from, c)
  PROVE  c \in Component(walls, from)
<1>1. PICK f : /\ Component(walls, from) = f[CellCount]
               /\ f[0] = {from}
               /\ \A k \in 0..CellCount - 1 :
                    f[k + 1] = StepFrom(f[k], walls, from)
  BY WithinSteps
<1>2. /\ p \in [1..n -> s.closed \ walls] /\ p[1] = from /\ p[n] = c
      /\ \A i \in 1..n - 1 : CellDist(p[i], p[i + 1]) = 1
      /\ \A i, j \in 1..n : p[i] = p[j] => i = j
  BY DEF IsWay
<1>3. n \in Nat /\ n >= 1 /\ n <= CellCount /\ CellCount \in Nat
  <2>1. p \in [1..n -> Cell]
    BY <1>2
  <2>. QED BY <1>2, <2>1, CellCountNat, NoLongerThanMap
<1> DEFINE T == {k \in Nat : k <= CellCount => \A i \in 1..n : i <= k + 1 => p[i] \in f[k]}
<1>4. 0 \in T
  BY <1>1, <1>2, <1>3
<1>5. ASSUME NEW k \in Nat, k \in T PROVE k + 1 \in T
  <2> SUFFICES ASSUME k + 1 <= CellCount, NEW i \in 1..n, i <= (k + 1) + 1 PROVE p[i] \in f[k + 1]
    OBVIOUS
  <2>1. k \in 0..CellCount - 1 /\ \A j \in 1..n : j <= k + 1 => p[j] \in f[k]
    BY <1>3, <1>5
  <2>2. f[k + 1] = StepFrom(f[k], walls, from)
    BY <1>1, <2>1
  <2>3. CASE i = 1
    BY <1>2, <2>2, <2>3 DEF StepFrom
  <2>4. CASE i # 1
    <3>1. i - 1 \in 1..n /\ i - 1 <= k + 1 /\ i - 1 \in 1..n - 1 /\ (i - 1) + 1 = i
      BY <2>4
    <3>2. p[i - 1] \in f[k] /\ CellDist(p[i - 1], p[i]) = 1
      BY <1>2, <2>1, <3>1
    <3>3. p[i - 1] \in Cell /\ p[i] \in Cell \ walls
      BY <1>2, <3>1
    <3>4. CellDist(p[i], p[i - 1]) = 1
      BY <3>2, <3>3, DistFacts
    <3>5. p[i] \in Neighbours(p[i - 1]) \ walls
      BY <3>3, <3>4 DEF Neighbours
    <3>. QED BY <2>2, <3>2, <3>5 DEF StepFrom
  <2>. QED BY <2>3, <2>4
<1>. HIDE DEF T
<1>6. CellCount \in T
  BY <1>3, <1>4, <1>5, SetInduction
<1>7. n \in 1..n /\ n <= CellCount + 1
  BY <1>3
<1>. QED BY <1>1, <1>2, <1>3, <1>6, <1>7 DEF T

-----------------------------------------------------------------------------
(* What FindPath returns *)

(* What can be reached from the start is free, the start included. *)
LEMMA ComponentFree ==
  ASSUME NEW walls, NEW from \in Cell \ walls
  PROVE  Component(walls, from) \subseteq Cell \ walls /\ from \in Component(walls, from)
<1>1. \A c \in Cell \ walls : Neighbours(c) \ walls \subseteq Cell \ walls
  BY DEF Neighbours
<1>2. Component(walls, from) \subseteq Cell \ walls
  BY <1>1, ComponentWithin
<1> DEFINE s == [closed |-> {from}, parent |-> [c \in Cell |-> from]]
           p == [i \in 1..1 |-> from]
<1>3. s.closed \subseteq Cell /\ IsWay(p, 1, s, walls, from, from)
  BY DEF IsWay
<1>. HIDE DEF s, p
<1>4. from \in Component(walls, from)
  BY <1>3, WayWithin
<1>. QED BY <1>2, <1>4

(* The search visits the destination if it can be reached, and all that    *)
(* can be reached if not.                                                  *)
LEMMA Reached ==
  ASSUME NEW walls, NEW from \in Cell \ walls, NEW to \in Cell \ walls,
         NEW s \in Searches(walls, from, to)
  PROVE  /\ to \in s.closed <=> to \in Component(walls, from)
         /\ to \notin s.closed => s.closed = Component(walls, from) /\ s.pq = {}
<1>1. SearchInv(s, walls, from, to, CellCount) /\ Done(s, to)
  BY SearchesEnd
<1>2. s.closed \subseteq Cell /\ from \in s.closed
  BY <1>1 DEF SearchInv, Searching
<1>3. s.closed \subseteq Component(walls, from)
  <2> SUFFICES ASSUME NEW c \in s.closed PROVE c \in Component(walls, from)
    OBVIOUS
  <2>1. PICK n \in Nat \ {0} : \E p : IsWay(p, n, s, walls, from, c)
    BY <1>1 DEF SearchInv, Ways
  <2>2. PICK p : IsWay(p, n, s, walls, from, c)
    BY <2>1
  <2>. QED BY <1>2, <2>2, WayWithin
<1>4. ASSUME to \notin s.closed PROVE Component(walls, from) \subseteq s.closed /\ s.pq = {}
  <2>1. s.pq = {}
    BY <1>1, <1>4 DEF Done
  <2>2. \A c \in s.closed : Neighbours(c) \ walls \subseteq s.closed
    BY <1>1, <1>4, <2>1 DEF SearchInv, Frontier
  <2>. QED BY <1>2, <2>1, <2>2, ComponentWithin
<1>. QED BY <1>3, <1>4

(* A way, as the path that FindPath returns. *)
LEMMA WayIsPath ==
  ASSUME NEW walls, NEW from \in Cell \ walls, NEW to, NEW s, Searching(s, from, to), NEW c \in s.closed,
         NEW n \in Nat \ {0}, NEW p, IsWay(p, n, s, walls, from, c)
  PROVE  IsPath(p, walls, from, c) /\ Len(p) = n /\ IsUpward(p, n, s.parent, c)
<1>1. /\ p \in [1..n -> s.closed \ walls] /\ p[1] = from /\ p[n] = c
      /\ \A i \in 1..n - 1 : s.parent[p[i + 1]] = p[i] /\ CellDist(p[i], p[i + 1]) = 1
      /\ \A i, j \in 1..n : p[i] = p[j] => i = j
  BY DEF IsWay
<1>2. s.closed \subseteq Cell /\ s.parent[from] = from
  BY DEF Searching
<1>3. Len(p) = n
  <2>1. p \in Seq(s.closed \ walls) /\ DOMAIN p = 1..n
    BY <1>1
  <2>. QED BY <2>1, LenProperties
<1>4. IsPath(p, walls, from, c)
  BY <1>1, <1>2, <1>3 DEF IsPath
<1>5. IsUpward(p, n, s.parent, c)
  BY <1>1, <1>2 DEF IsUpward
<1>. QED BY <1>3, <1>4, <1>5

(* Without walls every step of a way goes nearer. *)
LEMMA StraightWay ==
  ASSUME NEW from \in Cell, NEW to \in Cell, NEW s, s.closed \subseteq Cell, Straight(s, from, to),
         NEW n \in Nat \ {0}, NEW p, IsWay(p, n, s, {}, from, to)
  PROVE  n = CellDist(from, to) + 1
<1>1. /\ p \in [1..n -> s.closed] /\ p[1] = from /\ p[n] = to
      /\ \A i \in 1..n - 1 : s.parent[p[i + 1]] = p[i]
      /\ \A i, j \in 1..n : p[i] = p[j] => i = j
  BY DEF IsWay
<1>2. \A c \in Cell : CellDist(c, to) \in Nat
  BY DistFacts
<1> DEFINE T == {k \in Nat : k + 1 <= n => CellDist(p[k + 1], to) + k = CellDist(from, to)}
<1>3. 0 \in T
  BY <1>1, <1>2
<1>4. ASSUME NEW k \in Nat, k \in T PROVE k + 1 \in T
  <2> SUFFICES ASSUME (k + 1) + 1 <= n
               PROVE  CellDist(p[(k + 1) + 1], to) + (k + 1) = CellDist(from, to)
    OBVIOUS
  <2>1. k + 1 \in 1..n - 1 /\ k + 1 \in 1..n /\ (k + 1) + 1 \in 1..n /\ 1 \in 1..n /\ (k + 1) + 1 # 1
    OBVIOUS
  <2>2. CellDist(p[k + 1], to) + k = CellDist(from, to)
    BY <1>4, <2>1
  <2>3. s.parent[p[(k + 1) + 1]] = p[k + 1] /\ p[(k + 1) + 1] # from
    BY <1>1, <2>1
  <2>4. p[(k + 1) + 1] \in s.closed \ {from} /\ p[k + 1] \in Cell /\ p[(k + 1) + 1] \in Cell
    BY <1>1, <2>1, <2>3
  <2>5. CellDist(p[(k + 1) + 1], to) + 1 = CellDist(p[k + 1], to)
    BY <2>3, <2>4 DEF Straight
  <2>. QED BY <1>2, <2>2, <2>4, <2>5
<1>5. n - 1 \in T /\ (n - 1) + 1 = n
  <2>1. \A k \in Nat : k \in T
    <3>. HIDE DEF T
    <3>. QED BY <1>3, <1>4, SetInduction
  <2>2. n - 1 \in Nat /\ (n - 1) + 1 = n
    OBVIOUS
  <2>. HIDE DEF T
  <2>. QED BY <2>1, <2>2
<1>6. CellDist(to, to) = 0
  BY DistFacts
<1>. QED BY <1>1, <1>2, <1>5, <1>6

(* FindPath always returns a path: pq runs empty or gives the destination. *)
THEOREM AlwaysAnswers ==
  \A walls \in SUBSET Cell : \A from, to \in Cell \ walls : FindPaths(walls, from, to) # {}
<1>1. ASSUME NEW walls, NEW from \in Cell \ walls, NEW to \in Cell \ walls
      PROVE  FindPaths(walls, from, to) # {}
  BY SearchesEnd DEF FindPaths
<1>. QED BY <1>1

(* To a destination that can be reached the path is the way there. *)
LEMMA PathFound ==
  ASSUME NEW walls, NEW from \in Cell \ walls, NEW to \in Component(walls, from),
         NEW path \in FindPaths(walls, from, to)
  PROVE  /\ IsPath(path, walls, from, to) /\ Len(path) \in Nat \ {0}
         /\ walls = {} => Len(path) = CellDist(from, to) + 1
<1>1. to \in Cell \ walls
  BY ComponentFree
<1>2. PICK s \in Searches(walls, from, to) : path = PathFromParent(s.parent, to)
  BY DEF FindPaths
<1>3. SearchInv(s, walls, from, to, CellCount)
  BY <1>1, <1>2, SearchesEnd
<1>4. Searching(s, from, to) /\ Ways(s, walls, from) /\ (walls = {} => Straight(s, from, to))
  BY <1>3 DEF SearchInv
<1>5. to \in s.closed
  BY <1>1, <1>2, Reached
<1>6. PICK n \in Nat \ {0} : \E p : IsWay(p, n, s, walls, from, to)
  BY <1>4, <1>5 DEF Ways
<1>7. PICK p : IsWay(p, n, s, walls, from, to)
  BY <1>6
<1>8. IsPath(p, walls, from, to) /\ Len(p) = n /\ IsUpward(p, n, s.parent, to)
  BY <1>4, <1>5, <1>7, WayIsPath
<1>9. s.parent \in [Cell -> Cell] /\ s.closed \subseteq Cell
  BY <1>4 DEF Searching
<1>10. path = p
  BY <1>1, <1>2, <1>8, <1>9, UpwardPath
<1>11. walls = {} => n = CellDist(from, to) + 1
  BY <1>1, <1>4, <1>7, <1>9, StraightWay
<1>. QED BY <1>8, <1>10, <1>11

(***************************************************************************)
(* FindPath is right on maps of every size, with any walls: to what can be *)
(* reached it returns a path that is one, and a shortest one where nothing *)
(* is in the way.                                                          *)
(***************************************************************************)
THEOREM PathsFound == FindsPath /\ []RoomFindsPath
<1>1. FindsPath
  BY PathFound DEF FindsPath
<1>2. RoomFindsPath
  BY <1>1 DEF RoomFindsPath
<1>. QED BY <1>1, <1>2, PTL

(* The parent of a destination that was not found is the cell of index 0,  *)
(* and that cell's is itself, or the way to it begins at the start.        *)
LEMMA PathStrays ==
  ASSUME NEW walls, NEW from \in Cell \ walls, NEW to \in Cell \ walls, to \notin Component(walls, from),
         NEW path \in FindPaths(walls, from, to)
  PROVE  \/ to = Origin /\ path = <<to>>
         \/ Origin \notin Component(walls, from) /\ path = <<Origin, to>>
         \/ IsPath(SubSeq(path, 1, Len(path) - 1), walls, from, Origin)
<1>2. PICK s \in Searches(walls, from, to) : path = PathFromParent(s.parent, to)
  BY DEF FindPaths
<1>3. SearchInv(s, walls, from, to, CellCount)
  BY <1>2, SearchesEnd
<1>4. /\ Searching(s, from, to) /\ Ways(s, walls, from)
      /\ s.parent \in [Cell -> Cell] /\ s.closed \subseteq Cell
  BY <1>3 DEF SearchInv, Searching
<1>5. to \notin s.closed /\ s.closed = Component(walls, from) /\ s.pq = {}
  BY <1>2, Reached
<1>6. \A c \in Cell \ s.closed : s.parent[c] = Origin
  BY <1>3, <1>5 DEF SearchInv, Frontier
<1>7. CASE to = Origin
  <2>1. <<to>> = [i \in 1..1 |-> to] /\ <<to>> \in [1..1 -> Cell]
    OBVIOUS
  <2>2. IsUpward(<<to>>, 1, s.parent, to)
    BY <1>5, <1>6, <1>7, <2>1 DEF IsUpward
  <2>. QED BY <1>2, <1>4, <1>7, <2>2, UpwardPath
<1>8. CASE to # Origin /\ Origin \notin s.closed
  <2>1. s.parent[to] = Origin /\ s.parent[Origin] = Origin
    BY <1>5, <1>6, <1>8, OriginCell
  <2>2. <<Origin, to>> \in [1..2 -> Cell]
    BY OriginCell
  <2>3. IsUpward(<<Origin, to>>, 2, s.parent, to)
    BY <1>8, <2>1, <2>2 DEF IsUpward
  <2>4. path = <<Origin, to>>
    BY <1>2, <1>4, <2>3, UpwardPath
  <2>. QED BY <1>5, <1>8, <2>4
<1>9. CASE Origin \in s.closed
  <2>1. PICK n \in Nat \ {0} : \E p : IsWay(p, n, s, walls, from, Origin)
    BY <1>4, <1>9 DEF Ways
  <2>2. PICK p : IsWay(p, n, s, walls, from, Origin)
    BY <2>1
  <2>3. /\ IsPath(p, walls, from, Origin) /\ Len(p) = n /\ IsUpward(p, n, s.parent, Origin)
        /\ p \in [1..n -> s.closed \ walls]
    <3>1. IsPath(p, walls, from, Origin) /\ Len(p) = n /\ IsUpward(p, n, s.parent, Origin)
      BY <1>4, <1>9, <2>2, WayIsPath
    <3>2. p \in [1..n -> s.closed \ walls]
      BY <2>2 DEF IsWay
    <3>. QED BY <3>1, <3>2
  <2>4. /\ p[n] = Origin /\ s.parent[p[1]] = p[1]
        /\ \A i \in 1..n - 1 : s.parent[p[i + 1]] = p[i]
        /\ \A i, j \in 1..n : p[i] = p[j] => i = j
    BY <2>3 DEF IsUpward
  <2> DEFINE q == [i \in 1..n + 1 |-> IF i = n + 1 THEN to ELSE p[i]]
  <2>5. q[n + 1] = to /\ (\A i \in 1..n : q[i] = p[i]) /\ n \in Nat /\ n >= 1 /\ DOMAIN q = 1..n + 1
    OBVIOUS
  <2>6. q \in [1..n + 1 -> Cell]
    BY <1>4, <2>3
  <2>. HIDE DEF q
  <2>7. s.parent[q[1]] = q[1]
    <3>1. 1 \in 1..n
      BY <2>5
    <3>. QED BY <2>4, <2>5, <3>1
  <2>8. ASSUME NEW i \in 1..(n + 1) - 1 PROVE s.parent[q[i + 1]] = q[i]
    <3>1. i \in 1..n /\ q[i] = p[i]
      BY <2>5
    <3>2. CASE i = n
      BY <1>5, <1>6, <2>4, <2>5, <3>1, <3>2
    <3>3. CASE i # n
      <4>1. i \in 1..n - 1 /\ i + 1 \in 1..n
        BY <3>1, <3>3
      <4>. QED BY <2>4, <2>5, <3>1, <4>1
    <3>. QED BY <3>2, <3>3
  <2>9. ASSUME NEW i \in 1..n + 1, NEW j \in 1..n + 1, q[i] = q[j] PROVE i = j
    <3>1. \A l \in 1..n : q[l] # to
      BY <1>5, <2>3, <2>5
    <3>2. CASE i \in 1..n /\ j \in 1..n
      BY <2>4, <2>5, <2>9, <3>2
    <3>3. CASE i = n + 1 \/ j = n + 1
      BY <2>5, <2>9, <3>1, <3>3
    <3>. QED BY <2>5, <3>2, <3>3
  <2>10. IsUpward(q, n + 1, s.parent, to)
    BY <2>5, <2>6, <2>7, <2>8, <2>9 DEF IsUpward
  <2>11. path = q
    <3>1. n + 1 \in Nat \ {0}
      BY <2>5
    <3>. QED BY <1>2, <1>4, <2>10, <3>1, UpwardPath
  <2>12. SubSeq(path, 1, Len(path) - 1) = p
    <3>1. q \in Seq(Cell) /\ Len(q) = n + 1
      BY <2>5, <2>6, LenProperties
    <3>2. SubSeq(q, 1, n) = [i \in 1..n |-> q[i]]
      BY <2>5, <3>1, SubSeqProperties
    <3>3. (n + 1) - 1 = n
      BY <2>5
    <3>. QED BY <2>3, <2>5, <2>11, <3>1, <3>2, <3>3
  <2>. QED BY <2>3, <2>12
<1>. QED BY <1>7, <1>8, <1>9

(* And for what cannot be reached it returns, on every map, no more than   *)
(* the cell of index 0 and the destination, or the way to that cell first. *)
THEOREM PathsStray == StrayPath /\ []RoomStrayPath
<1>1. StrayPath
  BY PathStrays DEF StrayPath
<1>2. RoomStrayPath
  BY <1>1 DEF RoomStrayPath
<1>. QED BY <1>1, <1>2, PTL

-----------------------------------------------------------------------------
(***************************************************************************)
(* On a map without cells that are cut off no monster ever goes further    *)
(* than one cell, whoever it chases, wherever that player has gone         *)
(* meanwhile and whether or not it is there still.                         *)
(***************************************************************************)
THEOREM MonstersWalk ==
  ASSUME \A from \in Cell \ Wall : Cell \ Wall \subseteq Component(Wall, from)
  PROVE  Spec => MonstersStep
<1> DEFINE Steps == loop = "monsters" =>
             \A m \in Monster : pos'[m] # pos[m] => CellDist(pos'[m], pos[m]) = 1
<1>1. ASSUME IInv, [Next]_vars, loop = "monsters"
      PROVE  \A m \in Monster : pos'[m] # pos[m] => CellDist(pos'[m], pos[m]) = 1
  <2>0. /\ TypeOK /\ RoomPointers /\ GridSound /\ Clear
        /\ pos \in [Object -> Cell] /\ target \in [Monster -> Player \cup {NoObject}]
        /\ inRoom \subseteq Object
    BY <1>1 DEF IInv, TypeOK
  <2> DEFINE Goal == \A m \in Monster : pos'[m] # pos[m] => CellDist(pos'[m], pos[m]) = 1
  <2>1. CASE UNCHANGED pos
    BY <2>1
  <2>2. ASSUME NEW k \in Monster, MonsterMoves(k), NEW m \in Monster, pos'[m] # pos[m]
        PROVE  CellDist(pos'[m], pos[m]) = 1
    <3> DEFINE from == pos[k]
               to == pos[target[k]]
    <3>1. PICK path \in Paths(k) : Followable(path) /\ ApplyMove(k, NextCell(path))
      BY <2>2 DEF MonsterMoves
    <3>2. from \in Cell \ Wall /\ to \in Cell \ Wall
      <4>1. target[k] \in Object /\ k \in Object
        BY <2>0, <2>2 DEF MonsterMoves, CanChase, Object
      <4>. QED BY <2>0, <4>1 DEF Clear
    <3>3. path \in FindPaths(Wall, from, to)
      BY <3>1, <3>2 DEF Paths, PathsOn
    <3>4. IsPath(path, Wall, from, to)
      BY <3>2, <3>3, PathFound
    <3>5. Len(path) \in Int /\ Len(path) >= 2
      BY <3>1, NumberAssumption DEF Followable
    <3>6. path[1] = from /\ path[2] \in Cell /\ CellDist(path[1], path[2]) = 1
      <4>1. 1 \in 1..Len(path) - 1 /\ 2 \in 1..Len(path)
        BY <3>5
      <4>. QED BY <3>4, <4>1 DEF IsPath
    <3>7. CellDist(NextCell(path), from) = 1
      BY <3>2, <3>6, DistFacts DEF NextCell
    <3>8. m = k /\ pos'[k] = NextCell(path)
      <4>1. k \in Creature /\ m \in Object
        BY DEF Creature, Object
      <4>2. /\ \A x \in Object \ {k} : pos'[x] = pos[x]
            /\ pos'[k] = pos[k] \/ pos'[k] = NextCell(path)
        BY <2>0, <3>1, <4>1, Moved
      <4>. QED BY <2>2, <4>1, <4>2
    <3>. QED BY <3>7, <3>8
  <2>3. ASSUME NEW k \in Monster, MonsterAttacks(k) PROVE Goal
    <3>1. target[k] \in Creature /\ target[k] \in Player
      BY <2>0, <2>3 DEF MonsterAttacks, Creature
    <3>2. \A x \in Object \ {target[k]} : pos'[x] = pos[x]
      BY <2>0, <2>3, <3>1, Damaged DEF MonsterAttacks
    <3>. QED BY <3>1, <3>2, DisjointAssumption DEF Object
  <2>4. CASE UNCHANGED vars
    BY <2>1, <2>4 DEF vars
  <2>5. ASSUME RoomJob PROVE Goal
    <3>1. ASSUME NEW k \in Monster, MonsterUpdate(k) PROVE Goal
      <4>1. CASE MonsterMoves(k)
        BY <2>2, <4>1
      <4>2. CASE MonsterAttacks(k)
        BY <2>3, <4>2
      <4>3. CASE ~MonsterMoves(k) /\ ~MonsterAttacks(k)
        <5>1. UNCHANGED pos
          BY <3>1, <4>3 DEF MonsterUpdate, MonsterWaits, MonsterGivesUp, MonsterAims,
               MonsterStopsSkill, MonsterCools, UpdateIdle, ChangesOnly
        <5>. QED BY <2>1, <5>1
      <4>. QED BY <4>1, <4>2, <4>3
    <3>2. CASE TimerFires \/ UpdateProjectiles
      BY <2>1, <3>2 DEF TimerFires, UpdateProjectiles
    <3>. QED BY <1>1, <2>5, <3>1, <3>2 DEF RoomJob, Update, UpdateEnd, LeaveProjectile, Free,
               ArrowWaits, ArrowActs, ArrowFlies, ArrowHits, Turn, Hits
  <2>6. ASSUME NEW p \in Player PROVE ~SessionJob(p)
    BY <1>1 DEF SessionJob, EnterPlayer, LeavePlayer, HandleSkillAuto, HandleMove,
         HandleSkillProjectile, Free
  <2>. QED BY <1>1, <2>4, <2>5, <2>6 DEF Next
<1>2. IInv /\ [Next]_vars => [Steps]_vars
  BY <1>1
<1>. QED BY <1>2, Invariance, PTL DEF Spec, MonstersStep

=============================================================================
