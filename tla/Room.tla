-------------------------------- MODULE Room --------------------------------
(***************************************************************************)
(* GameServer/Room.cpp, Map.cpp, Monster.cpp, Arrow.cpp, GameObject.cpp:   *)
(* the game state of one room, which has no lock.  Only the room's jobs    *)
(* touch it, one at a time (JobQueue.tla), so a job is one action - except *)
(* Update, which is one action per object it updates, because what an      *)
(* object does there changes the containers that Update is iterating over. *)
(* Jobs that sessions post (enter, leave, move, skill) come at any time, a *)
(* player's entering once and its leaving once, after that (Lobby.tla);    *)
(* the room's own jobs (Update, an arrow's leaving) are FIFO.              *)
(* Time is abstract: a tick may or may not have come.  Init is the state   *)
(* after Room::Init, which RoomManager::Add runs before it lists the room. *)
(***************************************************************************)
EXTENDS FindPath

CONSTANTS Player, Monster, Arrow,  \* object ids, by the type bits of the id
          Wall,                    \* Map::_collision
          Home,                    \* where Room::Init puts each monster
          MaxHp, Damage,           \* everybody's _maxHp; skill damage plus _attack
          Search, Chase, SkillRange,  \* _searchCellDist, _chaseCellDist, _skillRange
          MoveState,               \* states that MOVE packets carry
          NoObject, NoCell

Object == Player \cup Monster \cup Arrow
Creature == Player \cup Monster
Direction == {<<0, 1>>, <<0, -1>>, <<-1, 0>>, <<1, 0>>}
Down == <<0, -1>>
Spawn == <<0, 0>>

ASSUME DisjointAssumption ==
  /\ Player \cap Monster = {} /\ Player \cap Arrow = {} /\ Monster \cap Arrow = {}
  /\ NoObject \notin Object /\ NoCell \notin Cell /\ "Update" \notin Arrow
ASSUME MapAssumption ==
  /\ MaxX \in Nat /\ MaxY \in Nat /\ Wall \subseteq Cell /\ Spawn \notin Wall
  /\ Home \in [Monster -> Cell \ Wall]
  /\ \A m, n \in Monster : Home[m] = Home[n] => m = n
ASSUME NumberAssumption ==
  /\ MaxHp \in [Creature -> Nat \ {0}] /\ Damage \in Nat \ {0}
  /\ Search \in Nat /\ Chase \in Nat /\ SkillRange \in Nat
  /\ MoveState \subseteq {"Idle", "Moving", "Skill"}

VARIABLES
  players, monsters, projectiles,  \* the room's containers, by id
  inRoom,      \* objects whose _room is this room
  grid,        \* Map::_objects
  pos,         \* _posX, _posY
  hp,          \* _hp
  state,       \* _state
  dir,         \* an arrow's _moveDir
  target,      \* Monster::_target
  cool,        \* _coolTick is set
  jobs,        \* jobs of the room's own making, in its queue
  updateDue,   \* Update's timer is running
  loop,        \* the container Update is iterating over
  todo,        \* what it has yet to update there
  modified,    \* history: containers inserted into or erased from meanwhile
  entered, gone,  \* history: players whose enter and leave job has run
  seen         \* seen[p][o]: where the packets sent to p have put o

containers == <<players, monsters, projectiles, inRoom>>
creatures == <<hp, state, target, cool>>
control == <<jobs, updateDue, loop, todo>>
visits == <<entered, gone>>
vars == <<containers, grid, pos, creatures, dir, control, modified, visits, seen>>

Members == players \cup monsters \cup projectiles

Init ==
  /\ players = {} /\ monsters = Monster /\ projectiles = {} /\ inRoom = Monster
  /\ grid = [c \in Cell |->
       IF \E m \in Monster : Home[m] = c THEN CHOOSE m \in Monster : Home[m] = c ELSE NoObject]
  /\ pos = [o \in Object |-> IF o \in Monster THEN Home[o] ELSE Spawn]
  /\ hp = MaxHp
  /\ state = [o \in Creature |-> "Idle"]
  /\ dir = [a \in Arrow |-> Down]
  /\ target = [m \in Monster |-> NoObject]
  /\ cool = [m \in Monster |-> FALSE]
  /\ jobs = <<>> /\ updateDue = TRUE
  /\ loop = "none" /\ todo = {} /\ modified = {}
  /\ entered = {} /\ gone = {}
  /\ seen = [p \in Player |-> [o \in Object |-> NoCell]]

-----------------------------------------------------------------------------
(* Map *)

Find(c) == IF c \in Cell THEN grid[c] ELSE NoObject

CanGo(g, c) == c \in Cell /\ c \notin Wall /\ g[c] = NoObject

(* ApplyLeave: an object is taken off the cell it is on, if it is there. *)
Lifted(o) == IF grid[pos[o]] = o THEN [grid EXCEPT ![pos[o]] = NoObject] ELSE grid

(* ApplyMove: off the map it goes, even if it then cannot go to dest. *)
ApplyMove(o, dest) ==
  IF CanGo(Lifted(o), dest)
  THEN grid' = [Lifted(o) EXCEPT ![dest] = o] /\ pos' = [pos EXCEPT ![o] = dest]
  ELSE grid' = Lifted(o) /\ UNCHANGED pos

Front(c, d) == <<c[1] + d[1], c[2] + d[2]>>

Aligned(c, d) == c[1] = d[1] \/ c[2] = d[2]

(* What FindPath may return on this map. *)
PathsOn == [from \in Cell |-> [to \in Cell |-> FindPaths(Wall, from, to)]]

-----------------------------------------------------------------------------
(* What the players are told.  Messages that repeat what a client knows,   *)
(* and those about states and hit points, are left out.                    *)

(* S2C_SPAWN of o to the others; to o itself S2C_SPAWN of the others. *)
TellEnter(o, at) ==
  seen' = [p \in Player |->
    IF p = o THEN [x \in Object |-> IF x \in Members \ {o} THEN pos[x] ELSE NoCell]
    ELSE IF p \in players THEN [seen[p] EXCEPT ![o] = at]
    ELSE seen[p]]

(* Mutant: S2C_DESPAWN is not sent. *)
TellNobody(o) ==
  seen' = [p \in Player |-> IF p = o THEN [x \in Object |-> NoCell] ELSE seen[p]]

(* S2C_LEAVE_GAME to o, S2C_DESPAWN to the others *)
TellLeave(o) ==
  seen' = [p \in Player |->
    IF p = o THEN [x \in Object |-> NoCell]
    ELSE IF p \in players THEN [seen[p] EXCEPT ![o] = NoCell]
    ELSE seen[p]]

(* S2C_MOVE of o to the others; a client ignores an object it does not know *)
TellMove(o, at) ==
  seen' = [p \in Player |->
    IF p \in players \ {o} /\ seen[p][o] # NoCell THEN [seen[p] EXCEPT ![o] = at]
    ELSE seen[p]]

-----------------------------------------------------------------------------
(* Jobs of the sessions *)

Free == loop = "none"

(* HandleEnterGame(player), EnterPlayer.  Create has put it on Spawn. *)
EnterPlayer(p) ==
  /\ Free /\ p \notin entered
  /\ entered' = entered \cup {p}
  /\ players' = players \cup {p}
  /\ inRoom' = inRoom \cup {p}
  /\ ApplyMove(p, pos[p])
  /\ TellEnter(p, pos[p])
  /\ UNCHANGED <<monsters, projectiles, creatures, dir, control, modified, gone>>

(* Mutant: ApplyLeave is called when _room has been cleared already. *)
LeavePlayerOnGrid(p) ==
  /\ Free /\ p \in entered \ gone
  /\ gone' = gone \cup {p}
  /\ players' = players \ {p}
  /\ inRoom' = inRoom \ {p}
  /\ TellLeave(p)
  /\ UNCHANGED <<monsters, projectiles, grid, pos, creatures, dir, control, modified, entered>>

(* Mutant: _room is not cleared. *)
LeavePlayerInRoom(p) ==
  /\ Free /\ p \in entered \ gone
  /\ gone' = gone \cup {p}
  /\ players' = players \ {p}
  /\ grid' = Lifted(p)
  /\ TellLeave(p)
  /\ UNCHANGED <<inRoom, monsters, projectiles, pos, creatures, dir, control, modified, entered>>

(* HandleLeaveGame(player), LeavePlayer *)
LeavePlayer(p) ==
  /\ Free /\ p \in entered \ gone
  /\ gone' = gone \cup {p}
  /\ players' = players \ {p}
  /\ inRoom' = inRoom \ {p}
  /\ grid' = Lifted(p)
  /\ TellLeave(p)
  /\ UNCHANGED <<monsters, projectiles, pos, creatures, dir, control, modified, entered>>

(* HandleMove: the player was in the room when the job was posted, and may *)
(* have left since, so that ApplyMove finds no _room and does nothing.     *)
HandleMove(p, dest, st) ==
  /\ Free /\ p \in entered
  /\ dest # pos[p] => CanGo(grid, dest)
  /\ IF p \in inRoom THEN ApplyMove(p, dest) ELSE UNCHANGED <<grid, pos>>
  /\ state' = [state EXCEPT ![p] = st]
  /\ TellMove(p, pos'[p])
  /\ UNCHANGED <<containers, hp, target, cool, dir, control, modified, visits>>

(* HandleSkill when the skill shoots an arrow, in the direction of the     *)
(* player's last MOVE, *)
HandleSkillProjectile(p, a, d) ==
  /\ Free /\ p \in entered /\ state[p] = "Idle"
  /\ a \notin inRoom  \* ObjectManager::Add makes a new one
  /\ state' = [state EXCEPT ![p] = "Skill"]
  /\ pos' = [pos EXCEPT ![a] = pos[p]]
  /\ dir' = [dir EXCEPT ![a] = d]
  /\ projectiles' = projectiles \cup {a}
  /\ inRoom' = inRoom \cup {a}
  /\ TellEnter(a, pos[p])
  /\ UNCHANGED <<players, monsters, grid, hp, target, cool, control, modified, visits>>

(* or does no more than print, or is unknown. *)
HandleSkillAuto(p) ==
  /\ Free /\ p \in entered /\ state[p] = "Idle"
  /\ state' = [state EXCEPT ![p] = "Skill"]
  /\ UNCHANGED <<containers, grid, pos, hp, target, cool, dir, control, modified, visits, seen>>

-----------------------------------------------------------------------------
(* GameObject::OnDamaged *)

(* OnDead: out of the room (HandleLeaveGame), and in again on Spawn. *)
OnDead(o, by) ==
  /\ players' = players \cup ({o} \cap Player)
  /\ monsters' = monsters \cup ({o} \cap Monster)
  /\ inRoom' = inRoom \cup {o}
  /\ hp' = [hp EXCEPT ![o] = MaxHp[o]]
  /\ state' = [state EXCEPT ![o] = "Idle"]
  /\ target' = IF by \in Monster THEN [target EXCEPT ![by] = NoObject] ELSE target
  /\ pos' = [pos EXCEPT ![o] = Spawn]
  /\ grid' = IF CanGo(Lifted(o), Spawn) THEN [Lifted(o) EXCEPT ![Spawn] = o] ELSE Lifted(o)
  /\ modified' = modified \cup {IF o \in Player THEN "players" ELSE "monsters"}
  /\ TellEnter(o, Spawn)

NoDamage == UNCHANGED <<players, monsters, inRoom, hp, state, target, pos, grid, modified, seen>>

Wound(o) ==
  /\ hp[o] > Damage
  /\ hp' = [hp EXCEPT ![o] = @ - Damage]
  /\ UNCHANGED <<players, monsters, inRoom, state, target, pos, grid, modified, seen>>

(* Mutant: _room is not looked at. *)
OnDamagedAnywhere(o, by) == Wound(o) \/ (hp[o] <= Damage /\ OnDead(o, by))

OnDamaged(o, by) ==
  \/ o \notin inRoom /\ NoDamage
  \/ o \in inRoom /\ Wound(o)
  \/ o \in inRoom /\ hp[o] <= Damage /\ OnDead(o, by)

-----------------------------------------------------------------------------
(* Room::Update *)

(* Mutant: the timer's job overtakes those that wait. *)
TimerFiresFirst ==
  /\ updateDue
  /\ jobs' = <<"Update">> \o jobs
  /\ updateDue' = FALSE
  /\ UNCHANGED <<containers, grid, pos, creatures, dir, loop, todo, modified, visits, seen>>

TimerFires ==
  /\ updateDue
  /\ jobs' = Append(jobs, "Update")
  /\ updateDue' = FALSE
  /\ UNCHANGED <<containers, grid, pos, creatures, dir, loop, todo, modified, visits, seen>>

Update ==
  /\ Free /\ jobs # <<>> /\ Head(jobs) = "Update"
  /\ jobs' = Tail(jobs)
  /\ loop' = "monsters" /\ todo' = monsters /\ modified' = {}
  /\ UNCHANGED <<containers, grid, pos, creatures, dir, updateDue, visits, seen>>

UpdateProjectiles ==
  /\ loop = "monsters" /\ todo = {}
  /\ loop' = "projectiles" /\ todo' = projectiles /\ modified' = {}
  /\ UNCHANGED <<containers, grid, pos, creatures, dir, jobs, updateDue, visits, seen>>

UpdateEnd ==
  /\ loop = "projectiles" /\ todo = {}
  /\ loop' = "none" /\ modified' = {} /\ updateDue' = TRUE
  /\ UNCHANGED <<containers, grid, pos, creatures, dir, jobs, todo, visits, seen>>

(* The next object of the container Update is in, *)
Hits(container, o) ==
  /\ loop = container /\ o \in todo
  /\ todo' = todo \ {o}
  /\ UNCHANGED <<projectiles, updateDue, loop, visits>>

(* which damages nobody. *)
Turn(container, o) == Hits(container, o) /\ UNCHANGED <<players, monsters, inRoom>>

ChangesOnly(m, st, tg) ==
  /\ state' = [state EXCEPT ![m] = st]
  /\ target' = [target EXCEPT ![m] = tg]
  /\ UNCHANGED <<grid, pos, hp, cool, dir, jobs, modified, seen>>

(* Its tick has not come, or it finds nobody. *)
MonsterWaits(m) ==
  /\ Turn("monsters", m)
  /\ state[m] = "Skill" => cool[m]
  /\ UNCHANGED <<grid, pos, creatures, dir, jobs, modified, seen>>

UpdateIdle(m, p) ==
  /\ Turn("monsters", m) /\ state[m] = "Idle"
  /\ p \in players /\ CellDist(pos[p], pos[m]) < Search
  /\ ChangesOnly(m, "Moving", p)

Dist(m) == CellDist(pos[target[m]], pos[m])
InReach(m) == Dist(m) <= SkillRange /\ Aligned(pos[target[m]], pos[m])
CanChase(m) == target[m] \in inRoom /\ Dist(m) # 0 /\ Dist(m) <= Chase

Paths(m) == PathsOn[pos[m]][pos[target[m]]]
Followable(path) == Len(path) \in 2..(Chase + 1)

(* UpdateMoving: no target, too far, or too long a path: back to Idle, *)
MonsterGivesUp(m) ==
  /\ Turn("monsters", m) /\ state[m] = "Moving"
  /\ CanChase(m) => ~InReach(m) /\ \E path \in Paths(m) : ~Followable(path)
  /\ ChangesOnly(m, "Idle", NoObject)

(* next to it: attack, *)
MonsterAims(m) ==
  /\ Turn("monsters", m) /\ state[m] = "Moving"
  /\ CanChase(m) /\ InReach(m)
  /\ state' = [state EXCEPT ![m] = "Skill"]
  /\ cool' = [cool EXCEPT ![m] = FALSE]
  /\ UNCHANGED <<grid, pos, hp, target, dir, jobs, modified, seen>>

(* Mutant: the end of the path. *)
LastCell(path) == path[Len(path)]

NextCell(path) == path[2]

(* or one step towards it, which may fail: another creature is there. *)
MonsterMoves(m) ==
  /\ Turn("monsters", m) /\ state[m] = "Moving"
  /\ CanChase(m) /\ ~InReach(m)
  /\ \E path \in Paths(m) :
       /\ Followable(path)
       /\ ApplyMove(m, NextCell(path))
       /\ IF pos'[m] = NextCell(path) THEN TellMove(m, pos'[m]) ELSE UNCHANGED seen
  /\ UNCHANGED <<creatures, dir, jobs, modified>>

(* UpdateSkill: no target, or it is out of reach, *)
MonsterStopsSkill(m) ==
  /\ Turn("monsters", m) /\ state[m] = "Skill" /\ ~cool[m]
  /\ IF target[m] = NoObject THEN ChangesOnly(m, "Idle", NoObject)
     ELSE ~InReach(m) /\ ChangesOnly(m, "Moving", target[m])

(* a hit, *)
MonsterAttacks(m) ==
  /\ Hits("monsters", m) /\ state[m] = "Skill" /\ ~cool[m]
  /\ target[m] # NoObject /\ InReach(m)
  /\ OnDamaged(target[m], m)
  /\ cool' = [cool EXCEPT ![m] = TRUE]
  /\ UNCHANGED <<dir, jobs>>

(* or the end of the cool-down. *)
MonsterCools(m) ==
  /\ Turn("monsters", m) /\ state[m] = "Skill" /\ cool[m]
  /\ cool' = [cool EXCEPT ![m] = FALSE]
  /\ UNCHANGED <<grid, pos, hp, state, target, dir, jobs, modified, seen>>

ArrowWaits(a) ==
  /\ Turn("projectiles", a)
  /\ UNCHANGED <<grid, pos, creatures, dir, jobs, modified, seen>>

ArrowFlies(a) ==
  LET dest == Front(pos[a], dir[a])
  IN  /\ Turn("projectiles", a)
      /\ CanGo(grid, dest)
      /\ pos' = [pos EXCEPT ![a] = dest]
      /\ TellMove(a, dest)
      /\ UNCHANGED <<grid, creatures, dir, jobs, modified>>

(* Mutant: HandleLeaveGame is called there and then. *)
ArrowHitsInline(a) ==
  /\ loop = "projectiles" /\ a \in todo
  /\ ~CanGo(grid, Front(pos[a], dir[a]))
  /\ todo' = todo \ {a}
  /\ projectiles' = projectiles \ {a} /\ inRoom' = inRoom \ {a}
  /\ modified' = modified \cup {"projectiles"}
  /\ TellLeave(a)
  /\ UNCHANGED <<players, monsters, grid, pos, creatures, dir, jobs, updateDue, loop, visits>>

(* It hits somebody, a wall or the end of the map, and posts its leaving. *)
ArrowHits(a) ==
  LET dest == Front(pos[a], dir[a])
  IN  /\ Hits("projectiles", a)
      /\ ~CanGo(grid, dest)
      /\ IF Find(dest) # NoObject THEN OnDamaged(Find(dest), a) ELSE NoDamage
      /\ jobs' = Append(jobs, a)
      /\ UNCHANGED <<cool, dir>>

(* HandleLeaveGame(projectile); the arrow is nobody's after that. *)
LeaveProjectile ==
  /\ Free /\ jobs # <<>> /\ Head(jobs) \in Arrow
  /\ LET a == Head(jobs)
     IN  /\ projectiles' = projectiles \ {a}
         /\ inRoom' = inRoom \ {a}
         /\ pos' = [pos EXCEPT ![a] = Spawn]
         /\ dir' = [dir EXCEPT ![a] = Down]
         /\ TellLeave(a)
  /\ jobs' = Tail(jobs)
  /\ UNCHANGED <<players, monsters, grid, creatures, updateDue, loop, todo, modified, visits>>

-----------------------------------------------------------------------------

SessionJob(p) ==
  \/ EnterPlayer(p) \/ LeavePlayer(p) \/ HandleSkillAuto(p)
  \/ \E c \in Cell, st \in MoveState : HandleMove(p, c, st)
  \/ \E a \in Arrow, d \in Direction : HandleSkillProjectile(p, a, d)

MonsterUpdate(m) ==
  \/ MonsterWaits(m) \/ MonsterGivesUp(m) \/ MonsterAims(m) \/ MonsterStopsSkill(m)
  \/ MonsterMoves(m) \/ MonsterAttacks(m) \/ MonsterCools(m)
  \/ \E p \in Player : UpdateIdle(m, p)

ArrowActs(a) == ArrowFlies(a) \/ ArrowHits(a)

RoomJob ==
  \/ TimerFires \/ Update \/ UpdateProjectiles \/ UpdateEnd \/ LeaveProjectile
  \/ \E m \in Monster : MonsterUpdate(m)
  \/ \E a \in Arrow : ArrowWaits(a) \/ ArrowActs(a)

Next == RoomJob \/ \E p \in Player : SessionJob(p)

Spec == Init /\ [][Next]_vars

-----------------------------------------------------------------------------
(* The types of the variables; everybody is alive between two jobs. *)
TypeOK ==
  /\ players \subseteq Player /\ monsters = Monster /\ projectiles \subseteq Arrow
  /\ inRoom \subseteq Object
  /\ grid \in [Cell -> Creature \cup {NoObject}]
  /\ pos \in [Object -> Cell]
  /\ hp \in [Creature -> Nat] /\ \A o \in Creature : hp[o] \in 1..MaxHp[o]
  /\ state \in [Creature -> {"Idle", "Moving", "Skill"}]
  /\ dir \in [Arrow -> Direction]
  /\ target \in [Monster -> Player \cup {NoObject}]
  /\ cool \in [Monster -> BOOLEAN]
  /\ jobs \in Seq(Arrow \cup {"Update"}) /\ updateDue \in BOOLEAN
  /\ loop \in {"none", "monsters", "projectiles"} /\ todo \subseteq Object
  /\ modified \subseteq {"players", "monsters", "projectiles"}
  /\ entered \subseteq Player /\ gone \subseteq entered
  /\ seen \in [Player -> [Object -> Cell \cup {NoCell}]]

(***************************************************************************)
(* An object's _room says that it is in the room exactly when one of the   *)
(* room's containers has it.                                               *)
(***************************************************************************)
RoomPointers == inRoom = Members

(***************************************************************************)
(* What the grid shows on a cell is in the room, is there, and the cell is *)
(* no wall; so an object is on at most one cell, and no cell keeps one     *)
(* that has left.  (The converse fails: an object whose move was refused,  *)
(* or which spawned on an occupied cell, is in the room and on no cell.)   *)
(***************************************************************************)
GridSound ==
  \A c \in Cell : grid[c] # NoObject =>
    grid[c] \in players \cup monsters /\ pos[grid[c]] = c /\ c \notin Wall

(* Update's range-for loops: nothing is inserted into or erased from the   *)
(* unordered_map that is being iterated over.                              *)
IteratorsValid == loop \notin modified

(***************************************************************************)
(* A job that makes an arrow leave finds it in _projectiles (operator[]    *)
(* would insert a null pointer, which HandleLeaveGame then dereferences),  *)
(* and every arrow has at most one such job.                               *)
(***************************************************************************)
LeaveFindsArrow ==
  \A i \in 1..Len(jobs) : jobs[i] \in Arrow =>
    jobs[i] \in projectiles /\ \A k \in 1..Len(jobs) : jobs[k] = jobs[i] => k = i

(* What the packets tell a player in the room is the room: the others that *)
(* are in it, each on the cell where the server has it, and nobody else.   *)
ViewExact ==
  \A p \in players : \A o \in Object \ {p} :
    seen[p][o] = IF o \in Members THEN pos[o] ELSE NoCell

(***************************************************************************)
(* A player who has left never comes back: not when a monster, whose       *)
(* _target nobody clears, goes on hitting the one that is gone - the       *)
(* deadly hit would make the dead enter the room again.                    *)
(***************************************************************************)
GoneStaysGone ==
  \A p \in gone : p \notin Members \cup inRoom /\ \A c \in Cell : grid[c] # p

(* On a map without cells that are cut off, a monster that is updated goes *)
(* one cell at most, whoever stands in its way.                            *)
MonstersStep ==
  [][loop = "monsters" =>
       \A m \in Monster : pos'[m] # pos[m] => CellDist(pos'[m], pos[m]) = 1]_vars

(* FindPath's properties, of all walls there can be on this map.  They are *)
(* about no variable; the runs look at them until somebody has entered.    *)
RoomFindsPath == entered = {} => FindsPath
RoomStrayPath == entered = {} => StrayPath

=============================================================================
