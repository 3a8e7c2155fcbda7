------------------------------ MODULE FindPath ------------------------------
(***************************************************************************)
(* GameServer/Map.cpp, Map::FindPath and CalcCellPathFromParent, as a      *)
(* function of the walls, the start and the destination.  It only looks at *)
(* walls: its one caller, Monster::UpdateMoving, passes checkObject =      *)
(* false.  std::priority_queue may give any of several cells of equal F,   *)
(* so that the result is one of a set of paths.                            *)
(***************************************************************************)
EXTENDS Integers, Sequences, FiniteSets, TLC

CONSTANTS MaxX, MaxY   \* the map is 0..MaxX by 0..MaxY

Cell == (0..MaxX) \X (0..MaxY)
CellCount == (MaxX + 1) * (MaxY + 1)

(* The cell whose Pos is (0, 0), which is what Pos() makes. *)
Origin == <<0, MaxY>>

Abs(n) == IF n < 0 THEN -n ELSE n
CellDist(c, d) == Abs(c[1] - d[1]) + Abs(c[2] - d[2])
Neighbours(c) == {n \in Cell : CellDist(n, c) = 1}

(* The F of a cell other than the start; G is 0. *)
Cost(c, to) == 10 * ((to[1] - c[1]) * (to[1] - c[1]) + (to[2] - c[2]) * (to[2] - c[2]))

(* INT_MAX *)
NoCost == 10 * CellCount * CellCount

(***************************************************************************)
(* The locals of FindPath.  As F depends on the cell alone, copies of an   *)
(* entry in pq are equal, and all but the first are skipped when they come *)
(* to the top: pq is a set.                                                *)
(***************************************************************************)
SearchStart(from, to) ==
  [closed |-> {},
   open |-> [c \in Cell |-> IF c = from THEN 10 * CellDist(from, to) ELSE NoCost],
   parent |-> [c \in Cell |-> IF c = from THEN from ELSE Origin],
   pq |-> {from}]

(* Mutant: walls are forgotten. *)
VisitAnything(walls, c, to) == TRUE

CanVisit(walls, c, to) == c = to \/ c \notin walls

(* Mutant: cells that are closed get a new parent too. *)
FoundFromAll(s, walls, node, to) ==
  {c \in Neighbours(node) : CanVisit(walls, c, to) /\ ~ s.open[c] < Cost(c, to)}

(* The neighbours of the node that enter pq, with the node as parent. *)
Found(s, walls, node, to) ==
  {c \in Neighbours(node) : /\ CanVisit(walls, c, to)
                            /\ c \notin s.closed
                            /\ ~ s.open[c] < Cost(c, to)}

(* One round of the while loop: it ends at the destination. *)
Visit(s, walls, node, to) ==
  LET found == IF node = to THEN {} ELSE Found(s, walls, node, to)
  IN  [closed |-> s.closed \cup {node},
       open |-> [c \in Cell |-> IF c \in found THEN Cost(c, to) ELSE s.open[c]],
       parent |-> [c \in Cell |-> IF c \in found THEN node ELSE s.parent[c]],
       pq |-> (s.pq \ {node}) \cup found]

Tops(s) == {c \in s.pq : \A d \in s.pq : s.open[c] <= s.open[d]}

Done(s, to) == s.pq = {} \/ to \in s.closed

(* Every round closes a cell, so that CellCount rounds are enough. *)
Searches(walls, from, to) ==
  LET after[k \in 0..CellCount] ==
        IF k = 0 THEN {SearchStart(from, to)}
        ELSE UNION {IF Done(s, to) THEN {s} ELSE {Visit(s, walls, node, to) : node \in Tops(s)} :
                     s \in after[k - 1]}
  IN  after[CellCount]

(* CalcCellPathFromParent.  It would not end if the parents went in a      *)
(* circle; a path longer than CellCount stands for that.                   *)
PathFromParent(parent, to) ==
  LET up[k \in 0..CellCount] == IF k = 0 THEN to ELSE parent[up[k - 1]]
      AtRoot(k) == parent[up[k]] = up[k] \/ k = CellCount
      steps == CHOOSE k \in 0..CellCount : AtRoot(k) /\ \A i \in 0..(k - 1) : ~AtRoot(i)
  IN  [i \in 1..(steps + 1) |-> up[steps + 1 - i]]

FindPaths(walls, from, to) ==
  {PathFromParent(s.parent, to) : s \in Searches(walls, from, to)}

-----------------------------------------------------------------------------
(* The reference: a path, and what is connected with a cell. *)

IsPath(path, walls, from, to) ==
  /\ path[1] = from /\ path[Len(path)] = to
  /\ \A i \in 1..Len(path) : path[i] \in Cell \ walls
  /\ \A i \in 1..Len(path) - 1 : CellDist(path[i], path[i + 1]) = 1
  /\ \A i, k \in 1..Len(path) : path[i] = path[k] => i = k

Component(walls, from) ==
  LET within[k \in 0..CellCount] ==
        IF k = 0 THEN {from}
        ELSE {from} \cup UNION {Neighbours(c) \ walls : c \in within[k - 1]}
  IN  within[CellCount]

(***************************************************************************)
(* On every map, for every start and every destination that can be reached *)
(* from it, FindPath returns a path to it: neighbouring cells, no walls,   *)
(* no cell twice; so CalcCellPathFromParent ends.  Where no wall is in the *)
(* way the path is a shortest one, although the search is greedy (G is     *)
(* always 0).                                                              *)
(***************************************************************************)
FindsPath ==
  \A walls \in SUBSET Cell : \A from \in Cell \ walls : \A to \in Component(walls, from) :
    \A path \in FindPaths(walls, from, to) :
      /\ IsPath(path, walls, from, to)
      /\ walls = {} => Len(path) = CellDist(from, to) + 1

(***************************************************************************)
(* For a destination that cannot be reached the answer is not empty: the   *)
(* cell of index 0 and the destination, with the way to that cell before   *)
(* them if there is one.  Its second cell is the destination itself, or a  *)
(* neighbour of the start on the way to a corner of the map.               *)
(***************************************************************************)
StrayPath ==
  \A walls \in SUBSET Cell : \A from \in Cell \ walls :
    \A to \in Cell \ (walls \cup Component(walls, from)) :
      \A path \in FindPaths(walls, from, to) :
        \/ to = Origin /\ path = <<to>>
        \/ Origin \notin Component(walls, from) /\ path = <<Origin, to>>
        \/ IsPath(SubSeq(path, 1, Len(path) - 1), walls, from, Origin)

=============================================================================
