------------------------------- MODULE MCRoom -------------------------------
(* Instances of Room for TLC. *)
EXTENDS Room

CONSTANT m1

Symmetry == Permutations(Player)

(* One monster, where Room::Init places it *)
HomeOne == m1 :> <<1, 1>>

(* A hit kills a player; a monster survives one. *)
HitPoints == [o \in Creature |-> IF o \in Monster THEN 2 ELSE 1]

(* Three free cells in the corner, the last two next to walls. *)
Corner == Cell \ {<<0, 0>>, <<1, 0>>, <<1, 1>>}

=============================================================================
