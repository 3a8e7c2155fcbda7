--------------------------- MODULE MCWorkerThread ---------------------------
(* Instances of WorkerThread for TLC. *)
EXTENDS WorkerThread, TLC

CONSTANTS q1, j1  \* the room and the job of the timer Room::Init reserves

(* One timer, due one tick after the start. *)
FirstTimer == {[executeTick |-> 1, owner |-> q1, job |-> j1]}

=============================================================================
