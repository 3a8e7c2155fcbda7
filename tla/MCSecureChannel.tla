-------------------------- MODULE MCSecureChannel --------------------------
(* Instances of SecureChannel for TLC. *)
EXTENDS SecureChannel, TLC

(* DummyClient's main thread sends moves and skills, a worker the pong; on *)
(* the server a room's job sends, on any worker.                           *)
Sends == [t \in Thread |-> IF t = <<"client", "send">> THEN 2 ELSE 1]

MainThread == {<<"client", "send">>}

=============================================================================
