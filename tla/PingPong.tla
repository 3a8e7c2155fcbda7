------------------------------ MODULE PingPong ------------------------------
(***************************************************************************)
(* The heartbeat: Room::SendPing, a job that re-reserves itself, and       *)
(* Handle_C2S_PONG, which runs on a network worker at the same time.  The  *)
(* two share the session's atomics _lastPingTime and _pongTime and nothing *)
(* else.  Modelled for one player of the room: the loop of SendPing treats *)
(* the players independently.                                              *)
(***************************************************************************)
EXTENDS Integers

CONSTANTS pingInterval,  \* Room::_pingInterval, 10000 ms
          pongTimeout,   \* Room::_pongTimeout, 4000 ms
          Latency,       \* bound on the delay of a due job, and on its duration
          MaxNow,        \* bound on the clock
          Width          \* 2^64, the modulus of uint64

ASSUME PingAssumption ==
  /\ pingInterval \in Nat /\ pongTimeout \in Nat /\ Latency \in Nat /\ MaxNow \in Nat \ {0}
  /\ pongTimeout < pingInterval
  /\ Width \in Nat /\ Width > 2 * (MaxNow + pingInterval)

VARIABLES
  now,        \* GetTickCount64
  due,        \* executeTick of the next SendPing
  pc,         \* where SendPing is
  pingNow,    \* SendPing's local now
  seenPing,   \* SendPing's local lastPing
  lastPing,   \* GameSession::_lastPingTime
  pongTime,   \* GameSession::_pongTime
  connected,  \* Session::_connected
  pings,      \* PINGs on the way to the client, by number
  pongs,      \* PONGs on the way to the server, by the number they answer
  pongNow,    \* Handle_C2S_PONG: the time it has read; 0 when it is not running
  pongFor,    \* the PING it answers
  number,     \* history: number of the last PING prepared
  answered,   \* history: when the PONG for it was stored; 0 if it was not
  diedAt      \* when the client stopped answering; 0 while it has not

roomVars == <<due, pc, pingNow, seenPing>>
wireVars == <<pings, pongs, diedAt>>
pongVars == <<pongNow, pongFor>>
vars == <<now, roomVars, lastPing, pongTime, connected, wireVars, pongVars, number, answered>>

Init ==
  /\ now = 1
  /\ due \in 1..pingInterval  \* the player entered some time after the last ping
  /\ pc = "idle" /\ pingNow = 0 /\ seenPing = 0
  /\ lastPing = 0 /\ pongTime = 0 /\ connected = TRUE
  /\ pings = {} /\ pongs = {} /\ pongNow = 0 /\ pongFor = 0
  /\ number = 0 /\ answered = 0 /\ diedAt = 0

Elapsed(a, b) == (a - b) % Width

Goto(l) == pc' = l

-----------------------------------------------------------------------------
(* Room::SendPing, a job of the room *)

Start ==
  /\ pc = "idle" /\ now >= due
  /\ pingNow' = now
  /\ Goto("loadping")
  /\ UNCHANGED <<now, due, seenPing, lastPing, pongTime, connected, wireVars, pongVars,
                 number, answered>>

LoadPing ==
  /\ pc = "loadping"
  /\ seenPing' = lastPing
  /\ Goto("loadpong")
  /\ UNCHANGED <<now, due, pingNow, lastPing, pongTime, connected, wireVars, pongVars,
                 number, answered>>

(* Mutant: no answer is no reason. *)
TimedOutWhenLate == seenPing > 0 /\ pongTime # 0 /\ Elapsed(pongTime, seenPing) > pongTimeout

(* Mutant: the first ping is not excepted. *)
TimedOutAtFirst == pongTime = 0 \/ Elapsed(pongTime, seenPing) > pongTimeout

(* The first ping has no predecessor to check. *)
TimedOut ==
  seenPing > 0 /\ (pongTime = 0 \/ Elapsed(pongTime, seenPing) > pongTimeout)

LoadPong ==
  /\ pc = "loadpong"
  /\ Goto(IF TimedOut THEN "timeout" ELSE "storeping")
  /\ UNCHANGED <<now, due, pingNow, seenPing, lastPing, pongTime, connected, wireVars,
                 pongVars, number, answered>>

StorePing ==
  /\ pc = "storeping"
  /\ lastPing' = pingNow
  /\ number' = number + 1 /\ answered' = 0
  /\ Goto("storepong")
  /\ UNCHANGED <<now, due, pingNow, seenPing, pongTime, connected, wireVars, pongVars>>

(* Mutant: the old answer is kept. *)
StorePongKeep ==
  /\ pc = "storepong"
  /\ Goto("broadcast")
  /\ UNCHANGED <<now, due, pingNow, seenPing, lastPing, pongTime, connected, wireVars,
                 pongVars, number, answered>>

StorePong ==
  /\ pc = "storepong"
  /\ pongTime' = 0
  /\ Goto("broadcast")
  /\ UNCHANGED <<now, due, pingNow, seenPing, lastPing, connected, wireVars, pongVars,
                 number, answered>>

(* After the loop over the players: Disconnect(L"Pong timeout") *)
Timeout ==
  /\ pc = "timeout"
  /\ connected' = FALSE
  /\ Goto("broadcast")
  /\ UNCHANGED <<now, due, pingNow, seenPing, lastPing, pongTime, wireVars, pongVars,
                 number, answered>>

(* Broadcast, which a closed session ignores, and the next reservation *)
SendPing ==
  /\ pc = "broadcast"
  /\ pings' = IF connected THEN pings \cup {number} ELSE pings
  /\ due' = now + pingInterval
  /\ Goto("idle")
  /\ UNCHANGED <<now, pingNow, seenPing, lastPing, pongTime, connected, pongs, diedAt,
                 pongVars, number, answered>>

-----------------------------------------------------------------------------
(* External: the client (DummyClient, Handle_S2C_PING) answers each ping   *)
(* once, whenever the network lets it; or it is gone.                      *)

Answer(k) ==
  /\ k \in pings /\ diedAt = 0
  /\ pings' = pings \ {k}
  /\ pongs' = pongs \cup {k}
  /\ UNCHANGED <<now, roomVars, lastPing, pongTime, connected, diedAt, pongVars, number, answered>>

(* What it has sent is lost with it. *)
Die ==
  /\ diedAt = 0
  /\ diedAt' = now
  /\ pongs' = {}
  /\ UNCHANGED <<now, roomVars, lastPing, pongTime, connected, pings, pongVars, number, answered>>

-----------------------------------------------------------------------------
(* Handle_C2S_PONG: the clock is read first, *)

ReadClock(k) ==
  /\ connected /\ k \in pongs /\ pongNow = 0
  /\ pongs' = pongs \ {k}
  /\ pongNow' = now /\ pongFor' = k
  /\ UNCHANGED <<now, roomVars, lastPing, pongTime, connected, pings, diedAt, number, answered>>

(* and stored when no answer is there yet. *)
CompareExchange ==
  /\ pongNow # 0
  /\ pongTime' = IF pongTime = 0 THEN pongNow ELSE pongTime
  /\ answered' = IF pongFor = number THEN now ELSE answered
  /\ pongNow' = 0 /\ pongFor' = 0
  /\ UNCHANGED <<now, roomVars, lastPing, connected, wireVars, number>>

(* A due job starts, and ends, within Latency. *)
Tick ==
  /\ now < MaxNow
  /\ now < (IF pc = "idle" THEN due ELSE pingNow) + Latency
  /\ now' = now + 1
  /\ UNCHANGED <<roomVars, lastPing, pongTime, connected, wireVars, pongVars, number, answered>>

-----------------------------------------------------------------------------

Next ==
  \/ Start \/ LoadPing \/ LoadPong \/ StorePing \/ StorePong \/ Timeout \/ SendPing
  \/ (\E k \in pings : Answer(k)) \/ (\E k \in pongs : ReadClock(k))
  \/ CompareExchange \/ Die \/ Tick

Spec == Init /\ [][Next]_vars

-----------------------------------------------------------------------------
(* The types of the variables. *)
TypeOK ==
  /\ now \in 1..MaxNow /\ due \in 1..(MaxNow + pingInterval)
  /\ pc \in {"idle", "loadping", "loadpong", "storeping", "storepong", "timeout", "broadcast"}
  /\ pingNow \in 0..now /\ seenPing \in 0..now
  /\ lastPing \in 0..now /\ pongTime \in 0..now
  /\ connected \in BOOLEAN
  /\ pings \subseteq 1..number /\ pongs \subseteq 1..number
  /\ pongNow \in 0..now /\ pongFor \in 0..number
  /\ number \in Nat /\ answered \in 0..now /\ diedAt \in 0..now

(***************************************************************************)
(* The unsigned pongTime - lastPing (Room.cpp:51) does not wrap around: a  *)
(* stored answer is never older than the ping it is compared with, also    *)
(* when the handler read the clock long before it stores, or SendPing's    *)
(* two stores have an answer between them.                                 *)
(***************************************************************************)
NoWrapAround ==
  pc = "loadpong" /\ seenPing > 0 /\ pongTime # 0 => pongTime >= seenPing

(***************************************************************************)
(* A client is only cut off when its answer to the last ping was not       *)
(* stored, or was stored more than pongTimeout after that ping was         *)
(* prepared - whatever SendPing's loads and stores and the handler's       *)
(* compare_exchange interleave to.                                         *)
(***************************************************************************)
NoFalseTimeout ==
  [][connected /\ ~connected' =>
       number > 0 /\ (answered = 0 \/ answered - lastPing > pongTimeout)]_vars

(***************************************************************************)
(* A client that is gone is disconnected: one that vanishes right after it *)
(* has answered a ping survives the next check and fails the one after.    *)
(* No smaller bound holds.                                                 *)
(***************************************************************************)
ZombieBound ==
  diedAt # 0 /\ connected => now - diedAt <= 2 * (pingInterval + 2 * Latency)

=============================================================================
