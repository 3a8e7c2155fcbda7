------------------------------- MODULE Lobby -------------------------------
(***************************************************************************)
(* How players get into rooms and out of them: GameServer/GameSession.cpp, *)
(* ServerPacketHandler.cpp, RoomManager, ObjectManager, GameSessionManager *)
(* and the membership part of Room.cpp.  A session has two activities that *)
(* may run at once on two workers: OnRecv with its packet handlers (one at *)
(* a time, Session.tla's OneReceiver), and OnDisconnected, once, after     *)
(* Disconnect (ReleaseFindsSession).  What they have to say to a room goes *)
(* through its job queue, of which only ActorQueue.tla's promise is used.  *)
(* A client sends C2S_ENTER_GAME, C2S_MOVE and C2S_SKILL in any order.     *)
(***************************************************************************)
EXTENDS Naturals, Sequences, FiniteSets

CONSTANTS Session,    \* connections; each is made once
          Player,     \* players ObjectManager may make
          Mover,      \* bound: players that are moved, each once
          roomCount,  \* ConfigManager::GetRoomCount
          MaxEnter,   \* bound on the C2S_ENTER_GAME packets of a session
          NoPlayer

Room == 1..roomCount
Job == [type : {"enter", "leave"}, player : Player] \cup [type : {"move"}, player : Mover]

ASSUME RoomCountAssumption == roomCount \in Nat \ {0} /\ MaxEnter \in Nat
ASSUME PlayerAssumption == NoPlayer \notin Player /\ Mover \subseteq Player
ASSUME SessionAssumption == Session # {}

VARIABLES
  connected,   \* Session::_connected
  armed,       \* a WSARecv is outstanding
  recv,        \* where OnRecv is
  closing,     \* where OnDisconnected is
  myPlayer,    \* GameSession::myPlayer
  player,      \* the handler's local player
  targetRoom,  \* the handler's local targetRoom, or room
  leaver,      \* OnDisconnected's local player
  entersSent,  \* C2S_ENTER_GAME packets handled
  roomIndex,   \* the handler's static counter
  sessions,    \* GameSessionManager::_sessions
  registry,    \* ObjectManager::_players
  owner,       \* owner[p]: Player::session
  members,     \* members[r]: Room::_players
  roomOf,      \* roomOf[p]: GameObject::_room
  unsent, mailbox, ran, \* the rooms' job queues, see ActorQueue
  late,      \* history: players whose entering was posted after OnDisconnected
             \* had read myPlayer
  replaced,  \* history: players whose session's myPlayer was overwritten
  early      \* history: sessions that had a packet refused before C2S_ENTER_GAME

Queues == INSTANCE ActorQueue WITH Queue <- Room
queues == <<unsent, mailbox, ran>>
sessionVars == <<connected, armed, closing, leaver, sessions>>
handlerVars == <<recv, myPlayer, player, targetRoom, entersSent, roomIndex>>
objectVars == <<registry, owner>>
roomVars == <<members, roomOf>>
historyVars == <<late, replaced, early>>
vars == <<sessionVars, handlerVars, objectVars, roomVars, queues, historyVars>>

NoRoom == 0
None == [s \in Session |-> NoPlayer]

Init ==
  /\ connected = [s \in Session |-> FALSE]
  /\ armed = [s \in Session |-> FALSE]
  /\ recv = [s \in Session |-> "new"]
  /\ closing = [s \in Session |-> "no"]
  /\ myPlayer = None /\ player = None /\ leaver = None
  /\ targetRoom = [s \in Session |-> NoRoom]
  /\ entersSent = [s \in Session |-> 0]
  /\ roomIndex = 0
  /\ sessions = {} /\ registry = {}
  /\ owner = [p \in Player |-> CHOOSE s \in Session : TRUE]
  /\ members = [r \in Room |-> {}]
  /\ roomOf = [p \in Player |-> NoRoom]
  /\ Queues!Init
  /\ late = {} /\ replaced = {} /\ early = {}

GotoRecv(s, l) == recv' = [recv EXCEPT ![s] = l]
GotoClosing(s, l) == closing' = [closing EXCEPT ![s] = l]

(* room->DoAsync *)
DoAsync(r, type, p) == Queues!Send(r, [type |-> type, player |-> p])

-----------------------------------------------------------------------------
(* The session, as far as it matters here (Session.tla). *)

(* OnConnected: GSessionManager.Add.  Then the first RegisterRecv. *)
OnConnected(s) ==
  /\ recv[s] = "new"
  /\ connected' = [connected EXCEPT ![s] = TRUE]
  /\ armed' = [armed EXCEPT ![s] = TRUE]
  /\ sessions' = sessions \cup {s}
  /\ GotoRecv(s, "out")
  /\ UNCHANGED <<closing, leaver, myPlayer, player, targetRoom, entersSent, roomIndex,
                 objectVars, roomVars, queues, historyVars>>

(* Only the first caller has DisconnectEx called. *)
Disconnect(s) ==
  /\ connected' = [connected EXCEPT ![s] = FALSE]
  /\ closing' = IF connected[s] THEN [closing EXCEPT ![s] = "pending"] ELSE closing

(* Mutant: the next receive is registered before OnRecv is called. *)
ProcessRecvKeepArmed(s) ==
  /\ recv[s] = "out" /\ armed[s]
  /\ GotoRecv(s, "in")
  /\ UNCHANGED <<sessionVars, myPlayer, player, targetRoom, entersSent, roomIndex,
                 objectVars, roomVars, queues, historyVars>>

(* Data arrive - also some that arrive when the session is disconnected. *)
ProcessRecv(s) ==
  /\ recv[s] = "out" /\ armed[s]
  /\ armed' = [armed EXCEPT ![s] = FALSE]
  /\ GotoRecv(s, "in")
  /\ UNCHANGED <<connected, closing, leaver, sessions, myPlayer, player, targetRoom,
                 entersSent, roomIndex, objectVars, roomVars, queues, historyVars>>

(* 0 bytes: the client has closed. *)
ProcessRecvZero(s) ==
  /\ armed[s]
  /\ armed' = [armed EXCEPT ![s] = FALSE]
  /\ Disconnect(s)
  /\ UNCHANGED <<leaver, sessions, handlerVars, objectVars, roomVars, queues, historyVars>>

(* OnRecv is through with the data: RegisterRecv. *)
RegisterRecv(s) ==
  /\ recv[s] = "in"
  /\ armed' = [armed EXCEPT ![s] = connected[s]]
  /\ GotoRecv(s, "out")
  /\ UNCHANGED <<connected, closing, leaver, sessions, myPlayer, player, targetRoom,
                 entersSent, roomIndex, objectVars, roomVars, queues, historyVars>>

(* The rate limiter refuses a MOVE, whatever came before it, and OnRecv    *)
(* goes on with what follows.                                              *)
RejectPacket(s) ==
  /\ recv[s] = "in"
  /\ Disconnect(s)
  /\ early' = IF entersSent[s] = 0 THEN early \cup {s} ELSE early
  /\ UNCHANGED <<armed, leaver, sessions, handlerVars, objectVars, roomVars, queues,
                 late, replaced>>

(* A job of the room: no pong, or Send found the connection reset. *)
RoomDisconnects(s) ==
  /\ \E r \in Room : \E p \in members[r] : owner[p] = s
  /\ connected[s]
  /\ Disconnect(s)
  /\ UNCHANGED <<armed, leaver, sessions, handlerVars, objectVars, roomVars, queues, historyVars>>

-----------------------------------------------------------------------------
(* Handle_C2S_ENTER_GAME *)

(* ObjectManager::Add and Create *)
AddPlayer(s) ==
  /\ recv[s] = "in" /\ entersSent[s] < MaxEnter
  /\ entersSent' = [entersSent EXCEPT ![s] = @ + 1]
  /\ \E p \in Player :
       /\ [type |-> "enter", player |-> p] \in unsent
       /\ \A t \in Session : player[t] # p
       /\ player' = [player EXCEPT ![s] = p]
       /\ registry' = registry \cup {p}
       /\ owner' = [owner EXCEPT ![p] = s]
  /\ GotoRecv(s, "store")
  /\ UNCHANGED <<sessionVars, myPlayer, targetRoom, roomIndex, roomVars, queues, historyVars>>

(* Mutant: the session does not get to know its player. *)
StorePlayerNot(s) ==
  /\ recv[s] = "store"
  /\ GotoRecv(s, "choose")
  /\ UNCHANGED <<sessionVars, myPlayer, player, targetRoom, entersSent, roomIndex,
                 objectVars, roomVars, queues, historyVars>>

StorePlayer(s) ==
  /\ recv[s] = "store"
  /\ myPlayer' = [myPlayer EXCEPT ![s] = player[s]]
  /\ replaced' = replaced \cup ({myPlayer[s]} \ {NoPlayer})
  /\ GotoRecv(s, "choose")
  /\ UNCHANGED <<sessionVars, player, targetRoom, entersSent, roomIndex, objectVars,
                 roomVars, queues, late, early>>

(* roomIndex++ is atomic; the rooms are all there before the first session. *)
ChooseRoom(s) ==
  /\ recv[s] = "choose"
  /\ targetRoom' = [targetRoom EXCEPT ![s] = (roomIndex % roomCount) + 1]
  /\ roomIndex' = roomIndex + 1
  /\ GotoRecv(s, "post")
  /\ UNCHANGED <<sessionVars, myPlayer, player, entersSent, objectVars, roomVars, queues,
                 historyVars>>

PostEnter(s) ==
  /\ recv[s] = "post"
  /\ DoAsync(targetRoom[s], "enter", player[s])
  /\ late' = IF closing[s] \in {"no", "pending"} THEN late ELSE late \cup {player[s]}
  /\ GotoRecv(s, "in")
  /\ UNCHANGED <<sessionVars, myPlayer, player, targetRoom, entersSent, roomIndex,
                 objectVars, roomVars, replaced, early>>

(* Handle_C2S_MOVE, and Handle_C2S_SKILL: the room the player is in now,   *)
(* if any,                                                                 *)
BeginMove(s) ==
  /\ recv[s] = "in"
  /\ myPlayer[s] # NoPlayer /\ roomOf[myPlayer[s]] # NoRoom
  /\ [type |-> "move", player |-> myPlayer[s]] \in unsent
  /\ targetRoom' = [targetRoom EXCEPT ![s] = roomOf[myPlayer[s]]]
  /\ GotoRecv(s, "move")
  /\ UNCHANGED <<sessionVars, myPlayer, player, entersSent, roomIndex, objectVars, roomVars,
                 queues, historyVars>>

(* gets a job, although the player may have left it meanwhile. *)
PostMove(s) ==
  /\ recv[s] = "move"
  /\ DoAsync(targetRoom[s], "move", myPlayer[s])
  /\ GotoRecv(s, "in")
  /\ UNCHANGED <<sessionVars, myPlayer, player, targetRoom, entersSent, roomIndex,
                 objectVars, roomVars, historyVars>>

-----------------------------------------------------------------------------
(* GameSession::OnDisconnected *)

LoadPlayer(s) ==
  /\ closing[s] = "pending"
  /\ leaver' = [leaver EXCEPT ![s] = myPlayer[s]]
  /\ GotoClosing(s, IF myPlayer[s] = NoPlayer THEN "unlist" ELSE "leave")
  /\ UNCHANGED <<connected, armed, sessions, handlerVars, objectVars, roomVars, queues,
                 historyVars>>

(* Mutant: the room is asked only if the player is in it already. *)
PostLeaveIfInRoom(s) ==
  /\ closing[s] = "leave"
  /\ IF roomOf[leaver[s]] # NoRoom
     THEN DoAsync(roomOf[leaver[s]], "leave", leaver[s])
     ELSE UNCHANGED queues
  /\ GotoClosing(s, "remove")
  /\ UNCHANGED <<connected, armed, leaver, sessions, handlerVars, objectVars, roomVars,
                 historyVars>>

(* Find(1), whichever room the player is in. *)
PostLeave(s) ==
  /\ closing[s] = "leave"
  /\ DoAsync(1, "leave", leaver[s])
  /\ GotoClosing(s, "remove")
  /\ UNCHANGED <<connected, armed, leaver, sessions, handlerVars, objectVars, roomVars,
                 historyVars>>

(* Mutant: the player that is the session's now is taken off the registry. *)
RemoveCurrentPlayer(s) ==
  /\ closing[s] = "remove"
  /\ registry' = registry \ {myPlayer[s]}
  /\ GotoClosing(s, "unlist")
  /\ UNCHANGED <<connected, armed, leaver, sessions, handlerVars, owner, roomVars, queues,
                 historyVars>>

(* ObjectManager::Remove *)
RemovePlayer(s) ==
  /\ closing[s] = "remove"
  /\ registry' = registry \ {leaver[s]}
  /\ GotoClosing(s, "unlist")
  /\ UNCHANGED <<connected, armed, leaver, sessions, handlerVars, owner, roomVars, queues,
                 historyVars>>

(* GSessionManager.Remove *)
Unlist(s) ==
  /\ closing[s] = "unlist"
  /\ sessions' = sessions \ {s}
  /\ GotoClosing(s, "done")
  /\ UNCHANGED <<connected, armed, leaver, handlerVars, objectVars, roomVars, queues, historyVars>>

-----------------------------------------------------------------------------
(* The room's jobs *)

LeaveGame(r, p) ==
  /\ members' = [members EXCEPT ![r] = @ \ {p}]
  /\ roomOf' = IF p \in members[r] THEN [roomOf EXCEPT ![p] = NoRoom] ELSE roomOf

EnterGame(r, p) ==
  /\ members' = [members EXCEPT ![r] = @ \cup {p}]
  /\ roomOf' = [roomOf EXCEPT ![p] = r]

RunJob(r) ==
  /\ Queues!Run(r)
  /\ LET job == Head(mailbox[r])
     IN  \/ job.type = "enter" /\ EnterGame(r, job.player)
         \/ job.type = "leave" /\ LeaveGame(r, job.player)
         \/ job.type = "move" /\ UNCHANGED roomVars  \* Room.tla
  /\ UNCHANGED <<sessionVars, handlerVars, objectVars, historyVars>>

-----------------------------------------------------------------------------

Handler(s) ==
  \/ AddPlayer(s) \/ StorePlayer(s) \/ ChooseRoom(s) \/ PostEnter(s)
  \/ BeginMove(s) \/ PostMove(s)
Closing(s) == LoadPlayer(s) \/ PostLeave(s) \/ RemovePlayer(s) \/ Unlist(s)
Transport(s) ==
  \/ OnConnected(s) \/ ProcessRecv(s) \/ ProcessRecvZero(s) \/ RegisterRecv(s)
  \/ RejectPacket(s) \/ RoomDisconnects(s)

Next ==
  \/ \E s \in Session : Handler(s) \/ Closing(s) \/ Transport(s)
  \/ \E r \in Room : RunJob(r)

Spec == Init /\ [][Next]_vars

(* Jobs are run (ActorQueue's FairSpec, which JobQueue implements), and a  *)
(* callback that has begun ends.                                           *)
Fairness ==
  /\ \A r \in Room : WF_vars(RunJob(r))
  /\ \A s \in Session : WF_vars(Closing(s))

FairSpec == Spec /\ Fairness

-----------------------------------------------------------------------------
(* None of the jobs behind the i-th makes p leave. *)
Stays(p, r, i) ==
  \A k \in (i + 1)..Len(mailbox[r]) : mailbox[r][k] # [type |-> "leave", player |-> p]

(* Who is in room r when all the jobs that wait in its queue have run. *)
After(r) ==
  {p \in Player :
     \/ p \in members[r] /\ Stays(p, r, 0)
     \/ \E i \in 1..Len(mailbox[r]) :
          mailbox[r][i] = [type |-> "enter", player |-> p] /\ Stays(p, r, i)}

PlayersOf(s) == {p \in Player : owner[p] = s}

(* The players of s that OnDisconnected could not see: their entering was  *)
(* posted after it had looked, or another one was in their place.          *)
Missed(s) == late \cup (replaced \ {leaver[s]})

(* s is between AddPlayer and PostEnter. *)
Entering(s) == recv[s] \in {"store", "choose", "post"}

(* The types of the variables. *)
TypeOK ==
  /\ connected \in [Session -> BOOLEAN] /\ armed \in [Session -> BOOLEAN]
  /\ recv \in [Session -> {"new", "out", "in", "store", "choose", "post", "move"}]
  /\ closing \in [Session -> {"no", "pending", "leave", "remove", "unlist", "done"}]
  /\ myPlayer \in [Session -> Player \cup {NoPlayer}]
  /\ player \in [Session -> Player \cup {NoPlayer}]
  /\ leaver \in [Session -> Player \cup {NoPlayer}]
  /\ targetRoom \in [Session -> Room \cup {NoRoom}]
  /\ entersSent \in [Session -> 0..MaxEnter] /\ roomIndex \in Nat
  /\ sessions \subseteq Session /\ registry \subseteq Player
  /\ owner \in [Player -> Session]
  /\ members \in [Room -> SUBSET Player]
  /\ roomOf \in [Player -> Room \cup {NoRoom}]
  /\ unsent \subseteq Job /\ mailbox \in [Room -> Seq(Job)] /\ ran \in [Room -> Seq(Job)]
  /\ late \subseteq Player /\ replaced \subseteq Player /\ early \subseteq Session

(***************************************************************************)
(* Ghosts (PingPong.md:20-23: a connection that is cut must not leave a    *)
(* session behind that "shows to the other players as a ghost").  A        *)
(* session's end takes every player out of its room whose entering was     *)
(* posted before OnDisconnected looked at myPlayer, even if the job was    *)
(* still in the room's queue, or behind a move; but for a player that a    *)
(* second ENTER_GAME had put aside.  The code does leave those others as   *)
(* ghosts.                                                                 *)
(***************************************************************************)
NoGhost ==
  \A s \in Session : closing[s] \in {"remove", "unlist", "done"} =>
    \A r \in Room : PlayersOf(s) \cap After(r) \subseteq Missed(s)

(***************************************************************************)
(* Who is late?  Only the player of a client that had a packet refused     *)
(* before its ENTER_GAME, or that sent a second ENTER_GAME.  A client that *)
(* enters first, and once, as DummyClient does, cannot be disconnected     *)
(* between its connection and PostEnter: not by 0 bytes, since no receive  *)
(* is outstanding while OnRecv runs, not by the rate limiter, which the    *)
(* same thread calls, and not by a room, which does not know it.           *)
(***************************************************************************)
FirstEntersInTime ==
  \A p \in late : owner[p] \in early \/ entersSent[owner[p]] > 1

(***************************************************************************)
(* A session that is gone leaves nothing in the registries, although its   *)
(* handlers may be running still, but players that OnDisconnected could    *)
(* not see; and a player that is in a room, or will be, of a session that  *)
(* has not ended is in the registry.                                       *)
(***************************************************************************)
RegistryExact ==
  /\ \A s \in Session : closing[s] = "done" =>
       /\ s \notin sessions
       /\ \A p \in PlayersOf(s) \cap registry :
            p \in Missed(s) \/ (Entering(s) /\ player[s] = p)
  /\ \A r \in Room : \A p \in members[r] \cup After(r) :
       p \in registry \/ closing[owner[p]] \in {"unlist", "done"}

(* The players of a connection that ends get out of every room, for good,  *)
(* and the session out of its manager; but for those OnDisconnected missed. *)
EveryoneLeaves ==
  \A s \in Session :
    closing[s] = "pending" ~>
      [](/\ s \notin sessions
         /\ \A r \in Room : PlayersOf(s) \cap members[r] \subseteq Missed(s))

=============================================================================
