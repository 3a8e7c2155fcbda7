----------------------------- MODULE LobbyProofs -----------------------------
(***************************************************************************)
(* Proofs about Lobby for every number of sessions, players and rooms, and *)
(* every order of a client's packets: the registries are exact, only a     *)
(* client that does something else before it enters, or that enters twice, *)
(* is missed by OnDisconnected; and if there is one room, so that          *)
(* OnDisconnected posts to it, nobody else is left as a ghost.             *)
(***************************************************************************)
EXTENDS Lobby, SequenceTheorems, TLAPS

EnterJob(p) == [type |-> "enter", player |-> p]
LeaveJob(p) == [type |-> "leave", player |-> p]
MoveJob(p) == [type |-> "move", player |-> p]

WaitsIn(p, r) == \E i \in 1..Len(mailbox[r]) : mailbox[r][i] = EnterJob(p)

(* A player's entering is still to be posted, or waits in one place of one *)
(* mailbox, or has been; it is in no room before that.                     *)
EnterOnce ==
  /\ \A p \in Player : EnterJob(p) \in unsent =>
       \A r \in Room : p \notin members[r] /\ ~WaitsIn(p, r)
  /\ \A p \in Player : \A r, q \in Room : WaitsIn(p, r) => p \notin members[q]
  /\ \A p \in Player : \A r, q \in Room :
       \A i \in 1..Len(mailbox[r]), k \in 1..Len(mailbox[q]) :
         mailbox[r][i] = EnterJob(p) /\ mailbox[q][k] = EnterJob(p) => r = q /\ i = k

ChoosesRoom == \A s \in Session : recv[s] \in {"post", "move"} => targetRoom[s] \in Room

IInv == TypeOK /\ ChoosesRoom /\ EnterOnce

-----------------------------------------------------------------------------
LEMMA Jobs ==
  ASSUME NEW p \in Player
  PROVE  /\ EnterJob(p) \in Job /\ LeaveJob(p) \in Job
         /\ EnterJob(p).type = "enter" /\ EnterJob(p).player = p
         /\ LeaveJob(p).type = "leave" /\ LeaveJob(p).player = p
BY DEF EnterJob, LeaveJob, Job

(* A job is what its type and its player are. *)
LEMMA JobIs ==
  ASSUME NEW j \in Job
  PROVE  /\ j.player \in Player /\ j.type \in {"enter", "leave", "move"}
         /\ j.type = "enter" => j = EnterJob(j.player)
         /\ j.type = "leave" => j = LeaveJob(j.player)
BY PlayerAssumption DEF Job, EnterJob, LeaveJob

(* DoAsync: the job is one that nobody has posted, and goes to the end. *)
LEMMA Sent ==
  ASSUME TypeOK, NEW r \in Room, NEW j, Queues!Send(r, j)
  PROVE  /\ j \in unsent /\ j \in Job /\ unsent' = unsent \ {j}
         /\ mailbox' \in [Room -> Seq(Job)] /\ ran' = ran
         /\ \A q \in Room \ {r} : mailbox'[q] = mailbox[q]
         /\ Len(mailbox[r]) \in Nat /\ Len(mailbox'[r]) = Len(mailbox[r]) + 1
         /\ mailbox'[r][Len(mailbox[r]) + 1] = j
         /\ \A i \in 1..Len(mailbox[r]) : mailbox'[r][i] = mailbox[r][i]
<1>1. mailbox \in [Room -> Seq(Job)] /\ unsent \subseteq Job
  BY DEF TypeOK
<1>2. /\ j \in unsent /\ unsent' = unsent \ {j} /\ ran' = ran
      /\ mailbox' = [mailbox EXCEPT ![r] = Append(mailbox[r], j)]
  BY DEF Queues!Send
<1>3. j \in Job /\ mailbox[r] \in Seq(Job)
  BY <1>1, <1>2
<1>4. Append(mailbox[r], j) \in Seq(Job)
  BY <1>3
<1>5. mailbox' \in [Room -> Seq(Job)] /\ mailbox'[r] = Append(mailbox[r], j)
      /\ \A q \in Room \ {r} : mailbox'[q] = mailbox[q]
  BY <1>1, <1>2, <1>4
<1>. QED BY <1>2, <1>3, <1>5, AppendProperties

(* The room's job that is run is the first one. *)
LEMMA Ran ==
  ASSUME TypeOK, NEW r \in Room, Queues!Run(r)
  PROVE  /\ Head(mailbox[r]) \in Job /\ Head(mailbox[r]) = mailbox[r][1]
         /\ unsent' = unsent /\ ran' \in [Room -> Seq(Job)]
         /\ mailbox' \in [Room -> Seq(Job)]
         /\ \A q \in Room \ {r} : mailbox'[q] = mailbox[q]
         /\ Len(mailbox[r]) \in Nat \ {0} /\ Len(mailbox'[r]) = Len(mailbox[r]) - 1
         /\ \A i \in 1..Len(mailbox'[r]) : mailbox'[r][i] = mailbox[r][i + 1]
<1>1. mailbox \in [Room -> Seq(Job)] /\ ran \in [Room -> Seq(Job)]
  BY DEF TypeOK
<1>2. /\ mailbox[r] # <<>> /\ unsent' = unsent
      /\ mailbox' = [mailbox EXCEPT ![r] = Tail(mailbox[r])]
      /\ ran' = [ran EXCEPT ![r] = Append(ran[r], Head(mailbox[r]))]
  BY DEF Queues!Run
<1>3. /\ mailbox[r] \in Seq(Job) /\ ran[r] \in Seq(Job)
  BY <1>1
<1>4. /\ Head(mailbox[r]) \in Job /\ Head(mailbox[r]) = mailbox[r][1]
      /\ Tail(mailbox[r]) \in Seq(Job)
      /\ Len(mailbox[r]) \in Nat \ {0} /\ Len(Tail(mailbox[r])) = Len(mailbox[r]) - 1
      /\ \A i \in 1..Len(Tail(mailbox[r])) : Tail(mailbox[r])[i] = mailbox[r][i + 1]
  BY <1>2, <1>3, HeadTailProperties
<1>5. Append(ran[r], Head(mailbox[r])) \in Seq(Job)
  BY <1>3, <1>4
<1>6. /\ mailbox' \in [Room -> Seq(Job)] /\ mailbox'[r] = Tail(mailbox[r])
      /\ \A q \in Room \ {r} : mailbox'[q] = mailbox[q]
  BY <1>1, <1>2, <1>4
<1>7. ran' \in [Room -> Seq(Job)]
  BY <1>1, <1>2, <1>5
<1>. QED BY <1>2, <1>4, <1>6, <1>7

(* What a step does to the rooms: nothing, a post, or a job. *)
Posts(r, j) == Queues!Send(r, j) /\ UNCHANGED roomVars

LEMMA StepKinds ==
  ASSUME TypeOK, ChoosesRoom, [Next]_vars
  PROVE  \/ UNCHANGED <<queues, roomVars>>
         \/ \E s \in Session : PostEnter(s) /\ Posts(targetRoom[s], EnterJob(player[s]))
         \/ \E s \in Session : PostLeave(s) /\ Posts(1, LeaveJob(leaver[s]))
         \/ \E s \in Session : PostMove(s) /\ Posts(targetRoom[s], MoveJob(myPlayer[s]))
         \/ \E r \in Room : RunJob(r)
<1>1. CASE UNCHANGED vars
  BY <1>1 DEF vars
<1>2. ASSUME NEW s \in Session, Transport(s) \/ LoadPlayer(s) \/ RemovePlayer(s) \/ Unlist(s)
                                \/ AddPlayer(s) \/ StorePlayer(s) \/ ChooseRoom(s) \/ BeginMove(s)
      PROVE  UNCHANGED <<queues, roomVars>>
  BY <1>2 DEF Transport, OnConnected, ProcessRecv, ProcessRecvZero, RegisterRecv, RejectPacket,
       RoomDisconnects, LoadPlayer, RemovePlayer, Unlist, AddPlayer, StorePlayer, ChooseRoom, BeginMove
<1>3. ASSUME NEW s \in Session, PostEnter(s)
      PROVE  Posts(targetRoom[s], EnterJob(player[s]))
  BY <1>3 DEF PostEnter, Posts, DoAsync, EnterJob
<1>4. ASSUME NEW s \in Session, PostLeave(s)
      PROVE  Posts(1, LeaveJob(leaver[s]))
  BY <1>4 DEF PostLeave, Posts, DoAsync, LeaveJob
<1>5. ASSUME NEW s \in Session, PostMove(s)
      PROVE  Posts(targetRoom[s], MoveJob(myPlayer[s]))
  BY <1>5 DEF PostMove, Posts, DoAsync, MoveJob
<1>. QED BY <1>1, <1>2, <1>3, <1>4, <1>5 DEF Next, Handler, Closing

LEMMA RoomsAre ==
  /\ roomCount \in Nat \ {0} /\ 1 \in Room /\ NoRoom \notin Room
  /\ \A r \in Room : r \in Nat
BY RoomCountAssumption DEF Room, NoRoom


-----------------------------------------------------------------------------
(* Types, first of what the sessions and their handlers keep. *)
SessionTypes ==
  /\ connected \in [Session -> BOOLEAN] /\ armed \in [Session -> BOOLEAN]
  /\ recv \in [Session -> {"new", "out", "in", "store", "choose", "post", "move"}]
  /\ closing \in [Session -> {"no", "pending", "leave", "remove", "unlist", "done"}]
  /\ myPlayer \in [Session -> Player \cup {NoPlayer}]
  /\ player \in [Session -> Player \cup {NoPlayer}]
  /\ leaver \in [Session -> Player \cup {NoPlayer}]
  /\ targetRoom \in [Session -> Room \cup {NoRoom}]
  /\ entersSent \in [Session -> 0..MaxEnter] /\ roomIndex \in Nat
  /\ sessions \subseteq Session /\ registry \subseteq Player
  /\ owner \in [Player -> Session]

RoomTypes ==
  /\ members \in [Room -> SUBSET Player] /\ roomOf \in [Player -> Room \cup {NoRoom}]
  /\ unsent \subseteq Job /\ mailbox \in [Room -> Seq(Job)] /\ ran \in [Room -> Seq(Job)]

HistoryTypes == late \subseteq Player /\ replaced \subseteq Player /\ early \subseteq Session

LEMMA NextSessionTypes == TypeOK /\ [Next]_vars => SessionTypes'
<1> SUFFICES ASSUME TypeOK, [Next]_vars PROVE SessionTypes'
  OBVIOUS
<1>0. SessionTypes
  BY DEF TypeOK, SessionTypes
<1> USE <1>0 DEF SessionTypes
<1>1. CASE UNCHANGED vars
  BY <1>1 DEF vars, sessionVars, handlerVars, objectVars
<1>2. ASSUME NEW s \in Session, ProcessRecv(s) PROVE SessionTypes'
  BY <1>2 DEF ProcessRecv, GotoRecv, objectVars
<1>3. ASSUME NEW s \in Session, OnConnected(s) PROVE SessionTypes'
  BY <1>3 DEF OnConnected, GotoRecv, objectVars
<1>4. ASSUME NEW s \in Session, RegisterRecv(s) PROVE SessionTypes'
  BY <1>4 DEF RegisterRecv, GotoRecv, objectVars
<1>5. ASSUME NEW s \in Session, ProcessRecvZero(s) \/ RejectPacket(s) \/ RoomDisconnects(s)
      PROVE  SessionTypes'
  <2>1. /\ Disconnect(s)
        /\ armed' = armed \/ armed' = [armed EXCEPT ![s] = FALSE]
        /\ UNCHANGED <<leaver, sessions, handlerVars, objectVars>>
    BY <1>5 DEF ProcessRecvZero, RejectPacket, RoomDisconnects
  <2>2. armed' \in [Session -> BOOLEAN]
    BY <2>1
  <2>. QED BY <2>1, <2>2 DEF Disconnect, handlerVars, objectVars
<1>6. ASSUME NEW s \in Session, AddPlayer(s) PROVE SessionTypes'
  <2>1. entersSent'  \in [Session -> 0..MaxEnter]
    <3>1. entersSent[s] + 1 \in 0..MaxEnter
      BY <1>6, RoomCountAssumption DEF AddPlayer
    <3>. QED BY <1>6, <3>1 DEF AddPlayer
  <2>2. PICK p \in Player : /\ player' = [player EXCEPT ![s] = p]
                            /\ registry' = registry \cup {p}
                            /\ owner' = [owner EXCEPT ![p] = s]
    BY <1>6 DEF AddPlayer
  <2>. QED BY <1>6, <2>1, <2>2 DEF AddPlayer, GotoRecv, sessionVars
<1>7. ASSUME NEW s \in Session, StorePlayer(s) PROVE SessionTypes'
  BY <1>7 DEF StorePlayer, GotoRecv, sessionVars, objectVars
<1>8. ASSUME NEW s \in Session, ChooseRoom(s) PROVE SessionTypes'
  <2>1. (roomIndex % roomCount) + 1 \in Room
    <3>1. \A a \in Nat, b \in Nat \ {0} : (a % b) + 1 \in 1..b
      OBVIOUS
    <3>. QED BY <3>1, RoomsAre DEF Room
  <2>. QED BY <1>8, <2>1 DEF ChooseRoom, GotoRecv, sessionVars, objectVars
<1>9. ASSUME NEW s \in Session, PostEnter(s) PROVE SessionTypes'
  BY <1>9 DEF PostEnter, GotoRecv, sessionVars, objectVars
<1>10. ASSUME NEW s \in Session, BeginMove(s) \/ PostMove(s) PROVE SessionTypes'
  <2>1. CASE BeginMove(s)
    <3>1. roomOf[myPlayer[s]] \in Room \cup {NoRoom}
      BY <2>1 DEF BeginMove, TypeOK
    <3>. QED BY <2>1, <3>1 DEF BeginMove, GotoRecv, sessionVars, objectVars
  <2>2. CASE PostMove(s)
    BY <2>2 DEF PostMove, GotoRecv, sessionVars, objectVars
  <2>. QED BY <1>10, <2>1, <2>2
<1>11. ASSUME NEW s \in Session, LoadPlayer(s) PROVE SessionTypes'
  BY <1>11 DEF LoadPlayer, GotoClosing, handlerVars, objectVars
<1>12. ASSUME NEW s \in Session, PostLeave(s) PROVE SessionTypes'
  BY <1>12 DEF PostLeave, GotoClosing, handlerVars, objectVars
<1>13. ASSUME NEW s \in Session, RemovePlayer(s) PROVE SessionTypes'
  BY <1>13 DEF RemovePlayer, GotoClosing, handlerVars
<1>14. ASSUME NEW s \in Session, Unlist(s) PROVE SessionTypes'
  BY <1>14 DEF Unlist, GotoClosing, handlerVars, objectVars
<1>15. ASSUME NEW r \in Room, RunJob(r) PROVE SessionTypes'
  BY <1>15 DEF RunJob, sessionVars, handlerVars, objectVars
<1>. QED BY <1>1, <1>2, <1>3, <1>4, <1>5, <1>6, <1>7, <1>8, <1>9, <1>10, <1>11, <1>12, <1>13,
           <1>14, <1>15 DEF Next, Handler, Closing, Transport

(* The room's job, in the terms of the proofs. *)
LEMMA JobRuns ==
  ASSUME TypeOK, NEW r \in Room, RunJob(r)
  PROVE  LET j == mailbox[r][1]
         IN  /\ Queues!Run(r) /\ j \in Job
             /\ \/ j = EnterJob(j.player) /\ EnterGame(r, j.player)
                \/ j = LeaveJob(j.player) /\ LeaveGame(r, j.player)
                \/ j.type = "move" /\ UNCHANGED roomVars
<1>1. Queues!Run(r)
  BY DEF RunJob
<1>2. mailbox[r][1] \in Job /\ Head(mailbox[r]) = mailbox[r][1]
  BY <1>1, Ran
<1>. QED BY <1>1, <1>2, JobIs DEF RunJob

LEMMA NextRoomTypes == TypeOK /\ ChoosesRoom /\ [Next]_vars => RoomTypes'
<1> SUFFICES ASSUME TypeOK, ChoosesRoom, [Next]_vars PROVE RoomTypes'
  OBVIOUS
<1>0. RoomTypes
  BY DEF TypeOK, RoomTypes
<1>1. CASE UNCHANGED <<queues, roomVars>>
  BY <1>0, <1>1 DEF queues, roomVars, RoomTypes
<1>2. ASSUME NEW r \in Room, NEW j, Posts(r, j) PROVE RoomTypes'
  BY <1>0, <1>2, Sent DEF Posts, roomVars, RoomTypes
<1>3. ASSUME NEW r \in Room, RunJob(r) PROVE RoomTypes'
  <2> DEFINE j == mailbox[r][1]
  <2>1. /\ Queues!Run(r) /\ j.player \in Player
        /\ EnterGame(r, j.player) \/ LeaveGame(r, j.player) \/ UNCHANGED roomVars
    BY <1>3, JobRuns, JobIs
  <2>2. unsent' \subseteq Job /\ mailbox' \in [Room -> Seq(Job)] /\ ran' \in [Room -> Seq(Job)]
    BY <1>0, <2>1, Ran DEF RoomTypes
  <2>3. members' \in [Room -> SUBSET Player] /\ roomOf' \in [Player -> Room \cup {NoRoom}]
    <3> DEFINE p == j.player
    <3>0. /\ p \in Player
          /\ members \in [Room -> SUBSET Player] /\ roomOf \in [Player -> Room \cup {NoRoom}]
      BY <1>0, <2>1 DEF RoomTypes
    <3>1. CASE EnterGame(r, p)
      <4>1. /\ members' = [members EXCEPT ![r] = members[r] \cup {p}]
            /\ roomOf' = [roomOf EXCEPT ![p] = r]
        BY <3>1 DEF EnterGame
      <4> HIDE DEF p, j
      <4>. QED BY <3>0, <4>1
    <3>2. CASE LeaveGame(r, p)
      <4>1. /\ members' = [members EXCEPT ![r] = members[r] \ {p}]
            /\ roomOf' = IF p \in members[r] THEN [roomOf EXCEPT ![p] = NoRoom] ELSE roomOf
        BY <3>2 DEF LeaveGame
      <4> HIDE DEF p, j
      <4>. QED BY <3>0, <4>1
    <3>. QED BY <2>1, <3>0, <3>1, <3>2 DEF roomVars
  <2>. QED BY <2>2, <2>3 DEF RoomTypes
<1>. QED BY <1>1, <1>2, <1>3, StepKinds, RoomsAre DEF PostEnter, PostMove, ChoosesRoom

LEMMA NextHistoryTypes == TypeOK /\ [Next]_vars => HistoryTypes'
<1> SUFFICES ASSUME TypeOK, [Next]_vars PROVE HistoryTypes'
  OBVIOUS
<1>0. HistoryTypes
  BY DEF TypeOK, HistoryTypes
<1>1. ASSUME NEW s \in Session, StorePlayer(s) PROVE HistoryTypes'
  <2>1. myPlayer[s] \in Player \cup {NoPlayer}
    BY DEF TypeOK
  <2>. QED BY <1>0, <1>1, <2>1 DEF StorePlayer, HistoryTypes
<1>2. ASSUME NEW s \in Session, PostEnter(s) PROVE HistoryTypes'
  <2>1. EnterJob(player[s]) \in Job
    BY <1>2 DEF PostEnter, DoAsync, EnterJob, Queues!Send, TypeOK
  <2>2. player[s] \in Player
    BY <2>1, JobIs DEF EnterJob
  <2>. QED BY <1>0, <1>2, <2>2 DEF PostEnter, HistoryTypes
<1>3. ASSUME NEW s \in Session, RejectPacket(s) PROVE HistoryTypes'
  BY <1>0, <1>3 DEF RejectPacket, HistoryTypes
<1>4. CASE UNCHANGED historyVars
  BY <1>0, <1>4 DEF historyVars, HistoryTypes
<1>5. ASSUME NEW s \in Session, Closing(s) PROVE UNCHANGED historyVars
  BY <1>5 DEF Closing, LoadPlayer, PostLeave, RemovePlayer, Unlist
<1>6. ASSUME NEW s \in Session, Transport(s) PROVE RejectPacket(s) \/ UNCHANGED historyVars
  BY <1>6 DEF Transport, OnConnected, ProcessRecv, ProcessRecvZero, RegisterRecv, RoomDisconnects
<1>7. ASSUME NEW s \in Session, AddPlayer(s) \/ ChooseRoom(s) \/ BeginMove(s) \/ PostMove(s)
      PROVE  UNCHANGED historyVars
  BY <1>7 DEF AddPlayer, ChooseRoom, BeginMove, PostMove
<1>. QED BY <1>1, <1>2, <1>3, <1>4, <1>5, <1>6, <1>7 DEF Next, Handler, RunJob, vars

LEMMA NextTypeOK == TypeOK /\ ChoosesRoom /\ [Next]_vars => TypeOK'
BY NextSessionTypes, NextRoomTypes, NextHistoryTypes
   DEF TypeOK, SessionTypes, RoomTypes, HistoryTypes

(* A handler that is about to post a job has a room to post it to. *)
LEMMA NextChoosesRoom == TypeOK /\ ChoosesRoom /\ [Next]_vars => ChoosesRoom'
<1> SUFFICES ASSUME TypeOK, ChoosesRoom, [Next]_vars, NEW t \in Session, recv'[t] \in {"post", "move"}
             PROVE  targetRoom'[t] \in Room
  BY DEF ChoosesRoom
<1>0. /\ recv \in [Session -> {"new", "out", "in", "store", "choose", "post", "move"}]
      /\ targetRoom \in [Session -> Room \cup {NoRoom}]
      /\ targetRoom' \in [Session -> Room \cup {NoRoom}]
      /\ recv[t] \in {"post", "move"} => targetRoom[t] \in Room
  BY NextTypeOK DEF TypeOK, ChoosesRoom
<1>1. ASSUME NEW s \in Session, ChooseRoom(s) PROVE targetRoom'[t] \in Room
  <2>1. (roomIndex % roomCount) + 1 \in Room
    <3>1. \A a \in Nat, b \in Nat \ {0} : (a % b) + 1 \in 1..b
      OBVIOUS
    <3>. QED BY <3>1, RoomsAre DEF Room, TypeOK
  <2>. QED BY <1>0, <1>1, <2>1 DEF ChooseRoom, GotoRecv
<1>2. CASE UNCHANGED <<recv, targetRoom>>
  BY <1>0, <1>2
<1>3. ASSUME NEW s \in Session, Handler(s) PROVE targetRoom'[t] \in Room
  <2>1. CASE AddPlayer(s) \/ StorePlayer(s) \/ PostEnter(s) \/ PostMove(s)
    BY <1>0, <2>1 DEF AddPlayer, StorePlayer, PostEnter, PostMove, GotoRecv
  <2>2. CASE BeginMove(s)
    <3>1. roomOf[myPlayer[s]] \in Room
      BY <2>2 DEF BeginMove, TypeOK
    <3>. QED BY <1>0, <2>2, <3>1 DEF BeginMove, GotoRecv
  <2>. QED BY <1>1, <1>3, <2>1, <2>2 DEF Handler
<1>4. ASSUME NEW s \in Session, Transport(s) PROVE targetRoom'[t] \in Room
  BY <1>0, <1>4 DEF Transport, OnConnected, ProcessRecv, ProcessRecvZero, RegisterRecv,
       RejectPacket, RoomDisconnects, GotoRecv, handlerVars
<1>5. ASSUME NEW s \in Session, Closing(s) PROVE UNCHANGED <<recv, targetRoom>>
  BY <1>5 DEF Closing, LoadPlayer, PostLeave, RemovePlayer, Unlist, handlerVars
<1>6. ASSUME NEW r \in Room, RunJob(r) PROVE UNCHANGED <<recv, targetRoom>>
  BY <1>6 DEF RunJob, handlerVars
<1>7. CASE UNCHANGED vars
  BY <1>2, <1>7 DEF vars, handlerVars
<1>. QED BY <1>2, <1>3, <1>4, <1>5, <1>6, <1>7 DEF Next

-----------------------------------------------------------------------------
(* Where a player's enter job waits after a post, and after a job is run. *)
LEMMA EnterSent ==
  ASSUME TypeOK, NEW r \in Room, NEW j, Queues!Send(r, j), NEW p \in Player, NEW q \in Room,
         NEW i \in 1..Len(mailbox'[q]), mailbox'[q][i] = EnterJob(p)
  PROVE  \/ i \in 1..Len(mailbox[q]) /\ mailbox[q][i] = EnterJob(p)
         \/ q = r /\ i = Len(mailbox[r]) + 1 /\ j = EnterJob(p)
<1>1. CASE q = r
  <2>1. CASE i = Len(mailbox[r]) + 1
    BY <1>1, <2>1, Sent
  <2>2. CASE i # Len(mailbox[r]) + 1
    <3>1. i \in 1..Len(mailbox[r])
      BY <1>1, <2>2, Sent
    <3>. QED BY <1>1, <3>1, Sent
  <2>. QED BY <2>1, <2>2
<1>2. CASE q # r
  BY <1>2, Sent
<1>. QED BY <1>1, <1>2

LEMMA EnterRan ==
  ASSUME TypeOK, NEW r \in Room, Queues!Run(r), NEW p \in Player, NEW q \in Room,
         NEW i \in 1..Len(mailbox'[q]), mailbox'[q][i] = EnterJob(p)
  PROVE  LET k == IF q = r THEN i + 1 ELSE i
         IN  k \in 1..Len(mailbox[q]) /\ mailbox[q][k] = EnterJob(p) /\ (q = r => k # 1)
<1>1. CASE q = r
  <2>1. i + 1 \in 1..Len(mailbox[r]) /\ i + 1 # 1 /\ mailbox'[r][i] = mailbox[r][i + 1]
    BY <1>1, Ran
  <2>. QED BY <1>1, <2>1
<1>2. CASE q # r
  BY <1>2, Ran
<1>. QED BY <1>1, <1>2

(* A job is posted once, and run once. *)
LEMMA NextEnterOnce == TypeOK /\ ChoosesRoom /\ EnterOnce /\ [Next]_vars => EnterOnce'
<1> SUFFICES ASSUME TypeOK, ChoosesRoom, EnterOnce, [Next]_vars PROVE EnterOnce'
  OBVIOUS
<1>1. CASE UNCHANGED <<queues, roomVars>>
  BY <1>1 DEF EnterOnce, WaitsIn, queues, roomVars
<1>2. ASSUME NEW r \in Room, NEW j, Posts(r, j) PROVE EnterOnce'
  <2>0. Queues!Send(r, j) /\ members' = members
    BY <1>2 DEF Posts, roomVars
  <2>1. j \in unsent /\ unsent' = unsent \ {j}
    BY <2>0, Sent
  <2>2. ASSUME NEW p \in Player, NEW q \in Room, WaitsIn(p, q)'
        PROVE  WaitsIn(p, q) \/ (j = EnterJob(p) /\ EnterJob(p) \in unsent)
    BY <2>0, <2>1, <2>2, EnterSent DEF WaitsIn
  <2>3. ASSUME NEW p \in Player, EnterJob(p) \in unsent', NEW q \in Room
        PROVE  p \notin members'[q] /\ ~WaitsIn(p, q)'
    BY <2>0, <2>1, <2>2, <2>3 DEF EnterOnce
  <2>4. ASSUME NEW p \in Player, NEW q \in Room, NEW u \in Room, WaitsIn(p, q)'
        PROVE  p \notin members'[u]
    BY <2>0, <2>2, <2>4 DEF EnterOnce
  <2>5. ASSUME NEW p \in Player, NEW q \in Room, NEW u \in Room,
               NEW i \in 1..Len(mailbox'[q]), NEW k \in 1..Len(mailbox'[u]),
               mailbox'[q][i] = EnterJob(p), mailbox'[u][k] = EnterJob(p)
        PROVE  q = u /\ i = k
    <3>1. \/ i \in 1..Len(mailbox[q]) /\ mailbox[q][i] = EnterJob(p)
          \/ q = r /\ i = Len(mailbox[r]) + 1 /\ j = EnterJob(p)
      BY <2>0, <2>5, EnterSent
    <3>2. \/ k \in 1..Len(mailbox[u]) /\ mailbox[u][k] = EnterJob(p)
          \/ u = r /\ k = Len(mailbox[r]) + 1 /\ j = EnterJob(p)
      BY <2>0, <2>5, EnterSent
    <3>3. j = EnterJob(p) => ~WaitsIn(p, q) /\ ~WaitsIn(p, u)
      BY <2>1 DEF EnterOnce
    <3>. QED BY <3>1, <3>2, <3>3 DEF EnterOnce, WaitsIn
  <2>. QED BY <2>3, <2>4, <2>5 DEF EnterOnce
<1>3. ASSUME NEW r \in Room, RunJob(r) PROVE EnterOnce'
  <2> DEFINE e == mailbox[r][1]
  <2>0. /\ Queues!Run(r) /\ e \in Job
        /\ \/ e = EnterJob(e.player) /\ EnterGame(r, e.player)
           \/ e = LeaveJob(e.player) /\ LeaveGame(r, e.player)
           \/ e.type = "move" /\ UNCHANGED roomVars
    BY <1>3, JobRuns
  <2>1. unsent' = unsent /\ 1 \in 1..Len(mailbox[r])
    BY <2>0, Ran
  <2>2. ASSUME NEW p \in Player, NEW q \in Room, p \in members'[q]
        PROVE  p \in members[q] \/ (q = r /\ e = EnterJob(p) /\ WaitsIn(p, r))
    BY <2>0, <2>1, <2>2 DEF EnterGame, LeaveGame, roomVars, WaitsIn, TypeOK
  <2>3. ASSUME NEW p \in Player, NEW q \in Room, WaitsIn(p, q)'
        PROVE  WaitsIn(p, q)
    BY <2>0, <2>3, EnterRan DEF WaitsIn
  <2>4. ASSUME NEW p \in Player, EnterJob(p) \in unsent', NEW q \in Room
        PROVE  p \notin members'[q] /\ ~WaitsIn(p, q)'
    BY <2>1, <2>2, <2>3, <2>4 DEF EnterOnce
  <2>5. ASSUME NEW p \in Player, NEW q \in Room, NEW u \in Room, WaitsIn(p, q)'
        PROVE  p \notin members'[u]
    <3>1. PICK i \in 1..Len(mailbox'[q]) : mailbox'[q][i] = EnterJob(p)
      BY <2>5 DEF WaitsIn
    <3>2. e # EnterJob(p)
      <4> DEFINE k == IF q = r THEN i + 1 ELSE i
      <4>1. k \in 1..Len(mailbox[q]) /\ mailbox[q][k] = EnterJob(p) /\ (q = r => k # 1)
        BY <2>0, <3>1, EnterRan
      <4> HIDE DEF k
      <4>. QED BY <2>1, <4>1 DEF EnterOnce
    <3>. QED BY <2>2, <2>3, <2>5, <3>2 DEF EnterOnce
  <2>6. ASSUME NEW p \in Player, NEW q \in Room, NEW u \in Room,
               NEW i \in 1..Len(mailbox'[q]), NEW k \in 1..Len(mailbox'[u]),
               mailbox'[q][i] = EnterJob(p), mailbox'[u][k] = EnterJob(p)
        PROVE  q = u /\ i = k
    <3> DEFINE a == IF q = r THEN i + 1 ELSE i
               b == IF u = r THEN k + 1 ELSE k
    <3>1. a \in 1..Len(mailbox[q]) /\ mailbox[q][a] = EnterJob(p)
      BY <2>0, <2>6, EnterRan
    <3>2. b \in 1..Len(mailbox[u]) /\ mailbox[u][b] = EnterJob(p)
      BY <2>0, <2>6, EnterRan
    <3>3. q = u /\ a = b
      <4> HIDE DEF a, b
      <4>. QED BY <3>1, <3>2 DEF EnterOnce
    <3>. QED BY <3>3
  <2>. QED BY <2>4, <2>5, <2>6 DEF EnterOnce
<1>. QED BY <1>1, <1>2, <1>3, StepKinds, RoomsAre DEF PostEnter, PostMove, ChoosesRoom

-----------------------------------------------------------------------------
LEMMA InitInv == Init => IInv
<1> SUFFICES ASSUME Init PROVE IInv
  OBVIOUS
<1> USE DEF Init
<1>1. TypeOK
  <2>1. owner \in [Player -> Session]
    BY SessionAssumption
  <2>2. unsent = Job /\ mailbox = [r \in Room |-> <<>>] /\ ran = [r \in Room |-> <<>>]
    BY DEF Queues!Init
  <2>3. mailbox \in [Room -> Seq(Job)] /\ ran \in [Room -> Seq(Job)]
    BY <2>2
  <2>4. entersSent \in [Session -> 0..MaxEnter]
    BY RoomCountAssumption
  <2>5. members \in [Room -> SUBSET Player] /\ roomOf \in [Player -> Room \cup {NoRoom}]
    OBVIOUS
  <2>. QED BY <2>1, <2>2, <2>3, <2>4, <2>5 DEF TypeOK, None
<1>2. ChoosesRoom
  BY DEF ChoosesRoom
<1>3. EnterOnce
  <2>1. \A r \in Room : members[r] = {} /\ mailbox[r] = <<>>
    BY DEF Queues!Init
  <2>. QED BY <2>1 DEF EnterOnce, WaitsIn
<1>. QED BY <1>1, <1>2, <1>3 DEF IInv

LEMMA NextInv == IInv /\ [Next]_vars => IInv'
BY NextTypeOK, NextChoosesRoom, NextEnterOnce DEF IInv

LEMMA Invariance == Spec => []IInv
BY InitInv, NextInv, PTL DEF Spec

-----------------------------------------------------------------------------
(* Jobs of different kinds are different. *)
LEMMA JobsDiffer ==
  ASSUME NEW p, NEW q
  PROVE  /\ EnterJob(p) # LeaveJob(q)
         /\ EnterJob(p) # MoveJob(q)
         /\ LeaveJob(p) # MoveJob(q)
         /\ EnterJob(p) = EnterJob(q) => p = q
         /\ LeaveJob(p) = LeaveJob(q) => p = q
<1>1. /\ EnterJob(p).type = "enter" /\ EnterJob(p).player = p
      /\ EnterJob(q).player = q /\ LeaveJob(q).type = "leave" /\ LeaveJob(q).player = q
      /\ LeaveJob(p).type = "leave" /\ LeaveJob(p).player = p
      /\ MoveJob(q).type = "move"
  BY DEF EnterJob, LeaveJob, MoveJob
<1>. QED BY <1>1

-----------------------------------------------------------------------------
(***************************************************************************)
(* What a session and its two activities know of each other, in whatever   *)
(* order the packets and the end of the connection come.                   *)
(***************************************************************************)

(* The players whose entering has been posted. *)
Posted == {p \in Player : EnterJob(p) \notin unsent}

Connection ==
  \A s \in Session :
    /\ recv[s] = "new" => closing[s] = "no"
    /\ connected[s] => closing[s] = "no" /\ recv[s] # "new"
    /\ armed[s] => recv[s] = "out"

(* p is nobody, or a player of s whose entering is posted or being posted. *)
Own(s, p) ==
  \/ p = NoPlayer
  \/ /\ owner[p] = s
     /\ p \in Posted \/ (p = player[s] /\ recv[s] \in {"choose", "post"})

(* A handler enters a player that is its session's, and not another's. *)
Handling ==
  \A s \in Session :
    /\ Entering(s) => player[s] \in Player \ Posted /\ owner[player[s]] = s
    /\ recv[s] \in {"choose", "post"} => myPlayer[s] = player[s]
    /\ Own(s, myPlayer[s]) /\ Own(s, leaver[s])

(* A player that has entered is its session's myPlayer, or has been put    *)
(* aside; once OnDisconnected has looked, it saw it or the player is late. *)
Known ==
  \A p \in Posted :
    /\ p = myPlayer[owner[p]] \/ p \in replaced
    /\ closing[owner[p]] \notin {"no", "pending"} =>
         p = leaver[owner[p]] \/ p \in late \/ p \in replaced

(* OnDisconnected takes the player it has seen off the registry. *)
Ending ==
  \A s \in Session :
    /\ closing[s] \in {"unlist", "done"} => leaver[s] \notin registry
    /\ closing[s] = "done" => s \notin sessions

(* p has been made: it has entered, or its session is entering it. *)
Made(p) == p \in Posted \/ (Entering(owner[p]) /\ p = player[owner[p]])

Registered ==
  \A p \in Player :
    /\ p \in registry => Made(p)
    /\ Made(p) =>
         p \in registry \/ (p = leaver[owner[p]] /\ closing[owner[p]] \in {"unlist", "done"})

(* Each of a session's players has cost it an ENTER_GAME. *)
Counted ==
  /\ \A s \in Session : Entering(s) => entersSent[s] >= 1
  /\ \A p \in Posted : /\ entersSent[owner[p]] >= 1
                       /\ Entering(owner[p]) => entersSent[owner[p]] >= 2

(* A session that has not been refused a packet too early, and has entered *)
(* once at most, does not end before its player has entered: none is being *)
(* entered then, and none will, for no packet comes any more.              *)
InTime ==
  \A s \in Session :
    s \notin early /\ entersSent[s] <= 1 /\ closing[s] # "no" =>
      /\ ~Entering(s)
      /\ entersSent[s] = 1 \/ (recv[s] = "out" /\ ~armed[s])

SessionInv ==
  Connection /\ Handling /\ Known /\ Ending /\ Registered /\ Counted /\ InTime /\ late \subseteq Posted

FullInv == IInv /\ SessionInv

(* The types that the proofs below need. *)
LEMMA Kept ==
  ASSUME TypeOK
  PROVE  /\ connected \in [Session -> BOOLEAN] /\ armed \in [Session -> BOOLEAN]
         /\ recv \in [Session -> {"new", "out", "in", "store", "choose", "post", "move"}]
         /\ closing \in [Session -> {"no", "pending", "leave", "remove", "unlist", "done"}]
         /\ myPlayer \in [Session -> Player \cup {NoPlayer}]
         /\ player \in [Session -> Player \cup {NoPlayer}]
         /\ leaver \in [Session -> Player \cup {NoPlayer}]
         /\ entersSent \in [Session -> Nat]
         /\ registry \subseteq Player /\ owner \in [Player -> Session]
         /\ Posted \subseteq Player /\ NoPlayer \notin Player
<1>1. entersSent \in [Session -> Nat]
  BY RoomCountAssumption DEF TypeOK
<1>. QED BY <1>1, PlayerAssumption DEF TypeOK, Posted

-----------------------------------------------------------------------------
(* What a step does to a session's players. *)

(* Only PostEnter posts an enter job. *)
LEMMA PostedKept ==
  ASSUME NEW s \in Session,
         Transport(s) \/ Closing(s) \/ (Handler(s) /\ ~PostEnter(s)) \/ UNCHANGED vars
  PROVE  Posted' = Posted
<1>1. CASE UNCHANGED unsent
  BY <1>1 DEF Posted
<1>2. CASE Transport(s) \/ LoadPlayer(s) \/ RemovePlayer(s) \/ Unlist(s)
           \/ AddPlayer(s) \/ StorePlayer(s) \/ ChooseRoom(s) \/ BeginMove(s) \/ UNCHANGED vars
  <2>1. UNCHANGED unsent
    BY <1>2 DEF Transport, OnConnected, ProcessRecv, ProcessRecvZero, RegisterRecv, RejectPacket,
         RoomDisconnects, LoadPlayer, RemovePlayer, Unlist, AddPlayer, StorePlayer, ChooseRoom,
         BeginMove, queues, vars
  <2>. QED BY <1>1, <2>1
<1>3. CASE PostLeave(s)
  <2>1. unsent' = unsent \ {LeaveJob(leaver[s])}
    BY <1>3 DEF PostLeave, DoAsync, LeaveJob, Queues!Send
  <2>. QED BY <2>1, JobsDiffer DEF Posted
<1>4. CASE PostMove(s)
  <2>1. unsent' = unsent \ {MoveJob(myPlayer[s])}
    BY <1>4 DEF PostMove, DoAsync, MoveJob, Queues!Send
  <2>. QED BY <2>1, JobsDiffer DEF Posted
<1>. QED BY <1>2, <1>3, <1>4 DEF Handler, Closing

LEMMA PostedEnters ==
  ASSUME TypeOK, NEW s \in Session, PostEnter(s)
  PROVE  Posted' = Posted \cup {player[s]}
<1>1. EnterJob(player[s]) \in unsent /\ unsent' = unsent \ {EnterJob(player[s])}
  BY DEF PostEnter, DoAsync, EnterJob, Queues!Send
<1>2. player[s] \in Player
  <2>1. EnterJob(player[s]) \in Job
    BY <1>1 DEF TypeOK
  <2>. QED BY <2>1, JobIs DEF EnterJob
<1>. QED BY <1>1, <1>2, JobsDiffer DEF Posted

(* The room's jobs, and a step in which nothing happens. *)
Aside ==
  /\ UNCHANGED <<sessionVars, handlerVars, objectVars, historyVars>>
  /\ Posted' = Posted

LEMMA Asides ==
  ASSUME (\E r \in Room : RunJob(r)) \/ UNCHANGED vars
  PROVE  Aside
<1>1. UNCHANGED <<sessionVars, handlerVars, objectVars, historyVars, unsent>>
  BY DEF RunJob, Queues!Run, vars, queues
<1>. QED BY <1>1 DEF Aside, Posted

(* Receiving, refusing and moving leave the players alone. *)
Transfer(s) ==
  /\ UNCHANGED <<player, myPlayer, leaver, owner, registry, entersSent, late, replaced>>
  /\ Posted' = Posted
  /\ \/ recv' = recv
     \/ /\ recv[s] \in {"new", "in", "out", "move"}
        /\ \E l \in {"in", "out", "move"} : recv' = [recv EXCEPT ![s] = l]
  /\ \/ closing' = closing
     \/ connected[s] /\ closing' = [closing EXCEPT ![s] = "pending"]
  /\ sessions' = sessions \/ (recv[s] = "new" /\ sessions' = sessions \cup {s})

LEMMA Transfers ==
  ASSUME NEW s \in Session, Transport(s) \/ BeginMove(s) \/ PostMove(s)
  PROVE  Transfer(s)
<1>1. CASE BeginMove(s) \/ PostMove(s)
  <2>1. ~PostEnter(s)
    BY <1>1 DEF BeginMove, PostMove, PostEnter
  <2>2. Posted' = Posted
    BY <1>1, <2>1, PostedKept DEF Handler
  <2>. QED BY <1>1, <2>2 DEF Transfer, BeginMove, PostMove, GotoRecv, sessionVars, objectVars, historyVars
<1>2. CASE Transport(s)
  <2>1. Posted' = Posted
    BY <1>2, PostedKept
  <2>2. CASE OnConnected(s) \/ ProcessRecv(s) \/ RegisterRecv(s)
    BY <2>1, <2>2 DEF Transfer, OnConnected, ProcessRecv, RegisterRecv, GotoRecv, objectVars, historyVars
  <2>3. CASE ProcessRecvZero(s) \/ RejectPacket(s) \/ RoomDisconnects(s)
    BY <2>1, <2>3 DEF Transfer, ProcessRecvZero, RejectPacket, RoomDisconnects, Disconnect,
         handlerVars, objectVars, historyVars
  <2>. QED BY <1>2, <2>2, <2>3 DEF Transport
<1>. QED BY <1>1, <1>2

-----------------------------------------------------------------------------
(* A packet is handled by a connected session, or one that has ended. *)
LEMMA NextConnection == TypeOK /\ Connection /\ [Next]_vars => Connection'
<1> SUFFICES ASSUME TypeOK, Connection, [Next]_vars PROVE Connection'
  OBVIOUS
<1> USE Kept DEF Connection
<1>1. CASE Aside
  BY <1>1 DEF Aside, sessionVars, handlerVars
<1>2. ASSUME NEW s \in Session, OnConnected(s) PROVE Connection'
  BY <1>2 DEF OnConnected, GotoRecv
<1>3. ASSUME NEW s \in Session, ProcessRecv(s) PROVE Connection'
  BY <1>3 DEF ProcessRecv, GotoRecv
<1>4. ASSUME NEW s \in Session, RegisterRecv(s) PROVE Connection'
  BY <1>4 DEF RegisterRecv, GotoRecv
<1>5. ASSUME NEW s \in Session, ProcessRecvZero(s) \/ RejectPacket(s) \/ RoomDisconnects(s)
      PROVE  Connection'
  <2>1. /\ recv' = recv /\ connected' = [connected EXCEPT ![s] = FALSE]
        /\ closing' = IF connected[s] THEN [closing EXCEPT ![s] = "pending"] ELSE closing
        /\ armed' = armed \/ armed' = [armed EXCEPT ![s] = FALSE]
    BY <1>5 DEF ProcessRecvZero, RejectPacket, RoomDisconnects, Disconnect, handlerVars
  <2>. QED BY <2>1
<1>6. ASSUME NEW s \in Session, Handler(s) PROVE Connection'
  <2>1. /\ UNCHANGED <<connected, armed, closing>>
        /\ recv[s] \in {"in", "store", "choose", "post", "move"}
        /\ \E l \in {"in", "store", "choose", "post", "move"} : recv' = [recv EXCEPT ![s] = l]
    BY <1>6 DEF Handler, AddPlayer, StorePlayer, ChooseRoom, PostEnter, BeginMove, PostMove,
         GotoRecv, sessionVars
  <2>. QED BY <2>1
<1>7. ASSUME NEW s \in Session, Closing(s) PROVE Connection'
  <2>1. /\ UNCHANGED <<recv, connected, armed>> /\ closing[s] # "no"
        /\ \A t \in Session \ {s} : closing'[t] = closing[t]
    BY <1>7 DEF Closing, LoadPlayer, PostLeave, RemovePlayer, Unlist, GotoClosing, handlerVars
  <2>. QED BY <2>1
<1>. QED BY <1>1, <1>2, <1>3, <1>4, <1>5, <1>6, <1>7, Asides DEF Next, Transport

(* What OnDisconnected's steps leave alone, but for the first one. *)
LEMMA Closings ==
  ASSUME NEW s \in Session, Closing(s)
  PROVE  UNCHANGED <<recv, player, myPlayer, owner, entersSent, historyVars>> /\ Posted' = Posted
<1>1. UNCHANGED <<recv, player, myPlayer, owner, entersSent, historyVars>>
  BY DEF Closing, LoadPlayer, PostLeave, RemovePlayer, Unlist, handlerVars, objectVars
<1>. QED BY <1>1, PostedKept

(* The steps of C2S_ENTER_GAME, as far as the players are concerned. *)
LEMMA Adds ==
  ASSUME NEW s \in Session, AddPlayer(s)
  PROVE  /\ \E p \in Player \ Posted :
              /\ \A t \in Session : player[t] # p
              /\ player' = [player EXCEPT ![s] = p]
              /\ registry' = registry \cup {p}
              /\ owner' = [owner EXCEPT ![p] = s]
         /\ recv[s] = "in" /\ recv' = [recv EXCEPT ![s] = "store"]
         /\ entersSent' = [entersSent EXCEPT ![s] = @ + 1]
         /\ UNCHANGED <<sessionVars, myPlayer, historyVars>> /\ Posted' = Posted
<1>1. ~PostEnter(s)
  BY DEF AddPlayer, PostEnter
<1>. QED BY <1>1, PostedKept DEF AddPlayer, GotoRecv, Posted, EnterJob, Handler

LEMMA Enters ==
  ASSUME NEW s \in Session, StorePlayer(s) \/ ChooseRoom(s)
  PROVE  /\ UNCHANGED <<sessionVars, player, objectVars, entersSent, late, early>> /\ Posted' = Posted
         /\ \/ /\ recv[s] = "store" /\ recv' = [recv EXCEPT ![s] = "choose"]
               /\ myPlayer' = [myPlayer EXCEPT ![s] = player[s]]
               /\ replaced' = replaced \cup ({myPlayer[s]} \ {NoPlayer})
            \/ /\ recv[s] = "choose" /\ recv' = [recv EXCEPT ![s] = "post"]
               /\ UNCHANGED <<myPlayer, replaced>>
<1>1. ~PostEnter(s)
  BY DEF StorePlayer, ChooseRoom, PostEnter
<1>. QED BY <1>1, PostedKept DEF StorePlayer, ChooseRoom, GotoRecv, Handler, objectVars, historyVars

(* The handler's local player, myPlayer and the player's session agree. *)
LEMMA NextHandling == TypeOK /\ Handling /\ [Next]_vars => Handling'
<1> SUFFICES ASSUME TypeOK, Handling, [Next]_vars PROVE Handling'
  OBVIOUS
<1> USE Kept DEF Handling, Own, Entering
<1>1. CASE Aside
  BY <1>1 DEF Aside, sessionVars, handlerVars, objectVars
<1>2. ASSUME NEW s \in Session, Transfer(s) PROVE Handling'
  BY <1>2 DEF Transfer
<1>3. ASSUME NEW s \in Session, AddPlayer(s) PROVE Handling'
  <2>1. PICK p \in Player \ Posted : /\ \A t \in Session : player[t] # p
                                     /\ player' = [player EXCEPT ![s] = p]
                                     /\ owner' = [owner EXCEPT ![p] = s]
    BY <1>3, Adds
  <2>2. /\ recv[s] = "in" /\ recv' = [recv EXCEPT ![s] = "store"]
        /\ UNCHANGED <<leaver, myPlayer>> /\ Posted' = Posted
    BY <1>3, Adds DEF sessionVars
  <2>. QED BY <2>1, <2>2
<1>4. ASSUME NEW s \in Session, StorePlayer(s) \/ ChooseRoom(s) PROVE Handling'
  BY <1>4, Enters DEF sessionVars, objectVars
<1>5. ASSUME NEW s \in Session, PostEnter(s) PROVE Handling'
  <2>1. /\ recv[s] = "post" /\ recv' = [recv EXCEPT ![s] = "in"]
        /\ UNCHANGED <<player, myPlayer, leaver, owner>>
    BY <1>5 DEF PostEnter, GotoRecv, sessionVars, objectVars
  <2>2. Posted' = Posted \cup {player[s]}
    BY <1>5, PostedEnters
  <2>. QED BY <2>1, <2>2
<1>6. ASSUME NEW s \in Session, Closing(s) PROVE Handling'
  <2>1. leaver' = leaver \/ leaver' = [leaver EXCEPT ![s] = myPlayer[s]]
    BY <1>6 DEF Closing, LoadPlayer, PostLeave, RemovePlayer, Unlist
  <2>. QED BY <1>6, <2>1, Closings
<1>. QED BY <1>1, <1>2, <1>3, <1>4, <1>5, <1>6, Asides, Transfers DEF Next, Handler

(* OnDisconnected sees the player, or another is in its place, or it is late. *)
LEMMA NextKnown == TypeOK /\ Connection /\ Handling /\ Known /\ [Next]_vars => Known'
<1> SUFFICES ASSUME TypeOK, Connection, Handling, Known, [Next]_vars PROVE Known'
  OBVIOUS
<1> USE Kept DEF Known
<1>1. CASE Aside
  BY <1>1 DEF Aside, sessionVars, handlerVars, objectVars, historyVars
<1>2. ASSUME NEW s \in Session, Transfer(s) PROVE Known'
  BY <1>2 DEF Transfer
<1>3. ASSUME NEW s \in Session, AddPlayer(s) PROVE Known'
  <2>1. PICK p \in Player \ Posted : owner' = [owner EXCEPT ![p] = s]
    BY <1>3, Adds
  <2>2. UNCHANGED <<closing, leaver, myPlayer, late, replaced>> /\ Posted' = Posted
    BY <1>3, Adds DEF sessionVars, historyVars
  <2>. QED BY <2>1, <2>2
<1>4. ASSUME NEW s \in Session, StorePlayer(s) \/ ChooseRoom(s) PROVE Known'
  BY <1>4, Enters DEF sessionVars, objectVars
<1>5. ASSUME NEW s \in Session, PostEnter(s) PROVE Known'
  <2>1. /\ myPlayer[s] = player[s] /\ owner[player[s]] = s
        /\ UNCHANGED <<player, myPlayer, leaver, closing, owner, replaced>>
        /\ late' = IF closing[s] \in {"no", "pending"} THEN late ELSE late \cup {player[s]}
    BY <1>5 DEF PostEnter, sessionVars, objectVars, Handling, Entering
  <2>2. Posted' = Posted \cup {player[s]}
    BY <1>5, PostedEnters
  <2>. QED BY <2>1, <2>2
<1>6. ASSUME NEW s \in Session, Closing(s) PROVE Known'
  <2>1. CASE LoadPlayer(s)
    <3>1. leaver' = [leaver EXCEPT ![s] = myPlayer[s]] /\ \A t \in Session \ {s} : closing'[t] = closing[t]
      BY <2>1 DEF LoadPlayer, GotoClosing
    <3>. QED BY <1>6, <3>1, Closings DEF historyVars
  <2>2. CASE PostLeave(s) \/ RemovePlayer(s) \/ Unlist(s)
    <3>1. /\ leaver' = leaver /\ closing[s] \notin {"no", "pending"}
          /\ \A t \in Session \ {s} : closing'[t] = closing[t]
      BY <2>2 DEF PostLeave, RemovePlayer, Unlist, GotoClosing
    <3>. QED BY <1>6, <3>1, Closings DEF historyVars
  <2>. QED BY <1>6, <2>1, <2>2 DEF Closing
<1>. QED BY <1>1, <1>2, <1>3, <1>4, <1>5, <1>6, Asides, Transfers DEF Next, Handler

(* The registry loses a player to the session that has it, and for good. *)
LEMMA NextEnding == TypeOK /\ Connection /\ Handling /\ Ending /\ [Next]_vars => Ending'
<1> SUFFICES ASSUME TypeOK, Connection, Handling, Ending, [Next]_vars PROVE Ending'
  OBVIOUS
<1> USE Kept DEF Ending
<1>1. CASE Aside
  BY <1>1 DEF Aside, sessionVars, objectVars
<1>2. ASSUME NEW s \in Session, Transfer(s) PROVE Ending'
  BY <1>2 DEF Transfer, Connection
<1>3. ASSUME NEW s \in Session, AddPlayer(s) PROVE Ending'
  <2>1. PICK p \in Player \ Posted : /\ \A t \in Session : player[t] # p
                                     /\ registry' = registry \cup {p}
    BY <1>3, Adds
  <2>2. UNCHANGED <<closing, leaver, sessions>>
    BY <1>3, Adds DEF sessionVars
  <2>3. \A t \in Session : leaver[t] # p
    BY <2>1 DEF Handling, Own
  <2>. QED BY <2>1, <2>2, <2>3
<1>4. ASSUME NEW s \in Session, StorePlayer(s) \/ ChooseRoom(s) \/ PostEnter(s) PROVE Ending'
  <2>1. UNCHANGED <<sessionVars, objectVars>>
    BY <1>4 DEF StorePlayer, ChooseRoom, PostEnter
  <2>. QED BY <2>1 DEF sessionVars, objectVars
<1>5. ASSUME NEW s \in Session, LoadPlayer(s) PROVE Ending'
  <2>1. /\ closing[s] = "pending" /\ UNCHANGED <<sessions, registry>>
        /\ leaver' = [leaver EXCEPT ![s] = myPlayer[s]]
        /\ closing' = [closing EXCEPT ![s] = IF myPlayer[s] = NoPlayer THEN "unlist" ELSE "leave"]
    BY <1>5 DEF LoadPlayer, GotoClosing, objectVars
  <2>. QED BY <2>1
<1>6. ASSUME NEW s \in Session, PostLeave(s) PROVE Ending'
  BY <1>6 DEF PostLeave, GotoClosing, objectVars
<1>7. ASSUME NEW s \in Session, RemovePlayer(s) PROVE Ending'
  BY <1>7 DEF RemovePlayer, GotoClosing
<1>8. ASSUME NEW s \in Session, Unlist(s) PROVE Ending'
  BY <1>8 DEF Unlist, GotoClosing, objectVars
<1>. QED BY <1>1, <1>2, <1>3, <1>4, <1>5, <1>6, <1>7, <1>8, Asides, Transfers
         DEF Next, Handler, Closing

(* Only its session's end takes a player off the registry. *)
LEMMA NextRegistered ==
  TypeOK /\ Connection /\ Handling /\ Registered /\ [Next]_vars => Registered'
<1> SUFFICES ASSUME TypeOK, Connection, Handling, Registered, [Next]_vars PROVE Registered'
  OBVIOUS
<1> USE Kept DEF Registered, Made, Entering
<1>1. CASE Aside
  BY <1>1 DEF Aside, sessionVars, handlerVars, objectVars
<1>2. ASSUME NEW s \in Session, Transfer(s) PROVE Registered'
  BY <1>2 DEF Transfer, Connection
<1>3. ASSUME NEW s \in Session, AddPlayer(s) PROVE Registered'
  <2>1. PICK p \in Player \ Posted : /\ \A t \in Session : player[t] # p
                                     /\ player' = [player EXCEPT ![s] = p]
                                     /\ registry' = registry \cup {p}
                                     /\ owner' = [owner EXCEPT ![p] = s]
    BY <1>3, Adds
  <2>2. /\ recv[s] = "in" /\ recv' = [recv EXCEPT ![s] = "store"]
        /\ UNCHANGED <<closing, leaver>> /\ Posted' = Posted
    BY <1>3, Adds DEF sessionVars
  <2>. QED BY <2>1, <2>2
<1>4. ASSUME NEW s \in Session, StorePlayer(s) \/ ChooseRoom(s) PROVE Registered'
  BY <1>4, Enters DEF sessionVars, objectVars
<1>5. ASSUME NEW s \in Session, PostEnter(s) PROVE Registered'
  <2>1. /\ recv[s] = "post" /\ recv' = [recv EXCEPT ![s] = "in"]
        /\ UNCHANGED <<player, registry, leaver, closing, owner>>
    BY <1>5 DEF PostEnter, GotoRecv, sessionVars, objectVars
  <2>2. Posted' = Posted \cup {player[s]} /\ player[s] \in Player /\ owner[player[s]] = s
    BY <1>5, <2>1, PostedEnters DEF Handling
  <2>. QED BY <2>1, <2>2
<1>6. ASSUME NEW s \in Session, Closing(s) PROVE Registered'
  <2>0. UNCHANGED <<recv, player, owner>> /\ Posted' = Posted
    BY <1>6, Closings
  <2>1. CASE LoadPlayer(s)
    <3>1. /\ closing[s] = "pending" /\ registry' = registry
          /\ leaver' = [leaver EXCEPT ![s] = myPlayer[s]]
          /\ \A t \in Session \ {s} : closing'[t] = closing[t]
      BY <2>1 DEF LoadPlayer, GotoClosing, objectVars
    <3>. QED BY <2>0, <3>1
  <2>2. CASE RemovePlayer(s)
    <3>1. /\ closing' = [closing EXCEPT ![s] = "unlist"] /\ leaver' = leaver
          /\ closing[s] = "remove" /\ registry' = registry \ {leaver[s]}
      BY <2>2 DEF RemovePlayer, GotoClosing
    <3>2. leaver[s] \in Player => owner[leaver[s]] = s
      BY DEF Handling, Own
    <3>. QED BY <2>0, <3>1, <3>2
  <2>3. CASE PostLeave(s) \/ Unlist(s)
    <3>1. /\ UNCHANGED <<leaver, registry>>
          /\ closing[s] = "leave" \/ (closing[s] = "unlist" /\ closing'[s] = "done")
          /\ \A t \in Session \ {s} : closing'[t] = closing[t]
      BY <2>3 DEF PostLeave, Unlist, GotoClosing, objectVars
    <3>. QED BY <2>0, <3>1
  <2>. QED BY <1>6, <2>1, <2>2, <2>3 DEF Closing
<1>. QED BY <1>1, <1>2, <1>3, <1>4, <1>5, <1>6, Asides, Transfers DEF Next, Handler

(* ENTER_GAME is counted before its player is made. *)
LEMMA NextCounted == TypeOK /\ Handling /\ Counted /\ [Next]_vars => Counted'
<1> SUFFICES ASSUME TypeOK, Handling, Counted, [Next]_vars PROVE Counted'
  OBVIOUS
<1> USE Kept DEF Counted, Entering
<1>1. CASE Aside
  BY <1>1 DEF Aside, handlerVars, objectVars
<1>2. ASSUME NEW s \in Session, Transfer(s) PROVE Counted'
  BY <1>2 DEF Transfer
<1>3. ASSUME NEW s \in Session, AddPlayer(s) PROVE Counted'
  <2>1. PICK p \in Player \ Posted : owner' = [owner EXCEPT ![p] = s]
    BY <1>3, Adds
  <2>2. /\ recv[s] = "in" /\ recv' = [recv EXCEPT ![s] = "store"]
        /\ entersSent' = [entersSent EXCEPT ![s] = @ + 1] /\ Posted' = Posted
    BY <1>3, Adds
  <2>. QED BY <2>1, <2>2
<1>4. ASSUME NEW s \in Session, StorePlayer(s) \/ ChooseRoom(s) PROVE Counted'
  BY <1>4, Enters DEF objectVars
<1>5. ASSUME NEW s \in Session, PostEnter(s) PROVE Counted'
  <2>1. /\ recv[s] = "post" /\ recv' = [recv EXCEPT ![s] = "in"]
        /\ UNCHANGED <<entersSent, owner>>
    BY <1>5 DEF PostEnter, GotoRecv, objectVars
  <2>2. Posted' = Posted \cup {player[s]} /\ owner[player[s]] = s
    BY <1>5, <2>1, PostedEnters DEF Handling
  <2>. QED BY <2>1, <2>2
<1>6. ASSUME NEW s \in Session, Closing(s) PROVE Counted'
  BY <1>6, Closings
<1>. QED BY <1>1, <1>2, <1>3, <1>4, <1>5, <1>6, Asides, Transfers DEF Next, Handler

(* A player in a room has entered. *)
LEMMA InRoomPosted ==
  ASSUME IInv, NEW r \in Room, NEW p \in members[r]
  PROVE  p \in Posted
BY DEF IInv, TypeOK, EnterOnce, Posted

(* Nothing that comes before the player has entered ends the session, but  *)
(* a packet that is refused.                                               *)
LEMMA NextInTime == IInv /\ Connection /\ Counted /\ InTime /\ [Next]_vars => InTime'
<1> SUFFICES ASSUME IInv, Connection, Counted, InTime, [Next]_vars PROVE InTime'
  OBVIOUS
<1>0. TypeOK
  BY DEF IInv
<1> USE <1>0, Kept DEF InTime, Entering
<1>1. CASE Aside
  BY <1>1 DEF Aside, sessionVars, handlerVars, historyVars
<1>2. ASSUME NEW s \in Session, Disconnect(s), UNCHANGED <<recv, entersSent>>,
             early \subseteq early', armed' = armed \/ armed' = [armed EXCEPT ![s] = FALSE],
             \/ s \in early'
             \/ entersSent[s] >= 1 /\ (Entering(s) => entersSent[s] >= 2)
             \/ recv[s] = "out" /\ armed' = [armed EXCEPT ![s] = FALSE]
      PROVE  InTime'
  <2>1. /\ \A t \in Session \ {s} : closing'[t] = closing[t] /\ armed'[t] = armed[t]
        /\ armed'[s] => armed[s]
        /\ recv[s] = "out" /\ armed' = [armed EXCEPT ![s] = FALSE] => ~armed'[s]
    BY <1>2 DEF Disconnect
  <2>. QED BY <1>2, <2>1
<1>3. ASSUME NEW s \in Session, ProcessRecvZero(s) PROVE InTime'
  <2>1. recv[s] = "out"
    BY <1>3 DEF ProcessRecvZero, Connection
  <2>. QED BY <1>2, <1>3, <2>1 DEF ProcessRecvZero, handlerVars, historyVars
<1>4. ASSUME NEW s \in Session, RejectPacket(s) PROVE InTime'
  <2>1. s \in early' \/ entersSent[s] >= 1
    BY <1>4 DEF RejectPacket
  <2>2. recv[s] = "in" /\ early \subseteq early'
    BY <1>4 DEF RejectPacket
  <2>. QED BY <1>2, <1>4, <2>1, <2>2 DEF RejectPacket, handlerVars
<1>5. ASSUME NEW s \in Session, RoomDisconnects(s) PROVE InTime'
  <2>1. PICK r \in Room : \E p \in members[r] : owner[p] = s
    BY <1>5 DEF RoomDisconnects
  <2>2. PICK p \in members[r] : owner[p] = s
    BY <2>1
  <2>3. entersSent[s] >= 1 /\ (Entering(s) => entersSent[s] >= 2)
    BY <2>2, InRoomPosted DEF Counted
  <2>. QED BY <1>2, <1>5, <2>3 DEF RoomDisconnects, handlerVars, historyVars
<1>6. ASSUME NEW s \in Session, OnConnected(s) \/ ProcessRecv(s) \/ RegisterRecv(s) PROVE InTime'
  <2>1. CASE OnConnected(s)
    BY <2>1 DEF OnConnected, GotoRecv, historyVars, Connection
  <2>2. CASE ProcessRecv(s)
    BY <2>2 DEF ProcessRecv, GotoRecv, historyVars
  <2>3. CASE RegisterRecv(s)
    BY <2>3 DEF RegisterRecv, GotoRecv, historyVars
  <2>. QED BY <1>6, <2>1, <2>2, <2>3
<1>7. ASSUME NEW s \in Session, AddPlayer(s) PROVE InTime'
  <2>1. /\ recv[s] = "in" /\ recv' = [recv EXCEPT ![s] = "store"]
        /\ entersSent' = [entersSent EXCEPT ![s] = @ + 1]
        /\ UNCHANGED <<closing, armed, early>>
    BY <1>7, Adds DEF sessionVars, historyVars
  <2>. QED BY <2>1
<1>8. ASSUME NEW s \in Session, StorePlayer(s) \/ ChooseRoom(s) \/ PostEnter(s) PROVE InTime'
  <2>1. /\ UNCHANGED <<closing, armed, early, entersSent>> /\ Entering(s)
        /\ \E l \in {"choose", "post", "in"} : recv' = [recv EXCEPT ![s] = l]
    BY <1>8 DEF StorePlayer, ChooseRoom, PostEnter, GotoRecv, sessionVars, historyVars
  <2>2. entersSent[s] >= 1
    BY <2>1 DEF Counted
  <2>. QED BY <2>1, <2>2
<1>9. ASSUME NEW s \in Session, BeginMove(s) \/ PostMove(s) PROVE InTime'
  <2>1. /\ UNCHANGED <<closing, armed, early, entersSent>> /\ recv[s] \in {"in", "move"}
        /\ \E l \in {"in", "move"} : recv' = [recv EXCEPT ![s] = l]
    BY <1>9 DEF BeginMove, PostMove, GotoRecv, sessionVars, historyVars
  <2>. QED BY <2>1
<1>10. ASSUME NEW s \in Session, Closing(s) PROVE InTime'
  <2>1. /\ armed' = armed /\ closing[s] # "no"
        /\ \A t \in Session \ {s} : closing'[t] = closing[t]
    BY <1>10 DEF Closing, LoadPlayer, PostLeave, RemovePlayer, Unlist, GotoClosing
  <2>. QED BY <1>10, <2>1, Closings DEF historyVars
<1>. QED BY <1>1, <1>3, <1>4, <1>5, <1>6, <1>7, <1>8, <1>9, <1>10, Asides DEF Next, Handler, Transport

(* A player is late because its entering is posted late. *)
LEMMA NextLate == TypeOK /\ late \subseteq Posted /\ [Next]_vars => late' \subseteq Posted'
<1> SUFFICES ASSUME TypeOK, late \subseteq Posted, [Next]_vars PROVE late' \subseteq Posted'
  OBVIOUS
<1>1. CASE Aside
  BY <1>1 DEF Aside, historyVars
<1>2. ASSUME NEW s \in Session, PostEnter(s) PROVE late' \subseteq Posted'
  BY <1>2, PostedEnters DEF PostEnter
<1>3. ASSUME NEW s \in Session, Transfer(s) PROVE late' \subseteq Posted'
  BY <1>3 DEF Transfer
<1>. QED BY <1>1, <1>2, <1>3, Asides, Transfers, Adds, Enters, Closings DEF Next, Handler, historyVars

LEMMA InitFullInv == Init => FullInv
<1> SUFFICES ASSUME Init PROVE FullInv
  OBVIOUS
<1>1. IInv
  BY InitInv
<1>2. Posted = {}
  BY Jobs DEF Posted, Init, Queues!Init
<1>3. /\ \A s \in Session : /\ recv[s] = "new" /\ closing[s] = "no" /\ ~connected[s] /\ ~armed[s]
                             /\ myPlayer[s] = NoPlayer /\ leaver[s] = NoPlayer
      /\ registry = {} /\ late = {}
  BY DEF Init, None
<1>4. Connection /\ Handling /\ Ending /\ InTime
  BY <1>3 DEF Connection, Handling, Own, Entering, Ending, InTime
<1>5. Known /\ Counted
  BY <1>2, <1>3 DEF Known, Counted, Entering
<1>6. Registered
  <2>1. \A p \in Player : owner[p] \in Session
    BY <1>1 DEF IInv, TypeOK
  <2>. QED BY <1>2, <1>3, <2>1 DEF Registered, Made, Entering
<1>. QED BY <1>1, <1>3, <1>4, <1>5, <1>6 DEF FullInv, SessionInv

LEMMA NextFullInv == FullInv /\ [Next]_vars => FullInv'
<1> SUFFICES ASSUME FullInv, [Next]_vars PROVE FullInv'
  OBVIOUS
<1>0. IInv /\ TypeOK /\ SessionInv
  BY DEF FullInv, IInv
<1>1. IInv'
  BY <1>0, NextInv
<1>2. SessionInv'
  BY <1>0, NextConnection, NextHandling, NextKnown, NextEnding, NextRegistered, NextCounted,
     NextInTime, NextLate DEF SessionInv
<1>. QED BY <1>1, <1>2 DEF FullInv

LEMMA FullInvariance == Spec => []FullInv
BY InitFullInv, NextFullInv, PTL DEF Spec

-----------------------------------------------------------------------------
(* Whoever will be in a room has had its entering posted. *)
LEMMA AfterEntered ==
  ASSUME IInv, NEW r \in Room, NEW p \in members[r] \cup After(r)
  PROVE  p \in Player /\ p \in Posted
<1>1. p \in Player
  BY DEF IInv, TypeOK, After
<1>2. p \in members[r] \/ WaitsIn(p, r)
  BY DEF After, WaitsIn, EnterJob
<1>3. EnterJob(p) \notin unsent
  BY <1>1, <1>2 DEF IInv, EnterOnce
<1>. QED BY <1>1, <1>3 DEF Posted

(* A job at the end of the queue has the last word. *)
LEMMA AfterSent ==
  ASSUME TypeOK, NEW r \in Room, NEW j, Posts(r, j), NEW q \in Room, NEW p \in After(q)'
  PROVE  /\ p \in After(q) \/ (q = r /\ j = EnterJob(p))
         /\ q = r => j # LeaveJob(p)
<1>0. Queues!Send(r, j) /\ members' = members
  BY DEF Posts, roomVars
<1>1. CASE q # r
  <2>1. mailbox'[q] = mailbox[q]
    BY <1>0, <1>1, Sent
  <2>. QED BY <1>0, <1>1, <2>1 DEF After, Stays
<1>2. CASE q = r
  <2> DEFINE n == Len(mailbox[r])
  <2>1. /\ n \in Nat /\ Len(mailbox'[r]) = n + 1 /\ mailbox'[r][n + 1] = j
        /\ \A i \in 1..n : mailbox'[r][i] = mailbox[r][i]
    BY <1>0, Sent
  <2>2. CASE p \in members[r] /\ Stays(p, r, 0)'
    <3>1. \A k \in 1..(n + 1) : mailbox'[r][k] # LeaveJob(p)
      BY <2>1, <2>2 DEF Stays, LeaveJob
    <3>2. j # LeaveJob(p)
      <4>1. n + 1 \in 1..(n + 1)
        BY <2>1
      <4>. QED BY <2>1, <3>1, <4>1
    <3>3. Stays(p, r, 0)
      <4>1. \A k \in 1..n : mailbox[r][k] # LeaveJob(p)
        BY <2>1, <3>1
      <4>. QED BY <2>1, <4>1 DEF Stays, LeaveJob
    <3>. QED BY <1>2, <2>2, <3>2, <3>3 DEF After
  <2>3. ASSUME NEW i \in 1..(n + 1), mailbox'[r][i] = EnterJob(p), Stays(p, r, i)'
        PROVE  /\ p \in After(r) \/ j = EnterJob(p)
               /\ j # LeaveJob(p)
    <3>1. \A k \in (i + 1)..(n + 1) : mailbox'[r][k] # LeaveJob(p)
      BY <2>1, <2>3 DEF Stays, LeaveJob
    <3>2. CASE i = n + 1
      BY <2>1, <2>3, <3>2, JobsDiffer
    <3>3. CASE i # n + 1
      <4>1. i \in 1..n /\ n + 1 \in (i + 1)..(n + 1)
        BY <2>1, <3>3
      <4>2. j # LeaveJob(p) /\ mailbox[r][i] = EnterJob(p)
        BY <2>1, <2>3, <3>1, <4>1
      <4>3. \A k \in (i + 1)..n : mailbox[r][k] # LeaveJob(p)
        BY <2>1, <3>1, <4>1
      <4>4. Stays(p, r, i)
        BY <4>3 DEF Stays, LeaveJob
      <4>. QED BY <4>1, <4>2, <4>4 DEF After, EnterJob
    <3>. QED BY <3>2, <3>3
  <2>. QED BY <1>0, <1>2, <2>1, <2>2, <2>3 DEF After, EnterJob
<1>. QED BY <1>1, <1>2

(* Running a job does what was foreseen. *)
LEMMA AfterRan ==
  ASSUME TypeOK, NEW r \in Room, RunJob(r), NEW q \in Room, NEW p \in After(q)'
  PROVE  p \in After(q)
<1> DEFINE e == mailbox[r][1]
<1>0. /\ Queues!Run(r) /\ e \in Job
      /\ \/ e = EnterJob(e.player) /\ EnterGame(r, e.player)
         \/ e = LeaveJob(e.player) /\ LeaveGame(r, e.player)
         \/ e.type = "move" /\ UNCHANGED roomVars
  BY JobRuns
<1>00. p \in Player /\ members \in [Room -> SUBSET Player]
  BY DEF After, TypeOK
<1>1. CASE q # r
  <2>1. mailbox'[q] = mailbox[q]
    BY <1>0, <1>1, Ran
  <2>2. members'[q] = members[q]
    BY <1>0, <1>00, <1>1 DEF EnterGame, LeaveGame, roomVars
  <2>. QED BY <2>1, <2>2 DEF After, Stays
<1>2. CASE q = r
  <2> DEFINE n == Len(mailbox[r])
  <2>1. /\ n \in Nat \ {0} /\ Len(mailbox'[r]) = n - 1
        /\ \A i \in 1..(n - 1) : mailbox'[r][i] = mailbox[r][i + 1]
    BY <1>0, Ran
  <2>2. ASSUME NEW i \in 0..(n - 1), Stays(p, r, i)' PROVE Stays(p, r, i + 1)
    <3>1. \A k \in (i + 1)..(n - 1) : mailbox'[r][k] # LeaveJob(p)
      BY <2>1, <2>2 DEF Stays, LeaveJob
    <3>2. ASSUME NEW k \in (i + 2)..n PROVE mailbox[r][k] # LeaveJob(p)
      <4>1. k - 1 \in (i + 1)..(n - 1) /\ k - 1 \in 1..(n - 1) /\ (k - 1) + 1 = k
        BY <2>1
      <4>. QED BY <2>1, <3>1, <4>1
    <3>3. (i + 1) + 1 = i + 2
      OBVIOUS
    <3>. QED BY <3>2, <3>3 DEF Stays, LeaveJob
  <2>3. CASE p \in members'[r] /\ Stays(p, r, 0)'
    <3>1. Stays(p, r, 1)
      BY <2>1, <2>2, <2>3
    <3>2. (p \in members[r] /\ e # LeaveJob(p)) \/ e = EnterJob(p)
      <4>1. CASE e = EnterJob(e.player) /\ EnterGame(r, e.player)
        BY <1>00, <2>3, <4>1, JobsDiffer DEF EnterGame
      <4>2. CASE e = LeaveJob(e.player) /\ LeaveGame(r, e.player)
        BY <1>00, <2>3, <4>2, JobsDiffer DEF LeaveGame
      <4>3. CASE e.type = "move" /\ UNCHANGED roomVars
        BY <1>00, <2>3, <4>3, Jobs DEF roomVars
      <4>. QED BY <1>0, <4>1, <4>2, <4>3
    <3>3. CASE e = EnterJob(p)
      <4>1. 1 \in 1..n
        BY <2>1
      <4>. QED BY <1>00, <1>2, <3>1, <3>3, <4>1 DEF After, EnterJob
    <3>4. CASE p \in members[r] /\ e # LeaveJob(p)
      <4>1. ASSUME NEW k \in 1..n PROVE mailbox[r][k] # LeaveJob(p)
        <5>1. CASE k = 1
          BY <3>4, <5>1
        <5>2. CASE k # 1
          <6>1. k \in (1 + 1)..n
            BY <5>2
          <6>. QED BY <3>1, <6>1 DEF Stays, LeaveJob
        <5>. QED BY <5>1, <5>2
      <4>2. Stays(p, r, 0)
        BY <4>1 DEF Stays, LeaveJob
      <4>. QED BY <1>00, <1>2, <3>4, <4>2 DEF After
    <3>. QED BY <3>2, <3>3, <3>4
  <2>4. ASSUME NEW i \in 1..(n - 1), mailbox'[r][i] = EnterJob(p), Stays(p, r, i)'
        PROVE  p \in After(q)
    <3>1. i + 1 \in 1..n /\ mailbox[r][i + 1] = EnterJob(p)
      BY <2>1, <2>4
    <3>2. Stays(p, r, i + 1)
      BY <2>1, <2>2, <2>4
    <3>. QED BY <1>00, <1>2, <3>1, <3>2 DEF After, EnterJob
  <2>. QED BY <1>2, <2>1, <2>3, <2>4 DEF After, EnterJob
<1>. QED BY <1>1, <1>2

(* The leaving of a session's player is posted behind its entering, unless *)
(* OnDisconnected has not seen the player. *)
LEMMA NextNoGhost ==
  ASSUME roomCount = 1
  PROVE  FullInv /\ NoGhost /\ [Next]_vars => NoGhost'
<1> SUFFICES ASSUME FullInv, NoGhost, [Next]_vars,
                    NEW s \in Session, closing'[s] \in {"remove", "unlist", "done"},
                    NEW r \in Room, NEW p \in Player, owner'[p] = s, p \in After(r)'
             PROVE  p \in late' \/ (p \in replaced' /\ p # leaver'[s])
  BY DEF NoGhost, PlayersOf, Missed
<1> DEFINE Excused == p \in late' \/ (p \in replaced' /\ p # leaver'[s])
<1>0. IInv /\ TypeOK /\ ChoosesRoom /\ Handling /\ Known /\ r = 1
  BY DEF FullInv, IInv, SessionInv, Room
<1>a. TypeOK
  BY <1>0
<1>1. p \in After(r) => p \in Posted
  BY <1>0, AfterEntered
<1>2. closing[s] \in {"remove", "unlist", "done"} /\ owner[p] = s /\ p \in After(r) =>
        p \in late \/ (p \in replaced /\ p # leaver[s])
  BY DEF NoGhost, PlayersOf, Missed
<1>3. closing \in [Session -> {"no", "pending", "leave", "remove", "unlist", "done"}]
      /\ leaver \in [Session -> Player \cup {NoPlayer}] /\ owner \in [Player -> Session]
  BY <1>0, Kept
(* A step that neither ends a session nor posts a job. *)
<1>4. ASSUME p \in After(r), owner'[p] = owner[p], UNCHANGED <<leaver, late>>, replaced \subseteq replaced',
             closing'[s] = closing[s] \/ closing[s] \in {"remove", "unlist", "done"} \/ closing'[s] = "pending"
      PROVE  Excused
  BY <1>2, <1>4
<1>5. CASE UNCHANGED <<queues, roomVars>>
  <2>0. p \in After(r)
    BY <1>5 DEF After, Stays, queues, roomVars
  <2>1. ASSUME NEW t \in Session, Transfer(t) PROVE Excused
    BY <1>3, <1>4, <2>0, <2>1 DEF Transfer
  <2>2. ASSUME NEW t \in Session, AddPlayer(t) PROVE Excused
    <3>1. PICK x \in Player \ Posted : owner' = [owner EXCEPT ![x] = t]
      BY <2>2, Adds
    <3>2. owner'[p] = owner[p]
      BY <1>1, <1>3, <2>0, <3>1
    <3>3. UNCHANGED <<closing, leaver, late, replaced>>
      BY <2>2, Adds DEF sessionVars, historyVars
    <3>. QED BY <1>4, <2>0, <3>2, <3>3
  <2>3. ASSUME NEW t \in Session, StorePlayer(t) \/ ChooseRoom(t) PROVE Excused
    <3>1. UNCHANGED <<closing, leaver, late, owner>> /\ replaced \subseteq replaced'
      BY <2>3, Enters DEF sessionVars, objectVars
    <3>. QED BY <1>4, <2>0, <3>1
  <2>4. ASSUME NEW t \in Session, PostEnter(t) \/ PostLeave(t) PROVE FALSE
    <3>1. CASE PostEnter(t)
      BY <1>5, <3>1 DEF PostEnter, DoAsync, Queues!Send, queues
    <3>2. CASE PostLeave(t)
      BY <1>5, <3>2 DEF PostLeave, DoAsync, Queues!Send, queues
    <3>. QED BY <2>4, <3>1, <3>2
  <2>5. ASSUME NEW t \in Session, RemovePlayer(t) \/ Unlist(t) PROVE Excused
    <3>1. /\ UNCHANGED <<leaver, late, owner, replaced>>
          /\ closing[t] \in {"remove", "unlist"} /\ \A u \in Session \ {t} : closing'[u] = closing[u]
      BY <1>3, <2>5 DEF RemovePlayer, Unlist, GotoClosing, objectVars, historyVars
    <3>. QED BY <1>4, <2>0, <3>1
  <2>6. ASSUME NEW t \in Session, LoadPlayer(t) PROVE Excused
    <3>1. /\ UNCHANGED <<owner, late, replaced>> /\ closing[t] = "pending"
          /\ leaver' = [leaver EXCEPT ![t] = myPlayer[t]]
          /\ closing' = [closing EXCEPT ![t] = IF myPlayer[t] = NoPlayer THEN "unlist" ELSE "leave"]
      BY <2>6 DEF LoadPlayer, objectVars, historyVars, GotoClosing
    <3>2. CASE t # s
      <4>1. closing'[s] = closing[s] /\ leaver'[s] = leaver[s]
        BY <3>1, <3>2
      <4>. QED BY <1>2, <2>0, <3>1, <4>1
    <3>3. CASE t = s
      <4>1. myPlayer[s] = NoPlayer /\ leaver'[s] = NoPlayer
        BY <1>3, <3>1, <3>3
      <4>2. p \in replaced /\ p # NoPlayer
        BY <1>0, <1>1, <2>0, <3>1, <4>1, PlayerAssumption DEF Known
      <4>. QED BY <3>1, <4>1, <4>2
    <3>. QED BY <3>2, <3>3
  <2>7. CASE Aside
    BY <1>4, <2>0, <2>7 DEF Aside, sessionVars, objectVars, historyVars
  <2>. QED BY <2>1, <2>2, <2>3, <2>4, <2>5, <2>6, <2>7, Asides, Transfers
           DEF Next, Handler, Closing
<1>6. ASSUME NEW t \in Session, PostEnter(t), Posts(targetRoom[t], EnterJob(player[t])) PROVE Excused
  <2>1. /\ recv[t] = "post" /\ targetRoom[t] \in Room /\ UNCHANGED <<closing, owner, leaver, replaced>>
        /\ late' = IF closing[t] \in {"no", "pending"} THEN late ELSE late \cup {player[t]}
    BY <1>0, <1>6 DEF PostEnter, ChoosesRoom, sessionVars, objectVars
  <2>2. p \in After(r) \/ p = player[t]
    <3>1. p \in After(r) \/ EnterJob(player[t]) = EnterJob(p)
      BY <1>a, <1>6, <2>1, AfterSent
    <3>. QED BY <3>1, JobsDiffer
  <2>3. CASE p = player[t]
    <3>1. owner[p] = t
      BY <1>0, <2>1, <2>3 DEF Handling, Entering
    <3>. QED BY <2>1, <2>3, <3>1
  <2>4. CASE p \in After(r)
    BY <1>2, <2>1, <2>4
  <2>. QED BY <2>2, <2>3, <2>4
<1>7. ASSUME NEW t \in Session, PostLeave(t), Posts(1, LeaveJob(leaver[t])) PROVE Excused
  <2>1. /\ closing[t] = "leave" /\ UNCHANGED <<owner, leaver, late, replaced>>
        /\ \A u \in Session \ {t} : closing'[u] = closing[u]
    BY <1>7 DEF PostLeave, GotoClosing, objectVars, historyVars
  <2>2. p \in After(r) /\ p # leaver[t]
    BY <1>0, <1>7, RoomsAre, AfterSent, JobsDiffer
  <2>3. CASE t = s
    BY <1>0, <1>1, <2>1, <2>2, <2>3 DEF Known
  <2>4. CASE t # s
    BY <1>4, <2>1, <2>2, <2>4
  <2>. QED BY <2>3, <2>4
<1>8. ASSUME NEW t \in Session, PostMove(t), Posts(targetRoom[t], MoveJob(myPlayer[t])) PROVE Excused
  <2>1. UNCHANGED <<closing, owner, leaver, late, replaced>> /\ targetRoom[t] \in Room
    BY <1>0, <1>8 DEF PostMove, ChoosesRoom, sessionVars, objectVars, historyVars
  <2>2. p \in After(r)
    <3>1. p \in After(r) \/ MoveJob(myPlayer[t]) = EnterJob(p)
      BY <1>a, <1>8, <2>1, AfterSent
    <3>. QED BY <3>1, JobsDiffer
  <2>. QED BY <1>4, <2>1, <2>2
<1>9. ASSUME NEW q \in Room, RunJob(q) PROVE Excused
  <2>1. UNCHANGED <<closing, owner, leaver, late, replaced>>
    BY <1>9 DEF RunJob, sessionVars, objectVars, historyVars
  <2>2. p \in After(r)
    BY <1>0, <1>9, AfterRan
  <2>. QED BY <1>4, <2>1, <2>2
<1>. QED BY <1>0, <1>5, <1>6, <1>7, <1>8, <1>9, StepKinds

-----------------------------------------------------------------------------
(* The variables of every reachable state have their types. *)
THEOREM TypeCorrect == Spec => []TypeOK
<1>1. IInv => TypeOK
  BY DEF IInv
<1>. QED BY <1>1, Invariance, PTL

(* Lobby uses its rooms' queues as ActorQueue promises to serve them. *)
THEOREM UsesActorQueues == Spec => Queues!Spec
<1>1. Init => Queues!Init
  BY DEF Init
<1>2. IInv /\ [Next]_vars => [Queues!Next]_(Queues!vars)
  <2> SUFFICES ASSUME TypeOK, ChoosesRoom, [Next]_vars PROVE [Queues!Next]_(Queues!vars)
    BY DEF IInv
  <2>1. CASE UNCHANGED <<queues, roomVars>>
    BY <2>1 DEF queues, Queues!vars
  <2>2. ASSUME NEW r \in Room, NEW j, Posts(r, j) PROVE Queues!Next
    BY <2>2, Sent DEF Posts, Queues!Next
  <2>3. ASSUME NEW r \in Room, RunJob(r) PROVE Queues!Next
    BY <2>3 DEF RunJob, Queues!Next
  <2>. QED BY <2>1, <2>2, <2>3, StepKinds, RoomsAre DEF PostEnter, PostMove, ChoosesRoom
<1>. QED BY <1>1, <1>2, Invariance, PTL DEF Spec, Queues!Spec

(***************************************************************************)
(* A session that is gone leaves nothing in the registries but a player    *)
(* that OnDisconnected could not see or that is still being made, and      *)
(* nobody is in a room and missing from them: for any number of sessions,  *)
(* rooms and ENTER_GAMEs, in any order with the end of the connection.     *)
(***************************************************************************)
THEOREM RegistriesExact == Spec => []RegistryExact
<1>1. ASSUME FullInv PROVE RegistryExact
  <2>0. TypeOK /\ IInv /\ Known /\ Ending /\ Registered
    BY <1>1 DEF FullInv, IInv, SessionInv
  <2>1. ASSUME NEW s \in Session, closing[s] = "done",
               NEW p \in Player, owner[p] = s, p \in registry
        PROVE  p \in Missed(s) \/ (Entering(s) /\ player[s] = p)
    <3>1. p # leaver[s] /\ Made(p)
      BY <2>0, <2>1 DEF Ending, Registered
    <3>2. CASE p \in Posted
      BY <2>0, <2>1, <3>1, <3>2 DEF Known, Missed
    <3>. QED BY <2>1, <3>1, <3>2 DEF Made
  <2>2. ASSUME NEW s \in Session, closing[s] = "done" PROVE s \notin sessions
    BY <2>0, <2>2 DEF Ending
  <2>3. ASSUME NEW r \in Room, NEW p \in members[r] \cup After(r)
        PROVE  p \in registry \/ closing[owner[p]] \in {"unlist", "done"}
    <3>1. p \in Player /\ p \in Posted
      BY <2>0, <2>3, AfterEntered
    <3>. QED BY <2>0, <3>1 DEF Registered, Made
  <2>. QED BY <2>1, <2>2, <2>3 DEF RegistryExact, PlayersOf
<1>. QED BY <1>1, FullInvariance, PTL

(***************************************************************************)
(* Whoever OnDisconnected misses because its entering is posted late had a *)
(* packet refused before its ENTER_GAME, or sent a second one, for any     *)
(* number of sessions, rooms and packets.                                  *)
(***************************************************************************)
THEOREM FirstsEnterInTime == Spec => []FirstEntersInTime
<1>1. Init => FirstEntersInTime
  BY DEF Init, FirstEntersInTime
<1>2. FullInv /\ FirstEntersInTime /\ [Next]_vars => FirstEntersInTime'
  <2> SUFFICES ASSUME FullInv, FirstEntersInTime, [Next]_vars, NEW p \in late'
               PROVE  owner'[p] \in early' \/ entersSent'[owner'[p]] > 1
    BY DEF FirstEntersInTime
  <2>0. /\ TypeOK /\ Handling /\ InTime /\ late \subseteq Posted
        /\ entersSent \in [Session -> Nat] /\ owner \in [Player -> Session] /\ Posted \subseteq Player
    BY Kept DEF FullInv, IInv, SessionInv
  <2>1. p \in late => owner[p] \in early \/ entersSent[owner[p]] > 1
    BY DEF FirstEntersInTime
  <2>2. ASSUME p \in late, early \subseteq early', owner' = owner, entersSent' = entersSent
        PROVE  owner'[p] \in early' \/ entersSent'[owner'[p]] > 1
    BY <2>1, <2>2
  <2>3. ASSUME NEW s \in Session, PostEnter(s)
        PROVE  owner'[p] \in early' \/ entersSent'[owner'[p]] > 1
    <3>1. /\ recv[s] = "post" /\ UNCHANGED <<owner, entersSent, early>>
          /\ p \in late \/ (p = player[s] /\ closing[s] \notin {"no", "pending"})
      BY <2>3 DEF PostEnter, objectVars
    <3>2. CASE p = player[s] /\ closing[s] \notin {"no", "pending"}
      BY <2>0, <3>1, <3>2 DEF Handling, InTime, Entering
    <3>. QED BY <2>2, <3>1, <3>2
  <2>4. ASSUME NEW s \in Session, AddPlayer(s)
        PROVE  owner'[p] \in early' \/ entersSent'[owner'[p]] > 1
    <3>1. PICK x \in Player \ Posted : owner' = [owner EXCEPT ![x] = s]
      BY <2>4, Adds
    <3>2. late' = late /\ early' = early /\ entersSent' = [entersSent EXCEPT ![s] = @ + 1]
      BY <2>4, Adds DEF historyVars
    <3>3. p \in Posted /\ owner'[p] = owner[p] /\ owner[p] \in Session
      BY <2>0, <3>1, <3>2
    <3>. QED BY <2>0, <2>1, <3>2, <3>3
  <2>5. ASSUME NEW s \in Session, Transport(s) PROVE early \subseteq early'
    BY <2>5 DEF Transport, OnConnected, ProcessRecv, ProcessRecvZero, RegisterRecv, RejectPacket,
         RoomDisconnects, historyVars
  <2>6. ASSUME NEW s \in Session, BeginMove(s) \/ PostMove(s) PROVE early' = early
    BY <2>6 DEF BeginMove, PostMove, historyVars
  <2>7. ASSUME NEW s \in Session, Transport(s) \/ BeginMove(s) \/ PostMove(s)
        PROVE  owner'[p] \in early' \/ entersSent'[owner'[p]] > 1
    <3>1. late' = late /\ owner' = owner /\ entersSent' = entersSent
      BY <2>7, Transfers DEF Transfer
    <3>. QED BY <2>2, <2>5, <2>6, <2>7, <3>1
  <2>8. ASSUME NEW s \in Session, StorePlayer(s) \/ ChooseRoom(s) \/ Closing(s)
        PROVE  owner'[p] \in early' \/ entersSent'[owner'[p]] > 1
    BY <2>2, <2>8, Enters, Closings DEF objectVars, historyVars
  <2>9. CASE Aside
    BY <2>2, <2>9 DEF Aside, handlerVars, objectVars, historyVars
  <2>. QED BY <2>3, <2>4, <2>7, <2>8, <2>9, Asides DEF Next, Handler
<1>. QED BY <1>1, <1>2, FullInvariance, PTL DEF Spec

(***************************************************************************)
(* With one room, which is what OnDisconnected counts on (it posts to room *)
(* 1, whatever room the player is in), nobody of an ended session whom     *)
(* OnDisconnected could see is in a room when the jobs that wait have run. *)
(***************************************************************************)
THEOREM NoGhosts ==
  ASSUME roomCount = 1
  PROVE  Spec => []NoGhost
<1>1. Init => NoGhost
  BY DEF Init, NoGhost
<1>2. FullInv /\ NoGhost /\ [Next]_vars => NoGhost'
  BY NextNoGhost
<1>. QED BY <1>1, <1>2, FullInvariance, PTL DEF Spec

=============================================================================
