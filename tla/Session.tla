------------------------------ MODULE Session ------------------------------
(***************************************************************************)
(* ServerCore/Session.cpp: one connection, from ProcessConnect to          *)
(* ReleaseSession, with its overlapped I/O.  Send may be called by any     *)
(* thread; completions are handled by whichever worker dequeues them       *)
(* (IocpCore::Dispatch).  Only the send queue is under the session's lock: *)
(* the four IocpEvents, the receive buffer and _connected are not, and     *)
(* rely on at most one operation of each kind being outstanding.           *)
(* Bytes are abstracted: a buffer is one element of Buffer, and what a     *)
(* packet says is the business of PacketStream.tla.                        *)
(***************************************************************************)
EXTENDS Naturals, Sequences, FiniteSets

CONSTANTS Thread,    \* workers, and the threads of the rooms' jobs
          Buffer,    \* send buffers; each is sent once
          NoBuffer,  \* no send buffer in hand
          NoThread   \* nobody holds the lock

ASSUME NoBufferAssumption == NoBuffer \notin Buffer
ASSUME NoThreadAssumption == NoThread \notin Thread

Event == {"connect", "recv", "send", "disconnect"}

VARIABLES
  connected,       \* Session::_connected
  registry,        \* Service::_sessions: this session's entry
  known,           \* a handler has shown the session to a room: any thread may
                   \*   call Send and Disconnect
  lock,            \* Session::_lock
  sendQueue,       \* _sendQueue
  sendRegistered,  \* _sendRegistered
  sendBuffers,     \* _sendEvent.sendBuffers
  owner,           \* owner[e]: the event holds a reference to the session
  io,              \* io[e]: what the system is doing with the event
  inKernel,        \* the buffers of the WSASend that is outstanding
  pc,              \* where each thread is in Session's code
  then,            \* where it goes after Disconnect; after Dispatch, how the
                   \*   operation ended
  handler,         \* the callback of the application it is inside of
  sending,         \* Send's parameter
  unsent,          \* buffers Send was not called with yet
  posted,          \* history: buffers pushed to _sendQueue
  left,            \* history: buffers that have left _sendEvent
  refused,         \* history: those that left because WSASend refused them
  wire             \* history: buffers the system has transmitted

sessionVars == <<registry, known, lock>>
sendVars == <<sendQueue, sendRegistered, sendBuffers>>
ioVars == <<owner, io, inKernel>>
sentVars == <<posted, left, refused, wire>>
vars == <<connected, sessionVars, sendVars, ioVars, pc, then, handler, sending,
          unsent, sentVars>>

Location == {"idle", "connect", "handler", "registerrecv", "lock", "registersend",
             "sendfailed", "onsend", "completesend", "onrecv", "disconnectex",
             "ondisconnect"}

Init ==
  /\ connected = FALSE /\ registry = "new" /\ known = FALSE /\ lock = NoThread
  /\ sendQueue = <<>> /\ sendRegistered = FALSE /\ sendBuffers = <<>>
  /\ owner = [e \in Event |-> FALSE]
  /\ io = [e \in Event |-> "none"]
  /\ inKernel = <<>>
  /\ pc = [t \in Thread |-> "idle"]
  /\ then = [t \in Thread |-> "idle"]
  /\ handler = [t \in Thread |-> "none"]
  /\ sending = [t \in Thread |-> NoBuffer]
  /\ unsent = Buffer
  /\ posted = <<>> /\ left = <<>> /\ refused = {} /\ wire = <<>>

At(t, l) == pc[t] = l
Goto(t, l) == pc' = [pc EXCEPT ![t] = l]

(* Where the thread continues when it is done with Session's code. *)
Outside(t) == IF handler[t] = "none" THEN "idle" ELSE "handler"

(* A thread that is inside a callback, or that runs a room's job. *)
Calls(t) == At(t, "handler") \/ (At(t, "idle") /\ known)

Elements(s) == {s[i] : i \in DOMAIN s}

(* Mutant: the event does not take a reference to the session. *)
BeginUnowned(e) ==
  /\ io' = [io EXCEPT ![e] = "pending"]
  /\ UNCHANGED owner

(* An operation on event e that the system accepts. *)
Begin(e) ==
  /\ io' = [io EXCEPT ![e] = "pending"]
  /\ owner' = [owner EXCEPT ![e] = TRUE]

-----------------------------------------------------------------------------
(* The system.  External: an operation that was accepted completes once,   *)
(* with success or with an error; a WSASend transmits all of its buffers   *)
(* or, when it fails, none of them.                                        *)

Complete(e, how) ==
  /\ io[e] = "pending"
  /\ io' = [io EXCEPT ![e] = how]
  /\ wire' = IF e = "send" /\ how = "done" THEN wire \o inKernel ELSE wire
  /\ inKernel' = IF e = "send" THEN <<>> ELSE inKernel
  /\ UNCHANGED <<connected, sessionVars, sendVars, owner, pc, then, handler, sending,
                 unsent, posted, left, refused>>

(* IocpCore::Dispatch calls Session::Dispatch for a completion with an     *)
(* error too, which send and receive see as 0 bytes.                       *)
Dispatch(t, e) ==
  /\ At(t, "idle")
  /\ io[e] \in {"done", "failed"}
  /\ Goto(t, CASE e = "connect" -> "connect" [] e = "recv" -> "onrecv"
               [] e = "send" -> "onsend" [] e = "disconnect" -> "ondisconnect")
  /\ then' = [then EXCEPT ![t] = io[e]]
  /\ io' = [io EXCEPT ![e] = "none"]
  /\ owner' = [owner EXCEPT ![e] = FALSE]
  /\ UNCHANGED <<connected, sessionVars, sendVars, inKernel, handler, sending,
                 unsent, sentVars>>

-----------------------------------------------------------------------------
(* Connect.  A server's session comes from Listener::ProcessAccept, a      *)
(* client's from ConnectEx, whose failure also ends up in ProcessConnect.  *)

Accept(t) ==
  /\ At(t, "idle") /\ registry = "new"
  /\ registry' = "opening"
  /\ Goto(t, "connect")
  /\ UNCHANGED <<connected, known, lock, sendVars, ioVars, then, handler, sending,
                 unsent, sentVars>>

RegisterConnect(t) ==
  /\ At(t, "idle") /\ registry = "new" /\ ~connected
  /\ registry' = "opening"
  /\ Begin("connect")
  /\ UNCHANGED <<connected, known, lock, sendVars, inKernel, pc, then, handler,
                 sending, unsent, sentVars>>

(* AddSession, then OnConnected.  Nobody else has the session yet. *)
ProcessConnect(t) ==
  /\ At(t, "connect")
  /\ connected' = TRUE
  /\ registry' = "listed"
  /\ handler' = [handler EXCEPT ![t] = "connected"]
  /\ Goto(t, "handler")
  /\ UNCHANGED <<known, lock, sendVars, ioVars, then, sending, unsent, sentVars>>

(* OnConnected or OnRecv returns; RegisterRecv is next. *)
HandlerReturns(t) ==
  /\ At(t, "handler")
  /\ handler' = [handler EXCEPT ![t] = "none"]
  /\ Goto(t, "registerrecv")
  /\ UNCHANGED <<connected, sessionVars, sendVars, ioVars, then, sending, unsent, sentVars>>

(* A packet handler has a room take the session. *)
Publish(t) ==
  /\ At(t, "handler") /\ handler[t] = "recv" /\ ~known
  /\ known' = TRUE
  /\ UNCHANGED <<connected, registry, lock, sendVars, ioVars, pc, then, handler, sending,
                 unsent, sentVars>>

-----------------------------------------------------------------------------
(* Disconnect, called by a thread that continues at l. *)

(* Mutant: the old value of _connected is not looked at. *)
DisconnectAgain(t, l) ==
  /\ connected' = FALSE
  /\ Goto(t, "disconnectex")
  /\ then' = [then EXCEPT ![t] = l]

(* _connected.exchange(false): only the first caller goes on. *)
Disconnect(t, l) ==
  /\ connected' = FALSE
  /\ Goto(t, IF connected THEN "disconnectex" ELSE l)
  /\ then' = IF connected THEN [then EXCEPT ![t] = l] ELSE then

(* By a packet handler (rate limit) or by a room (no pong) *)
CallDisconnect(t) ==
  /\ Calls(t) /\ handler[t] # "connected"
  /\ Disconnect(t, pc[t])
  /\ UNCHANGED <<sessionVars, sendVars, ioVars, handler, sending, unsent, sentVars>>

(* RegisterDisconnect.  When DisconnectEx refuses, nobody will release the *)
(* session.                                                                *)
RegisterDisconnect(t) ==
  /\ At(t, "disconnectex")
  /\ \/ Begin("disconnect") /\ UNCHANGED registry
     \/ registry' = "leaked" /\ UNCHANGED <<io, owner>>
  /\ Goto(t, then[t])
  /\ UNCHANGED <<connected, known, lock, sendVars, inKernel, then, handler, sending,
                 unsent, sentVars>>

(* Mutant: OnDisconnected, and no ReleaseSession. *)
ProcessDisconnectKeep(t) ==
  /\ At(t, "ondisconnect")
  /\ Goto(t, "idle")
  /\ UNCHANGED <<connected, sessionVars, sendVars, ioVars, then, handler, sending,
                 unsent, sentVars>>

(* OnDisconnected, which sends nothing, and ReleaseSession *)
ProcessDisconnect(t) ==
  /\ At(t, "ondisconnect")
  /\ registry' = "released"
  /\ Goto(t, "idle")
  /\ UNCHANGED <<connected, known, lock, sendVars, ioVars, then, handler, sending,
                 unsent, sentVars>>

-----------------------------------------------------------------------------
(* Receive. *)

RegisterRecv(t) ==
  /\ At(t, "registerrecv") /\ connected
  /\ Begin("recv")
  /\ Goto(t, "idle")
  /\ UNCHANGED <<connected, sessionVars, sendVars, inKernel, then, handler, sending,
                 unsent, sentVars>>

(* Not connected any more; or WSARecv refuses and HandleError only prints. *)
RegisterRecvNothing(t) ==
  /\ At(t, "registerrecv")
  /\ Goto(t, "idle")
  /\ UNCHANGED <<connected, sessionVars, sendVars, ioVars, then, handler, sending,
                 unsent, sentVars>>

(* WSARecv reports that the connection was reset or aborted. *)
RegisterRecvReset(t) ==
  /\ At(t, "registerrecv") /\ connected
  /\ Disconnect(t, "idle")
  /\ UNCHANGED <<sessionVars, sendVars, ioVars, handler, sending, unsent, sentVars>>

(* 0 bytes, an overflow, or a malformed packet (OnRecv < 0), which may     *)
(* come after packets that were handled.                                   *)
ProcessRecvBad(t) ==
  /\ At(t, "onrecv") \/ (At(t, "handler") /\ handler[t] = "recv")
  /\ handler' = [handler EXCEPT ![t] = "none"]
  /\ Disconnect(t, "idle")
  /\ UNCHANGED <<sessionVars, sendVars, ioVars, sending, unsent, sentVars>>

(* Mutant: the next WSARecv is posted before the data are processed. *)
ProcessRecvLate(t) ==
  /\ At(t, "onrecv") /\ then[t] = "done"
  /\ handler' = [handler EXCEPT ![t] = "recv"]
  /\ Goto(t, "handler")
  /\ Begin("recv")
  /\ UNCHANGED <<connected, sessionVars, sendVars, inKernel, then, sending, unsent, sentVars>>

(* OnRecv hands complete packets to the packet handlers. *)
ProcessRecv(t) ==
  /\ At(t, "onrecv") /\ then[t] = "done"
  /\ handler' = [handler EXCEPT ![t] = "recv"]
  /\ Goto(t, "handler")
  /\ UNCHANGED <<connected, sessionVars, sendVars, ioVars, then, sending, unsent, sentVars>>

-----------------------------------------------------------------------------
(* Send. *)

(* IsConnected, read without the lock, *)
Send(t, b) ==
  /\ Calls(t) /\ b \in unsent /\ connected
  /\ unsent' = unsent \ {b}
  /\ sending' = [sending EXCEPT ![t] = b]
  /\ Goto(t, "lock")
  /\ UNCHANGED <<connected, sessionVars, sendVars, ioVars, then, handler, sentVars>>

(* is false; or the encryption failed. *)
SendNothing(t, b) ==
  /\ Calls(t) /\ b \in unsent
  /\ unsent' = unsent \ {b}
  /\ UNCHANGED <<connected, sessionVars, sendVars, ioVars, pc, then, handler, sending, sentVars>>

(* Mutant: every Send registers. *)
PushSendAlways(t) ==
  /\ At(t, "lock") /\ lock = NoThread
  /\ sendQueue' = Append(sendQueue, sending[t])
  /\ posted' = Append(posted, sending[t])
  /\ sending' = [sending EXCEPT ![t] = NoBuffer]
  /\ sendRegistered' = TRUE
  /\ lock' = t
  /\ Goto(t, "registersend")
  /\ UNCHANGED <<connected, registry, known, sendBuffers, ioVars, then, handler, unsent,
                 left, refused, wire>>

(* Under the lock: push, and _sendRegistered.exchange(true).  The thread   *)
(* that finds it clear keeps the lock and registers.                       *)
PushSend(t) ==
  /\ At(t, "lock") /\ lock = NoThread
  /\ sendQueue' = Append(sendQueue, sending[t])
  /\ posted' = Append(posted, sending[t])
  /\ sending' = [sending EXCEPT ![t] = NoBuffer]
  /\ sendRegistered' = TRUE
  /\ lock' = IF sendRegistered THEN NoThread ELSE t
  /\ Goto(t, IF sendRegistered THEN Outside(t) ELSE "registersend")
  /\ UNCHANGED <<connected, registry, known, sendBuffers, ioVars, then, handler, unsent,
                 left, refused, wire>>

(* Mutant: the buffers stay in the queue. *)
TakeQueueKeep(t) ==
  /\ At(t, "registersend") /\ connected
  /\ UNCHANGED sendQueue

(* RegisterSend: everything that waits goes into one event, *)
TakeQueue(t) ==
  /\ At(t, "registersend") /\ connected
  /\ sendQueue' = <<>>

(* which WSASend accepts, *)
RegisterSend(t) ==
  /\ TakeQueue(t)
  /\ sendBuffers' = sendQueue
  /\ inKernel' = sendQueue
  /\ Begin("send")
  /\ lock' = NoThread
  /\ Goto(t, Outside(t))
  /\ UNCHANGED <<connected, registry, known, sendRegistered, then, handler, sending,
                 unsent, sentVars>>

(* or refuses because the connection was reset (HandleError disconnects,   *)
(* with the lock held), or for another reason (HandleError only prints).   *)
RegisterSendFails(t) ==
  /\ TakeQueue(t)
  /\ sendBuffers' = sendQueue
  /\ \/ Disconnect(t, "sendfailed")
     \/ Goto(t, "sendfailed") /\ UNCHANGED <<connected, then>>
  /\ UNCHANGED <<sessionVars, sendRegistered, ioVars, handler, sending, unsent, sentVars>>

(* After HandleError: the buffers are released, sent or not. *)
AbandonSend(t) ==
  /\ At(t, "sendfailed")
  /\ left' = left \o sendBuffers
  /\ refused' = refused \cup Elements(sendBuffers)
  /\ sendBuffers' = <<>>
  /\ sendRegistered' = FALSE
  /\ lock' = NoThread
  /\ Goto(t, Outside(t))
  /\ UNCHANGED <<connected, registry, known, sendQueue, ioVars, then, handler, sending,
                 unsent, posted, wire>>

(* Not connected any more: RegisterSend returns, the flag remains set. *)
RegisterSendClosed(t) ==
  /\ At(t, "registersend") /\ ~connected
  /\ lock' = NoThread
  /\ Goto(t, Outside(t))
  /\ UNCHANGED <<connected, registry, known, sendVars, ioVars, then, handler, sending,
                 unsent, sentVars>>

(* ProcessSend: release the event's buffers, without the lock. *)
ProcessSend(t) ==
  /\ At(t, "onsend")
  /\ left' = left \o sendBuffers
  /\ sendBuffers' = <<>>
  /\ \/ then[t] = "done" /\ Goto(t, "completesend") /\ UNCHANGED <<connected, then>>
     \/ then[t] = "failed" /\ Disconnect(t, "idle")
  /\ UNCHANGED <<sessionVars, sendQueue, sendRegistered, ioVars, handler, sending,
                 unsent, posted, refused, wire>>

(* Mutant: the flag is cleared without a look at the queue. *)
CompleteSendBlindly(t) ==
  /\ At(t, "completesend") /\ lock = NoThread
  /\ sendRegistered' = FALSE
  /\ Goto(t, "idle")
  /\ UNCHANGED <<connected, sessionVars, sendQueue, sendBuffers, ioVars, then, handler,
                 sending, unsent, sentVars>>

(* Then, with the lock: clear the flag, or send what came in meanwhile. *)
CompleteSend(t) ==
  /\ At(t, "completesend") /\ lock = NoThread
  /\ sendRegistered' = (sendQueue # <<>>)
  /\ lock' = IF sendQueue = <<>> THEN NoThread ELSE t
  /\ Goto(t, IF sendQueue = <<>> THEN "idle" ELSE "registersend")
  /\ UNCHANGED <<connected, registry, known, sendQueue, sendBuffers, ioVars, then, handler,
                 sending, unsent, sentVars>>

-----------------------------------------------------------------------------

(* Session's code, and callbacks that return. *)
SessionStep(t) ==
  \/ ProcessConnect(t) \/ HandlerReturns(t)
  \/ RegisterDisconnect(t) \/ ProcessDisconnect(t)
  \/ RegisterRecv(t) \/ RegisterRecvNothing(t) \/ RegisterRecvReset(t)
  \/ ProcessRecvBad(t) \/ ProcessRecv(t)
  \/ PushSend(t) \/ RegisterSend(t) \/ RegisterSendFails(t) \/ AbandonSend(t)
  \/ RegisterSendClosed(t) \/ ProcessSend(t) \/ CompleteSend(t)

(* Who uses the session. *)
CallerStep(t) ==
  \/ Accept(t) \/ RegisterConnect(t) \/ Publish(t) \/ CallDisconnect(t)
  \/ \E b \in Buffer : Send(t, b) \/ SendNothing(t, b)

Next ==
  \/ \E e \in Event : Complete(e, "done") \/ Complete(e, "failed")
  \/ \E t \in Thread :
       SessionStep(t) \/ CallerStep(t) \/ \E e \in Event : Dispatch(t, e)

Spec == Init /\ [][Next]_vars

(***************************************************************************)
(* Threads run, callbacks return, and the system completes a WSASend and a *)
(* DisconnectEx, with success or not (a peer that stops reading and a send *)
(* that never completes is Room::SendPing's business).  A WSARecv may stay *)
(* pending for ever.  GetQueuedCompletionStatus returns the oldest         *)
(* completion, so none is passed over for ever.                            *)
(***************************************************************************)
Fairness ==
  /\ \A e \in {"send", "disconnect"} :
       WF_vars(Complete(e, "done") \/ Complete(e, "failed"))
  /\ \A t \in Thread : WF_vars(SessionStep(t))
  /\ \A e \in Event : SF_vars(\E t \in Thread : Dispatch(t, e))

FairSpec == Spec /\ Fairness

-----------------------------------------------------------------------------
(* Who is in charge of the send event: a thread between setting and        *)
(* clearing _sendRegistered, or the system.                                *)
SendParties ==
  {t \in Thread :
     \/ pc[t] \in {"registersend", "sendfailed", "onsend", "completesend"}
     \/ pc[t] = "disconnectex" /\ then[t] = "sendfailed"}
  \cup (IF io["send"] = "none" THEN {} ELSE {NoThread})

(* Who may touch the receive buffer and what OnRecv keeps per session. *)
RecvParties ==
  {t \in Thread :
     \/ pc[t] \in {"connect", "registerrecv", "onrecv"}
     \/ handler[t] # "none"}
  \cup (IF io["recv"] = "none" /\ io["connect"] = "none" THEN {} ELSE {NoThread})

Locked(t) ==
  \/ pc[t] \in {"registersend", "sendfailed"}
  \/ pc[t] = "disconnectex" /\ then[t] = "sendfailed"

(* The types of the variables. *)
TypeOK ==
  /\ connected \in BOOLEAN /\ sendRegistered \in BOOLEAN /\ known \in BOOLEAN
  /\ lock \in Thread \cup {NoThread}
  /\ sendQueue \in Seq(Buffer) /\ sendBuffers \in Seq(Buffer) /\ inKernel \in Seq(Buffer)
  /\ owner \in [Event -> BOOLEAN]
  /\ io \in [Event -> {"none", "pending", "done", "failed"}]
  /\ pc \in [Thread -> Location]
  /\ then \in [Thread -> Location \cup {"done", "failed"}]
  /\ handler \in [Thread -> {"none", "connected", "recv"}]
  /\ sending \in [Thread -> Buffer \cup {NoBuffer}]
  /\ registry \in {"new", "opening", "listed", "released", "leaked"}
  /\ unsent \in SUBSET Buffer /\ refused \in SUBSET Buffer
  /\ posted \in Seq(Buffer) /\ wire \in Seq(Buffer) /\ left \in Seq(Buffer)

(***************************************************************************)
(* There is never more than one party in charge of _sendEvent, so it is    *)
(* never Init-ed while the system uses it; and as long as the session is   *)
(* connected, a flag that is set has a party that will clear it, and       *)
(* buffers that wait have one that will send them (no send is stranded).   *)
(***************************************************************************)
OneSender ==
  /\ Cardinality(SendParties) <= 1
  /\ ~sendRegistered => SendParties = {} /\ sendQueue = <<>>
  /\ connected /\ sendRegistered => SendParties # {}
  /\ \A t \in Thread : Locked(t) <=> lock = t

(***************************************************************************)
(* Receive side: the buffer, the sequence number and the rate limiter of a *)
(* session have no lock because only one thread, or the system, is ever    *)
(* between two WSARecv calls - although any worker may be the one.         *)
(***************************************************************************)
OneReceiver == Cardinality(RecvParties) <= 1

(***************************************************************************)
(* What an overlapped operation uses stays alive until its completion is   *)
(* dequeued: the event holds a reference to the session, and _sendEvent    *)
(* still holds exactly the buffers the system was given.                   *)
(***************************************************************************)
Pinned ==
  /\ \A e \in Event : io[e] # "none" => owner[e]
  /\ io["send"] = "pending" => inKernel = sendBuffers

(***************************************************************************)
(* Buffers are transmitted in the order in which Send pushed them, each at *)
(* most once, and none disappears: it is on the way, transmitted, or it    *)
(* was on a connection that is closed or in a WSASend that was refused.    *)
(***************************************************************************)
SendOrder ==
  /\ posted = left \o sendBuffers \o sendQueue
  /\ \A i, j \in DOMAIN wire : i <= j =>
       \E k, m \in DOMAIN posted : k <= m /\ posted[k] = wire[i] /\ posted[m] = wire[j]
  /\ \A i, j \in DOMAIN wire : wire[i] = wire[j] => i = j
  /\ connected => Elements(left) \subseteq Elements(wire) \cup refused

(***************************************************************************)
(* ReleaseSession's ASSERT_CRASH: when OnDisconnected has run the session  *)
(* is in the service's set, so nobody has disconnected it before.          *)
(***************************************************************************)
ReleaseFindsSession == \A t \in Thread : At(t, "ondisconnect") => registry = "listed"

(* A buffer that is queued is transmitted, unless the connection ends. *)
SentOrClosed ==
  \A b \in Buffer :
    b \in Elements(posted) ~> (b \in Elements(wire) \cup refused \/ ~connected)

(* A session that is disconnected leaves the service's set, unless         *)
(* DisconnectEx refused.                                                   *)
CloseCompletes ==
  (registry = "listed" /\ ~connected) ~> (registry \in {"released", "leaked"})

=============================================================================
