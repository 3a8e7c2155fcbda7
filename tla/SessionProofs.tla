--------------------------- MODULE SessionProofs ---------------------------
(***************************************************************************)
(* Proofs about Session for every number of threads and buffers: one party *)
(* in charge of the send event and no send stranded, one receiver, what an *)
(* overlapped operation uses stays alive, buffers leave in order, and      *)
(* ReleaseSession's assertion.                                             *)
(***************************************************************************)
EXTENDS Session, FiniteSetTheorems, SequenceTheorems, TLAPS

(* The elements of SendParties and RecvParties that are threads. *)
Sends(t) ==
  \/ pc[t] \in {"registersend", "sendfailed", "onsend", "completesend"}
  \/ pc[t] = "disconnectex" /\ then[t] = "sendfailed"

Receives(t) ==
  \/ pc[t] \in {"connect", "registerrecv", "onrecv"}
  \/ handler[t] # "none"

(* Which callback a thread is inside of, and where it goes after           *)
(* Disconnect, agree with where it is.                                     *)
Locals ==
  \A t \in Thread :
    /\ pc[t] = "handler" => handler[t] # "none"
    /\ handler[t] # "none" =>
         pc[t] \in {"handler", "lock", "registersend", "sendfailed", "disconnectex"}
    /\ pc[t] = "disconnectex" =>
         /\ then[t] \in {"idle", "handler", "sendfailed"}
         /\ then[t] = "handler" => handler[t] # "none"
         /\ then[t] = "idle" => handler[t] = "none"
    /\ pc[t] = "onsend" => then[t] \in {"done", "failed"}
    /\ pc[t] = "lock" <=> sending[t] \in Buffer

(* Until ProcessConnect nobody but the party that connects has the session. *)
Opening ==
  /\ registry \in {"new", "opening"} =>
       /\ ~connected /\ ~known /\ ~sendRegistered /\ left = <<>>
       /\ \A e \in {"recv", "send", "disconnect"} : io[e] = "none"
       /\ \A t \in Thread : pc[t] \in {"idle", "connect"} /\ handler[t] = "none"
  /\ \A t \in Thread : pc[t] = "connect" => registry = "opening" /\ io["connect"] = "none"
  /\ \A t, u \in Thread : pc[t] = "connect" /\ pc[u] = "connect" => t = u
  /\ io["connect"] # "none" => registry = "opening"

(* At most one party disconnects, and it finds the session in the registry. *)
Closing ==
  /\ connected => registry = "listed"
  /\ \A t \in Thread : pc[t] \in {"disconnectex", "ondisconnect"} =>
       ~connected /\ registry = "listed" /\ io["disconnect"] = "none"
  /\ \A t, u \in Thread :
       /\ pc[t] \in {"disconnectex", "ondisconnect"}
       /\ pc[u] \in {"disconnectex", "ondisconnect"}
       => t = u
  /\ io["disconnect"] # "none" => ~connected /\ registry = "listed"

(* OneSender, with the cardinality taken apart. *)
Sender ==
  /\ \A t, u \in Thread : Sends(t) /\ Sends(u) => t = u
  /\ \A t \in Thread : Sends(t) => io["send"] = "none" /\ sendRegistered
  /\ io["send"] # "none" => sendRegistered
  /\ ~sendRegistered => sendQueue = <<>> /\ sendBuffers = <<>>
  /\ connected /\ sendRegistered => io["send"] # "none" \/ \E t \in Thread : Sends(t)
  /\ \A t \in Thread : Locked(t) <=> lock = t
  /\ \A t \in Thread : pc[t] \in {"registersend", "completesend"} => sendBuffers = <<>>
  /\ \A t \in Thread : Locked(t) /\ pc[t] # "registersend" => sendQueue = <<>>

(* OneReceiver, with the cardinality taken apart. *)
Receiver ==
  /\ \A t, u \in Thread : Receives(t) /\ Receives(u) => t = u
  /\ \A t \in Thread : Receives(t) => io["recv"] = "none" /\ io["connect"] = "none"

(* A buffer is with the caller, in Send, or posted: never in two places. *)
Fresh ==
  /\ \A i, j \in DOMAIN posted : posted[i] = posted[j] => i = j
  /\ \A i \in DOMAIN posted : posted[i] \notin unsent
  /\ \A t \in Thread :
       /\ sending[t] \notin unsent
       /\ \A i \in DOMAIN posted : posted[i] # sending[t]
       /\ \A u \in Thread : sending[t] = sending[u] /\ sending[t] \in Buffer => t = u

(* How far the buffers that have been transmitted reach into those that    *)
(* were posted.                                                            *)
Reach ==
  /\ \A i \in DOMAIN wire :
       wire[i] \in Elements(left) \/ (wire[i] \in Elements(sendBuffers) /\ io["send"] # "pending")
  /\ io["send"] = "done" => Elements(sendBuffers) \subseteq Elements(wire)
  /\ \A t \in Thread : pc[t] = "onsend" /\ then[t] = "done" =>
       Elements(sendBuffers) \subseteq Elements(wire)

IInv ==
  /\ TypeOK /\ Locals /\ Opening /\ Closing /\ Sender /\ Receiver /\ Pinned
  /\ Fresh /\ Reach /\ SendOrder

-----------------------------------------------------------------------------
(* A set no two members of which differ has at most one. *)
LEMMA AtMostOne ==
  ASSUME NEW S, \A x, y \in S : x = y
  PROVE  Cardinality(S) <= 1
<1>1. CASE S = {}
  BY <1>1, FS_EmptySet
<1>2. CASE S # {}
  <2>1. PICK x \in S : TRUE
    BY <1>2
  <2>2. S = {x}
    BY <2>1
  <2>. QED BY <2>2, FS_Singleton
<1>. QED BY <1>1, <1>2

(* Initially no thread is in the session's code and nothing is sent. *)
LEMMA InitInv == Init => IInv
<1> SUFFICES ASSUME Init PROVE IInv
  OBVIOUS
<1>1. TypeOK
  <2>1. /\ owner \in [Event -> BOOLEAN]
        /\ io \in [Event -> {"none", "pending", "done", "failed"}]
    BY DEF Init
  <2>2. /\ pc \in [Thread -> Location] /\ then \in [Thread -> Location \cup {"done", "failed"}]
        /\ handler \in [Thread -> {"none", "connected", "recv"}]
        /\ sending \in [Thread -> Buffer \cup {NoBuffer}]
    BY DEF Init, Location
  <2>3. <<>> \in Seq(Buffer)
    OBVIOUS
  <2>. QED BY <2>1, <2>2, <2>3 DEF Init, TypeOK
<1>2. Locals /\ Opening /\ Closing
  BY NoBufferAssumption DEF Init, Locals, Opening, Closing, Event
<1>3. Sender /\ Receiver
  BY NoThreadAssumption DEF Init, Sender, Receiver, Sends, Receives, Locked, Event
<1>4. Pinned
  BY DEF Init, Pinned, Event
<1>5. Fresh /\ Reach
  BY NoBufferAssumption DEF Init, Fresh, Reach, Elements, Event
<1>6. SendOrder
  BY DEF Init, SendOrder, Elements, Event
<1>. QED BY <1>1, <1>2, <1>3, <1>4, <1>5, <1>6 DEF IInv

-----------------------------------------------------------------------------
(* RegisterSendFails, with what Disconnect does written out. *)
LEMMA RegisterSendFailsDoes ==
  ASSUME NEW t \in Thread, TypeOK, RegisterSendFails(t)
  PROVE  /\ pc[t] = "registersend" /\ sendQueue' = <<>> /\ sendBuffers' = sendQueue
         /\ UNCHANGED <<registry, known, lock, sendRegistered, owner, io, inKernel>>
         /\ UNCHANGED <<handler, sending, unsent, posted, left, refused, wire>>
         /\ connected /\ connected' \in BOOLEAN
         /\ \A u \in Thread : u # t => pc'[u] = pc[u] /\ then'[u] = then[u]
         /\ \/ pc'[t] = "disconnectex" /\ then'[t] = "sendfailed" /\ ~connected'
            \/ pc'[t] = "sendfailed" /\ then'[t] = then[t] /\ connected'
<1>1. /\ pc[t] = "registersend" /\ connected
      /\ sendQueue' = <<>> /\ sendBuffers' = sendQueue
      /\ UNCHANGED <<registry, known, lock, sendRegistered, owner, io, inKernel>>
      /\ UNCHANGED <<handler, sending, unsent, posted, left, refused, wire>>
  BY DEF RegisterSendFails, TakeQueue, At, sessionVars, ioVars, sentVars
<1>2. \/ /\ connected' = FALSE /\ pc' = [pc EXCEPT ![t] = "disconnectex"]
         /\ then' = [then EXCEPT ![t] = "sendfailed"]
      \/ connected' = connected /\ pc' = [pc EXCEPT ![t] = "sendfailed"] /\ then' = then
  BY <1>1 DEF RegisterSendFails, Disconnect, Goto
<1>3. DOMAIN pc = Thread /\ DOMAIN then = Thread
  BY DEF TypeOK
<1>. QED BY <1>1, <1>2, <1>3

(* ProcessSend, likewise. *)
LEMMA ProcessSendDoes ==
  ASSUME NEW t \in Thread, TypeOK, ProcessSend(t)
  PROVE  /\ pc[t] = "onsend" /\ left' = left \o sendBuffers /\ sendBuffers' = <<>>
         /\ UNCHANGED <<registry, known, lock, sendQueue, sendRegistered, owner, io, inKernel>>
         /\ UNCHANGED <<handler, sending, unsent, posted, refused, wire>>
         /\ \A u \in Thread : u # t => pc'[u] = pc[u] /\ then'[u] = then[u]
         /\ \/ /\ pc'[t] = "completesend" /\ then[t] = "done" /\ then'[t] = then[t]
               /\ connected' = connected
            \/ pc'[t] = "disconnectex" /\ then'[t] = "idle" /\ connected /\ ~connected'
            \/ pc'[t] = "idle" /\ then'[t] = then[t] /\ ~connected /\ ~connected'
<1>1. /\ pc[t] = "onsend" /\ left' = left \o sendBuffers /\ sendBuffers' = <<>>
      /\ UNCHANGED <<registry, known, lock, sendQueue, sendRegistered, owner, io, inKernel>>
      /\ UNCHANGED <<handler, sending, unsent, posted, refused, wire>>
  BY DEF ProcessSend, At, sessionVars, ioVars
<1>2. \/ /\ then[t] = "done" /\ connected' = connected
         /\ pc' = [pc EXCEPT ![t] = "completesend"] /\ then' = then
      \/ /\ connected /\ connected' = FALSE
         /\ pc' = [pc EXCEPT ![t] = "disconnectex"] /\ then' = [then EXCEPT ![t] = "idle"]
      \/ /\ ~connected /\ connected' = FALSE
         /\ pc' = [pc EXCEPT ![t] = "idle"] /\ then' = then
  BY DEF ProcessSend, Disconnect, Goto
<1>3. DOMAIN pc = Thread /\ DOMAIN then = Thread
  BY DEF TypeOK
<1>. QED BY <1>1, <1>2, <1>3

(* Every step assigns every variable a value of its type. *)
LEMMA NextTypeOK == TypeOK /\ Locals /\ [Next]_vars => TypeOK'
<1> SUFFICES ASSUME TypeOK, Locals, [Next]_vars PROVE TypeOK'
  OBVIOUS
<1> USE DEF TypeOK, Goto, At, Begin, sessionVars, sendVars, ioVars, sentVars
<1>1. ASSUME NEW e \in Event, NEW how \in {"done", "failed"}, Complete(e, how) PROVE TypeOK'
  BY <1>1 DEF Complete
<1>2. ASSUME NEW t \in Thread, NEW e \in Event, Dispatch(t, e) PROVE TypeOK'
  <2>1. e \in {"connect", "recv", "send", "disconnect"}
    BY DEF Event
  <2>. QED BY <1>2, <2>1 DEF Dispatch, Location
<1>3. ASSUME NEW t \in Thread, ProcessConnect(t) PROVE TypeOK'
  BY <1>3 DEF ProcessConnect, Location
<1>4. ASSUME NEW t \in Thread, HandlerReturns(t) \/ ProcessDisconnect(t) PROVE TypeOK'
  BY <1>4 DEF HandlerReturns, ProcessDisconnect, Location
<1>5. ASSUME NEW t \in Thread, Accept(t) \/ Publish(t) PROVE TypeOK'
  BY <1>5 DEF Accept, Publish, Location
<1>6. ASSUME NEW t \in Thread, RegisterDisconnect(t) PROVE TypeOK'
  <2>1. then[t] \in Location
    BY <1>6 DEF RegisterDisconnect, Locals, Location
  <2>2. pc' \in [Thread -> Location]
    BY <1>6, <2>1 DEF RegisterDisconnect
  <2>3. /\ owner' \in [Event -> BOOLEAN]
        /\ io' \in [Event -> {"none", "pending", "done", "failed"}]
    BY <1>6 DEF RegisterDisconnect
  <2>. QED BY <1>6, <2>2, <2>3 DEF RegisterDisconnect
<1>7. ASSUME NEW t \in Thread, RegisterConnect(t) PROVE TypeOK'
  BY <1>7 DEF RegisterConnect, Event
<1>8. ASSUME NEW t \in Thread, RegisterRecv(t) PROVE TypeOK'
  BY <1>8 DEF RegisterRecv, Location, Event
<1>9. ASSUME NEW t \in Thread, RegisterRecvNothing(t) \/ RegisterRecvReset(t) PROVE TypeOK'
  BY <1>9 DEF RegisterRecvNothing, RegisterRecvReset, Disconnect, Location
<1>10. ASSUME NEW t \in Thread, ProcessRecvBad(t) PROVE TypeOK'
  BY <1>10 DEF ProcessRecvBad, Disconnect, Location
<1>11. ASSUME NEW t \in Thread, ProcessRecv(t) PROVE TypeOK'
  BY <1>11 DEF ProcessRecv, Location
<1>12. ASSUME NEW t \in Thread, CallDisconnect(t) PROVE TypeOK'
  BY <1>12 DEF CallDisconnect, Disconnect, Location
<1>13. ASSUME NEW t \in Thread, NEW b \in Buffer, Send(t, b) \/ SendNothing(t, b) PROVE TypeOK'
  <2>1. /\ pc' = pc \/ pc' = [pc EXCEPT ![t] = "lock"]
        /\ sending' = sending \/ sending' = [sending EXCEPT ![t] = b]
        /\ unsent' = unsent \ {b}
        /\ UNCHANGED <<connected, sessionVars, sendVars, ioVars, then, handler, sentVars>>
    BY <1>13 DEF Send, SendNothing
  <2>2. pc' \in [Thread -> Location]
    BY <2>1 DEF Location
  <2>3. sending' \in [Thread -> Buffer \cup {NoBuffer}]
    BY <2>1
  <2>. QED BY <2>1, <2>2, <2>3
<1>14. ASSUME NEW t \in Thread, PushSend(t) PROVE TypeOK'
  <2>1. sending[t] \in Buffer
    BY <1>14 DEF PushSend, Locals
  <2>. QED BY <1>14, <2>1 DEF PushSend, Outside, Location
<1>15. ASSUME NEW t \in Thread, RegisterSend(t) PROVE TypeOK'
  BY <1>15 DEF RegisterSend, TakeQueue, Outside, Location, Event
<1>16. ASSUME NEW t \in Thread, RegisterSendFails(t) PROVE TypeOK'
  <2>1. /\ pc' \in [Thread -> Location] /\ then' \in [Thread -> Location \cup {"done", "failed"}]
        /\ connected' \in BOOLEAN
    BY <1>16 DEF RegisterSendFails, TakeQueue, Disconnect, Location
  <2>2. sendQueue' \in Seq(Buffer) /\ sendBuffers' \in Seq(Buffer)
    BY <1>16 DEF RegisterSendFails, TakeQueue
  <2>. QED BY <1>16, <2>1, <2>2 DEF RegisterSendFails
<1>17. ASSUME NEW t \in Thread, AbandonSend(t) PROVE TypeOK'
  <2>1. Elements(sendBuffers) \subseteq Buffer /\ left' \in Seq(Buffer)
    BY <1>17 DEF AbandonSend, Elements
  <2>2. pc' \in [Thread -> Location] /\ sendBuffers' \in Seq(Buffer) /\ refused' \subseteq Buffer
    BY <1>17, <2>1 DEF AbandonSend, Outside, Location
  <2>. QED BY <1>17, <2>1, <2>2 DEF AbandonSend
<1>18. ASSUME NEW t \in Thread, RegisterSendClosed(t) \/ CompleteSend(t) PROVE TypeOK'
  BY <1>18 DEF RegisterSendClosed, CompleteSend, Outside, Location
<1>19. ASSUME NEW t \in Thread, ProcessSend(t) PROVE TypeOK'
  <2>1. left' \in Seq(Buffer)
    BY <1>19 DEF ProcessSend
  <2>2. /\ pc' \in [Thread -> Location] /\ then' \in [Thread -> Location \cup {"done", "failed"}]
        /\ connected' \in BOOLEAN
    BY <1>19 DEF ProcessSend, Disconnect, Location
  <2>3. sendBuffers' = <<>>
    BY <1>19 DEF ProcessSend
  <2>. QED BY <1>19, <2>1, <2>2, <2>3 DEF ProcessSend
<1>20. CASE UNCHANGED vars
  BY <1>20 DEF vars
<1>. QED
  BY <1>1, <1>2, <1>3, <1>4, <1>5, <1>6, <1>7, <1>8, <1>9, <1>10, <1>11, <1>12, <1>13, <1>14, <1>15, <1>16, <1>17, <1>18, <1>19, <1>20
  DEF Next, SessionStep, CallerStep

(* A thread's locals agree with its place, whatever it does. *)
LEMMA NextLocals ==
  TypeOK /\ Locals /\ [Next]_vars => Locals'
<1> SUFFICES ASSUME TypeOK, Locals, [Next]_vars PROVE Locals'
  OBVIOUS
<1> USE NoBufferAssumption DEF TypeOK, Locals, Goto, At, Begin, sessionVars, sendVars, ioVars, sentVars
<1>1. ASSUME NEW e \in Event, NEW how \in {"done", "failed"}, Complete(e, how) PROVE Locals'
  BY <1>1 DEF Complete
<1>2. ASSUME NEW t \in Thread, NEW e \in Event, Dispatch(t, e) PROVE Locals'
  BY <1>2 DEF Dispatch, Event
<1>3. ASSUME NEW t \in Thread, ProcessConnect(t) PROVE Locals'
  BY <1>3 DEF ProcessConnect
<1>4. ASSUME NEW t \in Thread, HandlerReturns(t) PROVE Locals'
  BY <1>4 DEF HandlerReturns
<1>5. ASSUME NEW t \in Thread, RegisterDisconnect(t) PROVE Locals'
  BY <1>5 DEF RegisterDisconnect
<1>6. ASSUME NEW t \in Thread, ProcessDisconnect(t) PROVE Locals'
  BY <1>6 DEF ProcessDisconnect
<1>7. ASSUME NEW t \in Thread, RegisterRecv(t) PROVE Locals'
  BY <1>7 DEF RegisterRecv
<1>8. ASSUME NEW t \in Thread, RegisterRecvNothing(t) \/ RegisterRecvReset(t) PROVE Locals'
  BY <1>8 DEF RegisterRecvNothing, RegisterRecvReset, Disconnect
<1>9. ASSUME NEW t \in Thread, ProcessRecvBad(t) PROVE Locals'
  BY <1>9 DEF ProcessRecvBad, Disconnect
<1>10. ASSUME NEW t \in Thread, ProcessRecv(t) PROVE Locals'
  BY <1>10 DEF ProcessRecv
<1>11. ASSUME NEW t \in Thread, PushSend(t) PROVE Locals'
  BY <1>11 DEF PushSend, Outside
<1>12. ASSUME NEW t \in Thread, RegisterSend(t) PROVE Locals'
  <2>1. /\ pc' = [pc EXCEPT ![t] = IF handler[t] = "none" THEN "idle" ELSE "handler"]
        /\ UNCHANGED <<then, handler, sending>> /\ pc[t] = "registersend"
    BY <1>12 DEF RegisterSend, TakeQueue, Outside
  <2>. QED BY <2>1
<1>13. ASSUME NEW t \in Thread, RegisterSendFails(t) PROVE Locals'
  <2>1. /\ pc[t] = "registersend" /\ UNCHANGED <<handler, sending>>
        /\ \A u \in Thread : u # t => pc'[u] = pc[u] /\ then'[u] = then[u]
        /\ \/ pc'[t] = "disconnectex" /\ then'[t] = "sendfailed"
           \/ pc'[t] = "sendfailed"
    <3> HIDE DEF TypeOK, Locals
    <3>. QED BY <1>13, RegisterSendFailsDoes DEF sessionVars, ioVars, sentVars
  <2>. QED BY <2>1
<1>14. ASSUME NEW t \in Thread, AbandonSend(t) PROVE Locals'
  BY <1>14 DEF AbandonSend, Outside
<1>15. ASSUME NEW t \in Thread, RegisterSendClosed(t) PROVE Locals'
  BY <1>15 DEF RegisterSendClosed, Outside
<1>16. ASSUME NEW t \in Thread, ProcessSend(t) PROVE Locals'
  <2>1. /\ pc[t] = "onsend" /\ UNCHANGED <<handler, sending>>
        /\ \A u \in Thread : u # t => pc'[u] = pc[u] /\ then'[u] = then[u]
        /\ \/ pc'[t] \in {"completesend", "idle"}
           \/ pc'[t] = "disconnectex" /\ then'[t] = "idle"
    <3> HIDE DEF TypeOK, Locals
    <3>. QED BY <1>16, ProcessSendDoes DEF sessionVars, ioVars, sentVars
  <2>. QED BY <2>1
<1>17. ASSUME NEW t \in Thread, CompleteSend(t) PROVE Locals'
  BY <1>17 DEF CompleteSend
<1>18. ASSUME NEW t \in Thread, Accept(t) PROVE Locals'
  BY <1>18 DEF Accept
<1>19. ASSUME NEW t \in Thread, RegisterConnect(t) PROVE Locals'
  BY <1>19 DEF RegisterConnect, Event
<1>20. ASSUME NEW t \in Thread, Publish(t) PROVE Locals'
  BY <1>20 DEF Publish
<1>21. ASSUME NEW t \in Thread, CallDisconnect(t) PROVE Locals'
  BY <1>21 DEF CallDisconnect, Calls, Disconnect
<1>22. ASSUME NEW t \in Thread, NEW b \in Buffer, Send(t, b) \/ SendNothing(t, b) PROVE Locals'
  BY <1>22 DEF Send, SendNothing, Calls
<1>23. CASE UNCHANGED vars
  BY <1>23 DEF vars
<1>. QED
  BY <1>1, <1>2, <1>3, <1>4, <1>5, <1>6, <1>7, <1>8, <1>9, <1>10, <1>11,
     <1>12, <1>13, <1>14, <1>15, <1>16, <1>17, <1>18, <1>19, <1>20, <1>21, <1>22,
     <1>23
  DEF Next, SessionStep, CallerStep

(* The connection is made once, by one party. *)
LEMMA NextOpening ==
  TypeOK /\ Locals /\ Opening /\ [Next]_vars => Opening'
<1> SUFFICES ASSUME TypeOK, Locals, Opening, [Next]_vars PROVE Opening'
  OBVIOUS
<1> USE DEF TypeOK, Locals, Opening, Goto, At, Begin, sessionVars, sendVars, ioVars, sentVars
<1>1. ASSUME NEW e \in Event, NEW how \in {"done", "failed"}, Complete(e, how) PROVE Opening'
  BY <1>1 DEF Complete
<1>2. ASSUME NEW t \in Thread, NEW e \in Event, Dispatch(t, e) PROVE Opening'
  BY <1>2 DEF Dispatch, Event
<1>3. ASSUME NEW t \in Thread, ProcessConnect(t) PROVE Opening'
  BY <1>3 DEF ProcessConnect
<1>4. ASSUME NEW t \in Thread, HandlerReturns(t) PROVE Opening'
  BY <1>4 DEF HandlerReturns
<1>5. ASSUME NEW t \in Thread, RegisterDisconnect(t) PROVE Opening'
  <2>1. registry \notin {"new", "opening"}
    BY <1>5 DEF RegisterDisconnect
  <2>2. pc' = [pc EXCEPT ![t] = then[t]] /\ then[t] # "connect"
    BY <1>5 DEF RegisterDisconnect
  <2>3. io'["connect"] = io["connect"] /\ registry' \notin {"new", "opening"}
    BY <1>5, <2>1 DEF RegisterDisconnect, Event
  <2>. QED BY <2>1, <2>2, <2>3
<1>6. ASSUME NEW t \in Thread, ProcessDisconnect(t) PROVE Opening'
  BY <1>6 DEF ProcessDisconnect
<1>7. ASSUME NEW t \in Thread, RegisterRecv(t) PROVE Opening'
  BY <1>7 DEF RegisterRecv
<1>8. ASSUME NEW t \in Thread, RegisterRecvNothing(t) \/ RegisterRecvReset(t) PROVE Opening'
  BY <1>8 DEF RegisterRecvNothing, RegisterRecvReset, Disconnect
<1>9. ASSUME NEW t \in Thread, ProcessRecvBad(t) PROVE Opening'
  BY <1>9 DEF ProcessRecvBad, Disconnect
<1>10. ASSUME NEW t \in Thread, ProcessRecv(t) PROVE Opening'
  BY <1>10 DEF ProcessRecv
<1>11. ASSUME NEW t \in Thread, PushSend(t) PROVE Opening'
  BY <1>11 DEF PushSend, Outside
<1>12. ASSUME NEW t \in Thread, RegisterSend(t) PROVE Opening'
  BY <1>12 DEF RegisterSend, TakeQueue, Outside
<1>13. ASSUME NEW t \in Thread, RegisterSendFails(t) PROVE Opening'
  <2>1. pc[t] = "registersend" /\ UNCHANGED <<registry, io>>
    <3> HIDE DEF TypeOK, Opening
    <3>. QED BY <1>13, RegisterSendFailsDoes DEF sessionVars, ioVars, sentVars
  <2>2. /\ pc'[t] # "connect"
        /\ \A u \in Thread : u # t => pc'[u] = pc[u]
    <3> HIDE DEF TypeOK, Opening
    <3>. QED BY <1>13, RegisterSendFailsDoes DEF sessionVars, ioVars, sentVars
  <2>3. registry' \notin {"new", "opening"}
    BY <2>1
  <2>. QED BY <2>1, <2>2, <2>3
<1>14. ASSUME NEW t \in Thread, AbandonSend(t) PROVE Opening'
  BY <1>14 DEF AbandonSend, Outside
<1>15. ASSUME NEW t \in Thread, RegisterSendClosed(t) PROVE Opening'
  BY <1>15 DEF RegisterSendClosed, Outside
<1>16. ASSUME NEW t \in Thread, ProcessSend(t) PROVE Opening'
  BY <1>16 DEF ProcessSend, Disconnect
<1>17. ASSUME NEW t \in Thread, CompleteSend(t) PROVE Opening'
  BY <1>17 DEF CompleteSend
<1>18. ASSUME NEW t \in Thread, Accept(t) PROVE Opening'
  BY <1>18 DEF Accept
<1>19. ASSUME NEW t \in Thread, RegisterConnect(t) PROVE Opening'
  BY <1>19 DEF RegisterConnect, Event
<1>20. ASSUME NEW t \in Thread, Publish(t) PROVE Opening'
  BY <1>20 DEF Publish
<1>21. ASSUME NEW t \in Thread, CallDisconnect(t) PROVE Opening'
  BY <1>21 DEF CallDisconnect, Calls, Disconnect
<1>22. ASSUME NEW t \in Thread, NEW b \in Buffer, Send(t, b) \/ SendNothing(t, b) PROVE Opening'
  BY <1>22 DEF Send, SendNothing, Calls
<1>23. CASE UNCHANGED vars
  BY <1>23 DEF vars
<1>. QED
  BY <1>1, <1>2, <1>3, <1>4, <1>5, <1>6, <1>7, <1>8, <1>9, <1>10, <1>11,
     <1>12, <1>13, <1>14, <1>15, <1>16, <1>17, <1>18, <1>19, <1>20, <1>21, <1>22,
     <1>23
  DEF Next, SessionStep, CallerStep

(* Disconnect's exchange lets one party through, which holds the entry. *)
LEMMA NextClosing ==
  TypeOK /\ Locals /\ Opening /\ Closing /\ [Next]_vars => Closing'
<1> SUFFICES ASSUME TypeOK, Locals, Opening, Closing, [Next]_vars PROVE Closing'
  OBVIOUS
<1> USE DEF TypeOK, Locals, Opening, Closing, Goto, At, Begin, sessionVars, sendVars, ioVars, sentVars
<1>1. ASSUME NEW e \in Event, NEW how \in {"done", "failed"}, Complete(e, how) PROVE Closing'
  BY <1>1 DEF Complete
<1>2. ASSUME NEW t \in Thread, NEW e \in Event, Dispatch(t, e) PROVE Closing'
  BY <1>2 DEF Dispatch, Event
<1>3. ASSUME NEW t \in Thread, ProcessConnect(t) PROVE Closing'
  BY <1>3 DEF ProcessConnect
<1>4. ASSUME NEW t \in Thread, HandlerReturns(t) PROVE Closing'
  BY <1>4 DEF HandlerReturns
<1>5. ASSUME NEW t \in Thread, RegisterDisconnect(t) PROVE Closing'
  <2>1. /\ pc' = [pc EXCEPT ![t] = then[t]] /\ then[t] \notin {"disconnectex", "ondisconnect"}
        /\ connected' = connected
    BY <1>5 DEF RegisterDisconnect
  <2>2. \A u \in Thread : pc'[u] \notin {"disconnectex", "ondisconnect"}
    BY <1>5, <2>1 DEF RegisterDisconnect
  <2>3. io'["disconnect"] # "none" => registry' = registry
    BY <1>5 DEF RegisterDisconnect
  <2>. QED BY <1>5, <2>1, <2>2, <2>3 DEF RegisterDisconnect
<1>6. ASSUME NEW t \in Thread, ProcessDisconnect(t) PROVE Closing'
  BY <1>6 DEF ProcessDisconnect
<1>7. ASSUME NEW t \in Thread, RegisterRecv(t) PROVE Closing'
  BY <1>7 DEF RegisterRecv
<1>8. ASSUME NEW t \in Thread, RegisterRecvNothing(t) \/ RegisterRecvReset(t) PROVE Closing'
  <2>1. /\ (connected' => connected) /\ registry' = registry /\ io' = io
        /\ \A u \in Thread : u # t => pc'[u] = pc[u]
    BY <1>8 DEF RegisterRecvNothing, RegisterRecvReset, Disconnect
  <2>2. pc'[t] = "disconnectex" => connected /\ ~connected'
    BY <1>8 DEF RegisterRecvNothing, RegisterRecvReset, Disconnect
  <2>3. pc'[t] # "ondisconnect"
    BY <1>8 DEF RegisterRecvNothing, RegisterRecvReset, Disconnect
  <2>. QED BY <2>1, <2>2, <2>3
<1>9. ASSUME NEW t \in Thread, ProcessRecvBad(t) PROVE Closing'
  BY <1>9 DEF ProcessRecvBad, Disconnect
<1>10. ASSUME NEW t \in Thread, ProcessRecv(t) PROVE Closing'
  BY <1>10 DEF ProcessRecv
<1>11. ASSUME NEW t \in Thread, PushSend(t) PROVE Closing'
  BY <1>11 DEF PushSend, Outside
<1>12. ASSUME NEW t \in Thread, RegisterSend(t) PROVE Closing'
  BY <1>12 DEF RegisterSend, TakeQueue, Outside
<1>13. ASSUME NEW t \in Thread, RegisterSendFails(t) PROVE Closing'
  <2>1. /\ (connected' => connected) /\ registry' = registry /\ io' = io
        /\ \A u \in Thread : u # t => pc'[u] = pc[u]
    BY <1>13 DEF RegisterSendFails, TakeQueue, Disconnect
  <2>2. pc'[t] = "disconnectex" => connected /\ ~connected'
    BY <1>13 DEF RegisterSendFails, TakeQueue, Disconnect
  <2>3. pc'[t] # "ondisconnect"
    BY <1>13 DEF RegisterSendFails, TakeQueue, Disconnect
  <2>. QED BY <2>1, <2>2, <2>3
<1>14. ASSUME NEW t \in Thread, AbandonSend(t) PROVE Closing'
  BY <1>14 DEF AbandonSend, Outside
<1>15. ASSUME NEW t \in Thread, RegisterSendClosed(t) PROVE Closing'
  BY <1>15 DEF RegisterSendClosed, Outside
<1>16. ASSUME NEW t \in Thread, ProcessSend(t) PROVE Closing'
  <2>1. /\ (connected' => connected) /\ registry' = registry /\ io' = io
        /\ \A u \in Thread : u # t => pc'[u] = pc[u]
    BY <1>16 DEF ProcessSend, Disconnect
  <2>2. pc'[t] = "disconnectex" => connected /\ ~connected'
    BY <1>16 DEF ProcessSend, Disconnect
  <2>3. pc'[t] # "ondisconnect"
    BY <1>16 DEF ProcessSend, Disconnect
  <2>. QED BY <2>1, <2>2, <2>3
<1>17. ASSUME NEW t \in Thread, CompleteSend(t) PROVE Closing'
  BY <1>17 DEF CompleteSend
<1>18. ASSUME NEW t \in Thread, Accept(t) PROVE Closing'
  BY <1>18 DEF Accept
<1>19. ASSUME NEW t \in Thread, RegisterConnect(t) PROVE Closing'
  BY <1>19 DEF RegisterConnect, Event
<1>20. ASSUME NEW t \in Thread, Publish(t) PROVE Closing'
  BY <1>20 DEF Publish
<1>21. ASSUME NEW t \in Thread, CallDisconnect(t) PROVE Closing'
  BY <1>21 DEF CallDisconnect, Calls, Disconnect
<1>22. ASSUME NEW t \in Thread, NEW b \in Buffer, Send(t, b) \/ SendNothing(t, b) PROVE Closing'
  BY <1>22 DEF Send, SendNothing, Calls
<1>23. CASE UNCHANGED vars
  BY <1>23 DEF vars
<1>. QED
  BY <1>1, <1>2, <1>3, <1>4, <1>5, <1>6, <1>7, <1>8, <1>9, <1>10, <1>11,
     <1>12, <1>13, <1>14, <1>15, <1>16, <1>17, <1>18, <1>19, <1>20, <1>21, <1>22,
     <1>23
  DEF Next, SessionStep, CallerStep

(* Receiving passes from party to party. *)
LEMMA NextReceiver ==
  TypeOK /\ Locals /\ Opening /\ Receiver /\ [Next]_vars => Receiver'
<1> SUFFICES ASSUME TypeOK, Locals, Opening, Receiver, [Next]_vars PROVE Receiver'
  OBVIOUS
<1> USE DEF TypeOK, Locals, Receiver, Receives, Goto, At, Begin, sessionVars, sendVars, ioVars, sentVars
<1>1. ASSUME NEW e \in Event, NEW how \in {"done", "failed"}, Complete(e, how) PROVE Receiver'
  BY <1>1 DEF Complete
<1>2. ASSUME NEW t \in Thread, NEW e \in Event, Dispatch(t, e) PROVE Receiver'
  BY <1>2 DEF Dispatch, Event, Opening
<1>3. ASSUME NEW t \in Thread, ProcessConnect(t) PROVE Receiver'
  BY <1>3 DEF ProcessConnect
<1>4. ASSUME NEW t \in Thread, HandlerReturns(t) PROVE Receiver'
  BY <1>4 DEF HandlerReturns
<1>5. ASSUME NEW t \in Thread, RegisterDisconnect(t) PROVE Receiver'
  <2>1. \A u \in Thread : Receives(u)' => Receives(u)
    BY <1>5 DEF RegisterDisconnect, Event
  <2>2. io'["recv"] = io["recv"] /\ io'["connect"] = io["connect"]
    BY <1>5 DEF RegisterDisconnect, Event
  <2> HIDE DEF Receives
  <2>. QED BY <2>1, <2>2
<1>6. ASSUME NEW t \in Thread, ProcessDisconnect(t) PROVE Receiver'
  BY <1>6 DEF ProcessDisconnect
<1>7. ASSUME NEW t \in Thread, RegisterRecv(t) PROVE Receiver'
  <2>1. Receives(t) /\ ~Receives(t)' /\ \A u \in Thread : u # t => (Receives(u)' <=> Receives(u))
    BY <1>7 DEF RegisterRecv
  <2>2. \A u \in Thread : ~Receives(u)'
    BY <2>1
  <2>. QED BY <2>2
<1>8. ASSUME NEW t \in Thread, RegisterRecvNothing(t) \/ RegisterRecvReset(t) PROVE Receiver'
  BY <1>8 DEF RegisterRecvNothing, RegisterRecvReset, Disconnect
<1>9. ASSUME NEW t \in Thread, ProcessRecvBad(t) PROVE Receiver'
  BY <1>9 DEF ProcessRecvBad, Disconnect
<1>10. ASSUME NEW t \in Thread, ProcessRecv(t) PROVE Receiver'
  BY <1>10 DEF ProcessRecv
<1>11. ASSUME NEW t \in Thread, PushSend(t) PROVE Receiver'
  BY <1>11 DEF PushSend, Outside
<1>12. ASSUME NEW t \in Thread, RegisterSend(t) PROVE Receiver'
  BY <1>12 DEF RegisterSend, TakeQueue, Outside
<1>13. ASSUME NEW t \in Thread, RegisterSendFails(t) PROVE Receiver'
  <2>1. /\ pc[t] = "registersend" /\ UNCHANGED <<handler, io>>
        /\ pc'[t] \in {"disconnectex", "sendfailed"}
        /\ \A u \in Thread : u # t => pc'[u] = pc[u]
    <3> HIDE DEF TypeOK, Locals, Receiver, Receives
    <3>. QED BY <1>13, RegisterSendFailsDoes DEF sessionVars, ioVars, sentVars
  <2>2. \A u \in Thread : Receives(u)' => Receives(u)
    BY <2>1
  <2> HIDE DEF Receives
  <2>. QED BY <2>1, <2>2
<1>14. ASSUME NEW t \in Thread, AbandonSend(t) PROVE Receiver'
  BY <1>14 DEF AbandonSend, Outside
<1>15. ASSUME NEW t \in Thread, RegisterSendClosed(t) PROVE Receiver'
  BY <1>15 DEF RegisterSendClosed, Outside
<1>16. ASSUME NEW t \in Thread, ProcessSend(t) PROVE Receiver'
  <2>1. \A u \in Thread : Receives(u)' => Receives(u)
    BY <1>16 DEF ProcessSend, Disconnect
  <2>2. io'["recv"] = io["recv"] /\ io'["connect"] = io["connect"]
    BY <1>16 DEF ProcessSend, Disconnect
  <2> HIDE DEF Receives
  <2>. QED BY <2>1, <2>2
<1>17. ASSUME NEW t \in Thread, CompleteSend(t) PROVE Receiver'
  BY <1>17 DEF CompleteSend
<1>18. ASSUME NEW t \in Thread, Accept(t) PROVE Receiver'
  BY <1>18 DEF Accept, Opening
<1>19. ASSUME NEW t \in Thread, RegisterConnect(t) PROVE Receiver'
  BY <1>19 DEF RegisterConnect, Event, Opening
<1>20. ASSUME NEW t \in Thread, Publish(t) PROVE Receiver'
  BY <1>20 DEF Publish
<1>21. ASSUME NEW t \in Thread, CallDisconnect(t) PROVE Receiver'
  BY <1>21 DEF CallDisconnect, Calls, Disconnect
<1>22. ASSUME NEW t \in Thread, NEW b \in Buffer, Send(t, b) \/ SendNothing(t, b) PROVE Receiver'
  BY <1>22 DEF Send, SendNothing, Calls
<1>23. CASE UNCHANGED vars
  BY <1>23 DEF vars
<1>. QED
  BY <1>1, <1>2, <1>3, <1>4, <1>5, <1>6, <1>7, <1>8, <1>9, <1>10, <1>11,
     <1>12, <1>13, <1>14, <1>15, <1>16, <1>17, <1>18, <1>19, <1>20, <1>21, <1>22,
     <1>23
  DEF Next, SessionStep, CallerStep

(* The send event passes from party to party, and so does the lock. *)
LEMMA NextSender ==
  TypeOK /\ Locals /\ Opening /\ Sender /\ [Next]_vars => Sender'
<1> SUFFICES ASSUME TypeOK, Locals, Opening, Sender, [Next]_vars PROVE Sender'
  OBVIOUS
<1> USE NoThreadAssumption DEF TypeOK, Locals, Sender, Sends, Locked, Goto, At, Begin, sessionVars, sendVars, ioVars, sentVars
<1>1. ASSUME NEW e \in Event, NEW how \in {"done", "failed"}, Complete(e, how) PROVE Sender'
  BY <1>1 DEF Complete
<1>2. ASSUME NEW t \in Thread, NEW e \in Event, Dispatch(t, e) PROVE Sender'
  BY <1>2 DEF Dispatch, Event
<1>3. ASSUME NEW t \in Thread, ProcessConnect(t) PROVE Sender'
  BY <1>3 DEF ProcessConnect, Opening
<1>4. ASSUME NEW t \in Thread, HandlerReturns(t) PROVE Sender'
  BY <1>4 DEF HandlerReturns
<1>5. ASSUME NEW t \in Thread, RegisterDisconnect(t) PROVE Sender'
  <2>1. /\ pc[t] = "disconnectex" /\ then[t] \in {"idle", "handler", "sendfailed"} /\ then' = then
        /\ pc' = [pc EXCEPT ![t] = then[t]]
    BY <1>5 DEF RegisterDisconnect
  <2>2. /\ io'["send"] = io["send"] /\ UNCHANGED <<sendRegistered, sendQueue, sendBuffers, lock>>
        /\ connected' => connected
    BY <1>5 DEF RegisterDisconnect, Event
  <2>3. (Sends(t)' <=> Sends(t)) /\ (Locked(t)' <=> Locked(t))
    BY <2>1
  <2>4. \A u \in Thread : u # t => (Sends(u)' <=> Sends(u)) /\ (Locked(u)' <=> Locked(u))
    BY <2>1
  <2>5. /\ \A u \in Thread : pc'[u] \in {"registersend", "completesend"} => pc'[u] = pc[u]
        /\ \A u \in Thread : pc[u] = "registersend" => pc'[u] = pc[u]
    BY <2>1
  <2> HIDE DEF Sends, Locked, TypeOK, Locals
  <2>. QED BY <2>2, <2>3, <2>4, <2>5
<1>6. ASSUME NEW t \in Thread, ProcessDisconnect(t) PROVE Sender'
  BY <1>6 DEF ProcessDisconnect
<1>7. ASSUME NEW t \in Thread, RegisterRecv(t) PROVE Sender'
  BY <1>7 DEF RegisterRecv
<1>8. ASSUME NEW t \in Thread, RegisterRecvNothing(t) \/ RegisterRecvReset(t) PROVE Sender'
  <2>1. /\ \A u \in Thread : (Sends(u)' <=> Sends(u)) /\ (Locked(u)' <=> Locked(u))
        /\ \A u \in Thread : pc'[u] \in {"registersend", "completesend"} => pc'[u] = pc[u]
        /\ \A u \in Thread : pc[u] = "registersend" => pc'[u] = pc[u]
    BY <1>8 DEF RegisterRecvNothing, RegisterRecvReset, Disconnect
  <2>2. /\ io'["send"] = io["send"] /\ UNCHANGED <<sendRegistered, sendQueue, sendBuffers, lock>>
        /\ connected' => connected
    BY <1>8 DEF RegisterRecvNothing, RegisterRecvReset, Disconnect
  <2> HIDE DEF Sends, Locked, TypeOK, Locals
  <2>. QED BY <2>1, <2>2
<1>9. ASSUME NEW t \in Thread, ProcessRecvBad(t) PROVE Sender'
  BY <1>9 DEF ProcessRecvBad, Disconnect
<1>10. ASSUME NEW t \in Thread, ProcessRecv(t) PROVE Sender'
  BY <1>10 DEF ProcessRecv
<1>11. ASSUME NEW t \in Thread, PushSend(t) PROVE Sender'
  <2>1. /\ pc[t] = "lock" /\ lock = NoThread /\ sendRegistered' /\ connected' = connected
        /\ UNCHANGED <<then, io, sendBuffers>>
        /\ \A u \in Thread : u # t => pc'[u] = pc[u]
    BY <1>11 DEF PushSend
  <2>2. \A u \in Thread : u # t => (Sends(u)' <=> Sends(u)) /\ ~Locked(u) /\ ~Locked(u)'
    BY <2>1
  <2>3. ~Sends(t) /\ ~Locked(t)
    BY <2>1
  <2>4. CASE sendRegistered
    <3>1. lock' = NoThread /\ pc'[t] \in {"idle", "handler"}
      BY <1>11, <2>4 DEF PushSend, Outside
    <3>2. ~Sends(t)' /\ ~Locked(t)'
      BY <3>1
    <3> HIDE DEF Sends, Locked, TypeOK, Locals
    <3>. QED BY <2>1, <2>2, <2>3, <2>4, <3>1, <3>2
  <2>5. CASE ~sendRegistered
    <3>1. lock' = t /\ pc'[t] = "registersend"
      BY <1>11, <2>5 DEF PushSend
    <3>2. Sends(t)' /\ Locked(t)'
      BY <3>1
    <3> HIDE DEF Sends, Locked, TypeOK, Locals
    <3>3. \A u \in Thread : ~Sends(u)
      BY <2>5
    <3>4. io["send"] = "none" /\ sendBuffers = <<>>
      BY <2>5
    <3>. QED BY <2>1, <2>2, <2>3, <3>1, <3>2, <3>3, <3>4
  <2>. QED BY <2>4, <2>5
<1>12. ASSUME NEW t \in Thread, RegisterSend(t) PROVE Sender'
  BY <1>12 DEF RegisterSend, TakeQueue, Outside, Event
<1>13. ASSUME NEW t \in Thread, RegisterSendFails(t) PROVE Sender'
  <2>1. /\ pc'[t] = "sendfailed" \/ (pc'[t] = "disconnectex" /\ then'[t] = "sendfailed")
        /\ \A u \in Thread : u # t => pc'[u] = pc[u] /\ then'[u] = then[u]
        /\ pc[t] = "registersend" /\ io' = io /\ sendRegistered' = sendRegistered
        /\ sendQueue' = <<>> /\ lock' = lock
    <3> HIDE DEF TypeOK, Locals, Sender, Sends, Locked
    <3>. QED BY <1>13, RegisterSendFailsDoes DEF sessionVars, ioVars, sentVars
  <2>2. /\ Sends(t) /\ Sends(t)' /\ Locked(t) /\ Locked(t)'
        /\ \A u \in Thread : u # t => (Sends(u)' <=> Sends(u)) /\ (Locked(u)' <=> Locked(u))
    BY <2>1
  <2>3. \A u \in Thread : u # t => ~Sends(u)' /\ pc'[u] \notin {"registersend", "completesend"}
    BY <2>1, <2>2
  <2>4. pc'[t] \notin {"registersend", "completesend"}
    BY <2>1
  <2> HIDE DEF Sends, Locked, TypeOK, Locals
  <2>. QED BY <2>1, <2>2, <2>3, <2>4
<1>14. ASSUME NEW t \in Thread, AbandonSend(t) PROVE Sender'
  BY <1>14 DEF AbandonSend, Outside
<1>15. ASSUME NEW t \in Thread, RegisterSendClosed(t) PROVE Sender'
  BY <1>15 DEF RegisterSendClosed, Outside
<1>16. ASSUME NEW t \in Thread, ProcessSend(t) PROVE Sender'
  <2>1. /\ pc[t] = "onsend" /\ io' = io /\ sendBuffers' = <<>>
        /\ UNCHANGED <<sendRegistered, sendQueue, lock>>
        /\ \A u \in Thread : u # t => pc'[u] = pc[u] /\ then'[u] = then[u]
    <3> HIDE DEF TypeOK, Locals, Sender, Sends, Locked
    <3>. QED BY <1>16, ProcessSendDoes DEF sessionVars, ioVars, sentVars
  <2>2. /\ \/ pc'[t] = "completesend" /\ connected' = connected
           \/ pc'[t] = "idle" /\ ~connected'
           \/ pc'[t] = "disconnectex" /\ then'[t] = "idle" /\ ~connected'
    <3> HIDE DEF TypeOK, Locals, Sender, Sends, Locked
    <3>. QED BY <1>16, ProcessSendDoes DEF sessionVars, ioVars, sentVars
  <2>3. Sends(t) /\ ~Locked(t) /\ ~Locked(t)' /\ (connected' => Sends(t)')
    BY <2>1, <2>2
  <2>4. \A u \in Thread : u # t => (Sends(u)' <=> Sends(u)) /\ (Locked(u)' <=> Locked(u))
    BY <2>1
  <2> HIDE DEF Sends, Locked, TypeOK, Locals
  <2>. QED BY <2>1, <2>2, <2>3, <2>4
<1>17. ASSUME NEW t \in Thread, CompleteSend(t) PROVE Sender'
  <2>1. /\ pc[t] = "completesend" /\ lock = NoThread /\ io' = io /\ then' = then
        /\ UNCHANGED <<sendQueue, sendBuffers, connected>>
        /\ \A u \in Thread : u # t => pc'[u] = pc[u]
    BY <1>17 DEF CompleteSend
  <2>2. /\ sendQueue = <<>> => pc'[t] = "idle" /\ lock' = NoThread /\ ~sendRegistered'
        /\ sendQueue # <<>> => pc'[t] = "registersend" /\ lock' = t /\ sendRegistered'
    BY <1>17 DEF CompleteSend
  <2>3. /\ Sends(t) /\ sendBuffers = <<>>
        /\ \A u \in Thread : u # t => ~Sends(u) /\ ~Locked(u) /\ ~Sends(u)' /\ ~Locked(u)'
    BY <2>1
  <2>4. CASE sendQueue = <<>>
    <3>1. ~Sends(t)' /\ ~Locked(t)'
      BY <2>2, <2>4
    <3> HIDE DEF Sends, Locked, TypeOK, Locals
    <3>. QED BY <2>1, <2>2, <2>3, <2>4, <3>1
  <2>5. CASE sendQueue # <<>>
    <3>1. Sends(t)' /\ Locked(t)' /\ pc'[t] = "registersend"
      BY <2>2, <2>5
    <3> HIDE DEF Sends, Locked, TypeOK, Locals
    <3>. QED BY <2>1, <2>2, <2>3, <2>5, <3>1
  <2>. QED BY <2>4, <2>5
<1>18. ASSUME NEW t \in Thread, Accept(t) PROVE Sender'
  BY <1>18 DEF Accept
<1>19. ASSUME NEW t \in Thread, RegisterConnect(t) PROVE Sender'
  BY <1>19 DEF RegisterConnect, Event
<1>20. ASSUME NEW t \in Thread, Publish(t) PROVE Sender'
  BY <1>20 DEF Publish
<1>21. ASSUME NEW t \in Thread, CallDisconnect(t) PROVE Sender'
  BY <1>21 DEF CallDisconnect, Calls, Disconnect
<1>22. ASSUME NEW t \in Thread, NEW b \in Buffer, Send(t, b) \/ SendNothing(t, b) PROVE Sender'
  BY <1>22 DEF Send, SendNothing, Calls
<1>23. CASE UNCHANGED vars
  BY <1>23 DEF vars
<1>. QED
  BY <1>1, <1>2, <1>3, <1>4, <1>5, <1>6, <1>7, <1>8, <1>9, <1>10, <1>11,
     <1>12, <1>13, <1>14, <1>15, <1>16, <1>17, <1>18, <1>19, <1>20, <1>21, <1>22,
     <1>23
  DEF Next, SessionStep, CallerStep

(* An event that is pending keeps its session and its buffers. *)
LEMMA NextPinned ==
  TypeOK /\ Sender /\ Pinned /\ [Next]_vars => Pinned'
<1> SUFFICES ASSUME TypeOK, Sender, Pinned, [Next]_vars PROVE Pinned'
  OBVIOUS
<1> USE DEF TypeOK, Pinned, Goto, At, Begin, sessionVars, sendVars, ioVars, sentVars
<1>1. ASSUME NEW e \in Event, NEW how \in {"done", "failed"}, Complete(e, how) PROVE Pinned'
  BY <1>1 DEF Complete
<1>2. ASSUME NEW t \in Thread, NEW e \in Event, Dispatch(t, e) PROVE Pinned'
  BY <1>2 DEF Dispatch, Event
<1>3. ASSUME NEW t \in Thread, ProcessConnect(t) PROVE Pinned'
  BY <1>3 DEF ProcessConnect
<1>4. ASSUME NEW t \in Thread, HandlerReturns(t) PROVE Pinned'
  BY <1>4 DEF HandlerReturns
<1>5. ASSUME NEW t \in Thread, RegisterDisconnect(t) PROVE Pinned'
  <2>1. \/ io' = io /\ owner' = owner
        \/ /\ io' = [io EXCEPT !["disconnect"] = "pending"]
           /\ owner' = [owner EXCEPT !["disconnect"] = TRUE]
    BY <1>5 DEF RegisterDisconnect
  <2>2. UNCHANGED <<inKernel, sendBuffers>>
    BY <1>5 DEF RegisterDisconnect
  <2>3. \A e \in Event : io'[e] # "none" => owner'[e]
    BY <2>1
  <2>4. io'["send"] = io["send"]
    BY <2>1 DEF Event
  <2>. QED BY <2>2, <2>3, <2>4
<1>6. ASSUME NEW t \in Thread, ProcessDisconnect(t) PROVE Pinned'
  BY <1>6 DEF ProcessDisconnect
<1>7. ASSUME NEW t \in Thread, RegisterRecv(t) PROVE Pinned'
  BY <1>7 DEF RegisterRecv
<1>8. ASSUME NEW t \in Thread, RegisterRecvNothing(t) \/ RegisterRecvReset(t) PROVE Pinned'
  BY <1>8 DEF RegisterRecvNothing, RegisterRecvReset, Disconnect
<1>9. ASSUME NEW t \in Thread, ProcessRecvBad(t) PROVE Pinned'
  BY <1>9 DEF ProcessRecvBad, Disconnect
<1>10. ASSUME NEW t \in Thread, ProcessRecv(t) PROVE Pinned'
  BY <1>10 DEF ProcessRecv
<1>11. ASSUME NEW t \in Thread, PushSend(t) PROVE Pinned'
  BY <1>11 DEF PushSend, Outside
<1>12. ASSUME NEW t \in Thread, RegisterSend(t) PROVE Pinned'
  BY <1>12 DEF RegisterSend, TakeQueue, Outside, Event
<1>13. ASSUME NEW t \in Thread, RegisterSendFails(t) PROVE Pinned'
  BY <1>13 DEF RegisterSendFails, TakeQueue, Disconnect, Sender, Sends
<1>14. ASSUME NEW t \in Thread, AbandonSend(t) PROVE Pinned'
  BY <1>14 DEF AbandonSend, Outside, Sender, Sends
<1>15. ASSUME NEW t \in Thread, RegisterSendClosed(t) PROVE Pinned'
  BY <1>15 DEF RegisterSendClosed, Outside
<1>16. ASSUME NEW t \in Thread, ProcessSend(t) PROVE Pinned'
  BY <1>16 DEF ProcessSend, Disconnect, Sender, Sends
<1>17. ASSUME NEW t \in Thread, CompleteSend(t) PROVE Pinned'
  BY <1>17 DEF CompleteSend
<1>18. ASSUME NEW t \in Thread, Accept(t) PROVE Pinned'
  BY <1>18 DEF Accept
<1>19. ASSUME NEW t \in Thread, RegisterConnect(t) PROVE Pinned'
  BY <1>19 DEF RegisterConnect, Event
<1>20. ASSUME NEW t \in Thread, Publish(t) PROVE Pinned'
  BY <1>20 DEF Publish
<1>21. ASSUME NEW t \in Thread, CallDisconnect(t) PROVE Pinned'
  BY <1>21 DEF CallDisconnect, Calls, Disconnect
<1>22. ASSUME NEW t \in Thread, NEW b \in Buffer, Send(t, b) \/ SendNothing(t, b) PROVE Pinned'
  BY <1>22 DEF Send, SendNothing, Calls
<1>23. CASE UNCHANGED vars
  BY <1>23 DEF vars
<1>. QED
  BY <1>1, <1>2, <1>3, <1>4, <1>5, <1>6, <1>7, <1>8, <1>9, <1>10, <1>11,
     <1>12, <1>13, <1>14, <1>15, <1>16, <1>17, <1>18, <1>19, <1>20, <1>21, <1>22,
     <1>23
  DEF Next, SessionStep, CallerStep

(* The elements of a concatenation. *)
LEMMA ElementsConcat ==
  ASSUME NEW S, NEW a \in Seq(S), NEW b \in Seq(S)
  PROVE  Elements(a \o b) = Elements(a) \cup Elements(b)
<1>1. Len(a) \in Nat /\ Len(b) \in Nat
  OBVIOUS
<1>2. /\ DOMAIN (a \o b) = 1..Len(a) + Len(b) /\ DOMAIN a = 1..Len(a) /\ DOMAIN b = 1..Len(b)
      /\ \A i \in 1..Len(a) : (a \o b)[i] = a[i]
      /\ \A i \in 1..Len(b) : (a \o b)[Len(a) + i] = b[i]
  OBVIOUS
<1>3. \A m, n \in Nat : \A i \in 1..m + n : i \in 1..m \/ \E k \in 1..n : i = m + k
  <2>1. \A m, n \in Nat : \A i \in 1..m + n : i \in 1..m \/ (i - m \in 1..n /\ i = m + (i - m))
    OBVIOUS
  <2>. QED BY <2>1
<1>4. /\ \A i \in 1..Len(a) : i \in 1..Len(a) + Len(b)
      /\ \A i \in 1..Len(b) : Len(a) + i \in 1..Len(a) + Len(b)
  BY <1>1
<1>5. Elements(a \o b) \subseteq Elements(a) \cup Elements(b)
  <2>1. ASSUME NEW i \in 1..Len(a) + Len(b) PROVE (a \o b)[i] \in Elements(a) \cup Elements(b)
    <3>1. CASE i \in 1..Len(a)
      BY <1>2, <3>1 DEF Elements
    <3>2. CASE \E k \in 1..Len(b) : i = Len(a) + k
      BY <1>2, <3>2 DEF Elements
    <3>. QED BY <1>1, <1>3, <3>1, <3>2
  <2>. QED BY <1>2, <2>1 DEF Elements
<1>6. Elements(a) \subseteq Elements(a \o b)
  BY <1>2, <1>4 DEF Elements
<1>7. Elements(b) \subseteq Elements(a \o b)
  BY <1>2, <1>4 DEF Elements
<1>. QED BY <1>5, <1>6, <1>7

(* The steps that neither send nor complete a send. *)
Quiet(t) ==
  \/ ProcessConnect(t) \/ HandlerReturns(t) \/ RegisterDisconnect(t) \/ ProcessDisconnect(t)
  \/ RegisterRecv(t) \/ RegisterRecvNothing(t) \/ RegisterRecvReset(t)
  \/ ProcessRecvBad(t) \/ ProcessRecv(t) \/ RegisterSendClosed(t) \/ CompleteSend(t)
  \/ Accept(t) \/ RegisterConnect(t) \/ Publish(t) \/ CallDisconnect(t)
  \/ \E b \in Buffer : Send(t, b) \/ SendNothing(t, b)
  \/ \E e \in Event \ {"send"} : Dispatch(t, e)

(* They leave the send queue, the send event and the histories alone. *)
LEMMA QuietSteps ==
  ASSUME TypeOK, Locals, Opening, NEW t \in Thread, Quiet(t)
  PROVE  /\ UNCHANGED <<sendQueue, sendBuffers, inKernel, sentVars>> /\ io'["send"] = io["send"]
         /\ \A u \in Thread : pc'[u] = "onsend" => pc[u] = "onsend" /\ then'[u] = then[u]
         /\ connected' => connected \/ left = <<>>
         /\ UNCHANGED <<unsent, sending>> \/ \E b \in Buffer : Send(t, b) \/ SendNothing(t, b)
<1> DEFINE Q == /\ UNCHANGED <<sendQueue, sendBuffers, inKernel, sentVars>>
                /\ io'["send"] = io["send"]
                /\ \A u \in Thread : pc'[u] = "onsend" => pc[u] = "onsend" /\ then'[u] = then[u]
                /\ connected' => connected \/ left = <<>>
                /\ UNCHANGED <<unsent, sending>> \/ \E b \in Buffer : Send(t, b) \/ SendNothing(t, b)
<1> USE DEF TypeOK, At, Goto, Begin, Event, sessionVars, sendVars, ioVars, sentVars
<1>1. CASE ProcessConnect(t) \/ HandlerReturns(t) \/ ProcessDisconnect(t)
  BY <1>1 DEF ProcessConnect, HandlerReturns, ProcessDisconnect, Opening
<1>2. CASE RegisterDisconnect(t)
  BY <1>2 DEF RegisterDisconnect, Locals
<1>3. CASE RegisterRecv(t) \/ RegisterRecvNothing(t)
  BY <1>3 DEF RegisterRecv, RegisterRecvNothing
<1>4. CASE RegisterRecvReset(t) \/ ProcessRecvBad(t)
  BY <1>4 DEF RegisterRecvReset, ProcessRecvBad, Disconnect
<1>5. CASE ProcessRecv(t) \/ RegisterSendClosed(t)
  BY <1>5 DEF ProcessRecv, RegisterSendClosed, Outside
<1>6. CASE CompleteSend(t)
  BY <1>6 DEF CompleteSend
<1>7. CASE Accept(t) \/ RegisterConnect(t) \/ Publish(t)
  BY <1>7 DEF Accept, RegisterConnect, Publish
<1>8. CASE CallDisconnect(t)
  BY <1>8 DEF CallDisconnect, Calls, Disconnect
<1>9. ASSUME NEW b \in Buffer, Send(t, b) PROVE Q
  BY <1>9 DEF Send
<1>10. ASSUME NEW b \in Buffer, SendNothing(t, b) PROVE Q
  BY <1>10 DEF SendNothing
<1>11. ASSUME NEW e \in Event \ {"send"}, Dispatch(t, e) PROVE Q
  BY <1>11 DEF Dispatch
<1>. QED
  BY <1>1, <1>2, <1>3, <1>4, <1>5, <1>6, <1>7, <1>8, <1>9, <1>10, <1>11 DEF Quiet

(* Every step is one of these, or sends, or completes a send. *)
LEMMA StepKinds ==
  Next => \/ \E t \in Thread : Quiet(t)
          \/ \E t \in Thread : \/ PushSend(t) \/ RegisterSend(t) \/ RegisterSendFails(t)
                               \/ AbandonSend(t) \/ ProcessSend(t) \/ Dispatch(t, "send")
          \/ \E e \in Event : Complete(e, "done") \/ Complete(e, "failed")
BY DEF Next, SessionStep, CallerStep, Quiet

(* A buffer is taken from the caller, and pushed, once. *)
LEMMA NextFresh == TypeOK /\ Locals /\ Opening /\ Fresh /\ [Next]_vars => Fresh'
<1> SUFFICES ASSUME TypeOK, Locals, Opening, Fresh, [Next]_vars PROVE Fresh'
  OBVIOUS
<1>1. CASE UNCHANGED <<posted, unsent, sending>>
  BY <1>1 DEF Fresh
<1>2. ASSUME NEW t \in Thread, NEW b \in Buffer, Send(t, b) PROVE Fresh'
  <2>1. /\ b \in unsent /\ unsent' = unsent \ {b} /\ posted' = posted
        /\ sending' = [sending EXCEPT ![t] = b]
    BY <1>2 DEF Send, sentVars
  <2>. QED BY <2>1, NoBufferAssumption DEF Fresh, TypeOK
<1>3. ASSUME NEW t \in Thread, NEW b \in Buffer, SendNothing(t, b) PROVE Fresh'
  <2>1. unsent' = unsent \ {b} /\ posted' = posted /\ sending' = sending
    BY <1>3 DEF SendNothing, sentVars
  <2>. QED BY <2>1 DEF Fresh
<1>4. ASSUME NEW t \in Thread, PushSend(t) PROVE Fresh'
  <2>1. /\ sending[t] \in Buffer /\ unsent' = unsent /\ posted' = Append(posted, sending[t])
        /\ sending' = [sending EXCEPT ![t] = NoBuffer]
    BY <1>4 DEF PushSend, At, Locals
  <2>2. /\ DOMAIN posted = 1..Len(posted) /\ DOMAIN posted' = 1..Len(posted) + 1
        /\ Len(posted) \in Nat /\ posted'[Len(posted) + 1] = sending[t]
        /\ \A i \in 1..Len(posted) : posted'[i] = posted[i]
    BY <2>1 DEF TypeOK
  <2>3. \A i \in DOMAIN posted' : i \in DOMAIN posted \/ i = Len(posted) + 1
    BY <2>2
  <2>4. \A i \in DOMAIN posted : posted[i] \in Buffer
    BY DEF TypeOK
  <2>5. \A i, j \in DOMAIN posted' : posted'[i] = posted'[j] => i = j
    BY <2>2, <2>3 DEF Fresh
  <2>6. \A i \in DOMAIN posted' : posted'[i] \notin unsent'
    BY <2>1, <2>2, <2>3 DEF Fresh
  <2>7. ASSUME NEW u \in Thread
        PROVE  /\ sending'[u] \notin unsent'
               /\ \A i \in DOMAIN posted' : posted'[i] # sending'[u]
               /\ \A v \in Thread : sending'[u] = sending'[v] /\ sending'[u] \in Buffer => u = v
    <3>1. CASE u = t
      <4>1. sending'[u] = NoBuffer
        BY <2>1, <3>1 DEF TypeOK
      <4>. QED BY <2>1, <2>2, <2>3, <2>4, <4>1, NoBufferAssumption DEF TypeOK
    <3>2. CASE u # t
      <4>1. sending'[u] = sending[u] /\ sending'[t] = NoBuffer
            /\ \A v \in Thread : v # t => sending'[v] = sending[v]
        BY <2>1, <3>2 DEF TypeOK
      <4>2. sending[u] # sending[t]
        BY <2>1, <3>2 DEF Fresh
      <4>. QED BY <2>1, <2>2, <2>3, <4>1, <4>2, NoBufferAssumption DEF Fresh
    <3>. QED BY <3>1, <3>2
  <2>. QED BY <2>5, <2>6, <2>7 DEF Fresh
<1>5. ASSUME NEW t \in Thread,
             \/ RegisterSend(t) \/ RegisterSendFails(t) \/ AbandonSend(t) \/ ProcessSend(t)
             \/ Dispatch(t, "send")
      PROVE  UNCHANGED <<posted, unsent, sending>>
  BY <1>5
  DEF RegisterSend, RegisterSendFails, AbandonSend, ProcessSend, Dispatch, sentVars
<1>6. ASSUME NEW e \in Event, NEW how \in {"done", "failed"}, Complete(e, how)
      PROVE  UNCHANGED <<posted, unsent, sending>>
  BY <1>6 DEF Complete
<1>7. ASSUME NEW t \in Thread, Quiet(t)
      PROVE  \/ UNCHANGED <<posted, unsent, sending>>
             \/ \E b \in Buffer : Send(t, b) \/ SendNothing(t, b)
  BY <1>7, QuietSteps DEF sentVars
<1>8. CASE UNCHANGED vars
  BY <1>1, <1>8 DEF vars, sentVars
<1>. QED
  BY <1>1, <1>2, <1>3, <1>4, <1>5, <1>6, <1>7, <1>8, StepKinds

-----------------------------------------------------------------------------
(* The conjuncts of SendOrder. *)
Chain == posted = left \o sendBuffers \o sendQueue

Ordered ==
  \A i, j \in DOMAIN wire : i <= j =>
    \E k, m \in DOMAIN posted : k <= m /\ posted[k] = wire[i] /\ posted[m] = wire[j]

Once == \A i, j \in DOMAIN wire : wire[i] = wire[j] => i = j

Accounted == connected => Elements(left) \subseteq Elements(wire) \cup refused

(* SendOrder says that buffers leave in order, once, and are accounted for. *)
LEMMA SendOrderDef == SendOrder <=> Chain /\ Ordered /\ Once /\ Accounted
BY DEF SendOrder, Chain, Ordered, Once, Accounted

(* The queue, the event and what has left it are consecutive parts of what *)
(* was posted.                                                             *)
LEMMA NextChain == TypeOK /\ Locals /\ Opening /\ Sender /\ Chain /\ [Next]_vars => Chain'
<1> SUFFICES ASSUME TypeOK, Locals, Opening, Sender, Chain, [Next]_vars PROVE Chain'
  OBVIOUS
<1>1. CASE UNCHANGED <<posted, left, sendBuffers, sendQueue>>
  BY <1>1 DEF Chain
<1>2. ASSUME NEW t \in Thread, PushSend(t) PROVE Chain'
  <2>1. /\ sending[t] \in Buffer /\ UNCHANGED <<left, sendBuffers>>
        /\ posted' = Append(posted, sending[t]) /\ sendQueue' = Append(sendQueue, sending[t])
    BY <1>2 DEF PushSend, At, Locals
  <2>2. PICK b \in Buffer : b = sending[t]
    BY <2>1
  <2>3. left \in Seq(Buffer) /\ sendBuffers \in Seq(Buffer) /\ sendQueue \in Seq(Buffer)
    BY DEF TypeOK
  <2>4. left \o sendBuffers \in Seq(Buffer) /\ <<b>> \in Seq(Buffer)
    BY <2>3
  <2>5. /\ Append(posted, b) = (left \o sendBuffers \o sendQueue) \o <<b>>
        /\ Append(sendQueue, b) = sendQueue \o <<b>>
    BY <2>3, <2>4, AppendIsConcat, ConcatProperties DEF Chain
  <2>6. (left \o sendBuffers \o sendQueue) \o <<b>> = (left \o sendBuffers) \o (sendQueue \o <<b>>)
    BY <2>3, <2>4, ConcatAssociative
  <2>. QED BY <2>1, <2>2, <2>5, <2>6 DEF Chain
<1>3. ASSUME NEW t \in Thread, RegisterSend(t) \/ RegisterSendFails(t) PROVE Chain'
  <2>1. pc[t] = "registersend" /\ sendQueue' = <<>> /\ sendBuffers' = sendQueue
        /\ UNCHANGED <<posted, left>>
    BY <1>3 DEF RegisterSend, RegisterSendFails, TakeQueue, At, sentVars
  <2>2. sendBuffers = <<>>
    BY <2>1 DEF Sender
  <2>3. left \in Seq(Buffer) /\ sendQueue \in Seq(Buffer)
    BY DEF TypeOK
  <2>4. left \o <<>> \o sendQueue = left \o sendQueue \o <<>>
    BY <2>3, ConcatEmptySeq, ConcatProperties
  <2>. QED BY <2>1, <2>2, <2>4 DEF Chain
<1>4. ASSUME NEW t \in Thread, AbandonSend(t) \/ ProcessSend(t) PROVE Chain'
  <2>1. left' = left \o sendBuffers /\ sendBuffers' = <<>> /\ UNCHANGED <<posted, sendQueue>>
    BY <1>4 DEF AbandonSend, ProcessSend
  <2>2. (left \o sendBuffers) \o <<>> = left \o sendBuffers
    BY ConcatEmptySeq, ConcatProperties DEF TypeOK
  <2>. QED BY <2>1, <2>2 DEF Chain
<1>5. ASSUME NEW t \in Thread, Dispatch(t, "send") PROVE Chain'
  BY <1>1, <1>5 DEF Dispatch, sendVars, sentVars
<1>6. ASSUME NEW e \in Event, NEW how \in {"done", "failed"}, Complete(e, how) PROVE Chain'
  BY <1>1, <1>6 DEF Complete, sendVars
<1>7. ASSUME NEW t \in Thread, Quiet(t) PROVE Chain'
  BY <1>1, <1>7, QuietSteps DEF sentVars
<1>8. CASE UNCHANGED vars
  BY <1>1, <1>8 DEF vars, sendVars, sentVars
<1>. QED BY <1>2, <1>3, <1>4, <1>5, <1>6, <1>7, <1>8, StepKinds

(* Where the parts are. *)
LEMMA Positions ==
  ASSUME TypeOK, Chain
  PROVE  /\ Len(left) \in Nat /\ Len(sendBuffers) \in Nat /\ Len(posted) \in Nat
         /\ Len(left) + Len(sendBuffers) <= Len(posted)
         /\ \A i \in 1..Len(left) : posted[i] = left[i]
         /\ \A i \in 1..Len(sendBuffers) : posted[Len(left) + i] = sendBuffers[i]
<1> DEFINE first == left \o sendBuffers
<1>1. left \in Seq(Buffer) /\ sendBuffers \in Seq(Buffer) /\ sendQueue \in Seq(Buffer)
  BY DEF TypeOK
<1>2. /\ first \in Seq(Buffer) /\ Len(first) = Len(left) + Len(sendBuffers)
      /\ \A i \in 1..Len(left) + Len(sendBuffers) :
           first[i] = IF i <= Len(left) THEN left[i] ELSE sendBuffers[i - Len(left)]
  BY <1>1, ConcatProperties
<1>3. /\ posted = first \o sendQueue
      /\ Len(left) \in Nat /\ Len(sendBuffers) \in Nat /\ Len(sendQueue) \in Nat
  BY <1>1 DEF Chain
<1> HIDE DEF first
<1>4. /\ Len(posted) = Len(first) + Len(sendQueue)
      /\ \A i \in 1..Len(first) + Len(sendQueue) :
           posted[i] = IF i <= Len(first) THEN first[i] ELSE sendQueue[i - Len(first)]
  <2>1. first \in Seq(Buffer) /\ sendQueue \in Seq(Buffer) /\ posted = first \o sendQueue
    BY <1>1, <1>2, <1>3
  <2>. QED BY <2>1, ConcatProperties
<1>5. ASSUME NEW i \in 1..Len(left) PROVE posted[i] = left[i]
  <2>1. i \in 1..Len(left) + Len(sendBuffers) /\ i <= Len(left)
    BY <1>3
  <2>2. first[i] = left[i]
    BY <1>2, <2>1
  <2>3. posted[i] = first[i]
    BY <1>2, <1>3, <1>4, <2>1
  <2>. QED BY <2>2, <2>3
<1>6. ASSUME NEW i \in 1..Len(sendBuffers) PROVE posted[Len(left) + i] = sendBuffers[i]
  <2>1. /\ Len(left) + i \in 1..Len(left) + Len(sendBuffers)
        /\ ~(Len(left) + i <= Len(left)) /\ (Len(left) + i) - Len(left) = i
    BY <1>3
  <2>2. first[Len(left) + i] = sendBuffers[i]
    BY <1>2, <2>1
  <2>3. posted[Len(left) + i] = first[Len(left) + i]
    BY <1>2, <1>3, <1>4, <2>1
  <2>. QED BY <2>2, <2>3
<1>. QED BY <1>2, <1>3, <1>4, <1>5, <1>6

(* Nothing is transmitted before it is in the event, and a WSASend that     *)
(* succeeded transmitted all of it.                                         *)
LEMMA NextReach ==
  TypeOK /\ Locals /\ Opening /\ Sender /\ Pinned /\ Reach /\ [Next]_vars => Reach'
<1> SUFFICES ASSUME TypeOK, Locals, Opening, Sender, Pinned, Reach, [Next]_vars PROVE Reach'
  OBVIOUS
<1>0. left \in Seq(Buffer) /\ sendBuffers \in Seq(Buffer) /\ wire \in Seq(Buffer)
      /\ inKernel \in Seq(Buffer)
  BY DEF TypeOK
<1>a. Reach <=> /\ Elements(wire) \subseteq Elements(left) \cup Elements(sendBuffers)
                /\ io["send"] = "pending" => Elements(wire) \subseteq Elements(left)
                /\ io["send"] = "done" => Elements(sendBuffers) \subseteq Elements(wire)
                /\ \A t \in Thread : pc[t] = "onsend" /\ then[t] = "done" =>
                     Elements(sendBuffers) \subseteq Elements(wire)
  BY DEF Reach, Elements
<1>b. Reach' <=> /\ Elements(wire') \subseteq Elements(left') \cup Elements(sendBuffers')
                 /\ io'["send"] = "pending" => Elements(wire') \subseteq Elements(left')
                 /\ io'["send"] = "done" => Elements(sendBuffers') \subseteq Elements(wire')
                 /\ \A t \in Thread : pc'[t] = "onsend" /\ then'[t] = "done" =>
                      Elements(sendBuffers') \subseteq Elements(wire')
  BY DEF Reach, Elements
<1>c. Elements(<<>>) = {}
  BY DEF Elements
<1>1. ASSUME NEW t \in Thread, PushSend(t) PROVE Reach'
  <2>1. UNCHANGED <<left, sendBuffers, wire, io, then>> /\ \A u \in Thread : pc'[u] = "onsend" => pc[u] = "onsend"
    BY <1>1 DEF PushSend, Outside, Goto, TypeOK, ioVars
  <2>. QED BY <1>a, <1>b, <2>1
<1>2. ASSUME NEW t \in Thread, RegisterSend(t) \/ RegisterSendFails(t) PROVE Reach'
  <2>1. /\ pc[t] = "registersend" /\ UNCHANGED <<left, wire>> /\ io'["send"] \in {"none", "pending"}
        /\ \A u \in Thread : pc'[u] = "onsend" => u # t /\ pc[u] = "onsend"
    <3>1. io["send"] = "none"
      BY <1>2 DEF RegisterSend, RegisterSendFails, TakeQueue, At, Sender, Sends
    <3>2. io'["send"] \in {"none", "pending"} /\ UNCHANGED <<left, wire>> /\ pc[t] = "registersend"
      BY <1>2, <3>1
      DEF RegisterSend, RegisterSendFails, TakeQueue, At, Begin, ioVars, sentVars, TypeOK, Event
    <3>3. \A u \in Thread : pc'[u] = "onsend" => u # t /\ pc[u] = "onsend"
      BY <1>2 DEF RegisterSend, RegisterSendFails, Outside, Disconnect, Goto, TypeOK
    <3>. QED BY <3>2, <3>3
  <2>2. sendBuffers = <<>> /\ \A u \in Thread : pc[u] # "onsend"
    BY <2>1 DEF Sender, Sends
  <2>. QED BY <1>a, <1>b, <1>c, <2>1, <2>2
<1>3. ASSUME NEW t \in Thread, AbandonSend(t) \/ ProcessSend(t) PROVE Reach'
  <2>1. /\ left' = left \o sendBuffers /\ sendBuffers' = <<>> /\ UNCHANGED <<wire, io>>
        /\ pc[t] \in {"sendfailed", "onsend"}
    BY <1>3 DEF AbandonSend, ProcessSend, At, ioVars
  <2>2. Elements(left') = Elements(left) \cup Elements(sendBuffers)
    BY <1>0, <2>1, ElementsConcat
  <2>3. io["send"] = "none"
    BY <2>1 DEF Sender, Sends
  <2>. QED BY <1>a, <1>b, <1>c, <2>1, <2>2, <2>3
<1>4. ASSUME NEW t \in Thread, Dispatch(t, "send") PROVE Reach'
  <2>1. /\ UNCHANGED <<left, sendBuffers, wire>> /\ io'["send"] = "none"
        /\ io["send"] \in {"done", "failed"} /\ then'[t] = io["send"]
        /\ \A u \in Thread : u # t => pc'[u] = pc[u] /\ then'[u] = then[u]
    BY <1>4 DEF Dispatch, Goto, TypeOK, sendVars, sentVars, Event
  <2>. QED BY <1>a, <1>b, <2>1
<1>5. ASSUME NEW e \in Event, NEW how \in {"done", "failed"}, Complete(e, how) PROVE Reach'
  <2>1. UNCHANGED <<left, sendBuffers, pc, then>>
    BY <1>5 DEF Complete, sendVars
  <2>2. CASE e = "send" /\ how = "done"
    <3>1. io["send"] = "pending" /\ io'["send"] = "done" /\ wire' = wire \o inKernel
      BY <1>5, <2>2 DEF Complete, TypeOK
    <3>2. inKernel = sendBuffers
      BY <3>1 DEF Pinned
    <3>3. Elements(wire') = Elements(wire) \cup Elements(sendBuffers)
      BY <1>0, <3>1, <3>2, ElementsConcat
    <3>. QED BY <1>a, <1>b, <2>1, <3>1, <3>3
  <2>3. CASE ~(e = "send" /\ how = "done")
    <3>1. wire' = wire /\ (io'["send"] = io["send"] \/ io'["send"] = "failed")
      BY <1>5, <2>3 DEF Complete, TypeOK, Event
    <3>. QED BY <1>a, <1>b, <2>1, <3>1
  <2>. QED BY <2>2, <2>3
<1>6. ASSUME NEW t \in Thread, Quiet(t) PROVE Reach'
  BY <1>6, <1>a, <1>b, QuietSteps DEF sentVars
<1>7. CASE UNCHANGED vars
  BY <1>7, <1>a, <1>b DEF vars, sendVars, ioVars, sentVars
<1>. QED BY <1>1, <1>2, <1>3, <1>4, <1>5, <1>6, <1>7, StepKinds

(* The buffers of a WSASend that succeeds come after those transmitted     *)
(* before, and are new.                                                    *)
LEMMA Transmit ==
  ASSUME TypeOK, Fresh, Reach, Pinned, Chain, Ordered, Once,
         io["send"] = "pending", wire' = wire \o inKernel, posted' = posted
  PROVE  Ordered' /\ Once'
<1>1. /\ wire \in Seq(Buffer) /\ inKernel \in Seq(Buffer) /\ inKernel = sendBuffers
      /\ DOMAIN posted = 1..Len(posted) /\ DOMAIN posted' = DOMAIN posted
      /\ DOMAIN wire = 1..Len(wire) /\ Len(wire) \in Nat
  BY DEF TypeOK, Pinned
<1> DEFINE old(i) == i \in 1..Len(wire)
           new(i) == (i - Len(wire)) \in 1..Len(sendBuffers)
           at(i) == Len(left) + (i - Len(wire))
<1>2. /\ DOMAIN wire' = 1..Len(wire) + Len(sendBuffers)
      /\ \A i \in 1..Len(wire) : wire'[i] = wire[i]
      /\ \A i \in 1..Len(wire) + Len(sendBuffers) : i > Len(wire) => wire'[i] = sendBuffers[i - Len(wire)]
  BY <1>1, ConcatProperties, LenProperties
<1>3. /\ Len(left) \in Nat /\ Len(sendBuffers) \in Nat /\ Len(posted) \in Nat
      /\ Len(left) + Len(sendBuffers) <= Len(posted)
      /\ \A i \in 1..Len(left) : posted[i] = left[i]
      /\ \A i \in 1..Len(sendBuffers) : posted[Len(left) + i] = sendBuffers[i]
  BY Positions
<1>4. ASSUME NEW i \in DOMAIN wire'
      PROVE  \/ old(i) /\ \E k \in 1..Len(left) : posted[k] = wire'[i]
             \/ /\ ~old(i) /\ new(i) /\ i \in Int
                /\ at(i) \in DOMAIN posted /\ at(i) > Len(left) /\ posted[at(i)] = wire'[i]
  <2>1. CASE old(i)
    <3>1. wire[i] \in Elements(left)
      BY <1>1, <2>1 DEF Reach
    <3>2. PICK k \in DOMAIN left : left[k] = wire[i]
      BY <3>1 DEF Elements
    <3>3. DOMAIN left = 1..Len(left)
      BY DEF TypeOK
    <3>. QED BY <1>2, <1>3, <2>1, <3>2, <3>3
  <2>2. CASE ~old(i)
    <3>1. i \in Int /\ i > Len(wire) /\ i - Len(wire) \in 1..Len(sendBuffers)
      BY <1>1, <1>2, <1>3, <2>2
    <3>2. wire'[i] = sendBuffers[i - Len(wire)] /\ posted[at(i)] = sendBuffers[i - Len(wire)]
      BY <1>2, <1>3, <3>1
    <3>. QED BY <1>1, <1>3, <2>2, <3>1, <3>2
  <2>. QED BY <2>1, <2>2
<1>5. ASSUME NEW i \in DOMAIN wire', NEW j \in DOMAIN wire', i <= j
      PROVE  \E k, m \in DOMAIN posted' : k <= m /\ posted'[k] = wire'[i] /\ posted'[m] = wire'[j]
  <2>1. CASE old(i) /\ old(j)
    BY <1>1, <1>2, <1>5, <2>1 DEF Ordered
  <2>2. CASE old(i) /\ ~old(j)
    <3>1. PICK k \in 1..Len(left) : posted[k] = wire'[i]
      BY <1>4, <2>2
    <3>2. at(j) \in DOMAIN posted /\ at(j) > Len(left) /\ posted[at(j)] = wire'[j]
      BY <1>4, <2>2
    <3>3. k \in DOMAIN posted /\ k <= at(j)
      BY <1>1, <1>3, <3>1, <3>2
    <3>. QED BY <1>1, <3>1, <3>2, <3>3
  <2>3. CASE ~old(i)
    <3>1. ~old(j)
      BY <1>1, <1>2, <1>3, <1>5, <2>3
    <3>2. /\ i \in Int /\ at(i) \in DOMAIN posted /\ posted[at(i)] = wire'[i]
          /\ j \in Int /\ at(j) \in DOMAIN posted /\ posted[at(j)] = wire'[j]
      BY <1>4, <2>3, <3>1
    <3>3. at(i) <= at(j)
      BY <1>1, <1>3, <1>5, <3>2
    <3>. QED BY <1>1, <3>2, <3>3
  <2>. QED BY <2>1, <2>2, <2>3
<1>6. ASSUME NEW i \in DOMAIN wire', NEW j \in DOMAIN wire', wire'[i] = wire'[j]
      PROVE  i = j
  <2>1. CASE old(i) /\ old(j)
    BY <1>1, <1>2, <1>6, <2>1 DEF Once
  <2>2. ASSUME NEW a \in DOMAIN wire', NEW b \in DOMAIN wire', old(a), ~old(b), wire'[a] = wire'[b]
        PROVE  FALSE
    <3>1. PICK k \in 1..Len(left) : posted[k] = wire'[a]
      BY <1>4, <2>2
    <3>2. at(b) \in DOMAIN posted /\ at(b) > Len(left) /\ posted[at(b)] = wire'[b]
      BY <1>4, <2>2
    <3>3. k \in DOMAIN posted /\ k # at(b)
      BY <1>1, <1>3, <3>1, <3>2
    <3>. QED BY <2>2, <3>1, <3>2, <3>3 DEF Fresh
  <2>3. CASE ~old(i) /\ ~old(j)
    <3>1. /\ i \in Int /\ at(i) \in DOMAIN posted /\ posted[at(i)] = wire'[i]
          /\ j \in Int /\ at(j) \in DOMAIN posted /\ posted[at(j)] = wire'[j]
      BY <1>4, <2>3
    <3>2. at(i) = at(j)
      BY <1>6, <3>1 DEF Fresh
    <3>. QED BY <1>1, <1>3, <3>1, <3>2
  <2>. QED BY <1>6, <2>1, <2>2, <2>3
<1>. QED BY <1>5, <1>6 DEF Ordered, Once

(* Buffers are transmitted in the order of Send, and once. *)
LEMMA NextOrdered ==
  /\ TypeOK /\ Locals /\ Opening /\ Fresh /\ Reach /\ Pinned /\ Chain /\ Ordered /\ Once
  /\ [Next]_vars
  => Ordered' /\ Once'
<1> SUFFICES ASSUME TypeOK, Locals, Opening, Fresh, Reach, Pinned, Chain, Ordered, Once, [Next]_vars
             PROVE  Ordered' /\ Once'
  OBVIOUS
<1>1. CASE UNCHANGED <<posted, wire>>
  BY <1>1 DEF Ordered, Once
<1>2. ASSUME NEW t \in Thread, PushSend(t) PROVE Ordered' /\ Once'
  <2>1. wire' = wire /\ posted' = Append(posted, sending[t]) /\ posted \in Seq(Buffer)
    BY <1>2 DEF PushSend, TypeOK
  <2>2. \A k \in DOMAIN posted : k \in DOMAIN posted' /\ posted'[k] = posted[k]
    BY <2>1
  <2>. QED BY <2>1, <2>2 DEF Ordered, Once
<1>3. ASSUME NEW t \in Thread,
             \/ RegisterSend(t) \/ RegisterSendFails(t) \/ AbandonSend(t) \/ ProcessSend(t)
             \/ Dispatch(t, "send")
      PROVE  Ordered' /\ Once'
  BY <1>1, <1>3
  DEF RegisterSend, RegisterSendFails, AbandonSend, ProcessSend, Dispatch, sentVars
<1>4. ASSUME NEW e \in Event, NEW how \in {"done", "failed"}, Complete(e, how)
      PROVE  Ordered' /\ Once'
  <2>1. CASE e = "send" /\ how = "done"
    BY <1>4, <2>1, Transmit DEF Complete
  <2>2. CASE ~(e = "send" /\ how = "done")
    BY <1>1, <1>4, <2>2 DEF Complete
  <2>. QED BY <2>1, <2>2
<1>5. ASSUME NEW t \in Thread, Quiet(t) PROVE Ordered' /\ Once'
  BY <1>1, <1>5, QuietSteps DEF sentVars
<1>6. CASE UNCHANGED vars
  BY <1>1, <1>6 DEF vars, sentVars
<1>. QED BY <1>2, <1>3, <1>4, <1>5, <1>6, StepKinds

(* While the session is connected, what has left the event was transmitted *)
(* or refused.                                                             *)
LEMMA NextAccounted ==
  TypeOK /\ Locals /\ Opening /\ Reach /\ Accounted /\ [Next]_vars => Accounted'
<1> SUFFICES ASSUME TypeOK, Locals, Opening, Reach, Accounted, [Next]_vars PROVE Accounted'
  OBVIOUS
<1>0. left \in Seq(Buffer) /\ sendBuffers \in Seq(Buffer) /\ wire \in Seq(Buffer)
      /\ inKernel \in Seq(Buffer) /\ Elements(<<>>) = {}
  BY DEF TypeOK, Elements
<1>a. Accounted' <=> (connected' => Elements(left') \subseteq Elements(wire') \cup refused')
  BY DEF Accounted, Elements
<1>1. CASE UNCHANGED <<left, wire, refused>> /\ (connected' => connected)
  BY <1>1, <1>a DEF Accounted
<1>2. ASSUME NEW t \in Thread,
             PushSend(t) \/ RegisterSend(t) \/ RegisterSendFails(t) \/ Dispatch(t, "send")
      PROVE  Accounted'
  <2>1. UNCHANGED <<left, wire, refused>> /\ (connected' => connected)
    BY <1>2 DEF PushSend, RegisterSend, RegisterSendFails, Disconnect, Dispatch, sentVars
  <2>. QED BY <1>1, <2>1
<1>3. ASSUME NEW t \in Thread, AbandonSend(t) PROVE Accounted'
  <2>1. /\ left' = left \o sendBuffers /\ refused' = refused \cup Elements(sendBuffers)
        /\ UNCHANGED <<wire, connected>>
    BY <1>3 DEF AbandonSend
  <2>2. Elements(left') = Elements(left) \cup Elements(sendBuffers)
    BY <1>0, <2>1, ElementsConcat
  <2>. QED BY <1>a, <2>1, <2>2 DEF Accounted
<1>4. ASSUME NEW t \in Thread, ProcessSend(t) PROVE Accounted'
  <2>1. /\ left' = left \o sendBuffers /\ UNCHANGED <<wire, refused>> /\ pc[t] = "onsend"
        /\ \/ then[t] = "done" /\ connected' = connected
           \/ connected' = FALSE
    BY <1>4 DEF ProcessSend, Disconnect, At
  <2>2. Elements(left') = Elements(left) \cup Elements(sendBuffers)
    BY <1>0, <2>1, ElementsConcat
  <2>3. then[t] = "done" => Elements(sendBuffers) \subseteq Elements(wire)
    BY <2>1 DEF Reach
  <2>. QED BY <1>a, <2>1, <2>2, <2>3 DEF Accounted
<1>5. ASSUME NEW e \in Event, NEW how \in {"done", "failed"}, Complete(e, how) PROVE Accounted'
  <2>1. /\ UNCHANGED <<left, refused, connected>>
        /\ wire' = wire \/ wire' = wire \o inKernel
    BY <1>5 DEF Complete
  <2>2. Elements(wire \o inKernel) = Elements(wire) \cup Elements(inKernel)
    BY <1>0, ElementsConcat
  <2>3. Elements(wire) \subseteq Elements(wire')
    BY <2>1, <2>2
  <2>. QED BY <1>a, <2>1, <2>3 DEF Accounted
<1>6. ASSUME NEW t \in Thread, Quiet(t) PROVE Accounted'
  <2>1. UNCHANGED <<left, wire, refused>> /\ (connected' => connected \/ left = <<>>)
    BY <1>6, QuietSteps DEF sentVars
  <2>. QED BY <1>0, <1>a, <2>1 DEF Accounted
<1>7. CASE UNCHANGED vars
  BY <1>1, <1>7 DEF vars, sentVars
<1>. QED BY <1>2, <1>3, <1>4, <1>5, <1>6, <1>7, StepKinds

-----------------------------------------------------------------------------
(* IInv is inductive. *)
LEMMA NextInv == IInv /\ [Next]_vars => IInv'
<1> SUFFICES ASSUME IInv, [Next]_vars PROVE IInv'
  OBVIOUS
<1> USE DEF IInv
<1>1. TypeOK' /\ Locals'
  BY NextTypeOK, NextLocals
<1>2. Opening' /\ Closing'
  BY NextOpening, NextClosing
<1>3. Sender' /\ Receiver' /\ Pinned'
  BY NextSender, NextReceiver, NextPinned
<1>4. Fresh' /\ Reach'
  BY NextFresh, NextReach
<1>5. SendOrder'
  <2>1. Chain /\ Ordered /\ Once /\ Accounted
    BY SendOrderDef
  <2>2. Chain' /\ Ordered' /\ Once' /\ Accounted'
    BY <2>1, NextChain, NextOrdered, NextAccounted
  <2>. QED BY <2>2 DEF SendOrder, Chain, Ordered, Once, Accounted
<1>. QED BY <1>1, <1>2, <1>3, <1>4, <1>5

(* Every behaviour of a session satisfies the inductive invariant. *)
LEMMA Invariance == Spec => []IInv
BY InitInv, NextInv, PTL DEF Spec

(* The variables of every reachable state have their types. *)
THEOREM TypeCorrect == Spec => []TypeOK
<1>1. IInv => TypeOK
  BY DEF IInv
<1>. QED BY <1>1, Invariance, PTL

(***************************************************************************)
(* One party, a thread or the system, is in charge of _sendEvent at any    *)
(* time, and as long as the session is connected no send is stranded:      *)
(* whoever finds _sendRegistered set can rely on a party that will look at *)
(* the queue again.                                                        *)
(***************************************************************************)
THEOREM SendEventOwned == Spec => []OneSender
<1>1. ASSUME IInv PROVE OneSender
  <2> USE <1>1 DEF IInv
  <2>0. SendParties = {t \in Thread : Sends(t)} \cup (IF io["send"] = "none" THEN {} ELSE {NoThread})
    BY DEF SendParties, Sends
  <2>1. \A x, y \in SendParties : x = y
    BY <2>0, NoThreadAssumption DEF Sender
  <2>2. Cardinality(SendParties) <= 1
    BY <2>1, AtMostOne
  <2>3. ~sendRegistered => SendParties = {} /\ sendQueue = <<>>
    BY <2>0 DEF Sender
  <2>4. connected /\ sendRegistered => SendParties # {}
    BY <2>0 DEF Sender
  <2>. QED BY <2>2, <2>3, <2>4 DEF OneSender, Sender
<1>. QED BY <1>1, Invariance, PTL

(* The receive buffer is never in two hands, for any number of workers. *)
THEOREM ReceiveSerialized == Spec => []OneReceiver
<1>1. ASSUME IInv PROVE OneReceiver
  <2> USE <1>1 DEF IInv
  <2>0. RecvParties = {t \in Thread : Receives(t)}
          \cup (IF io["recv"] = "none" /\ io["connect"] = "none" THEN {} ELSE {NoThread})
    BY DEF RecvParties, Receives
  <2>1. \A x, y \in RecvParties : x = y
    BY <2>0, NoThreadAssumption DEF Receiver
  <2>. QED BY <2>1, AtMostOne DEF OneReceiver
<1>. QED BY <1>1, Invariance, PTL

(* The session and the buffers outlive the operations that use them. *)
THEOREM OperationsPinned == Spec => []Pinned
<1>1. IInv => Pinned
  BY DEF IInv
<1>. QED BY <1>1, Invariance, PTL

(* Buffers leave in the order of Send, at most once, and none disappears. *)
THEOREM SentInOrder == Spec => []SendOrder
<1>1. IInv => SendOrder
  BY DEF IInv
<1>. QED BY <1>1, Invariance, PTL

(* ReleaseSession's assertion holds: the entry is still there. *)
THEOREM ReleasedOnce == Spec => []ReleaseFindsSession
<1>1. IInv => ReleaseFindsSession
  BY DEF IInv, Closing, ReleaseFindsSession, At
<1>. QED BY <1>1, Invariance, PTL

=============================================================================
