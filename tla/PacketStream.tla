---------------------------- MODULE PacketStream ----------------------------
(***************************************************************************)
(* The receive path of a session: the bytes of the peer's stream go        *)
(* through RecvBuffer (ServerCore/RecvBuffer.cpp), and OnRecv              *)
(* (PacketSession, Session.cpp) cuts them into packets, checks each one    *)
(* and hands it to the application.  One party at a time does all of this  *)
(* (Session.tla, OneReceiver), so there is one program counter.            *)
(*                                                                         *)
(* A byte is its offset in the peer's stream; frame[o] is what the bytes   *)
(* from offset o on say when they are read as a packet.  Whether HMAC and  *)
(* decryption succeed is the field sound; the rate limiter's answer is     *)
(* free here (RateLimiter.tla).                                            *)
(***************************************************************************)
EXTENDS Integers, Sequences

CONSTANTS bufferSize,    \* Session::BUFFER_SIZE, 256 KB
          BUFFER_COUNT,  \* RecvBuffer::BUFFER_COUNT, 10
          minSize,       \* OnRecv's minSize: a header, or the encrypted minimum
          MaxSize,       \* largest value of the 16-bit size field
          MaxBytes,      \* bound: bytes the peer sends
          NoSeq,         \* PKT_FLAG_HAS_SEQUENCE is not set
          MaxSeq,        \* bound on sequence numbers
          Stream         \* what the peer may send

Offset == 0..(MaxBytes - 1)
Frame == [size : 0..MaxSize, sound : BOOLEAN, seq : (0..MaxSeq) \cup {NoSeq}]
capacity == bufferSize * BUFFER_COUNT
SizeField == 2  \* sizeof(uint16)

ASSUME SizeAssumption ==
  /\ bufferSize \in Nat /\ BUFFER_COUNT \in Nat /\ minSize \in Nat
  /\ MaxSize \in Nat /\ MaxBytes \in Nat /\ MaxSeq \in Nat
  /\ SizeField <= minSize /\ minSize <= MaxSize
  /\ MaxSize <= bufferSize /\ BUFFER_COUNT >= 3
ASSUME StreamAssumption == Stream \subseteq [Offset -> Frame]
ASSUME NoSeqAssumption == NoSeq \notin 0..MaxSeq

VARIABLES
  frame,       \* the peer's stream
  received,    \* bytes of it that have arrived
  buffer,      \* RecvBuffer::_buffer: the offset of the byte in each place
  readPos,     \* RecvBuffer::_readPos
  writePos,    \* RecvBuffer::_writePos
  posted,      \* wsaBuf.len of the WSARecv that is outstanding
  processLen,  \* OnRecv's processLen
  recvSeq,     \* PacketSession::_recvSeq
  connected,   \* Session::_connected
  pc,          \* "recv", "parse", "clean" or "closed"
  consumed,    \* history: stream offset of the byte at readPos
  passed,      \* history: offsets of the packets OnRecv is through with
  handled,     \* history: offsets of those the packet handler was given
  rejected     \* history: the rate limiter has refused a packet

bufferVars == <<received, buffer, readPos, writePos, consumed>>
vars == <<frame, bufferVars, posted, processLen, recvSeq, connected, pc,
          passed, handled, rejected>>

DataSize == writePos - readPos
FreeSize == capacity - writePos

Init ==
  /\ frame \in Stream
  /\ received = 0 /\ consumed = 0
  /\ buffer = [i \in 0..(capacity - 1) |-> 0]
  /\ readPos = 0 /\ writePos = 0
  /\ posted = capacity
  /\ processLen = 0 /\ recvSeq = 0
  /\ connected = TRUE /\ pc = "recv"
  /\ passed = <<>> /\ handled = <<>> /\ rejected = FALSE

-----------------------------------------------------------------------------

(* ProcessRecv: n bytes are there; OnWrite, then OnRecv. *)
ProcessRecv(n) ==
  /\ pc = "recv"
  /\ n <= posted /\ received + n <= MaxBytes  \* external: what WSARecv delivers
  /\ n <= FreeSize
  /\ buffer' = [i \in 0..(capacity - 1) |->
       IF i \in writePos..(writePos + n - 1) THEN received + (i - writePos) ELSE buffer[i]]
  /\ writePos' = writePos + n
  /\ received' = received + n
  /\ processLen' = 0
  /\ pc' = "parse"
  /\ UNCHANGED <<frame, readPos, consumed, posted, recvSeq, connected, passed, handled, rejected>>

(* 0 bytes: the peer has closed, or WSARecv failed. *)
ProcessRecvZero ==
  /\ pc = "recv"
  /\ connected' = FALSE
  /\ pc' = "closed"
  /\ UNCHANGED <<frame, bufferVars, posted, processLen, recvSeq, passed, handled, rejected>>

(* Another thread disconnects the session. *)
Close ==
  /\ connected
  /\ connected' = FALSE
  /\ UNCHANGED <<frame, bufferVars, posted, processLen, recvSeq, pc, passed, handled, rejected>>

(* One round of OnRecv's loop. *)
Rest == DataSize - processLen
HasSize == Rest >= SizeField
Offs == buffer[readPos + processLen]
Packet == frame[Offs]

HasPacket == HasSize /\ Packet.size >= minSize /\ Packet.size <= Rest

(* Mutant: a packet with an older sequence number passes. *)
FreshOrOlder == Packet.seq # NoSeq => Packet.seq # recvSeq

Duplicate == Packet.seq = recvSeq
Stale == Packet.seq # NoSeq /\ Packet.seq < recvSeq
Fresh == Packet.seq # NoSeq => Packet.seq > recvSeq

(* Mutant: only the header is passed over. *)
PassHeader ==
  /\ processLen' = processLen + minSize
  /\ passed' = Append(passed, Offs)

Pass ==
  /\ processLen' = processLen + Packet.size
  /\ passed' = Append(passed, Offs)

(* OnRecvPacket: the handler, or Disconnect by the rate limiter - and the  *)
(* loop goes on with the next packet.                                      *)
OnRecvPacket ==
  \/ /\ handled' = Append(handled, Offs)
     /\ UNCHANGED <<connected, rejected>>
  \/ /\ connected' = FALSE /\ rejected' = TRUE
     /\ UNCHANGED handled

HandlePacket ==
  /\ pc = "parse" /\ HasPacket
  /\ Packet.sound /\ Fresh
  /\ recvSeq' = IF Packet.seq = NoSeq THEN recvSeq ELSE Packet.seq
  /\ OnRecvPacket
  /\ Pass
  /\ UNCHANGED <<frame, bufferVars, posted, pc>>

(* The sequence number of the last packet: skip it.  (_lastResponse, which *)
(* would be sent again, is null: no packet of the server has a sequence.)  *)
SkipDuplicate ==
  /\ pc = "parse" /\ HasPacket
  /\ Packet.sound /\ Duplicate
  /\ Pass
  /\ UNCHANGED <<frame, bufferVars, posted, recvSeq, connected, pc, handled, rejected>>

(* OnRecv returns -1: too short, forged, or replayed. *)
Invalid ==
  /\ pc = "parse" /\ HasSize
  /\ Packet.size < minSize \/ (HasPacket /\ (~Packet.sound \/ Stale))
  /\ connected' = FALSE
  /\ pc' = "closed"
  /\ UNCHANGED <<frame, bufferVars, posted, processLen, recvSeq, passed, handled, rejected>>

(* The rest is not a whole packet: OnRecv returns processLen, OnRead. *)
OnRead ==
  /\ pc = "parse"
  /\ HasSize => Packet.size >= minSize /\ Packet.size > Rest
  /\ readPos' = readPos + processLen
  /\ consumed' = consumed + processLen
  /\ pc' = "clean"
  /\ UNCHANGED <<frame, received, buffer, writePos, posted, processLen, recvSeq, connected,
                 passed, handled, rejected>>

(* Mutant: the data are moved, and _writePos is not. *)
MoveToFrontOnly ==
  /\ buffer' = [i \in 0..(capacity - 1) |->
       IF i < DataSize THEN buffer[readPos + i] ELSE buffer[i]]
  /\ readPos' = 0 /\ UNCHANGED writePos

MoveToFront ==
  /\ buffer' = [i \in 0..(capacity - 1) |->
       IF i < DataSize THEN buffer[readPos + i] ELSE buffer[i]]
  /\ readPos' = 0 /\ writePos' = DataSize

(* Mutant: the data are moved only when the buffer is full. *)
CleanWhenFull ==
  \/ DataSize = 0 /\ readPos' = 0 /\ writePos' = 0 /\ UNCHANGED buffer
  \/ DataSize # 0 /\ FreeSize = 0 /\ MoveToFront
  \/ DataSize # 0 /\ FreeSize # 0 /\ UNCHANGED <<buffer, readPos, writePos>>

Clean ==
  \/ DataSize = 0 /\ readPos' = 0 /\ writePos' = 0 /\ UNCHANGED buffer
  \/ DataSize # 0 /\ FreeSize < bufferSize /\ MoveToFront
  \/ DataSize # 0 /\ FreeSize >= bufferSize /\ UNCHANGED <<buffer, readPos, writePos>>

(* Clean and RegisterRecv, which does nothing when not connected. *)
RegisterRecv ==
  /\ pc = "clean"
  /\ Clean
  /\ processLen' = 0
  /\ posted' = IF connected THEN capacity - writePos' ELSE 0
  /\ pc' = IF connected THEN "recv" ELSE "closed"
  /\ UNCHANGED <<frame, received, consumed, recvSeq, connected, passed, handled, rejected>>

Next ==
  \/ \E n \in 1..capacity : ProcessRecv(n)
  \/ ProcessRecvZero \/ Close
  \/ HandlePacket \/ SkipDuplicate \/ Invalid \/ OnRead \/ RegisterRecv

Spec == Init /\ [][Next]_vars

-----------------------------------------------------------------------------
(* The types of the variables. *)
TypeOK ==
  /\ frame \in [Offset -> Frame]
  /\ received \in 0..MaxBytes /\ consumed \in 0..MaxBytes
  /\ buffer \in [0..(capacity - 1) -> Nat]
  /\ readPos \in 0..capacity /\ writePos \in 0..capacity
  /\ posted \in 0..capacity
  /\ processLen \in 0..capacity
  /\ recvSeq \in 0..MaxSeq
  /\ connected \in BOOLEAN /\ rejected \in BOOLEAN
  /\ pc \in {"recv", "parse", "clean", "closed"}
  /\ passed \in Seq(Nat) /\ handled \in Seq(Nat)

(***************************************************************************)
(* Through every OnWrite, OnRead and Clean, the unread part of the buffer  *)
(* is exactly the part of the stream that has arrived and has not been     *)
(* consumed.                                                               *)
(***************************************************************************)
BytesIntact ==
  /\ readPos <= writePos
  /\ consumed + DataSize = received
  /\ \A i \in 0..(DataSize - 1) : buffer[readPos + i] = consumed + i

(***************************************************************************)
(* A WSARecv always has room for at least bufferSize bytes - with none it  *)
(* would complete with 0 bytes, and ProcessRecv would take that for a      *)
(* closed connection - and never for more than is free.  OnRead is never   *)
(* given more than the data, so that ProcessRecv's two overflow branches   *)
(* cannot be taken, and Clean's memcpy never has overlapping source and    *)
(* destination.                                                            *)
(***************************************************************************)
RoomToReceive ==
  /\ pc = "recv" => posted >= bufferSize /\ posted <= FreeSize
  /\ pc = "parse" => processLen <= DataSize
  /\ pc = "clean" /\ FreeSize < bufferSize => DataSize <= readPos

(***************************************************************************)
(* However the stream is split into receives, OnRecv passes over exactly   *)
(* the peer's packets, back to back from the first one, and gives the      *)
(* handler some of them, in order and each once.                           *)
(***************************************************************************)
Framing ==
  LET end(k) == passed[k] + frame[passed[k]].size
      here == IF pc = "parse" THEN consumed + processLen ELSE consumed
  IN  /\ passed # <<>> => passed[1] = 0
      /\ \A k \in 1..(Len(passed) - 1) : passed[k + 1] = end(k)
      /\ pc # "closed" => here = IF passed = <<>> THEN 0 ELSE end(Len(passed))
      /\ \A k \in 1..Len(handled) : \E l \in 1..Len(passed) : handled[k] = passed[l]
      /\ \A k, l \in 1..Len(handled) : k < l => handled[k] < handled[l]

(* No packet with a sequence number is handled twice, or after a later one *)
(* (NetworkSecurity.md, section 4).                                        *)
NoReplay ==
  \A k, l \in 1..Len(handled) :
    k < l /\ frame[handled[k]].seq # NoSeq /\ frame[handled[l]].seq # NoSeq
      => frame[handled[k]].seq < frame[handled[l]].seq

=============================================================================
