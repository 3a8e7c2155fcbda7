---------------------------- MODULE SecureChannel ----------------------------
(***************************************************************************)
(* ServerCore/Session.cpp's Send and OnRecv with encryption on, and        *)
(* AESCrypto.cpp: one connection from end to end.  Both ends run the same  *)
(* code, and each has one AESCrypto, whose member _iv is scratch memory of *)
(* Encrypt and of Decrypt alike.  Send encrypts outside the session's      *)
(* lock, on the thread that calls it, and OnRecv decrypts on the worker    *)
(* that got the completion.                                                *)
(*                                                                         *)
(* A packet is its sequence number, 0 without PKT_FLAG_HAS_SEQUENCE, and   *)
(* whether both ends used the IV of Init: with another one its first       *)
(* block, which holds the header, is noise.  The HMAC covers the           *)
(* ciphertext and does not notice.                                         *)
(* One thread receives at a time, and the wire is FIFO (Session.tla).  The *)
(* connection closes for both ends at once: what one of them does before   *)
(* it notices is not looked at.                                            *)
(***************************************************************************)
EXTENDS Naturals, Sequences

CONSTANTS MaxSends,   \* how often a thread calls Send
          Sequencer,  \* the threads that send packets for which NeedsSequence
          MaxNoise    \* largest sequence number read from noise

Side == {"client", "server"}
Peer(s) == IF s = "client" THEN "server" ELSE "client"
Thread == Side \X {"send", "recv"}
SideOf(t) == t[1]
Receiver == Side \X {"recv"}

ASSUME BoundAssumption ==
  MaxSends \in [Thread -> Nat] /\ Sequencer \subseteq Thread /\ MaxNoise \in Nat

VARIABLES
  pc,          \* where a thread is
  left,        \* how often it may still call Send
  packet,      \* the packet it is sending or receiving
  iv,          \* AESCrypto::_iv
  sendSeq, recvSeq,  \* _sendSeq, _recvSeq
  cached,      \* _lastResponse is set
  wire,        \* packets an end has sent and the other has not received
  open,        \* the connection
  skills,      \* history: the sequence numbers of the packets handled
  overlapped   \* history: two uses of an end's AESCrypto have overlapped

local == <<pc, left, packet>>
vars == <<local, iv, sendSeq, recvSeq, cached, wire, open, skills, overlapped>>

NoPacket == [seq |-> 0, intact |-> TRUE]

Init ==
  /\ pc = [t \in Thread |-> "idle"]
  /\ left = MaxSends
  /\ packet = [t \in Thread |-> NoPacket]
  /\ iv = [s \in Side |-> "other"]
  /\ sendSeq = [s \in Side |-> 0] /\ recvSeq = [s \in Side |-> 0]
  /\ cached = [s \in Side |-> FALSE]
  /\ wire = [s \in Side |-> <<>>]
  /\ open = TRUE
  /\ skills = [s \in Side |-> <<>>]
  /\ overlapped = [s \in Side |-> FALSE]

Goto(t, place) == pc' = [pc EXCEPT ![t] = place]

-----------------------------------------------------------------------------
(* The cipher: memcpy of the IV, then a BCrypt call that reads it when it  *)
(* begins and leaves the last block there when it ends.                    *)

InCipher(t) == pc[t] \in {"encrypt", "encrypting", "encrypted", "decrypt", "decrypting"}

Enter(t) ==
  overlapped' = [overlapped EXCEPT ![SideOf(t)] =
    @ \/ \E u \in Thread \ {t} : SideOf(u) = SideOf(t) /\ InCipher(u)]

RestoreIV(t) == iv' = [iv EXCEPT ![SideOf(t)] = "backup"]

UseIV(t) == packet' = [packet EXCEPT ![t].intact = @ /\ iv[SideOf(t)] = "backup"]

LeaveChain(t) == iv' = [iv EXCEPT ![SideOf(t)] = "other"]

-----------------------------------------------------------------------------
(* Session::Send *)

InSend(t) ==
  pc[t] \in {"encrypt?", "encrypt", "encrypting", "encrypted", "push"}

(* On the server every Send of a session is in a job of the player's room, *)
(* and two jobs of a room do not overlap (MutualExclusion of JobQueue).    *)
MaySend(t) ==
  SideOf(t) = "server" => \A u \in Thread \ {t} : SideOf(u) = "server" => ~InSend(u)

(* Mutant: the number is what _sendSeq was. *)
HeaderPostIncrement(t, sequenced) ==
  IF sequenced
  THEN /\ packet' = [packet EXCEPT ![t] = [seq |-> sendSeq[SideOf(t)], intact |-> TRUE]]
       /\ sendSeq' = [sendSeq EXCEPT ![SideOf(t)] = @ + 1]
       /\ cached' = [cached EXCEPT ![SideOf(t)] = TRUE]
  ELSE /\ packet' = [packet EXCEPT ![t] = NoPacket]
       /\ UNCHANGED <<sendSeq, cached>>

(* The header of a packet that needs a sequence number, and of another. *)
Header(t, sequenced) ==
  IF sequenced
  THEN /\ packet' = [packet EXCEPT ![t] = [seq |-> sendSeq[SideOf(t)] + 1, intact |-> TRUE]]
       /\ sendSeq' = [sendSeq EXCEPT ![SideOf(t)] = @ + 1]
       /\ cached' = [cached EXCEPT ![SideOf(t)] = TRUE]
  ELSE /\ packet' = [packet EXCEPT ![t] = NoPacket]
       /\ UNCHANGED <<sendSeq, cached>>

Send(t, sequenced) ==
  /\ open /\ pc[t] = "idle" /\ left[t] > 0 /\ MaySend(t)
  /\ sequenced => t \in Sequencer
  /\ left' = [left EXCEPT ![t] = @ - 1]
  /\ Header(t, sequenced)
  /\ Goto(t, "encrypt?")
  /\ UNCHANGED <<iv, recvSeq, wire, open, skills, overlapped>>

(* AESCrypto::Encrypt: IV restored, size asked for, IV restored again, *)
EncryptSize(t) ==
  /\ pc[t] = "encrypt?"
  /\ Enter(t) /\ RestoreIV(t)
  /\ Goto(t, "encrypt")
  /\ UNCHANGED <<left, packet, sendSeq, recvSeq, cached, wire, open, skills>>

EncryptRestore(t) ==
  /\ pc[t] = "encrypt"
  /\ RestoreIV(t)
  /\ Goto(t, "encrypting")
  /\ UNCHANGED <<left, packet, sendSeq, recvSeq, cached, wire, open, skills, overlapped>>

EncryptBegin(t) ==
  /\ pc[t] = "encrypting"
  /\ UseIV(t)
  /\ Goto(t, "encrypted")
  /\ UNCHANGED <<left, iv, sendSeq, recvSeq, cached, wire, open, skills, overlapped>>

EncryptEnd(t) ==
  /\ pc[t] = "encrypted"
  /\ LeaveChain(t)
  /\ Goto(t, "push")
  /\ UNCHANGED <<left, packet, sendSeq, recvSeq, cached, wire, open, skills, overlapped>>

(* _sendQueue.push, under the lock; a closed connection sends nothing. *)
Push(t) ==
  /\ pc[t] = "push"
  /\ wire' = IF open THEN [wire EXCEPT ![SideOf(t)] = Append(@, packet[t])] ELSE wire
  /\ packet' = [packet EXCEPT ![t] = NoPacket]
  /\ Goto(t, "idle")
  /\ UNCHANGED <<left, iv, sendSeq, recvSeq, cached, open, skills, overlapped>>

-----------------------------------------------------------------------------
(* PacketSession::OnRecv *)

(* A whole packet is there, and its HMAC is right. *)
Receive(t) ==
  /\ open /\ pc[t] = "idle" /\ wire[Peer(SideOf(t))] # <<>>
  /\ packet' = [packet EXCEPT ![t] = Head(wire[Peer(SideOf(t))])]
  /\ wire' = [wire EXCEPT ![Peer(SideOf(t))] = Tail(@)]
  /\ Goto(t, "decrypt?")
  /\ UNCHANGED <<left, iv, sendSeq, recvSeq, cached, open, skills, overlapped>>

(* Mutant: Decrypt does not restore the IV. *)
DecryptNoRestore(t) ==
  /\ pc[t] = "decrypt?"
  /\ Enter(t)
  /\ Goto(t, "decrypt")
  /\ UNCHANGED <<left, packet, iv, sendSeq, recvSeq, cached, wire, open, skills>>

(* AESCrypto::Decrypt *)
DecryptRestore(t) ==
  /\ pc[t] = "decrypt?"
  /\ Enter(t) /\ RestoreIV(t)
  /\ Goto(t, "decrypt")
  /\ UNCHANGED <<left, packet, sendSeq, recvSeq, cached, wire, open, skills>>

DecryptBegin(t) ==
  /\ pc[t] = "decrypt"
  /\ UseIV(t)
  /\ Goto(t, "decrypting")
  /\ UNCHANGED <<left, iv, sendSeq, recvSeq, cached, wire, open, skills, overlapped>>

DecryptEnd(t) ==
  /\ pc[t] = "decrypting"
  /\ LeaveChain(t)
  /\ Goto(t, "check")
  /\ UNCHANGED <<left, packet, sendSeq, recvSeq, cached, wire, open, skills, overlapped>>

(* What OnRecv may read as the header's flag and number. *)
Headers(p) ==
  IF p.intact THEN {[sequenced |-> p.seq > 0, seq |-> p.seq]}
  ELSE [sequenced : {TRUE}, seq : 0..MaxNoise] \cup {[sequenced |-> FALSE, seq |-> 0]}

Checking(t) == pc[t] = "check" /\ open

(* "Decryption failed": the padding of a packet of one block is noise too. *)
DecryptionFails(t) ==
  /\ Checking(t) /\ ~packet[t].intact
  /\ open' = FALSE
  /\ Goto(t, "idle") /\ packet' = [packet EXCEPT ![t] = NoPacket]
  /\ UNCHANGED <<left, iv, sendSeq, recvSeq, cached, wire, skills, overlapped>>

(* The last number again: the cached response, if any, is sent again. *)
SkipDuplicate(t, h) ==
  /\ Checking(t) /\ h.sequenced /\ h.seq = recvSeq[SideOf(t)]
  /\ IF cached[SideOf(t)] THEN Header(t, TRUE) /\ Goto(t, "encrypt?")
     ELSE /\ packet' = [packet EXCEPT ![t] = NoPacket] /\ Goto(t, "idle")
          /\ UNCHANGED <<sendSeq, cached>>
  /\ UNCHANGED <<left, iv, recvSeq, wire, open, skills, overlapped>>

(* Mutant: a number has to be the next but one. *)
StaleOrNext(seq, last) == seq <= last + 1

Stale(seq, last) == seq < last

(* "Replay attack detected" *)
Replayed(t, h) ==
  /\ Checking(t) /\ h.sequenced
  /\ h.seq # recvSeq[SideOf(t)] /\ Stale(h.seq, recvSeq[SideOf(t)])
  /\ open' = FALSE
  /\ Goto(t, "idle") /\ packet' = [packet EXCEPT ![t] = NoPacket]
  /\ UNCHANGED <<left, iv, sendSeq, recvSeq, cached, wire, skills, overlapped>>

(* OnRecvPacket *)
Handle(t, h) ==
  LET s == SideOf(t)
  IN  /\ Checking(t)
      /\ h.sequenced => h.seq # recvSeq[s] /\ ~Stale(h.seq, recvSeq[s])
      /\ recvSeq' = IF h.sequenced THEN [recvSeq EXCEPT ![s] = h.seq] ELSE recvSeq
      /\ skills' = IF h.sequenced THEN [skills EXCEPT ![s] = Append(@, h.seq)] ELSE skills
      /\ packet' = [packet EXCEPT ![t] = NoPacket]
      /\ Goto(t, "idle")
      /\ UNCHANGED <<left, iv, sendSeq, cached, wire, open, overlapped>>

-----------------------------------------------------------------------------

Sending(t) ==
  \/ \E sequenced \in BOOLEAN : Send(t, sequenced)
  \/ EncryptSize(t) \/ EncryptRestore(t) \/ EncryptBegin(t) \/ EncryptEnd(t) \/ Push(t)

Receiving(t) ==
  \/ Receive(t) \/ DecryptRestore(t) \/ DecryptBegin(t) \/ DecryptEnd(t) \/ DecryptionFails(t)
  \/ \E h \in Headers(packet[t]) : SkipDuplicate(t, h) \/ Replayed(t, h) \/ Handle(t, h)

Next == (\E t \in Thread : Sending(t)) \/ (\E t \in Receiver : Receiving(t))

Spec == Init /\ [][Next]_vars

-----------------------------------------------------------------------------
Places == {"idle", "encrypt?", "encrypt", "encrypting", "encrypted", "push",
           "decrypt?", "decrypt", "decrypting", "check"}
Packet == [seq : Nat, intact : BOOLEAN]

(* The types of the variables. *)
TypeOK ==
  /\ pc \in [Thread -> Places] /\ left \in [Thread -> Nat] /\ packet \in [Thread -> Packet]
  /\ iv \in [Side -> {"backup", "other"}]
  /\ sendSeq \in [Side -> Nat] /\ recvSeq \in [Side -> Nat]
  /\ cached \in [Side -> BOOLEAN] /\ wire \in [Side -> Seq(Packet)]
  /\ open \in BOOLEAN /\ skills \in [Side -> Seq(Nat)] /\ overlapped \in [Side -> BOOLEAN]

Calm == \A s \in Side : ~overlapped[s]

(***************************************************************************)
(* Restoring the IV at each use is enough as long as uses do not overlap:  *)
(* a packet is noise only if they did, at one of the ends.  (They do:      *)
(* SameIV.)                                                                *)
(***************************************************************************)
NoiseOnlyFromOverlap ==
  Calm => /\ \A t \in Thread : packet[t].intact
          /\ \A s \in Side : \A i \in 1..Len(wire[s]) : wire[s][i].intact

(* OnRecv disconnects for a replay or a bad packet; two ends that only run *)
(* this code, and whose uses of the cipher do not overlap, stay connected. *)
HonestStayConnected == Calm => open

(* Packets of the client on their way to the server, oldest first. *)
Underway == <<packet[<<"server", "recv">>]>> \o wire["client"] \o <<packet[<<"client", "send">>]>>

(***************************************************************************)
(* Sequence numbers do their work end to end: each packet for which        *)
(* NeedsSequence is handled by the server once, in the order of the Sends, *)
(* none skipped as a duplicate - those handled have the first numbers, and *)
(* the rest are underway, each once and in order.                          *)
(***************************************************************************)
SkillsOnceInOrder ==
  Calm =>
    LET done == Len(skills["server"])
        sent == sendSeq["client"]
    IN  /\ done <= sent /\ \A i \in 1..done : skills["server"][i] = i
        /\ \A i, k \in 1..Len(Underway) :
             i < k /\ Underway[k].seq > 0 => Underway[i].seq < Underway[k].seq
        /\ {Underway[i].seq : i \in 1..Len(Underway)} \ {0} = (done + 1)..sent

(* "The same IV for every encryption" (AESCrypto.cpp:113). *)
SameIV == \A t \in Thread : pc[t] = "encrypted" => packet[t].intact

=============================================================================
