------------------------- MODULE PacketStreamProofs -------------------------
(***************************************************************************)
(* Proofs about PacketStream for every size of the buffer, of the packets  *)
(* and of the stream, and every stream: the buffer never loses or repeats  *)
(* a byte, a WSARecv always has room, the peer's packets are recognised    *)
(* wherever the stream is split, and no packet is handled twice.           *)
(***************************************************************************)
EXTENDS PacketStream, SequenceTheorems, TLAPS

(* How much of the stream OnRecv is through with. *)
Here == IF pc = "parse" THEN consumed + processLen ELSE consumed

(* What is left for Clean to move is less than the largest packet, and     *)
(* what Clean leaves free is what the next WSARecv may fill.               *)
Leftover ==
  /\ pc = "recv" => posted = FreeSize /\ FreeSize >= bufferSize
  /\ pc = "parse" => processLen <= DataSize
  /\ pc = "clean" => DataSize < MaxSize

(* The packets OnRecv is through with, one after the other. *)
Passed ==
  /\ \A k \in 1..Len(passed) : passed[k] \in Offset
  /\ passed # <<>> => passed[1] = 0
  /\ \A k \in 1..(Len(passed) - 1) : passed[k + 1] = passed[k] + frame[passed[k]].size
  /\ pc # "closed" =>
       Here = IF passed = <<>> THEN 0
              ELSE passed[Len(passed)] + frame[passed[Len(passed)]].size

(* Those the handler was given. *)
Handled ==
  /\ \A k \in 1..Len(handled) : handled[k] \in Offset
  /\ \A k \in 1..Len(handled) : \E l \in 1..Len(passed) : handled[k] = passed[l]
  /\ \A k, l \in 1..Len(handled) : k < l => handled[k] < handled[l]
  /\ pc # "closed" => \A k \in 1..Len(handled) : handled[k] < Here

(* _recvSeq is not behind any packet that was handled. *)
NotBehind ==
  \A k \in 1..Len(handled) :
    frame[handled[k]].seq # NoSeq => frame[handled[k]].seq <= recvSeq

IInv ==
  /\ TypeOK /\ BytesIntact /\ Leftover /\ Passed /\ Handled /\ NotBehind /\ NoReplay

-----------------------------------------------------------------------------
(* The buffer is three times as large as what one WSARecv may bring. *)
LEMMA Sizes ==
  /\ capacity \in Nat /\ 3 * bufferSize <= capacity
  /\ bufferSize \in Nat /\ minSize \in Nat /\ MaxSize \in Nat /\ MaxBytes \in Nat
  /\ 2 <= minSize /\ minSize <= MaxSize /\ MaxSize <= bufferSize
<1>1. /\ bufferSize \in Nat /\ BUFFER_COUNT \in Nat /\ BUFFER_COUNT >= 3
      /\ minSize \in Nat /\ MaxSize \in Nat /\ MaxBytes \in Nat
      /\ 2 <= minSize /\ minSize <= MaxSize /\ MaxSize <= bufferSize
  BY SizeAssumption DEF SizeField
<1>2. \A b, c \in Nat : c >= 3 => b * c \in Nat /\ 3 * b <= b * c
  <2>1. ASSUME NEW b \in Nat, NEW c \in Nat, c >= 3 PROVE b * c \in Nat /\ 3 * b <= b * c
    <3>1. PICK d \in Nat : c = 3 + d
      <4>1. c - 3 \in Nat /\ c = 3 + (c - 3)
        BY <2>1
      <4>. QED BY <4>1
    <3>2. b * c = 3 * b + b * d /\ b * d \in Nat
      BY <3>1
    <3>. QED BY <3>2
  <2>. QED BY <2>1
<1>. QED BY <1>1, <1>2 DEF capacity

(* The place OnRecv reads from holds a byte that has arrived. *)
LEMMA AtPacket ==
  ASSUME TypeOK, BytesIntact, Leftover, pc = "parse", HasSize
  PROVE  /\ Offs = consumed + processLen /\ Offs \in Offset
         /\ Packet \in Frame /\ Packet.size \in 0..MaxSize
         /\ Packet.seq \in (0..MaxSeq) \cup {NoSeq}
         /\ HasPacket => Packet.size >= 2 /\ processLen + Packet.size <= DataSize
<1>1. /\ DataSize \in Int /\ processLen \in Nat /\ readPos \in Nat /\ writePos \in Nat
      /\ consumed \in Nat /\ received \in Nat /\ received <= MaxBytes
  BY Sizes DEF TypeOK, DataSize
<1>2. processLen + 2 <= DataSize /\ processLen \in 0..(DataSize - 1)
  BY <1>1 DEF HasSize, Rest, SizeField
<1>3. Offs = consumed + processLen
  BY <1>2 DEF Offs, BytesIntact
<1>4. Offs \in Offset
  BY <1>1, <1>2, <1>3, Sizes DEF Offset, BytesIntact
<1>5. Packet \in Frame
  BY <1>4 DEF Packet, TypeOK
<1>6. Packet.size \in 0..MaxSize /\ Packet.seq \in (0..MaxSeq) \cup {NoSeq}
  BY <1>5 DEF Frame
<1>7. HasPacket => Packet.size >= 2 /\ processLen + Packet.size <= DataSize
  BY <1>1, <1>6, Sizes DEF HasPacket, Rest
<1>. QED BY <1>3, <1>4, <1>5, <1>6, <1>7

(* The sizes of the packets there are are natural numbers. *)
LEMMA FrameSize ==
  ASSUME TypeOK, NEW o \in Offset
  PROVE  frame[o].size \in Nat /\ frame[o].seq \in (0..MaxSeq) \cup {NoSeq}
<1>1. frame[o] \in Frame
  BY DEF TypeOK
<1>. QED BY <1>1, Sizes DEF Frame

(* Initially nothing has arrived. *)
LEMMA InitInv == Init => IInv
<1> SUFFICES ASSUME Init PROVE IInv
  OBVIOUS
<1> USE Sizes DEF Init
<1>1. TypeOK
  <2>1. frame \in [Offset -> Frame]
    BY StreamAssumption
  <2>2. buffer \in [0..(capacity - 1) -> Nat]
    OBVIOUS
  <2>3. 0 \in 0..MaxSeq
    BY SizeAssumption
  <2>4. <<>> \in Seq(Nat) /\ 0 \in 0..capacity /\ capacity \in 0..capacity /\ 0 \in 0..MaxBytes
    OBVIOUS
  <2>5. passed \in Seq(Nat) /\ handled \in Seq(Nat)
    BY <2>4
  <2>. QED BY <2>1, <2>2, <2>3, <2>4, <2>5 DEF TypeOK
<1>2. BytesIntact /\ Leftover
  BY DEF BytesIntact, Leftover, DataSize, FreeSize
<1>3. Passed /\ Handled /\ NotBehind /\ NoReplay
  BY DEF Passed, Handled, NotBehind, NoReplay, Here
<1>. QED BY <1>1, <1>2, <1>3 DEF IInv

-----------------------------------------------------------------------------
(* Every step assigns every variable a value of its type. *)
LEMMA NextTypeOK == TypeOK /\ BytesIntact /\ Leftover /\ [Next]_vars => TypeOK'
<1> SUFFICES ASSUME TypeOK, BytesIntact, Leftover, [Next]_vars PROVE TypeOK'
  OBVIOUS
<1> USE Sizes DEF TypeOK, bufferVars
<1>1. ASSUME NEW n \in 1..capacity, ProcessRecv(n) PROVE TypeOK'
  <2>1. writePos' \in 0..capacity /\ received' \in 0..MaxBytes
    BY <1>1 DEF ProcessRecv, FreeSize
  <2>2. buffer' \in [0..(capacity - 1) -> Nat]
    BY <1>1 DEF ProcessRecv
  <2>. QED BY <1>1, <2>1, <2>2 DEF ProcessRecv
<1>2. CASE ProcessRecvZero \/ Close
  BY <1>2 DEF ProcessRecvZero, Close
<1>3. CASE HandlePacket \/ SkipDuplicate
  <2>0. pc = "parse" /\ HasPacket /\ HasSize
    BY <1>3 DEF HandlePacket, SkipDuplicate, HasPacket
  <2>1. Offs \in Nat
    BY <2>0, AtPacket DEF Offset
  <2> HIDE DEF TypeOK
  <2>c. /\ passed' = Append(passed, Offs) /\ processLen' = processLen + Packet.size
        /\ handled' = handled \/ handled' = Append(handled, Offs)
        /\ connected' \in {connected, FALSE} /\ rejected' \in {rejected, TRUE}
    BY <1>3 DEF HandlePacket, SkipDuplicate, Pass, OnRecvPacket
  <2>d. passed \in Seq(Nat) /\ handled \in Seq(Nat) /\ connected \in BOOLEAN /\ rejected \in BOOLEAN
    BY DEF TypeOK
  <2>2. passed' \in Seq(Nat)
    BY <2>1, <2>c, <2>d
  <2>a. processLen + Packet.size \in 0..capacity
    <3>1. processLen + Packet.size <= writePos - readPos /\ Packet.size \in Nat
      BY <2>0, AtPacket DEF DataSize
    <3>2. /\ processLen \in Nat /\ writePos \in Nat /\ writePos <= capacity /\ readPos \in Nat
      BY DEF TypeOK
    <3>. QED BY <3>1, <3>2
  <2>b. handled' \in Seq(Nat)
    <3>1. Append(handled, Offs) \in Seq(Nat)
      BY <2>1, <2>d
    <3>. QED BY <2>c, <2>d, <3>1
  <2>3. processLen' \in 0..capacity /\ connected' \in BOOLEAN /\ rejected' \in BOOLEAN
    BY <2>c, <2>d, <2>a
  <2>4. recvSeq' \in 0..MaxSeq
    BY <1>3, <2>0, AtPacket DEF HandlePacket, SkipDuplicate, TypeOK
  <2>e. UNCHANGED <<frame, received, buffer, readPos, writePos, consumed, posted, pc>>
    BY <1>3 DEF HandlePacket, SkipDuplicate
  <2>. QED BY <2>2, <2>b, <2>3, <2>4, <2>e DEF TypeOK
<1>4. CASE Invalid
  BY <1>4 DEF Invalid
<1>5. CASE OnRead
  BY <1>5 DEF OnRead, BytesIntact, Leftover, DataSize
<1>6. CASE RegisterRecv
  <2>1. DataSize \in 0..capacity
    BY DEF BytesIntact, DataSize
  <2>2. /\ readPos' \in 0..capacity /\ writePos' \in 0..capacity
        /\ buffer' \in [0..(capacity - 1) -> Nat]
    <3>0. ASSUME NEW i \in 0..(capacity - 1), i < DataSize PROVE readPos + i \in 0..(capacity - 1)
      BY <3>0 DEF DataSize
    <3>1. CASE MoveToFront
      <4>1. /\ buffer' = [i \in 0..(capacity - 1) |->
                 IF i < DataSize THEN buffer[readPos + i] ELSE buffer[i]]
            /\ readPos' = 0 /\ writePos' = DataSize
        BY <3>1 DEF MoveToFront
      <4>2. \A i \in 0..(capacity - 1) : buffer[i] \in Nat
        OBVIOUS
      <4>3. buffer' \in [0..(capacity - 1) -> Nat]
        BY <3>0, <4>1, <4>2
      <4>4. readPos' \in 0..capacity /\ writePos' \in 0..capacity
        BY <2>1, <3>1 DEF MoveToFront
      <4>. QED BY <4>3, <4>4
    <3>2. CASE readPos' = 0 /\ writePos' = 0 /\ UNCHANGED buffer
      BY <3>2
    <3>3. CASE UNCHANGED <<buffer, readPos, writePos>>
      BY <3>3
    <3>4. MoveToFront \/ (readPos' = 0 /\ writePos' = 0 /\ UNCHANGED buffer)
          \/ UNCHANGED <<buffer, readPos, writePos>>
      BY <1>6 DEF RegisterRecv, Clean
    <3>. QED BY <3>1, <3>2, <3>3, <3>4
  <2>3. /\ posted' \in 0..capacity /\ processLen' \in 0..capacity
        /\ pc' \in {"recv", "parse", "clean", "closed"}
    <3> HIDE DEF TypeOK
    <3>1. writePos' \in Nat /\ writePos' <= capacity
      BY <2>2
    <3>2. posted' = capacity - writePos' \/ posted' = 0
      BY <1>6 DEF RegisterRecv
    <3>3. processLen' = 0 /\ pc' \in {"recv", "closed"}
      BY <1>6 DEF RegisterRecv
    <3>. QED BY <3>1, <3>2, <3>3
  <2>. QED BY <1>6, <2>2, <2>3 DEF RegisterRecv
<1>7. CASE UNCHANGED vars
  BY <1>7 DEF vars
<1>. QED BY <1>1, <1>2, <1>3, <1>4, <1>5, <1>6, <1>7 DEF Next

(* OnWrite appends what arrives, OnRead takes away what OnRecv is through  *)
(* with, and Clean moves the rest as it is.                                *)
LEMMA NextBytesIntact ==
  TypeOK /\ BytesIntact /\ Leftover /\ [Next]_vars => BytesIntact'
<1> SUFFICES ASSUME TypeOK, BytesIntact, Leftover, [Next]_vars PROVE BytesIntact'
  OBVIOUS
<1> USE Sizes DEF bufferVars
<1>0. /\ readPos \in Nat /\ writePos \in Nat /\ readPos <= writePos /\ writePos <= capacity
      /\ consumed \in Nat /\ received \in Nat /\ processLen \in Nat
      /\ consumed + (writePos - readPos) = received
      /\ \A i \in 0..(writePos - readPos - 1) : buffer[readPos + i] = consumed + i
  BY DEF TypeOK, BytesIntact, DataSize
<1>a. BytesIntact' <=> /\ readPos' <= writePos'
                       /\ consumed' + (writePos' - readPos') = received'
                       /\ \A i \in 0..(writePos' - readPos' - 1) : buffer'[readPos' + i] = consumed' + i
  BY DEF BytesIntact, DataSize
<1>1. ASSUME NEW n \in 1..capacity, ProcessRecv(n) PROVE BytesIntact'
  <2>1. /\ readPos' = readPos /\ consumed' = consumed /\ writePos' = writePos + n
        /\ received' = received + n /\ writePos + n <= capacity
        /\ buffer' = [i \in 0..(capacity - 1) |->
             IF i \in writePos..(writePos + n - 1) THEN received + (i - writePos) ELSE buffer[i]]
    BY <1>0, <1>1 DEF ProcessRecv, FreeSize
  <2>2. ASSUME NEW i \in 0..(writePos + n - readPos - 1)
        PROVE  buffer'[readPos + i] = consumed + i
    <3>1. readPos + i \in 0..(capacity - 1)
      BY <1>0, <2>1
    <3>2. CASE i \in 0..(writePos - readPos - 1)
      BY <1>0, <2>1, <3>1, <3>2
    <3>3. CASE i \notin 0..(writePos - readPos - 1)
      <4>1. readPos + i \in writePos..(writePos + n - 1)
        BY <1>0, <3>3
      <4>2. buffer'[readPos + i] = received + ((readPos + i) - writePos)
        BY <2>1, <3>1, <4>1
      <4>. QED BY <1>0, <4>2
    <3>. QED BY <3>2, <3>3
  <2>3. /\ writePos' - readPos' - 1 = writePos + n - readPos - 1 /\ readPos' <= writePos'
        /\ consumed' + (writePos' - readPos') = received'
    BY <1>0, <2>1
  <2>. QED BY <1>a, <2>1, <2>2, <2>3
<1>2. CASE OnRead
  <2>1. /\ readPos' = readPos + processLen /\ consumed' = consumed + processLen
        /\ UNCHANGED <<received, buffer, writePos>>
        /\ processLen <= writePos - readPos
    BY <1>2 DEF OnRead, Leftover, DataSize
  <2>2. ASSUME NEW i \in 0..(writePos - (readPos + processLen) - 1)
        PROVE  buffer[(readPos + processLen) + i] = (consumed + processLen) + i
    <3>1. processLen + i \in 0..(writePos - readPos - 1)
      BY <1>0, <2>1
    <3>2. buffer[readPos + (processLen + i)] = consumed + (processLen + i)
      BY <1>0, <3>1
    <3>. QED BY <1>0, <3>2
  <2>. QED BY <1>0, <1>a, <2>1, <2>2
<1>3. CASE RegisterRecv
  <2>1. UNCHANGED <<received, consumed>>
    BY <1>3 DEF RegisterRecv
  <2>2. CASE UNCHANGED <<buffer, readPos, writePos>>
    BY <1>0, <1>a, <2>1, <2>2
  <2>3. CASE DataSize = 0 /\ readPos' = 0 /\ writePos' = 0 /\ UNCHANGED buffer
    BY <1>0, <1>a, <2>1, <2>3 DEF DataSize
  <2>4. CASE MoveToFront
    <3>1. /\ readPos' = 0 /\ writePos' = writePos - readPos
          /\ \A i \in 0..(writePos - readPos - 1) : buffer'[i] = buffer[readPos + i]
      BY <1>0, <2>4 DEF MoveToFront, DataSize
    <3>. QED BY <1>0, <1>a, <2>1, <3>1
  <2>. QED BY <1>3, <2>2, <2>3, <2>4 DEF RegisterRecv, Clean
<1>4. CASE ProcessRecvZero \/ Close \/ HandlePacket \/ SkipDuplicate \/ Invalid
  BY <1>0, <1>a, <1>4 DEF ProcessRecvZero, Close, HandlePacket, SkipDuplicate, Invalid
<1>5. CASE UNCHANGED vars
  BY <1>0, <1>a, <1>5 DEF vars
<1>. QED BY <1>1, <1>2, <1>3, <1>4, <1>5 DEF Next

(* Less than a packet is left when OnRecv returns, so Clean makes room. *)
LEMMA NextLeftover == TypeOK /\ BytesIntact /\ Leftover /\ [Next]_vars => Leftover'
<1> SUFFICES ASSUME TypeOK, BytesIntact, Leftover, [Next]_vars PROVE Leftover'
  OBVIOUS
<1> USE Sizes DEF Leftover, DataSize, FreeSize, bufferVars
<1>0. /\ readPos \in Nat /\ writePos \in Nat /\ readPos <= writePos /\ writePos <= capacity
      /\ processLen \in Nat
  BY DEF TypeOK, BytesIntact
<1>1. ASSUME NEW n \in 1..capacity, ProcessRecv(n) PROVE Leftover'
  BY <1>0, <1>1 DEF ProcessRecv
<1>2. CASE ProcessRecvZero \/ Close \/ Invalid
  BY <1>2 DEF ProcessRecvZero, Close, Invalid
<1>3. CASE HandlePacket \/ SkipDuplicate
  <2>1. pc = "parse" /\ HasPacket /\ HasSize
    BY <1>3 DEF HandlePacket, SkipDuplicate, HasPacket
  <2>2. processLen + Packet.size <= writePos - readPos
    BY <2>1, AtPacket
  <2>3. processLen' = processLen + Packet.size /\ UNCHANGED <<readPos, writePos, pc>>
    BY <1>3 DEF HandlePacket, SkipDuplicate, Pass
  <2>. QED BY <2>1, <2>2, <2>3
<1>4. CASE OnRead
  <2>1. /\ pc = "parse" /\ pc' = "clean" /\ readPos' = readPos + processLen /\ writePos' = writePos
        /\ HasSize => Packet.size > Rest
    BY <1>4 DEF OnRead
  <2>2. Rest < MaxSize
    <3>1. CASE HasSize
      BY <1>0, <2>1, <3>1, AtPacket DEF Rest
    <3>2. CASE ~HasSize
      BY <1>0, <3>2 DEF HasSize, Rest, SizeField
    <3>. QED BY <3>1, <3>2
  <2>. QED BY <1>0, <2>1, <2>2 DEF Rest
<1>5. CASE RegisterRecv
  <2>1. /\ pc = "clean" /\ pc' \in {"recv", "closed"} /\ (pc' = "recv" => posted' = capacity - writePos')
        /\ Clean /\ writePos - readPos < MaxSize
    BY <1>5 DEF RegisterRecv
  <2>2. capacity - writePos' >= bufferSize
    BY <1>0, <2>1 DEF Clean, MoveToFront
  <2>. QED BY <2>1, <2>2
<1>6. CASE UNCHANGED vars
  BY <1>6 DEF vars
<1>. QED BY <1>1, <1>2, <1>3, <1>4, <1>5, <1>6 DEF Next

-----------------------------------------------------------------------------
(* What passing over a packet does to the histories. *)
LEMMA PassedPacket ==
  ASSUME TypeOK, BytesIntact, Leftover, HandlePacket \/ SkipDuplicate
  PROVE  /\ pc = "parse" /\ UNCHANGED <<frame, pc, consumed>>
         /\ Offs = Here /\ Offs \in Offset /\ Packet = frame[Offs]
         /\ Packet.size \in Nat /\ Packet.size >= 2
         /\ passed' = Append(passed, Offs) /\ Here' = Offs + Packet.size
<1>1. pc = "parse" /\ HasPacket /\ HasSize
  BY DEF HandlePacket, SkipDuplicate, HasPacket
<1>2. Offs = consumed + processLen /\ Offs \in Offset /\ Packet.size \in 0..MaxSize /\ Packet.size >= 2
  BY <1>1, AtPacket
<1>3. /\ passed' = Append(passed, Offs) /\ processLen' = processLen + Packet.size
      /\ UNCHANGED <<frame, pc, consumed>>
  BY DEF HandlePacket, SkipDuplicate, Pass, bufferVars
<1>4. processLen \in Nat /\ consumed \in Nat /\ Packet.size \in Nat
  BY <1>2, Sizes DEF TypeOK
<1>. QED BY <1>1, <1>2, <1>3, <1>4 DEF Here, Packet

(* Other steps pass over nothing. *)
LEMMA PassedNothing ==
  ASSUME TypeOK, BytesIntact, Leftover, [Next]_vars, ~HandlePacket, ~SkipDuplicate
  PROVE  /\ UNCHANGED <<frame, passed, handled, recvSeq>>
         /\ pc' # "closed" => pc # "closed" /\ Here' = Here
<1> USE DEF Here, bufferVars
<1>0. consumed \in Nat /\ processLen \in Nat
  BY DEF TypeOK
<1>1. ASSUME NEW n \in 1..capacity, ProcessRecv(n)
      PROVE  /\ UNCHANGED <<frame, passed, handled, recvSeq>>
             /\ pc' # "closed" => pc # "closed" /\ Here' = Here
  BY <1>0, <1>1 DEF ProcessRecv
<1>2. CASE ProcessRecvZero \/ Close \/ Invalid
  BY <1>2 DEF ProcessRecvZero, Close, Invalid
<1>3. CASE OnRead
  BY <1>3 DEF OnRead
<1>4. CASE RegisterRecv
  BY <1>4 DEF RegisterRecv
<1>5. CASE UNCHANGED vars
  BY <1>5 DEF vars
<1>. QED BY <1>1, <1>2, <1>3, <1>4, <1>5 DEF Next

(* The next packet begins where the last one ends. *)
LEMMA NextPassed == TypeOK /\ BytesIntact /\ Leftover /\ Passed /\ [Next]_vars => Passed'
<1> SUFFICES ASSUME TypeOK, BytesIntact, Leftover, Passed, [Next]_vars PROVE Passed'
  OBVIOUS
<1>1. CASE HandlePacket \/ SkipDuplicate
  <2>0. passed \in Seq(Nat) /\ Len(passed) \in Nat
    BY DEF TypeOK
  <2> DEFINE n == Len(passed)
  <2>1. /\ UNCHANGED <<frame, pc>> /\ pc # "closed" /\ Offs = Here /\ Offs \in Offset /\ Offs \in Nat
        /\ passed' = Append(passed, Offs) /\ Here' = Offs + frame[Offs].size
    BY <1>1, PassedPacket DEF Offset
  <2>2. /\ Len(passed') = n + 1 /\ passed'[n + 1] = Offs
        /\ \A k \in 1..n : passed'[k] = passed[k]
        /\ passed' # <<>>
    BY <2>0, <2>1
  <2>3. \A k \in 1..(n + 1) : k \in 1..n \/ k = n + 1
    BY <2>0
  <2>4. \A k \in 1..(n + 1) : passed'[k] \in Offset
    BY <2>1, <2>2, <2>3 DEF Passed
  <2>5. passed'[1] = 0
    <3>1. CASE passed = <<>>
      BY <2>1, <2>2, <3>1 DEF Passed
    <3>2. CASE passed # <<>>
      <4>1. 1 \in 1..n
        BY <2>0, <3>2
      <4>. QED BY <2>2, <3>2, <4>1 DEF Passed
    <3>. QED BY <3>1, <3>2
  <2>6. ASSUME NEW k \in 1..n PROVE passed'[k + 1] = passed'[k] + frame[passed'[k]].size
    <3>1. CASE k = n
      <4>1. passed # <<>> /\ Here = passed[n] + frame[passed[n]].size
        BY <2>0, <2>1, <3>1 DEF Passed
      <4>. QED BY <2>1, <2>2, <3>1, <4>1
    <3>2. CASE k # n
      <4>1. k \in 1..(n - 1) /\ k + 1 \in 1..n
        BY <2>0, <3>2
      <4>2. passed[k + 1] = passed[k] + frame[passed[k]].size
        BY <4>1 DEF Passed
      <4>. QED BY <2>2, <4>1, <4>2
    <3>. QED BY <3>1, <3>2
  <2>7. Here' = passed'[Len(passed')] + frame[passed'[Len(passed')]].size
    BY <2>1, <2>2
  <2>8. (Len(passed')) - 1 = n
    BY <2>0, <2>2
  <2>. QED BY <2>1, <2>2, <2>4, <2>5, <2>6, <2>7, <2>8 DEF Passed
<1>2. CASE ~HandlePacket /\ ~SkipDuplicate
  <2>1. /\ UNCHANGED <<frame, passed>>
        /\ pc' # "closed" => pc # "closed" /\ Here' = Here
    BY <1>2, PassedNothing
  <2>. QED BY <2>1 DEF Passed
<1>. QED BY <1>1, <1>2

(* A packet that is handled begins after all that were handled before. *)
LEMMA NextHandled ==
  TypeOK /\ BytesIntact /\ Leftover /\ Passed /\ Handled /\ [Next]_vars => Handled'
<1> SUFFICES ASSUME TypeOK, BytesIntact, Leftover, Passed, Handled, [Next]_vars PROVE Handled'
  OBVIOUS
<1>1. CASE HandlePacket \/ SkipDuplicate
  <2>0. passed \in Seq(Nat) /\ Len(passed) \in Nat /\ handled \in Seq(Nat) /\ Len(handled) \in Nat
    BY DEF TypeOK
  <2> DEFINE n == Len(handled)
  <2>1. /\ UNCHANGED <<frame, pc>> /\ pc # "closed" /\ Offs = Here /\ Offs \in Offset /\ Offs \in Nat
        /\ Packet.size \in Nat /\ Packet.size >= 2
        /\ passed' = Append(passed, Offs) /\ Here' = Offs + Packet.size
    BY <1>1, PassedPacket DEF Offset
  <2>2. /\ Len(passed') = Len(passed) + 1 /\ passed'[Len(passed) + 1] = Offs
        /\ \A l \in 1..Len(passed) : passed'[l] = passed[l]
    BY <2>0, <2>1
  <2>3. \A l \in 1..Len(passed) : l \in 1..Len(passed')
    BY <2>0, <2>2
  <2>4. Here < Here' /\ Len(passed) + 1 \in 1..Len(passed')
    BY <2>0, <2>1, <2>2
  <2>5. ASSUME NEW k \in 1..n PROVE handled[k] \in Offset /\ handled[k] < Here /\ handled[k] < Here'
    <3>1. handled[k] \in Offset /\ handled[k] < Here
      BY <2>1 DEF Handled
    <3>. QED BY <2>1, <2>4, <3>1 DEF Offset
  <2>6. CASE handled' = handled
    <3>1. ASSUME NEW k \in 1..n PROVE \E l \in 1..Len(passed') : handled[k] = passed'[l]
      <4>1. PICK l \in 1..Len(passed) : handled[k] = passed[l]
        BY DEF Handled
      <4>. QED BY <2>2, <2>3, <4>1
    <3>. QED BY <2>5, <2>6, <3>1 DEF Handled
  <2>7. CASE handled' = Append(handled, Offs)
    <3>1. /\ Len(handled') = n + 1 /\ handled'[n + 1] = Offs
          /\ \A k \in 1..n : handled'[k] = handled[k]
      BY <2>0, <2>1, <2>7
    <3>2. \A k \in 1..(n + 1) : k \in 1..n \/ k = n + 1
      BY <2>0
    <3>3. ASSUME NEW k \in 1..(n + 1)
          PROVE  /\ handled'[k] \in Offset /\ handled'[k] < Here'
                 /\ \E l \in 1..Len(passed') : handled'[k] = passed'[l]
      <4>1. CASE k \in 1..n
        <5>1. PICK l \in 1..Len(passed) : handled[k] = passed[l]
          BY <4>1 DEF Handled
        <5>. QED BY <2>2, <2>3, <2>5, <3>1, <4>1, <5>1
      <4>2. CASE k = n + 1
        BY <2>1, <2>2, <2>4, <3>1, <4>2
      <4>. QED BY <3>2, <4>1, <4>2
    <3>4. ASSUME NEW k \in 1..(n + 1), NEW l \in 1..(n + 1), k < l PROVE handled'[k] < handled'[l]
      <4>1. CASE l \in 1..n
        <5>1. k \in 1..n
          BY <2>0, <3>4, <4>1
        <5>. QED BY <3>1, <3>4, <4>1, <5>1 DEF Handled
      <4>2. CASE l = n + 1
        <5>1. k \in 1..n
          BY <2>0, <3>4, <4>2
        <5>. QED BY <2>1, <2>5, <3>1, <4>2, <5>1
      <4>. QED BY <3>2, <4>1, <4>2
    <3>. QED BY <3>1, <3>3, <3>4 DEF Handled
  <2>. QED BY <1>1, <2>6, <2>7 DEF HandlePacket, SkipDuplicate, OnRecvPacket
<1>2. CASE ~HandlePacket /\ ~SkipDuplicate
  <2>1. /\ UNCHANGED <<passed, handled>>
        /\ pc' # "closed" => pc # "closed" /\ Here' = Here
    BY <1>2, PassedNothing
  <2>. QED BY <2>1 DEF Handled
<1>. QED BY <1>1, <1>2

(* A packet with a sequence number is handled only if the number is above  *)
(* _recvSeq, which becomes that number.                                    *)
LEMMA NextNoReplay ==
  /\ TypeOK /\ BytesIntact /\ Leftover /\ Handled /\ NotBehind /\ NoReplay /\ [Next]_vars
  => NotBehind' /\ NoReplay'
<1> SUFFICES ASSUME TypeOK, BytesIntact, Leftover, Handled, NotBehind, NoReplay, [Next]_vars
             PROVE  NotBehind' /\ NoReplay'
  OBVIOUS
<1>1. CASE handled' = handled /\ recvSeq' = recvSeq /\ frame' = frame
  BY <1>1 DEF NotBehind, NoReplay
<1>2. CASE HandlePacket
  <2>0. handled \in Seq(Nat) /\ Len(handled) \in Nat /\ recvSeq \in Nat
    BY SizeAssumption DEF TypeOK
  <2> DEFINE n == Len(handled)
             seq(k) == frame[handled[k]].seq
  <2>1. /\ frame' = frame /\ Offs \in Offset /\ Packet = frame[Offs]
    BY <1>2, PassedPacket
  <2>2. /\ Packet.seq # NoSeq => Packet.seq > recvSeq
        /\ recvSeq' = IF Packet.seq = NoSeq THEN recvSeq ELSE Packet.seq
        /\ handled' = handled \/ handled' = Append(handled, Offs)
    BY <1>2 DEF HandlePacket, OnRecvPacket, Fresh
  <2>3. Packet.seq # NoSeq => Packet.seq \in Nat
    BY <2>1, FrameSize, SizeAssumption
  <2>4. recvSeq <= recvSeq' /\ recvSeq' \in Nat
    BY <2>0, <2>2, <2>3
  <2>5. ASSUME NEW k \in 1..n, seq(k) # NoSeq
        PROVE  seq(k) \in Nat /\ seq(k) <= recvSeq
    <3>1. handled[k] \in Offset
      BY DEF Handled
    <3>2. seq(k) \in Nat
      BY <2>5, <3>1, FrameSize, SizeAssumption
    <3>. QED BY <2>5, <3>2 DEF NotBehind
  <2>6. CASE handled' = handled
    <3>1. \A k \in 1..n : seq(k) # NoSeq => seq(k) <= recvSeq'
      BY <2>0, <2>4, <2>5
    <3>. QED BY <2>1, <2>6, <3>1 DEF NotBehind, NoReplay
  <2>7. CASE handled' = Append(handled, Offs)
    <3>1. /\ Len(handled') = n + 1 /\ handled'[n + 1] = Offs
          /\ \A k \in 1..n : handled'[k] = handled[k]
      BY <2>0, <2>1, <2>7 DEF Offset
    <3>2. \A k \in 1..(n + 1) : k \in 1..n \/ k = n + 1
      BY <2>0
    <3>3. ASSUME NEW k \in 1..(n + 1), frame[handled'[k]].seq # NoSeq
          PROVE  frame[handled'[k]].seq <= recvSeq'
      <4>1. CASE k \in 1..n
        <5>1. handled'[k] = handled[k]
          BY <3>1, <4>1
        <5>2. seq(k) # NoSeq
          BY <3>3, <5>1
        <5>3. seq(k) \in Nat /\ seq(k) <= recvSeq
          BY <2>5, <4>1, <5>2
        <5>. QED BY <2>0, <2>4, <5>1, <5>3
      <4>2. CASE k = n + 1
        BY <2>1, <2>2, <2>3, <3>1, <3>3, <4>2
      <4>. QED BY <3>2, <4>1, <4>2
    <3>4. ASSUME NEW k \in 1..(n + 1), NEW l \in 1..(n + 1), k < l,
                 frame[handled'[k]].seq # NoSeq, frame[handled'[l]].seq # NoSeq
          PROVE  frame[handled'[k]].seq < frame[handled'[l]].seq
      <4>0. k \in 1..n
        BY <2>0, <3>2, <3>4
      <4>1. CASE l \in 1..n
        BY <3>1, <3>4, <4>0, <4>1 DEF NoReplay
      <4>2. CASE l = n + 1
        <5>1. handled'[k] = handled[k] /\ seq(k) # NoSeq
          BY <3>1, <3>4, <4>0
        <5>2. seq(k) \in Nat /\ seq(k) <= recvSeq
          BY <2>5, <4>0, <5>1
        <5>3. frame[handled'[l]].seq = Packet.seq /\ Packet.seq > recvSeq /\ Packet.seq \in Nat
          BY <2>1, <2>2, <2>3, <3>1, <3>4, <4>2
        <5>. QED BY <2>0, <5>1, <5>2, <5>3
      <4>. QED BY <3>2, <4>1, <4>2
    <3>. QED BY <2>1, <3>1, <3>3, <3>4 DEF NotBehind, NoReplay
  <2>. QED BY <2>2, <2>6, <2>7
<1>3. CASE SkipDuplicate
  BY <1>1, <1>3 DEF SkipDuplicate
<1>4. CASE ~HandlePacket /\ ~SkipDuplicate
  BY <1>1, <1>4, PassedNothing
<1>. QED BY <1>2, <1>3, <1>4

-----------------------------------------------------------------------------
(* IInv is inductive. *)
LEMMA NextInv == IInv /\ [Next]_vars => IInv'
BY NextTypeOK, NextBytesIntact, NextLeftover, NextPassed, NextHandled, NextNoReplay DEF IInv

(* Every behaviour of the receive path satisfies the inductive invariant. *)
LEMMA Invariance == Spec => []IInv
BY InitInv, NextInv, PTL DEF Spec

(* The variables of every reachable state have their types. *)
THEOREM TypeCorrect == Spec => []TypeOK
<1>1. IInv => TypeOK
  BY DEF IInv
<1>. QED BY <1>1, Invariance, PTL

(* The unread part of the buffer is the unconsumed part of the stream. *)
THEOREM NoByteLost == Spec => []BytesIntact
<1>1. IInv => BytesIntact
  BY DEF IInv
<1>. QED BY <1>1, Invariance, PTL

(***************************************************************************)
(* For every BUFFER_SIZE that holds a packet and every BUFFER_COUNT of at  *)
(* least 3, a WSARecv is posted with room for BUFFER_SIZE bytes, and Clean *)
(* never copies onto its own source.                                       *)
(***************************************************************************)
THEOREM AlwaysRoom == Spec => []RoomToReceive
<1>1. ASSUME IInv PROVE RoomToReceive
  <2>1. /\ readPos \in Nat /\ writePos \in Nat /\ readPos <= writePos /\ writePos <= capacity
    BY <1>1, Sizes DEF IInv, TypeOK, BytesIntact
  <2>. QED BY <1>1, <2>1, Sizes DEF IInv, Leftover, RoomToReceive, DataSize, FreeSize
<1>. QED BY <1>1, Invariance, PTL

(* Wherever the stream is split, OnRecv recognises the peer's packets. *)
THEOREM FramesRecognised == Spec => []Framing
<1>1. ASSUME IInv PROVE Framing
  BY <1>1 DEF IInv, Passed, Handled, Framing, Here
<1>. QED BY <1>1, Invariance, PTL

(* No packet with a sequence number is handled twice or out of order. *)
THEOREM NeverReplayed == Spec => []NoReplay
<1>1. IInv => NoReplay
  BY DEF IInv
<1>. QED BY <1>1, Invariance, PTL

=============================================================================
