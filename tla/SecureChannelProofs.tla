------------------------ MODULE SecureChannelProofs ------------------------
(***************************************************************************)
(* Proofs about SecureChannel for any numbers of Sends and of noise: while *)
(* no two uses of an end's cipher overlap, packets arrive intact; and if   *)
(* packets are numbered only by the thread that sends them, as here, each  *)
(* is handled once and in order and nobody is cut off.                     *)
(***************************************************************************)
EXTENDS SecureChannel, SequenceTheorems, TLAPS

Sender(s) == <<s, "send">>
Recvr(s) == <<s, "recv">>

(* Two threads of an end in the cipher at the same time have overlapped. *)
Exclusive ==
  \A t, u \in Thread :
    t # u /\ SideOf(t) = SideOf(u) /\ InCipher(t) /\ InCipher(u) => overlapped[SideOf(t)]

(* A thread that has restored the IV finds it when it uses it. *)
BackupIV ==
  \A t \in Thread :
    pc[t] \in {"encrypting", "decrypt"} /\ ~overlapped[SideOf(t)] => iv[SideOf(t)] = "backup"

(* No packet in hand while idle; only the receiver decrypts. *)
Locals ==
  \A t \in Thread :
    /\ pc[t] = "idle" => packet[t] = NoPacket
    /\ pc[t] \in {"decrypt?", "decrypt", "decrypting", "check"} => t \in Receiver

IInv == TypeOK /\ Exclusive /\ BackupIV /\ Locals /\ NoiseOnlyFromOverlap

(***************************************************************************)
(* What the numbers of a direction are: n is the last that was handled, r  *)
(* that of the packet being received, w the wire, x that of the packet     *)
(* being sent (0 without one), m the last that was given.                  *)
(***************************************************************************)
First(n, r) == IF r > 0 THEN n + 1 ELSE n
Last(x, m) == IF x > 0 THEN m - 1 ELSE m

Flow(n, r, w, x, m) ==
  /\ r > 0 => r = n + 1
  /\ x > 0 => x = m
  /\ First(n, r) <= Last(x, m)
  /\ \A i \in 1..Len(w) : w[i].seq > 0 => First(n, r) < w[i].seq /\ w[i].seq <= Last(x, m)
  /\ \A k \in (First(n, r) + 1)..Last(x, m) : \E i \in 1..Len(w) : w[i].seq = k
  /\ \A i, k \in 1..Len(w) : i < k /\ w[k].seq > 0 => w[i].seq < w[k].seq

FlowFrom(s) ==
  Flow(recvSeq[Peer(s)], packet[Recvr(Peer(s))].seq, wire[s], packet[Sender(s)].seq, sendSeq[s])

(* What has been handled. *)
InOrder(s) ==
  /\ Len(skills[s]) = recvSeq[s]
  /\ \A i \in 1..recvSeq[s] : skills[s][i] = i

(* A receiver that answers does not number the answer. *)
Unsequenced == \A t \in Receiver : InSend(t) => packet[t].seq = 0

Numbered == open /\ Unsequenced /\ \A s \in Side : FlowFrom(s) /\ InOrder(s)

Ordered == Calm => Numbered

-----------------------------------------------------------------------------
(* The four threads, and the two sides. *)
LEMMA Ends ==
  /\ \A s \in Side :
       /\ Sender(s) \in Thread /\ Recvr(s) \in Thread
       /\ SideOf(Sender(s)) = s /\ SideOf(Recvr(s)) = s
       /\ Peer(s) \in Side /\ Peer(s) # s /\ Peer(Peer(s)) = s
       /\ Recvr(s) \in Receiver
       /\ Sender(s) \notin Receiver
  /\ \A s, u \in Side : Sender(s) # Recvr(u)
  /\ \A t \in Thread : /\ SideOf(t) \in Side
                       /\ t = Sender(SideOf(t)) \/ t = Recvr(SideOf(t))
                       /\ t \in Receiver <=> t = Recvr(SideOf(t))
  /\ Receiver \subseteq Thread
BY DEF Side, Thread, SideOf, Peer, Sender, Recvr, Receiver

-----------------------------------------------------------------------------
(* Lemmas about Flow: what the steps of the two ends do to the numbers. *)
LEMMA FlowSend ==
  ASSUME NEW n \in Nat, NEW r \in Nat, NEW w \in Seq(Packet), NEW m \in Nat, Flow(n, r, w, 0, m)
  PROVE  Flow(n, r, w, m + 1, m + 1)
<1>1. Last(m + 1, m + 1) = m /\ Last(0, m) = m
  BY DEF Last
<1>. QED BY <1>1 DEF Flow

LEMMA Appended ==
  ASSUME NEW w \in Seq(Packet), NEW p \in Packet
  PROVE  /\ Append(w, p) \in Seq(Packet)
         /\ Len(w) \in Nat /\ Len(Append(w, p)) = Len(w) + 1
         /\ \A i \in 1..Len(w) : Append(w, p)[i] = w[i] /\ w[i].seq \in Nat
         /\ Append(w, p)[Len(w) + 1] = p
<1>1. \A i \in 1..Len(w) : w[i] \in Packet
  OBVIOUS
<1>2. \A i \in 1..Len(w) : w[i].seq \in Nat
  BY <1>1 DEF Packet
<1>. QED BY <1>2

LEMMA FlowPush ==
  ASSUME NEW n \in Nat, NEW r \in Nat, NEW w \in Seq(Packet), NEW x \in Nat, NEW m \in Nat,
         Flow(n, r, w, x, m), NEW p \in Packet, p.seq = x, x > 0
  PROVE  Flow(n, r, Append(w, p), 0, m)
<1>. DEFINE f == First(n, r)
            v == Append(w, p)
<1>1. f \in Nat /\ Last(x, m) = m - 1 /\ Last(0, m) = m /\ x = m
  BY DEF First, Last, Flow
<1>2. /\ Len(w) \in Nat /\ Len(v) = Len(w) + 1 /\ v[Len(w) + 1] = p
      /\ \A i \in 1..Len(w) : v[i] = w[i] /\ w[i].seq \in Nat
  BY Appended
<1>3. f <= m - 1
  BY <1>1 DEF Flow
<1>4. \A i \in 1..Len(w) : w[i].seq > 0 => f < w[i].seq /\ w[i].seq <= m - 1
  BY <1>1 DEF Flow
<1>5. \A k \in (f + 1)..(m - 1) : \E i \in 1..Len(w) : w[i].seq = k
  BY <1>1 DEF Flow
<1>6. \A i, k \in 1..Len(w) : i < k /\ w[k].seq > 0 => w[i].seq < w[k].seq
  BY DEF Flow
<1>. HIDE DEF f, v
<1>7. \A i \in 1..Len(v) : v[i].seq > 0 => f < v[i].seq /\ v[i].seq <= m
  <2>. TAKE i \in 1..Len(v)
  <2>1. CASE i \in 1..Len(w)
    BY <2>1, <1>1, <1>2, <1>4
  <2>2. CASE i = Len(w) + 1
    BY <2>2, <1>1, <1>2, <1>3
  <2>. QED BY <2>1, <2>2, <1>2
<1>8. \A k \in (f + 1)..m : \E i \in 1..Len(v) : v[i].seq = k
  <2>. TAKE k \in (f + 1)..m
  <2>1. CASE k = m
    BY <2>1, <1>1, <1>2
  <2>2. CASE k # m
    <3>1. PICK i \in 1..Len(w) : w[i].seq = k
      BY <2>2, <1>1, <1>5
    <3>. QED BY <3>1, <1>2
  <2>. QED BY <2>1, <2>2
<1>9. \A i, k \in 1..Len(v) : i < k /\ v[k].seq > 0 => v[i].seq < v[k].seq
  <2>. SUFFICES ASSUME NEW i \in 1..Len(v), NEW k \in 1..Len(v), i < k, v[k].seq > 0
       PROVE  v[i].seq < v[k].seq
    OBVIOUS
  <2>0. i \in 1..Len(w)
    BY <1>2
  <2>1. CASE k \in 1..Len(w)
    BY <2>0, <2>1, <1>2, <1>6
  <2>2. CASE k = Len(w) + 1
    <3>1. v[k].seq = m /\ v[i].seq = w[i].seq /\ w[i].seq \in Nat
      BY <2>0, <2>2, <1>1, <1>2
    <3>2. w[i].seq > 0 => w[i].seq <= m - 1
      BY <2>0, <1>4
    <3>. QED BY <3>1, <3>2, <1>1
  <2>. QED BY <2>1, <2>2, <1>2
<1>10. 0 <= m /\ f <= m /\ (r > 0 => r = n + 1)
  BY <1>1, <1>3 DEF Flow
<1>11. Flow(n, r, v, 0, m)
  <2>. DEFINE l == Last(0, m)
  <2>1. l = m
    BY <1>1
  <2>. HIDE DEF l
  <2>2. f <= l /\ \A i \in 1..Len(v) : v[i].seq > 0 => f < v[i].seq /\ v[i].seq <= l
    BY <2>1, <1>10, <1>7
  <2>3. \A k \in (f + 1)..l : \E i \in 1..Len(v) : v[i].seq = k
    BY <2>1, <1>8
  <2>. QED BY <2>2, <2>3, <1>10, <1>9 DEF Flow, f, l
<1>. QED BY <1>11 DEF v

LEMMA FlowAnswer ==
  ASSUME NEW n \in Nat, NEW r \in Nat, NEW w \in Seq(Packet), NEW x \in Nat, NEW m \in Nat,
         Flow(n, r, w, x, m), NEW p \in Packet, p.seq = 0
  PROVE  Flow(n, r, Append(w, p), x, m)
<1>. DEFINE f == First(n, r)
            l == Last(x, m)
            v == Append(w, p)
<1>2. /\ Len(w) \in Nat /\ Len(v) = Len(w) + 1 /\ v[Len(w) + 1] = p
      /\ \A i \in 1..Len(w) : v[i] = w[i] /\ w[i].seq \in Nat
  BY Appended
<1>4. \A i \in 1..Len(w) : w[i].seq > 0 => f < w[i].seq /\ w[i].seq <= l
  BY DEF Flow
<1>5. \A k \in (f + 1)..l : \E i \in 1..Len(w) : w[i].seq = k
  BY DEF Flow
<1>6. \A i, k \in 1..Len(w) : i < k /\ w[k].seq > 0 => w[i].seq < w[k].seq
  BY DEF Flow
<1>. HIDE DEF f, l, v
<1>3. \A i \in 1..Len(v) : v[i].seq > 0 => i \in 1..Len(w) /\ v[i] = w[i]
  BY <1>2
<1>7. \A i \in 1..Len(v) : v[i].seq > 0 => f < v[i].seq /\ v[i].seq <= l
  BY <1>3, <1>4
<1>8. \A k \in (f + 1)..l : \E i \in 1..Len(v) : v[i].seq = k
  <2>. TAKE k \in (f + 1)..l
  <2>1. PICK i \in 1..Len(w) : w[i].seq = k
    BY <1>5
  <2>. QED BY <2>1, <1>2
<1>9. \A i, k \in 1..Len(v) : i < k /\ v[k].seq > 0 => v[i].seq < v[k].seq
  <2>. SUFFICES ASSUME NEW i \in 1..Len(v), NEW k \in 1..Len(v), i < k, v[k].seq > 0
       PROVE  v[i].seq < v[k].seq
    OBVIOUS
  <2>1. k \in 1..Len(w) /\ i \in 1..Len(w)
    BY <1>2, <1>3
  <2>. QED BY <2>1, <1>2, <1>6
<1>. QED BY <1>7, <1>8, <1>9 DEF Flow, f, l, v

LEMMA FlowReceive ==
  ASSUME NEW n \in Nat, NEW w \in Seq(Packet), NEW x \in Nat, NEW m \in Nat,
         Flow(n, 0, w, x, m), w # <<>>
  PROVE  Flow(n, Head(w).seq, Tail(w), x, m)
<1>. DEFINE l == Last(x, m)
            r == Head(w).seq
            v == Tail(w)
            f == First(n, r)
<1>c. \A i \in 1..Len(w) : w[i] \in Packet
  OBVIOUS
<1>d. \A i \in 1..Len(w) : w[i].seq \in Nat
  BY <1>c DEF Packet
<1>e. Len(w) \in Nat \ {0} /\ Head(w) = w[1]
  OBVIOUS
<1>1. First(n, 0) = n /\ l \in Int /\ r \in Nat /\ Head(w) = w[1]
  BY <1>d, <1>e DEF First, Last
<1>2. /\ Len(w) \in Nat \ {0} /\ Len(v) = Len(w) - 1
      /\ \A i \in 1..Len(v) : v[i] = w[i + 1] /\ i + 1 \in 1..Len(w)
      /\ \A i \in 1..Len(w) : w[i].seq \in Nat
  BY <1>d, <1>e
<1>3. n <= l
  BY <1>1 DEF Flow
<1>4. \A i \in 1..Len(w) : w[i].seq > 0 => n < w[i].seq /\ w[i].seq <= l
  BY <1>1 DEF Flow
<1>5. \A k \in (n + 1)..l : \E i \in 1..Len(w) : w[i].seq = k
  BY <1>1 DEF Flow
<1>6. \A i, k \in 1..Len(w) : i < k /\ w[k].seq > 0 => w[i].seq < w[k].seq
  BY DEF Flow
<1>0. f = IF r > 0 THEN n + 1 ELSE n
  BY DEF First
<1>f. x > 0 => x = m
  BY DEF Flow
<1>b. r = w[1].seq /\ 1 \in 1..Len(w)
  BY <1>1, <1>2
<1>. HIDE DEF f, l, v, r
<1>7. r > 0 => r = n + 1
  <2>. SUFFICES ASSUME r > 0, r # n + 1 PROVE FALSE
    OBVIOUS
  <2>1. n < r /\ r <= l
    BY <1>b, <1>4
  <2>2. n + 1 \in (n + 1)..l
    BY <2>1, <1>1
  <2>3. PICK i \in 1..Len(w) : w[i].seq = n + 1
    BY <2>2, <1>5
  <2>4. i # 1
    BY <2>3, <1>b
  <2>5. w[1].seq < w[i].seq
    BY <2>3, <2>4, <1>b, <1>2, <1>6
  <2>. QED BY <2>1, <2>3, <2>5, <1>1, <1>b
<1>8. f <= l
  BY <1>0, <1>7, <1>b, <1>3, <1>4
<1>9. \A i \in 1..Len(v) : v[i].seq > 0 => f < v[i].seq /\ v[i].seq <= l
  <2>. SUFFICES ASSUME NEW i \in 1..Len(v), v[i].seq > 0 PROVE f < v[i].seq /\ v[i].seq <= l
    OBVIOUS
  <2>1. v[i] = w[i + 1] /\ i + 1 \in 1..Len(w) /\ 1 < i + 1
    BY <1>2
  <2>2. n < v[i].seq /\ v[i].seq <= l
    BY <2>1, <1>4
  <2>3. r < v[i].seq
    BY <2>1, <1>b, <1>6
  <2>. QED BY <2>2, <2>3, <1>0, <1>7
<1>10. \A k \in (f + 1)..l : \E i \in 1..Len(v) : v[i].seq = k
  <2>. TAKE k \in (f + 1)..l
  <2>1. k \in (n + 1)..l /\ (r > 0 => k # r)
    BY <1>0, <1>1, <1>7
  <2>2. PICK i \in 1..Len(w) : w[i].seq = k
    BY <2>1, <1>5
  <2>3. i # 1
    BY <2>1, <2>2, <1>1, <1>b
  <2>4. i - 1 \in 1..Len(v) /\ v[i - 1] = w[i]
    BY <2>3, <1>2
  <2>. QED BY <2>2, <2>4
<1>11. \A i, k \in 1..Len(v) : i < k /\ v[k].seq > 0 => v[i].seq < v[k].seq
  <2>. SUFFICES ASSUME NEW i \in 1..Len(v), NEW k \in 1..Len(v), i < k, v[k].seq > 0
       PROVE  v[i].seq < v[k].seq
    OBVIOUS
  <2>1. /\ v[i] = w[i + 1] /\ i + 1 \in 1..Len(w)
        /\ v[k] = w[k + 1] /\ k + 1 \in 1..Len(w) /\ i + 1 < k + 1
    BY <1>2
  <2>. QED BY <2>1, <1>6
<1>12. Flow(n, r, v, x, m)
  BY <1>f, <1>7, <1>8, <1>9, <1>10, <1>11 DEF Flow, f, l
<1>. QED BY <1>12 DEF r, v

LEMMA FlowHandle ==
  ASSUME NEW n \in Nat, NEW r \in Nat, NEW w \in Seq(Packet), NEW x \in Nat, NEW m \in Nat,
         Flow(n, r, w, x, m), r > 0
  PROVE  Flow(r, 0, w, x, m) /\ r = n + 1
<1>1. First(n, r) = r /\ First(r, 0) = r /\ r = n + 1
  BY DEF First, Flow
<1>. QED BY <1>1 DEF Flow

-----------------------------------------------------------------------------
(* Types. *)
LEMMA InitIInv == Init => IInv
<1>. SUFFICES ASSUME Init PROVE IInv
  OBVIOUS
<1>1. TypeOK
  BY BoundAssumption DEF Init, TypeOK, NoPacket, Packet, Places
<1>2. Exclusive /\ BackupIV /\ Locals
  BY DEF Init, Exclusive, BackupIV, Locals, InCipher
<1>3. NoiseOnlyFromOverlap
  <2>1. \A t \in Thread : packet[t].intact
    BY DEF Init, NoPacket
  <2>2. \A s \in Side : \A i \in 1..Len(wire[s]) : wire[s][i].intact
    BY DEF Init
  <2>. QED BY <2>1, <2>2 DEF NoiseOnlyFromOverlap
<1>. QED BY <1>1, <1>2, <1>3 DEF IInv

LEMMA HeaderTypes ==
  ASSUME TypeOK, NEW t \in Thread, NEW sequenced \in BOOLEAN, Header(t, sequenced)
  PROVE  /\ packet' \in [Thread -> Packet]
         /\ sendSeq' \in [Side -> Nat] /\ cached' \in [Side -> BOOLEAN]
         /\ \E p \in Packet : p.intact /\ packet' = [packet EXCEPT ![t] = p]
<1>0. SideOf(t) \in Side
  BY Ends
<1>1. /\ packet \in [Thread -> Packet] /\ sendSeq \in [Side -> Nat]
      /\ cached \in [Side -> BOOLEAN] /\ sendSeq[SideOf(t)] \in Nat
  BY <1>0 DEF TypeOK
<1>2. CASE sequenced
  <2>. DEFINE p == [seq |-> sendSeq[SideOf(t)] + 1, intact |-> TRUE]
  <2>1. p \in Packet /\ p.intact
    BY <1>1 DEF Packet
  <2>2. packet' = [packet EXCEPT ![t] = p]
    BY <1>2 DEF Header
  <2>. HIDE DEF p
  <2>3. sendSeq' \in [Side -> Nat] /\ cached' \in [Side -> BOOLEAN]
    <3>1. /\ sendSeq' = [sendSeq EXCEPT ![SideOf(t)] = @ + 1]
          /\ cached' = [cached EXCEPT ![SideOf(t)] = TRUE]
      BY <1>2 DEF Header
    <3>. QED BY <1>0, <1>1, <3>1
  <2>. QED BY <1>1, <2>1, <2>2, <2>3
<1>3. CASE ~sequenced
  <2>1. NoPacket \in Packet /\ NoPacket.intact
    BY DEF Packet, NoPacket
  <2>. QED BY <1>1, <1>3, <2>1 DEF Header
<1>. QED BY <1>2, <1>3

(***************************************************************************)
(* What any step does to the threads' places and to the cipher: one thread *)
(* moves; it enters the cipher and restores the IV, or restores it again,  *)
(* or leaves its own block there, or leaves the cipher alone.              *)
(***************************************************************************)
Enters(t) == Enter(t) /\ RestoreIV(t)

Restores(t) == pc[t] = "encrypt" /\ RestoreIV(t) /\ UNCHANGED overlapped

Leaves(t, q) ==
  InCipher(t) /\ q \notin {"encrypting", "decrypt"} /\ LeaveChain(t) /\ UNCHANGED overlapped

Stays(t, q) ==
  /\ q \in {"encrypt", "encrypting", "encrypted", "decrypt", "decrypting"} => InCipher(t)
  /\ q \notin {"encrypting", "decrypt"}
  /\ UNCHANGED <<iv, overlapped>>

Moves(t, q, p) ==
  /\ pc' = [pc EXCEPT ![t] = q] /\ packet' = [packet EXCEPT ![t] = p]
  /\ q = "idle" => p = NoPacket
  /\ q \in {"decrypt?", "decrypt", "decrypting", "check"} => t \in Receiver
  /\ Enters(t) \/ Restores(t) \/ Leaves(t, q) \/ Stays(t, q)

(* What the packet in hand can become, and what becomes of the wires. *)
Becomes(t, p) ==
  \/ p = packet[t]
  \/ p.intact
  \/ /\ pc[t] \in {"encrypting", "decrypt"}
     /\ packet[t].intact /\ iv[SideOf(t)] = "backup" => p.intact
  \/ wire[Peer(SideOf(t))] # <<>> /\ p = Head(wire[Peer(SideOf(t))])

Wires(t) ==
  \/ UNCHANGED wire
  \/ wire' = [wire EXCEPT ![SideOf(t)] = Append(@, packet[t])]
  \/ wire[Peer(SideOf(t))] # <<>> /\ wire' = [wire EXCEPT ![Peer(SideOf(t))] = Tail(@)]

Step(t, q, p) == Moves(t, q, p) /\ Becomes(t, p) /\ Wires(t)

(* Each action is such a step, and keeps the types. *)
LEMMA NoPacketIs == NoPacket \in Packet /\ NoPacket.intact /\ NoPacket.seq = 0
BY DEF NoPacket, Packet

LEMMA HeldTypes ==
  ASSUME TypeOK, NEW t \in Thread
  PROVE  /\ SideOf(t) \in Side /\ Peer(SideOf(t)) \in Side
         /\ pc[t] \in Places /\ packet[t] \in Packet
         /\ packet[t].seq \in Nat /\ packet[t].intact \in BOOLEAN
         /\ wire[SideOf(t)] \in Seq(Packet) /\ wire[Peer(SideOf(t))] \in Seq(Packet)
<1>1. SideOf(t) \in Side /\ Peer(SideOf(t)) \in Side
  BY Ends
<1>2. pc[t] \in Places /\ packet[t] \in Packet
  BY DEF TypeOK
<1>3. packet[t].seq \in Nat /\ packet[t].intact \in BOOLEAN
  BY <1>2 DEF Packet
<1>. QED BY <1>1, <1>2, <1>3 DEF TypeOK


LEMMA SendStep ==
  ASSUME TypeOK, Locals, NEW t \in Thread, NEW sequenced \in BOOLEAN, Send(t, sequenced)
  PROVE  TypeOK' /\ \E q \in Places, p \in Packet : Step(t, q, p)
<1>1. Header(t, sequenced)
  BY DEF Send
<1>2. PICK p \in Packet : p.intact /\ packet' = [packet EXCEPT ![t] = p]
  BY <1>1, HeaderTypes
<1>3. TypeOK'
  BY <1>1, HeaderTypes DEF Send, TypeOK, Goto, Places
<1>4. Moves(t, "encrypt?", p)
  BY <1>2 DEF Send, Moves, Goto, Stays
<1>5. Becomes(t, p) /\ Wires(t)
  BY <1>2 DEF Send, Becomes, Wires
<1>. QED BY <1>2, <1>3, <1>4, <1>5 DEF Step, Places

LEMMA EncryptSizeStep ==
  ASSUME TypeOK, Locals, NEW t \in Thread, EncryptSize(t)
  PROVE  TypeOK' /\ \E q \in Places, p \in Packet : Step(t, q, p)
<1>1. packet[t] \in Packet
  BY HeldTypes
<1>2. TypeOK'
  BY HeldTypes DEF EncryptSize, TypeOK, Goto, Places, Enter, RestoreIV
<1>3. Moves(t, "encrypt", packet[t])
  BY HeldTypes DEF EncryptSize, Moves, Goto, Enters, Enter, RestoreIV, TypeOK
<1>4. Becomes(t, packet[t]) /\ Wires(t)
  BY NoPacketIs DEF EncryptSize, Becomes, Wires
<1>. QED BY <1>1, <1>2, <1>3, <1>4 DEF Step, Places

LEMMA EncryptRestoreStep ==
  ASSUME TypeOK, Locals, NEW t \in Thread, EncryptRestore(t)
  PROVE  TypeOK' /\ \E q \in Places, p \in Packet : Step(t, q, p)
<1>1. packet[t] \in Packet
  BY HeldTypes
<1>2. TypeOK'
  BY HeldTypes DEF EncryptRestore, TypeOK, Goto, Places, RestoreIV
<1>3. Moves(t, "encrypting", packet[t])
  BY HeldTypes DEF EncryptRestore, Moves, Goto, Restores, RestoreIV, TypeOK
<1>4. Becomes(t, packet[t]) /\ Wires(t)
  BY NoPacketIs DEF EncryptRestore, Becomes, Wires
<1>. QED BY <1>1, <1>2, <1>3, <1>4 DEF Step, Places

LEMMA EncryptEndStep ==
  ASSUME TypeOK, Locals, NEW t \in Thread, EncryptEnd(t)
  PROVE  TypeOK' /\ \E q \in Places, p \in Packet : Step(t, q, p)
<1>1. packet[t] \in Packet
  BY HeldTypes
<1>2. TypeOK'
  BY HeldTypes DEF EncryptEnd, TypeOK, Goto, Places, LeaveChain
<1>3. Moves(t, "push", packet[t])
  BY HeldTypes DEF EncryptEnd, Moves, Goto, Leaves, LeaveChain, InCipher, TypeOK
<1>4. Becomes(t, packet[t]) /\ Wires(t)
  BY NoPacketIs DEF EncryptEnd, Becomes, Wires
<1>. QED BY <1>1, <1>2, <1>3, <1>4 DEF Step, Places

LEMMA PushStep ==
  ASSUME TypeOK, Locals, NEW t \in Thread, Push(t)
  PROVE  TypeOK' /\ \E q \in Places, p \in Packet : Step(t, q, p)
<1>1. NoPacket \in Packet
  BY NoPacketIs
<1>2. TypeOK'
  BY HeldTypes, NoPacketIs DEF Push, TypeOK, Goto, Places
<1>3. Moves(t, "idle", NoPacket)
  BY HeldTypes DEF Push, Moves, Goto, Stays, TypeOK
<1>4. Becomes(t, NoPacket) /\ Wires(t)
  BY NoPacketIs DEF Push, Becomes, Wires
<1>. QED BY <1>1, <1>2, <1>3, <1>4 DEF Step, Places

LEMMA DecryptRestoreStep ==
  ASSUME TypeOK, Locals, NEW t \in Thread, DecryptRestore(t)
  PROVE  TypeOK' /\ \E q \in Places, p \in Packet : Step(t, q, p)
<1>1. packet[t] \in Packet
  BY HeldTypes
<1>2. TypeOK'
  BY HeldTypes DEF DecryptRestore, TypeOK, Goto, Places, Enter, RestoreIV
<1>3. Moves(t, "decrypt", packet[t])
  BY HeldTypes DEF DecryptRestore, Moves, Goto, Enters, Enter, RestoreIV, TypeOK, Locals
<1>4. Becomes(t, packet[t]) /\ Wires(t)
  BY NoPacketIs DEF DecryptRestore, Becomes, Wires
<1>. QED BY <1>1, <1>2, <1>3, <1>4 DEF Step, Places

LEMMA DecryptEndStep ==
  ASSUME TypeOK, Locals, NEW t \in Thread, DecryptEnd(t)
  PROVE  TypeOK' /\ \E q \in Places, p \in Packet : Step(t, q, p)
<1>1. packet[t] \in Packet
  BY HeldTypes
<1>2. TypeOK'
  BY HeldTypes DEF DecryptEnd, TypeOK, Goto, Places, LeaveChain
<1>3. Moves(t, "check", packet[t])
  BY HeldTypes DEF DecryptEnd, Moves, Goto, Leaves, LeaveChain, InCipher, TypeOK, Locals
<1>4. Becomes(t, packet[t]) /\ Wires(t)
  BY NoPacketIs DEF DecryptEnd, Becomes, Wires
<1>. QED BY <1>1, <1>2, <1>3, <1>4 DEF Step, Places

LEMMA EncryptBeginStep ==
  ASSUME TypeOK, Locals, NEW t \in Thread, EncryptBegin(t)
  PROVE  TypeOK' /\ \E q \in Places, p \in Packet : Step(t, q, p)
<1>. DEFINE p == [packet[t] EXCEPT !.intact = @ /\ iv[SideOf(t)] = "backup"]
<1>1. /\ p \in Packet
      /\ packet[t].intact /\ iv[SideOf(t)] = "backup" => p.intact
  BY HeldTypes DEF Packet
<1>2. packet' = [packet EXCEPT ![t] = p]
  BY DEF EncryptBegin, UseIV
<1>. HIDE DEF p
<1>3. TypeOK'
  BY <1>1, <1>2 DEF EncryptBegin, TypeOK, Goto, Places
<1>4. Moves(t, "encrypted", p)
  BY <1>2 DEF EncryptBegin, Moves, Goto, Stays, InCipher, Locals
<1>5. Becomes(t, p) /\ Wires(t)
  BY <1>1 DEF EncryptBegin, Becomes, Wires
<1>. QED BY <1>1, <1>3, <1>4, <1>5 DEF Step, Places

LEMMA DecryptBeginStep ==
  ASSUME TypeOK, Locals, NEW t \in Thread, DecryptBegin(t)
  PROVE  TypeOK' /\ \E q \in Places, p \in Packet : Step(t, q, p)
<1>. DEFINE p == [packet[t] EXCEPT !.intact = @ /\ iv[SideOf(t)] = "backup"]
<1>1. /\ p \in Packet
      /\ packet[t].intact /\ iv[SideOf(t)] = "backup" => p.intact
  BY HeldTypes DEF Packet
<1>2. packet' = [packet EXCEPT ![t] = p]
  BY DEF DecryptBegin, UseIV
<1>. HIDE DEF p
<1>3. TypeOK'
  BY <1>1, <1>2 DEF DecryptBegin, TypeOK, Goto, Places
<1>4. Moves(t, "decrypting", p)
  BY <1>2 DEF DecryptBegin, Moves, Goto, Stays, InCipher, Locals
<1>5. Becomes(t, p) /\ Wires(t)
  BY <1>1 DEF DecryptBegin, Becomes, Wires
<1>. QED BY <1>1, <1>3, <1>4, <1>5 DEF Step, Places

LEMMA ReceiveStep ==
  ASSUME TypeOK, Locals, NEW t \in Receiver, Receive(t)
  PROVE  TypeOK' /\ \E q \in Places, p \in Packet : Step(t, q, p)
<1>. DEFINE p == Head(wire[Peer(SideOf(t))])
<1>0. t \in Thread
  BY Ends
<1>1. p \in Packet
  BY <1>0, HeldTypes DEF Receive
<1>2. Tail(wire[Peer(SideOf(t))]) \in Seq(Packet)
  BY <1>0, HeldTypes DEF Receive
<1>3. packet' = [packet EXCEPT ![t] = p]
  BY DEF Receive
<1>4. Becomes(t, p) /\ Wires(t)
  BY DEF Receive, Becomes, Wires
<1>. HIDE DEF p
<1>5. TypeOK'
  BY <1>0, <1>1, <1>2, <1>3, HeldTypes DEF Receive, TypeOK, Goto, Places
<1>6. Moves(t, "decrypt?", p)
  BY <1>0, <1>3 DEF Receive, Moves, Goto, Stays
<1>. QED BY <1>1, <1>4, <1>5, <1>6 DEF Step, Places

LEMMA SkipDuplicateStep ==
  ASSUME TypeOK, Locals, NEW t \in Thread, NEW h, SkipDuplicate(t, h)
  PROVE  TypeOK' /\ \E q \in Places, p \in Packet : Step(t, q, p)
<1>1. CASE cached[SideOf(t)]
  <2>1. Header(t, TRUE) /\ Goto(t, "encrypt?")
    BY <1>1 DEF SkipDuplicate
  <2>2. PICK p \in Packet : p.intact /\ packet' = [packet EXCEPT ![t] = p]
    BY <2>1, HeaderTypes
  <2>3. TypeOK'
    BY <2>1, HeaderTypes DEF SkipDuplicate, TypeOK, Goto, Places
  <2>4. Moves(t, "encrypt?", p)
    BY <2>1, <2>2 DEF SkipDuplicate, Moves, Goto, Stays
  <2>5. Becomes(t, p) /\ Wires(t)
    BY <2>2 DEF SkipDuplicate, Becomes, Wires
  <2>. QED BY <2>2, <2>3, <2>4, <2>5 DEF Step, Places
<1>2. CASE ~cached[SideOf(t)]
  <2>1. /\ packet' = [packet EXCEPT ![t] = NoPacket] /\ Goto(t, "idle")
        /\ UNCHANGED <<left, iv, sendSeq, cached, recvSeq, wire, open, skills, overlapped>>
    BY <1>2 DEF SkipDuplicate
  <2>2. TypeOK'
    BY <2>1, NoPacketIs DEF TypeOK, Goto, Places
  <2>3. Moves(t, "idle", NoPacket)
    BY <2>1 DEF Moves, Goto, Stays
  <2>4. Becomes(t, NoPacket) /\ Wires(t)
    BY <2>1, NoPacketIs DEF Becomes, Wires
  <2>. QED BY <2>2, <2>3, <2>4, NoPacketIs DEF Step, Places
<1>. QED BY <1>1, <1>2

LEMMA DecryptionFailsStep ==
  ASSUME TypeOK, Locals, NEW t \in Thread, DecryptionFails(t)
  PROVE  TypeOK' /\ \E q \in Places, p \in Packet : Step(t, q, p)
<1>1. NoPacket \in Packet
  BY NoPacketIs
<1>2. TypeOK'
  BY HeldTypes, NoPacketIs DEF DecryptionFails, TypeOK, Goto, Places
<1>3. Moves(t, "idle", NoPacket)
  BY HeldTypes DEF DecryptionFails, Moves, Goto, Stays, TypeOK
<1>4. Becomes(t, NoPacket) /\ Wires(t)
  BY NoPacketIs DEF DecryptionFails, Becomes, Wires
<1>. QED BY <1>1, <1>2, <1>3, <1>4 DEF Step, Places

LEMMA ReplayedStep ==
  ASSUME TypeOK, Locals, NEW t \in Thread, NEW h, Replayed(t, h)
  PROVE  TypeOK' /\ \E q \in Places, p \in Packet : Step(t, q, p)
<1>1. NoPacket \in Packet
  BY NoPacketIs
<1>2. TypeOK'
  BY HeldTypes, NoPacketIs DEF Replayed, TypeOK, Goto, Places
<1>3. Moves(t, "idle", NoPacket)
  BY HeldTypes DEF Replayed, Moves, Goto, Stays, TypeOK
<1>4. Becomes(t, NoPacket) /\ Wires(t)
  BY NoPacketIs DEF Replayed, Becomes, Wires
<1>. QED BY <1>1, <1>2, <1>3, <1>4 DEF Step, Places

LEMMA HandleStep ==
  ASSUME TypeOK, Locals, NEW t \in Thread, NEW h \in Headers(packet[t]), Handle(t, h)
  PROVE  TypeOK' /\ \E q \in Places, p \in Packet : Step(t, q, p)
<1>0. h.seq \in Nat /\ SideOf(t) \in Side
  <2>1. CASE packet[t].intact
    BY <2>1, HeldTypes DEF Headers
  <2>2. CASE ~packet[t].intact
    <3>1. CASE h \in [sequenced : {TRUE}, seq : 0..MaxNoise]
      BY <3>1, BoundAssumption, HeldTypes
    <3>2. CASE h = [sequenced |-> FALSE, seq |-> 0]
      BY <3>2, HeldTypes
    <3>. QED BY <2>2, <3>1, <3>2 DEF Headers
  <2>. QED BY <2>1, <2>2
<1>1. recvSeq' \in [Side -> Nat] /\ skills' \in [Side -> Seq(Nat)]
  BY <1>0 DEF Handle, TypeOK
<1>2. TypeOK'
  BY <1>1, NoPacketIs DEF Handle, TypeOK, Goto, Places
<1>3. Moves(t, "idle", NoPacket)
  BY DEF Handle, Moves, Goto, Stays
<1>4. Becomes(t, NoPacket) /\ Wires(t)
  BY NoPacketIs DEF Handle, Becomes, Wires
<1>. QED BY <1>2, <1>3, <1>4, NoPacketIs DEF Step, Places

(* What a thread does of its own, and what the completion makes it do. *)
Acts(t) == Sending(t) \/ (t \in Receiver /\ Receiving(t))

LEMMA NextActs == Next <=> \E t \in Thread : Acts(t)
BY Ends DEF Next, Acts

LEMMA ActsSteps ==
  ASSUME TypeOK, Locals, NEW t \in Thread, Acts(t)
  PROVE  TypeOK' /\ \E q \in Places, p \in Packet : Step(t, q, p)
<1>1. CASE Sending(t)
  BY <1>1, SendStep, EncryptSizeStep, EncryptRestoreStep, EncryptBeginStep, EncryptEndStep,
     PushStep DEF Sending
<1>2. CASE t \in Receiver /\ Receiving(t)
  <2>1. CASE \E h \in Headers(packet[t]) : SkipDuplicate(t, h) \/ Replayed(t, h) \/ Handle(t, h)
    BY <2>1, SkipDuplicateStep, ReplayedStep, HandleStep
  <2>. QED BY <1>2, <2>1, ReceiveStep, DecryptRestoreStep, DecryptBeginStep, DecryptEndStep,
              DecryptionFailsStep DEF Receiving
<1>. QED BY <1>1, <1>2 DEF Acts

LEMMA NextSteps ==
  ASSUME TypeOK, Locals, Next
  PROVE  TypeOK' /\ \E t \in Thread, q \in Places, p \in Packet : Step(t, q, p)
BY NextActs, ActsSteps

-----------------------------------------------------------------------------
(* The invariant IInv. *)
LEMMA StepGoes ==
  ASSUME TypeOK, NEW t \in Thread, NEW q \in Places, NEW p \in Packet, Step(t, q, p)
  PROVE  /\ pc'[t] = q /\ packet'[t] = p
         /\ \A u \in Thread \ {t} :
              pc'[u] = pc[u] /\ packet'[u] = packet[u] /\ (InCipher(u)' <=> InCipher(u))
         /\ \A s \in Side : overlapped[s] => overlapped'[s]
<1>1. pc' = [pc EXCEPT ![t] = q] /\ packet' = [packet EXCEPT ![t] = p]
  BY DEF Step, Moves
<1>2. pc \in [Thread -> Places] /\ packet \in [Thread -> Packet] /\ overlapped \in [Side -> BOOLEAN]
  BY DEF TypeOK
<1>3. Enter(t) \/ UNCHANGED overlapped
  BY DEF Step, Moves, Enters, Restores, Leaves, Stays
<1>4. \A s \in Side : overlapped[s] => overlapped'[s]
  <2>1. CASE UNCHANGED overlapped
    BY <2>1
  <2>2. CASE Enter(t)
    BY <1>2, <2>2 DEF Enter
  <2>. QED BY <1>3, <2>1, <2>2
<1>5. pc'[t] = q /\ packet'[t] = p
  BY <1>1, <1>2
<1>6. \A u \in Thread \ {t} : pc'[u] = pc[u] /\ packet'[u] = packet[u]
  BY <1>1, <1>2
<1>. QED BY <1>4, <1>5, <1>6 DEF InCipher

(* A thread that moves within the cipher was there before, or enters it. *)
LEMMA StepExclusive ==
  ASSUME TypeOK, Exclusive, NEW t \in Thread, NEW q \in Places, NEW p \in Packet, Step(t, q, p)
  PROVE  Exclusive'
<1>. SUFFICES ASSUME NEW a \in Thread, NEW b \in Thread, a # b, SideOf(a) = SideOf(b),
                     InCipher(a)', InCipher(b)'
     PROVE  overlapped'[SideOf(a)]
  BY DEF Exclusive, SideOf
<1>1. SideOf(a) \in Side /\ SideOf(t) \in Side /\ overlapped \in [Side -> BOOLEAN]
  BY Ends DEF TypeOK
<1>2. CASE Enter(t)
  <2>1. overlapped'[SideOf(t)] =
          (overlapped[SideOf(t)]
           \/ \E u \in Thread \ {t} : SideOf(u) = SideOf(t) /\ InCipher(u))
    BY <1>1, <1>2 DEF Enter
  <2>2. CASE a = t
    BY <2>1, <2>2, StepGoes
  <2>3. CASE b = t
    BY <2>1, <2>3, StepGoes
  <2>4. CASE a # t /\ b # t
    <3>1. overlapped[SideOf(a)]
      BY <2>4, StepGoes DEF Exclusive
    <3>. QED BY <3>1, <1>1, StepGoes
  <2>. QED BY <2>2, <2>3, <2>4
<1>3. CASE ~Enter(t)
  <2>1. InCipher(t)' => InCipher(t)
    BY <1>3, StepGoes DEF Step, Moves, Enters, Restores, Leaves, Stays, InCipher
  <2>2. InCipher(a) /\ InCipher(b)
    BY <2>1, StepGoes
  <2>3. overlapped[SideOf(a)]
    BY <2>2 DEF Exclusive
  <2>. QED BY <2>3, <1>1, StepGoes
<1>. QED BY <1>2, <1>3

(* Another thread can only spoil the IV from within the cipher. *)
LEMMA StepBackupIV ==
  ASSUME TypeOK, Exclusive, BackupIV,
         NEW t \in Thread, NEW q \in Places, NEW p \in Packet, Step(t, q, p)
  PROVE  BackupIV'
<1>. SUFFICES ASSUME NEW u \in Thread, pc'[u] \in {"encrypting", "decrypt"},
                     ~overlapped'[SideOf(u)]
     PROVE  iv'[SideOf(u)] = "backup"
  BY DEF BackupIV, SideOf
<1>1. /\ SideOf(u) \in Side /\ SideOf(t) \in Side /\ iv \in [Side -> {"backup", "other"}]
      /\ ~overlapped[SideOf(u)]
  BY Ends, StepGoes DEF TypeOK
<1>2. CASE RestoreIV(t)
  <2>1. u = t \/ SideOf(u) = SideOf(t) => iv'[SideOf(u)] = "backup"
    BY <1>1, <1>2 DEF RestoreIV
  <2>2. u # t /\ SideOf(u) # SideOf(t) => iv'[SideOf(u)] = iv[SideOf(u)]
    BY <1>1, <1>2 DEF RestoreIV
  <2>3. u # t => iv[SideOf(u)] = "backup"
    BY <1>1, StepGoes DEF BackupIV
  <2>. QED BY <2>1, <2>2, <2>3
<1>3. CASE Leaves(t, q)
  <2>1. u # t
    BY <1>3, StepGoes DEF Leaves
  <2>2. pc[u] \in {"encrypting", "decrypt"} /\ InCipher(u) /\ InCipher(t)
    BY <1>3, <2>1, StepGoes DEF Leaves, InCipher
  <2>3. SideOf(u) # SideOf(t)
    BY <2>1, <2>2, <1>1 DEF Exclusive
  <2>4. iv'[SideOf(u)] = iv[SideOf(u)]
    BY <2>3, <1>1, <1>3 DEF Leaves, LeaveChain
  <2>. QED BY <2>2, <2>4, <1>1 DEF BackupIV
<1>4. CASE Stays(t, q)
  <2>1. u # t /\ iv' = iv
    BY <1>4, StepGoes DEF Stays
  <2>. QED BY <2>1, <1>1, StepGoes DEF BackupIV
<1>. QED BY <1>2, <1>3, <1>4 DEF Step, Moves, Enters, Restores

LEMMA StepLocals ==
  ASSUME TypeOK, Locals, NEW t \in Thread, NEW q \in Places, NEW p \in Packet, Step(t, q, p)
  PROVE  Locals'
<1>1. q = "idle" => p = NoPacket
  BY DEF Step, Moves
<1>2. q \in {"decrypt?", "decrypt", "decrypting", "check"} => t \in Receiver
  BY DEF Step, Moves
<1>. SUFFICES ASSUME NEW u \in Thread
     PROVE  /\ pc'[u] = "idle" => packet'[u] = NoPacket
            /\ pc'[u] \in {"decrypt?", "decrypt", "decrypting", "check"} => u \in Receiver
  BY DEF Locals, NoPacket, Receiver
<1>3. CASE u = t
  BY <1>1, <1>2, <1>3, StepGoes
<1>4. CASE u # t
  BY <1>4, StepGoes DEF Locals
<1>. QED BY <1>3, <1>4

(* While it is calm, the IV of a use is the one of Init. *)
LEMMA StepNoise ==
  ASSUME TypeOK, BackupIV, NoiseOnlyFromOverlap,
         NEW t \in Thread, NEW q \in Places, NEW p \in Packet, Step(t, q, p)
  PROVE  NoiseOnlyFromOverlap'
<1>. SUFFICES ASSUME Calm'
     PROVE  /\ \A u \in Thread : packet'[u].intact
            /\ \A s \in Side : \A i \in 1..Len(wire'[s]) : wire'[s][i].intact
  BY DEF NoiseOnlyFromOverlap
<1>1. Calm
  BY StepGoes DEF Calm
<1>2. /\ \A u \in Thread : packet[u].intact
      /\ \A s \in Side : \A i \in 1..Len(wire[s]) : wire[s][i].intact
  BY <1>1 DEF NoiseOnlyFromOverlap
<1>3. /\ SideOf(t) \in Side /\ Peer(SideOf(t)) \in Side
      /\ \A s \in Side : wire[s] \in Seq(Packet)
      /\ wire \in [Side -> Seq(Packet)] /\ packet[t] \in Packet
  BY HeldTypes DEF TypeOK
<1>4. p.intact
  <2>1. pc[t] \in {"encrypting", "decrypt"} => iv[SideOf(t)] = "backup"
    BY <1>1, <1>3 DEF BackupIV, Calm
  <2>2. CASE wire[Peer(SideOf(t))] # <<>> /\ p = Head(wire[Peer(SideOf(t))])
    <3>. DEFINE w == wire[Peer(SideOf(t))]
    <3>1. w \in Seq(Packet) /\ w # <<>>
      BY <2>2, <1>3
    <3>2. Head(w) = w[1] /\ 1 \in 1..Len(w)
      BY <3>1
    <3>3. w[1].intact
      BY <3>2, <1>2, <1>3
    <3>. QED BY <2>2, <3>2, <3>3
  <2>. QED BY <1>2, <2>1, <2>2 DEF Step, Becomes
<1>5. \A u \in Thread : packet'[u].intact
  BY <1>2, <1>4, StepGoes
<1>6. ASSUME NEW s \in Side, NEW i \in 1..Len(wire'[s])
      PROVE  wire'[s][i].intact
  <2>1. CASE UNCHANGED wire
    BY <2>1, <1>2, <1>6
  <2>2. CASE wire' = [wire EXCEPT ![SideOf(t)] = Append(@, packet[t])]
    <3>1. s # SideOf(t) => wire'[s] = wire[s]
      BY <2>2, <1>3
    <3>2. CASE s = SideOf(t)
      <4>1. wire'[s] = Append(wire[s], packet[t])
        BY <2>2, <3>2, <1>3
      <4>2. /\ Len(wire'[s]) = Len(wire[s]) + 1 /\ Len(wire[s]) \in Nat
            /\ \A k \in 1..Len(wire[s]) : wire'[s][k] = wire[s][k]
            /\ wire'[s][Len(wire[s]) + 1] = packet[t]
        BY <4>1, <1>3, Appended
      <4>3. CASE i \in 1..Len(wire[s])
        BY <4>2, <4>3, <1>2
      <4>4. CASE i = Len(wire[s]) + 1
        BY <4>2, <4>4, <1>2
      <4>. QED BY <4>2, <4>3, <4>4, <1>6
    <3>. QED BY <3>1, <3>2, <1>2, <1>6
  <2>3. CASE /\ wire[Peer(SideOf(t))] # <<>>
             /\ wire' = [wire EXCEPT ![Peer(SideOf(t))] = Tail(@)]
    <3>1. s # Peer(SideOf(t)) => wire'[s] = wire[s]
      BY <2>3, <1>3
    <3>2. CASE s = Peer(SideOf(t))
      <4>1. wire'[s] = Tail(wire[s]) /\ wire[s] \in Seq(Packet) /\ wire[s] # <<>>
        BY <2>3, <3>2, <1>3
      <4>2. wire'[s][i] = wire[s][i + 1] /\ i + 1 \in 1..Len(wire[s])
        BY <4>1, <1>6
      <4>. QED BY <4>2, <1>2
    <3>. QED BY <3>1, <3>2, <1>2, <1>6
  <2>. QED BY <2>1, <2>2, <2>3 DEF Step, Wires
<1>. QED BY <1>5, <1>6

LEMMA NextIInv ==
  ASSUME IInv, [Next]_vars
  PROVE  IInv'
<1>1. CASE Next
  <2>1. TypeOK'
    BY <1>1, NextSteps DEF IInv
  <2>2. PICK t \in Thread, q \in Places, p \in Packet : Step(t, q, p)
    BY <1>1, NextSteps DEF IInv
  <2>. QED BY <2>1, <2>2, StepExclusive, StepBackupIV, StepLocals, StepNoise DEF IInv
<1>2. CASE UNCHANGED vars
  <2>1. /\ pc' = pc /\ left' = left /\ packet' = packet /\ iv' = iv /\ sendSeq' = sendSeq
        /\ recvSeq' = recvSeq /\ cached' = cached /\ wire' = wire /\ open' = open
        /\ skills' = skills /\ overlapped' = overlapped
    BY <1>2 DEF vars, local
  <2>2. TypeOK'
    BY <2>1 DEF IInv, TypeOK
  <2>3. Exclusive' /\ BackupIV' /\ Locals'
    BY <2>1 DEF IInv, Exclusive, BackupIV, Locals, InCipher
  <2>4. NoiseOnlyFromOverlap'
    BY <2>1 DEF IInv, NoiseOnlyFromOverlap, Calm
  <2>. QED BY <2>2, <2>3, <2>4 DEF IInv
<1>. QED BY <1>1, <1>2

(* Every behaviour of the channel satisfies IInv. *)
LEMMA Invariance == Spec => []IInv
BY InitIInv, NextIInv, PTL DEF Spec

(* The types of the variables, whatever the numbers of Sends. *)
THEOREM TypeCorrect == Spec => []TypeOK
BY Invariance, PTL DEF IInv

(***************************************************************************)
(* Encrypt and Decrypt restore the IV at each use: a packet is noise only  *)
(* if two uses of one AESCrypto overlapped.                                *)
(***************************************************************************)
THEOREM IntactUnlessOverlap == Spec => []NoiseOnlyFromOverlap
BY Invariance, PTL DEF IInv
-----------------------------------------------------------------------------
(* The sequence numbers, while no uses of a cipher overlap. *)
LEMMA InitOrdered == Init => Ordered
<1>. SUFFICES ASSUME Init PROVE Numbered
  BY DEF Ordered
<1>1. open /\ Unsequenced
  BY DEF Init, Unsequenced, InSend, Receiver, Thread
<1>2. ASSUME NEW s \in Side PROVE InOrder(s)
  BY DEF Init, InOrder
<1>3. ASSUME NEW s \in Side PROVE FlowFrom(s)
  <2>1. /\ recvSeq[Peer(s)] = 0 /\ sendSeq[s] = 0 /\ wire[s] = <<>>
        /\ packet[Recvr(Peer(s))].seq = 0 /\ packet[Sender(s)].seq = 0
    BY Ends DEF Init, NoPacket
  <2>2. Flow(0, 0, <<>>, 0, 0)
    BY DEF Flow, First, Last
  <2>. QED BY <2>1, <2>2 DEF FlowFrom
<1>. QED BY <1>1, <1>2, <1>3 DEF Numbered

(* The types of what a direction's numbers are made of. *)
LEMMA FlowTypes ==
  ASSUME TypeOK, NEW s \in Side
  PROVE  /\ recvSeq[s] \in Nat /\ sendSeq[s] \in Nat /\ recvSeq[Peer(s)] \in Nat
         /\ wire[s] \in Seq(Packet) /\ skills[s] \in Seq(Nat)
         /\ packet[Recvr(Peer(s))] \in Packet /\ packet[Sender(s)] \in Packet
         /\ packet[Recvr(Peer(s))].seq \in Nat /\ packet[Sender(s)].seq \in Nat
         /\ packet[Recvr(s)].seq \in Nat
BY Ends, HeldTypes DEF TypeOK

LEMMA Alone ==
  ASSUME TypeOK, Locals, NEW t \in Thread, Acts(t)
  PROVE  \A u \in Thread \ {t} : pc'[u] = pc[u] /\ packet'[u] = packet[u]
<1>1. PICK q \in Places, p \in Packet : Step(t, q, p)
  BY ActsSteps
<1>. QED BY <1>1, StepGoes

(* A step that changes no number, and no wire. *)
LEMMA QuietNumbered ==
  ASSUME Numbered, TypeOK, Locals, NEW t \in Thread, Acts(t),
         packet'[t].seq = packet[t].seq, InSend(t)' => InSend(t) \/ packet[t].seq = 0,
         UNCHANGED <<wire, sendSeq, recvSeq, skills, open>>
  PROVE  Numbered'
<1>1. \A u \in Thread : packet'[u].seq = packet[u].seq
  BY Alone
<1>2. Unsequenced'
  <2>. SUFFICES ASSUME NEW u \in Receiver, InSend(u)' PROVE packet'[u].seq = 0
    BY DEF Unsequenced, Receiver
  <2>1. u \in Thread
    BY Ends
  <2>2. InSend(u) \/ packet[u].seq = 0
    BY <2>1, Alone DEF InSend
  <2>. QED BY <1>1, <2>1, <2>2 DEF Numbered, Unsequenced
<1>3. ASSUME NEW s \in Side PROVE FlowFrom(s)' /\ InOrder(s)'
  <2>1. /\ packet'[Recvr(Peer(s))].seq = packet[Recvr(Peer(s))].seq
        /\ packet'[Sender(s)].seq = packet[Sender(s)].seq
    BY <1>1, Ends
  <2>2. FlowFrom(s) /\ InOrder(s)
    BY DEF Numbered
  <2>. QED BY <2>1, <2>2 DEF FlowFrom, InOrder
<1>. QED BY <1>2, <1>3 DEF Numbered

LEMMA SendNumbered ==
  ASSUME Sequencer \subseteq Side \X {"send"},
         Numbered, TypeOK, Locals, NEW t \in Thread, NEW sequenced \in BOOLEAN, Send(t, sequenced)
  PROVE  Numbered'
<1>0. Acts(t) /\ packet[t].seq = 0
  BY NoPacketIs DEF Acts, Sending, Send, Locals
<1>1. CASE ~sequenced
  <2>1. packet' = [packet EXCEPT ![t] = NoPacket] /\ UNCHANGED sendSeq
    BY <1>1 DEF Send, Header
  <2>2. packet'[t].seq = 0
    BY <2>1, NoPacketIs DEF TypeOK
  <2>3. UNCHANGED <<wire, sendSeq, recvSeq, skills, open>>
    BY <2>1 DEF Send
  <2>. QED BY <1>0, <2>2, <2>3, QuietNumbered
<1>2. CASE sequenced
  <2>. DEFINE d == SideOf(t)
  <2>0. d \in Side /\ t = Sender(d) /\ t \notin Receiver
    BY <1>2, Ends DEF Send, Receiver, SideOf, Sender
  <2>1. packet'[t] = [seq |-> sendSeq[d] + 1, intact |-> TRUE] /\ sendSeq' = [sendSeq EXCEPT ![d] = @ + 1]
    BY <1>2 DEF Send, Header, TypeOK
  <2>2. packet'[t].seq = sendSeq[d] + 1
    BY <2>1
  <2>3. UNCHANGED <<wire, recvSeq, skills, open>>
    BY DEF Send
  <2>4. sendSeq'[d] = sendSeq[d] + 1 /\ \A s \in Side \ {d} : sendSeq'[s] = sendSeq[s]
    BY <2>0, <2>1 DEF TypeOK
  <2>5. Unsequenced'
    BY <1>0, <2>0, Alone, Ends DEF Numbered, Unsequenced, InSend
  <2>6. ASSUME NEW s \in Side PROVE FlowFrom(s)' /\ InOrder(s)'
    <3>1. FlowFrom(s) /\ InOrder(s)
      BY DEF Numbered
    <3>2. packet'[Recvr(Peer(s))] = packet[Recvr(Peer(s))]
      BY <1>0, <2>0, Alone, Ends
    <3>3. CASE s = d
      <4>1. Flow(recvSeq[Peer(s)], packet[Recvr(Peer(s))].seq, wire[s], 0, sendSeq[s])
        BY <1>0, <2>0, <3>1, <3>3 DEF FlowFrom
      <4>2. Flow(recvSeq[Peer(s)], packet[Recvr(Peer(s))].seq, wire[s], sendSeq[s] + 1, sendSeq[s] + 1)
        BY <4>1, FlowTypes, FlowSend
      <4>. QED BY <4>2, <3>1, <3>2, <3>3, <2>0, <2>2, <2>3, <2>4 DEF FlowFrom, InOrder
    <3>4. CASE s # d
      <4>1. packet'[Sender(s)] = packet[Sender(s)]
        BY <1>0, <2>0, <3>4, Alone, Ends
      <4>. QED BY <4>1, <3>1, <3>2, <3>4, <2>3, <2>4 DEF FlowFrom, InOrder
    <3>. QED BY <3>3, <3>4
  <2>. QED BY <2>3, <2>5, <2>6 DEF Numbered
<1>. QED BY <1>1, <1>2

LEMMA PushNumbered ==
  ASSUME Numbered, TypeOK, Locals, NEW t \in Thread, Push(t)
  PROVE  Numbered'
<1>. DEFINE d == SideOf(t)
<1>0. /\ Acts(t) /\ d \in Side /\ packet[t] \in Packet
      /\ t = Sender(d) \/ t = Recvr(d)
  BY Ends, HeldTypes DEF Acts, Sending
<1>1. /\ wire'[d] = Append(wire[d], packet[t])
      /\ \A s \in Side \ {d} : wire'[s] = wire[s]
      /\ packet'[t].seq = 0 /\ pc'[t] = "idle"
  BY <1>0, NoPacketIs DEF Push, Goto, TypeOK, Numbered
<1>2. UNCHANGED <<sendSeq, recvSeq, skills, open>>
  BY DEF Push
<1>3. Unsequenced'
  BY <1>0, <1>1, Alone, Ends DEF Numbered, Unsequenced, InSend
<1>4. ASSUME NEW s \in Side PROVE FlowFrom(s)' /\ InOrder(s)'
  <2>1. FlowFrom(s) /\ InOrder(s)
    BY DEF Numbered
  <2>2. packet'[Recvr(Peer(s))].seq = packet[Recvr(Peer(s))].seq
    <3>1. CASE t = Recvr(Peer(s))
      <4>1. t \in Receiver /\ InSend(t)
        BY <3>1, Ends DEF Push, InSend
      <4>. QED BY <4>1, <3>1, <1>1 DEF Numbered, Unsequenced
    <3>2. CASE t # Recvr(Peer(s))
      BY <3>2, <1>0, Alone, Ends
    <3>. QED BY <3>1, <3>2
  <2>3. CASE s = d
    <3>. DEFINE n == recvSeq[Peer(s)]
                r == packet[Recvr(Peer(s))].seq
                x == packet[Sender(s)].seq
                m == sendSeq[s]
    <3>0. /\ n \in Nat /\ r \in Nat /\ x \in Nat /\ m \in Nat /\ wire[s] \in Seq(Packet)
          /\ Flow(n, r, wire[s], x, m)
      BY <2>1, FlowTypes DEF FlowFrom
    <3>1. Flow(n, r, Append(wire[s], packet[t]), packet'[Sender(s)].seq, m)
      <4>. HIDE DEF n, r, m
      <4>1. CASE t = Sender(d) /\ packet[t].seq > 0
        <5>1. Flow(n, r, Append(wire[s], packet[t]), 0, m)
          BY <4>1, <2>3, <1>0, <3>0, FlowPush
        <5>. QED BY <5>1, <4>1, <2>3, <1>1
      <4>2. CASE t = Sender(d) /\ ~(packet[t].seq > 0)
        <5>1. packet[t].seq = 0 /\ x = 0
          BY <4>2, <2>3, <3>0
        <5>2. Flow(n, r, Append(wire[s], packet[t]), 0, m)
          BY <5>1, <1>0, <3>0, FlowAnswer
        <5>. QED BY <5>2, <4>2, <2>3, <1>1
      <4>3. CASE t = Recvr(d)
        <5>1. packet[t].seq = 0
          BY <1>0, <4>3, Ends DEF Push, InSend, Numbered, Unsequenced
        <5>2. packet'[Sender(s)].seq = x
          BY <4>3, <1>0, Alone, Ends
        <5>3. Flow(n, r, Append(wire[s], packet[t]), x, m)
          BY <5>1, <1>0, <3>0, FlowAnswer
        <5>. QED BY <5>2, <5>3
      <4>. QED BY <4>1, <4>2, <4>3, <1>0
    <3>. QED BY <3>1, <2>1, <2>2, <2>3, <1>1, <1>2 DEF FlowFrom, InOrder
  <2>6. CASE s # d
    <3>2. packet'[Sender(s)] = packet[Sender(s)]
      BY <2>6, <1>0, Alone, Ends
    <3>. QED BY <3>2, <2>1, <2>2, <2>6, <1>1, <1>2 DEF FlowFrom, InOrder
  <2>. QED BY <2>3, <2>6
<1>. QED BY <1>2, <1>3, <1>4 DEF Numbered
-----------------------------------------------------------------------------
(* The receiver's side of the numbers. *)
LEMMA ReceiveNumbered ==
  ASSUME Numbered, TypeOK, Locals, NEW t \in Receiver, Receive(t)
  PROVE  Numbered'
<1>. DEFINE d == Peer(SideOf(t))
            w == wire[d]
<1>0. /\ t \in Thread /\ Acts(t) /\ d \in Side /\ t = Recvr(Peer(d)) /\ Peer(d) = SideOf(t)
      /\ packet[t].seq = 0
  BY Ends, NoPacketIs DEF Acts, Receiving, Receive, Locals
<1>1. /\ packet'[t].seq = Head(w).seq /\ wire'[d] = Tail(w) /\ w # <<>>
      /\ \A s \in Side \ {d} : wire'[s] = wire[s]
      /\ pc'[t] = "decrypt?"
  BY <1>0 DEF Receive, Goto, TypeOK
<1>2. UNCHANGED <<sendSeq, recvSeq, skills, open>>
  BY DEF Receive
<1>3. Unsequenced'
  BY <1>0, <1>1, Alone, Ends DEF Numbered, Unsequenced, InSend
<1>4. ASSUME NEW s \in Side PROVE FlowFrom(s)' /\ InOrder(s)'
  <2>1. FlowFrom(s) /\ InOrder(s)
    BY DEF Numbered
  <2>2. packet'[Sender(s)] = packet[Sender(s)]
    BY <1>0, Alone, Ends
  <2>3. CASE s = d
    <3>. DEFINE n == recvSeq[Peer(s)]
                x == packet[Sender(s)].seq
                m == sendSeq[s]
    <3>1. n \in Nat /\ x \in Nat /\ m \in Nat /\ w \in Seq(Packet) /\ Flow(n, 0, w, x, m)
      BY <1>0, <2>1, <2>3, FlowTypes DEF FlowFrom
    <3>. HIDE DEF n, x, m, w
    <3>2. Flow(n, Head(w).seq, Tail(w), x, m)
      BY <3>1, <1>1, FlowReceive
    <3>. QED BY <3>2, <1>0, <1>1, <1>2, <2>1, <2>2, <2>3 DEF FlowFrom, InOrder, n, x, m
  <2>4. CASE s # d
    <3>1. packet'[Recvr(Peer(s))] = packet[Recvr(Peer(s))]
      <4>1. Peer(s) # Peer(d)
        BY <1>0, <2>4, Ends
      <4>2. Recvr(Peer(s)) # t
        BY <4>1, <1>0, Ends
      <4>. QED BY <4>2, <1>0, Alone, Ends
    <3>. QED BY <3>1, <1>1, <1>2, <2>1, <2>2, <2>4 DEF FlowFrom, InOrder
  <2>. QED BY <2>3, <2>4
<1>. QED BY <1>2, <1>3, <1>4 DEF Numbered

(* An intact packet is read as it was sent. *)
LEMMA IntactHeader ==
  ASSUME TypeOK, NEW t \in Thread, packet[t].intact, NEW h \in Headers(packet[t])
  PROVE  h.seq = packet[t].seq /\ (h.sequenced <=> packet[t].seq > 0)
<1>1. h = [sequenced |-> packet[t].seq > 0, seq |-> packet[t].seq]
  BY DEF Headers
<1>. QED BY <1>1

LEMMA HandleNumbered ==
  ASSUME Numbered, TypeOK, Locals, NEW t \in Receiver, packet[t].intact,
         NEW h \in Headers(packet[t]), Handle(t, h)
  PROVE  Numbered'
<1>. DEFINE e == SideOf(t)
            d == Peer(e)
            r == packet[t].seq
<1>0. /\ t \in Thread /\ e \in Side /\ d \in Side /\ t = Recvr(Peer(d)) /\ Peer(d) = e
      /\ r \in Nat /\ Acts(t)
  BY Ends, HeldTypes DEF Acts, Receiving
<1>1. h.seq = r /\ (h.sequenced <=> r > 0)
  BY <1>0, IntactHeader
<1>2. packet'[t].seq = 0 /\ pc'[t] = "idle" /\ UNCHANGED <<wire, sendSeq, open>>
  BY <1>0, NoPacketIs DEF Handle, Goto, TypeOK
<1>3. CASE ~(r > 0)
  <2>1. packet[t].seq = 0
    BY <1>0, <1>3
  <2>2. UNCHANGED <<recvSeq, skills>>
    BY <1>1, <1>3 DEF Handle
  <2>. QED BY <2>1, <2>2, <1>0, <1>2, QuietNumbered
<1>4. CASE r > 0
  <2>1. recvSeq' = [recvSeq EXCEPT ![e] = r] /\ skills' = [skills EXCEPT ![e] = Append(@, r)]
    BY <1>1, <1>4 DEF Handle
  <2>2. /\ recvSeq'[e] = r /\ skills'[e] = Append(skills[e], r)
        /\ \A s \in Side \ {e} : recvSeq'[s] = recvSeq[s] /\ skills'[s] = skills[s]
    BY <2>1, <1>0 DEF TypeOK
  <2>3. Unsequenced'
    BY <1>0, <1>2, Alone, Ends DEF Numbered, Unsequenced, InSend
  <2>4. FlowFrom(d)' /\ r = recvSeq[e] + 1
    <3>. DEFINE n == recvSeq[e]
                x == packet[Sender(d)].seq
                m == sendSeq[d]
                w == wire[d]
    <3>1. n \in Nat /\ x \in Nat /\ m \in Nat /\ w \in Seq(Packet) /\ Flow(n, r, w, x, m)
      BY <1>0, FlowTypes DEF FlowFrom, Numbered
    <3>2. packet'[Sender(d)] = packet[Sender(d)]
      BY <1>0, Alone, Ends
    <3>3. Flow(r, 0, w, x, m) /\ r = n + 1
      <4>. HIDE DEF n, x, m, w, r
      <4>. QED BY <3>1, <1>0, <1>4, FlowHandle
    <3>. QED BY <3>2, <3>3, <2>2, <1>0, <1>2 DEF FlowFrom
  <2>5. ASSUME NEW s \in Side, s # d PROVE FlowFrom(s)'
    <3>1. Peer(s) # e /\ Recvr(Peer(s)) # t /\ Sender(s) # t
      BY <2>5, <1>0, Ends
    <3>2. /\ packet'[Recvr(Peer(s))] = packet[Recvr(Peer(s))]
          /\ packet'[Sender(s)] = packet[Sender(s)]
          /\ recvSeq'[Peer(s)] = recvSeq[Peer(s)]
      BY <3>1, <1>0, <2>2, Alone, Ends
    <3>. QED BY <3>2, <1>2 DEF FlowFrom, Numbered
  <2>6. InOrder(e)'
    <3>1. InOrder(e) /\ skills[e] \in Seq(Nat) /\ recvSeq[e] \in Nat
      BY <1>0, FlowTypes DEF Numbered
    <3>2. Len(skills[e]) = recvSeq[e] /\ \A i \in 1..recvSeq[e] : skills[e][i] = i
      BY <3>1 DEF InOrder
    <3>3. Len(skills'[e]) = recvSeq'[e]
      BY <3>1, <3>2, <2>2, <2>4
    <3>4. ASSUME NEW i \in 1..recvSeq'[e] PROVE skills'[e][i] = i
      <4>1. CASE i = recvSeq[e] + 1
        <5>1. i = Len(skills[e]) + 1 /\ i = r
          BY <4>1, <3>1, <3>2, <2>4
        <5>2. skills'[e] = Append(skills[e], r) /\ r \in Nat
          BY <2>2, <1>0
        <5>. HIDE DEF r
        <5>3. \A z \in Seq(Nat), k \in Nat : Append(z, k)[Len(z) + 1] = k
          OBVIOUS
        <5>. QED BY <5>1, <5>2, <5>3, <3>1
      <4>2. CASE i \in 1..recvSeq[e]
        BY <4>2, <3>1, <3>2, <2>2
      <4>3. i \in 1..(recvSeq[e] + 1)
        BY <2>2, <2>4, <3>4
      <4>. QED BY <4>1, <4>2, <4>3, <3>1
    <3>. QED BY <3>3, <3>4, <1>0 DEF InOrder
  <2>7. ASSUME NEW s \in Side, s # e PROVE InOrder(s)'
    BY <2>7, <2>2 DEF InOrder, Numbered
  <2>. QED BY <2>3, <2>4, <2>5, <2>6, <2>7, <1>2 DEF Numbered
<1>. QED BY <1>3, <1>4

(* A number that arrives is the next one: neither a duplicate nor a replay. *)
LEMMA NextNumberArrives ==
  ASSUME Numbered, TypeOK, NEW t \in Receiver, packet[t].intact,
         NEW h \in Headers(packet[t]), h.sequenced
  PROVE  h.seq = recvSeq[SideOf(t)] + 1 /\ recvSeq[SideOf(t)] \in Nat
<1>. DEFINE e == SideOf(t)
            d == Peer(e)
<1>1. t \in Thread /\ e \in Side /\ d \in Side /\ t = Recvr(Peer(d)) /\ Peer(d) = e
  BY Ends
<1>2. h.seq = packet[t].seq /\ packet[t].seq > 0
  BY <1>1, IntactHeader
<1>3. FlowFrom(d)
  BY <1>1 DEF Numbered
<1>4. Flow(recvSeq[e], packet[t].seq, wire[d], packet[Sender(d)].seq, sendSeq[d])
  BY <1>1, <1>3 DEF FlowFrom
<1>5. packet[t].seq = recvSeq[e] + 1
  BY <1>2, <1>4 DEF Flow
<1>. QED BY <1>1, <1>2, <1>5, FlowTypes

(***************************************************************************)
(* Every step while the uses of the cipher have not overlapped.            *)
(***************************************************************************)
LEMMA StepNumbered ==
  ASSUME Sequencer \subseteq Side \X {"send"},
         Numbered, TypeOK, Locals, \A t \in Thread : packet[t].intact, Next
  PROVE  Numbered'
<1>1. PICK t \in Thread : Acts(t)
  BY NextActs
<1>2. packet \in [Thread -> Packet]
  BY DEF TypeOK
<1>3. ASSUME EncryptSize(t) \/ EncryptRestore(t) \/ EncryptEnd(t) \/ DecryptRestore(t) \/ DecryptEnd(t)
      PROVE  Numbered'
  <2>1. packet' = packet /\ UNCHANGED <<wire, sendSeq, recvSeq, skills, open>>
    BY <1>3 DEF EncryptSize, EncryptRestore, EncryptEnd, DecryptRestore, DecryptEnd
  <2>2. InSend(t)' => InSend(t)
    BY <1>3 DEF EncryptSize, EncryptRestore, EncryptEnd, DecryptRestore, DecryptEnd,
                InSend, Goto, TypeOK
  <2>. QED BY <2>1, <2>2, <1>1, QuietNumbered
<1>4. ASSUME EncryptBegin(t) \/ DecryptBegin(t) PROVE Numbered'
  <2>1. UseIV(t) /\ UNCHANGED <<wire, sendSeq, recvSeq, skills, open>>
    BY <1>4 DEF EncryptBegin, DecryptBegin
  <2>2. packet'[t].seq = packet[t].seq
    BY <2>1, <1>2 DEF UseIV, Packet
  <2>3. InSend(t)' => InSend(t)
    BY <1>4 DEF EncryptBegin, DecryptBegin, InSend, Goto, TypeOK
  <2>. QED BY <2>1, <2>2, <2>3, <1>1, QuietNumbered
<1>5. CASE Sending(t)
  BY <1>3, <1>4, <1>5, SendNumbered, PushNumbered DEF Sending
<1>6. CASE t \in Receiver /\ Receiving(t)
  <2>1. ASSUME NEW h \in Headers(packet[t]), SkipDuplicate(t, h) \/ Replayed(t, h) \/ Handle(t, h)
        PROVE  Numbered'
    <3>1. ASSUME h.sequenced
          PROVE  h.seq = recvSeq[SideOf(t)] + 1 /\ recvSeq[SideOf(t)] \in Nat
      <4>1. packet[t].intact
        OBVIOUS
      <4>. QED BY <1>6, <3>1, <4>1, NextNumberArrives
    <3>2. ~SkipDuplicate(t, h)
      <4>1. SkipDuplicate(t, h) => h.sequenced /\ h.seq = recvSeq[SideOf(t)]
        BY DEF SkipDuplicate
      <4>2. h.sequenced => h.seq # recvSeq[SideOf(t)]
        BY <3>1
      <4>. QED BY <4>1, <4>2
    <3>3. ~Replayed(t, h)
      BY <3>1 DEF Replayed, Stale
    <3>. QED BY <2>1, <3>2, <3>3, <1>6, HandleNumbered
  <2>2. ~DecryptionFails(t)
    BY DEF DecryptionFails
  <2>. QED BY <1>3, <1>4, <1>6, <2>1, <2>2, ReceiveNumbered DEF Receiving
<1>. QED BY <1>1, <1>5, <1>6 DEF Acts

LEMMA NextOrdered ==
  ASSUME Sequencer \subseteq Side \X {"send"}, IInv, Ordered, [Next]_vars
  PROVE  Ordered'
<1>1. CASE Next
  <2>. SUFFICES ASSUME Calm' PROVE Numbered'
    BY DEF Ordered
  <2>1. PICK t \in Thread, q \in Places, p \in Packet : Step(t, q, p)
    BY <1>1, NextSteps DEF IInv
  <2>2. Calm
    BY <2>1, StepGoes DEF Calm, IInv
  <2>. QED BY <2>2, <1>1, StepNumbered DEF Ordered, IInv, NoiseOnlyFromOverlap
<1>2. CASE UNCHANGED vars
  <2>1. /\ pc' = pc /\ packet' = packet /\ sendSeq' = sendSeq /\ recvSeq' = recvSeq
        /\ wire' = wire /\ open' = open /\ skills' = skills /\ overlapped' = overlapped
    BY <1>2 DEF vars, local
  <2>. QED BY <2>1 DEF Ordered, Calm, Numbered, Unsequenced, InSend, FlowFrom, InOrder
<1>. QED BY <1>1, <1>2
-----------------------------------------------------------------------------
(* The packets v, in order, have the numbers after n up to m, each once. *)
Rest(n, m, v) ==
  /\ n <= m
  /\ \A i, k \in 1..Len(v) : i < k /\ v[k].seq > 0 => v[i].seq < v[k].seq
  /\ {v[i].seq : i \in 1..Len(v)} \ {0} = (n + 1)..m

(* What Flow says of all the packets underway together. *)
LEMMA FlowUnderway ==
  ASSUME NEW n \in Nat, NEW m \in Nat, NEW w \in Seq(Packet), NEW p \in Packet, NEW q \in Packet,
         Flow(n, p.seq, w, q.seq, m), NEW v, v = <<p>> \o w \o <<q>>
  PROVE  Rest(n, m, v)
<1>. DEFINE f == First(n, p.seq)
            l == Last(q.seq, m)
<1>1. /\ Len(w) \in Nat /\ Len(v) = Len(w) + 2 /\ v[1] = p /\ v[Len(w) + 2] = q
      /\ \A i \in 1..Len(w) : v[i + 1] = w[i]
  <2>. DEFINE u == <<p>> \o w
  <2>1. /\ <<p>> \in Seq(Packet) /\ Len(<<p>>) = 1 /\ <<p>>[1] = p
        /\ <<q>> \in Seq(Packet) /\ Len(<<q>>) = 1 /\ <<q>>[1] = q
        /\ Len(w) \in Nat
    OBVIOUS
  <2>2. /\ u \in Seq(Packet) /\ Len(u) = Len(w) + 1 /\ u[1] = p
        /\ \A i \in 1..Len(w) : u[i + 1] = w[i]
    BY <2>1, ConcatProperties
  <2>3. v = u \o <<q>>
    OBVIOUS
  <2>. HIDE DEF u
  <2>4. /\ Len(v) = Len(u) + 1 /\ v[Len(u) + 1] = q
        /\ \A i \in 1..Len(u) : v[i] = u[i]
    BY <2>1, <2>2, <2>3, ConcatProperties
  <2>. QED BY <2>1, <2>2, <2>4
<1>2. \A i \in 1..Len(w) : w[i].seq \in Nat
  <2>1. \A i \in 1..Len(w) : w[i] \in Packet
    OBVIOUS
  <2>. QED BY <2>1 DEF Packet
<1>3. p.seq \in Nat /\ q.seq \in Nat
  BY DEF Packet
<1>4. /\ p.seq > 0 => p.seq = n + 1 /\ f = n + 1
      /\ p.seq = 0 => f = n
      /\ q.seq > 0 => q.seq = m /\ l = m - 1
      /\ q.seq = 0 => l = m
  BY DEF Flow, First, Last
<1>5. /\ f <= l
      /\ \A i \in 1..Len(w) : w[i].seq > 0 => f < w[i].seq /\ w[i].seq <= l
      /\ \A k \in (f + 1)..l : \E i \in 1..Len(w) : w[i].seq = k
      /\ \A i, k \in 1..Len(w) : i < k /\ w[k].seq > 0 => w[i].seq < w[k].seq
  BY DEF Flow
<1>. HIDE DEF f, l
<1>6. f \in Int /\ l \in Int /\ n <= f /\ l <= m /\ p.seq <= f
  BY <1>3, <1>4
<1>7. \A i \in 1..Len(v) : i = 1 \/ i = Len(w) + 2 \/ (i - 1 \in 1..Len(w) /\ v[i] = w[i - 1])
  <2>. TAKE i \in 1..Len(v)
  <2>. SUFFICES ASSUME i # 1, i # Len(w) + 2 PROVE i - 1 \in 1..Len(w) /\ v[i] = w[i - 1]
    OBVIOUS
  <2>1. i - 1 \in 1..Len(w) /\ (i - 1) + 1 = i
    BY <1>1
  <2>. QED BY <2>1, <1>1
<1>8. ASSUME NEW i \in 1..Len(v), NEW k \in 1..Len(v), i < k, v[k].seq > 0
      PROVE  v[i].seq < v[k].seq
  <2>1. i # Len(w) + 2 /\ k # 1
    BY <1>8, <1>1
  <2>2. CASE i = 1 /\ k = Len(w) + 2
    BY <2>2, <1>8, <1>1, <1>3, <1>4, <1>5, <1>6
  <2>3. CASE i = 1 /\ k # Len(w) + 2
    <3>1. k - 1 \in 1..Len(w) /\ v[k] = w[k - 1]
      BY <2>1, <2>3, <1>7
    <3>2. f < v[k].seq
      BY <3>1, <1>5, <1>8
    <3>. QED BY <2>3, <3>1, <3>2, <1>1, <1>2, <1>3, <1>6
  <2>4. CASE i # 1 /\ k = Len(w) + 2
    <3>1. i - 1 \in 1..Len(w) /\ v[i] = w[i - 1]
      BY <2>1, <2>4, <1>7
    <3>2. v[i].seq \in Nat /\ (v[i].seq > 0 => v[i].seq <= l)
      BY <3>1, <1>2, <1>5
    <3>3. v[k].seq = m /\ l = m - 1 /\ m > 0
      BY <2>4, <1>1, <1>3, <1>4, <1>8
    <3>4. \A a \in Nat : (a > 0 => a <= m - 1) => a < m
      BY <3>3
    <3>. QED BY <3>2, <3>3, <3>4
  <2>5. CASE i # 1 /\ k # Len(w) + 2
    <3>1. i - 1 \in 1..Len(w) /\ v[i] = w[i - 1] /\ k - 1 \in 1..Len(w) /\ v[k] = w[k - 1]
      BY <2>1, <2>5, <1>7
    <3>2. i - 1 < k - 1
      BY <1>8, <1>1
    <3>. QED BY <3>1, <3>2, <1>5, <1>8
  <2>. QED BY <2>2, <2>3, <2>4, <2>5
<1>9. ASSUME NEW i \in 1..Len(v), v[i].seq # 0
      PROVE  v[i].seq \in (n + 1)..m
  <2>1. CASE i = 1
    BY <2>1, <1>1, <1>3, <1>4, <1>5, <1>6, <1>9
  <2>2. CASE i = Len(w) + 2
    BY <2>2, <1>1, <1>3, <1>4, <1>5, <1>6, <1>9
  <2>3. CASE i - 1 \in 1..Len(w) /\ v[i] = w[i - 1]
    <3>1. v[i].seq \in Nat /\ v[i].seq > 0
      BY <2>3, <1>2, <1>9
    <3>2. f < v[i].seq /\ v[i].seq <= l
      BY <2>3, <3>1, <1>5
    <3>. QED BY <3>1, <3>2, <1>6
  <2>. QED BY <2>1, <2>2, <2>3, <1>7
<1>10. ASSUME NEW k \in (n + 1)..m
       PROVE  k # 0 /\ \E i \in 1..Len(v) : v[i].seq = k
  <2>0. k # 0 /\ 1 \in 1..Len(v) /\ Len(w) + 2 \in 1..Len(v)
    BY <1>1
  <2>1. CASE k = p.seq
    BY <2>0, <2>1, <1>1
  <2>2. CASE k = q.seq
    BY <2>0, <2>2, <1>1
  <2>3. CASE k # p.seq /\ k # q.seq
    <3>1. k \in (f + 1)..l
      BY <2>3, <1>3, <1>4, <1>6
    <3>2. PICK i \in 1..Len(w) : w[i].seq = k
      BY <3>1, <1>5
    <3>3. i + 1 \in 1..Len(v) /\ v[i + 1] = w[i]
      BY <3>2, <1>1
    <3>. QED BY <2>0, <3>2, <3>3
  <2>. QED BY <2>1, <2>2, <2>3
<1>11. {v[i].seq : i \in 1..Len(v)} \ {0} = (n + 1)..m
  BY <1>9, <1>10
<1>12. n <= m
  BY <1>5, <1>6
<1>. QED BY <1>8, <1>11, <1>12 DEF Rest

LEMMA OrderedSkills ==
  ASSUME TypeOK, Ordered
  PROVE  SkillsOnceInOrder
<1>. SUFFICES ASSUME Calm PROVE SkillsOnceInOrder
  BY DEF SkillsOnceInOrder
<1>. DEFINE n == recvSeq["server"]
            m == sendSeq["client"]
            w == wire["client"]
            p == packet[<<"server", "recv">>]
            q == packet[<<"client", "send">>]
            v == Underway
<1>1. n \in Nat /\ m \in Nat /\ w \in Seq(Packet) /\ p \in Packet /\ q \in Packet
  BY DEF TypeOK, Side, Thread
<1>2. "client" \in Side /\ Peer("client") = "server" /\ "server" \in Side
  BY DEF Side, Peer
<1>3. FlowFrom("client") /\ InOrder("server")
  BY <1>2 DEF Ordered, Numbered
<1>4. Flow(n, p.seq, w, q.seq, m)
  BY <1>2, <1>3 DEF FlowFrom, Recvr, Sender
<1>5. v = <<p>> \o w \o <<q>>
  BY DEF Underway
<1>6. Len(skills["server"]) = n /\ \A i \in 1..n : skills["server"][i] = i
  BY <1>3 DEF InOrder
<1>. HIDE DEF n, m, w, p, q, v
<1>7. Rest(n, m, v)
  BY <1>1, <1>4, <1>5, FlowUnderway
<1>. QED BY <1>6, <1>7 DEF SkillsOnceInOrder, Rest, m, v

(***************************************************************************)
(* Packets are numbered only by the thread that sends them: DummyClient's  *)
(* main thread, for C2S_SKILL.  Then, while uses of the cipher do not      *)
(* overlap, no end sees a replay, a duplicate or a bad packet;             *)
(***************************************************************************)
THEOREM StaysConnected ==
  ASSUME Sequencer \subseteq Side \X {"send"}
  PROVE  Spec => []HonestStayConnected
<1>1. Init => IInv /\ Ordered
  BY InitIInv, InitOrdered
<1>2. IInv /\ Ordered /\ [Next]_vars => (IInv /\ Ordered)'
  BY NextIInv, NextOrdered
<1>3. IInv /\ Ordered => HonestStayConnected
  BY DEF Ordered, Numbered, HonestStayConnected
<1>. QED BY <1>1, <1>2, <1>3, PTL DEF Spec

(* and each numbered packet is handled once, in the order of the Sends. *)
THEOREM SkillsInOrder ==
  ASSUME Sequencer \subseteq Side \X {"send"}
  PROVE  Spec => []SkillsOnceInOrder
<1>1. Init => IInv /\ Ordered
  BY InitIInv, InitOrdered
<1>2. IInv /\ Ordered /\ [Next]_vars => (IInv /\ Ordered)'
  BY NextIInv, NextOrdered
<1>3. IInv /\ Ordered => SkillsOnceInOrder
  BY OrderedSkills DEF IInv
<1>. QED BY <1>1, <1>2, <1>3, PTL DEF Spec

=============================================================================
