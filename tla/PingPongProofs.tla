--------------------------- MODULE PingPongProofs ---------------------------
(***************************************************************************)
(* Proofs about PingPong for every interval, timeout and latency, and      *)
(* however long it runs: what SendPing computes does not wrap around, only *)
(* a client that was late is cut off, and one that is gone is cut off by   *)
(* the second ping after.                                                  *)
(***************************************************************************)
EXTENDS PingPong, TLAPS

(* There is one answer on its way, at most, and it is for the last ping. *)
NoneUnderway == pings = {} /\ pongs = {} /\ pongNow = 0

Underway ==
  /\ pings \cup pongs \subseteq {number}
  /\ pings \cap pongs = {}
  /\ pongNow # 0 => pongFor = number /\ pings = {} /\ pongs = {}
  /\ number = 0 => pongNow = 0

(* SendPing goes on with a next one only when there is none. *)
Quiet ==
  /\ pc \in {"storeping", "storepong"} => NoneUnderway
  /\ pc = "broadcast" /\ connected => NoneUnderway /\ pongTime = 0
  /\ pongTime # 0 => NoneUnderway

(* SendPing's locals, and that _lastPingTime is 0 until the first ping. *)
Prepared ==
  /\ pc # "idle" => pingNow > 0
  /\ lastPing > 0 <=> number > 0
  /\ pc \in {"loadpong", "timeout", "storeping"} => seenPing = lastPing
  /\ pc \in {"storepong", "broadcast"} => number > 0

(* An answer is later than the ping, except between SendPing's two stores. *)
Answers ==
  /\ pongNow # 0 => pongNow >= lastPing
  /\ pongTime # 0 /\ pc # "storepong" => pongTime >= lastPing /\ answered >= pongTime
  /\ answered # 0 => pongTime # 0 /\ pc # "storepong"

(* Who is about to be cut off deserves it. *)
Late == pc = "timeout" => number > 0 /\ (answered = 0 \/ answered - lastPing > pongTimeout)

(* Pings are pingInterval apart. *)
Apart ==
  number > 0 =>
    /\ pc = "idle" => due >= lastPing + pingInterval
    /\ pc \in {"loadping", "loadpong", "timeout"} => now >= lastPing + pingInterval

(* The job starts and ends within Latency. *)
InTime ==
  /\ pc = "idle" => now <= due + Latency /\ due <= now + pingInterval
  /\ pc # "idle" => now <= pingNow + Latency

(* Nobody can answer the last ping any more; *)
Doomed == number > 0 /\ pongTime = 0 /\ pongNow = 0

(* when the client is gone, this is so after one more SendPing at most. *)
Gone ==
  diedAt # 0 =>
    /\ pongs = {}
    /\ connected =>
         /\ pc = "idle" =>
              \/ due <= diedAt + pingInterval
              \/ Doomed /\ due <= diedAt + 2 * pingInterval + 2 * Latency
         /\ pc \in {"loadping", "loadpong"} =>
              \/ pingNow <= diedAt + pingInterval + Latency
              \/ Doomed /\ pingNow <= diedAt + 2 * pingInterval + 3 * Latency
         /\ pc \in {"storeping", "storepong", "broadcast"} =>
              pingNow <= diedAt + pingInterval + Latency
         /\ pc = "timeout" => pingNow <= diedAt + 2 * pingInterval + 3 * Latency

IInv ==
  /\ TypeOK /\ Underway /\ Quiet /\ Prepared /\ Answers /\ Late /\ Apart /\ InTime /\ Gone

-----------------------------------------------------------------------------
(* The difference of two times is not affected by the width of uint64. *)
LEMMA ElapsedIs ==
  ASSUME NEW a \in Nat, NEW b \in Nat, b <= a, a <= MaxNow
  PROVE  Elapsed(a, b) = a - b
<1>1. a - b \in Nat /\ Width \in Nat /\ a - b < Width
  BY PingAssumption
<1>. QED BY <1>1 DEF Elapsed

USE DEF Goto

LEMMA InitInv == Init => IInv
<1>. SUFFICES ASSUME Init PROVE IInv
  OBVIOUS
<1>1. TypeOK
  BY PingAssumption DEF Init, TypeOK
<1>2. Underway /\ Quiet
  BY DEF Init, Underway, Quiet, NoneUnderway
<1>3. Prepared /\ Answers /\ Late /\ Apart
  BY DEF Init, Prepared, Answers, Late, Apart
<1>4. InTime /\ Gone
  BY PingAssumption DEF Init, InTime, Gone
<1>. QED BY <1>1, <1>2, <1>3, <1>4 DEF IInv

LEMMA NextTypeOK ==
  ASSUME TypeOK, Prepared, Next
  PROVE  TypeOK'
<1>. USE PingAssumption DEF roomVars, wireVars, pongVars
<1>1. CASE Start
  BY <1>1 DEF Start, TypeOK
<1>2. CASE LoadPing
  BY <1>2 DEF LoadPing, TypeOK
<1>3. CASE LoadPong
  BY <1>3 DEF LoadPong, TypeOK
<1>4. CASE StorePing
  BY <1>4 DEF StorePing, TypeOK
<1>5. CASE StorePong
  BY <1>5 DEF StorePong, TypeOK
<1>6. CASE Timeout
  BY <1>6 DEF Timeout, TypeOK
<1>7. CASE SendPing
  BY <1>7 DEF SendPing, TypeOK, Prepared
<1>8. ASSUME NEW k \in pings, Answer(k)
       PROVE  TypeOK'
  BY <1>8 DEF Answer, TypeOK
<1>9. ASSUME NEW k \in pongs, ReadClock(k)
       PROVE  TypeOK'
  BY <1>9 DEF ReadClock, TypeOK
<1>10. CASE CompareExchange
  BY <1>10 DEF CompareExchange, TypeOK
<1>11. CASE Die
  BY <1>11 DEF Die, TypeOK
<1>12. CASE Tick
  BY <1>12 DEF Tick, TypeOK
<1>. QED BY <1>1, <1>2, <1>3, <1>4, <1>5, <1>6, <1>7, <1>8, <1>9, <1>10, <1>11, <1>12 DEF Next

LEMMA NextUnderway ==
  ASSUME Underway, TypeOK, Quiet, Next
  PROVE  Underway'
<1>. USE PingAssumption DEF roomVars, wireVars, pongVars
<1>1. CASE Start
  BY <1>1 DEF Start, Underway, TypeOK, Quiet, NoneUnderway
<1>2. CASE LoadPing
  BY <1>2 DEF LoadPing, Underway, TypeOK, Quiet, NoneUnderway
<1>3. CASE LoadPong
  BY <1>3 DEF LoadPong, Underway, TypeOK, Quiet, NoneUnderway
<1>4. CASE StorePing
  BY <1>4 DEF StorePing, Underway, TypeOK, Quiet, NoneUnderway
<1>5. CASE StorePong
  BY <1>5 DEF StorePong, Underway, TypeOK, Quiet, NoneUnderway
<1>6. CASE Timeout
  BY <1>6 DEF Timeout, Underway, TypeOK, Quiet, NoneUnderway
<1>7. CASE SendPing
  BY <1>7 DEF SendPing, Underway, TypeOK, Quiet, NoneUnderway
<1>8. ASSUME NEW k \in pings, Answer(k)
       PROVE  Underway'
  BY <1>8 DEF Answer, Underway, TypeOK, Quiet, NoneUnderway
<1>9. ASSUME NEW k \in pongs, ReadClock(k)
       PROVE  Underway'
  BY <1>9 DEF ReadClock, Underway, TypeOK, Quiet, NoneUnderway
<1>10. CASE CompareExchange
  BY <1>10 DEF CompareExchange, Underway, TypeOK, Quiet, NoneUnderway
<1>11. CASE Die
  BY <1>11 DEF Die, Underway, TypeOK, Quiet, NoneUnderway
<1>12. CASE Tick
  BY <1>12 DEF Tick, Underway, TypeOK, Quiet, NoneUnderway
<1>. QED BY <1>1, <1>2, <1>3, <1>4, <1>5, <1>6, <1>7, <1>8, <1>9, <1>10, <1>11, <1>12 DEF Next

LEMMA NextQuiet ==
  ASSUME Quiet, TypeOK, Underway, Prepared, Next
  PROVE  Quiet'
<1>. USE PingAssumption DEF roomVars, wireVars, pongVars
<1>1. CASE Start
  BY <1>1 DEF Start, Quiet, TypeOK, Underway, Prepared, NoneUnderway, TimedOut
<1>2. CASE LoadPing
  BY <1>2 DEF LoadPing, Quiet, TypeOK, Underway, Prepared, NoneUnderway, TimedOut
<1>3. CASE LoadPong
  BY <1>3 DEF LoadPong, Quiet, TypeOK, Underway, Prepared, NoneUnderway, TimedOut
<1>4. CASE StorePing
  BY <1>4 DEF StorePing, Quiet, TypeOK, Underway, Prepared, NoneUnderway, TimedOut
<1>5. CASE StorePong
  BY <1>5 DEF StorePong, Quiet, TypeOK, Underway, Prepared, NoneUnderway, TimedOut
<1>6. CASE Timeout
  BY <1>6 DEF Timeout, Quiet, TypeOK, Underway, Prepared, NoneUnderway, TimedOut
<1>7. CASE SendPing
  BY <1>7 DEF SendPing, Quiet, TypeOK, Underway, Prepared, NoneUnderway, TimedOut
<1>8. ASSUME NEW k \in pings, Answer(k)
       PROVE  Quiet'
  BY <1>8 DEF Answer, Quiet, TypeOK, Underway, Prepared, NoneUnderway, TimedOut
<1>9. ASSUME NEW k \in pongs, ReadClock(k)
       PROVE  Quiet'
  BY <1>9 DEF ReadClock, Quiet, TypeOK, Underway, Prepared, NoneUnderway, TimedOut
<1>10. CASE CompareExchange
  BY <1>10 DEF CompareExchange, Quiet, TypeOK, Underway, Prepared, NoneUnderway, TimedOut
<1>11. CASE Die
  BY <1>11 DEF Die, Quiet, TypeOK, Underway, Prepared, NoneUnderway, TimedOut
<1>12. CASE Tick
  BY <1>12 DEF Tick, Quiet, TypeOK, Underway, Prepared, NoneUnderway, TimedOut
<1>. QED BY <1>1, <1>2, <1>3, <1>4, <1>5, <1>6, <1>7, <1>8, <1>9, <1>10, <1>11, <1>12 DEF Next

LEMMA NextPrepared ==
  ASSUME Prepared, TypeOK, Late, Next
  PROVE  Prepared'
<1>. USE PingAssumption DEF roomVars, wireVars, pongVars
<1>1. CASE Start
  BY <1>1 DEF Start, Prepared, TypeOK
<1>2. CASE LoadPing
  BY <1>2 DEF LoadPing, Prepared, TypeOK
<1>3. CASE LoadPong
  BY <1>3 DEF LoadPong, Prepared, TypeOK
<1>4. CASE StorePing
  BY <1>4 DEF StorePing, Prepared, TypeOK
<1>5. CASE StorePong
  BY <1>5 DEF StorePong, Prepared, TypeOK
<1>6. CASE Timeout
  BY <1>6 DEF Timeout, Prepared, TypeOK, Late
<1>7. CASE SendPing
  BY <1>7 DEF SendPing, Prepared, TypeOK
<1>8. ASSUME NEW k \in pings, Answer(k)
       PROVE  Prepared'
  BY <1>8 DEF Answer, Prepared, TypeOK
<1>9. ASSUME NEW k \in pongs, ReadClock(k)
       PROVE  Prepared'
  BY <1>9 DEF ReadClock, Prepared, TypeOK
<1>10. CASE CompareExchange
  BY <1>10 DEF CompareExchange, Prepared, TypeOK
<1>11. CASE Die
  BY <1>11 DEF Die, Prepared, TypeOK
<1>12. CASE Tick
  BY <1>12 DEF Tick, Prepared, TypeOK
<1>. QED BY <1>1, <1>2, <1>3, <1>4, <1>5, <1>6, <1>7, <1>8, <1>9, <1>10, <1>11, <1>12 DEF Next

LEMMA NextAnswers ==
  ASSUME Answers, TypeOK, Underway, Quiet, Prepared, Next
  PROVE  Answers'
<1>. USE PingAssumption DEF roomVars, wireVars, pongVars
<1>1. CASE Start
  BY <1>1 DEF Start, Answers, TypeOK, Underway, Quiet, Prepared, NoneUnderway
<1>2. CASE LoadPing
  BY <1>2 DEF LoadPing, Answers, TypeOK, Underway, Quiet, Prepared, NoneUnderway
<1>3. CASE LoadPong
  BY <1>3 DEF LoadPong, Answers, TypeOK, Underway, Quiet, Prepared, NoneUnderway
<1>4. CASE StorePing
  BY <1>4 DEF StorePing, Answers, TypeOK, Underway, Quiet, Prepared, NoneUnderway
<1>5. CASE StorePong
  BY <1>5 DEF StorePong, Answers, TypeOK, Underway, Quiet, Prepared, NoneUnderway
<1>6. CASE Timeout
  BY <1>6 DEF Timeout, Answers, TypeOK, Underway, Quiet, Prepared, NoneUnderway
<1>7. CASE SendPing
  BY <1>7 DEF SendPing, Answers, TypeOK, Underway, Quiet, Prepared, NoneUnderway
<1>8. ASSUME NEW k \in pings, Answer(k)
       PROVE  Answers'
  BY <1>8 DEF Answer, Answers, TypeOK, Underway, Quiet, Prepared, NoneUnderway
<1>9. ASSUME NEW k \in pongs, ReadClock(k)
       PROVE  Answers'
  BY <1>9 DEF ReadClock, Answers, TypeOK, Underway, Quiet, Prepared, NoneUnderway
<1>10. CASE CompareExchange
  BY <1>10 DEF CompareExchange, Answers, TypeOK, Underway, Quiet, Prepared, NoneUnderway
<1>11. CASE Die
  BY <1>11 DEF Die, Answers, TypeOK, Underway, Quiet, Prepared, NoneUnderway
<1>12. CASE Tick
  BY <1>12 DEF Tick, Answers, TypeOK, Underway, Quiet, Prepared, NoneUnderway
<1>. QED BY <1>1, <1>2, <1>3, <1>4, <1>5, <1>6, <1>7, <1>8, <1>9, <1>10, <1>11, <1>12 DEF Next

LEMMA NextLate ==
  ASSUME Late, TypeOK, Prepared, Answers, Apart, Underway, Next
  PROVE  Late'
<1>. USE PingAssumption DEF roomVars, wireVars, pongVars
<1>1. CASE Start
  BY <1>1 DEF Start, Late, TypeOK, Prepared, Answers, Apart, Underway, TimedOut
<1>2. CASE LoadPing
  BY <1>2 DEF LoadPing, Late, TypeOK, Prepared, Answers, Apart, Underway, TimedOut
<1>3. CASE LoadPong
  <2>. SUFFICES ASSUME TimedOut
       PROVE  number > 0 /\ (answered = 0 \/ answered - lastPing > pongTimeout)
    BY <1>3 DEF LoadPong, Late
  <2>1. /\ seenPing = lastPing /\ lastPing > 0 /\ number > 0 /\ pc = "loadpong"
        /\ pongTime = 0 \/ Elapsed(pongTime, seenPing) > pongTimeout
    BY <1>3 DEF LoadPong, TimedOut, Prepared
  <2>2. CASE pongTime = 0
    BY <2>1, <2>2 DEF Answers
  <2>3. CASE pongTime # 0
    <3>1. /\ pongTime \in Nat /\ lastPing \in Nat /\ answered \in Nat
          /\ lastPing <= pongTime /\ pongTime <= MaxNow /\ pongTime <= answered
      BY <2>1, <2>3 DEF Answers, TypeOK
    <3>2. Elapsed(pongTime, lastPing) = pongTime - lastPing
      BY <3>1, ElapsedIs
    <3>3. pongTime - lastPing > pongTimeout
      BY <2>1, <2>3, <3>2
    <3>. QED BY <2>1, <3>1, <3>3
  <2>. QED BY <2>2, <2>3
<1>4. CASE StorePing
  BY <1>4 DEF StorePing, Late, TypeOK, Prepared, Answers, Apart, Underway, TimedOut
<1>5. CASE StorePong
  BY <1>5 DEF StorePong, Late, TypeOK, Prepared, Answers, Apart, Underway, TimedOut
<1>6. CASE Timeout
  BY <1>6 DEF Timeout, Late, TypeOK, Prepared, Answers, Apart, Underway, TimedOut
<1>7. CASE SendPing
  BY <1>7 DEF SendPing, Late, TypeOK, Prepared, Answers, Apart, Underway, TimedOut
<1>8. ASSUME NEW k \in pings, Answer(k)
       PROVE  Late'
  BY <1>8 DEF Answer, Late, TypeOK, Prepared, Answers, Apart, Underway, TimedOut
<1>9. ASSUME NEW k \in pongs, ReadClock(k)
       PROVE  Late'
  BY <1>9 DEF ReadClock, Late, TypeOK, Prepared, Answers, Apart, Underway, TimedOut
<1>10. CASE CompareExchange
  BY <1>10 DEF CompareExchange, Late, TypeOK, Prepared, Answers, Apart, Underway, TimedOut
<1>11. CASE Die
  BY <1>11 DEF Die, Late, TypeOK, Prepared, Answers, Apart, Underway, TimedOut
<1>12. CASE Tick
  BY <1>12 DEF Tick, Late, TypeOK, Prepared, Answers, Apart, Underway, TimedOut
<1>. QED BY <1>1, <1>2, <1>3, <1>4, <1>5, <1>6, <1>7, <1>8, <1>9, <1>10, <1>11, <1>12 DEF Next

LEMMA NextApart ==
  ASSUME Apart, TypeOK, Prepared, Next
  PROVE  Apart'
<1>. USE PingAssumption DEF roomVars, wireVars, pongVars
<1>1. CASE Start
  BY <1>1 DEF Start, Apart, TypeOK, Prepared
<1>2. CASE LoadPing
  BY <1>2 DEF LoadPing, Apart, TypeOK, Prepared
<1>3. CASE LoadPong
  BY <1>3 DEF LoadPong, Apart, TypeOK, Prepared
<1>4. CASE StorePing
  BY <1>4 DEF StorePing, Apart, TypeOK, Prepared
<1>5. CASE StorePong
  BY <1>5 DEF StorePong, Apart, TypeOK, Prepared
<1>6. CASE Timeout
  BY <1>6 DEF Timeout, Apart, TypeOK, Prepared
<1>7. CASE SendPing
  BY <1>7 DEF SendPing, Apart, TypeOK, Prepared
<1>8. ASSUME NEW k \in pings, Answer(k)
       PROVE  Apart'
  BY <1>8 DEF Answer, Apart, TypeOK, Prepared
<1>9. ASSUME NEW k \in pongs, ReadClock(k)
       PROVE  Apart'
  BY <1>9 DEF ReadClock, Apart, TypeOK, Prepared
<1>10. CASE CompareExchange
  BY <1>10 DEF CompareExchange, Apart, TypeOK, Prepared
<1>11. CASE Die
  BY <1>11 DEF Die, Apart, TypeOK, Prepared
<1>12. CASE Tick
  BY <1>12 DEF Tick, Apart, TypeOK, Prepared
<1>. QED BY <1>1, <1>2, <1>3, <1>4, <1>5, <1>6, <1>7, <1>8, <1>9, <1>10, <1>11, <1>12 DEF Next

LEMMA NextInTime ==
  ASSUME InTime, TypeOK, Next
  PROVE  InTime'
<1>. USE PingAssumption DEF roomVars, wireVars, pongVars
<1>1. CASE Start
  BY <1>1 DEF Start, InTime, TypeOK
<1>2. CASE LoadPing
  BY <1>2 DEF LoadPing, InTime, TypeOK
<1>3. CASE LoadPong
  BY <1>3 DEF LoadPong, InTime, TypeOK
<1>4. CASE StorePing
  BY <1>4 DEF StorePing, InTime, TypeOK
<1>5. CASE StorePong
  BY <1>5 DEF StorePong, InTime, TypeOK
<1>6. CASE Timeout
  BY <1>6 DEF Timeout, InTime, TypeOK
<1>7. CASE SendPing
  BY <1>7 DEF SendPing, InTime, TypeOK
<1>8. ASSUME NEW k \in pings, Answer(k)
       PROVE  InTime'
  BY <1>8 DEF Answer, InTime, TypeOK
<1>9. ASSUME NEW k \in pongs, ReadClock(k)
       PROVE  InTime'
  BY <1>9 DEF ReadClock, InTime, TypeOK
<1>10. CASE CompareExchange
  BY <1>10 DEF CompareExchange, InTime, TypeOK
<1>11. CASE Die
  BY <1>11 DEF Die, InTime, TypeOK
<1>12. CASE Tick
  BY <1>12 DEF Tick, InTime, TypeOK
<1>. QED BY <1>1, <1>2, <1>3, <1>4, <1>5, <1>6, <1>7, <1>8, <1>9, <1>10, <1>11, <1>12 DEF Next

LEMMA NextGone ==
  ASSUME Gone, TypeOK, Underway, Quiet, Prepared, InTime, Next
  PROVE  Gone'
<1>. USE PingAssumption DEF roomVars, wireVars, pongVars
<1>1. CASE Start
  BY <1>1 DEF Start, Gone, TypeOK, Underway, Quiet, Prepared, InTime, NoneUnderway, TimedOut, Doomed
<1>2. CASE LoadPing
  BY <1>2 DEF LoadPing, Gone, TypeOK, Underway, Quiet, Prepared, InTime, NoneUnderway, TimedOut, Doomed
<1>3. CASE LoadPong
  BY <1>3 DEF LoadPong, Gone, TypeOK, Underway, Quiet, Prepared, InTime, NoneUnderway, TimedOut, Doomed
<1>4. CASE StorePing
  BY <1>4 DEF StorePing, Gone, TypeOK, Underway, Quiet, Prepared, InTime, NoneUnderway, TimedOut, Doomed
<1>5. CASE StorePong
  BY <1>5 DEF StorePong, Gone, TypeOK, Underway, Quiet, Prepared, InTime, NoneUnderway, TimedOut, Doomed
<1>6. CASE Timeout
  BY <1>6 DEF Timeout, Gone, TypeOK, Underway, Quiet, Prepared, InTime, NoneUnderway, TimedOut, Doomed
<1>7. CASE SendPing
  BY <1>7 DEF SendPing, Gone, TypeOK, Underway, Quiet, Prepared, InTime, NoneUnderway, TimedOut, Doomed
<1>8. ASSUME NEW k \in pings, Answer(k)
       PROVE  Gone'
  BY <1>8 DEF Answer, Gone, TypeOK, Underway, Quiet, Prepared, InTime, NoneUnderway, TimedOut, Doomed
<1>9. ASSUME NEW k \in pongs, ReadClock(k)
       PROVE  Gone'
  BY <1>9 DEF ReadClock, Gone, TypeOK, Underway, Quiet, Prepared, InTime, NoneUnderway, TimedOut, Doomed
<1>10. CASE CompareExchange
  BY <1>10 DEF CompareExchange, Gone, TypeOK, Underway, Quiet, Prepared, InTime, NoneUnderway, TimedOut, Doomed
<1>11. CASE Die
  BY <1>11 DEF Die, Gone, TypeOK, Underway, Quiet, Prepared, InTime, NoneUnderway, TimedOut, Doomed
<1>12. CASE Tick
  BY <1>12 DEF Tick, Gone, TypeOK, Underway, Quiet, Prepared, InTime, NoneUnderway, TimedOut, Doomed
<1>. QED BY <1>1, <1>2, <1>3, <1>4, <1>5, <1>6, <1>7, <1>8, <1>9, <1>10, <1>11, <1>12 DEF Next

LEMMA NextInv == IInv /\ [Next]_vars => IInv'
<1>. SUFFICES ASSUME IInv, [Next]_vars PROVE IInv'
  OBVIOUS
<1>1. CASE Next
  BY <1>1, NextTypeOK, NextUnderway, NextQuiet, NextPrepared, NextAnswers, NextLate, NextApart,
     NextInTime, NextGone DEF IInv
<1>2. CASE UNCHANGED vars
  BY <1>2 DEF vars, roomVars, wireVars, pongVars, IInv, TypeOK, Underway, Quiet, NoneUnderway,
              Prepared, Answers, Late, Apart, InTime, Gone, Doomed
<1>. QED BY <1>1, <1>2

(* Every behaviour of the heartbeat satisfies the inductive invariant. *)
LEMMA Invariance == Spec => []IInv
BY InitInv, NextInv, PTL DEF Spec

-----------------------------------------------------------------------------
(* The variables keep their types, whatever the clock's bound. *)
THEOREM TypeCorrect == Spec => []TypeOK
<1>1. IInv => TypeOK
  BY DEF IInv
<1>. QED BY <1>1, Invariance, PTL

(* The stored answer is never older than the ping it is compared with. *)
THEOREM NeverWraps == Spec => []NoWrapAround
<1>1. IInv => NoWrapAround
  BY DEF IInv, Prepared, Answers, NoWrapAround
<1>. QED BY <1>1, Invariance, PTL

(* A client is cut off only when it did not answer in time. *)
THEOREM TimeoutsRight == Spec => NoFalseTimeout
<1>1. ASSUME IInv, [Next]_vars, connected, ~connected'
      PROVE  number > 0 /\ (answered = 0 \/ answered - lastPing > pongTimeout)
  <2>1. Timeout
    BY <1>1 DEF vars, Next, Start, LoadPing, LoadPong, StorePing, StorePong, SendPing, Answer,
                ReadClock, CompareExchange, Die, Tick
  <2>. QED BY <1>1, <2>1 DEF Timeout, IInv, Late
<1>2. IInv /\ [Next]_vars =>
        [connected /\ ~connected' =>
           number > 0 /\ (answered = 0 \/ answered - lastPing > pongTimeout)]_vars
  BY <1>1
<1>. QED BY <1>2, Invariance, PTL DEF Spec, NoFalseTimeout

(***************************************************************************)
(* A client that is gone is cut off within two intervals, each with the    *)
(* delay and the duration of SendPing.                                     *)
(***************************************************************************)
THEOREM ZombiesEnd == Spec => []ZombieBound
<1>1. ASSUME IInv PROVE ZombieBound
  BY <1>1, PingAssumption DEF IInv, TypeOK, InTime, Gone, ZombieBound
<1>. QED BY <1>1, Invariance, PTL

=============================================================================
