------------------------- MODULE RateLimiterProofs -------------------------
(***************************************************************************)
(* Proofs about RateLimiter for every number of tokens, length of a second *)
(* and bound of the clock: no second sees more than twice maxTokens        *)
(* packets, and a client that keeps to the rule is not disconnected.       *)
(***************************************************************************)
EXTENDS RateLimiter, FiniteSetTheorems, TLAPS

(* Packets handled since the last refill. *)
Used == maxTokens - tokens

(* They are the last of handled, and came after the refill. *)
SinceRefill ==
  /\ Used <= Len(handled)
  /\ \A i \in 1..Len(handled) : i > Len(handled) - Used => handled[i] >= lastRefill

(* Those before them came before it, and those of the refill before it a   *)
(* second earlier: refills are a second apart, each gives maxTokens.       *)
BeforeRefill ==
  \A i \in 1..Len(handled) :
    /\ i <= Len(handled) - Used => handled[i] <= lastRefill
    /\ i <= Len(handled) - Used - maxTokens => handled[i] + Second <= lastRefill

(* The clock does not go back. *)
InOrder ==
  /\ \A i, k \in 1..Len(handled) : i <= k => handled[i] <= handled[k]
  /\ \A i \in 1..Len(handled) : handled[i] <= now

(* Of 2 * maxTokens + 1 packets the last comes a second after the first. *)
Spaced ==
  \A i, k \in 1..Len(handled) : i + 2 * maxTokens <= k => handled[i] + Second <= handled[k]

(* At each time, handled has a first packet that is not before it. *)
First(a, m) == m \in 1..(Len(handled) + 1) /\ \A i \in 1..Len(handled) : handled[i] < a <=> i < m

HasFirst == \A a \in Nat : \E m \in Nat : First(a, m)

IInv == TypeOK /\ SinceRefill /\ BeforeRefill /\ InOrder /\ Spaced /\ HasFirst

-----------------------------------------------------------------------------
(* The bucket begins full, with nothing handled. *)
LEMMA InitInv == Init => IInv
<1> SUFFICES ASSUME Init PROVE IInv
  OBVIOUS
<1>1. handled = <<>> /\ Len(handled) = 0 /\ Used = 0 /\ \A i : i \notin 1..Len(handled)
  BY RateAssumption DEF Init, Used
<1>2. TypeOK
  BY RateAssumption DEF Init, TypeOK
<1>3. \A a \in Nat : First(a, 1)
  BY <1>1 DEF First
<1>. QED BY <1>1, <1>2, <1>3 DEF IInv, SinceRefill, BeforeRefill, InOrder, Spaced, HasFirst

(* The numbers that the arithmetic is about. *)
LEMMA Numbers ==
  ASSUME TypeOK
  PROVE  /\ maxTokens \in Nat /\ Second \in Nat /\ Second > 0 /\ MaxNow \in Nat
         /\ now \in Nat /\ tokens \in Nat /\ tokens <= maxTokens
         /\ lastRefill \in Nat /\ lastRefill <= now
         /\ Used \in Nat /\ Used <= maxTokens /\ Used + tokens = maxTokens
         /\ Len(handled) \in Nat /\ \A i \in 1..Len(handled) : handled[i] \in Nat
<1>1. maxTokens \in Nat /\ Second \in Nat /\ Second > 0 /\ MaxNow \in Nat
  BY RateAssumption
<1>2. now \in 0..MaxNow /\ tokens \in 0..maxTokens /\ lastRefill \in 0..now
      /\ handled \in Seq(0..MaxNow)
  BY DEF TypeOK
<1>3. Len(handled) \in Nat /\ \A i \in 1..Len(handled) : handled[i] \in 0..MaxNow
  <2>1. \A S : handled \in Seq(S) =>
          Len(handled) \in Nat /\ \A i \in 1..Len(handled) : handled[i] \in S
    OBVIOUS
  <2>. QED BY <1>2, <2>1
<1>4. now \in Nat /\ tokens \in Nat /\ tokens <= maxTokens /\ lastRefill \in Nat /\ lastRefill <= now
  BY <1>1, <1>2
<1>5. Used \in Nat /\ Used <= maxTokens /\ Used + tokens = maxTokens
  BY <1>1, <1>4 DEF Used
<1>6. \A i \in 1..Len(handled) : handled[i] \in Nat
  BY <1>1, <1>3
<1>. QED BY <1>1, <1>3, <1>4, <1>5, <1>6

(* What handling a packet does to the history. *)
LEMMA Handled ==
  ASSUME TypeOK, Handle
  PROVE  /\ handled' \in Seq(0..MaxNow)
         /\ Len(handled') = Len(handled) + 1
         /\ handled'[Len(handled) + 1] = now
         /\ \A i \in 1..Len(handled) : handled'[i] = handled[i]
         /\ \A i \in 1..Len(handled') : i = Len(handled) + 1 \/ i \in 1..Len(handled)
<1>1. handled' = Append(handled, now) /\ handled \in Seq(0..MaxNow) /\ now \in 0..MaxNow
  BY DEF TypeOK, Handle
<1>2. /\ handled' \in Seq(0..MaxNow) /\ Len(handled') = Len(handled) + 1
      /\ handled'[Len(handled) + 1] = now /\ Len(handled) \in Nat
      /\ \A i \in 1..Len(handled) : handled'[i] = handled[i]
  BY <1>1
<1>. QED BY <1>2

(***************************************************************************)
(* A packet is handled with a token of the last refill, or of a new one:   *)
(* used is the number of those gone then, time when the refill was.        *)
(***************************************************************************)
LEMMA NextHandle ==
  ASSUME IInv, Handle
  PROVE  IInv'
<1> DEFINE n == Len(handled)
           h == handled
<1>0. TypeOK /\ SinceRefill /\ BeforeRefill /\ InOrder /\ Spaced /\ HasFirst /\ now' = now
  BY DEF IInv, Handle
<1>1. /\ maxTokens \in Nat /\ Second \in Nat /\ Second > 0 /\ MaxNow \in Nat
      /\ now \in Nat /\ tokens \in Nat /\ tokens <= maxTokens
      /\ lastRefill \in Nat /\ lastRefill <= now
      /\ Used \in Nat /\ Used <= maxTokens /\ Used + tokens = maxTokens
      /\ n \in Nat /\ \A i \in 1..n : h[i] \in Nat
  BY <1>0, Numbers
<1>2. /\ handled' \in Seq(0..MaxNow) /\ Len(handled') = n + 1 /\ handled'[n + 1] = now
      /\ \A i \in 1..n : handled'[i] = h[i]
      /\ \A i \in 1..Len(handled') : i = n + 1 \/ i \in 1..n
  BY <1>0, Handled
<1>3. \A i \in 1..n : h[i] <= now
  BY <1>0 DEF InOrder
<1>4. InOrder'
  <2>1. ASSUME NEW i \in 1..Len(handled'), NEW k \in 1..Len(handled'), i <= k
        PROVE  handled'[i] <= handled'[k]
    <3>1. CASE k = n + 1
      BY <1>1, <1>2, <1>3, <3>1
    <3>2. CASE k \in 1..n
      <4>1. i \in 1..n
        BY <1>1, <2>1, <3>2
      <4>. QED BY <1>0, <1>2, <2>1, <3>2, <4>1 DEF InOrder
    <3>. QED BY <1>2, <3>1, <3>2
  <2>2. ASSUME NEW i \in 1..Len(handled') PROVE handled'[i] <= now'
    BY <1>0, <1>1, <1>2, <1>3
  <2>. QED BY <2>1, <2>2 DEF InOrder
<1>5. PICK used, time :
        /\ used \in Nat /\ used < maxTokens /\ time \in Nat /\ time <= now
        /\ Used' = used + 1 /\ lastRefill' = time /\ tokens' \in 0..maxTokens
        /\ used <= n
        /\ \A i \in 1..n : i > n - used => h[i] >= time
        /\ \A i \in 1..n : i <= n - used => h[i] <= time
        /\ \A i \in 1..n : i <= n - used - maxTokens => h[i] + Second <= time
  <2>1. CASE RefillDue
    <3>1. /\ lastRefill + Second <= now /\ maxTokens > 0
          /\ tokens' = maxTokens - 1 /\ lastRefill' = now
      BY <1>1, <2>1 DEF Handle, Refill, RefillDue
    <3>2. Used' = 0 + 1 /\ tokens' \in 0..maxTokens
      BY <1>1, <3>1 DEF Used
    <3>3. ASSUME NEW i \in 1..n, i <= n - 0 - maxTokens PROVE h[i] + Second <= now
      <4>1. i <= n - Used
        BY <1>1, <3>3
      <4>2. h[i] <= lastRefill
        BY <1>0, <4>1 DEF BeforeRefill
      <4>. QED BY <1>1, <3>1, <4>2
    <3>4. \A i \in 1..n : ~(i > n - 0)
      BY <1>1
    <3>5. 0 < maxTokens /\ 0 \in Nat /\ now <= now /\ 0 <= n
      BY <1>1, <3>1
    <3>. QED BY <1>1, <1>3, <3>1, <3>2, <3>3, <3>4, <3>5
  <2>2. CASE ~RefillDue
    <3>1. tokens > 0 /\ tokens' = tokens - 1 /\ lastRefill' = lastRefill
      BY <1>1, <2>2 DEF Handle, Refill
    <3>2. Used' = Used + 1 /\ Used < maxTokens /\ tokens' \in 0..maxTokens
      BY <1>1, <3>1 DEF Used
    <3>3. /\ Used <= n
          /\ \A i \in 1..n : i > n - Used => h[i] >= lastRefill
          /\ \A i \in 1..n : i <= n - Used => h[i] <= lastRefill
          /\ \A i \in 1..n : i <= n - Used - maxTokens => h[i] + Second <= lastRefill
      BY <1>0 DEF SinceRefill, BeforeRefill
    <3>. QED BY <1>1, <3>1, <3>2, <3>3
  <2>. QED BY <2>1, <2>2
<1>6. TypeOK'
  <2>1. now \in 0..MaxNow /\ connected \in BOOLEAN /\ connected' = connected
    BY <1>0 DEF TypeOK, Handle
  <2>. QED BY <1>0, <1>2, <1>5, <2>1 DEF TypeOK
<1>7. SinceRefill'
  <2>1. ASSUME NEW i \in 1..Len(handled'), i > Len(handled') - Used'
        PROVE  handled'[i] >= lastRefill'
    <3>1. CASE i = n + 1
      BY <1>1, <1>2, <1>5, <3>1
    <3>2. CASE i \in 1..n
      <4>1. i > n - used
        BY <1>1, <1>2, <1>5, <2>1, <3>2
      <4>. QED BY <1>2, <1>5, <3>2, <4>1
    <3>. QED BY <1>2, <3>1, <3>2
  <2>. QED BY <1>1, <1>2, <1>5, <2>1 DEF SinceRefill
<1>8. BeforeRefill'
  <2>1. ASSUME NEW i \in 1..Len(handled'), i <= Len(handled') - Used'
        PROVE  i \in 1..n /\ i <= n - used
    BY <1>1, <1>2, <1>5, <2>1
  <2>2. ASSUME NEW i \in 1..Len(handled'), i <= Len(handled') - Used' - maxTokens
        PROVE  i \in 1..n /\ i <= n - used - maxTokens
    BY <1>1, <1>2, <1>5, <2>2
  <2>. QED BY <1>2, <1>5, <2>1, <2>2 DEF BeforeRefill
<1>9. Spaced'
  <2> SUFFICES ASSUME NEW i \in 1..Len(handled'), NEW k \in 1..Len(handled'),
                      i + 2 * maxTokens <= k
               PROVE  handled'[i] + Second <= handled'[k]
    BY DEF Spaced
  <2>1. i \in 1..n
    BY <1>1, <1>2, <1>5
  <2>2. CASE k = n + 1
    <3>1. i <= n - used - maxTokens
      BY <1>1, <1>5, <2>1, <2>2
    <3>2. h[i] + Second <= time
      BY <1>5, <2>1, <3>1
    <3>. QED BY <1>1, <1>2, <1>5, <2>1, <2>2, <3>2
  <2>3. CASE k \in 1..n
    BY <1>0, <1>2, <2>1, <2>3 DEF Spaced
  <2>. QED BY <1>2, <2>2, <2>3
<1>10. HasFirst'
  <2> SUFFICES ASSUME NEW a \in Nat PROVE \E m \in Nat : First(a, m)'
    BY DEF HasFirst
  <2>1. PICK m \in Nat : First(a, m)
    BY <1>0 DEF HasFirst
  <2>2. CASE now < a
    <3>1. PICK k \in Nat : k = n + 2
      BY <1>1
    <3>2. \A i \in 1..Len(handled') : handled'[i] < a /\ i < k
      BY <1>1, <1>2, <1>3, <2>2, <3>1
    <3>3. k \in 1..(Len(handled') + 1)
      BY <1>1, <1>2, <3>1
    <3>4. First(a, k)'
      BY <3>2, <3>3 DEF First
    <3>. QED BY <3>4
  <2>3. CASE ~(now < a)
    <3>1. \A i \in 1..Len(handled') : handled'[i] < a <=> i < m
      <4>1. ASSUME NEW i \in 1..n PROVE handled'[i] < a <=> i < m
        BY <1>1, <1>2, <2>1, <4>1 DEF First
      <4>2. ~(handled'[n + 1] < a) /\ ~(n + 1 < m)
        BY <1>1, <1>2, <2>1, <2>3 DEF First
      <4>. QED BY <1>1, <1>2, <4>1, <4>2
    <3>2. m \in 1..(Len(handled') + 1)
      BY <1>1, <1>2, <2>1 DEF First
    <3>3. First(a, m)'
      BY <3>1, <3>2 DEF First
    <3>. QED BY <3>3
  <2>. QED BY <2>2, <2>3
<1>. QED BY <1>4, <1>6, <1>7, <1>8, <1>9, <1>10 DEF IInv

(* A packet is rejected when the tokens of this second are used up. *)
LEMMA Rejected ==
  ASSUME TypeOK, Reject
  PROVE  tokens = 0 /\ (maxTokens > 0 => ~RefillDue)
BY RateAssumption DEF TypeOK, Reject, Refill

(* The invariant is inductive. *)
LEMMA NextInv == IInv /\ [Next]_vars => IInv'
<1> SUFFICES ASSUME IInv, [Next]_vars PROVE IInv'
  OBVIOUS
<1>0. TypeOK /\ SinceRefill /\ BeforeRefill /\ InOrder /\ Spaced /\ HasFirst
  BY DEF IInv
<1>a. ASSUME handled' = handled PROVE HasFirst'
  BY <1>0, <1>a DEF HasFirst, First
<1>1. CASE Handle
  BY <1>1, NextHandle
<1>2. CASE Reject
  <2>1. tokens' = 0 /\ tokens = 0 /\ handled' = handled /\ now' = now /\ connected' \in BOOLEAN
    BY <1>0, <1>2, Rejected DEF Reject
  <2>2. CASE maxTokens > 0
    <3>1. lastRefill' = lastRefill
      BY <1>0, <1>2, <2>2, Rejected DEF Reject, Refill
    <3>2. TypeOK'
      BY <1>0, <2>1, <3>1 DEF TypeOK
    <3>. QED
      BY <1>0, <1>a, <2>1, <3>1, <3>2
      DEF IInv, SinceRefill, BeforeRefill, InOrder, Spaced, Used
  <2>3. CASE maxTokens = 0
    <3>1. Len(handled) = 0 /\ Used = 0 /\ Used' = 0
      <4>1. \A i \in 1..Len(handled) : i + 2 * maxTokens <= i
        BY <2>3, <1>0, Numbers
      <4>2. \A i \in 1..Len(handled) : handled[i] + Second <= handled[i]
        BY <1>0, <4>1 DEF Spaced
      <4>3. Len(handled) \notin 1..Len(handled)
        BY <1>0, <4>2, Numbers
      <4>. QED BY <1>0, <2>1, <2>3, <4>3, Numbers DEF Used
    <3>2. lastRefill' = lastRefill \/ lastRefill' = now
      BY <1>2 DEF Reject, Refill
    <3>3. TypeOK'
      BY <1>0, <2>1, <3>2, Numbers DEF TypeOK
    <3>4. \A i : i \notin 1..Len(handled')
      BY <2>1, <3>1
    <3>5. Used' <= Len(handled')
      BY <2>1, <3>1
    <3>. QED
      BY <1>a, <2>1, <3>3, <3>4, <3>5 DEF IInv, SinceRefill, BeforeRefill, InOrder, Spaced
  <2>. QED BY <1>0, <2>2, <2>3, Numbers
<1>3. CASE Tick
  <2>1. UNCHANGED <<tokens, lastRefill, connected, handled>> /\ now' = now + 1 /\ now < MaxNow
    BY <1>3 DEF Tick
  <2>2. TypeOK'
    BY <1>0, <2>1, Numbers DEF TypeOK
  <2>3. SinceRefill' /\ BeforeRefill' /\ Spaced'
    BY <1>0, <2>1 DEF SinceRefill, BeforeRefill, Spaced, Used
  <2>4. InOrder'
    BY <1>0, <2>1, Numbers DEF InOrder
  <2>. QED BY <1>a, <2>1, <2>2, <2>3, <2>4 DEF IInv
<1>4. CASE UNCHANGED vars
  BY <1>0, <1>a, <1>4
  DEF vars, IInv, TypeOK, SinceRefill, BeforeRefill, InOrder, Spaced, Used
<1>. QED BY <1>1, <1>2, <1>3, <1>4 DEF Next

(* Every behaviour of the bucket satisfies the inductive invariant. *)
LEMMA Invariance == Spec => []IInv
BY InitInv, NextInv, PTL DEF Spec

-----------------------------------------------------------------------------
(* The variables of every reachable state have their types. *)
THEOREM TypeCorrect == Spec => []TypeOK
<1>1. IInv => TypeOK
  BY DEF IInv
<1>. QED BY <1>1, Invariance, PTL

(***************************************************************************)
(* No second, wherever it begins, sees more than 2 * maxTokens packets of  *)
(* one kind handled, whatever the rule AddRule was given.                  *)
(***************************************************************************)
THEOREM TwiceAtMost == Spec => []AtMostTwice
<1>1. IInv => AtMostTwice
  <2> SUFFICES ASSUME IInv, NEW a \in 0..now PROVE InSecond(a) <= 2 * maxTokens
    BY DEF AtMostTwice
  <2> DEFINE S == {i \in 1..Len(handled) : a <= handled[i] /\ handled[i] < a + Second}
  <2>0. /\ TypeOK /\ Spaced
        /\ maxTokens \in Nat /\ Second \in Nat /\ a \in Nat /\ Len(handled) \in Nat
        /\ \A i \in 1..Len(handled) : handled[i] \in Nat
    BY Numbers DEF IInv
  <2>1. CASE S = {}
    <3>1. Cardinality(S) = 0
      BY <2>1, FS_EmptySet
    <3>. QED BY <2>0, <3>1 DEF InSecond
  <2>2. CASE S # {}
    <3>1. PICK m \in Nat : First(a, m)
      BY <2>0 DEF IInv, HasFirst
    <3>2. ASSUME NEW i \in S PROVE i \in m..(m + 2 * maxTokens - 1)
      <4>1. i \in 1..Len(handled) /\ a <= handled[i] /\ handled[i] < a + Second
        OBVIOUS
      <4>2. m <= i
        BY <2>0, <3>1, <4>1 DEF First
      <4>3. m \in 1..Len(handled)
        BY <2>0, <3>1, <4>1, <4>2 DEF First
      <4>4. a <= handled[m]
        BY <2>0, <3>1, <4>3 DEF First
      <4>5. ~(m + 2 * maxTokens <= i)
        BY <2>0, <4>1, <4>3, <4>4 DEF Spaced
      <4>. QED BY <2>0, <4>1, <4>2, <4>5
    <3>3. /\ IsFiniteSet(m..(m + 2 * maxTokens - 1))
          /\ Cardinality(m..(m + 2 * maxTokens - 1)) <= 2 * maxTokens
      <4>1. PICK k \in Int : k = m + 2 * maxTokens - 1
        BY <2>0, <3>1
      <4>2. m \in Int /\ (m <= k => k - m + 1 = 2 * maxTokens) /\ 0 <= 2 * maxTokens
        BY <2>0, <3>1, <4>1
      <4>3. /\ IsFiniteSet(m..k)
            /\ Cardinality(m..k) = IF m > k THEN 0 ELSE k - m + 1
        BY <4>2, FS_Interval
      <4>4. Cardinality(m..k) <= 2 * maxTokens
        BY <2>0, <4>1, <4>2, <4>3
      <4>. QED BY <4>1, <4>3, <4>4
    <3>4. /\ S \subseteq m..(m + 2 * maxTokens - 1)
          /\ Cardinality(S) \in Nat /\ Cardinality(m..(m + 2 * maxTokens - 1)) \in Nat
      BY <3>2, <3>3, FS_Subset, FS_CardinalityType
    <3>5. Cardinality(S) <= Cardinality(m..(m + 2 * maxTokens - 1))
      BY <3>3, <3>4, FS_Subset
    <3>. QED BY <2>0, <3>3, <3>4, <3>5 DEF InSecond
  <2>. QED BY <2>1, <2>2
<1>. QED BY <1>1, Invariance, PTL

(***************************************************************************)
(* A client is cut off only when maxTokens packets of it have been handled *)
(* in less than a second: no client that keeps to the rule is.             *)
(***************************************************************************)
THEOREM OffendersRejected == Spec => OnlyOffendersRejected
<1>1. IInv /\ [Next]_vars =>
        [LET n == Len(handled)
         IN  connected /\ ~connected' =>
               n >= maxTokens /\ (maxTokens > 0 => now - handled[n - maxTokens + 1] < Second)]_vars
  <2> SUFFICES ASSUME IInv, [Next]_vars, connected, ~connected'
               PROVE  /\ Len(handled) >= maxTokens
                      /\ maxTokens > 0 => now - handled[Len(handled) - maxTokens + 1] < Second
    OBVIOUS
  <2>0. /\ TypeOK /\ SinceRefill /\ maxTokens \in Nat /\ Second \in Nat
        /\ Len(handled) \in Nat /\ \A i \in 1..Len(handled) : handled[i] \in Nat
        /\ now \in Nat /\ lastRefill \in Nat
    BY Numbers DEF IInv
  <2>1. Reject
    BY DEF Next, Handle, Tick, vars
  <2>2. Used = maxTokens /\ (maxTokens > 0 => now - lastRefill < Second)
    BY <2>0, <2>1, Rejected DEF Used, RefillDue
  <2>3. Len(handled) >= maxTokens
    BY <2>0, <2>2 DEF SinceRefill
  <2>4. ASSUME maxTokens > 0 PROVE handled[Len(handled) - maxTokens + 1] >= lastRefill
    BY <2>0, <2>2, <2>3, <2>4 DEF SinceRefill
  <2>. QED BY <2>0, <2>2, <2>3, <2>4
<1>. QED BY <1>1, Invariance, PTL DEF Spec, OnlyOffendersRejected

=============================================================================
