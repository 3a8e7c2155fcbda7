---------------------------- MODULE RateLimiter ----------------------------
(***************************************************************************)
(* GameServer/RateLimiter.cpp: a TokenBucket for one packet id of one      *)
(* session, as GameSession::OnRecvPacket uses it - the packet is handled   *)
(* or the session is disconnected.  The name is the code's: the bucket is  *)
(* refilled to the brim by the first packet that comes a second or more    *)
(* after the last refill.                                                  *)
(***************************************************************************)
EXTENDS Naturals, Sequences, FiniteSets

CONSTANTS maxTokens,  \* AddRule(PKT_C2S_MOVE, 10)
          Second,     \* 1000 ms
          MaxNow      \* bound on the clock

ASSUME RateAssumption == maxTokens \in Nat /\ Second \in Nat \ {0} /\ MaxNow \in Nat

VARIABLES
  now,         \* GetTickCount64
  tokens,      \* _tokens
  lastRefill,  \* _lastRefillTime
  connected,   \* the session's _connected
  handled      \* history: the times at which a packet was handled, in order

vars == <<now, tokens, lastRefill, connected, handled>>

(* AddRule, in OnConnected *)
Init ==
  /\ now \in 0..MaxNow
  /\ tokens = maxTokens /\ lastRefill = now
  /\ connected = TRUE /\ handled = <<>>

(* Mutant: the bucket is filled only after more than a second. *)
RefillOverdue == now - lastRefill > Second

RefillDue == now - lastRefill >= Second

(* Mutant: the time of the refill is not taken. *)
RefillKeepTime == [tokens |-> IF RefillDue THEN maxTokens ELSE tokens, time |-> lastRefill]

(* Refill: what the two fields become. *)
Refill == [tokens |-> IF RefillDue THEN maxTokens ELSE tokens,
           time |-> IF RefillDue THEN now ELSE lastRefill]

(* TryConsume, and the handler - also of a session that is disconnected,   *)
(* when OnRecv has more packets at hand (PacketStream.tla).                *)
Handle ==
  /\ Refill.tokens > 0
  /\ tokens' = Refill.tokens - 1
  /\ lastRefill' = Refill.time
  /\ handled' = Append(handled, now)
  /\ UNCHANGED <<now, connected>>

Reject ==
  /\ Refill.tokens = 0
  /\ tokens' = 0
  /\ lastRefill' = Refill.time
  /\ connected' = FALSE
  /\ UNCHANGED <<now, handled>>

Tick ==
  /\ now < MaxNow
  /\ now' = now + 1
  /\ UNCHANGED <<tokens, lastRefill, connected, handled>>

Next == Handle \/ Reject \/ Tick

Spec == Init /\ [][Next]_vars

-----------------------------------------------------------------------------
(* The packets handled from time a on and before a + Second *)
InSecond(a) == Cardinality({i \in 1..Len(handled) : a <= handled[i] /\ handled[i] < a + Second})

(* The types of the variables. *)
TypeOK ==
  /\ now \in 0..MaxNow
  /\ tokens \in 0..maxTokens
  /\ lastRefill \in 0..now
  /\ connected \in BOOLEAN
  /\ handled \in Seq(0..MaxNow)

(* A client that keeps to the rule is never disconnected: one that was had *)
(* maxTokens packets handled in less than a second before.                 *)
OnlyOffendersRejected ==
  [][LET n == Len(handled)
     IN  connected /\ ~connected' =>
           n >= maxTokens /\ (maxTokens > 0 => now - handled[n - maxTokens + 1] < Second)]_vars

(* What the bucket does guarantee: no second, wherever it begins, sees     *)
(* more than twice maxTokens packets.                                      *)
AtMostTwice == \A a \in 0..now : InSecond(a) <= 2 * maxTokens

=============================================================================
