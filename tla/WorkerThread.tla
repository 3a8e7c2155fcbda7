---------------------------- MODULE WorkerThread ----------------------------
(***************************************************************************)
(* The loop every worker runs (GameServer.cpp, DoWorkerJob): handle one    *)
(* I/O completion, distribute the timers that are due, drain the global    *)
(* queue until the tick is used up.  ThreadManager.cpp and JobTimer.cpp    *)
(* are modelled whole; Push and Execute are the actions of JobQueue, here  *)
(* with the clock that decides whether Execute gives a queue away.         *)
(* Every time of GetTickCount64 is kept relative to now, so that the clock *)
(* goes on for ever: a Tick brings each of them one nearer, or, once it is *)
(* past, takes it one further away, until it is MaxAge ago.                *)
(***************************************************************************)
EXTENDS JobQueue, Integers

CONSTANTS WORKER_TICK,   \* length of a worker's tick
          MaxAge,        \* bound: times longer ago are not told apart
          MaxDelay,      \* bound on the tickAfter a job passes to DoTimer
          InitialTimers  \* timers Room::Init reserved before the workers start

TimerItem == [executeTick : (-MaxAge)..MaxDelay, owner : Queue, job : Job]

ASSUME TickAssumption == WORKER_TICK \in Nat /\ MaxAge \in Nat \ {0} /\ MaxDelay \in Nat
(* Each DoTimer makes a job of its own. *)
ASSUME InitialTimersAssumption ==
  /\ InitialTimers \in SUBSET TimerItem
  /\ \A i, k \in InitialTimers : i.job = k.job => i = k

NoTimer == [executeTick |-> 0, owner |-> NoQueue, job |-> NoJob]

VARIABLES
  stage,         \* where each worker is in DoWorkerJob
  endTick,       \* LEndTickCount (thread local)
  seenNow,       \* DistributeReservedJobs's local now
  timers,        \* JobTimer::_items
  distributing,  \* JobTimer::_distributing
  due,           \* Distribute's local vector items: those not pushed yet
  reserving      \* a TimerItem Reserve has made and not inserted yet

timerVars == <<timers, distributing, due, reserving>>
loopVars == <<stage, endTick, seenNow>>
workerVars == <<stage, endTick, seenNow, timers, distributing, due, reserving>>
allVars == <<vars, workerVars>>

Stage == {"loop", "dispatch", "claim", "take", "deliver", "global", "pop"}

WInit ==
  /\ Init
  /\ stage = [t \in Thread |-> "loop"]
  /\ endTick = [t \in Thread |-> 0]
  /\ seenNow = [t \in Thread |-> 0]
  /\ timers = InitialTimers
  /\ distributing = FALSE
  /\ due = [t \in Thread |-> {}]
  /\ reserving = [t \in Thread |-> NoTimer]

(* Every timer item that exists, wherever it is. *)
Pending == timers \cup (UNION {due[t] : t \in Thread})
             \cup {reserving[t] : t \in {u \in Thread : reserving[u] # NoTimer}}

(* A job that nobody has posted and no timer holds: a new one. *)
IsNew(j) == j \in unsent /\ \A i \in Pending : i.job # j

At(t, s) == stage[t] = s /\ pc[t] = "idle"
Goto(t, s) == stage' = [stage EXCEPT ![t] = s]

-----------------------------------------------------------------------------
(* The loop of DoWorkerJob. *)

(* LEndTickCount = GetTickCount64() + WORKER_TICK *)
BeginTick(t) ==
  /\ At(t, "loop")
  /\ endTick' = [endTick EXCEPT ![t] = WORKER_TICK]
  /\ Goto(t, "dispatch")
  /\ UNCHANGED <<vars, seenNow, timerVars>>

(* IocpCore::Dispatch runs packet handlers, which post jobs to rooms. *)
HandlePacket(t) ==
  /\ At(t, "dispatch")
  /\ \E q \in Queue, j \in Job : IsNew(j) /\ Announce(t, q, j)
  /\ UNCHANGED workerVars

(* Dispatch returns; DistributeReservedJobs reads the clock. *)
EndDispatch(t) ==
  /\ At(t, "dispatch")
  /\ seenNow' = [seenNow EXCEPT ![t] = 0]
  /\ Goto(t, "claim")
  /\ UNCHANGED <<vars, endTick, timerVars>>

(* Mutant: the flag is set without looking at its old value. *)
ClaimUnconditionally(t) ==
  /\ At(t, "claim")
  /\ distributing' = TRUE
  /\ Goto(t, "take")
  /\ UNCHANGED <<vars, endTick, seenNow, timers, due, reserving>>

(* _distributing.exchange(true): one thread distributes, the others skip. *)
ClaimDistribution(t) ==
  /\ At(t, "claim")
  /\ ~distributing
  /\ distributing' = TRUE
  /\ Goto(t, "take")
  /\ UNCHANGED <<vars, endTick, seenNow, timers, due, reserving>>

SkipDistribution(t) ==
  /\ At(t, "claim")
  /\ distributing
  /\ Goto(t, "global")
  /\ UNCHANGED <<vars, endTick, seenNow, timerVars>>

(* Mutant: the items that are due are not popped from the heap. *)
TakeDueAndKeep(t) ==
  /\ At(t, "take")
  /\ due' = [due EXCEPT ![t] = {i \in timers : i.executeTick <= seenNow[t]}]
  /\ Goto(t, "deliver")
  /\ UNCHANGED <<vars, endTick, seenNow, timers, distributing, reserving>>

(* Under the lock, pop every item whose executeTick has come. *)
TakeDue(t) ==
  /\ At(t, "take")
  /\ due' = [due EXCEPT ![t] = {i \in timers : i.executeTick <= seenNow[t]}]
  /\ timers' = {i \in timers : i.executeTick > seenNow[t]}
  /\ Goto(t, "deliver")
  /\ UNCHANGED <<vars, endTick, seenNow, distributing, reserving>>

(* owner->Push(job), items in the order the heap gave them: by executeTick. *)
Deliver(t) ==
  /\ At(t, "deliver")
  /\ \E i \in due[t] :
       /\ \A k \in due[t] : i.executeTick <= k.executeTick
       /\ Announce(t, i.owner, i.job)
       /\ due' = [due EXCEPT ![t] = @ \ {i}]
  /\ UNCHANGED <<loopVars, timers, distributing, reserving>>

(* Mutant: the flag is not given back. *)
EndDistributionKeepFlag(t) ==
  /\ At(t, "deliver")
  /\ due[t] = {}
  /\ Goto(t, "global")
  /\ UNCHANGED <<vars, endTick, seenNow, timerVars>>

(* _distributing.store(false) *)
EndDistribution(t) ==
  /\ At(t, "deliver")
  /\ due[t] = {}
  /\ distributing' = FALSE
  /\ Goto(t, "global")
  /\ UNCHANGED <<vars, endTick, seenNow, timers, due, reserving>>

(* DoGlobalQueueWork: one queue after the other while now <= LEndTickCount *)
CheckTick(t) ==
  /\ At(t, "global")
  /\ endTick[t] >= 0
  /\ Goto(t, "pop")
  /\ UNCHANGED <<vars, endTick, seenNow, timerVars>>

EndTick(t) ==
  /\ At(t, "global")
  /\ endTick[t] < 0
  /\ Goto(t, "loop")
  /\ UNCHANGED <<vars, endTick, seenNow, timerVars>>

TakeFromGlobal(t) ==
  /\ stage[t] = "pop"
  /\ StartFromGlobal(t)
  /\ Goto(t, "global")
  /\ UNCHANGED <<endTick, seenNow, timerVars>>

PopNothing(t) ==
  /\ At(t, "pop")
  /\ globalQueue = <<>>
  /\ Goto(t, "loop")
  /\ UNCHANGED <<vars, endTick, seenNow, timerVars>>

-----------------------------------------------------------------------------
(* Push and Execute, wherever in the loop they were called. *)

Continue(t) == endTick[t] > 0 /\ RetireContinue(t)

(* Mutant: an expired worker leaves without handing its queue over. *)
ExpireAndDrop(t) == endTick[t] <= 0 /\ RetireAndDrop(t)

Expire(t) == endTick[t] <= 0 /\ RetireExpired(t)

(* No caller of Push passes pushOnly. *)
QueueStep(t) ==
  /\ \/ EnqueueOnly(t) \/ EnqueueAndExecute(t)
     \/ EnqueueAndHandOff(t, FALSE) \/ HandOff(t)
     \/ PopAll(t) \/ (reserving[t] = NoTimer /\ RunJob(t))
     \/ RetireLast(t) \/ Continue(t) \/ Expire(t)
  /\ UNCHANGED workerVars

(* A running job: DoAsync on some room, *)
PushFromJob(t) ==
  /\ pc[t] = "run"
  /\ reserving[t] = NoTimer
  /\ \E q \in Queue, j \in Job : IsNew(j) /\ Announce(t, q, j)
  /\ UNCHANGED workerVars

(* or DoTimer on its own room: Reserve reads the clock, *)
Reserve(t) ==
  /\ pc[t] = "run" /\ batch[t] # <<>>
  /\ reserving[t] = NoTimer
  /\ \E tickAfter \in 1..MaxDelay, j \in Job :
       /\ IsNew(j)
       /\ reserving' = [reserving EXCEPT ![t] =
            [executeTick |-> tickAfter, owner |-> current[t], job |-> j]]
  /\ UNCHANGED <<vars, loopVars, timers, distributing, due>>

(* then takes the lock and inserts the item. *)
InsertTimer(t) ==
  /\ reserving[t] # NoTimer
  /\ timers' = timers \cup {reserving[t]}
  /\ reserving' = [reserving EXCEPT ![t] = NoTimer]
  /\ UNCHANGED <<vars, loopVars, distributing, due>>

(* The clock goes on.  A thread that stalls after it has read the clock,   *)
(* for longer than MaxAge, is taken to have read it MaxAge ago.            *)
Later(x) == IF x > -MaxAge THEN x - 1 ELSE x

LaterItem(i) == [i EXCEPT !.executeTick = Later(@)]

Tick ==
  /\ endTick' = [t \in Thread |-> Later(endTick[t])]
  /\ seenNow' = [t \in Thread |-> Later(seenNow[t])]
  /\ timers' = {LaterItem(i) : i \in timers}
  /\ due' = [t \in Thread |-> {LaterItem(i) : i \in due[t]}]
  /\ reserving' = [t \in Thread |->
       IF reserving[t] = NoTimer THEN NoTimer ELSE LaterItem(reserving[t])]
  /\ UNCHANGED <<vars, stage, distributing>>

-----------------------------------------------------------------------------

LoopStep(t) ==
  \/ BeginTick(t) \/ EndDispatch(t) \/ ClaimDistribution(t) \/ SkipDistribution(t)
  \/ TakeDue(t) \/ Deliver(t) \/ EndDistribution(t)
  \/ CheckTick(t) \/ EndTick(t) \/ TakeFromGlobal(t) \/ PopNothing(t)

WNext ==
  \/ Tick
  \/ \E t \in Thread :
       \/ LoopStep(t) \/ QueueStep(t) \/ InsertTimer(t)
       \/ HandlePacket(t) \/ PushFromJob(t) \/ Reserve(t)

WSpec == WInit /\ [][WNext]_allVars

(***************************************************************************)
(* Threads are scheduled and time passes.  Packets and the pushes and      *)
(* reservations of jobs are the workload: nothing forces them.             *)
(***************************************************************************)
WFairness ==
  /\ WF_allVars(Tick)
  /\ \A t \in Thread :
       WF_allVars(LoopStep(t) \/ QueueStep(t) \/ InsertTimer(t))

(***************************************************************************)
(* An assumption about the load, which the code does not see to: again and *)
(* again some worker has not used its tick up before it comes to the       *)
(* global queue.  DoGlobalQueueWork tests the clock before the first Pop,  *)
(* so that workers whose Dispatch or Distribute takes WORKER_TICK or more  *)
(* each time never look at the global queue.                               *)
(***************************************************************************)
WorkersKeepUp == []<>(\E t \in Thread : stage[t] = "pop")

WFairSpec == WSpec /\ WFairness /\ WorkersKeepUp

-----------------------------------------------------------------------------
(* Types of the worker's variables. *)
WTypeOK ==
  /\ stage \in [Thread -> Stage]
  /\ endTick \in [Thread -> (-MaxAge)..WORKER_TICK]
  /\ seenNow \in [Thread -> (-MaxAge)..0]
  /\ timers \in SUBSET TimerItem
  /\ distributing \in BOOLEAN
  /\ due \in [Thread -> SUBSET TimerItem]
  /\ reserving \in [Thread -> TimerItem \cup {NoTimer}]

(***************************************************************************)
(* _distributing is a lock: it is set exactly while one thread is between  *)
(* its exchange and its store, also while that thread executes a room's    *)
(* jobs inside Distribute.                                                 *)
(***************************************************************************)
OneDistributor ==
  LET busy == {t \in Thread : stage[t] \in {"take", "deliver"}}
  IN  Cardinality(busy) = IF distributing THEN 1 ELSE 0

(***************************************************************************)
(* A reserved job has one owner from Reserve to Push: it is in one timer   *)
(* item in one place, and nobody has posted it yet.                        *)
(***************************************************************************)
TimerOwnedOnce ==
  /\ \A i, k \in Pending : i.job = k.job => i = k
  /\ \A i \in Pending : i.job \in unsent
  /\ \A t \in Thread : due[t] \cap timers = {} /\ reserving[t] \notin timers
  /\ \A t, u \in Thread : t # u => due[t] \cap due[u] = {}

(* A reserved job is eventually completed. *)
TimersFire ==
  \A j \in Job :
    (\E i \in Pending : i.job = j)
      ~> (\E q \in Queue : \E k \in 1..Len(ran[q]) : ran[q][k] = j)

(***************************************************************************)
(* As long as the workers keep up, the loop schedules queues as JobQueue   *)
(* assumes: its fairness holds.                                            *)
(***************************************************************************)
ImplementsFairJobQueue == FairSpec

=============================================================================
