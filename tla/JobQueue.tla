------------------------------ MODULE JobQueue ------------------------------
(***************************************************************************)
(* ServerCore/JobQueue.cpp, with the LockQueue inside it and the global    *)
(* queue it hands itself to.  A JobQueue has no thread of its own: the     *)
(* atomic counter _jobCount decides which of the threads that push, or     *)
(* that drain the global queue, executes it.  One step of this module is   *)
(* one atomic operation of the code: a fetch_add, a fetch_sub, a           *)
(* LockQueue critical section, or the run of one job.                      *)
(***************************************************************************)
EXTENDS Naturals, Sequences, FiniteSets

CONSTANTS Thread,   \* worker threads, and the main thread
          Queue,    \* JobQueue objects (the rooms)
          Job,      \* jobs; each is created and posted once
          NoQueue,  \* the null JobQueue pointer
          NoJob     \* no job in hand

ASSUME ThreadAssumption == IsFiniteSet(Thread)
ASSUME NoQueueAssumption == NoQueue \notin Queue
ASSUME NoJobAssumption == NoJob \notin Job

VARIABLES
  jobCount,     \* JobQueue::_jobCount
  jobs,         \* JobQueue::_jobs, a LockQueue
  globalQueue,  \* GGlobalQueue, a LockQueue of JobQueues
  pc,           \* where each thread is in Push or Execute
  current,      \* LCurrentJobQueue (thread local)
  target,       \* the queue a thread is pushing to, or handing over
  pushing,      \* Push's parameter job
  prevCount,    \* Push's local prevCount
  batch,        \* Execute's local vector jobs: those not completed yet
  taken,        \* Execute's local jobCount: the size the vector had
  unsent,       \* jobs not created yet
  ran           \* history: jobs completed on behalf of each queue

sharedVars == <<jobCount, jobs, globalQueue>>
pushVars == <<target, pushing, prevCount>>
execVars == <<current, batch, taken>>
historyVars == <<unsent, ran>>
vars == <<jobCount, jobs, globalQueue, pc, current, target, pushing,
          prevCount, batch, taken, unsent, ran>>

Location == {"idle", "enqueue", "handoff", "popall", "run"}

Init ==
  /\ jobCount = [q \in Queue |-> 0]
  /\ jobs = [q \in Queue |-> <<>>]
  /\ globalQueue = <<>>
  /\ pc = [t \in Thread |-> "idle"]
  /\ current = [t \in Thread |-> NoQueue]
  /\ target = [t \in Thread |-> NoQueue]
  /\ pushing = [t \in Thread |-> NoJob]
  /\ prevCount = [t \in Thread |-> 0]
  /\ batch = [t \in Thread |-> <<>>]
  /\ taken = [t \in Thread |-> 0]
  /\ unsent = Job
  /\ ran = [q \in Queue |-> <<>>]

-----------------------------------------------------------------------------
(* Push.  Called by a thread outside of any Execute (a packet handler, the *)
(* timer, main) or by the job a thread is running: the head of its batch.  *)

MayPush(t) ==
  \/ pc[t] = "idle"
  \/ pc[t] = "run" /\ batch[t] # <<>>

(* Where the thread continues when Push returns. *)
Resume(t) == IF current[t] = NoQueue THEN "idle" ELSE "run"

(* _jobCount.fetch_add(1) *)
Announce(t, q, j) ==
  /\ MayPush(t)
  /\ j \in unsent
  /\ unsent' = unsent \ {j}
  /\ prevCount' = [prevCount EXCEPT ![t] = jobCount[q]]
  /\ jobCount' = [jobCount EXCEPT ![q] = @ + 1]
  /\ target' = [target EXCEPT ![t] = q]
  /\ pushing' = [pushing EXCEPT ![t] = j]
  /\ pc' = [pc EXCEPT ![t] = "enqueue"]
  /\ UNCHANGED <<jobs, globalQueue, execVars, ran>>

(* Mutant: _jobs is a stack. *)
AppendJobInFront(t) ==
  /\ pc[t] = "enqueue"
  /\ jobs' = [jobs EXCEPT ![target[t]] = <<pushing[t]>> \o @]
  /\ pushing' = [pushing EXCEPT ![t] = NoJob]
  /\ prevCount' = [prevCount EXCEPT ![t] = 0]

(* _jobs.Push(job) *)
AppendJob(t) ==
  /\ pc[t] = "enqueue"
  /\ jobs' = [jobs EXCEPT ![target[t]] = Append(@, pushing[t])]
  /\ pushing' = [pushing EXCEPT ![t] = NoJob]
  /\ prevCount' = [prevCount EXCEPT ![t] = 0]

(* Somebody else is responsible for the queue: Push returns. *)
EnqueueOnly(t) ==
  /\ AppendJob(t)
  /\ prevCount[t] # 0
  /\ target' = [target EXCEPT ![t] = NoQueue]
  /\ pc' = [pc EXCEPT ![t] = Resume(t)]
  /\ UNCHANGED <<jobCount, globalQueue, execVars, historyVars>>

(* Mutant: whoever pushes executes, first job or not. *)
EnqueueAndAlwaysExecute(t) ==
  /\ AppendJob(t)
  /\ current[t] = NoQueue
  /\ current' = [current EXCEPT ![t] = target[t]]
  /\ target' = [target EXCEPT ![t] = NoQueue]
  /\ pc' = [pc EXCEPT ![t] = "popall"]
  /\ UNCHANGED <<jobCount, globalQueue, batch, taken, historyVars>>

(* First job, and no queue being executed by this thread: Execute here. *)
EnqueueAndExecute(t) ==
  /\ AppendJob(t)
  /\ prevCount[t] = 0
  /\ current[t] = NoQueue
  /\ current' = [current EXCEPT ![t] = target[t]]
  /\ target' = [target EXCEPT ![t] = NoQueue]
  /\ pc' = [pc EXCEPT ![t] = "popall"]
  /\ UNCHANGED <<jobCount, globalQueue, batch, taken, historyVars>>

(* Mutant: a thread that is busy with a queue does not hand the other over. *)
EnqueueAndForget(t, pushOnly) ==
  /\ AppendJob(t)
  /\ prevCount[t] = 0
  /\ current[t] # NoQueue \/ pushOnly
  /\ target' = [target EXCEPT ![t] = NoQueue]
  /\ pc' = [pc EXCEPT ![t] = Resume(t)]
  /\ UNCHANGED <<jobCount, globalQueue, execVars, historyVars>>

(* First job, but the thread is busy with a queue, or the caller passed    *)
(* pushOnly: the queue goes to the global queue.                           *)
EnqueueAndHandOff(t, pushOnly) ==
  /\ AppendJob(t)
  /\ prevCount[t] = 0
  /\ current[t] # NoQueue \/ pushOnly
  /\ pc' = [pc EXCEPT ![t] = "handoff"]
  /\ UNCHANGED <<jobCount, globalQueue, target, execVars, historyVars>>

(* GGlobalQueue->Push(shared_from_this()), from Push and from Execute *)
HandOff(t) ==
  /\ pc[t] = "handoff"
  /\ globalQueue' = Append(globalQueue, target[t])
  /\ target' = [target EXCEPT ![t] = NoQueue]
  /\ pc' = [pc EXCEPT ![t] = Resume(t)]
  /\ UNCHANGED <<jobCount, jobs, pushing, prevCount, execVars, historyVars>>

-----------------------------------------------------------------------------
(* Execute. *)

(* GGlobalQueue->Pop(), then Execute on what it returned *)
StartFromGlobal(t) ==
  /\ pc[t] = "idle"
  /\ globalQueue # <<>>
  /\ current' = [current EXCEPT ![t] = Head(globalQueue)]
  /\ globalQueue' = Tail(globalQueue)
  /\ pc' = [pc EXCEPT ![t] = "popall"]
  /\ UNCHANGED <<jobCount, jobs, pushVars, batch, taken, historyVars>>

(* _jobs.PopAll(jobs).  A pusher that has announced but not yet appended   *)
(* its job is why the vector may come back empty.                          *)
PopAll(t) ==
  /\ pc[t] = "popall"
  /\ batch' = [batch EXCEPT ![t] = jobs[current[t]]]
  /\ taken' = [taken EXCEPT ![t] = Len(jobs[current[t]])]
  /\ jobs' = [jobs EXCEPT ![current[t]] = <<>>]
  /\ pc' = [pc EXCEPT ![t] = "run"]
  /\ UNCHANGED <<jobCount, globalQueue, pushVars, current, historyVars>>

(* jobs[i]->Execute() returns.  While it runs, its Push calls interleave:  *)
(* the thread is then in "enqueue" or "handoff" and comes back to "run".   *)
RunJob(t) ==
  /\ pc[t] = "run"
  /\ batch[t] # <<>>
  /\ ran' = [ran EXCEPT ![current[t]] = Append(@, Head(batch[t]))]
  /\ batch' = [batch EXCEPT ![t] = Tail(@)]
  /\ UNCHANGED <<sharedVars, pc, pushVars, current, taken, unsent>>

(* Mutant: one round of Execute retires one job, whatever PopAll returned. *)
SubtractOne(t) ==
  /\ pc[t] = "run"
  /\ batch[t] = <<>>
  /\ jobCount' = [jobCount EXCEPT ![current[t]] = @ - 1]
  /\ taken' = [taken EXCEPT ![t] = 0]
  /\ UNCHANGED <<jobs, globalQueue, pushing, prevCount, batch, historyVars>>

(* _jobCount.fetch_sub(jobCount), after the last job of the vector *)
Subtract(t) ==
  /\ pc[t] = "run"
  /\ batch[t] = <<>>
  /\ jobCount' = [jobCount EXCEPT ![current[t]] = @ - taken[t]]
  /\ taken' = [taken EXCEPT ![t] = 0]
  /\ UNCHANGED <<jobs, globalQueue, pushing, prevCount, batch, historyVars>>

RetireLast(t) ==
  /\ Subtract(t)
  /\ jobCount[current[t]] = taken[t]
  /\ current' = [current EXCEPT ![t] = NoQueue]
  /\ pc' = [pc EXCEPT ![t] = "idle"]
  /\ UNCHANGED target

(* Jobs are left, and LEndTickCount is not reached: next round. *)
RetireContinue(t) ==
  /\ Subtract(t)
  /\ jobCount[current[t]] # taken[t]
  /\ pc' = [pc EXCEPT ![t] = "popall"]
  /\ UNCHANGED <<current, target>>

(* Mutant: the thread leaves at the end of its tick and tells nobody. *)
RetireAndDrop(t) ==
  /\ Subtract(t)
  /\ jobCount[current[t]] # taken[t]
  /\ current' = [current EXCEPT ![t] = NoQueue]
  /\ pc' = [pc EXCEPT ![t] = "idle"]
  /\ UNCHANGED target

(* Jobs are left, and now >= LEndTickCount: give the queue away. *)
RetireExpired(t) ==
  /\ Subtract(t)
  /\ jobCount[current[t]] # taken[t]
  /\ current' = [current EXCEPT ![t] = NoQueue]
  /\ target' = [target EXCEPT ![t] = current[t]]
  /\ pc' = [pc EXCEPT ![t] = "handoff"]

-----------------------------------------------------------------------------

ExecuteStep(t) ==
  \/ PopAll(t) \/ RunJob(t)
  \/ RetireLast(t) \/ RetireContinue(t) \/ RetireExpired(t)

PushStep(t) ==
  \/ EnqueueOnly(t) \/ EnqueueAndExecute(t)
  \/ \E pushOnly \in BOOLEAN : EnqueueAndHandOff(t, pushOnly)
  \/ HandOff(t)

Next ==
  \E t \in Thread :
    \/ \E q \in Queue, j \in Job : Announce(t, q, j)
    \/ PushStep(t)
    \/ StartFromGlobal(t)
    \/ ExecuteStep(t)

Spec == Init /\ [][Next]_vars

(***************************************************************************)
(* A thread in the middle of Push or Execute keeps going (jobs             *)
(* terminate), and some worker keeps draining the global queue: every      *)
(* worker returns to DoGlobalQueueWork after each Dispatch (at most 10 ms). *)
(* WorkerThread.tla looks at that second assumption.                       *)
(***************************************************************************)
Fairness ==
  /\ \A t \in Thread : WF_vars(PushStep(t)) /\ WF_vars(ExecuteStep(t))
  /\ WF_vars(\E t \in Thread : StartFromGlobal(t))

FairSpec == Spec /\ Fairness

-----------------------------------------------------------------------------
(* Tokens: who is responsible for getting queue q executed. *)

Executing(t, q) == current[t] = q

HandingOver(t, q) ==
  /\ target[t] = q
  /\ \/ pc[t] = "enqueue" /\ prevCount[t] = 0
     \/ pc[t] = "handoff"

Scheduled(q) == \E i \in 1..Len(globalQueue) : globalQueue[i] = q

Holds(t, q) == Executing(t, q) \/ HandingOver(t, q)

(* Threads between the fetch_add and the append of a Push to q. *)
Pushers(q) == {t \in Thread : pc[t] = "enqueue" /\ target[t] = q}

-----------------------------------------------------------------------------
(* The types of the variables, and which locals mean something where. *)
TypeOK ==
  /\ jobCount \in [Queue -> Nat]
  /\ jobs \in [Queue -> Seq(Job)]
  /\ globalQueue \in Seq(Queue)
  /\ pc \in [Thread -> Location]
  /\ current \in [Thread -> Queue \cup {NoQueue}]
  /\ target \in [Thread -> Queue \cup {NoQueue}]
  /\ pushing \in [Thread -> Job \cup {NoJob}]
  /\ prevCount \in [Thread -> Nat]
  /\ batch \in [Thread -> Seq(Job)]
  /\ taken \in [Thread -> Nat]
  /\ unsent \in SUBSET Job
  /\ ran \in [Queue -> Seq(Job)]

(***************************************************************************)
(* A room's jobs are run by one thread at a time (WorkerThread.md: "one    *)
(* thread at a time accesses the Room's data"), although any thread that   *)
(* pushes to it or drains the global queue may be the one.  This is the    *)
(* only reason Room has no lock.                                           *)
(***************************************************************************)
MutualExclusion ==
  \A t, u \in Thread, q \in Queue :
    Executing(t, q) /\ Executing(u, q) => t = u

(***************************************************************************)
(* No lost wakeup: as long as a queue has announced jobs, exactly one      *)
(* party is responsible for running it - a thread that executes it, a      *)
(* thread about to, or one entry of the global queue - and nobody is when  *)
(* it has none.                                                            *)
(***************************************************************************)
OneToken ==
  \A q \in Queue :
    /\ jobCount[q] > 0 <=> Scheduled(q) \/ \E t \in Thread : Holds(t, q)
    /\ \A t, u \in Thread : Holds(t, q) /\ Holds(u, q) => t = u
    /\ \A t \in Thread : ~(Holds(t, q) /\ Scheduled(q))
    /\ \A i, k \in 1..Len(globalQueue) :
         globalQueue[i] = q /\ globalQueue[k] = q => i = k

(***************************************************************************)
(* _jobCount counts what it should: the jobs in _jobs, those announced and *)
(* not appended yet, and those of the vector of the thread that executes   *)
(* the queue.  fetch_sub therefore reaches 0 exactly when nothing is left. *)
(***************************************************************************)
CountIsExact ==
  \A q \in Queue :
    LET waiting == Len(jobs[q]) + Cardinality(Pushers(q))
    IN  /\ (\A t \in Thread : ~Executing(t, q)) => jobCount[q] = waiting
        /\ \A t \in Thread : Executing(t, q) => jobCount[q] = waiting + taken[t]

(***************************************************************************)
(* The mailbox of queue q is what the executing thread still has in its    *)
(* vector, followed by _jobs.                                              *)
(***************************************************************************)
RestOfBatch(q) ==
  LET held == {t \in Thread : current[t] = q}
  IN  IF held = {} THEN <<>> ELSE batch[CHOOSE t \in held : TRUE]

Actor == INSTANCE ActorQueue
  WITH mailbox <- [q \in Queue |-> RestOfBatch(q) \o jobs[q]],
       unsent <- unsent \cup {pushing[t] : t \in {u \in Thread : pc[u] = "enqueue"}}

(* Every queue is an actor's mailbox: FIFO, one job at a time, each job    *)
(* once, none lost; and as long as it has jobs, it is served.              *)
ImplementsFairActorQueue == Actor!FairSpec

=============================================================================
