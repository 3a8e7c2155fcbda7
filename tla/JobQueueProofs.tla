--------------------------- MODULE JobQueueProofs ---------------------------
(***************************************************************************)
(* Proofs about JobQueue for every number of threads, queues and jobs:     *)
(* type correctness, exactly one party responsible for a queue with jobs,  *)
(* mutual exclusion of Execute, the exactness of _jobCount, and that every *)
(* queue is the mailbox of an actor.  Then about WorkerThread, which is a  *)
(* JobQueue with a clock.                                                  *)
(***************************************************************************)
EXTENDS WorkerThread, FiniteSetTheorems, SequenceTheorems, TLAPS

(* Which locals are live at which place of Push and Execute. *)
Locals ==
  \A t \in Thread :
    /\ pc[t] \in {"popall", "run"} => current[t] \in Queue
    /\ pc[t] = "idle" => current[t] = NoQueue
    /\ pc[t] \in {"enqueue", "handoff"} <=> target[t] \in Queue
    /\ pc[t] = "enqueue" => pushing[t] \in Job
    /\ pc[t] = "popall" \/ current[t] = NoQueue => taken[t] = 0 /\ batch[t] = <<>>
    /\ Len(batch[t]) <= taken[t]

(* A thread never both executes a queue and is about to hand it over. *)
OneRole == \A t \in Thread, q \in Queue : ~(Executing(t, q) /\ HandingOver(t, q))

IInv == TypeOK /\ Locals /\ OneToken /\ OneRole /\ CountIsExact

-----------------------------------------------------------------------------
(* Initially nothing is announced and no thread is in Push or Execute. *)
LEMMA InitInv == Init => IInv
<1> SUFFICES ASSUME Init PROVE IInv
  OBVIOUS
<1>1. TypeOK
  BY DEF Init, TypeOK, Location
<1>2. Locals
  BY NoQueueAssumption DEF Init, Locals
<1>3. OneToken /\ OneRole
  BY NoQueueAssumption
  DEF Init, OneToken, OneRole, Holds, Executing, HandingOver, Scheduled
<1>4. CountIsExact
  <2>1. ASSUME NEW q \in Queue PROVE Cardinality(Pushers(q)) = 0
    <3>1. Pushers(q) = {}
      BY DEF Init, Pushers
    <3>. QED BY <3>1, FS_EmptySet
  <2>2. ASSUME NEW q \in Queue, NEW t \in Thread PROVE ~Executing(t, q)
    BY NoQueueAssumption DEF Init, Executing
  <2>3. ASSUME NEW q \in Queue PROVE jobCount[q] = 0 /\ Len(jobs[q]) = 0
    BY DEF Init
  <2>. QED
    BY <2>1, <2>2, <2>3 DEF CountIsExact
<1>. QED BY <1>1, <1>2, <1>3, <1>4 DEF IInv

-----------------------------------------------------------------------------
(* Every step assigns every variable a value of its type. *)
LEMMA NextTypeOK == TypeOK /\ Locals /\ CountIsExact /\ [Next]_vars => TypeOK'
<1> SUFFICES ASSUME TypeOK, Locals, CountIsExact, [Next]_vars PROVE TypeOK'
  OBVIOUS
<1> USE DEF TypeOK
<1>1. ASSUME NEW t \in Thread, NEW q \in Queue, NEW j \in Job, Announce(t, q, j)
      PROVE  TypeOK'
  BY <1>1 DEF Announce, execVars, Location
<1>2. ASSUME NEW t \in Thread, PushStep(t) PROVE TypeOK'
  <2>0. CASE AppendJob(t)
    <3>1. target[t] \in Queue /\ pushing[t] \in Job
      BY <2>0 DEF AppendJob, Locals
    <3>2. jobs' \in [Queue -> Seq(Job)]
      BY <2>0, <3>1 DEF AppendJob
    <3>3. pushing' \in [Thread -> Job \cup {NoJob}] /\ prevCount' \in [Thread -> Nat]
      BY <2>0 DEF AppendJob
    <3>4. CASE EnqueueOnly(t)
      BY <3>2, <3>3, <3>4 DEF EnqueueOnly, execVars, historyVars, Location, Resume
    <3>5. CASE EnqueueAndExecute(t)
      BY <3>1, <3>2, <3>3, <3>5 DEF EnqueueAndExecute, historyVars, Location
    <3>6. ASSUME NEW pushOnly \in BOOLEAN, EnqueueAndHandOff(t, pushOnly) PROVE TypeOK'
      BY <3>2, <3>3, <3>6 DEF EnqueueAndHandOff, execVars, historyVars, Location
    <3>7. CASE HandOff(t)
      BY <2>0, <3>7 DEF HandOff, AppendJob
    <3>. QED BY <1>2, <3>4, <3>5, <3>6, <3>7 DEF PushStep
  <2>1. CASE HandOff(t)
    <3>1. target[t] \in Queue
      BY <2>1 DEF HandOff, Locals
    <3>. QED BY <2>1, <3>1 DEF HandOff, execVars, historyVars, Location, Resume
  <2>. QED
    BY <1>2, <2>0, <2>1
    DEF PushStep, EnqueueOnly, EnqueueAndExecute, EnqueueAndHandOff
<1>3. ASSUME NEW t \in Thread, StartFromGlobal(t) PROVE TypeOK'
  <2>1. /\ globalQueue # <<>>
        /\ current' = [current EXCEPT ![t] = Head(globalQueue)]
        /\ globalQueue' = Tail(globalQueue)
        /\ pc' = [pc EXCEPT ![t] = "popall"]
        /\ UNCHANGED <<jobCount, jobs, pushVars, batch, taken, historyVars>>
    BY <1>3 DEF StartFromGlobal
  <2>2. Head(globalQueue) \in Queue /\ globalQueue' \in Seq(Queue)
    BY <2>1
  <2>3. pc' \in [Thread -> Location]
    BY <2>1 DEF Location
  <2>. QED BY <2>1, <2>2, <2>3 DEF pushVars, historyVars
<1>4. ASSUME NEW t \in Thread, ExecuteStep(t) PROVE TypeOK'
  <2>0. pc[t] \in {"popall", "run"} => current[t] \in Queue
    BY DEF Locals
  <2>1. CASE PopAll(t)
    <3>1. current[t] \in Queue
      BY <2>0, <2>1 DEF PopAll
    <3>. QED BY <2>1, <3>1 DEF PopAll, pushVars, historyVars, Location
  <2>2. CASE RunJob(t)
    <3>1. current[t] \in Queue /\ Head(batch[t]) \in Job /\ Tail(batch[t]) \in Seq(Job)
      BY <2>0, <2>2 DEF RunJob
    <3>2. /\ batch' = [batch EXCEPT ![t] = Tail(@)]
          /\ ran' = [ran EXCEPT ![current[t]] = Append(@, Head(batch[t]))]
          /\ UNCHANGED <<sharedVars, pc, pushVars, current, taken, unsent>>
      BY <2>2 DEF RunJob
    <3>3. batch' \in [Thread -> Seq(Job)]
      BY <3>1, <3>2
    <3>4. ran' \in [Queue -> Seq(Job)]
      <4>1. Append(ran[current[t]], Head(batch[t])) \in Seq(Job)
        BY <3>1
      <4>. QED BY <3>1, <3>2, <4>1
    <3>. QED BY <3>2, <3>3, <3>4 DEF sharedVars, pushVars
  <2>3. CASE Subtract(t)
    <3>1. current[t] \in Queue
      BY <2>0, <2>3 DEF Subtract
    <3>2. jobCount[current[t]] = Len(jobs[current[t]]) + Cardinality(Pushers(current[t])) + taken[t]
      BY <3>1 DEF CountIsExact, Executing
    <3>3. Cardinality(Pushers(current[t])) \in Nat
      BY FS_Subset, FS_CardinalityType, ThreadAssumption DEF Pushers
    <3>4. jobCount[current[t]] - taken[t] \in Nat
      BY <3>1, <3>2, <3>3
    <3>5. jobCount' \in [Queue -> Nat] /\ taken' \in [Thread -> Nat]
      BY <2>3, <3>4 DEF Subtract
    <3>6. CASE RetireLast(t)
      BY <3>5, <3>6 DEF RetireLast, Subtract, historyVars, Location
    <3>7. CASE RetireContinue(t)
      BY <3>5, <3>7 DEF RetireContinue, Subtract, historyVars, Location
    <3>8. CASE RetireExpired(t)
      BY <3>5, <3>8 DEF RetireExpired, Subtract, historyVars, Location
    <3>. QED
      BY <1>4, <2>3, <3>6, <3>7, <3>8, <2>1, <2>2 DEF ExecuteStep
  <2>. QED
    BY <1>4, <2>1, <2>2, <2>3
    DEF ExecuteStep, RetireLast, RetireContinue, RetireExpired
<1>5. CASE UNCHANGED vars
  BY <1>5 DEF vars
<1>. QED BY <1>1, <1>2, <1>3, <1>4, <1>5 DEF Next

(* Locals keep their meaning, whatever the thread does. *)
LEMMA NextLocals == TypeOK /\ Locals /\ [Next]_vars => Locals'
<1> SUFFICES ASSUME TypeOK, Locals, [Next]_vars PROVE Locals'
  OBVIOUS
<1> USE NoQueueAssumption DEF TypeOK, Locals
<1>1. ASSUME NEW t \in Thread, NEW q \in Queue, NEW j \in Job, Announce(t, q, j)
      PROVE  Locals'
  BY <1>1 DEF Announce, MayPush, execVars
<1>2. ASSUME NEW t \in Thread, EnqueueOnly(t) PROVE Locals'
  BY <1>2 DEF EnqueueOnly, AppendJob, Resume, execVars
<1>3. ASSUME NEW t \in Thread, EnqueueAndExecute(t) PROVE Locals'
  BY <1>3 DEF EnqueueAndExecute, AppendJob
<1>4. ASSUME NEW t \in Thread, NEW pushOnly \in BOOLEAN, EnqueueAndHandOff(t, pushOnly) PROVE Locals'
  BY <1>4 DEF EnqueueAndHandOff, AppendJob, execVars
<1>5. ASSUME NEW t \in Thread, HandOff(t) PROVE Locals'
  BY <1>5 DEF HandOff, Resume, execVars
<1>6. ASSUME NEW t \in Thread, StartFromGlobal(t) PROVE Locals'
  <2>1. Head(globalQueue) \in Queue
    BY <1>6 DEF StartFromGlobal
  <2>. QED BY <1>6, <2>1 DEF StartFromGlobal, pushVars
<1>7. ASSUME NEW t \in Thread, PopAll(t) PROVE Locals'
  BY <1>7 DEF PopAll, pushVars
<1>8. ASSUME NEW t \in Thread, RunJob(t) PROVE Locals'
  <2>1. Len(Tail(batch[t])) <= taken[t]
    BY <1>8 DEF RunJob
  <2>2. \A u \in Thread : batch'[u] = IF u = t THEN Tail(batch[t]) ELSE batch[u]
    BY <1>8 DEF RunJob
  <2>3. pc[t] = "run" /\ current[t] # NoQueue
    BY <1>8 DEF RunJob
  <2>4. UNCHANGED <<pc, current, target, pushing, taken>>
    BY <1>8 DEF RunJob, pushVars
  <2>. QED BY <2>1, <2>2, <2>3, <2>4
<1>9. ASSUME NEW t \in Thread, RetireLast(t) PROVE Locals'
  BY <1>9 DEF RetireLast, Subtract, historyVars
<1>10. ASSUME NEW t \in Thread, RetireContinue(t) PROVE Locals'
  BY <1>10 DEF RetireContinue, Subtract, historyVars
<1>11. ASSUME NEW t \in Thread, RetireExpired(t) PROVE Locals'
  BY <1>11 DEF RetireExpired, Subtract, historyVars
<1>12. CASE UNCHANGED vars
  BY <1>12 DEF vars
<1>. QED
  BY <1>1, <1>2, <1>3, <1>4, <1>5, <1>6, <1>7, <1>8, <1>9, <1>10, <1>11, <1>12
  DEF Next, PushStep, ExecuteStep

-----------------------------------------------------------------------------
(* A thread that announces a job joins the pushers of that queue only. *)
LEMMA PushersGrow ==
  ASSUME TypeOK, NEW t \in Thread, NEW q \in Queue, NEW j \in Job, Announce(t, q, j)
  PROVE  \A p \in Queue : Cardinality(Pushers(p)') =
           IF p = q THEN Cardinality(Pushers(p)) + 1 ELSE Cardinality(Pushers(p))
<1>1. t \notin Pushers(q) /\ Pushers(q)' = Pushers(q) \cup {t}
  BY DEF TypeOK, Announce, MayPush, Pushers
<1>2. ASSUME NEW p \in Queue, p # q PROVE Pushers(p)' = Pushers(p)
  BY <1>2 DEF TypeOK, Announce, MayPush, Pushers
<1>3. IsFiniteSet(Pushers(q))
  BY FS_Subset, ThreadAssumption DEF Pushers
<1>. QED BY <1>1, <1>2, <1>3, FS_AddElement

(* A thread that appends its job leaves the pushers of its target. *)
LEMMA PushersShrink ==
  ASSUME TypeOK, Locals, NEW t \in Thread, AppendJob(t), NEW q \in Queue, q = target[t],
         pc' = [pc EXCEPT ![t] = pc'[t]], pc'[t] # "enqueue",
         \A u \in Thread : u # t => target'[u] = target[u]
  PROVE  /\ \A p \in Queue : Cardinality(Pushers(p)') =
              IF p = q THEN Cardinality(Pushers(p)) - 1 ELSE Cardinality(Pushers(p))
         /\ Cardinality(Pushers(q)) \in Nat \ {0}
<1>1. t \in Pushers(q)
  BY DEF AppendJob, Pushers
<1>2. Pushers(q)' = Pushers(q) \ {t}
  BY DEF TypeOK, AppendJob, Pushers
<1>3. ASSUME NEW p \in Queue, p # q PROVE Pushers(p)' = Pushers(p)
  BY <1>3 DEF TypeOK, AppendJob, Pushers
<1>4. IsFiniteSet(Pushers(q)) /\ Cardinality(Pushers(q)) \in Nat
  BY FS_Subset, FS_CardinalityType, ThreadAssumption DEF Pushers
<1>5. Cardinality(Pushers(q)) # 0
  BY <1>1, <1>4, FS_EmptySet
<1>. QED BY <1>1, <1>2, <1>3, <1>4, <1>5, FS_RemoveElement

(* Every other step leaves the pushers of every queue alone. *)
LEMMA PushersSame ==
  ASSUME TypeOK, NEW t \in Thread,
         \/ HandOff(t) \/ StartFromGlobal(t) \/ ExecuteStep(t)
  PROVE  \A p \in Queue : Pushers(p)' = Pushers(p)
<1> SUFFICES ASSUME NEW p \in Queue PROVE Pushers(p)' = Pushers(p)
  OBVIOUS
<1> USE DEF TypeOK, Pushers
<1>1. CASE HandOff(t)
  BY <1>1 DEF HandOff, Resume
<1>2. CASE StartFromGlobal(t)
  BY <1>2 DEF StartFromGlobal, pushVars
<1>3. CASE PopAll(t)
  BY <1>3 DEF PopAll, pushVars
<1>4. CASE RunJob(t)
  BY <1>4 DEF RunJob, pushVars
<1>5. CASE RetireLast(t) \/ RetireContinue(t) \/ RetireExpired(t)
  BY <1>5 DEF RetireLast, RetireContinue, RetireExpired, Subtract
<1>. QED BY <1>1, <1>2, <1>3, <1>4, <1>5 DEF ExecuteStep

(* The number of pushers of a queue is a number. *)
LEMMA PushersNat == \A q \in Queue : Cardinality(Pushers(q)) \in Nat
BY FS_Subset, FS_CardinalityType, ThreadAssumption DEF Pushers

(* The two clauses of CountIsExact, for one queue. *)
ExactFor(q) ==
  /\ (\A t \in Thread : current[t] # q) => jobCount[q] = Len(jobs[q]) + Cardinality(Pushers(q))
  /\ \A t \in Thread : current[t] = q
       => jobCount[q] = Len(jobs[q]) + Cardinality(Pushers(q)) + taken[t]

(* CountIsExact, with the state of one queue as a predicate of its own. *)
LEMMA CountIsExactDef == CountIsExact <=> \A q \in Queue : ExactFor(q)
BY DEF CountIsExact, ExactFor, Executing

(* _jobCount stays exact. *)
LEMMA NextCountIsExact == IInv /\ TypeOK' /\ [Next]_vars => CountIsExact'
<1> SUFFICES ASSUME TypeOK, TypeOK', Locals, OneToken, CountIsExact, [Next]_vars,
                    NEW p \in Queue
             PROVE  ExactFor(p)'
  BY DEF IInv, CountIsExact, ExactFor, Executing
<1>a. ExactFor(p) /\ Cardinality(Pushers(p)) \in Nat /\ Len(jobs[p]) \in Nat /\ p # NoQueue
  BY CountIsExactDef, PushersNat, NoQueueAssumption DEF TypeOK
<1>b. jobCount[p] \in Nat /\ \A u \in Thread : taken[u] \in Nat
  BY DEF TypeOK
<1>1. ASSUME NEW t \in Thread, NEW q \in Queue, NEW j \in Job, Announce(t, q, j)
      PROVE  ExactFor(p)'
  <2>1. current' = current /\ taken' = taken /\ jobs' = jobs
    BY <1>1 DEF Announce, execVars
  <2>2. Cardinality(Pushers(p)') = IF p = q THEN Cardinality(Pushers(p)) + 1
                                           ELSE Cardinality(Pushers(p))
    BY <1>1, PushersGrow
  <2>3. jobCount'[p] = IF p = q THEN jobCount[p] + 1 ELSE jobCount[p]
    BY <1>1 DEF Announce, TypeOK
  <2>4. ASSUME \A u \in Thread : current[u] # p
        PROVE  jobCount'[p] = Len(jobs'[p]) + Cardinality(Pushers(p)')
    <3>1. jobCount[p] = Len(jobs[p]) + Cardinality(Pushers(p))
      BY <1>a, <2>4 DEF ExactFor
    <3>. QED BY <1>a, <1>b, <2>1, <2>2, <2>3, <3>1
  <2>5. ASSUME NEW u \in Thread, current[u] = p
        PROVE  jobCount'[p] = Len(jobs'[p]) + Cardinality(Pushers(p)') + taken'[u]
    <3>1. jobCount[p] = Len(jobs[p]) + Cardinality(Pushers(p)) + taken[u]
      BY <1>a, <2>5 DEF ExactFor
    <3>. QED BY <1>a, <1>b, <2>1, <2>2, <2>3, <3>1
  <2>. QED BY <2>1, <2>4, <2>5 DEF ExactFor
<1>2. ASSUME NEW t \in Thread, AppendJob(t), PushStep(t) PROVE ExactFor(p)'
  <2>0. PICK q \in Queue : q = target[t]
    BY <1>2 DEF AppendJob, Locals, TypeOK
  <2>1. pc' = [pc EXCEPT ![t] = pc'[t]] /\ pc'[t] # "enqueue"
        /\ \A u \in Thread : u # t => target'[u] = target[u]
    BY <1>2 DEF AppendJob, PushStep, EnqueueOnly, EnqueueAndExecute, EnqueueAndHandOff, HandOff,
           Resume, TypeOK
  <2>2. Cardinality(Pushers(p)') = IF p = q THEN Cardinality(Pushers(p)) - 1
                                           ELSE Cardinality(Pushers(p))
    BY <1>2, <2>0, <2>1, PushersShrink
  <2>3. Len(jobs'[p]) = IF p = q THEN Len(jobs[p]) + 1 ELSE Len(jobs[p])
    BY <1>2, <2>0 DEF AppendJob, Locals, TypeOK
  <2>4. jobCount' = jobCount /\ taken' = taken
    BY <1>2 DEF AppendJob, PushStep, EnqueueOnly, EnqueueAndExecute, EnqueueAndHandOff, HandOff,
           execVars
  <2>5. CASE current' = current
    <3>1. Len(jobs'[p]) + Cardinality(Pushers(p)') = Len(jobs[p]) + Cardinality(Pushers(p))
      BY <1>a, <2>2, <2>3
    <3>. QED BY <1>a, <1>b, <2>4, <2>5, <3>1 DEF ExactFor
  <2>6. CASE EnqueueAndExecute(t)
    <3>1. current' = [current EXCEPT ![t] = q] /\ taken[t] = 0 /\ current[t] = NoQueue
      BY <2>0, <2>6 DEF EnqueueAndExecute, Locals
    <3>2. \A u \in Thread : current[u] # q
      BY <2>0, <2>6, NoQueueAssumption
      DEF EnqueueAndExecute, AppendJob, OneToken, Holds, HandingOver, Executing
    <3>3. CASE p = q
      <4>1. \A u \in Thread : current'[u] = p => taken'[u] = 0
        BY <2>4, <3>1, <3>2, <3>3 DEF TypeOK
      <4>. QED BY <1>a, <1>b, <2>2, <2>3, <2>4, <3>2, <3>3, <4>1 DEF ExactFor
    <3>4. CASE p # q
      BY <1>a, <1>b, <2>2, <2>3, <2>4, <3>1, <3>4 DEF ExactFor, TypeOK
    <3>. QED BY <3>3, <3>4
  <2>. QED
    BY <1>2, <2>5, <2>6
    DEF AppendJob, PushStep, EnqueueOnly, EnqueueAndHandOff, HandOff, execVars
<1>3. ASSUME NEW t \in Thread, HandOff(t) PROVE ExactFor(p)'
  <2>1. Pushers(p)' = Pushers(p)
    BY <1>3, PushersSame
  <2>2. jobCount' = jobCount /\ jobs' = jobs /\ current' = current /\ taken' = taken
    BY <1>3 DEF HandOff, execVars
  <2>. QED BY <1>a, <2>1, <2>2 DEF ExactFor
<1>4. ASSUME NEW t \in Thread, StartFromGlobal(t) PROVE ExactFor(p)'
  <2>0. PICK q \in Queue : q = Head(globalQueue) /\ q = globalQueue[1] /\ Len(globalQueue) \in Nat \ {0}
    <3>1. globalQueue \in Seq(Queue) /\ globalQueue # <<>>
      BY <1>4 DEF StartFromGlobal, TypeOK
    <3>2. Head(globalQueue) = globalQueue[1] /\ Len(globalQueue) \in Nat \ {0}
      BY <3>1
    <3>3. globalQueue[1] \in Queue
      BY <3>1
    <3>. QED BY <3>2, <3>3
  <2>1. \A u \in Thread : current[u] # q
    BY <2>0 DEF OneToken, Holds, Scheduled, Executing
  <2>2. /\ current' = [current EXCEPT ![t] = q] /\ taken[t] = 0 /\ current[t] = NoQueue
        /\ jobCount' = jobCount /\ jobs' = jobs /\ taken' = taken
    BY <1>4, <2>0 DEF StartFromGlobal, Locals
  <2>3. Pushers(p)' = Pushers(p)
    BY <1>4, PushersSame
  <2>4. CASE p = q
    BY <1>a, <1>b, <2>1, <2>2, <2>3, <2>4 DEF ExactFor, TypeOK
  <2>5. CASE p # q
    BY <1>a, <1>b, <2>2, <2>3, <2>5 DEF ExactFor, TypeOK
  <2>. QED BY <2>4, <2>5
<1>5. ASSUME NEW t \in Thread, ExecuteStep(t) PROVE ExactFor(p)'
  <2>0. Pushers(p)' = Pushers(p)
    BY <1>5, PushersSame
  <2>1. PICK q \in Queue : q = current[t]
    BY <1>5 DEF ExecuteStep, PopAll, RunJob, RetireLast, RetireContinue, RetireExpired,
           Subtract, Locals
  <2>2. \A u \in Thread : current[u] = q => u = t
    BY <2>1 DEF OneToken, Holds, Executing
  <2>3. CASE PopAll(t)
    <3>1. /\ taken[t] = 0 /\ taken' = [taken EXCEPT ![t] = Len(jobs[q])]
          /\ jobs' = [jobs EXCEPT ![q] = <<>>]
          /\ current' = current /\ jobCount' = jobCount
      BY <2>1, <2>3 DEF PopAll, Locals
    <3>2. CASE p = q
      <4>1. Len(jobs'[p]) = 0 /\ taken'[t] = Len(jobs[p])
        BY <3>1, <3>2 DEF TypeOK
      <4>. QED BY <1>a, <1>b, <2>0, <2>1, <2>2, <3>1, <3>2, <4>1 DEF ExactFor
    <3>3. CASE p # q
      <4>1. jobs'[p] = jobs[p] /\ \A u \in Thread : current[u] = p => taken'[u] = taken[u]
        BY <2>1, <3>1, <3>3 DEF TypeOK
      <4>. QED BY <1>a, <1>b, <2>0, <3>1, <4>1 DEF ExactFor
    <3>. QED BY <3>2, <3>3
  <2>4. CASE RunJob(t)
    <3>1. jobCount' = jobCount /\ jobs' = jobs /\ current' = current /\ taken' = taken
      BY <2>4 DEF RunJob, sharedVars
    <3>. QED BY <1>a, <2>0, <3>1 DEF ExactFor
  <2>5. CASE RetireLast(t) \/ RetireContinue(t) \/ RetireExpired(t)
    <3>1. /\ jobCount' = [jobCount EXCEPT ![q] = @ - taken[t]]
          /\ taken' = [taken EXCEPT ![t] = 0] /\ jobs' = jobs
      BY <2>1, <2>5 DEF Subtract, RetireLast, RetireContinue, RetireExpired
    <3>2. current' = [current EXCEPT ![t] = NoQueue] \/ current' = current
      BY <2>5 DEF RetireLast, RetireContinue, RetireExpired
    <3>3. CASE p = q
      <4>1. jobCount'[p] = jobCount[p] - taken[t] /\ taken'[t] = 0
        BY <3>1, <3>3 DEF TypeOK
      <4>2. \A u \in Thread : current'[u] = p => u = t
        BY <2>1, <2>2, <3>2, <3>3, <1>a DEF TypeOK
      <4>. QED BY <1>a, <1>b, <2>0, <2>1, <3>1, <3>3, <4>1, <4>2 DEF ExactFor
    <3>4. CASE p # q
      <4>1. jobCount'[p] = jobCount[p]
        BY <3>1, <3>4 DEF TypeOK
      <4>2. \A u \in Thread : (current'[u] = p <=> current[u] = p)
                               /\ (current[u] = p => taken'[u] = taken[u])
        BY <2>1, <3>1, <3>2, <3>4, <1>a DEF TypeOK
      <4>. QED BY <1>a, <1>b, <2>0, <3>1, <4>1, <4>2 DEF ExactFor
    <3>. QED BY <3>3, <3>4
  <2>. QED
    BY <1>5, <2>3, <2>4, <2>5 DEF ExecuteStep
<1>6. CASE UNCHANGED vars
  BY <1>6, <1>a DEF vars, ExactFor, Pushers
<1>. QED
  BY <1>1, <1>2, <1>3, <1>4, <1>5, <1>6
  DEF Next, PushStep, EnqueueOnly, EnqueueAndExecute, EnqueueAndHandOff

-----------------------------------------------------------------------------
(* OneToken and OneRole, for one queue. *)
TokenFor(q) ==
  /\ jobCount[q] > 0 <=> Scheduled(q) \/ \E t \in Thread : Holds(t, q)
  /\ \A t, u \in Thread : Holds(t, q) /\ Holds(u, q) => t = u
  /\ \A t \in Thread : ~(Holds(t, q) /\ Scheduled(q))
  /\ \A t \in Thread : ~(Executing(t, q) /\ HandingOver(t, q))

EntryFor(q) ==
  \A i, k \in 1..Len(globalQueue) : globalQueue[i] = q /\ globalQueue[k] = q => i = k

(* OneToken and OneRole, one queue at a time. *)
LEMMA TokenDef == OneToken /\ OneRole <=> \A q \in Queue : TokenFor(q) /\ EntryFor(q)
BY DEF OneToken, OneRole, TokenFor, EntryFor

(* A step of one thread changes no local of another. *)
LEMMA OtherThreads ==
  ASSUME TypeOK, NEW t \in Thread, NEW u \in Thread, u # t,
         \/ \E q \in Queue, j \in Job : Announce(t, q, j)
         \/ PushStep(t) \/ StartFromGlobal(t) \/ ExecuteStep(t),
         NEW q \in Queue
  PROVE  (Holds(u, q)' <=> Holds(u, q)) /\ (Executing(u, q)' <=> Executing(u, q))
         /\ (HandingOver(u, q)' <=> HandingOver(u, q))
<1>1. current'[u] = current[u] /\ target'[u] = target[u] /\ pc'[u] = pc[u]
      /\ prevCount'[u] = prevCount[u]
  BY DEF TypeOK, Announce, PushStep, EnqueueOnly, EnqueueAndExecute, EnqueueAndHandOff,
         AppendJob, HandOff, StartFromGlobal, ExecuteStep, PopAll, RunJob, RetireLast,
         RetireContinue, RetireExpired, Subtract, pushVars, execVars
<1>. QED BY <1>1 DEF Holds, Executing, HandingOver

(* The token of queue p after a step, given what the step does to it: only *)
(* thread t and the global queue can gain it or lose it.                   *)
LEMMA TokenStep ==
  ASSUME NEW p \in Queue, TokenFor(p), NEW t \in Thread,
         \A u \in Thread : u # t =>
           (Holds(u, p)' <=> Holds(u, p)) /\ (Executing(u, p)' <=> Executing(u, p))
           /\ (HandingOver(u, p)' <=> HandingOver(u, p)),
         ~(Executing(t, p)' /\ HandingOver(t, p)'),
         \/ /\ jobCount'[p] > 0 <=> jobCount[p] > 0
            /\ Holds(t, p)' \/ Scheduled(p)' <=> Holds(t, p) \/ Scheduled(p)
            /\ ~(Holds(t, p)' /\ Scheduled(p)')
         \/ /\ ~(jobCount[p] > 0) /\ jobCount'[p] > 0
            /\ Holds(t, p)' /\ ~Scheduled(p)'
         \/ /\ Holds(t, p) /\ ~(jobCount'[p] > 0)
            /\ ~Holds(t, p)' /\ ~Scheduled(p)'
  PROVE  TokenFor(p)'
BY DEF TokenFor

(* Appending to the global queue schedules that queue only. *)
LEMMA ScheduledAppend ==
  ASSUME TypeOK, NEW q \in Queue, globalQueue' = Append(globalQueue, q), NEW p \in Queue
  PROVE  /\ Scheduled(p)' <=> Scheduled(p) \/ p = q
         /\ EntryFor(p) /\ (p = q => ~Scheduled(p)) => EntryFor(p)'
<1>1. /\ Len(globalQueue') = Len(globalQueue) + 1
      /\ globalQueue'[Len(globalQueue) + 1] = q
      /\ \A i \in 1..Len(globalQueue) : globalQueue'[i] = globalQueue[i]
      /\ Len(globalQueue) \in Nat
  BY DEF TypeOK
<1>2. 1..Len(globalQueue') = (1..Len(globalQueue)) \cup {Len(globalQueue) + 1}
  BY <1>1
<1>3. Scheduled(p)' <=> Scheduled(p) \/ p = q
  BY <1>1, <1>2 DEF Scheduled
<1>4. ASSUME EntryFor(p), p = q => ~Scheduled(p) PROVE EntryFor(p)'
  BY <1>1, <1>2, <1>4 DEF EntryFor, Scheduled
<1>. QED BY <1>3, <1>4

(* Taking the head out of the global queue unschedules that queue only. *)
LEMMA ScheduledTail ==
  ASSUME TypeOK, globalQueue # <<>>, globalQueue' = Tail(globalQueue),
         NEW p \in Queue, EntryFor(p)
  PROVE  /\ EntryFor(p)'
         /\ Scheduled(p)' <=> Scheduled(p) /\ p # Head(globalQueue)
         /\ Scheduled(Head(globalQueue)) /\ Head(globalQueue) \in Queue
<1>1. /\ Len(globalQueue) \in Nat \ {0} /\ Len(globalQueue') = Len(globalQueue) - 1
      /\ \A i \in 1..Len(globalQueue') : globalQueue'[i] = globalQueue[i + 1]
      /\ Head(globalQueue) = globalQueue[1]
  BY DEF TypeOK
<1>2. EntryFor(p)'
  BY <1>1 DEF EntryFor
<1>3. Scheduled(Head(globalQueue)) /\ Head(globalQueue) \in Queue
  BY <1>1 DEF Scheduled, TypeOK
<1>4. ASSUME Scheduled(p)' PROVE Scheduled(p) /\ p # Head(globalQueue)
  <2>1. PICK i \in 1..Len(globalQueue') : globalQueue'[i] = p
    BY <1>4 DEF Scheduled
  <2>2. i + 1 \in 1..Len(globalQueue) /\ globalQueue[i + 1] = p /\ i + 1 # 1
    BY <1>1, <2>1
  <2>. QED BY <1>1, <2>2 DEF Scheduled, EntryFor
<1>5. ASSUME Scheduled(p), p # Head(globalQueue) PROVE Scheduled(p)'
  <2>1. PICK i \in 1..Len(globalQueue) : globalQueue[i] = p
    BY <1>5 DEF Scheduled
  <2>2. i - 1 \in 1..Len(globalQueue') /\ globalQueue'[i - 1] = p
    BY <1>1, <1>5, <2>1
  <2>. QED BY <2>2 DEF Scheduled
<1>. QED BY <1>2, <1>3, <1>4, <1>5

(* The step of each action on the token of each queue. *)
LEMMA NextToken == IInv /\ TypeOK' /\ [Next]_vars => (OneToken /\ OneRole)'
<1> SUFFICES ASSUME TypeOK, TypeOK', Locals, CountIsExact, OneToken, OneRole, [Next]_vars,
                    NEW p \in Queue
             PROVE  TokenFor(p)' /\ EntryFor(p)'
  BY DEF IInv, OneToken, OneRole, TokenFor, EntryFor
<1>a. TokenFor(p) /\ EntryFor(p) /\ p # NoQueue
  BY TokenDef, NoQueueAssumption
<1>b. jobCount[p] \in Nat /\ jobCount'[p] \in Nat
  BY DEF TypeOK
<1>c. ASSUME globalQueue' = globalQueue PROVE (Scheduled(p)' <=> Scheduled(p)) /\ EntryFor(p)'
  BY <1>a, <1>c DEF Scheduled, EntryFor
<1>d. /\ jobCount[p] > 0 <=> Scheduled(p) \/ \E t \in Thread : Holds(t, p)
      /\ \A t \in Thread : ~(Holds(t, p) /\ Scheduled(p)) /\ ~(Executing(t, p) /\ HandingOver(t, p))
  BY <1>a DEF TokenFor
<1>1. ASSUME NEW t \in Thread, NEW q \in Queue, NEW j \in Job, Announce(t, q, j)
      PROVE  TokenFor(p)' /\ EntryFor(p)'
  <2>1. /\ pc'[t] = "enqueue" /\ target'[t] = q /\ prevCount'[t] = jobCount[q]
        /\ current'[t] = current[t] /\ globalQueue' = globalQueue /\ ~HandingOver(t, p)
    BY <1>1 DEF Announce, MayPush, TypeOK, execVars, HandingOver
  <2>2. jobCount'[p] = IF p = q THEN jobCount[p] + 1 ELSE jobCount[p]
    BY <1>1 DEF Announce, TypeOK
  <2>3. Executing(t, p)' <=> Executing(t, p)
    BY <2>1 DEF Executing
  <2>4. HandingOver(t, p)' <=> p = q /\ jobCount[p] = 0
    BY <2>1 DEF HandingOver
  <2>5. CASE p = q /\ jobCount[p] = 0
    BY <1>1, <1>a, <1>b, <1>c, <1>d, <2>1, <2>2, <2>3, <2>4, <2>5, OtherThreads, TokenStep DEF Holds
  <2>6. CASE ~(p = q /\ jobCount[p] = 0)
    BY <1>1, <1>a, <1>b, <1>c, <1>d, <2>1, <2>2, <2>3, <2>4, <2>6, OtherThreads, TokenStep DEF Holds
  <2>. QED BY <2>5, <2>6
<1>2. ASSUME NEW t \in Thread, EnqueueOnly(t) PROVE TokenFor(p)' /\ EntryFor(p)'
  <2>1. /\ ~HandingOver(t, p) /\ ~HandingOver(t, p)' /\ current' = current
        /\ jobCount' = jobCount /\ globalQueue' = globalQueue
    BY <1>2 DEF EnqueueOnly, AppendJob, HandingOver, TypeOK, execVars, Resume
  <2>2. Executing(t, p)' <=> Executing(t, p)
    BY <2>1 DEF Executing
  <2>. QED BY <1>2, <1>a, <1>c, <1>d, <2>1, <2>2, OtherThreads, TokenStep DEF Holds, PushStep
<1>3. ASSUME NEW t \in Thread, EnqueueAndExecute(t) PROVE TokenFor(p)' /\ EntryFor(p)'
  <2>1. /\ ~HandingOver(t, p)' /\ jobCount' = jobCount /\ globalQueue' = globalQueue
        /\ current[t] = NoQueue /\ current'[t] = target[t]
        /\ pc[t] = "enqueue" /\ prevCount[t] = 0
    BY <1>3 DEF EnqueueAndExecute, AppendJob, HandingOver, TypeOK
  <2>2. Executing(t, p)' <=> HandingOver(t, p)
    BY <2>1 DEF Executing, HandingOver
  <2>3. ~Executing(t, p)
    BY <2>1, <1>a DEF Executing
  <2>. QED BY <1>3, <1>a, <1>c, <1>d, <2>1, <2>2, <2>3, OtherThreads, TokenStep DEF Holds, PushStep
<1>4. ASSUME NEW t \in Thread, NEW pushOnly \in BOOLEAN, EnqueueAndHandOff(t, pushOnly) PROVE TokenFor(p)' /\ EntryFor(p)'
  <2>1. /\ HandingOver(t, p)' <=> HandingOver(t, p)
        /\ jobCount' = jobCount /\ globalQueue' = globalQueue /\ current' = current
    BY <1>4 DEF EnqueueAndHandOff, AppendJob, HandingOver, TypeOK, execVars
  <2>2. Executing(t, p)' <=> Executing(t, p)
    BY <2>1 DEF Executing
  <2>. QED BY <1>4, <1>a, <1>c, <1>d, <2>1, <2>2, OtherThreads, TokenStep DEF Holds, PushStep
<1>5. ASSUME NEW t \in Thread, HandOff(t) PROVE TokenFor(p)' /\ EntryFor(p)'
  <2>0. PICK q \in Queue : q = target[t]
    BY <1>5 DEF HandOff, Locals, TypeOK
  <2>1. /\ HandingOver(t, p) <=> p = q
        /\ ~HandingOver(t, p)'
        /\ jobCount' = jobCount /\ globalQueue' = Append(globalQueue, q) /\ current' = current
    BY <1>5, <2>0 DEF HandOff, HandingOver, TypeOK, execVars, Resume
  <2>2. Executing(t, p)' <=> Executing(t, p)
    BY <2>1 DEF Executing
  <2>3. p = q => ~Scheduled(p)
    BY <1>d, <2>1 DEF Holds
  <2>4. (Scheduled(p)' <=> Scheduled(p) \/ p = q) /\ EntryFor(p)'
    BY <1>a, <2>1, <2>3, ScheduledAppend
  <2>. QED
    BY <1>5, <1>a, <1>d, <2>1, <2>2, <2>3, <2>4, OtherThreads, TokenStep DEF Holds, PushStep
<1>6. ASSUME NEW t \in Thread, StartFromGlobal(t) PROVE TokenFor(p)' /\ EntryFor(p)'
  <2>1. /\ EntryFor(p)'
        /\ Scheduled(p)' <=> Scheduled(p) /\ p # Head(globalQueue)
        /\ Scheduled(Head(globalQueue))
    BY <1>6, <1>a, ScheduledTail DEF StartFromGlobal
  <2>2. /\ current[t] = NoQueue /\ current'[t] = Head(globalQueue) /\ jobCount' = jobCount
        /\ ~HandingOver(t, p) /\ ~HandingOver(t, p)'
    BY <1>6 DEF StartFromGlobal, Locals, TypeOK, HandingOver, pushVars
  <2>3. ~Executing(t, p) /\ (Executing(t, p)' <=> p = Head(globalQueue))
    BY <1>a, <2>2 DEF Executing
  <2>. QED BY <1>6, <1>a, <1>d, <2>1, <2>2, <2>3, OtherThreads, TokenStep DEF Holds
<1>7. ASSUME NEW t \in Thread, PopAll(t) \/ RunJob(t) PROVE TokenFor(p)' /\ EntryFor(p)'
  <2>1. /\ ~HandingOver(t, p) /\ ~HandingOver(t, p)' /\ current' = current
        /\ jobCount' = jobCount /\ globalQueue' = globalQueue
    BY <1>7 DEF PopAll, RunJob, HandingOver, TypeOK, sharedVars, pushVars
  <2>2. Executing(t, p)' <=> Executing(t, p)
    BY <2>1 DEF Executing
  <2>. QED BY <1>7, <1>a, <1>c, <1>d, <2>1, <2>2, OtherThreads, TokenStep DEF Holds, ExecuteStep
<1>8. ASSUME NEW t \in Thread, RetireLast(t) \/ RetireContinue(t) \/ RetireExpired(t)
      PROVE  TokenFor(p)' /\ EntryFor(p)'
  <2>0. PICK q \in Queue : q = current[t]
    BY <1>8 DEF RetireLast, RetireContinue, RetireExpired, Subtract, Locals
  <2>1. /\ globalQueue' = globalQueue /\ ~HandingOver(t, p)
        /\ Executing(t, p) <=> p = q
    BY <1>8, <2>0 DEF RetireLast, RetireContinue, RetireExpired, Subtract, HandingOver, Executing
  <2>2. jobCount'[p] = IF p = q THEN jobCount[p] - taken[t] ELSE jobCount[p]
    <3>1. jobCount' = [jobCount EXCEPT ![q] = @ - taken[t]]
      BY <1>8, <2>0 DEF RetireLast, RetireContinue, RetireExpired, Subtract
    <3>2. DOMAIN jobCount = Queue
      BY DEF TypeOK
    <3>. QED BY <3>1, <3>2
  <2>3. taken[t] \in Nat
    BY DEF TypeOK
  <2>4. p = q => jobCount[p] > 0
    BY <1>d, <2>1 DEF Holds
  <2>5. CASE RetireLast(t)
    <3>1. jobCount[q] = taken[t] /\ ~HandingOver(t, p)' /\ ~Executing(t, p)'
      BY <2>0, <2>5, <1>a DEF RetireLast, Subtract, HandingOver, Executing, TypeOK
    <3>2. p = q => ~Scheduled(p) /\ ~(jobCount'[p] > 0)
      BY <1>b, <1>d, <2>1, <2>2, <2>3, <3>1 DEF Holds
    <3>. QED
      BY <2>5, <1>a, <1>b, <1>c, <1>d, <2>1, <2>2, <3>1, <3>2, OtherThreads, TokenStep
      DEF Holds, ExecuteStep
  <2>6. CASE RetireContinue(t)
    <3>1. jobCount[q] # taken[t] /\ ~HandingOver(t, p)' /\ (Executing(t, p)' <=> p = q)
      BY <2>0, <2>6 DEF RetireContinue, Subtract, HandingOver, Executing, TypeOK
    <3>2. p = q => jobCount'[p] > 0
      BY <1>b, <2>2, <2>3, <3>1
    <3>. QED
      BY <2>6, <1>a, <1>b, <1>c, <1>d, <2>1, <2>2, <2>4, <3>1, <3>2, OtherThreads, TokenStep
      DEF Holds, ExecuteStep
  <2>7. CASE RetireExpired(t)
    <3>1. jobCount[q] # taken[t] /\ (HandingOver(t, p)' <=> p = q) /\ ~Executing(t, p)'
      BY <2>0, <2>7, <1>a DEF RetireExpired, Subtract, HandingOver, Executing, TypeOK
    <3>2. p = q => jobCount'[p] > 0
      BY <1>b, <2>2, <2>3, <3>1
    <3>. QED
      BY <2>7, <1>a, <1>b, <1>c, <1>d, <2>1, <2>2, <2>4, <3>1, <3>2, OtherThreads, TokenStep
      DEF Holds, ExecuteStep
  <2>. QED BY <1>8, <2>5, <2>6, <2>7
<1>9. CASE UNCHANGED vars
  BY <1>9, <1>a
  DEF vars, TokenFor, EntryFor, Holds, Executing, HandingOver, Scheduled
<1>. QED
  BY <1>1, <1>2, <1>3, <1>4, <1>5, <1>6, <1>7, <1>8, <1>9 DEF Next, PushStep, ExecuteStep

-----------------------------------------------------------------------------
(* IInv is inductive. *)
LEMMA NextInv == IInv /\ [Next]_vars => IInv'
<1>1. IInv /\ [Next]_vars => TypeOK'
  BY NextTypeOK DEF IInv
<1>2. IInv /\ [Next]_vars => Locals'
  BY NextLocals DEF IInv
<1>. QED BY <1>1, <1>2, NextCountIsExact, NextToken DEF IInv

(* Every behaviour of the queues satisfies the inductive invariant. *)
LEMMA Invariance == Spec => []IInv
BY InitInv, NextInv, PTL DEF Spec

(* The variables of every reachable state have their types. *)
THEOREM TypeCorrect == Spec => []TypeOK
<1>1. IInv => TypeOK
  BY DEF IInv
<1>. QED BY <1>1, Invariance, PTL

(***************************************************************************)
(* No lost wakeup and no double scheduling, for any number of threads,     *)
(* queues and jobs: a queue with announced jobs has exactly one thread or  *)
(* global-queue entry responsible for it, and a queue without has none.    *)
(***************************************************************************)
THEOREM ExactlyOneToken == Spec => []OneToken
<1>1. IInv => OneToken
  BY DEF IInv
<1>. QED BY <1>1, Invariance, PTL

(* The jobs of a room are executed by at most one thread at a time. *)
THEOREM Exclusive == Spec => []MutualExclusion
<1>1. IInv => MutualExclusion
  BY DEF IInv, OneToken, MutualExclusion, Holds
<1>. QED BY <1>1, Invariance, PTL

(* _jobCount is the number of jobs announced and not retired. *)
THEOREM CountExact == Spec => []CountIsExact
<1>1. IInv => CountIsExact
  BY DEF IInv
<1>. QED BY <1>1, Invariance, PTL

-----------------------------------------------------------------------------
(***************************************************************************)
(* JobQueue implements ActorQueue: appending a job sends it, running a job *)
(* runs the head of the mailbox, and every other step is a stutter.        *)
(***************************************************************************)

(* A job is created by one thread and posted by it, once. *)
PostedOnce ==
  /\ \A t \in Thread : pc[t] = "enqueue" => pushing[t] \notin unsent
  /\ \A t, u \in Thread :
       pc[t] = "enqueue" /\ pc[u] = "enqueue" /\ pushing[t] = pushing[u] => t = u

(* What the refinement mapping says of the mailboxes and the jobs to send. *)
Mailbox(q) == RestOfBatch(q) \o jobs[q]
Unposted == unsent \cup {pushing[t] : t \in {u \in Thread : pc[u] = "enqueue"}}

(* No step makes a job that another thread has, or posts one again. *)
LEMMA NextPostedOnce == TypeOK /\ PostedOnce /\ [Next]_vars => PostedOnce'
<1> SUFFICES ASSUME TypeOK, PostedOnce, [Next]_vars PROVE PostedOnce'
  OBVIOUS
<1> USE DEF TypeOK, PostedOnce
<1>1. ASSUME NEW t \in Thread, NEW q \in Queue, NEW j \in Job, Announce(t, q, j)
      PROVE  PostedOnce'
  <2>1. /\ pc' = [pc EXCEPT ![t] = "enqueue"] /\ pushing' = [pushing EXCEPT ![t] = j]
        /\ unsent' = unsent \ {j} /\ j \in unsent
    BY <1>1 DEF Announce
  <2>. QED BY <2>1
<1>2. ASSUME NEW t \in Thread, PushStep(t) \/ StartFromGlobal(t) \/ ExecuteStep(t)
      PROVE  PostedOnce'
  <2>1. /\ unsent' = unsent /\ pc'[t] # "enqueue"
        /\ \A u \in Thread : u # t => pc'[u] = pc[u] /\ pushing'[u] = pushing[u]
    BY <1>2
    DEF PushStep, EnqueueOnly, EnqueueAndExecute, EnqueueAndHandOff, AppendJob, HandOff,
        StartFromGlobal, ExecuteStep, PopAll, RunJob, RetireLast, RetireContinue, RetireExpired,
        Subtract, Resume, pushVars, historyVars
  <2>. QED BY <2>1
<1>3. CASE UNCHANGED vars
  BY <1>3 DEF vars
<1>. QED BY <1>1, <1>2, <1>3 DEF Next

(* The rest of the vector is that of the thread which executes the queue. *)
LEMMA RestIs ==
  ASSUME MutualExclusion, NEW q \in Queue
  PROVE  /\ \A t \in Thread : current[t] = q => RestOfBatch(q) = batch[t]
         /\ (\A t \in Thread : current[t] # q) => RestOfBatch(q) = <<>>
<1>1. ASSUME NEW t \in Thread, current[t] = q PROVE RestOfBatch(q) = batch[t]
  <2>1. {u \in Thread : current[u] = q} = {t}
    BY <1>1 DEF MutualExclusion, Executing
  <2>2. (CHOOSE u \in {t} : TRUE) = t
    OBVIOUS
  <2>. QED BY <2>1, <2>2 DEF RestOfBatch
<1>. QED BY <1>1 DEF RestOfBatch

(* The same of the next state. *)
LEMMA RestIsNext ==
  ASSUME MutualExclusion', NEW q \in Queue
  PROVE  /\ \A t \in Thread : current'[t] = q => RestOfBatch(q)' = batch'[t]
         /\ (\A t \in Thread : current'[t] # q) => RestOfBatch(q)' = <<>>
<1>1. ASSUME NEW t \in Thread, current'[t] = q PROVE RestOfBatch(q)' = batch'[t]
  <2>1. {u \in Thread : current'[u] = q} = {t}
    BY <1>1 DEF MutualExclusion, Executing
  <2>2. (CHOOSE u \in {t} : TRUE) = t
    OBVIOUS
  <2>. QED BY <2>1, <2>2 DEF RestOfBatch
<1>. QED BY <1>1 DEF RestOfBatch

(* A thread that begins or ends executing queues has nothing in its vector *)
(* then, so that the queues' vectors stay what they are.                   *)
LEMMA RestSame ==
  ASSUME TypeOK, MutualExclusion, MutualExclusion', NEW t \in Thread,
         \A u \in Thread : u # t => current'[u] = current[u] /\ batch'[u] = batch[u],
         \/ current'[t] = current[t] /\ batch'[t] = batch[t]
         \/ batch[t] = <<>> /\ batch'[t] = <<>>,
         NEW q \in Queue
  PROVE  RestOfBatch(q)' = RestOfBatch(q)
<1>1. CASE \E u \in Thread : u # t /\ current[u] = q
  BY <1>1, RestIs, RestIsNext
<1>2. CASE \A u \in Thread : u # t => current[u] # q
  <2>1. CASE current'[t] = current[t] /\ batch'[t] = batch[t]
    BY <1>2, <2>1, RestIs, RestIsNext
  <2>2. CASE batch[t] = <<>> /\ batch'[t] = <<>>
    <3>1. RestOfBatch(q) = <<>>
      BY <1>2, <2>2, RestIs
    <3>2. RestOfBatch(q)' = <<>>
      BY <1>2, <2>2, RestIsNext
    <3>. QED BY <3>1, <3>2
  <2>. QED BY <2>1, <2>2
<1>. QED BY <1>1, <1>2

(* The head of a mailbox is the head of the vector, unless that is empty. *)
LEMMA HeadTailOfConcat ==
  ASSUME NEW S, NEW a \in Seq(S), NEW b \in Seq(S), a # <<>>
  PROVE  /\ a \o b # <<>> /\ Head(a \o b) = Head(a)
         /\ Tail(a \o b) = Tail(a) \o b
<1>1. /\ a \o b \in Seq(S) /\ Len(a \o b) = Len(a) + Len(b)
      /\ \A i \in 1..Len(a) + Len(b) : (a \o b)[i] = IF i <= Len(a) THEN a[i] ELSE b[i - Len(a)]
  BY ConcatProperties
<1>2. Len(a) \in Nat \ {0} /\ Len(b) \in Nat
  OBVIOUS
<1>3. a \o b # <<>> /\ Head(a \o b) = Head(a)
  BY <1>1, <1>2
<1>4. /\ Tail(a) \in Seq(S) /\ Len(Tail(a)) = Len(a) - 1
      /\ \A i \in 1..Len(Tail(a)) : Tail(a)[i] = a[i + 1]
  BY HeadTailProperties
<1>5. /\ Tail(a \o b) \in Seq(S) /\ Len(Tail(a \o b)) = Len(a) + Len(b) - 1
      /\ \A i \in 1..Len(Tail(a \o b)) : Tail(a \o b)[i] = (a \o b)[i + 1]
  BY <1>1, <1>3, HeadTailProperties
<1>6. /\ Tail(a) \o b \in Seq(S) /\ Len(Tail(a) \o b) = Len(a) - 1 + Len(b)
      /\ \A i \in 1..(Len(a) - 1 + Len(b)) : (Tail(a) \o b)[i] =
           IF i <= Len(a) - 1 THEN Tail(a)[i] ELSE b[i - (Len(a) - 1)]
  BY <1>4, ConcatProperties
<1>7. ASSUME NEW i \in 1..Len(Tail(a \o b)) PROVE Tail(a \o b)[i] = (Tail(a) \o b)[i]
  <2>1. i \in 1..(Len(a) - 1 + Len(b)) /\ i + 1 \in 1..Len(a) + Len(b)
    BY <1>2, <1>5
  <2>2. CASE i <= Len(a) - 1
    BY <1>1, <1>2, <1>4, <1>5, <1>6, <2>1, <2>2
  <2>3. CASE ~(i <= Len(a) - 1)
    <3>1. i + 1 - Len(a) = i - (Len(a) - 1) /\ ~(i + 1 <= Len(a))
      BY <1>2, <2>3
    <3>. QED BY <1>1, <1>5, <1>6, <2>1, <2>3, <3>1
  <2>. QED BY <2>2, <2>3
<1>8. Tail(a \o b) = Tail(a) \o b
  BY <1>2, <1>5, <1>6, <1>7, SeqEqual
<1>. QED BY <1>3, <1>8

(* A thread's step on the jobs that wait, in the abstract queue's terms. *)
Implemented ==
  \/ \E q \in Queue, j \in Job :
       /\ j \in Unposted /\ Unposted' = Unposted \ {j} /\ ran' = ran
       /\ Mailbox(q)' = Append(Mailbox(q), j)
       /\ \A p \in Queue \ {q} : Mailbox(p)' = Mailbox(p)
  \/ \E q \in Queue :
       /\ Mailbox(q) # <<>> /\ Unposted' = Unposted
       /\ ran' = [ran EXCEPT ![q] = Append(ran[q], Head(Mailbox(q)))]
       /\ Mailbox(q)' = Tail(Mailbox(q))
       /\ \A p \in Queue \ {q} : Mailbox(p)' = Mailbox(p)
  \/ /\ Unposted' = Unposted /\ ran' = ran
     /\ \A q \in Queue : Mailbox(q)' = Mailbox(q)

(* Every step of JobQueue is one of ActorQueue, or none. *)
LEMMA StepImplements ==
  ASSUME IInv, IInv', PostedOnce, [Next]_vars
  PROVE  Implemented
<1>0. TypeOK /\ TypeOK' /\ Locals /\ MutualExclusion /\ MutualExclusion'
  BY DEF IInv, OneToken, MutualExclusion, Holds
<1>a. ASSUME NEW q \in Queue
      PROVE  /\ RestOfBatch(q) \in Seq(Job) /\ RestOfBatch(q)' \in Seq(Job)
             /\ jobs[q] \in Seq(Job) /\ jobs'[q] \in Seq(Job)
  <2>1. RestOfBatch(q) = <<>> \/ \E t \in Thread : RestOfBatch(q) = batch[t]
    BY <1>0, RestIs
  <2>2. RestOfBatch(q)' = <<>> \/ \E t \in Thread : RestOfBatch(q)' = batch'[t]
    BY <1>0, RestIsNext
  <2>3. batch \in [Thread -> Seq(Job)] /\ jobs \in [Queue -> Seq(Job)]
    BY <1>0 DEF TypeOK
  <2>4. batch' \in [Thread -> Seq(Job)] /\ jobs' \in [Queue -> Seq(Job)]
    BY <1>0 DEF TypeOK
  <2>5. <<>> \in Seq(Job)
    OBVIOUS
  <2>6. RestOfBatch(q) \in Seq(Job)
    BY <2>1, <2>3, <2>5
  <2>7. RestOfBatch(q)' \in Seq(Job)
    BY <2>2, <2>4, <2>5
  <2>. QED BY <2>3, <2>4, <2>6, <2>7
<1>1. ASSUME NEW t \in Thread, NEW q \in Queue, NEW j \in Job, Announce(t, q, j)
      PROVE  Implemented
  <2>1. /\ unsent' = unsent \ {j} /\ j \in unsent /\ pc[t] # "enqueue" /\ ran' = ran
        /\ pushing' = [pushing EXCEPT ![t] = j] /\ pc' = [pc EXCEPT ![t] = "enqueue"]
        /\ jobs' = jobs /\ current' = current /\ batch' = batch
    BY <1>1 DEF Announce, MayPush, execVars
  <2>2. Unposted' = Unposted
    BY <1>0, <2>1 DEF Unposted, TypeOK
  <2>3. \A p \in Queue : Mailbox(p)' = Mailbox(p)
    BY <2>1 DEF Mailbox, RestOfBatch
  <2>. QED BY <2>1, <2>2, <2>3 DEF Implemented
<1>2. ASSUME NEW t \in Thread, AppendJob(t), PushStep(t) PROVE Implemented
  <2>0. PICK q \in Queue, j \in Job : q = target[t] /\ j = pushing[t]
    BY <1>0, <1>2 DEF AppendJob, Locals
  <2>1. /\ unsent' = unsent /\ pc[t] = "enqueue" /\ pc'[t] # "enqueue" /\ ran' = ran
        /\ jobs' = [jobs EXCEPT ![q] = Append(jobs[q], j)] /\ batch' = batch
        /\ \A u \in Thread : u # t =>
             pc'[u] = pc[u] /\ pushing'[u] = pushing[u] /\ current'[u] = current[u]
    BY <1>0, <1>2, <2>0
    DEF TypeOK, PushStep, AppendJob, EnqueueOnly, EnqueueAndExecute, EnqueueAndHandOff, HandOff,
        Resume, execVars, historyVars
  <2>2. j \in Unposted /\ Unposted' = Unposted \ {j}
    BY <2>0, <2>1 DEF Unposted, PostedOnce
  <2>3. current'[t] = current[t] \/ current[t] = NoQueue
    BY <1>0, <1>2
    DEF TypeOK, PushStep, AppendJob, EnqueueOnly, EnqueueAndExecute, EnqueueAndHandOff, HandOff,
        execVars
  <2>4. \A p \in Queue : RestOfBatch(p)' = RestOfBatch(p)
    <3>1. \/ current'[t] = current[t] /\ batch'[t] = batch[t]
          \/ batch[t] = <<>> /\ batch'[t] = <<>>
      BY <1>0, <2>1, <2>3 DEF Locals
    <3>2. \A u \in Thread : u # t => current'[u] = current[u] /\ batch'[u] = batch[u]
      BY <2>1
    <3>. QED BY <1>0, <3>1, <3>2, RestSame
  <2>5. Mailbox(q)' = Append(Mailbox(q), j)
    <3>1. jobs'[q] = Append(jobs[q], j)
      BY <1>0, <2>1 DEF TypeOK
    <3>2. RestOfBatch(q) \o Append(jobs[q], j) = Append(RestOfBatch(q) \o jobs[q], j)
      BY <1>a
    <3>. QED BY <2>4, <3>1, <3>2 DEF Mailbox
  <2>6. \A p \in Queue \ {q} : Mailbox(p)' = Mailbox(p)
    BY <1>0, <2>1, <2>4 DEF Mailbox, TypeOK
  <2>. QED BY <2>1, <2>2, <2>5, <2>6 DEF Implemented
<1>3. ASSUME NEW t \in Thread, RunJob(t) PROVE Implemented
  <2>0. PICK q \in Queue : q = current[t]
    BY <1>0, <1>3 DEF RunJob, Locals
  <2>1. /\ unsent' = unsent /\ pc' = pc /\ pushing' = pushing /\ jobs' = jobs
        /\ current' = current /\ batch[t] # <<>> /\ batch' = [batch EXCEPT ![t] = Tail(batch[t])]
        /\ ran' = [ran EXCEPT ![q] = Append(ran[q], Head(batch[t]))]
    BY <1>3, <2>0 DEF RunJob, sharedVars, pushVars
  <2>2. RestOfBatch(q) = batch[t] /\ RestOfBatch(q)' = Tail(batch[t])
    BY <1>0, <2>0, <2>1, RestIs, RestIsNext DEF TypeOK
  <2>3. /\ Mailbox(q) # <<>> /\ Head(Mailbox(q)) = Head(batch[t])
        /\ Mailbox(q)' = Tail(Mailbox(q))
    <3>1. batch[t] \in Seq(Job) /\ jobs[q] \in Seq(Job)
      BY <1>0 DEF TypeOK
    <3>2. /\ batch[t] \o jobs[q] # <<>> /\ Head(batch[t] \o jobs[q]) = Head(batch[t])
          /\ Tail(batch[t] \o jobs[q]) = Tail(batch[t]) \o jobs[q]
      BY <2>1, <3>1, HeadTailOfConcat
    <3>. QED BY <2>1, <2>2, <3>2 DEF Mailbox
  <2>4. ASSUME NEW p \in Queue \ {q} PROVE Mailbox(p)' = Mailbox(p)
    <3>1. RestOfBatch(p)' = RestOfBatch(p)
      <4>1. CASE \E u \in Thread : current[u] = p
        BY <1>0, <2>0, <2>1, <4>1, RestIs, RestIsNext DEF TypeOK
      <4>2. CASE \A u \in Thread : current[u] # p
        BY <1>0, <2>1, <4>2, RestIs, RestIsNext
      <4>. QED BY <4>1, <4>2
    <3>. QED BY <2>1, <3>1 DEF Mailbox
  <2>5. Unposted' = Unposted
    BY <2>1 DEF Unposted
  <2>. QED BY <2>1, <2>2, <2>3, <2>4, <2>5 DEF Implemented
<1>4. ASSUME NEW t \in Thread, PopAll(t) PROVE Implemented
  <2>0. PICK q \in Queue : q = current[t]
    BY <1>0, <1>4 DEF PopAll, Locals
  <2>1. /\ unsent' = unsent /\ pc[t] = "popall" /\ pc' = [pc EXCEPT ![t] = "run"]
        /\ pushing' = pushing /\ jobs' = [jobs EXCEPT ![q] = <<>>] /\ current' = current
        /\ batch' = [batch EXCEPT ![t] = jobs[q]] /\ ran' = ran /\ batch[t] = <<>>
    BY <1>0, <1>4, <2>0 DEF PopAll, pushVars, historyVars, Locals
  <2>2. Unposted' = Unposted
    BY <1>0, <2>1 DEF Unposted, TypeOK
  <2>3. Mailbox(q)' = Mailbox(q)
    <3>1. RestOfBatch(q) = <<>> /\ RestOfBatch(q)' = jobs[q] /\ jobs'[q] = <<>>
      BY <1>0, <2>0, <2>1, RestIs, RestIsNext DEF TypeOK
    <3>2. <<>> \o jobs[q] = jobs[q] \o <<>>
      BY <1>a
    <3>. QED BY <3>1, <3>2 DEF Mailbox
  <2>4. ASSUME NEW p \in Queue \ {q} PROVE Mailbox(p)' = Mailbox(p)
    <3>1. RestOfBatch(p)' = RestOfBatch(p)
      <4>1. CASE \E u \in Thread : current[u] = p
        BY <1>0, <2>0, <2>1, <4>1, RestIs, RestIsNext DEF TypeOK
      <4>2. CASE \A u \in Thread : current[u] # p
        BY <1>0, <2>1, <4>2, RestIs, RestIsNext
      <4>. QED BY <4>1, <4>2
    <3>. QED BY <1>0, <2>1, <3>1 DEF Mailbox, TypeOK
  <2>. QED BY <2>1, <2>2, <2>3, <2>4 DEF Implemented
<1>5. ASSUME NEW t \in Thread,
             HandOff(t) \/ StartFromGlobal(t) \/ RetireLast(t) \/ RetireContinue(t)
               \/ RetireExpired(t)
      PROVE  Implemented
  <2>1. /\ unsent' = unsent /\ pushing' = pushing /\ jobs' = jobs /\ batch' = batch /\ ran' = ran
        /\ pc[t] # "enqueue" /\ pc'[t] # "enqueue"
        /\ \A u \in Thread : u # t => pc'[u] = pc[u] /\ current'[u] = current[u]
    BY <1>0, <1>5
    DEF TypeOK, HandOff, StartFromGlobal, RetireLast, RetireContinue, RetireExpired, Subtract,
        Resume, pushVars, execVars, historyVars
  <2>2. current'[t] = current[t] \/ batch[t] = <<>>
    BY <1>0, <1>5
    DEF TypeOK, Locals, HandOff, StartFromGlobal, RetireLast, RetireContinue, RetireExpired,
        Subtract, execVars
  <2>3. Unposted' = Unposted
    BY <2>1 DEF Unposted
  <2>4. \A q \in Queue : RestOfBatch(q)' = RestOfBatch(q)
    <3>1. \/ current'[t] = current[t] /\ batch'[t] = batch[t]
          \/ batch[t] = <<>> /\ batch'[t] = <<>>
      BY <2>1, <2>2
    <3>2. \A u \in Thread : u # t => current'[u] = current[u] /\ batch'[u] = batch[u]
      BY <2>1
    <3>. QED BY <1>0, <3>1, <3>2, RestSame
  <2>5. \A q \in Queue : Mailbox(q)' = Mailbox(q)
    BY <2>1, <2>4 DEF Mailbox
  <2>. QED BY <2>1, <2>3, <2>5 DEF Implemented
<1>6. CASE UNCHANGED vars
  BY <1>6 DEF vars, Implemented, Unposted, Mailbox, RestOfBatch
<1>. QED
  BY <1>1, <1>2, <1>3, <1>4, <1>5, <1>6
  DEF Next, PushStep, ExecuteStep, EnqueueOnly, EnqueueAndExecute, EnqueueAndHandOff

(***************************************************************************)
(* A room is an actor: its jobs run one at a time, in the order of their   *)
(* posting, each once, whichever threads pushed and executed them.  This   *)
(* is the safety part of ImplementsFairActorQueue.                         *)
(***************************************************************************)
THEOREM ImplementsActorQueue == Spec => Actor!Spec
<1>1. Init => Actor!Init
  <2> SUFFICES ASSUME Init PROVE Actor!Init
    OBVIOUS
  <2>1. Unposted = Job
    BY DEF Init, Unposted
  <2>2. ASSUME NEW q \in Queue PROVE Mailbox(q) = <<>>
    <3>1. RestOfBatch(q) = <<>>
      BY NoQueueAssumption DEF Init, RestOfBatch
    <3>. QED BY <3>1 DEF Init, Mailbox
  <2>. QED BY <2>1, <2>2 DEF Init, Actor!Init, Unposted, Mailbox
<1>2. Init => PostedOnce
  BY DEF Init, PostedOnce
<1>3. IInv /\ PostedOnce /\ [Next]_vars => PostedOnce'
  BY NextPostedOnce DEF IInv
<1>4. IInv /\ IInv' /\ PostedOnce /\ [Next]_vars => [Actor!Next]_(Actor!vars)
  <2> SUFFICES ASSUME IInv, PostedOnce, Implemented PROVE [Actor!Next]_(Actor!vars)
    BY StepImplements
  <2>1. ASSUME NEW q \in Queue, NEW j \in Job,
               j \in Unposted, Unposted' = Unposted \ {j}, ran' = ran,
               Mailbox(q)' = Append(Mailbox(q), j),
               \A p \in Queue \ {q} : Mailbox(p)' = Mailbox(p)
        PROVE  Actor!Send(q, j)
    <3>1. [p \in Queue |-> Mailbox(p)]'
            = [[p \in Queue |-> Mailbox(p)] EXCEPT ![q] = Append(Mailbox(q), j)]
      BY <2>1
    <3>. QED BY <2>1, <3>1 DEF Actor!Send, Unposted, Mailbox
  <2>2. ASSUME NEW q \in Queue,
               Mailbox(q) # <<>>, Unposted' = Unposted,
               ran' = [ran EXCEPT ![q] = Append(ran[q], Head(Mailbox(q)))],
               Mailbox(q)' = Tail(Mailbox(q)),
               \A p \in Queue \ {q} : Mailbox(p)' = Mailbox(p)
        PROVE  Actor!Run(q)
    <3>1. [p \in Queue |-> Mailbox(p)]'
            = [[p \in Queue |-> Mailbox(p)] EXCEPT ![q] = Tail(Mailbox(q))]
      BY <2>2
    <3>. QED BY <2>2, <3>1 DEF Actor!Run, Unposted, Mailbox
  <2>3. ASSUME Unposted' = Unposted, ran' = ran, \A q \in Queue : Mailbox(q)' = Mailbox(q)
        PROVE  UNCHANGED Actor!vars
    BY <2>3 DEF Actor!vars, Unposted, Mailbox
  <2>. QED BY <2>1, <2>2, <2>3 DEF Implemented, Actor!Next
<1>. QED BY <1>1, <1>2, <1>3, <1>4, Invariance, PTL DEF Spec, Actor!Spec

-----------------------------------------------------------------------------
(***************************************************************************)
(* The worker's loop, for any number of timers: one worker distributes     *)
(* timers at a time, a reserved job has one owner until it is posted, and  *)
(* the loop uses JobQueue as it is meant to be used, so that what is       *)
(* proved above holds of the server.                                       *)
(***************************************************************************)
Busy(t) == stage[t] \in {"take", "deliver"}

(* _distributing is held by the one worker that is distributing. *)
FlagHeld ==
  /\ distributing <=> \E t \in Thread : Busy(t)
  /\ \A t, u \in Thread : Busy(t) /\ Busy(u) => t = u

(* A timer item is in one place: in the heap, in the vector of the worker  *)
(* that distributes it, or in the hands of the one that reserves it.       *)
OnePlace ==
  /\ \A t \in Thread : due[t] \cap timers = {} /\ reserving[t] \notin timers
  /\ \A t, u \in Thread : t # u => due[t] \cap due[u] = {}
  /\ \A t, u \in Thread : reserving[t] \notin due[u]
  /\ \A t, u \in Thread : t # u => reserving[t] # reserving[u] \/ reserving[t] = NoTimer

(* Its job has no other item, and nobody has posted it. *)
OwnJob ==
  /\ \A i, k \in Pending : i.job = k.job => i = k
  /\ \A i \in Pending : i.job \in unsent

WInv == WTypeOK /\ FlagHeld /\ OnePlace /\ OwnJob

-----------------------------------------------------------------------------
(* NoTimer is no timer item, and an item is due somewhere if it is pending. *)
LEMMA NoTimerIsNone == NoTimer \notin TimerItem
BY NoQueueAssumption DEF NoTimer, TimerItem

LEMMA PendingIs ==
  ASSUME NEW i
  PROVE  i \in Pending <=>
           \/ i \in timers
           \/ \E t \in Thread : i \in due[t]
           \/ \E t \in Thread : i = reserving[t] /\ reserving[t] # NoTimer
<1>1. i \in UNION {due[t] : t \in Thread} <=> \E t \in Thread : i \in due[t]
  OBVIOUS
<1>2. i \in {reserving[t] : t \in {u \in Thread : reserving[u] # NoTimer}}
        <=> \E t \in Thread : i = reserving[t] /\ reserving[t] # NoTimer
  OBVIOUS
<1>. QED BY <1>1, <1>2 DEF Pending

(* The same of the next state. *)
LEMMA PendingIsNext ==
  ASSUME NEW i
  PROVE  i \in Pending' <=>
           \/ i \in timers'
           \/ \E t \in Thread : i \in due'[t]
           \/ \E t \in Thread : i = reserving'[t] /\ reserving'[t] # NoTimer
<1>1. i \in UNION {due'[t] : t \in Thread} <=> \E t \in Thread : i \in due'[t]
  OBVIOUS
<1>2. i \in {reserving'[t] : t \in {u \in Thread : reserving'[u] # NoTimer}}
        <=> \E t \in Thread : i = reserving'[t] /\ reserving'[t] # NoTimer
  OBVIOUS
<1>. QED BY <1>1, <1>2 DEF Pending

-----------------------------------------------------------------------------
(* The loop, the timers and the jobs use the queues through Push and       *)
(* Execute only: every step is one of JobQueue, or leaves the queues alone. *)
LEMMA QueueSteps == WTypeOK /\ [WNext]_allVars => [Next]_vars
<1> SUFFICES ASSUME WTypeOK, [WNext]_allVars PROVE Next \/ UNCHANGED vars
  OBVIOUS
<1>1. CASE Tick \/ UNCHANGED allVars
  BY <1>1 DEF Tick, allVars
<1>2. ASSUME NEW t \in Thread, LoopStep(t) PROVE Next \/ UNCHANGED vars
  <2>1. CASE Deliver(t)
    <3>1. PICK i \in due[t] : Announce(t, i.owner, i.job)
      BY <2>1 DEF Deliver
    <3>2. i.owner \in Queue /\ i.job \in Job
      BY DEF WTypeOK, TimerItem
    <3>. QED BY <3>1, <3>2 DEF Next
  <2>. QED BY <1>2, <2>1
    DEF LoopStep, BeginTick, EndDispatch, ClaimDistribution, SkipDistribution, TakeDue,
        EndDistribution, CheckTick, EndTick, TakeFromGlobal, PopNothing, Next
<1>3. ASSUME NEW t \in Thread, QueueStep(t) PROVE Next
  BY <1>3 DEF QueueStep, Continue, Expire, Next, PushStep, ExecuteStep
<1>4. ASSUME NEW t \in Thread, InsertTimer(t) \/ Reserve(t) PROVE UNCHANGED vars
  BY <1>4 DEF InsertTimer, Reserve
<1>5. ASSUME NEW t \in Thread, HandlePacket(t) \/ PushFromJob(t) PROVE Next
  BY <1>5 DEF HandlePacket, PushFromJob, Next
<1>. QED BY <1>1, <1>2, <1>3, <1>4, <1>5 DEF WNext

(***************************************************************************)
(* What a step does to the timers and to the distribution: only the steps  *)
(* of a worker's loop and of DoTimer touch them, and only a thread that    *)
(* pushes a job makes it a posted one.                                     *)
(***************************************************************************)
Quiet == UNCHANGED <<timers, due, reserving>>
StageKept == UNCHANGED <<distributing>> /\ \A t \in Thread : Busy(t)' <=> Busy(t)

LEMMA StepKinds ==
  ASSUME WTypeOK, [WNext]_allVars
  PROVE  \/ Quiet /\ StageKept /\ unsent' = unsent
         \/ Quiet /\ StageKept /\ \E j \in Job : IsNew(j) /\ unsent' = unsent \ {j}
         \/ Tick /\ StageKept /\ unsent' = unsent
         \/ /\ unsent' = unsent
            /\ \E t \in Thread :
                 \/ ClaimDistribution(t) \/ EndDistribution(t) \/ TakeDue(t)
                 \/ Reserve(t) \/ InsertTimer(t)
         \/ \E t \in Thread : Deliver(t)
<1> USE DEF Quiet, StageKept, Busy
<1>0. CASE Tick
  BY <1>0 DEF Tick, vars
<1>1. CASE UNCHANGED allVars
  BY <1>1 DEF allVars, vars, workerVars
<1>2. ASSUME NEW t \in Thread,
             \/ BeginTick(t) \/ EndDispatch(t) \/ SkipDistribution(t)
             \/ CheckTick(t) \/ EndTick(t) \/ TakeFromGlobal(t) \/ PopNothing(t)
      PROVE  Quiet /\ StageKept /\ unsent' = unsent
  <2>1. Quiet /\ distributing' = distributing /\ unsent' = unsent
    BY <1>2
    DEF BeginTick, EndDispatch, SkipDistribution, CheckTick, EndTick, TakeFromGlobal, PopNothing,
        timerVars, vars, StartFromGlobal, historyVars
  <2>2. \A u \in Thread : Busy(u)' <=> Busy(u)
    BY <1>2
    DEF WTypeOK, BeginTick, EndDispatch, SkipDistribution, CheckTick, EndTick, TakeFromGlobal,
        PopNothing, At, Goto
  <2>. QED BY <2>1, <2>2
<1>3. ASSUME NEW t \in Thread,
             ClaimDistribution(t) \/ EndDistribution(t) \/ TakeDue(t) \/ Reserve(t) \/ InsertTimer(t)
      PROVE  unsent' = unsent
  BY <1>3 DEF ClaimDistribution, EndDistribution, TakeDue, Reserve, InsertTimer, vars
<1>4. ASSUME NEW t \in Thread, QueueStep(t) PROVE Quiet /\ StageKept /\ unsent' = unsent
  <2>1. unsent' = unsent
    BY <1>4
    DEF QueueStep, Continue, Expire, EnqueueOnly, EnqueueAndExecute, EnqueueAndHandOff, HandOff,
        PopAll, RunJob, RetireLast, RetireContinue, RetireExpired, Subtract, historyVars
  <2>2. UNCHANGED workerVars
    BY <1>4 DEF QueueStep
  <2>. QED BY <2>1, <2>2 DEF workerVars
<1>5. ASSUME NEW t \in Thread, HandlePacket(t) \/ PushFromJob(t)
      PROVE  Quiet /\ StageKept /\ \E j \in Job : IsNew(j) /\ unsent' = unsent \ {j}
  <2>1. UNCHANGED workerVars /\ \E j \in Job : IsNew(j) /\ unsent' = unsent \ {j}
    BY <1>5 DEF HandlePacket, PushFromJob, Announce
  <2>. QED BY <2>1 DEF workerVars
<1>. QED BY <1>0, <1>1, <1>2, <1>3, <1>4, <1>5 DEF WNext, LoopStep

-----------------------------------------------------------------------------
(* A time that is MaxAge ago stays there. *)
LEMMA LaterTime ==
  ASSUME NEW n \in Nat, NEW x \in (-MaxAge)..n
  PROVE  Later(x) \in (-MaxAge)..n
BY TickAssumption DEF Later

(* As time passes an item remains an item, of the same room and job. *)
LEMMA LaterTimer ==
  ASSUME NEW i \in TimerItem
  PROVE  LaterItem(i) \in TimerItem /\ LaterItem(i).job = i.job
<1>1. /\ i = [executeTick |-> i.executeTick, owner |-> i.owner, job |-> i.job]
      /\ i.executeTick \in (-MaxAge)..MaxDelay /\ i.owner \in Queue /\ i.job \in Job
  BY DEF TimerItem
<1>2. Later(i.executeTick) \in (-MaxAge)..MaxDelay
  BY <1>1, LaterTime, TickAssumption
<1>3. LaterItem(i) = [executeTick |-> Later(i.executeTick), owner |-> i.owner, job |-> i.job]
  BY <1>1 DEF LaterItem
<1>. QED BY <1>1, <1>2, <1>3 DEF TimerItem

-----------------------------------------------------------------------------
(* Initially the heap has Room::Init's timers and nothing else happens. *)
LEMMA InitWInv == WInit => WInv
<1> SUFFICES ASSUME WInit PROVE WInv
  OBVIOUS
<1> USE DEF WInit
<1>1. WTypeOK
  <2>1. 0 \in (-MaxAge)..0 /\ 0 \in (-MaxAge)..WORKER_TICK
    BY TickAssumption
  <2>2. timers \in SUBSET TimerItem
    BY InitialTimersAssumption
  <2>. QED BY <2>1, <2>2 DEF WTypeOK, Stage
<1>2. FlagHeld
  BY DEF FlagHeld, Busy
<1>3. \A i : i \in Pending <=> i \in InitialTimers
  BY PendingIs
<1>4. OwnJob
  BY <1>3, InitialTimersAssumption DEF OwnJob, Init, TimerItem
<1>5. OnePlace
  BY InitialTimersAssumption, NoTimerIsNone DEF OnePlace
<1>. QED BY <1>1, <1>2, <1>4, <1>5 DEF WInv

(* Every step assigns the worker's variables values of their types. *)
LEMMA NextWTypeOK == IInv /\ WTypeOK /\ [WNext]_allVars => WTypeOK'
<1> SUFFICES ASSUME TypeOK, Locals, WTypeOK, [WNext]_allVars PROVE WTypeOK'
  BY DEF IInv
<1> USE TickAssumption DEF WTypeOK
<1>0. CASE Tick
  <2>1. /\ endTick' \in [Thread -> (-MaxAge)..WORKER_TICK]
        /\ seenNow' \in [Thread -> (-MaxAge)..0]
    BY <1>0, LaterTime DEF Tick
  <2>2. /\ timers' \in SUBSET TimerItem
        /\ due' \in [Thread -> SUBSET TimerItem]
        /\ reserving' \in [Thread -> TimerItem \cup {NoTimer}]
    BY <1>0, LaterTimer DEF Tick
  <2>. QED BY <1>0, <2>1, <2>2 DEF Tick
<1>1. CASE UNCHANGED allVars
  BY <1>1 DEF allVars, workerVars
<1>2. ASSUME NEW t \in Thread, BeginTick(t) PROVE WTypeOK'
  BY <1>2 DEF BeginTick, At, Goto, Stage, timerVars
<1>3. ASSUME NEW t \in Thread, EndDispatch(t) PROVE WTypeOK'
  BY <1>3 DEF EndDispatch, At, Goto, Stage, timerVars
<1>4. ASSUME NEW t \in Thread, ClaimDistribution(t) \/ EndDistribution(t) PROVE WTypeOK'
  BY <1>4 DEF ClaimDistribution, EndDistribution, At, Goto, Stage
<1>5. ASSUME NEW t \in Thread,
             \/ SkipDistribution(t)
             \/ CheckTick(t) \/ EndTick(t) \/ TakeFromGlobal(t) \/ PopNothing(t)
      PROVE  WTypeOK'
  BY <1>5 DEF SkipDistribution, CheckTick, EndTick, TakeFromGlobal, PopNothing, At, Goto, Stage,
       timerVars
<1>6. ASSUME NEW t \in Thread, TakeDue(t) PROVE WTypeOK'
  BY <1>6 DEF TakeDue, At, Goto, Stage
<1>7. ASSUME NEW t \in Thread, Deliver(t) PROVE WTypeOK'
  <2>1. PICK i : due' = [due EXCEPT ![t] = @ \ {i}]
    BY <1>7 DEF Deliver
  <2>. QED BY <1>7, <2>1 DEF Deliver, loopVars
<1>8. ASSUME NEW t \in Thread,
             QueueStep(t) \/ HandlePacket(t) \/ PushFromJob(t)
      PROVE  WTypeOK'
  BY <1>8 DEF QueueStep, HandlePacket, PushFromJob, workerVars
<1>9. ASSUME NEW t \in Thread, Reserve(t) PROVE WTypeOK'
  <2>1. PICK tickAfter \in 1..MaxDelay, j \in Job :
          reserving' = [reserving EXCEPT ![t] =
            [executeTick |-> tickAfter, owner |-> current[t], job |-> j]]
    BY <1>9 DEF Reserve
  <2>2. current[t] \in Queue
    BY <1>9 DEF Reserve, Locals
  <2>3. [executeTick |-> tickAfter, owner |-> current[t], job |-> j] \in TimerItem
    BY <2>2 DEF TimerItem
  <2>. QED BY <1>9, <2>1, <2>3 DEF Reserve, loopVars
<1>10. ASSUME NEW t \in Thread, InsertTimer(t) PROVE WTypeOK'
  BY <1>10 DEF InsertTimer, loopVars
<1>. QED
  BY <1>0, <1>1, <1>2, <1>3, <1>4, <1>5, <1>6, <1>7, <1>8, <1>9, <1>10 DEF WNext, LoopStep

(* The flag changes hands only when it is free. *)
LEMMA NextFlagHeld == WTypeOK /\ FlagHeld /\ [WNext]_allVars => FlagHeld'
<1> SUFFICES ASSUME WTypeOK, FlagHeld, [WNext]_allVars PROVE FlagHeld'
  OBVIOUS
<1> USE DEF FlagHeld
<1>1. CASE StageKept
  BY <1>1 DEF StageKept
<1>2. ASSUME NEW t \in Thread, ClaimDistribution(t) PROVE FlagHeld'
  <2>1. \A u \in Thread : ~Busy(u) /\ (Busy(u)' <=> u = t)
    BY <1>2 DEF ClaimDistribution, WTypeOK, Goto, Busy
  <2>. QED BY <1>2, <2>1 DEF ClaimDistribution
<1>3. ASSUME NEW t \in Thread, EndDistribution(t) PROVE FlagHeld'
  <2>1. \A u \in Thread : (Busy(u) => u = t) /\ ~Busy(u)'
    BY <1>3 DEF EndDistribution, WTypeOK, At, Goto, Busy
  <2>. QED BY <1>3, <2>1 DEF EndDistribution
<1>4. ASSUME NEW t \in Thread, TakeDue(t) \/ Deliver(t) \/ Reserve(t) \/ InsertTimer(t)
      PROVE  StageKept
  <2>1. distributing' = distributing
    BY <1>4 DEF TakeDue, Deliver, Reserve, InsertTimer
  <2>2. \A u \in Thread : Busy(u)' <=> Busy(u)
    BY <1>4 DEF TakeDue, Deliver, Reserve, InsertTimer, WTypeOK, At, Goto, Busy, loopVars
  <2>. QED BY <2>1, <2>2 DEF StageKept
<1>. QED BY <1>1, <1>2, <1>3, <1>4, StepKinds

-----------------------------------------------------------------------------
(* Time passes for all the items alike. *)
LEMMA TickTimers == WTypeOK /\ OnePlace /\ OwnJob /\ Tick => OnePlace' /\ OwnJob'
<1> SUFFICES ASSUME WTypeOK, OnePlace, OwnJob, Tick PROVE OnePlace' /\ OwnJob'
  OBVIOUS
<1>1. ASSUME NEW i, NEW k, i \in Pending, k \in Pending, LaterItem(i) = LaterItem(k) PROVE i = k
  <2>1. i \in TimerItem /\ k \in TimerItem
    BY <1>1, PendingIs DEF WTypeOK
  <2>2. i.job = k.job
    BY <1>1, <2>1, LaterTimer
  <2>. QED BY <1>1, <2>2 DEF OwnJob
<1>2. /\ timers \subseteq Pending /\ \A t \in Thread : due[t] \subseteq Pending
      /\ \A t \in Thread : reserving[t] # NoTimer => reserving[t] \in Pending
  BY PendingIs
<1>3. /\ \A i : i \in timers' <=> \E k \in timers : i = LaterItem(k)
      /\ \A t \in Thread : \A i : i \in due'[t] <=> \E k \in due[t] : i = LaterItem(k)
      /\ \A t \in Thread :
           /\ reserving[t] # NoTimer => reserving'[t] = LaterItem(reserving[t])
           /\ reserving[t] = NoTimer => reserving'[t] = NoTimer
  BY DEF Tick
<1>4. /\ NoTimer \notin timers' /\ \A t \in Thread : NoTimer \notin due'[t]
      /\ \A t \in Thread : reserving[t] # NoTimer => LaterItem(reserving[t]) # NoTimer
  <2>1. ASSUME NEW i \in TimerItem PROVE LaterItem(i) # NoTimer
    BY LaterTimer, NoTimerIsNone
  <2>2. /\ timers \subseteq TimerItem /\ \A t \in Thread : due[t] \subseteq TimerItem
        /\ \A t \in Thread : reserving[t] # NoTimer => reserving[t] \in TimerItem
    BY DEF WTypeOK
  <2>. QED BY <1>3, <2>1, <2>2
<1>5. OnePlace'
  <2>1. ASSUME NEW t \in Thread PROVE due'[t] \cap timers' = {} /\ reserving'[t] \notin timers'
    BY <1>1, <1>2, <1>3, <1>4 DEF OnePlace
  <2>2. ASSUME NEW t \in Thread, NEW u \in Thread, t # u PROVE due'[t] \cap due'[u] = {}
    BY <1>1, <1>2, <1>3, <2>2 DEF OnePlace
  <2>3. ASSUME NEW t \in Thread, NEW u \in Thread PROVE reserving'[t] \notin due'[u]
    BY <1>1, <1>2, <1>3, <1>4 DEF OnePlace
  <2>4. ASSUME NEW t \in Thread, NEW u \in Thread, t # u
        PROVE  reserving'[t] # reserving'[u] \/ reserving'[t] = NoTimer
    BY <1>1, <1>2, <1>3, <1>4, <2>4 DEF OnePlace
  <2>. QED BY <2>1, <2>2, <2>3, <2>4 DEF OnePlace
<1>6. ASSUME NEW i, i \in Pending' PROVE \E k \in Pending : i = LaterItem(k) /\ i.job = k.job
  <2>1. PICK k \in Pending : i = LaterItem(k)
    BY <1>2, <1>3, <1>6, PendingIsNext
  <2>2. k \in TimerItem
    BY PendingIs DEF WTypeOK
  <2>. QED BY <2>1, <2>2, LaterTimer
<1>7. unsent' = unsent
  BY DEF Tick, vars
<1>. QED BY <1>5, <1>6, <1>7 DEF OwnJob

(***************************************************************************)
(* The items of the next state are those of this one, but for one that is  *)
(* new, or one whose job has been posted; each stays in one place.         *)
(***************************************************************************)
LEMMA NextTimers == WInv /\ TypeOK /\ [WNext]_allVars => OnePlace' /\ OwnJob'
<1> SUFFICES ASSUME WTypeOK, OnePlace, OwnJob, [WNext]_allVars, FlagHeld PROVE OnePlace' /\ OwnJob'
  BY DEF WInv
<1>1. ASSUME Quiet PROVE OnePlace' /\ Pending' = Pending
  BY <1>1 DEF Quiet, OnePlace, Pending
<1>2. CASE Quiet /\ unsent' = unsent
  BY <1>1, <1>2 DEF OwnJob
<1>3. ASSUME Quiet, NEW j \in Job, IsNew(j), unsent' = unsent \ {j} PROVE OnePlace' /\ OwnJob'
  BY <1>1, <1>3 DEF OwnJob, IsNew
<1>4. ASSUME NEW t \in Thread, ClaimDistribution(t) \/ EndDistribution(t) PROVE Quiet
  BY <1>4 DEF ClaimDistribution, EndDistribution, Quiet
<1>a. ASSUME unsent' = unsent, Pending' \subseteq Pending PROVE OwnJob'
  BY <1>a DEF OwnJob
<1>5. ASSUME NEW t \in Thread, TakeDue(t), unsent' = unsent PROVE OnePlace' /\ OwnJob'
  <2>1. /\ due' = [due EXCEPT ![t] = {i \in timers : i.executeTick <= seenNow[t]}]
        /\ timers' = {i \in timers : i.executeTick > seenNow[t]} /\ reserving' = reserving
    BY <1>5 DEF TakeDue
  <2>2. ASSUME NEW i \in timers' PROVE i \in timers /\ i \notin due'[t]
    <3>1. i.executeTick \in Int /\ seenNow[t] \in Int
      BY <2>1, <2>2, TickAssumption DEF WTypeOK, TimerItem
    <3>. QED BY <2>1, <2>2, <3>1 DEF WTypeOK
  <2>3. /\ due'[t] \subseteq timers /\ timers' \subseteq timers
        /\ \A u \in Thread : u # t => due'[u] = due[u]
    BY <2>1 DEF WTypeOK
  <2>4. OnePlace'
    BY <2>1, <2>2, <2>3 DEF OnePlace
  <2>5. ASSUME NEW i, i \in Pending' PROVE i \in Pending
    BY <2>1, <2>3, <2>5, PendingIs, PendingIsNext
  <2>. QED BY <1>5, <1>a, <2>4, <2>5
<1>6. ASSUME NEW t \in Thread, Deliver(t) PROVE OnePlace' /\ OwnJob'
  <2>1. PICK i \in due[t] : /\ Announce(t, i.owner, i.job)
                            /\ due' = [due EXCEPT ![t] = @ \ {i}]
    BY <1>6 DEF Deliver
  <2>2. /\ unsent' = unsent \ {i.job} /\ timers' = timers /\ reserving' = reserving
        /\ due'[t] = due[t] \ {i} /\ \A u \in Thread : u # t => due'[u] = due[u]
    BY <1>6, <2>1 DEF Deliver, Announce, WTypeOK
  <2>3. OnePlace'
    BY <2>2 DEF OnePlace
  <2>4. ASSUME NEW k, k \in Pending' PROVE k \in Pending /\ k # i
    <3>1. k \in Pending
      BY <2>2, <2>4, PendingIs, PendingIsNext
    <3>2. i \notin timers' /\ \A u \in Thread : i \notin due'[u] /\ i # reserving'[u]
      BY <2>2 DEF OnePlace
    <3>. QED BY <2>4, <3>1, <3>2, PendingIsNext
  <2>5. i \in Pending
    BY PendingIs
  <2>6. OwnJob'
    BY <2>2, <2>4, <2>5 DEF OwnJob
  <2>. QED BY <2>3, <2>6
<1>7. ASSUME NEW t \in Thread, Reserve(t), unsent' = unsent PROVE OnePlace' /\ OwnJob'
  <2>1. PICK tickAfter \in 1..MaxDelay, j \in Job :
          /\ IsNew(j)
          /\ reserving' = [reserving EXCEPT ![t] =
               [executeTick |-> tickAfter, owner |-> current[t], job |-> j]]
    BY <1>7 DEF Reserve
  <2>2. PICK i : /\ i.job = j /\ reserving' = [reserving EXCEPT ![t] = i]
    BY <2>1
  <2>3. timers' = timers /\ due' = due
    BY <1>7 DEF Reserve
  <2>4. i \notin Pending /\ i.job \in unsent /\ \A k \in Pending : k.job # i.job
    BY <2>1, <2>2 DEF IsNew
  <2>5. i \notin timers /\ \A u \in Thread : i \notin due[u] /\ (i = reserving[u] => i = NoTimer)
    BY <2>4, PendingIs
  <2>6. OnePlace'
    BY <2>2, <2>3, <2>5 DEF OnePlace, WTypeOK
  <2>7. ASSUME NEW k, k \in Pending' PROVE k \in Pending \/ k = i
    BY <2>2, <2>3, <2>7, PendingIs, PendingIsNext DEF WTypeOK
  <2>8. OwnJob'
    BY <1>7, <2>4, <2>7 DEF OwnJob
  <2>. QED BY <2>6, <2>8
<1>8. ASSUME NEW t \in Thread, InsertTimer(t), unsent' = unsent PROVE OnePlace' /\ OwnJob'
  <2>1. /\ reserving[t] # NoTimer /\ timers' = timers \cup {reserving[t]} /\ due' = due
        /\ reserving'[t] = NoTimer /\ \A u \in Thread : u # t => reserving'[u] = reserving[u]
    BY <1>8 DEF InsertTimer, WTypeOK
  <2>2. NoTimer \notin timers' /\ \A u \in Thread : NoTimer \notin due'[u]
    <3>1. timers' \subseteq TimerItem /\ \A u \in Thread : due'[u] \subseteq TimerItem
      BY <2>1 DEF WTypeOK
    <3>. QED BY <3>1, NoTimerIsNone
  <2>3. OnePlace'
    BY <2>1, <2>2 DEF OnePlace
  <2>4. ASSUME NEW i, i \in Pending' PROVE i \in Pending
    BY <2>1, <2>4, PendingIs, PendingIsNext
  <2>. QED BY <1>8, <1>a, <2>3, <2>4
<1>. QED BY <1>2, <1>3, <1>4, <1>5, <1>6, <1>7, <1>8, <1>1, TickTimers, StepKinds DEF OwnJob

-----------------------------------------------------------------------------
(* The invariants of the queues and of the worker are inductive together. *)
LEMMA Inductive == IInv /\ WInv /\ [WNext]_allVars => IInv' /\ WInv'
<1> SUFFICES ASSUME IInv, WInv, [WNext]_allVars PROVE IInv' /\ WInv'
  OBVIOUS
<1>1. IInv'
  BY QueueSteps, NextInv DEF WInv
<1>2. WTypeOK' /\ FlagHeld'
  BY NextWTypeOK, NextFlagHeld DEF WInv
<1>3. OnePlace' /\ OwnJob'
  BY NextTimers DEF IInv
<1>. QED BY <1>1, <1>2, <1>3 DEF WInv

(* Every behaviour of the workers satisfies both. *)
LEMMA WorkerInvariance == WSpec => [](IInv /\ WInv)
<1>1. WInit => IInv /\ WInv
  BY InitInv, InitWInv DEF WInit
<1>. QED BY <1>1, Inductive, PTL DEF WSpec

(* The variables of the loop and of the timers keep their types. *)
THEOREM WorkerTypes == WSpec => []WTypeOK
<1>1. WInv => WTypeOK
  BY DEF WInv
<1>. QED BY <1>1, WorkerInvariance, PTL

(***************************************************************************)
(* JobTimer::Distribute is run by one worker at a time, and _distributing  *)
(* says whether by any, for any number of workers.                         *)
(***************************************************************************)
THEOREM OneDistributes == WSpec => []OneDistributor
<1>1. WInv => OneDistributor
  <2> SUFFICES ASSUME FlagHeld PROVE OneDistributor
    BY DEF WInv
  <2> DEFINE busy == {t \in Thread : stage[t] \in {"take", "deliver"}}
  <2>1. CASE distributing
    <3>1. PICK t \in Thread : busy = {t}
      BY <2>1 DEF FlagHeld, Busy
    <3>2. Cardinality(busy) = 1
      BY <3>1, FS_Singleton
    <3>. QED BY <2>1, <3>2 DEF OneDistributor
  <2>2. CASE ~distributing
    <3>1. busy = {}
      BY <2>2 DEF FlagHeld, Busy
    <3>2. Cardinality(busy) = 0
      BY <3>1, FS_EmptySet
    <3>. QED BY <2>2, <3>2 DEF OneDistributor
  <2>. QED BY <2>1, <2>2
<1>. QED BY <1>1, WorkerInvariance, PTL

(***************************************************************************)
(* From Reserve until Push a reserved job is in one timer item, in one     *)
(* place, and not posted: no timer is distributed twice.                   *)
(***************************************************************************)
THEOREM TimersOwnedOnce == WSpec => []TimerOwnedOnce
<1>1. WInv => TimerOwnedOnce
  BY DEF WInv, OnePlace, OwnJob, TimerOwnedOnce
<1>. QED BY <1>1, WorkerInvariance, PTL

(***************************************************************************)
(* The worker's loop is a JobQueue in which the clock decides when Execute *)
(* gives a queue away, so that whatever is proved of JobQueue holds of it: *)
(* its workers serve the rooms as actors, never two of them in one.        *)
(***************************************************************************)
THEOREM ImplementsJobQueue == WSpec => Spec
<1>1. WInit => Init
  BY DEF WInit
<1>2. WInv /\ [WNext]_allVars => [Next]_vars
  BY QueueSteps DEF WInv
<1>. QED BY <1>1, <1>2, WorkerInvariance, PTL DEF WSpec, Spec

(* The rooms of the server are actors, whichever workers execute them. *)
THEOREM WorkersServeActors == WSpec => Actor!Spec /\ []MutualExclusion
BY ImplementsJobQueue, ImplementsActorQueue, Exclusive, PTL

=============================================================================
