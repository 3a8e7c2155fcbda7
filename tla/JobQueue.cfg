CONSTANTS
  Thread = {t1, t2, t3}
  Queue = {q1, q2}
  Job = {j1, j2, j3}
  NoQueue = NoQueue
  NoJob = NoJob
SPECIFICATION FairSpec
INVARIANTS MutualExclusion OneToken CountIsExact
PROPERTY ImplementsFairActorQueue
CHECK_DEADLOCK FALSE
