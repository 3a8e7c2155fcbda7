CONSTANTS
  Thread = {t1, t2}
  q1 = q1
  j1 = j1
  Queue = {q1, q2}
  Job = {j1, j2}
  NoQueue = NoQueue
  NoJob = NoJob
  WORKER_TICK = 2
  MaxAge = 2
  MaxDelay = 2
  InitialTimers <- FirstTimer
SPECIFICATION WFairSpec
INVARIANTS OneDistributor TimerOwnedOnce
PROPERTIES ImplementsFairJobQueue TimersFire
