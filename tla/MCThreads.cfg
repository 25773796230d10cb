SPECIFICATION MCSpec
CONSTANTS
  t1 = t1
  t2 = t2
  t3 = t3
  t4 = t4
  s1 = s1
  s2 = s2
  s3 = s3
  lock = lock
  lock2 = lock2
  cond = cond
  Thread = {t1, t2, t3}
  InitialThread = t1
  Idle = idle
  Lock = {lock}
  Priority = {1, 2}
  NULL = NULL
  TIME_SLICE = 2
  Duration <- Durations
INVARIANTS
  PreemptionDelay
  NoLostSignal
PROPERTIES
  WakesOnTime
  SleeperRuns
  ChainIsDonated
