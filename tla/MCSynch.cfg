SPECIFICATION MCSpec
CONSTANTS
  Thread = {t1, t2, t3, t4}
  InitialThread = t1
  Idle = idle
  Lock = {l1, l2}
  Semaphore = {s1}
  Priority = {1, 2, 3}
  MaxValue = 2
  NULL = NULL
SYMMETRY Symmetry
INVARIANTS
  OneListPerThread
  LockAccounting
  DonationsExact
  NoLostWakeup
PROPERTIES
  SwitchToHighestPriority
  WakesHighestPriority
