\* Two threads that sleep for no tick.
SPECIFICATION Spec
CONSTANTS
  Thread = {t1, t2}
  InitialThread = t1
  Idle = idle
  Lock = {}
  Priority = {1, 2}
  NULL = NULL
  TIME_SLICE = 2
  Duration = {0}
PROPERTY
  ZeroReturns
