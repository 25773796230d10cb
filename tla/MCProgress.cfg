SPECIFICATION Spec
CONSTANTS
  r1 = r1
  r2 = r2
  w1 = w1
  t1 = t1
  t2 = t2
  main = main
  p = p
  b1 = b1
  NULL = NULL
  FREED = FREED
PROPERTIES
  SerialProgress
  Completes
  TimerServed
  CallsReturn
