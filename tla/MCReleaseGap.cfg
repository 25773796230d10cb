\* Low, mid, hog and high with priorities 1 to 4, and the nested locks A, B.
SPECIFICATION ProgramSpec
CONSTANTS
  low = low
  mid = mid
  hog = hog
  high = high
  A = A
  B = B
  s_mid = s_mid
  s_hog = s_hog
  s_high = s_high
  Thread = {low, mid, hog, high}
  InitialThread = low
  Idle = idle
  Lock = {A, B}
  Semaphore = {s_mid, s_hog, s_high}
  go <- MCGo
  Priority = {1, 2, 3, 4}
  MaxValue = 1
  NULL = NULL
PROPERTY
  ReleaseWakesWaiter
