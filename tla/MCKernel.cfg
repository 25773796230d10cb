SPECIFICATION KernelSpec
VIEW View
SYMMETRY Symmetry
CONSTANTS
  r1 = r1
  r2 = r2
  w1 = w1
  w2 = w2
  t1 = t1
  t2 = t2
  t3 = t3
  p0 = p0
  p1 = p1
  p2 = p2
  b1 = b1
  b2 = b2
  NIL = NIL
  FREED = FREED
INVARIANTS
  Represents
  HoldsElements
  PagesAccounted
  HeapAccounted
  SegmentsLoaded
  MainGetsArguments
  FindsPartitions
  BytesInOrder
  DiskData
  OneAtATime
  BlocksOwned
  TransfersFile
PROPERTIES
  Unmixed
  Implements
