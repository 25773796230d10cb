SPECIFICATION Spec
VIEW View
SYMMETRY Symmetry
CONSTANTS
  p = p
  q = q
  f1 = f1
  f2 = f2
  s1 = s1
  s2 = s2
  NONE = NONE
INVARIANTS
  FramesOwned
  SlotsOwned
  EvictsLeastRecent
  TlbInSync
PROPERTY
  MemoryKept
