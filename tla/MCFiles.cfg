SPECIFICATION Spec
VIEW View
SYMMETRY Symmetry
CONSTANTS
  p = p
  q = q
  f1 = f1
  f2 = f2
  o1 = o1
  o2 = o2
  o3 = o3
  ZERO = ZERO
  NONE = NONE
INVARIANTS
  SectorsAccounted
  
  ListsAll
  ExecutableUnchanged
PROPERTIES
  FilesKept
  FreedWhenUnused
