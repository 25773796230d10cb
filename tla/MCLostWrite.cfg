SPECIFICATION Spec
CONSTANTS
  Process = {p, q}
  Frame = {f1}
  Slot = {s1, s2}
  Val = {0, 1}
  Stack = {}
  Data = {d}
  Code = {}
  Mmap = {}
  Ranges = {}
  Overlap = TRUE
  MayFail = FALSE
  NONE = NONE
VIEW View
SYMMETRY Symmetry
PROPERTY Implements
