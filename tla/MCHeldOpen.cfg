SPECIFICATION Spec
CONSTANTS
  Process = {main, p, q}
  Initial = main
  Inum = {root, f, g}
  Dir = {root}
  Object = {o1, o2, o3}
  MaxFds = 1
  InitialExits = FALSE
  OpensDirs = FALSE
  LoadFails = TRUE
  NONE = NONE
INVARIANT HeldIsOpen
