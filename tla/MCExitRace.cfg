\* One child that exits while it is waited for.
SPECIFICATION Spec
CONSTANTS
  Process = {main, p}
  Initial = main
  Status = {7}
  Block = {b}
  NONE = NONE
  FREED = FREED
INVARIANT
  NoPanic
