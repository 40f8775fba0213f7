SPECIFICATION Spec
CONSTANTS
  Rows = {1, 2, 3}
  Limit = 1
  MaxTime = 1
  None = none
INVARIANT ListsComplete
CHECK_DEADLOCK FALSE
