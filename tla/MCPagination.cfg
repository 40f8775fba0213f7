SPECIFICATION Spec
CONSTANTS
  Rows = {1, 2, 3, 4}
  Limit = 2
  MaxTime = 2
  None = none
INVARIANTS TypeOK PagesDescend UsersListComplete MissedOnlyTies
CHECK_DEADLOCK FALSE
