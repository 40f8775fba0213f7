SPECIFICATION Spec
CONSTANTS
  Accounts = {u1}
  Req = {r1, r2, r3}
  AccessTTL = 1
  RefreshTTL = 2
  TicksPerSecond = 2
  MaxTime = 5
  MaxTokens = 6
  None = none
SYMMETRY Symmetry
INVARIANT RefreshTokensUsedOnce
CHECK_DEADLOCK FALSE
