SPECIFICATION Spec
CONSTANTS
  Accounts = {u1, u2}
  Req = {r1, r2, r3}
  AccessTTL = 1
  RefreshTTL = 2
  TicksPerSecond = 2
  MaxTime = 6
  MaxTokens = 6
  None = none
SYMMETRY Symmetry
INVARIANTS TypeOK LogoutRevokes
PROPERTIES TokenStoreSpec RotatedTokenRefused
CHECK_DEADLOCK FALSE
