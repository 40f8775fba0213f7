SPECIFICATION FairSpec
CONSTANTS
  Req = {r1, r2, r3}
  Emails = {"ann", "Ann"}
  Lower <- MCLower
  Registered = {"ann"}
  Max = 1
  Window = 3
  Forever = forever
INVARIANTS TypeOK AttemptsBounded BurstBounded OnlyFaultsLock
PROPERTIES WindowFixed EmailUnlocked
CHECK_DEADLOCK FALSE
