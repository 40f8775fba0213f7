SPECIFICATION FairSpec
CONSTANTS
  Req = {r1, r2, r3}
  Emails = {"ann", "Ann"}
  Lower <- MCLower
  Registered = {"ann"}
  Max = 1
  Window = 3
  Forever = forever
PROPERTY LockoutEnds
CHECK_DEADLOCK FALSE
