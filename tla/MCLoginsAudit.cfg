SPECIFICATION Spec
CONSTANTS
  Req = {r1, r2, r3}
  Emails = {"ann", "Ann"}
  Lower <- MCLower
  Registered = {"ann"}
  Max = 1
  Window = 3
  Forever = forever
INVARIANT FailuresAudited
CHECK_DEADLOCK FALSE
