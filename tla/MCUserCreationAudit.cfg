SPECIFICATION Spec
CONSTANTS
  Req = {r1, r2}
  Keys = {k1}
  NoKey = nokey
  Emails = {e1, e2}
  None = none
PROPERTY AuditFailuresSeen
CHECK_DEADLOCK FALSE
