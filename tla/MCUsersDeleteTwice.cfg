SPECIFICATION Spec
CONSTANTS
  Ids = {u1, u2}
  Missing = nobody
  Req = {r1, r2}
  Roles <- MCRoles
  Admin = "admin"
  Sent = {1, 2}
  Patches <- MCPatches
  Unset = unset
  None = none
PROPERTY DeletedOnce
CHECK_DEADLOCK FALSE
