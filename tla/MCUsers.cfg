SPECIFICATION FairSpec
CONSTANTS
  Ids = {u1, u2}
  Missing = nobody
  Req = {r1, r2}
  Roles <- MCRoles
  Admin = "admin"
  Sent = {1, 2}
  Patches <- MCPatches
  Unset = unset
  None = none
INVARIANTS TypeOK VersionBoundedByTrail DeletedMatchesTrail
PROPERTIES UnsentFieldsKept AuditedSpec EveryRequestEnds
CHECK_DEADLOCK FALSE
