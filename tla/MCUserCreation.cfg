SPECIFICATION FairSpec
CONSTANTS
  Req = {r1, r2, r3}
  Keys = {k1}
  NoKey = nokey
  Emails = {e1}
  None = none
INVARIANTS TypeOK OneHandlerPerKey OneSuccessPerKey
PROPERTIES RowsStay EveryRequestEnds SentinelClears
CHECK_DEADLOCK FALSE
