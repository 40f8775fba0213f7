SPECIFICATION Spec
CONSTANTS
  Req = {r1, r2}
  blank = blank
  spec = spec
  Contents = {blank, spec}
  ChunkCount <- MCChunkCount
  None = none
INVARIANT FailuresKept
CHECK_DEADLOCK FALSE
