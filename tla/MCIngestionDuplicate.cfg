SPECIFICATION Spec
CONSTANTS
  Req = {r1, r2}
  blank = blank
  spec = spec
  Contents = {blank, spec}
  ChunkCount <- MCChunkCount
  None = none
INVARIANT DuplicatesServed
CHECK_DEADLOCK FALSE
