SPECIFICATION MCSpec
CONSTANTS
  Req = {r1, r2, r3}
  blank = blank
  spec = spec
  r1 = r1
  r2 = r2
  r3 = r3
  manual = manual
  Contents = {blank, spec, manual}
  ChunkCount <- MCChunkCount
  PoolSize = 2
  None = none
INVARIANTS UploadTypeOK ReadyHasAllChunks LoadedOnce
PROPERTIES StoreSpec EveryUploadServed
CHECK_DEADLOCK FALSE
