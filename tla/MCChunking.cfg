SPECIFICATION Spec
CONSTANTS
  MaxLen = 7
  Texts <- MCTexts
  chunk_size = 4
  chunk_overlap = 2
INVARIANTS TypeOK OffsetsAddUp NothingLost OffsetsTrue SizeBound Greedy
CHECK_DEADLOCK FALSE
