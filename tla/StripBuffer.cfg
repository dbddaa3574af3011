SPECIFICATION BufferSpec
CONSTANTS
  OUTPUT_BUF_SIZE = 2
  MAX_BYTES = 63
INVARIANTS
  BufferTypeOK
  NothingLost
  SuccessHandsOver
  LossOnlyAfterGrowth
