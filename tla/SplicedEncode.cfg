SPECIFICATION Spec
CONSTANTS
  DCTSIZE = 2
  RST_CYCLE = 8
  JPEG_MAX_DIMENSION = 20
  HEIGHT_FIELD = 21
  MAX_TEAM = 4
  Calls <- MCCalls
INVARIANTS
  TypeOK
  NoSharing
  SplicesCompleteStrips
  LossOnlyAfterGrowth
PROPERTIES
  EncodesLikeOneThread
  Returns
