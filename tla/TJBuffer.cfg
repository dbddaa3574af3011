SPECIFICATION Spec
CONSTANTS
  s1 = s1
  s2 = s2
  Handles = {h1, h2}
  Slots = {s1, s2}
  Calls <- MCCalls
  AllocSizes = {2}
  OUTPUT_BUF_SIZE = 2
  HEADER = 1
  MAX_JPEG = 3
  MAX_ADDRESS = 3
  SmallBuffers = FALSE
SYMMETRY MCSymmetry
INVARIANTS
  AppOwnsBuffers
  SizeIsReal
PROPERTIES
  JpegIsWhole
  FixedStays
CHECK_DEADLOCK FALSE
