SPECIFICATION Spec
CONSTANTS
  DCTSIZE = 2
  RST_CYCLE = 8
  MAX_LINES = 3
  Images <- MCImages
INVARIANTS
  RowsAccounted
  DoneMeansWritten
  ScanIsReference
PROPERTIES
  Completes
