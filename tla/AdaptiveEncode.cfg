SPECIFICATION Spec
CONSTANTS
  Files <- MCFiles
  READER_ROWS = 2
  ForcedThreads <- MCForced
INVARIANTS
  ReturnsWithPngContextAtMost
  EncodesLoadedRows
