SPECIFICATION BoundsSpec
CONSTANTS
  DCTSIZE = 3
  Heights <- MCHeights
  VFactors <- MCVFactors
  ThreadCounts <- MCThreadCounts
INVARIANTS
  Partition
  Aligned
  StripsNonEmpty
  McuRowsAddUp
