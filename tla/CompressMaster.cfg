SPECIFICATION Spec
CONSTANTS
  Params <- MCParams
  HEIGHT = 2
  MAX_STREAMS = 2
  MAX_MARKERS = 1
INVARIANTS
  TypeOK
  LastPassIsLastScan
  WellFormed
  Decodable
  ComputedTablesWritten
