SPECIFICATION BufferSpec
CONSTANTS
  OUTPUT_BUF_SIZE = 2
  MAX_BYTES = 63
INVARIANT
  FailureIsContained
