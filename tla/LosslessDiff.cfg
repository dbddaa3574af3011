SPECIFICATION Spec
CONSTANTS
    Half = 4
    Precision = 3
INVARIANT Lossless
CHECK_DEADLOCK FALSE
