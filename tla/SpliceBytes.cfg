SPECIFICATION Spec
CONSTANTS
  Inputs <- MCInputs
INVARIANTS
  InBounds
  SplicesToWholeJpeg
  RejectsOnlyIncomplete
