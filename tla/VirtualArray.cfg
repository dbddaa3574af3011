SPECIFICATION Spec
CONSTANTS
  Kinds <- MCKinds
  Values = {1, 2}
INVARIANTS
  TypeOK
PROPERTIES
  KeepsRows
