SPECIFICATION Spec
CONSTANTS
  Scans <- MCScans
  Faults <- MCFaults
INVARIANTS
  IntactIsRight
  LostSegmentsAreBlank
  DamageContained
  NeverOverrun
PROPERTIES
  AllDelivered
