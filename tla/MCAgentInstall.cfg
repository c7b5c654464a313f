SPECIFICATION Spec
CONSTANTS
  Images = {v1, v2}
  MaxRuns = 3
  MaxFaults = 2
INVARIANTS
  TypeOK
  SuccessMeans
  FailureRestores
  CopyKept
  Idempotent
PROPERTIES
  RunEnds
CHECK_DEADLOCK FALSE
