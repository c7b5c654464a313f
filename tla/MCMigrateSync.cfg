SPECIFICATION Spec
CONSTANTS
  NumDatasets = 2
  MaxRuns = 4
  MaxFaults = 3
  MaxOwn = 1
INVARIANTS
  TypeOK
  SuccessIsFresh
  OneKept
  CommonBase
  FailsOnlyDisturbed
PROPERTIES
  ReplicaSpec
  SyncEnds
CHECK_DEADLOCK FALSE
