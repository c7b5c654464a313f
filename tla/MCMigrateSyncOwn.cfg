SPECIFICATION Spec
CONSTANTS
  NumDatasets = 1
  MaxRuns = 2
  MaxFaults = 1
  MaxOwn = 1
INVARIANTS
  EachSyncReplicates
CHECK_DEADLOCK FALSE
