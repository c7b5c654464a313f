SPECIFICATION Spec
CONSTANTS
  NumDatasets = 1
  MaxRuns = 1
  MaxFaults = 1
  MaxOwn = 0
PROPERTIES
  AbortStopsStream
CHECK_DEADLOCK FALSE
