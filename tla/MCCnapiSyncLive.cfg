SPECIFICATION FairSpec
CONSTANTS
  Cnapis = {"new", "old"}
  MaxVmChanges = 1
  MaxSysChanges = 0
  MaxCrashes = 1
PROPERTIES
  StatusConverges
  HeartbeatsGoOn
CHECK_DEADLOCK FALSE
