SPECIFICATION Spec
CONSTANTS
  Cnapis = {"new"}
  MaxVmChanges = 0
  MaxSysChanges = 1
  MaxCrashes = 0
INVARIANT
  SysinfoUpdated
CHECK_DEADLOCK FALSE
