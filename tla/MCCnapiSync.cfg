SPECIFICATION Spec
CONSTANTS
  Cnapis = {"new", "old"}
  MaxVmChanges = 2
  MaxSysChanges = 1
  MaxCrashes = 1
INVARIANTS
  TypeOK
  OneOfEach
  NoChangeForgotten
CHECK_DEADLOCK FALSE
