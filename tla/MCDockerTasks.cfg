SPECIFICATION Spec
CONSTANTS
  Sessions = {s1, s2}
  Copies = {c1, c2}
  MaxExecFaults = 1
  MaxCopyFaults = 1
  MaxSteps = 3
  MaxBuildFaults = 1
INVARIANTS
  DockerTypeOK
  UnmountedBeforeEnd
  StartsOnceReady
  ImagesAreTheSteps
  EndCleansUp
PROPERTIES
  AttachedBeforeRun
  UnmountsOwn
  DockerEnds
CHECK_DEADLOCK FALSE
