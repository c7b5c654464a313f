SPECIFICATION FairSpec
CONSTANTS
  Creates = {c1}
  Reprovisions = {r1}
  Destroys = {d1, d2}
  MaxProvisions = 1
  MaxCrashes = 1
INVARIANTS
  TypeOK
  DestroyTrue
  GivesTenMinutes
PROPERTIES
  DestroyEnds
CHECK_DEADLOCK FALSE
