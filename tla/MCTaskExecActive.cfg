SPECIFICATION Spec
CONSTANTS
  t1 = t1
  t2 = t2
  Tasks <- OneTask
  MaxMessages <- FewMessages
  MaxCrashes = 1
  MaxHistory = 1
INVARIANT
  EndedIsNotActive
CHECK_DEADLOCK FALSE
