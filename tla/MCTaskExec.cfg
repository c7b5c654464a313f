SPECIFICATION FairSpec
CONSTANTS
  t1 = t1
  t2 = t2
  Tasks <- TwoTasks
  MaxMessages <- FewMessages
  MaxCrashes = 1
  MaxHistory = 1
INVARIANTS
  TypeOK
  HistoryAgrees
  NoOrphan
  OneAnswer
  AnsweredOrWatched
  AnsweredIsStopped
PROPERTIES
  RpcSpec
  Answered
  WorkerEnds
CHECK_DEADLOCK FALSE
