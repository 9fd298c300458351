SPECIFICATION RRFairSpec
CONSTANTS
  MaxTasks = 5
  MaxInits = 3
INVARIANTS
  TypeOK
  QueueInv
  BoundedWait
PROPERTIES
  FinishedForever
  EveryTaskRuns
CHECK_DEADLOCK FALSE
