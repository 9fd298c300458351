SPECIFICATION InputSpec
CONSTANTS
  MaxTasks = 1
  MaxInits = 2
  Iters = 1
  Cap = 3
  MaxKeys = 3
  Main <- MCMain
  Body <- MCBody
INVARIANT AwakeWithinOnePeriod
