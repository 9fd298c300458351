SPECIFICATION Spec
CONSTANTS
  MaxTasks = 2
  MaxInits = 3
  Iters = 1
  Main <- MCMain
  Body <- MCBody
INVARIANT NeverWedged
CHECK_DEADLOCK FALSE
