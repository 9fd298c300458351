SPECIFICATION Spec
CONSTANTS
  MaxTasks = 2
  MaxInits = 3
  Iters = 4
  Main <- MCMain
  Body <- MCBody
INVARIANTS
  PreemptionSafe
  OwnInterruptFlag
  SelfTests
PROPERTIES
  CleanSwitch
  ImplementsScheduler
CHECK_DEADLOCK FALSE
