SPECIFICATION Spec
CONSTANTS
  Cap = 4
  Byte = {1, 2, 3}
INVARIANT NoSlotRace
PROPERTY ImplementsQueue
