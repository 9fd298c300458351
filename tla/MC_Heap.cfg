SPECIFICATION Spec
CONSTANTS
  HeapBase = 8
  HeapSize = 28
  NodeSize = 4
  NodeAlign = 2
  Layouts <- MCLayouts
INVARIANTS
  Disjoint
  FreedIsReused
PROPERTY NothingElseLost
CHECK_DEADLOCK FALSE
