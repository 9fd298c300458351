SPECIFICATION Spec
CONSTANTS
  ImageLen = 9
  SuperblockLen = 1
  DirentLen = 2
  MaxDepth = 2
  Headers <- MCHeaders
  Extents <- MCExtents
INVARIANTS
  TypeOK
  PathsInside
  TablesDisjoint
CHECK_DEADLOCK FALSE
