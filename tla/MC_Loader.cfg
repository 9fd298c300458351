SPECIFICATION Spec
CONSTANTS
  Files = {f1, f2, f3}
  PackageSize = 5
INVARIANTS
  TypeOK
  MainHasFiles
  DepsExact
PROPERTY MainStarts
CHECK_DEADLOCK FALSE
