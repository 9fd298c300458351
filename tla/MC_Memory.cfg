SPECIFICATION Spec
CONSTANTS
  Fanout = 4
  FrameCount = 15
  PageSize = 2
  UserPages <- MCUserPages
  KernelPages <- MCKernelPages
  Lasting <- MCLasting
  MemoryMaps <- MCMemoryMaps
INVARIANTS
  TypeOK
  FramesDisjoint
  OnlyUsableRam
  RangeCheckExact
PROPERTY AddressSpaceKept
CHECK_DEADLOCK FALSE
