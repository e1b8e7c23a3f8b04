CONSTANTS
  PageCount = 16
  PageSize = 4
  LowMemory = 8
  LoadStart = 8
  BssEnd = 18
  MemoryMaps <- MCMemoryMaps
  Leftovers <- MCLeftovers
SPECIFICATION Spec
CHECK_DEADLOCK FALSE
INVARIANTS
  KernelKept
  RangesLegal
  FreeIsRam
