CONSTANTS
  SlotCounts = {1, 2}
  SpinMax = 2
  Lengths = {0, 512, 1024, 1536}
  SectorSize = 3
  SectorCount = 3
  EntryBytes = 6
  CallLengths = {1, 2, 3, 4, 5, 7, 9}
  Distances <- MCDistances
SPECIFICATION FairDriveSpec
CHECK_DEADLOCK FALSE
INVARIANTS
  BasesWhileStopped
  SlotOwned
  LeakOnlyByHalt
  OutsideKept
  
PROPERTIES
  ResultHonest
  OffsetFollows
  CallReturns
