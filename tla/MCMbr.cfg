CONSTANTS
  LbaLimit = 4
  SectorCounts = {0, 1, 3, 4, 5, 6}
  EntryCount = 4
SPECIFICATION Spec
CHECK_DEADLOCK FALSE
INVARIANTS
  MountedOnDrive
  NoSharedSector
  MountedIsTable
  RefusedForReason
