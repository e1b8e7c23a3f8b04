CONSTANTS
  SlotCounts = {1, 2}
  SpinMax = 2
  Lengths = {0, 512}
SPECIFICATION Spec
CHECK_DEADLOCK FALSE
INVARIANTS
  EntryForRemainder
