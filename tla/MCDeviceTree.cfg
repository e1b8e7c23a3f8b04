CONSTANTS
  Bases = {"term", "pci", "disk"}
  TempNames = {"root_list", "list", "pci_open"}
  Step = 8
  FreshFree = {TRUE}
  Closing = FALSE
  MaxTotal = 24
  Radix = 2
  MaxTerms = 2
  MaxFuncs = 2
  MaxDisks = 5
SPECIFICATION Spec
CHECK_DEADLOCK FALSE
INVARIANTS
  
  OneTreePerDevice
  MountedUnlessShadowed
  ReachesOwn
