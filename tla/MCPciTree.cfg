CONSTANTS
  Bases = {"pci"}
  TempNames = {"pci_list", "pci_open"}
  Step = 2
  FreshFree = {TRUE, FALSE}
  Closing = TRUE
  MaxTotal = 4
  FuncMax = 4
  SlotCount = 2
  AddressRadix = 2
  Digits = 3
  Hardware <- MCHardware
  Distances <- MCDistances
  MaxHeap = 3
SPECIFICATION PciSpec
CHECK_DEADLOCK FALSE
INVARIANTS
  ScanFinds
  FilesKept
