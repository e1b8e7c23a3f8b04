CONSTANTS
  PageCount = 24
  PageSize = 4096
  Requests = {3, 5, 8}
  StepArgs = {1, 1024}
  BootBlocks <- MCBootBlocks
  MmioBlocks <- MCMmioBlocks
  Leftovers <- MCLeftovers
SPECIFICATION FairSpec
INVARIANTS
  HeldExclusive
  PagesConserved
PROPERTIES
  ImplementsPool
  AllocReturns
