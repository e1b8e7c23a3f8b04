CONSTANTS
  PageCount = 5
  PageSize = 8
  BootBlocks <- MCBootBlocks
  BlockSize = 2
  HeaderSize = 1
  BlockMin = 5
  Sizes = {2, 4, 7}
  MaxLive = 3
SPECIFICATION Spec
INVARIANTS
  NullMeansFull
