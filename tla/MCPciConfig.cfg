CONSTANTS
  FuncCount = 2
  FuncSize = 8
  Lengths = {0, 1, 2, 3, 4, 6, 9, 11}
  Distances <- MCDistances
SPECIFICATION ConfigSpec
INVARIANTS
  
  FunctionReadsOwn
  AlignedWritesInPlace
