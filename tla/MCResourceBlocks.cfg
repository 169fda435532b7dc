CONSTANTS
  d_subcarriers = 5
  BlockSizes = {1, 2, 3, 4, 5, 6}
  BlockNumbers = {1, 2, 3, 4, 6}
  ResizeMax = 1
SPECIFICATION BlocksSpec
INVARIANTS
  BlocksTypeOK
  OwnBlock
  SnrUsedOnce
