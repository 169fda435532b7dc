CONSTANTS
  N = 2
  max_nbits = 2
  Increment <- const_Increment
  Channels <- const_Channels
  Constraints = {2, 5}
  ResetBits = 2
  MinUsed = 2
  MaxPower = 100
  InitPower = 25
  InitConstraint = 5
SPECIFICATION FairSpec
INVARIANTS
  TypeOK
  PowerWithinWhenUsed
PROPERTIES
  LoadingBest
  Converges
