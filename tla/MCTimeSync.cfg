SPECIFICATION FairSpec
CONSTANTS
  d_vlen = 4
  d_cplen = 2
  d_avg_blocks = 1
  d_s1_max_failures = 1
  ShiftSteps = 2
  PeakMax = 1
  BufferMax = 24
  IndexMax = 5
  RoomMax = 2
INVARIANT TypeOK
PROPERTIES
  EntersOnPreamble
  FirstBlockIsPreamble
  BlocksAdjoin
  SamplesConsumed
