CONSTANTS
  dsubc = 1
  frame_size = 3
  Loads = {1, 2}
  Wrong <- MCWrong
  sliding_window_length = 3
  FrameMax = 2
  CallMax = 3
SPECIFICATION FairSpec
INVARIANTS
  TypeOK
  ComparedInStep
  RatePerFrame
PROPERTY
  RatePublished
CHECK_DEADLOCK FALSE
