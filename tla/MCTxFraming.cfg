CONSTANTS
  dsubc = 1
  frame_size = 3
  Loads = {1, 2}
  FrameMax = 3
  CallMax = 3
SPECIFICATION FairSpec
INVARIANTS
  TypeOK
  SymbolsFramed
PROPERTY
  FramesLeave
