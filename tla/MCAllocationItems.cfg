CONSTANTS
  Subcarriers <- const_Subcarriers
  DataSymbols = 3
  Coding = FALSE
  IdSpace = 2
  Allocations <- const_Allocations
  Amplitudes = {1}
  Unit = 1
  Window = 2
  WorkMax = 2
  FrameMax = 2
  ReadMax = 2
SPECIFICATION Spec
INVARIANT
  EveryItemAgrees
