CONSTANTS
  Subcarriers <- const_Subcarriers
  DataSymbols = 3
  Coding = TRUE
  IdSpace = 2
  Allocations <- const_CodedAllocations
  Amplitudes = {1}
  Unit = 1
  Window = 2
  WorkMax = 2
  FrameMax = 3
  ReadMax = 2
SPECIFICATION Spec
INVARIANTS
  FrameAgreement
  NeverNewer
  PowerRestored
  OneCallOneAllocation
