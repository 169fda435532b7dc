CONSTANTS
  Subcarriers <- const_Subcarriers
  DataSymbols = 3
  Coding = FALSE
  IdSpace = 2
  Allocations <- const_Allocations
  Amplitudes = {1, 2}
  Unit = 1
  Window = 2
  WorkMax = 2
  FrameMax = 3
  ReadMax = 1
SPECIFICATION FairSpec
INVARIANTS
  TypeOK
  AnnouncedAsSent
  SlotKept
  FrameAgreement
  NeverNewer
PROPERTIES
  DrainEnds
  EveryFrameDemapped
  ImplementsLink
