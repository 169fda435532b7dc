CONSTANTS
  frame_length = 5
  pilotsym_pos <- const_Pilots
  Items = 6
  BlockMax = 6
  RoomMax = 2
SPECIFICATION FairSpec
INVARIANTS TypeOK CorrectedByOwnFrame OneFramePerStart DataBlocksFramed
PROPERTIES EveryFrameHandedOn
CHECK_DEADLOCK FALSE
