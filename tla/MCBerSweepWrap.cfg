CONSTANTS
  max_tx_id = 3
  InFlight = 1
  Lag = 1
  ReceivedMax = 2
  NumMods = 2
  NumPowers = 2
  GoodMod = 1
  GoodPower = 2
  InitMod = 0
  InitPower = 3
  Collect = 3
  StableMin = 1
  PointLen = 1
  ExpireMax = 1
SPECIFICATION FairSpec
PROPERTY
  EveryPointEnds
