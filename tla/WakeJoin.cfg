CONSTANTS
  Calibrations <- MCPlain
  PmRaw = {12}
  TempRaw = {2150}
  MaxPolls = 1
  MaxHunt = 1
  MaxFifo = 1
  MaxFCnt = 1
  MaxCuts = 1
SPECIFICATION FairSpec
CHECK_DEADLOCK FALSE
PROPERTY Rejoins
