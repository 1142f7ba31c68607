CONSTANTS
  Calibrations <- MCCalibrations
  PmRaw <- MCPmRaw
  TempRaw <- MCTempRaw
  MaxPolls = 1
  MaxHunt = 2
  MaxFifo = 2
  MaxFCnt = 2
  MaxCuts = 1
SPECIFICATION Spec
CHECK_DEADLOCK FALSE
INVARIANTS
  TypeOK
  PmFresh
  EnvFresh
  FanAsleep
  SessionKept
  StoredAsMeasured
PROPERTY ResumesCleanly
