\* Two readings, the socket lost or refused twice, one request failing.
SPECIFICATION FairSpec
CONSTANTS
  MaxReadings = 2
  MaxGets = 2
  MaxLoads = 0
  MaxDrops = 2
  MaxFailures = 1
  Hours = 1
INVARIANTS
  TypeOK
  ConnectionTold
PROPERTIES
  LatestNeverOlder
  
CHECK_DEADLOCK FALSE
