\* The first load of a chart against one reading that arrives live.
SPECIFICATION Spec
CONSTANTS
  MaxReadings = 3
  MaxGets = 1
  MaxLoads = 1
  MaxDrops = 0
  MaxFailures = 0
  Hours = 2
PROPERTY
  LoadKeepsLive
CHECK_DEADLOCK FALSE
