\* Three readings of a chart of one hour, two overlapping loads, one failing.
SPECIFICATION Spec
CONSTANTS
  MaxReadings = 3
  MaxGets = 1
  MaxLoads = 2
  MaxDrops = 0
  MaxFailures = 1
  Hours = 1
PROPERTIES
  ReloadKeeps
CHECK_DEADLOCK FALSE
