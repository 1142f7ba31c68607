\* Two readings of one node, nothing lost, delivered twice or failing.
SPECIFICATION Spec
CONSTANTS
  d1 = d1
  d2 = d2
  Uplinks <- MCReadings
  MaxReconnects = 0
  MaxCrashes = 0
  MaxErrors = 0
INVARIANT
  LatestIsNewest
CHECK_DEADLOCK FALSE
