\* One failed call.
SPECIFICATION Spec
CONSTANTS
  d1 = d1
  d2 = d2
  Uplinks <- MCReadings
  MaxReconnects = 0
  MaxCrashes = 0
  MaxErrors = 1
PROPERTY
  DroppedBeforePersistence
CHECK_DEADLOCK FALSE
