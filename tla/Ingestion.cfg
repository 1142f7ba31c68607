\* Two readings and two reports; one reconnect, one crash, one failed call.
SPECIFICATION FairSpec
CONSTANTS
  d1 = d1
  d2 = d2
  Uplinks <- MCUplinks
  MaxReconnects = 1
  MaxCrashes = 1
  MaxErrors = 1
INVARIANTS
  TypeOK
  ShownIsPersisted
  NoSilentLoss
  ConfigIsNewest
PROPERTY
  EveryReadingHandled
CHECK_DEADLOCK FALSE
