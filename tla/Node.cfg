\* One node, all commands, any flash content, two power cuts.
SPECIFICATION FairSpec
CONSTANTS
  Downlinks <- MCDownlinks
  Flash <- MCFlash
  MaxCuts = 2
INVARIANTS
  TypeOK
  ConfigInRange
  FlashAgrees
PROPERTIES
  ReportFirst
  ConfirmationEchoes
  Confirmed
  ReadingsResume
  ImplementsRemoteConfig
