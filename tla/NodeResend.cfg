\* A command applied after a failed save of the same command.
SPECIFICATION Spec
CONSTANTS
  Downlinks <- MCDownlinks
  Flash <- MCEmptyFlash
  MaxCuts = 0
PROPERTY
  AppliedIsDurable
