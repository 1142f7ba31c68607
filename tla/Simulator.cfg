CONSTANTS
  Order <- MCOrder
  Nonces = {n1, n2}
  Commands <- MCCommands
  Targets = {"node1"}
  MaxAttempts = 2
  MaxTries = 2
  MaxRestarts = 1
  MaxCommands = 1
  MaxLate = 1
  MaxJobs = 2
SPECIFICATION Spec
SYMMETRY NonceSymmetry
CHECK_DEADLOCK FALSE
INVARIANTS
  TypeOK
  KeysAgree
  SessionsAgree
  Scheduled
PROPERTIES
  SettingsSurvive
