CONSTANTS
  Environments <- MCEnvironments
  Statuses = {"active", "retired"}
  Devices = {"simulated", "pole"}
  Fixtures = {"simulated"}
  Names <- MCNames
  SeedPlace <- MCSeedPlace
  Particles <- MCParticles
  Skews = {1}
  Window = 1
  MaxTime = 1
  MaxChanges = 2
  MaxLists = 1
SPECIFICATION Spec
CHECK_DEADLOCK FALSE
INVARIANTS
  TypeOK
  
  ScaleSound

  
  
