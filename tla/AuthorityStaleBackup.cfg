SPECIFICATION Spec
CONSTANTS
  MaxAttempts = 1
  MaxRevision = 1
  MaxDamage = 1
  MaxTrouble = 2
  MaxFaults = 0
  LateInitialization = TRUE
CHECK_DEADLOCK FALSE
PROPERTIES NothingLivesAfterRecovery
