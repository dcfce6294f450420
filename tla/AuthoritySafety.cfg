SPECIFICATION Spec
CONSTANTS
  MaxAttempts = 2
  MaxRevision = 1
  MaxDamage = 2
  MaxTrouble = 3
  MaxFaults = 2
  LateInitialization = FALSE
CHECK_DEADLOCK FALSE
INVARIANTS TypeOK EvidenceKept
PROPERTIES NothingLivesAfterRecovery NoStartUnderRepair RepairSuffices
