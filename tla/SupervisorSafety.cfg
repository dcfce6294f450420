SPECIFICATION Spec
CONSTANTS
  c1 = c1
  c2 = c2
  Control <- TwoControls
  Settings <- Recovering
  MaxAttempts = 2
  MaxRevision = 1
  MaxFaults = 1
SYMMETRY Interchangeable
INVARIANTS TypeOK ReadyNamesActivated RecoveryAlone
PROPERTIES OwnsWhatLives
