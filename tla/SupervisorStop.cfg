SPECIFICATION FairSpec
CONSTANTS
  c1 = c1
  c2 = c2
  Control <- TwoControls
  Settings <- Stopping
  MaxAttempts = 2
  MaxRevision = 2
  MaxFaults = 1
PROPERTIES ClosedGateStopsResident CommandsReturn OwnsWhatLives
