SPECIFICATION Spec
CONSTANTS
  c1 = c1
  c2 = c2
  Control <- TwoControls
  Settings <- Bootstrapping
  MaxAttempts = 2
  MaxRevision = 1
  MaxFaults = 0
INVARIANT NeverAmbiguous
