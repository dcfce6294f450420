SPECIFICATION Spec
CONSTANTS
  MaxAttempts = 1
  MaxRevision = 1
  Generation <- OneGeneration
  NoGeneration = NoGeneration
  MaxFaults = 1
  MaxCrashes = 2
  Kind = "service"
  g1 = g1
  g2 = g2
PROPERTY CountedFailureMayRestart
