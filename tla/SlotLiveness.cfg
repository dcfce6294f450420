SPECIFICATION FairSpec
CONSTANTS
  MaxAttempts = 2
  MaxRevision = 1
  Generation <- OneGeneration
  NoGeneration = NoGeneration
  MaxFaults = 2
  MaxCrashes = 1
  Kind = "scheduler"
  g1 = g1
  g2 = g2
PROPERTIES StopCompletes ClosedGateStopsAll LoopReturns
