SPECIFICATION Spec
CONSTANTS
  MaxAttempts = 2
  MaxRevision = 2
  Generation <- TwoGenerations
  NoGeneration = NoGeneration
  MaxFaults = 2
  MaxCrashes = 2
  Kind = "service"
  g1 = g1
  g2 = g2
INVARIANTS TypeOK WriteAhead Contained NoHandleLeak StopsAreKept
PROPERTIES CleanedOnlyWhenEmpty OwnsWhatLives
