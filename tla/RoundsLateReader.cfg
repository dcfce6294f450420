SPECIFICATION Spec
CONSTANTS
  Workload <- LateReader
  LocalTime <- Calendar
  Cooldown = 1
  EmptyCooldown = 2
  MaxAttempts = 5
  MaxGenerations = 2
INVARIANT SuccessIsNoCrash
CHECK_DEADLOCK FALSE
