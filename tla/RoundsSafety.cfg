SPECIFICATION Spec
CONSTANTS
  Workload <- Groups
  LocalTime <- Calendar
  Cooldown = 1
  EmptyCooldown = 2
  MaxAttempts = 5
  MaxGenerations = 2
INVARIANTS TypeOK MinuteRunsOnce VerdictDeserved StatusTellsTheEnd
PROPERTIES StartsOnItsClaim RunsWhenWritten GivesUpWhenSpent
CHECK_DEADLOCK FALSE
