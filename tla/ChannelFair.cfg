SPECIFICATION FairSpec
CONSTANTS
  c1 = c1
  c2 = c2
  Caller <- Callers
  Setting <- Channels
  MaxQueued = 1
  MaxCalls = 3
  MaxEmitted = 3
INVARIANTS TypeOK InOrder AnswersItsRequest ClosedMeansQuiet
PROPERTIES IdleMeansRead CallsReturn FailedThenClosed
CHECK_DEADLOCK FALSE
