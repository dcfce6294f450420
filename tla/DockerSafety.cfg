SPECIFICATION Spec
CONSTANTS
  Kinds = {"container", "volume"}
  MaxAttempts = 2
  MaxFaults = 2
  MaxSwitches = 2
  MaxMeddling = 2
INVARIANTS TypeOK RetryIsSafe ContainerFirst StopsOnce
CHECK_DEADLOCK FALSE
