SPECIFICATION Spec
CONSTANTS
  Callers = {c1}
  MaxParks = 0
  MaxCrashes = 0
INVARIANT CanceledIsStopped
CHECK_DEADLOCK FALSE
