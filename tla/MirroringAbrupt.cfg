SPECIFICATION Spec
CONSTANTS
  MaxHandlers = 1
  MaxSessionSetups = 1
  MaxStreamSetups = 1
  AppMayHold = FALSE
CHECK_DEADLOCK FALSE
INVARIANTS StopIsAlwaysReported
