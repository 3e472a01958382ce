SPECIFICATION FairSpec
CONSTANTS
  MaxHandlers = 2
  MaxSessionSetups = 2
  MaxStreamSetups = 3
  AppMayHold = TRUE
CHECK_DEADLOCK FALSE
INVARIANTS GoneIsClean QuietAfterEnd StopIsReported
PROPERTIES CallbacksInOrder TeardownIsAnswered SessionEnds
