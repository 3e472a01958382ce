SPECIFICATION FairSpec
CONSTANTS
  MaxMessages = 1
  MaxClogged = 1
  MaxContent = 1
  Reverses = FALSE
PROPERTIES DropIsNoticed
CHECK_DEADLOCK FALSE
