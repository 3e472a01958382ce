SPECIFICATION FairSpec
CONSTANTS
  MaxMessages = 3
  MaxClogged = 2
  MaxContent = 2
  Reverses = TRUE
INVARIANTS MessagesIntact ResponsesIntact
PROPERTIES RequestsAreAnswered HangUpIsNoticed
CHECK_DEADLOCK FALSE
