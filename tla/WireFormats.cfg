SPECIFICATION MCSpec
CONSTANTS
  Messages <- MCMessages
  Foreign <- MCForeign
  MaxHeads = 3
  MaxNoise = 2
  IntValues = {0, 1, 255, 256, 65535, 65536}
  TextLengths = {0, 14, 15, 256}
  Sizes = {0, 2, 15, 127}
  Nesting <- MCNesting
  MaxLength = 100000
INVARIANTS HeadsEndTogether ReadAsWritten LengthsAgree ReadsBack EveryValueIsFound
CHECK_DEADLOCK FALSE
