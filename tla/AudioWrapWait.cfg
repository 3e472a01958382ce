SPECIFICATION Spec
CONSTANTS
  SeqMod = 8
  MaxCached = 2
  FirstSeq = 4
  NumPackets = 10
  Window = 3
  MaxLosses = 1
  MaxDups = 0
  SocketMayFail = FALSE
CHECK_DEADLOCK FALSE
INVARIANTS WaitIsBounded
