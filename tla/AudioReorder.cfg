SPECIFICATION FairSpec
CONSTANTS
  SeqMod = 32
  MaxCached = 3
  FirstSeq = 0
  NumPackets = 8
  Window = 6
  MaxLosses = 1
  MaxDups = 1
  SocketMayFail = TRUE
CHECK_DEADLOCK FALSE
INVARIANTS WaitIsBounded NoGaps
PROPERTIES PlaysOnArrivalOnlyTheNext StreamIsPlayed PlayoutSpec
