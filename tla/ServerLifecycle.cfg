SPECIFICATION FairSpec
CONSTANTS
  Sessions = {s1, s2}
  MaxStarts = 2
  MayThrow = TRUE
  AppMayHold = TRUE
CHECK_DEADLOCK FALSE
INVARIANTS AdvertisedIsListening RefsAreRegistrations IdleIsClean StartIsTruthful
PROPERTIES CallsReturn
