SPECIFICATION FairSpec
CONSTANTS
  Senders = {s1, s2}
  NumMedia = 2
  MaxPlays = 2
  MaxReverses = 2
  Reconnecting = {s1}
  EventsMayDrop = TRUE
  AnswersMayFail = TRUE
CHECK_DEADLOCK FALSE
INVARIANTS PlaysWhenFetched FetchesOnce
PROPERTIES PlaysTheLatest RequestsGoToTheSender PlayerSpec PlayStarts
