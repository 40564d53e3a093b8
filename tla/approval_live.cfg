SPECIFICATION FairSpec
CONSTANTS
  Ids = {m, w}
  Mails = {m}
  MaxPending = 2
  MaxDrafts = 2
  MaxPresses = 3
  MaxCrashes = 2
  FileFaults = TRUE
  NoCard = NoCard
  Idle = Idle
PROPERTIES
  ConfirmedIsFinal
  AskedIsAnswered
CHECK_DEADLOCK FALSE
