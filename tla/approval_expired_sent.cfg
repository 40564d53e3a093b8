SPECIFICATION Spec
CONSTANTS
  Ids = {m}
  Mails = {m}
  MaxPending = 1
  MaxDrafts = 1
  MaxPresses = 1
  MaxCrashes = 0
  FileFaults = FALSE
  NoCard = NoCard
  Idle = Idle
INVARIANTS
  ExpiredIsNotSent
CHECK_DEADLOCK FALSE
