SPECIFICATION Spec
CONSTANTS
  Ids = {m, n}
  Mails = {m, n}
  MaxPending = 2
  MaxDrafts = 2
  MaxPresses = 1
  MaxCrashes = 0
  FileFaults = FALSE
  NoCard = NoCard
  Idle = Idle
INVARIANTS
  OpenCardHasDraft
CHECK_DEADLOCK FALSE
