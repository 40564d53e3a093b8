SPECIFICATION Spec
CONSTANTS
  Ids = {m, n, w}
  Mails = {m, n}
  MaxPending = 2
  MaxDrafts = 1
  MaxPresses = 1
  MaxCrashes = 1
  FileFaults = TRUE
  NoCard = NoCard
  Idle = Idle
INVARIANTS
  TypeOK
  SendsBoundedByApprovals
  ActsOnApprovalOnly
  NoCallIsStranded
CHECK_DEADLOCK FALSE
