SPECIFICATION InboxSpec
CONSTANTS
  Accounts = {a1, a2}
  NoAccount = none
  MaxLoads = 3
  MaxJobs = 3
  MaxDeeds = 1
INVARIANT ListIsOfAccount
CHECK_DEADLOCK FALSE
