SPECIFICATION ServicesSpec
CONSTANTS
  StoredTasks = {"t1", "t2"}
  MaxFlushes = 2
  MaxHistory = 1
  Folders = {"f1"}
  NoFolder = none
  RoutineIds = {"r1"}
  MaxPerHour = 1
  Hour = 1
  MaxMinute = 2
  MaxObjects = 2
  MaxWrites = 2
  Requests = {"q1", "q2"}
  MaxProcs = 3
  MaxLines = 2
  Lanes = {"backlog", "done"}
  MaxTodoOps = 2
  MaxTurns = 2
  McpCalls = {"c1", "c2"}
  MaxEdits = 3
  MaxAsks = 3
  Puts = {"c1", "c2"}
  Providers = {"p1"}
  Roots = {"f1", "f2"}
  NoRoot = none
  Facts = {"x", "y"}
  NoFact = none
  OldRecords = {"o1", "o2"}
  ProfileRecords = {"o1"}
  NewRecords = {"n1"}
  SecretOps = {"s1", "s2", "s3"}
  MaxRevision = 3
  NoStore = none
  Locked = notOpen
  Logins = {"l1"}
  Workers = {"w1"}
  Models = {"m1"}
  MaxCalls = 2
  MaxFailures = 2
  Nobody = none
  Inputs = {"x", "y"}
  MaxNoteRevision = 3
  NoInput = none
  Writers = {"c1", "c2"}
  MaxUid = 2
  PageEvents = {"e1"}
  RemoteEvents = {"e2"}
  CalAccounts = {"x"}
  Chats = {"c1", "c2"}
  Points = 2
  MaxWrong = 2
INVARIANTS
  ServicesTypeOK
  StoresAreWhole
  TurnsCapped
  LinkHolds
  EnginesObey
  RefsResolve
  AuditedAtHome
  RevokedStaysRevoked
  OncePerGrant
  MailNotSkipped
  PagesTellTheTruth
PROPERTIES
  OnlyOnward
  ReleasedWhileLive
  UserWordsStay
  SyncOnlyAdds
  LinkRecovers
CHECK_DEADLOCK FALSE
