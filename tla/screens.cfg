SPECIFICATION ScreensSpec
CONSTANTS
  Drafts = {"a"}
  Engines = {"pi"}
  RoomSteps = 2
  MaxMessages = 3
  Profiles = {"p1"}
  MaxProfile = 2
  OldFiles = {"f1", "f2"}
  NoOldFile = none
  Items = {"i1", "i2"}
  MaxItemRevision = 2
  MaxPackages = 1
  NoItem = none
  Accounts = {"a1", "a2"}
  NoAccount = none
  MaxLoads = 2
  MaxJobs = 2
  MaxDeeds = 1
  Principals = {"u1", "u2"}
  NoPrincipal = none
  MaxQuestions = 2
  MaxRequests = 2
  MaxDemoTasks = 2
  WindowAgents = {"a1"}
  MaxVersion = 2
  MaxWindowJobs = 2
  RemoteJobs = {"c1"}
  MaxRemoteUid = 2
  Viewers = {"v1"}
  Pages = {"a", "b"}
  MaxLives = 2
  MaxPageRevision = 2
  MaxQueued = 1
  TreeFiles = {"f1", "f2"}
  TreeFolders = {"d1"}
  Finds = {"a", "b"}
  PageCount = 2
  MaxReads = 2
  NoFile = none
  Providers = {"p1", "p2"}
  MaxSaid = 2
  MaxAsks = 1
  NoProvider = none
  Cards = {"c1", "c2"}
  RoutineNames = {"r1"}
  MaxPolicy = 1
  MaxCalls = 2
  MaxNews = 2
  MaxFolder = 2
  ToolFiles = {"f1", "f2"}
  SearchDepth = 1
  SearchLimit = 2
  MaxVisited = 3
  MaxMoves = 1
  MaxSkills = 1
  KeptTalks = 2
  MaxTalks = 3
  MaxStarts = 1
  Configured = {"a1", "a2"}
  Main = "a1"
  FileNames = {"agent.md"}
  MaxEdits = 1
  MaxSaves = 1
  Names = {"a", "b"}
  Label <- Crossed
  MaxRules = 2
  MaxEdited = 2
  Apps = {"performance"}
  Spans = {"a", "b"}
  NoSpan = none
  MaxPoint = 2
  ProviderNames = {"p1"}
  NoName = none
  StatusReads = {"r1", "r2"}
INVARIANTS
  ScreensTypeOK
  ActsAsShown
  ShowsItsOwn
  ReportsWhatIs
  RulesHold
CHECK_DEADLOCK FALSE
