----------------------------- MODULE MCScreens -----------------------------
(***************************************************************************)
(* The windows and pages, the services each talks to alone, and the        *)
(* delegation rules, one run.  They share no variable, so each behaviour   *)
(* is one of them, "screen", moving alone: every component is instantiated *)
(* with its bounds over the same variables a to e, and those it does not   *)
(* need stand at "unused".                                                 *)
(***************************************************************************)
EXTENDS Naturals, FiniteSets

CONSTANTS
  \* Every page takes those of its own names, and its module says what they are.
  Drafts, Engines, RoomSteps, MaxMessages,
  Profiles, MaxProfile, OldFiles, NoOldFile,
  Items, MaxItemRevision, MaxPackages, NoItem,
  Accounts, NoAccount, MaxLoads, MaxJobs, MaxDeeds,
  Principals, NoPrincipal, MaxQuestions, MaxRequests,
  MaxDemoTasks,
  WindowAgents, MaxVersion, MaxWindowJobs,
  RemoteJobs, MaxRemoteUid,
  Viewers, Pages, MaxLives, MaxPageRevision, MaxQueued,
  TreeFiles, TreeFolders, Finds, PageCount, MaxReads, NoFile,
  Providers, MaxSaid, MaxAsks, NoProvider,
  Cards, RoutineNames, MaxPolicy, MaxCalls, MaxNews,
  MaxFolder, ToolFiles, SearchDepth, SearchLimit, MaxVisited, MaxMoves, MaxSkills,
  KeptTalks, MaxTalks, MaxStarts,
  Configured, Main, FileNames, MaxEdits, MaxSaves,
  Names, Label, MaxRules, MaxEdited,
  Apps, Spans, NoSpan, MaxPoint,
  ProviderNames, NoName, StatusReads

\* The bounds are numbers, and what stands for "none" is none of the others.
ASSUME ScreensAssumption ==
  /\ {RoomSteps, MaxProfile, MaxItemRevision, MaxLoads, MaxJobs, MaxVersion, MaxPoint,
      MaxPageRevision, PageCount, KeptTalks, MaxTalks} \subseteq Nat \ {0}
  /\ {MaxMessages, MaxPackages, MaxDeeds, MaxQuestions, MaxRequests, MaxDemoTasks, MaxWindowJobs,
      MaxRemoteUid, MaxLives, MaxQueued, MaxReads, MaxSaid, MaxAsks,
      MaxPolicy, MaxCalls, MaxNews, MaxFolder, SearchDepth, SearchLimit, MaxVisited, MaxMoves,
      MaxSkills, MaxStarts, MaxEdits, MaxSaves, MaxRules, MaxEdited} \subseteq Nat
  /\ NoOldFile \notin OldFiles /\ NoItem \notin Items /\ NoAccount \notin Accounts
  /\ NoPrincipal \notin Principals /\ NoFile \notin TreeFiles /\ NoProvider \notin Providers
  /\ NoSpan \notin Spans /\ NoName \notin ProviderNames /\ "none" \notin Pages
  /\ IsFiniteSet(ToolFiles) /\ Engines # {} /\ Main \in Configured /\ Label \in [Names -> Names]

\* The label of each of two agents is the id of the other.
Crossed == [n \in {"a", "b"} |-> IF n = "a" THEN "b" ELSE "a"]

VARIABLES screen, a, b, c, d, e

ARoom == INSTANCE Room WITH room <- a, browser <- b
AControl == INSTANCE RoomControl WITH dialog <- a, core <- b
AHousehold == INSTANCE Household WITH papers <- a, panel <- b
AnInbox == INSTANCE Inbox WITH inbox <- a, jobs <- b, mails <- c
AMobile == INSTANCE Mobile WITH mobile <- a, requests <- b
AButler == INSTANCE Butler WITH butler <- a, timers <- b
AWindow == INSTANCE Workbench WITH window <- a, sidecar <- b, errands <- c
AMailbox == INSTANCE MailActions WITH mailbox <- a, remoteJobs <- b
AComputer == INSTANCE Computer WITH container <- a, broker <- b, views <- c
ATree == INSTANCE FileTree WITH preview <- a, folders <- b, found <- c
AnOldRoom == INSTANCE LegacyRoom WITH desk <- a, talk <- b, panel <- c, bound <- d
AnAssist == INSTANCE Assist WITH part <- a, assist <- b, office <- c, calls <- d, news <- e
ATool == INSTANCE Tools WITH disk <- a, tool <- b, walk <- c
ATalk == INSTANCE Conversations WITH talkPage <- a, kept <- b, count <- c
AnEditor == INSTANCE AgentFiles WITH editor <- a, folder <- b, team <- c, reading <- d, saving <- e
ARulebook == INSTANCE Delegation WITH rulebook <- a, ruleFile <- b
ADesktop == INSTANCE Desktop WITH shell <- a, polls <- b, float <- c, storage <- d
AnEntry == INSTANCE Entry WITH entry <- a, local <- b, reads <- c

screenVars == <<screen, a, b, c, d, e>>

unused == "unused"

ScreensInit ==
  \/ screen = "room" /\ ARoom!RoomInit /\ c = unused /\ d = unused /\ e = unused
  \/ screen = "control" /\ AControl!ControlInit /\ c = unused /\ d = unused /\ e = unused
  \/ screen = "household" /\ AHousehold!HouseholdInit /\ c = unused /\ d = unused /\ e = unused
  \/ screen = "inbox" /\ AnInbox!InboxInit /\ d = unused /\ e = unused
  \/ screen = "mobile" /\ AMobile!MobileInit /\ c = unused /\ d = unused /\ e = unused
  \/ screen = "butler" /\ AButler!ButlerInit /\ c = unused /\ d = unused /\ e = unused
  \/ screen = "window" /\ AWindow!WindowInit /\ d = unused /\ e = unused
  \/ screen = "mailbox" /\ AMailbox!MailActionInit /\ c = unused /\ d = unused /\ e = unused
  \/ screen = "computer" /\ AComputer!ComputerInit /\ d = unused /\ e = unused
  \/ screen = "tree" /\ ATree!FileTreeInit /\ d = unused /\ e = unused
  \/ screen = "oldRoom" /\ AnOldRoom!LegacyRoomInit /\ e = unused
  \/ screen = "assist" /\ AnAssist!AssistInit
  \/ screen = "tool" /\ ATool!ToolsInit /\ d = unused /\ e = unused
  \/ screen = "talk" /\ ATalk!ConversationsInit /\ d = unused /\ e = unused
  \/ screen = "editor" /\ AnEditor!AgentFilesInit
  \/ screen = "rulebook" /\ ARulebook!DelegationInit /\ c = unused /\ d = unused /\ e = unused
  \/ screen = "desktop" /\ ADesktop!DesktopInit /\ e = unused
  \/ screen = "entry" /\ AnEntry!EntryInit /\ d = unused /\ e = unused

Only(name) == screen = name /\ screen' = name

ScreensNext ==
  \/ Only("room") /\ ARoom!RoomNext /\ UNCHANGED <<c, d, e>>
  \/ Only("control") /\ AControl!ControlNext /\ UNCHANGED <<c, d, e>>
  \/ Only("household") /\ AHousehold!HouseholdNext /\ UNCHANGED <<c, d, e>>
  \/ Only("inbox") /\ AnInbox!InboxNext /\ UNCHANGED <<d, e>>
  \/ Only("mobile") /\ AMobile!MobileNext /\ UNCHANGED <<c, d, e>>
  \/ Only("butler") /\ AButler!ButlerNext /\ UNCHANGED <<c, d, e>>
  \/ Only("window") /\ AWindow!WindowNext /\ UNCHANGED <<d, e>>
  \/ Only("mailbox") /\ AMailbox!MailActionNext /\ UNCHANGED <<c, d, e>>
  \/ Only("computer") /\ AComputer!ComputerNext /\ UNCHANGED <<d, e>>
  \/ Only("tree") /\ ATree!FileTreeNext /\ UNCHANGED <<d, e>>
  \/ Only("oldRoom") /\ AnOldRoom!LegacyRoomNext /\ UNCHANGED e
  \/ Only("assist") /\ AnAssist!AssistNext
  \/ Only("tool") /\ ATool!ToolsNext /\ UNCHANGED <<d, e>>
  \/ Only("talk") /\ ATalk!ConversationsNext /\ UNCHANGED <<d, e>>
  \/ Only("editor") /\ AnEditor!AgentFilesNext
  \/ Only("rulebook") /\ ARulebook!DelegationNext /\ UNCHANGED <<c, d, e>>
  \/ Only("desktop") /\ ADesktop!DesktopNext /\ UNCHANGED e
  \/ Only("entry") /\ AnEntry!EntryNext /\ UNCHANGED <<d, e>>

ScreensSpec == ScreensInit /\ [][ScreensNext]_screenVars

-----------------------------------------------------------------------------
(* Every variable of every screen keeps its type.                          *)
ScreensTypeOK ==
  CASE screen = "room" -> ARoom!RoomTypeOK
    [] screen = "control" -> AControl!ControlTypeOK
    [] screen = "household" -> AHousehold!HouseholdTypeOK
    [] screen = "inbox" -> AnInbox!InboxTypeOK
    [] screen = "mobile" -> AMobile!MobileTypeOK
    [] screen = "butler" -> AButler!ButlerTypeOK
    [] screen = "window" -> AWindow!WindowTypeOK
    [] screen = "mailbox" -> AMailbox!MailActionTypeOK
    [] screen = "computer" -> AComputer!ComputerTypeOK
    [] screen = "tree" -> ATree!FileTreeTypeOK
    [] screen = "oldRoom" -> AnOldRoom!LegacyRoomTypeOK
    [] screen = "assist" -> AnAssist!AssistTypeOK
    [] screen = "tool" -> ATool!ToolsTypeOK
    [] screen = "talk" -> ATalk!ConversationsTypeOK
    [] screen = "editor" -> AnEditor!AgentFilesTypeOK
    [] screen = "rulebook" -> ARulebook!DelegationTypeOK
    [] screen = "desktop" -> ADesktop!DesktopTypeOK
    [] screen = "entry" -> AnEntry!EntryTypeOK

(* What is sent to a model or a machine is what the person saw and agreed  *)
(* to when it left: the shown history, the consent ticked for this very    *)
(* message, the page of the computer a click was aimed at, one driver at a *)
(* time, and the lamp of the butler's reply (stated in modules Room,       *)
(* LegacyRoom, Computer and Butler, with the lines each is about).         *)
ActsAsShown ==
  /\ screen = "room" => ARoom!SentAsShown /\ ARoom!OneDriver
  /\ screen = "oldRoom" => AnOldRoom!ConsentPerMessage
  /\ screen = "computer" => AComputer!TouchedAsShown
  /\ screen = "butler" => AButler!LampAsShown

(* What a page shows is of the file, person, agent or span it has          *)
(* selected, however late the answers come (modules RoomControl, Mobile,   *)
(* FileTree, AgentFiles and Desktop); the list of mails is of one account, *)
(* that of the newest request for a list, which after a switch may be      *)
(* another than the one selected (module Inbox, ListIsOfAccount).          *)
ShowsItsOwn ==
  /\ screen = "control" => AControl!PreviewIsOfFile
  /\ screen = "inbox" => AnInbox!ChunksBelong
  /\ screen = "mobile" => AMobile!PrivateToOwner
  /\ screen = "tree" => ATree!PreviewOfSelected
  /\ screen = "editor" => AnEditor!FilesAreOwn
  /\ screen = "desktop" => ADesktop!SeriesIsOfChoice

(* What a page reports of the service behind it is so there, and what it   *)
(* keeps is what it showed: the package saved, the sessions open, the      *)
(* cards decided, the mails moved, every match of a search, and then the   *)
(* conversations of an agent and the place of the small window (modules    *)
(* Household, Workbench, Assist, MailActions, Tools, Conversations and     *)
(* Desktop).                                                               *)
ReportsWhatIs ==
  /\ screen = "household" => AHousehold!PackagedAsShown
  /\ screen = "window" => AWindow!ListedIsOpen
  /\ screen = "assist" => AnAssist!DecidedAsShown
  /\ screen = "mailbox" => AMailbox!ReportsAreTrue
  /\ screen = "tool" => ATool!SearchIsWhole
  /\ screen = "talk" => ATalk!KeptAsShown
  /\ screen = "desktop" => ADesktop!DrawnWhereHeld

(* What was set stands: the policy in force is the one last set, and each  *)
(* verdict is that of its most specific rule; the workspace that a set-up  *)
(* ends in works in the mode that was saved, with a model allowed in it    *)
(* (modules Delegation and Entry).                                         *)
RulesHold ==
  /\ screen = "rulebook" => ARulebook!VerdictIsMostSpecific /\ ARulebook!SetPolicyStands
  /\ screen = "entry" => AnEntry!EnteredAsChosen
=============================================================================
