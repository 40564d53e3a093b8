----------------------------- MODULE MCServices -----------------------------
(***************************************************************************)
(* The components around the team and the approval gate, one run.  They    *)
(* share no variable, so each behaviour is one of them, "focus", moving    *)
(* alone: every component is instantiated with its bounds over the same    *)
(* variables a to d, and those it does not need stand at "unused".         *)
(***************************************************************************)
EXTENDS Naturals, Sequences, FiniteSets

CONSTANTS
  \* Every component takes those of its own names, and its module says what they are.
  StoredTasks, MaxFlushes, MaxHistory, Folders, NoFolder,
  RoutineIds, MaxPerHour, Hour, MaxMinute, MaxObjects, MaxWrites,
  Requests, MaxProcs, MaxLines,
  Lanes, MaxTodoOps,
  MaxTurns, McpCalls, MaxEdits, MaxAsks, Puts, Providers, Roots, NoRoot,
  Facts, NoFact, OldRecords, ProfileRecords, NewRecords,
  SecretOps, MaxRevision, NoStore, Locked,
  Logins, Workers, Models, MaxCalls, MaxFailures, Nobody,
  Inputs, MaxNoteRevision, NoInput,
  Writers, MaxUid,
  PageEvents, RemoteEvents, CalAccounts,
  Chats, Points, MaxWrong

\* The bounds are numbers, and what stands for "none" is none of the others.
ASSUME ServicesAssumption ==
  /\ {MaxMinute, Hour, MaxCalls, MaxEdits} \subseteq Nat \ {0}
  /\ {MaxFlushes, MaxHistory, MaxPerHour, MaxObjects, MaxWrites, MaxProcs, MaxLines, MaxTodoOps, MaxTurns,
      MaxAsks, MaxRevision, MaxFailures, MaxNoteRevision, MaxUid, Points, MaxWrong} \subseteq Nat
  /\ NoFolder \notin Folders /\ NoRoot \notin Roots /\ NoInput \notin Inputs /\ NoFact \notin Facts
  /\ Nobody \notin Logins \cup Workers \cup Models
  /\ "none" \notin Puts /\ "absent" \notin Lanes /\ "backlog" \in Lanes /\ "ask" \notin Requests
  /\ IsFiniteSet(Chats) /\ IsFiniteSet(StoredTasks)

VARIABLES focus, a, b, c, d

\* The to-dos of two runs of them: three, two of them with one dedupe key, and
\* no board; two without a key, and a board that makes one call.
Three == {"a", "b", "c"}
Keys == [i \in Three |-> IF i = "c" THEN "k2" ELSE "k1"]
Two == {"a", "b"}
NoKeys == [i \in Two |-> "none"]
\* The calendar twice: an event of the page beside a sync, and two syncs that overlap.
OneSync == {"c1"}
TwoSyncs == {"c1", "c2"}

AStore == INSTANCE TeamStore WITH teamFile <- a, teamMem <- b
ATimer == INSTANCE Routines WITH sched <- a, disk <- b
AHost == INSTANCE HostLink WITH link <- a, callers <- b, procs <- c
Todos(TodoIds, DedupeKey, ListCalls, MaxOwnCalls) ==
  INSTANCE Todo WITH todoFile <- a, todoChain <- b, board <- c
AHarness == INSTANCE Harness WITH harness <- a, child <- b
AnMcp == INSTANCE Mcp WITH mcp <- a, mcpCall <- b
AnR1 == INSTANCE R1Engine WITH r1run <- a, r1gate <- b
ASettings == INSTANCE Settings WITH store <- a, puts <- b
AVault == INSTANCE VaultFiles WITH vault <- a, fileOps <- b
AMemory == INSTANCE Memory WITH memory <- a, context <- b
ASecret == INSTANCE Secrets WITH vaultFile <- a, unlocked <- b
AnAccess == INSTANCE Access WITH access <- a, call <- b
ALibrary == INSTANCE Library WITH lib <- a, job <- b
AMail == INSTANCE Mail WITH mail <- a, writers <- b
Calendars(LocalEvents, Syncs) ==
  INSTANCE Calendar WITH files <- a, page <- b, syncs <- c, remote <- d
AWelcome == INSTANCE Welcome WITH saved <- a, account <- b, desk <- c

serviceVars == <<focus, a, b, c, d>>

unused == "unused"

ServicesInit ==
  \/ focus = "store" /\ AStore!StoreInit /\ c = unused /\ d = unused
  \/ focus = "routines" /\ ATimer!RoutinesInit /\ c = unused /\ d = unused
  \/ focus = "host" /\ AHost!HostInit /\ d = unused
  \/ focus = "todo" /\ Todos(Three, Keys, {}, 0)!TodoInit /\ d = unused
  \/ focus = "board" /\ Todos(Two, NoKeys, {"l1"}, 1)!TodoInit /\ d = unused
  \/ focus = "harness" /\ AHarness!HarnessInit /\ c = unused /\ d = unused
  \/ focus = "mcp" /\ AnMcp!McpInit /\ c = unused /\ d = unused
  \/ focus = "r1" /\ AnR1!R1Init /\ c = unused /\ d = unused
  \/ focus = "settings" /\ ASettings!SettingsInit /\ c = unused /\ d = unused
  \/ focus = "vault" /\ AVault!VaultInit /\ c = unused /\ d = unused
  \/ focus = "memory" /\ AMemory!MemoryStarts /\ c = unused /\ d = unused
  \/ focus = "secrets" /\ ASecret!SecretInit /\ c = unused /\ d = unused
  \/ focus = "access" /\ AnAccess!AccessInit /\ c = unused /\ d = unused
  \/ focus = "library" /\ ALibrary!LibraryInit /\ c = unused /\ d = unused
  \/ focus = "mail" /\ AMail!MailInit /\ c = unused /\ d = unused
  \/ focus = "calendar" /\ Calendars(PageEvents, OneSync)!CalendarInit
  \/ focus = "syncs" /\ Calendars({}, TwoSyncs)!CalendarInit
  \/ focus = "welcome" /\ AWelcome!WelcomeInit /\ d = unused

Only(name) == focus = name /\ focus' = name

ServicesNext ==
  \/ Only("store") /\ AStore!StoreNext /\ UNCHANGED <<c, d>>
  \/ Only("routines") /\ ATimer!RoutinesNext /\ UNCHANGED <<c, d>>
  \/ Only("host") /\ AHost!HostNext /\ UNCHANGED d
  \/ Only("todo") /\ Todos(Three, Keys, {}, 0)!TodoNext /\ UNCHANGED d
  \/ Only("board") /\ Todos(Two, NoKeys, {"l1"}, 1)!TodoNext /\ UNCHANGED d
  \/ Only("harness") /\ AHarness!HarnessNext /\ UNCHANGED <<c, d>>
  \/ Only("mcp") /\ AnMcp!McpNext /\ UNCHANGED <<c, d>>
  \/ Only("r1") /\ AnR1!R1Next /\ UNCHANGED <<c, d>>
  \/ Only("settings") /\ ASettings!SettingsNext /\ UNCHANGED <<c, d>>
  \/ Only("vault") /\ AVault!VaultNext /\ UNCHANGED <<c, d>>
  \/ Only("memory") /\ AMemory!MemoryStep /\ UNCHANGED <<c, d>>
  \/ Only("secrets") /\ ASecret!SecretNext /\ UNCHANGED <<c, d>>
  \/ Only("access") /\ AnAccess!AccessNext /\ UNCHANGED <<c, d>>
  \/ Only("library") /\ ALibrary!LibraryNext /\ UNCHANGED <<c, d>>
  \/ Only("mail") /\ AMail!MailNext /\ UNCHANGED <<c, d>>
  \/ Only("calendar") /\ Calendars(PageEvents, OneSync)!CalendarNext
  \/ Only("syncs") /\ Calendars({}, TwoSyncs)!CalendarNext
  \/ Only("welcome") /\ AWelcome!WelcomeNext /\ UNCHANGED d

\* The reader tasks of the host go on by themselves (module HostLink).
Fairness == \A p \in AHost!Procs : WF_serviceVars(Only("host") /\ AHost!HostTasks(p) /\ UNCHANGED d)
ServicesSpec == ServicesInit /\ [][ServicesNext]_serviceVars /\ Fairness

-----------------------------------------------------------------------------
(* Every variable of every component keeps its type.                       *)
ServicesTypeOK ==
  CASE focus = "store" -> AStore!StoreTypeOK
    [] focus = "routines" -> ATimer!RoutinesTypeOK
    [] focus = "host" -> AHost!HostTypeOK
    [] focus = "todo" -> Todos(Three, Keys, {}, 0)!TodoTypeOK
    [] focus = "board" -> Todos(Two, NoKeys, {"l1"}, 1)!TodoTypeOK
    [] focus = "harness" -> AHarness!HarnessTypeOK
    [] focus = "mcp" -> AnMcp!McpTypeOK
    [] focus = "r1" -> AnR1!R1TypeOK
    [] focus = "settings" -> ASettings!SettingsTypeOK
    [] focus = "vault" -> AVault!VaultTypeOK
    [] focus = "memory" -> AMemory!MemoryTypeOK /\ AMemory!ContextTypeOK
    [] focus = "secrets" -> ASecret!SecretTypeOK
    [] focus = "access" -> AnAccess!AccessTypeOK
    [] focus = "library" -> ALibrary!LibraryTypeOK
    [] focus = "mail" -> AMail!MailTypeOK
    [] focus = "calendar" -> Calendars(PageEvents, OneSync)!CalendarTypeOK
    [] focus = "syncs" -> Calendars({}, TwoSyncs)!CalendarTypeOK
    [] focus = "welcome" -> AWelcome!WelcomeTypeOK

(* The files of the team queue and of the routines hold what memory holds  *)
(* once the writes are through, and the secrets that are served are always *)
(* those of the file (modules TeamStore, Routines and Secrets).            *)
StoresAreWhole ==
  /\ focus = "store" => AStore!CleanQueueIsStored
  /\ focus = "routines" => ATimer!QuietIsStored
  /\ focus = "secrets" => ASecret!UnlockedIsStored

(* In no hour, wherever it begins, does a routine start more turns than    *)
(* the limit, also when it is replaced meanwhile (module Routines).        *)
TurnsCapped == focus = "routines" => ATimer!TurnsCapped

(* No caller waits for a sidecar that died, and no answer reaches another  *)
(* process than the one asked (module HostLink).                           *)
LinkHolds == focus = "host" => AHost!NobodyWaitsForTheDead /\ AHost!AnswersStayHome

(* The engines do what was granted and no more: an MCP call runs as it was *)
(* approved, an aborted child is told to stop, and a content run makes one *)
(* model call at most (modules Mcp, Harness and R1Engine).                 *)
EnginesObey ==
  /\ focus = "mcp" => AnMcp!RunsAsApproved
  /\ focus = "harness" => AHarness!HarnessStops
  /\ focus = "r1" => AnR1!OneModelCall

(* A key that settings.json refers to is stored and can be decrypted,      *)
(* whichever write of a request fails (module Settings).                   *)
RefsResolve == focus = "settings" => ASettings!RefsResolve

(* The line an operation on files leaves is in the log of the folder it    *)
(* acted in, or of one chosen meanwhile, and it is missing only where the  *)
(* log failed (module VaultFiles).                                         *)
AuditedAtHome == focus = "vault" => AVault!AuditedAtHome

(* A memory record the user rejected does not come back as confirmed under *)
(* its id, nor what it said, in the memory or the context it answers, if   *)
(* neither the user nor an edit of the old files states it anew (module    *)
(* Memory).                                                                *)
RevokedStaysRevoked == focus = "memory" => AMemory!RevokedStaysRevoked

(* What is granted once counts once, across retries and restarts: a model  *)
(* lease, the input of an operation, the points and the chats of a new     *)
(* user (modules Access, Library and Welcome).                             *)
OncePerGrant ==
  /\ focus = "access" => AnAccess!ModelSentOnce
  /\ focus = "library" => ALibrary!OneInputPerOperation
  /\ focus = "welcome" => AWelcome!PointsAddUp /\ AWelcome!AskedOnce

(* No message up to the stored last_uid is skipped, whatever fetches       *)
(* overlap, fail or die, but for those up to a last_uid kept over a change *)
(* of mailbox (module Mail).                                               *)
MailNotSkipped == focus = "mail" => AMail!MailNotSkipped

(* The to-do board and the calendar page tell the truth about the sidecar: *)
(* the board of the file, the page of the connections it still awaits      *)
(* (modules Todo and Calendar).                                            *)
PagesTellTheTruth ==
  /\ focus = "board" => Todos(Two, NoKeys, {"l1"}, 1)!BoardIsTrue
  /\ focus = "calendar" => Calendars(PageEvents, OneSync)!NoEndlessConnecting
  /\ focus = "syncs" => Calendars({}, TwoSyncs)!NoEndlessConnecting

(* A rewrite of the team queue moves each task only onward, or forgets it  *)
(* for later ones that ended, and one of the to-dos changes one of them    *)
(* only (modules TeamStore and Todo).                                      *)
OnlyOnward ==
  [][/\ focus = "store" => AStore!StoreMovesOnward
     /\ focus = "todo" => Todos(Three, Keys, {}, 0)!OneTodoAtATime
     /\ focus = "board" => Todos(Two, NoKeys, {"l1"}, 1)!OneTodoAtATime]_serviceVars

(* A business call releases what it read only while its session and lease  *)
(* still live (module Access).                                             *)
ReleasedWhileLive == [][focus = "access" => AnAccess!ReleasedWhileLive]_serviceVars

(* No analysis overwrites the words a user gave the same bytes (module     *)
(* Library).                                                               *)
UserWordsStay == [][focus = "library" => ALibrary!UserWordsStay]_serviceVars

(* A calendar sync only adds to the file it read (module Calendar).        *)
SyncOnlyAdds ==
  [][/\ focus = "calendar" => Calendars(PageEvents, OneSync)!SyncOnlyAdds
     /\ focus = "syncs" => Calendars({}, TwoSyncs)!SyncOnlyAdds]_serviceVars

(* A link taken for alive without a process is declared dead, so that it   *)
(* can be started again (rpc.rs:202-216; module HostLink).                 *)
LinkRecovers ==
  (focus = "host" /\ AHost!Orphaned) ~> (focus = "host" /\ ~AHost!Orphaned)
=============================================================================
