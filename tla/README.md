# A TLA+ verification of DepDek

DepDek is a desktop for a small business that is worked by people and by model
agents.  A Rust host (`src-tauri/`) owns the data folder (the *vault*), a Node
*sidecar* (`sidecar/`) runs the agents, a main window, a web desk and a mobile
page show it to people, and a few services stand around them.  This directory
holds TLA+ modules of its stateful parts, TLC configurations that check them on
small instances, and TLAPS proofs of the properties that matter most.

Run `tlc -workers 2 -config <run>.cfg <module>` for a run of section 3 and
`tlapm <module>.tla` for the proofs of section 4.

## 1. Inventory

Paths are relative to the repository root.  The components, with their sources
and what of each is modelled, are listed under `components` in `PROJECT.json`.

### Sidecar (Node, one event loop)

| component | state it keeps | operations | talks to |
|---|---|---|---|
| Session manager, `sidecar/src/sessions.ts` | sessions by id, `inflight` and `turns` by id | create, send, runTurn, abort, abortRun, close | engines (model calls), team orchestrator (`notifyIdle`, `onSessionClosed`, `noteExternalAbort`) |
| Team orchestrator, `team.ts` | task table, deliveries, `reserved`, `cancelRequested`, policy, dirty flags, the files `team/tasks.json` and `team/policy.json` | delegate / message, kick, execute, deliver, cancel, policy change, trim, restore, persist | session manager, vault (through the host) |
| Approval gate, `approval.ts` | cards, waiters with timers, `inflightSend`, the drafts file | request, requestEmail, decide, expire, send, restore | tools, SMTP, vault |
| Routine scheduler, `schedule.ts` | routines, minute tick, rate window, a file | put, delete, tick, fire, restore | session manager, vault |
| Todo queue, `todo.ts` | a file behind a promise chain | enqueue, update, complete | mail, calendar, pages |
| Engines, `harness.ts`, `r1Engine.ts` | one child process or worker per call, deadlines, budgets | prompt, abort, dispose | model clients |
| MCP connectors, `mcp.ts` | connectors, tokens, initialisation | call, edit, refresh | approval gate, remote servers |
| Tools, `tools.ts` | approvals under way, a walk through folders | tool calls | vault, approval gate |
| Mail, calendar, `mail.ts`, `calendar.ts` | cursors, indexes, `events.json` | fetch, flag, move, delete, send, sync | IMAP, SMTP, CalDAV |
| Settings service, `httpServer.ts` and the stores beneath | `settings.json`, encrypted keys, a master key | PUT | standalone main window |

### Host (Rust, threads and tokio tasks)

| component | state it keeps | operations |
|---|---|---|
| Sidecar link, `src-tauri/src/rpc.rs` | process, `pending` requests, `alive`, `next_id` | ensure_started, request with timeout, reply, mark_dead |
| Vault files and audit log, `vault.rs`, `audit.rs` | the chosen folder, files, one log per folder | choose, resolve, act, audit |
| File library, `vault/file_index*` | copies, index database, receipts, annotations | import, scan, annotate, analyse |
| Business access, `vault/access*` | sessions, worker and model leases, login pause | log in, lease, call, revoke, release |
| Household, `vault/household.rs` | items and packages with revisions | commands |
| Onboarding, `vault/welcome.rs` | one local user, points, set-up chat | register, sign in, chat, choose mode |
| Secrets, `secrets*.rs` | encrypted snapshot, unlocked copy, audit | unlock, put, revoke, use, import |
| Memory, `memory.rs` | a log of events per record, old files beneath | propose, confirm, reject, delete, read |
| Shell, `app.rs` | windows | commands that call the above |

### Windows, pages and services

| component | state it keeps |
|---|---|
| Main window, `src/App.tsx` and `src/components/*` | open sessions and jobs, conversations in browser and workspace, lists of mails, files and cards, an agent's files in an editor |
| Web desk, `webdesk/web/src/*` | draft, consent and step loop of the agent room; settings dialog; household panel; windows and polled series |
| Mobile companion, `mobile/src/*` | who is signed in, questions, files and household of that person; demonstration jobs |
| Computer service, `services/depdek-computer` | one container per person, orders, page revision |
| Daemon, agent service, space service, web desk server | no state of their own beyond what the components above keep |

### What makes it hard, and what makes it correct

*The team and the sessions.*  A turn is a promise that stays unsettled over
many awaits while every table it will touch is keyed by session **id**: the id
may be closed and created again in between.  `kick` is called from six places
and a zero-delay timer; a path that frees a session or adds work without one of
them strands the work.  A result is queued, requeued, dropped and told in four
different places.  Correct means: a session works on one team turn at a time
and its reservation is given back exactly then; a task that is *running* has a
turn working on it, one that has ended stays ended; a result is owed until it
is told and told once; idle sessions with work are always about to be kicked;
depth, chain and caps hold; cancelling a task stops that turn and no other.

*The approval gate.*  The timer, the user's decision and a second decision race
through `finish`, which awaits the drafts file and the audit log; three
operations rewrite the drafts file from a copy read before an await; SMTP may
take a mail and lose the answer; the process may die anywhere.  Correct means:
never more mails than approvals, no action without one, and every waiting call
is answered exactly once.

*Files that are rewritten as a whole.*  The team queue, routines, to-dos, mail
cursors, events, settings and secrets are each read, changed and written back
over awaits, crashes and failing writes.  Correct means: what is stored is what
memory held when nothing is outstanding, and no rewrite undoes an older change
or forgets more than the code means to.

*Answers that come late.*  A reply races its timeout and the death of the
process; a page has gone on to another account, file, person or span when the
answer to the last one comes; a session or a lease ends while the call it
covers reads a file.  Correct means: an answer reaches the one who asked, a page
shows what it has selected (the inbox does not always, see
`inbox_wrong_account`), and nothing is released after its grant has ended.

*What is granted once.*  A model lease, an import operation, a set-up point, an
approval, a consent that was ticked.  Correct means: each counts once, across
retries and restarts, for exactly what was shown when it was given.

The whole list, with lines, is under `hazards` in `PROJECT.json`.

## 2. Modules

| module | models | extends / used by |
|---|---|---|
| `Sessions` | `sessions.ts`: registration, runs, turn contexts, abort, close | pieces of actions, composed by `Team` |
| `Team` | `team.ts` on top of `Sessions` | `MCTeam`, `TeamProofs` |
| `TaskLifecycle` | abstract: what the queue promises of a task | refined by `Team` (`KeepsLifecycle`) |
| `TeamProofs` | theorems about `Team`: bookkeeping, wake-ups, recorded turns and what follows for sessions never closed, the limits of delegation, what is owed, the refinement of `TaskLifecycle` | |
| `Approval` | `approval.ts` with its file, SMTP and crashes | `ApprovalProofs` |
| `ApprovalProofs` | theorems about `Approval` | |
| the sixteen modules under *Services* | one component of the sidecar or the host each | instantiated by `MCServices` |
| `ServiceProofs` | lemmas about every service; the theorems about the run of all of them | extends `MCServices` |
| the eighteen modules under *Pages* | one page with the service it talks to alone each | instantiated by `MCScreens` |
| `PageProofs`, `ScreenProofs` | lemmas about every page; the theorems about the run of all of them | the second extends the first, the first `MCScreens` |
| `MCTeam`, `MCServices`, `MCScreens` | small instances for TLC | |

### Sessions and Team

Node runs one callback at a time, so an action is what one callback does
between two awaits.  `Sessions` keeps `live` (the sessions map), `inflight` and
`turns` as in the code; `gen[s]` counts the agent objects an id has named, and
`runs` holds the unsettled promises, each with the id *and* the object it was
started on - the distinction the code does not make when it cleans up.  A run
has two stages: gathering its personal context, during which `agent.abort()`
reaches nothing, and prompting.

| code | action |
|---|---|
| `delegate_task`, `send_agent_message` -> `enqueue` + `kick` | `Enqueue` |
| `SessionManager.send`, a routine's `runTurn` | `Send` |
| `runTurn` reaching `agent.prompt` | `Prompt` |
| the promise settles, `finally { endTurn }`, `notifyIdle` | `Settle` |
| the rest of `execute`, its `finally`, `kick` | `FinishTask` |
| the rest of `deliver`, its `finally`, `kick` | `FinishResult` |
| `setTimeout(kick, 0)` fires | `IdleKick` |
| `team/cancel` | `CancelQueued`, `CancelRunning` |
| `agent/abort` | `Abort` |
| `agent/create_session`, `agent/close` | `Create`, `Close` |
| `team/policy_set` | `SetPolicy` |
| `restore` (nothing stored yet) | `Restore` |

When the promise of a team turn settles, Node runs its continuations as
microtasks before any other callback.  `Settle` records which run that is in
`resolved`; every other action needs `resolved = NoRun`, so only the matching
`Finish...` can follow.  `Kick` is an operator, not an action: it is the tail of
every handler that calls `this.kick()`.

Abstractions.  `deliveries` is a set with an order beside it: `enqueueDelivery`
refuses a second entry for one task.  `mapOrder` and `queueOrder` hold the
insertion orders of the task map and of the delivery list, as relations.  The
policy is the set of pairs it lets through.  A message and a delegation differ
only in their text, so a member of `Texts` stands for both.  A turn begun by
a routine is a turn from outside, like a user's: both start a chain at depth 0.
`trim` picks the oldest by a wall-clock stamp which may tie or step back; the
model lets it pick any ended task but the one that has just ended.  A clock that
steps back could make it pick that one too (`team.ts:654`): the refinement of
`TaskLifecycle` is about clocks that do not.  Labels, previews and
result texts are left out.

### Approval

One record per operation under way (`saving`, `finishing`, `sending`) says
where the operation is and what it has read.  `file` is the only thing that
survives a `Crash`.  `readDrafts` answers a failed read with no drafts and
`writeDrafts` swallows a failed write: with `FileFaults` each does so at any time.
`approvals`, `sends`, `performed`, `answered` are history.  SMTP is external:
it takes a mail and says so, takes it and the answer is lost, or refuses it.

| code | action |
|---|---|
| `request`; `requestEmail` up to / after its await | `Request`; `RequestEmail`, `SaveDraft` |
| `decide` on a pending card / on a decided one | `DecidePending` / `ApproveAgain` |
| the ten-minute timer | `Expire` |
| `finish`: `markDraft` read, write, audit + answer | `MarkRead`, `MarkWrite`, `Answer` |
| `sendStoredDraftOnce`: read, SMTP, write | `SendRead`, `Smtp`, `SendWrite` |
| the process dies, starts, `restoreDrafts` | `Crash`, `Start`, `RestoreDrafts` |

### Services

Each module has one action per operation, callback or disk step of the code;
where the code awaits, locks or can be killed, the action ends.

| module | code | what it is about |
|---|---|---|
| `TeamStore` | `team.ts`, `persist` and `restore` | every change marks the queue dirty and chains a rewrite of the file, every transition trims the ended tasks; the sidecar dies at any point and its successor reads the file back |
| `Routines` | `schedule.ts` | a firing routine keeps the object it was started with while `put` replaces it; the hourly window, the chained writes |
| `HostLink` | `rpc.rs`, `rpc.ts` | callers, the reader task of each process, and `mark_dead` in its three steps |
| `Todo` | `todo.ts`, `TodoBoard.tsx` | whole-file updates behind a promise chain, some of which fail; a board that lists anew after each event and is told the items its own calls changed |
| `Harness` | `harness.ts` | prompt in its phases, abort in each of them, the child process |
| `Mcp` | `mcp.ts` | a call of a remote tool against edits of its connector |
| `R1Engine` | `r1Engine.ts`, `r1EngineWorker.ts` | an agent loop behind a gateway with a budget and two deadlines |
| `Settings` | `httpServer.ts`, `settingsFile.ts`, `credentials.ts`, `localVault.ts` | PUTs that interleave at every file access and fail at any |
| `VaultFiles` | `vault.rs`, `audit.rs` | one operation and its audit line, whose write may fail or tear, against the choice of another folder and the records of managed reads, which give a failing stream up |
| `Memory` | `memory.rs`, `context.ts` | proposals, confirmations and old files, edited as a whole so that a fact may turn up under another id; a log cut off by a crash |
| `Secrets` | `secrets*.rs`, the secret files of `vault.rs` | intent, apply, stage, rename, sync, audit - any may fail, process and power may stop |
| `Access` | `vault/access*.rs` | a session or a lease that ends under the call it covers |
| `Library` | `vault/file_index*.rs` | import, scan and analysis of one file with crashes between disk steps |
| `Mail` | `mail.ts` | overlapping fetches with one cursor, failing or dying anywhere; pages that write the account back as they read it, or point it at another mailbox; a mailbox numbered anew |
| `Calendar` | `calendar.ts`, `CalendarView.tsx` | two parties that rewrite one file; connections shown while syncs overlap; events pushed and pulled back |
| `Welcome` | `vault/welcome.rs` | points and set-up chats over saves that fail before or after the rename |

### Pages

A page is a set of callbacks that hold on to the rendering they were made in.
Such a callback is a record (`jobs`, `errands`, `calls`, ...) that carries what it
saw; an action is what it does at one answer.  The service behind a page is
modelled in the same module when nobody else talks to it.

| module | code | what it is about |
|---|---|---|
| `Room`, `RoomControl` | `AgentCore.tsx`, `ComputerPanel.tsx` | draft, consent, six steps of the loop, the shared browser; the settings dialog |
| `LegacyRoom` | `Agent.tsx` | which engine answers, consent per message, the provider panel |
| `Household` | `household.rs`, `HouseholdPanel.tsx` | preview in one command, creation in another, other clients between |
| `Computer` | `services/depdek-computer`, `depdekd/src/computer.rs` | orders that carry the revision of the page they were made of; late ones stay queued |
| `Inbox`, `MailActions` | `InboxView.tsx`, `mail.ts` | loads, fetches and deeds over a switch of accounts; one command per mail at the server |
| `Mobile`, `Butler` | `mobile/src/*` | private data of the one signed in; the demonstration jobs |
| `Workbench`, `Conversations`, `AgentFiles` | `App.tsx`, `SettingsPanel.tsx`, `OfficeView.tsx` | sessions opened and renewed by overlapping call sequences; conversations kept in two places; an agent's files in an editor |
| `FileTree` | `FileTree.tsx` | preview, folder reads, collections |
| `Entry` | `AiOsEntry.tsx`, `AiOsModelSetup.tsx`, `BitBayAccountSetup.tsx` | the steps of the set-up with their calls, late answers of the status, ended sessions; the workspace shows what was chosen |
| `Assist` | `AgentAssistPanel.tsx`, `api.ts` | cards, routines, policy and connectors over lists, events and answers |
| `Delegation` | `team.ts`, `control.ts` | the verdict computed from the rules against what the rules mean; the policy file |
| `Tools` | `tools.ts` | refusals, approvals, the breadth-first search |
| `Desktop` | `DesktopShell.tsx`, `FloatingWindow.tsx` | windows, polled series, the small window |

`Delegation` computes the verdict that `Team` takes as a set of pairs; `Approval`
is the gate that `Mcp` and `Tools` ask, there a yes or a no at any time;
`TeamStore` keeps across restarts the stages of the tasks that `Team` moves within one life.

## 3. Runs

Every run sets `CHECK_DEADLOCK FALSE`: the bounds (task ids, creations of an id,
presses, steps of a page) make an instance come to rest, and a desk where
nobody does anything rests as well.

| run | shows | instance |
|---|---|---|
| `team_core` | `TypeOK`, `TurnMatchesRun`, `ReservedByOneTurn`, `RunningIsWorkedOn`, `ResultsWaitOnce`, `NoLostWakeup`, `ChainFollowsTurnIfOpen`, `CancelStopsOnlyItsTurnIfOpen`, `OwedUntilTold`, refinement of `TaskLifecycle` | 2 sessions, each created up to twice, 2 tasks, 1 outside turn at a time; 362 533 states up to symmetry |
| `team_limits` | `LimitsHold` | 3 sessions (one on the harness), depth 1, one open task per source, a history of one, a policy that opens and shuts; 525 040 states |
| `team_live` | `QueuedIsServed`, `OwedIsTold` | as `team_core`, each id created once |
| `approval_core` | `TypeOK`, `SendsBoundedByApprovals`, `ActsOnApprovalOnly`, `NoCallIsStranded` | 2 mails and 1 action, a drafts file of one, file faults, one crash; 2 494 754 states |
| `approval_live` | `ConfirmedIsFinal`, `AskedIsAnswered` | 1 mail approved up to three times, 1 action, two crashes, file faults; 106 692 states |
| `services` | eleven invariants, four action properties and `LinkRecovers`, below | the sixteen service modules, two of them twice; 1 387 322 states |
| `screens` | `ScreensTypeOK`, `ActsAsShown`, `ShowsItsOwn`, `ReportsWhatIs`, `RulesHold`, below | the eighteen page modules; 1 582 075 states |
| `team_chain_lost` | `ChainFollowsTurn` is **violated** | as `team_core` |
| `team_cancel_hits_user` | `CancelStopsOnlyItsTurn` is **violated** | as `team_core` |
| `approval_expired_sent` | `ExpiredIsNotSent` is **violated** | one mail |
| `approval_draft_lost` | `OpenCardHasDraft` is **violated** | two mails, no faults |
| `inbox_wrong_account` | `ListIsOfAccount` is **violated** | two accounts, three loads |

### Many components in one run

The components in `MCServices` share no state with one another, nor do those in
`MCScreens`.  So a state of their product says nothing that the states of the
parts do not, and each behaviour of the two runs is one component, `focus` or
`screen`, moving alone.  All components are instantiated over the same
variables `a`, `b`, ...; those one does not need stand at `"unused"`.  The
constants of a component are those of the run by the same name; where one is
instantiated twice (`Todos`, `Calendars`), its sets are parameters of the
instance.
A property of the run is a conjunction of implications, `focus = "mail" => ...`;
where several components are exposed to one kind of hazard, one property of the
run joins theirs:

| property | joins |
|---|---|
| `StoresAreWhole` | `TeamStore!CleanQueueIsStored`, `Routines!QuietIsStored`: once the writes are through, the file holds what memory holds; `Secrets!UnlockedIsStored`: the secrets served are those of the file |
| `TurnsCapped` | `Routines`: no hour, wherever it begins, sees more turns of a routine than its limit |
| `LinkHolds`, `LinkRecovers` | `HostLink`: nobody waits for a dead process, no answer reaches another one than was asked; a link without a process is declared dead |
| `EnginesObey` | `Mcp!RunsAsApproved`, `Harness!HarnessStops`, `R1Engine!OneModelCall` |
| `RefsResolve` | `Settings`: a key that the settings refer to is stored and can be decrypted |
| `AuditedAtHome` | `VaultFiles`: the line of an operation is in the log of a folder chosen while it ran, the one it acted in if there was one only; there is none only without a folder or by a write that failed |
| `RevokedStaysRevoked` | `Memory`: neither a rejected record, nor the fact it said, comes back as confirmed |
| `MailNotSkipped` | `Mail`: what lies below the stored cursor was saved |
| `OncePerGrant` | `Access!ModelSentOnce`, `Library!OneInputPerOperation`, `Welcome!PointsAddUp`, `Welcome!AskedOnce` |
| `OnlyOnward` | `TeamStore!StoreMovesOnward`, `Todo!OneTodoAtATime`: a rewrite reopens or undoes nothing, and of the tasks it forgets only what the history has no place for |
| `ReleasedWhileLive`, `UserWordsStay`, `SyncOnlyAdds` | `Access`, `Library`, `Calendar` |
| `PagesTellTheTruth` | `Todo!BoardIsTrue`, `Calendar!NoEndlessConnecting`: the board holds what was written, no connection is shown as under way for ever |
| `ActsAsShown` | `Room!SentAsShown`, `Room!OneDriver`, `LegacyRoom!ConsentPerMessage`, `Computer!TouchedAsShown`, `Butler!LampAsShown` |
| `ShowsItsOwn` | `RoomControl!PreviewIsOfFile`, `Inbox!ChunksBelong`, `Mobile!PrivateToOwner`, `FileTree!PreviewOfSelected`, `AgentFiles!FilesAreOwn`, `Desktop!SeriesIsOfChoice` |
| `ReportsWhatIs` | `Household!PackagedAsShown`, `Workbench!ListedIsOpen`, `Assist!DecidedAsShown`, `MailActions!ReportsAreTrue`, `Tools!SearchIsWhole`, `Conversations!KeptAsShown`, `Desktop!DrawnWhereHeld` |
| `RulesHold` | `Delegation!VerdictIsMostSpecific`, `Delegation!SetPolicyStands`, `Entry!EnteredAsChosen`: what was set stands |

Some of these would be false without a condition, and the condition is where
the code does lose something:

* `RefsResolve` leaves out PUTs that overlap, and a read of a file that another
  PUT has just truncated: there keys are lost.
* `AuditedAtHome` lets an operation under way while a folder is chosen leave its
  line in the log of either folder, and lets a line be missing when its write
  failed, follows a torn one, or finds the stream given up after a failed record
  of a managed read: `record` swallows all of these, and the operation succeeds.
* `OnlyOnward` speaks, for the stored queue, of one data folder (the queue of the
  old one is written over that of a new one) and of files that could be read; where
  a rewrite forgets a task, also one whose result is still owed, it has as many
  ended ones as the history keeps.
* `MailNotSkipped` leaves out the messages up to a cursor that was brought along:
  when the account is pointed at another host, user or folder, or the server
  numbers the mailbox anew, `last_uid` stays as it is and these are skipped.
* `ShowsItsOwn` speaks, for the inbox, of the account whose list was asked for by
  the newest request; after a switch it can be another than the selected one,
  which is what `inbox_wrong_account` shows.
* `RulesHold` leaves out a policy set while `restore` reads the policy file: the
  file overwrites it.
* `SyncOnlyAdds` speaks of syncs whose file nobody changed between their read
  and their write: a local event the page saves meanwhile is lost.
* `PagesTellTheTruth` leaves out accounts that were not in the answer of their
  sync (switched off, or no longer in the stored file): only those in the answer
  are set anew, so these stay *connecting* with their button disabled.
* `ReportsWhatIs` speaks, for conversations, of a restore without an early or
  failed write and of one workspace.
* `RevokedStaysRevoked` leaves out records the user confirms again, logs cut off
  by a crash, and facts that an edit of the old files states, as confirmed, under
  an id without events.  The last is wide: the code numbers the lines of
  `long_term.jsonl` and the items of `profile.json`, so a line inserted above a
  rejected one moves it to such an id.

The states that lie outside the condition are reached in the same run; the
property does not constrain them.

### Bounds

Everything the team does wrong needs at most a source and a target, a leftover
run and its successor (so `MaxGen = 2`), and two tasks that compete for a
target, for an order or for a place in the history; a user turn comes and goes
as often as it likes, with one outstanding at a time.  `team_limits` adds a
third session so that a chain can be cut by depth rather than by a repeated
session, and shrinks the history to one so that trimming happens while results
are owed.  The cap on all open tasks is not reached in these instances;
`DelegationIsBounded` (section 4) proves it for every value.  In `approval_core`
two mails share a file with room for one, so drafts overwrite and evict each
other; `approval_live` presses the same card often enough for two failed sends
and a third after two restarts.

In `services` and `screens` two of each kind meet where the hazard is about two:
two fetches, syncs, callers, PUTs, folders, MCP calls, accounts, persons, files;
the counters that only grow (revisions, loads, processes, rewrites) go far
enough for an old answer, a newer one and the state between.  `HostLink` has
three processes, so that a reader of the first can meddle with the third;
the history of the stored queue
holds one ended task, so that trimming happens while results are owed; two facts
go round among the records and the old files, each of one id: a fact moves from
an id of one file to that of the other as a renumbering moves it within one, and
`RevocationsLast` (section 4) is for files of any length; two of the mail's
writers, fetches and pages alike, overlap;
`Secrets` three operations over three revisions, one to be lost, one to be
stored, one to read; `Todo` three items, two of them with the same key.
The to-do queue and the calendar are instantiated twice, because the pages
multiply with the writers of the file: the queue once with three items and no
board, and once with two items and the board, which awaits one list and one
answer at a time; the calendar once with an event of the page that is pushed
beside one sync, and once with two syncs that overlap.  `Tools`
searches one level deep with a limit of two matches and a walk of three
folders, so that each of the limits can be the one that stops it.

Symmetry is used where only invariants and action properties are checked
(`team_core`, `team_limits`), never with liveness, and only over
model values that no definition names.

### Fairness

`Team`: an unsettled run is prompted and settles (`WF` of `RunStep`).  That is an
assumption about the model's provider and the host: `harness.ts` ends its child
after a time, but a turn of the pi engine (`sessions.ts:251`, `306`) and a request
to the host (`rpc.ts:71-81`) have no timer, and a provider that never answers
keeps its session for ever.  Continuations run (`WF`), and the zero-delay
timer does not lose the race for one particular session to outside turns for
ever (`SF` of `IdleKick /\ ~IsBusy(s)`; weak fairness is not enough, because a user
may begin a turn each time the session is free).  Liveness is claimed while the
session concerned stays open.  `Approval`: storing a draft ends (again an
assumption about the host, which answers each vault request or dies), the timer of a waiting call fires, and `finish` goes on; nothing is
assumed of the user or of SMTP.  No fairness is assumed of creating, closing,
cancelling, aborting or approving.  `HostLink`: the reader task of each process
goes on (`WF` of `HostTasks`), as tokio polls a task that is ready; nothing is
assumed of the callers or of the process.

### Where the code and its contract disagree

* `team_chain_lost`: `docs/contract.md` 2.11 bounds delegation by depth 3 and
  refuses a session that is on the chain.  `enqueue` reads depth and chain from
  the turn recorded for the session id.  A close deletes that record, and while
  the run is still gathering its context there is nothing the close could abort:
  the run goes on to the model, finds no record, and its call starts a new chain.
  If the id was created again meanwhile, the record it finds is its successor's.  For sessions that were never closed the contract holds
  (`ChainFollowsTurnIfOpen`).
* `team_cancel_hits_user`: the same section says cancelling a task never stops
  the user's own conversation.  `cancel` aborts whatever runs under the target
  id, after a re-creation the user's.  For targets never closed it holds
  (`CancelStopsOnlyItsTurnIfOpen`).
* `approval_expired_sent`: section 2.13 says an undecided mail expires after ten
  minutes and is not sent.  `decide("approve")` on an expired card still sends.
* `approval_draft_lost`: the same section says the draft is stored when its
  card opens.  Two overlapping `draft_email` calls rewrite the file from the same
  copy and one draft is lost.
* `inbox_wrong_account`: `docs/V0.2 Testcase.md`, TC-V02-006, says that after a
  switch of accounts the page shows the current one only.  A fetch keeps the
  account of the rendering it was started in; when it ends after the switch it
  loads the first account's mails, as the newest load, under the second.

Seen while modelling, without a run of its own: a comment in `CalendarView.tsx`
(line 331) says that an event keeps its remote identity after a push so that
the next pull does not make a second one.  The merge of `syncCalendar` goes by
the id of the entry alone and the pull makes one of its own, so both stay; in
`Calendar` they are the page's entry and the feed's of one event.  `context.ts`
(line 104) reads the old files not only when the memory cannot be asked but also
when it answers that nothing is confirmed, so a user who revoked every record
has them given to the next turn again; `RevokedStaysRevoked` speaks of contexts
the memory answered.  `audit.rs`
(line 3) says that every operation leaves exactly one line, and `record` in the
same file says that the log must never break an operation; when the write fails
the second holds and the first does not.  `mail.ts` keeps one cursor per account
name and looks at no `UIDVALIDITY`; an account pointed elsewhere also goes on
saving to the directory `mail/<name>` of the old one.
In `Entry`, a save of the model settings that fails after
the file was written may leave the agent with another provider than the window
shows, and a session that ends inside the set-up leaves a step without a form
to sign in again.

## 4. Proofs

The theorems hold for any number of sessions, tasks, policies, drafts, presses,
restarts, callers, folders, records, leases, facts, messages and so on.  They assume
only what the modules assume of their constants (`SessionsAssumption`,
`TeamAssumption`, `ApprovalAssumption`, `ServicesAssumption`, `ScreensAssumption`: types, numbers that
are not negative, sentinels that are not values, finitely many media files), and TLC evaluates these on
every run of those modules.

`TeamProofs`.  `ReservedByOneTurn`, `RunningIsWorkedOn` and `ResultsWaitOnce`
are not inductive one by one: that a task which settles finds itself running
needs the reservation of its target, that a session is not reserved twice needs
that its queued work is not already running, and that a result is not told
twice needs that a settled turn gives back its own session and no other.  The
inductive invariant `Bookkeeping` joins them with what a queued and an ended
task may not have (a run, a mark, a delivery).  The proof goes through `Kick`
once: lemmas say what `Begin` does to each table, whatever tables the calling
handler passes on, and each action then only shows that its own tables keep the
books balanced.

* `TypeCorrect`: `Spec => []TypeOK`
* `ReservationsBalance`: `Spec => []ReservedByOneTurn`
* `RunningTasksAreWorkedOn`: `Spec => []RunningIsWorkedOn`
* `ResultsAreToldOnce`: `Spec => []ResultsWaitOnce`

`NoLostWakeup` is inductive on top of the bookkeeping.  `KickWakes`
shows that after a kick no free session has work, whatever there was before:
the sessions a kick begins on are not free any more, and every other one had
nothing to begin, owed results included.  The steps without a kick free no
session and add no work; closing one needs the bookkeeping, because a result
taken off the queue might otherwise become owed to a third session.
`TurnMatchesRun` needs two more facts about closed and idle ids: a run is on an
agent object its id has named, and an id without a turn in flight has no turn
recorded; both are what an id that is opened for the first time begins with.
On a session that was never closed every run is on the current agent, and the
two contract properties follow.

`LimitsHold` is inductive together with one more fact: a turn recorded for a
session, unless it is a result turn, carries a simple chain that ends at that
session (`TurnsLead`).  The proof describes every step but delegation as one from
a table to another that `Descends` from it (no new tasks, no task open again),
which keeps the limits, and shows that a new task extends the caller's chain by
one session it does not contain.

For the last two, a lemma says what any step does to one task of the table
(`TaskStep`): what a handler prepares, what its kick then starts, and
what its trim forgets.  The refinement has to exclude that a task ends and is
forgotten in one step, which the abstract lifecycle does not allow.  That is so
because `trim` spares the task that has just ended, and it rests on a count: a
history that was within its limit has at most one entry too many.  Counts say
something of finite sets only, so the inductive invariant carries that finitely
many ids have been issued (`FiniteBooks`).  `OneAtATime` of the lifecycle follows
from `Bookkeeping`: two running tasks of a target would both be its reservation.

* `NoWakeupIsLost`: `Spec => []NoLostWakeup`
* `TurnsMatchRuns`: `Spec => []TurnMatchesRun`
* `ChainsFollowTurns`: `Spec => ChainFollowsTurnIfOpen`
* `CancelsStopTheirTurn`: `Spec => CancelStopsOnlyItsTurnIfOpen`
* `DelegationIsBounded`: `Spec => []LimitsHold`
* `ResultsStayOwed`: `Spec => OwedUntilTold`
* `QueueIsALifecycle`: `Spec => KeepsLifecycle`, that is, `Team` implements `TaskLifecycle`

`ApprovalProofs`.  `SendsBoundedByApprovals` counts events that are steps apart,
so the invariant `Budget` carries the approvals that may still turn into a send: an
operation in `sending` before SMTP and a `finishing` that will start one each
hold one approval that has not been spent, and they never hold the same one.
`NoCallIsStranded` needs that a call is in exactly one place - its draft being
stored, waiting on a pending card, held by `finish`, answered (`InOnePlace`).
`ActsOnApprovalOnly` needs that the id of an action gets one card in its life:
what a restart brings back are mails.

* `TypeCorrect`: `Spec => []TypeOK`
* `OneMailPerApproval`: `Spec => []SendsBoundedByApprovals`
* `ConfirmedMailsRest`: `Spec => ConfirmedIsFinal`
* `CallsAreNotStranded`: `Spec => []NoCallIsStranded`
* `ActionsAreApproved`: `Spec => []ActsOnApprovalOnly`

`ServiceProofs`.  Every invariant and action property of the run
`services` is proved of `ServicesSpec`.  Each component has an inductive
invariant: its types, what its module calls *why it holds*, and its properties.
A section per component proves that `Init` gives it and that every action keeps
it; `MovesAlone` says that a step of the run is one of the component in focus, so
the conjunction over all of them, `ServicesInv`, is inductive (`ServicesHold`),
and the properties of the run follow from it.  TLC checks `ServicesInv` on the
instance of the run too.  What makes the components inductive:

| component | what is kept beside the types and the properties |
|---|---|
| `TeamStore` | nothing is sent before the queue is restored; then the queue as it is, or the rewrite under way, or the file has every change, or the queue is marked (`FlushedInOrder`); what is about to be written is onward of what is stored (`OnwardOfStored`); a queue or file that has forgotten a task has as many ended ones as are kept (`HistoryKept`), which is shown over the cardinality of what `trim` takes away |
| `Routines` | the turns of an hour are among the firings counted, which are no more than the limit (`TurnsAreCounted`); the last write on the wire, or the file, is the table as it stands, or a firing that will persist it is under way (`LastIsNow`) |
| `HostLink` | one reader is at work on the process of the link (`OneReaderAtWork`), and who waits is in the pending table (`WaitingIsPending`) |
| `Todo` | only the first call of the chain has begun, and what it read is the file but for its own item (`FirstOfChainRuns`); what lists and answers under way carry is behind the file and never ahead of it (`BoardIsBehind`) |
| `Calendar` | what a sync read is in what it is about to write, until somebody else has written (`ReadIsMerged`); an idle sync is not awaited |
| `Settings` | without overlapping PUTs the stored keys only grow in number, all under one master key, and a PUT has stored what the settings it is about to write refer to (`KeysBeforeRefs`, spelled out per stage as `PutKept`) |
| `VaultFiles` | the open audit stream is that of the folder being chosen, or else of the chosen one, and an operation has met both (`StreamIsOfRoot`); it acts in a folder it has met and has no line before its end (`LineAtTheEnd`) |
| `Memory` | the last event of a revoked record says so (`RevocationIsLogged`); what is confirmed, by its event or without any by an old line, says nothing taken back (`ConfirmedIsNotTaken`); what the memory gave a context was not taken back then (`GivenWasNotTaken`) |
| `Access` | a model lease is consumed before the call that sends (`ConsumedBeforeSent`) |
| `Library` | an import goes on only with the input its receipt is for (`ReceiptIsKept`) |
| `Welcome` | a chat is asked only while its receipt is pending, in memory and on disk (`ReceiptBeforeAsking`); that points add up is inductive over the cardinality of the chats charged |
| `Mail` | no cursor, in the file or in the copy of a fetch or page that points at the mailbox, passes a message that was neither saved nor found without a source, nor one that is still to come, unless it was brought along (`CursorsBehind`) |
| `Mcp`, `Harness`, `R1Engine` | a call holds on to the connector on its card (`CallKeepsCard`); a child runs only while its prompt collects (`ChildIsCollected`); the first question of the loop is the only one that reaches the gateway (`OneQuestion`) |

The lemmas about the to-dos and the calendar are stated for every set of items,
keys, lists, events and syncs, and the run uses each for two such choices.  The
stored team queue keeps its promises only while the data folder stays one: the
theorems about it assume `OneFolder`, as their comments in `TeamStore` explain;
the types, and everything about the others, need no such hypothesis.

* `ServicesTypeCorrect`, `StoresStayWhole`, `TurnsStayCapped`, `TheLinkHolds`,
  `EnginesStayObedient`, `RefsStayResolved`, `LinesStayHome`, `RevocationsLast`,
  `GrantsCountOnce`, `MailIsNotSkipped`, `PagesStayTrue`: `ServicesSpec => []P` for the
  eleven invariants of the run, in the order of `services.cfg`
* `RewritesGoOnward`, `OnlyTheLivingAreServed`, `UserWordsLast`, `SyncsOnlyAdd`:
  `ServicesSpec => P` for its four action properties

`PageProofs`, `ScreenProofs`.  The five invariants of the run `screens` are proved
of `ScreensSpec` in the same way: a section per page gives its inductive
invariant (`RoomInv`, `MobileInv`, ...) and proves that `Init` establishes it
(`...Starts`), that every action keeps it (`...Step`) and that the page's
properties follow (`...Holds`); `ScreensInv` joins them.  TLC found `ScreensInv`
true of all states of the run too, with the one bound over `Nat` in it cut down.  What a page keeps in
flight is a set of records, so the strengthening mostly says what the records
that still count have to do with the page that listens to them:

| page | what is kept beside the types and the properties |
|---|---|
| `Room` | a tick that still stands is of what is shown, unless an answer came in (`AgreedTo`); a sending has room left for its own answers (`AnswersFit`); the person and the steps of an agent never work the browser together (`OneWorks`) |
| `LegacyRoom` | each message took a tick of its own and each answer a message (`TalkCounts`) |
| `Computer` | whatever a viewer was shown, in the views or carried by an order on the way, is of an earlier life, an earlier revision or the page last looked at (`Behind`); so an order whose revision is that of the container is about the page it was made of |
| `Butler` | at most one lamp order is under way, and each timer is for a task of its kind (`OneOrder`, `TimersFit`) |
| `RoomControl` | a preview under way is of the file chosen, unless overtaken (`PreviewsOfFile`) |
| `Inbox` | a list call that has the number of the last load is of the account it was asked for (`ListFits`); the index has counted no more patches than there were deeds (`IndexFits`) |
| `FileTree` | a read that still counts is of the file selected, a request that still counts is of the question and page shown (`Selected`, `Wanted`) |
| `AgentFiles` | the folder, what is being saved, and the panel unless it is being read, hold texts of one agent each; a read that is listened to is of the agent chosen (`ReadsOwn`, `SavesOwn`) |
| `Desktop` | live polls are of the span chosen; a frame is due only during a drag; else the window is where it was set and, once watched, where the browser holds it |
| `Mobile` | unless a sign-out is under way, all that is kept, asked and still counts on both sides is of the person signed in last, and no overtaken check of the session counts beside it (`OfOne`); while signing in nothing else counts (`SigningIn`) |
| `Entry` | while nothing overtook a call there is one at a time and the window awaits it; the one that finishes the set-up is for the model selected, stored and allowed in its mode, and from its second stage on that mode is the host's (`FinishOK`) |
| `Household` | an item of a revision has the facts of that revision in memory, on disk and in every plan shown or sent (`StoreGood`, `PlanGood`) |
| `MailActions` | a call has reported what it did, but for one message when it failed (`MailJobGood`) |
| `Workbench` | a session that is listed is open, owned up to as broken, or about to be opened by a sequence under way (`Accounted`) |
| `Assist` | what a list, an event or an answer on its way says of a decided card is so in the sidecar (`TrueLetter`) |
| `Delegation` | one request of a restart is read at a time, and none for the policy once one was set in time (`OneRead`, `Stands`) |
| `Tools` | the search has looked at some set of folders that holds the root, whose subfolders are looked at or pending, and whose files are found, unless something failed or moved |
| `Conversations` | while nothing failed, the browser has what the page has, and the workspace has, or is about to get, what the page takes for written (`TalkGood`) |

Three of them need more than bookkeeping.  The scan of `Delegation` over the rules
and the depths of the folders in `Tools` are functions defined by themselves, on
lists and trees of any size; that each is what its equation says (`ScanStep`,
`DepthStep`) is shown by way of the least number for which it is not
(`LeastNumber`), which takes the place of an induction.  `Tools` also puts the
folders of a level into a sequence in an order left open; that each is there
once is shown from a bijection (`ListedOnce`).  `Conversations` and `MailActions`
count, so their facts rest on the cardinality theorems of the library.

The conditions under which the page properties hold (section 3) are those of the
theorems too; the steps that leave them are in the model and keep the
invariant.  Two were sharpened by the proofs: a copy of the conversations that
the 800 ms timer sends may overtake the read of the restore, which then puts
older conversations over it (`settled` ends there), and the set-up is entered as
chosen only as long as no late answer of the status moved the window on
(`late`).  The history the browser keeps must hold at least one conversation
(`KeptTalks`, 30 in the code).

* `ScreensAreTyped`, `PagesActAsShown`, `PagesShowTheirOwn`, `PagesReportWhatIs`,
  `WhatWasSetStands`: `ScreensSpec => []P` for the five invariants of the run, in the
  order of `screens.cfg`; all five follow from `ScreensHold`.

With these, every invariant and every action property that a run checks is a
theorem.  Only model-checked is liveness (`QueuedIsServed`, `OwedIsTold`,
`AskedIsAnswered`, `LinkRecovers`), which is beyond the proof system.

`RemoveAt` and `SetToSeq` are written out in `Delegation` and `Tools`: each
page is an instance, and an instance copies every operator of the modules it
extends into each proof obligation, so that extending all of `SequencesExt` for
one operator doubled the time of the proofs.

## 5. Plan

Modelled and checked: every part of section 1 but those of section 6.  What
would add most from here, in this order:

1. Composition: `Team` with the restarts of `TeamStore`, so that a task
   accepted before a crash is followed through the next life; `Assist` with
   `Approval` behind it instead of a list of cards.
2. The refinement of an atomic request / reply channel by `HostLink`.
3. Pure operators against a reference: the match of cron expressions.

## 6. Not modelled

* `runOnce` (bounded analyses without a session), labels, MCP reload and event
  conversion of the session manager; `applyRoster`.
* `contentAgent.ts`, `events.ts`, `grants.ts` of the sidecar, and what `context.ts`
  does beside the memory: they assemble prompts and convert events and keep
  nothing of their own.
* The home pages, the memory page and `aiAdvisor.ts`: each asks for one thing
  and shows it; what they write goes through the to-do queue and the files.
* The desktop shell (`app.rs`), the dispatch of `depdekd`, `agent-service`,
  `space-service` and the web desk's server: they pass one request on to a
  component that is modelled, or to the file system, and keep no state between
  requests beyond login tokens behind one lock.
* The old credential store of `credentials.rs`; the classification of photos.
* Network and protocol I/O (SMTP, IMAP, CalDAV, MCP, model providers) appears
  only as the outcomes the modelled code sees; MIME, SQL, cron expressions and
  media decoding are abstracted to a choice.  Layout, wording and cryptography
  are out of scope.
