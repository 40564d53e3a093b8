------------------------------ MODULE Calendar ------------------------------
(***************************************************************************)
(* The calendar hub.  Two parties rewrite calendar/events.json as a whole: *)
(* the sync of the sidecar (calendar.ts), which reads it, waits for the    *)
(* remote calendars and writes the merge, and the calendar page of the     *)
(* desktop (CalendarView.tsx), which writes what it shows and one event    *)
(* more.  The page starts the syncs, shows how each connection fares, and  *)
(* writes calendar/accounts.json.  One life of the page is modelled; a read *)
(* or write of the page is one step with what it then shows.               *)
(***************************************************************************)
EXTENDS FiniteSets

CONSTANTS
  LocalEvents,    \* events made on the page
  RemoteEvents,   \* events made elsewhere, which the remote calendars serve
  CalAccounts,
  Syncs           \* bounds the syncs under way at once

VARIABLES
  files,   \* the events and the accounts as stored
  page,    \* what the page shows, the events being pushed, the connections
  syncs,   \* the syncs under way
  remote   \* the page's events the remote calendars were given

calendarVars == <<files, page, syncs, remote>>

AllEvents == LocalEvents \cup RemoteEvents
\* An entry's id says where it was made and of which event; "remote" says
\* whether it holds the identity of the event at the remote calendar.
Entries == [from : {"page", "feed"}, event : AllEvents, remote : BOOLEAN]
PageEntry(e, known) == [from |-> "page", event |-> e, remote |-> known]
FeedEntry(e) == [from |-> "feed", event |-> e, remote |-> TRUE]

AccountFiles == [CalAccounts -> {"none", "on", "off"}]
NoAccounts == [x \in CalAccounts |-> "none"]

CalendarFiles == [events : SUBSET Entries, accounts : AccountFiles]
Pushes == [event : LocalEvents, next : SUBSET Entries]
Pages ==
  [shown : SUBSET Entries, accounts : AccountFiles, made : SUBSET LocalEvents, pushes : SUBSET Pushes,
   conn : [CalAccounts -> {"idle", "connecting", "connected", "error"}],
   missed : SUBSET CalAccounts, loading : BOOLEAN, syncing : BOOLEAN]
SyncStates ==
  [at : {"idle", "called", "asks", "writes", "done", "failed"}, awaited : BOOLEAN,
   targets : SUBSET CalAccounts, scope : SUBSET CalAccounts, failed : SUBSET CalAccounts,
   merged : SUBSET Entries, current : BOOLEAN]

CalendarTypeOK ==
  /\ files \in CalendarFiles /\ page \in Pages
  /\ syncs \in [Syncs -> SyncStates] /\ remote \subseteq LocalEvents

IdleSync == [at |-> "idle", awaited |-> FALSE, targets |-> {}, scope |-> {}, failed |-> {},
             merged |-> {}, current |-> FALSE]

CalendarInit ==
  /\ \E accounts \in AccountFiles : files = [events |-> {}, accounts |-> accounts]
  /\ page = [shown |-> {}, accounts |-> NoAccounts, made |-> {}, pushes |-> {},
             conn |-> [x \in CalAccounts |-> "idle"], missed |-> {}, loading |-> TRUE, syncing |-> FALSE]
  /\ syncs = [s \in Syncs |-> IdleSync]
  /\ remote = {}

-----------------------------------------------------------------------------
(* The page.                                                               *)

\* loadCalendar: each file that cannot be read counts as an empty one; what
\* cannot be parsed leaves the page as it was.
Loaded(p) ==
  {[p EXCEPT !.shown = shown, !.accounts = accounts, !.loading = FALSE] :
     shown \in {files.events, {}}, accounts \in {files.accounts, NoAccounts}}
  \cup {[p EXCEPT !.loading = FALSE]}

LoadCalendar ==
  /\ page.loading
  /\ page' \in Loaded(page)
  /\ UNCHANGED <<files, syncs, remote>>

\* updateConnectionState.
Connections(accounts, status) ==
  [x \in CalAccounts |-> IF x \in accounts THEN status ELSE page.conn[x]]

OnPage == {x \in CalAccounts : page.accounts[x] # "none"}

\* syncCalendars: of one account whose button is not disabled, or of all.
SyncCalendars(s, targets, scope) ==
  /\ syncs[s].at = "idle"
  /\ \/ scope = CalAccounts /\ targets = OnPage /\ ~page.syncing
     \/ scope = targets /\ \E x \in OnPage : targets = {x} /\ page.conn[x] # "connecting"
  /\ page' = [page EXCEPT !.conn = Connections(targets, "connecting"),
                          !.missed = @ \ targets, !.syncing = TRUE]
  /\ syncs' = [syncs EXCEPT ![s] = [IdleSync EXCEPT !.at = "called", !.awaited = TRUE,
                                      !.targets = targets, !.scope = scope]]
  /\ UNCHANGED <<files, remote>>

\* The answer: the page loads the files and shows how each account fared.
SyncAnswered(s) ==
  /\ syncs[s].at = "done" /\ syncs[s].awaited
  /\ LET sync == syncs[s] IN
     page' \in Loaded([page EXCEPT
       !.conn = [x \in CalAccounts |-> IF x \in sync.failed THEN "error"
                                       ELSE IF x \in sync.scope THEN "connected" ELSE page.conn[x]],
       !.missed = @ \cup (sync.targets \ sync.scope), !.syncing = FALSE])
  /\ syncs' = [syncs EXCEPT ![s] = IdleSync]
  /\ UNCHANGED <<files, remote>>

\* The call failed, or the host gave up on it while the sidecar goes on.
SyncFailed(s) ==
  /\ syncs[s].at # "idle" /\ syncs[s].awaited
  /\ page' = [page EXCEPT !.conn = Connections(syncs[s].targets, "error"), !.syncing = FALSE]
  /\ syncs' = [syncs EXCEPT ![s] = IF @.at = "failed" THEN IdleSync ELSE [@ EXCEPT !.awaited = FALSE]]
  /\ UNCHANGED <<files, remote>>

\* addAccount, saveAccounts: the file becomes what the page shows and the
\* account, new or set anew.
AddAccount(x) ==
  /\ page.accounts[x] = "none" => files.accounts[x] = "none"
  /\ LET next == [page.accounts EXCEPT ![x] = IF @ = "none" THEN "on" ELSE @] IN
     /\ files' = [files EXCEPT !.accounts = next]
     /\ page' = [page EXCEPT !.accounts = next,
                   !.conn[x] = IF page.accounts[x] = "none" THEN @ ELSE "idle"]
  /\ UNCHANGED <<syncs, remote>>

\* saveEvents, once the host has taken the write.
SaveEvents(next, p) ==
  /\ files' = [files EXCEPT !.events = next]
  /\ page' = [p EXCEPT !.shown = next]
  /\ syncs' = [s \in Syncs |-> [syncs[s] EXCEPT !.current = FALSE]]

\* addEvent: the file becomes what the page shows and the new event, which may
\* then be pushed to its account (calendar/push).
AddEvent(e) ==
  /\ e \notin page.made
  /\ LET next == page.shown \cup {PageEntry(e, FALSE)} IN
     \E pushes \in {{}, {[event |-> e, next |-> next]}} :
       /\ pushes # {} => OnPage # {}
       /\ SaveEvents(next, [page EXCEPT !.made = @ \cup {e}, !.pushes = @ \cup pushes])
  /\ UNCHANGED remote

\* pushCalendarEvent: the remote calendar of a stored account takes the event.
\* One feed stands for those of all accounts.
PushTaken(p) ==
  /\ p \in page.pushes /\ files.accounts # NoAccounts
  /\ remote' = remote \cup {p.event}
  /\ UNCHANGED <<files, page, syncs>>

\* The push is answered: the file becomes what it was when the event was added,
\* with the event's remote identity.  Or it failed, or the write did.
PushAnswered(p) ==
  /\ p \in page.pushes
  /\ LET rest == [page EXCEPT !.pushes = @ \ {p}] IN
     \/ /\ p.event \in remote
        /\ SaveEvents((p.next \ {PageEntry(p.event, FALSE)}) \cup {PageEntry(p.event, TRUE)}, rest)
     \/ page' = rest /\ UNCHANGED <<files, syncs>>
  /\ UNCHANGED remote

-----------------------------------------------------------------------------
(* The sync of the sidecar.                                                *)

\* Mutant: a file that cannot be read counts as an empty one.
BeginSyncOrEmpty(s) ==
  /\ syncs[s].at = "called"
  /\ \E read \in {files.events, {}} :
       syncs' = [syncs EXCEPT ![s].at = "asks", ![s].merged = read, ![s].current = TRUE]
  /\ UNCHANGED <<files, page, remote>>

\* syncCalendar: the enabled accounts it was called for, and the events; any
\* error of readJson but "not found" ends the sync.
BeginSync(s) ==
  /\ syncs[s].at = "called"
  /\ \/ syncs' = [syncs EXCEPT ![s].at = "asks", ![s].merged = files.events, ![s].current = TRUE,
                    ![s].scope = {x \in @ : files.accounts[x] = "on"}]
     \/ syncs' = [syncs EXCEPT ![s].at = "failed"]
  /\ UNCHANGED <<files, page, remote>>

\* The accounts answer, each with its events or with an error (syncAppleCalDav,
\* parseIcsEvents).  An event that came from the page is one more entry: the
\* merge goes by the id of the entry, and the feed makes its own.
ImportEvents(s) ==
  /\ syncs[s].at = "asks"
  /\ \E failed \in SUBSET syncs[s].scope, imported \in SUBSET (RemoteEvents \cup remote) :
       /\ failed = syncs[s].scope => imported = {}
       /\ syncs' = [syncs EXCEPT ![s].at = "writes", ![s].failed = failed,
                      ![s].merged = @ \cup {FeedEntry(e) : e \in imported}]
  /\ UNCHANGED <<files, page, remote>>

\* Once nobody awaits the sync any more, its end is the end of it.
Ended(s, at) == IF syncs[s].awaited THEN [syncs[s] EXCEPT !.at = at] ELSE IdleSync

WriteMerged(s) ==
  /\ syncs[s].at = "writes"
  /\ \/ /\ files' = [files EXCEPT !.events = syncs[s].merged]
        /\ syncs' = [t \in Syncs |-> IF t = s THEN Ended(s, "done")
                                     ELSE [syncs[t] EXCEPT !.current = FALSE]]
     \/ syncs' = [syncs EXCEPT ![s] = Ended(s, "failed")] /\ UNCHANGED files
  /\ UNCHANGED <<page, remote>>

CalendarNext ==
  \/ \E s \in Syncs : BeginSync(s) \/ ImportEvents(s) \/ WriteMerged(s)
  \/ \E s \in Syncs : SyncAnswered(s) \/ SyncFailed(s)
  \/ \E s \in Syncs, targets, scope \in SUBSET CalAccounts : SyncCalendars(s, targets, scope)
  \/ LoadCalendar
  \/ \E x \in CalAccounts : AddAccount(x)
  \/ \E e \in LocalEvents : AddEvent(e)
  \/ \E p \in page.pushes : PushTaken(p) \/ PushAnswered(p)

CalendarSpec == CalendarInit /\ [][CalendarNext]_calendarVars

-----------------------------------------------------------------------------
(* A sync whose file nobody else changed only adds to it, whatever could not *)
(* be read or fetched (calendar.ts:144-152, 277-312).                        *)
SyncOnlyAdds ==
  \A s \in Syncs : syncs[s].at = "writes" /\ syncs'[s].at # "writes" /\ syncs[s].current
    => files.events \subseteq files'.events

(* However syncs overlap and fail, an account whose every sync is answered *)
(* is not shown as connecting for ever - its button would stay disabled -  *)
(* unless the stored accounts leave it out (CalendarView.tsx:268-305).     *)
NoEndlessConnecting ==
  \A x \in CalAccounts \ page.missed :
    page.conn[x] = "connecting" => \E s \in Syncs : syncs[s].awaited /\ x \in syncs[s].targets

\* Why the first holds: what a sync read is in what it is about to write, until
\* somebody else has written.
ReadIsMerged ==
  \A s \in Syncs : syncs[s].at \in {"asks", "writes"} /\ syncs[s].current
    => files.events \subseteq syncs[s].merged
=============================================================================
