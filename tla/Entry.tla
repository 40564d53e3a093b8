------------------------------- MODULE Entry --------------------------------
(***************************************************************************)
(* The entry of the AI-OS window (AiOsEntry.tsx): network, account, model  *)
(* and mode are set up step by step with calls to the host, of which the   *)
(* window awaits one at a time, and then the workspace is shown (at once,  *)
(* with a host that has no such account).  The reads of the status overlap *)
(* that were asked for before the first one was answered; a late one can   *)
(* take the window off the panel of a call, which then goes on unawaited.  *)
(* A provider is its name, and local or in the cloud; the account itself   *)
(* is in module Welcome.                                                   *)
(***************************************************************************)
CONSTANTS
  ProviderNames,  \* names of model configurations
  NoName,         \* no configuration
  StatusReads     \* reads of the status

VARIABLES
  entry,  \* the window
  local,  \* the host: session, account, mode and settings
  reads   \* reads of the status under way

entryVars == <<entry, local, reads>>

Modes == {"online", "local"}
Reaches == {"local", "cloud"}
SetupSteps == {"network", "account", "model", "mode"}
Calls == {"login", "loginMode", "loginStatus", "link", "linkMode", "mode", "save", "write", "reread",
          "finish", "finishMode", "finishComplete"}
Statuses == [known : BOOLEAN, linked : BOOLEAN, initialized : BOOLEAN, authenticated : BOOLEAN, configured : BOOLEAN, connection_mode : Modes]
NoStatus == [known |-> FALSE, linked |-> FALSE, initialized |-> FALSE, authenticated |-> FALSE, configured |-> FALSE, connection_mode |-> "online"]
\* A call under way: its choice is of the moment it began; "here" is the one that is awaited.
CallsMade == [at : Calls, here : BOOLEAN, name : ProviderNames \cup {NoName}, reach : Reaches, test : BOOLEAN, mode : Modes]

EntryTypeOK ==
  /\ entry \in [status : Statuses, step : SetupSteps, mode : Modes, touched : BOOLEAN, calls : SUBSET CallsMade, late : BOOLEAN,
                pendingSelection : ProviderNames \cup {NoName}, pendingReauth : BOOLEAN,
                reauth : BOOLEAN, unlock : {"none", "reauth", "reauthStatus"}, by : {"answer", "finish"}]
  /\ local \in [initialized : BOOLEAN, session : BOOLEAN, linked : BOOLEAN, configured : BOOLEAN, mode : Modes, started : BOOLEAN,
                providers : [ProviderNames -> Reaches \cup {"none"}], agent : ProviderNames \cup {NoName}]
  /\ reads \in [StatusReads -> [at : {"idle", "asked", "answered"}, status : Statuses]]

Idle == [at |-> "idle", status |-> NoStatus]

\* The window is opened, or loaded anew while the host goes on.
EntryInit ==
  /\ entry = [status |-> NoStatus, step |-> "network", mode |-> "online", touched |-> FALSE, calls |-> {}, late |-> FALSE,
              pendingSelection |-> NoName, pendingReauth |-> FALSE, reauth |-> FALSE, unlock |-> "none", by |-> "answer"]
  /\ local \in [initialized : BOOLEAN, session : BOOLEAN, linked : BOOLEAN, configured : BOOLEAN, mode : Modes, started : {FALSE},
                providers : [ProviderNames -> Reaches \cup {"none"}], agent : {NoName}]
  /\ local.session \/ local.configured \/ local.linked => local.initialized
  /\ reads = [r \in StatusReads |-> Idle]

providerAllowedForMode(reach, mode) == mode = "online" \/ reach = "local"

\* public: the account is told to a session only.
StatusOf(h) ==
  [known |-> TRUE, linked |-> h.session /\ h.linked, initialized |-> h.initialized, authenticated |-> h.session, configured |-> h.session /\ h.configured, connection_mode |-> h.mode]

Entered(w) == w.status.authenticated /\ w.status.configured
\* A request to log in that came too early is shown with the workspace, and forgotten without a session.
Reauthed(w) ==
  [w EXCEPT !.reauth = @ \/ (w.pendingReauth /\ Entered(w)), !.pendingReauth = @ /\ w.status.authenticated /\ ~Entered(w)]

\* The panel that awaits a call; when it is taken away, the window is free again while the call goes on.
Gone(k, w) ==
  \/ k.at \in {"save", "write", "reread"} /\ (w.step # "model" \/ Entered(w))
  \/ k.at \in {"link", "linkMode"} /\ (w.step # "account" \/ Entered(w))
Drawn(w) ==
  [w EXCEPT !.calls = {[k EXCEPT !.here = @ /\ ~Gone(k, w)] : k \in w.calls}, !.late = @ \/ (\E k \in w.calls : Gone(k, w))]

Accepted(w, status) ==
  Reauthed([w EXCEPT !.status = status, !.by = "answer", !.mode = IF w.touched THEN @ ELSE status.connection_mode])
acceptStatus(w, status, step) ==
  Drawn([Accepted(w, status) EXCEPT !.step = IF step # "none" THEN step ELSE IF status.authenticated THEN "network" ELSE @])

\* Something else happened between a call and its answer.
Overtaken(w) == [w EXCEPT !.late = @ \/ w.calls # {}]

-----------------------------------------------------------------------------
(* The status, and the session at the host. *)

\* At the start, and again as long as nothing came.
AskStatus(r) ==
  /\ reads[r].at = "idle" /\ ~entry.status.known
  /\ reads' = [reads EXCEPT ![r].at = "asked"] /\ UNCHANGED <<entry, local>>
AnswerStatus(r) ==
  /\ reads[r].at = "asked"
  /\ reads' = [reads EXCEPT ![r] = [at |-> "answered", status |-> StatusOf(local)]] /\ UNCHANGED <<entry, local>>
StatusFails(r) == reads[r].at = "asked" /\ reads' = [reads EXCEPT ![r] = Idle] /\ UNCHANGED <<entry, local>>
StatusArrives(r) ==
  /\ reads[r].at = "answered" /\ UNCHANGED local
  /\ reads' = [reads EXCEPT ![r] = Idle] /\ entry' = acceptStatus(Overtaken(entry), reads[r].status, "none")

SessionEnds == local.session /\ local' = [local EXCEPT !.session = FALSE] /\ UNCHANGED <<entry, reads>>

\* The host refused a call of the window, whichever, for want of a session.
LoginRequired ==
  /\ ~local.session /\ UNCHANGED <<local, reads>>
  /\ entry' = IF Entered(entry) THEN [entry EXCEPT !.reauth = TRUE, !.pendingReauth = FALSE] ELSE [entry EXCEPT !.pendingReauth = TRUE]

\* The workspace uses a model: the mode is fixed from now on.
WorkspaceStarts ==
  Entered(entry) /\ local.session /\ local' = [local EXCEPT !.started = TRUE] /\ UNCHANGED <<entry, reads>>

\* The settings of the workspace change, add or drop a model.
WorkspaceSaves(name, reach) ==
  /\ Entered(entry) /\ local.session /\ entry' = [Overtaken(entry) EXCEPT !.by = "answer"]
  /\ local' = [local EXCEPT !.providers[name] = reach] /\ UNCHANGED reads

-----------------------------------------------------------------------------
(* The calls of the window: each begins when no other is awaited. *)

Free == ~Entered(entry) /\ \A k \in entry.calls : ~k.here
Call(at, mode) == [at |-> at, here |-> TRUE, name |-> NoName, reach |-> "local", test |-> FALSE, mode |-> mode]
Starts(w, k) == [w EXCEPT !.calls = @ \cup {k}]
\* A sequence of calls goes on with the mode that it began with, though a late status may show another.
Begins(at) == Free /\ entry' = Starts(entry, Call(at, entry.mode)) /\ UNCHANGED <<local, reads>>
Done(k) == [entry EXCEPT !.calls = @ \ {k}]
Fails(k) == entry' = Done(k)
Onward(k, at) == Starts(Done(k), [k EXCEPT !.at = at])
ContinuesWith(k, at) == entry' = Onward(k, at)

\* set_connection_mode: the host may fail after it has saved the mode.
ModeIsSet(mode) == local.session /\ (local.started => mode = local.mode) /\ local' = [local EXCEPT !.mode = mode]
ModeFails(mode) == UNCHANGED local \/ ModeIsSet(mode)

changeMode(mode) ==
  /\ Free /\ entry.step = "mode" /\ mode # entry.mode /\ UNCHANGED <<local, reads>>
  /\ LET w == [entry EXCEPT !.touched = TRUE]
     IN  entry' = IF entry.status.authenticated THEN Starts(w, Call("mode", mode)) ELSE [w EXCEPT !.mode = mode]
ModeChanged(k) ==
  /\ k.at = "mode" /\ UNCHANGED reads
  /\ \/ ModeFails(k.mode) /\ Fails(k)
     \/ /\ ModeIsSet(k.mode)
        /\ entry' = Reauthed([Done(k) EXCEPT !.mode = local'.mode, !.status = StatusOf(local'), !.by = "answer"])

\* The form of a local account is there without a session; the first time it makes the account.
\* An error may come after the session was opened, or after the account was made.
login == entry.status.known /\ ~entry.status.authenticated /\ entry.step = "account" /\ Begins("login")
Opens == [local EXCEPT !.initialized = TRUE, !.session = TRUE]
LoggedIn(k) ==
  /\ k.at = "login" /\ UNCHANGED reads
  /\ \/ Fails(k) /\ UNCHANGED local
     \/ /\ entry.status.initialized = local.initialized
        /\ \/ Fails(k) /\ local' \in {Opens, [Opens EXCEPT !.session = local.session]}
           \/ ContinuesWith(k, IF entry.touched THEN "loginMode" ELSE "loginStatus") /\ local' = Opens
ModeApplied(k) ==
  /\ k.at = "loginMode" /\ UNCHANGED reads
  /\ (ModeFails(k.mode) /\ Fails(k)) \/ (ModeIsSet(k.mode) /\ ContinuesWith(k, "loginStatus"))
StatusAfterLogin(k) ==
  /\ k.at = "loginStatus" /\ UNCHANGED <<local, reads>>
  /\ Fails(k) \/ entry' = acceptStatus(Done(k), StatusOf(local), "account")

\* A platform account is made or linked, once; then a mode that was chosen is set once more.
submit ==
  /\ entry.status.known /\ (entry.status.initialized => entry.status.authenticated) /\ ~entry.status.linked
  /\ entry.step = "account" /\ Begins("link")
acceptPlatformAccount(k) ==
  /\ k.at = "link" /\ UNCHANGED reads
  /\ LET linked == [Opens EXCEPT !.linked = TRUE]
     IN  \/ Fails(k) /\ UNCHANGED local
         \/ /\ local.initialized => local.session
            /\ ~local.linked
            /\ \/ Fails(k) /\ local' \in {linked, [linked EXCEPT !.session = local.session]}
               \/ /\ local' = linked
                  /\ entry' = IF ~k.here THEN Done(k)
                              ELSE acceptStatus(IF entry.touched THEN Onward(k, "linkMode") ELSE Done(k), StatusOf(linked), "account")
ModeOfAccount(k) ==
  /\ k.at = "linkMode" /\ UNCHANGED reads
  /\ \/ ModeFails(k.mode) /\ Fails(k)
     \/ ModeIsSet(k.mode) /\ entry' = acceptStatus(Done(k), StatusOf(local'), "account")

goto(step) ==
  /\ Free /\ (entry.status.authenticated \/ step \in {"account", "network"})
  /\ entry' = [entry EXCEPT !.step = step] /\ UNCHANGED <<local, reads>>

-----------------------------------------------------------------------------
(* A model is chosen, saved, and with the mode taken into the workspace. *)

\* A configuration that is there, one that is changed, or a new one; it may only be tested.
save(name, reach, test) ==
  /\ Free /\ entry.step = "model" /\ providerAllowedForMode(reach, entry.mode) /\ UNCHANGED <<local, reads>>
  /\ entry' = Starts(entry, [Call("save", entry.mode) EXCEPT !.name = name, !.reach = reach, !.test = test])
\* The settings are read, the home is opened, the settings are read again.
SettingsRead(k) ==
  /\ k.at = "save" /\ UNCHANGED <<local, reads>>
  /\ Fails(k) \/ (local.session /\ ContinuesWith(k, "write"))
\* What is stored names the model for the agent too; an error may come before or after it.
saveSetupProvider(k) ==
  LET stored == [local EXCEPT !.providers[k.name] = k.reach, !.agent = k.name]
  IN  /\ k.at = "write" /\ UNCHANGED reads
      /\ \/ Fails(k) /\ (UNCHANGED local \/ (local.session /\ local' = stored))
         \/ local.session /\ local' = stored /\ ContinuesWith(k, "reread")
\* What was saved, and not only tested, is the selection, unless another call is at work.
prepareMode(k) ==
  /\ k.at = "reread" /\ UNCHANGED <<local, reads>>
  /\ \/ Fails(k)
     \/ /\ local.session
        /\ entry' = IF ~k.test /\ (\A o \in entry.calls \ {k} : o.here => o.at \in {"save", "write", "reread", "link", "linkMode"})
                       /\ providerAllowedForMode(k.reach, k.mode)
                    THEN Drawn([Done(k) EXCEPT !.pendingSelection = k.name, !.step = "mode"])
                    ELSE Done(k)

finish ==
  /\ entry.step = "mode" /\ entry.status.known /\ entry.pendingSelection # NoName
  /\ Free /\ entry' = Starts(entry, [Call("finish", entry.mode) EXCEPT !.name = entry.pendingSelection]) /\ UNCHANGED <<local, reads>>

\* The selection is looked up again, as it is stored now.
SelectionChecked(k) ==
  /\ k.at = "finish" /\ UNCHANGED <<local, reads>>
  /\ \/ Fails(k)
     \/ LET reach == local.providers[k.name]
        IN  local.session /\ reach # "none" /\ providerAllowedForMode(reach, k.mode) /\ ContinuesWith(k, "finishMode")
ModeSaved(k) ==
  /\ k.at = "finishMode" /\ UNCHANGED reads
  /\ (ModeFails(k.mode) /\ Fails(k)) \/ (ModeIsSet(k.mode) /\ ContinuesWith(k, "finishComplete"))
\* The answer of set_connection_mode is the one the mode is taken from.
Completed(k) ==
  /\ k.at = "finishComplete" /\ UNCHANGED reads
  /\ \/ Fails(k) /\ (UNCHANGED local \/ (local.session /\ local' = [local EXCEPT !.configured = TRUE]))
     \/ /\ local.session /\ local' = [local EXCEPT !.configured = TRUE]
        /\ entry' = Drawn(Reauthed([Done(k) EXCEPT !.mode = local'.mode, !.status = StatusOf(local'), !.by = "finish"]))

\* The dialog over the workspace.
reauthenticate ==
  /\ entry.reauth /\ Entered(entry) /\ entry.unlock = "none"
  /\ entry' = [entry EXCEPT !.unlock = "reauth"] /\ UNCHANGED <<local, reads>>
NotUnlocked == entry' = [entry EXCEPT !.unlock = "none"]
Unlocked ==
  /\ entry.unlock = "reauth" /\ UNCHANGED reads
  /\ \/ NotUnlocked /\ UNCHANGED local
     \/ local.initialized /\ local' = [local EXCEPT !.session = TRUE] /\ (NotUnlocked \/ entry' = [entry EXCEPT !.unlock = "reauthStatus"])
LoginRestored ==
  /\ entry.unlock = "reauthStatus" /\ UNCHANGED <<local, reads>>
  /\ NotUnlocked \/ (local.session /\ entry' = [acceptStatus(Overtaken(entry), StatusOf(local), "none") EXCEPT !.unlock = "none", !.reauth = FALSE])

EntryNext ==
  \/ \E r \in StatusReads : AskStatus(r) \/ AnswerStatus(r) \/ StatusFails(r) \/ StatusArrives(r)
  \/ \E mode \in Modes : changeMode(mode)
  \/ \E step \in SetupSteps : goto(step)
  \/ \E name \in ProviderNames, reach \in Reaches, test \in BOOLEAN : save(name, reach, test)
  \/ \E name \in ProviderNames, reach \in Reaches \cup {"none"} : WorkspaceSaves(name, reach)
  \/ SessionEnds \/ LoginRequired \/ WorkspaceStarts \/ login \/ submit \/ finish
  \/ \E k \in entry.calls :
       \/ ModeChanged(k) \/ LoggedIn(k) \/ ModeApplied(k) \/ StatusAfterLogin(k)
       \/ acceptPlatformAccount(k) \/ ModeOfAccount(k)
       \/ SettingsRead(k) \/ saveSetupProvider(k) \/ prepareMode(k)
       \/ SelectionChecked(k) \/ ModeSaved(k) \/ Completed(k)
  \/ reauthenticate \/ Unlocked \/ LoginRestored

EntrySpec == EntryInit /\ [][EntryNext]_entryVars

-----------------------------------------------------------------------------
(* The workspace that a setup ends in works in the mode that the host has  *)
(* saved, and the model that was selected is stored and allowed in it,     *)
(* however often mode and model were changed, or failed to be, before      *)
(* (AiOsEntry.tsx:170-188, aiOsSetup.ts:98).  Two exceptions: a login      *)
(* into a workspace set up before asks for no model, and a status that     *)
(* comes while a call is under way may show another mode, or the workspace *)
(* before its time, or leave a save behind that changes the model later.   *)
EnteredAsChosen ==
  Entered(entry) /\ entry.by = "finish" /\ ~entry.late =>
    /\ entry.status.connection_mode = local.mode
    /\ LET reach == local.providers[entry.pendingSelection]
       IN  reach # "none" /\ providerAllowedForMode(reach, local.mode)
=============================================================================
