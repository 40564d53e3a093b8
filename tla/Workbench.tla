------------------------------ MODULE Workbench ------------------------------
(***************************************************************************)
(* The sessions as the main window keeps them (src/src/App.tsx): which are *)
(* open, which are running, and the copy of the settings they are opened   *)
(* from.  Creating, closing, renewing a session and saving the settings    *)
(* are sequences of calls to the sidecar and the host with the interface   *)
(* live in between; each goes on with what it saw when it was begun.       *)
(* Settings of an agent are a version; 0: there is no such agent.          *)
(***************************************************************************)
EXTENDS Naturals, FiniteSets

CONSTANTS
  WindowAgents,   \* the agents the window knows
  MaxVersion,     \* a bound on the changes to an agent's settings
  MaxWindowJobs   \* a bound on the sequences under way at once

VARIABLES
  window,   \* the page: sessions listed, flagged as running, failed to renew, and its settings
  sidecar,  \* sessions open there, turns running, ends of turns not yet reported, settings.json of the host
  errands   \* the sequences of calls under way

windowVars == <<window, sidecar, errands>>

Versions == [WindowAgents -> 0..MaxVersion]
Errands == [kind : {"create", "close", "renew", "save", "send", "abort"}, agent : WindowAgents, copy : Versions,
            saw : SUBSET WindowAgents, step : {"abort", "close", "create", "store", "read", "call"}]

WindowTypeOK ==
  /\ window \in [listed : SUBSET WindowAgents, running : SUBSET WindowAgents, broken : SUBSET WindowAgents,
                 settings : Versions]
  /\ sidecar \in [open : SUBSET WindowAgents, turns : SUBSET WindowAgents, news : SUBSET WindowAgents, file : Versions]
  /\ errands \subseteq Errands

\* Bootstrap: saved agents whose session the sidecar could open.
WindowInit ==
  \E saved \in [WindowAgents -> 0..1] : \E opened \in SUBSET {a \in WindowAgents : saved[a] = 1} :
    /\ window = [listed |-> opened, running |-> {}, broken |-> {}, settings |-> saved]
    /\ sidecar = [open |-> opened, turns |-> {}, news |-> {}, file |-> saved]
    /\ errands = {}

Errand(kind, a, step) ==
  [kind |-> kind, agent |-> a, step |-> step,
   copy |-> IF kind \in {"create", "close", "save"} THEN window.settings ELSE [b \in WindowAgents |-> 0],
   saw |-> IF kind = "save" THEN window.listed ELSE {}]
Begin(e) ==
  /\ e \notin errands /\ Cardinality(errands) < MaxWindowJobs
  /\ errands' = errands \cup {e}
Go(e, step) == errands' = (errands \ {e}) \cup {[e EXCEPT !.step = step]}
Done(e) == errands' = errands \ {e}

-----------------------------------------------------------------------------
(* What the user asks for.                                                  *)
CreateSession(a) ==
  /\ a \notin window.listed \/ window.settings[a] = 0
  /\ Begin(Errand("create", a, "create")) /\ UNCHANGED <<window, sidecar>>
CloseSession(a) ==
  /\ a \in window.listed
  /\ Begin(Errand("close", a, "close")) /\ UNCHANGED <<window, sidecar>>
StartNewConversation(a) ==
  /\ a \in window.listed
  /\ Begin(Errand("renew", a, "abort")) /\ UNCHANGED sidecar
  /\ window' = [window EXCEPT !.running = @ \ {a}]
\* The settings panel, or the configuration of one agent, saved.
SaveSettings(a) ==
  /\ window.settings[a] \in 1..(MaxVersion - 1)
  /\ Begin([Errand("save", a, "store") EXCEPT !.copy[a] = @ + 1]) /\ UNCHANGED <<window, sidecar>>
SendText(a) ==
  /\ a \in window.listed /\ a \notin window.running
  /\ Begin(Errand("send", a, "call")) /\ UNCHANGED sidecar
  /\ window' = [window EXCEPT !.running = @ \cup {a}]
AbortTurn(a) ==
  /\ a \in window.running /\ a \in window.listed
  /\ Begin(Errand("abort", a, "call")) /\ UNCHANGED <<window, sidecar>>

-----------------------------------------------------------------------------
(* The sidecar.  A turn that ends is reported, unless its session is gone.  *)
Opened(a) == [sidecar EXCEPT !.open = @ \cup {a}]
ClosedThere(a) == [sidecar EXCEPT !.open = @ \ {a}, !.turns = @ \ {a}]
TurnEnds(a) ==
  /\ a \in sidecar.turns /\ UNCHANGED <<window, errands>>
  /\ sidecar' = [sidecar EXCEPT !.turns = @ \ {a}, !.news = @ \cup {a}]
\* onAgentEvent: message_complete or error.
EndReported(a) ==
  /\ a \in sidecar.news /\ UNCHANGED errands
  /\ sidecar' = [sidecar EXCEPT !.news = @ \ {a}]
  /\ window' = [window EXCEPT !.running = @ \ {a}]

Sent(e) ==
  /\ e.kind = "send" /\ Done(e)
  /\ \/ /\ e.agent \in sidecar.open /\ e.agent \notin sidecar.turns /\ UNCHANGED window
        /\ sidecar' = [sidecar EXCEPT !.turns = @ \cup {e.agent}]
     \/ UNCHANGED sidecar /\ window' = [window EXCEPT !.running = @ \ {e.agent}]
\* The turn winds down; its end is reported as any other.
Aborted(e) ==
  /\ e.kind = "abort" /\ Done(e) /\ UNCHANGED sidecar
  /\ window' = [window EXCEPT !.running = @ \ {e.agent}]

-----------------------------------------------------------------------------
(* The sequences, call by call.                                             *)
Created(e) ==
  /\ e.kind = "create" /\ e.step = "create"
  /\ \/ /\ e.agent \notin sidecar.open
        /\ sidecar' = Opened(e.agent) /\ Go(e, "store")
        /\ window' = [window EXCEPT !.listed = @ \cup {e.agent}, !.broken = @ \ {e.agent}]
     \/ Done(e) /\ UNCHANGED <<window, sidecar>>

\* agentClose is tried; whether or not there was such a session, it is dropped here.
Closed(e) ==
  /\ e.kind = "close" /\ e.step = "close" /\ Go(e, "store")
  /\ sidecar' \in {sidecar, ClosedThere(e.agent)}
  /\ window' = [window EXCEPT !.listed = @ \ {e.agent}]

\* The settings as they were when this was begun, with this one agent changed.
Amend(e) ==
  CASE e.kind = "create" -> [e.copy EXCEPT ![e.agent] = IF @ = 0 THEN 1 ELSE @]
    [] e.kind = "close" -> [e.copy EXCEPT ![e.agent] = 0]
\* A failed write is passed over.
Stored(e) ==
  /\ e.kind \in {"create", "close"} /\ e.step = "store" /\ Done(e)
  /\ window' = [window EXCEPT !.settings = Amend(e)]
  /\ \E file \in {sidecar.file, Amend(e)} : sidecar' = [sidecar EXCEPT !.file = file]

Renewed(e) ==
  /\ e.kind = "renew"
  /\ CASE e.step = "abort" -> Go(e, "close") /\ UNCHANGED <<window, sidecar>>
       [] e.step = "close" -> Go(e, "create") /\ UNCHANGED window /\ sidecar' \in {sidecar, ClosedThere(e.agent)}
       [] OTHER -> /\ Done(e)
                   /\ \/ /\ e.agent \notin sidecar.open /\ sidecar' = Opened(e.agent)
                         /\ window' = [window EXCEPT !.broken = @ \ {e.agent}]
                      \* The failure is shown; the session stays listed.
                      \/ UNCHANGED sidecar /\ window' = [window EXCEPT !.broken = @ \cup {e.agent}]

SettingsSaved(e) ==
  /\ e.kind = "save" /\ e.step = "store" /\ UNCHANGED window
  /\ \/ sidecar' = [sidecar EXCEPT !.file = e.copy] /\ Go(e, "read")
     \/ Done(e) /\ UNCHANGED sidecar
\* A session that was listed when the saving began and whose agent was changed is opened anew.
SettingsRead(e) ==
  /\ e.kind = "save" /\ e.step = "read" /\ UNCHANGED sidecar
  /\ window' = [window EXCEPT !.settings = sidecar.file]
  /\ IF e.agent \in e.saw /\ sidecar.file[e.agent] # 0 THEN Go(e, "close") ELSE Done(e)

\* Mutant: a session that could not be opened again stays where it is.
ReopenedOrLeft(e) ==
  /\ e.kind = "save" /\ e.step \in {"close", "create"}
  /\ \/ /\ e.step = "close" /\ e.agent \in sidecar.open
        /\ sidecar' = ClosedThere(e.agent) /\ Go(e, "create") /\ UNCHANGED window
     \/ /\ e.step = "create" /\ e.agent \notin sidecar.open
        /\ sidecar' = Opened(e.agent) /\ Done(e) /\ UNCHANGED window
     \/ Done(e) /\ UNCHANGED <<window, sidecar>>

Reopened(e) ==
  /\ e.kind = "save" /\ e.step \in {"close", "create"}
  /\ \/ /\ e.step = "close" /\ e.agent \in sidecar.open
        /\ sidecar' = ClosedThere(e.agent) /\ Go(e, "create") /\ UNCHANGED window
     \/ /\ e.step = "create" /\ e.agent \notin sidecar.open
        /\ sidecar' = Opened(e.agent) /\ Done(e) /\ UNCHANGED window
     \* Either call failed: the session is opened by the next one who asks for it.
     \/ Done(e) /\ UNCHANGED sidecar /\ window' = [window EXCEPT !.listed = @ \ {e.agent}]

WindowNext ==
  \/ \E a \in WindowAgents :
       \/ CreateSession(a) \/ CloseSession(a) \/ StartNewConversation(a) \/ SaveSettings(a)
       \/ SendText(a) \/ AbortTurn(a) \/ TurnEnds(a) \/ EndReported(a)
  \/ \E e \in errands :
       \/ Sent(e) \/ Aborted(e) \/ Created(e) \/ Closed(e) \/ Stored(e) \/ Renewed(e)
       \/ SettingsSaved(e) \/ SettingsRead(e) \/ Reopened(e)

WindowSpec == WindowInit /\ [][WindowNext]_windowVars

-----------------------------------------------------------------------------
(* Once everything asked for has been done, a session the window lists is   *)
(* open in the sidecar, however creating, closing, renewing and saving      *)
(* overlapped and whichever call failed (App.tsx:495-546, 622-652).  Left   *)
(* out is a session whose renewal failed: the failure is shown, and it      *)
(* stays listed.                                                            *)
ListedIsOpen == errands = {} => window.listed \ window.broken \subseteq sidecar.open
=============================================================================
