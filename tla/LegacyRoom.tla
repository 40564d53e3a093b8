----------------------------- MODULE LegacyRoom -----------------------------
(***************************************************************************)
(* The agent page of the web desk (webdesk/web/src/apps/Agent.tsx): whether *)
(* the shared core or the old executor answers is asked first; with the old *)
(* one, a room in which each message needs its own consent, and a panel by  *)
(* which a provider is kept on the server, chosen and tried.                *)
(***************************************************************************)
EXTENDS Naturals, FiniteSets

CONSTANTS
  Providers,      \* the model providers of the server
  MaxSaid,        \* a bound on the messages
  MaxAsks,        \* a bound on the requests of the panel under way
  NoProvider      \* none is bound, or none is in the form

VARIABLES
  desk,    \* which room the page shows
  talk,    \* the conversation: draft, consent, and what was said
  panel,   \* the provider panel and its requests
  bound    \* on the server: the provider the executor uses

legacyVars == <<desk, talk, panel, bound>>

Asks == [kind : {"load", "save", "activate"}, of : Providers \cup {NoProvider}, done : BOOLEAN, says : Providers \cup {NoProvider}]

LegacyRoomTypeOK ==
  /\ desk \in {"asking", "failed", "core", "legacy", "off"}
  /\ talk \in [ready : BOOLEAN, draft : BOOLEAN, consent : BOOLEAN, busy : BOOLEAN, testing : BOOLEAN, agreed : 0..MaxSaid,
               said : 0..MaxSaid, heard : 0..MaxSaid]
  /\ panel \in [open : BOOLEAN, active : Providers \cup {NoProvider}, form : Providers \cup {NoProvider}, key : BOOLEAN,
                saving : BOOLEAN, activating : BOOLEAN, asks : SUBSET Asks]
  /\ bound \in Providers \cup {NoProvider}

LegacyRoomInit ==
  /\ desk = "asking" /\ bound \in Providers \cup {NoProvider}
  /\ talk = [ready |-> FALSE, draft |-> FALSE, consent |-> FALSE, busy |-> FALSE, testing |-> FALSE, agreed |-> 0, said |-> 0, heard |-> 0]
  /\ panel = [open |-> FALSE, active |-> NoProvider, form |-> NoProvider, key |-> FALSE, saving |-> FALSE, activating |-> FALSE, asks |-> {}]

\* An error, or no core, is asked about again; there is no falling back by itself.
ConfigAnswered(state) == desk = "asking" /\ desk' = state /\ UNCHANGED <<talk, panel, bound>>
ProbeAgain == desk \in {"failed", "off"} /\ desk' = "asking" /\ UNCHANGED <<talk, panel, bound>>

InRoom == desk = "legacy" /\ UNCHANGED desk
StatusAnswered(ready) == InRoom /\ talk' = [talk EXCEPT !.ready = ready] /\ UNCHANGED <<panel, bound>>

\* Typing, speech, a clue and a prompt fill the draft only.
Fill == InRoom /\ talk' = [talk EXCEPT !.draft = TRUE] /\ UNCHANGED <<panel, bound>>
Agree(ticked) ==
  /\ InRoom /\ talk.consent # ticked /\ (ticked => talk.agreed < MaxSaid) /\ UNCHANGED <<panel, bound>>
  /\ talk' = [talk EXCEPT !.consent = ticked, !.agreed = IF ticked THEN @ + 1 ELSE @]

\* Mutant: the consent stands until it is taken back.
SendAndKeepConsent ==
  /\ InRoom /\ talk.draft /\ ~talk.busy /\ talk.consent /\ talk.ready /\ talk.said < MaxSaid /\ UNCHANGED <<panel, bound>>
  /\ talk' = [talk EXCEPT !.said = @ + 1, !.draft = FALSE, !.busy = TRUE]

Send ==
  /\ InRoom /\ talk.draft /\ ~talk.busy /\ talk.consent /\ talk.ready /\ talk.said < MaxSaid /\ UNCHANGED <<panel, bound>>
  /\ talk' = [talk EXCEPT !.said = @ + 1, !.draft = FALSE, !.consent = FALSE, !.busy = TRUE]
\* A reply, or an error in its place.
Replied == InRoom /\ talk.busy /\ talk' = [talk EXCEPT !.heard = @ + 1, !.busy = FALSE] /\ UNCHANGED <<panel, bound>>

\* A message to try the provider needs no consent; it is not part of the talk.
TestProvider == InRoom /\ panel.open /\ ~talk.testing /\ talk' = [talk EXCEPT !.testing = TRUE] /\ UNCHANGED <<panel, bound>>
Tested == InRoom /\ talk.testing /\ talk' = [talk EXCEPT !.testing = FALSE] /\ UNCHANGED <<panel, bound>>

Asking(p, kind, of) ==
  [p EXCEPT !.asks = @ \cup {[kind |-> kind, of |-> of, done |-> FALSE, says |-> NoProvider]}]

OpenPanel ==
  /\ InRoom /\ Cardinality(panel.asks) < MaxAsks /\ UNCHANGED <<talk, bound>>
  /\ panel' = Asking([panel EXCEPT !.open = TRUE, !.asks = {a \in @ : a.kind # "load"}], "load", NoProvider)
\* Escape, or a click beside: a list under way is ignored; the form stays as it is.
ClosePanel ==
  /\ InRoom /\ panel.open /\ UNCHANGED <<talk, bound>>
  /\ panel' = [panel EXCEPT !.open = FALSE, !.asks = {a \in @ : a.kind # "load"}]

EditProvider(p) == InRoom /\ panel.open /\ panel' = [panel EXCEPT !.form = p, !.key = FALSE] /\ UNCHANGED <<talk, bound>>
TypeKey == InRoom /\ panel.open /\ panel.form # NoProvider /\ panel' = [panel EXCEPT !.key = TRUE] /\ UNCHANGED <<talk, bound>>
CancelForm == InRoom /\ panel.open /\ panel' = [panel EXCEPT !.form = NoProvider, !.key = FALSE] /\ UNCHANGED <<talk, bound>>

SaveProvider ==
  /\ InRoom /\ panel.open /\ panel.form # NoProvider /\ ~panel.saving /\ Cardinality(panel.asks) < MaxAsks
  /\ panel' = [Asking(panel, "save", panel.form) EXCEPT !.saving = TRUE] /\ UNCHANGED <<talk, bound>>
ActivateProvider(p) ==
  /\ InRoom /\ panel.open /\ ~panel.activating /\ p # panel.active /\ Cardinality(panel.asks) < MaxAsks
  /\ panel' = [Asking(panel, "activate", p) EXCEPT !.activating = TRUE] /\ UNCHANGED <<talk, bound>>

\* The server does it and restarts the executor; it says which provider is bound.
ServerDoes(a) ==
  /\ a \in panel.asks /\ ~a.done /\ UNCHANGED <<desk, talk>>
  /\ bound' = IF a.kind = "load" THEN bound ELSE a.of
  /\ panel' = [panel EXCEPT !.asks = (@ \ {a}) \cup {[a EXCEPT !.done = TRUE, !.says = bound']}]

\* What was asked for is over, whichever form is shown by now; an error may hide that it was done.
AskEnds(a, p) ==
  [p EXCEPT !.asks = @ \ {a}, !.saving = @ /\ a.kind # "save", !.activating = @ /\ a.kind # "activate"]
AskAnswered(a) ==
  /\ InRoom /\ a \in panel.asks /\ UNCHANGED <<talk, bound>>
  /\ \/ panel' = AskEnds(a, panel)
     \/ /\ a.done
        /\ panel' = IF a.kind # "save" THEN [AskEnds(a, panel) EXCEPT !.active = a.says]
                    ELSE [AskEnds(a, panel) EXCEPT !.active = a.says, !.form = NoProvider, !.key = FALSE]

LegacyRoomNext ==
  \/ \E state \in {"failed", "core", "legacy", "off"} : ConfigAnswered(state)
  \/ \E on \in BOOLEAN : StatusAnswered(on) \/ Agree(on)
  \/ \E p \in Providers : EditProvider(p) \/ ActivateProvider(p)
  \/ \E a \in Asks : ServerDoes(a) \/ AskAnswered(a)
  \/ ProbeAgain \/ Fill \/ Send \/ Replied \/ TestProvider \/ Tested \/ OpenPanel \/ ClosePanel \/ TypeKey \/ CancelForm
  \/ SaveProvider

LegacyRoomSpec == LegacyRoomInit /\ [][LegacyRoomNext]_legacyVars

-----------------------------------------------------------------------------
(* Every message to the model had a consent of its own; every message but   *)
(* the one under way has its answer; and no key stays behind in a form that *)
(* is not shown, whichever answer closed it (Agent.tsx:236-262, 284-304).   *)
ConsentPerMessage ==
  /\ talk.said + (IF talk.consent THEN 1 ELSE 0) <= talk.agreed
  /\ talk.said = talk.heard + (IF talk.busy THEN 1 ELSE 0)
  /\ panel.key => panel.form # NoProvider
=============================================================================
