---------------------------- MODULE Conversations ----------------------------
(***************************************************************************)
(* The conversations of an agent in the main window: the one that is going  *)
(* on, those put away, and where these are kept (App.tsx, OfficeView.tsx).  *)
(* The page's history is copied to the browser's storage at once and to the *)
(* workspace 800 ms after the last change; on a start it is read back from  *)
(* the workspace, or else from the browser.  A conversation is its number.  *)
(* One agent is looked at: the others have files of their own.              *)
(***************************************************************************)
EXTENDS Naturals, Sequences, FiniteSets

CONSTANTS
  KeptTalks,      \* conversations kept of an agent (30)
  MaxTalks,       \* a bound on the conversations put away
  MaxStarts       \* a bound on crashes and changes of the workspace

VARIABLES
  talkPage, \* the page: its history, the talk, what is shown, the writer
  kept,     \* the browser's storage, the workspace's file, writes under way
  count     \* conversations so far, starts so far

conversationVars == <<talkPage, kept, count>>

Talks == 1..MaxTalks
NoSnapshot == {0}
Histories == {h \in SUBSET Talks : Cardinality(h) <= KeptTalks}

ConversationsTypeOK ==
  /\ talkPage \in [history : Histories, last : Histories \cup {NoSnapshot}, timer : BOOLEAN, restore : {"no", "reading", "read", "done"},
                 local : Histories, read : Histories \cup {NoSnapshot}, root : BOOLEAN, shown : {0} \cup Talks,
                 talk : BOOLEAN, running : BOOLEAN, settled : BOOLEAN]
  /\ kept \in [browser : Histories, root : BOOLEAN, file : Histories, writes : Seq(Histories)]
  /\ count \in [talks : 0..MaxTalks, starts : 0..MaxStarts]

Fresh(history) ==
  [history |-> history, last |-> NoSnapshot, timer |-> TRUE, restore |-> "no", local |-> {}, read |-> NoSnapshot, root |-> FALSE,
   shown |-> 0, talk |-> FALSE, running |-> FALSE, settled |-> TRUE]

\* The workspace, once one was chosen, has what the browser has, or nothing: another computer, or a
\* storage that was cleared.
ConversationsInit ==
  /\ kept \in [browser : {{}, {1}}, root : BOOLEAN, file : {{}, {1}}, writes : {<<>>}] /\ count = [talks |-> 1, starts |-> 0]
  /\ talkPage = Fresh(kept.browser)

-----------------------------------------------------------------------------
(* The history and where it is kept. *)

\* Every change is copied at once, as far as the browser's quota allows, and starts the delay anew.
Changed(w, history) ==
  \E stored \in BOOLEAN :
    /\ talkPage' = [w EXCEPT !.history = history, !.timer = TRUE, !.settled = @ /\ stored]
    /\ kept' = [kept EXCEPT !.browser = IF stored THEN history ELSE @]

\* An empty history is not written, nor one that was written before.  A change is
\* marked as written when its write begins; when that fails nothing is told.
TimerFires ==
  /\ talkPage.timer /\ UNCHANGED count
  /\ LET writes == talkPage.history # {} /\ talkPage.history # talkPage.last
     IN  /\ kept' = IF writes THEN [kept EXCEPT !.writes = Append(@, talkPage.history)] ELSE kept
         /\ talkPage' = [talkPage EXCEPT !.timer = FALSE, !.last = IF writes THEN talkPage.history ELSE @,
                       !.settled = @ /\ ~(writes /\ talkPage.restore = "read")]

\* The host takes one call after the other, and fails without a workspace.
WriteDone(ok) ==
  /\ kept.writes # <<>> /\ (ok => kept.root) /\ UNCHANGED count
  /\ kept' = [kept EXCEPT !.writes = Tail(@), !.file = IF ok THEN Head(kept.writes) ELSE @]
  /\ talkPage' = [talkPage EXCEPT !.settled = @ /\ ok]

\* What the browser has is read when the restore begins, right after the workspace was asked for.
RestoreBegins ==
  /\ talkPage.restore = "no" /\ UNCHANGED <<kept, count>>
  /\ \E known \in {FALSE, kept.root} :
       talkPage' = [talkPage EXCEPT !.restore = "reading", !.local = kept.browser, !.root = known]
\* A file that is not there is no error, but counts as little: both leave the page to the browser's copy.
RestoreReads(ok) ==
  /\ talkPage.restore = "reading" /\ (ok => kept.root) /\ UNCHANGED <<kept, count>>
  /\ talkPage' = [talkPage EXCEPT !.restore = "read", !.read = IF ok /\ kept.file # {} THEN kept.file ELSE NoSnapshot, !.settled = @ /\ kept.writes = <<>>]

\* What came from the workspace is written already; what came from the browser is not.
Seeds == talkPage.read

\* The page is drawn only now, so nothing was put away in the meantime.
RestoreEnds ==
  /\ talkPage.restore = "read" /\ UNCHANGED count
  /\ LET restored == IF talkPage.read # NoSnapshot THEN talkPage.read ELSE talkPage.local
         done == [talkPage EXCEPT !.restore = "done", !.local = {}, !.read = NoSnapshot]
     IN  IF restored = {} THEN talkPage' = done /\ UNCHANGED kept
         ELSE Changed([done EXCEPT !.last = Seeds], restored)

\* An earlier step of the start fails: only a workspace can be picked then.
BootFails == talkPage.restore = "no" /\ talkPage' = [talkPage EXCEPT !.restore = "done"] /\ UNCHANGED <<kept, count>>

\* The page is gone; what it had begun to write is written or not.  The next one
\* begins with what the browser kept.
Crash ==
  /\ count.starts < MaxStarts /\ count' = [count EXCEPT !.starts = @ + 1]
  /\ \E n \in 0..Len(kept.writes) :
       kept' = [kept EXCEPT !.writes = <<>>, !.file = IF n = 0 THEN @ ELSE kept.writes[n]]
  /\ talkPage' = Fresh(kept.browser)

Drawn == talkPage.restore = "done" /\ talkPage.root

\* A workspace is chosen: its own history is not read, and a write under way may end in it.
PickRoot(file) ==
  /\ talkPage.restore = "done" /\ count.starts < MaxStarts /\ count' = [count EXCEPT !.starts = @ + 1]
  /\ kept' = [kept EXCEPT !.file = file, !.root = TRUE] /\ talkPage' = [talkPage EXCEPT !.root = TRUE, !.settled = FALSE]

-----------------------------------------------------------------------------
(* The panel of one agent. *)

\* A conversation is read only as long as the history still holds it.
ReadOnly == talkPage.shown \in talkPage.history

Submit ==
  /\ Drawn /\ ~ReadOnly /\ ~talkPage.running /\ UNCHANGED <<kept, count>>
  /\ talkPage' = [talkPage EXCEPT !.talk = TRUE, !.running = TRUE]

\* The events of a turn are drawn whenever they come: of one that the team began, that was told to
\* stop, or whose conversation was cleared.
TurnRuns == talkPage' = [talkPage EXCEPT !.running = TRUE] /\ UNCHANGED <<kept, count>>
TurnSpeaks == talkPage' = [talkPage EXCEPT !.talk = TRUE] /\ UNCHANGED <<kept, count>>
\* It is over; an error is part of the talk.  The person stops it; that it could not be stopped is, too.
TurnDone(failed) == talkPage' = [talkPage EXCEPT !.running = FALSE, !.talk = @ \/ failed] /\ UNCHANGED <<kept, count>>
Abort(failed) == Drawn /\ TurnDone(failed)
\* A session that is closed takes its talk with it, which is not put away.
SessionCloses == Drawn /\ talkPage' = [talkPage EXCEPT !.talk = FALSE] /\ UNCHANGED <<kept, count>>

ViewHistory(t) ==
  Drawn /\ t \in talkPage.history \cup {0} /\ talkPage' = [talkPage EXCEPT !.shown = t] /\ UNCHANGED <<kept, count>>
\* Coming to the agent, its last conversation is shown, not the one that goes on.
EnterPanel ==
  /\ Drawn /\ UNCHANGED <<kept, count>>
  /\ \E t \in {0} \cup talkPage.history : (\A h \in talkPage.history : h <= t) /\ talkPage' = [talkPage EXCEPT !.shown = t]

LastOnes(history) == {t \in history : Cardinality({u \in history : u > t}) < KeptTalks}

\* The talk is cleared before the turn that may still go on is told to stop; an agent whose
\* settings are incomplete keeps it, to be put away again.
NewConversation(w, complete) == [w EXCEPT !.talk = @ /\ ~complete, !.running = @ /\ ~complete]

\* The talk is put away and cleared in one go.
CreateConversation(complete) ==
  /\ Drawn /\ (talkPage.talk => count.talks < MaxTalks)
  /\ LET w == NewConversation([talkPage EXCEPT !.shown = 0], complete)
     IN  IF talkPage.talk
         THEN /\ Changed(w, LastOnes(talkPage.history \cup {count.talks + 1}))
              /\ count' = [count EXCEPT !.talks = @ + 1]
         ELSE talkPage' = w /\ UNCHANGED <<kept, count>>

ConversationsNext ==
  \/ \E ok \in BOOLEAN : WriteDone(ok) \/ RestoreReads(ok) \/ CreateConversation(ok) \/ TurnDone(ok) \/ Abort(ok)
  \/ \E file \in {{}, {1}} : PickRoot(file)
  \/ \E t \in {0} \cup Talks : ViewHistory(t)
  \/ TimerFires \/ RestoreBegins \/ RestoreEnds \/ BootFails \/ Crash \/ Submit \/ TurnRuns \/ TurnSpeaks \/ SessionCloses \/ EnterPanel

ConversationsSpec == ConversationsInit /\ [][ConversationsNext]_conversationVars

-----------------------------------------------------------------------------
(* Once the history was restored, no write was begun while it was read and  *)
(* none has failed, the workspace is not another one, and nothing is under  *)
(* way, the workspace's file, the browser's copy and the page agree         *)
(* (App.tsx:172-249).                                                      *)
KeptAsShown ==
  talkPage.settled /\ talkPage.restore = "done" /\ ~talkPage.timer /\ kept.writes = <<>> =>
    talkPage.history = kept.browser /\ talkPage.history \in {kept.file, {}}
=============================================================================
