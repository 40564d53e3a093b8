------------------------------ MODULE Desktop ------------------------------
(***************************************************************************)
(* The web desk's desktop (webdesk/web/src/desktop): the stack of app      *)
(* windows, the poll of the performance series for the chosen span, and    *)
(* the small performance window the user drags, kept in localStorage.      *)
(* Points are on one axis; point 0 lies on the rail of shortcuts.          *)
(***************************************************************************)
EXTENDS Naturals, Sequences, Functions

CONSTANTS
  Apps,      \* the apps, "performance" may be among them
  Spans,     \* the spans of the series
  NoSpan,
  MaxPoint   \* the right edge of the widest stage

VARIABLES
  shell,   \* windows in their order, the minimized ones, the span chosen, the series shown, and whether one came since the choice
  polls,   \* requests for a series, and whether their effect is still live
  float,   \* the small window: positionRef, position, the drag and its frame
  storage  \* localStorage, whether a write failed, and the stage's edge

desktopVars == <<shell, polls, float, storage>>

PointsX == 0..MaxPoint
NoPoint == MaxPoint + 1

DesktopTypeOK ==
  /\ shell \in [stack : Seq(Apps), low : SUBSET Apps, mini : BOOLEAN,
                span : Spans, shown : Spans \cup {NoSpan}, fresh : BOOLEAN]
  /\ IsInjective(shell.stack) /\ shell.low \subseteq Range(shell.stack)
  /\ polls \subseteq [span : Spans, live : BOOLEAN]
  /\ float \in [up : {"gone", "mounted", "placed", "watched"}, at : PointsX, set : PointsX,
                drag : BOOLEAN, pending : PointsX \cup {NoPoint}, frame : BOOLEAN]
  /\ storage \in [point : PointsX \cup {NoPoint}, lost : BOOLEAN, edge : PointsX \ {0}]

Mounted == [up |-> "mounted", at |-> 0, set |-> 0, drag |-> FALSE, pending |-> NoPoint, frame |-> FALSE]

DesktopInit ==
  /\ shell \in [stack : {<<>>}, low : {{}}, mini : {TRUE}, span : Spans, shown : {NoSpan}, fresh : {FALSE}]
  /\ polls = {[span |-> shell.span, live |-> TRUE]}
  /\ float = Mounted
  /\ storage \in [point : PointsX \cup {NoPoint}, lost : {FALSE}, edge : {MaxPoint}]

-----------------------------------------------------------------------------
(* The app windows.  The small window is there while it is wanted and the  *)
(* performance app is not on the stage.                                    *)

MiniShown(s) == s.mini /\ ("performance" \in Range(s.stack) => "performance" \in s.low)

Staged(s) ==
  /\ shell' = s
  /\ float' = IF ~MiniShown(s) THEN [Mounted EXCEPT !.up = "gone"]
              ELSE IF float.up = "gone" THEN Mounted ELSE float
  /\ UNCHANGED <<polls, storage>>

\* Mutant: the window is put on top without being taken out of its place.
OnTopTwice(app) == Append(shell.stack, app)

\* An app has one window: filtered out, it leaves its place.
Without(app) ==
  LET s == shell.stack
      i == CHOOSE j \in DOMAIN s : s[j] = app
  IN  IF app \in Range(s) THEN SubSeq(s, 1, i - 1) \o SubSeq(s, i + 1, Len(s)) ELSE s

OnTop(app) == Append(Without(app), app)

\* Opened or brought back; whether it is maximized is left out.
Open(app) == [shell EXCEPT !.stack = OnTop(app), !.low = @ \ {app}]

OpenApp == \E app \in Apps : Staged(Open(app))
VisibleWindow(app) == app \in Range(shell.stack) \ shell.low
Minimize(app) == VisibleWindow(app) /\ Staged([shell EXCEPT !.low = @ \cup {app}])
Close(app) == VisibleWindow(app) /\ Staged([shell EXCEPT !.stack = Without(app), !.low = @ \ {app}])
Focus(app) == VisibleWindow(app) /\ Staged([shell EXCEPT !.stack = OnTop(app)])
GoHome == Staged([shell EXCEPT !.low = Range(shell.stack)])
HideMonitor == MiniShown(shell) /\ Staged([shell EXCEPT !.mini = FALSE])
ShowMonitor ==
  Staged([(IF "performance" \in Range(shell.stack) THEN Open("performance") ELSE shell) EXCEPT !.mini = TRUE])

-----------------------------------------------------------------------------
(* The series: polled at once when a span is chosen and every two seconds. *)

ChooseSpan(s) ==
  /\ s # shell.span
  /\ shell' = [shell EXCEPT !.span = s, !.fresh = FALSE]
  /\ polls' = {[p EXCEPT !.live = FALSE] : p \in polls} \cup {[span |-> s, live |-> TRUE]}
  /\ UNCHANGED <<float, storage>>

SeriesTick == polls' = polls \cup {[span |-> shell.span, live |-> TRUE]} /\ UNCHANGED <<shell, float, storage>>

\* Mutant: an answer counts although its span was left.
SeriesAnsweredLate(p) ==
  /\ p \in polls /\ polls' = polls \ {p}
  /\ shell' \in {shell, [shell EXCEPT !.shown = p.span, !.fresh = TRUE]}
  /\ UNCHANGED <<float, storage>>

\* A failed poll is left to the next tick.
SeriesAnswered(p) ==
  /\ p \in polls /\ polls' = polls \ {p}
  /\ shell' \in {shell} \cup (IF p.live THEN {[shell EXCEPT !.shown = p.span, !.fresh = TRUE]} ELSE {})
  /\ UNCHANGED <<float, storage>>

-----------------------------------------------------------------------------
(* The small window.                                                       *)

Clamp(x) == IF x > storage.edge THEN storage.edge ELSE x

\* Every write to localStorage may fail and is then forgotten.
Saved(x) == storage' \in {[storage EXCEPT !.point = x, !.lost = FALSE], [storage EXCEPT !.lost = TRUE]}

Placed(x) == [float EXCEPT !.at = x, !.set = x]

\* The saved place, unless it covers the shortcuts of a wide stage.
Initialize ==
  /\ float.up = "mounted"
  /\ LET covers == storage.edge = MaxPoint /\ storage.point = 0
         initial == IF storage.point = NoPoint \/ covers THEN storage.edge ELSE Clamp(storage.point)
     IN /\ float' = [Placed(initial) EXCEPT !.up = "placed"]
        /\ IF covers THEN Saved(initial) ELSE UNCHANGED storage
  /\ UNCHANGED <<shell, polls>>

OnStage == float.up \in {"placed", "watched"}

\* The stage's size; the resize handler follows as a callback of its own.
StageResized == \E edge \in PointsX \ {0} : storage' = [storage EXCEPT !.edge = edge] /\ UNCHANGED <<shell, polls, float>>

OnResize ==
  /\ OnStage
  /\ float' = [Placed(Clamp(float.at)) EXCEPT !.up = "watched"]
  /\ Saved(Clamp(float.at)) /\ UNCHANGED <<shell, polls>>

DragBegins == OnStage /\ float' = [float EXCEPT !.drag = TRUE] /\ UNCHANGED <<shell, polls, storage>>

PointerMove(x) ==
  /\ float.drag /\ float' = [float EXCEPT !.pending = Clamp(x), !.frame = TRUE] /\ UNCHANGED <<shell, polls, storage>>

FramePaints ==
  /\ float.frame
  /\ float' = [float EXCEPT !.frame = FALSE, !.at = IF float.pending = NoPoint THEN @ ELSE float.pending]
  /\ UNCHANGED <<shell, polls, storage>>

FinalPoint == IF float.pending = NoPoint THEN float.at ELSE float.pending

\* Mutant: the frame that is due is not cancelled.
FinishDragOnly ==
  /\ float.drag
  /\ float' = [Placed(FinalPoint) EXCEPT !.drag = FALSE]
  /\ Saved(FinalPoint) /\ UNCHANGED <<shell, polls>>

FinishDrag ==
  /\ float.drag
  /\ float' = [Placed(FinalPoint) EXCEPT !.drag = FALSE, !.pending = NoPoint, !.frame = FALSE]
  /\ Saved(FinalPoint) /\ UNCHANGED <<shell, polls>>

\* Alt and an arrow, also during a drag.
OnKeyDown(x) ==
  /\ OnStage /\ x \in {float.at + 1, float.at - 1} /\ float' = Placed(Clamp(x)) /\ Saved(Clamp(x)) /\ UNCHANGED <<shell, polls>>

DesktopNext ==
  \/ OpenApp \/ GoHome \/ HideMonitor \/ ShowMonitor
  \/ \E app \in Apps : Minimize(app) \/ Close(app) \/ Focus(app)
  \/ (\E s \in Spans : ChooseSpan(s)) \/ SeriesTick \/ (\E p \in polls : SeriesAnswered(p))
  \/ Initialize \/ StageResized \/ OnResize \/ DragBegins \/ FramePaints \/ FinishDrag
  \/ \E x \in PointsX : PointerMove(x) \/ OnKeyDown(x)

DesktopSpec == DesktopInit /\ [][DesktopNext]_desktopVars

-----------------------------------------------------------------------------
(* Once a series has come for the chosen span, none of an earlier choice   *)
(* replaces it, however late it is answered (DesktopShell.tsx:103-119).    *)
SeriesIsOfChoice == shell.fresh => shell.shown = shell.span

(* Out of a drag the small window is drawn where React holds it, and the   *)
(* place kept for the next visit is that one too, whatever resizes, frames *)
(* and keys met during drags (FloatingWindow.tsx:46-162).                  *)
DrawnWhereHeld ==
  /\ OnStage /\ ~float.drag => float.at = float.set
  /\ float.up = "watched" /\ ~float.drag /\ ~storage.lost => storage.point = float.set
=============================================================================
