------------------------------- MODULE Butler -------------------------------
(***************************************************************************)
(* The demonstration of the mobile companion: ButlerStore acts out jobs    *)
(* with timers of its own (mobile/src/lib/store.ts).  Tidying and the      *)
(* repair package are jobs of several steps; the lamp is told a value and  *)
(* read back, unless the read-back is lost on purpose.                     *)
(***************************************************************************)
EXTENDS Naturals, Sequences, FiniteSets

CONSTANT MaxDemoTasks   \* a bound on the tasks of a demonstration

VARIABLES
  butler,   \* what the page shows, and the lamp
  timers    \* the timers running: the task each is for, and what it does

butlerVars == <<butler, timers>>

DemoTasks == 1..MaxDemoTasks
Levels == {25, 65}        \* of the lamp: dimmed or not; it starts at 42
DemoKinds == {"organize", "repair", "light"}
DemoTask == [kind : DemoKinds, status : {"running", "waiting", "done", "unknown", "cancelled"}]
TimerRecords == [task : DemoTasks, does : {"step", "last", "package", "lamp"}, value : Levels \cup {0}]

ButlerTypeOK ==
  /\ butler \in [tasks : Seq(DemoTask), light : Levels \cup {42}, actual : Levels \cup {42},
                 lightUnknown : BOOLEAN, empty : BOOLEAN, failure : BOOLEAN]
  /\ timers \subseteq TimerRecords

FreshButler(failure) ==
  [tasks |-> << >>, light |-> 42, actual |-> 42, lightUnknown |-> FALSE, empty |-> FALSE, failure |-> failure]
ButlerInit == butler = FreshButler(FALSE) /\ timers = {}

\* The task of this kind that is being done or waits for the user.
Active(kind) ==
  {i \in DOMAIN butler.tasks : butler.tasks[i].kind = kind /\ butler.tasks[i].status \in {"running", "waiting"}}
Patch(i, status) == [butler EXCEPT !.tasks[i].status = status]

-----------------------------------------------------------------------------
\* A job that is under way is not started again, nor one with nothing to work on.
DemoJob(kind) ==
  /\ Active(kind) = {} /\ ~butler.empty /\ Len(butler.tasks) < MaxDemoTasks
  /\ butler' = [butler EXCEPT !.tasks = Append(@, [kind |-> kind, status |-> "running"])]
  /\ timers' = timers \cup {[task |-> Len(butler.tasks) + 1, does |-> d, value |-> 0] : d \in {"step", "last"}}

\* Mutant: asked again, although what the lamp did is not known.
AdjustAgain(value) ==
  LET new == Len(butler.tasks) + 1 IN
  /\ Active("light") = {} /\ new <= MaxDemoTasks
  /\ butler' = [butler EXCEPT !.tasks = Append(@, [kind |-> "light", status |-> "running"])]
  /\ timers' = timers \cup {[task |-> new, does |-> "lamp", value |-> value]}

\* The lamp is not told again while it is being told, or while what it did is not known.
AdjustLight(value) ==
  LET new == Len(butler.tasks) + 1 IN
  /\ ~butler.lightUnknown /\ Active("light") = {} /\ new <= MaxDemoTasks
  /\ butler' = [butler EXCEPT !.tasks = Append(@, [kind |-> "light", status |-> "running"])]
  /\ timers' = timers \cup {[task |-> new, does |-> "lamp", value |-> value]}

ConfirmDate(i) ==
  /\ i \in DOMAIN butler.tasks /\ butler.tasks[i].status = "waiting"
  /\ butler' = Patch(i, "running") /\ timers' = timers \cup {[task |-> i, does |-> "package", value |-> 0]}

LightAnswered(t) ==
  IF butler.failure
    THEN [Patch(t.task, "unknown") EXCEPT !.actual = t.value, !.lightUnknown = TRUE]
    ELSE [Patch(t.task, "done") EXCEPT !.actual = t.value, !.light = t.value]

\* A timer acts only while its task is being done.  The steps of a job come in order.
TimerFires(t) ==
  /\ t.does = "last" => \A u \in timers : u.task = t.task => u.does # "step"
  /\ timers' = timers \ {t}
  /\ butler' =
       IF butler.tasks[t.task].status # "running" THEN butler
       ELSE CASE t.does = "step" -> butler
              [] t.does = "last" -> Patch(t.task, IF butler.tasks[t.task].kind = "repair" THEN "waiting" ELSE "done")
              [] t.does = "package" -> Patch(t.task, "done")
              [] t.does = "lamp" -> LightAnswered(t)

\* Reading the lamp back settles what was not known; nothing is told again.
RecheckLight ==
  /\ butler.lightUnknown /\ ~butler.failure
  /\ butler' = [butler EXCEPT !.light = butler.actual, !.lightUnknown = FALSE,
                              !.tasks = [i \in DOMAIN @ |-> IF @[i].kind = "light" /\ @[i].status = "unknown"
                                                            THEN [@[i] EXCEPT !.status = "done"] ELSE @[i]]]
  /\ UNCHANGED timers

CancelTask(i) ==
  /\ i \in DOMAIN butler.tasks /\ butler.tasks[i].status \in {"running", "waiting"}
  /\ butler' = Patch(i, "cancelled") /\ UNCHANGED timers

\* The library is emptied: what was under way is called off.
SetDemoEmpty ==
  /\ UNCHANGED timers
  /\ butler' = [butler EXCEPT !.empty = TRUE,
                              !.tasks = [i \in DOMAIN @ |-> IF @[i].status \in {"running", "waiting"}
                                                            THEN [@[i] EXCEPT !.status = "cancelled"] ELSE @[i]]]
ToggleFailure == butler' = [butler EXCEPT !.failure = ~@] /\ UNCHANGED timers
\* clear: no timer of before survives.
ClearButler == butler' = FreshButler(butler.failure) /\ timers' = {}

ButlerNext ==
  \/ \E k \in {"organize", "repair"} : DemoJob(k)
  \/ \E v \in Levels : AdjustLight(v)
  \/ \E i \in DemoTasks : ConfirmDate(i) \/ CancelTask(i)
  \/ \E t \in timers : TimerFires(t)
  \/ RecheckLight \/ SetDemoEmpty \/ ToggleFailure \/ ClearButler

ButlerSpec == ButlerInit /\ [][ButlerNext]_butlerVars

-----------------------------------------------------------------------------
(* A value the page shows for the lamp is the lamp's own, whatever was      *)
(* called off or lost; when it is not known, the order that was lost is     *)
(* still listed as such, and none followed it (store.ts:277-339).           *)
LampAsShown ==
  IF butler.lightUnknown
    THEN /\ Active("light") = {}
         /\ \E i \in DOMAIN butler.tasks : butler.tasks[i] = [kind |-> "light", status |-> "unknown"]
    ELSE butler.light = butler.actual
=============================================================================
