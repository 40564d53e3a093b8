-------------------------------- MODULE Team --------------------------------
(***************************************************************************)
(* The in-process team orchestrator, sidecar/src/team.ts, together with    *)
(* the session manager it drives (module Sessions): agents hand work to    *)
(* one another, an idle target runs it as a turn of its own, and the       *)
(* result is reported back in a turn of the session that asked.            *)
(*                                                                         *)
(* Everything runs on Node's event loop.  An action is one callback; the   *)
(* continuations Node runs right after a promise resolves are a step of    *)
(* their own, and `resolved` keeps other callbacks out until they ran.     *)
(***************************************************************************)
EXTENDS Sessions, FiniteSets

CONSTANTS
  Texts,             \* what is asked: a kind (delegate, message) and a text
  Policies,          \* the delegation policies the user may save
  MaxDepth,          \* TEAM_LIMITS.maxDepth
  MaxOpenPerSource,  \* TEAM_LIMITS.maxOpenPerSource
  MaxOpenTotal,      \* TEAM_LIMITS.maxOpenTotal
  MaxHistory,        \* TEAM_LIMITS.maxHistory
  NoTask             \* tasks.get(id) is undefined

Ended  == {"done", "failed", "cancelled"}
Status == {"queued", "running"} \cup Ended

Task == [status : Status, from : Sessions, to : Sessions, text : Texts,
         depth : Nat, chain : Seq(Sessions), pending : BOOLEAN]

(* A result waiting to be reported; it outlives a task that was trimmed.   *)
Delivery == [task : TaskIds, sid : Sessions]

(* A policy is the set of <<from, to>> pairs that policyAllows accepts.    *)
Policy == SUBSET (Sessions \X Sessions)

Resolved == [key : RunKeys, sid : Sessions, ok : BOOLEAN]

ASSUME TeamAssumption ==
  /\ Policies \subseteq Policy
  /\ Policies # {}
  /\ {MaxDepth, MaxOpenPerSource, MaxOpenTotal} \subseteq Nat
  /\ MaxHistory \in Nat \ {0}
  /\ NoTask \notin Task
  /\ NoRun \notin Resolved

VARIABLES
  tasks,       \* the task table
  issued,      \* task ids handed out so far
  mapOrder,    \* <<a, b>>: a comes before b when the table is iterated
  deliveries,  \* results waiting for their session to be idle
  queueOrder,  \* <<a, b>>: the delivery of a is ahead of that of b
  reserved,    \* sessions a team turn was started on and not finished
  cancelRequested, \* running tasks whose turn is being stopped
  policy,      \* who may delegate to whom
  restored,    \* the stored queue has been loaded
  idleKick,    \* a setTimeout(kick, 0) is outstanding
  resolved     \* the run whose continuations are about to execute

teamVars == <<tasks, issued, mapOrder, deliveries, queueOrder, reserved,
              cancelRequested, policy, restored, idleKick, resolved>>
vars == <<sessionVars, teamVars>>

TypeOK ==
  /\ SessionsTypeOK
  /\ tasks \in [TaskIds -> Task \cup {NoTask}]
  /\ issued \subseteq TaskIds
  /\ mapOrder \subseteq TaskIds \X TaskIds
  /\ deliveries \subseteq Delivery
  /\ queueOrder \subseteq TaskIds \X TaskIds
  /\ reserved \subseteq Sessions
  /\ cancelRequested \subseteq TaskIds
  /\ policy \in Policy
  /\ restored \in BOOLEAN
  /\ idleKick \in BOOLEAN
  /\ resolved \in Resolved \cup {NoRun}

Init ==
  /\ SessionsInit
  /\ tasks = [t \in TaskIds |-> NoTask]
  /\ issued = {}
  /\ mapOrder = {}
  /\ deliveries = {}
  /\ queueOrder = {}
  /\ reserved = {}
  /\ cancelRequested = {}
  /\ policy \in Policies
  /\ restored = FALSE
  /\ idleKick = FALSE
  /\ resolved = NoRun

-----------------------------------------------------------------------------
(* The task table T and its orders.                                        *)

Present(T, t) == T[t] # NoTask
Is(T, t, S)   == Present(T, t) /\ T[t].status \in S
Open(T)       == {t \in TaskIds : Is(T, t, {"queued", "running"})}
Over(T)       == {t \in TaskIds : Is(T, t, Ended)}

(* Order S with the elements of N appended, those in the order R gives.    *)
Behind(order, S, N, R) ==
  order \cup {p \in S \X N : p[1] # p[2]} \cup {p \in R : p[1] \in N /\ p[2] \in N}

(* The first element of W in the given order (which is total on W; the     *)
(* fallback only keeps the choice defined for any relation).               *)
First(W, order) ==
  LET earliest == {w \in W : \A v \in W : <<v, w>> \notin order}
  IN  CHOOSE w \in (IF earliest = {} THEN W ELSE earliest) : TRUE

(* trim: how the tasks over the history limit may be chosen.  The oldest   *)
(* go, by a wall-clock stamp that may tie or step back, so the model only  *)
(* knows that the task which has just ended is the newest.                 *)
Trimmings(T, newest) ==
  LET excess == Cardinality(Over(T)) - MaxHistory
  IN  IF Cardinality(Over(T)) <= MaxHistory THEN {{}}
      ELSE {G \in SUBSET (Over(T) \ newest) : Cardinality(G) = excess}

Without(T, G) == [t \in TaskIds |-> IF t \in G THEN NoTask ELSE T[t]]

Moved(T, t, status) == [T EXCEPT ![t].status = status]

-----------------------------------------------------------------------------
(* kick, with requeueDeliveries and startDeliveries: give every idle       *)
(* session that is not reserved its next result or, if none waits, its     *)
(* next task.  T, D, Q, R are the tables as the calling code left them.    *)

(* Results owed to a session that was away or whose delivery was dropped.  *)
Owed(T, D) ==
  {t \in Over(T) : T[t].pending /\ T[t].from \in live
                   /\ \A d \in D : d.task # t}

DeliveryOf(T, t) == [task |-> t, sid |-> T[t].from]

QueuedFor(T, s) == {t \in TaskIds : Is(T, t, {"queued"}) /\ T[t].to = s}

ResultsFor(D, s) == {d.task : d \in {d \in D : d.sid = s}}

(* Mutant: a reserved session counts as free.                              *)
FreeIfIdle(s, R) == s \in live /\ ~IsBusy(s)

Free(s, R) == s \in live /\ s \notin R /\ ~IsBusy(s)

(* The run that starts on a free session.                                  *)
NextRun(T, D, Q, s) ==
  IF ResultsFor(D, s) # {} THEN <<"result", First(ResultsFor(D, s), Q)>>
                           ELSE <<"task", First(QueuedFor(T, s), mapOrder')>>

(* The origins delegate and message are treated alike: only a result turn  *)
(* is told apart.                                                          *)
TaskTurn(T, t) ==
  [origin |-> "delegate", depth |-> T[t].depth, chain |-> T[t].chain]

ResultTurn(T, t, s) ==
  IF Present(T, t)
  THEN [origin |-> "result", depth |-> T[t].depth, chain |-> T[t].chain]
  ELSE [origin |-> "result", depth |-> MaxDepth, chain |-> <<s>>]

TurnOf(T, k, s) ==
  IF k[1] = "task" THEN TaskTurn(T, k[2]) ELSE ResultTurn(T, k[2], s)

(* Mutant: results do not start a turn.                                    *)
ReadyForTasks(T, D, R) == {s \in Sessions : Free(s, R) /\ QueuedFor(T, s) # {}}

(* The sessions that can begin something.                                  *)
Ready(T, D, R) ==
  {s \in Sessions : Free(s, R) /\ ResultsFor(D, s) \cup QueuedFor(T, s) # {}}

Begun(next) == {next[s] : s \in DOMAIN next}

Among(order, D) == {p \in order : \A i \in {1, 2} : \E d \in D : d.task = p[i]}

(* Mutant: telling one result clears the mark of every result of its       *)
(* session.                                                                *)
StartedForgetsOthers(T, next) ==
  [t \in TaskIds |->
     IF <<"task", t>> \in Begun(next) THEN [T[t] EXCEPT !.status = "running"]
     ELSE IF Present(T, t) /\ \E s \in DOMAIN next : next[s][1] = "result" /\ T[t].from = s
          THEN [T[t] EXCEPT !.pending = FALSE]
          ELSE T[t]]

(* Mutant: a result stays owed while it is told.                           *)
StartedStillOwed(T, next) ==
  [t \in TaskIds |-> IF <<"task", t>> \in Begun(next)
                     THEN [T[t] EXCEPT !.status = "running"] ELSE T[t]]

(* The task table once the runs next[s] have begun: a task that starts is  *)
(* running, a result that is being told is no longer owed.                 *)
Started(T, next) ==
  [t \in TaskIds |->
     IF <<"task", t>> \in Begun(next) THEN [T[t] EXCEPT !.status = "running"]
     ELSE IF <<"result", t>> \in Begun(next) /\ Present(T, t)
          THEN [T[t] EXCEPT !.pending = FALSE]
          ELSE T[t]]

(* Run next[s] begins on each session s of its domain.                     *)
Begin(next, T, D, Q, R) ==
  LET left  == {d \in D : <<"result", d.task>> \notin Begun(next)}
      trims == \E t \in TaskIds : <<"task", t>> \in Begun(next)
  IN  /\ \E G \in (IF trims THEN Trimmings(Started(T, next), {}) ELSE {{}}) :
           tasks' = Without(Started(T, next), G)
      /\ deliveries' = left
      /\ queueOrder' = Among(Q, left)
      /\ reserved' = R \cup DOMAIN next
      /\ BeginTurns(DOMAIN next, next, [s \in DOMAIN next |-> TurnOf(T, next[s], s)])

Kick(T, D, Q, R) ==
  LET owed == IF restored' THEN Owed(T, D) ELSE {}
      D1   == {d \in D \cup {DeliveryOf(T, t) : t \in owed} : d.sid \in live}
      Q1   == Behind(Q, {d.task : d \in D}, owed, mapOrder')
  IN  Begin([s \in Ready(T, D1, R) |-> NextRun(T, D1, Q1, s)], T, D1, Q1, R)

(* enqueueDelivery for a task that ended in T: mark the result pending,    *)
(* and queue it if its session is there.                                   *)
MarkPending(T, t) == [T EXCEPT ![t].pending = TRUE]
Queued(T, D, t) ==
  IF T[t].from \in live /\ \A d \in D : d.task # t
  THEN D \cup {DeliveryOf(T, t)} ELSE D

(* resolve, enqueueDelivery and the kick that comes after them: task t     *)
(* ends, its result is owed, and R is what is still reserved.              *)
Conclude(t, status, R) ==
  LET T == Moved(tasks, t, status)
  IN  \E G \in Trimmings(T, {t}) :
        LET T1 == MarkPending(Without(T, G), t)
        IN  Kick(T1, Queued(T1, deliveries, t),
                 Behind(queueOrder, {d.task : d \in deliveries}, {t}, {}), R)

-----------------------------------------------------------------------------
(* Delegation: delegate_task and send_agent_message, called by run k.      *)

(* Mutant: every call is taken to come from a turn of the user.            *)
CallerTurnForgotten(s) == UserTurn(s)

(* The turn that enqueue takes the call to belong to.                      *)
CallerTurn(s) == IF turns[s] = NoTurn THEN UserTurn(s) ELSE turns[s]

(* Mutant: only the last session of the chain is refused.                  *)
PassedLast(chain) == {chain[Len(chain)]}

Passed(chain) == {chain[i] : i \in DOMAIN chain}

OpenFrom(T, s) == {t \in Open(T) : T[t].from = s}

Duplicate(s, to, text) ==
  \E t \in OpenFrom(tasks, s) : tasks[t].to = to /\ tasks[t].text = text

(* Mutant: the caps are off by one.                                        *)
WithinCapsPlusOne(s) ==
  /\ Cardinality(OpenFrom(tasks, s)) <= MaxOpenPerSource
  /\ Cardinality(Open(tasks)) <= MaxOpenTotal

WithinCaps(s) ==
  /\ Cardinality(OpenFrom(tasks, s)) < MaxOpenPerSource
  /\ Cardinality(Open(tasks)) < MaxOpenTotal

(* Mutant: pending_delivery is left undefined.                             *)
NewTaskUnmarked(s, to, text) ==
  [status |-> "queued", from |-> s, to |-> to, text |-> text,
   depth |-> CallerTurn(s).depth + 1,
   chain |-> Append(CallerTurn(s).chain, to), pending |-> NoTask]

NewTask(s, to, text) ==
  [status |-> "queued", from |-> s, to |-> to, text |-> text,
   depth |-> CallerTurn(s).depth + 1,
   chain |-> Append(CallerTurn(s).chain, to), pending |-> FALSE]

(* A tool call of a prompted run.  Only pi sessions have the tools, and an *)
(* aborted run makes no further calls.  Refusals change nothing.           *)
Enqueue(k, to, text) ==
  LET s == runs[k].sid
      t == CHOOSE i \in TaskIds \ issued : TRUE
      T == [tasks EXCEPT ![t] = NewTask(s, to, text)]
  IN  /\ resolved = NoRun
      /\ runs[k] # NoRun
      /\ runs[k].stage = "prompting"
      /\ ~runs[k].aborted
      /\ s \notin Harness
      /\ CallerTurn(s).origin # "result"
      /\ CallerTurn(s).depth + 1 <= MaxDepth
      /\ to \in live
      /\ to # s
      /\ to \notin Passed(CallerTurn(s).chain)
      /\ <<s, to>> \in policy
      /\ ~Duplicate(s, to, text)
      /\ WithinCaps(s)
      /\ issued # TaskIds
      /\ issued' = issued \cup {t}
      /\ mapOrder' = Behind(mapOrder, {i \in TaskIds : Present(tasks, i)}, {t}, {})
      /\ UNCHANGED <<cancelRequested, policy, restored, idleKick, resolved>>
      /\ \E G \in Trimmings(T, {}) :
           Kick(Without(T, G), deliveries, queueOrder, reserved)

(* team/policy_set.                                                        *)
SetPolicy(p) ==
  /\ resolved = NoRun
  /\ policy' = p
  /\ UNCHANGED <<sessionVars, tasks, issued, mapOrder, deliveries, queueOrder,
                 reserved, cancelRequested, restored, idleKick, resolved>>

-----------------------------------------------------------------------------
(* The life of a run.                                                      *)

(* agent/send, or a routine that fires: refused while the id is busy.      *)
Send(u, s) ==
  /\ resolved = NoRun
  /\ s \in live
  /\ ~IsBusy(s)
  /\ runs[<<"user", u>>] = NoRun
  /\ BeginTurns({s}, [r \in {s} |-> <<"user", u>>], [r \in {s} |-> UserTurn(r)])
  /\ UNCHANGED teamVars

Prompt(k) ==
  /\ resolved = NoRun
  /\ StartPrompt(k)
  /\ UNCHANGED teamVars

(* Mutant: the end of a turn asks for no kick.                             *)
SettleQuietly(k, ok) ==
  /\ resolved = NoRun
  /\ EndTurn(k, ok)
  /\ resolved' = IF k[1] = "user" THEN NoRun
                 ELSE [key |-> k, sid |-> runs[k].sid, ok |-> ok]
  /\ UNCHANGED <<tasks, issued, mapOrder, deliveries, queueOrder, reserved,
                 cancelRequested, policy, restored, idleKick>>

(* The promise of run k settles; endTurn asks for a kick.                  *)
Settle(k, ok) ==
  /\ resolved = NoRun
  /\ EndTurn(k, ok)
  /\ resolved' = IF k[1] = "user" THEN NoRun
                 ELSE [key |-> k, sid |-> runs[k].sid, ok |-> ok]
  /\ idleKick' = TRUE
  /\ UNCHANGED <<tasks, issued, mapOrder, deliveries, queueOrder, reserved,
                 cancelRequested, policy, restored>>

(* The rest of execute, and its finally: record how the task ended, pass   *)
(* the result on, give the session back and look for more work.            *)
FinishTask(t) ==
  LET status == IF t \in cancelRequested THEN "cancelled"
                ELSE IF resolved.ok THEN "done" ELSE "failed"
  IN  /\ resolved # NoRun
      /\ resolved.key = <<"task", t>>
      /\ resolved' = NoRun
      /\ cancelRequested' = cancelRequested \ {t}
      /\ UNCHANGED <<issued, mapOrder, policy, restored, idleKick>>
      /\ Conclude(t, status, reserved \ {resolved.sid})

(* Mutant: a session is not given back after a result turn.                *)
FinishResultUnreleased ==
  /\ resolved # NoRun
  /\ resolved.key[1] = "result"
  /\ resolved' = NoRun
  /\ UNCHANGED <<issued, mapOrder, cancelRequested, policy, restored, idleKick>>
  /\ Kick(tasks, deliveries, queueOrder, reserved)

(* The finally after deliver.                                              *)
FinishResult ==
  /\ resolved # NoRun
  /\ resolved.key[1] = "result"
  /\ resolved' = NoRun
  /\ UNCHANGED <<issued, mapOrder, cancelRequested, policy, restored, idleKick>>
  /\ Kick(tasks, deliveries, queueOrder, reserved \ {resolved.sid})

(* The timer set by notifyIdle.                                            *)
IdleKick ==
  /\ resolved = NoRun
  /\ idleKick
  /\ idleKick' = FALSE
  /\ UNCHANGED <<issued, mapOrder, cancelRequested, policy, restored, resolved>>
  /\ Kick(tasks, deliveries, queueOrder, reserved)

-----------------------------------------------------------------------------
(* What the user does.                                                     *)

(* Mutant: a task that has ended is cancelled again.                       *)
CancelEnded(t) ==
  /\ resolved = NoRun
  /\ Present(tasks, t) /\ tasks[t].status # "running"
  /\ UNCHANGED <<issued, mapOrder, cancelRequested, policy, restored,
                 idleKick, resolved>>
  /\ Conclude(t, "cancelled", reserved)

CancelQueued(t) ==
  /\ resolved = NoRun
  /\ Is(tasks, t, {"queued"})
  /\ UNCHANGED <<issued, mapOrder, cancelRequested, policy, restored,
                 idleKick, resolved>>
  /\ Conclude(t, "cancelled", reserved)

(* Mutant: the session that asked is aborted, not the one that works.      *)
CancelAtSource(t) ==
  /\ resolved = NoRun
  /\ Is(tasks, t, {"running"})
  /\ cancelRequested' = cancelRequested \cup {t}
  /\ AbortAgent(tasks[t].from)
  /\ UNCHANGED <<tasks, issued, mapOrder, deliveries, queueOrder, reserved,
                 policy, restored, idleKick, resolved>>

(* The task is marked and whatever runs on its target's agent is aborted.  *)
CancelRunning(t) ==
  /\ resolved = NoRun
  /\ Is(tasks, t, {"running"})
  /\ cancelRequested' = cancelRequested \cup {t}
  /\ AbortAgent(tasks[t].to)
  /\ UNCHANGED <<tasks, issued, mapOrder, deliveries, queueOrder, reserved,
                 policy, restored, idleKick, resolved>>

(* Mutant: tasks that still wait are marked too.                           *)
OpenOn(s) == {t \in Open(tasks) : tasks[t].to = s}

RunningOn(s) == {t \in TaskIds : Is(tasks, t, {"running"}) /\ tasks[t].to = s}

(* agent/abort: noteExternalAbort, then abort.                             *)
Abort(s) ==
  /\ resolved = NoRun
  /\ s \in live
  /\ cancelRequested' = cancelRequested \cup RunningOn(s)
  /\ AbortAgent(s)
  /\ UNCHANGED <<tasks, issued, mapOrder, deliveries, queueOrder, reserved,
                 policy, restored, idleKick, resolved>>

Create(s) ==
  /\ resolved = NoRun
  /\ Register(s)
  /\ idleKick' = TRUE
  /\ UNCHANGED <<tasks, issued, mapOrder, deliveries, queueOrder, reserved,
                 cancelRequested, policy, restored, resolved>>

(* agent/close: queued work from or to the session is dropped without a    *)
(* result, its running work is marked, its waiting results are discarded.  *)
Close(s) ==
  LET gone == {t \in TaskIds : Is(tasks, t, {"queued"})
                               /\ s \in {tasks[t].from, tasks[t].to}}
      T    == [t \in TaskIds |-> IF t \in gone
                                 THEN [tasks[t] EXCEPT !.status = "cancelled"]
                                 ELSE tasks[t]]
      D    == {d \in deliveries : d.sid # s}
  IN  /\ resolved = NoRun
      /\ s \in live
      /\ \E G \in (IF gone = {} THEN {{}}
                   ELSE UNION {Trimmings(T, {last}) : last \in gone}) :
           tasks' = Without(T, G)
      /\ deliveries' = D
      /\ queueOrder' = Among(queueOrder, D)
      /\ cancelRequested' = cancelRequested \cup RunningOn(s)
      /\ Unregister(s)
      /\ UNCHANGED <<issued, mapOrder, reserved, policy, restored, idleKick, resolved>>

(* Nothing is stored yet: restore finds no file and opens the queue.  A    *)
(* data folder that is not chosen yet leaves the queue unrestored.         *)
Restore ==
  /\ resolved = NoRun
  /\ ~restored
  /\ restored' = TRUE
  /\ UNCHANGED <<issued, mapOrder, cancelRequested, policy, idleKick, resolved>>
  /\ Kick(tasks, deliveries, queueOrder, reserved)

Next ==
  \/ \E k \in RunKeys, to \in Sessions, text \in Texts : Enqueue(k, to, text)
  \/ \E p \in Policies : SetPolicy(p)
  \/ \E u \in Outside, s \in Sessions : Send(u, s)
  \/ \E k \in RunKeys : Prompt(k)
  \/ \E k \in RunKeys, ok \in BOOLEAN : Settle(k, ok)
  \/ \E t \in TaskIds : FinishTask(t)
  \/ FinishResult
  \/ IdleKick
  \/ \E t \in TaskIds : CancelQueued(t) \/ CancelRunning(t)
  \/ \E s \in Sessions : Abort(s) \/ Create(s) \/ Close(s)
  \/ Restore

Spec == Init /\ [][Next]_vars
-----------------------------------------------------------------------------
(* Fairness.  Node's event loop runs every timer and every settled         *)
(* promise, and every model call ends (the engines time out).  The last    *)
(* conjunct says that a user or a routine does not win the race against a  *)
(* 0 ms timer for the same session for ever.                               *)
RunStep(k) == Prompt(k) \/ \E ok \in BOOLEAN : Settle(k, ok)

Continuation == FinishResult \/ \E t \in TaskIds : FinishTask(t)

Fairness ==
  /\ \A k \in RunKeys : WF_vars(RunStep(k))
  /\ WF_vars(Continuation)
  /\ \A s \in Sessions : SF_vars(IdleKick /\ ~IsBusy(s))

FairSpec == Spec /\ Fairness

-----------------------------------------------------------------------------
(* Safety.                                                                 *)

TeamRuns == {k \in RunKeys : k[1] # "user" /\ runs[k] # NoRun}

(* A session is reserved exactly while one team turn - a task or a result  *)
(* - runs on it or has just settled, also across a close and re-creation   *)
(* of the session in between: reserved is set in kick and startDeliveries  *)
(* and given back in the finally of the promise they started.              *)
ReservedByOneTurn ==
  /\ reserved = {runs[k].sid : k \in TeamRuns}
                  \cup (IF resolved = NoRun THEN {} ELSE {resolved.sid})
  /\ \A j, k \in TeamRuns : runs[j].sid = runs[k].sid => j = k
  /\ resolved # NoRun => \A k \in TeamRuns : runs[k].sid # resolved.sid

(* A task is "running" exactly while its turn is unsettled or its outcome  *)
(* is about to be recorded, and only then can it be marked for             *)
(* cancellation: no task is left running with nobody working on it, and no *)
(* mark is left behind to cancel something later.                          *)
Working(t) ==
  \/ runs[<<"task", t>>] # NoRun /\ runs[<<"task", t>>].sid = tasks[t].to
  \/ resolved # NoRun /\ resolved.key = <<"task", t>> /\ resolved.sid = tasks[t].to

RunningIsWorkedOn ==
  \A t \in TaskIds :
    /\ Is(tasks, t, {"running"}) => Working(t)
    /\ runs[<<"task", t>>] # NoRun \/ (resolved # NoRun /\ resolved.key = <<"task", t>>)
         => Is(tasks, t, {"running"})
    /\ t \in cancelRequested => Is(tasks, t, {"running"})

(* A waiting result belongs to an ended task, is still owed, waits once,   *)
(* and is not being told at the same time (enqueueDelivery, deliver).      *)
Telling(t) ==
  runs[<<"result", t>>] # NoRun \/ (resolved # NoRun /\ resolved.key = <<"result", t>>)

ResultsWaitOnce ==
  /\ \A d \in deliveries :
       /\ ~Telling(d.task)
       /\ d.task \in issued
       /\ Present(tasks, d.task) =>
            /\ tasks[d.task].status \in Ended
            /\ tasks[d.task].pending
            /\ tasks[d.task].from = d.sid
  /\ \A d, e \in deliveries : d.task = e.task => d = e
  /\ \A t \in TaskIds : Telling(t) /\ Present(tasks, t) => ~tasks[t].pending

(* What holds of every task in the table, whatever closes, re-creations    *)
(* and trims came before: it is on a simple path of sessions no longer     *)
(* than the depth limit that leads from its source to its target, and the  *)
(* open ones stay within the caps, none of them twice (enqueue;            *)
(* docs/contract.md 2.11).                                                 *)
OnSimplePath(task) ==
  /\ task.depth \in 1..MaxDepth
  /\ Len(task.chain) = task.depth + 1
  /\ task.chain[task.depth] = task.from
  /\ task.chain[task.depth + 1] = task.to
  /\ \A i, j \in DOMAIN task.chain : task.chain[i] = task.chain[j] => i = j

LimitsHold ==
  /\ \A t \in TaskIds : Present(tasks, t) => OnSimplePath(tasks[t])
  /\ Cardinality(Open(tasks)) <= MaxOpenTotal
  /\ \A s \in Sessions : Cardinality(OpenFrom(tasks, s)) <= MaxOpenPerSource
  /\ \A t, v \in Open(tasks) :
       /\ tasks[t].from = tasks[v].from
       /\ tasks[t].to = tasks[v].to
       /\ tasks[t].text = tasks[v].text
       => t = v

(* No lost wake-up: whenever an idle session has work it could begin, a    *)
(* kick is on its way.  kick is called from six places and a timer; a path *)
(* that frees a session or adds work without one of them would strand the  *)
(* work until something unrelated happens.                                 *)
WorkFor(s) ==
  ResultsFor(deliveries, s) \cup QueuedFor(tasks, s)
    \cup (IF restored THEN {t \in Owed(tasks, deliveries) : tasks[t].from = s} ELSE {})

NoLostWakeup ==
  \A s \in Sessions : Free(s, reserved) /\ WorkFor(s) # {} => idleKick

-----------------------------------------------------------------------------
(* What a step may do.                                                     *)

(* A newly accepted task continues the delegation chain of a turn that its *)
(* source is really in, one step deeper, and never of a result turn.       *)
AcceptedInTurn(t) ==
  \E k \in RunKeys :
    /\ runs[k] # NoRun
    /\ runs[k].sid = tasks'[t].from
    /\ runs[k].turn.origin # "result"
    /\ tasks'[t].depth = runs[k].turn.depth + 1
    /\ tasks'[t].chain = Append(runs[k].turn.chain, tasks'[t].to)

(* docs/contract.md 2.11: depth at most 3, no session twice on a chain, no *)
(* delegation from a result turn - which holds only if the chain that      *)
(* enqueue extends is that of the turn the call is made in.                *)
ChainFollowsTurn ==
  [][\A t \in issued' \ issued : AcceptedInTurn(t)]_vars

(* The same for sources that were never closed.                            *)
ChainFollowsTurnIfOpen ==
  [][\A t \in issued' \ issued :
        NeverClosed(tasks'[t].from) => AcceptedInTurn(t)]_vars

(* team/cancel stops the turn of that task and no other: the user's own    *)
(* conversation in the target session goes on (docs/contract.md 2.11).     *)
StopsOnly(t) == \A k \in RunKeys : runs'[k] # runs[k] => k = <<"task", t>>

CancelStopsOnlyItsTurn ==
  [][\A t \in TaskIds : CancelRunning(t) => StopsOnly(t)]_vars

(* The same for targets that were never closed.                            *)
CancelStopsOnlyItsTurnIfOpen ==
  [][\A t \in TaskIds :
        CancelRunning(t) /\ NeverClosed(tasks[t].to) => StopsOnly(t)]_vars

(* A result becomes owed only when its task ends, so it is told at most    *)
(* once in the life of the process; and it stops being owed only when it   *)
(* is being told: closing the session it is for does not lose it.          *)
OwedUntilTold ==
  [][\A t \in TaskIds :
        Present(tasks, t) /\ Present(tasks', t) =>
          /\ ~tasks[t].pending /\ tasks'[t].pending
               => tasks[t].status \notin Ended /\ tasks'[t].status \in Ended
          /\ tasks[t].pending /\ ~tasks'[t].pending
               => runs[<<"result", t>>] = NoRun /\ runs'[<<"result", t>>] # NoRun]_vars

(* The queue keeps the promises of module TaskLifecycle.                   *)
Lifecycle == INSTANCE TaskLifecycle WITH
  Targets <- Sessions,
  Nobody  <- NoTask,
  status  <- [t \in TaskIds |-> IF Present(tasks, t) THEN tasks[t].status
                                ELSE IF t \in issued THEN "forgotten" ELSE "none"],
  target  <- [t \in TaskIds |-> IF Present(tasks, t) THEN tasks[t].to ELSE NoTask]

KeepsLifecycle == Lifecycle!Spec

-----------------------------------------------------------------------------
(* Liveness.                                                               *)

(* Queued work is taken up, unless its target goes away.                   *)
QueuedIsServed ==
  \A t \in TaskIds :
    Is(tasks, t, {"queued"})
      ~> (~Is(tasks, t, {"queued"}) \/ tasks[t].to \notin live)

(* An owed result is told, unless the session it is for goes away.         *)
OwedIsTold ==
  \A t \in TaskIds :
    (restored /\ Is(tasks, t, Ended) /\ tasks[t].pending)
      ~> (Present(tasks, t) => ~tasks[t].pending \/ tasks[t].from \notin live)
=============================================================================
