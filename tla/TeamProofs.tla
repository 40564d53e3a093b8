----------------------------- MODULE TeamProofs -----------------------------
(***************************************************************************)
(* Theorems about module Team, for any number of sessions and tasks, any   *)
(* limits and any delegation policies.                                     *)
(***************************************************************************)
EXTENDS Team, FiniteSetTheorems, TLAPS

Table == [TaskIds -> Task \cup {NoTask}]
Orders == SUBSET (TaskIds \X TaskIds)

-----------------------------------------------------------------------------
(* The session manager.                                                    *)

LEMMA UserTurnType == \A s \in Sessions : UserTurn(s) \in Turn
  BY DEF UserTurn, Turn, Origins

LEMMA RunIsNotNoRun == \A r \in Run : r # NoRun
  BY SessionsAssumption

LEMMA NewRunType ==
  ASSUME SessionsTypeOK, NEW s \in Sessions, NEW turn \in Turn
  PROVE  NewRun(s, turn) \in Run
  BY DEF SessionsTypeOK, NewRun, Run

LEMMA BeginTurnsType ==
  ASSUME SessionsTypeOK, NEW at \in SUBSET Sessions, NEW who, NEW with,
         \A s \in at : with[s] \in Turn,
         BeginTurns(at, who, with)
  PROVE  SessionsTypeOK'
<1>1. runs' \in [RunKeys -> Run \cup {NoRun}]
  <2> SUFFICES ASSUME NEW k \in RunKeys PROVE runs'[k] \in Run \cup {NoRun}
    BY DEF BeginTurns
  <2>1. CASE \E s \in at : who[s] = k
    <3> DEFINE r == CHOOSE s \in at : who[s] = k
    <3>1. r \in at
      BY <2>1
    <3>2. runs'[k] = NewRun(r, with[r])
      BY <2>1 DEF BeginTurns
    <3> QED
      BY <3>1, <3>2, NewRunType
  <2>2. CASE ~\E s \in at : who[s] = k
    <3>1. runs'[k] = runs[k]
      BY <2>2 DEF BeginTurns
    <3> QED
      BY <3>1 DEF SessionsTypeOK
  <2> QED
    BY <2>1, <2>2
<1>2. turns' \in [Sessions -> Turn \cup {NoTurn}]
  BY DEF BeginTurns, SessionsTypeOK
<1> QED
  BY <1>1, <1>2 DEF BeginTurns, SessionsTypeOK

(* agent.abort() changes nothing but the aborted mark of a run.            *)
LEMMA AbortedRuns ==
  ASSUME SessionsTypeOK, NEW s \in Sessions
  PROVE  /\ Aborted(s) \in [RunKeys -> Run \cup {NoRun}]
         /\ \A k \in RunKeys :
              /\ Aborted(s)[k] = NoRun <=> runs[k] = NoRun
              /\ runs[k] # NoRun =>
                   /\ Aborted(s)[k].sid = runs[k].sid
                   /\ Aborted(s)[k].gen = runs[k].gen
                   /\ Aborted(s)[k].stage = runs[k].stage
                   /\ Aborted(s)[k].turn = runs[k].turn
<1> SUFFICES ASSUME NEW k \in RunKeys
             PROVE  /\ Aborted(s)[k] \in Run \cup {NoRun}
                    /\ Aborted(s)[k] = NoRun <=> runs[k] = NoRun
                    /\ runs[k] # NoRun =>
                         /\ Aborted(s)[k].sid = runs[k].sid
                         /\ Aborted(s)[k].gen = runs[k].gen
                         /\ Aborted(s)[k].stage = runs[k].stage
                         /\ Aborted(s)[k].turn = runs[k].turn
  BY DEF Aborted
<1>1. CASE Aborted(s)[k] = runs[k]
  BY <1>1 DEF SessionsTypeOK
<1>2. CASE Aborted(s)[k] # runs[k]
  <2>1. runs[k] \in Run
    BY <1>2 DEF Aborted, RunsOn, SessionsTypeOK
  <2>2. Aborted(s)[k] = [runs[k] EXCEPT !.aborted = TRUE]
    BY <1>2 DEF Aborted
  <2>3. [runs[k] EXCEPT !.aborted = TRUE] \in Run
    BY <2>1 DEF Run
  <2> QED
    BY <2>1, <2>2, <2>3, RunIsNotNoRun DEF Run
<1> QED
  BY <1>1, <1>2

LEMMA RegisterType ==
  ASSUME SessionsTypeOK, NEW s \in Sessions, Register(s)
  PROVE  SessionsTypeOK'
  BY DEF SessionsTypeOK, Register

LEMMA AbortAgentType ==
  ASSUME SessionsTypeOK, NEW s \in Sessions, AbortAgent(s)
  PROVE  SessionsTypeOK'
  BY AbortedRuns DEF SessionsTypeOK, AbortAgent

LEMMA UnregisterType ==
  ASSUME SessionsTypeOK, NEW s \in Sessions, Unregister(s)
  PROVE  SessionsTypeOK'
  BY AbortedRuns DEF SessionsTypeOK, Unregister

LEMMA StartPromptType ==
  ASSUME SessionsTypeOK, NEW k \in RunKeys, StartPrompt(k)
  PROVE  SessionsTypeOK'
<1>1. runs[k] \in Run
  BY DEF SessionsTypeOK, StartPrompt
<1>2. [runs[k] EXCEPT !.stage = "prompting"] \in Run
  BY <1>1 DEF Run
<1>3. runs' = [runs EXCEPT ![k] = [@ EXCEPT !.stage = "prompting"]]
  BY DEF StartPrompt
<1> QED
  BY <1>2, <1>3 DEF SessionsTypeOK, StartPrompt

LEMMA EndTurnType ==
  ASSUME SessionsTypeOK, NEW k \in RunKeys, NEW ok \in BOOLEAN, EndTurn(k, ok)
  PROVE  SessionsTypeOK'
<1>1. runs[k] \in Run
  BY DEF SessionsTypeOK, EndTurn
<1>2. runs[k].sid \in Sessions
  BY <1>1 DEF Run
<1> QED
  BY <1>2 DEF SessionsTypeOK, EndTurn

-----------------------------------------------------------------------------
(* What a kick does.                                                       *)

LEMMA FirstIsMember ==
  ASSUME NEW W, NEW order, W # {}
  PROVE  First(W, order) \in W
  BY DEF First

(* next gives each session of its domain a result that waits for it or a   *)
(* task that is queued for it, and each of them is free.                   *)
Assigned(next, T, D, R, s) ==
  /\ Free(s, R)
  /\ \E t \in TaskIds :
       \/ next[s] = <<"result", t>> /\ \E d \in D : d.task = t /\ d.sid = s
       \/ next[s] = <<"task", t>> /\ t \in QueuedFor(T, s)

Assignment(next, T, D, R) ==
  /\ DOMAIN next \subseteq Sessions
  /\ next = [s \in DOMAIN next |-> next[s]]
  /\ \A s \in DOMAIN next : Assigned(next, T, D, R, s)

LEMMA NextRunAssigned ==
  ASSUME NEW T, NEW D \in SUBSET Delivery, NEW Q, NEW R, NEW s \in Ready(T, D, R)
  PROVE  \E t \in TaskIds :
           \/ /\ NextRun(T, D, Q, s) = <<"result", t>>
              /\ \E d \in D : d.task = t /\ d.sid = s
           \/ /\ NextRun(T, D, Q, s) = <<"task", t>>
              /\ t \in QueuedFor(T, s)
<1>1. CASE ResultsFor(D, s) # {}
  <2> DEFINE t == First(ResultsFor(D, s), Q)
  <2>1. t \in ResultsFor(D, s)
    BY <1>1, FirstIsMember
  <2>2. PICK d \in D : d.task = t /\ d.sid = s
    BY <2>1 DEF ResultsFor
  <2>3. t \in TaskIds
    BY <2>2 DEF Delivery
  <2>4. NextRun(T, D, Q, s) = <<"result", t>>
    BY <1>1 DEF NextRun
  <2> QED
    BY <2>2, <2>3, <2>4
<1>2. CASE ResultsFor(D, s) = {}
  <2>1. QueuedFor(T, s) # {}
    BY <1>2 DEF Ready
  <2> DEFINE t == First(QueuedFor(T, s), mapOrder')
  <2>2. t \in QueuedFor(T, s)
    BY <2>1, FirstIsMember
  <2>3. t \in TaskIds
    BY <2>2 DEF QueuedFor
  <2>4. NextRun(T, D, Q, s) = <<"task", t>>
    BY <1>2 DEF NextRun
  <2> QED
    BY <2>2, <2>3, <2>4
<1> QED
  BY <1>1, <1>2

(* A kick first requeues what is owed and drops what waits for sessions    *)
(* that are gone, and then begins a run on every session that is ready.    *)
Requeued(T, D, D1) ==
  D1 = {d \in D \cup {DeliveryOf(T, t) : t \in IF restored' THEN Owed(T, D) ELSE {}} :
          d.sid \in live}

LEMMA KickBegins ==
  ASSUME NEW T \in Table, NEW D \in SUBSET Delivery, NEW Q \in Orders,
         NEW R \in SUBSET Sessions, mapOrder' \in Orders, Kick(T, D, Q, R)
  PROVE  \E D1 \in SUBSET Delivery, Q1 \in Orders : \E next :
           /\ Requeued(T, D, D1)
           /\ DOMAIN next = Ready(T, D1, R)
           /\ Assignment(next, T, D1, R)
           /\ Begin(next, T, D1, Q1, R)
<1> DEFINE owed == IF restored' THEN Owed(T, D) ELSE {}
           D1 == {d \in D \cup {DeliveryOf(T, t) : t \in owed} : d.sid \in live}
           Q1 == Behind(Q, {d.task : d \in D}, owed, mapOrder')
           next == [s \in Ready(T, D1, R) |-> NextRun(T, D1, Q1, s)]
<1>1. owed \subseteq TaskIds /\ \A t \in owed : T[t] \in Task
  BY DEF Owed, Over, Is, Present, Table
<1>2. D1 \in SUBSET Delivery
  <2>1. \A t \in owed : DeliveryOf(T, t) \in Delivery
    BY <1>1 DEF DeliveryOf, Delivery, Task
  <2> QED
    BY <2>1
<1>3. Q1 \in Orders
  <2>1. {d.task : d \in D} \subseteq TaskIds
    BY DEF Delivery
  <2> QED
    BY <1>1, <2>1 DEF Behind, Orders
<1>4. DOMAIN next = Ready(T, D1, R) /\ Ready(T, D1, R) \subseteq Sessions
  BY DEF Ready
<1>5. Assignment(next, T, D1, R)
  <2>1. \A s \in DOMAIN next : Assigned(next, T, D1, R, s)
    <3> SUFFICES ASSUME NEW s \in Ready(T, D1, R)
                 PROVE  Assigned(next, T, D1, R, s)
      BY <1>4
    <3>1. Free(s, R)
      BY DEF Ready
    <3>2. next[s] = NextRun(T, D1, Q1, s)
      OBVIOUS
    <3> HIDE DEF D1, Q1, next
    <3> QED
      BY <1>2, <3>1, <3>2, NextRunAssigned DEF Assigned
  <2> QED
    BY <1>4, <2>1 DEF Assignment
<1>6. Begin(next, T, D1, Q1, R)
  BY DEF Kick
<1>7. Requeued(T, D, D1)
  BY DEF Requeued
<1> HIDE DEF D1, Q1, next
<1> QED
  BY <1>2, <1>3, <1>4, <1>5, <1>6, <1>7

-----------------------------------------------------------------------------
(* Type correctness.                                                       *)

LEMMA MovedType ==
  ASSUME NEW T \in Table, NEW t \in TaskIds, T[t] # NoTask, NEW st \in Status
  PROVE  [T[t] EXCEPT !.status = st] \in Task
  BY DEF Table, Task

LEMMA PendingType ==
  ASSUME NEW T \in Table, NEW t \in TaskIds, T[t] # NoTask, NEW p \in BOOLEAN
  PROVE  [T[t] EXCEPT !.pending = p] \in Task
  BY DEF Table, Task

LEMMA WithoutType == \A T \in Table : \A G : Without(T, G) \in Table
  BY DEF Table, Without

LEMMA StartedType ==
  ASSUME NEW T \in Table, NEW D \in SUBSET Delivery, NEW R, NEW next,
         Assignment(next, T, D, R)
  PROVE  Started(T, next) \in Table
<1> SUFFICES ASSUME NEW t \in TaskIds
             PROVE  Started(T, next)[t] \in Task \cup {NoTask}
  BY DEF Started, Table
<1>1. T[t] \in Task \cup {NoTask}
  BY DEF Table
<1>2. CASE <<"task", t>> \in Begun(next)
  <2>1. PICK s \in DOMAIN next : next[s] = <<"task", t>>
    BY <1>2 DEF Begun
  <2>2. t \in QueuedFor(T, s)
    BY <2>1 DEF Assignment, Assigned
  <2>3. T[t] # NoTask
    BY <2>2 DEF QueuedFor, Is, Present
  <2> QED
    BY <1>2, <2>3, MovedType DEF Started, Status
<1>3. CASE <<"task", t>> \notin Begun(next)
  BY <1>1, <1>3, PendingType DEF Started, Present
<1> QED
  BY <1>2, <1>3

LEMMA TurnOfType ==
  ASSUME NEW T \in Table, NEW D \in SUBSET Delivery, NEW R, NEW next,
         Assignment(next, T, D, R), NEW s \in DOMAIN next
  PROVE  TurnOf(T, next[s], s) \in Turn
<1>1. s \in Sessions
  BY DEF Assignment
<1>2. PICK t \in TaskIds :
        \/ next[s] = <<"result", t>>
        \/ next[s] = <<"task", t>> /\ t \in QueuedFor(T, s)
  BY DEF Assignment, Assigned
<1>3. T[t] # NoTask => T[t].depth \in Nat /\ T[t].chain \in Seq(Sessions)
  BY DEF Table, Task
<1>4. CASE next[s] = <<"result", t>>
  <2>1. TurnOf(T, next[s], s) = ResultTurn(T, t, s)
    BY <1>4 DEF TurnOf
  <2>2. MaxDepth \in Nat /\ <<s>> \in Seq(Sessions)
    BY <1>1, TeamAssumption
  <2> QED
    BY <1>3, <2>1, <2>2 DEF ResultTurn, Present, Turn, Origins
<1>5. CASE next[s] = <<"task", t>> /\ t \in QueuedFor(T, s)
  <2>1. TurnOf(T, next[s], s) = TaskTurn(T, t)
    BY <1>5 DEF TurnOf
  <2>2. T[t] # NoTask
    BY <1>5 DEF QueuedFor, Is, Present
  <2> QED
    BY <1>3, <2>1, <2>2 DEF TaskTurn, Turn, Origins
<1> QED
  BY <1>2, <1>4, <1>5

LEMMA AmongType ==
  ASSUME NEW order \in Orders, NEW D
  PROVE  Among(order, D) \in Orders
  BY DEF Among, Orders

LEMMA BehindType ==
  ASSUME NEW order \in Orders, NEW S \in SUBSET TaskIds, NEW N \in SUBSET TaskIds,
         NEW R \in Orders
  PROVE  Behind(order, S, N, R) \in Orders
  BY DEF Behind, Orders

(* The tables after a step that ends in a kick.                            *)
TablesOK ==
  /\ tasks \in Table
  /\ deliveries \subseteq Delivery
  /\ queueOrder \in Orders
  /\ reserved \subseteq Sessions

LEMMA BeginType ==
  ASSUME SessionsTypeOK, NEW T \in Table, NEW D \in SUBSET Delivery,
         NEW Q \in Orders, NEW R \in SUBSET Sessions, NEW next,
         Assignment(next, T, D, R), Begin(next, T, D, Q, R)
  PROVE  SessionsTypeOK' /\ TablesOK'
<1>1. DOMAIN next \subseteq Sessions
  BY DEF Assignment
<1>2. SessionsTypeOK'
  <2> DEFINE with == [s \in DOMAIN next |-> TurnOf(T, next[s], s)]
  <2>1. \A s \in DOMAIN next : with[s] \in Turn
    BY TurnOfType
  <2>2. BeginTurns(DOMAIN next, next, with)
    BY DEF Begin
  <2> HIDE DEF with
  <2> QED
    BY <1>1, <2>1, <2>2, BeginTurnsType
<1>3. PICK G : tasks' = Without(Started(T, next), G)
  BY DEF Begin
<1>4. tasks' \in Table
  BY <1>3, StartedType, WithoutType
<1>5. /\ deliveries' \subseteq D
      /\ queueOrder' = Among(Q, deliveries')
      /\ reserved' = R \cup DOMAIN next
  BY DEF Begin
<1> QED
  BY <1>1, <1>2, <1>4, <1>5, AmongType DEF TablesOK

LEMMA KickType ==
  ASSUME SessionsTypeOK, NEW T \in Table, NEW D \in SUBSET Delivery,
         NEW Q \in Orders, NEW R \in SUBSET Sessions, mapOrder' \in Orders,
         Kick(T, D, Q, R)
  PROVE  SessionsTypeOK' /\ TablesOK'
  BY KickBegins, BeginType

LEMMA TrimmingsKeep ==
  ASSUME NEW T, NEW newest, NEW G \in Trimmings(T, newest)
  PROVE  G \subseteq Over(T) \ newest
  BY DEF Trimmings

LEMMA RecordedType ==
  ASSUME NEW T \in Table, NEW t \in TaskIds, T[t] # NoTask, NEW st \in Status
  PROVE  /\ Moved(T, t, st) \in Table
         /\ Moved(T, t, st)[t] = [T[t] EXCEPT !.status = st]
         /\ Moved(T, t, st)[t] # NoTask
         /\ \A v \in TaskIds \ {t} : Moved(T, t, st)[v] = T[v]
<1>1. [T[t] EXCEPT !.status = st] \in Task
  BY MovedType
<1>2. Moved(T, t, st) = [T EXCEPT ![t] = [@ EXCEPT !.status = st]]
  BY DEF Moved
<1> QED
  BY <1>1, <1>2, TeamAssumption DEF Table

LEMMA PendingTable ==
  ASSUME NEW T \in Table, NEW t \in TaskIds, T[t] # NoTask
  PROVE  /\ MarkPending(T, t) \in Table
         /\ MarkPending(T, t)[t] = [T[t] EXCEPT !.pending = TRUE]
         /\ MarkPending(T, t)[t] # NoTask
         /\ \A v \in TaskIds \ {t} : MarkPending(T, t)[v] = T[v]
<1>1. [T[t] EXCEPT !.pending = TRUE] \in Task
  BY PendingType
<1>2. MarkPending(T, t) = [T EXCEPT ![t] = [@ EXCEPT !.pending = TRUE]]
  BY DEF MarkPending
<1> QED
  BY <1>1, <1>2, TeamAssumption DEF Table

LEMMA QueuedType ==
  ASSUME NEW T \in Table, NEW D \in SUBSET Delivery, NEW t \in TaskIds, T[t] # NoTask
  PROVE  Queued(T, D, t) \in SUBSET Delivery
<1>1. T[t].from \in Sessions
  BY DEF Table, Task
<1> QED
  BY <1>1 DEF Queued, DeliveryOf, Delivery

(* resolve and enqueueDelivery, the common end of execute and cancel.      *)
LEMMA OutcomeType ==
  ASSUME NEW T \in Table, NEW t \in TaskIds, T[t] # NoTask,
         NEW G \in Trimmings(T, {t}), NEW D \in SUBSET Delivery
  PROVE  /\ MarkPending(Without(T, G), t) \in Table
         /\ Queued(MarkPending(Without(T, G), t), D, t) \in SUBSET Delivery
<1>1. t \notin G
  BY TrimmingsKeep
<1>2. Without(T, G) \in Table /\ Without(T, G)[t] # NoTask
  BY <1>1, WithoutType DEF Without
<1> QED
  BY <1>2, PendingTable, QueuedType

RestOK ==
  /\ issued \subseteq TaskIds
  /\ mapOrder \in Orders
  /\ cancelRequested \subseteq TaskIds
  /\ policy \in Policy
  /\ restored \in BOOLEAN
  /\ idleKick \in BOOLEAN
  /\ resolved \in Resolved \cup {NoRun}

LEMMA TypeParts == TypeOK <=> SessionsTypeOK /\ TablesOK /\ RestOK
  BY DEF TypeOK, TablesOK, RestOK, Table, Orders

LEMMA DeliveredIds == deliveries \subseteq Delivery => {d.task : d \in deliveries} \in SUBSET TaskIds
  BY DEF Delivery

LEMMA CallerTurnType ==
  ASSUME SessionsTypeOK, NEW s \in Sessions
  PROVE  CallerTurn(s) \in Turn
  BY UserTurnType DEF CallerTurn, SessionsTypeOK

LEMMA NewTaskType ==
  ASSUME SessionsTypeOK, NEW s \in Sessions, NEW to \in Sessions, NEW text \in Texts
  PROVE  NewTask(s, to, text) \in Task
<1>1. CallerTurn(s).depth \in Nat /\ CallerTurn(s).chain \in Seq(Sessions)
  BY CallerTurnType DEF Turn
<1>2. CallerTurn(s).depth + 1 \in Nat
  BY <1>1
<1>3. Append(CallerTurn(s).chain, to) \in Seq(Sessions)
  BY <1>1
<1> QED
  BY <1>2, <1>3 DEF NewTask, Task, Status

(* Every step keeps the types; FinishTask relies on RunningIsWorkedOn: the *)
(* task whose outcome is recorded is still in the table.                   *)
LEMMA TypeStep ==
  ASSUME TypeOK, RunningIsWorkedOn, [Next]_vars
  PROVE  TypeOK'
<1>0. SessionsTypeOK /\ TablesOK /\ RestOK
  BY TypeParts
<1> SUFFICES SessionsTypeOK' /\ TablesOK' /\ RestOK'
  BY TypeParts DEF TypeOK, SessionsTypeOK, TablesOK, RestOK, Table, Orders
<1>1. ASSUME NEW k \in RunKeys, NEW to \in Sessions, NEW text \in Texts,
             Enqueue(k, to, text)
      PROVE  SessionsTypeOK' /\ TablesOK' /\ RestOK'
  <2> DEFINE s == runs[k].sid
             t == CHOOSE i \in TaskIds \ issued : TRUE
             T == [tasks EXCEPT ![t] = NewTask(s, to, text)]
  <2>1. s \in Sessions
    BY <1>0, <1>1 DEF Enqueue, SessionsTypeOK, Run
  <2>2. t \in TaskIds
    BY <1>0, <1>1 DEF Enqueue, RestOK
  <2>3. T \in Table
    BY <1>0, <2>1, NewTaskType DEF TablesOK, Table
  <2>4. PICK G \in Trimmings(T, {}) : Kick(Without(T, G), deliveries, queueOrder, reserved)
    BY <1>1 DEF Enqueue
  <2>5. /\ issued' = issued \cup {t}
        /\ mapOrder' = Behind(mapOrder, {i \in TaskIds : Present(tasks, i)}, {t}, {})
        /\ UNCHANGED <<cancelRequested, policy, restored, idleKick, resolved>>
    BY <1>1 DEF Enqueue
  <2> HIDE DEF s, t, T
  <2>6. {} \in Orders
    BY DEF Orders
  <2>7. mapOrder' \in Orders
    BY <1>0, <2>2, <2>5, <2>6, BehindType DEF RestOK
  <2>8. RestOK'
    BY <1>0, <2>2, <2>5, <2>7 DEF RestOK
  <2>9. Without(T, G) \in Table
    BY <2>3, WithoutType
  <2> QED
    BY <1>0, <2>4, <2>7, <2>8, <2>9, KickType DEF TablesOK
<1>2. ASSUME NEW p \in Policies, SetPolicy(p)
      PROVE  SessionsTypeOK' /\ TablesOK' /\ RestOK'
  <2>1. p \in Policy
    BY TeamAssumption
  <2> QED
    BY <1>0, <1>2, <2>1 DEF SetPolicy, SessionsTypeOK, TablesOK, RestOK, sessionVars
<1>3. ASSUME NEW u \in Outside, NEW s \in Sessions, Send(u, s)
      PROVE  SessionsTypeOK' /\ TablesOK' /\ RestOK'
  <2> DEFINE who == [r \in {s} |-> <<"user", u>>]
             with == [r \in {s} |-> UserTurn(r)]
  <2>1. {s} \in SUBSET Sessions /\ \A r \in {s} : with[r] \in Turn
    BY UserTurnType
  <2>2. BeginTurns({s}, who, with)
    BY <1>3 DEF Send
  <2> HIDE DEF who, with
  <2>3. SessionsTypeOK'
    BY <1>0, <2>1, <2>2, BeginTurnsType
  <2> QED
    BY <1>0, <1>3, <2>3 DEF Send, teamVars, TablesOK, RestOK
<1>4. ASSUME NEW k \in RunKeys, Prompt(k)
      PROVE  SessionsTypeOK' /\ TablesOK' /\ RestOK'
  BY <1>0, <1>4, StartPromptType DEF Prompt, teamVars, TablesOK, RestOK
<1>5. ASSUME NEW k \in RunKeys, NEW ok \in BOOLEAN, Settle(k, ok)
      PROVE  SessionsTypeOK' /\ TablesOK' /\ RestOK'
  <2>1. SessionsTypeOK'
    BY <1>0, <1>5, EndTurnType DEF Settle
  <2>2. runs[k].sid \in Sessions
    BY <1>0, <1>5 DEF Settle, EndTurn, SessionsTypeOK, Run
  <2>3. resolved' \in Resolved \cup {NoRun}
    BY <1>5, <2>2 DEF Settle, Resolved
  <2> QED
    BY <1>0, <1>5, <2>1, <2>3 DEF Settle, TablesOK, RestOK
<1>6. ASSUME NEW t \in TaskIds, FinishTask(t)
      PROVE  SessionsTypeOK' /\ TablesOK' /\ RestOK'
  <2> DEFINE status == IF t \in cancelRequested THEN "cancelled"
                       ELSE IF resolved.ok THEN "done" ELSE "failed"
             T == Moved(tasks, t, status)
  <2>1. tasks[t] # NoTask
    BY <1>6 DEF FinishTask, RunningIsWorkedOn, Is, Present
  <2>0. status \in Status
    BY DEF Status, Ended
  <2> HIDE DEF status
  <2>2. T \in Table /\ T[t] # NoTask
    BY <1>0, <2>0, <2>1, RecordedType DEF TablesOK
  <2> USE DEF status
  <2>3. PICK G \in Trimmings(T, {t}) :
          LET T1 == MarkPending(Without(T, G), t)
          IN  Kick(T1, Queued(T1, deliveries, t),
                   Behind(queueOrder, {d.task : d \in deliveries}, {t}, {}),
                   reserved \ {resolved.sid})
    BY <1>6 DEF FinishTask, Conclude
  <2>4. RestOK'
    BY <1>0, <1>6 DEF FinishTask, RestOK
  <2> HIDE DEF T
  <2>5. {} \in Orders
    BY DEF Orders
  <2>6. Behind(queueOrder, {d.task : d \in deliveries}, {t}, {}) \in Orders
    BY <1>0, <2>5, DeliveredIds, BehindType DEF TablesOK
  <2>7. reserved \ {resolved.sid} \in SUBSET Sessions
    BY <1>0 DEF TablesOK
  <2> QED
    BY <1>0, <2>2, <2>3, <2>4, <2>6, <2>7, OutcomeType, KickType DEF TablesOK, RestOK
<1>7. CASE FinishResult
  <2>1. RestOK'
    BY <1>0, <1>7 DEF FinishResult, RestOK
  <2>2. reserved \ {resolved.sid} \in SUBSET Sessions
    BY <1>0 DEF TablesOK
  <2> QED
    BY <1>0, <1>7, <2>1, <2>2, KickType DEF FinishResult, TablesOK, RestOK
<1>8. CASE IdleKick
  <2>1. RestOK'
    BY <1>0, <1>8 DEF IdleKick, RestOK
  <2> QED
    BY <1>0, <1>8, <2>1, KickType DEF IdleKick, TablesOK, RestOK
<1>9. ASSUME NEW t \in TaskIds, CancelQueued(t)
      PROVE  SessionsTypeOK' /\ TablesOK' /\ RestOK'
  <2> DEFINE T == Moved(tasks, t, "cancelled")
  <2>1. tasks[t] # NoTask
    BY <1>9 DEF CancelQueued, Is, Present
  <2>2. T \in Table /\ T[t] # NoTask
    BY <1>0, <2>1, RecordedType DEF TablesOK, Status, Ended
  <2>3. PICK G \in Trimmings(T, {t}) :
          LET T1 == MarkPending(Without(T, G), t)
          IN  Kick(T1, Queued(T1, deliveries, t),
                   Behind(queueOrder, {d.task : d \in deliveries}, {t}, {}),
                   reserved)
    BY <1>9 DEF CancelQueued, Conclude
  <2>4. RestOK'
    BY <1>0, <1>9 DEF CancelQueued, RestOK
  <2> HIDE DEF T
  <2>5. {} \in Orders
    BY DEF Orders
  <2>6. Behind(queueOrder, {d.task : d \in deliveries}, {t}, {}) \in Orders
    BY <1>0, <2>5, DeliveredIds, BehindType DEF TablesOK
  <2> QED
    BY <1>0, <2>2, <2>3, <2>4, <2>6, OutcomeType, KickType DEF TablesOK, RestOK
<1>10. ASSUME NEW t \in TaskIds, CancelRunning(t)
       PROVE  SessionsTypeOK' /\ TablesOK' /\ RestOK'
  <2>1. tasks[t].to \in Sessions
    BY <1>0, <1>10 DEF CancelRunning, Is, Present, TablesOK, Table, Task
  <2>2. SessionsTypeOK'
    BY <1>0, <1>10, <2>1, AbortAgentType DEF CancelRunning
  <2> QED
    BY <1>0, <1>10, <2>2 DEF CancelRunning, TablesOK, RestOK
<1>11. ASSUME NEW s \in Sessions, Abort(s)
       PROVE  SessionsTypeOK' /\ TablesOK' /\ RestOK'
  <2>1. SessionsTypeOK'
    BY <1>0, <1>11, AbortAgentType DEF Abort
  <2> QED
    BY <1>0, <1>11, <2>1 DEF Abort, RunningOn, TablesOK, RestOK
<1>12. ASSUME NEW s \in Sessions, Create(s)
       PROVE  SessionsTypeOK' /\ TablesOK' /\ RestOK'
  <2>1. SessionsTypeOK'
    BY <1>0, <1>12, RegisterType DEF Create
  <2> QED
    BY <1>0, <1>12, <2>1 DEF Create, TablesOK, RestOK
<1>13. ASSUME NEW s \in Sessions, Close(s)
       PROVE  SessionsTypeOK' /\ TablesOK' /\ RestOK'
  <2> DEFINE gone == {t \in TaskIds : Is(tasks, t, {"queued"})
                                      /\ s \in {tasks[t].from, tasks[t].to}}
             T == [t \in TaskIds |-> IF t \in gone
                                     THEN [tasks[t] EXCEPT !.status = "cancelled"]
                                     ELSE tasks[t]]
  <2>1. T \in Table
    <3> SUFFICES ASSUME NEW t \in TaskIds PROVE T[t] \in Task \cup {NoTask}
      BY DEF Table
    <3>1. CASE t \in gone
      BY <1>0, <3>1, MovedType DEF TablesOK, Is, Present, Status, Ended
    <3>2. CASE t \notin gone
      BY <1>0, <3>2 DEF TablesOK, Table
    <3> QED
      BY <3>1, <3>2
  <2>2. PICK G : tasks' = Without(T, G)
    BY <1>13 DEF Close
  <2>3. tasks' \in Table
    BY <2>1, <2>2, WithoutType
  <2>4. SessionsTypeOK'
    BY <1>0, <1>13, UnregisterType DEF Close
  <2>5. /\ deliveries' \subseteq deliveries
        /\ queueOrder' \subseteq queueOrder
        /\ reserved' = reserved
    BY <1>13 DEF Close, Among
  <2>6. RestOK'
    BY <1>0, <1>13 DEF Close, RunningOn, RestOK
  <2> QED
    BY <1>0, <2>3, <2>4, <2>5, <2>6 DEF TablesOK, Orders
<1>14. CASE Restore
  <2>1. RestOK'
    BY <1>0, <1>14 DEF Restore, RestOK
  <2> QED
    BY <1>0, <1>14, <2>1, KickType DEF Restore, TablesOK, RestOK
<1>15. CASE UNCHANGED vars
  BY <1>0, <1>15 DEF vars, sessionVars, teamVars, SessionsTypeOK, TablesOK, RestOK
<1> QED
  BY <1>1, <1>2, <1>3, <1>4, <1>5, <1>6, <1>7, <1>8, <1>9, <1>10, <1>11,
     <1>12, <1>13, <1>14, <1>15 DEF Next

-----------------------------------------------------------------------------
(* The bookkeeping invariant.  ReservedByOneTurn, RunningIsWorkedOn and    *)
(* ResultsWaitOnce only hold together: that a result run starts on a free  *)
(* key needs ResultsWaitOnce, that a session is given back needs the       *)
(* others.  They are stated here over tables that a callback has half      *)
(* rewritten - T the tasks, D the deliveries, R the reserved sessions, A   *)
(* the team turns that act, as pairs of a key and a session - so that each *)
(* part of a callback can be shown to keep them.                           *)

RunsActing == {<<k, runs[k].sid>> : k \in TeamRuns}

Acting ==
  RunsActing \cup (IF resolved = NoRun THEN {} ELSE {<<resolved.key, resolved.sid>>})

OneEach(R, A) ==
  /\ R = {p[2] : p \in A}
  /\ \A p, q \in A : p[1] = q[1] \/ p[2] = q[2] => p = q

TasksActed(T, A, can) ==
  /\ \A t \in TaskIds, s \in Sessions :
       <<<<"task", t>>, s>> \in A => Is(T, t, {"running"}) /\ s = T[t].to
  /\ \A t \in TaskIds : Is(T, t, {"running"}) => <<<<"task", t>>, T[t].to>> \in A
  /\ \A t \in can : Is(T, t, {"running"})

ResultsKept(T, D, A, iss) ==
  /\ \A d \in D :
       /\ d.task \in iss
       /\ \A s \in Sessions : <<<<"result", d.task>>, s>> \notin A
       /\ Present(T, d.task) =>
            T[d.task].status \in Ended /\ T[d.task].pending /\ T[d.task].from = d.sid
  /\ \A d, e \in D : d.task = e.task => d = e
  /\ \A t \in TaskIds, s \in Sessions :
       <<<<"result", t>>, s>> \in A =>
         t \in iss /\ (Present(T, t) => T[t].status \in Ended /\ ~T[t].pending)
  /\ \A t \in TaskIds :
       Present(T, t) => t \in iss /\ (T[t].pending => T[t].status \in Ended)

Kept(T, D, R, A, can, iss) ==
  OneEach(R, A) /\ TasksActed(T, A, can) /\ ResultsKept(T, D, A, iss)

(* A team turn is either running or has settled, never both.               *)
SettledOnce ==
  resolved # NoRun =>
    resolved.key \in RunKeys /\ resolved.key[1] # "user" /\ runs[resolved.key] = NoRun

Bookkeeping ==
  /\ TypeOK
  /\ SettledOnce
  /\ Kept(tasks, deliveries, reserved, Acting, cancelRequested, issued)

LEMMA KeyFacts ==
  /\ \A t \in TaskIds : <<"task", t>> \in RunKeys /\ <<"result", t>> \in RunKeys
  /\ \A k \in RunKeys : k[1] # "user" =>
       \E t \in TaskIds : k = <<"task", t>> \/ k = <<"result", t>>
  BY DEF RunKeys

(* Forgetting ended tasks.                                                 *)
LEMMA TrimKeeps ==
  ASSUME NEW T \in Table, NEW D \in SUBSET Delivery, NEW R, NEW A,
         NEW can, NEW iss, can \subseteq TaskIds,
         Kept(T, D, R, A, can, iss), NEW G, G \subseteq Over(T)
  PROVE  Kept(Without(T, G), D, R, A, can, iss)
<1> DEFINE W == Without(T, G)
<1>1. \A t \in TaskIds :
        /\ Present(W, t) => Present(T, t) /\ W[t] = T[t]
        /\ Is(T, t, {"running"}) => W[t] = T[t]
        /\ Is(W, t, {"running"}) <=> Is(T, t, {"running"})
  BY DEF Without, Present, Is, Over, Ended
<1> HIDE DEF W
<1>2. TasksActed(W, A, can)
  BY <1>1 DEF Kept, TasksActed
<1>3. \A d \in D : d.task \in TaskIds
  BY DEF Delivery
<1>4. ResultsKept(W, D, A, iss)
  BY <1>1, <1>3 DEF Kept, ResultsKept
<1> QED
  BY <1>2, <1>4 DEF Kept, W

(* Requeueing results that are owed and dropping those of sessions that    *)
(* are gone.                                                               *)
LEMMA RequeueKeeps ==
  ASSUME NEW T \in Table, NEW D \in SUBSET Delivery, NEW D1 \in SUBSET Delivery,
         NEW R, NEW A, NEW can, NEW iss,
         Kept(T, D, R, A, can, iss), Requeued(T, D, D1)
  PROVE  Kept(T, D1, R, A, can, iss)
<1>1. ASSUME NEW d \in D1, d \notin D
      PROVE  /\ d.task \in TaskIds /\ Present(T, d.task)
             /\ T[d.task].status \in Ended /\ T[d.task].pending
             /\ d = [task |-> d.task, sid |-> T[d.task].from]
             /\ \A e \in D : e.task # d.task
  <2>1. PICK t \in Owed(T, D) : d = DeliveryOf(T, t)
    BY <1>1 DEF Requeued
  <2>2. d.task = t /\ d = [task |-> t, sid |-> T[t].from]
    BY <2>1 DEF DeliveryOf
  <2> QED
    BY <2>1, <2>2 DEF Owed, Over, Is
<1>2. \A d \in D1 :
        /\ d.task \in iss
        /\ \A s \in Sessions : <<<<"result", d.task>>, s>> \notin A
        /\ Present(T, d.task) =>
             T[d.task].status \in Ended /\ T[d.task].pending /\ T[d.task].from = d.sid
  <2> SUFFICES ASSUME NEW d \in D1
               PROVE  /\ d.task \in iss
                      /\ \A s \in Sessions : <<<<"result", d.task>>, s>> \notin A
                      /\ Present(T, d.task) =>
                           /\ T[d.task].status \in Ended
                           /\ T[d.task].pending
                           /\ T[d.task].from = d.sid
    OBVIOUS
  <2>1. CASE d \in D
    BY <2>1 DEF Kept, ResultsKept
  <2>2. CASE d \notin D
    <3>1. T[d.task].from = d.sid
      BY <1>1, <2>2
    <3> QED
      BY <1>1, <2>2, <3>1 DEF Kept, ResultsKept
  <2> QED
    BY <2>1, <2>2
<1>3. \A d, e \in D1 : d.task = e.task => d = e
  <2> SUFFICES ASSUME NEW d \in D1, NEW e \in D1, d.task = e.task PROVE d = e
    OBVIOUS
  <2>1. CASE d \in D /\ e \in D
    BY <2>1 DEF Kept, ResultsKept
  <2>2. CASE d \notin D /\ e \notin D
    BY <1>1, <2>2
  <2>3. CASE ~(d \in D <=> e \in D)
    BY <1>1, <2>3
  <2> QED
    BY <2>1, <2>2, <2>3
<1> QED
  BY <1>2, <1>3 DEF Kept, ResultsKept

(* The runs that an assignment begins are new ones, each on a session of   *)
(* its own that nothing of the team was running on.                        *)
TeamActs(A) == A \subseteq RunKeys \X Sessions

NewRuns(next, R, A) ==
  /\ \A r, s \in DOMAIN next : next[r] = next[s] => r = s
  /\ \A s \in DOMAIN next :
       /\ next[s] \in RunKeys /\ next[s][1] # "user"
       /\ s \in Sessions /\ s \notin R
       /\ \A p \in A : p[1] # next[s] /\ p[2] # s

LEMMA AssignedAreNew ==
  ASSUME NEW T \in Table, NEW D \in SUBSET Delivery, NEW R, NEW A,
         NEW can, NEW iss, NEW next,
         Kept(T, D, R, A, can, iss), Assignment(next, T, D, R),
         TeamActs(A)
  PROVE  NewRuns(next, R, A)
<1>1. \A s \in DOMAIN next : s \in Sessions /\ s \notin R
  BY DEF Assignment, Assigned, Free
<1>2. ASSUME NEW s \in DOMAIN next
      PROVE  \E t \in TaskIds :
               \/ next[s] = <<"result", t>> /\ \E d \in D : d.task = t /\ d.sid = s
               \/ /\ next[s] = <<"task", t>> /\ T[t].to = s
                  /\ ~Is(T, t, {"running"})
  <2>1. PICK t \in TaskIds :
          \/ next[s] = <<"result", t>> /\ \E d \in D : d.task = t /\ d.sid = s
          \/ next[s] = <<"task", t>> /\ t \in QueuedFor(T, s)
    BY DEF Assignment, Assigned
  <2> QED
    BY <2>1 DEF QueuedFor, Is
<1>3. ASSUME NEW r \in DOMAIN next, NEW s \in DOMAIN next, next[r] = next[s]
      PROVE  r = s
  <2>1. PICK t \in TaskIds :
          \/ next[s] = <<"result", t>> /\ \E d \in D : d.task = t /\ d.sid = s
          \/ next[s] = <<"task", t>> /\ T[t].to = s
    BY <1>2
  <2>2. PICK v \in TaskIds :
          \/ next[r] = <<"result", v>> /\ \E d \in D : d.task = v /\ d.sid = r
          \/ next[r] = <<"task", v>> /\ T[v].to = r
    BY <1>2
  <2>3. t = v
    BY <1>3, <2>1, <2>2
  <2>4. CASE next[s] = <<"task", t>>
    BY <1>3, <2>1, <2>2, <2>3, <2>4
  <2>5. CASE next[s] = <<"result", t>>
    <3>1. PICK d \in D : d.task = t /\ d.sid = s
      BY <2>1, <2>5
    <3>2. PICK e \in D : e.task = t /\ e.sid = r
      BY <1>3, <2>2, <2>3, <2>5
    <3> QED
      BY <3>1, <3>2 DEF Kept, ResultsKept
  <2> QED
    BY <2>1, <2>4, <2>5
<1>4. ASSUME NEW s \in DOMAIN next, NEW p \in A PROVE p[1] # next[s] /\ p[2] # s
  <2>1. p[2] # s
    BY <1>1 DEF Kept, OneEach
  <2>2. ASSUME p[1] = next[s] PROVE FALSE
    <3>1. PICK t \in TaskIds :
            \/ next[s] = <<"result", t>> /\ \E d \in D : d.task = t /\ d.sid = s
            \/ next[s] = <<"task", t>> /\ T[t].to = s /\ ~Is(T, t, {"running"})
      BY <1>2
    <3>2. p = <<next[s], p[2]>> /\ p[2] \in Sessions
      BY <2>2 DEF TeamActs
    <3>3. CASE next[s] = <<"task", t>>
      BY <3>1, <3>2, <3>3 DEF Kept, TasksActed
    <3>4. CASE next[s] = <<"result", t>>
      BY <3>1, <3>2, <3>4 DEF Kept, ResultsKept
    <3> QED
      BY <3>1, <3>3, <3>4
  <2> QED
    BY <2>1, <2>2
<1>5. ASSUME NEW s \in DOMAIN next PROVE next[s] \in RunKeys /\ next[s][1] # "user"
  <2>1. PICK t \in TaskIds : next[s] = <<"result", t>> \/ next[s] = <<"task", t>>
    BY <1>2
  <2>2. next[s] \in RunKeys
    BY <2>1, KeyFacts
  <2>3. next[s][1] = "result" \/ next[s][1] = "task"
    BY <2>1
  <2> QED
    BY <2>2, <2>3
<1> QED
  BY <1>1, <1>3, <1>4, <1>5 DEF NewRuns

LEMMA ActingType ==
  ASSUME SessionsTypeOK
  PROVE  TeamActs(RunsActing)
<1>1. \A k \in TeamRuns : k \in RunKeys /\ runs[k] \in Run
  BY DEF TeamRuns, SessionsTypeOK
<1> QED
  BY <1>1 DEF RunsActing, Run, TeamActs

(* The turns that act once the runs of next have begun.                    *)
LEMMA BegunActing ==
  ASSUME SessionsTypeOK, NEW next, NEW with,
         DOMAIN next \subseteq Sessions,
         \A s \in DOMAIN next : with[s] \in Turn,
         NEW R, NewRuns(next, R, RunsActing),
         BeginTurns(DOMAIN next, next, with)
  PROVE  RunsActing' = RunsActing \cup {<<next[s], s>> : s \in DOMAIN next}
<1>1. ASSUME NEW s \in DOMAIN next
      PROVE  runs'[next[s]] # NoRun /\ runs'[next[s]].sid = s
  <2> DEFINE r == CHOOSE r \in DOMAIN next : next[r] = next[s]
  <2>1. r \in DOMAIN next /\ next[r] = next[s]
    OBVIOUS
  <2>2. r = s
    BY <2>1 DEF NewRuns
  <2>3. runs'[next[s]] = NewRun(r, with[r])
    BY DEF BeginTurns, NewRuns
  <2>4. NewRun(s, with[s]) \in Run
    BY NewRunType
  <2> HIDE DEF r
  <2>5. runs'[next[s]] = NewRun(s, with[s])
    BY <2>2, <2>3
  <2>6. NewRun(s, with[s]).sid = s
    BY DEF NewRun
  <2> QED
    BY <2>4, <2>5, <2>6, RunIsNotNoRun
<1>2. ASSUME NEW k \in RunKeys, \A s \in DOMAIN next : next[s] # k
      PROVE  runs'[k] = runs[k]
  BY <1>2 DEF BeginTurns
<1>3. ASSUME NEW k \in TeamRuns
      PROVE  k \in RunKeys /\ \A s \in DOMAIN next : next[s] # k
  <2>1. <<k, runs[k].sid>> \in RunsActing
    BY DEF RunsActing
  <2> QED
    BY <2>1 DEF TeamRuns, NewRuns
<1>4. \A k \in TeamRuns : k \in TeamRuns' /\ runs'[k] = runs[k]
  BY <1>2, <1>3 DEF TeamRuns
<1>5. \A s \in DOMAIN next : next[s] \in TeamRuns'
  BY <1>1 DEF TeamRuns, NewRuns
<1>6. ASSUME NEW k \in TeamRuns'
      PROVE  k \in TeamRuns \/ \E s \in DOMAIN next : next[s] = k
  BY <1>2, <1>6 DEF TeamRuns
<1>7. RunsActing' \subseteq RunsActing \cup {<<next[s], s>> : s \in DOMAIN next}
  <2> SUFFICES ASSUME NEW k \in TeamRuns'
               PROVE  <<k, runs'[k].sid>> \in
                        RunsActing \cup {<<next[s], s>> : s \in DOMAIN next}
    BY DEF RunsActing
  <2>1. CASE \E s \in DOMAIN next : next[s] = k
    BY <1>1, <2>1
  <2>2. CASE k \in TeamRuns
    BY <1>4, <2>2 DEF RunsActing
  <2> QED
    BY <1>6, <2>1, <2>2
<1>8. RunsActing \subseteq RunsActing'
  BY <1>4 DEF RunsActing
<1>9. \A s \in DOMAIN next : <<next[s], s>> \in RunsActing'
  BY <1>1, <1>5 DEF RunsActing
<1> QED
  BY <1>7, <1>8, <1>9

(* The tables once those runs have begun.                                  *)
LEMMA StartedKeeps ==
  ASSUME NEW T \in Table, NEW D \in SUBSET Delivery, NEW R, NEW A,
         NEW can, NEW iss, NEW next, NEW left,
         can \subseteq TaskIds, TeamActs(A),
         Kept(T, D, R, A, can, iss), Assignment(next, T, D, R),
         left = {d \in D : <<"result", d.task>> \notin Begun(next)}
  PROVE  Kept(Started(T, next), left, R \cup DOMAIN next,
              A \cup {<<next[s], s>> : s \in DOMAIN next}, can, iss)
<1>1. /\ \A r, s \in DOMAIN next : next[r] = next[s] => r = s
      /\ \A s \in DOMAIN next : \A p \in A : p[1] # next[s] /\ p[2] # s
  <2>1. NewRuns(next, R, A)
    BY AssignedAreNew
  <2> QED
    BY <2>1 DEF NewRuns
<1> DEFINE U == Started(T, next)
           B == A \cup {<<next[s], s>> : s \in DOMAIN next}
<1>2. OneEach(R \cup DOMAIN next, B)
  <2>1. R \cup DOMAIN next = {p[2] : p \in B}
    <3>1. R = {p[2] : p \in A}
      BY DEF Kept, OneEach
    <3>2. ASSUME NEW s \in DOMAIN next PROVE \E p \in B : s = p[2]
      <4>1. <<next[s], s>> \in B /\ s = <<next[s], s>>[2]
        OBVIOUS
      <4> QED
        BY <4>1
    <3>3. ASSUME NEW p \in B PROVE p[2] \in R \cup DOMAIN next
      BY <3>1
    <3> QED
      BY <3>1, <3>2, <3>3
  <2>2. ASSUME NEW p \in B, NEW q \in B, p[1] = q[1] \/ p[2] = q[2]
        PROVE  p = q
    <3>1. CASE p \in A /\ q \in A
      BY <2>2, <3>1 DEF Kept, OneEach
    <3>2. CASE p \notin A /\ q \notin A
      <4>1. PICK r \in DOMAIN next : p = <<next[r], r>>
        BY <3>2
      <4>2. PICK s \in DOMAIN next : q = <<next[s], s>>
        BY <3>2
      <4> QED
        BY <1>1, <2>2, <4>1, <4>2
    <3>3. CASE p \in A /\ q \notin A
      <4>1. PICK s \in DOMAIN next : q = <<next[s], s>>
        BY <3>3
      <4> QED
        BY <1>1, <2>2, <3>3, <4>1
    <3>4. CASE p \notin A /\ q \in A
      <4>1. PICK s \in DOMAIN next : p = <<next[s], s>>
        BY <3>4
      <4> QED
        BY <1>1, <2>2, <3>4, <4>1
    <3> QED
      BY <3>1, <3>2, <3>3, <3>4
  <2> QED
    BY <2>1, <2>2 DEF OneEach
<1>3. ASSUME NEW t \in TaskIds, <<"task", t>> \in Begun(next)
      PROVE  /\ <<"result", t>> \notin Begun(next)
             /\ Present(T, t) /\ T[t].status = "queued" /\ ~T[t].pending
             /\ <<<<"task", t>>, T[t].to>> \in B
             /\ \A d \in D : d.task # t
             /\ U[t] # NoTask /\ U[t].status = "running" /\ U[t].to = T[t].to
             /\ U[t].pending = T[t].pending
  <2>1. PICK s \in DOMAIN next : next[s] = <<"task", t>>
    BY <1>3 DEF Begun
  <2>2. t \in QueuedFor(T, s)
    BY <2>1 DEF Assignment, Assigned
  <2>3. T[t] \in Task /\ T[t].status = "queued" /\ T[t].to = s
    BY <2>2 DEF QueuedFor, Is, Present, Table
  <2>4. ~T[t].pending
    BY <2>2, <2>3 DEF QueuedFor, Is, Kept, ResultsKept, Ended
  <2>5. \A d \in D : d.task # t
    BY <2>2, <2>3 DEF QueuedFor, Is, Kept, ResultsKept, Ended
  <2>6. <<"result", t>> \notin Begun(next)
    BY <2>5 DEF Begun, Assignment, Assigned
  <2>7. U[t] = [T[t] EXCEPT !.status = "running"]
    BY <1>3 DEF Started
  <2>8. U[t] \in Task
    BY <2>2, <2>7, MovedType DEF QueuedFor, Is, Present, Status
  <2>9. U[t].status = "running" /\ U[t].to = T[t].to /\ U[t].pending = T[t].pending
    BY <2>3, <2>7 DEF Task
  <2>10. <<<<"task", t>>, T[t].to>> \in B
    BY <2>1, <2>3
  <2> QED
    BY <2>2, <2>3, <2>4, <2>5, <2>6, <2>8, <2>9, <2>10, TeamAssumption
       DEF QueuedFor, Is
<1>4. ASSUME NEW t \in TaskIds, <<"task", t>> \notin Begun(next)
      PROVE  /\ Present(U, t) <=> Present(T, t)
             /\ Present(T, t) =>
                  /\ U[t].status = T[t].status
                  /\ U[t].to = T[t].to
                  /\ U[t].from = T[t].from
                  /\ U[t].pending = (T[t].pending /\ <<"result", t>> \notin Begun(next))
  <2>1. CASE <<"result", t>> \in Begun(next) /\ Present(T, t)
    <3>1. U[t] = [T[t] EXCEPT !.pending = FALSE]
      BY <1>4, <2>1 DEF Started
    <3>2. T[t] \in Task
      BY <2>1 DEF Present, Table
    <3>3. U[t] \in Task
      BY <2>1, <3>1, PendingType DEF Present
    <3>4. /\ U[t].status = T[t].status /\ U[t].to = T[t].to
          /\ U[t].from = T[t].from /\ U[t].pending = FALSE
      BY <3>1, <3>2 DEF Task
    <3> QED
      BY <2>1, <3>3, <3>4, TeamAssumption DEF Present
  <2>2. CASE ~(<<"result", t>> \in Begun(next) /\ Present(T, t))
    <3>1. U[t] = T[t]
      BY <1>4, <2>2 DEF Started
    <3>2. Present(T, t) => T[t].pending \in BOOLEAN
      BY DEF Present, Table, Task
    <3> QED
      BY <2>2, <3>1, <3>2 DEF Present
  <2> QED
    BY <2>1, <2>2
<1>5. ASSUME NEW t \in TaskIds, NEW s, <<<<"task", t>>, s>> \in B
      PROVE  <<<<"task", t>>, s>> \in A \/ (<<"task", t>> \in Begun(next) /\ s = T[t].to)
  <2>1. CASE <<<<"task", t>>, s>> \notin A
    <3>1. PICK r \in DOMAIN next : <<<<"task", t>>, s>> = <<next[r], r>>
      BY <1>5, <2>1
    <3>2. next[r] = <<"task", t>> /\ r = s
      BY <3>1
    <3> QED
      BY <3>2 DEF Begun, Assignment, Assigned, QueuedFor
  <2> QED
    BY <2>1
<1>6. ASSUME NEW t \in TaskIds, NEW s, <<<<"result", t>>, s>> \in B
      PROVE  \/ <<<<"result", t>>, s>> \in A
             \/ <<"result", t>> \in Begun(next) /\ \E d \in D : d.task = t /\ d.sid = s
  <2>1. CASE <<<<"result", t>>, s>> \notin A
    <3>1. PICK r \in DOMAIN next : <<<<"result", t>>, s>> = <<next[r], r>>
      BY <1>6, <2>1
    <3>2. next[r] = <<"result", t>> /\ r = s
      BY <3>1
    <3> QED
      BY <3>2 DEF Begun, Assignment, Assigned
  <2> QED
    BY <2>1
<1> HIDE DEF U, B
<1>7. TasksActed(U, B, can)
  <2>1. ASSUME NEW t \in TaskIds, NEW s \in Sessions, <<<<"task", t>>, s>> \in B
        PROVE  Is(U, t, {"running"}) /\ s = U[t].to
    <3>1. CASE <<"task", t>> \in Begun(next)
      <4>1. <<<<"task", t>>, s>> \notin A
        BY <1>3, <3>1 DEF Kept, TasksActed, Is
      <4>2. s = T[t].to
        BY <1>5, <2>1, <4>1
      <4>3. U[t] # NoTask /\ U[t].status = "running" /\ U[t].to = T[t].to
        BY <1>3, <3>1
      <4> QED
        BY <4>2, <4>3 DEF Is, Present
    <3>2. CASE <<"task", t>> \notin Begun(next)
      BY <1>4, <1>5, <2>1, <3>2 DEF Kept, TasksActed, Is
    <3> QED
      BY <3>1, <3>2
  <2>2. ASSUME NEW t \in TaskIds, Is(U, t, {"running"})
        PROVE  <<<<"task", t>>, U[t].to>> \in B
    <3>1. CASE <<"task", t>> \in Begun(next)
      BY <1>3, <3>1
    <3>2. CASE <<"task", t>> \notin Begun(next)
      BY <1>4, <2>2, <3>2 DEF Kept, TasksActed, Is, B
    <3> QED
      BY <3>1, <3>2
  <2>3. ASSUME NEW t \in can PROVE Is(U, t, {"running"})
    <3>1. Is(T, t, {"running"})
      BY DEF Kept, TasksActed
    <3>2. CASE <<"task", t>> \in Begun(next)
      BY <1>3, <3>2 DEF Is, Present
    <3>3. CASE <<"task", t>> \notin Begun(next)
      BY <1>4, <3>1, <3>3 DEF Is
    <3> QED
      BY <3>2, <3>3
  <2> QED
    BY <2>1, <2>2, <2>3 DEF TasksActed
<1>8. ResultsKept(U, left, B, iss)
  <2>1. ASSUME NEW d \in left
        PROVE  /\ d.task \in iss
               /\ \A s \in Sessions : <<<<"result", d.task>>, s>> \notin B
               /\ Present(U, d.task) =>
                    U[d.task].status \in Ended /\ U[d.task].pending /\ U[d.task].from = d.sid
    <3>1. d \in D /\ d.task \in TaskIds /\ <<"result", d.task>> \notin Begun(next)
      BY DEF Delivery
    <3>2. <<"task", d.task>> \notin Begun(next)
      BY <1>3, <3>1
    <3>3. \A s \in Sessions : <<<<"result", d.task>>, s>> \notin B
      BY <1>6, <3>1 DEF Kept, ResultsKept
    <3> QED
      BY <1>4, <3>1, <3>2, <3>3 DEF Kept, ResultsKept
  <2>2. \A d, e \in left : d.task = e.task => d = e
    BY DEF Kept, ResultsKept
  <2>3. ASSUME NEW t \in TaskIds, NEW s \in Sessions, <<<<"result", t>>, s>> \in B
        PROVE  t \in iss /\ (Present(U, t) => U[t].status \in Ended /\ ~U[t].pending)
    <3>1. CASE <<<<"result", t>>, s>> \in A
      <4>1. t \in iss /\ (Present(T, t) => T[t].status \in Ended /\ ~T[t].pending)
        BY <3>1 DEF Kept, ResultsKept
      <4>2. <<"task", t>> \notin Begun(next)
        BY <1>3, <4>1 DEF Ended
      <4> QED
        BY <1>4, <4>1, <4>2
    <3>2. CASE <<"result", t>> \in Begun(next) /\ \E d \in D : d.task = t /\ d.sid = s
      <4>1. t \in iss /\ (Present(T, t) => T[t].status \in Ended)
        BY <3>2 DEF Kept, ResultsKept
      <4>2. <<"task", t>> \notin Begun(next)
        BY <1>3, <3>2
      <4> QED
        BY <1>4, <3>2, <4>1, <4>2
    <3> QED
      BY <1>6, <2>3, <3>1, <3>2
  <2>4. ASSUME NEW t \in TaskIds, Present(U, t)
        PROVE  t \in iss /\ (U[t].pending => U[t].status \in Ended)
    <3>1. CASE <<"task", t>> \in Begun(next)
      BY <1>3, <3>1 DEF Kept, ResultsKept
    <3>2. CASE <<"task", t>> \notin Begun(next)
      BY <1>4, <2>4, <3>2 DEF Kept, ResultsKept
    <3> QED
      BY <3>1, <3>2
  <2> QED
    BY <2>1, <2>2, <2>3, <2>4 DEF ResultsKept
<1> QED
  BY <1>2, <1>7, <1>8 DEF Kept, U, B

(* A kick keeps the books.                                                 *)
LEMMA KickKeeps ==
  ASSUME SessionsTypeOK, NEW T \in Table, NEW D \in SUBSET Delivery,
         NEW Q \in Orders, NEW R \in SUBSET Sessions, NEW can, NEW iss,
         mapOrder' \in Orders, can \subseteq TaskIds,
         Kept(T, D, R, RunsActing, can, iss),
         Kick(T, D, Q, R)
  PROVE  Kept(tasks', deliveries', reserved', RunsActing', can, iss)
<1>0. PICK D1 \in SUBSET Delivery, Q1 \in Orders : \E next :
        /\ Requeued(T, D, D1)
        /\ Assignment(next, T, D1, R)
        /\ Begin(next, T, D1, Q1, R)
  BY KickBegins
<1>1. PICK next :
        /\ Requeued(T, D, D1)
        /\ Assignment(next, T, D1, R)
        /\ Begin(next, T, D1, Q1, R)
  BY <1>0
<1> DEFINE with == [s \in DOMAIN next |-> TurnOf(T, next[s], s)]
           left == {d \in D1 : <<"result", d.task>> \notin Begun(next)}
           B == RunsActing \cup {<<next[s], s>> : s \in DOMAIN next}
<1>2. PICK G :
        /\ G = {} \/ G \in Trimmings(Started(T, next), {})
        /\ tasks' = Without(Started(T, next), G)
        /\ deliveries' = left
        /\ reserved' = R \cup DOMAIN next
        /\ BeginTurns(DOMAIN next, next, with)
  <2> HIDE DEF with
  <2> QED
    BY <1>1 DEF Begin, with
<1>3. \A s \in DOMAIN next : with[s] \in Turn
  BY <1>1, TurnOfType
<1> HIDE DEF with
<1>4. Kept(T, D1, R, RunsActing, can, iss)
  BY <1>1, RequeueKeeps
<1>5. TeamActs(RunsActing)
  BY ActingType
<1>6. NewRuns(next, R, RunsActing)
  BY <1>1, <1>4, <1>5, AssignedAreNew
<1>7. RunsActing' = B
  BY <1>1, <1>2, <1>3, <1>6, BegunActing DEF Assignment
<1>8. Kept(Started(T, next), left, R \cup DOMAIN next, B, can, iss)
  BY <1>1, <1>4, <1>5, StartedKeeps
<1>9. Started(T, next) \in Table
  BY <1>1, StartedType
<1>10. G \subseteq Over(Started(T, next))
  BY <1>2, TrimmingsKeep
<1>11. left \in SUBSET Delivery
  OBVIOUS
<1> HIDE DEF left, B
<1>12. Kept(Without(Started(T, next), G), left, R \cup DOMAIN next, B, can, iss)
  BY <1>8, <1>9, <1>10, <1>11, TrimKeeps
<1> QED
  BY <1>2, <1>7, <1>12

(* A task that was not ended ends, its turn (if it had one) is over, and   *)
(* its result is put in the queue: resolve, then enqueueDelivery.          *)
LEMMA OutcomeKeeps ==
  ASSUME NEW T \in Table, NEW D \in SUBSET Delivery, NEW R \in SUBSET Sessions,
         NEW A, NEW can, NEW iss, NEW t \in TaskIds, NEW st \in Ended,
         can \subseteq TaskIds, TeamActs(A),
         Kept(T, D, R, A, can, iss), T[t] # NoTask, T[t].status \notin Ended,
         NEW G \in Trimmings(Moved(T, t, st), {t}),
         NEW R1, NEW A1,
         A1 = {p \in A : p[1] # <<"task", t>>},
         R1 = {p[2] : p \in A1}
  PROVE  LET T1 == MarkPending(Without(Moved(T, t, st), G), t)
         IN  Kept(T1, Queued(T1, D, t), R1, A1, can \ {t}, iss)
<1> DEFINE M  == Moved(T, t, st)
           W  == Without(M, G)
           T1 == MarkPending(W, t)
           D1 == Queued(T1, D, t)
<1>1. /\ M \in Table /\ M[t] = [T[t] EXCEPT !.status = st] /\ M[t] # NoTask
      /\ \A v \in TaskIds \ {t} : M[v] = T[v]
  BY RecordedType DEF Status
<1> HIDE DEF M
<1>2. G \subseteq Over(M) \ {t}
  BY TrimmingsKeep DEF M
<1>3. /\ W \in Table /\ W[t] = M[t]
      /\ \A v \in TaskIds \ {t} : W[v] = IF v \in G THEN NoTask ELSE T[v]
  BY <1>1, <1>2, WithoutType DEF Without
<1> HIDE DEF W
<1>4. /\ T1[t] = [W[t] EXCEPT !.pending = TRUE] /\ T1[t] # NoTask
      /\ \A v \in TaskIds \ {t} : T1[v] = W[v]
  <2>1. W \in Table /\ W[t] # NoTask
    BY <1>1, <1>3
  <2> QED
    BY <2>1, PendingTable
<1> HIDE DEF T1
<1>5. T[t] \in Task
  BY DEF Table
<1>6. /\ T1[t].status = st /\ T1[t].pending = TRUE /\ T1[t].from = T[t].from
      /\ T1[t] # NoTask
  BY <1>1, <1>3, <1>4, <1>5 DEF Task
<1>7. ASSUME NEW v \in TaskIds, v # t
      PROVE  /\ Present(T1, v) => Present(T, v) /\ T1[v] = T[v]
             /\ Is(T, v, {"running"}) <=> Is(T1, v, {"running"})
  <2>1. Is(T, v, {"running"}) => v \notin G
    BY <1>1, <1>2, <1>7 DEF Is, Over, Ended
  <2>2. T1[v] = IF v \in G THEN NoTask ELSE T[v]
    BY <1>3, <1>4, <1>7
  <2> QED
    BY <2>1, <2>2 DEF Present, Is
<1>8. OneEach(R1, A1)
  BY DEF Kept, OneEach
<1>9. TasksActed(T1, A1, can \ {t})
  <2>1. ASSUME NEW v \in TaskIds, NEW s \in Sessions, <<<<"task", v>>, s>> \in A1
        PROVE  Is(T1, v, {"running"}) /\ s = T1[v].to
    <3>1. <<<<"task", v>>, s>> \in A /\ v # t
      BY <2>1
    <3>2. Is(T, v, {"running"}) /\ s = T[v].to
      BY <3>1 DEF Kept, TasksActed
    <3> QED
      BY <1>7, <3>1, <3>2 DEF Is
  <2>2. ASSUME NEW v \in TaskIds, Is(T1, v, {"running"})
        PROVE  <<<<"task", v>>, T1[v].to>> \in A1
    <3>1. v # t
      BY <1>6, <2>2 DEF Is, Ended
    <3>2. Is(T, v, {"running"}) /\ T1[v] = T[v]
      BY <1>7, <2>2, <3>1 DEF Is
    <3>3. <<<<"task", v>>, T1[v].to>> \in A
      BY <3>2 DEF Kept, TasksActed
    <3> QED
      BY <3>1, <3>3
  <2>3. ASSUME NEW v \in can \ {t} PROVE Is(T1, v, {"running"})
    BY <1>7 DEF Kept, TasksActed
  <2> QED
    BY <2>1, <2>2, <2>3 DEF TasksActed
<1>10. /\ \A d \in D : d.task # t
       /\ \A s \in Sessions : <<<<"result", t>>, s>> \notin A
       /\ t \in iss
  BY DEF Kept, ResultsKept, Present
<1>11. D1 \subseteq D \cup {[task |-> t, sid |-> T[t].from]} /\ D \subseteq D1
  <2>1. T1[t].from = T[t].from
    BY <1>6
  <2> QED
    BY <2>1 DEF Queued, DeliveryOf
<1> HIDE DEF D1
<1>12. ResultsKept(T1, D1, A1, iss)
  <2>1. ASSUME NEW d \in D1
        PROVE  /\ d.task \in iss
               /\ \A s \in Sessions : <<<<"result", d.task>>, s>> \notin A1
               /\ Present(T1, d.task) =>
                    T1[d.task].status \in Ended /\ T1[d.task].pending /\ T1[d.task].from = d.sid
    <3>1. CASE d \in D
      <4>1. d.task \in TaskIds /\ d.task # t
        BY <1>10, <3>1 DEF Delivery
      <4> QED
        BY <1>7, <3>1, <4>1 DEF Kept, ResultsKept
    <3>2. CASE d \notin D
      <4>1. d.task = t /\ d.sid = T[t].from
        BY <1>11, <3>2
      <4> QED
        BY <1>6, <1>10, <4>1
    <3> QED
      BY <3>1, <3>2
  <2>2. ASSUME NEW d \in D1, NEW e \in D1, d.task = e.task PROVE d = e
    <3>1. CASE d \in D /\ e \in D
      BY <2>2, <3>1 DEF Kept, ResultsKept
    <3>2. CASE ~(d \in D /\ e \in D)
      BY <1>10, <1>11, <2>2, <3>2
    <3> QED
      BY <3>1, <3>2
  <2>3. ASSUME NEW v \in TaskIds, NEW s \in Sessions, <<<<"result", v>>, s>> \in A1
        PROVE  v \in iss /\ (Present(T1, v) => T1[v].status \in Ended /\ ~T1[v].pending)
    <3>1. <<<<"result", v>>, s>> \in A /\ v # t
      BY <1>10, <2>3
    <3> QED
      BY <1>7, <3>1 DEF Kept, ResultsKept
  <2>4. ASSUME NEW v \in TaskIds, Present(T1, v)
        PROVE  v \in iss /\ (T1[v].pending => T1[v].status \in Ended)
    <3>1. CASE v = t
      BY <1>6, <1>10, <3>1
    <3>2. CASE v # t
      BY <1>7, <2>4, <3>2 DEF Kept, ResultsKept
    <3> QED
      BY <3>1, <3>2
  <2> QED
    BY <2>1, <2>2, <2>3, <2>4 DEF ResultsKept
<1> QED
  BY <1>8, <1>9, <1>12 DEF Kept, M, W, T1, D1

(* Steps that start and end no team turn.                                  *)
SameTeamRuns ==
  \A k \in RunKeys : k[1] # "user" =>
    /\ runs'[k] = NoRun <=> runs[k] = NoRun
    /\ runs[k] # NoRun => runs'[k].sid = runs[k].sid

LEMMA SameActing ==
  ASSUME SameTeamRuns
  PROVE  RunsActing' = RunsActing
<1>1. \A k \in RunKeys : k \in TeamRuns' <=> k \in TeamRuns
  BY DEF SameTeamRuns, TeamRuns
<1>2. \A k \in TeamRuns : runs'[k].sid = runs[k].sid
  BY DEF SameTeamRuns, TeamRuns
<1>3. TeamRuns' = TeamRuns
  BY <1>1 DEF TeamRuns
<1> QED
  BY <1>2, <1>3 DEF RunsActing

LEMMA AbortSame ==
  ASSUME SessionsTypeOK, NEW s \in Sessions, runs' = Aborted(s)
  PROVE  SameTeamRuns
  BY AbortedRuns DEF SameTeamRuns

LEMMA PromptSame ==
  ASSUME SessionsTypeOK, NEW k \in RunKeys, StartPrompt(k)
  PROVE  SameTeamRuns
<1>1. runs[k] \in Run
  BY DEF SessionsTypeOK, StartPrompt
<1>2. [runs[k] EXCEPT !.stage = "prompting"] \in Run
      /\ [runs[k] EXCEPT !.stage = "prompting"].sid = runs[k].sid
  BY <1>1 DEF Run
<1>3. runs' = [runs EXCEPT ![k] = [@ EXCEPT !.stage = "prompting"]]
  BY DEF StartPrompt
<1> QED
  BY <1>1, <1>2, <1>3, RunIsNotNoRun DEF SessionsTypeOK, SameTeamRuns

LEMMA SendSame ==
  ASSUME SessionsTypeOK, NEW u \in Outside, NEW s \in Sessions, Send(u, s)
  PROVE  SameTeamRuns
<1> DEFINE who == [r \in {s} |-> <<"user", u>>]
           with == [r \in {s} |-> UserTurn(r)]
<1>1. BeginTurns({s}, who, with)
  BY DEF Send
<1>2. \A k \in RunKeys : k[1] # "user" => ~\E r \in {s} : who[r] = k
  OBVIOUS
<1> HIDE DEF who, with
<1>3. \A k \in RunKeys : k[1] # "user" => runs'[k] = runs[k]
  BY <1>1, <1>2 DEF BeginTurns
<1> QED
  BY <1>3 DEF SameTeamRuns

(* A team turn that settles acts on until its continuation has run.        *)
LEMMA SettleActing ==
  ASSUME TypeOK, NEW k \in RunKeys, NEW ok \in BOOLEAN, Settle(k, ok)
  PROVE  Acting' = Acting /\ SettledOnce'
<1>1. /\ resolved = NoRun /\ runs[k] \in Run
      /\ runs'[k] = NoRun /\ \A j \in RunKeys \ {k} : runs'[j] = runs[j]
  BY DEF TypeOK, Settle, EndTurn, SessionsTypeOK
<1>2. runs[k].sid \in Sessions
  BY <1>1 DEF Run
<1>3. CASE k[1] = "user"
  <2>1. SameTeamRuns
    BY <1>1, <1>3 DEF SameTeamRuns
  <2>2. resolved' = NoRun
    BY <1>3 DEF Settle
  <2> QED
    BY <1>1, <2>1, <2>2, SameActing DEF Acting, SettledOnce
<1>4. CASE k[1] # "user"
  <2>1. resolved' = [key |-> k, sid |-> runs[k].sid, ok |-> ok]
    BY <1>4 DEF Settle
  <2>2. resolved' \in Resolved
    BY <1>2, <2>1 DEF Resolved
  <2>3. resolved' # NoRun /\ resolved'.key = k /\ resolved'.sid = runs[k].sid
    BY <2>1, <2>2, TeamAssumption
  <2>4. SettledOnce'
    BY <1>1, <1>4, <2>3 DEF SettledOnce
  <2>5. k \in TeamRuns
    BY <1>1, <1>4, RunIsNotNoRun DEF TeamRuns
  <2>6. TeamRuns' = TeamRuns \ {k}
    BY <1>1 DEF TeamRuns
  <2>7. \A j \in TeamRuns \ {k} : runs'[j] = runs[j]
    BY <1>1 DEF TeamRuns
  <2>8. RunsActing' = {<<j, runs[j].sid>> : j \in TeamRuns \ {k}}
    BY <2>6, <2>7 DEF RunsActing
  <2>9. Acting' = RunsActing' \cup {<<k, runs[k].sid>>}
    BY <2>3 DEF Acting
  <2>10. Acting = {<<j, runs[j].sid>> : j \in TeamRuns}
    BY <1>1 DEF Acting, RunsActing
  <2> QED
    BY <2>4, <2>5, <2>8, <2>9, <2>10
<1> QED
  BY <1>3, <1>4

-----------------------------------------------------------------------------
(* What the books say, in the words of module Team.                        *)

LEMMA ActingIs ==
  ASSUME TypeOK, SettledOnce
  PROVE  /\ TeamActs(Acting)
         /\ \A k \in RunKeys, s \in Sessions :
              <<k, s>> \in Acting <=>
                \/ k \in TeamRuns /\ runs[k].sid = s
                \/ resolved # NoRun /\ resolved.key = k /\ resolved.sid = s
         /\ resolved # NoRun => resolved.sid \in Sessions
<1>1. TeamActs(RunsActing)
  BY ActingType DEF TypeOK
<1>2. resolved # NoRun => resolved.key \in RunKeys /\ resolved.sid \in Sessions
  BY DEF TypeOK, Resolved
<1>3. TeamActs(Acting)
  BY <1>1, <1>2 DEF Acting, TeamActs
<1> QED
  BY <1>2, <1>3 DEF Acting, RunsActing

LEMMA BooksBalance ==
  ASSUME Bookkeeping
  PROVE  ReservedByOneTurn /\ RunningIsWorkedOn /\ ResultsWaitOnce
<1>1. TypeOK /\ SettledOnce
  BY DEF Bookkeeping
<1>2. /\ OneEach(reserved, Acting)
      /\ TasksActed(tasks, Acting, cancelRequested)
      /\ ResultsKept(tasks, deliveries, Acting, issued)
  BY DEF Bookkeeping, Kept
<1>3. \A k \in TeamRuns : k \in RunKeys /\ runs[k].sid \in Sessions /\ <<k, runs[k].sid>> \in Acting
  <2>1. \A k \in TeamRuns : k \in RunKeys /\ runs[k] \in Run
    BY <1>1 DEF TypeOK, SessionsTypeOK, TeamRuns
  <2> QED
    BY <2>1 DEF Run, Acting, RunsActing
<1>4. resolved # NoRun =>
        /\ resolved.key \in RunKeys /\ resolved.sid \in Sessions
        /\ <<resolved.key, resolved.sid>> \in Acting
        /\ resolved.key \notin TeamRuns
  BY <1>1, ActingIs DEF Acting, SettledOnce, TeamRuns
<1>5. ReservedByOneTurn
  <2>1. reserved = {runs[k].sid : k \in TeamRuns}
                     \cup (IF resolved = NoRun THEN {} ELSE {resolved.sid})
    <3>1. \A s : s \in reserved <=> \E p \in Acting : s = p[2]
      BY <1>2 DEF OneEach
    <3>2. ASSUME NEW k \in TeamRuns PROVE runs[k].sid \in reserved
      <4>1. <<k, runs[k].sid>>[2] = runs[k].sid
        OBVIOUS
      <4> QED
        BY <1>3, <3>1, <4>1
    <3>3. ASSUME resolved # NoRun PROVE resolved.sid \in reserved
      <4>1. <<resolved.key, resolved.sid>>[2] = resolved.sid
        OBVIOUS
      <4> QED
        BY <1>4, <3>1, <3>3, <4>1
    <3>4. ASSUME NEW s \in reserved
          PROVE  \/ \E k \in TeamRuns : s = runs[k].sid
                 \/ resolved # NoRun /\ s = resolved.sid
      <4>1. PICK p \in Acting : s = p[2]
        BY <3>1
      <4>2. CASE p \in RunsActing
        BY <4>1, <4>2 DEF RunsActing
      <4>3. CASE p \notin RunsActing
        BY <4>1, <4>3 DEF Acting
      <4> QED
        BY <4>2, <4>3
    <3> QED
      BY <3>2, <3>3, <3>4
  <2>2. \A j, k \in TeamRuns : runs[j].sid = runs[k].sid => j = k
    <3> SUFFICES ASSUME NEW j \in TeamRuns, NEW k \in TeamRuns, runs[j].sid = runs[k].sid
                 PROVE  j = k
      OBVIOUS
    <3>1. <<j, runs[j].sid>> = <<k, runs[k].sid>>
      BY <1>2, <1>3 DEF OneEach
    <3> QED
      BY <3>1
  <2>3. resolved # NoRun => \A k \in TeamRuns : runs[k].sid # resolved.sid
    <3> SUFFICES ASSUME resolved # NoRun, NEW k \in TeamRuns, runs[k].sid = resolved.sid
                 PROVE  FALSE
      OBVIOUS
    <3>1. <<k, runs[k].sid>> = <<resolved.key, resolved.sid>>
      BY <1>2, <1>3, <1>4 DEF OneEach
    <3> QED
      BY <1>4, <3>1
  <2> QED
    BY <2>1, <2>2, <2>3 DEF ReservedByOneTurn
<1>6. RunningIsWorkedOn
  <2>1. ASSUME NEW t \in TaskIds, Is(tasks, t, {"running"}) PROVE Working(t)
    <3>1. <<<<"task", t>>, tasks[t].to>> \in Acting
      BY <1>2, <2>1 DEF TasksActed
    <3>2. tasks[t].to \in Sessions /\ <<"task", t>> \in RunKeys
      BY <1>1, <2>1, KeyFacts DEF Is, Present, TypeOK, Task
    <3> QED
      BY <1>1, <3>1, <3>2, ActingIs DEF Working, TeamRuns
  <2>2. ASSUME NEW t \in TaskIds,
               runs[<<"task", t>>] # NoRun \/ (resolved # NoRun /\ resolved.key = <<"task", t>>)
        PROVE  Is(tasks, t, {"running"})
    <3>1. <<"task", t>> \in TeamRuns \/ (resolved # NoRun /\ resolved.key = <<"task", t>>)
      BY <2>2, KeyFacts DEF TeamRuns
    <3>2. \E s \in Sessions : <<<<"task", t>>, s>> \in Acting
      BY <1>3, <1>4, <3>1
    <3> QED
      BY <1>2, <3>2 DEF TasksActed
  <2>3. \A t \in TaskIds : t \in cancelRequested => Is(tasks, t, {"running"})
    BY <1>2 DEF TasksActed
  <2> QED
    BY <2>1, <2>2, <2>3 DEF RunningIsWorkedOn
<1>7. ASSUME NEW t \in TaskIds, Telling(t)
      PROVE  \E s \in Sessions : <<<<"result", t>>, s>> \in Acting
  <2>1. <<"result", t>> \in TeamRuns \/ (resolved # NoRun /\ resolved.key = <<"result", t>>)
    BY <1>7, KeyFacts DEF Telling, TeamRuns
  <2> QED
    BY <1>3, <1>4, <2>1
<1>8. ResultsWaitOnce
  <2>1. \A d \in deliveries : d.task \in TaskIds
    BY <1>1 DEF TypeOK, Delivery
  <2> QED
    BY <1>2, <1>7, <2>1 DEF ResultsWaitOnce, ResultsKept
<1> QED
  BY <1>5, <1>6, <1>8

(* A task that has just been accepted is not in any book yet.              *)
LEMMA EnqueueKeeps ==
  ASSUME NEW D \in SUBSET Delivery, NEW R, NEW A, NEW can, NEW iss, NEW t \in TaskIds,
         can \subseteq TaskIds,
         NEW T0 \in Table, NEW new \in Task, NEW T, T = [T0 EXCEPT ![t] = new],
         new.status = "queued", new.pending = FALSE,
         Kept(T0, D, R, A, can, iss), t \notin iss
  PROVE  Kept(T, D, R, A, can, iss \cup {t})
<1>1. T[t] = new /\ \A v \in TaskIds \ {t} : T[v] = T0[v]
  BY DEF Table
<1>2. /\ ~Present(T0, t) /\ ~Is(T0, t, {"running"}) /\ ~Is(T, t, {"running"})
      /\ \A d \in D : d.task # t
      /\ \A s \in Sessions : <<<<"result", t>>, s>> \notin A
  BY <1>1 DEF Kept, ResultsKept, Is
<1>3. TasksActed(T, A, can)
  <2>1. \A v \in TaskIds : Is(T, v, {"running"}) <=> Is(T0, v, {"running"})
    BY <1>1, <1>2 DEF Is, Present
  <2>2. \A v \in TaskIds : Is(T, v, {"running"}) => T[v].to = T0[v].to
    BY <1>1, <1>2
  <2> QED
    BY <2>1, <2>2 DEF Kept, TasksActed
<1>4. ResultsKept(T, D, A, iss \cup {t})
  <2>1. \A d \in D : d.task \in TaskIds
    BY DEF Delivery
  <2> QED
    BY <1>1, <1>2, <2>1 DEF Kept, ResultsKept, Present
<1> QED
  BY <1>3, <1>4 DEF Kept

-----------------------------------------------------------------------------
(* The steps.                                                              *)

BooksOK ==
  SettledOnce /\ Kept(tasks, deliveries, reserved, Acting, cancelRequested, issued)

(* Steps that leave the tables alone and mark running tasks at most.       *)
LEMMA SameBooks ==
  ASSUME BooksOK, SameTeamRuns,
         UNCHANGED <<tasks, deliveries, reserved, issued, resolved>>,
         NEW S, \A t \in S : Is(tasks, t, {"running"}),
         cancelRequested' = cancelRequested \cup S
  PROVE  BooksOK'
<1>1. Acting' = Acting
  BY SameActing DEF Acting
<1>2. SettledOnce'
  BY DEF BooksOK, SettledOnce, SameTeamRuns
<1>3. TasksActed(tasks, Acting, cancelRequested \cup S)
  BY DEF BooksOK, Kept, TasksActed
<1>4. Kept(tasks, deliveries, reserved, Acting, cancelRequested \cup S, issued)
  BY <1>3 DEF BooksOK, Kept
<1> QED
  BY <1>1, <1>2, <1>4 DEF BooksOK

LEMMA UnmarkedBooks ==
  ASSUME BooksOK, SameTeamRuns,
         UNCHANGED <<tasks, deliveries, reserved, cancelRequested, issued, resolved>>
  PROVE  BooksOK'
<1> DEFINE none == {}
<1>1. cancelRequested' = cancelRequested \cup none
  OBVIOUS
<1>2. \A t \in none : Is(tasks, t, {"running"})
  OBVIOUS
<1> HIDE DEF none
<1> QED
  BY <1>1, <1>2, SameBooks

(* Steps that end in a kick.                                               *)
LEMMA KickBalances ==
  ASSUME SessionsTypeOK, NEW T \in Table, NEW D \in SUBSET Delivery,
         NEW Q \in Orders, NEW R \in SUBSET Sessions,
         mapOrder' \in Orders, cancelRequested' \subseteq TaskIds,
         Kept(T, D, R, RunsActing, cancelRequested', issued'),
         resolved' = NoRun, Kick(T, D, Q, R)
  PROVE  BooksOK'
<1>1. Kept(tasks', deliveries', reserved', RunsActing', cancelRequested', issued')
  BY KickKeeps
<1>2. Acting' = RunsActing'
  BY DEF Acting
<1> QED
  BY <1>1, <1>2 DEF BooksOK, SettledOnce

(* The turn that has settled gives its session back.                       *)
LEMMA Released ==
  ASSUME TypeOK, BooksOK, resolved # NoRun
  PROVE  /\ RunsActing = {p \in Acting : p[1] # resolved.key}
         /\ reserved \ {resolved.sid} = {p[2] : p \in RunsActing}
         /\ <<resolved.key, resolved.sid>> \in Acting
<1>1. \A p \in RunsActing : p[1] # resolved.key
  BY DEF BooksOK, SettledOnce, RunsActing, TeamRuns
<1>2. Acting = RunsActing \cup {<<resolved.key, resolved.sid>>}
  BY DEF Acting
<1>3. RunsActing = {p \in Acting : p[1] # resolved.key}
  BY <1>1, <1>2
<1>4. ASSUME NEW s \in reserved, s # resolved.sid
      PROVE  \E p \in RunsActing : s = p[2]
  <2>1. PICK p \in Acting : s = p[2]
    BY DEF BooksOK, Kept, OneEach
  <2> QED
    BY <1>2, <1>4, <2>1
<1>5. ASSUME NEW p \in RunsActing
      PROVE  p[2] \in reserved /\ p[2] # resolved.sid
  <2>1. p \in Acting /\ p[2] \in reserved
    BY <1>2 DEF BooksOK, Kept, OneEach
  <2>2. p[2] = resolved.sid => p = <<resolved.key, resolved.sid>>
    BY <1>2, <2>1 DEF BooksOK, Kept, OneEach
  <2> QED
    BY <1>1, <2>1, <2>2
<1> QED
  BY <1>2, <1>3, <1>4, <1>5

(* The turn k does not act any more.                                       *)
OverNow(k, A, A1, R1) == A1 = {p \in A : p[1] # k} /\ R1 = {p[2] : p \in A1}

(* A result turn is over: nothing else refers to it.                       *)
LEMMA ToldKeeps ==
  ASSUME NEW T, NEW D \in SUBSET Delivery, NEW R, NEW A, NEW can, NEW iss,
         NEW t \in TaskIds, Kept(T, D, R, A, can, iss),
         NEW R1, NEW A1, OverNow(<<"result", t>>, A, A1, R1)
  PROVE  Kept(T, D, R1, A1, can, iss)
<1>0. A1 = {p \in A : p[1] # <<"result", t>>} /\ R1 = {p[2] : p \in A1}
  BY DEF OverNow
<1>1. OneEach(R1, A1)
  BY <1>0 DEF Kept, OneEach
<1>2. \A v \in TaskIds, s \in Sessions :
        <<<<"task", v>>, s>> \in A1 <=> <<<<"task", v>>, s>> \in A
  BY <1>0
<1>3. A1 \subseteq A
  BY <1>0
<1>4. ASSUME NEW v \in TaskIds, Is(T, v, {"running"})
      PROVE  <<<<"task", v>>, T[v].to>> \in A1
  <2>1. <<<<"task", v>>, T[v].to>> \in A
    BY <1>4 DEF Kept, TasksActed
  <2> QED
    BY <1>0, <2>1
<1>5. TasksActed(T, A1, can)
  BY <1>2, <1>4 DEF Kept, TasksActed
<1>6. ResultsKept(T, D, A1, iss)
  BY <1>3 DEF Kept, ResultsKept, Delivery
<1> QED
  BY <1>1, <1>5, <1>6 DEF Kept

(* Tasks that were queued are dropped without a result.                    *)
LEMMA DropKeeps ==
  ASSUME NEW T \in Table, NEW D \in SUBSET Delivery, NEW D1 \in SUBSET D,
         NEW R, NEW A, NEW can, NEW iss, can \subseteq TaskIds,
         Kept(T, D, R, A, can, iss),
         NEW gone \in SUBSET TaskIds, \A t \in gone : Is(T, t, {"queued"}),
         NEW W \in Table,
         \A t \in gone : W[t] = [T[t] EXCEPT !.status = "cancelled"],
         \A t \in TaskIds \ gone : W[t] = T[t]
  PROVE  Kept(W, D1, R, A, can, iss)
<1>1. ASSUME NEW t \in gone
      PROVE  /\ t \in TaskIds /\ Present(T, t) /\ ~Is(T, t, {"running"})
             /\ ~Is(W, t, {"running"})
             /\ W[t].pending = FALSE /\ W[t].status = "cancelled"
             /\ \A d \in D : d.task # t
             /\ \A s \in Sessions : <<<<"result", t>>, s>> \notin A
             /\ t \in iss
  <2>1. t \in TaskIds /\ T[t] \in Task /\ T[t].status = "queued" /\ Present(T, t)
    BY DEF Is, Present, Table
  <2>2. W[t].status = "cancelled" /\ W[t].pending = T[t].pending
    BY <2>1 DEF Task
  <2>3. T[t].pending = FALSE /\ t \in iss
    <3>1. ~T[t].pending /\ t \in iss
      BY <2>1 DEF Kept, ResultsKept, Ended
    <3>2. T[t].pending \in BOOLEAN
      BY <2>1 DEF Task
    <3> QED
      BY <3>1, <3>2
  <2>4. /\ \A d \in D : d.task # t
        /\ \A s \in Sessions : <<<<"result", t>>, s>> \notin A
    BY <2>1 DEF Kept, ResultsKept, Ended
  <2> QED
    BY <2>1, <2>2, <2>3, <2>4 DEF Is
<1>2. TasksActed(W, A, can)
  <2>1. \A t \in TaskIds :
          /\ Is(W, t, {"running"}) <=> Is(T, t, {"running"})
          /\ Is(W, t, {"running"}) => W[t].to = T[t].to
    BY <1>1 DEF Is, Present
  <2> QED
    BY <2>1 DEF Kept, TasksActed
<1>3. \A d \in D : d.task \in TaskIds /\ d.task \notin gone
  BY <1>1 DEF Delivery
<1>4. \A t \in TaskIds \ gone : W[t] = T[t] /\ (Present(W, t) <=> Present(T, t))
  BY DEF Present
<1>5. ResultsKept(W, D1, A, iss)
  <2>1. \A d \in D1 :
          /\ d.task \in iss
          /\ \A s \in Sessions : <<<<"result", d.task>>, s>> \notin A
          /\ Present(W, d.task) =>
               /\ W[d.task].status \in Ended
               /\ W[d.task].pending
               /\ W[d.task].from = d.sid
    BY <1>3, <1>4 DEF Kept, ResultsKept
  <2>2. \A d, e \in D1 : d.task = e.task => d = e
    BY DEF Kept, ResultsKept
  <2>3. \A t \in TaskIds, s \in Sessions :
          <<<<"result", t>>, s>> \in A =>
            t \in iss /\ (Present(W, t) => W[t].status \in Ended /\ ~W[t].pending)
    BY <1>1, <1>4 DEF Kept, ResultsKept
  <2>4. \A t \in TaskIds :
          Present(W, t) => t \in iss /\ (W[t].pending => W[t].status \in Ended)
    BY <1>1, <1>4 DEF Kept, ResultsKept, Ended
  <2> QED
    BY <2>1, <2>2, <2>3, <2>4 DEF ResultsKept
<1> QED
  BY <1>2, <1>5 DEF Kept

(* A step may mark more running tasks.                                     *)
LEMMA MarksKeep ==
  ASSUME NEW T, NEW D, NEW R, NEW A, NEW can, NEW iss, NEW S,
         Kept(T, D, R, A, can, iss), \A t \in S : Is(T, t, {"running"})
  PROVE  Kept(T, D, R, A, can \cup S, iss)
  BY DEF Kept, TasksActed

(* How the table T that an action kicks with differs from the stored one:  *)
(* a task was forgotten, accepted or ended.  When one ended, the history   *)
(* is back within its limit, so the kick itself forgets nothing.           *)
EndedNow(T, t) ==
  /\ Is(tasks, t, {"queued", "running"})
  /\ Is(T, t, Ended)
  /\ tasks[t].status = "queued" => T[t].status = "cancelled"
  /\ T[t].to = tasks[t].to
  /\ IsFiniteSet(issued) => Cardinality(Over(T)) <= MaxHistory

Prepared(T) ==
  \A t \in TaskIds :
    \/ T[t] = tasks[t] /\ t \notin issued' \ issued
    \/ T[t] = NoTask /\ Is(tasks, t, Ended)
    \/ t \in issued' \ issued /\ Is(T, t, {"queued"})
    \/ EndedNow(T, t)

LEMMA TrimmedFits ==
  ASSUME NEW T, NEW newest, IsFiniteSet(Over(T)), NEW G \in Trimmings(T, newest)
  PROVE  Cardinality(Over(Without(T, G))) <= MaxHistory
<1>1. G \subseteq Over(T)
  BY TrimmingsKeep
<1>2. Over(Without(T, G)) = Over(T) \ G
  BY DEF Over, Is, Present, Without
<1>3. Cardinality(Over(T)) \in Nat /\ MaxHistory \in Nat
  BY FS_CardinalityType, TeamAssumption
<1>4. Cardinality(Over(T) \ G) = Cardinality(Over(T)) - Cardinality(G)
  <2>1. Over(T) \cap G = G
    BY <1>1
  <2> QED
    BY <2>1, FS_Difference
<1>5. CASE Cardinality(Over(T)) <= MaxHistory
  <2>1. G = {}
    BY <1>5 DEF Trimmings
  <2>2. Over(T) \ G = Over(T)
    BY <2>1
  <2> QED
    BY <1>2, <1>5, <2>2
<1>6. CASE ~(Cardinality(Over(T)) <= MaxHistory)
  <2>1. Cardinality(G) = Cardinality(Over(T)) - MaxHistory
    BY <1>6 DEF Trimmings
  <2> QED
    BY <1>2, <1>3, <1>4, <2>1
<1> QED
  BY <1>5, <1>6

(* The table that the end of task t leaves.                                *)
LEMMA OutcomePrepares ==
  ASSUME tasks \in Table, \A t \in TaskIds : Present(tasks, t) => t \in issued,
         issued' = issued,
         NEW t \in TaskIds, Is(tasks, t, {"queued", "running"}),
         NEW st \in Ended, tasks[t].status = "queued" => st = "cancelled",
         NEW G \in Trimmings(Moved(tasks, t, st), {t})
  PROVE  Prepared(MarkPending(Without(Moved(tasks, t, st), G), t))
<1> DEFINE M == Moved(tasks, t, st)
           W == Without(M, G)
           T == MarkPending(W, t)
<1>1. tasks[t] # NoTask /\ tasks[t] \in Task /\ st \in Status
  BY DEF Is, Present, Table, Status
<1>2. M \in Table /\ M[t] = [tasks[t] EXCEPT !.status = st] /\ M[t] # NoTask
      /\ \A v \in TaskIds \ {t} : M[v] = tasks[v]
  BY <1>1, RecordedType
<1>3. M[t].status = st /\ M[t].to = tasks[t].to
  BY <1>1, <1>2 DEF Task
<1>4. G \subseteq Over(M) \ {t}
  BY TrimmingsKeep
<1>5. IsFiniteSet(issued) => Cardinality(Over(W)) <= MaxHistory
  <2> SUFFICES ASSUME IsFiniteSet(issued) PROVE Cardinality(Over(W)) <= MaxHistory
    OBVIOUS
  <2>1. Over(M) \subseteq issued
    BY <1>1, <1>2 DEF Over, Is, Present
  <2>2. IsFiniteSet(Over(M))
    <3> HIDE DEF M
    <3> QED
      BY <2>1, FS_Subset
  <2> HIDE DEF M
  <2>3. G \in Trimmings(M, {t})
    BY DEF M
  <2> QED
    BY <2>2, <2>3, TrimmedFits
<1> HIDE DEF M
<1>6. W \in Table /\ W[t] = M[t] /\ \A v \in TaskIds : W[v] = IF v \in G THEN NoTask ELSE M[v]
  BY <1>2, <1>4, WithoutType DEF Without
<1> HIDE DEF W
<1>7. T \in Table /\ T[t] = [W[t] EXCEPT !.pending = TRUE] /\ T[t] # NoTask
      /\ \A v \in TaskIds \ {t} : T[v] = W[v]
  <2>1. W \in Table /\ W[t] # NoTask
    BY <1>2, <1>6
  <2> HIDE DEF W
  <2> QED
    BY <2>1, PendingTable
<1>8. W[t] \in Task
  BY <1>2, <1>6 DEF Table
<1>9. T[t].status = st /\ T[t].to = tasks[t].to
  BY <1>3, <1>6, <1>7, <1>8 DEF Task
<1> HIDE DEF T
<1>10. Over(T) = Over(W)
  BY <1>2, <1>3, <1>6, <1>7, <1>9 DEF Over, Is, Present
<1>11. EndedNow(T, t)
  BY <1>5, <1>7, <1>9, <1>10 DEF EndedNow, Is, Present
<1>12. ASSUME NEW v \in TaskIds \ {t}
       PROVE  T[v] = tasks[v] \/ (T[v] = NoTask /\ Is(tasks, v, Ended))
  BY <1>2, <1>4, <1>6, <1>7, <1>12 DEF Over, Is, Present
<1>13. Prepared(T)
  BY <1>11, <1>12 DEF Prepared
<1> QED
  BY <1>13 DEF T, W, M

(* An action that kicks does so from tables that keep the books.           *)
KicksFromBooks ==
  /\ mapOrder' \in Orders /\ cancelRequested' \subseteq TaskIds /\ resolved' = NoRun
  /\ \E T \in Table, D \in SUBSET Delivery, Q \in Orders, R \in SUBSET Sessions :
       /\ Kept(T, D, R, RunsActing, cancelRequested', issued')
       /\ Prepared(T)
       /\ Kick(T, D, Q, R)

Kicks ==
  \/ \E k \in RunKeys, to \in Sessions, text \in Texts : Enqueue(k, to, text)
  \/ \E t \in TaskIds : FinishTask(t)
  \/ FinishResult
  \/ IdleKick \/ Restore
  \/ \E t \in TaskIds : CancelQueued(t)

(* A call that is accepted kicks with its task at the end of the queue.    *)
LEMMA EnqueueKicks ==
  ASSUME TypeOK, BooksOK, NEW k \in RunKeys, NEW to \in Sessions, NEW text \in Texts,
         Enqueue(k, to, text)
  PROVE  /\ mapOrder' \in Orders /\ cancelRequested' \subseteq TaskIds /\ resolved' = NoRun
         /\ \E t \in TaskIds \ issued, T \in Table :
              /\ issued' = issued \cup {t}
              /\ T[t] = NewTask(runs[k].sid, to, text) /\ T[t] \in Task
              /\ Kept(T, deliveries, reserved, RunsActing, cancelRequested', issued')
              /\ Prepared(T)
              /\ Kick(T, deliveries, queueOrder, reserved)
<1>0. /\ SessionsTypeOK /\ TablesOK /\ RestOK
      /\ cancelRequested \subseteq TaskIds /\ reserved \in SUBSET Sessions
      /\ deliveries \in SUBSET Delivery /\ tasks \in Table /\ queueOrder \in Orders
      /\ issued \subseteq TaskIds /\ mapOrder \in Orders
  BY TypeParts DEF TablesOK, RestOK
<1>1. resolved = NoRun => Acting = RunsActing
  BY DEF Acting
<1>2. Kept(tasks, deliveries, reserved, Acting, cancelRequested, issued)
  BY DEF BooksOK
<1> DEFINE s == runs[k].sid
           t == CHOOSE i \in TaskIds \ issued : TRUE
           new == NewTask(s, to, text)
           T == [tasks EXCEPT ![t] = new]
<1>3. s \in Sessions
  BY <1>0 DEF Enqueue, SessionsTypeOK, Run
<1>4. t \in TaskIds /\ t \notin issued
  BY <1>0 DEF Enqueue
<1>5. new \in Task /\ new.status = "queued" /\ new.pending = FALSE
  BY <1>0, <1>3, NewTaskType DEF NewTask
<1>6. /\ resolved = NoRun /\ resolved' = NoRun
      /\ issued' = issued \cup {t} /\ cancelRequested' = cancelRequested
      /\ mapOrder' = Behind(mapOrder, {i \in TaskIds : Present(tasks, i)}, {t}, {})
  BY DEF Enqueue
<1>7. PICK G \in Trimmings(T, {}) : Kick(Without(T, G), deliveries, queueOrder, reserved)
  BY DEF Enqueue
<1> HIDE DEF s, t, new
<1>8. T \in Table
  BY <1>0, <1>4, <1>5 DEF Table
<1>9. Kept(tasks, deliveries, reserved, RunsActing, cancelRequested, issued)
  BY <1>1, <1>2, <1>6
<1>10. Kept(T, deliveries, reserved, RunsActing, cancelRequested, issued \cup {t})
  BY <1>0, <1>4, <1>5, <1>9, EnqueueKeeps
<1> HIDE DEF T
<1>11. G \subseteq Over(T)
  BY TrimmingsKeep
<1>12. Kept(Without(T, G), deliveries, reserved, RunsActing, cancelRequested, issued \cup {t})
  BY <1>0, <1>8, <1>10, <1>11, TrimKeeps
<1>13. Without(T, G) \in Table
  BY <1>8, WithoutType
<1>14. {} \in Orders /\ {i \in TaskIds : Present(tasks, i)} \in SUBSET TaskIds
  BY DEF Orders
<1>15. mapOrder' \in Orders
  BY <1>0, <1>4, <1>6, <1>14, BehindType
<1>16. /\ Without(T, G)[t] = new /\ t \in TaskIds \ issued
       /\ new = NewTask(runs[k].sid, to, text)
  <2>1. T[t] = new
    BY <1>0, <1>4 DEF T, Table
  <2>2. t \notin G
    BY <1>5, <1>11, <2>1 DEF Over, Is, Ended
  <2> QED
    BY <1>4, <2>1, <2>2 DEF Without, new, s
<1>17. Prepared(Without(T, G))
  <2> SUFFICES ASSUME NEW v \in TaskIds
               PROVE  \/ Without(T, G)[v] = tasks[v] /\ v \notin issued' \ issued
                      \/ Without(T, G)[v] = NoTask /\ Is(tasks, v, Ended)
                      \/ v \in issued' \ issued /\ Is(Without(T, G), v, {"queued"})
    BY DEF Prepared
  <2>1. CASE v = t
    <3>1. Is(Without(T, G), t, {"queued"})
      BY <1>5, <1>16, TeamAssumption DEF Is, Present
    <3> QED
      BY <1>4, <1>6, <2>1, <3>1
  <2>2. CASE v # t
    <3>1. T[v] = tasks[v]
      BY <1>0, <2>2 DEF T, Table
    <3> QED
      BY <1>6, <1>11, <2>2, <3>1 DEF Without, Over, Is, Present
  <2> QED
    BY <2>1, <2>2
<1> QED
  BY <1>0, <1>5, <1>6, <1>7, <1>12, <1>13, <1>15, <1>16, <1>17

LEMMA KicksKeepBooks ==
  ASSUME TypeOK, BooksOK, RunningIsWorkedOn, Kicks
  PROVE  KicksFromBooks
<1>0. /\ SessionsTypeOK /\ TablesOK /\ RestOK
      /\ cancelRequested \subseteq TaskIds /\ reserved \in SUBSET Sessions
      /\ deliveries \in SUBSET Delivery /\ tasks \in Table /\ queueOrder \in Orders
      /\ issued \subseteq TaskIds /\ mapOrder \in Orders
  BY TypeParts DEF TablesOK, RestOK
<1>01. resolved = NoRun => Acting = RunsActing
  BY DEF Acting
<1>02. Kept(tasks, deliveries, reserved, Acting, cancelRequested, issued)
  BY DEF BooksOK
<1>03. TeamActs(Acting)
  BY ActingIs DEF BooksOK
<1>04. \A t \in TaskIds : Present(tasks, t) => t \in issued
  BY <1>02 DEF Kept, ResultsKept
<1>05. issued' = issued => Prepared(tasks)
  BY DEF Prepared
<1>1. ASSUME NEW k \in RunKeys, NEW to \in Sessions, NEW text \in Texts,
             Enqueue(k, to, text)
      PROVE  KicksFromBooks
  BY <1>0, <1>1, EnqueueKicks DEF KicksFromBooks
<1>2. ASSUME NEW t \in TaskIds, FinishTask(t)
      PROVE  KicksFromBooks
  <2> DEFINE status == IF t \in cancelRequested THEN "cancelled"
                       ELSE IF resolved.ok THEN "done" ELSE "failed"
             T == Moved(tasks, t, status)
  <2>1. /\ resolved # NoRun /\ resolved.key = <<"task", t>> /\ resolved' = NoRun
        /\ cancelRequested' = cancelRequested \ {t}
        /\ UNCHANGED <<issued, mapOrder>>
    BY <1>2 DEF FinishTask
  <2>2. tasks[t] # NoTask /\ tasks[t].status \notin Ended
    BY <1>2 DEF FinishTask, RunningIsWorkedOn, Is, Present, Ended
  <2>3. status \in Ended
    BY DEF Ended
  <2>4. PICK G \in Trimmings(T, {t}) :
          LET T1 == MarkPending(Without(T, G), t)
          IN  Kick(T1, Queued(T1, deliveries, t),
                   Behind(queueOrder, {d.task : d \in deliveries}, {t}, {}),
                   reserved \ {resolved.sid})
    BY <1>2 DEF FinishTask, Conclude
  <2> HIDE DEF status
  <2> DEFINE T1 == MarkPending(Without(T, G), t)
             D1 == Queued(T1, deliveries, t)
  <2>5. /\ RunsActing = {p \in Acting : p[1] # <<"task", t>>}
        /\ reserved \ {resolved.sid} = {p[2] : p \in RunsActing}
    BY <2>1, Released
  <2>6. Kept(T1, D1, reserved \ {resolved.sid}, RunsActing, cancelRequested \ {t}, issued)
    BY <1>0, <1>02, <1>03, <2>2, <2>3, <2>5, OutcomeKeeps
  <2>61. Prepared(T1)
    <3>1. Is(tasks, t, {"running"})
      BY <1>2 DEF FinishTask, RunningIsWorkedOn
    <3>2. Is(tasks, t, {"queued", "running"}) /\ tasks[t].status # "queued"
      BY <3>1 DEF Is
    <3> QED
      BY <1>0, <1>04, <2>1, <2>3, <3>2, OutcomePrepares
  <2>7. T \in Table /\ T[t] # NoTask
    BY <1>0, <2>2, <2>3, RecordedType DEF Status
  <2> HIDE DEF T
  <2>8. T1 \in Table /\ D1 \in SUBSET Delivery
    BY <1>0, <2>7, OutcomeType
  <2>9. {} \in Orders
    BY DEF Orders
  <2>10. Behind(queueOrder, {d.task : d \in deliveries}, {t}, {}) \in Orders
    BY <1>0, <2>9, DeliveredIds, BehindType
  <2>11. reserved \ {resolved.sid} \in SUBSET Sessions
    BY <1>0
  <2>12. Kick(T1, D1, Behind(queueOrder, {d.task : d \in deliveries}, {t}, {}),
              reserved \ {resolved.sid})
    BY <2>4
  <2> HIDE DEF T1, D1
  <2> QED
    BY <1>0, <2>1, <2>6, <2>61, <2>8, <2>10, <2>11, <2>12 DEF KicksFromBooks
<1>3. ASSUME FinishResult
      PROVE  KicksFromBooks
  <2>1. /\ resolved # NoRun /\ resolved.key[1] = "result" /\ resolved' = NoRun
        /\ UNCHANGED <<issued, mapOrder, cancelRequested>>
        /\ Kick(tasks, deliveries, queueOrder, reserved \ {resolved.sid})
    BY <1>3 DEF FinishResult
  <2>2. PICK t \in TaskIds : resolved.key = <<"result", t>>
    <3>1. resolved.key \in RunKeys
      BY <2>1 DEF BooksOK, SettledOnce
    <3> QED
      BY <2>1, <3>1, KeyFacts
  <2>3. /\ RunsActing = {p \in Acting : p[1] # <<"result", t>>}
        /\ reserved \ {resolved.sid} = {p[2] : p \in RunsActing}
    BY <2>1, <2>2, Released
  <2>4. Kept(tasks, deliveries, reserved \ {resolved.sid}, RunsActing, cancelRequested, issued)
    <3> DEFINE R1 == reserved \ {resolved.sid}
    <3>1. OverNow(<<"result", t>>, Acting, RunsActing, R1)
      BY <2>3 DEF OverNow
    <3> HIDE DEF R1
    <3>2. Kept(tasks, deliveries, R1, RunsActing, cancelRequested, issued)
      BY <1>0, <1>02, <3>1, ToldKeeps
    <3> QED
      BY <3>2 DEF R1
  <2>5. reserved \ {resolved.sid} \in SUBSET Sessions
    BY <1>0
  <2> QED
    BY <1>0, <1>05, <2>1, <2>4, <2>5 DEF KicksFromBooks
<1>4. ASSUME IdleKick \/ Restore
      PROVE  KicksFromBooks
  <2>1. /\ resolved = NoRun /\ resolved' = NoRun
        /\ UNCHANGED <<issued, mapOrder, cancelRequested>>
        /\ Kick(tasks, deliveries, queueOrder, reserved)
    BY <1>4 DEF IdleKick, Restore
  <2> QED
    BY <1>0, <1>01, <1>02, <1>05, <2>1 DEF KicksFromBooks
<1>5. ASSUME NEW t \in TaskIds, CancelQueued(t)
      PROVE  KicksFromBooks
  <2> DEFINE T == Moved(tasks, t, "cancelled")
  <2>1. /\ resolved = NoRun /\ resolved' = NoRun
        /\ UNCHANGED <<issued, mapOrder, cancelRequested>>
        /\ tasks[t] # NoTask /\ tasks[t].status = "queued"
    BY <1>5 DEF CancelQueued, Is, Present
  <2>2. tasks[t].status \notin Ended /\ "cancelled" \in Ended /\ "cancelled" \in Status
    BY <2>1 DEF Ended, Status
  <2>3. PICK G \in Trimmings(T, {t}) :
          LET T1 == MarkPending(Without(T, G), t)
          IN  Kick(T1, Queued(T1, deliveries, t),
                   Behind(queueOrder, {d.task : d \in deliveries}, {t}, {}),
                   reserved)
    BY <1>5 DEF CancelQueued, Conclude
  <2> DEFINE T1 == MarkPending(Without(T, G), t)
             D1 == Queued(T1, deliveries, t)
  <2>4. cancelRequested \ {t} = cancelRequested
    BY <1>02, <2>1 DEF Kept, TasksActed, Is
  <2>5. RunsActing = {p \in RunsActing : p[1] # <<"task", t>>}
    <3>1. ASSUME NEW p \in RunsActing, p[1] = <<"task", t>> PROVE FALSE
      <4>1. p \in RunKeys \X Sessions
        BY <1>01, <1>03, <2>1 DEF TeamActs
      <4>2. p = <<<<"task", t>>, p[2]>> /\ p[2] \in Sessions
        BY <3>1, <4>1
      <4> QED
        BY <1>01, <1>02, <2>1, <4>2 DEF Kept, TasksActed, Is
    <3> QED
      BY <3>1
  <2>6. reserved = {p[2] : p \in RunsActing}
    BY <1>01, <1>02, <2>1 DEF Kept, OneEach
  <2>7. Kept(T1, D1, reserved, RunsActing, cancelRequested \ {t}, issued)
    BY <1>0, <1>01, <1>02, <1>03, <2>1, <2>2, <2>5, <2>6, OutcomeKeeps
  <2>71. Prepared(T1)
    <3>1. Is(tasks, t, {"queued", "running"})
      BY <2>1 DEF Is, Present
    <3> QED
      BY <1>0, <1>04, <2>1, <2>2, <3>1, OutcomePrepares
  <2>8. T \in Table /\ T[t] # NoTask
    BY <1>0, <2>1, <2>2, RecordedType
  <2> HIDE DEF T
  <2>9. T1 \in Table /\ D1 \in SUBSET Delivery
    BY <1>0, <2>8, OutcomeType
  <2>10. {} \in Orders
    BY DEF Orders
  <2>11. Behind(queueOrder, {d.task : d \in deliveries}, {t}, {}) \in Orders
    BY <1>0, <2>10, DeliveredIds, BehindType
  <2>12. Kick(T1, D1, Behind(queueOrder, {d.task : d \in deliveries}, {t}, {}), reserved)
    BY <2>3
  <2> HIDE DEF T1, D1
  <2> QED
    BY <1>0, <2>1, <2>4, <2>7, <2>71, <2>9, <2>11, <2>12 DEF KicksFromBooks
<1> QED
  BY <1>1, <1>2, <1>3, <1>4, <1>5 DEF Kicks

(* Every step keeps the books.                                             *)
LEMMA BooksStep ==
  ASSUME TypeOK, BooksOK, RunningIsWorkedOn, [Next]_vars
  PROVE  BooksOK'
<1>0. /\ SessionsTypeOK /\ TablesOK /\ RestOK
      /\ cancelRequested \subseteq TaskIds /\ reserved \in SUBSET Sessions
      /\ deliveries \in SUBSET Delivery /\ tasks \in Table /\ queueOrder \in Orders
      /\ issued \subseteq TaskIds /\ mapOrder \in Orders
  BY TypeParts DEF TablesOK, RestOK
<1>01. resolved = NoRun => Acting = RunsActing
  BY DEF Acting
<1>02. Kept(tasks, deliveries, reserved, Acting, cancelRequested, issued)
  BY DEF BooksOK
<1>1. CASE Kicks
  BY <1>0, <1>1, KicksKeepBooks, KickBalances DEF KicksFromBooks
<1>2. ASSUME NEW p \in Policies, SetPolicy(p)
      PROVE  BooksOK'
  <2>1. SameTeamRuns
    BY <1>2 DEF SetPolicy, sessionVars, SameTeamRuns
  <2> QED
    BY <1>2, <2>1, UnmarkedBooks DEF SetPolicy
<1>3. ASSUME NEW u \in Outside, NEW s \in Sessions, Send(u, s)
      PROVE  BooksOK'
  <2>1. SameTeamRuns
    BY <1>0, <1>3, SendSame
  <2> QED
    BY <1>3, <2>1, UnmarkedBooks DEF Send, teamVars
<1>4. ASSUME NEW k \in RunKeys, Prompt(k)
      PROVE  BooksOK'
  <2>1. SameTeamRuns
    BY <1>0, <1>4, PromptSame DEF Prompt
  <2> QED
    BY <1>4, <2>1, UnmarkedBooks DEF Prompt, teamVars
<1>5. ASSUME NEW k \in RunKeys, NEW ok \in BOOLEAN, Settle(k, ok)
      PROVE  BooksOK'
  <2>1. Acting' = Acting /\ SettledOnce'
    BY <1>5, SettleActing
  <2> QED
    BY <1>02, <1>5, <2>1 DEF Settle, BooksOK
<1>6. ASSUME NEW t \in TaskIds, CancelRunning(t)
       PROVE  BooksOK'
  <2>1. tasks[t].to \in Sessions /\ runs' = Aborted(tasks[t].to)
    BY <1>0, <1>6 DEF CancelRunning, AbortAgent, Is, Present, Table, Task
  <2>2. SameTeamRuns
    BY <1>0, <2>1, AbortSame
  <2> DEFINE marked == {t}
  <2>3. /\ \A v \in marked : Is(tasks, v, {"running"})
        /\ cancelRequested' = cancelRequested \cup marked
    BY <1>6 DEF CancelRunning
  <2> HIDE DEF marked
  <2> QED
    BY <1>6, <2>2, <2>3, SameBooks DEF CancelRunning
<1>7. ASSUME NEW s \in Sessions, Abort(s)
       PROVE  BooksOK'
  <2>1. SameTeamRuns
    BY <1>0, <1>7, AbortSame DEF Abort, AbortAgent
  <2>2. \A t \in RunningOn(s) : Is(tasks, t, {"running"})
    BY DEF RunningOn
  <2> QED
    BY <1>7, <2>1, <2>2, SameBooks DEF Abort
<1>8. ASSUME NEW s \in Sessions, Create(s)
       PROVE  BooksOK'
  <2>1. SameTeamRuns
    BY <1>8 DEF Create, Register, SameTeamRuns
  <2> QED
    BY <1>8, <2>1, UnmarkedBooks DEF Create
<1>9. ASSUME NEW s \in Sessions, Close(s)
       PROVE  BooksOK'
  <2> DEFINE gone == {t \in TaskIds : Is(tasks, t, {"queued"})
                                      /\ s \in {tasks[t].from, tasks[t].to}}
             T == [t \in TaskIds |-> IF t \in gone
                                     THEN [tasks[t] EXCEPT !.status = "cancelled"]
                                     ELSE tasks[t]]
             D == {d \in deliveries : d.sid # s}
  <2>1. /\ resolved = NoRun /\ resolved' = NoRun
        /\ UNCHANGED <<issued, reserved>> /\ deliveries' = D
        /\ cancelRequested' = cancelRequested \cup RunningOn(s)
        /\ runs' = Aborted(s)
    BY <1>9 DEF Close, Unregister
  <2>2. PICK G : G \subseteq Over(T) /\ tasks' = Without(T, G)
    <3>1. PICK G : /\ G = {} \/ \E last \in gone : G \in Trimmings(T, {last})
                   /\ tasks' = Without(T, G)
      BY <1>9 DEF Close
    <3> HIDE DEF T, gone
    <3>2. G \subseteq Over(T)
      BY <3>1, TrimmingsKeep
    <3> QED
      BY <3>1, <3>2
  <2>3. T \in Table
    <3> SUFFICES ASSUME NEW t \in TaskIds PROVE T[t] \in Task \cup {NoTask}
      BY DEF Table
    <3>1. CASE t \in gone
      BY <1>0, <3>1, MovedType DEF Is, Present, Status, Ended, Table
    <3>2. CASE t \notin gone
      BY <1>0, <3>2 DEF Table
    <3> QED
      BY <3>1, <3>2
  <2>4. /\ gone \in SUBSET TaskIds
        /\ \A t \in gone : Is(tasks, t, {"queued"})
        /\ \A t \in gone : T[t] = [tasks[t] EXCEPT !.status = "cancelled"]
        /\ \A t \in TaskIds \ gone : T[t] = tasks[t]
        /\ D \in SUBSET deliveries /\ D \in SUBSET Delivery
    BY <1>0
  <2>5. \A t \in RunningOn(s) : Is(T, t, {"running"})
    BY <2>4 DEF RunningOn, Is, Present
  <2>6. RunningOn(s) \subseteq TaskIds
    BY DEF RunningOn
  <2> HIDE DEF gone, T, D
  <2>7. Kept(tasks, deliveries, reserved, RunsActing, cancelRequested, issued)
    BY <1>01, <1>02, <2>1
  <2>8. Kept(T, D, reserved, RunsActing, cancelRequested, issued)
    BY <1>0, <2>3, <2>4, <2>7, DropKeeps
  <2>9. Kept(T, D, reserved, RunsActing, cancelRequested', issued)
    BY <2>1, <2>5, <2>8, MarksKeep
  <2>10. cancelRequested' \subseteq TaskIds
    BY <1>0, <2>1, <2>6
  <2>11. Kept(tasks', D, reserved, RunsActing, cancelRequested', issued)
    BY <2>2, <2>3, <2>4, <2>9, <2>10, TrimKeeps
  <2>12. RunsActing' = RunsActing
    BY <1>0, <2>1, AbortSame, SameActing
  <2>13. Acting' = RunsActing' /\ SettledOnce'
    BY <2>1 DEF Acting, SettledOnce
  <2> QED
    BY <2>1, <2>11, <2>12, <2>13 DEF BooksOK
<1>10. ASSUME UNCHANGED vars
       PROVE  BooksOK'
  <2>1. SameTeamRuns
    BY <1>10 DEF vars, sessionVars, SameTeamRuns
  <2> QED
    BY <1>10, <2>1, UnmarkedBooks DEF vars, teamVars
<1> QED
  BY <1>1, <1>2, <1>3, <1>4, <1>5, <1>6, <1>7, <1>8, <1>9, <1>10 DEF Next, Kicks

LEMMA BooksInit == Init => Bookkeeping
<1> SUFFICES ASSUME Init PROVE Bookkeeping
  OBVIOUS
<1>1. SessionsTypeOK
  BY DEF Init, SessionsInit, SessionsTypeOK
<1>2. TypeOK
  BY <1>1, TeamAssumption DEF Init, TypeOK
<1>3. TeamRuns = {}
  BY DEF Init, SessionsInit, TeamRuns
<1>4. RunsActing = {}
  BY <1>3 DEF RunsActing
<1>5. Acting = {} /\ SettledOnce
  BY <1>4 DEF Init, Acting, SettledOnce
<1>6. \A t \in TaskIds : ~Present(tasks, t)
  BY DEF Init, Present
<1>7. OneEach(reserved, Acting)
  BY <1>5 DEF Init, OneEach
<1>8. TasksActed(tasks, Acting, cancelRequested)
  BY <1>5, <1>6 DEF Init, TasksActed, Is
<1>9. ResultsKept(tasks, deliveries, Acting, issued)
  BY <1>5, <1>6 DEF Init, ResultsKept
<1> QED
  BY <1>2, <1>5, <1>7, <1>8, <1>9 DEF Bookkeeping, Kept

LEMMA BookkeepingHolds == Spec => []Bookkeeping
<1>1. Bookkeeping /\ [Next]_vars => Bookkeeping'
  <2> SUFFICES ASSUME Bookkeeping, [Next]_vars PROVE Bookkeeping'
    OBVIOUS
  <2>1. RunningIsWorkedOn /\ TypeOK /\ BooksOK
    BY BooksBalance DEF Bookkeeping, BooksOK
  <2>2. TypeOK'
    BY <2>1, TypeStep
  <2>3. BooksOK'
    BY <2>1, BooksStep
  <2> QED
    BY <2>2, <2>3 DEF Bookkeeping, BooksOK
<1> QED
  BY <1>1, BooksInit, PTL DEF Spec

-----------------------------------------------------------------------------
(* Every variable keeps its type: in particular every team turn has a run, *)
(* every queued result an address, and the task table no half-made entry.  *)
THEOREM TypeCorrect == Spec => []TypeOK
  BY BookkeepingHolds, PTL DEF Bookkeeping

(* A session is reserved exactly while one team turn runs on it, whatever  *)
(* is closed, created again or cancelled in between (team.ts, kick,        *)
(* startDeliveries and the finally blocks of what they start).             *)
THEOREM ReservationsBalance == Spec => []ReservedByOneTurn
<1>1. Bookkeeping => ReservedByOneTurn
  BY BooksBalance
<1> QED
  BY <1>1, BookkeepingHolds, PTL

(* No task stays running without a turn, and no cancellation mark outlives *)
(* the turn it is for (team.ts, execute).                                  *)
THEOREM RunningTasksAreWorkedOn == Spec => []RunningIsWorkedOn
<1>1. Bookkeeping => RunningIsWorkedOn
  BY BooksBalance
<1> QED
  BY <1>1, BookkeepingHolds, PTL

(* A result waits at most once, for the session that asked, and is never   *)
(* queued and told at the same time (team.ts, enqueueDelivery, deliver).   *)
THEOREM ResultsAreToldOnce == Spec => []ResultsWaitOnce
<1>1. Bookkeeping => ResultsWaitOnce
  BY BooksBalance
<1> QED
  BY <1>1, BookkeepingHolds, PTL

-----------------------------------------------------------------------------
(* Wake-ups and turns: that no wake-up is lost, that the turn recorded for *)
(* a session is that of the run on it, that delegation stays within its    *)
(* limits, that a result is owed until it is told, and that the queue      *)
(* implements module TaskLifecycle.  All look at what a kick begins.       *)

(* The parts of a kick that begins the runs next[s].                       *)
KickParts(T, D, R, D1, next, with, G) ==
  /\ Requeued(T, D, D1)
  /\ DOMAIN next = Ready(T, D1, R)
  /\ DOMAIN next \subseteq Sessions
  /\ Assignment(next, T, D1, R)
  /\ NewRuns(next, R, RunsActing)
  /\ \A s \in DOMAIN next : with[s] \in Turn
  /\ BeginTurns(DOMAIN next, next, with)
  /\ G \subseteq Over(Started(T, next))
  /\ Cardinality(Over(Started(T, next))) <= MaxHistory => G = {}
  /\ tasks' = Without(Started(T, next), G)
  /\ deliveries' = {d \in D1 : <<"result", d.task>> \notin Begun(next)}
  /\ reserved' = R \cup DOMAIN next

LEMMA KickUnfolds ==
  ASSUME SessionsTypeOK, NEW T \in Table, NEW D \in SUBSET Delivery,
         NEW Q \in Orders, NEW R \in SUBSET Sessions, NEW can, NEW iss,
         mapOrder' \in Orders, can \subseteq TaskIds,
         Kept(T, D, R, RunsActing, can, iss),
         Kick(T, D, Q, R)
  PROVE  \E D1 \in SUBSET Delivery : \E next, with, G : KickParts(T, D, R, D1, next, with, G)
<1>1. PICK D1 \in SUBSET Delivery, Q1 \in Orders : \E next :
        /\ Requeued(T, D, D1)
        /\ DOMAIN next = Ready(T, D1, R)
        /\ Assignment(next, T, D1, R)
        /\ Begin(next, T, D1, Q1, R)
  BY KickBegins
<1>2. PICK next :
        /\ Requeued(T, D, D1)
        /\ DOMAIN next = Ready(T, D1, R)
        /\ Assignment(next, T, D1, R)
        /\ Begin(next, T, D1, Q1, R)
  BY <1>1
<1> DEFINE with == [s \in DOMAIN next |-> TurnOf(T, next[s], s)]
<1>3. PICK G :
        /\ G = {} \/ G \in Trimmings(Started(T, next), {})
        /\ tasks' = Without(Started(T, next), G)
        /\ deliveries' = {d \in D1 : <<"result", d.task>> \notin Begun(next)}
        /\ reserved' = R \cup DOMAIN next
        /\ BeginTurns(DOMAIN next, next, with)
  <2> HIDE DEF with
  <2> QED
    BY <1>2 DEF Begin, with
<1>4. \A s \in DOMAIN next : with[s] \in Turn
  BY <1>2, TurnOfType
<1> HIDE DEF with
<1>5. Kept(T, D1, R, RunsActing, can, iss)
  BY <1>2, RequeueKeeps
<1>6. NewRuns(next, R, RunsActing)
  BY <1>2, <1>5, ActingType, AssignedAreNew
<1>7. /\ G \subseteq Over(Started(T, next))
      /\ Cardinality(Over(Started(T, next))) <= MaxHistory => G = {}
  <2>1. G \subseteq Over(Started(T, next))
    BY <1>3, TrimmingsKeep
  <2>2. Cardinality(Over(Started(T, next))) <= MaxHistory => G = {}
    BY <1>3 DEF Trimmings
  <2> QED
    BY <2>1, <2>2
<1>8. DOMAIN next \subseteq Sessions
  BY <1>2 DEF Assignment
<1>9. KickParts(T, D, R, D1, next, with, G)
  BY <1>2, <1>3, <1>4, <1>6, <1>7, <1>8 DEF KickParts
<1> QED
  BY <1>9

(* The runs that were there go on, and the new ones are in their context.  *)
LEMMA BegunRuns ==
  ASSUME SessionsTypeOK, NEW next, NEW with, DOMAIN next \subseteq Sessions,
         \A s \in DOMAIN next : with[s] \in Turn,
         NEW R, NewRuns(next, R, RunsActing), BeginTurns(DOMAIN next, next, with)
  PROVE  /\ \A k \in RunKeys : runs[k] # NoRun =>
              runs'[k] = runs[k] /\ \A s \in DOMAIN next : next[s] # k
         /\ \A s \in DOMAIN next : next[s] \in RunKeys /\ runs'[next[s]] = NewRun(s, with[s])
         /\ \A k \in RunKeys : (\A s \in DOMAIN next : next[s] # k) => runs'[k] = runs[k]
<1>1. ASSUME NEW k \in RunKeys, \A s \in DOMAIN next : next[s] # k
      PROVE  runs'[k] = runs[k]
  BY <1>1 DEF BeginTurns
<1>2. ASSUME NEW k \in RunKeys, runs[k] # NoRun, NEW s \in DOMAIN next, next[s] = k
      PROVE  FALSE
  <2>1. k \in TeamRuns
    BY <1>2 DEF NewRuns, TeamRuns
  <2>2. <<k, runs[k].sid>> \in RunsActing
    BY <2>1 DEF RunsActing
  <2> QED
    BY <1>2, <2>2 DEF NewRuns
<1>3. ASSUME NEW s \in DOMAIN next
      PROVE  next[s] \in RunKeys /\ runs'[next[s]] = NewRun(s, with[s])
  <2> DEFINE r == CHOOSE r \in DOMAIN next : next[r] = next[s]
  <2>1. r \in DOMAIN next /\ next[r] = next[s]
    OBVIOUS
  <2>2. r = s
    BY <2>1 DEF NewRuns
  <2>3. runs'[next[s]] = NewRun(r, with[r]) /\ next[s] \in RunKeys
    BY DEF BeginTurns, NewRuns
  <2> HIDE DEF r
  <2> QED
    BY <2>2, <2>3
<1> QED
  BY <1>1, <1>2, <1>3

-----------------------------------------------------------------------------
(* No lost wake-up.  After a kick no free session has work, whatever there *)
(* was before it; the other steps free no session and add no work without  *)
(* asking for a kick.                                                      *)
LEMMA StartedFields ==
  ASSUME NEW T \in Table, NEW D \in SUBSET Delivery, NEW R, NEW next, NEW t \in TaskIds,
         Assignment(next, T, D, R), Started(T, next)[t] # NoTask
  PROVE  /\ T[t] # NoTask
         /\ Started(T, next)[t].status # T[t].status =>
              T[t].status = "queued" /\ Started(T, next)[t].status = "running"
         /\ Started(T, next)[t].pending # T[t].pending =>
              <<"result", t>> \in Begun(next) /\ ~Started(T, next)[t].pending
         /\ Started(T, next)[t].from = T[t].from
         /\ Started(T, next)[t].to = T[t].to
<1>1. CASE <<"task", t>> \in Begun(next)
  <2>1. PICK s \in DOMAIN next : next[s] = <<"task", t>>
    BY <1>1 DEF Begun
  <2>2. t \in QueuedFor(T, s)
    BY <2>1 DEF Assignment, Assigned
  <2>3. T[t] # NoTask /\ T[t].status = "queued"
    BY <2>2 DEF QueuedFor, Is, Present
  <2>4. T[t] \in Task
    BY <2>3 DEF Table
  <2>5. Started(T, next)[t] = [T[t] EXCEPT !.status = "running"]
    BY <1>1 DEF Started
  <2> QED
    BY <2>3, <2>4, <2>5 DEF Task
<1>2. CASE <<"task", t>> \notin Begun(next) /\ <<"result", t>> \in Begun(next) /\ T[t] # NoTask
  <2>1. T[t] \in Task
    BY <1>2 DEF Table
  <2>2. Started(T, next)[t] = [T[t] EXCEPT !.pending = FALSE]
    BY <1>2 DEF Started, Present
  <2> QED
    BY <1>2, <2>1, <2>2 DEF Task
<1>3. CASE <<"task", t>> \notin Begun(next) /\ (<<"result", t>> \notin Begun(next) \/ T[t] = NoTask)
  <2>1. Started(T, next)[t] = T[t]
    BY <1>3 DEF Started, Present
  <2> QED
    BY <2>1
<1> QED
  BY <1>1, <1>2, <1>3

LEMMA KickWakes ==
  ASSUME SessionsTypeOK, NEW T \in Table, NEW D \in SUBSET Delivery,
         NEW Q \in Orders, NEW R \in SUBSET Sessions, NEW can, NEW iss,
         mapOrder' \in Orders, can \subseteq TaskIds,
         Kept(T, D, R, RunsActing, can, iss),
         Kick(T, D, Q, R)
  PROVE  NoLostWakeup'
<1>1. PICK D1 \in SUBSET Delivery : \E next, with, G : KickParts(T, D, R, D1, next, with, G)
  BY KickUnfolds
<1>2. PICK next, with, G : KickParts(T, D, R, D1, next, with, G)
  BY <1>1
<1>3. /\ live' = live /\ gen' = gen /\ inflight \subseteq inflight'
      /\ reserved' = R \cup DOMAIN next
  BY <1>2 DEF KickParts, BeginTurns
<1>4. \A k \in RunKeys : runs[k] # NoRun => runs'[k] = runs[k]
  BY <1>2, BegunRuns DEF KickParts
<1> SUFFICES ASSUME NEW s \in Sessions, Free(s, reserved)', NEW t, t \in WorkFor(s)'
             PROVE  FALSE
  BY DEF NoLostWakeup
<1>5. s \in live /\ s \notin R /\ s \notin DOMAIN next
  BY <1>3 DEF Free
<1>6. ~IsBusy(s)
  <2> SUFFICES ASSUME IsBusy(s) PROVE IsBusy(s)'
    BY DEF Free
  <2> QED
    BY <1>3, <1>4 DEF IsBusy, Streaming, RunsOn
<1>0. Assignment(next, T, D1, R)
  BY <1>2 DEF KickParts
<1>7. ResultsFor(D1, s) = {} /\ QueuedFor(T, s) = {}
  BY <1>2, <1>5, <1>6 DEF KickParts, Ready, Free
<1>8. CASE t \in ResultsFor(deliveries', s)
  BY <1>2, <1>7, <1>8 DEF KickParts, ResultsFor
<1>9. CASE t \in QueuedFor(tasks', s)
  <2>1. t \in TaskIds /\ tasks'[t] # NoTask /\ tasks'[t].status = "queued" /\ tasks'[t].to = s
    BY <1>9 DEF QueuedFor, Is, Present
  <2>2. tasks'[t] = Started(T, next)[t]
    BY <1>2, <2>1 DEF KickParts, Without
  <2>21. t \in TaskIds /\ Started(T, next)[t] # NoTask
    BY <2>1, <2>2
  <2>22. /\ T[t] # NoTask
         /\ Started(T, next)[t].status # T[t].status =>
              T[t].status = "queued" /\ Started(T, next)[t].status = "running"
         /\ Started(T, next)[t].pending # T[t].pending =>
              <<"result", t>> \in Begun(next) /\ ~Started(T, next)[t].pending
         /\ Started(T, next)[t].from = T[t].from
         /\ Started(T, next)[t].to = T[t].to
    BY <1>0, <2>21, StartedFields
  <2>3. T[t] # NoTask /\ T[t].status = "queued" /\ T[t].to = s
    BY <2>1, <2>2, <2>22
  <2> QED
    BY <1>7, <2>1, <2>3 DEF QueuedFor, Is, Present
<1>10. CASE restored' /\ t \in Owed(tasks, deliveries)' /\ tasks'[t].from = s
  <2>1. t \in TaskIds /\ tasks'[t] # NoTask /\ tasks'[t].status \in Ended /\ tasks'[t].pending
    BY <1>10 DEF Owed, Over, Is, Present
  <2>2. tasks'[t] = Started(T, next)[t]
    BY <1>2, <2>1 DEF KickParts, Without
  <2>21. t \in TaskIds /\ Started(T, next)[t] # NoTask
    BY <2>1, <2>2
  <2>22. /\ T[t] # NoTask
         /\ Started(T, next)[t].status # T[t].status =>
              T[t].status = "queued" /\ Started(T, next)[t].status = "running"
         /\ Started(T, next)[t].pending # T[t].pending =>
              <<"result", t>> \in Begun(next) /\ ~Started(T, next)[t].pending
         /\ Started(T, next)[t].from = T[t].from
    BY <1>0, <2>21, StartedFields
  <2>23. T[t].status \in Ended
    BY <2>1, <2>2, <2>22 DEF Ended
  <2>24. Started(T, next)[t].pending = T[t].pending
    BY <2>1, <2>2, <2>22, Zenon
  <2>3. T[t] # NoTask /\ T[t].status \in Ended /\ T[t].pending /\ T[t].from = s
    BY <1>10, <2>1, <2>2, <2>22, <2>23, <2>24
  <2>4. \A d \in D1 : d.sid # s
    BY <1>7 DEF ResultsFor
  <2>5. CASE \E d \in D : d.task = t
    <3>1. PICK d \in D : d.task = t
      BY <2>5
    <3>2. d.sid = s
      BY <2>3, <3>1 DEF Kept, ResultsKept, Present
    <3>3. d \in D1
      BY <1>2, <1>5, <3>1, <3>2 DEF KickParts, Requeued
    <3> QED
      BY <2>4, <3>2, <3>3
  <2>6. CASE \A d \in D : d.task # t
    <3>1. t \in Owed(T, D)
      BY <1>5, <2>1, <2>3, <2>6 DEF Owed, Over, Is, Present
    <3>2. DeliveryOf(T, t).sid = s
      BY <2>3 DEF DeliveryOf
    <3>3. DeliveryOf(T, t) \in D1
      BY <1>2, <1>5, <1>10, <3>1, <3>2 DEF KickParts, Requeued
    <3> QED
      BY <2>4, <3>2, <3>3
  <2> QED
    BY <2>5, <2>6
<1> QED
  BY <1>8, <1>9, <1>10 DEF WorkFor

(* The runs that are there stay on their agents, prompting if they were.   *)
RunsStay ==
  \A k \in RunKeys : runs[k] # NoRun =>
    /\ runs'[k] # NoRun /\ runs'[k].sid = runs[k].sid /\ runs'[k].gen = runs[k].gen
    /\ runs[k].stage = "prompting" => runs'[k].stage = "prompting"

LEMMA BusyStays ==
  ASSUME RunsStay, gen' = gen, NEW s \in Sessions, s \in live => s \in live',
         s \in inflight => s \in inflight', IsBusy(s)
  PROVE  IsBusy(s)'
<1>1. CASE Streaming(s)
  <2>1. PICK k \in RunKeys : RunsOn(k, s, gen[s]) /\ runs[k].stage = "prompting"
    BY <1>1 DEF Streaming
  <2>2. RunsOn(k, s, gen[s])' /\ runs'[k].stage = "prompting"
    BY <2>1 DEF RunsStay, RunsOn
  <2> QED
    BY <1>1, <2>2 DEF Streaming, IsBusy
<1>2. CASE s \in inflight
  BY <1>2 DEF IsBusy
<1> QED
  BY <1>1, <1>2 DEF IsBusy

(* Steps that begin no kick, but also free no session and add no work.     *)
LEMMA NothingNew ==
  ASSUME NoLostWakeup, RunsStay,
         UNCHANGED <<gen, live, tasks, deliveries, reserved, restored, idleKick>>,
         inflight \subseteq inflight'
  PROVE  NoLostWakeup'
<1> SUFFICES ASSUME NEW s \in Sessions, Free(s, reserved)', WorkFor(s)' # {}
             PROVE  idleKick'
  BY DEF NoLostWakeup
<1>1. Free(s, reserved)
  BY BusyStays DEF Free
<1>2. WorkFor(s)' = WorkFor(s)
  BY DEF WorkFor, ResultsFor, QueuedFor, Owed, Over, Is, Present
<1> QED
  BY <1>1, <1>2 DEF NoLostWakeup

(* Nor does closing a session: it only takes work away from the others.    *)
LEMMA CloseWakes ==
  ASSUME TypeOK, BooksOK, NoLostWakeup, NEW s \in Sessions, Close(s)
  PROVE  NoLostWakeup'
<1> DEFINE gone == {t \in TaskIds : Is(tasks, t, {"queued"})
                                    /\ s \in {tasks[t].from, tasks[t].to}}
           T == [t \in TaskIds |-> IF t \in gone
                                   THEN [tasks[t] EXCEPT !.status = "cancelled"]
                                   ELSE tasks[t]]
<1>1. PICK G : tasks' = Without(T, G)
  BY DEF Close
<1>2. /\ deliveries' = {d \in deliveries : d.sid # s}
      /\ runs' = Aborted(s) /\ gen' = gen
      /\ live' = live \ {s} /\ inflight' = inflight \ {s}
      /\ UNCHANGED <<reserved, restored, idleKick>>
  BY DEF Close, Unregister
<1>3. ResultsKept(tasks, deliveries, Acting, issued) /\ tasks \in Table
  BY DEF BooksOK, Kept, TypeOK, Table
<1>4. ASSUME NEW t \in TaskIds, tasks'[t] # NoTask
      PROVE  /\ tasks[t] # NoTask
             /\ tasks'[t].from = tasks[t].from
             /\ tasks'[t].to = tasks[t].to
             /\ tasks'[t].pending = tasks[t].pending
             /\ tasks'[t].status # tasks[t].status => tasks'[t].status = "cancelled"
  <2>1. tasks'[t] = T[t]
    BY <1>1, <1>4 DEF Without
  <2>2. CASE t \in gone
    <3>1. tasks[t] # NoTask
      BY <2>2 DEF Is, Present
    <3>2. tasks[t] \in Task
      BY <1>3, <3>1 DEF Table
    <3>3. tasks'[t] = [tasks[t] EXCEPT !.status = "cancelled"]
      BY <2>1, <2>2
    <3> QED
      BY <3>1, <3>2, <3>3 DEF Task
  <2>3. CASE t \notin gone
    <3>1. tasks'[t] = tasks[t]
      BY <2>1, <2>3
    <3> QED
      BY <1>4, <3>1
  <2> QED
    BY <2>2, <2>3
<1> HIDE DEF T, gone
<1>5. RunsStay
  BY <1>2, AbortedRuns DEF RunsStay, TypeOK
<1> SUFFICES ASSUME NEW r \in Sessions, Free(r, reserved)', NEW t, t \in WorkFor(r)'
             PROVE  idleKick'
  BY DEF NoLostWakeup
<1>6. r # s /\ r \in live
  BY <1>2 DEF Free
<1>7. Free(r, reserved)
  <2>1. r \in inflight => r \in inflight'
    BY <1>2, <1>6
  <2>2. r \in live /\ r \in live' /\ r \notin reserved
    BY <1>2, <1>6 DEF Free
  <2>3. ~IsBusy(r)
    BY <1>2, <1>5, <2>1, <2>2, BusyStays DEF Free
  <2> QED
    BY <2>2, <2>3 DEF Free
<1>8. t \in WorkFor(r)
  <2>1. CASE t \in ResultsFor(deliveries', r)
    BY <1>2, <2>1 DEF ResultsFor, WorkFor
  <2>2. CASE t \in QueuedFor(tasks', r)
    <3>1. t \in TaskIds /\ tasks'[t] # NoTask /\ tasks'[t].status = "queued" /\ tasks'[t].to = r
      BY <2>2 DEF QueuedFor, Is, Present
    <3>2. tasks[t] # NoTask /\ tasks[t].status = "queued" /\ tasks[t].to = r
      BY <1>4, <3>1
    <3> QED
      BY <3>1, <3>2 DEF QueuedFor, Is, Present, WorkFor
  <2>3. CASE restored' /\ t \in Owed(tasks, deliveries)' /\ tasks'[t].from = r
    <3>1. /\ t \in TaskIds /\ tasks'[t] # NoTask /\ tasks'[t].pending
          /\ \A d \in deliveries' : d.task # t
      BY <2>3 DEF Owed, Over, Is, Present
    <3>2. tasks[t] # NoTask /\ tasks[t].pending /\ tasks[t].from = r
      BY <1>4, <2>3, <3>1
    <3>3. tasks[t].status \in Ended
      BY <1>3, <3>1, <3>2 DEF ResultsKept, Present
    <3>4. ASSUME NEW d \in deliveries, d.task = t PROVE FALSE
      <4>1. d.sid = s
        BY <1>2, <3>1, <3>4
      <4>2. tasks[t].from = d.sid
        BY <1>3, <3>2, <3>4 DEF ResultsKept, Present
      <4> QED
        BY <1>6, <3>2, <4>1, <4>2
    <3> QED
      BY <1>2, <1>6, <2>3, <3>1, <3>2, <3>3, <3>4 DEF Owed, Over, Is, Present, WorkFor
  <2> QED
    BY <2>1, <2>2, <2>3 DEF WorkFor
<1> QED
  BY <1>2, <1>7, <1>8 DEF NoLostWakeup

LEMMA WakeStep ==
  ASSUME TypeOK, BooksOK, RunningIsWorkedOn, NoLostWakeup, [Next]_vars
  PROVE  NoLostWakeup'
<1>0. SessionsTypeOK
  BY DEF TypeOK
<1>1. CASE Kicks
  <2>1. KicksFromBooks
    BY <1>1, KicksKeepBooks
  <2> QED
    BY <1>0, <2>1, KickWakes DEF KicksFromBooks
<1>2. ASSUME NEW p \in Policies, SetPolicy(p)
      PROVE  NoLostWakeup'
  <2>1. UNCHANGED sessionVars
    BY <1>2 DEF SetPolicy
  <2>2. RunsStay /\ UNCHANGED <<gen, live, inflight>>
    BY <2>1 DEF sessionVars, RunsStay
  <2> QED
    BY <1>2, <2>2, NothingNew DEF SetPolicy
<1>3. ASSUME NEW u \in Outside, NEW s \in Sessions, Send(u, s)
      PROVE  NoLostWakeup'
  <2> DEFINE who == [r \in {s} |-> <<"user", u>>]
             with == [r \in {s} |-> UserTurn(r)]
  <2>1. BeginTurns({s}, who, with) /\ runs[<<"user", u>>] = NoRun
    BY <1>3 DEF Send
  <2>2. \A k \in RunKeys : runs[k] # NoRun => ~\E r \in {s} : who[r] = k
    BY <2>1
  <2> HIDE DEF who, with
  <2>3. \A k \in RunKeys : runs[k] # NoRun => runs'[k] = runs[k]
    BY <2>1, <2>2 DEF BeginTurns
  <2>4. RunsStay /\ UNCHANGED <<gen, live>> /\ inflight \subseteq inflight'
    BY <2>1, <2>3 DEF BeginTurns, RunsStay
  <2> QED
    BY <1>3, <2>4, NothingNew DEF Send, teamVars
<1>4. ASSUME NEW k \in RunKeys, Prompt(k)
      PROVE  NoLostWakeup'
  <2>1. runs[k] \in Run /\ StartPrompt(k)
    BY <1>0, <1>4 DEF Prompt, StartPrompt, SessionsTypeOK
  <2> DEFINE new == [runs[k] EXCEPT !.stage = "prompting"]
  <2>2. /\ new \in Run /\ new.sid = runs[k].sid /\ new.gen = runs[k].gen
        /\ new.stage = "prompting"
    BY <2>1 DEF Run
  <2>3. runs' = [runs EXCEPT ![k] = new]
    BY <2>1 DEF StartPrompt
  <2> HIDE DEF new
  <2>4. RunsStay
    BY <1>0, <2>2, <2>3, RunIsNotNoRun DEF SessionsTypeOK, RunsStay
  <2>5. UNCHANGED <<gen, live, inflight>>
    BY <2>1 DEF StartPrompt
  <2> QED
    BY <1>4, <2>4, <2>5, NothingNew DEF Prompt, teamVars
<1>5. CASE idleKick'
  BY <1>5 DEF NoLostWakeup
<1>6. ASSUME NEW t \in TaskIds, CancelRunning(t)
      PROVE  NoLostWakeup'
  <2>1. tasks[t].to \in Sessions /\ runs' = Aborted(tasks[t].to)
    BY <1>6 DEF TypeOK, CancelRunning, AbortAgent, Is, Present, Task
  <2>2. RunsStay
    BY <1>0, <2>1, AbortedRuns DEF RunsStay
  <2> QED
    BY <1>6, <2>2, NothingNew DEF CancelRunning, AbortAgent
<1>7. ASSUME NEW s \in Sessions, Abort(s)
      PROVE  NoLostWakeup'
  <2>1. RunsStay
    BY <1>0, <1>7, AbortedRuns DEF RunsStay, Abort, AbortAgent
  <2> QED
    BY <1>7, <2>1, NothingNew DEF Abort, AbortAgent
<1>8. ASSUME NEW s \in Sessions, Close(s)
      PROVE  NoLostWakeup'
  BY <1>8, CloseWakes
<1>9. CASE UNCHANGED vars
  <2>1. RunsStay
    BY <1>9 DEF vars, sessionVars, RunsStay
  <2> QED
    BY <1>9, <2>1, NothingNew DEF vars, sessionVars, teamVars
<1> QED
  BY <1>1, <1>2, <1>3, <1>4, <1>5, <1>6, <1>7, <1>8, <1>9
     DEF Next, Kicks, Settle, Create

(* No wake-up is lost: an idle session never has work without a kick on    *)
(* its way (team.ts, kick and its callers; sessions.ts, notifyIdle).  The  *)
(* books are needed for Close: what it takes off the queue was queued for  *)
(* the session that goes away, so no result of another one is owed anew.   *)
THEOREM NoWakeupIsLost == Spec => []NoLostWakeup
<1>1. Init => NoLostWakeup
  BY DEF Init, SessionsInit, NoLostWakeup, Free
<1>2. Bookkeeping /\ NoLostWakeup /\ [Next]_vars => NoLostWakeup'
  <2> SUFFICES ASSUME Bookkeeping, NoLostWakeup, [Next]_vars PROVE NoLostWakeup'
    OBVIOUS
  <2>1. RunningIsWorkedOn /\ TypeOK /\ BooksOK
    BY BooksBalance DEF Bookkeeping, BooksOK
  <2> QED
    BY <2>1, WakeStep
<1> QED
  BY <1>1, <1>2, BookkeepingHolds, PTL DEF Spec

-----------------------------------------------------------------------------
(* The recorded turn.  Beside the property itself: a run is on an agent    *)
(* its session has named, and an id that is closed or idle has no turn -   *)
(* which is what a session that is opened for the first time begins with.  *)
RunsAreOfTheirSession ==
  \A k \in RunKeys : runs[k] # NoRun => runs[k].gen \in 1..gen[runs[k].sid]

IdleHasNoTurn ==
  \A s \in Sessions :
    /\ s \in live => gen[s] >= 1
    /\ s \notin live => s \notin inflight
    /\ s \notin inflight => turns[s] = NoTurn

TurnsOK == RunsAreOfTheirSession /\ IdleHasNoTurn /\ TurnMatchesRun

(* On a session that was never closed every run is on the current agent.   *)
LEMMA OnCurrentAgent ==
  ASSUME SessionsTypeOK, RunsAreOfTheirSession, NEW s \in Sessions, gen[s] <= 1,
         NEW k \in RunKeys, runs[k] # NoRun, runs[k].sid = s
  PROVE  RunsOn(k, s, gen[s]) /\ gen[s] = 1
<1>1. runs[k].gen \in 1..gen[s] /\ gen[s] \in Nat
  BY DEF RunsAreOfTheirSession, SessionsTypeOK
<1> QED
  BY <1>1 DEF RunsOn

(* Steps that change no more of a run than its stage or its mark.          *)
LEMMA SameTurns ==
  ASSUME TurnsOK, UNCHANGED <<live, gen, inflight, turns>>,
         \A k \in RunKeys :
           /\ runs'[k] = NoRun <=> runs[k] = NoRun
           /\ runs[k] # NoRun => /\ runs'[k].sid = runs[k].sid
                                 /\ runs'[k].gen = runs[k].gen
                                 /\ runs'[k].turn = runs[k].turn
  PROVE  TurnsOK'
<1>1. ASSUME NEW k \in RunKeys, NEW s \in Sessions
      PROVE  RunsOn(k, s, gen[s])' <=> RunsOn(k, s, gen[s])
  BY DEF RunsOn
<1>2. RunsAreOfTheirSession' /\ IdleHasNoTurn'
  BY DEF TurnsOK, RunsAreOfTheirSession, IdleHasNoTurn
<1>3. ASSUME NEW k \in RunKeys, NEW s \in Sessions, RunsOn(k, s, gen[s])
      PROVE  runs'[k].turn = runs[k].turn
  BY <1>3 DEF RunsOn
<1>4. TurnMatchesRun'
  <2> SUFFICES ASSUME NEW s \in Sessions, NeverClosed(s)'
               PROVE  /\ s \in inflight' <=> \E k \in RunKeys : RunsOn(k, s, gen[s])'
                      /\ s \notin inflight' => turns'[s] = NoTurn
                      /\ \A k \in RunKeys : RunsOn(k, s, gen[s])' => turns'[s] = runs'[k].turn
                      /\ \A j, k \in RunKeys :
                           RunsOn(j, s, gen[s])' /\ RunsOn(k, s, gen[s])' => j = k
    BY DEF TurnMatchesRun
  <2>1. NeverClosed(s)
    BY DEF NeverClosed
  <2> QED
    BY <1>1, <1>3, <2>1 DEF TurnsOK, TurnMatchesRun
<1> QED
  BY <1>2, <1>4 DEF TurnsOK

(* Runs that begin on idle sessions, one on each.                          *)
LEMMA BegunTurns ==
  ASSUME SessionsTypeOK, TurnsOK, NEW at \in SUBSET Sessions, NEW who, NEW with,
         \A s \in at : s \in live /\ s \notin inflight /\ who[s] \in RunKeys,
         \A r, s \in at : who[r] = who[s] => r = s,
         \A k \in RunKeys : runs[k] # NoRun =>
           runs'[k] = runs[k] /\ \A s \in at : who[s] # k,
         \A s \in at : runs'[who[s]] = NewRun(s, with[s]) /\ NewRun(s, with[s]) # NoRun,
         \A k \in RunKeys : (\A s \in at : who[s] # k) => runs'[k] = runs[k],
         BeginTurns(at, who, with)
  PROVE  TurnsOK'
<1>1. /\ live' = live /\ gen' = gen /\ inflight' = inflight \cup at
      /\ turns' = [s \in Sessions |-> IF s \in at THEN with[s] ELSE turns[s]]
  BY DEF BeginTurns
<1>2. ASSUME NEW k \in RunKeys, runs'[k] # NoRun
      PROVE  \/ runs[k] # NoRun /\ runs'[k] = runs[k]
             \/ runs[k] = NoRun /\ \E s \in at : who[s] = k /\ runs'[k] = NewRun(s, with[s])
  <2>1. CASE runs[k] # NoRun
    BY <2>1
  <2>2. CASE runs[k] = NoRun
    <3>1. PICK s \in at : who[s] = k
      BY <1>2, <2>2
    <3> QED
      BY <2>2, <3>1
  <2> QED
    BY <2>1, <2>2
<1>3. \A s \in at : \A turn :
        NewRun(s, turn).sid = s /\ NewRun(s, turn).gen = gen[s] /\ NewRun(s, turn).turn = turn
  BY DEF NewRun
<1>4. \A s \in at : gen[s] \in Nat /\ gen[s] >= 1
  BY DEF SessionsTypeOK, TurnsOK, IdleHasNoTurn
<1>5. RunsAreOfTheirSession'
  <2> SUFFICES ASSUME NEW k \in RunKeys, runs'[k] # NoRun
               PROVE  runs'[k].gen \in 1..gen[runs'[k].sid]
    BY <1>1 DEF RunsAreOfTheirSession
  <2>1. CASE runs[k] # NoRun /\ runs'[k] = runs[k]
    BY <2>1 DEF TurnsOK, RunsAreOfTheirSession
  <2>2. CASE \E s \in at : runs'[k] = NewRun(s, with[s])
    <3>1. PICK s \in at : runs'[k] = NewRun(s, with[s])
      BY <2>2
    <3>2. runs'[k].gen = gen[s] /\ runs'[k].sid = s
      BY <1>3, <3>1
    <3> QED
      BY <1>4, <3>2
  <2> QED
    BY <1>2, <2>1, <2>2
<1>6. IdleHasNoTurn'
  <2> SUFFICES ASSUME NEW s \in Sessions
               PROVE  /\ s \in live => gen[s] >= 1
                      /\ s \notin live => s \notin inflight'
                      /\ s \notin inflight' => turns'[s] = NoTurn
    BY <1>1 DEF IdleHasNoTurn
  <2> QED
    BY <1>1 DEF TurnsOK, IdleHasNoTurn
<1>7. TurnMatchesRun'
  <2> SUFFICES ASSUME NEW s \in Sessions, NeverClosed(s)'
               PROVE  /\ s \in inflight' <=> \E k \in RunKeys : RunsOn(k, s, gen[s])'
                      /\ s \notin inflight' => turns'[s] = NoTurn
                      /\ \A k \in RunKeys : RunsOn(k, s, gen[s])' => turns'[s] = runs'[k].turn
                      /\ \A j, k \in RunKeys :
                           RunsOn(j, s, gen[s])' /\ RunsOn(k, s, gen[s])' => j = k
    BY DEF TurnMatchesRun
  <2>1. NeverClosed(s)
    BY <1>1 DEF NeverClosed
  <2>2. CASE s \notin at
    <3>1. ASSUME NEW k \in RunKeys
          PROVE  /\ RunsOn(k, s, gen[s])' <=> RunsOn(k, s, gen[s])
                 /\ RunsOn(k, s, gen[s]) => runs'[k] = runs[k]
      <4>1. CASE runs[k] # NoRun
        BY <1>1, <4>1 DEF RunsOn
      <4>2. CASE runs[k] = NoRun
        <5>1. ~RunsOn(k, s, gen[s])
          BY <4>2 DEF RunsOn
        <5>2. ASSUME RunsOn(k, s, gen[s])' PROVE FALSE
          <6>1. runs'[k] # NoRun /\ runs'[k].sid = s
            BY <5>2 DEF RunsOn
          <6>2. PICK r \in at : runs'[k] = NewRun(r, with[r])
            BY <1>2, <4>2, <6>1
          <6> QED
            BY <1>3, <2>2, <6>1, <6>2
        <5> QED
          BY <5>1, <5>2
      <4> QED
        BY <4>1, <4>2
    <3>2. (s \in inflight' <=> s \in inflight) /\ turns'[s] = turns[s]
      BY <1>1, <2>2
    <3>3. /\ s \in inflight <=> \E k \in RunKeys : RunsOn(k, s, gen[s])
          /\ s \notin inflight => turns[s] = NoTurn
          /\ \A k \in RunKeys : RunsOn(k, s, gen[s]) => turns[s] = runs[k].turn
          /\ \A j, k \in RunKeys :
               RunsOn(j, s, gen[s]) /\ RunsOn(k, s, gen[s]) => j = k
      BY <2>1 DEF TurnsOK, TurnMatchesRun
    <3> QED
      BY <3>1, <3>2, <3>3
  <2>3. CASE s \in at
    <3>1. \A k \in RunKeys : ~RunsOn(k, s, gen[s])
      BY <2>1, <2>3 DEF TurnsOK, TurnMatchesRun
    <3>2. ASSUME NEW k \in RunKeys, RunsOn(k, s, gen[s])'
          PROVE  k = who[s]
      <4>1. runs'[k] # NoRun /\ runs'[k].sid = s /\ runs'[k].gen = gen[s]
        BY <1>1, <3>2 DEF RunsOn
      <4>2. runs[k] = NoRun
        BY <3>1, <4>1 DEF RunsOn
      <4>3. PICK r \in at : who[r] = k /\ runs'[k] = NewRun(r, with[r])
        BY <1>2, <4>1, <4>2
      <4>4. r = s
        BY <1>3, <4>1, <4>3
      <4> QED
        BY <4>3, <4>4
    <3>3. who[s] \in RunKeys /\ RunsOn(who[s], s, gen[s])' /\ runs'[who[s]].turn = with[s]
      BY <1>1, <1>3, <2>3 DEF RunsOn
    <3>4. s \in inflight' /\ turns'[s] = with[s]
      BY <1>1, <2>3
    <3> QED
      BY <3>2, <3>3, <3>4
  <2> QED
    BY <2>2, <2>3
<1> QED
  BY <1>5, <1>6, <1>7 DEF TurnsOK

LEMMA KickTurns ==
  ASSUME SessionsTypeOK, TurnsOK, NEW T \in Table, NEW D \in SUBSET Delivery,
         NEW Q \in Orders, NEW R \in SUBSET Sessions, NEW can, NEW iss,
         mapOrder' \in Orders, can \subseteq TaskIds,
         Kept(T, D, R, RunsActing, can, iss),
         Kick(T, D, Q, R)
  PROVE  TurnsOK'
<1>1. PICK D1 \in SUBSET Delivery : \E next, with, G : KickParts(T, D, R, D1, next, with, G)
  BY KickUnfolds
<1>2. PICK next, with, G : KickParts(T, D, R, D1, next, with, G)
  BY <1>1
<1> DEFINE at == DOMAIN next
<1>3. /\ at \in SUBSET Sessions /\ NewRuns(next, R, RunsActing)
      /\ \A s \in at : with[s] \in Turn
      /\ BeginTurns(at, next, with)
  BY <1>2 DEF KickParts
<1>4. \A s \in at : s \in live /\ s \notin inflight
  BY <1>2 DEF KickParts, Assignment, Assigned, Free, IsBusy
<1>5. /\ \A k \in RunKeys : runs[k] # NoRun =>
           runs'[k] = runs[k] /\ \A s \in at : next[s] # k
      /\ \A s \in at : next[s] \in RunKeys /\ runs'[next[s]] = NewRun(s, with[s])
      /\ \A k \in RunKeys : (\A s \in at : next[s] # k) => runs'[k] = runs[k]
  BY <1>3, BegunRuns
<1>6. \A s \in at : NewRun(s, with[s]) # NoRun
  BY <1>3, NewRunType, RunIsNotNoRun
<1>7. \A r, s \in at : next[r] = next[s] => r = s
  BY <1>3 DEF NewRuns
<1> HIDE DEF at
<1> QED
  BY <1>3, <1>4, <1>5, <1>6, <1>7, BegunTurns

LEMMA SettleTurns ==
  ASSUME SessionsTypeOK, TurnsOK, NEW k \in RunKeys, NEW ok, EndTurn(k, ok)
  PROVE  TurnsOK'
<1> DEFINE s == runs[k].sid
<1>1. /\ runs[k] # NoRun /\ live' = live /\ gen' = gen
      /\ inflight' = inflight \ {s}
      /\ turns' = [turns EXCEPT ![s] = NoTurn]
      /\ runs' = [runs EXCEPT ![k] = NoRun]
  BY DEF EndTurn
<1>2. s \in Sessions
  BY <1>1 DEF SessionsTypeOK, Run
<1> HIDE DEF s
<1>3. /\ runs'[k] = NoRun /\ turns'[s] = NoTurn
      /\ \A j \in RunKeys : j # k => runs'[j] = runs[j]
      /\ \A r \in Sessions : r # s => turns'[r] = turns[r]
  BY <1>1, <1>2 DEF SessionsTypeOK
<1>4. RunsAreOfTheirSession'
  BY <1>1, <1>3 DEF TurnsOK, RunsAreOfTheirSession
<1>5. IdleHasNoTurn'
  BY <1>1, <1>3 DEF TurnsOK, IdleHasNoTurn
<1>6. TurnMatchesRun'
  <2> SUFFICES ASSUME NEW r \in Sessions, NeverClosed(r)'
               PROVE  /\ r \in inflight' <=> \E j \in RunKeys : RunsOn(j, r, gen[r])'
                      /\ r \notin inflight' => turns'[r] = NoTurn
                      /\ \A j \in RunKeys : RunsOn(j, r, gen[r])' => turns'[r] = runs'[j].turn
                      /\ \A i, j \in RunKeys :
                           RunsOn(i, r, gen[r])' /\ RunsOn(j, r, gen[r])' => i = j
    BY DEF TurnMatchesRun
  <2>1. NeverClosed(r) /\ gen[r] = 1
    BY <1>1 DEF NeverClosed
  <2>2. /\ r \in inflight <=> \E j \in RunKeys : RunsOn(j, r, gen[r])
        /\ r \notin inflight => turns[r] = NoTurn
        /\ \A j \in RunKeys : RunsOn(j, r, gen[r]) => turns[r] = runs[j].turn
        /\ \A i, j \in RunKeys :
             RunsOn(i, r, gen[r]) /\ RunsOn(j, r, gen[r]) => i = j
    BY <2>1 DEF TurnsOK, TurnMatchesRun
  <2>3. CASE r # s
    <3>1. ~RunsOn(k, r, gen[r]) /\ ~RunsOn(k, r, gen[r])'
      BY <1>3, <2>3 DEF RunsOn, s
    <3>2. \A j \in RunKeys : /\ RunsOn(j, r, gen[r])' <=> RunsOn(j, r, gen[r])
                             /\ RunsOn(j, r, gen[r]) => runs'[j] = runs[j]
      BY <1>1, <1>3, <3>1 DEF RunsOn
    <3>3. (r \in inflight' <=> r \in inflight) /\ turns'[r] = turns[r]
      BY <1>1, <1>3, <2>3
    <3> QED
      BY <2>2, <3>2, <3>3
  <2>4. CASE r = s
    <3>1. RunsOn(k, r, gen[r])
      BY <1>1, <2>1, <2>4, OnCurrentAgent DEF TurnsOK, s
    <3>2. \A j \in RunKeys : ~RunsOn(j, r, gen[r])'
      <4> SUFFICES ASSUME NEW j \in RunKeys, RunsOn(j, r, gen[r])' PROVE FALSE
        OBVIOUS
      <4>1. j # k /\ runs'[j] = runs[j]
        BY <1>3 DEF RunsOn
      <4>2. RunsOn(j, r, gen[r])
        BY <1>1, <4>1 DEF RunsOn
      <4> QED
        BY <2>2, <3>1, <4>1, <4>2
    <3> QED
      BY <1>1, <1>3, <2>4, <3>2
  <2> QED
    BY <2>3, <2>4
<1> QED
  BY <1>4, <1>5, <1>6 DEF TurnsOK

LEMMA RegisterTurns ==
  ASSUME SessionsTypeOK, TurnsOK, NEW s \in Sessions, Register(s)
  PROVE  TurnsOK'
<1>1. /\ s \notin live /\ live' = live \cup {s}
      /\ gen' = [gen EXCEPT ![s] = gen[s] + 1]
      /\ UNCHANGED <<inflight, turns, runs>>
  BY DEF Register
<1>2. /\ gen[s] \in Nat /\ gen'[s] = gen[s] + 1
      /\ \A r \in Sessions : gen[r] \in Nat
      /\ \A r \in Sessions : r # s => gen'[r] = gen[r]
  BY <1>1 DEF SessionsTypeOK
<1>3. RunsAreOfTheirSession'
  <2> SUFFICES ASSUME NEW k \in RunKeys, runs[k] # NoRun
               PROVE  runs[k].gen \in 1..gen'[runs[k].sid]
    BY <1>1 DEF RunsAreOfTheirSession
  <2>1. runs[k].sid \in Sessions /\ runs[k].gen \in 1..gen[runs[k].sid]
    BY DEF TurnsOK, RunsAreOfTheirSession, SessionsTypeOK, Run
  <2> QED
    BY <1>2, <2>1
<1>4. IdleHasNoTurn'
  BY <1>1, <1>2 DEF TurnsOK, IdleHasNoTurn
<1>5. TurnMatchesRun'
  <2> SUFFICES ASSUME NEW r \in Sessions, NeverClosed(r)'
               PROVE  /\ r \in inflight' <=> \E k \in RunKeys : RunsOn(k, r, gen[r])'
                      /\ r \notin inflight' => turns'[r] = NoTurn
                      /\ \A k \in RunKeys : RunsOn(k, r, gen[r])' => turns'[r] = runs'[k].turn
                      /\ \A i, k \in RunKeys :
                           RunsOn(i, r, gen[r])' /\ RunsOn(k, r, gen[r])' => i = k
    BY DEF TurnMatchesRun
  <2>1. CASE r = s
    <3>1. gen[r] = 0
      BY <1>2, <2>1 DEF NeverClosed
    <3>2. \A k \in RunKeys : ~RunsOn(k, r, gen[r])'
      <4> SUFFICES ASSUME NEW k \in RunKeys, runs[k] # NoRun, runs[k].sid = r PROVE FALSE
        BY <1>1 DEF RunsOn
      <4> QED
        BY <3>1 DEF TurnsOK, RunsAreOfTheirSession
    <3>3. r \notin inflight' /\ turns'[r] = NoTurn
      BY <1>1, <2>1 DEF TurnsOK, IdleHasNoTurn
    <3> QED
      BY <3>2, <3>3
  <2>2. CASE r # s
    <3>1. NeverClosed(r)
      BY <1>1, <1>2, <2>2 DEF NeverClosed
    <3>2. /\ r \in inflight <=> \E j \in RunKeys : RunsOn(j, r, gen[r])
          /\ r \notin inflight => turns[r] = NoTurn
          /\ \A j \in RunKeys : RunsOn(j, r, gen[r]) => turns[r] = runs[j].turn
          /\ \A i, j \in RunKeys :
               RunsOn(i, r, gen[r]) /\ RunsOn(j, r, gen[r]) => i = j
      BY <3>1 DEF TurnsOK, TurnMatchesRun
    <3>3. \A k \in RunKeys : RunsOn(k, r, gen[r])' <=> RunsOn(k, r, gen[r])
      BY <1>1, <1>2, <2>2 DEF RunsOn
    <3> QED
      BY <1>1, <3>2, <3>3
  <2> QED
    BY <2>1, <2>2
<1> QED
  BY <1>3, <1>4, <1>5 DEF TurnsOK

LEMMA UnregisterTurns ==
  ASSUME SessionsTypeOK, TurnsOK, NEW s \in Sessions, Unregister(s)
  PROVE  TurnsOK'
<1>1. /\ live' = live \ {s} /\ gen' = gen /\ inflight' = inflight \ {s}
      /\ turns'[s] = NoTurn /\ \A r \in Sessions : r # s => turns'[r] = turns[r]
      /\ runs' = Aborted(s)
  BY DEF Unregister, SessionsTypeOK
<1>2. \A k \in RunKeys :
        /\ runs'[k] = NoRun <=> runs[k] = NoRun
        /\ runs[k] # NoRun => /\ runs'[k].sid = runs[k].sid
                              /\ runs'[k].gen = runs[k].gen
                              /\ runs'[k].turn = runs[k].turn
  BY <1>1, AbortedRuns
<1>3. RunsAreOfTheirSession'
  BY <1>1, <1>2 DEF TurnsOK, RunsAreOfTheirSession
<1>4. IdleHasNoTurn'
  BY <1>1 DEF TurnsOK, IdleHasNoTurn
<1>5. TurnMatchesRun'
  <2> SUFFICES ASSUME NEW r \in Sessions, NeverClosed(r)'
               PROVE  /\ r \in inflight' <=> \E k \in RunKeys : RunsOn(k, r, gen[r])'
                      /\ r \notin inflight' => turns'[r] = NoTurn
                      /\ \A k \in RunKeys : RunsOn(k, r, gen[r])' => turns'[r] = runs'[k].turn
                      /\ \A i, k \in RunKeys :
                           RunsOn(i, r, gen[r])' /\ RunsOn(k, r, gen[r])' => i = k
    BY DEF TurnMatchesRun
  <2>1. r # s /\ NeverClosed(r)
    BY <1>1 DEF NeverClosed
  <2>2. /\ r \in inflight <=> \E j \in RunKeys : RunsOn(j, r, gen[r])
        /\ r \notin inflight => turns[r] = NoTurn
        /\ \A j \in RunKeys : RunsOn(j, r, gen[r]) => turns[r] = runs[j].turn
        /\ \A i, j \in RunKeys :
             RunsOn(i, r, gen[r]) /\ RunsOn(j, r, gen[r]) => i = j
    BY <2>1 DEF TurnsOK, TurnMatchesRun
  <2>3. \A k \in RunKeys : /\ RunsOn(k, r, gen[r])' <=> RunsOn(k, r, gen[r])
                           /\ RunsOn(k, r, gen[r]) => runs'[k].turn = runs[k].turn
    BY <1>1, <1>2 DEF RunsOn
  <2>4. (r \in inflight' <=> r \in inflight) /\ turns'[r] = turns[r]
    BY <1>1, <2>1
  <2> QED
    BY <2>2, <2>3, <2>4
<1> QED
  BY <1>3, <1>4, <1>5 DEF TurnsOK

LEMMA TurnsStep ==
  ASSUME TypeOK, BooksOK, RunningIsWorkedOn, TurnsOK, [Next]_vars
  PROVE  TurnsOK'
<1>0. SessionsTypeOK
  BY DEF TypeOK
<1>1. CASE Kicks
  <2>1. KicksFromBooks
    BY <1>1, KicksKeepBooks
  <2> QED
    BY <1>0, <2>1, KickTurns DEF KicksFromBooks
<1>2. CASE UNCHANGED sessionVars
  BY <1>2, SameTurns DEF sessionVars
<1>3. ASSUME NEW u \in Outside, NEW s \in Sessions, Send(u, s)
      PROVE  TurnsOK'
  <2> DEFINE at == {s}
             who == [r \in {s} |-> <<"user", u>>]
             with == [r \in {s} |-> UserTurn(r)]
  <2>1. BeginTurns(at, who, with) /\ runs[<<"user", u>>] = NoRun
    BY <1>3 DEF Send
  <2>2. /\ at \in SUBSET Sessions
        /\ \A r \in at : /\ r \in live /\ r \notin inflight /\ who[r] \in RunKeys
                         /\ with[r] \in Turn
        /\ \A r, q \in at : who[r] = who[q] => r = q
    BY <1>3, UserTurnType DEF Send, IsBusy, RunKeys
  <2>3. \A k \in RunKeys : runs[k] # NoRun => \A r \in at : who[r] # k
    BY <2>1
  <2>4. \A r \in at : \A q \in at : q = r
    OBVIOUS
  <2> HIDE DEF at, who, with
  <2>5. \A k \in RunKeys : (\A r \in at : who[r] # k) => runs'[k] = runs[k]
    BY <2>1 DEF BeginTurns
  <2>6. ASSUME NEW r \in at
        PROVE  runs'[who[r]] = NewRun(r, with[r]) /\ NewRun(r, with[r]) # NoRun
    <3> DEFINE q == CHOOSE q \in at : who[q] = who[r]
    <3>1. q = r
      BY <2>4
    <3>2. runs'[who[r]] = NewRun(q, with[q])
      BY <2>1, <2>2 DEF BeginTurns
    <3> HIDE DEF q
    <3>3. NewRun(r, with[r]) # NoRun
      BY <1>0, <2>2, NewRunType, RunIsNotNoRun
    <3> QED
      BY <3>1, <3>2, <3>3
  <2>7. \A k \in RunKeys : runs[k] # NoRun => runs'[k] = runs[k] /\ \A r \in at : who[r] # k
    BY <2>3, <2>5
  <2> QED
    BY <1>0, <2>1, <2>2, <2>5, <2>6, <2>7, BegunTurns
<1>4. ASSUME NEW k \in RunKeys, Prompt(k)
      PROVE  TurnsOK'
  <2>1. runs[k] \in Run /\ StartPrompt(k)
    BY <1>0, <1>4 DEF Prompt, StartPrompt, SessionsTypeOK
  <2> DEFINE new == [runs[k] EXCEPT !.stage = "prompting"]
  <2>2. /\ new \in Run /\ new.sid = runs[k].sid /\ new.gen = runs[k].gen
        /\ new.turn = runs[k].turn
    BY <2>1 DEF Run
  <2>3. runs' = [runs EXCEPT ![k] = new] /\ UNCHANGED <<live, gen, inflight, turns>>
    BY <2>1 DEF StartPrompt
  <2> HIDE DEF new
  <2>4. \A j \in RunKeys :
          /\ runs'[j] = NoRun <=> runs[j] = NoRun
          /\ runs[j] # NoRun => /\ runs'[j].sid = runs[j].sid
                                /\ runs'[j].gen = runs[j].gen
                                /\ runs'[j].turn = runs[j].turn
    BY <1>0, <2>1, <2>2, <2>3, RunIsNotNoRun DEF SessionsTypeOK
  <2> QED
    BY <2>3, <2>4, SameTurns
<1>5. ASSUME NEW k \in RunKeys, NEW ok \in BOOLEAN, Settle(k, ok)
      PROVE  TurnsOK'
  BY <1>0, <1>5, SettleTurns DEF Settle
<1>6. ASSUME NEW s \in Sessions, AbortAgent(s)
      PROVE  TurnsOK'
  BY <1>0, <1>6, AbortedRuns, SameTurns DEF AbortAgent
<1>7. ASSUME NEW t \in TaskIds, CancelRunning(t)
      PROVE  TurnsOK'
  <2>1. tasks[t].to \in Sessions /\ AbortAgent(tasks[t].to)
    BY <1>7 DEF TypeOK, CancelRunning, Is, Present, Task
  <2> QED
    BY <1>6, <2>1
<1>8. ASSUME NEW s \in Sessions, Abort(s) \/ Create(s) \/ Close(s)
      PROVE  TurnsOK'
  BY <1>0, <1>6, <1>8, RegisterTurns, UnregisterTurns DEF Abort, Create, Close
<1> QED
  BY <1>1, <1>2, <1>3, <1>4, <1>5, <1>7, <1>8 DEF Next, Kicks, SetPolicy, vars

-----------------------------------------------------------------------------
(* What follows for sessions that were never closed.                       *)
TurnBooks == Bookkeeping /\ TurnsOK

LEMMA TurnBooksHold == Spec => []TurnBooks
<1>1. Init => TurnsOK
  BY DEF Init, SessionsInit, TurnsOK, RunsAreOfTheirSession, IdleHasNoTurn,
         TurnMatchesRun, NeverClosed
<1>2. Bookkeeping /\ TurnsOK /\ [Next]_vars => TurnsOK'
  <2> SUFFICES ASSUME Bookkeeping, TurnsOK, [Next]_vars PROVE TurnsOK'
    OBVIOUS
  <2>1. RunningIsWorkedOn /\ TypeOK /\ BooksOK
    BY BooksBalance DEF Bookkeeping, BooksOK
  <2> QED
    BY <2>1, TurnsStep
<1> QED
  BY <1>1, <1>2, BookkeepingHolds, PTL DEF Spec, TurnBooks

(* As long as a session was not closed, the turn recorded for it is that   *)
(* of the one run on its agent (sessions.ts, beginTurn and endTurn).       *)
THEOREM TurnsMatchRuns == Spec => []TurnMatchesRun
<1>1. TurnBooks => TurnMatchesRun
  BY DEF TurnBooks, TurnsOK
<1> QED
  BY <1>1, TurnBooksHold, PTL

(* Cancelling a running task stops no turn but its own, as long as its     *)
(* target was not closed: the one run on the target's agent is the task's. *)
LEMMA CancelStopsItsTurn ==
  ASSUME TurnBooks, NEW t \in TaskIds, CancelRunning(t), NeverClosed(tasks[t].to)
  PROVE  StopsOnly(t)
<1> DEFINE s == tasks[t].to
<1>0. SessionsTypeOK /\ RunningIsWorkedOn /\ TurnsOK
  BY BooksBalance DEF TurnBooks, Bookkeeping, TypeOK
<1>1. tasks[t] \in Task /\ Is(tasks, t, {"running"}) /\ resolved = NoRun
  BY DEF TurnBooks, Bookkeeping, TypeOK, CancelRunning, Is, Present
<1>2. s \in Sessions /\ runs' = Aborted(s)
  BY <1>1 DEF CancelRunning, AbortAgent, Task
<1>3. <<"task", t>> \in RunKeys /\ runs[<<"task", t>>] # NoRun /\ runs[<<"task", t>>].sid = s
  BY <1>0, <1>1, KeyFacts DEF RunningIsWorkedOn, Working
<1>4. NeverClosed(s) /\ gen[s] = 1
  BY DEF NeverClosed
<1> HIDE DEF s
<1>5. RunsOn(<<"task", t>>, s, gen[s])
  BY <1>0, <1>2, <1>3, <1>4, OnCurrentAgent DEF TurnsOK
<1>6. ASSUME NEW k \in RunKeys, runs'[k] # runs[k]
      PROVE  k = <<"task", t>>
  <2>1. RunsOn(k, s, gen[s])
    BY <1>2, <1>6 DEF Aborted
  <2> QED
    BY <1>0, <1>2, <1>3, <1>4, <1>5, <2>1 DEF TurnsOK, TurnMatchesRun
<1> QED
  BY <1>6 DEF StopsOnly

(* docs/contract.md 2.11 for sessions that were never closed: cancelling a *)
(* task leaves the user's own conversation in its target alone.            *)
THEOREM CancelsStopTheirTurn == Spec => CancelStopsOnlyItsTurnIfOpen
<1>1. TurnBooks =>
        \A t \in TaskIds : CancelRunning(t) /\ NeverClosed(tasks[t].to) => StopsOnly(t)
  BY CancelStopsItsTurn
<1> QED
  BY <1>1, TurnBooksHold, PTL DEF CancelStopsOnlyItsTurnIfOpen

(* What a kick leaves of a task: its status and its mark may change.       *)
LEMMA KickedTask ==
  ASSUME SessionsTypeOK, NEW T \in Table, NEW D \in SUBSET Delivery,
         NEW Q \in Orders, NEW R \in SUBSET Sessions, NEW can, NEW iss,
         mapOrder' \in Orders, can \subseteq TaskIds,
         Kept(T, D, R, RunsActing, can, iss),
         Kick(T, D, Q, R), NEW t \in TaskIds, T[t] # NoTask, T[t].status = "queued"
  PROVE  /\ tasks'[t].from = T[t].from
         /\ tasks'[t].to = T[t].to
         /\ tasks'[t].depth = T[t].depth
         /\ tasks'[t].chain = T[t].chain
<1>1. PICK D1 \in SUBSET Delivery : \E next, with, G : KickParts(T, D, R, D1, next, with, G)
  BY KickUnfolds
<1>2. PICK next, with, G : KickParts(T, D, R, D1, next, with, G)
  BY <1>1
<1>3. T[t] \in Task
  BY DEF Table
<1>4. CASE <<"task", t>> \in Begun(next)
  <2>1. Started(T, next)[t] = [T[t] EXCEPT !.status = "running"]
    BY <1>4 DEF Started
  <2>2. Started(T, next)[t].status = "running"
    BY <1>3, <2>1 DEF Task
  <2>3. t \notin Over(Started(T, next))
    BY <2>2 DEF Over, Is, Ended
  <2>4. tasks'[t] = Started(T, next)[t]
    BY <1>2, <2>3 DEF KickParts, Without
  <2> QED
    BY <1>3, <2>1, <2>4 DEF Task
<1>5. CASE <<"task", t>> \notin Begun(next) /\ <<"result", t>> \in Begun(next)
  <2>1. Started(T, next)[t] = [T[t] EXCEPT !.pending = FALSE]
    BY <1>5 DEF Started, Present
  <2>2. Started(T, next)[t].status = "queued"
    BY <1>3, <2>1 DEF Task
  <2>3. t \notin Over(Started(T, next))
    BY <2>2 DEF Over, Is, Ended
  <2>4. tasks'[t] = Started(T, next)[t]
    BY <1>2, <2>3 DEF KickParts, Without
  <2> QED
    BY <1>3, <2>1, <2>4 DEF Task
<1>6. CASE <<"task", t>> \notin Begun(next) /\ <<"result", t>> \notin Begun(next)
  <2>1. Started(T, next)[t] = T[t]
    BY <1>6 DEF Started
  <2>2. t \notin Over(Started(T, next))
    BY <2>1 DEF Over, Is, Ended
  <2>3. tasks'[t] = T[t]
    BY <1>2, <2>1, <2>2 DEF KickParts, Without
  <2> QED
    BY <2>3
<1> QED
  BY <1>4, <1>5, <1>6

(* A call is accepted in the turn it is made in, as long as the session it *)
(* is made by was not closed: that turn is the one recorded for the id.    *)
LEMMA AcceptedTask ==
  ASSUME TurnBooks, NEW k \in RunKeys, NEW to \in Sessions, NEW text \in Texts,
         Enqueue(k, to, text), NEW t \in issued' \ issued, NeverClosed(tasks'[t].from)
  PROVE  AcceptedInTurn(t)
<1> DEFINE s == runs[k].sid
           new == NewTask(s, to, text)
<1>0. TypeOK /\ SessionsTypeOK /\ BooksOK /\ TurnsOK
  BY DEF TurnBooks, Bookkeeping, BooksOK, TypeOK
<1>1. PICK T \in Table :
        /\ t \in TaskIds /\ T[t] = new /\ new \in Task
        /\ Kept(T, deliveries, reserved, RunsActing, cancelRequested', issued')
        /\ Kick(T, deliveries, queueOrder, reserved)
  BY <1>0, EnqueueKicks
<1>2. /\ mapOrder' \in Orders /\ cancelRequested' \subseteq TaskIds
      /\ deliveries \in SUBSET Delivery /\ queueOrder \in Orders /\ reserved \in SUBSET Sessions
  BY <1>0, EnqueueKicks DEF TypeOK, Orders
<1>3. /\ new # NoTask /\ new.status = "queued" /\ new.from = s /\ new.to = to
      /\ new.depth = CallerTurn(s).depth + 1
      /\ new.chain = Append(CallerTurn(s).chain, to)
  BY <1>1, TeamAssumption DEF NewTask
<1> HIDE DEF new
<1>4. /\ tasks'[t].from = s /\ tasks'[t].to = to
      /\ tasks'[t].depth = CallerTurn(s).depth + 1
      /\ tasks'[t].chain = Append(CallerTurn(s).chain, to)
  <2>1. /\ tasks'[t].from = T[t].from /\ tasks'[t].to = T[t].to
        /\ tasks'[t].depth = T[t].depth /\ tasks'[t].chain = T[t].chain
    BY <1>0, <1>1, <1>2, <1>3, KickedTask
  <2> QED
    BY <1>1, <1>3, <2>1
<1>5. /\ runs[k] # NoRun /\ runs[k] \in Run /\ s \in Sessions
      /\ CallerTurn(s).origin # "result"
  BY <1>0 DEF Enqueue, SessionsTypeOK, Run
<1>6. NeverClosed(s) /\ gen[s] = 1
  BY <1>4 DEF NeverClosed
<1>7. turns[s] = runs[k].turn
  <2>1. RunsOn(k, s, gen[s])
    BY <1>0, <1>5, <1>6, OnCurrentAgent DEF TurnsOK
  <2> QED
    BY <1>0, <1>5, <1>6, <2>1 DEF TurnsOK, TurnMatchesRun
<1>8. CallerTurn(s) = runs[k].turn
  BY <1>5, <1>7, SessionsAssumption DEF CallerTurn, Run
<1> QED
  BY <1>4, <1>5, <1>8 DEF AcceptedInTurn

LEMMA OnlyCallsAreAccepted ==
  ASSUME [Next]_vars, NEW t \in issued' \ issued
  PROVE  \E k \in RunKeys, to \in Sessions, text \in Texts : Enqueue(k, to, text)
  BY DEF Next, vars, teamVars, SetPolicy, Send, Prompt, Settle, FinishTask, FinishResult,
         IdleKick, CancelQueued, CancelRunning, Abort, Create, Close, Restore

(* docs/contract.md 2.11 for sessions that were never closed: an accepted  *)
(* task continues the delegation chain of the turn it was asked for in,    *)
(* one step deeper, and no result turn delegates (team.ts, enqueue).       *)
THEOREM ChainsFollowTurns == Spec => ChainFollowsTurnIfOpen
<1>1. TurnBooks /\ [Next]_vars =>
        \A t \in issued' \ issued : NeverClosed(tasks'[t].from) => AcceptedInTurn(t)
  BY AcceptedTask, OnlyCallsAreAccepted
<1> QED
  BY <1>1, TurnBooksHold, PTL DEF Spec, ChainFollowsTurnIfOpen
-----------------------------------------------------------------------------
(***************************************************************************)
(* Delegation stays within its limits (docs/contract.md 2.11), for any     *)
(* number of sessions and tasks: every task of the table lies on a simple  *)
(* path of sessions no longer than the depth limit, the open ones are      *)
(* within the caps, and none of them is there twice.                       *)
(*                                                                         *)
(* LimitsHold alone is not inductive: the path of a new task extends the   *)
(* chain of the turn that is recorded for its source, so a recorded turn   *)
(* must itself end in a simple path to its session - except a result turn, *)
(* whose chain ends elsewhere and which therefore may not delegate.        *)
(***************************************************************************)

(* The limits of a table, and how tables change.                           *)

Limits(T) ==
  /\ \A t \in TaskIds : Present(T, t) => OnSimplePath(T[t])
  /\ IsFiniteSet(Open(T))
  /\ Cardinality(Open(T)) <= MaxOpenTotal
  /\ \A s \in Sessions : Cardinality(OpenFrom(T, s)) <= MaxOpenPerSource
  /\ \A t, v \in Open(T) :
       T[t].from = T[v].from /\ T[t].to = T[v].to /\ T[t].text = T[v].text => t = v

SameJob(p, q) ==
  /\ p.from = q.from /\ p.to = q.to /\ p.text = q.text
  /\ p.depth = q.depth /\ p.chain = q.chain

(* U has only tasks of T, and none that was closed in T is open again.     *)
Descends(T, U) ==
  \A t \in TaskIds : Present(U, t) =>
    /\ Present(T, t)
    /\ SameJob(U[t], T[t])
    /\ t \in Open(U) => t \in Open(T)

LEMMA DescendsOn ==
  ASSUME NEW T, NEW U, NEW V, Descends(T, U), Descends(U, V)
  PROVE  Descends(T, V)
  BY DEF Descends, SameJob

LEMMA WithoutDescends ==
  ASSUME NEW T, NEW G
  PROVE  Descends(T, Without(T, G))
  BY DEF Descends, SameJob, Without, Present, Open, Is

LEMMA MovedDescends ==
  ASSUME NEW T \in Table, NEW t \in TaskIds, T[t] # NoTask, NEW st \in Ended
  PROVE  Descends(T, Moved(T, t, st))
<1>1. st \in Status
  BY DEF Status
<1>2. /\ Moved(T, t, st)[t] = [T[t] EXCEPT !.status = st]
      /\ \A v \in TaskIds \ {t} : Moved(T, t, st)[v] = T[v]
  BY <1>1, RecordedType
<1>3. T[t] \in Task
  BY DEF Table
<1>4. SameJob(Moved(T, t, st)[t], T[t]) /\ t \notin Open(Moved(T, t, st))
  BY <1>2, <1>3 DEF SameJob, Task, Open, Is, Ended
<1>5. \A v \in TaskIds \ {t} :
        /\ Present(Moved(T, t, st), v) <=> Present(T, v)
        /\ SameJob(Moved(T, t, st)[v], T[v])
        /\ v \in Open(Moved(T, t, st)) => v \in Open(T)
  BY <1>2 DEF SameJob, Present, Open, Is
<1> QED
  BY <1>4, <1>5 DEF Descends, Present

LEMMA PendingDescends ==
  ASSUME NEW T \in Table, NEW t \in TaskIds, T[t] # NoTask
  PROVE  Descends(T, MarkPending(T, t))
<1>1. /\ MarkPending(T, t)[t] = [T[t] EXCEPT !.pending = TRUE]
      /\ \A v \in TaskIds \ {t} : MarkPending(T, t)[v] = T[v]
  BY PendingTable
<1>2. T[t] \in Task
  BY DEF Table
<1>3. /\ SameJob(MarkPending(T, t)[t], T[t])
      /\ MarkPending(T, t)[t].status = T[t].status
  BY <1>1, <1>2 DEF SameJob, Task
<1> QED
  BY <1>1, <1>3 DEF Descends, SameJob, Present, Open, Is

LEMMA StartedDescends ==
  ASSUME NEW T \in Table, NEW D \in SUBSET Delivery, NEW R, NEW next,
         Assignment(next, T, D, R)
  PROVE  Descends(T, Started(T, next))
<1> SUFFICES ASSUME NEW t \in TaskIds, Present(Started(T, next), t)
             PROVE  /\ Present(T, t)
                    /\ SameJob(Started(T, next)[t], T[t])
                    /\ t \in Open(Started(T, next)) => t \in Open(T)
  BY DEF Descends
<1>1. CASE <<"task", t>> \in Begun(next)
  <2>1. PICK s \in DOMAIN next : next[s] = <<"task", t>>
    BY <1>1 DEF Begun
  <2>2. Is(T, t, {"queued"})
    BY <2>1 DEF Assignment, Assigned, QueuedFor
  <2>3. T[t] \in Task
    BY <2>2 DEF Is, Present, Table
  <2>4. Started(T, next)[t] = [T[t] EXCEPT !.status = "running"]
    BY <1>1 DEF Started
  <2> QED
    BY <2>2, <2>3, <2>4 DEF SameJob, Task, Open, Is, Present
<1>2. CASE <<"task", t>> \notin Begun(next)
  <2>1. Started(T, next)[t] = T[t] \/
          (T[t] # NoTask /\ Started(T, next)[t] = [T[t] EXCEPT !.pending = FALSE])
    BY <1>2 DEF Started, Present
  <2>2. T[t] # NoTask
    BY <2>1 DEF Present
  <2>3. T[t] \in Task
    BY <2>2 DEF Table
  <2>4. /\ SameJob(Started(T, next)[t], T[t])
        /\ Started(T, next)[t].status = T[t].status
    BY <2>1, <2>3 DEF SameJob, Task
  <2> QED
    BY <2>2, <2>4 DEF Open, Is, Present
<1> QED
  BY <1>1, <1>2

(* A table that descends from one within the limits is within them.        *)
LEMMA LimitsKeep ==
  ASSUME NEW T, NEW U, Limits(T), Descends(T, U)
  PROVE  Limits(U)
<1>1. \A t \in Open(U) : t \in TaskIds /\ Present(U, t)
  BY DEF Open, Is
<1>2. Open(U) \subseteq Open(T)
  BY <1>1 DEF Descends
<1>3. /\ IsFiniteSet(Open(T)) /\ IsFiniteSet(Open(U))
      /\ Cardinality(Open(U)) <= Cardinality(Open(T))
  BY <1>2, FS_Subset DEF Limits
<1>4. Cardinality(Open(U)) \in Nat /\ Cardinality(Open(T)) \in Nat
  BY <1>3, FS_CardinalityType
<1>5. Cardinality(Open(U)) <= MaxOpenTotal
  BY <1>3, <1>4, TeamAssumption DEF Limits
<1>6. ASSUME NEW s \in Sessions
      PROVE  Cardinality(OpenFrom(U, s)) <= MaxOpenPerSource
  <2>1. OpenFrom(U, s) \subseteq OpenFrom(T, s)
    BY <1>1, <1>2 DEF OpenFrom, Descends, SameJob
  <2>2. OpenFrom(T, s) \subseteq Open(T)
    BY DEF OpenFrom
  <2>3. IsFiniteSet(OpenFrom(T, s))
    BY <1>3, <2>2, FS_Subset
  <2>4. /\ IsFiniteSet(OpenFrom(U, s))
        /\ Cardinality(OpenFrom(U, s)) <= Cardinality(OpenFrom(T, s))
    BY <2>1, <2>3, FS_Subset
  <2>5. Cardinality(OpenFrom(U, s)) \in Nat /\ Cardinality(OpenFrom(T, s)) \in Nat
    BY <2>3, <2>4, FS_CardinalityType
  <2> QED
    BY <2>4, <2>5, TeamAssumption DEF Limits
<1>7. \A t \in TaskIds : Present(U, t) => OnSimplePath(U[t])
  <2> SUFFICES ASSUME NEW t \in TaskIds, Present(U, t) PROVE OnSimplePath(U[t])
    OBVIOUS
  <2>1. OnSimplePath(T[t]) /\ SameJob(U[t], T[t])
    BY DEF Limits, Descends
  <2> QED
    BY <2>1 DEF OnSimplePath, SameJob
<1>8. \A t, v \in Open(U) :
        U[t].from = U[v].from /\ U[t].to = U[v].to /\ U[t].text = U[v].text => t = v
  BY <1>1, <1>2 DEF Limits, Descends, SameJob
<1> QED
  BY <1>3, <1>5, <1>6, <1>7, <1>8 DEF Limits

-----------------------------------------------------------------------------
(* The turns that are recorded.                                            *)

(* A chain that ends, after `depth` hand-overs and no repetition, at s.    *)
LeadsTo(chain, depth, s) ==
  /\ depth \in Nat
  /\ Len(chain) = depth + 1
  /\ chain[depth + 1] = s
  /\ \A i, j \in DOMAIN chain : chain[i] = chain[j] => i = j

TurnLeadsTo(turn, s) ==
  turn.origin # "result" => LeadsTo(turn.chain, turn.depth, s)

TurnsLead == \A s \in Sessions : turns[s] # NoTurn => TurnLeadsTo(turns[s], s)

LEMMA UserTurnLeads == \A s \in Sessions : TurnLeadsTo(UserTurn(s), s)
  BY DEF UserTurn, TurnLeadsTo, LeadsTo

(* The turns that a kick begins.                                           *)
LEMMA TurnOfLeads ==
  ASSUME NEW T \in Table, NEW D \in SUBSET Delivery, NEW R, NEW next,
         Assignment(next, T, D, R), NEW s \in DOMAIN next,
         \A t \in TaskIds : Present(T, t) => OnSimplePath(T[t])
  PROVE  TurnLeadsTo(TurnOf(T, next[s], s), s)
<1>1. PICK t \in TaskIds :
        \/ next[s] = <<"result", t>>
        \/ next[s] = <<"task", t>> /\ t \in QueuedFor(T, s)
  BY DEF Assignment, Assigned
<1>2. CASE next[s] = <<"result", t>>
  BY <1>2 DEF TurnOf, ResultTurn, TurnLeadsTo
<1>3. CASE next[s] = <<"task", t>> /\ t \in QueuedFor(T, s)
  <2>1. Present(T, t) /\ T[t].to = s
    BY <1>3 DEF QueuedFor, Is
  <2>2. T[t] \in Task
    BY <2>1 DEF Present, Table
  <2>3. LeadsTo(T[t].chain, T[t].depth, s)
    BY <2>1, <2>2 DEF OnSimplePath, LeadsTo, Task
  <2> QED
    BY <1>3, <2>3 DEF TurnOf, TaskTurn, TurnLeadsTo
<1> QED
  BY <1>1, <1>2, <1>3

LEMMA BeginTurnsLead ==
  ASSUME TurnsLead, NEW at \in SUBSET Sessions, NEW who, NEW with,
         \A s \in at : TurnLeadsTo(with[s], s), BeginTurns(at, who, with)
  PROVE  TurnsLead'
  BY DEF TurnsLead, BeginTurns

(* Steps that record no new turn.                                          *)
LEMMA FewerTurnsLead ==
  ASSUME TurnsLead, \A s \in Sessions : turns'[s] \in {turns[s], NoTurn}
  PROVE  TurnsLead'
  BY DEF TurnsLead

-----------------------------------------------------------------------------
(* A kick starts queued tasks and reports results: no task becomes open,   *)
(* and the turns it records lead to their sessions.                        *)
LEMMA KickLimits ==
  ASSUME NEW T \in Table, NEW D \in SUBSET Delivery, NEW Q \in Orders,
         NEW R \in SUBSET Sessions, mapOrder' \in Orders,
         Limits(T), TurnsLead, Kick(T, D, Q, R)
  PROVE  Limits(tasks') /\ TurnsLead'
<1>0. PICK D1 \in SUBSET Delivery, Q1 \in Orders : \E next :
        Assignment(next, T, D1, R) /\ Begin(next, T, D1, Q1, R)
  BY KickBegins
<1>1. PICK next : Assignment(next, T, D1, R) /\ Begin(next, T, D1, Q1, R)
  BY <1>0
<1> DEFINE with == [s \in DOMAIN next |-> TurnOf(T, next[s], s)]
<1>2. PICK G : tasks' = Without(Started(T, next), G)
  BY <1>1 DEF Begin
<1>3. BeginTurns(DOMAIN next, next, with)
  BY <1>1 DEF Begin
<1>4. \A s \in DOMAIN next : TurnLeadsTo(with[s], s)
  BY <1>1, TurnOfLeads DEF Limits
<1> HIDE DEF with
<1>5. Descends(T, Started(T, next))
  BY <1>1, StartedDescends
<1>6. Descends(Started(T, next), tasks')
  BY <1>2, WithoutDescends
<1>7. Limits(tasks')
  BY <1>5, <1>6, DescendsOn, LimitsKeep
<1>8. DOMAIN next \in SUBSET Sessions
  BY <1>1 DEF Assignment
<1> QED
  BY <1>3, <1>4, <1>7, <1>8, BeginTurnsLead

(* So does the end of a task.                                              *)
LEMMA ConcludeLimits ==
  ASSUME TypeOK, mapOrder' \in Orders, Limits(tasks), TurnsLead,
         NEW t \in TaskIds, tasks[t] # NoTask, NEW st \in Ended,
         NEW R \in SUBSET Sessions, Conclude(t, st, R)
  PROVE  Limits(tasks') /\ TurnsLead'
<1>0. tasks \in Table /\ deliveries \in SUBSET Delivery /\ queueOrder \in Orders
  BY DEF TypeOK, Table, Orders
<1> DEFINE T == Moved(tasks, t, st)
<1>1. st \in Status
  BY DEF Status
<1>2. T \in Table /\ T[t] # NoTask
  BY <1>0, <1>1, RecordedType
<1>3. Descends(tasks, T)
  BY <1>0, MovedDescends
<1>4. PICK G \in Trimmings(T, {t}) :
        LET T1 == MarkPending(Without(T, G), t)
        IN  Kick(T1, Queued(T1, deliveries, t),
                 Behind(queueOrder, {d.task : d \in deliveries}, {t}, {}), R)
  BY DEF Conclude
<1> HIDE DEF T
<1> DEFINE T1 == MarkPending(Without(T, G), t)
<1>5. T1 \in Table /\ Queued(T1, deliveries, t) \in SUBSET Delivery
  BY <1>0, <1>2, OutcomeType
<1>6. Without(T, G) \in Table /\ Without(T, G)[t] # NoTask
  <2>1. t \notin G
    BY TrimmingsKeep
  <2> QED
    BY <1>2, <2>1, WithoutType DEF Without
<1>7. Descends(T, Without(T, G)) /\ Descends(Without(T, G), T1)
  BY <1>6, WithoutDescends, PendingDescends
<1>8. Behind(queueOrder, {d.task : d \in deliveries}, {t}, {}) \in Orders
  <2>1. {} \in Orders
    BY DEF Orders
  <2> QED
    BY <1>0, <2>1, DeliveredIds, BehindType
<1>9. Kick(T1, Queued(T1, deliveries, t),
           Behind(queueOrder, {d.task : d \in deliveries}, {t}, {}), R)
  BY <1>4
<1> HIDE DEF T1
<1>10. Limits(T1)
  BY <1>3, <1>7, DescendsOn, LimitsKeep
<1> QED
  BY <1>5, <1>8, <1>9, <1>10, KickLimits

-----------------------------------------------------------------------------
(* A new task.                                                             *)

(* Its path is the chain of the caller's turn, one session longer.         *)
LEMMA NewTaskPath ==
  ASSUME SessionsTypeOK, TurnsLead, NEW s \in Sessions, NEW to \in Sessions,
         NEW text \in Texts, CallerTurn(s).origin # "result",
         CallerTurn(s).depth + 1 <= MaxDepth, to \notin Passed(CallerTurn(s).chain)
  PROVE  OnSimplePath(NewTask(s, to, text))
<1> DEFINE c == CallerTurn(s).chain
           d == CallerTurn(s).depth
<1>1. c \in Seq(Sessions) /\ d \in Nat
  BY CallerTurnType DEF Turn
<1>2. LeadsTo(c, d, s)
  BY UserTurnLeads DEF CallerTurn, TurnsLead, TurnLeadsTo
<1>3. /\ NewTask(s, to, text).depth = d + 1
      /\ NewTask(s, to, text).chain = Append(c, to)
      /\ NewTask(s, to, text).from = s
      /\ NewTask(s, to, text).to = to
  BY DEF NewTask
<1>4. d + 1 \in 1..MaxDepth
  BY <1>1, TeamAssumption
<1>5. \A i \in DOMAIN c : c[i] # to
  BY DEF Passed
<1> HIDE DEF c, d
<1>6. /\ Len(c) = d + 1 /\ c[d + 1] = s
      /\ \A i, j \in DOMAIN c : c[i] = c[j] => i = j
  BY <1>2 DEF LeadsTo
<1>7. /\ Len(Append(c, to)) = d + 2
      /\ DOMAIN c = 1..(d + 1) /\ DOMAIN Append(c, to) = 1..(d + 2)
      /\ \A i \in 1..(d + 1) : Append(c, to)[i] = c[i]
      /\ Append(c, to)[d + 2] = to
  BY <1>1, <1>6
<1>8. \A i, j \in DOMAIN Append(c, to) : Append(c, to)[i] = Append(c, to)[j] => i = j
  BY <1>1, <1>5, <1>6, <1>7
<1> QED
  BY <1>1, <1>3, <1>4, <1>6, <1>7, <1>8 DEF OnSimplePath

LEMMA NewTaskLimits ==
  ASSUME SessionsTypeOK, tasks \in Table, Limits(tasks), TurnsLead,
         NEW s \in Sessions, NEW to \in Sessions, NEW text \in Texts,
         CallerTurn(s).origin # "result", CallerTurn(s).depth + 1 <= MaxDepth,
         to \notin Passed(CallerTurn(s).chain), ~Duplicate(s, to, text),
         WithinCaps(s), NEW t \in TaskIds, ~Present(tasks, t)
  PROVE  Limits([tasks EXCEPT ![t] = NewTask(s, to, text)])
<1> DEFINE n == NewTask(s, to, text)
           T == [tasks EXCEPT ![t] = n]
<1>1. n \in Task /\ n # NoTask
  BY NewTaskType, TeamAssumption
<1>2. OnSimplePath(n)
  BY NewTaskPath
<1>3. n.status = "queued" /\ n.from = s /\ n.to = to /\ n.text = text
  BY DEF NewTask
<1> HIDE DEF n
<1>4. T[t] = n /\ \A v \in TaskIds \ {t} : T[v] = tasks[v]
  BY DEF Table
<1> HIDE DEF T
<1>5. Open(T) = Open(tasks) \cup {t} /\ t \notin Open(tasks)
  BY <1>1, <1>3, <1>4 DEF Open, Is, Present
<1>6. OpenFrom(T, s) = OpenFrom(tasks, s) \cup {t} /\ t \notin OpenFrom(tasks, s)
  BY <1>3, <1>4, <1>5 DEF OpenFrom, Open
<1>7. \A r \in Sessions \ {s} : OpenFrom(T, r) = OpenFrom(tasks, r)
  BY <1>3, <1>4, <1>5 DEF OpenFrom, Open
<1>8. /\ IsFiniteSet(Open(tasks)) /\ Cardinality(Open(tasks)) \in Nat
      /\ IsFiniteSet(Open(T)) /\ Cardinality(Open(T)) = Cardinality(Open(tasks)) + 1
  BY <1>5, FS_AddElement, FS_CardinalityType DEF Limits
<1>9. /\ Cardinality(OpenFrom(tasks, s)) \in Nat
      /\ Cardinality(OpenFrom(T, s)) = Cardinality(OpenFrom(tasks, s)) + 1
  <2>1. IsFiniteSet(OpenFrom(tasks, s))
    <3>1. OpenFrom(tasks, s) \subseteq Open(tasks)
      BY DEF OpenFrom
    <3> QED
      BY <1>8, <3>1, FS_Subset
  <2> QED
    BY <1>6, <2>1, FS_AddElement, FS_CardinalityType
<1>10. Cardinality(Open(T)) <= MaxOpenTotal
  BY <1>8, TeamAssumption DEF WithinCaps
<1>11. ASSUME NEW r \in Sessions
       PROVE  Cardinality(OpenFrom(T, r)) <= MaxOpenPerSource
  <2>1. CASE r = s
    BY <1>9, <2>1, TeamAssumption DEF WithinCaps
  <2>2. CASE r # s
    BY <1>7, <2>2 DEF Limits
  <2> QED
    BY <2>1, <2>2
<1>12. \A v \in TaskIds : Present(T, v) => OnSimplePath(T[v])
  BY <1>2, <1>4 DEF Limits, Present
<1>13. ASSUME NEW v \in Open(T), NEW w \in Open(T),
              T[v].from = T[w].from, T[v].to = T[w].to, T[v].text = T[w].text
       PROVE  v = w
  <2>1. \A x \in Open(tasks) : T[x] = tasks[x]
    BY <1>4, <1>5 DEF Open
  <2>2. \A x \in Open(tasks) :
          ~(tasks[x].from = s /\ tasks[x].to = to /\ tasks[x].text = text)
    BY DEF Duplicate, OpenFrom
  <2>3. CASE v = t /\ w # t
    BY <1>3, <1>4, <1>5, <1>13, <2>1, <2>2, <2>3
  <2>4. CASE v # t /\ w = t
    BY <1>3, <1>4, <1>5, <1>13, <2>1, <2>2, <2>4
  <2>5. CASE v # t /\ w # t
    BY <1>5, <1>13, <2>1, <2>5 DEF Limits
  <2> QED
    BY <2>3, <2>4, <2>5
<1> QED
  BY <1>8, <1>10, <1>11, <1>12, <1>13 DEF Limits, T, n

-----------------------------------------------------------------------------
(* The steps.                                                              *)

WithinLimits == Limits(tasks) /\ TurnsLead

LEMMA SameLimits ==
  ASSUME WithinLimits, tasks' = tasks,
         \A s \in Sessions : turns'[s] \in {turns[s], NoTurn}
  PROVE  WithinLimits'
<1>1. Limits(tasks')
  BY DEF WithinLimits
<1> QED
  BY <1>1, FewerTurnsLead DEF WithinLimits, Limits

LEMMA LimitsStep ==
  ASSUME Bookkeeping, TypeOK', WithinLimits, [Next]_vars
  PROVE  WithinLimits'
<1>0. /\ TypeOK /\ SessionsTypeOK /\ tasks \in Table
      /\ deliveries \in SUBSET Delivery /\ queueOrder \in Orders
      /\ reserved \in SUBSET Sessions /\ issued \subseteq TaskIds
  BY DEF Bookkeeping, TypeOK, Table, Orders
<1>01. mapOrder' \in Orders
  BY DEF TypeOK, Orders
<1>02. Limits(tasks) /\ TurnsLead
  BY DEF WithinLimits
<1>03. \A t \in TaskIds : Present(tasks, t) => t \in issued
  BY DEF Bookkeeping, Kept, ResultsKept
<1>04. Limits(tasks') /\ TurnsLead' => WithinLimits'
  BY DEF WithinLimits, Limits
<1>1. ASSUME NEW k \in RunKeys, NEW to \in Sessions, NEW text \in Texts,
             Enqueue(k, to, text)
      PROVE  WithinLimits'
  <2> DEFINE s == runs[k].sid
             t == CHOOSE i \in TaskIds \ issued : TRUE
             T == [tasks EXCEPT ![t] = NewTask(s, to, text)]
  <2>1. s \in Sessions
    BY <1>0, <1>1 DEF Enqueue, SessionsTypeOK, Run
  <2>2. t \in TaskIds \ issued
    BY <1>0, <1>1 DEF Enqueue
  <2>3. ~Present(tasks, t)
    BY <1>03, <2>2
  <2>4. /\ CallerTurn(s).origin # "result" /\ CallerTurn(s).depth + 1 <= MaxDepth
        /\ to \notin Passed(CallerTurn(s).chain) /\ ~Duplicate(s, to, text)
        /\ WithinCaps(s)
    BY <1>1 DEF Enqueue
  <2>5. PICK G : Kick(Without(T, G), deliveries, queueOrder, reserved)
    BY <1>1 DEF Enqueue
  <2>6. T \in Table
    BY <1>0, <2>1, NewTaskType DEF Table
  <2> HIDE DEF s, t
  <2>7. Limits(T)
    BY <1>0, <1>02, <2>1, <2>2, <2>3, <2>4, NewTaskLimits
  <2> HIDE DEF T
  <2>8. Limits(Without(T, G)) /\ Without(T, G) \in Table
    BY <2>6, <2>7, WithoutDescends, LimitsKeep, WithoutType
  <2> QED
    BY <1>0, <1>01, <1>02, <1>04, <2>5, <2>8, KickLimits
<1>2. ASSUME NEW p \in Policies, SetPolicy(p)
      PROVE  WithinLimits'
  BY <1>2, SameLimits DEF SetPolicy, sessionVars
<1>3. ASSUME NEW u \in Outside, NEW s \in Sessions, Send(u, s)
      PROVE  WithinLimits'
  <2> DEFINE who == [r \in {s} |-> <<"user", u>>]
             with == [r \in {s} |-> UserTurn(r)]
  <2>1. BeginTurns({s}, who, with)
    BY <1>3 DEF Send
  <2>2. \A r \in {s} : TurnLeadsTo(with[r], r)
    BY UserTurnLeads
  <2>3. tasks' = tasks
    BY <1>3 DEF Send, teamVars
  <2> HIDE DEF who, with
  <2>4. TurnsLead'
    BY <1>02, <2>1, <2>2, BeginTurnsLead
  <2> QED
    BY <1>02, <1>04, <2>3, <2>4
<1>4. ASSUME NEW k \in RunKeys, Prompt(k)
      PROVE  WithinLimits'
  BY <1>4, SameLimits DEF Prompt, StartPrompt, teamVars
<1>5. ASSUME NEW k \in RunKeys, NEW ok \in BOOLEAN, Settle(k, ok)
      PROVE  WithinLimits'
  <2>1. \A s \in Sessions : turns'[s] \in {turns[s], NoTurn}
    BY <1>0, <1>5 DEF Settle, EndTurn, SessionsTypeOK
  <2> QED
    BY <1>5, <2>1, SameLimits DEF Settle
<1>6. ASSUME NEW t \in TaskIds, FinishTask(t)
      PROVE  WithinLimits'
  <2> DEFINE status == IF t \in cancelRequested THEN "cancelled"
                       ELSE IF resolved.ok THEN "done" ELSE "failed"
  <2>1. Conclude(t, status, reserved \ {resolved.sid})
    BY <1>6 DEF FinishTask
  <2>2. status \in Ended
    BY DEF Ended
  <2>3. tasks[t] # NoTask
    BY <1>6, BooksBalance DEF FinishTask, RunningIsWorkedOn, Is, Present
  <2> HIDE DEF status
  <2>4. reserved \ {resolved.sid} \in SUBSET Sessions
    BY <1>0
  <2> QED
    BY <1>0, <1>01, <1>02, <1>04, <2>1, <2>2, <2>3, <2>4, ConcludeLimits
<1>7. CASE FinishResult
  <2>1. reserved \ {resolved.sid} \in SUBSET Sessions
    BY <1>0
  <2> QED
    BY <1>0, <1>01, <1>02, <1>04, <1>7, <2>1, KickLimits DEF FinishResult
<1>8. CASE IdleKick
  BY <1>0, <1>01, <1>02, <1>04, <1>8, KickLimits DEF IdleKick
<1>9. ASSUME NEW t \in TaskIds, CancelQueued(t)
      PROVE  WithinLimits'
  <2>1. Conclude(t, "cancelled", reserved) /\ tasks[t] # NoTask
    BY <1>9 DEF CancelQueued, Is, Present
  <2>2. "cancelled" \in Ended
    BY DEF Ended
  <2> QED
    BY <1>0, <1>01, <1>02, <1>04, <2>1, <2>2, ConcludeLimits
<1>10. ASSUME NEW t \in TaskIds, CancelRunning(t)
       PROVE  WithinLimits'
  BY <1>10, SameLimits DEF CancelRunning, AbortAgent
<1>11. ASSUME NEW s \in Sessions, Abort(s)
       PROVE  WithinLimits'
  BY <1>11, SameLimits DEF Abort, AbortAgent
<1>12. ASSUME NEW s \in Sessions, Create(s)
       PROVE  WithinLimits'
  BY <1>12, SameLimits DEF Create, Register
<1>13. ASSUME NEW s \in Sessions, Close(s)
       PROVE  WithinLimits'
  <2> DEFINE gone == {t \in TaskIds : Is(tasks, t, {"queued"})
                                      /\ s \in {tasks[t].from, tasks[t].to}}
             T == [t \in TaskIds |-> IF t \in gone
                                     THEN [tasks[t] EXCEPT !.status = "cancelled"]
                                     ELSE tasks[t]]
  <2>1. PICK G : tasks' = Without(T, G)
    BY <1>13 DEF Close
  <2>2. Descends(tasks, T)
    <3> SUFFICES ASSUME NEW t \in TaskIds, Present(T, t)
                 PROVE  /\ Present(tasks, t)
                        /\ SameJob(T[t], tasks[t])
                        /\ t \in Open(T) => t \in Open(tasks)
      BY DEF Descends
    <3>1. CASE t \in gone
      <4>1. tasks[t] \in Task /\ Present(tasks, t)
        BY <1>0, <3>1 DEF Is, Present, Table
      <4>2. T[t] = [tasks[t] EXCEPT !.status = "cancelled"]
        BY <3>1
      <4> QED
        BY <4>1, <4>2 DEF SameJob, Task, Open, Is
    <3>2. CASE t \notin gone
      BY <3>2 DEF SameJob, Present, Open, Is
    <3> QED
      BY <3>1, <3>2
  <2> HIDE DEF T
  <2>3. Limits(tasks')
    BY <1>02, <2>1, <2>2, WithoutDescends, DescendsOn, LimitsKeep
  <2>4. \A r \in Sessions : turns'[r] \in {turns[r], NoTurn}
    BY <1>0, <1>13 DEF Close, Unregister, SessionsTypeOK
  <2> QED
    BY <1>02, <1>04, <2>3, <2>4, FewerTurnsLead
<1>14. CASE Restore
  BY <1>0, <1>01, <1>02, <1>04, <1>14, KickLimits DEF Restore
<1>15. CASE UNCHANGED vars
  BY <1>15, SameLimits DEF vars, sessionVars, teamVars
<1> QED
  BY <1>1, <1>2, <1>3, <1>4, <1>5, <1>6, <1>7, <1>8, <1>9, <1>10, <1>11,
     <1>12, <1>13, <1>14, <1>15 DEF Next

LEMMA LimitsInit == Init => WithinLimits
<1> SUFFICES ASSUME Init PROVE WithinLimits
  OBVIOUS
<1>1. \A t \in TaskIds : ~Present(tasks, t)
  BY DEF Init, Present
<1>2. Open(tasks) = {}
  BY <1>1 DEF Open, Is
<1>3. \A s \in Sessions : OpenFrom(tasks, s) = {}
  BY <1>2 DEF OpenFrom
<1>4. Limits(tasks)
  BY <1>1, <1>2, <1>3, FS_EmptySet, TeamAssumption DEF Limits
<1>5. TurnsLead
  BY DEF Init, SessionsInit, TurnsLead
<1> QED
  BY <1>4, <1>5 DEF WithinLimits

(* Whatever is closed, created again, cancelled or forgotten in between,   *)
(* delegation stays within its depth, never visits a session twice, and    *)
(* keeps to the caps per source and in total (team.ts, enqueue): also the  *)
(* calls of a leftover run, whose chain is that of the recorded turn.      *)
THEOREM DelegationIsBounded == Spec => []LimitsHold
<1>1. Bookkeeping /\ Bookkeeping' /\ WithinLimits /\ [Next]_vars => WithinLimits'
  BY LimitsStep DEF Bookkeeping
<1>2. WithinLimits => LimitsHold
  BY DEF WithinLimits, Limits, LimitsHold
<1> QED
  BY <1>1, <1>2, LimitsInit, BookkeepingHolds, PTL DEF Spec

-----------------------------------------------------------------------------
(***************************************************************************)
(* One task at a time.  A step changes a task in one of five ways; what it *)
(* did to the others does not matter.                                      *)
(***************************************************************************)
TaskMoves(t) ==
  \/ /\ ~Present(tasks, t) /\ ~Present(tasks', t)
     /\ t \in issued <=> t \in issued'
  \/ /\ ~Present(tasks, t) /\ Is(tasks', t, {"queued", "running"})
     /\ t \notin issued
  \/ Is(tasks, t, {"queued"} \cup Ended) /\ ~Present(tasks', t)
  \/ /\ Present(tasks, t) /\ Present(tasks', t)
     /\ tasks'[t].to = tasks[t].to
     /\ tasks'[t].status # tasks[t].status =>
          <<tasks[t].status, tasks'[t].status>> \in Lifecycle!Moves
     /\ ~tasks[t].pending /\ tasks'[t].pending
          => tasks[t].status \notin Ended /\ tasks'[t].status \in Ended
     /\ tasks[t].pending /\ ~tasks'[t].pending
          => runs[<<"result", t>>] = NoRun /\ runs'[<<"result", t>>] # NoRun

(* What a kick does to a task of the table it is given.                    *)
LEMMA KickMoves ==
  ASSUME SessionsTypeOK, NEW T \in Table, NEW D \in SUBSET Delivery,
         NEW Q \in Orders, NEW R \in SUBSET Sessions, NEW can, NEW iss,
         mapOrder' \in Orders, can \subseteq TaskIds,
         Kept(T, D, R, RunsActing, can, iss), Kick(T, D, Q, R), NEW t \in TaskIds
  PROVE  /\ Present(tasks', t) => Present(T, t)
         /\ Present(T, t) /\ ~Present(tasks', t) =>
              T[t].status \in Ended /\ ~(IsFiniteSet(iss) /\ Cardinality(Over(T)) <= MaxHistory)
         /\ Present(tasks', t) =>
              /\ tasks'[t].to = T[t].to
              /\ tasks'[t].status # T[t].status =>
                   T[t].status = "queued" /\ tasks'[t].status = "running"
              /\ tasks'[t].pending # T[t].pending =>
                   /\ ~tasks'[t].pending
                   /\ runs[<<"result", t>>] = NoRun /\ runs'[<<"result", t>>] # NoRun
<1>1. PICK D1 \in SUBSET Delivery : \E next, with, G : KickParts(T, D, R, D1, next, with, G)
  BY KickUnfolds
<1>2. PICK next, with, G : KickParts(T, D, R, D1, next, with, G)
  BY <1>1
<1> DEFINE S == Started(T, next)
<1>3. \A v \in TaskIds : tasks'[v] = IF v \in G THEN NoTask ELSE S[v]
  BY <1>2 DEF KickParts, Without
<1>4. ASSUME NEW v \in TaskIds
      PROVE  Present(T, v) => Present(S, v)
  <2> SUFFICES ASSUME Present(T, v) PROVE Present(S, v)
    OBVIOUS
  <2>1. T[v] \in Task
    BY DEF Present, Table
  <2>2. [T[v] EXCEPT !.status = "running"] \in Task /\ [T[v] EXCEPT !.pending = FALSE] \in Task
    BY <2>1, MovedType, PendingType, TeamAssumption DEF Status
  <2> QED
    BY <2>1, <2>2, TeamAssumption DEF Started, Present
<1>5. ASSUME NEW v \in TaskIds, S[v] # NoTask
      PROVE  /\ T[v] # NoTask
             /\ S[v].status # T[v].status =>
                  T[v].status = "queued" /\ S[v].status = "running"
             /\ S[v].pending # T[v].pending =>
                  <<"result", v>> \in Begun(next) /\ ~S[v].pending
             /\ S[v].to = T[v].to
  BY <1>2, <1>5, StartedFields DEF KickParts
<1>6. <<"result", t>> \in Begun(next) =>
        runs[<<"result", t>>] = NoRun /\ runs'[<<"result", t>>] # NoRun
  <2> SUFFICES ASSUME NEW s \in DOMAIN next, next[s] = <<"result", t>>
               PROVE  runs[<<"result", t>>] = NoRun /\ runs'[<<"result", t>>] # NoRun
    BY DEF Begun
  <2>1. <<"result", t>> \in RunKeys
    BY KeyFacts
  <2>2. /\ \A k \in RunKeys : runs[k] # NoRun => \A r \in DOMAIN next : next[r] # k
        /\ runs'[next[s]] = NewRun(s, with[s])
        /\ s \in Sessions /\ with[s] \in Turn
    BY <1>2, BegunRuns DEF KickParts
  <2>3. NewRun(s, with[s]) # NoRun
    BY <2>2, NewRunType, RunIsNotNoRun
  <2> QED
    BY <2>1, <2>2, <2>3
<1>7. G \subseteq Over(S) /\ (Cardinality(Over(S)) <= MaxHistory => G = {})
  BY <1>2 DEF KickParts
<1>8. Over(S) \subseteq Over(T)
  BY <1>5 DEF Over, Is, Present, Ended
<1>9. IsFiniteSet(iss) /\ Cardinality(Over(T)) <= MaxHistory => G = {}
  <2> SUFFICES ASSUME IsFiniteSet(iss), Cardinality(Over(T)) <= MaxHistory PROVE G = {}
    OBVIOUS
  <2>1. Over(T) \subseteq iss
    BY DEF Over, Is, Kept, ResultsKept
  <2>2. IsFiniteSet(Over(T))
    BY <2>1, FS_Subset
  <2> HIDE DEF S
  <2>3. /\ IsFiniteSet(Over(S)) /\ Cardinality(Over(S)) \in Nat /\ Cardinality(Over(T)) \in Nat
        /\ Cardinality(Over(S)) <= Cardinality(Over(T))
    BY <1>8, <2>2, FS_Subset, FS_CardinalityType
  <2>4. Cardinality(Over(S)) <= MaxHistory
    BY <2>3, TeamAssumption
  <2> QED
    BY <1>7, <2>4
<1> HIDE DEF S
<1>10. Present(tasks', t) => Present(T, t) /\ tasks'[t] = S[t] /\ S[t] # NoTask
  BY <1>3, <1>5 DEF Present
<1>11. Present(T, t) /\ ~Present(tasks', t) => t \in G
  BY <1>3, <1>4 DEF Present
<1>12. t \in G => T[t].status \in Ended
  BY <1>7, <1>8 DEF Over, Is
<1> QED
  BY <1>5, <1>6, <1>9, <1>10, <1>11, <1>12

(* Ids are handed out one by one.                                          *)
LEMMA IssuedStep ==
  ASSUME [Next]_vars
  PROVE  issued' = issued \/ \E t : issued' = issued \cup {t}
<1>1. ASSUME NEW k \in RunKeys, NEW to \in Sessions, NEW text \in Texts,
             Enqueue(k, to, text)
      PROVE  \E t : issued' = issued \cup {t}
  BY <1>1 DEF Enqueue
<1> QED
  BY <1>1 DEF Next, vars, teamVars, SetPolicy, Send, Prompt, Settle, FinishTask, FinishResult,
         IdleKick, CancelQueued, CancelRunning, Abort, Create, Close, Restore

LEMMA IssuedStaysFinite ==
  ASSUME IsFiniteSet(issued), [Next]_vars
  PROVE  IsFiniteSet(issued') /\ issued \subseteq issued'
  BY IssuedStep, FS_AddElement

LEMMA KicksMove ==
  ASSUME TypeOK, BooksOK, RunningIsWorkedOn, IsFiniteSet(issued), Kicks, NEW t \in TaskIds
  PROVE  TaskMoves(t)
<1>1. PICK T \in Table, D \in SUBSET Delivery, Q \in Orders, R \in SUBSET Sessions :
        /\ Kept(T, D, R, RunsActing, cancelRequested', issued')
        /\ Prepared(T)
        /\ Kick(T, D, Q, R)
  BY KicksKeepBooks DEF KicksFromBooks
<1>2. mapOrder' \in Orders /\ cancelRequested' \subseteq TaskIds /\ SessionsTypeOK
  BY KicksKeepBooks DEF KicksFromBooks, TypeOK
<1>3. /\ Present(tasks', t) => Present(T, t)
      /\ Present(T, t) /\ ~Present(tasks', t) =>
           T[t].status \in Ended /\ ~(IsFiniteSet(issued') /\ Cardinality(Over(T)) <= MaxHistory)
      /\ Present(tasks', t) =>
           /\ tasks'[t].to = T[t].to
           /\ tasks'[t].status # T[t].status =>
                T[t].status = "queued" /\ tasks'[t].status = "running"
           /\ tasks'[t].pending # T[t].pending =>
                /\ ~tasks'[t].pending
                /\ runs[<<"result", t>>] = NoRun /\ runs'[<<"result", t>>] # NoRun
  BY <1>1, <1>2, KickMoves
<1>4. IsFiniteSet(issued') /\ issued \subseteq issued'
  BY IssuedStaysFinite DEF Kicks, Next
<1>5. /\ \A v \in TaskIds : Present(tasks, v) =>
           v \in issued /\ tasks[v] \in Task /\ (tasks[v].pending => tasks[v].status \in Ended)
      /\ \A v \in TaskIds : Present(T, v) => v \in issued' /\ T[v] \in Task
  BY <1>1 DEF BooksOK, Kept, ResultsKept, TypeOK, Present, Table
<1>6. CASE T[t] = tasks[t] /\ t \notin issued' \ issued
  BY <1>3, <1>4, <1>6 DEF TaskMoves, Present, Is, Lifecycle!Moves, Ended
<1>7. CASE T[t] = NoTask /\ Is(tasks, t, Ended)
  BY <1>3, <1>7 DEF TaskMoves, Is, Present
<1>8. CASE t \in issued' \ issued /\ Is(T, t, {"queued"})
  BY <1>3, <1>5, <1>8 DEF TaskMoves, Is, Present, Ended
<1>9. CASE EndedNow(T, t)
  BY <1>3, <1>4, <1>5, <1>9 DEF TaskMoves, EndedNow, Is, Present, Ended, Lifecycle!Moves
<1> QED
  BY <1>1, <1>6, <1>7, <1>8, <1>9 DEF Prepared

(* The other steps leave the table alone or, when a session closes, drop   *)
(* queued tasks.                                                           *)
LEMMA CloseMoves ==
  ASSUME TypeOK, NEW s \in Sessions, Close(s), NEW t \in TaskIds
  PROVE  TaskMoves(t)
<1> DEFINE gone == {v \in TaskIds : Is(tasks, v, {"queued"})
                                    /\ s \in {tasks[v].from, tasks[v].to}}
           T == [v \in TaskIds |-> IF v \in gone
                                   THEN [tasks[v] EXCEPT !.status = "cancelled"]
                                   ELSE tasks[v]]
<1>1. PICK G : /\ G \in (IF gone = {} THEN {{}} ELSE UNION {Trimmings(T, {last}) : last \in gone})
               /\ tasks' = Without(T, G) /\ issued' = issued
  BY DEF Close
<1>2. G \subseteq Over(T)
  <2> HIDE DEF T, gone
  <2>1. G = {} \/ \E last : G \in Trimmings(T, {last})
    BY <1>1
  <2> QED
    BY <2>1, TrimmingsKeep
<1>3. tasks'[t] = IF t \in G THEN NoTask ELSE T[t]
  <2> HIDE DEF T, gone
  <2> QED
    BY <1>1 DEF Without
<1>4. CASE t \in gone
  <2>1. tasks[t] \in Task /\ Is(tasks, t, {"queued"}) /\ T[t] = [tasks[t] EXCEPT !.status = "cancelled"]
    BY <1>4 DEF TypeOK, Is, Present
  <2>2. T[t].status = "cancelled" /\ T[t].to = tasks[t].to /\ T[t].pending = tasks[t].pending
    BY <2>1 DEF Task
  <2> HIDE DEF T, gone
  <2> QED
    BY <1>1, <1>3, <2>1, <2>2 DEF TaskMoves, Is, Present, Lifecycle!Moves
<1>5. CASE t \notin gone
  <2>1. T[t] = tasks[t]
    BY <1>5
  <2>2. t \in G => Is(tasks, t, Ended)
    BY <1>2, <2>1 DEF Over, Is, Present
  <2> HIDE DEF T, gone
  <2> QED
    BY <1>1, <1>3, <2>1, <2>2 DEF TaskMoves, Is, Present, Ended
<1> QED
  BY <1>4, <1>5

LEMMA TaskStep ==
  ASSUME TypeOK, BooksOK, RunningIsWorkedOn, IsFiniteSet(issued), [Next]_vars, NEW t \in TaskIds
  PROVE  TaskMoves(t)
<1>1. CASE Kicks
  BY <1>1, KicksMove
<1>2. ASSUME NEW s \in Sessions, Close(s)
      PROVE  TaskMoves(t)
  BY <1>2, CloseMoves
<1>3. CASE UNCHANGED <<tasks, issued>>
  BY <1>3 DEF TaskMoves, Present
<1> QED
  BY <1>1, <1>2, <1>3 DEF Next, Kicks, vars, teamVars, SetPolicy, Send, Prompt, Settle,
     CancelRunning, Abort, Create

(* Bookkeeping, and finitely many ids handed out: only then is a history   *)
(* that was trimmed within its limit.                                      *)
FiniteBooks == Bookkeeping /\ IsFiniteSet(issued)

LEMMA FiniteBooksHold == Spec => []FiniteBooks
<1>1. Init => IsFiniteSet(issued)
  BY FS_EmptySet DEF Init
<1>2. IsFiniteSet(issued) /\ [Next]_vars => IsFiniteSet(issued)'
  BY IssuedStaysFinite
<1>3. Spec => []IsFiniteSet(issued)
  BY <1>1, <1>2, PTL DEF Spec
<1> QED
  BY <1>3, BookkeepingHolds, PTL DEF FiniteBooks

LEMMA TaskSteps ==
  ASSUME FiniteBooks, [Next]_vars
  PROVE  \A t \in TaskIds : TaskMoves(t)
<1>1. TypeOK /\ BooksOK /\ RunningIsWorkedOn /\ IsFiniteSet(issued)
  BY BooksBalance DEF FiniteBooks, Bookkeeping, BooksOK
<1> QED
  BY <1>1, TaskStep

-----------------------------------------------------------------------------
(* A result becomes owed when its task ends and at no other time, and it   *)
(* stays owed until a turn that tells it begins: no close, re-creation,    *)
(* cancel or trim in between loses it or tells it twice (team.ts,          *)
(* enqueueDelivery, requeueDeliveries and startDeliveries).                *)
THEOREM ResultsStayOwed == Spec => OwedUntilTold
<1>1. FiniteBooks /\ [Next]_vars =>
        \A t \in TaskIds :
          Present(tasks, t) /\ Present(tasks', t) =>
            /\ ~tasks[t].pending /\ tasks'[t].pending
                 => tasks[t].status \notin Ended /\ tasks'[t].status \in Ended
            /\ tasks[t].pending /\ ~tasks'[t].pending
                 => runs[<<"result", t>>] = NoRun /\ runs'[<<"result", t>>] # NoRun
  BY TaskSteps DEF TaskMoves, Is
<1> QED
  BY <1>1, FiniteBooksHold, PTL DEF Spec, OwedUntilTold

-----------------------------------------------------------------------------
(* The queue implements module TaskLifecycle.                              *)

StatusOf(t) == IF Present(tasks, t) THEN tasks[t].status
               ELSE IF t \in issued THEN "forgotten" ELSE "none"
TargetOf(t) == IF Present(tasks, t) THEN tasks[t].to ELSE NoTask

(* Two running tasks on one target would be two turns on one reservation.  *)
OneRunning ==
  \A t, v \in TaskIds :
    Is(tasks, t, {"running"}) /\ Is(tasks, v, {"running"}) /\ tasks[t].to = tasks[v].to
      => t = v

LEMMA RunningApart == Bookkeeping => OneRunning
<1> SUFFICES ASSUME Bookkeeping, NEW t \in TaskIds, NEW v \in TaskIds,
                    Is(tasks, t, {"running"}), Is(tasks, v, {"running"}),
                    tasks[t].to = tasks[v].to
             PROVE  t = v
  BY DEF OneRunning
<1>1. <<"task", t>> \in RunKeys /\ <<"task", v>> \in RunKeys
  BY KeyFacts
<1>2. Working(t) /\ Working(v) /\ ReservedByOneTurn
  BY BooksBalance DEF RunningIsWorkedOn
<1>3. <<"task", t>>[1] # "user" /\ <<"task", v>>[1] # "user"
  OBVIOUS
<1>4. <<"task", t>> = <<"task", v>>
  BY <1>1, <1>2, <1>3 DEF Working, ReservedByOneTurn, TeamRuns
<1> QED
  BY <1>4

LEMMA LifecycleStep ==
  ASSUME FiniteBooks, Bookkeeping', OneRunning', [Next]_vars
  PROVE  Lifecycle!Next
<1>0. TypeOK /\ TypeOK'
  BY DEF FiniteBooks, Bookkeeping
<1>1. ASSUME NEW t \in TaskIds
      PROVE  StatusOf(t)' \in Lifecycle!States /\ TargetOf(t)' \in Sessions \cup {NoTask}
  BY <1>0 DEF TypeOK, Task, Status, Ended, StatusOf, TargetOf, Present, Lifecycle!States
<1>2. ASSUME NEW t \in TaskIds
      PROVE  /\ StatusOf(t)' = StatusOf(t) \/ <<StatusOf(t), StatusOf(t)'>> \in Lifecycle!Moves
             /\ StatusOf(t) = "none" \/ StatusOf(t)' = "forgotten" \/ TargetOf(t)' = TargetOf(t)
  <2>1. TaskMoves(t) /\ issued \subseteq issued'
    BY TaskSteps, IssuedStaysFinite DEF FiniteBooks
  <2>2. Present(tasks, t) => t \in issued
    BY DEF FiniteBooks, Bookkeeping, Kept, ResultsKept
  <2> QED
    BY <2>1, <2>2 DEF TaskMoves, StatusOf, TargetOf, Is, Present, Ended, Lifecycle!Moves
<1>3. ASSUME NEW t \in TaskIds, NEW v \in TaskIds,
             StatusOf(t)' = "running", StatusOf(v)' = "running", TargetOf(t)' = TargetOf(v)'
      PROVE  t = v
  <2>1. Is(tasks, t, {"running"})' /\ Is(tasks, v, {"running"})' /\ tasks[t].to' = tasks[v].to'
    BY <1>3 DEF StatusOf, TargetOf, Is, Present
  <2> QED
    BY <2>1 DEF OneRunning
<1> QED
  BY <1>1, <1>2, <1>3 DEF Lifecycle!Next, Lifecycle!Step, Lifecycle!OneAtATime, StatusOf, TargetOf

(* A task moves through its states once and in one direction, keeps its    *)
(* target, stays as it ended until it is forgotten, and a target works on  *)
(* one task at a time (docs/contract.md 2.11; team.ts).                    *)
THEOREM QueueIsALifecycle == Spec => KeepsLifecycle
<1>1. Init => Lifecycle!Init
  BY DEF Init, Lifecycle!Init, Present
<1>2. FiniteBooks /\ FiniteBooks' /\ OneRunning' /\ [Next]_vars => Lifecycle!Next
  BY LifecycleStep DEF FiniteBooks
<1>3. FiniteBooks => OneRunning
  BY RunningApart DEF FiniteBooks
<1> QED
  BY <1>1, <1>2, <1>3, FiniteBooksHold, PTL DEF Spec, KeepsLifecycle, Lifecycle!Spec
=============================================================================
