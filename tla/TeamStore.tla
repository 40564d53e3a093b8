----------------------------- MODULE TeamStore -----------------------------
(***************************************************************************)
(* How the team orchestrator (sidecar/src/team.ts) keeps its queue in the  *)
(* file team/tasks.json.  Every change of the queue marks it dirty and,    *)
(* once the stored queue has been read, chains a rewrite of the whole      *)
(* file.  The sidecar may die at any point, a rewrite landing or not, and  *)
(* its successor reads the file back.                                      *)
(*                                                                         *)
(* A task is abstracted to the stage that decides what a restart does with *)
(* it: "owed" is an ended task whose result is still to be told to the     *)
(* asking session (pending_delivery), "told" an ended one without it.      *)
(* Only so many ended tasks are kept; "gone" is one that was forgotten,    *)
(* and is in the table or the file as little as "none", one never created. *)
(* Who runs what is in module Team.                                        *)
(***************************************************************************)
EXTENDS Naturals, FiniteSets

CONSTANTS
  Folders,      \* the data folders the user may choose, each with its own file
  NoFolder,
  StoredTasks,  \* the ids of tasks that may ever be created
  MaxHistory,   \* TEAM_LIMITS.maxHistory
  MaxFlushes    \* a bound on waiting flushes: results are lined up again below it

VARIABLES
  teamFile,  \* team/tasks.json of each folder, the folder chosen at present,
             \* and two ghosts: the ids given out, and whether a file was
             \* unreadable once
  teamMem    \* this.tasks and how far it is restored and stored

storeVars == <<teamFile, teamMem>>

Stages == {"none", "queued", "running", "owed", "told", "gone"}
Snapshots == [StoredTasks -> Stages]
Empty == [t \in StoredTasks |-> "none"]

TeamFiles ==
  [tasks: [Folders -> Snapshots], root: Folders \cup {NoFolder}, ids: SUBSET StoredTasks, lost: BOOLEAN]
TeamMems ==
  [restoring: {"tasks", "policy", "restored", "gaveUp"},
   queue: Snapshots,
   lined: SUBSET StoredTasks,         \* the owed tasks in this.deliveries
   dirty: BOOLEAN,
   due: Nat,                          \* calls of flushPersist waiting in persistChain
   sent: {<<>>} \cup [1..1 -> Snapshots]]  \* the snapshot a running flush has sent

StoreTypeOK == teamFile \in TeamFiles /\ teamMem \in TeamMems

\* What restore makes of a stored task: one that was running is queued again.
Resumed(stage) == IF stage = "running" THEN "queued" ELSE stage

HasRoot == teamFile.root # NoFolder
Stored == teamFile.tasks[teamFile.root]

Started == [restoring |-> "tasks", queue |-> Empty, lined |-> {}, dirty |-> FALSE,
            due |-> 0, sent |-> <<>>]

StoreInit ==
  /\ teamFile \in [tasks: {[f \in Folders |-> Empty]}, root: Folders \cup {NoFolder},
                   ids: {{}}, lost: {FALSE}]
  /\ teamMem = Started

\* Mutant: the file is written also before the queue is restored.
PersistedAtOnce(mem, n) == [mem EXCEPT !.dirty = TRUE, !.due = @ + n]

\* schedulePersist, called n times: until the queue is restored it only marks it.
Persisted(mem, n) ==
  [mem EXCEPT !.dirty = TRUE, !.due = IF mem.restoring = "restored" THEN @ + n ELSE @]

\* A task moves in memory; n calls of schedulePersist, and what it does to lined.
Move(t, from, to, n, lined) ==
  /\ teamMem.queue[t] = from
  /\ teamMem' = Persisted([teamMem EXCEPT !.queue[t] = to, !.lined = lined], n)

\* trim: of the ended tasks MaxHistory are kept.  They are those that changed
\* last, by a clock that is not modelled: any may be among them.
Ended(queue) == {t \in StoredTasks : queue[t] \in {"owed", "told"}}
Without(queue, tasks) == [t \in StoredTasks |-> IF t \in tasks THEN "gone" ELSE queue[t]]
Trimmed(queue) ==
  {Without(queue, tasks) : tasks \in
     {T \in SUBSET Ended(queue) :
        \/ T = {} /\ Cardinality(Ended(queue)) <= MaxHistory
        \/ Cardinality(Ended(queue) \ T) = MaxHistory}}

\* transition: the move, and trim.  A result that is lined up stays so without
\* its task.
Transition(t, from, to, n, lined) ==
  /\ teamMem.queue[t] = from
  /\ \E queue \in Trimmed([teamMem.queue EXCEPT ![t] = to]) :
       teamMem' = Persisted([teamMem EXCEPT !.queue = queue, !.lined = lined], n)

Enqueue(t) ==
  /\ t \notin teamFile.ids
  /\ teamFile' = [teamFile EXCEPT !.ids = @ \cup {t}]
  /\ Transition(t, "none", "queued", 1, teamMem.lined)

\* execute, cancel and onSessionClosed: a task begins; it ends and its result
\* is lined up if the asking session exists; it is dropped with its sessions.
Work(t) ==
  /\ \/ Transition(t, "queued", "running", 1, teamMem.lined)
     \/ \E from \in {"queued", "running"}, lined \in {{}, {t}} :
          Transition(t, from, "owed", 2, teamMem.lined \cup lined)
     \/ Transition(t, "queued", "told", 1, teamMem.lined)
  /\ UNCHANGED teamFile

\* deliver: the mark is taken off before the turn that tells the result, if the
\* task is still in the table.
Tell(t) ==
  /\ t \in teamMem.lined
  /\ \/ Move(t, "owed", "told", 1, teamMem.lined \ {t})
     \/ /\ teamMem.queue[t] = "gone"
        /\ teamMem' = [teamMem EXCEPT !.lined = @ \ {t}]
  /\ UNCHANGED teamFile

\* requeueDeliveries lines up an owed result, which writes the file once more,
\* and closing the asking session takes it off again.
LineUp(t) ==
  /\ \/ /\ teamMem.restoring = "restored" /\ teamMem.due < MaxFlushes
        /\ t \notin teamMem.lined
        /\ Move(t, "owed", "owed", 1, teamMem.lined \cup {t})
     \/ /\ t \in teamMem.lined
        /\ teamMem' = [teamMem EXCEPT !.lined = @ \ {t}]
  /\ UNCHANGED teamFile

(* The replies to the two reads of restore.  Tasks already queued win over *)
(* stored ones.  Without a data folder restore gives up, and nothing in    *)
(* this process calls it again; any other failure counts as restored.      *)
Restore ==
  \/ /\ HasRoot /\ teamMem.restoring = "tasks"
     /\ teamMem' = [teamMem EXCEPT !.restoring = "policy",
          !.queue = [t \in StoredTasks |-> IF @[t] = "none" THEN Resumed(Stored[t]) ELSE @[t]]]
     /\ UNCHANGED teamFile
  \/ /\ HasRoot /\ teamMem.restoring = "policy"
     /\ teamMem' = [teamMem EXCEPT !.restoring = "restored", !.due = IF teamMem.dirty THEN @ + 1 ELSE @]
     /\ UNCHANGED teamFile
  \/ /\ teamFile.root = NoFolder /\ teamMem.restoring \in {"tasks", "policy"}
     /\ teamMem' = [teamMem EXCEPT !.restoring = "gaveUp"]
     /\ UNCHANGED teamFile
  \/ /\ HasRoot /\ teamMem.restoring \in {"tasks", "policy"}
     /\ teamMem' = [teamMem EXCEPT !.restoring = "restored"]
     /\ teamFile' = [teamFile EXCEPT !.lost = @ \/ teamMem.restoring = "tasks"]

\* flushPersist up to its await: a call that finds the queue clean returns.
FlushStarts ==
  /\ teamMem.due > 0 /\ teamMem.sent = <<>>
  /\ teamMem' = [teamMem EXCEPT !.due = @ - 1, !.dirty = FALSE,
                   !.sent = IF teamMem.dirty THEN <<teamMem.queue>> ELSE <<>>]
  /\ UNCHANGED teamFile

\* Mutant: the mark is cleared when the write has landed.
FlushEndsClean ==
  /\ teamMem.sent # <<>> /\ HasRoot
  /\ teamFile' = [teamFile EXCEPT !.tasks[teamFile.root] = teamMem.sent[1]]
  /\ teamMem' = [teamMem EXCEPT !.sent = <<>>, !.dirty = FALSE]

\* Its reply: the file is rewritten, or the queue is marked again.
FlushEnds ==
  /\ teamMem.sent # <<>>
  /\ \/ /\ HasRoot
        /\ teamFile' = [teamFile EXCEPT !.tasks[teamFile.root] = teamMem.sent[1]]
        /\ teamMem' = [teamMem EXCEPT !.sent = <<>>]
     \/ /\ teamMem' = [teamMem EXCEPT !.sent = <<>>, !.dirty = TRUE]
        /\ UNCHANGED teamFile

\* The user chooses a data folder, or another one: the sidecar is not told.
ChooseRoot ==
  /\ \E f \in Folders \ {teamFile.root} : teamFile' = [teamFile EXCEPT !.root = f]
  /\ UNCHANGED teamMem

\* The sidecar dies and is started again; a rewrite under way may have landed.
RestartSidecar ==
  /\ teamMem' = Started
  /\ \/ /\ teamMem.sent # <<>> /\ HasRoot
        /\ teamFile' = [teamFile EXCEPT !.tasks[teamFile.root] = teamMem.sent[1]]
     \/ UNCHANGED teamFile

StoreNext ==
  \/ \E t \in StoredTasks : Enqueue(t) \/ Work(t) \/ Tell(t) \/ LineUp(t)
  \/ Restore \/ FlushStarts \/ FlushEnds \/ ChooseRoot \/ RestartSidecar

StoreSpec == StoreInit /\ [][StoreNext]_storeVars

-----------------------------------------------------------------------------
(* A queue that is restored, clean and not being written is in the file: a *)
(* restart at this moment would bring back every task as it stands.        *)
(* flushPersist clears the mark before it sends the snapshot, so a change  *)
(* made during the write marks the queue again (team.ts:632-645).          *)
CleanQueueIsStored ==
  teamMem.restoring = "restored" /\ ~teamMem.dirty /\ teamMem.sent = <<>> /\ ~teamFile.lost
    => \A t \in StoredTasks : Resumed(Stored[t]) = Resumed(teamMem.queue[t])

\* The stages a stored task may be found in after the file has been rewritten.
Onward(stage) ==
  CASE stage = "none" -> Stages
    [] stage \in {"queued", "running"} -> {"queued", "running", "owed", "told", "gone"}
    [] stage = "owed" -> {"owed", "told", "gone"}
    [] stage = "told" -> {"told", "gone"}
    [] stage = "gone" -> {"gone"}

(* Over any number of restarts, and also when no data folder was chosen at *)
(* a start, no rewrite of the file reopens a task that is stored as ended, *)
(* owes a told result again or brings back a forgotten task; and where one *)
(* is forgotten, its result told or still owed, the file has as many ended *)
(* ones as are to be kept (trim, team.ts:565-571, 647-659) - unless the    *)
(* file could not be read, which the code takes for an empty one           *)
(* (team.ts:609-613).  With more than one folder it fails: the queue of    *)
(* the old folder is written over the file of the new one, which was never *)
(* read.                                                                   *)
StoreMovesOnward ==
  teamFile.lost \/ \A f \in Folders :
    /\ \A t \in StoredTasks : teamFile'.tasks[f][t] \in Onward(teamFile.tasks[f][t])
    /\ \A t \in StoredTasks : teamFile'.tasks[f][t] = "gone" =>
         Cardinality(Ended(teamFile'.tasks[f])) >= MaxHistory

\* Why they hold, as long as the file could be read and there is one folder:
\* nothing is sent before the queue is restored; then the queue as it is, or the
\* rewrite under way, or the file has every change, or the queue is marked.
FlushedInOrder ==
  /\ teamMem.restoring # "restored" => teamMem.due = 0 /\ teamMem.sent = <<>>
  /\ teamMem.restoring \in {"policy", "restored"} => HasRoot
  /\ teamMem.restoring = "tasks" /\ ~teamMem.dirty => teamMem.queue = Empty
  /\ ~teamFile.lost /\ ~teamMem.dirty /\ teamMem.restoring \in {"policy", "restored"} =>
       \A t \in StoredTasks :
         Resumed((IF teamMem.sent = <<>> THEN Stored ELSE teamMem.sent[1])[t]) = Resumed(teamMem.queue[t])

\* Where a task was forgotten, there are as many ended ones as are kept.
KeepsHistory(queue) ==
  (\E t \in StoredTasks : queue[t] = "gone") => Cardinality(Ended(queue)) >= MaxHistory
HistoryKept ==
  ~teamFile.lost =>
    /\ KeepsHistory(teamMem.queue)
    /\ teamMem.sent # <<>> => KeepsHistory(teamMem.sent[1])
    /\ \A f \in Folders : KeepsHistory(teamFile.tasks[f])

\* What is about to be written is onward of what is stored, task by task.
OnwardOf(later, earlier) == \A t \in StoredTasks : later[t] \in Onward(earlier[t])
OnwardOfStored ==
  /\ \A t \in StoredTasks, f \in Folders :
       teamMem.queue[t] # "none" \/ teamFile.tasks[f][t] # "none" => t \in teamFile.ids
  /\ ~teamFile.lost =>
       IF teamMem.restoring \in {"policy", "restored"}
       THEN /\ OnwardOf(teamMem.queue, Stored)
            /\ teamMem.sent # <<>> => OnwardOf(teamMem.sent[1], Stored) /\ OnwardOf(teamMem.queue, teamMem.sent[1])
       ELSE \A t \in StoredTasks, f \in Folders : teamMem.queue[t] # "none" => teamFile.tasks[f][t] = "none"
=============================================================================
