--------------------------- MODULE TaskLifecycle ---------------------------
(***************************************************************************)
(* What the team queue promises, whatever sessions come and go: a task     *)
(* moves through its states once and in one direction, an ended task stays *)
(* as it ended until it is forgotten, and a target works on one task at a  *)
(* time.  This is the contract of docs/contract.md 2.11 and the meaning of *)
(* TeamTaskStatus in sidecar/src/team.ts.                                  *)
(***************************************************************************)
CONSTANTS TaskIds, Targets, Nobody

States == {"none", "queued", "running", "done", "failed", "cancelled",
           "forgotten"}

VARIABLES
  status,   \* the state each task is in
  target    \* the session that is to carry it out

(* The moves of one task, and what one step may do to it: a task may be    *)
(* accepted and started, or dropped and forgotten, in a single step.       *)
Moves ==
  { <<"none", "queued">>, <<"none", "running">>,
    <<"queued", "running">>, <<"queued", "cancelled">>,
    <<"queued", "forgotten">>,
    <<"running", "done">>, <<"running", "failed">>, <<"running", "cancelled">>,
    <<"done", "forgotten">>, <<"failed", "forgotten">>,
    <<"cancelled", "forgotten">> }

OneAtATime ==
  \A t, v \in TaskIds :
    status[t] = "running" /\ status[v] = "running" /\ target[t] = target[v]
      => t = v

Init ==
  /\ status = [t \in TaskIds |-> "none"]
  /\ target = [t \in TaskIds |-> Nobody]

(* A task keeps its target until it is forgotten.                          *)
Step(t) ==
  /\ status'[t] = status[t] \/ <<status[t], status'[t]>> \in Moves
  /\ status[t] = "none" \/ status'[t] = "forgotten" \/ target'[t] = target[t]

Next ==
  /\ status' \in [TaskIds -> States]
  /\ target' \in [TaskIds -> Targets \cup {Nobody}]
  /\ \A t \in TaskIds : Step(t)
  /\ OneAtATime'

Spec == Init /\ [][Next]_<<status, target>>
=============================================================================
