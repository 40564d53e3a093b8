------------------------------ MODULE R1Engine ------------------------------
(***************************************************************************)
(* One run of the isolated engine worker (sidecar/src/r1Engine.ts and      *)
(* r1EngineWorker.ts): an SDK agent loop, which may ask for a model answer *)
(* as often as it likes, behind a gateway that spawns one client process   *)
(* per call.  The run may be stopped by a signal or by its deadline at any *)
(* moment, the gateway has a shorter deadline of its own.                  *)
(***************************************************************************)
EXTENDS Naturals

CONSTANTS MaxAsks   \* a bound on how often the agent loop asks

VARIABLES
  r1run,     \* the worker and the agent loop
  r1gate     \* the call of the gateway

r1Vars == <<r1run, r1gate>>

Runs ==
  [stage: {"reads", "loops", "calls", "answered", "ended"},
   engine: {"pi", "deepseek-harness"},
   calls: 0..MaxAsks, aborted: BOOLEAN,
   received: BOOLEAN,                        \* a validated result is held
   failed: BOOLEAN,                          \* the loop ended with an error
   outcome: {"none", "result", "error"}]
Gateways ==
  [client: {"none", "runs", "told", "exited"}, settled: BOOLEAN,
   asked: BOOLEAN,                           \* the client has passed its call on
   spent: 0..MaxAsks]                        \* ghost: calls the core carried out

R1TypeOK == r1run \in Runs /\ r1gate \in Gateways

R1Init ==
  /\ r1run \in [stage: {"reads"}, engine: {"pi", "deepseek-harness"}, calls: {0},
                aborted: {FALSE}, received: {FALSE}, failed: {FALSE}, outcome: {"none"}]
  /\ r1gate = [client |-> "none", settled |-> FALSE, asked |-> FALSE, spent |-> 0]

\* parseEngineInput and runtimeFacts: the run begins, or is refused.
ParseInput ==
  /\ r1run.stage = "reads"
  /\ \/ r1run' = [r1run EXCEPT !.stage = "loops"]
     \/ r1run' = [r1run EXCEPT !.stage = "ended", !.outcome = "error"]
  /\ UNCHANGED r1gate

\* Mutant: only answered calls are counted.
InvokeUncounted ==
  /\ r1run.stage = "loops" /\ r1run.calls < MaxAsks /\ ~r1run.received /\ ~r1run.aborted
  /\ r1run' = [r1run EXCEPT !.stage = "calls", !.calls = 1]
  /\ r1gate' = [r1gate EXCEPT !.client = "runs", !.settled = FALSE, !.asked = FALSE]

(* invoke: the agent loop asks for an answer.  Only the first question of  *)
(* a run that is not aborted reaches the gateway, which spawns its client; *)
(* any other is answered with RUN_STOPPED.                                 *)
Invoke ==
  /\ r1run.stage = "loops" /\ r1run.calls < MaxAsks
  /\ \/ /\ r1run.calls = 0 /\ ~r1run.aborted
        /\ r1run' = [r1run EXCEPT !.stage = "calls", !.calls = @ + 1]
        /\ r1gate' = [r1gate EXCEPT !.client = "runs", !.settled = FALSE, !.asked = FALSE]
     \/ /\ r1run.calls > 0 \/ r1run.aborted
        /\ r1run' = [r1run EXCEPT !.calls = @ + 1, !.failed = TRUE]
        /\ UNCHANGED r1gate

\* The client has the core carry the call out, also after it was told to stop.
CoreCalls ==
  /\ r1gate.client \in {"runs", "told"} /\ ~r1gate.asked
  /\ r1gate' = [r1gate EXCEPT !.asked = TRUE, !.spent = @ + 1]
  /\ UNCHANGED r1run

ClientExits ==
  /\ r1gate.client \in {"runs", "told"}
  /\ r1gate' = [r1gate EXCEPT !.client = "exited"]
  /\ UNCHANGED r1run

(* finish: the gateway settles once - by the exit of the client, with a    *)
(* result that validates or without, by an abort, by its deadline or by    *)
(* too much output - and kills a client that still runs.                   *)
GatewaySettles ==
  /\ r1run.stage = "calls" /\ ~r1gate.settled
  /\ \/ /\ r1gate.client = "exited" /\ r1gate.asked
        /\ r1run' = [r1run EXCEPT !.stage = "answered", !.received = TRUE]
        /\ r1gate' = [r1gate EXCEPT !.settled = TRUE]
     \/ /\ r1run' = [r1run EXCEPT !.stage = "answered", !.failed = TRUE]
        /\ r1gate' = [r1gate EXCEPT !.settled = TRUE,
                                    !.client = IF @ = "runs" THEN "told" ELSE @]

\* The answer goes back to the agent loop.
LoopResumes ==
  /\ r1run.stage = "answered"
  /\ r1run' = [r1run EXCEPT !.stage = "loops"]
  /\ UNCHANGED r1gate

\* SIGTERM, SIGINT or the 50 seconds: the signal aborts, the agent is cancelled.
Stop ==
  /\ ~r1run.aborted /\ r1run.stage # "ended"
  /\ r1run' = [r1run EXCEPT !.aborted = TRUE]
  /\ UNCHANGED r1gate

(* The loop is over: pi reports an error of its state, the harness does    *)
(* not; a result is given only if one was received by the only call of a   *)
(* run that was not aborted.  The worker writes it, or an error code.      *)
FinishRun ==
  /\ r1run.stage = "loops"
  /\ LET ok == /\ r1run.received /\ r1run.calls = 1 /\ ~r1run.aborted
               /\ ~(r1run.engine = "pi" /\ r1run.failed)
     IN r1run' = [r1run EXCEPT !.stage = "ended", !.outcome = IF ok THEN "result" ELSE "error"]
  /\ UNCHANGED r1gate

R1Next ==
  \/ ParseInput \/ Invoke \/ CoreCalls \/ ClientExits \/ GatewaySettles
  \/ LoopResumes \/ Stop \/ FinishRun

R1Spec == R1Init /\ [][R1Next]_r1Vars

-----------------------------------------------------------------------------
(* However often the agent loop asks and whenever the run is stopped, the  *)
(* core carries out one model call at most for it, and a run that tells a  *)
(* result has spent exactly one and was not stopped before                 *)
(* (r1Engine.ts:324-365, 584-588).                                         *)
OneModelCall ==
  /\ r1gate.spent <= 1
  /\ r1run.outcome = "result" => r1gate.spent = 1 /\ ~r1run.aborted

\* Why it holds: the first question of the loop is the only one that reaches the
\* gateway, and a result comes from a client that has passed its call on.
OneQuestion ==
  /\ r1gate.spent = IF r1gate.asked THEN 1 ELSE 0
  /\ r1run.calls = 0 => r1gate.client = "none" /\ ~r1gate.asked
  /\ r1run.received => r1gate.asked
  /\ r1run.outcome # "none" => r1run.stage = "ended"
=============================================================================
