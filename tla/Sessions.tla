------------------------------ MODULE Sessions ------------------------------
(***************************************************************************)
(* The session manager of the sidecar, sidecar/src/sessions.ts: which      *)
(* session ids name a live agent, which turn is in flight on an id, and    *)
(* the runs - promises started by send and runTurn - that are still        *)
(* unsettled.  Node runs one callback at a time, so every operator below   *)
(* is what one callback does between two awaits; the modules that use it   *)
(* (Team) compose these pieces into actions.                               *)
(*                                                                         *)
(* inflight and turns are keyed by the session ID, while a run holds on to *)
(* the agent OBJECT that was registered under the id when the run began.   *)
(* gen[s] counts the objects that id s has named, so a run whose gen is    *)
(* not the current one is a leftover of a session that was closed.         *)
(***************************************************************************)
EXTENDS Naturals, Sequences

CONSTANTS
  Sessions,   \* session ids
  Harness,    \* the ids served by the text-only harness engine, the rest by pi
  TaskIds,    \* ids of team tasks
  Outside,    \* turns begun from outside the team: agent/send, a routine
  MaxGen,     \* bound: how often one id is created
  NoTurn,     \* turns.get(id) is undefined
  NoRun       \* no such run is in progress

Origins == {"user", "delegate", "result"}

(* TurnContext: where a turn comes from and the delegation chain behind it *)
Turn == [origin : Origins, depth : Nat, chain : Seq(Sessions)]

(* A run is named by what asked for it.                                    *)
RunKeys == ({"user"} \X Outside) \cup ({"task", "result"} \X TaskIds)

Run == [sid : Sessions, gen : Nat, stage : {"context", "prompting"},
        aborted : BOOLEAN, turn : Turn]

ASSUME SessionsAssumption ==
  /\ Harness \subseteq Sessions
  /\ MaxGen \in Nat
  /\ NoTurn \notin Turn
  /\ NoRun \notin Run

VARIABLES
  live,       \* the ids registered in the sessions map
  gen,        \* how many agent objects each id has named so far
  inflight,   \* ids with a turn in flight
  turns,      \* the context of that turn
  runs        \* runs that have not settled

sessionVars == <<live, gen, inflight, turns, runs>>

SessionsTypeOK ==
  /\ live \subseteq Sessions
  /\ gen \in [Sessions -> Nat]
  /\ inflight \subseteq Sessions
  /\ turns \in [Sessions -> Turn \cup {NoTurn}]
  /\ runs \in [RunKeys -> Run \cup {NoRun}]

SessionsInit ==
  /\ live = {}
  /\ gen = [s \in Sessions |-> 0]
  /\ inflight = {}
  /\ turns = [s \in Sessions |-> NoTurn]
  /\ runs = [k \in RunKeys |-> NoRun]

-----------------------------------------------------------------------------
(* Questions the other components ask.                                     *)

(* k is an unsettled run on agent object number g of id s.                 *)
RunsOn(k, s, g) == runs[k] # NoRun /\ runs[k].sid = s /\ runs[k].gen = g

(* agent.state.isStreaming: only pi agents have it, and it is not yet set  *)
(* while a run is still gathering its personal context.                    *)
Streaming(s) ==
  /\ s \notin Harness
  /\ \E k \in RunKeys : RunsOn(k, s, gen[s]) /\ runs[k].stage = "prompting"

IsBusy(s) == s \in live /\ (s \in inflight \/ Streaming(s))

(* The id was created once and is still open: nothing can be left over     *)
(* from an earlier session of that name.                                   *)
NeverClosed(s) == s \in live /\ gen[s] = 1

-----------------------------------------------------------------------------
(* State changes.                                                          *)

(* agent/create_session.  The check made before the await on the MCP       *)
(* grants is repeated after it, so only the second one counts.             *)
Register(s) ==
  /\ s \notin live
  /\ gen[s] < MaxGen
  /\ live' = live \cup {s}
  /\ gen' = [gen EXCEPT ![s] = @ + 1]
  /\ UNCHANGED <<inflight, turns, runs>>

NewRun(s, turn) ==
  [sid |-> s, gen |-> gen[s], stage |-> "context", aborted |-> FALSE,
   turn |-> turn]

(* The turn of a prompt the user typed: it starts a delegation chain.      *)
UserTurn(s) == [origin |-> "user", depth |-> 0, chain |-> <<s>>]

(* The synchronous first part of send and runTurn, for a set `at` of idle  *)
(* sessions at once: who[s] names the run that begins on s, with[s] is its *)
(* context.                                                                *)
BeginTurns(at, who, with) ==
  /\ inflight' = inflight \cup at
  /\ turns' = [s \in Sessions |-> IF s \in at THEN with[s] ELSE turns[s]]
  /\ runs' = [k \in RunKeys |->
                IF \E s \in at : who[s] = k
                THEN LET s == CHOOSE s \in at : who[s] = k
                     IN  NewRun(s, with[s])
                ELSE runs[k]]
  /\ UNCHANGED <<live, gen>>

(* agent.abort() on the object s names now: it only reaches a prompt that  *)
(* has started; a run still gathering context goes on to prompt.           *)
Aborted(s) ==
  [k \in RunKeys |->
     IF s \in live /\ RunsOn(k, s, gen[s]) /\ runs[k].stage = "prompting"
     THEN [runs[k] EXCEPT !.aborted = TRUE]
     ELSE runs[k]]

AbortAgent(s) ==
  /\ runs' = Aborted(s)
  /\ UNCHANGED <<live, gen, inflight, turns>>

(* The part of closeSession that is the manager's own.  The run, if any,   *)
(* is not awaited: it settles later, under an id that may be in use again. *)
Unregister(s) ==
  /\ runs' = Aborted(s)
  /\ live' = live \ {s}
  /\ inflight' = inflight \ {s}
  /\ turns' = [turns EXCEPT ![s] = NoTurn]
  /\ UNCHANGED gen

(* Two prompts never overlap on one agent object: the second one throws.   *)
PromptTaken(k) ==
  \E j \in RunKeys \ {k} :
    RunsOn(j, runs[k].sid, runs[k].gen) /\ runs[j].stage = "prompting"

(* The personal context has been read; the model is prompted.              *)
StartPrompt(k) ==
  /\ runs[k] # NoRun
  /\ runs[k].stage = "context"
  /\ ~PromptTaken(k)
  /\ runs' = [runs EXCEPT ![k].stage = "prompting"]
  /\ UNCHANGED <<live, gen, inflight, turns>>

(* Mutant: the finally block forgets the turn context.                     *)
EndTurnKeepsContext(k, ok) ==
  /\ runs[k] # NoRun
  /\ runs[k].stage = "prompting" \/ ~ok
  /\ inflight' = inflight \ {runs[k].sid}
  /\ runs' = [runs EXCEPT ![k] = NoRun]
  /\ UNCHANGED <<live, gen, turns>>

(* The promise of run k settles: the finally block clears the turn of the  *)
(* session ID, whoever's turn that is by now.  A run that has not been     *)
(* prompted can only fail: the engine refused the prompt.                  *)
EndTurn(k, ok) ==
  /\ runs[k] # NoRun
  /\ \/ runs[k].stage = "prompting"
     \/ runs[k].stage = "context" /\ ~ok
  /\ inflight' = inflight \ {runs[k].sid}
  /\ turns' = [turns EXCEPT ![runs[k].sid] = NoTurn]
  /\ runs' = [runs EXCEPT ![k] = NoRun]
  /\ UNCHANGED <<live, gen>>

(***************************************************************************)
(* Every session that was never closed knows whose turn it is: the turn    *)
(* recorded for the id is the context of the one run on its agent, and     *)
(* there is none exactly when the id is idle.  sessions.ts keeps the two   *)
(* in step through beginTurn and endTurn only; delegation depth and chain  *)
(* are read from that record (team.ts, enqueue).                           *)
(***************************************************************************)
TurnMatchesRun ==
  \A s \in Sessions :
    NeverClosed(s) =>
      /\ s \in inflight <=> \E k \in RunKeys : RunsOn(k, s, gen[s])
      /\ s \notin inflight => turns[s] = NoTurn
      /\ \A k \in RunKeys : RunsOn(k, s, gen[s]) => turns[s] = runs[k].turn
      /\ \A j, k \in RunKeys :
           RunsOn(j, s, gen[s]) /\ RunsOn(k, s, gen[s]) => j = k
=============================================================================
