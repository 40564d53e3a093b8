------------------------------ MODULE Harness ------------------------------
(***************************************************************************)
(* One text-only session (sidecar/src/harness.ts): a prompt prepares the   *)
(* command and the runtime directory, spawns one child process and         *)
(* collects its output, while the user may abort at any time.  The session *)
(* manager begins a prompt only when the last one has settled (module      *)
(* Sessions), and disposes of the session when it is closed.               *)
(***************************************************************************)
EXTENDS Naturals

CONSTANTS MaxTurns   \* a bound on the turns kept in the history

VARIABLES
  harness,  \* the fields of DeepSeekHarnessSession, and where the prompt is
  child     \* the child process of the prompt

harnessVars == <<harness, child>>

HarnessSessions ==
  [provider: {"usable", "anthropic", "local", "invalid"},
   stage: {"settled", "resolves", "prepares", "collects"},
   busy: BOOLEAN, abortRequested: BOOLEAN,
   active: BOOLEAN,        \* this.active is the child of the prompt
   dir: BOOLEAN,           \* runtimeDir and policyPath are set
   turns: 0..MaxTurns,     \* pairs in the history
   open: BOOLEAN]          \* the session manager still has the session

HarnessTypeOK == harness \in HarnessSessions /\ child \in {"none", "runs", "told", "exited"}

HarnessInit ==
  /\ harness \in [provider: {"usable", "anthropic", "local", "invalid"}, stage: {"settled"},
                  busy: {FALSE}, abortRequested: {FALSE}, active: {FALSE}, dir: {FALSE},
                  turns: {0}, open: {TRUE}]
  /\ child = "none"

(* prompt up to its first await.  A provider that cannot be used is        *)
(* refused; of an address that is no URL the busy mark is not taken back.  *)
PromptHarness ==
  /\ harness.open /\ harness.stage = "settled"
  /\ \/ /\ ~harness.busy /\ harness.provider = "usable"
        /\ harness' = [harness EXCEPT !.busy = TRUE, !.abortRequested = FALSE, !.stage = "resolves"]
     \/ /\ ~harness.busy /\ harness.provider # "usable"
        /\ harness' = [harness EXCEPT !.abortRequested = FALSE,
                                      !.busy = harness.provider = "invalid"]
     \/ /\ harness.busy
        /\ UNCHANGED harness
  /\ UNCHANGED child

\* resolveDshCommand has found the command: on to ensureRuntimeDir.
ResolveCommand ==
  /\ harness.stage = "resolves"
  /\ harness' = [harness EXCEPT !.stage = "prepares"]
  /\ UNCHANGED child

\* Mutant: an abort during the preparation is not looked at.
PrepareRegardless ==
  /\ harness.stage = "prepares"
  /\ harness' = [harness EXCEPT !.dir = TRUE, !.stage = "collects", !.active = TRUE]
  /\ child' = "runs"

\* The directory is there, or could not be made: then the child is spawned,
\* unless the prompt was aborted meanwhile or the spawn throws.
Prepare ==
  /\ harness.stage = "prepares"
  /\ \/ /\ ~harness.abortRequested
        /\ harness' = [harness EXCEPT !.dir = TRUE, !.stage = "collects", !.active = TRUE]
        /\ child' = "runs"
     \/ /\ harness' = [harness EXCEPT !.dir = TRUE, !.stage = "settled", !.busy = FALSE]
        /\ UNCHANGED child
     \/ /\ ~harness.dir
        /\ harness' = [harness EXCEPT !.stage = "settled", !.busy = FALSE]
        /\ UNCHANGED child

ChildExits ==
  /\ child \in {"runs", "told"}
  /\ child' = "exited"
  /\ UNCHANGED harness

\* collect settles by the exit of the child, or by the timer, which tells it
\* to stop; only a good answer goes into the history; then the finally.
Collect ==
  /\ harness.stage = "collects"
  /\ \E answered \in BOOLEAN :
       /\ harness' = [harness EXCEPT !.stage = "settled", !.busy = FALSE, !.active = FALSE,
                        !.turns = IF answered /\ @ < MaxTurns THEN @ + 1 ELSE @]
       /\ \/ child = "exited" /\ child' = "none"
          \/ ~answered /\ child # "exited" /\ child' = "none"

\* abort: remembered, and the child that is active is told to stop.
Aborted0(h) ==
  [h EXCEPT !.abortRequested = TRUE, !.busy = IF h.active THEN FALSE ELSE @, !.active = FALSE]
ToldToStop == IF harness.active /\ child = "runs" THEN "told" ELSE child

AbortHarness ==
  /\ harness.open
  /\ harness' = Aborted0(harness)
  /\ child' = ToldToStop

\* closeSession: abort, then dispose, which aborts again and takes the
\* directory away; one that is being made stays behind.
DisposeHarness ==
  /\ harness.open
  /\ harness' = [Aborted0(harness) EXCEPT !.open = FALSE, !.dir = FALSE]
  /\ child' = ToldToStop

HarnessNext ==
  \/ PromptHarness \/ ResolveCommand \/ Prepare \/ ChildExits \/ Collect
  \/ AbortHarness \/ DisposeHarness

HarnessSpec == HarnessInit /\ [][HarnessNext]_harnessVars

-----------------------------------------------------------------------------
(* After an abort no child of the prompt runs on untold, in whichever      *)
(* phase of the prompt it came, and a session that is free again has no    *)
(* busy mark left and no child - but for an address that is no URL         *)
(* (harness.ts:192-270).                                                   *)
HarnessStops ==
  /\ harness.abortRequested => child # "runs"
  /\ harness.stage = "settled" =>
       /\ child = "none" /\ ~harness.active
       /\ harness.provider # "invalid" => ~harness.busy

\* Why it holds: a child runs only while its prompt collects, and is the active
\* one until it is told.
ChildIsCollected ==
  /\ harness.stage # "collects" => child = "none" /\ ~harness.active
  /\ child = "runs" => harness.active
=============================================================================
