------------------------------ MODULE HostLink ------------------------------
(***************************************************************************)
(* The host's end of the pipe to the sidecar process (src-tauri/src/       *)
(* rpc.rs): callers start the process on demand and wait for replies, a    *)
(* reader task per process handles its lines in order, and when the output *)
(* ends it declares the link dead in three steps.                          *)
(*                                                                         *)
(* A process is a number, in the order of spawning; a request is used      *)
(* once, like its id as long as ids have not wrapped.  The critical        *)
(* sections of the process lock are single steps.                          *)
(***************************************************************************)
EXTENDS Naturals, Sequences

CONSTANTS
  Requests,
  MaxProcs,   \* a bound on the processes spawned
  MaxLines    \* a bound on the lines waiting in a process's output

VARIABLES
  link,     \* SidecarInner: alive, proc, pending
  callers,  \* where each request is in Sidecar.request
  procs     \* the spawned processes and their reader tasks

hostVars == <<link, callers, procs>>

Procs == 1..MaxProcs
Ask   == "ask"     \* a line with a request of the sidecar; the others are replies
Process ==
  [running: BOOLEAN,
   inbox: SUBSET Requests,
   asks: BOOLEAN,                        \* it awaits an answer of the host
   out: Seq(Requests \cup {Ask}),
   reader: {"none", "reads", "serves", "ended", "cleared", "dropped", "done"}]

Links ==
  [alive: BOOLEAN, proc: Procs \cup {0}, spawned: Procs \cup {0}, pending: SUBSET Requests,
   misdirected: BOOLEAN]     \* ghost: an answer went to another process
CallerStages == {"new", "starting", "started", "entered", "waiting", "answered", "failed"}

HostTypeOK ==
  link \in Links /\ callers \in [Requests -> CallerStages] /\ procs \in [Procs -> Process]

HostInit ==
  /\ link = [alive |-> FALSE, proc |-> 0, spawned |-> 0, pending |-> {}, misdirected |-> FALSE]
  /\ callers = [r \in Requests |-> "new"]
  /\ procs = [p \in Procs |-> [running |-> FALSE, inbox |-> {}, asks |-> FALSE,
                               out |-> <<>>, reader |-> "none"]]

\* Dropping the handle of a process kills it (kill_on_drop).
Killed(ps, p) == IF p = 0 THEN ps ELSE [ps EXCEPT ![p].running = FALSE, ![p].inbox = {}]

\* ensure_started: nothing to do, or on to the lock.
Call(r) ==
  /\ callers[r] = "new"
  /\ callers' = [callers EXCEPT ![r] = IF link.alive THEN "started" ELSE "starting"]
  /\ UNCHANGED <<link, procs>>

\* Mutant: alive is not looked at again.
SpawnUnchecked(r) ==
  /\ callers[r] = "starting" /\ link.spawned < MaxProcs
  /\ LET p == link.spawned + 1 IN
       /\ procs' = [Killed(procs, link.proc) EXCEPT ![p].running = TRUE, ![p].reader = "reads"]
       /\ link' = [link EXCEPT !.alive = TRUE, !.proc = p, !.spawned = p]
  /\ callers' = [callers EXCEPT ![r] = "started"]

\* Under the lock alive is looked at again; only then is a process spawned.
Spawn(r) ==
  /\ callers[r] = "starting"
  /\ \/ /\ link.alive
        /\ callers' = [callers EXCEPT ![r] = "started"]
        /\ UNCHANGED <<link, procs>>
     \/ /\ ~link.alive
        /\ callers' = [callers EXCEPT ![r] = "failed"]
        /\ UNCHANGED <<link, procs>>
     \/ /\ ~link.alive /\ link.spawned < MaxProcs
        /\ LET p == link.spawned + 1 IN
             /\ procs' = [Killed(procs, link.proc) EXCEPT ![p].running = TRUE, ![p].reader = "reads"]
             /\ link' = [link EXCEPT !.alive = TRUE, !.proc = p, !.spawned = p]
        /\ callers' = [callers EXCEPT ![r] = "started"]

\* request looks once more, then enters its id in the pending table.
Enter(r) ==
  /\ callers[r] = "started"
  /\ \/ /\ ~link.alive
        /\ callers' = [callers EXCEPT ![r] = "failed"]
        /\ UNCHANGED link
     \/ /\ link.alive
        /\ callers' = [callers EXCEPT ![r] = "entered"]
        /\ link' = [link EXCEPT !.pending = @ \cup {r}]
  /\ UNCHANGED procs

\* send_value under the lock: written to whichever process is there now, also
\* when the id was failed meanwhile; a write to a dead one may go unnoticed.
SendValue(r) ==
  /\ callers[r] = "entered"
  /\ \/ /\ link.proc # 0
        /\ callers' = [callers EXCEPT ![r] = IF r \in link.pending THEN "waiting" ELSE "failed"]
        /\ procs' = IF procs[link.proc].running
                    THEN [procs EXCEPT ![link.proc].inbox = @ \cup {r}] ELSE procs
        /\ UNCHANGED link
     \/ /\ \/ link.proc = 0
           \/ link.proc # 0 /\ ~procs[link.proc].running
        /\ callers' = [callers EXCEPT ![r] = "failed"]
        /\ link' = [link EXCEPT !.pending = @ \ {r}]
        /\ UNCHANGED procs

\* The two minutes are over: the id is taken off the table.
TimeOut(r) ==
  /\ callers[r] = "waiting" /\ r \in link.pending
  /\ callers' = [callers EXCEPT ![r] = "failed"]
  /\ link' = [link EXCEPT !.pending = @ \ {r}]
  /\ UNCHANGED procs

\* The sidecar: answers, asks, and dies; what it wrote stays in the pipe.
Reply(p) ==
  /\ procs[p].running /\ Len(procs[p].out) < MaxLines
  /\ \E r \in procs[p].inbox :
       procs' = [procs EXCEPT ![p].inbox = @ \ {r}, ![p].out = Append(@, r)]
  /\ UNCHANGED <<link, callers>>

AskHost(p) ==
  /\ procs[p].running /\ ~procs[p].asks /\ Len(procs[p].out) < MaxLines
  /\ procs' = [procs EXCEPT ![p].asks = TRUE, ![p].out = Append(@, Ask)]
  /\ UNCHANGED <<link, callers>>

Die(p) ==
  /\ procs[p].running
  /\ procs' = Killed(procs, p)
  /\ UNCHANGED <<link, callers>>

\* handle_line: a reply goes to the caller whose id is pending; a question is
\* handled first and its answer sent afterwards, to the process there is then.
HandleLine(p) ==
  /\ procs[p].reader = "reads" /\ procs[p].out # <<>>
  /\ LET line == Head(procs[p].out) IN
     \/ /\ line = Ask
        /\ procs' = [procs EXCEPT ![p].out = Tail(@), ![p].reader = "serves"]
        /\ UNCHANGED <<link, callers>>
     \/ /\ line # Ask
        /\ procs' = [procs EXCEPT ![p].out = Tail(@)]
        /\ link' = [link EXCEPT !.pending = @ \ {line}]
        /\ callers' = IF line \in link.pending
                      THEN [callers EXCEPT ![line] = "answered"] ELSE callers

SendResponse(p) ==
  /\ procs[p].reader = "serves"
  /\ procs' = [procs EXCEPT ![p].reader = "reads",
                 ![p].asks = IF link.proc = p THEN FALSE ELSE @]
  /\ link' = [link EXCEPT !.misdirected = @ \/ link.proc \notin {0, p}]
  /\ UNCHANGED callers

\* read_loop ends with the output, or at a line that is not text.
ReaderEnds(p) ==
  /\ procs[p].reader = "reads"
  /\ \/ procs[p].out # <<>>
     \/ ~procs[p].running
  /\ procs' = [procs EXCEPT ![p].reader = "ended", ![p].out = <<>>]
  /\ UNCHANGED <<link, callers>>

\* Mutant: a reader clears alive only for the process that is there.
ClearAliveIfOwn(p) ==
  /\ procs[p].reader = "ended"
  /\ link' = [link EXCEPT !.alive = @ /\ link.proc # p]
  /\ procs' = [procs EXCEPT ![p].reader = "cleared"]
  /\ UNCHANGED callers

\* mark_dead, in the order of its three steps.
ClearAlive(p) ==
  /\ procs[p].reader = "ended"
  /\ link' = [link EXCEPT !.alive = FALSE]
  /\ procs' = [procs EXCEPT ![p].reader = "cleared"]
  /\ UNCHANGED callers

DropProc(p) ==
  /\ procs[p].reader = "cleared"
  /\ link' = [link EXCEPT !.proc = 0]
  /\ procs' = [Killed(procs, link.proc) EXCEPT ![p].reader = "dropped"]
  /\ UNCHANGED callers

\* Mutant: what is pending is spared when a new process has been started.
DrainPendingUnlessAlive(p) ==
  /\ procs[p].reader = "dropped"
  /\ callers' = [r \in Requests |->
       IF ~link.alive /\ r \in link.pending /\ callers[r] = "waiting" THEN "failed" ELSE callers[r]]
  /\ link' = [link EXCEPT !.pending = IF link.alive THEN @ ELSE {}]
  /\ procs' = [procs EXCEPT ![p].reader = "done"]

DrainPending(p) ==
  /\ procs[p].reader = "dropped"
  /\ callers' = [r \in Requests |->
       IF r \in link.pending /\ callers[r] = "waiting" THEN "failed" ELSE callers[r]]
  /\ link' = [link EXCEPT !.pending = {}]
  /\ procs' = [procs EXCEPT ![p].reader = "done"]

MarkDead(p) == ClearAlive(p) \/ DropProc(p) \/ DrainPending(p)

HostNext ==
  \/ \E r \in Requests : Call(r) \/ Spawn(r) \/ Enter(r) \/ SendValue(r) \/ TimeOut(r)
  \/ \E p \in Procs : \/ Reply(p) \/ AskHost(p) \/ Die(p) \/ HandleLine(p)
                      \/ SendResponse(p) \/ ReaderEnds(p) \/ MarkDead(p)

(* The reader task of a process runs on until it is done; its steps do not *)
(* wait for the sidecar once the output has ended.                         *)
HostTasks(p) == HandleLine(p) \/ SendResponse(p) \/ ReaderEnds(p) \/ MarkDead(p)

HostSpec == HostInit /\ [][HostNext]_hostVars

-----------------------------------------------------------------------------
(* A caller that waits was sent to a process that still runs or has left   *)
(* the reply in its pipe, or a reader task has yet to fail everything      *)
(* pending: nobody is left to the two-minute timeout by a process that is  *)
(* gone, also when the next process is spawned in the middle of mark_dead, *)
(* which then kills that one (rpc.rs:208-215).                             *)
NobodyWaitsForTheDead ==
  \A r \in Requests : callers[r] = "waiting" =>
    \E p \in Procs :
      \/ r \in procs[p].inbox
      \/ procs[p].reader \in {"reads", "serves"} /\ ~procs[p].running
      \/ \E i \in DOMAIN procs[p].out : procs[p].out[i] = r
      \/ procs[p].reader \in {"ended", "cleared", "dropped"}

(* An answer of the host goes to the process that asked: ids of the        *)
(* sidecar begin anew with every process, so that another one would take   *)
(* it for the answer to its own question (rpc.rs:218-239).                 *)
AnswersStayHome == ~link.misdirected

(* A link that is taken for alive without a process is declared dead and   *)
(* can be started again.                                                   *)
Orphaned == link.alive /\ link.proc = 0
LinkRecovers == Orphaned ~> ~Orphaned

\* Why they hold: readers that still handle lines or have the link to declare
\* dead belong to the last process, and only while the link is taken for alive.
AtWork == {"reads", "serves", "ended"}
OneReaderAtWork ==
  /\ \A p \in Procs : procs[p].reader \in AtWork => link.alive /\ p = link.spawned
  /\ \A p \in Procs : p > link.spawned => procs[p].reader = "none"
  /\ link.proc \in {0, link.spawned}
  /\ link.proc # 0 => procs[link.proc].reader \in AtWork \cup {"cleared"}
  /\ link.alive => link.spawned # 0 /\ procs[link.spawned].reader \in AtWork

\* Only the process at the end of the link runs, and who waits is pending.
WaitingIsPending ==
  /\ \A p \in Procs : /\ procs[p].running => link.proc = p
                      /\ ~procs[p].running => procs[p].inbox = {}
  /\ \A r \in Requests : callers[r] = "waiting" => r \in link.pending
=============================================================================
