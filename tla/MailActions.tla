----------------------------- MODULE MailActions -----------------------------
(***************************************************************************)
(* What is done to mail on the server (sidecar/src/mail.ts): flags, moves   *)
(* and deletions, one uid per command, and sending.  A caller is told of   *)
(* each uid when it has been dealt with, and of an error by which the rest *)
(* was left alone.  Other clients work on the same mailbox, and a          *)
(* connection may break after a command before its answer.                 *)
(***************************************************************************)
EXTENDS Naturals, FiniteSets

CONSTANTS
  RemoteJobs,   \* the calls
  MaxRemoteUid  \* a bound on the messages of the mailbox

VARIABLES
  mailbox,     \* on the server: where each message is, and which are flagged
  remoteJobs   \* the calls: what they want, have left to do, have told, and did

mailActionVars == <<mailbox, remoteJobs>>

RemoteUids == 1..MaxRemoteUid
Places == {"source", "moved", "gone"}
JobKinds == {"flag", "unflag", "move", "delete", "send"}

MailActionTypeOK ==
  /\ mailbox \in [place : [RemoteUids -> Places], flagged : SUBSET RemoteUids, uidplus : BOOLEAN]
  /\ remoteJobs \in [RemoteJobs ->
       [at : {"idle", "connects", "locks", "works", "ends"}, kind : JobKinds, left : SUBSET RemoteUids,
        told : SUBSET RemoteUids, did : SUBSET RemoteUids, sent : BOOLEAN, answer : {"none", "done", "error"}]]

IdleJob == [at |-> "idle", kind |-> "flag", left |-> {}, told |-> {}, did |-> {}, sent |-> FALSE, answer |-> "none"]

MailActionInit ==
  /\ \E uidplus \in BOOLEAN :
       mailbox = [place |-> [u \in RemoteUids |-> "source"], flagged |-> {}, uidplus |-> uidplus]
  /\ remoteJobs = [j \in RemoteJobs |-> IdleJob]

Job(j) == remoteJobs[j]
JobGoes(j, at) == remoteJobs' = [remoteJobs EXCEPT ![j].at = at]
JobFails(j) == remoteJobs' = [remoteJobs EXCEPT ![j].at = "ends", ![j].answer = "error"]

\* The account is known, and the uids are real ones; none at all is done at once.
BeginAction(j, kind, uids) ==
  /\ Job(j).at = "idle" /\ (kind = "send" => uids = {}) /\ UNCHANGED mailbox
  /\ remoteJobs' = [remoteJobs EXCEPT ![j] =
       [IdleJob EXCEPT !.kind = kind, !.left = uids, !.at = IF uids = {} /\ kind # "send" THEN "ends" ELSE "connects",
                       !.answer = IF uids = {} /\ kind # "send" THEN "done" ELSE "none"]]

Connect(j) ==
  /\ Job(j).at = "connects" /\ Job(j).kind # "send" /\ UNCHANGED mailbox
  /\ JobGoes(j, "locks") \/ JobFails(j)

\* Where a move goes to is found out first; deleting needs UIDPLUS.
LockMailbox(j) ==
  /\ Job(j).at = "locks" /\ UNCHANGED mailbox
  /\ \/ (Job(j).kind = "delete" => mailbox.uidplus) /\ JobGoes(j, "works")
     \/ JobFails(j)

\* What a command does to a message that is still there.
Effect(kind, u) ==
  CASE mailbox.place[u] # "source" -> mailbox
    [] kind = "flag" -> [mailbox EXCEPT !.flagged = @ \cup {u}]
    [] kind = "unflag" -> [mailbox EXCEPT !.flagged = @ \ {u}]
    [] kind = "move" -> [mailbox EXCEPT !.place[u] = "moved"]
    [] OTHER -> [mailbox EXCEPT !.place[u] = "gone"]

\* deleteMail has nobody to report to while it works.
Told(j, u) == IF Job(j).kind = "delete" THEN Job(j).told ELSE Job(j).told \cup {u}

\* Mutant: the whole batch is reported, whatever was confirmed.
CommandReported(j, u) ==
  /\ Job(j).at = "works" /\ u \in Job(j).left /\ (\A v \in Job(j).left : u <= v)
  /\ \/ /\ mailbox' = Effect(Job(j).kind, u)
        /\ remoteJobs' = [remoteJobs EXCEPT ![j].left = @ \ {u}, ![j].did = @ \cup {u}, ![j].told = Told(j, u)]
     \/ /\ UNCHANGED mailbox
        /\ remoteJobs' = [remoteJobs EXCEPT ![j].left = @ \ {u}, ![j].told = Told(j, u)]

\* One command for one uid, in their order.  The server did it and said so; or it
\* did not; or it did and the answer was lost.  After an error nothing more is tried.
Command(j, u) ==
  /\ Job(j).at = "works" /\ u \in Job(j).left /\ (\A v \in Job(j).left : u <= v)
  /\ \/ /\ mailbox' = Effect(Job(j).kind, u)
        /\ remoteJobs' = [remoteJobs EXCEPT ![j].left = @ \ {u}, ![j].did = @ \cup {u}, ![j].told = Told(j, u)]
     \/ UNCHANGED mailbox /\ JobFails(j)
     \/ /\ mailbox' = Effect(Job(j).kind, u)
        /\ remoteJobs' = [remoteJobs EXCEPT ![j].did = @ \cup {u}, ![j].at = "ends", ![j].answer = "error"]

AllDone(j) ==
  /\ Job(j).at = "works" /\ Job(j).left = {} /\ UNCHANGED mailbox
  /\ remoteJobs' = [remoteJobs EXCEPT ![j].at = "ends", ![j].answer = "done"]

\* sendMail: one attempt; an error does not tell whether the server took it.
SendMail(j) ==
  /\ Job(j).at = "connects" /\ Job(j).kind = "send" /\ UNCHANGED mailbox
  /\ \E sent \in BOOLEAN, answer \in {"done", "error"} :
       /\ answer = "done" => sent
       /\ remoteJobs' = [remoteJobs EXCEPT ![j].at = "ends", ![j].sent = sent, ![j].answer = answer]

\* The caller has its answer and may call again.
JobAnswered(j) == Job(j).at = "ends" /\ UNCHANGED mailbox /\ remoteJobs' = [remoteJobs EXCEPT ![j] = IdleJob]

\* Another client, or another call with the same mailbox.
OthersMove(u) == mailbox.place[u] = "source" /\ mailbox' = [mailbox EXCEPT !.place[u] = "gone"] /\ UNCHANGED remoteJobs

MailActionNext ==
  \/ \E j \in RemoteJobs :
       \/ \E kind \in JobKinds, uids \in SUBSET RemoteUids : BeginAction(j, kind, uids)
       \/ Connect(j) \/ LockMailbox(j) \/ AllDone(j) \/ SendMail(j) \/ JobAnswered(j)
       \/ \E u \in RemoteUids : Command(j, u)
  \/ \E u \in RemoteUids : OthersMove(u)

MailActionSpec == MailActionInit /\ [][MailActionNext]_mailActionVars

-----------------------------------------------------------------------------
(* What a caller is told is what was done: every uid reported was dealt     *)
(* with; at most the one an error came with was dealt with unreported,      *)
(* unless it is a deletion, which reports nothing; and success means all of *)
(* them (mail.ts:626-640, 690-760).                                         *)
ReportsAreTrue ==
  \A j \in RemoteJobs :
    /\ Job(j).told \subseteq Job(j).did
    /\ Job(j).kind = "delete" \/ Cardinality(Job(j).did \ Job(j).told) <= IF Job(j).answer = "error" THEN 1 ELSE 0
    /\ Job(j).answer = "done" => Job(j).left = {}
=============================================================================
