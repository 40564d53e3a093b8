------------------------------ MODULE Approval ------------------------------
(***************************************************************************)
(* The approval gate, sidecar/src/approval.ts: a tool call that writes or  *)
(* reaches outside waits on a card until the user decides or ten minutes   *)
(* pass, and an outgoing mail is a draft in mail/outgoing-drafts.json that *)
(* is handed to SMTP only after its card was approved.                     *)
(*                                                                         *)
(* Every await is a point where other callbacks run, so each operation is  *)
(* cut there and carries along what it had read: three operations rewrite  *)
(* the drafts file as a whole from a copy they read before an await.       *)
(***************************************************************************)
EXTENDS Naturals, Sequences, FiniteSets

CONSTANTS
  Ids,         \* approval ids (apr_...), random, never used twice
  Mails,       \* the ids whose card is of kind email; the others guard an action
  MaxPending,  \* APPROVAL_LIMITS.maxPending
  MaxDrafts,   \* APPROVAL_LIMITS.maxDrafts
  MaxPresses,  \* bound: how often the user approves one card
  MaxCrashes,  \* bound: how often the sidecar dies
  FileFaults,  \* BOOLEAN: reading or writing the drafts file may fail
  NoCard,      \* cards.get(id) is undefined
  Idle         \* no such operation is under way

Decided    == {"approved", "denied", "expired"}
CardStatus == {"pending"} \cup Decided
Draft == [id : Mails, status : {"pending", "sent", "denied", "expired", "send_failed"}]
Drafts == Seq(Draft)

(* saveDraft between its read and its write                                *)
Saving == [drafts : Drafts]
(* finish: what it took from the waiters, and whether the decide that      *)
(* called it goes on to send                                               *)
Finishing == [stage : {"read", "write", "audit"}, drafts : Drafts,
              waiter : BOOLEAN, send : BOOLEAN]
(* sendStoredDraft; "sent" is the promise that stays in inflightSend       *)
Sending == [stage : {"read", "smtp", "write", "sent"}, drafts : Drafts, ok : BOOLEAN]

ASSUME ApprovalAssumption ==
  /\ Mails \subseteq Ids
  /\ {MaxPending, MaxDrafts, MaxPresses, MaxCrashes} \subseteq Nat
  /\ FileFaults \in BOOLEAN
  /\ NoCard \notin CardStatus
  /\ Idle \notin Saving /\ Idle \notin Finishing /\ Idle \notin Sending

VARIABLES
  file,       \* the stored drafts, newest first
  up,         \* the sidecar runs
  restoring,  \* its restoreDrafts has not read the file yet
  asked,      \* ids given to a tool call so far
  cards,      \* status of each card
  waiters,    \* tool calls that wait for a decision, each with its timer
  saving, finishing, sending,  \* operations under way, by id
  crashes,
  (* history *)
  approvals,  \* how often the user approved each card
  sends,      \* how often each mail was handed over to SMTP
  performed,  \* guarded actions that were carried out
  answered    \* tool calls that got their answer

process == <<up, restoring, cards, waiters, saving, finishing, sending>>
history == <<approvals, sends, performed, answered>>
vars == <<file, asked, crashes, process, history>>

TypeOK ==
  /\ file \in Drafts
  /\ up \in BOOLEAN
  /\ restoring \in BOOLEAN
  /\ asked \subseteq Ids
  /\ cards \in [Ids -> CardStatus \cup {NoCard}]
  /\ waiters \subseteq Ids
  /\ saving \in [Ids -> Saving \cup {Idle}]
  /\ \A i \in Ids \ Mails : saving[i] = Idle
  /\ finishing \in [Ids -> Finishing \cup {Idle}]
  /\ sending \in [Ids -> Sending \cup {Idle}]
  /\ crashes \in Nat
  /\ approvals \in [Ids -> Nat]
  /\ sends \in [Ids -> Nat]
  /\ performed \subseteq Ids
  /\ answered \subseteq Ids

None == [i \in Ids |-> Idle]

Init ==
  /\ file = <<>>
  /\ up = TRUE
  /\ restoring = TRUE
  /\ asked = {}
  /\ cards = [i \in Ids |-> NoCard]
  /\ waiters = {}
  /\ saving = None /\ finishing = None /\ sending = None
  /\ crashes = 0
  /\ approvals = [i \in Ids |-> 0]
  /\ sends = [i \in Ids |-> 0]
  /\ performed = {}
  /\ answered = {}

-----------------------------------------------------------------------------
(* The drafts file.                                                        *)

Has(drafts, i, S) == \E n \in DOMAIN drafts : drafts[n].id = i /\ drafts[n].status \in S

Marked(drafts, i, status) ==
  [n \in DOMAIN drafts |-> IF drafts[n].id = i
                           THEN [drafts[n] EXCEPT !.status = status]
                           ELSE drafts[n]]

Capped(drafts) ==
  IF Len(drafts) <= MaxDrafts THEN drafts ELSE SubSeq(drafts, 1, MaxDrafts)

(* readDrafts answers a failed read with no drafts, writeDrafts swallows a *)
(* failed write.                                                           *)
Reads == {file} \cup (IF FileFaults THEN {<<>>} ELSE {})
Writes(drafts) == {drafts} \cup (IF FileFaults THEN {file} ELSE {})

Pending == {i \in Ids : cards[i] = "pending"}

-----------------------------------------------------------------------------
(* Tool calls ask.                                                         *)

(* request: the card opens at once and the call waits.                     *)
Request(i) ==
  /\ up
  /\ i \in Ids \ (Mails \cup asked)
  /\ Cardinality(Pending) < MaxPending
  /\ asked' = asked \cup {i}
  /\ cards' = [cards EXCEPT ![i] = "pending"]
  /\ waiters' = waiters \cup {i}
  /\ UNCHANGED <<file, crashes, up, restoring, saving, finishing, sending, history>>

(* requestEmail up to the first await: the file has been read.             *)
RequestEmail(i) ==
  /\ up
  /\ i \in Mails \ asked
  /\ Cardinality(Pending) < MaxPending
  /\ asked' = asked \cup {i}
  /\ \E drafts \in Reads : saving' = [saving EXCEPT ![i] = [drafts |-> drafts]]
  /\ UNCHANGED <<file, crashes, up, restoring, cards, waiters, finishing, sending, history>>

(* saveDraft writes its copy back with the draft in front; then the card   *)
(* opens and the call waits.                                               *)
SaveDraft(i) ==
  /\ up
  /\ saving[i] # Idle
  /\ file' \in Writes(Capped(<<[id |-> i, status |-> "pending"]>> \o saving[i].drafts))
  /\ saving' = [saving EXCEPT ![i] = Idle]
  /\ cards' = [cards EXCEPT ![i] = "pending"]
  /\ waiters' = waiters \cup {i}
  /\ UNCHANGED <<asked, crashes, up, restoring, finishing, sending, history>>

-----------------------------------------------------------------------------
(* finish: by the user's decision or by the timer.                         *)

(* Mutant: the waiter is looked up after it was taken out.                 *)
BeginFinishTooLate(i, status, send) ==
  /\ cards' = [cards EXCEPT ![i] = status]
  /\ waiters' = waiters \ {i}
  /\ finishing' = [finishing EXCEPT ![i] =
       [stage |-> IF i \in Mails /\ status # "approved" THEN "read" ELSE "audit",
        drafts |-> <<>>, waiter |-> FALSE, send |-> send]]

(* The status changes before the first await, so only one finish per card  *)
(* gets past the check; the waiter and its timer are taken out.            *)
BeginFinish(i, status, send) ==
  /\ cards' = [cards EXCEPT ![i] = status]
  /\ waiters' = waiters \ {i}
  /\ finishing' = [finishing EXCEPT ![i] =
       [stage |-> IF i \in Mails /\ status # "approved" THEN "read" ELSE "audit",
        drafts |-> <<>>, waiter |-> i \in waiters, send |-> send]]

(* Mutant: the promise under way is not looked up.                         *)
StartSendAfresh(i) ==
  sending' = [sending EXCEPT ![i] = [stage |-> "read", drafts |-> <<>>, ok |-> FALSE]]

(* sendStoredDraft returns the promise under way, if there is one.         *)
StartSend(i) ==
  sending' = IF sending[i] = Idle
             THEN [sending EXCEPT ![i] = [stage |-> "read", drafts |-> <<>>, ok |-> FALSE]]
             ELSE sending

(* decide on a card that is still pending.  Without a waiter - the card    *)
(* was restored - the decide itself sends once finish is through.          *)
DecidePending(i, decision) ==
  /\ up
  /\ cards[i] = "pending"
  /\ decision = "approved" => approvals[i] < MaxPresses
  /\ BeginFinish(i, decision,
                 decision = "approved" /\ i \in Mails /\ i \notin waiters)
  /\ approvals' = IF decision = "approved" THEN [approvals EXCEPT ![i] = @ + 1]
                                           ELSE approvals
  /\ UNCHANGED <<file, asked, crashes, up, restoring, saving, sending,
                 sends, performed, answered>>

(* decide/approve on a mail card that is not pending any more: there is no *)
(* waiter, so the stored draft is sent at once, whatever the card says.    *)
ApproveAgain(i) ==
  /\ up
  /\ i \in Mails
  /\ cards[i] \in Decided
  /\ approvals[i] < MaxPresses
  /\ approvals' = [approvals EXCEPT ![i] = @ + 1]
  /\ StartSend(i)
  /\ UNCHANGED <<file, asked, crashes, up, restoring, cards, waiters, saving, finishing,
                 sends, performed, answered>>

(* Mutant: mail cards have no timer.                                       *)
ExpireAction(i) ==
  /\ up
  /\ i \in waiters \ Mails
  /\ cards[i] = "pending"
  /\ BeginFinish(i, "expired", FALSE)
  /\ UNCHANGED <<file, asked, crashes, up, restoring, saving, sending, history>>

(* The ten-minute timer of a waiting call.                                 *)
Expire(i) ==
  /\ up
  /\ i \in waiters
  /\ cards[i] = "pending"
  /\ BeginFinish(i, "expired", FALSE)
  /\ UNCHANGED <<file, asked, crashes, up, restoring, saving, sending, history>>

(* markDraft: read, and - unless the draft is missing or sent - write.     *)
MarkRead(i) ==
  /\ up
  /\ finishing[i] # Idle
  /\ finishing[i].stage = "read"
  /\ \E drafts \in Reads :
       finishing' = [finishing EXCEPT ![i] = [@ EXCEPT
         !.stage = IF Has(drafts, i, {"pending", "denied", "expired", "send_failed"})
                   THEN "write" ELSE "audit",
         !.drafts = drafts]]
  /\ UNCHANGED <<file, asked, crashes, up, restoring, cards, waiters, saving, sending, history>>

MarkWrite(i) ==
  /\ up
  /\ finishing[i] # Idle
  /\ finishing[i].stage = "write"
  /\ file' \in Writes(Marked(finishing[i].drafts, i,
                           IF cards[i] = "denied" THEN "denied" ELSE "expired"))
  /\ finishing' = [finishing EXCEPT
       ![i] = [@ EXCEPT !.stage = "audit", !.drafts = <<>>]]
  /\ UNCHANGED <<asked, crashes, up, restoring, cards, waiters, saving, sending, history>>

(* Mutant: whatever was not denied is allowed.                             *)
NotDenied(i) == cards[i] # "denied"

Approved(i) == cards[i] = "approved"

(* The decision is on the audit log; the waiting call gets its answer and  *)
(* goes on: an approved action is carried out, an approved mail is sent.   *)
Answer(i) ==
  LET waiter == finishing[i].waiter
  IN  /\ up
      /\ finishing[i] # Idle
      /\ finishing[i].stage = "audit"
      /\ finishing' = [finishing EXCEPT ![i] = Idle]
      /\ answered' = IF waiter THEN answered \cup {i} ELSE answered
      /\ performed' = IF waiter /\ Approved(i) /\ i \notin Mails
                      THEN performed \cup {i} ELSE performed
      /\ IF finishing[i].send \/ (waiter /\ Approved(i) /\ i \in Mails)
         THEN StartSend(i) ELSE UNCHANGED sending
      /\ UNCHANGED <<file, asked, crashes, up, restoring, cards, waiters, saving,
                     approvals, sends>>

-----------------------------------------------------------------------------
(* sendStoredDraftOnce.                                                    *)

SendRead(i) ==
  /\ up
  /\ sending[i] # Idle
  /\ sending[i].stage = "read"
  /\ \E drafts \in Reads :
       sending' = [sending EXCEPT ![i] =
         IF Has(drafts, i, {"sent"}) THEN [@ EXCEPT !.stage = "sent"]
         ELSE IF Has(drafts, i, {"pending", "denied", "expired", "send_failed"})
              THEN [@ EXCEPT !.stage = "smtp", !.drafts = drafts]
              ELSE Idle]
  /\ UNCHANGED <<file, asked, crashes, up, restoring, cards, waiters, saving, finishing,
                 history>>

(* SMTP takes the mail and says so, takes it and the answer is lost, or    *)
(* does not take it.                                                       *)
Smtp(i, taken, ok) ==
  /\ up
  /\ sending[i] # Idle
  /\ sending[i].stage = "smtp"
  /\ ok => taken
  /\ sends' = IF taken THEN [sends EXCEPT ![i] = @ + 1] ELSE sends
  /\ sending' = [sending EXCEPT ![i] =
       [stage  |-> "write",
        drafts |-> Marked(@.drafts, i, IF ok THEN "sent" ELSE "send_failed"),
        ok     |-> ok]]
  /\ UNCHANGED <<file, asked, crashes, up, restoring, cards, waiters, saving, finishing,
                 approvals, performed, answered>>

(* Mutant: a failed send is tried again without asking.                    *)
SendWriteRetries(i) ==
  /\ up
  /\ sending[i] # Idle
  /\ sending[i].stage = "write"
  /\ file' \in Writes(sending[i].drafts)
  /\ sending' = [sending EXCEPT ![i] =
       [stage |-> IF sending[i].ok THEN "sent" ELSE "read", drafts |-> <<>>, ok |-> FALSE]]
  /\ UNCHANGED <<asked, crashes, up, restoring, cards, waiters, saving, finishing, history>>

(* The outcome is written; a failure clears inflightSend again.            *)
SendWrite(i) ==
  /\ up
  /\ sending[i] # Idle
  /\ sending[i].stage = "write"
  /\ file' \in Writes(sending[i].drafts)
  /\ sending' = [sending EXCEPT ![i] =
       IF sending[i].ok THEN [stage |-> "sent", drafts |-> <<>>, ok |-> TRUE] ELSE Idle]
  /\ UNCHANGED <<asked, crashes, up, restoring, cards, waiters, saving, finishing, history>>

-----------------------------------------------------------------------------
(* The sidecar dies and comes back.                                        *)

Crash ==
  /\ up
  /\ crashes < MaxCrashes
  /\ crashes' = crashes + 1
  /\ up' = FALSE
  /\ cards' = [i \in Ids |-> NoCard]
  /\ waiters' = {}
  /\ saving' = None /\ finishing' = None /\ sending' = None
  /\ UNCHANGED <<file, asked, restoring, history>>

Start ==
  /\ ~up
  /\ up' = TRUE
  /\ restoring' = TRUE
  /\ UNCHANGED <<file, asked, crashes, cards, waiters, saving, finishing, sending, history>>

(* Mutant: every stored draft gets a card again, with the draft's status.  *)
RestoreEveryDraft ==
  /\ up
  /\ restoring
  /\ restoring' = FALSE
  /\ \E drafts \in Reads :
       cards' = [i \in Ids |->
                   IF \E n \in DOMAIN drafts : cards[i] = NoCard /\ drafts[n].id = i
                   THEN (CHOOSE d \in {drafts[n] : n \in DOMAIN drafts} : d.id = i).status
                   ELSE cards[i]]
  /\ UNCHANGED <<file, asked, crashes, up, waiters, saving, finishing, sending, history>>

(* restoreDrafts: a pending draft without a card gets one; nobody waits    *)
(* for it and no timer runs.                                               *)
RestoreDrafts ==
  /\ up
  /\ restoring
  /\ restoring' = FALSE
  /\ \E drafts \in Reads :
       cards' = [i \in Ids |-> IF cards[i] = NoCard /\ Has(drafts, i, {"pending"})
                               THEN "pending" ELSE cards[i]]
  /\ UNCHANGED <<file, asked, crashes, up, waiters, saving, finishing, sending, history>>

Next ==
  \/ \E i \in Ids :
       \/ Request(i) \/ RequestEmail(i) \/ SaveDraft(i)
       \/ \E decision \in {"approved", "denied"} : DecidePending(i, decision)
       \/ ApproveAgain(i) \/ Expire(i)
       \/ MarkRead(i) \/ MarkWrite(i) \/ Answer(i)
       \/ SendRead(i) \/ SendWrite(i)
       \/ \E taken, ok \in BOOLEAN : Smtp(i, taken, ok)
  \/ Crash \/ Start \/ RestoreDrafts

Spec == Init /\ [][Next]_vars

(* Fairness: the vault answers or the request times out, and timers fire.  *)
(* Nothing is assumed of the user.                                         *)
FinishStep(i) == MarkRead(i) \/ MarkWrite(i) \/ Answer(i)

FairSpec ==
  /\ Spec
  /\ \A i \in Ids : WF_vars(SaveDraft(i)) /\ WF_vars(Expire(i)) /\ WF_vars(FinishStep(i))

-----------------------------------------------------------------------------
(* Properties.                                                             *)

(* One approval sends a mail at most once (docs/contract.md 2.13): however *)
(* presses, timers, failed or half-failed SMTP calls, lost writes and      *)
(* restarts interleave, a mail reaches SMTP no more often than the user    *)
(* approved its card.  Two places send - the waiting tool call and decide  *)
(* itself - and only inflightSend and hadWaiter keep them apart.           *)
SendsBoundedByApprovals == \A i \in Ids : sends[i] <= approvals[i]

(* An action is carried out only for the call whose card was approved, and *)
(* the decision stands: no timer or second press changes it afterwards     *)
(* (finish; a card of a previous process is gone).                         *)
ActsOnApprovalOnly ==
  \A i \in performed :
    approvals[i] = 1 /\ i \in answered /\ cards[i] \in {"approved", NoCard}

(* A tool call that was asked for and has not been answered is still on    *)
(* its way to an answer - its draft is being stored, its timer runs, or    *)
(* finish holds its waiter - unless the process it belonged to has died:   *)
(* no call is left hanging, and none is answered twice.                    *)
Underway(i) ==
  \/ saving[i] # Idle
  \/ i \in waiters /\ cards[i] = "pending"
  \/ finishing[i] # Idle /\ finishing[i].waiter

NoCallIsStranded ==
  /\ crashes = 0 => \A i \in asked : Underway(i) <=> i \notin answered
  /\ \A i \in Ids : Underway(i) => i \notin answered

(* Once SMTP has confirmed a mail, this process never hands it over again: *)
(* the settled promise stays in inflightSend.                              *)
ConfirmedIsFinal ==
  [][\A i \in Ids :
       sending[i] # Idle /\ sending[i].stage = "sent" /\ up'
         => sending'[i] # Idle /\ sending'[i].stage = "sent" /\ sends'[i] = sends[i]]_vars

(* Every waiting tool call gets an answer while the sidecar lives: the     *)
(* user may never come, and storing the draft may fail.                    *)
AskedIsAnswered ==
  \A i \in Ids : i \in asked ~> (i \in answered \/ crashes > 0)

(* What docs/contract.md 2.13 says of a card nobody decided in time: it is *)
(* "expired" and the mail is not sent.                                     *)
ExpiredIsNotSent == \A i \in Mails : cards[i] = "expired" => sends[i] = 0

(* What docs/contract.md 2.13 says of draft_email: the draft is in the     *)
(* protected file when its card is open, so that an approval can send it.  *)
OpenCardHasDraft ==
  \A i \in Mails : cards[i] = "pending" => Has(file, i, {"pending"})
=============================================================================
