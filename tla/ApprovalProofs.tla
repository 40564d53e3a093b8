--------------------------- MODULE ApprovalProofs ---------------------------
(***************************************************************************)
(* Theorems about module Approval, for any number of mails and actions,    *)
(* any capacities and any number of presses and crashes.                   *)
(***************************************************************************)
EXTENDS Approval, TLAPS

(* What the drafts file is rewritten to is a list of drafts again.         *)
LEMMA MarkedType ==
  ASSUME NEW d \in Drafts, NEW i,
         NEW status \in {"pending", "sent", "denied", "expired", "send_failed"}
  PROVE  Marked(d, i, status) \in Drafts
<1>1. d \in [1..Len(d) -> Draft] /\ Len(d) \in Nat
  BY DEF Drafts
<1>2. DOMAIN d = 1..Len(d)
  BY <1>1
<1>3. Marked(d, i, status) \in [1..Len(d) -> Draft]
  BY <1>1, <1>2 DEF Marked, Draft
<1> QED
  BY <1>1, <1>3 DEF Drafts

LEMMA CappedType ==
  ASSUME NEW d \in Drafts, NEW e \in Draft
  PROVE  Capped(<<e>> \o d) \in Drafts
<1> DEFINE full == <<e>> \o d
<1>1. full \in Seq(Draft) /\ Len(full) \in Nat
  BY DEF Drafts
<1>2. CASE Len(full) <= MaxDrafts
  BY <1>1, <1>2 DEF Capped, Drafts
<1>3. CASE ~(Len(full) <= MaxDrafts)
  <2>1. MaxDrafts \in Nat /\ MaxDrafts <= Len(full)
    BY <1>1, <1>3, ApprovalAssumption
  <2>2. SubSeq(full, 1, MaxDrafts) \in Seq(Draft)
    BY <1>1, <2>1
  <2> QED
    BY <1>3, <2>2 DEF Capped, Drafts
<1> QED
  BY <1>2, <1>3

LEMMA EmptyDrafts == <<>> \in Drafts
  BY DEF Drafts

LEMMA ReadsType == file \in Drafts => Reads \subseteq Drafts
  BY EmptyDrafts DEF Reads

LEMMA WritesType ==
  ASSUME file \in Drafts, NEW d \in Drafts
  PROVE  Writes(d) \subseteq Drafts
  BY DEF Writes

LEMMA FinishingType ==
  ASSUME NEW f \in Finishing, NEW stage \in {"read", "write", "audit"},
         NEW d \in Drafts
  PROVE  [f EXCEPT !.stage = stage, !.drafts = d] \in Finishing
  BY DEF Finishing

LEMMA SendingType ==
  ASSUME NEW f \in Sending, NEW stage \in {"read", "smtp", "write", "sent"},
         NEW d \in Drafts
  PROVE  /\ [f EXCEPT !.stage = stage, !.drafts = d] \in Sending
         /\ [f EXCEPT !.stage = stage] \in Sending
  BY DEF Sending

-----------------------------------------------------------------------------
(* Type correctness: every operation, whatever it read from the drafts     *)
(* file and whenever it resumes, leaves the tables well formed.            *)
LEMMA TypeStep == TypeOK /\ [Next]_vars => TypeOK'
<1> SUFFICES ASSUME TypeOK, [Next]_vars PROVE TypeOK'
  OBVIOUS
<1> USE DEF TypeOK, history
<1>1. ASSUME NEW i \in Ids, Request(i) PROVE TypeOK'
  BY <1>1 DEF Request, CardStatus
<1>2. ASSUME NEW i \in Ids, RequestEmail(i) PROVE TypeOK'
  BY <1>2, ReadsType DEF RequestEmail, Saving
<1>3. ASSUME NEW i \in Ids, SaveDraft(i) PROVE TypeOK'
  <2>1. saving[i].drafts \in Drafts
    BY <1>3 DEF SaveDraft, Saving
  <2>2. file' \in Drafts
    <3>1. [id |-> i, status |-> "pending"] \in Draft
      BY <1>3 DEF SaveDraft, Draft
    <3> QED
      BY <1>3, <2>1, <3>1, CappedType, WritesType DEF SaveDraft
  <2> QED
    BY <1>3, <2>2 DEF SaveDraft, CardStatus
<1>4. ASSUME NEW i \in Ids, NEW decision \in {"approved", "denied"},
             DecidePending(i, decision)
      PROVE  TypeOK'
  <2>1. finishing' \in [Ids -> Finishing \cup {Idle}]
    BY <1>4, EmptyDrafts DEF DecidePending, BeginFinish, Finishing
  <2> QED
    BY <1>4, <2>1 DEF DecidePending, BeginFinish, CardStatus, Decided
<1>5. ASSUME NEW i \in Ids, ApproveAgain(i) PROVE TypeOK'
  BY <1>5, EmptyDrafts DEF ApproveAgain, StartSend, Sending
<1>6. ASSUME NEW i \in Ids, Expire(i) PROVE TypeOK'
  <2>1. finishing' \in [Ids -> Finishing \cup {Idle}]
    BY <1>6, EmptyDrafts DEF Expire, BeginFinish, Finishing
  <2> QED
    BY <1>6, <2>1 DEF Expire, BeginFinish, CardStatus, Decided
<1>7. ASSUME NEW i \in Ids, MarkRead(i) PROVE TypeOK'
  <2>1. PICK drafts \in Reads, stage \in {"read", "write", "audit"} :
          finishing' = [finishing EXCEPT ![i] =
            [@ EXCEPT !.stage = stage, !.drafts = drafts]]
    BY <1>7 DEF MarkRead
  <2>2. [finishing[i] EXCEPT !.stage = stage, !.drafts = drafts] \in Finishing
    <3>1. finishing[i] \in Finishing /\ drafts \in Drafts
      BY <1>7, ReadsType DEF MarkRead
    <3> QED
      BY <3>1, FinishingType
  <2>3. finishing' \in [Ids -> Finishing \cup {Idle}]
    BY <2>1, <2>2
  <2> QED
    BY <1>7, <2>3 DEF MarkRead
<1>8. ASSUME NEW i \in Ids, MarkWrite(i) PROVE TypeOK'
  <2>1. finishing[i] \in Finishing
    BY <1>8 DEF MarkWrite
  <2>2. file' \in Drafts
    <3>1. finishing[i].drafts \in Drafts
      BY <2>1 DEF Finishing
    <3>2. Marked(finishing[i].drafts, i,
                 IF cards[i] = "denied" THEN "denied" ELSE "expired") \in Drafts
      BY <3>1, MarkedType
    <3> QED
      BY <1>8, <3>2, WritesType DEF MarkWrite
  <2>3. [finishing[i] EXCEPT !.stage = "audit", !.drafts = <<>>] \in Finishing
    BY <2>1, FinishingType, EmptyDrafts
  <2>4. finishing' \in [Ids -> Finishing \cup {Idle}]
    BY <1>8, <2>3 DEF MarkWrite
  <2> QED
    BY <1>8, <2>2, <2>4 DEF MarkWrite
<1>9. ASSUME NEW i \in Ids, Answer(i) PROVE TypeOK'
  <2>1. sending' \in [Ids -> Sending \cup {Idle}]
    <3>1. [stage |-> "read", drafts |-> <<>>, ok |-> FALSE] \in Sending
      BY EmptyDrafts DEF Sending
    <3> QED
      BY <1>9, <3>1 DEF Answer, StartSend
  <2>2. finishing' \in [Ids -> Finishing \cup {Idle}]
    BY <1>9 DEF Answer
  <2> QED
    BY <1>9, <2>1, <2>2 DEF Answer
<1>10. ASSUME NEW i \in Ids, SendRead(i) PROVE TypeOK'
  <2>0. sending[i] \in Sending
    BY <1>10 DEF SendRead
  <2>1. PICK drafts \in Reads, next \in Sending \cup {Idle} :
          sending' = [sending EXCEPT ![i] = next]
    BY <1>10, <2>0, ReadsType, SendingType DEF SendRead
  <2> QED
    BY <1>10, <2>1 DEF SendRead
<1>11. ASSUME NEW i \in Ids, NEW taken \in BOOLEAN, NEW ok \in BOOLEAN,
              Smtp(i, taken, ok)
       PROVE  TypeOK'
  <2>1. Marked(sending[i].drafts, i, IF ok THEN "sent" ELSE "send_failed") \in Drafts
    BY <1>11, MarkedType DEF Smtp, Sending
  <2>2. sending' \in [Ids -> Sending \cup {Idle}]
    BY <1>11, <2>1 DEF Smtp, Sending
  <2> QED
    BY <1>11, <2>2 DEF Smtp
<1>12. ASSUME NEW i \in Ids, SendWrite(i) PROVE TypeOK'
  <2>1. file' \in Drafts
    BY <1>12, WritesType DEF SendWrite, Sending
  <2> QED
    BY <1>12, <2>1, EmptyDrafts DEF SendWrite, Sending
<1>13. CASE Crash
  <2>1. /\ saving' \in [Ids -> Saving \cup {Idle}]
        /\ \A i \in Ids \ Mails : saving'[i] = Idle
        /\ finishing' \in [Ids -> Finishing \cup {Idle}]
        /\ sending' \in [Ids -> Sending \cup {Idle}]
    BY <1>13 DEF Crash, None
  <2>2. cards' \in [Ids -> CardStatus \cup {NoCard}]
    BY <1>13 DEF Crash
  <2>3. crashes' \in Nat
    <3>1. crashes' = crashes + 1
      BY <1>13, Zenon DEF Crash
    <3> QED
      BY <3>1
  <2>4. up' \in BOOLEAN
    BY <1>13, Zenon DEF Crash
  <2>5. /\ waiters' = {}
        /\ UNCHANGED <<file, asked, restoring, history>>
    BY <1>13, Zenon DEF Crash
  <2> QED
    BY <2>1, <2>2, <2>3, <2>4, <2>5
<1>14. CASE Start
  BY <1>14 DEF Start
<1>15. CASE RestoreDrafts
  <2>1. cards' \in [Ids -> CardStatus \cup {NoCard}]
    BY <1>15 DEF RestoreDrafts, CardStatus
  <2> QED
    BY <1>15, <2>1 DEF RestoreDrafts
<1>16. CASE UNCHANGED vars
  BY <1>16 DEF vars, process
<1> QED
  BY <1>1, <1>2, <1>3, <1>4, <1>5, <1>6, <1>7, <1>8, <1>9, <1>10, <1>11,
     <1>12, <1>13, <1>14, <1>15, <1>16 DEF Next

(* Every variable keeps its type: in particular the drafts file only ever  *)
(* holds drafts with a status the code knows, and no operation under way   *)
(* carries a half-read copy of it (approval.ts).                           *)
THEOREM TypeCorrect == Spec => []TypeOK
<1>1. Init => TypeOK
  BY EmptyDrafts DEF Init, TypeOK, None
<1> QED
  BY <1>1, TypeStep, PTL DEF Spec

-----------------------------------------------------------------------------
(* One approval, at most one mail.  SendsBoundedByApprovals is not         *)
(* inductive: an approval that has been given but not spent yet is either  *)
(* held by finish, which will start a send when it is through, or by a     *)
(* send that has not reached SMTP.  Budget counts those too.               *)
Promised(i) ==
  IF /\ finishing[i] # Idle
     /\ \/ finishing[i].send
        \/ finishing[i].waiter /\ cards[i] = "approved" /\ i \in Mails
  THEN 1 ELSE 0

InHand(i) ==
  IF sending[i] # Idle /\ sending[i].stage \in {"read", "smtp"} THEN 1 ELSE 0

Budget(i) == sends[i] + InHand(i) + Promised(i) <= approvals[i]

(* Starting a send takes at most one more approval in hand.                *)
LEMMA StartSendInHand ==
  ASSUME TypeOK, NEW i \in Ids, StartSend(i)
  PROVE  /\ InHand(i)' <= 1
         /\ \A j \in Ids \ {i} : InHand(j)' = InHand(j)
  BY DEF TypeOK, StartSend, InHand

(* Going on inside finish keeps its promise.                               *)
LEMMA FinishStepPromise ==
  ASSUME TypeOK, NEW i \in Ids, finishing[i] # Idle, cards' = cards,
         NEW stage \in {"read", "write", "audit"}, NEW d \in Drafts,
         finishing' = [finishing EXCEPT ![i] =
                         [@ EXCEPT !.stage = stage, !.drafts = d]]
  PROVE  \A j \in Ids : Promised(j)' = Promised(j)
<1> DEFINE f == [finishing[i] EXCEPT !.stage = stage, !.drafts = d]
<1>1. finishing[i] \in Finishing
  BY DEF TypeOK
<1>2. f \in Finishing /\ f.send = finishing[i].send /\ f.waiter = finishing[i].waiter
  BY <1>1 DEF Finishing
<1>3. f # Idle
  BY <1>2, ApprovalAssumption
<1>4. finishing'[i] = f /\ \A j \in Ids \ {i} : finishing'[j] = finishing[j]
  BY DEF TypeOK
<1> QED
  BY <1>2, <1>3, <1>4 DEF Promised

LEMMA FinishKeepsWaiter ==
  ASSUME TypeOK, NEW i \in Ids, finishing[i] # Idle,
         NEW stage \in {"read", "write", "audit"}, NEW d \in Drafts,
         finishing' = [finishing EXCEPT ![i] = [@ EXCEPT !.stage = stage, !.drafts = d]]
  PROVE  \A j \in Ids : (finishing'[j] # Idle /\ finishing'[j].waiter)
                            <=> (finishing[j] # Idle /\ finishing[j].waiter)
<1> DEFINE f == [finishing[i] EXCEPT !.stage = stage, !.drafts = d]
<1>1. finishing[i] \in Finishing
  BY DEF TypeOK
<1>2. f \in Finishing /\ f.waiter = finishing[i].waiter
  BY <1>1 DEF Finishing
<1>3. f # Idle
  BY <1>2, ApprovalAssumption
<1>4. finishing'[i] = f /\ \A j \in Ids \ {i} : finishing'[j] = finishing[j]
  BY DEF TypeOK
<1> QED
  BY <1>2, <1>3, <1>4

(* Every step keeps the budget of every mail.                              *)
LEMMA BudgetStep ==
  ASSUME TypeOK, [Next]_vars, NEW j \in Ids, Budget(j)
  PROVE  Budget(j)'
<1>0. /\ sends[j] \in Nat /\ approvals[j] \in Nat
      /\ InHand(j) \in {0, 1} /\ Promised(j) \in {0, 1}
      /\ InHand(j)' \in {0, 1} /\ Promised(j)' \in {0, 1}
  BY DEF TypeOK, InHand, Promised
<1> USE DEF history
<1>1. ASSUME NEW i \in Ids, Request(i) PROVE Budget(j)'
  <2>1. Promised(j)' <= Promised(j)
    BY <1>1 DEF Request, Promised, TypeOK
  <2>2. InHand(j)' = InHand(j)
    BY <1>1 DEF Request, InHand
  <2>3. UNCHANGED <<sends, approvals>>
    BY <1>1 DEF Request
  <2> QED
    BY <1>0, <2>1, <2>2, <2>3 DEF Budget
<1>2. ASSUME NEW i \in Ids, RequestEmail(i) PROVE Budget(j)'
  BY <1>2 DEF RequestEmail, Budget, InHand, Promised
<1>3. ASSUME NEW i \in Ids, SaveDraft(i) PROVE Budget(j)'
  <2>1. Promised(j)' <= Promised(j)
    BY <1>3 DEF SaveDraft, Promised, TypeOK
  <2>2. InHand(j)' = InHand(j)
    BY <1>3 DEF SaveDraft, InHand
  <2>3. UNCHANGED <<sends, approvals>>
    BY <1>3 DEF SaveDraft
  <2> QED
    BY <1>0, <2>1, <2>2, <2>3 DEF Budget
<1>4. ASSUME NEW i \in Ids, NEW decision \in {"approved", "denied"},
             DecidePending(i, decision)
      PROVE  Budget(j)'
  <2>1. InHand(j)' = InHand(j) /\ sends' = sends
    BY <1>4 DEF DecidePending, InHand
  <2>2. CASE j # i
    <3>1. Promised(j)' = Promised(j)
      BY <1>4, <2>2 DEF DecidePending, BeginFinish, Promised, TypeOK
    <3>2. approvals'[j] = approvals[j]
      BY <1>4, <2>2 DEF DecidePending, TypeOK
    <3> QED
      BY <1>0, <2>1, <3>1, <3>2 DEF Budget
  <2>3. CASE j = i /\ decision = "approved"
    <3>1. approvals'[j] = approvals[j] + 1
      BY <1>4, <2>3 DEF DecidePending, TypeOK
    <3> QED
      BY <1>0, <2>1, <3>1 DEF Budget
  <2>4. CASE j = i /\ decision = "denied"
    <3>1. approvals' = approvals
      BY <1>4, <2>4 DEF DecidePending
    <3>2. cards'[j] = "denied" /\ finishing'[j].send = FALSE
      BY <1>4, <2>4 DEF DecidePending, BeginFinish, TypeOK
    <3>3. Promised(j)' = 0
      BY <3>2 DEF Promised
    <3> QED
      BY <1>0, <2>1, <3>1, <3>3 DEF Budget
  <2> QED
    BY <2>2, <2>3, <2>4
<1>5. ASSUME NEW i \in Ids, ApproveAgain(i) PROVE Budget(j)'
  <2>1. sends' = sends /\ Promised(j)' = Promised(j)
    BY <1>5 DEF ApproveAgain, Promised
  <2>2. CASE j # i
    <3>1. approvals'[j] = approvals[j]
      BY <1>5, <2>2 DEF ApproveAgain, TypeOK
    <3>2. InHand(j)' = InHand(j)
      BY <1>5, <2>2, StartSendInHand DEF ApproveAgain
    <3> QED
      BY <1>0, <2>1, <3>1, <3>2 DEF Budget
  <2>3. CASE j = i
    <3>1. approvals'[j] = approvals[j] + 1
      BY <1>5, <2>3 DEF ApproveAgain, TypeOK
    <3> QED
      BY <1>0, <2>1, <3>1 DEF Budget
  <2> QED
    BY <2>2, <2>3
<1>6. ASSUME NEW i \in Ids, Expire(i) PROVE Budget(j)'
  <2>1. InHand(j)' = InHand(j) /\ UNCHANGED <<sends, approvals>>
    BY <1>6 DEF Expire, InHand
  <2>2. Promised(j)' <= Promised(j)
    <3>1. CASE j # i
      BY <1>6, <3>1 DEF Expire, BeginFinish, Promised, TypeOK
    <3>2. CASE j = i
      <4>1. cards'[j] = "expired" /\ finishing'[j].send = FALSE
        BY <1>6, <3>2 DEF Expire, BeginFinish, TypeOK
      <4>2. Promised(j)' = 0
        BY <4>1 DEF Promised
      <4> QED
        BY <1>0, <4>2
    <3> QED
      BY <3>1, <3>2
  <2> QED
    BY <1>0, <2>1, <2>2 DEF Budget
<1>7. ASSUME NEW i \in Ids, MarkRead(i) PROVE Budget(j)'
  <2>1. InHand(j)' = InHand(j) /\ UNCHANGED <<sends, approvals>>
    BY <1>7 DEF MarkRead, InHand
  <2>2. Promised(j)' = Promised(j)
    <3>1. PICK drafts \in Reads, stage \in {"read", "write", "audit"} :
            finishing' = [finishing EXCEPT ![i] =
              [@ EXCEPT !.stage = stage, !.drafts = drafts]]
      BY <1>7 DEF MarkRead
    <3>2. drafts \in Drafts
      BY ReadsType DEF TypeOK
    <3>3. finishing[i] # Idle /\ cards' = cards
      BY <1>7 DEF MarkRead
    <3> QED
      BY <3>1, <3>2, <3>3, FinishStepPromise
  <2> QED
    BY <1>0, <2>1, <2>2 DEF Budget
<1>8. ASSUME NEW i \in Ids, MarkWrite(i) PROVE Budget(j)'
  <2>1. InHand(j)' = InHand(j) /\ UNCHANGED <<sends, approvals>>
    BY <1>8 DEF MarkWrite, InHand
  <2>2. Promised(j)' = Promised(j)
    BY <1>8, FinishStepPromise, EmptyDrafts DEF MarkWrite
  <2> QED
    BY <1>0, <2>1, <2>2 DEF Budget
<1>9. ASSUME NEW i \in Ids, Answer(i) PROVE Budget(j)'
  <2>1. UNCHANGED <<sends, approvals, cards>>
    BY <1>9 DEF Answer
  <2>2. CASE j # i
    <3>1. Promised(j)' = Promised(j)
      BY <1>9, <2>2 DEF Answer, Promised, TypeOK
    <3>2. InHand(j)' = InHand(j)
      BY <1>9, <2>2, StartSendInHand DEF Answer, InHand
    <3> QED
      BY <1>0, <2>1, <3>1, <3>2 DEF Budget
  <2>3. CASE j = i
    <3>1. Promised(j)' = 0
      BY <1>9, <2>3 DEF Answer, Promised, TypeOK
    <3>2. CASE UNCHANGED sending
      <4>1. InHand(j)' = InHand(j)
        BY <3>2 DEF InHand
      <4> QED
        BY <1>0, <2>1, <3>1, <4>1 DEF Budget
    <3>3. CASE ~UNCHANGED sending
      <4>1. Promised(j) = 1
        BY <1>9, <2>3, <3>3 DEF Answer, Approved, Promised
      <4> QED
        BY <1>0, <2>1, <3>1, <4>1 DEF Budget
    <3> QED
      BY <3>2, <3>3
  <2> QED
    BY <2>2, <2>3
<1>10. ASSUME NEW i \in Ids, SendRead(i) PROVE Budget(j)'
  <2>1. UNCHANGED <<sends, approvals>> /\ Promised(j)' = Promised(j)
    BY <1>10 DEF SendRead, Promised
  <2>2. InHand(j)' <= InHand(j)
    BY <1>10 DEF SendRead, InHand, TypeOK
  <2> QED
    BY <1>0, <2>1, <2>2 DEF Budget
<1>11. ASSUME NEW i \in Ids, NEW taken \in BOOLEAN, NEW ok \in BOOLEAN,
              Smtp(i, taken, ok)
       PROVE  Budget(j)'
  <2>1. approvals' = approvals /\ Promised(j)' = Promised(j)
    BY <1>11 DEF Smtp, Promised
  <2>2. CASE j # i
    <3>1. sends'[j] = sends[j]
      BY <1>11, <2>2 DEF Smtp, TypeOK
    <3>2. InHand(j)' = InHand(j)
      BY <1>11, <2>2 DEF Smtp, InHand, TypeOK
    <3> QED
      BY <1>0, <2>1, <3>1, <3>2 DEF Budget
  <2>3. CASE j = i
    <3>1. sends'[j] <= sends[j] + 1 /\ sends'[j] \in Nat
      BY <1>11, <2>3 DEF Smtp, TypeOK
    <3>2. InHand(j) = 1
      BY <1>11, <2>3 DEF Smtp, InHand
    <3>3. InHand(j)' = 0
      BY <1>11, <2>3 DEF Smtp, InHand, TypeOK
    <3> QED
      BY <1>0, <2>1, <3>1, <3>2, <3>3 DEF Budget
  <2> QED
    BY <2>2, <2>3
<1>12. ASSUME NEW i \in Ids, SendWrite(i) PROVE Budget(j)'
  <2>1. UNCHANGED <<sends, approvals>> /\ Promised(j)' = Promised(j)
    BY <1>12 DEF SendWrite, Promised
  <2>2. InHand(j)' <= InHand(j)
    BY <1>12 DEF SendWrite, InHand, TypeOK
  <2> QED
    BY <1>0, <2>1, <2>2 DEF Budget
<1>13. CASE Crash
  <2>1. UNCHANGED <<sends, approvals>>
    BY <1>13 DEF Crash
  <2>2. finishing'[j] = Idle /\ sending'[j] = Idle
    BY <1>13 DEF Crash, None
  <2>3. InHand(j)' = 0 /\ Promised(j)' = 0
    BY <2>2 DEF InHand, Promised
  <2> QED
    BY <1>0, <2>1, <2>3 DEF Budget
<1>14. CASE Start
  BY <1>14 DEF Start, Budget, InHand, Promised
<1>15. CASE RestoreDrafts
  <2>1. UNCHANGED <<sends, approvals>> /\ InHand(j)' = InHand(j)
    BY <1>15 DEF RestoreDrafts, InHand
  <2>2. Promised(j)' <= Promised(j)
    BY <1>15 DEF RestoreDrafts, Promised, TypeOK
  <2> QED
    BY <1>0, <2>1, <2>2 DEF Budget
<1>16. CASE UNCHANGED vars
  BY <1>16 DEF vars, process, Budget, InHand, Promised
<1> QED
  BY <1>1, <1>2, <1>3, <1>4, <1>5, <1>6, <1>7, <1>8, <1>9, <1>10, <1>11,
     <1>12, <1>13, <1>14, <1>15, <1>16 DEF Next

(* However presses, timers, half-failed SMTP calls, lost writes and        *)
(* restarts interleave, no mail reaches SMTP more often than the user      *)
(* approved its card (docs/contract.md 2.13).                              *)
THEOREM OneMailPerApproval == Spec => []SendsBoundedByApprovals
<1> DEFINE BudgetHolds == \A i \in Ids : Budget(i)
<1>1. Init => TypeOK /\ BudgetHolds
  <2> SUFFICES ASSUME Init PROVE TypeOK /\ BudgetHolds
    OBVIOUS
  <2>1. TypeOK
    BY EmptyDrafts DEF Init, TypeOK, None
  <2>2. BudgetHolds
    BY DEF Init, None, Budget, InHand, Promised
  <2> QED
    BY <2>1, <2>2
<1>2. TypeOK /\ BudgetHolds /\ [Next]_vars => (TypeOK /\ BudgetHolds)'
  BY TypeStep, BudgetStep
<1>3. TypeOK /\ BudgetHolds => SendsBoundedByApprovals
  <2> SUFFICES ASSUME TypeOK, BudgetHolds, NEW i \in Ids
               PROVE  sends[i] <= approvals[i]
    BY DEF SendsBoundedByApprovals
  <2>1. /\ sends[i] \in Nat /\ approvals[i] \in Nat
        /\ InHand(i) \in {0, 1} /\ Promised(i) \in {0, 1}
    BY DEF TypeOK, InHand, Promised
  <2> QED
    BY <2>1 DEF Budget
<1> QED
  BY <1>1, <1>2, <1>3, PTL DEF Spec

-----------------------------------------------------------------------------
(* Once SMTP has confirmed a mail, the process that sent it never hands it *)
(* over again (inflightSend keeps the settled promise).                    *)
LEMMA ConfirmedStep ==
  ASSUME TypeOK, [Next]_vars, NEW j \in Ids,
         sending[j] # Idle, sending[j].stage = "sent", up'
  PROVE  sending'[j] # Idle /\ sending'[j].stage = "sent" /\ sends'[j] = sends[j]
<1> USE DEF history
<1>1. ASSUME NEW i \in Ids, StartSend(i) PROVE sending'[j] = sending[j]
  BY <1>1 DEF StartSend, TypeOK
<1>2. ASSUME NEW i \in Ids, ApproveAgain(i) PROVE sends' = sends /\ sending'[j] = sending[j]
  BY <1>1, <1>2 DEF ApproveAgain
<1>3. ASSUME NEW i \in Ids, Answer(i) PROVE sends' = sends /\ sending'[j] = sending[j]
  BY <1>1, <1>3 DEF Answer
<1>4. ASSUME NEW i \in Ids, SendRead(i) PROVE sends' = sends /\ sending'[j] = sending[j]
  BY <1>4 DEF SendRead, TypeOK
<1>5. ASSUME NEW i \in Ids, SendWrite(i) PROVE sends' = sends /\ sending'[j] = sending[j]
  BY <1>5 DEF SendWrite, TypeOK
<1>6. ASSUME NEW i \in Ids, NEW taken \in BOOLEAN, NEW ok \in BOOLEAN,
             Smtp(i, taken, ok)
      PROVE  sends'[j] = sends[j] /\ sending'[j] = sending[j]
  BY <1>6 DEF Smtp, TypeOK
<1>7. ASSUME NEW i \in Ids,
             \/ Request(i) \/ RequestEmail(i) \/ SaveDraft(i) \/ Expire(i)
             \/ MarkRead(i) \/ MarkWrite(i)
             \/ \E decision \in {"approved", "denied"} : DecidePending(i, decision)
      PROVE  UNCHANGED <<sends, sending>>
  BY <1>7 DEF Request, RequestEmail, SaveDraft, Expire, MarkRead, MarkWrite,
              DecidePending
<1>8. ~Crash
  BY Zenon DEF Crash
<1>9. CASE Start \/ RestoreDrafts
  BY <1>9 DEF Start, RestoreDrafts
<1>10. CASE UNCHANGED vars
  BY <1>10 DEF vars, process
<1> QED
  BY <1>2, <1>3, <1>4, <1>5, <1>6, <1>7, <1>8, <1>9, <1>10 DEF Next

(* A mail that SMTP has confirmed is not handed over again by this         *)
(* process: its promise stays in inflightSend (approval.ts,                *)
(* sendStoredDraft).                                                       *)
THEOREM ConfirmedMailsRest == Spec => ConfirmedIsFinal
<1>1. TypeOK /\ [Next]_vars =>
        [\A i \in Ids :
           sending[i] # Idle /\ sending[i].stage = "sent" /\ up'
             => sending'[i] # Idle /\ sending'[i].stage = "sent" /\ sends'[i] = sends[i]]_vars
  BY ConfirmedStep
<1> QED
  BY <1>1, TypeCorrect, PTL DEF Spec, ConfirmedIsFinal
-----------------------------------------------------------------------------
(* No call is stranded.  A call is in one place at a time: its draft is    *)
(* being stored, it waits on a pending card, finish holds it, or it has    *)
(* its answer; and only while a card is pending can finish be begun.       *)
Storing(i) == saving[i] # Idle
Held(i) == finishing[i] # Idle /\ finishing[i].waiter

InOnePlace(i) ==
  /\ Storing(i) => i \notin waiters /\ ~Held(i) /\ i \notin answered
  /\ i \in waiters => cards[i] = "pending" /\ ~Held(i) /\ i \notin answered
  /\ Held(i) => cards[i] \in Decided /\ i \notin answered
  /\ Storing(i) \/ i \in waiters \/ Held(i) \/ i \in answered => i \in asked
  /\ crashes = 0 /\ i \in asked => Storing(i) \/ i \in waiters \/ Held(i) \/ i \in answered

LEMMA BeginFinishPlace ==
  ASSUME TypeOK, NEW i \in Ids, NEW status \in Decided, NEW send \in BOOLEAN,
         InOnePlace(i), cards[i] = "pending", BeginFinish(i, status, send),
         UNCHANGED <<asked, crashes, saving, answered>>
  PROVE  InOnePlace(i)'
<1>1. cards'[i] = status /\ i \notin waiters'
  BY DEF BeginFinish, TypeOK
<1>2. Held(i)' <=> i \in waiters
  <2> DEFINE f == [stage |-> IF i \in Mails /\ status # "approved" THEN "read" ELSE "audit",
                   drafts |-> <<>>, waiter |-> i \in waiters, send |-> send]
  <2>1. finishing'[i] = f /\ f.waiter = (i \in waiters)
    BY DEF BeginFinish, TypeOK
  <2>2. f \in Finishing
    BY EmptyDrafts DEF Finishing
  <2> QED
    BY <2>1, <2>2, ApprovalAssumption DEF Held
<1>3. ~Held(i)
  BY DEF InOnePlace, Decided
<1> QED
  BY <1>1, <1>2, <1>3 DEF InOnePlace, Storing

(* Marking the draft leaves the call with finish.                          *)
LEMMA FinishGoesOn ==
  ASSUME TypeOK, NEW i \in Ids, MarkRead(i) \/ MarkWrite(i)
  PROVE  /\ UNCHANGED <<asked, crashes, cards, waiters, saving, approvals, performed, answered>>
         /\ \A j \in Ids : Held(j)' <=> Held(j)
<1> USE DEF history
<1>1. CASE MarkRead(i)
  <2>1. PICK drafts \in Reads, stage \in {"read", "write", "audit"} :
          finishing' = [finishing EXCEPT ![i] = [@ EXCEPT !.stage = stage, !.drafts = drafts]]
    BY <1>1 DEF MarkRead
  <2>2. drafts \in Drafts
    BY ReadsType DEF TypeOK
  <2>3. finishing[i] # Idle
    BY <1>1 DEF MarkRead
  <2>4. UNCHANGED <<asked, crashes, cards, waiters, saving, approvals, performed, answered>>
    BY <1>1 DEF MarkRead
  <2> QED
    BY <2>1, <2>2, <2>3, <2>4, FinishKeepsWaiter DEF Held
<1>2. CASE MarkWrite(i)
  <2>1. finishing[i] # Idle
    BY <1>2 DEF MarkWrite
  <2>2. finishing' = [finishing EXCEPT ![i] = [@ EXCEPT !.stage = "audit", !.drafts = <<>>]]
    BY <1>2 DEF MarkWrite
  <2>3. UNCHANGED <<asked, crashes, cards, waiters, saving, approvals, performed, answered>>
    BY <1>2 DEF MarkWrite
  <2> QED
    BY <2>1, <2>2, <2>3, FinishKeepsWaiter, EmptyDrafts DEF Held
<1> QED
  BY <1>1, <1>2

LEMMA AnswerPlace ==
  ASSUME TypeOK, NEW i \in Ids, Answer(i), NEW j \in Ids, InOnePlace(j)
  PROVE  InOnePlace(j)'
<1>1. finishing[i] # Idle /\ finishing' = [finishing EXCEPT ![i] = Idle]
  BY DEF Answer
<1>2. answered' = IF finishing[i].waiter THEN answered \cup {i} ELSE answered
  BY DEF Answer
<1>3. UNCHANGED <<asked, crashes, cards, waiters, saving>>
  BY DEF Answer
<1>4. finishing[i].waiter \in BOOLEAN
  BY <1>1 DEF TypeOK, Finishing
<1> QED
  BY <1>1, <1>2, <1>3, <1>4 DEF InOnePlace, Storing, Held, TypeOK

LEMMA PlaceStep ==
  ASSUME TypeOK, [Next]_vars, NEW j \in Ids, InOnePlace(j)
  PROVE  InOnePlace(j)'
<1> USE DEF history
<1>1. ASSUME NEW i \in Ids, Request(i) PROVE InOnePlace(j)'
  BY <1>1 DEF Request, InOnePlace, Storing, Held, TypeOK, Decided
<1>2. ASSUME NEW i \in Ids, RequestEmail(i) PROVE InOnePlace(j)'
  <2>1. PICK drafts \in Reads : saving' = [saving EXCEPT ![i] = [drafts |-> drafts]]
    BY <1>2 DEF RequestEmail
  <2>2. saving'[i] # Idle /\ \A k \in Ids \ {i} : saving'[k] = saving[k]
    <3>1. [drafts |-> drafts] \in Saving
      BY ReadsType DEF TypeOK, Saving
    <3> QED
      BY <2>1, <3>1, ApprovalAssumption DEF TypeOK
  <2>3. /\ i \notin asked /\ asked' = asked \cup {i}
        /\ UNCHANGED <<cards, waiters, finishing, answered, crashes>>
    BY <1>2 DEF RequestEmail
  <2> QED
    BY <2>2, <2>3 DEF InOnePlace, Storing, Held
<1>3. ASSUME NEW i \in Ids, SaveDraft(i) PROVE InOnePlace(j)'
  BY <1>3 DEF SaveDraft, InOnePlace, Storing, Held, TypeOK, Decided
<1>4. ASSUME NEW i \in Ids, NEW status \in Decided, NEW send \in BOOLEAN,
             cards[i] = "pending", BeginFinish(i, status, send),
             UNCHANGED <<asked, crashes, saving, answered>>
      PROVE  InOnePlace(j)'
  <2>1. CASE j = i
    BY <1>4, <2>1, BeginFinishPlace
  <2>2. CASE j # i
    BY <1>4, <2>2 DEF BeginFinish, InOnePlace, Storing, Held, TypeOK
  <2> QED
    BY <2>1, <2>2
<1>5. ASSUME NEW i \in Ids, NEW decision \in {"approved", "denied"},
             DecidePending(i, decision)
      PROVE  InOnePlace(j)'
  BY <1>4, <1>5 DEF DecidePending, Decided
<1>6. ASSUME NEW i \in Ids, Expire(i) PROVE InOnePlace(j)'
  BY <1>4, <1>6 DEF Expire, Decided
<1>7. ASSUME NEW i \in Ids, MarkRead(i) \/ MarkWrite(i) PROVE InOnePlace(j)'
  BY <1>7, FinishGoesOn DEF InOnePlace, Storing
<1>8. ASSUME NEW i \in Ids, Answer(i) PROVE InOnePlace(j)'
  BY <1>8, AnswerPlace
<1>9. ASSUME NEW i \in Ids,
              \/ ApproveAgain(i) \/ SendRead(i) \/ SendWrite(i)
              \/ \E taken, ok \in BOOLEAN : Smtp(i, taken, ok)
       PROVE  InOnePlace(j)'
  BY <1>9 DEF ApproveAgain, SendRead, SendWrite, Smtp, InOnePlace, Storing, Held
<1>10. CASE Crash
  <2>1. crashes' # 0
    BY <1>10 DEF Crash, TypeOK
  <2>2. saving'[j] = Idle /\ finishing'[j] = Idle /\ waiters' = {}
    BY <1>10 DEF Crash, None
  <2>3. UNCHANGED <<asked, answered>>
    BY <1>10 DEF Crash
  <2> QED
    BY <2>1, <2>2, <2>3 DEF InOnePlace, Storing, Held
<1>11. CASE Start
  BY <1>11 DEF Start, InOnePlace, Storing, Held
<1>12. CASE RestoreDrafts
  BY <1>12, ApprovalAssumption DEF RestoreDrafts, InOnePlace, Storing, Held, TypeOK, CardStatus
<1>13. CASE UNCHANGED vars
  BY <1>13 DEF vars, process, InOnePlace, Storing, Held
<1> QED
  BY <1>1, <1>2, <1>3, <1>5, <1>6, <1>7, <1>8, <1>9, <1>10, <1>11, <1>12, <1>13
  DEF Next

(* Every tool call that asked is on its way to exactly one answer, unless  *)
(* the sidecar has died since; none is answered twice (approval.ts:125-    *)
(* 275).                                                                   *)
THEOREM CallsAreNotStranded == Spec => []NoCallIsStranded
<1> DEFINE Places == \A i \in Ids : InOnePlace(i)
<1>1. Init => Places
  BY DEF Init, None, InOnePlace, Storing, Held
<1>2. TypeOK /\ Places /\ [Next]_vars => Places'
  BY PlaceStep
<1>3. TypeOK /\ Places => NoCallIsStranded
  BY DEF NoCallIsStranded, Underway, InOnePlace, Storing, Held, TypeOK
<1> QED
  BY <1>1, <1>2, <1>3, TypeCorrect, PTL DEF Spec
-----------------------------------------------------------------------------
(* Actions and their decisions.  The id of an action gets one card in its  *)
(* life: what is restored after a crash are mails.                         *)
OneCard(i) ==
  /\ i \notin asked => cards[i] = NoCard /\ approvals[i] = 0
  /\ cards[i] = "pending" => approvals[i] = 0
  /\ cards[i] = "approved" => approvals[i] = 1

ActedOnApproval(i) ==
  approvals[i] = 1 /\ i \in answered /\ cards[i] \in {"approved", NoCard}

Acts(i) ==
  /\ i \in performed => i \notin Mails
  /\ i \notin Mails => OneCard(i)
  /\ i \in performed => ActedOnApproval(i) /\ i \in asked

LEMMA DecidedActs ==
  ASSUME TypeOK, NEW i \in Ids, NEW status \in Decided, NEW send \in BOOLEAN,
         cards[i] = "pending", BeginFinish(i, status, send),
         approvals' = IF status = "approved" THEN [approvals EXCEPT ![i] = @ + 1] ELSE approvals,
         UNCHANGED <<asked, performed, answered>>,
         NEW j \in Ids, Acts(j)
  PROVE  Acts(j)'
<1>1. cards' = [cards EXCEPT ![i] = status]
  BY DEF BeginFinish
<1>2. CASE j = i
  <2>1. j \notin performed /\ (j \notin Mails => j \in asked /\ approvals[j] = 0)
    BY <1>2, ApprovalAssumption DEF Acts, OneCard, ActedOnApproval, CardStatus
  <2>2. cards'[j] = status /\ (status = "approved" => approvals'[j] = approvals[j] + 1)
    BY <1>1, <1>2 DEF TypeOK
  <2> QED
    BY <2>1, <2>2 DEF Acts, OneCard, Decided
<1>3. CASE j # i
  <2>1. cards'[j] = cards[j] /\ approvals'[j] = approvals[j]
    BY <1>1, <1>3 DEF TypeOK
  <2> QED
    BY <2>1 DEF Acts, OneCard, ActedOnApproval
<1> QED
  BY <1>2, <1>3

LEMMA ActsStep ==
  ASSUME TypeOK, [Next]_vars, NEW j \in Ids, Acts(j), InOnePlace(j)
  PROVE  Acts(j)'
<1> USE DEF history
<1>1. ASSUME NEW i \in Ids, Request(i) PROVE Acts(j)'
  BY <1>1, ApprovalAssumption DEF Request, Acts, OneCard, ActedOnApproval, TypeOK, CardStatus
<1>2. ASSUME NEW i \in Ids, RequestEmail(i) PROVE Acts(j)'
  <2>1. /\ i \in Mails /\ asked' = asked \cup {i}
        /\ UNCHANGED <<cards, approvals, performed, answered>>
    BY <1>2 DEF RequestEmail
  <2> QED
    BY <2>1 DEF Acts, OneCard, ActedOnApproval
<1>3. ASSUME NEW i \in Ids, SaveDraft(i) PROVE Acts(j)'
  <2>1. i \in Mails
    BY <1>3 DEF SaveDraft, TypeOK
  <2>2. /\ cards' = [cards EXCEPT ![i] = "pending"]
        /\ UNCHANGED <<asked, approvals, performed, answered>>
    BY <1>3 DEF SaveDraft
  <2> QED
    BY <2>1, <2>2 DEF Acts, OneCard, ActedOnApproval, TypeOK
<1>4. ASSUME NEW i \in Ids, NEW decision \in {"approved", "denied"},
             DecidePending(i, decision)
      PROVE  Acts(j)'
  BY <1>4, DecidedActs DEF DecidePending, Decided
<1>5. ASSUME NEW i \in Ids, Expire(i) PROVE Acts(j)'
  BY <1>5, DecidedActs DEF Expire, Decided
<1>6. ASSUME NEW i \in Ids, MarkRead(i) \/ MarkWrite(i) PROVE Acts(j)'
  BY <1>6, FinishGoesOn DEF Acts, OneCard, ActedOnApproval
<1>7. ASSUME NEW i \in Ids, Answer(i) PROVE Acts(j)'
  <2>1. UNCHANGED <<asked, cards, approvals>>
    BY <1>7 DEF Answer
  <2>2. answered \subseteq answered'
    BY <1>7 DEF Answer
  <2>3. j \in performed' =>
          \/ j \in performed
          \/ j \notin Mails /\ cards[j] = "approved" /\ j \in answered' /\ Held(j)
    BY <1>7 DEF Answer, Approved, Held
  <2>4. Held(j) => j \in asked
    BY DEF InOnePlace
  <2> QED
    BY <2>1, <2>2, <2>3, <2>4 DEF Acts, OneCard, ActedOnApproval
<1>8. ASSUME NEW i \in Ids, ApproveAgain(i) PROVE Acts(j)'
  <2>1. /\ i \in Mails /\ approvals' = [approvals EXCEPT ![i] = @ + 1]
        /\ UNCHANGED <<asked, cards, performed, answered>>
    BY <1>8 DEF ApproveAgain
  <2> QED
    BY <2>1 DEF Acts, OneCard, ActedOnApproval, TypeOK
<1>9. ASSUME NEW i \in Ids,
             \/ SendRead(i) \/ SendWrite(i)
             \/ \E taken, ok \in BOOLEAN : Smtp(i, taken, ok)
      PROVE  Acts(j)'
  <2>1. UNCHANGED <<asked, cards, approvals, performed, answered>>
    BY <1>9 DEF SendRead, SendWrite, Smtp
  <2> QED
    BY <2>1 DEF Acts, OneCard, ActedOnApproval
<1>10. CASE Crash
  <2>1. cards'[j] = NoCard /\ UNCHANGED <<asked, approvals, performed, answered>>
    BY <1>10 DEF Crash
  <2> QED
    BY <2>1, ApprovalAssumption DEF Acts, OneCard, ActedOnApproval, CardStatus, Decided
<1>11. CASE Start
  BY <1>11 DEF Start, Acts, OneCard, ActedOnApproval
<1>12. CASE RestoreDrafts
  <2>1. UNCHANGED <<asked, approvals, performed, answered>>
    BY <1>12 DEF RestoreDrafts
  <2>2. PICK drafts \in Reads :
          cards'[j] = IF cards[j] = NoCard /\ Has(drafts, j, {"pending"}) THEN "pending" ELSE cards[j]
    BY <1>12 DEF RestoreDrafts
  <2>3. drafts \in Drafts
    BY ReadsType DEF TypeOK
  <2>4. Has(drafts, j, {"pending"}) => j \in Mails
    <3> SUFFICES ASSUME NEW n \in DOMAIN drafts, drafts[n].id = j PROVE j \in Mails
      BY DEF Has
    <3>1. drafts[n] \in Draft
      BY <2>3 DEF Drafts
    <3> QED
      BY <3>1 DEF Draft
  <2> QED
    BY <2>1, <2>2, <2>4 DEF Acts, OneCard, ActedOnApproval
<1>13. CASE UNCHANGED vars
  BY <1>13 DEF vars, process, Acts, OneCard, ActedOnApproval
<1> QED
  BY <1>1, <1>2, <1>3, <1>4, <1>5, <1>6, <1>7, <1>8, <1>9, <1>10, <1>11, <1>12, <1>13
  DEF Next

(* A guarded action was carried out for a card the user approved, once,    *)
(* and the decision was never changed afterwards (approval.ts:189-275).    *)
THEOREM ActionsAreApproved == Spec => []ActsOnApprovalOnly
<1> DEFINE IInv == \A i \in Ids : InOnePlace(i) /\ Acts(i)
<1>1. Init => IInv
  BY ApprovalAssumption
  DEF Init, None, InOnePlace, Storing, Held, Acts, OneCard, CardStatus, Decided
<1>2. TypeOK /\ IInv /\ [Next]_vars => IInv'
  BY PlaceStep, ActsStep
<1>3. TypeOK /\ IInv => ActsOnApprovalOnly
  BY DEF ActsOnApprovalOnly, Acts, ActedOnApproval, TypeOK
<1> QED
  BY <1>1, <1>2, <1>3, TypeCorrect, PTL DEF Spec
=============================================================================
