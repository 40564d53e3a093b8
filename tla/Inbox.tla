------------------------------- MODULE Inbox -------------------------------
(***************************************************************************)
(* The inbox page (src/components/InboxView.tsx): the list of one mail     *)
(* account, read in chunks, and the deeds done to its mails at the server  *)
(* and then in the index of the folder.  Every callback holds on to the    *)
(* account and the index of the rendering it was made in, so a job carries *)
(* both; loads alone are numbered, and only the last one is shown.         *)
(***************************************************************************)
EXTENDS Naturals, FiniteSets

CONSTANTS
  Accounts,    \* the mail accounts of the folder
  NoAccount,
  MaxLoads,    \* a bound on how often a list is loaded
  MaxJobs,     \* a bound on the calls under way at once
  MaxDeeds     \* a bound on what the user does to mails

VARIABLES
  inbox,   \* the state of the page
  jobs,    \* its calls under way
  mails    \* the server's mails, and the index in the folder

inboxVars == <<inbox, jobs, mails>>

\* Mail 1 is in the first chunk and 2 in the next; 0 is the copy of a mail written here,
\* for which a number the server does not know is read out of the name of its file.
Uids == 0..2
MailIds == Accounts \X Uids
Received == Accounts \X {1, 2}
\* The index: how many of the patches made to it it holds.
NoPatch == 0
IndexStates == 0..MaxDeeds
NoMail == <<NoAccount, 0>>

JobKinds == {"load", "reload", "more", "boxes", "fetch", "mark", "act", "delete", "trash", "send", "copy"}
Job(kind, a, n, about, index) ==
  [kind |-> kind, account |-> a, request |-> n, about |-> about, index |-> index]
JobRecords ==
  [kind : JobKinds, account : Accounts, request : 0..MaxLoads, about : SUBSET MailIds, index : IndexStates]

InboxTypeOK ==
  /\ inbox \in [account : Accounts \cup {NoAccount}, request : 0..MaxLoads, asked : Accounts \cup {NoAccount},
                shown : SUBSET MailIds, fresh : BOOLEAN, chunks : 0..2, loading : BOOLEAN, more : BOOLEAN,
                open : MailIds \cup {NoMail}, ticked : SUBSET MailIds, doomed : SUBSET MailIds,
                index : IndexStates, boxes : Accounts \cup {NoAccount}, syncing : BOOLEAN, composing : BOOLEAN,
                deeds : 0..MaxDeeds]
  /\ jobs \subseteq JobRecords
  /\ mails \in [server : SUBSET Received, copies : SUBSET (Accounts \X {0}), index : IndexStates]

InboxInit ==
  /\ inbox = [account |-> NoAccount, request |-> 0, asked |-> NoAccount, shown |-> {}, fresh |-> FALSE, chunks |-> 0,
              loading |-> TRUE, more |-> FALSE, open |-> NoMail, ticked |-> {}, doomed |-> {},
              index |-> NoPatch, boxes |-> NoAccount, syncing |-> FALSE, composing |-> FALSE,
              deeds |-> 0]
  /\ jobs = {}
  /\ mails = [server |-> Received, copies |-> {}, index |-> NoPatch]

\* A copy has no number until it is read from its file.
Numbered(m) == m[2] # 0 \/ ~inbox.fresh

ManyJobs == Cardinality(jobs) >= MaxJobs   \* the bound on jobs

-----------------------------------------------------------------------------
(* The list.                                                                *)
\* loadMessages: from here on only this load is shown.
Loading(next, a) ==
  [next EXCEPT !.request = @ + 1, !.asked = a, !.loading = TRUE, !.more = FALSE, !.shown = {}, !.chunks = 0]

\* The account is chosen: the effects load its list and ask for its mailboxes.
Selected(next, a, others) ==
  /\ inbox.request < MaxLoads
  /\ inbox' = [Loading(next, a) EXCEPT !.account = a, !.ticked = {}]
  /\ jobs' = others \cup {Job("load", a, inbox.request + 1, {}, NoPatch), Job("boxes", a, 0, {}, NoPatch)}

Reachable(a) == a # inbox.account /\ inbox.doomed = {} /\ ~inbox.composing /\ ~ManyJobs
LoadAccounts == inbox.account = NoAccount /\ (\E a \in Accounts : Selected(inbox, a, jobs)) /\ UNCHANGED mails
SaveAccount(a) == inbox.request > 0 /\ Reachable(a) /\ Selected(inbox, a, jobs) /\ UNCHANGED mails
PickAccount(a) ==
  inbox.account # NoAccount /\ Reachable(a) /\ Selected(inbox, a, jobs) /\ UNCHANGED mails

\* The index is read when the page opens; if it cannot be, the page starts from none.
LoadIndex ==
  /\ inbox.request = 0
  /\ \E i \in {mails.index, NoPatch} : inbox' = [inbox EXCEPT !.index = i]
  /\ UNCHANGED <<jobs, mails>>

LoadEnds(j) ==
  /\ j \in jobs /\ j.kind \in {"load", "reload"}
  /\ jobs' = jobs \ {j} /\ UNCHANGED mails
  /\ LET rests == IF j.kind = "reload" THEN [inbox EXCEPT !.syncing = FALSE] ELSE inbox IN
     IF j.request # inbox.request THEN inbox' = rests
     ELSE \/ LET list == {<<j.account, 1>>} \cup (mails.copies \cap {<<j.account, 0>>}) IN
               inbox' = [rests EXCEPT !.loading = FALSE, !.shown = list, !.fresh = FALSE, !.chunks = 1,
                                      !.open = IF @ \in list THEN @ ELSE <<j.account, 1>>]
          \/ inbox' = [rests EXCEPT !.loading = FALSE, !.shown = {}, !.chunks = 0, !.open = NoMail]

LoadMore ==
  /\ inbox.account # NoAccount /\ ~inbox.more /\ inbox.chunks = 1 /\ ~ManyJobs
  /\ inbox' = [inbox EXCEPT !.more = TRUE]
  /\ jobs' = jobs \cup {Job("more", inbox.asked, inbox.request, {}, NoPatch)} /\ UNCHANGED mails

\* Mutant: the next chunk is shown without a look at the number of its load.
MoreShown(j) == [inbox EXCEPT !.shown = @ \cup {<<j.account, 2>>}, !.chunks = 2, !.more = FALSE]

MoreTaken(j) == IF j.request = inbox.request THEN MoreShown(j) ELSE inbox

LoadMoreEnds(j) ==
  /\ j \in jobs /\ j.kind = "more"
  /\ \/ inbox' = MoreTaken(j)
     \/ inbox' = [inbox EXCEPT !.more = IF j.request = inbox.request THEN FALSE ELSE @]
  /\ jobs' = jobs \ {j} /\ UNCHANGED mails

\* The mailboxes are shown whichever account they are of.
BoxesRead(j) ==
  /\ j \in jobs /\ j.kind = "boxes"
  /\ \E b \in {j.account, NoAccount} : inbox' = [inbox EXCEPT !.boxes = b]
  /\ jobs' = jobs \ {j} /\ UNCHANGED mails

\* fetchMail; at its end it loads the list of the account it began with.
FetchMail ==
  /\ inbox.account # NoAccount /\ ~inbox.syncing /\ ~ManyJobs /\ inbox.request < MaxLoads
  /\ inbox' = [inbox EXCEPT !.syncing = TRUE]
  /\ jobs' = jobs \cup {Job("fetch", inbox.account, 0, {}, NoPatch)} /\ UNCHANGED mails
FetchEnds(j) ==
  /\ j \in jobs /\ j.kind = "fetch" /\ UNCHANGED mails
  /\ \/ /\ inbox.request < MaxLoads
        /\ inbox' = Loading(inbox, j.account)
        /\ jobs' = (jobs \ {j}) \cup {Job("reload", j.account, inbox.request + 1, {}, NoPatch)}
     \/ inbox' = [inbox EXCEPT !.syncing = FALSE] /\ jobs' = jobs \ {j}

-----------------------------------------------------------------------------
(* Deeds.                                                                   *)
Deed(next) == inbox.deeds < MaxDeeds /\ inbox' = [next EXCEPT !.deeds = @ + 1]

\* persistMessageStates: the page takes the patched index, and writes it if it can.
IndexPersisted(next, server, index) ==
  /\ inbox' = [next EXCEPT !.index = index]
  /\ \E i \in {index, mails.index} : mails' = [mails EXCEPT !.server = server, !.index = i]

\* A click on a mail marks it as read, here and, unheeded, at the server.
OpenMail(m) ==
  /\ m \in inbox.shown /\ m # inbox.open /\ ~inbox.loading /\ UNCHANGED jobs
  /\ \/ inbox' = [inbox EXCEPT !.open = m] /\ UNCHANGED mails
     \/ inbox.deeds < MaxDeeds
        /\ IndexPersisted([inbox EXCEPT !.open = m, !.deeds = @ + 1], mails.server, inbox.index + 1)

TickMail(m) ==
  /\ m \in inbox.shown
  /\ inbox' = [inbox EXCEPT !.ticked = IF m \in @ THEN @ \ {m} ELSE @ \cup {m}] /\ UNCHANGED <<jobs, mails>>

\* runRemoteMailAction for mails listed here, at the account that is selected.
Act(kind, about) ==
  /\ about # {} /\ about \subseteq inbox.shown /\ (\A m \in about : Numbered(m)) /\ ~ManyJobs
  /\ Deed(inbox) /\ UNCHANGED mails
  /\ jobs' = jobs \cup {Job(kind, inbox.account, 0, about, inbox.index)}
PutAway == Act("act", IF inbox.open = NoMail THEN {} ELSE {inbox.open})
MarkSelectedRead == Act("mark", inbox.ticked)

RequestDelete ==
  /\ inbox.doomed = {} /\ ~inbox.composing /\ inbox.ticked \cap inbox.shown # {}
  /\ Deed([inbox EXCEPT !.doomed = inbox.ticked \cap inbox.shown]) /\ UNCHANGED <<jobs, mails>>
CancelDelete ==
  inbox.doomed # {} /\ inbox' = [inbox EXCEPT !.doomed = {}] /\ UNCHANGED <<jobs, mails>>
\* The question closes at once; with the tick, the mails are first deleted at the server.
ConfirmDelete ==
  /\ inbox.doomed # {} /\ ~ManyJobs /\ UNCHANGED mails
  /\ inbox' = [inbox EXCEPT !.doomed = {}]
  /\ \E k \in IF \A m \in inbox.doomed : Numbered(m) THEN {"delete", "trash"} ELSE {"trash"} :
       jobs' = jobs \cup {Job(k, inbox.account, 0, inbox.doomed, inbox.index)}

\* The server works on the numbers of the mails, in the account of the call.
AtServer(j) == {<<j.account, m[2]>> : m \in j.about}
\* mailDelete, one mail after another: an error ends it with the page unchanged.
DeleteOne(j) ==
  /\ j \in jobs /\ j.kind = "delete" /\ UNCHANGED inbox
  /\ \/ \E m \in AtServer(j) \cap mails.server : mails' = [mails EXCEPT !.server = @ \ {m}] /\ UNCHANGED jobs
     \/ /\ AtServer(j) \cap mails.server = {} /\ UNCHANGED mails
        /\ jobs' = (jobs \ {j}) \cup {[j EXCEPT !.kind = "trash"]}
     \/ jobs' = jobs \ {j} /\ UNCHANGED mails

\* The answer: what is kept is the index the call began with, patched.
ActEnds(j) ==
  /\ j \in jobs /\ jobs' = jobs \ {j}
  /\ \/ /\ j.kind = "act"
        /\ IndexPersisted([inbox EXCEPT !.open = NoMail, !.ticked = @ \ j.about],
                          mails.server \ AtServer(j), j.index + 1)
     \/ /\ j.kind = "mark"
        /\ IndexPersisted([inbox EXCEPT !.ticked = {}], mails.server, j.index + 1)
     \/ /\ j.kind = "trash"
        /\ IndexPersisted([inbox EXCEPT !.ticked = @ \ j.about, !.open = IF @ \in j.about THEN NoMail ELSE @],
                          mails.server, j.index + 1)
     \/ j.kind \in {"act", "mark"} /\ UNCHANGED <<inbox, mails>>

-----------------------------------------------------------------------------
(* A mail written here: sent, and then a copy is kept.                      *)
ComposeMail == ~inbox.composing /\ inbox.account # NoAccount /\ inbox.doomed = {}
               /\ inbox' = [inbox EXCEPT !.composing = TRUE] /\ UNCHANGED <<jobs, mails>>
CloseCompose == inbox.composing /\ inbox' = [inbox EXCEPT !.composing = FALSE] /\ UNCHANGED <<jobs, mails>>
SubmitMail ==
  /\ inbox.composing /\ ~ManyJobs /\ \A j \in jobs : j.kind \notin {"send", "copy"}
  /\ Deed(inbox) /\ UNCHANGED mails
  /\ \E k \in {"send", "copy"} : jobs' = jobs \cup {Job(k, inbox.account, 0, {}, inbox.index)}
SendEnds(j) ==
  /\ j \in jobs
  /\ \/ /\ j.kind = "send" /\ UNCHANGED <<inbox, mails>>
        /\ jobs' = (jobs \ {j}) \cup {[j EXCEPT !.kind = "copy"]}
     \/ /\ j.kind = "copy" /\ jobs' = jobs \ {j}
        /\ LET m == <<j.account, 0>> IN
           /\ inbox' = [inbox EXCEPT !.index = j.index + 1, !.shown = @ \cup {m}, !.fresh = TRUE,
                                  !.open = m, !.composing = FALSE]
           /\ mails' = [mails EXCEPT !.copies = @ \cup {m}, !.index = j.index + 1]
     \/ j.kind \in {"send", "copy"} /\ jobs' = jobs \ {j} /\ UNCHANGED <<inbox, mails>>

InboxNext ==
  \/ \E a \in Accounts : SaveAccount(a) \/ PickAccount(a)
  \/ LoadAccounts \/ LoadIndex \/ LoadMore \/ FetchMail \/ PutAway \/ MarkSelectedRead \/ RequestDelete \/ CancelDelete
  \/ ConfirmDelete \/ ComposeMail \/ CloseCompose \/ SubmitMail
  \/ \E m \in MailIds : OpenMail(m) \/ TickMail(m)
  \/ \E j \in jobs : LoadEnds(j) \/ LoadMoreEnds(j) \/ BoxesRead(j) \/ FetchEnds(j)
                       \/ DeleteOne(j) \/ ActEnds(j) \/ SendEnds(j)

InboxSpec == InboxInit /\ [][InboxNext]_inboxVars

-----------------------------------------------------------------------------
(* However loads, chunks and fetches of several accounts overlap, what is   *)
(* read into the list is of the account whose list was asked for last       *)
(* (loadMessages 745-788, loadMoreMessages 877-899).  That need not be the  *)
(* account selected: see ListIsOfAccount.                                   *)
ChunksBelong == \A m \in inbox.shown : m[2] # 0 => m[1] = inbox.asked

(* "The selector, the folders, the list and the mail show the current       *)
(* account only" (docs/V0.2 Testcase.md:36).                                *)
ListIsOfAccount == \A m \in inbox.shown : m[2] # 0 => m[1] = inbox.account
=============================================================================
