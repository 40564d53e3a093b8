-------------------------------- MODULE Mail --------------------------------
(***************************************************************************)
(* Fetching mail in the sidecar (mail.ts): one account, a remote mailbox   *)
(* and the local copies.  A fetch reads accounts.json, saves the messages  *)
(* after last_uid one by one, and rewrites accounts.json from the copy it  *)
(* read at the start.  Several fetches may be under way (the user's and    *)
(* the agent's mail tool); nothing keeps them apart, nor from the pages    *)
(* where the user edits the account, which rewrite the file in that way.   *)
(*                                                                         *)
(* One mailbox is followed.  The account may be pointed at another one, by *)
(* its host, user or folder, with the same last_uid: of that one only the  *)
(* numbers count.  index.json, which lists the copies, is left out.        *)
(***************************************************************************)
EXTENDS Naturals, FiniteSets

CONSTANTS
  Writers,  \* the fetches and pages that may be under way at once
  MaxUid

VARIABLES
  mail,    \* the mailbox and the files
  writers  \* the fetches and pages under way, each with its copy of the account

mailVars == <<mail, writers>>
Uids == 1..MaxUid

\* A copy of the account: whether it points at the mailbox, and last_uid.
Accounts == [here : BOOLEAN, last : 0..MaxUid]
NewAccount == [here |-> TRUE, last |-> 0]

MailTypeOK ==
  /\ mail \in [box : SUBSET Uids, next : 1..(MaxUid + 1), file : Accounts,
               handled : SUBSET Uids, \* of which a copy was saved, or which came without a source
               kept : 0..MaxUid]      \* ghost: the highest last_uid brought along from another
                                      \* mailbox, or from a former numbering
  /\ writers \in [Writers -> [at : {"idle", "reads", "ends", "edits"}, account : Accounts, pos : 0..MaxUid]]

Idle == [at |-> "idle", account |-> NewAccount, pos |-> 0]

MailInit ==
  /\ mail = [box |-> {}, next |-> 1, handled |-> {}, file |-> NewAccount, kept |-> 0]
  /\ writers = [w \in Writers |-> Idle]

\* fetchMail: readAccounts; then fetchAccount connects and locks the mailbox.
BeginFetch(w) ==
  /\ writers[w].at = "idle"
  /\ writers' = [writers EXCEPT ![w] = [at |-> "reads", account |-> mail.file, pos |-> mail.file.last]]
  /\ UNCHANGED mail

\* The server answers UID FETCH in the order of the uids.
Here(w) == writers[w].account.here
NextUid(w, u) ==
  /\ writers[w].at = "reads" /\ u > writers[w].pos
  /\ Here(w) => u \in mail.box /\ \A v \in mail.box : v > writers[w].pos => u <= v

\* Mutant: last_uid moves on before the files are written, which may fail.
SaveMessageCounted(w, u) ==
  /\ NextUid(w, u)
  /\ \E ok \in BOOLEAN :
       /\ mail' = [mail EXCEPT !.handled = IF ok /\ Here(w) THEN @ \cup {u} ELSE @]
       /\ writers' = [writers EXCEPT ![w].pos = u, ![w].account.last = u, ![w].at = IF ok THEN @ ELSE "ends"]

\* saveMessage: attachments, then the file, then last_uid.
SaveMessage(w, u) ==
  /\ NextUid(w, u)
  /\ mail' = [mail EXCEPT !.handled = IF Here(w) THEN @ \cup {u} ELSE @]
  /\ writers' = [writers EXCEPT ![w].pos = u, ![w].account.last = u]

\* A message that comes without its source is passed over.
PassMessage(w, u) ==
  /\ NextUid(w, u)
  /\ mail' = [mail EXCEPT !.handled = IF Here(w) THEN @ \cup {u} ELSE @]
  /\ writers' = [writers EXCEPT ![w].pos = u]

\* Nothing is left to read, or connecting, reading or saving fails.
EndFetch(w) ==
  /\ writers[w].at = "reads"
  /\ writers' = [writers EXCEPT ![w].at = "ends"]
  /\ UNCHANGED mail

\* accounts.json is rewritten as this fetch has it, also after a failure; an
\* edit made meanwhile is undone.
PersistAccounts(w) ==
  /\ writers[w].at = "ends"
  /\ mail' = [mail EXCEPT !.file = writers[w].account]
  /\ writers' = [writers EXCEPT ![w] = Idle]

\* A page opens and reads accounts.json, and closes.
OpenSettings(w) ==
  /\ writers[w].at = "idle"
  /\ writers' = [writers EXCEPT ![w] = [at |-> "edits", account |-> mail.file, pos |-> 0]]
  /\ UNCHANGED mail
CloseSettings(w) ==
  /\ writers[w].at = "edits"
  /\ writers' = [writers EXCEPT ![w] = Idle]
  /\ UNCHANGED mail

\* It saves the account as the user edited it, with the last_uid the page had
\* read, wherever it points now, or with none if the user added it anew.
EditAccount(w, here, last) ==
  /\ writers[w].at = "edits" /\ last \in {0, writers[w].account.last}
  /\ LET edited == [here |-> here, last |-> last]
         carried == here /\ ~Here(w) /\ last > mail.kept IN
     /\ mail' = [mail EXCEPT !.file = edited, !.kept = IF carried THEN last ELSE @]
     /\ writers' = [writers EXCEPT ![w].account = edited]

\* The sidecar dies with its fetches.
FetchesDie ==
  /\ writers' = [w \in Writers |-> IF writers[w].at = "edits" THEN writers[w] ELSE Idle]
  /\ UNCHANGED mail

\* The remote mailbox: mail arrives, or leaves by deleteMail, applyMailAction
\* (one uid per command) or another client; and the server may number it anew
\* (another UIDVALIDITY, which the code does not look at).
MailArrives ==
  /\ mail.next <= MaxUid
  /\ mail' = [mail EXCEPT !.box = @ \cup {mail.next}, !.next = @ + 1]
  /\ UNCHANGED writers
RemoveMail(u) == mail' = [mail EXCEPT !.box = @ \ {u}] /\ UNCHANGED writers
Renumber ==
  /\ mail' = [mail EXCEPT !.box = {}, !.next = 1, !.handled = {},
                          !.kept = IF mail.next > @ THEN mail.next - 1 ELSE @]
  /\ UNCHANGED writers

MailNext ==
  \/ \E w \in Writers :
       \/ BeginFetch(w) \/ EndFetch(w) \/ PersistAccounts(w) \/ OpenSettings(w) \/ CloseSettings(w)
       \/ \E u \in Uids : SaveMessage(w, u) \/ PassMessage(w, u)
       \/ \E here \in BOOLEAN, last \in 0..MaxUid : EditAccount(w, here, last)
  \/ FetchesDie \/ MailArrives \/ Renumber
  \/ \E u \in mail.box : RemoveMail(u)

MailSpec == MailInit /\ [][MailNext]_mailVars

-----------------------------------------------------------------------------
(* No message is skipped: every message still in the mailbox the account   *)
(* points at, up to the stored last_uid, was saved, or came without its    *)
(* source, whatever fetches overlap, fail or die and whatever stale copy   *)
(* of the account is written back - but for those up to a last_uid that    *)
(* came along when the account was pointed at this mailbox, or that is     *)
(* left from a former numbering (mail.ts:459-496, 560-600).  These are     *)
(* skipped indeed: nothing in the code sets last_uid back then.            *)
MailNotSkipped ==
  mail.file.here => \A u \in mail.box : u <= mail.file.last => u \in mail.handled \/ u <= mail.kept

\* Why it holds: up to the cursor of every copy of the account, and up to where
\* each fetch has got, all that is still in the mailbox is dealt with, or was
\* brought along; and what arrives later has a higher number than all of these,
\* or one that was brought along.
Behind(cursor) ==
  /\ cursor < mail.next \/ cursor <= mail.kept
  /\ \A u \in mail.box : u <= cursor => u \in mail.handled \/ u <= mail.kept
CursorsBehind ==
  /\ \A u \in mail.box : u < mail.next
  /\ mail.file.here => Behind(mail.file.last)
  /\ \A w \in Writers : writers[w].account.here =>
       Behind(writers[w].account.last) /\ (writers[w].at = "reads" => Behind(writers[w].pos))
=============================================================================
