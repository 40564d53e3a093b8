------------------------------ MODULE Welcome -------------------------------
(***************************************************************************)
(* The onboarding account (vault/welcome.rs): one local user, its session, *)
(* the points granted once and spent on the set-up chat, and the           *)
(* connection mode.  Operations exclude each other by one mutex, which a   *)
(* chat keeps while the model works; the snapshot is saved by renaming a   *)
(* staged file, and a save can fail before or after the rename.            *)
(***************************************************************************)
EXTENDS Naturals, FiniteSets

CONSTANTS Chats,      \* operation ids of chats
          Points,     \* GRANT in units of COST
          MaxWrong    \* wrong passwords before logins are blocked


VARIABLES
  saved,    \* state.json
  account,  \* the snapshot in memory
  desk      \* session, login failures, and the operation that has the mutex

welcomeVars == <<saved, account, desk>>

AccountSnapshots == [user : BOOLEAN, granted : BOOLEAN, balance : 0..Points, linked : BOOLEAN,
             configured : BOOLEAN, mode : {"online", "local"},
             chats : [Chats -> {"none", "pending", "success", "failed"}]]

Desks ==
  [session : BOOLEAN, wrong : 0..MaxWrong, blocked : BOOLEAN, pinned : BOOLEAN,
   at : {"free", "activates", "asks", "settles"},
   chat : SUBSET Chats, answer : {"none", "success", "failed", "unknown"}, asked : [Chats -> 0..2]]

WelcomeTypeOK == saved \in AccountSnapshots /\ account \in AccountSnapshots /\ desk \in Desks

NoAccount == [user |-> FALSE, granted |-> FALSE, balance |-> 0, linked |-> FALSE,
              configured |-> FALSE, mode |-> "online", chats |-> [c \in Chats |-> "none"]]

WelcomeInit ==
  /\ saved = NoAccount /\ account = NoAccount
  /\ desk = [session |-> FALSE, wrong |-> 0, blocked |-> FALSE, pinned |-> FALSE,
             at |-> "free", chat |-> {}, answer |-> "none", asked |-> [c \in Chats |-> 0]]

\* save: written under another name, renamed, the directory synced; memory
\* takes the new snapshot when all of it worked.
Save(next) == saved' = next /\ account' = next
SaveFails(next) == saved' \in {saved, next} /\ UNCHANGED account
DeskFree == desk.at = "free"
Active == DeskFree /\ desk.session
Turn(at) == desk' = [desk EXCEPT !.at = at, !.chat = {}, !.answer = "none"]
Unchanged == UNCHANGED <<saved, account>>

-----------------------------------------------------------------------------
(* The account and its session.                                            *)

\* register, bitbay_register and bitbay_login without an account yet.
Register(linked) ==
  /\ DeskFree /\ ~account.user
  /\ LET next == [account EXCEPT !.user = TRUE, !.linked = linked] IN
     \/ Save(next) /\ Turn("activates")
     \/ SaveFails(next) /\ UNCHANGED desk

\* bitbay_account_with on the account of a user who is logged in.
LinkAccount ==
  /\ Active /\ account.user /\ ~account.linked
  /\ LET next == [account EXCEPT !.linked = TRUE] IN
     \/ Save(next) /\ Turn("activates")
     \/ SaveFails(next) /\ UNCHANGED desk

SignIn(right) ==
  /\ DeskFree /\ ~desk.blocked /\ account.user
  /\ Unchanged
  /\ \/ right /\ Turn("activates")
     \/ /\ ~right
        /\ LET wrong == IF desk.wrong < MaxWrong THEN desk.wrong + 1 ELSE MaxWrong IN
           desk' = [desk EXCEPT !.wrong = wrong, !.blocked = wrong = MaxWrong]

BlockEnds == desk.blocked /\ desk' = [desk EXCEPT !.blocked = FALSE] /\ Unchanged

SessionOpen == [desk EXCEPT !.at = "free", !.session = TRUE, !.wrong = 0, !.blocked = FALSE]

\* Mutant: the grant is given at every login.
ActivateAgain ==
  /\ desk.at = "activates"
  /\ Save([account EXCEPT !.granted = TRUE, !.balance = Points]) /\ desk' = SessionOpen

\* activate: the first time the points are granted, then a session is issued;
\* a save or an audit line that fails leaves no session.
Activate ==
  /\ desk.at = "activates"
  /\ LET next == IF account.granted THEN account
                 ELSE [account EXCEPT !.granted = TRUE, !.balance = Points] IN
     \/ Save(next) /\ desk' = SessionOpen
     \/ Save(next) /\ Turn("free")
     \/ ~account.granted /\ SaveFails(next) /\ Turn("free")

\* logout, or twelve hours, or half an hour without an operation.
SessionEnds == desk.session /\ desk' = [desk EXCEPT !.session = FALSE] /\ Unchanged

SetMode(mode) ==
  /\ Active /\ (desk.pinned => mode = account.mode)
  /\ LET next == [account EXCEPT !.mode = mode] IN Save(next) \/ SaveFails(next)
  /\ UNCHANGED desk

\* authorize_provider for a session that is kept: the mode is fixed from now on.
AuthorizeProvider ==
  Active /\ desk' = [desk EXCEPT !.pinned = TRUE] /\ Unchanged

CompleteWelcome ==
  /\ Active
  /\ LET next == [account EXCEPT !.configured = TRUE] IN Save(next) \/ SaveFails(next)
  /\ UNCHANGED desk

-----------------------------------------------------------------------------
(* The chat: chat_using.                                                   *)

Receipts == {c \in Chats : account.chats[c] # "none"}
Reserved(c) == [account EXCEPT !.balance = @ - 1, !.chats[c] = "pending"]

\* Mutant: the reservation is kept in memory until the chat is settled.
ReserveChatInMemory(c) ==
  /\ Active /\ c \notin Receipts /\ account.balance > 0
  /\ account' = Reserved(c) /\ UNCHANGED saved
  /\ desk' = [desk EXCEPT !.at = "asks", !.chat = {c}]

\* An operation id that is known is answered from its receipt; a new one is
\* charged and its receipt saved as pending before the model is asked.
ReserveChat(c) ==
  /\ Active /\ c \notin Receipts /\ account.balance > 0
  /\ \/ Save(Reserved(c)) /\ desk' = [desk EXCEPT !.at = "asks", !.chat = {c}]
     \/ SaveFails(Reserved(c)) /\ UNCHANGED desk

\* exchange: an answer, a failure, or no knowing.
AskModel ==
  /\ desk.at = "asks"
  /\ \E answer \in {"success", "failed", "unknown"} :
       desk' = [desk EXCEPT !.at = "settles", !.answer = answer,
                  !.asked = [c \in Chats |-> IF c \in desk.chat /\ @[c] < 2 THEN @[c] + 1 ELSE @[c]]]
  /\ Unchanged

SettleChat ==
  /\ desk.at = "settles"
  /\ \E c \in desk.chat :
       LET next == CASE desk.answer = "success" -> [account EXCEPT !.chats[c] = "success"]
                     [] desk.answer = "failed" -> [account EXCEPT !.chats[c] = "failed",
                                                                 !.balance = @ + 1]
                     [] OTHER -> account IN
       Save(next) \/ SaveFails(next)
  /\ Turn("free")

\* The process dies and the store is opened again.
Reopen ==
  /\ account' = saved /\ UNCHANGED saved
  /\ desk' = [desk EXCEPT !.at = "free", !.chat = {}, !.answer = "none", !.session = FALSE,
                          !.wrong = 0, !.blocked = FALSE, !.pinned = FALSE]

WelcomeNext ==
  \/ \E linked \in BOOLEAN : Register(linked)
  \/ LinkAccount \/ (\E right \in BOOLEAN : SignIn(right)) \/ BlockEnds \/ Activate
  \/ SessionEnds \/ (\E mode \in {"online", "local"} : SetMode(mode))
  \/ AuthorizeProvider \/ CompleteWelcome
  \/ (\E c \in Chats : ReserveChat(c)) \/ AskModel \/ SettleChat \/ Reopen

WelcomeSpec == WelcomeInit /\ [][WelcomeNext]_welcomeVars

-----------------------------------------------------------------------------
Charged(s) == Cardinality({c \in Chats : s.chats[c] \in {"pending", "success"}})

(* What is left and what was charged make up the grant, in memory and on     *)
(* disk, through failed saves, restarts and logins: otherwise open refuses   *)
(* the store (welcome.rs:199-226).                                           *)
PointsAddUp ==
  \A s \in {saved, account} :
    IF s.granted THEN s.balance + Charged(s) = Points ELSE s.balance + Charged(s) = 0

(* The model is asked at most once for an operation id, across failures and  *)
(* restarts (docs/agentos-v2/runtime-welcome.md:61).                         *)
AskedOnce == \A c \in Chats : desk.asked[c] <= 1

\* Why they hold: points are spent and given back together with the receipt of
\* the chat, and a chat is asked only while its receipt is pending.
ReceiptBeforeAsking ==
  /\ desk.at \in {"asks", "settles"} =>
       \E c \in Chats : desk.chat = {c} /\ account.chats[c] = "pending" /\ saved.chats[c] = "pending"
  /\ \A c \in Chats :
       /\ desk.asked[c] <= 1
       /\ desk.asked[c] > 0 => account.chats[c] # "none" /\ saved.chats[c] # "none"
       /\ desk.at = "asks" /\ c \in desk.chat => desk.asked[c] = 0
=============================================================================
