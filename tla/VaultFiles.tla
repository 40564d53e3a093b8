----------------------------- MODULE VaultFiles -----------------------------
(***************************************************************************)
(* The sandboxed file operations of the host (src-tauri vault.rs and       *)
(* audit.rs).  An operation checks its path, resolves it under the folder  *)
(* chosen at that moment, acts there and is audited; the user's commands   *)
(* run on the main thread, the sidecar's requests on the reader task, so   *)
(* the user may choose another folder in the middle of a sidecar request.  *)
(* One file stands for the paths an operation names in a folder.           *)
(***************************************************************************)
EXTENDS Naturals, FiniteSets

CONSTANTS
  Roots,   \* the folders the user may choose
  NoRoot

Actors == {"user", "sidecar"}
FileKinds == {"read", "write", "list", "search", "delete", "stat", "compress"}

VARIABLES
  vault,   \* the chosen folder, the audit stream and logs, the login and the files
  fileOps  \* the operation each actor is in, and what became of its audit

vaultVars == <<vault, fileOps>>

Vaults ==
  [root : Roots \cup {NoRoot}, audit : Roots \cup {NoRoot}, login : BOOLEAN,
   choosing : Roots \cup {NoRoot}, files : SUBSET Roots,
   torn : SUBSET Roots,  \* the folders whose log ends in a part of a line
   silent : BOOLEAN]     \* the stream was given up after a failed record
FileOps ==
  [at : {"idle", "resolves", "acts", "builds", "audits", "done"},
   kind : FileKinds \cup {"any"}, folder : Roots \cup {NoRoot}, lines : SUBSET Roots,
   homes : SUBSET Roots,  \* ghost: the folders chosen, or being chosen, meanwhile
   faulty : BOOLEAN]      \* ghost: there was a log, and its line cannot be read there

VaultTypeOK == vault \in Vaults /\ fileOps \in [Actors -> FileOps]

NoOp == [at |-> "idle", kind |-> "any", folder |-> NoRoot,
         lines |-> {}, homes |-> {}, faulty |-> FALSE]

VaultInit ==
  /\ vault = [root |-> NoRoot, audit |-> NoRoot, login |-> TRUE, choosing |-> NoRoot,
              files |-> {}, torn |-> {}, silent |-> FALSE]
  /\ fileOps = [a \in Actors |-> NoOp]

\* The home is locked or unlocked (require_ai_os_login asks at every operation).
SetLogin == vault' = [vault EXCEPT !.login = ~@] /\ UNCHANGED fileOps

\* What is under way while the folder f is being chosen.
Meets(f) ==
  [a \in Actors |-> [fileOps[a] EXCEPT !.homes = IF fileOps[a].at \in {"idle", "done"} THEN @ ELSE @ \cup {f}]]

\* Mutant: the folder is changed before its audit log is opened.
SetRootFirst(f) ==
  /\ fileOps["user"].at = "idle"
  /\ \/ /\ vault.choosing = NoRoot /\ vault.login
        /\ vault' = [vault EXCEPT !.choosing = f, !.root = f]
     \/ /\ vault.choosing = f
        /\ vault' = [vault EXCEPT !.choosing = NoRoot, !.audit = f, !.silent = FALSE]
     \/ /\ vault.choosing = f
        /\ vault' = [vault EXCEPT !.choosing = NoRoot]
  /\ fileOps' = Meets(f)

\* set_root: the audit log of the new folder is opened, and if that fails the
\* folder stays; then the folder is changed.
SetRoot(f) ==
  /\ fileOps["user"].at = "idle"
  /\ \/ /\ vault.choosing = NoRoot /\ vault.login
        /\ vault' = [vault EXCEPT !.choosing = f, !.audit = f, !.silent = FALSE]
     \/ /\ vault.choosing = f
        /\ vault' = [vault EXCEPT !.choosing = NoRoot, !.root = f]
  /\ fileOps' = Meets(f)

\* An operation is called.  protected_guard refuses an agent the credential
\* files; search has no path to refuse.
CallFile(a, kind) ==
  /\ fileOps[a].at = "idle"
  /\ a = "user" => vault.choosing = NoRoot
  /\ \E refused \in BOOLEAN :
       /\ refused => kind # "search" /\ a = "sidecar"
       /\ fileOps' = [fileOps EXCEPT ![a] =
            [NoOp EXCEPT !.at = IF refused THEN "audits" ELSE "resolves",
                         !.kind = IF refused THEN "any" ELSE kind,
                         !.homes = {vault.root, vault.choosing} \ {NoRoot}]]
  /\ UNCHANGED vault

\* An operation has ended, well or not: what it was no longer matters.
Ended(op) == [op EXCEPT !.at = "audits", !.kind = "any"]

\* resolve_existing or resolve_for_write: no login, no folder, a path that
\* leaves the folder or a file that is not there ends the operation.
ResolvePath(a) ==
  /\ fileOps[a].at = "resolves"
  /\ \E found \in BOOLEAN :
       /\ found => vault.login /\ vault.root # NoRoot
       /\ found /\ fileOps[a].kind \in {"read", "delete", "stat", "compress"} =>
            vault.root \in vault.files
       /\ fileOps' = [fileOps EXCEPT ![a] =
            IF found THEN [@ EXCEPT !.at = "acts", !.folder = vault.root] ELSE Ended(@)]
  /\ UNCHANGED vault

\* Listing, searching, asking for a file's state and reading it change
\* nothing, whether they succeed or not.
ReadInside(a) ==
  /\ fileOps[a].at = "acts" /\ fileOps[a].kind \in {"read", "list", "search", "stat"}
  /\ fileOps' = [fileOps EXCEPT ![a] = Ended(@)]
  /\ UNCHANGED vault

\* A write creates the file or replaces its content; a deletion removes it.
\* Either may fail.
ChangeInside(a) ==
  /\ fileOps[a].at = "acts" /\ fileOps[a].kind \in {"write", "delete"}
  /\ LET changed == IF fileOps[a].kind = "write" THEN vault.files \cup {fileOps[a].folder}
                    ELSE vault.files \ {fileOps[a].folder} IN
     \E files \in {changed, vault.files} : vault' = [vault EXCEPT !.files = files]
  /\ fileOps' = [fileOps EXCEPT ![a] = Ended(@)]

\* compress: the archive is resolved anew, under the folder of that moment;
\* it is built in a file of its own and moved over the earlier archive.
CompressInside(a) ==
  /\ fileOps[a].kind = "compress"
  /\ \/ /\ fileOps[a].at = "acts" /\ vault.login
        /\ fileOps' = [fileOps EXCEPT ![a].at = "builds", ![a].folder = vault.root]
     \/ /\ fileOps[a].at \in {"acts", "builds"}   \* refused, failed, or in place
        /\ fileOps' = [fileOps EXCEPT ![a] = Ended(@)]
  /\ UNCHANGED vault

\* A line is appended to the open log: whole, in part or not at all, as the
\* disk has it.  It can be read if the line before it had its end.
Outcomes == IF vault.audit = NoRoot \/ vault.silent THEN {"nothing"} ELSE {"whole", "part", "nothing"}
Readable(wrote) == wrote = "whole" /\ vault.audit \notin vault.torn
Torn(wrote) ==
  CASE wrote = "whole" -> vault.torn \ {vault.audit}
    [] wrote = "part" -> vault.torn \cup {vault.audit}
    [] wrote = "nothing" -> vault.torn

\* record: a line in the open audit stream, success or not.  Whatever fails
\* there is swallowed, and the operation ends as if it had not.
RecordAudit(a) ==
  /\ fileOps[a].at = "audits"
  /\ \E wrote \in Outcomes :
       /\ vault' = [vault EXCEPT !.torn = Torn(wrote)]
       /\ fileOps' = [fileOps EXCEPT ![a].at = "done",
            ![a].lines = IF Readable(wrote) THEN {vault.audit} ELSE {},
            ![a].faulty = vault.audit # NoRoot /\ ~Readable(wrote)]

\* record_durable, for the managed reads that share the stream (module
\* Library): a record that fails gives the stream up, until a folder is chosen.
RecordDurable ==
  /\ vault.audit # NoRoot /\ ~vault.silent
  /\ \E wrote \in Outcomes :
       vault' = [vault EXCEPT !.torn = Torn(wrote), !.silent = wrote # "whole"]
  /\ UNCHANGED fileOps

AnswerFile(a) ==
  fileOps[a].at = "done" /\ fileOps' = [fileOps EXCEPT ![a] = NoOp] /\ UNCHANGED vault

VaultNext ==
  \/ SetLogin \/ RecordDurable
  \/ \E f \in Roots : SetRoot(f)
  \/ \E a \in Actors :
       \/ \E kind \in FileKinds : CallFile(a, kind)
       \/ ResolvePath(a) \/ ReadInside(a) \/ ChangeInside(a) \/ CompressInside(a)
       \/ RecordAudit(a) \/ AnswerFile(a)

VaultSpec == VaultInit /\ [][VaultNext]_vaultVars

-----------------------------------------------------------------------------
(* The line an operation leaves can be read in the log of a folder that    *)
(* was chosen, or being chosen, while it ran, and so was the folder it     *)
(* acted in: if it was one folder all the time, the line is in the log of  *)
(* the folder the operation acted in, however it ended.  There is none     *)
(* only if there was no folder, or its write failed, follows a torn line,  *)
(* or finds the stream given up (vault.rs:352-378, 551-575;                *)
(* audit.rs:108-147): the log is no proof of what did not happen.          *)
AuditedAtHome ==
  \A a \in Actors : fileOps[a].at = "done" =>
    /\ fileOps[a].lines \subseteq fileOps[a].homes
    /\ fileOps[a].folder \in fileOps[a].homes \cup {NoRoot}
    /\ fileOps[a].lines = {} => fileOps[a].homes = {} \/ fileOps[a].faulty

\* Why it holds: the open audit stream is that of the folder being chosen, or
\* else of the one chosen; no operation of the user is under way while a folder
\* is being chosen, and one of the sidecar has met it.  Without a stream there
\* never was a folder.
StreamIsOfRoot ==
  /\ vault.audit = IF vault.choosing = NoRoot THEN vault.root ELSE vault.choosing
  /\ vault.choosing # NoRoot => fileOps["user"].at = "idle"
  /\ \A a \in Actors : fileOps[a].at \notin {"idle", "done"} =>
       {vault.root, vault.choosing} \ {NoRoot} \subseteq fileOps[a].homes
  /\ vault.audit = NoRoot => \A a \in Actors : fileOps[a].homes = {}

\* An operation acts in a folder it has met, and has no line until its end.
LineAtTheEnd ==
  \A a \in Actors :
    /\ fileOps[a].at = "acts" => fileOps[a].folder # NoRoot
    /\ fileOps[a].at # "idle" => fileOps[a].folder \in fileOps[a].homes \cup {NoRoot}
    /\ fileOps[a].at # "done" => fileOps[a].lines = {}
    /\ fileOps[a].lines \subseteq fileOps[a].homes
    /\ fileOps[a].at = "done" /\ fileOps[a].lines = {} => fileOps[a].homes = {} \/ fileOps[a].faulty
=============================================================================
