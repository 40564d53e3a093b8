------------------------------- MODULE Secrets -------------------------------
(***************************************************************************)
(* The encrypted credential store of the host (src-tauri secrets.rs,       *)
(* secrets/control.rs, provider_use.rs and migration.rs over the secret    *)
(* files of vault.rs).  Every operation runs under one mutex: it is        *)
(* audited as an intent, applied to the unlocked snapshot, saved by        *)
(* staging, renaming and syncing the directory, and audited again.         *)
(* Any of these may fail; the process and the machine may stop.            *)
(* One provider account stands for the bindings.                           *)
(***************************************************************************)
EXTENDS Naturals

CONSTANTS SecretOps,     \* operation ids the callers choose
          MaxRevision,   \* a bound on the revisions
          NoStore,       \* no file yet
          Locked         \* no snapshot in memory

VARIABLES
  vaultFile,   \* the encrypted file, and what a power loss may bring back
  unlocked     \* the unlocked snapshot, the audit stream, the cool-down

secretVars == <<vaultFile, unlocked>>

Revisions == 0..MaxRevision
Kinds == {"put", "revoke", "import", "save", "save key", "activate"}
NotDone == [kind |-> "none", expected |-> 0]
Digests == [kind : Kinds, expected : Revisions] \cup {NotDone}
\* The credential (revision 0: none), the profile that names one of its
\* revisions, and the digests of the operations done.
SecretSnapshots ==
  [revision : Revisions, revoked : BOOLEAN, profile : Revisions, names : Revisions,
   ops : [SecretOps -> Digests]]

SecretFiles == [now : SecretSnapshots \cup {NoStore}, before : SUBSET (SecretSnapshots \cup {NoStore})]
SecretStores == [snapshot : SecretSnapshots \cup {Locked}, audit : BOOLEAN, cooldown : BOOLEAN]

SecretTypeOK == vaultFile \in SecretFiles /\ unlocked \in SecretStores

Blank == [revision |-> 0, revoked |-> FALSE, profile |-> 0, names |-> 0,
          ops |-> [o \in SecretOps |-> NotDone]]

SecretInit ==
  /\ vaultFile = [now |-> NoStore, before |-> {}]
  /\ unlocked = [snapshot |-> Locked, audit |-> TRUE, cooldown |-> FALSE]

LockStore == [unlocked EXCEPT !.snapshot = Locked]

\* Mutant: an unknown commit leaves the store unlocked.
SavedUnlocked(next) ==
  \/ /\ vaultFile' = [now |-> next, before |-> {}]
     /\ unlocked' = [unlocked EXCEPT !.snapshot = next]
  \/ /\ vaultFile' = [now |-> next, before |-> vaultFile.before \cup {vaultFile.now}]
     /\ unlocked' = unlocked

\* commit, save_encrypted and the audit of the result: all is well; the stage
\* or the rename failed; the directory was not synced (CommitUnknown); the
\* result was not audited, which also ends the audit stream.
Saved(next) ==
  \/ /\ vaultFile' = [now |-> next, before |-> {}]
     /\ unlocked' = [unlocked EXCEPT !.snapshot = next]
  \/ UNCHANGED vaultFile /\ unlocked' = LockStore
  \/ /\ vaultFile' = [now |-> next, before |-> vaultFile.before \cup {vaultFile.now}]
     /\ unlocked' = LockStore
  \/ /\ vaultFile' = [now |-> next, before |-> {}]
     /\ unlocked' = [LockStore EXCEPT !.audit = FALSE]

\* execute, before apply: the caller is authorised and the intent audited.
Intended == unlocked.audit

\* The authority is refused, or the intent or the result of an operation that
\* changes nothing cannot be audited: the store locks.
AuditFails ==
  /\ \E audit \in {unlocked.audit, FALSE} : unlocked' = [LockStore EXCEPT !.audit = audit]
  /\ UNCHANGED vaultFile

Initialize == Intended /\ vaultFile.now = NoStore /\ Saved(Blank)

\* With the right passphrase the file is read; a wrong one starts a cool-down.
Unlock ==
  /\ Intended /\ unlocked.snapshot = Locked /\ ~unlocked.cooldown
  /\ vaultFile.now # NoStore
  /\ unlocked' \in {[unlocked EXCEPT !.snapshot = vaultFile.now],
                    [unlocked EXCEPT !.cooldown = TRUE]}
  /\ UNCHANGED vaultFile

CooldownEnds == unlocked.cooldown /\ unlocked' = [unlocked EXCEPT !.cooldown = FALSE] /\ UNCHANGED vaultFile

\* Lock, and the lock after an idle time.
LockNow == unlocked' = LockStore /\ UNCHANGED vaultFile

\* replay: an id that was used for another input conflicts, and one used for
\* this input is answered with its receipt; neither changes anything.
New(o) == Intended /\ unlocked.snapshot # Locked /\ unlocked.snapshot.ops[o] = NotDone
Record(s, o, kind, n) == [s EXCEPT !.ops[o] = [kind |-> kind, expected |-> n]]

PutSecret(o, n) ==
  /\ New(o)
  /\ LET s == unlocked.snapshot IN
     /\ s.revision = n /\ n < MaxRevision
     /\ Saved([Record(s, o, "put", n) EXCEPT !.revision = n + 1, !.revoked = FALSE])

Revoke(o, n) ==
  /\ New(o)
  /\ LET s == unlocked.snapshot IN
     /\ s.revision = n /\ n > 0 /\ n < MaxRevision /\ ~s.revoked
     /\ Saved([Record(s, o, "revoke", n) EXCEPT !.revision = n + 1, !.revoked = TRUE])

\* The legacy sources hold keys the store does not know.
Import(o) ==
  /\ New(o)
  /\ unlocked.snapshot.revision = 0 /\ 0 < MaxRevision
  /\ Saved([Record(unlocked.snapshot, o, "import", 0) EXCEPT !.revision = 1])

\* save_provider with a new key or none, and activate_provider: the profile of
\* the expected revision comes to name the current revision of the key.
SaveProfile(o, kind, n) ==
  /\ New(o) /\ kind \in {"save", "save key", "activate"}
  /\ LET s == unlocked.snapshot
         rotated == IF kind = "save key" THEN [s EXCEPT !.revision = @ + 1, !.revoked = FALSE] ELSE s IN
     /\ s.profile = n /\ n < MaxRevision
     /\ kind = "save" => n > 0
     /\ kind = "save key" => s.revision < MaxRevision
     /\ rotated.revision > 0 /\ ~rotated.revoked
     /\ Saved([Record(rotated, o, kind, n) EXCEPT !.profile = n + 1, !.names = rotated.revision])

\* use_provider_profile: the key goes to a call made under the mutex, if the
\* profile and the revision it names still are what the caller registered.
UseProfile(profile, names) ==
  /\ Intended /\ unlocked.snapshot # Locked
  /\ LET s == unlocked.snapshot IN
     /\ profile = s.profile /\ names = s.names
     /\ s.revision = names /\ ~s.revoked
  /\ UNCHANGED secretVars

ProcessStops ==
  /\ unlocked' = [snapshot |-> Locked, audit |-> TRUE, cooldown |-> FALSE]
  /\ UNCHANGED vaultFile

PowerFails ==
  /\ unlocked' = [snapshot |-> Locked, audit |-> TRUE, cooldown |-> FALSE]
  /\ \E file \in vaultFile.before \cup {vaultFile.now} :
       vaultFile' = [now |-> file, before |-> {}]

SecretNext ==
  \/ Initialize \/ Unlock \/ CooldownEnds \/ LockNow \/ AuditFails
  \/ \E o \in SecretOps, n \in Revisions :
       PutSecret(o, n) \/ Revoke(o, n) \/ \E kind \in Kinds : SaveProfile(o, kind, n)
  \/ \E o \in SecretOps : Import(o)
  \/ \E profile, names \in Revisions : UseProfile(profile, names)
  \/ ProcessStops \/ PowerFails

SecretSpec == SecretInit /\ [][SecretNext]_secretVars

-----------------------------------------------------------------------------
(* While the store is unlocked, the snapshot that answers and that the     *)
(* next change starts from is the one in the file, whatever failed before  *)
(* (secrets.rs:316-366, 462-468).                                          *)
UnlockedIsStored == unlocked.snapshot # Locked => unlocked.snapshot = vaultFile.now
=============================================================================
