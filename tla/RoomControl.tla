---------------------------- MODULE RoomControl ----------------------------
(***************************************************************************)
(* The settings dialog of the agent room (webdesk/web/src/apps/            *)
(* AgentCore.tsx): the locked secret store, the form of a provider that is *)
(* unlocked, saved and tried out in one go, and the import of old settings *)
(* from a file that is previewed first.  The fields and the list stay      *)
(* usable while a command is under way.                                    *)
(***************************************************************************)
EXTENDS Naturals

CONSTANTS
  Profiles,      \* the ids of providers
  MaxProfile,    \* a bound on the revisions of a provider
  OldFiles,      \* the files with old settings the user may choose
  NoOldFile

VARIABLES
  dialog,   \* the form, the chosen file, and the command under way
  core      \* the secret store, the revisions of the providers, what was imported

controlVars == <<dialog, core>>

ControlJobs == {"idle", "asks", "unlocks", "saves", "refreshes", "tests",
         "test_asks", "previews", "applies", "activates", "store"}
ControlTypeOK ==
  /\ dialog \in [open : BOOLEAN, job : ControlJobs, passphrase : BOOLEAN, key : BOOLEAN,
                 id : Profiles, expected : 0..MaxProfile, sent : Profiles, basis : 0..MaxProfile,
                 tried : BOOLEAN, file : OldFiles \cup {NoOldFile}, previewed : OldFiles \cup {NoOldFile},
                 asked : OldFiles \cup {NoOldFile}, overtaken : BOOLEAN]
  /\ core \in [locked : BOOLEAN, revision : [Profiles -> 0..MaxProfile]]

ControlInit ==
  \E p \in Profiles :
    /\ dialog = [open |-> FALSE, job |-> "idle", passphrase |-> FALSE, key |-> FALSE, id |-> p,
                 expected |-> 0, sent |-> p, basis |-> 0, tried |-> FALSE, file |-> NoOldFile,
                 previewed |-> NoOldFile, asked |-> NoOldFile, overtaken |-> FALSE]
    /\ core = [locked |-> TRUE, revision |-> [q \in Profiles |-> 0]]

OpenSettings == dialog' = [dialog EXCEPT !.open = TRUE] /\ UNCHANGED core

CloseSettings ==
  /\ dialog.open
  /\ dialog' = [dialog EXCEPT !.open = FALSE, !.passphrase = FALSE, !.key = FALSE,
                              !.file = NoOldFile, !.previewed = NoOldFile,
                              !.overtaken = dialog.job = "previews"]
  /\ UNCHANGED core

-----------------------------------------------------------------------------
(* The form.  A provider is picked from the list, or a new one is named.    *)
PickProfile(p) ==
  /\ dialog.open
  /\ \E n \in {0, core.revision[p]} :
       dialog' = [dialog EXCEPT !.id = p, !.expected = n, !.key = FALSE]
  /\ UNCHANGED core
TypeKey == dialog.open /\ dialog' = [dialog EXCEPT !.key = TRUE] /\ UNCHANGED core
TypePassphrase == dialog.open /\ dialog' = [dialog EXCEPT !.passphrase = TRUE] /\ UNCHANGED core

DialogReady == dialog.open /\ dialog.job = "idle"
JobFailed == dialog' = [dialog EXCEPT !.job = "idle", !.passphrase = FALSE]

SaveProvider ==
  /\ DialogReady /\ (dialog.expected = 0 => dialog.key)
  /\ dialog' = [dialog EXCEPT !.job = "asks", !.tried = FALSE, !.sent = dialog.id,
                              !.basis = dialog.expected]
  /\ UNCHANGED core

\* The configuration has come: a locked store is unlocked first, if it can be.
ConfigRead ==
  /\ dialog.job = "asks" /\ UNCHANGED core
  /\ \/ core.locked /\ dialog.passphrase /\ dialog' = [dialog EXCEPT !.job = "unlocks"]
     \/ ~core.locked /\ dialog' = [dialog EXCEPT !.job = "saves"]
     \/ JobFailed

StoreUnlocked ==
  /\ dialog.job = "unlocks"
  /\ \/ core' = [core EXCEPT !.locked = FALSE] /\ dialog' = [dialog EXCEPT !.job = "saves"]
     \/ JobFailed /\ \E l \in {core.locked, FALSE} : core' = [core EXCEPT !.locked = l]

\* The service takes a profile only over the revision it was made from.
SaveTaken ==
  /\ ~core.locked /\ core.revision[dialog.sent] = dialog.basis
  /\ core.revision[dialog.sent] < MaxProfile

\* The answer puts the new revision into the form, whatever that shows by now.
ProviderSaved ==
  /\ dialog.job = "saves"
  /\ \/ /\ SaveTaken
        /\ core' = [core EXCEPT !.revision[dialog.sent] = @ + 1]
        /\ \/ dialog' = [dialog EXCEPT !.job = "refreshes", !.key = FALSE, !.expected = core'.revision[dialog.sent]]
           \/ JobFailed
     \/ JobFailed /\ UNCHANGED core

ConfigRefreshed ==
  /\ dialog.job = "refreshes" /\ UNCHANGED core
  /\ \/ dialog' = [dialog EXCEPT !.job = "tests"]
     \/ JobFailed

TestProvider ==
  /\ DialogReady /\ ~core.locked /\ core.revision[dialog.id] > 0
  /\ dialog' = [dialog EXCEPT !.job = "test_asks", !.tried = FALSE] /\ UNCHANGED core
TestAsked ==
  /\ dialog.job = "test_asks" /\ UNCHANGED core
  /\ \/ ~core.locked /\ dialog' = [dialog EXCEPT !.job = "tests"]
     \/ JobFailed
ProviderTested ==
  /\ dialog.job = "tests" /\ UNCHANGED core
  /\ \/ ~core.locked /\ dialog' = [dialog EXCEPT !.job = "idle", !.tried = TRUE, !.passphrase = FALSE]
     \/ JobFailed

-----------------------------------------------------------------------------
(* The store, and the import of old settings, each by way of "perform".     *)
AskStore ==
  /\ DialogReady /\ (core.locked => dialog.passphrase)
  /\ dialog' = [dialog EXCEPT !.job = "store"] /\ UNCHANGED core
StoreAnswered ==
  /\ dialog.job = "store" /\ JobFailed
  /\ \E l \in BOOLEAN : core' = [core EXCEPT !.locked = l]

\* The store locks itself when it is idle, and another page saves a provider.
CoreMoves ==
  /\ UNCHANGED dialog
  /\ \/ core' = [core EXCEPT !.locked = TRUE]
     \/ \E p \in Profiles : ~core.locked /\ core.revision[p] < MaxProfile
          /\ core' = [core EXCEPT !.revision[p] = @ + 1]

\* Mutant: the preview of the file before stays.
ChooseFileOnly(f) ==
  /\ dialog.open
  /\ dialog' = [dialog EXCEPT !.file = f, !.overtaken = dialog.job = "previews"]
  /\ UNCHANGED core

ChooseFile(f) ==
  /\ dialog.open
  /\ dialog' = [dialog EXCEPT !.file = f, !.previewed = NoOldFile, !.overtaken = dialog.job = "previews"]
  /\ UNCHANGED core

PreviewFile ==
  /\ DialogReady /\ ~core.locked /\ dialog.file # NoOldFile
  /\ dialog' = [dialog EXCEPT !.job = "previews", !.asked = dialog.file]
  /\ UNCHANGED core
PreviewAnswered ==
  /\ dialog.job = "previews" /\ UNCHANGED core
  /\ \/ ~core.locked /\ dialog' = [dialog EXCEPT !.job = "idle", !.passphrase = FALSE,
                                                 !.previewed = dialog.asked]
     \/ JobFailed

\* The chosen file is imported; or the provider of the form made of what was.
ApplyFile ==
  /\ DialogReady /\ dialog.previewed # NoOldFile /\ dialog.file # NoOldFile
  /\ dialog' = [dialog EXCEPT !.job = "applies", !.asked = dialog.file] /\ UNCHANGED core
ActivateProfile ==
  /\ DialogReady /\ dialog.previewed # NoOldFile
  /\ dialog' = [dialog EXCEPT !.job = "activates", !.sent = dialog.id, !.basis = dialog.expected]
  /\ UNCHANGED core
FileApplied ==
  /\ dialog.job = "applies" /\ UNCHANGED core
  /\ \/ ~core.locked /\ dialog' = [dialog EXCEPT !.job = "idle", !.passphrase = FALSE, !.file = NoOldFile]
     \/ JobFailed

ProfileActivated ==
  /\ dialog.job = "activates" /\ JobFailed
  /\ core' \in {core} \cup
       (IF SaveTaken THEN {[core EXCEPT !.revision[dialog.sent] = @ + 1]} ELSE {})

ControlNext ==
  \/ OpenSettings \/ CloseSettings \/ TypeKey \/ TypePassphrase
  \/ \E p \in Profiles : PickProfile(p)
  \/ SaveProvider \/ ConfigRead \/ StoreUnlocked \/ ProviderSaved \/ ConfigRefreshed
  \/ TestProvider \/ TestAsked \/ ProviderTested \/ AskStore \/ StoreAnswered \/ CoreMoves
  \/ \E f \in OldFiles : ChooseFile(f)
  \/ PreviewFile \/ PreviewAnswered \/ ApplyFile \/ FileApplied \/ ActivateProfile \/ ProfileActivated

ControlSpec == ControlInit /\ [][ControlNext]_controlVars

-----------------------------------------------------------------------------
(* The preview beside the import button is one of the file that would be   *)
(* imported, unless that was chosen while a preview was under way          *)
(* (AgentCore.tsx:251-257, 1247-1302).                                     *)
PreviewIsOfFile ==
  dialog.file # NoOldFile /\ dialog.previewed # NoOldFile
    => dialog.previewed = dialog.file \/ dialog.overtaken
=============================================================================
