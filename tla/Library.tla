------------------------------ MODULE Library -------------------------------
(***************************************************************************)
(* The file library of the vault (vault/file_index.rs and its modules):    *)
(* one imported file, its copy on disk, the index database with the import *)
(* receipt, and what the user and the content analysis attach to the file. *)
(* Every operation holds file_index_guard from start to end; an import     *)
(* takes several disk steps a crash can fall between, and an analysis      *)
(* lets go of the guard while the model works.  The user's other programs  *)
(* edit the copy at any time.                                              *)
(***************************************************************************)
EXTENDS Naturals

CONSTANTS Inputs,       \* requests under one operation id that differ in name or bytes
          MaxNoteRevision,  \* bound on revisions
          NoInput

VARIABLES
  lib,   \* the disk and the database
  job    \* the import in progress, the analysis in progress, what was answered

libraryVars == <<lib, job>>

Contents == Inputs \cup {NoInput}
Marks == {"photo tags", "video tags", "favorite", "collection", "story", "family note"}
NoNote == [sha |-> NoInput, revision |-> 0, by |-> "nobody"]

Notes == [sha : Contents, revision : 0..MaxNoteRevision, by : {"nobody", "ai", "user"}]
Libraries ==
  [open : BOOLEAN, copy : Contents, links : {1, 2}, part : BOOLEAN, receipt : Contents,
   row : Contents, uses : Marks \cup {"annotation"}, note : Notes]
Jobs ==
  [at : {"idle", "looks", "copies", "links", "unlinks", "commits"}, input : Contents,
   asked : Contents, expected : 0..MaxNoteRevision, answered : SUBSET Inputs]

LibraryTypeOK == lib \in Libraries /\ job \in Jobs

\* "uses" is the one table, besides the index, that the behaviour writes: no
\* operation reads two of them.
LibraryInit ==
  /\ \E uses \in Marks \cup {"annotation"} :
       lib = [open |-> TRUE, copy |-> NoInput, links |-> 1, part |-> FALSE,
              receipt |-> NoInput, row |-> NoInput, uses |-> uses, note |-> NoNote]
  /\ job = [at |-> "idle", input |-> NoInput, asked |-> NoInput, expected |-> 0,
            answered |-> {}]

-----------------------------------------------------------------------------
(* Importing: file_library_import.                                         *)

Guarded == lib.open /\ job.at = "idle"
Step(at) == job' = [job EXCEPT !.at = at]
Answer == job' = [job EXCEPT !.at = "idle", !.input = NoInput]

\* Mutant: an operation id that has a receipt is not compared with the request.
BeginImportUnchecked(i) ==
  /\ Guarded
  /\ job' = [job EXCEPT !.at = "looks", !.input = i]
  /\ UNCHANGED lib

\* The database opens, and a receipt under this id is for the same input.
BeginImport(i) ==
  /\ Guarded /\ lib.receipt \in {NoInput, i}
  /\ job' = [job EXCEPT !.at = "looks", !.input = i]
  /\ UNCHANGED lib

\* existing_copy: a copy has one link and the bytes of the request; a receipt
\* without a copy is refused, no copy at all is published.
ExistingCopy ==
  /\ job.at = "looks"
  /\ UNCHANGED lib
  /\ \/ lib.copy = NoInput /\ lib.receipt = NoInput /\ Step("copies")
     \/ lib.copy = NoInput /\ lib.receipt # NoInput /\ Answer
     \/ lib.copy # NoInput /\ lib.copy # job.input /\ Answer
     \/ lib.copy = job.input /\ lib.links = 1 /\ Step("commits")
     \/ lib.copy = job.input /\ lib.links = 2 /\ Answer

\* publish_copy: a random staging file is written, linked under the name of
\* the copy (which fails when a file is there), and unlinked; then the copy is
\* looked at again.  A logout fails the request and the staging file goes.
PublishCopy ==
  /\ \/ job.at = "copies" /\ lib' = [lib EXCEPT !.part = TRUE] /\ Step("links")
     \/ /\ job.at = "links" /\ lib.open /\ lib.copy = NoInput
        /\ lib' = [lib EXCEPT !.copy = job.input, !.links = 2]
        /\ Step("unlinks")
     \/ /\ job.at = "links" /\ (~lib.open \/ lib.copy # NoInput)
        /\ lib' = [lib EXCEPT !.part = FALSE]
        /\ Answer
     \/ /\ job.at = "unlinks"
        /\ lib' = [lib EXCEPT !.part = FALSE, !.links = 1]
        /\ IF lib.copy = job.input THEN Step("commits") ELSE Answer

FirstRecord == IF lib.receipt = NoInput THEN job.input ELSE lib.receipt

\* The index row and the receipt in one transaction; an index row with other
\* bytes refuses it.  A logout after the commit still fails the request.
CommitImport ==
  /\ job.at = "commits"
  /\ \/ /\ lib.open /\ lib.row \in {NoInput, FirstRecord}
        /\ lib' = [lib EXCEPT !.row = FirstRecord, !.receipt = FirstRecord]
        /\ \/ Answer
           \/ job' = [job EXCEPT !.at = "idle", !.input = NoInput,
                                 !.answered = @ \cup {job.input}]
     \/ ~(lib.open /\ lib.row \in {NoInput, FirstRecord}) /\ Answer /\ UNCHANGED lib

\* The host dies; what it has put on disk stays, the rest is gone.
LibraryCrash ==
  /\ job' = [job EXCEPT !.at = "idle", !.input = NoInput, !.asked = NoInput,
                        !.expected = 0]
  /\ UNCHANGED lib

\* Another program writes the copy in place, replaces or deletes it; it makes
\* no hard links.
EditCopy(c) ==
  /\ c # lib.copy
  /\ \E links \in {lib.links, 1} :
       /\ NoInput \in {c, lib.copy} => links = 1
       /\ lib' = [lib EXCEPT !.copy = c, !.links = links]
  /\ UNCHANGED job

\* The user logs in or out, or chooses another home folder or this one again;
\* the folder is only switched while no operation holds the guard.
OpenOrLeave == lib' = [lib EXCEPT !.open = ~@] /\ UNCHANGED job

\* file_index_refresh replaces all rows by what walk finds; a file with two
\* links is skipped.
Refresh ==
  /\ Guarded
  /\ lib' = [lib EXCEPT !.row = IF lib.links = 1 THEN lib.copy ELSE NoInput]
  /\ UNCHANGED job

-----------------------------------------------------------------------------
(* What is attached to the file.  A request names the bytes it is about and  *)
(* the revision it has seen; one that has seen another is refused, so only   *)
(* the accepted ones are actions.                                            *)

\* The index has these bytes, and so has the file (indexed_source_bytes).
Usable(s) == Guarded /\ s # NoInput /\ lib.row = s /\ lib.copy = s /\ lib.links = 1
NoteOn(s) == IF lib.note.sha = s THEN lib.note ELSE NoNote
Attach(s, revision, by) ==
  /\ revision <= MaxNoteRevision
  /\ lib' = [lib EXCEPT !.note = [sha |-> s, revision |-> revision, by |-> by]]

\* content_analyze: checked, then the model is asked without the guard.
PrepareAnalysis(s) ==
  /\ Usable(s) /\ lib.uses = "annotation" /\ job.asked = NoInput
  /\ job' = [job EXCEPT !.asked = s, !.expected = NoteOn(s).revision]
  /\ UNCHANGED lib

Forgotten == [job EXCEPT !.asked = NoInput, !.expected = 0]

\* Mutant: an analysis replaces the words whoever wrote them.
SaveAnalysisOver ==
  /\ job.asked # NoInput /\ Usable(job.asked) /\ NoteOn(job.asked).revision = job.expected
  /\ Attach(job.asked, job.expected + 1, "ai")
  /\ job' = Forgotten

\* content_annotation_save: checked again, and words the user corrected stay.
SaveAnalysis ==
  /\ job.asked # NoInput /\ Usable(job.asked) /\ NoteOn(job.asked).revision = job.expected
  /\ Attach(job.asked, job.expected + 1,
            IF NoteOn(job.asked).by = "user" THEN "user" ELSE "ai")
  /\ job' = Forgotten

\* The model fails, or the file or the annotation is no longer what it was.
AnalysisFails == job.asked # NoInput /\ job' = Forgotten /\ UNCHANGED lib

\* content_annotation_update.
CorrectNote(s) ==
  /\ Usable(s) /\ lib.uses = "annotation" /\ NoteOn(s) # NoNote
  /\ Attach(s, lib.note.revision + 1, "user")
  /\ UNCHANGED job

\* Photo tags have no revision; those of video tags start anew with the bytes.
PhotoTagsSet(s) ==
  lib.uses = "photo tags" /\ Usable(s) /\ Attach(s, 0, "user") /\ UNCHANGED job
VideoTagsSet(s) ==
  /\ lib.uses = "video tags" /\ Usable(s)
  /\ Attach(s, NoteOn(s).revision + 1, "user") /\ UNCHANGED job

\* A favorite is removed, a collection reverted, without looking at the file.
FavoriteSet(s) ==
  /\ lib.uses = "favorite" /\ (Usable(s) \/ (Guarded /\ s = lib.note.sha))
  /\ Attach(s, lib.note.revision + 1, "user") /\ UNCHANGED job
CollectionPut(s) ==
  /\ lib.uses = "collection" /\ (Usable(s) \/ (Guarded /\ s = lib.note.sha))
  /\ Attach(s, lib.note.revision + 1, "user") /\ UNCHANGED job
StoryPut(s) ==
  /\ lib.uses = "story" /\ Usable(s)
  /\ Attach(s, lib.note.revision + 1, "user") /\ UNCHANGED job
FamilyInfoPut ==
  /\ lib.uses = "family note" /\ Guarded
  /\ Attach(NoInput, lib.note.revision + 1, "user") /\ UNCHANGED job

LibraryNext ==
  \/ \E i \in Inputs : BeginImport(i) \/ PrepareAnalysis(i) \/ CorrectNote(i)
                        \/ PhotoTagsSet(i) \/ VideoTagsSet(i) \/ FavoriteSet(i)
                        \/ CollectionPut(i) \/ StoryPut(i)
  \/ ExistingCopy \/ PublishCopy \/ CommitImport \/ LibraryCrash
  \/ (\E c \in Contents : EditCopy(c)) \/ OpenOrLeave \/ Refresh
  \/ SaveAnalysis \/ AnalysisFails \/ FamilyInfoPut

LibrarySpec == LibraryInit /\ [][LibraryNext]_libraryVars

-----------------------------------------------------------------------------
(* An operation id stands for one input: whatever was answered as imported   *)
(* under it is what its receipt says, across crashes between the copy and    *)
(* the receipt, replays, and edits of the copy (import.rs:100-118, 235-290). *)
OneInputPerOperation == job.answered \subseteq {lib.receipt}

(* Words the user corrected stay as long as the annotation is about the same *)
(* bytes, also when an analysis was under way (content.rs:210-234).          *)
UserWordsStay ==
  lib.note.by = "user" /\ lib'.note.sha = lib.note.sha => lib'.note.by = "user"

\* Why it holds: an import goes on only with the input its receipt is for.
ReceiptIsKept ==
  /\ job.at # "idle" => job.input # NoInput /\ lib.receipt \in {NoInput, job.input}
  /\ OneInputPerOperation
=============================================================================
