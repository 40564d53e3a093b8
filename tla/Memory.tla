------------------------------- MODULE Memory -------------------------------
(***************************************************************************)
(* The shared memory of the agent team (src-tauri memory.rs) and the       *)
(* context the sidecar builds from it for a turn (sidecar context.ts).     *)
(* The host handles one memory request at a time.  The log of events is    *)
(* kept as the last event of each record; records of the old mydata and    *)
(* myinfo files are read beneath it.                                       *)
(***************************************************************************)
EXTENDS FiniteSets

CONSTANTS
  Facts, NoFact,  \* what a record may say
  OldRecords,     \* the ids that lines of mydata/long_term.jsonl and myinfo/profile.json may get
  ProfileRecords, \* those of them for profile.json
  NewRecords      \* the ids new proposals are given

Records == OldRecords \cup NewRecords
Statuses == {"candidate", "confirmed", "rejected", "tombstoned"}

VARIABLES
  memory,  \* the log, the old files, and what the user revoked
  context  \* the context that a turn is given

\* The last event of a record: it says what the record said when it was written,
\* but for a tombstone, beneath which an earlier event or an old line counts.
NoEvent == [status |-> "none", said |-> NoFact]
Events ==
  {NoEvent} \cup [status : Statuses \ {"tombstoned"}, said : Facts]
            \cup [status : {"tombstoned"}, said : Facts \cup {NoFact}]

\* What the old files have under an id.  An unconfirmed item of the profile
\* counts as none.
NoLine == [status |-> "none", said |-> NoFact]
Lines == {NoLine} \cup [status : {"candidate", "confirmed"}, said : Facts]
OldFiles == {"profile", "long_term"}
OldContents(f) == IF f = "profile" THEN OldRecords \cap ProfileRecords ELSE OldRecords \ ProfileRecords
Contents(f) ==
  {lines \in [OldContents(f) -> Lines] :
     f = "profile" => \A r \in OldContents(f) : lines[r].status # "candidate"}

Memories ==
  [events : [Records -> Events], old : [OldRecords -> Lines],
   revoked : SUBSET Records,  \* ghost: the records the user rejected or deleted, by id
   taken : SUBSET Facts]      \* ghost: the facts the user took back with them
MemoryTypeOK == memory \in Memories

NoEvents == [r \in Records |-> NoEvent]
MemoryInit ==
  \E profile \in Contents("profile"), longTerm \in Contents("long_term") :
    memory = [events |-> NoEvents, revoked |-> {}, taken |-> {},
              old |-> [r \in OldRecords |-> IF r \in ProfileRecords THEN profile[r] ELSE longTerm[r]]]

\* load_legacy.
OldLine(r) == IF r \in OldRecords THEN memory.old[r] ELSE NoLine

\* Mutant: an old record hides its events.
LoadOldLast(r) == IF OldLine(r).status # "none" THEN OldLine(r).status ELSE memory.events[r].status

\* load: the events are applied over the old records; a tombstone for a record
\* that is in neither is dropped.
Load(r) ==
  CASE memory.events[r].status = "none" -> OldLine(r).status
    [] memory.events[r].status = "tombstoned" ->
         IF memory.events[r].said # NoFact \/ OldLine(r).status # "none" THEN "tombstoned" ELSE "none"
    [] OTHER -> memory.events[r].status
Says(r) == IF memory.events[r].said # NoFact THEN memory.events[r].said ELSE OldLine(r).said

\* append: the whole log is read and written again with one event more; that
\* fails beyond 10 MiB and at every other error of the file.
AppendEvent(r, event, revoked, taken) ==
  memory' = [memory EXCEPT !.events[r] = event, !.revoked = revoked, !.taken = taken]

\* propose: every caller leaves the id to the host.
Propose(r) ==
  /\ r \notin OldRecords /\ memory.events[r] = NoEvent
  /\ \E fact \in Facts :
       AppendEvent(r, [status |-> "candidate", said |-> fact], memory.revoked, memory.taken)

\* change_status to confirmed: the user's card, which may word the record anew.
Confirm(r) ==
  /\ Load(r) # "none"
  /\ \E said \in Facts :
       AppendEvent(r, [status |-> "confirmed", said |-> said], memory.revoked \ {r}, memory.taken \ {said})

\* change_status to rejected, or to tombstoned, whose event has no text.  The
\* fact is taken back with the record, unless another one says it, confirmed.
SaidByAnother(r) == \E other \in Records \ {r} : Load(other) = "confirmed" /\ Says(other) = Says(r)
Revoke(r, status) ==
  /\ Load(r) # "none"
  /\ AppendEvent(r, [status |-> status, said |-> IF status = "tombstoned" THEN memory.events[r].said ELSE Says(r)],
                 memory.revoked \cup {r},
                 IF SaidByAnother(r) THEN memory.taken ELSE memory.taken \cup {Says(r)})

\* The user edits an old file with the file operations.  A line without an id of
\* its own is known by its number, an item of the profile by its index: any line
\* may come to stand under any id.  What the edit states, as confirmed, under an
\* id without events is no longer taken back: the user wrote or moved it there.
EditOldFile(f) ==
  \E lines \in Contents(f) :
    LET Stated == {r \in OldContents(f) : /\ lines[r] # memory.old[r] /\ lines[r].status = "confirmed"
                                          /\ memory.events[r] = NoEvent} IN
    memory' = [memory EXCEPT !.old = [r \in OldRecords |-> IF r \in OldContents(f) THEN lines[r] ELSE @[r]],
                             !.taken = @ \ {lines[r].said : r \in Stated}]

\* The host dies after the log was truncated and before it was filled: what the
\* user revoked is forgotten with it.
CutOff ==
  memory' = [memory EXCEPT !.events = NoEvents, !.revoked = {}, !.taken = {}]

MemoryNext ==
  \/ \E r \in Records : Propose(r) \/ Confirm(r) \/ Revoke(r, "rejected") \/ Revoke(r, "tombstoned")
  \/ \E f \in OldFiles : EditOldFile(f)
  \/ CutOff

\* memory/query for the confirmed records.
QueryConfirmed == {r \in Records : Load(r) = "confirmed"}
FactsOf(records) == {Says(r) : r \in records}

-----------------------------------------------------------------------------
(* The context of a turn (context.ts): asked of the memory, or else read    *)
(* from the old files, while the memory goes on changing.                   *)

ContextTypeOK ==
  context \in [at : {"none", "asks", "reads", "built"}, items : SUBSET Facts, unread : SUBSET OldFiles,
               from : {"nothing", "log", "files"}, taken : SUBSET Facts]

NoContext == [at |-> "none", items |-> {}, unread |-> {}, from |-> "nothing", taken |-> {}]

\* Only a provider on this computer is given any.
BuildPersonalContext(isLocalProvider) ==
  context.at = "none" /\ context' = [NoContext EXCEPT !.at = IF isLocalProvider THEN "asks" ELSE "built"]

\* An empty answer counts as little as an error.
ReadSharedMemory(ok) ==
  /\ context.at = "asks"
  /\ context' = IF ok /\ QueryConfirmed # {}
                THEN [context EXCEPT !.at = "built", !.items = FactsOf(QueryConfirmed), !.from = "log",
                                     !.taken = memory.taken]
                ELSE [context EXCEPT !.at = "reads", !.unread = OldFiles, !.from = "files"]

ConfirmedIn(f) == {memory.old[r].said : r \in {s \in OldContents(f) : memory.old[s].status = "confirmed"}}

\* Both old files are read at once, each as far as it can be; the log does not count.
ReadText(f, ok) ==
  /\ context.at = "reads" /\ f \in context.unread
  /\ context' = [context EXCEPT !.unread = @ \ {f}, !.at = IF context.unread = {f} THEN "built" ELSE @,
                   !.items = IF ok THEN @ \cup ConfirmedIn(f) ELSE @]

\* The turn begins with what was built.
WithPersonalContext == context.at = "built" /\ context' = NoContext

ContextNext ==
  \/ \E ok \in BOOLEAN : BuildPersonalContext(ok) \/ ReadSharedMemory(ok) \/ \E f \in OldFiles : ReadText(f, ok)
  \/ WithPersonalContext

MemoryStep == (MemoryNext /\ UNCHANGED context) \/ (ContextNext /\ UNCHANGED memory)

memoryVars == <<memory, context>>
MemoryStarts == MemoryInit /\ context = NoContext
MemorySpec == MemoryStarts /\ [][MemoryStep]_memoryVars

-----------------------------------------------------------------------------
(* Since the log was last cut off by a crash: a record the user rejected   *)
(* or deleted does not come back as confirmed under its id, whatever the   *)
(* old files come to hold under it; and no confirmed record says a fact    *)
(* taken back, unless the user confirms one that does, or an edit of the   *)
(* old files states it, as confirmed, under an id of which the log knows   *)
(* nothing (memory.rs:305-425).  A context that the memory answered holds  *)
(* no fact that was taken back then.                                       *)
(*                                                                         *)
(* That exception is wide: most ids of the old files count lines or items  *)
(* (memory.rs:447, 518), so that a line inserted or removed above a        *)
(* rejected one is such an edit.  And nothing is said of a context that    *)
(* falls back to the old files, as it does also when every record was      *)
(* revoked (context.ts:104).                                               *)
RevokedStaysRevoked ==
  /\ memory.revoked \cap QueryConfirmed = {}
  /\ memory.taken \cap FactsOf(QueryConfirmed) = {}
  /\ context.from = "log" => context.items \cap context.taken = {}

\* Why it holds: the last event of a revoked record says so, and what the old
\* files say of the record then does not count.
RevocationIsLogged ==
  \A r \in memory.revoked : memory.events[r].status \in {"rejected", "tombstoned"}

\* A confirmed record, by its event or, without any, by an old line, says nothing
\* that is taken back.
ConfirmedIsNotTaken ==
  \A r \in Records :
    /\ memory.events[r].status = "confirmed" => memory.events[r].said \notin memory.taken
    /\ memory.events[r] = NoEvent /\ OldLine(r).status = "confirmed" => OldLine(r).said \notin memory.taken

\* What the memory gave a context was not taken back when it did, and nothing is
\* added to it.
GivenWasNotTaken ==
  /\ context.from = "log" => context.items \cap context.taken = {}
  /\ context.at = "reads" => context.from = "files"
=============================================================================
