----------------------------- MODULE AgentFiles -----------------------------
(***************************************************************************)
(* The panel in which an agent is configured (OfficeView.tsx): its three    *)
(* files are read when it is chosen and written back one by one, then the   *)
(* settings follow, which name the folder.  Another agent can be chosen,    *)
(* and the editor gone on with, while files are read or written.            *)
(***************************************************************************)
EXTENDS Naturals, Sequences, FiniteSets

CONSTANTS
  Configured,     \* the agents
  Main,           \* the one called Tanvis
  FileNames,      \* the files of an agent
  MaxEdits,       \* a bound on the edits
  MaxReads,       \* a bound on the reads under way
  MaxSaves        \* a bound on the saves under way: a panel that is opened again does not know of them

VARIABLES
  editor,    \* the panel: the agent, its files as edited, what it is doing
  folder,    \* the files of each agent in the workspace
  team,      \* the agents in the settings
  reading,   \* reads under way
  saving     \* saves under way, with the agents in the settings as they found them

agentFileVars == <<editor, folder, team, reading, saving>>

\* A text: of which agent, and how often it was edited; the default of an agent is its edit 0.
Texts == [of : Configured, edit : 0..MaxEdits]
Default(a) == [of |-> a, edit |-> 0]
Sheets == [FileNames -> Texts]
Blank(a) == [n \in FileNames |-> Default(a)]
Reads == [of : Configured, files : Sheets, current : BOOLEAN]

AgentFilesTypeOK ==
  /\ editor \in [agent : Configured, files : Sheets, loading : BOOLEAN, edits : 0..MaxEdits, tab : {"config", "session"}, saving : BOOLEAN]
  /\ folder \in [Configured -> Sheets] /\ team \subseteq Configured /\ reading \subseteq Reads
  /\ saving \subseteq [kind : {"save", "join", "create"}, of : Configured, files : Sheets, left : SUBSET FileNames,
                      team : SUBSET Configured, current : BOOLEAN]

Reading(a) == [of |-> a, files |-> Blank(a), current |-> TRUE]
Opened(a, edits) == [agent |-> a, files |-> Blank(a), loading |-> TRUE, edits |-> edits, tab |-> "config", saving |-> FALSE]

\* An agent that is not in the settings is not shown, unless none is there.
Shown(a, agents) == IF a \in agents THEN {a} ELSE IF agents = {} \/ Main \in agents THEN {Main} ELSE agents

AgentFilesInit ==
  /\ folder = [a \in Configured |-> Blank(a)] /\ team \in SUBSET Configured /\ saving = {}
  /\ \E a \in Shown(Main, team) : editor = Opened(a, 0) /\ reading = {Reading(a)}

-----------------------------------------------------------------------------
\* The reads of the agent before are not listened to any more.
Unheard(calls) == {[call EXCEPT !.current = FALSE] : call \in calls}
Choose(a) == reading' = Unheard(reading) \cup {Reading(a)} /\ Cardinality(reading') <= MaxReads

\* The panel, now w, goes to an agent, and if it is open reads its files.
Go(w, a) ==
  /\ editor' = [w EXCEPT !.agent = a, !.loading = w.tab = "config"]
  /\ IF w.tab = "config" THEN Choose(a) ELSE UNCHANGED reading
Show(w, a, agents) ==
  \E b \in Shown(a, agents) : IF b = w.agent THEN editor' = w /\ UNCHANGED reading ELSE Go(w, b)

\* One that has a session only is left again at once, and the files are read anew.
SelectAgent(a) == a # editor.agent /\ (\E b \in Shown(a, team) : Go(editor, b)) /\ UNCHANGED <<folder, team, saving>>

\* The tabs unmount the panel: what was edited and not saved is gone.
TabSession ==
  /\ editor.tab = "config" /\ editor' = [editor EXCEPT !.tab = "session", !.loading = FALSE, !.saving = FALSE] /\ UNCHANGED <<folder, team>>
  /\ reading' = Unheard(reading) /\ saving' = Unheard(saving)
TabConfig ==
  editor.tab = "session" /\ Choose(editor.agent) /\ editor' = Opened(editor.agent, editor.edits) /\ UNCHANGED <<folder, team, saving>>

\* A file that cannot be read counts as one that is not there: its default is shown.
Read(r) == {[r EXCEPT !.files = [n \in FileNames |-> IF n \in failed THEN Default(r.of) ELSE folder[r.of][n]]] : failed \in SUBSET FileNames}

\* Mutant: a read of the agent before is still listened to.
FilesReadLate(r) ==
  /\ r \in reading /\ reading' = reading \ {r} /\ UNCHANGED <<folder, team, saving>>
  /\ \E done \in Read(r) : editor' = [editor EXCEPT !.files = done.files, !.loading = FALSE]

FilesRead(r) ==
  /\ r \in reading /\ reading' = reading \ {r} /\ UNCHANGED <<folder, team, saving>>
  /\ IF r.current THEN \E done \in Read(r) : editor' = [editor EXCEPT !.files = done.files, !.loading = FALSE]
     ELSE UNCHANGED editor

\* The editor is off while the files are read; it is on while they are saved.
EditFile(n) ==
  /\ editor.tab = "config" /\ ~editor.loading /\ editor.edits < MaxEdits /\ UNCHANGED <<folder, team, reading, saving>>
  /\ editor' = [editor EXCEPT !.edits = @ + 1, !.files[n] = [of |-> editor.agent, edit |-> editor.edits + 1]]

Saving(kind, a, files, left) ==
  /\ Cardinality(saving) < MaxSaves
  /\ saving' = saving \cup {[kind |-> kind, of |-> a, files |-> files, left |-> left, team |-> team, current |-> TRUE]}

\* The files and the settings of this moment are what will be saved, and where.
Save ==
  /\ editor.tab = "config" /\ ~editor.loading /\ ~editor.saving /\ UNCHANGED <<folder, team, reading>>
  /\ Saving("save", editor.agent, editor.files, FileNames) /\ editor' = [editor EXCEPT !.saving = TRUE]

SaveEnds(s) == IF s.kind = "save" /\ s.current THEN [editor EXCEPT !.saving = FALSE] ELSE editor

\* One after the other; the first failure ends the save with some files written.
WriteFile(s, n) ==
  /\ s \in saving /\ n \in s.left /\ UNCHANGED <<team, reading>>
  /\ \/ /\ folder' = [folder EXCEPT ![s.of][n] = s.files[n]] /\ UNCHANGED editor
        /\ saving' = (saving \ {s}) \cup {[s EXCEPT !.left = @ \ {n}]}
     \/ saving' = saving \ {s} /\ editor' = SaveEnds(s) /\ UNCHANGED folder

\* An agent joins from its panel, or by its name from the list, which then shows it.
CreateAgent ==
  editor.tab = "config" /\ editor.agent \notin team /\ Saving("join", editor.agent, editor.files, {}) /\ UNCHANGED <<editor, folder, team, reading>>
SubmitAgent(a) == Saving("create", a, Blank(a), {}) /\ UNCHANGED <<editor, folder, team, reading>>

\* The settings are those of the moment the save began: an agent that joined since is lost from
\* them.  One that is there, with a session, is not saved again.
SaveSettings(s) ==
  /\ s \in saving /\ s.left = {} /\ saving' = saving \ {s} /\ UNCHANGED folder
  /\ \/ editor' = SaveEnds(s) /\ UNCHANGED <<team, reading>>
     \/ /\ team' = s.team \cup {s.of} \/ (s.kind # "save" /\ s.of \in s.team /\ UNCHANGED team)
        /\ \/ Show(SaveEnds(s), editor.agent, team')
           \/ s.kind = "create" /\ Show(editor, s.of, team')

AgentFilesNext ==
  \/ \E a \in Configured : SelectAgent(a) \/ SubmitAgent(a)
  \/ \E n \in FileNames : EditFile(n) \/ (\E s \in saving : WriteFile(s, n))
  \/ \E s \in saving : SaveSettings(s)
  \/ \E r \in reading : FilesRead(r)
  \/ TabSession \/ TabConfig \/ Save \/ CreateAgent

AgentFilesSpec == AgentFilesInit /\ [][AgentFilesNext]_agentFileVars

-----------------------------------------------------------------------------
(* Whatever is chosen, read, edited and saved in the meantime, the folder of *)
(* an agent holds texts of that agent, and so does the panel while it can   *)
(* be edited (OfficeView.tsx:260-325).                                      *)
FilesAreOwn ==
  /\ \A a \in Configured, n \in FileNames : folder[a][n].of = a
  /\ editor.tab = "config" /\ ~editor.loading => \A n \in FileNames : editor.files[n].of = editor.agent
=============================================================================
