-------------------------------- MODULE Tools --------------------------------
(***************************************************************************)
(* The tools an agent works with (tools.ts).  A call is refused, or put to  *)
(* the user, before anything is asked of the vault; a search for media      *)
(* walks the folders breadth first while the user goes on using them.       *)
(***************************************************************************)
EXTENDS Integers, Sequences, FiniteSets, Functions

CONSTANTS
  MaxFolder,      \* folders are numbered, 0 is the root
  ToolFiles,      \* files of the kind that is searched for
  SearchDepth,    \* the depth of the search (8 in the code)
  SearchLimit,    \* how many files it finds at most (100)
  MaxVisited,     \* how many folders it looks at (1200)
  MaxSkills,      \* a bound on the skills an agent is limited to
  MaxMoves        \* a bound on the files moved while it runs

VARIABLES
  disk,     \* the folders, where each file is, and the files that were moved
  tool,     \* the tools this agent has, and the call it makes
  walk      \* a search: the folders to look at and what was found

toolVars == <<disk, tool, walk>>

FolderIds == 0..MaxFolder
Gone == -1

ToolNames == {"read", "list", "grep", "write", "delete", "compress", "propose", "fetch", "search", "open"}
OfSkill == [documents |-> {"read", "write", "list", "grep", "compress"}, photos |-> {"search", "open"},
            mail |-> {"fetch"}, memory |-> {"propose"}]
\* All of them for an agent without a list of skills; a read-only run has three.
Toolsets == {ToolNames, {"read", "list", "grep"}} \cup {UNION {OfSkill[s] : s \in skills} :
    skills \in {k \in SUBSET DOMAIN OfSkill : Cardinality(k) <= MaxSkills}}
GuardsPath == {"read", "write", "delete", "compress"}
AsksFirst == {"write", "delete", "compress", "fetch"}

\* A control record of the workspace is never read or changed; lists leave it out.
Blocked(name, control) == control /\ name \in GuardsPath

NoWalk == [pending |-> <<>>, visited |-> 0, found |-> {}, failed |-> FALSE]

ToolsTypeOK ==
  /\ disk \in [parent : [1..MaxFolder -> FolderIds], place : [ToolFiles -> FolderIds \cup {Gone}], moved : SUBSET ToolFiles, control : BOOLEAN]
  /\ tool \in [has : Toolsets, phase : {"idle", "asking", "vault", "walking", "done"}, name : ToolNames, control : BOOLEAN,
               told : {"nothing", "blocked", "failed", "done", "truncated"}]
  /\ walk \in [pending : Seq(FolderIds), visited : 0..MaxVisited, found : SUBSET (ToolFiles \X FolderIds), failed : BOOLEAN]

ToolsInit ==
  /\ disk \in [parent : {p \in [1..MaxFolder -> FolderIds] : \A f \in 1..MaxFolder : p[f] < f},
               place : [ToolFiles -> FolderIds], moved : {{}}, control : {TRUE}]
  /\ tool \in [has : Toolsets, phase : {"idle"}, name : {"read"}, control : {FALSE}, told : {"nothing"}]
  /\ walk = NoWalk

Depth(f) ==
  LET depthOf[g \in FolderIds] == IF g = 0 THEN 0 ELSE depthOf[disk.parent[g]] + 1 IN depthOf[f]
In(folder) == {f \in ToolFiles : disk.place[f] = folder}
Within(folder) == {f \in 1..MaxFolder : disk.parent[f] = folder}

-----------------------------------------------------------------------------
Phase(phase, told) == tool' = [tool EXCEPT !.phase = phase, !.told = told]

\* What is blocked is refused before anyone is asked; a call keeps nothing of the one before.
CallTool(name, control) ==
  /\ tool.phase \in {"idle", "done"} /\ name \in tool.has \ {"search"}
  /\ disk' = [disk EXCEPT !.moved = {}] /\ walk' = NoWalk
  /\ tool' = [tool EXCEPT !.name = name, !.control = control,
              !.phase = IF Blocked(name, control) THEN "done" ELSE IF name \in AsksFirst THEN "asking" ELSE "vault",
              !.told = IF Blocked(name, control) THEN "blocked" ELSE "nothing"]

CardAnswered(approved) ==
  /\ tool.phase = "asking" /\ UNCHANGED <<disk, walk>>
  /\ IF approved THEN Phase("vault", "nothing") ELSE Phase("done", "blocked")

\* The vault does it, or it fails; what is read or listed changes nothing.
VaultDoes ==
  /\ tool.phase = "vault" /\ UNCHANGED walk
  /\ \/ Phase("done", "failed") /\ UNCHANGED disk
     \/ /\ Phase("done", "done")
        /\ CASE tool.name = "delete" -> \E f \in ToolFiles : disk' = [disk EXCEPT !.place[f] = Gone, !.moved = @ \cup {f}]
             [] tool.name \in {"write", "compress"} -> disk' = [disk EXCEPT !.control = @ /\ ~tool.control]
             [] OTHER -> UNCHANGED disk

-----------------------------------------------------------------------------
\* What has been moved is counted from the start of the search.
BeginSearch ==
  /\ tool.phase \in {"idle", "done"} /\ "search" \in tool.has /\ disk' = [disk EXCEPT !.moved = {}]
  /\ walk' = [NoWalk EXCEPT !.pending = <<0>>] /\ tool' = [tool EXCEPT !.name = "search", !.control = FALSE, !.phase = "walking", !.told = "nothing"]

GoesOn == walk.pending # <<>> /\ Cardinality(walk.found) < SearchLimit /\ walk.visited < MaxVisited

\* Mutant: the folders of the last level are not looked at.
NextLevelShort(folder) == IF Depth(folder) + 1 < SearchDepth THEN Within(folder) ELSE {}

NextLevel(folder) == IF Depth(folder) < SearchDepth THEN Within(folder) ELSE {}

\* Some order of what the vault lists.
SetToSeq(S) == CHOOSE f \in [1..Cardinality(S) -> S] : IsInjective(f)

\* A folder that cannot be listed is passed over.  Once enough is found the rest of the folder,
\* files and folders, is left.
ListFolder ==
  /\ tool.phase = "walking" /\ GoesOn /\ UNCHANGED <<disk, tool>>
  /\ LET folder == Head(walk.pending)
         seen(files, folders) ==
           walk' = [walk EXCEPT !.pending = Tail(@) \o SetToSeq(folders), !.visited = @ + 1, !.found = @ \cup (files \X {folder})]
     IN  \/ walk' = [walk EXCEPT !.pending = Tail(@), !.visited = @ + 1, !.failed = TRUE]
         \/ /\ Cardinality(walk.found) + Cardinality(In(folder)) < SearchLimit
            /\ seen(In(folder), NextLevel(folder))
         \/ \E files \in SUBSET In(folder), folders \in SUBSET NextLevel(folder) :
              Cardinality(walk.found) + Cardinality(files) = SearchLimit /\ seen(files, folders)

EndSearch ==
  /\ tool.phase = "walking" /\ ~GoesOn /\ UNCHANGED <<disk, walk>>
  /\ Phase("done", IF walk.pending = <<>> THEN "done" ELSE "truncated")

\* The user moves or deletes a file, any time.
UserMoves(f, to) ==
  /\ Cardinality(disk.moved) < MaxMoves /\ disk.place[f] # to /\ UNCHANGED <<tool, walk>>
  /\ disk' = [disk EXCEPT !.place[f] = to, !.moved = @ \cup {f}]

ToolsNext ==
  \/ \E name \in ToolNames, control \in BOOLEAN : CallTool(name, control)
  \/ \E approved \in BOOLEAN : CardAnswered(approved)
  \/ \E f \in ToolFiles, to \in FolderIds \cup {Gone} : UserMoves(f, to)
  \/ VaultDoes \/ BeginSearch \/ ListFolder \/ EndSearch

ToolsSpec == ToolsInit /\ [][ToolsNext]_toolVars

-----------------------------------------------------------------------------
(* A search that was not cut short, found fewer files than it may and       *)
(* could list every folder has found every file down to its depth that     *)
(* nobody moved meanwhile; and no call, whatever the user approves, changes *)
(* a control record (tools.ts:195-222, :65-92).                            *)
SearchIsWhole ==
  /\ tool.phase = "done" /\ tool.name = "search" /\ tool.told = "done" /\ ~walk.failed /\ Cardinality(walk.found) < SearchLimit =>
       \A f \in ToolFiles : disk.place[f] # Gone /\ f \notin disk.moved /\ Depth(disk.place[f]) <= SearchDepth
                              => <<f, disk.place[f]>> \in walk.found
  /\ disk.control
=============================================================================
