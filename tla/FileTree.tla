------------------------------ MODULE FileTree ------------------------------
(***************************************************************************)
(* The file manager of the main window (src/components/FileTree.tsx): a     *)
(* preview of the file that was opened, the folders that were read, and a   *)
(* collection found by the index.  Each read is answered later, possibly    *)
(* after the user has gone on to another file, folder or question.          *)
(***************************************************************************)
EXTENDS Naturals, FiniteSets

CONSTANTS
  TreeFiles,    \* the files that can be opened
  TreeFolders,  \* the folders
  Finds,        \* what the collection is asked for: category and words
  PageCount,    \* how many pages the longest collection has
  MaxReads,     \* a bound on the answers waited for
  NoFile        \* nothing selected

VARIABLES
  preview,  \* the file selected and what the preview shows of it
  folders,  \* the folder shown, those read, and the reads under way
  found     \* the collection: question, page, what is shown, and requests

treeVars == <<preview, folders, found>>

PreviewKinds == {"none", "loading", "text", "url", "error", "unsupported"}
FileReads == [of : TreeFiles, indexed : BOOLEAN, current : BOOLEAN]
FindRequests == [find : Finds, page : 0..PageCount-1, current : BOOLEAN]

FileTreeTypeOK ==
  /\ preview \in [selected : TreeFiles \cup {NoFile}, indexed : BOOLEAN, kind : PreviewKinds, of : TreeFiles \cup {NoFile},
                  changed : BOOLEAN, urls : 0..2, reads : SUBSET FileReads]
  /\ folders \in [at : TreeFolders, node : [TreeFolders -> [read : BOOLEAN, expanded : BOOLEAN, loading : BOOLEAN]],
                  loads : SUBSET TreeFolders]
  /\ found \in [find : Finds, page : 0..PageCount-1, timer : BOOLEAN, loading : BOOLEAN, requests : SUBSET FindRequests,
                shown : [find : Finds, page : 0..PageCount-1]]

FileTreeInit ==
  /\ preview = [selected |-> NoFile, indexed |-> FALSE, kind |-> "none", of |-> NoFile, changed |-> FALSE, urls |-> 0, reads |-> {}]
  /\ \E root \in TreeFolders :
       folders = [at |-> root, node |-> [d \in TreeFolders |-> [read |-> FALSE, expanded |-> FALSE, loading |-> FALSE]], loads |-> {}]
  /\ \E f \in Finds :
       found = [find |-> f, page |-> 0, timer |-> TRUE, loading |-> FALSE, requests |-> {}, shown |-> [find |-> f, page |-> 0]]

\* What the preview shows is replaced, and the address made for it given back.
Replaced(p, kind, of, changed) ==
  [p EXCEPT !.kind = kind, !.of = of, !.changed = changed,
            !.urls = @ - (IF p.kind = "url" THEN 1 ELSE 0) + (IF kind = "url" THEN 1 ELSE 0)]
\* No read under way is waited for any more.
Overtaken(reads) == {[r EXCEPT !.current = FALSE] : r \in reads}

UnderWay == Cardinality(preview.reads) + Cardinality(found.requests) + Cardinality(folders.loads)

\* A file of a kind with no preview is not read.
OpenFile(f, indexed, readable) ==
  /\ UnderWay < MaxReads /\ UNCHANGED <<folders, found>>
  /\ LET p == [Replaced(preview, IF readable THEN "loading" ELSE "unsupported", f, FALSE)
                 EXCEPT !.selected = f, !.indexed = indexed]
     IN  preview' = [p EXCEPT !.reads = Overtaken(@) \cup IF readable THEN {[of |-> f, indexed |-> indexed, current |-> TRUE]} ELSE {}]

\* Mutant: an answer is shown whatever was opened since.
FileAnsweredLate(r) ==
  /\ r \in preview.reads /\ UNCHANGED <<folders, found>>
  /\ LET p == [preview EXCEPT !.reads = @ \ {r}] IN
     \/ \E kind \in {"text", "url"}, changed \in BOOLEAN :
          preview' = IF r.indexed /\ changed THEN Replaced(p, "error", r.of, FALSE) ELSE Replaced(p, kind, r.of, changed)
     \/ \E kind \in {"error", "unsupported"} : preview' = Replaced(p, kind, r.of, FALSE)

\* The answer of the last opened file is shown, unless the index knows another
\* content of it; too large a file has no preview.
FileAnswered(r) ==
  /\ r \in preview.reads /\ UNCHANGED <<folders, found>>
  /\ LET p == [preview EXCEPT !.reads = @ \ {r}] IN
     \/ ~r.current /\ preview' = p
     \/ \E kind \in {"text", "url"}, changed \in BOOLEAN :
          r.current /\ preview' = IF r.indexed /\ changed THEN Replaced(p, "error", r.of, FALSE) ELSE Replaced(p, kind, r.of, changed)
     \/ \E kind \in {"error", "unsupported"} : r.current /\ preview' = Replaced(p, kind, r.of, FALSE)

Unselected(p) == [Replaced(p, "none", NoFile, FALSE) EXCEPT !.selected = NoFile, !.indexed = FALSE, !.reads = Overtaken(@)]

ClosePreview == preview.kind # "none" /\ preview' = Unselected(preview) /\ UNCHANGED <<folders, found>>

\* A folder is read: a second read of it may be under way, one answer ends the waiting.
LoadFolder(fs, d) == [fs EXCEPT !.node[d].expanded = TRUE, !.node[d].loading = TRUE, !.loads = @ \cup {d}]

ToggleDir(d) ==
  /\ UNCHANGED <<preview, found>>
  /\ folders' = IF folders.node[d].expanded THEN [folders EXCEPT !.node[d].expanded = FALSE]
                ELSE IF folders.node[d].read THEN [folders EXCEPT !.node[d].expanded = TRUE]
                ELSE LoadFolder(folders, d)

NavigateTo(d) ==
  /\ preview' = Unselected(preview) /\ UNCHANGED found
  /\ folders' = LET fs == [folders EXCEPT !.at = d] IN IF fs.node[d].read THEN fs ELSE LoadFolder(fs, d)

\* A folder that cannot be read is shown empty, and the error in the place of the preview.
FolderAnswered(d) ==
  /\ d \in folders.loads /\ UNCHANGED found
  /\ folders' = [folders EXCEPT !.loads = @ \ {d}, !.node[d] = [read |-> TRUE, expanded |-> TRUE, loading |-> FALSE]]
  /\ preview' \in {preview, Replaced(preview, "error", NoFile, FALSE)}

\* Another question, page or state of the library: what is under way no longer counts.
Asked(f, page) ==
  found' = [found EXCEPT !.find = f, !.page = page, !.timer = TRUE,
                         !.requests = {[q EXCEPT !.current = FALSE] : q \in @}]

\* A new question starts at the first page; the library has changed; a page is turned.
AskAgain(f) == Asked(f, 0) /\ UNCHANGED <<preview, folders>>
Refresh == Asked(found.find, found.page) /\ UNCHANGED <<preview, folders>>
TurnPage(page) == ~found.loading /\ page # found.page /\ Asked(found.find, page) /\ UNCHANGED <<preview, folders>>

\* The collection is asked for when the typing pauses; where folders
\* are shown instead, the folder is read anew.
TimerAsks ==
  /\ found.timer /\ UnderWay < MaxReads
  /\ \/ /\ found' = [found EXCEPT !.timer = FALSE, !.loading = TRUE,
                                  !.requests = @ \cup {[find |-> found.find, page |-> found.page, current |-> TRUE]}]
        /\ UNCHANGED <<preview, folders>>
     \/ /\ found' = [found EXCEPT !.timer = FALSE, !.loading = FALSE, !.shown = [find |-> found.find, page |-> found.page]]
        /\ folders' = LoadFolder(folders, folders.at) /\ UNCHANGED preview

\* Only the last request counts.  A page past the end starts over; an error empties the list.
FindAnswered(q) ==
  /\ q \in found.requests /\ UNCHANGED folders
  /\ LET rest == [found EXCEPT !.requests = @ \ {q}]
         of == [find |-> q.find, page |-> q.page]
     IN  \/ ~q.current /\ found' = rest /\ UNCHANGED preview
         \/ q.current /\ found' = [rest EXCEPT !.loading = FALSE, !.shown = of] /\ UNCHANGED preview
         \/ /\ q.current /\ q.page > 0 /\ UNCHANGED preview
            /\ found' = [rest EXCEPT !.loading = FALSE, !.page = 0, !.timer = TRUE]
         \/ /\ q.current /\ found' = [rest EXCEPT !.loading = FALSE, !.shown = of]
            /\ preview' = Replaced(preview, "error", NoFile, FALSE)

\* What the rows do: in a list or a grid, of a folder or found by the index ...
RowClicked ==
  \/ \E f \in TreeFiles, indexed, readable \in BOOLEAN : OpenFile(f, indexed, readable)
  \/ \E d \in TreeFolders : NavigateTo(d)
\* ... in the tree, and on the way up.
TreeClicked ==
  \/ \E f \in TreeFiles, readable \in BOOLEAN : OpenFile(f, FALSE, readable)
  \/ \E d \in TreeFolders : ToggleDir(d)
PathClicked == \E d \in TreeFolders : NavigateTo(d)

FileTreeNext ==
  \/ RowClicked \/ TreeClicked \/ PathClicked
  \/ \E r \in FileReads : FileAnswered(r)
  \/ \E d \in TreeFolders : FolderAnswered(d)
  \/ \E f \in Finds : AskAgain(f)
  \/ \E page \in 0..PageCount-1 : TurnPage(page)
  \/ \E q \in FindRequests : FindAnswered(q)
  \/ ClosePreview \/ Refresh \/ TimerAsks

FileTreeSpec == FileTreeInit /\ [][FileTreeNext]_treeVars

-----------------------------------------------------------------------------
(* Whatever is answered late: a content shown is that of the file selected, *)
(* as the index knows it where it was found by the index; the address made  *)
(* for a preview is the only one kept; a collection that is neither loading *)
(* nor about to be asked for is the one of the present question and page;   *)
(* and no folder waits for an answer that will not come                     *)
(* (FileTree.tsx:173-180, 213-240, 243-260, 311-316, 345-420).              *)
PreviewOfSelected ==
  /\ preview.kind \in {"loading", "text", "url"} => preview.of = preview.selected
  /\ preview.indexed => ~preview.changed
  /\ preview.urls = IF preview.kind = "url" THEN 1 ELSE 0
  /\ (~found.timer /\ ~found.loading) => found.shown.find = found.find /\ found.shown.page = found.page
  /\ \A d \in TreeFolders : folders.node[d].loading => d \in folders.loads
=============================================================================
