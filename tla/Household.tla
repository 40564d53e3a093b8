----------------------------- MODULE Household -----------------------------
(***************************************************************************)
(* The household store (src-tauri/src/vault/household.rs) and the panel    *)
(* that works it (webdesk/web/src/apps/HouseholdPanel.tsx).  Each command  *)
(* rewrites the whole state under one lock; the panel previews a package   *)
(* of an item and creates it in a second command that names the revision   *)
(* it has shown.  Other clients use the same commands meanwhile.           *)
(***************************************************************************)
EXTENDS Naturals, FiniteSets

CONSTANTS
  Items,            \* the things there may be papers of
  MaxItemRevision,  \* a bound on the revisions of an item
  MaxPackages,      \* the limit of packages, 256
  NoItem

VARIABLES
  papers,   \* the store: its state in memory and on disk, and whether it is open
  panel     \* what the page shows, and its command under way

householdVars == <<papers, panel>>

\* "facts" stands for all that a package is rendered from: sources, assertions, choices.
ItemRecords == [Items -> [revision : 0..MaxItemRevision, facts : 0..MaxItemRevision]]
Packages == [item : Items, revision : 1..MaxItemRevision, facts : 0..MaxItemRevision, shown : BOOLEAN]
HouseholdStates == [items : ItemRecords, packages : SUBSET Packages, count : 0..MaxPackages]
NoPlan == [item |-> NoItem, revision |-> 0, facts |-> 0]
Plans == [item : Items \cup {NoItem}, revision : 0..MaxItemRevision, facts : 0..MaxItemRevision]
Commands == {"none", "list", "import", "change", "preview", "apply", "complete"}

HouseholdTypeOK ==
  /\ papers \in [open : BOOLEAN, memory : HouseholdStates, disk : HouseholdStates]
  /\ panel \in [known : [Items -> 0..MaxItemRevision], selected : Items \cup {NoItem}, plan : Plans,
                at : {"idle", "asked", "answered", "failed", "lists"}, command : Commands,
                item : Items \cup {NoItem}, revision : 0..MaxItemRevision, answer : Plans]

NothingKept == [items |-> [i \in Items |-> [revision |-> 0, facts |-> 0]], packages |-> {}, count |-> 0]
HouseholdInit ==
  /\ papers = [open |-> TRUE, memory |-> NothingKept, disk |-> NothingKept]
  /\ panel = [known |-> [i \in Items |-> 0], selected |-> NoItem, plan |-> NoPlan, at |-> "lists",
              command |-> "none", item |-> NoItem, revision |-> 0, answer |-> NoPlan]

-----------------------------------------------------------------------------
(* The store.                                                               *)
\* A change of an item counts its revision up.
ItemChanged(s, i) ==
  [s EXCEPT !.items[i].revision = @ + 1, !.items[i].facts = s.items[i].revision]

\* Mutant: choosing among the assertions leaves the revision alone.
AmendedQuietly(s, i) == [s EXCEPT !.items[i].facts = s.items[i].revision]

\* "assert" and "confirm".
Amended(s, i) == ItemChanged(s, i)

\* The state the command leads to: none if it is refused.
CommandEffects(command, i, revision, plan) ==
  LET s == papers.memory IN
  CASE command = "import" /\ s.items[i].revision < MaxItemRevision -> {s, ItemChanged(s, i)}
    [] command = "change" /\ s.items[i].revision = revision /\ revision \in 1..(MaxItemRevision - 1) ->
         {Amended(s, i)}
    [] command = "apply" /\ s.items[i].revision = revision /\ revision > 0 /\ s.count < MaxPackages ->
         {[s EXCEPT !.count = @ + 1, !.packages = @ \cup
             {[item |-> i, revision |-> revision, facts |-> s.items[i].facts,
               shown |-> plan.facts = s.items[i].facts]}]}
    [] command = "preview" /\ s.items[i].revision = revision /\ revision > 0 -> {s}
    [] command \in {"list", "complete"} -> {s}
    [] OTHER -> {}

\* A save that fails shuts the store, whichever state reached the disk.
SaveHousehold(next) ==
  \/ papers' = [papers EXCEPT !.memory = next, !.disk = next]
  \/ /\ next # papers.memory
     /\ \E d \in {papers.disk, next} : papers' = [papers EXCEPT !.open = FALSE, !.disk = d]

\* The same command of another client of the owner.
OtherClient ==
  /\ papers.open
  /\ \E c \in {"import", "change"}, i \in Items :
       \E next \in CommandEffects(c, i, papers.memory.items[i].revision, NoPlan) : SaveHousehold(next)
  /\ UNCHANGED panel

\* The daemon is started again and reads what is on disk.
ReopenStore ==
  /\ ~papers.open
  /\ papers' = [papers EXCEPT !.open = TRUE, !.memory = papers.disk] /\ UNCHANGED panel

-----------------------------------------------------------------------------
(* The panel.                                                               *)
CurrentRevision == IF panel.selected = NoItem THEN 0 ELSE panel.known[panel.selected]
PlanShown(next) ==   \* the effect on [selected, current.revision]
  LET now == IF next.selected = NoItem THEN 0 ELSE next.known[next.selected] IN
  IF <<next.selected, now>> # <<panel.selected, CurrentRevision>> THEN [next EXCEPT !.plan = NoPlan] ELSE next

SelectItem(i) == panel' = PlanShown([panel EXCEPT !.selected = i]) /\ UNCHANGED papers

\* perform, unless it is busy: the command with the revision that is shown.
AskCommand(command) ==
  /\ panel.at = "idle"
  /\ \/ command \in {"list", "complete"} /\ panel' = [panel EXCEPT !.at = "asked", !.command = command]
     \/ /\ command = "import"
        /\ \E i \in IF panel.selected = NoItem THEN Items ELSE {panel.selected} :
             panel' = [panel EXCEPT !.at = "asked", !.command = command, !.item = i]
     \/ /\ command \in {"change", "preview"} /\ CurrentRevision > 0
        /\ panel' = [panel EXCEPT !.at = "asked", !.command = command, !.item = panel.selected,
                                  !.revision = CurrentRevision]
     \/ /\ command = "apply" /\ panel.plan.item # NoItem /\ panel.plan.item = panel.selected
        /\ panel' = [panel EXCEPT !.at = "asked", !.command = command, !.item = panel.plan.item,
                                  !.revision = panel.plan.revision,
                                  !.answer = panel.plan]
  /\ UNCHANGED papers

\* household_command; the answer may be an error also when the command was carried out.
HouseholdCommand ==
  /\ panel.at = "asked"
  /\ LET i == panel.item
         nexts == IF papers.open THEN CommandEffects(panel.command, i, panel.revision, panel.answer) ELSE {}
     IN \/ \E next \in nexts :
             /\ SaveHousehold(next)
             /\ \/ papers'.open /\ panel' = [panel EXCEPT !.at = "answered",
                     !.answer = IF panel.command = "preview"
                                  THEN [item |-> i, revision |-> panel.revision, facts |-> next.items[i].facts]
                                  ELSE NoPlan]
                \/ panel' = [panel EXCEPT !.at = "failed"]
        \/ nexts = {} /\ panel' = [panel EXCEPT !.at = "failed"] /\ UNCHANGED papers

PanelRests(next) == [next EXCEPT !.at = "idle", !.command = "none", !.item = NoItem, !.revision = 0, !.answer = NoPlan]

\* What the function given to perform does with its answer; then the list is read.
TakeAnswer ==
  /\ panel.at = "answered"
  /\ panel' = CASE panel.command = "preview" -> [panel EXCEPT !.plan = panel.answer, !.at = "lists"]
                [] panel.command = "apply" -> [panel EXCEPT !.plan = NoPlan, !.at = "lists"]
                [] panel.command = "import" -> PlanShown([panel EXCEPT !.selected = panel.item, !.at = "lists"])
                [] OTHER -> [panel EXCEPT !.at = "lists"]
  /\ UNCHANGED papers

ListRead ==
  /\ panel.at = "lists" /\ UNCHANGED papers
  /\ \/ /\ papers.open
        /\ LET known == [i \in Items |-> papers.memory.items[i].revision]
               there == {i \in Items : known[i] > 0}
           IN \E s \in IF panel.selected \in there THEN {panel.selected}
                       ELSE IF there # {} THEN there ELSE {NoItem} :
                panel' = PanelRests(PlanShown([panel EXCEPT !.known = known, !.selected = s]))
     \/ panel' = PanelRests([panel EXCEPT !.plan = NoPlan])

\* The error is shown and the plan is gone: the next one has another operation id.
CommandFailed == panel.at = "failed" /\ panel' = PanelRests([panel EXCEPT !.plan = NoPlan]) /\ UNCHANGED papers

HouseholdNext ==
  \/ \E i \in Items \cup {NoItem} : SelectItem(i)
  \/ \E c \in Commands \ {"none"} : AskCommand(c)
  \/ HouseholdCommand \/ TakeAnswer \/ ListRead \/ CommandFailed \/ OtherClient \/ ReopenStore

HouseholdSpec == HouseholdInit /\ [][HouseholdNext]_householdVars

-----------------------------------------------------------------------------
(* Every package holds what the page showed before it was created, whatever *)
(* other clients and failed saves did in between (household.rs:320-378,     *)
(* HouseholdPanel.tsx:113-116, 342-362).                                    *)
PackagedAsShown == \A p \in papers.memory.packages : p.shown
=============================================================================
