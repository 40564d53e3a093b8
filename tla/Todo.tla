-------------------------------- MODULE Todo --------------------------------
(***************************************************************************)
(* The to-do queue of the sidecar (sidecar/src/todo.ts): enqueueTodo and   *)
(* updateTodo read the whole file todo/queue.json, change one item and     *)
(* write it back, one after the other behind a promise chain.  Mail,       *)
(* calendar, the board and the agents call them at the same time.  The     *)
(* board (TodoBoard.tsx) shows a copy of the file: it lists the items      *)
(* anew after every event, with no order among the answers, and puts the   *)
(* item its own call returned over what it shows.                          *)
(***************************************************************************)
EXTENDS Naturals, Sequences, FiniteSets

CONSTANTS
  TodoIds,     \* the items that may be created
  DedupeKey,   \* [TodoIds -> keys]: the dedupeKey an item is created with, or "none"
  Lanes,
  ListCalls,   \* bounds the lists the board awaits at once; if empty, no board
  MaxTodoOps,  \* a bound on the calls in the chain
  MaxOwnCalls  \* a bound on the calls of the board that are not answered

VARIABLES
  todoFile,   \* the items of the file, each with its lane or "absent"
  todoChain,  \* the calls in the order of queueTail, and how far they are
  board       \* the board: what it shows, the lists and answers on their way

todoVars == <<todoFile, todoChain, board>>

TodoFiles == [TodoIds -> Lanes \cup {"absent"}]
TodoOps ==
  [kind: {"enqueue", "update"}, id: TodoIds, lane: Lanes, byBoard: BOOLEAN,
   stage: {"waits", "reads", "writes"}, copy: TodoFiles]
NoTodos == [i \in TodoIds |-> "absent"]

\* A list that is not under way, one that was asked for, or the items it read.
NotListed == [at |-> "none", items |-> NoTodos]
Asked == [at |-> "asked", items |-> NoTodos]

TodoLists == [at: {"none", "asked", "read"}, items: TodoFiles]
TodoAnswers == [kind: {"enqueue", "update"}, id: TodoIds, lane: Lanes, last: BOOLEAN]
Boards ==
  [open: BOOLEAN, shown: TodoFiles, lists: [ListCalls -> TodoLists], answers: SUBSET TodoAnswers]

TodoTypeOK == todoFile \in TodoFiles /\ todoChain \in Seq(TodoOps) /\ board \in Boards

TodoInit ==
  /\ todoFile = NoTodos /\ todoChain = <<>>
  /\ board = [open |-> FALSE, shown |-> NoTodos, lists |-> [l \in ListCalls |-> NotListed], answers |-> {}]

\* A call is made: it is put behind the others.
CallTodo(kind, id, lane, byBoard) ==
  /\ Len(todoChain) < MaxTodoOps
  /\ todoChain' = Append(todoChain,
       [kind |-> kind, id |-> id, lane |-> lane, byBoard |-> byBoard, stage |-> "waits", copy |-> NoTodos])
  /\ UNCHANGED <<todoFile, board>>

CanCall ==
  board.open /\ Cardinality({n \in DOMAIN todoChain : todoChain[n].byBoard})
                + Cardinality(board.answers) < MaxOwnCalls

\* moveItem: the shown item, to another lane than the shown one.
MoveItem(id, lane) ==
  /\ CanCall /\ board.shown[id] \notin {"absent", lane}
  /\ CallTodo("update", id, lane, TRUE)

\* addManualTodo: a new item, which has no dedupe key.
AddManualTodo(id) ==
  /\ CanCall /\ DedupeKey[id] = "none"
  /\ todoFile[id] = "absent" /\ \A n \in DOMAIN todoChain : todoChain[n].id # id
  /\ CallTodo("enqueue", id, "backlog", TRUE)

\* Mutant: the calls run side by side.
RunsUnordered(n) == n \in DOMAIN todoChain

\* serial: only the first of the chain runs.
Runs(n) == n = 1 /\ todoChain # <<>>

Without1(n) == [i \in 1..(Len(todoChain) - 1) |-> todoChain[IF i < n THEN i ELSE i + 1]]

\* The answer to readQueue, or its failure, which ends the call.
ReadQueue(n) ==
  /\ Runs(n) /\ todoChain[n].stage = "waits"
  /\ \/ todoChain' = [todoChain EXCEPT ![n].stage = "reads", ![n].copy = todoFile]
     \/ todoChain' = Without1(n)
  /\ UNCHANGED <<todoFile, board>>

SameKey(i, j) == DedupeKey[i] = DedupeKey[j] /\ (i = j \/ DedupeKey[i] # "none")

\* The item the call is refused for: one with its key, or none with its id.
Refused(op) ==
  \/ op.kind = "enqueue" /\ \E i \in TodoIds : op.copy[i] # "absent" /\ SameKey(i, op.id)
  \/ op.kind = "update" /\ op.copy[op.id] = "absent"

\* What is written back, or nothing; then the host has taken the write or not.
ChangeItem(n) ==
  /\ Runs(n) /\ todoChain[n].stage = "reads"
  /\ LET op == todoChain[n] IN
     IF Refused(op) THEN todoChain' = Without1(n)
     ELSE todoChain' = [todoChain EXCEPT ![n].stage = "writes", ![n].copy[op.id] = op.lane]
  /\ UNCHANGED <<todoFile, board>>

\* The events and answers of a write: an open board lists the items anew, and
\* is told the item if it made the call.  Answers on their way about the same
\* item are the last word no more.
Published(op) ==
  IF ~board.open THEN board' = board
  ELSE \E l \in ListCalls :
    /\ board.lists[l].at = "none"
    /\ board' = [board EXCEPT !.lists[l] = Asked,
         !.answers = {[a EXCEPT !.last = a.last /\ a.id # op.id] : a \in @}
                     \cup IF op.byBoard THEN {[kind |-> op.kind, id |-> op.id, lane |-> op.lane, last |-> TRUE]} ELSE {}]

WriteQueue(n) ==
  /\ Runs(n) /\ todoChain[n].stage = "writes"
  /\ \/ todoFile' = todoChain[n].copy /\ Published(todoChain[n])
     \/ UNCHANGED <<todoFile, board>>
  /\ todoChain' = Without1(n)

-----------------------------------------------------------------------------
(* The lists of the board, and the answers to its calls.                   *)

\* The board is mounted: it subscribes and lists.
OpenBoard ==
  /\ ~board.open
  /\ \E l \in ListCalls : board' = [board EXCEPT !.open = TRUE, !.lists[l] = Asked]
  /\ UNCHANGED <<todoFile, todoChain>>

\* listTodos of the sidecar reads beside the chain.
ReadList(l) ==
  /\ board.lists[l].at = "asked"
  /\ board' = [board EXCEPT !.lists[l] = [at |-> "read", items |-> todoFile]]
  /\ UNCHANGED <<todoFile, todoChain>>

\* reload: setItems, or a notice when the list failed.
Listed(l) ==
  /\ board.lists[l].at # "none"
  /\ board' = [board EXCEPT !.lists[l] = NotListed,
                            !.shown = IF board.lists[l].at = "read" THEN board.lists[l].items ELSE @]
  /\ UNCHANGED <<todoFile, todoChain>>

\* The rest of moveItem and addManualTodo: an added item that is shown by now
\* stays as it is shown, a moved one that is not shown is not put there.
Answered(answer) ==
  /\ answer \in board.answers
  /\ board' = [board EXCEPT !.answers = @ \ {answer},
       !.shown[answer.id] = IF (answer.kind = "enqueue") = (@ = "absent") THEN answer.lane ELSE @]
  /\ UNCHANGED <<todoFile, todoChain>>

TodoNext ==
  \/ \E kind \in {"enqueue", "update"}, id \in TodoIds, lane \in Lanes : CallTodo(kind, id, lane, FALSE)
  \/ \E id \in TodoIds, lane \in Lanes : MoveItem(id, lane)
  \/ \E id \in TodoIds : AddManualTodo(id)
  \/ \E n \in 1..MaxTodoOps : ReadQueue(n) \/ ChangeItem(n) \/ WriteQueue(n)
  \/ OpenBoard
  \/ \E l \in ListCalls : ReadList(l) \/ Listed(l)
  \/ \E answer \in board.answers : Answered(answer)

TodoSpec == TodoInit /\ [][TodoNext]_todoVars

-----------------------------------------------------------------------------
(* Whatever calls overlap and whichever of them fail, a rewrite of the     *)
(* file changes one item only, never drops one, and adds one only if no    *)
(* stored item has its dedupe key (todo.ts:112-118, 205-261).              *)
OneTodoAtATime ==
  /\ \E id \in TodoIds : \A i \in TodoIds \ {id} : todoFile'[i] = todoFile[i]
  /\ \A i \in TodoIds : todoFile[i] # todoFile'[i] =>
       /\ todoFile'[i] # "absent"
       /\ todoFile[i] = "absent" =>
            \A j \in TodoIds : SameKey(i, j) => todoFile[j] = "absent"

(* What the board is told stands in the file until the next write to that  *)
(* item, whatever else is written before the answer arrives, and however   *)
(* late its lists come the board shows no item the file does not hold      *)
(* (todo.ts:118-122, TodoBoard.tsx:44-92).                                 *)
BoardIsTrue ==
  /\ \A answer \in board.answers : answer.last => todoFile[answer.id] = answer.lane
  /\ \A i \in TodoIds : board.shown[i] # "absent" => todoFile[i] # "absent"

\* Why they hold: only the first call of the chain has begun, and what it read
\* or is about to write is the file but for its own item.
FirstOfChainRuns ==
  /\ \A n \in DOMAIN todoChain : n > 1 => todoChain[n].stage = "waits"
  /\ \A n \in DOMAIN todoChain :
       LET op == todoChain[n] IN
       /\ op.stage = "reads" => op.copy = todoFile
       /\ op.stage = "writes" =>
            /\ op.copy = [todoFile EXCEPT ![op.id] = op.lane]
            /\ op.kind = "update" => todoFile[op.id] # "absent"
            /\ op.kind = "enqueue" =>
                 \A j \in TodoIds : SameKey(j, op.id) => todoFile[j] = "absent"

\* The board's lists and answers are of items the file still holds.
BoardIsBehind ==
  /\ \A l \in ListCalls, i \in TodoIds : board.lists[l].items[i] # "absent" => todoFile[i] # "absent"
  /\ \A answer \in board.answers : todoFile[answer.id] # "absent"
  /\ ~board.open => board.answers = {}
=============================================================================
