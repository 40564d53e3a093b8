------------------------------ MODULE Routines ------------------------------
(***************************************************************************)
(* The routine scheduler of the sidecar (sidecar/src/schedule.ts): saving  *)
(* and deleting routines, firing them by the clock or by an event, and the *)
(* file schedule/routines.json behind them.  One life of the sidecar.      *)
(*                                                                         *)
(* A routine is abstracted to an object: fire keeps hold of the object it  *)
(* was started with, while put replaces it by a new one.  Objects are      *)
(* numbered in the order put and restore make them.                        *)
(***************************************************************************)
EXTENDS Naturals, Sequences, FiniteSets

CONSTANTS
  RoutineIds,
  MaxPerHour,   \* SCHEDULE_LIMITS.maxPerHour
  Hour,         \* minutes in an hour
  MaxMinute,    \* a bound on the clock
  MaxObjects,   \* a bound on the routine objects made
  MaxWrites     \* a bound on the writes under way

VARIABLES
  sched,  \* the Scheduler
  disk    \* the clock, the folder and its file, the writes on the wire

schedVars == <<sched, disk>>

Objects  == 1..MaxObjects
Triggers == {"cron", "event", "disabled"}
Outcomes == {"none", "ended", "skipped"}   \* ended: run or failed
Entries  == [trigger: Triggers, last: Outcomes]
NoEntry  == [trigger |-> "absent", last |-> "none"]
Tables   == [RoutineIds -> Entries \cup {NoEntry}]
Read     == <<>>                            \* what is on the wire: a read of
Writes   == [table: Tables, blind: BOOLEAN] \* the file, or a rewrite of it, sent
                                            \* blind before it was ever read
Firings  == (1..MaxMinute) \X Nat           \* its minute; the number tells those
                                            \* of one minute apart

Schedulers ==
  [restored: BOOLEAN,
   table: [RoutineIds -> Objects \cup {0}],   \* 0: no such routine
   made: Objects \cup {0},
   object: [Objects -> Entries],
   lastMinute: [RoutineIds -> 0..MaxMinute],
   recent: [RoutineIds -> SUBSET Firings],
   turns: SUBSET Objects,                     \* whose turn is under way
   auditing: 0..MaxWrites]                    \* fires between mark and persist
Disks ==
  [now: 1..MaxMinute, root: BOOLEAN, file: Tables,
   wire: Seq({Read} \cup Writes),             \* in the order sent
   stale: BOOLEAN,                            \* ghost: see QuietIsStored
   started: [RoutineIds -> SUBSET Firings]]   \* ghost: turns of the last hour

RoutinesTypeOK == sched \in Schedulers /\ disk \in Disks

RoutinesInit ==
  /\ sched = [restored |-> FALSE, table |-> [r \in RoutineIds |-> 0], made |-> 0,
              object |-> [o \in Objects |-> [trigger |-> "disabled", last |-> "none"]],
              lastMinute |-> [r \in RoutineIds |-> 0],
              recent |-> [r \in RoutineIds |-> {}], turns |-> {}, auditing |-> 0]
  /\ disk \in [now: {1}, root: BOOLEAN,
               file: [RoutineIds -> {NoEntry, [trigger |-> "cron", last |-> "none"]}],
               wire: {<<Read>>}, stale: {FALSE}, started: {[r \in RoutineIds |-> {}]}]

\* What persist sends: the routines as they stand when it is called.
RoutinesNow(s) ==
  [r \in RoutineIds |-> IF s.table[r] = 0 THEN NoEntry ELSE s.object[s.table[r]]]
PersistRoutines(s) ==
  /\ Len(disk.wire) < MaxWrites
  /\ disk' = [disk EXCEPT !.wire = Append(@, [table |-> RoutinesNow(s), blind |-> ~s.restored])]

Made(s, r, entry) ==
  [s EXCEPT !.made = @ + 1, !.table[r] = s.made + 1, !.object[s.made + 1] = entry]

(* restore, when the host has taken its read: in-memory routines win over  *)
(* stored ones.  Without a folder it returns, and put and delete try again *)
(* before they go on; any other failure counts as restored, as does a file *)
(* that does not parse.                                                    *)
Missing == {r \in RoutineIds : sched.table[r] = 0 /\ disk.file[r] # NoEntry}
Restored ==
  /\ disk.wire # <<>> /\ Head(disk.wire) = Read
  /\ \/ /\ disk.root /\ Missing = {}
        /\ sched' = [sched EXCEPT !.restored = TRUE]
        /\ disk' = [disk EXCEPT !.wire = Tail(@)]
     \/ \E r \in Missing :
          /\ disk.root /\ sched.made < MaxObjects
          /\ sched' = Made(sched, r, disk.file[r])
          /\ UNCHANGED disk
     \/ /\ disk' = [disk EXCEPT !.wire = Tail(@), !.stale = TRUE]
        /\ sched' = [sched EXCEPT !.restored = disk.root]

Reading == \E i \in DOMAIN disk.wire : disk.wire[i] = Read

\* ensureRestored, called by put and delete.
EnsureRestored ==
  /\ ~sched.restored /\ ~Reading /\ Len(disk.wire) < MaxWrites
  /\ disk' = [disk EXCEPT !.wire = Append(@, Read)]
  /\ UNCHANGED sched

\* put, once ensureRestored has returned: the last outcome is carried over.
PutRoutine(r, trigger) ==
  /\ ~Reading /\ sched.made < MaxObjects
  /\ sched' = Made(sched, r, [RoutinesNow(sched)[r] EXCEPT !.trigger = trigger])
  /\ PersistRoutines(sched')

\* Mutant: the file is written before the routine is gone.
DeleteAfterWrite(r) ==
  /\ ~Reading /\ sched.table[r] # 0
  /\ sched' = [sched EXCEPT !.table[r] = 0]
  /\ PersistRoutines(sched)

Delete(r) ==
  /\ ~Reading /\ sched.table[r] # 0
  /\ sched' = [sched EXCEPT !.table[r] = 0]
  /\ PersistRoutines(sched')

Marked(s, o, outcome) == [s EXCEPT !.object[o].last = outcome, !.auditing = @ + 1]

\* allow: the firings of the sliding hour, this one included unless it is full.
Within(firings, now) == {f \in firings : now - f[1] < Hour}
Window(r) == Within(sched.recent[r], disk.now)
\* Mutant: one turn too many fits in.
AllowedOneMore(r) == Cardinality(Window(r)) <= MaxPerHour

Allowed(r) == Cardinality(Window(r)) < MaxPerHour
Firing(r) == <<disk.now, Cardinality(Window(r)) + 1>>
Counted(r) == IF Allowed(r) THEN Window(r) \cup {Firing(r)} ELSE Window(r)

\* fire up to its first await: the turn is begun, or the firing is skipped
\* because of the cap, or since the agent is not there or busy.
Fire(r, s) ==
  LET o == s.table[r]
      counted == [s EXCEPT !.recent[r] = Counted(r)]
  IN /\ s.auditing < MaxWrites
     /\ \/ /\ sched' = Marked(counted, o, "skipped")
           /\ UNCHANGED disk
        \/ /\ Allowed(r) /\ o \notin s.turns
           /\ sched' = [counted EXCEPT !.turns = @ \cup {o}]
           /\ disk' = [disk EXCEPT !.started[r] = @ \cup {Firing(r)}]

\* Its expression matches the minute: any expression may or may not.
Due(r) == RoutinesNow(sched)[r].trigger = "cron"

\* One pass of the loop of tick, for a routine that is due.
FireByClock(r) ==
  /\ sched.table[r] # 0 /\ Due(r)
  /\ sched.lastMinute[r] # disk.now
  /\ Fire(r, [sched EXCEPT !.lastMinute[r] = disk.now])

\* One pass of the loop of onEvent whose filter matches the event.
FireByEvent(r) ==
  /\ sched.table[r] # 0 /\ RoutinesNow(sched)[r].trigger = "event"
  /\ Fire(r, sched)

\* The turn ends: its outcome goes to the object it was started with.
TurnEnds(o) ==
  /\ o \in sched.turns /\ sched.auditing < MaxWrites
  /\ sched' = Marked([sched EXCEPT !.turns = @ \ {o}], o, "ended")
  /\ UNCHANGED disk

\* The audit is written, or has failed: fire persists.
Audited ==
  /\ sched.auditing > 0
  /\ sched' = [sched EXCEPT !.auditing = @ - 1]
  /\ PersistRoutines(sched')

\* The host takes the writes in the order they were sent.
HostWrites ==
  /\ disk.wire # <<>> /\ Head(disk.wire) # Read
  /\ \/ /\ disk.root
        /\ disk' = [disk EXCEPT !.wire = Tail(@), !.file = Head(disk.wire).table,
                                !.stale = Head(disk.wire).blind]
     \/ disk' = [disk EXCEPT !.wire = Tail(@), !.stale = TRUE]
  /\ UNCHANGED sched

ChooseFolder ==
  /\ ~disk.root
  /\ disk' = [disk EXCEPT !.root = TRUE]
  /\ UNCHANGED sched

MinutePasses ==
  /\ disk.now < MaxMinute
  /\ disk' = [disk EXCEPT !.now = @ + 1,
       !.started = [r \in RoutineIds |-> Within(@[r], disk.now + 1)]]
  /\ UNCHANGED sched

RoutinesNext ==
  \/ \E r \in RoutineIds :
       \/ \E trigger \in Triggers : PutRoutine(r, trigger)
       \/ Delete(r) \/ FireByClock(r) \/ FireByEvent(r)
  \/ \E o \in Objects : TurnEnds(o)
  \/ Restored \/ EnsureRestored \/ Audited \/ HostWrites \/ ChooseFolder \/ MinutePasses

RoutinesSpec == RoutinesInit /\ [][RoutinesNext]_schedVars

-----------------------------------------------------------------------------
(* In no hour, wherever it begins, does a routine start more turns than    *)
(* the limit - also when it was replaced, paused, or deleted and saved     *)
(* again under its id meanwhile (schedule.ts:313-323).                     *)
TurnsCapped == \A r \in RoutineIds : Cardinality(disk.started[r]) <= MaxPerHour

(* When no write and no audit is outstanding, the file holds the routines  *)
(* and their last outcomes as they stand in memory, unless the last access *)
(* to it failed: whatever put, delete and fire did to each other's objects,*)
(* the last of them to persist wrote what they all left behind             *)
(* (schedule.ts:227-311).                                                  *)
QuietIsStored ==
  sched.restored /\ sched.auditing = 0 /\ disk.wire = <<>> /\ ~disk.stale
    => disk.file = RoutinesNow(sched)

\* Why the first holds: the turns of the hour are among the firings counted.
TurnsAreCounted ==
  \A r \in RoutineIds :
    /\ IsFiniteSet(sched.recent[r]) /\ Cardinality(sched.recent[r]) <= MaxPerHour
    /\ disk.started[r] \subseteq Window(r)

\* Why the second holds: once restored, the last write on the wire has what
\* memory has; before, every write is blind, and without one memory has nothing
\* the file has not.
BlindWrites == \E i \in DOMAIN disk.wire : disk.wire[i] # Read
LastIsNow ==
  /\ \A i, j \in DOMAIN disk.wire : disk.wire[i] = Read /\ disk.wire[j] = Read => i = j
  /\ sched.restored => ~Reading
  /\ ~sched.restored => \A i \in DOMAIN disk.wire : disk.wire[i] # Read => disk.wire[i].blind
  /\ sched.auditing = 0 /\ sched.restored =>
       IF disk.wire = <<>> THEN disk.stale \/ disk.file = RoutinesNow(sched)
       ELSE LET last == disk.wire[Len(disk.wire)] IN last.blind \/ last.table = RoutinesNow(sched)
  /\ sched.auditing = 0 /\ ~sched.restored /\ ~disk.stale =>
       BlindWrites \/ \A r \in RoutineIds : sched.table[r] # 0 => RoutinesNow(sched)[r] = disk.file[r]
=============================================================================
