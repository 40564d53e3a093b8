--------------------------- MODULE ScreenProofs ---------------------------
(***************************************************************************)
(* Proofs about the pages, second half: the entry, the household panel,    *)
(* mail on the server, the main window, the assistant's page, the          *)
(* delegation rules, the tools and the conversations; and the theorems     *)
(* about the run of all pages (MCScreens), for every value of its          *)
(* constants that its assumption admits.                                   *)
(***************************************************************************)
EXTENDS PageProofs, WellFoundedInduction

-----------------------------------------------------------------------------
(* The entry: as long as nothing overtook a call, the window has one call  *)
(* at a time and awaits it; the one that finishes the setup is for the     *)
(* model selected, which is stored and allowed in its mode, and from       *)
(* finishMode on that mode is the host's.                                  *)

EntryStates ==
  [status : AnEntry!Statuses, step : AnEntry!SetupSteps, mode : AnEntry!Modes, touched : BOOLEAN,
   calls : SUBSET AnEntry!CallsMade, late : BOOLEAN, pendingSelection : ProviderNames \cup {NoName},
   pendingReauth : BOOLEAN, reauth : BOOLEAN, unlock : {"none", "reauth", "reauthStatus"}, by : {"answer", "finish"}]
HostStates ==
  [initialized : BOOLEAN, session : BOOLEAN, linked : BOOLEAN, configured : BOOLEAN, mode : AnEntry!Modes,
   started : BOOLEAN, providers : [ProviderNames -> AnEntry!Reaches \cup {"none"}], agent : ProviderNames \cup {NoName}]
ReadStates == [StatusReads -> [at : {"idle", "asked", "answered"}, status : AnEntry!Statuses]]

Suits(h, name, mode) ==
  h.providers[name] # "none" /\ AnEntry!providerAllowedForMode(h.providers[name], mode)
OneCall(w) == (\A k \in w.calls : k.here) /\ (\A j, k \in w.calls : j = k)
FinishOK(w, h, k) ==
  /\ k.at \in {"finish", "finishMode", "finishComplete"} => k.name = w.pendingSelection
  /\ k.at \in {"finishMode", "finishComplete"} => Suits(h, k.name, k.mode)
  /\ k.at = "finishComplete" => h.mode = k.mode
EndedOK(w, h) ==
  w.by = "finish" /\ AnEntry!Entered(w) =>
    w.calls = {} /\ w.status.connection_mode = h.mode /\ Suits(h, w.pendingSelection, h.mode)

EntryGood(w, h) ==
  /\ w \in EntryStates /\ h \in HostStates
  /\ ~w.late => OneCall(w) /\ (\A k \in w.calls : FinishOK(w, h, k)) /\ EndedOK(w, h)
EntryInv == EntryGood(a, b) /\ c \in ReadStates

LEMMA EntryHolds == ASSUME EntryInv PROVE AnEntry!EntryTypeOK /\ AnEntry!EnteredAsChosen
<1>1. AnEntry!EntryTypeOK
  BY DEF EntryInv, EntryGood, EntryStates, HostStates, ReadStates, AnEntry!EntryTypeOK
<1>2. AnEntry!EnteredAsChosen
  BY DEF EntryInv, EntryGood, EndedOK, Suits, AnEntry!EnteredAsChosen
<1> QED
  BY <1>1, <1>2

LEMMA EntryStarts == ASSUME AnEntry!EntryInit PROVE EntryInv
<1> DEFINE off == FALSE
           none == {}
<1>1. AnEntry!NoStatus \in AnEntry!Statuses /\ ~AnEntry!NoStatus.authenticated
  BY DEF AnEntry!NoStatus, AnEntry!Statuses, AnEntry!Modes
<1>2. a = [status |-> AnEntry!NoStatus, step |-> "network", mode |-> "online", touched |-> off, calls |-> none, late |-> off,
           pendingSelection |-> NoName, pendingReauth |-> off, reauth |-> off, unlock |-> "none", by |-> "answer"]
  BY DEF AnEntry!EntryInit
<1>3. off \in BOOLEAN /\ none \in SUBSET AnEntry!CallsMade /\ none = {}
  OBVIOUS
<1> HIDE DEF off, none
<1>4. a \in EntryStates /\ a.calls = none /\ a.by = "answer"
  BY <1>1, <1>2, <1>3 DEF EntryStates, AnEntry!SetupSteps, AnEntry!Modes
<1>5. b \in HostStates
  BY DEF AnEntry!EntryInit, HostStates
<1>6. c \in ReadStates
  BY <1>1 DEF AnEntry!EntryInit, AnEntry!Idle, ReadStates
<1> QED
  BY <1>3, <1>4, <1>5, <1>6 DEF EntryInv, EntryGood, OneCall, EndedOK

-----------------------------------------------------------------------------
\* What is done to the window without a call beginning or ending.
Same(x, w) == x.status = w.status /\ x.by = w.by /\ x.pendingSelection = w.pendingSelection
Kept(x, w) == ~x.late => ~w.late /\ x.calls = w.calls

LEMMA DrawnOK ==
  ASSUME NEW w \in EntryStates
  PROVE  AnEntry!Drawn(w) \in EntryStates /\ Same(AnEntry!Drawn(w), w) /\ Kept(AnEntry!Drawn(w), w)
<1> DEFINE gone(k) == AnEntry!Gone(k, w)
           F(k) == [k EXCEPT !.here = @ /\ ~gone(k)]
           calls == {F(k) : k \in w.calls}
           late == w.late \/ \E k \in w.calls : gone(k)
           x == AnEntry!Drawn(w)
<1>1. w.calls \in SUBSET AnEntry!CallsMade /\ w.late \in BOOLEAN
  BY DEF EntryStates
<1>2. \A k \in AnEntry!CallsMade : F(k) \in AnEntry!CallsMade /\ (~gone(k) => F(k) = k)
  <2> SUFFICES ASSUME NEW k \in AnEntry!CallsMade PROVE F(k) \in AnEntry!CallsMade /\ (~gone(k) => F(k) = k)
    OBVIOUS
  <2> DEFINE here == k.here /\ ~gone(k)
  <2>1. here \in BOOLEAN /\ (~gone(k) => here = k.here) /\ F(k) = [k EXCEPT !.here = here]
    BY DEF AnEntry!CallsMade
  <2> HIDE DEF here, gone
  <2> QED
    BY <2>1 DEF AnEntry!CallsMade
<1>3. x = [w EXCEPT !.calls = calls, !.late = late]
  BY DEF AnEntry!Drawn, EntryStates
<1> HIDE DEF F, gone
<1>4. calls \in SUBSET AnEntry!CallsMade /\ late \in BOOLEAN
  BY <1>1, <1>2
<1>5. ~late => ~w.late /\ calls = w.calls
  BY <1>1, <1>2
<1> HIDE DEF calls, late, x
<1>6. x \in EntryStates /\ x.calls = calls /\ x.late = late /\ x.status = w.status /\ x.by = w.by
      /\ x.pendingSelection = w.pendingSelection
  BY <1>3, <1>4 DEF EntryStates
<1> QED
  BY <1>5, <1>6 DEF x, Same, Kept

LEMMA ReauthedOK ==
  ASSUME NEW w \in EntryStates
  PROVE  /\ AnEntry!Reauthed(w) \in EntryStates /\ Same(AnEntry!Reauthed(w), w)
         /\ AnEntry!Reauthed(w).calls = w.calls /\ AnEntry!Reauthed(w).late = w.late
<1> DEFINE reauth == w.reauth \/ (w.pendingReauth /\ AnEntry!Entered(w))
           pending == w.pendingReauth /\ w.status.authenticated /\ ~AnEntry!Entered(w)
<1>1. AnEntry!Reauthed(w) = [w EXCEPT !.reauth = reauth, !.pendingReauth = pending] /\ reauth \in BOOLEAN /\ pending \in BOOLEAN
  BY DEF AnEntry!Reauthed, EntryStates
<1> HIDE DEF reauth, pending
<1> QED
  BY <1>1 DEF EntryStates, Same

LEMMA AcceptOK ==
  ASSUME NEW w \in EntryStates, NEW status \in AnEntry!Statuses, NEW step \in AnEntry!SetupSteps \cup {"none"}
  PROVE  /\ AnEntry!acceptStatus(w, status, step) \in EntryStates
         /\ AnEntry!acceptStatus(w, status, step).by = "answer"
         /\ AnEntry!acceptStatus(w, status, step).pendingSelection = w.pendingSelection
         /\ Kept(AnEntry!acceptStatus(w, status, step), w)
<1> DEFINE mode == IF w.touched THEN w.mode ELSE status.connection_mode
           x == [w EXCEPT !.status = status, !.by = "answer", !.mode = mode]
           y == AnEntry!Accepted(w, status)
           next == IF step # "none" THEN step ELSE IF status.authenticated THEN "network" ELSE y.step
           z == [y EXCEPT !.step = next]
<1>1. mode \in AnEntry!Modes
  BY DEF EntryStates, AnEntry!Statuses
<1>2. y = AnEntry!Reauthed(x)
  BY DEF AnEntry!Accepted, EntryStates
<1> HIDE DEF mode
<1>3. x \in EntryStates /\ x.by = "answer" /\ x.pendingSelection = w.pendingSelection /\ x.calls = w.calls /\ x.late = w.late
  BY <1>1 DEF EntryStates
<1> HIDE DEF x
<1>4. y \in EntryStates /\ y.by = "answer" /\ y.pendingSelection = w.pendingSelection /\ y.calls = w.calls /\ y.late = w.late
  BY <1>2, <1>3, ReauthedOK DEF Same
<1> HIDE DEF y
<1>5. next \in AnEntry!SetupSteps
  BY <1>4 DEF EntryStates, AnEntry!SetupSteps
<1>6. AnEntry!acceptStatus(w, status, step) = AnEntry!Drawn(z)
  BY <1>4 DEF AnEntry!acceptStatus, y, EntryStates
<1> HIDE DEF next
<1>7. z \in EntryStates /\ z.by = "answer" /\ z.pendingSelection = w.pendingSelection /\ z.calls = w.calls /\ z.late = w.late
  BY <1>4, <1>5 DEF EntryStates
<1> HIDE DEF z
<1> QED
  BY <1>6, <1>7, DrawnOK DEF Same, Kept

LEMMA StatusOvertaken ==
  ASSUME NEW w \in EntryStates
  PROVE  /\ AnEntry!Overtaken(w) \in EntryStates /\ Same(AnEntry!Overtaken(w), w)
         /\ Kept(AnEntry!Overtaken(w), w) /\ (~AnEntry!Overtaken(w).late => w.calls = {})
<1> DEFINE late == w.late \/ w.calls # {}
<1>1. AnEntry!Overtaken(w) = [w EXCEPT !.late = late] /\ late \in BOOLEAN
  BY DEF AnEntry!Overtaken, EntryStates
<1>2. ~late => ~w.late /\ w.calls = {}
  OBVIOUS
<1> HIDE DEF late
<1> QED
  BY <1>1, <1>2 DEF EntryStates, Same, Kept

LEMMA StatusOK == ASSUME NEW h \in HostStates PROVE AnEntry!StatusOf(h) \in AnEntry!Statuses
                  /\ AnEntry!StatusOf(h).connection_mode = h.mode
<1> DEFINE linked == h.session /\ h.linked
           configured == h.session /\ h.configured
           on == TRUE
<1>1. linked \in BOOLEAN /\ configured \in BOOLEAN /\ on \in BOOLEAN /\ h.initialized \in BOOLEAN /\ h.session \in BOOLEAN
      /\ h.mode \in AnEntry!Modes
  BY DEF HostStates
<1>2. AnEntry!StatusOf(h) = [known |-> on, linked |-> linked, initialized |-> h.initialized, authenticated |-> h.session,
                             configured |-> configured, connection_mode |-> h.mode]
  BY DEF AnEntry!StatusOf
<1> HIDE DEF linked, configured, on
<1> QED
  BY <1>1, <1>2 DEF AnEntry!Statuses

-----------------------------------------------------------------------------
\* No call begins, and the host keeps what a finished setup stands on.
LEMMA EntryKeeps ==
  ASSUME EntryInv, a' \in EntryStates, b' \in HostStates, c' \in ReadStates, Kept(a', a),
         a'.pendingSelection = a.pendingSelection,
         ~a'.late /\ a'.calls # {} => b'.providers = b.providers /\ b'.mode = b.mode,
         a'.by = "answer" \/ (a'.by = a.by /\ a'.status = a.status /\ b'.providers = b.providers /\ b'.mode = b.mode)
  PROVE  EntryInv'
<1> SUFFICES ASSUME ~a'.late PROVE OneCall(a') /\ (\A k \in a'.calls : FinishOK(a', b', k)) /\ EndedOK(a', b')
  BY DEF EntryInv, EntryGood
<1>1. ~a.late /\ a'.calls = a.calls /\ OneCall(a) /\ (\A k \in a.calls : FinishOK(a, b, k)) /\ EndedOK(a, b)
  BY DEF EntryInv, EntryGood, Kept
<1>2. OneCall(a')
  BY <1>1 DEF OneCall
<1>3. \A k \in a'.calls : FinishOK(a', b', k)
  BY <1>1 DEF FinishOK, Suits
<1>4. EndedOK(a', b')
  BY <1>1 DEF EndedOK, Suits, AnEntry!Entered
<1> QED
  BY <1>2, <1>3, <1>4

\* A call begins when none is awaited.
LEMMA EntryCalls ==
  ASSUME EntryInv, a' \in EntryStates, b' = b, c' = c, AnEntry!Free, NEW k0, k0 \in AnEntry!CallsMade, k0.here,
         a'.calls = a.calls \cup {k0}, a'.late = a.late, Same(a', a),
         k0.at \in {"finish", "finishMode", "finishComplete"} => k0.at = "finish" /\ k0.name = a.pendingSelection
  PROVE  EntryInv'
<1> SUFFICES ASSUME ~a'.late PROVE OneCall(a') /\ (\A k \in a'.calls : FinishOK(a', b', k)) /\ EndedOK(a', b')
  BY DEF EntryInv, EntryGood
<1>1. a'.calls = {k0}
  BY DEF EntryInv, EntryGood, OneCall, AnEntry!Free
<1>2. OneCall(a') /\ \A k \in a'.calls : FinishOK(a', b', k)
  BY <1>1 DEF OneCall, FinishOK, Same
<1>3. EndedOK(a', b')
  BY DEF AnEntry!Free, EndedOK, AnEntry!Entered, Same
<1> QED
  BY <1>2, <1>3

\* A call is answered: it ends, or goes on as k0.
LEMMA EntryAnswers ==
  ASSUME EntryInv, a' \in EntryStates, b' \in HostStates, c' = c, NEW k \in a.calls, NEW k0, k0.here = k.here,
         ~a'.late => ~a.late /\ a'.calls \subseteq (a.calls \ {k}) \cup {k0},
         a'.by = "answer" \/ (a'.by = a.by /\ a'.status = a.status),
         ~a'.late /\ k0 \in a'.calls => FinishOK(a', b', k0)
  PROVE  EntryInv'
<1> SUFFICES ASSUME ~a'.late PROVE OneCall(a') /\ (\A j \in a'.calls : FinishOK(a', b', j)) /\ EndedOK(a', b')
  BY DEF EntryInv, EntryGood
<1>1. a.calls = {k} /\ k.here /\ EndedOK(a, b)
  BY DEF EntryInv, EntryGood, OneCall
<1>2. a'.calls \subseteq {k0}
  BY <1>1
<1>3. OneCall(a') /\ \A j \in a'.calls : FinishOK(a', b', j)
  BY <1>1, <1>2 DEF OneCall
<1>4. EndedOK(a', b')
  BY <1>1 DEF EndedOK, AnEntry!Entered
<1> QED
  BY <1>3, <1>4

LEMMA EntryEnds ==
  ASSUME EntryInv, a' \in EntryStates, b' \in HostStates, c' = c, NEW k \in a.calls,
         ~a'.late => ~a.late /\ a'.calls \subseteq a.calls \ {k},
         a'.by = "answer" \/ (a'.by = a.by /\ a'.status = a.status)
  PROVE  EntryInv'
<1> SUFFICES ASSUME ~a'.late PROVE OneCall(a') /\ (\A j \in a'.calls : FinishOK(a', b', j)) /\ EndedOK(a', b')
  BY DEF EntryInv, EntryGood
<1>1. a.calls = {k} /\ EndedOK(a, b)
  BY DEF EntryInv, EntryGood, OneCall
<1>2. a'.calls = {}
  BY <1>1
<1> QED
  BY <1>1, <1>2 DEF OneCall, EndedOK, AnEntry!Entered

-----------------------------------------------------------------------------
\* The window after a call was answered, and the host after it obeyed one.
LEMMA DoneOK ==
  ASSUME EntryInv, NEW k \in a.calls
  PROVE  /\ AnEntry!Done(k) \in EntryStates /\ Same(AnEntry!Done(k), a)
         /\ AnEntry!Done(k).calls = a.calls \ {k} /\ AnEntry!Done(k).late = a.late /\ k \in AnEntry!CallsMade
<1> DEFINE calls == a.calls \ {k}
<1>1. a \in EntryStates /\ a.calls \in SUBSET AnEntry!CallsMade
  BY DEF EntryInv, EntryGood, EntryStates
<1>2. AnEntry!Done(k) = [a EXCEPT !.calls = calls] /\ calls \in SUBSET AnEntry!CallsMade
  BY <1>1 DEF AnEntry!Done, EntryStates
<1> HIDE DEF calls
<1>3. AnEntry!Done(k) \in EntryStates /\ AnEntry!Done(k).calls = calls /\ AnEntry!Done(k).late = a.late /\ Same(AnEntry!Done(k), a)
  BY <1>1, <1>2 DEF EntryStates, Same
<1> QED
  BY <1>1, <1>3 DEF calls

LEMMA StartsOK ==
  ASSUME NEW w \in EntryStates, NEW k \in AnEntry!CallsMade
  PROVE  /\ AnEntry!Starts(w, k) \in EntryStates /\ Same(AnEntry!Starts(w, k), w)
         /\ AnEntry!Starts(w, k).calls = w.calls \cup {k} /\ AnEntry!Starts(w, k).late = w.late
<1> DEFINE calls == w.calls \cup {k}
<1>1. w.calls \in SUBSET AnEntry!CallsMade
  BY DEF EntryStates
<1>2. AnEntry!Starts(w, k) = [w EXCEPT !.calls = calls] /\ calls \in SUBSET AnEntry!CallsMade
  BY <1>1 DEF AnEntry!Starts, EntryStates
<1> HIDE DEF calls
<1>3. AnEntry!Starts(w, k) \in EntryStates /\ AnEntry!Starts(w, k).calls = calls /\ AnEntry!Starts(w, k).late = w.late
      /\ Same(AnEntry!Starts(w, k), w)
  BY <1>2 DEF EntryStates, Same
<1> QED
  BY <1>3 DEF calls

LEMMA OnwardOK ==
  ASSUME EntryInv, NEW k \in a.calls, NEW at \in AnEntry!Calls
  PROVE  LET k0 == [k EXCEPT !.at = at] IN
         /\ AnEntry!Onward(k, at) \in EntryStates /\ Same(AnEntry!Onward(k, at), a)
         /\ AnEntry!Onward(k, at).calls = (a.calls \ {k}) \cup {k0} /\ AnEntry!Onward(k, at).late = a.late
         /\ k0 \in AnEntry!CallsMade /\ k0.at = at /\ k0.here = k.here /\ k0.name = k.name /\ k0.mode = k.mode
<1> DEFINE k0 == [k EXCEPT !.at = at]
           w == AnEntry!Done(k)
<1>1. w \in EntryStates /\ Same(w, a) /\ w.calls = a.calls \ {k} /\ w.late = a.late /\ k \in AnEntry!CallsMade
  BY DoneOK
<1>2. k0 \in AnEntry!CallsMade /\ k0.at = at /\ k0.here = k.here /\ k0.name = k.name /\ k0.mode = k.mode
  BY <1>1 DEF AnEntry!CallsMade
<1>3. AnEntry!Onward(k, at) = AnEntry!Starts(w, k0)
  BY DEF AnEntry!Onward
<1> HIDE DEF k0, w
<1>4. /\ AnEntry!Starts(w, k0) \in EntryStates /\ Same(AnEntry!Starts(w, k0), w)
      /\ AnEntry!Starts(w, k0).calls = w.calls \cup {k0} /\ AnEntry!Starts(w, k0).late = w.late
  BY <1>1, <1>2, StartsOK
<1>5. /\ AnEntry!Onward(k, at) \in EntryStates /\ Same(AnEntry!Onward(k, at), a)
      /\ AnEntry!Onward(k, at).calls = (a.calls \ {k}) \cup {k0} /\ AnEntry!Onward(k, at).late = a.late
  BY <1>1, <1>3, <1>4 DEF Same
<1> QED
  BY <1>2, <1>5 DEF k0

LEMMA ModeOK ==
  ASSUME b \in HostStates, NEW mode \in AnEntry!Modes
  PROVE  /\ AnEntry!ModeIsSet(mode) => b' \in HostStates /\ b'.mode = mode /\ b'.providers = b.providers
         /\ AnEntry!ModeFails(mode) => b' \in HostStates
BY DEF AnEntry!ModeIsSet, AnEntry!ModeFails, HostStates

LEMMA OpensOK ==
  ASSUME b \in HostStates
  PROVE  LET linked == [AnEntry!Opens EXCEPT !.linked = TRUE] IN
         /\ AnEntry!Opens \in HostStates /\ [AnEntry!Opens EXCEPT !.session = b.session] \in HostStates
         /\ linked \in HostStates /\ [linked EXCEPT !.session = b.session] \in HostStates
<1> DEFINE on == TRUE
           h == AnEntry!Opens
           l == [h EXCEPT !.linked = on]
<1>1. h = [b EXCEPT !.initialized = on, !.session = on] /\ on \in BOOLEAN /\ b.session \in BOOLEAN
  BY DEF AnEntry!Opens, HostStates
<1> HIDE DEF on, h
<1>2. h \in HostStates
  BY <1>1 DEF HostStates
<1>3. l \in HostStates /\ [h EXCEPT !.session = b.session] \in HostStates
  BY <1>1, <1>2 DEF HostStates
<1> HIDE DEF l
<1>4. [l EXCEPT !.session = b.session] \in HostStates
  BY <1>1, <1>3 DEF HostStates
<1> QED
  BY <1>2, <1>3, <1>4 DEF h, l, on

\* The answer of a call that only ends it, whatever the host did.
LEMMA EntryFails ==
  ASSUME EntryInv, NEW k \in a.calls, AnEntry!Fails(k), b' \in HostStates, c' = c
  PROVE  EntryInv'
BY DoneOK, EntryEnds DEF AnEntry!Fails, Same

\* A call goes on with one that is not a finish, and the window stays.
LEMMA EntryGoesOn ==
  ASSUME EntryInv, NEW k \in a.calls, NEW at \in AnEntry!Calls \ {"finish", "finishMode", "finishComplete"},
         AnEntry!ContinuesWith(k, at), b' \in HostStates, c' = c
  PROVE  EntryInv'
<1> DEFINE k0 == [k EXCEPT !.at = at]
<1>1. /\ a' \in EntryStates /\ Same(a', a) /\ a'.calls = (a.calls \ {k}) \cup {k0} /\ a'.late = a.late
      /\ k0.at = at /\ k0.here = k.here
  BY OnwardOK DEF AnEntry!ContinuesWith
<1> HIDE DEF k0
<1>2. FinishOK(a', b', k0)
  BY <1>1 DEF FinishOK
<1> QED
  BY <1>1, <1>2, EntryAnswers DEF Same

-----------------------------------------------------------------------------
\* The status and the session.
LEMMA StatusReadMoves ==
  ASSUME EntryInv, NEW r \in StatusReads,
         AnEntry!AskStatus(r) \/ AnEntry!AnswerStatus(r) \/ AnEntry!StatusFails(r) \/ AnEntry!StatusArrives(r)
  PROVE  EntryInv'
<1>1. /\ a \in EntryStates /\ b \in HostStates /\ c \in ReadStates /\ AnEntry!Idle \in [at : {"idle", "asked", "answered"}, status : AnEntry!Statuses]
      /\ c[r] \in [at : {"idle", "asked", "answered"}, status : AnEntry!Statuses]
  BY DEF EntryInv, EntryGood, ReadStates, AnEntry!Idle, AnEntry!NoStatus, AnEntry!Statuses, AnEntry!Modes
<1>2. AnEntry!StatusOf(b) \in AnEntry!Statuses
  BY <1>1, StatusOK
<1>3. b' = b
  BY DEF AnEntry!AskStatus, AnEntry!AnswerStatus, AnEntry!StatusFails, AnEntry!StatusArrives
<1>4. CASE AnEntry!AskStatus(r) \/ AnEntry!AnswerStatus(r) \/ AnEntry!StatusFails(r)
  <2>1. a' = a
    BY <1>4 DEF AnEntry!AskStatus, AnEntry!AnswerStatus, AnEntry!StatusFails
  <2>2. c' \in ReadStates
    <3>1. CASE AnEntry!AskStatus(r)
      BY <1>1, <3>1 DEF AnEntry!AskStatus, ReadStates
    <3>2. CASE AnEntry!AnswerStatus(r)
      BY <1>1, <1>2, <3>2 DEF AnEntry!AnswerStatus, ReadStates
    <3>3. CASE AnEntry!StatusFails(r)
      BY <1>1, <3>3 DEF AnEntry!StatusFails, ReadStates
    <3> QED
      BY <1>4, <3>1, <3>2, <3>3
  <2>3. Kept(a', a)
    BY <2>1 DEF Kept
  <2> QED
    BY <1>1, <1>3, <2>1, <2>2, <2>3, EntryKeeps
<1>5. CASE AnEntry!StatusArrives(r)
  <2> DEFINE w == AnEntry!Overtaken(a)
  <2>1. a' = AnEntry!acceptStatus(w, c[r].status, "none") /\ c' = [c EXCEPT ![r] = AnEntry!Idle]
    BY <1>5 DEF AnEntry!StatusArrives
  <2>2. c' \in ReadStates /\ c[r].status \in AnEntry!Statuses
    BY <1>1, <2>1 DEF ReadStates
  <2>3. w \in EntryStates /\ Same(w, a) /\ Kept(w, a)
    BY <1>1, StatusOvertaken
  <2> HIDE DEF w
  <2>4. a' \in EntryStates /\ a'.by = "answer" /\ a'.pendingSelection = w.pendingSelection /\ Kept(a', w)
    BY <2>1, <2>2, <2>3, AcceptOK
  <2>5. Kept(a', a) /\ a'.pendingSelection = a.pendingSelection
    BY <2>3, <2>4 DEF Kept, Same
  <2> QED
    BY <1>1, <1>3, <2>2, <2>4, <2>5, EntryKeeps
<1> QED
  BY <1>4, <1>5

\* The fields of the window that no invariant speaks of.
EntrySet(reauth, pending, unlock, step) ==
  [a EXCEPT !.reauth = reauth, !.pendingReauth = pending, !.unlock = unlock, !.step = step]

LEMMA SessionMoves ==
  ASSUME EntryInv, \/ AnEntry!SessionEnds \/ AnEntry!LoginRequired \/ AnEntry!WorkspaceStarts \/ AnEntry!reauthenticate
                   \/ AnEntry!Unlocked \/ AnEntry!LoginRestored
                   \/ \E step \in AnEntry!SetupSteps : AnEntry!goto(step)
  PROVE  EntryInv'
<1> DEFINE on == TRUE
           off == FALSE
<1>1. a \in EntryStates /\ b \in HostStates /\ c \in ReadStates /\ on \in BOOLEAN /\ off \in BOOLEAN
  BY DEF EntryInv, EntryGood
<1>2. c' = c
  BY DEF AnEntry!SessionEnds, AnEntry!LoginRequired, AnEntry!WorkspaceStarts, AnEntry!reauthenticate, AnEntry!Unlocked,
         AnEntry!LoginRestored, AnEntry!goto
<1> HIDE DEF on, off
<1>3. ASSUME a' = a, b' \in {[b EXCEPT !.session = off], [b EXCEPT !.started = on]} PROVE EntryInv'
  <2>1. b' \in HostStates /\ b'.providers = b.providers /\ b'.mode = b.mode
    BY <1>1, <1>3 DEF HostStates
  <2> QED
    BY <1>1, <1>2, <1>3, <2>1, EntryKeeps DEF Kept
<1>4. ASSUME NEW reauth \in BOOLEAN, NEW pending \in BOOLEAN, NEW unlock \in {"none", "reauth", "reauthStatus"}, NEW step \in AnEntry!SetupSteps,
             a' = EntrySet(reauth, pending, unlock, step),
             b' \in {b, [b EXCEPT !.session = on]}
      PROVE  EntryInv'
  <2>1. b' \in HostStates /\ b'.providers = b.providers /\ b'.mode = b.mode
    BY <1>1, <1>4 DEF HostStates
  <2>2. /\ a' \in EntryStates /\ a'.pendingSelection = a.pendingSelection /\ a'.by = a.by /\ a'.status = a.status
        /\ a'.calls = a.calls /\ a'.late = a.late
    BY <1>1, <1>4 DEF EntryStates, EntrySet
  <2>3. Kept(a', a)
    BY <2>2 DEF Kept
  <2> QED
    BY <1>1, <1>2, <2>1, <2>2, <2>3, EntryKeeps
<1>5. a.reauth \in BOOLEAN /\ a.pendingReauth \in BOOLEAN /\ a.unlock \in {"none", "reauth", "reauthStatus"} /\ a.step \in AnEntry!SetupSteps
  BY <1>1 DEF EntryStates
<1>6. /\ \A x : [a EXCEPT !.unlock = x] = EntrySet(a.reauth, a.pendingReauth, x, a.step)
      /\ \A x : [a EXCEPT !.step = x] = EntrySet(a.reauth, a.pendingReauth, a.unlock, x)
      /\ [a EXCEPT !.pendingReauth = on] = EntrySet(a.reauth, on, a.unlock, a.step)
      /\ [a EXCEPT !.reauth = on, !.pendingReauth = off] = EntrySet(on, off, a.unlock, a.step)
  BY <1>1 DEF EntryStates, EntrySet
<1>7. CASE AnEntry!SessionEnds
  BY <1>3, <1>7 DEF AnEntry!SessionEnds, off
<1>8. CASE AnEntry!LoginRequired
  <2>1. b' = b /\ a' \in {[a EXCEPT !.reauth = on, !.pendingReauth = off], [a EXCEPT !.pendingReauth = on]}
    BY <1>8 DEF AnEntry!LoginRequired, on, off
  <2> QED
    <3>1. a' = EntrySet(on, off, a.unlock, a.step) \/ a' = EntrySet(a.reauth, on, a.unlock, a.step)
      BY <1>6, <2>1
    <3> QED
      BY ONLY <1>1, <1>4, <1>5, <2>1, <3>1
<1>9. CASE AnEntry!WorkspaceStarts
  BY <1>3, <1>9 DEF AnEntry!WorkspaceStarts, on
<1>10. CASE AnEntry!reauthenticate
  <2>1. b' = b /\ a' = [a EXCEPT !.unlock = "reauth"]
    BY <1>10 DEF AnEntry!reauthenticate
  <2> QED
    <3>1. a' = EntrySet(a.reauth, a.pendingReauth, "reauth", a.step)
      BY <1>6, <2>1
    <3> QED
      BY ONLY <1>4, <1>5, <2>1, <3>1
<1>11. CASE AnEntry!Unlocked
  <2>1. b' \in {b, [b EXCEPT !.session = on]} /\ (a' = [a EXCEPT !.unlock = "none"] \/ a' = [a EXCEPT !.unlock = "reauthStatus"])
    BY <1>11 DEF AnEntry!Unlocked, AnEntry!NotUnlocked, on
  <2> QED
    <3>1. \/ a' = EntrySet(a.reauth, a.pendingReauth, "none", a.step)
          \/ a' = EntrySet(a.reauth, a.pendingReauth, "reauthStatus", a.step)
      BY <1>6, <2>1
    <3> QED
      BY ONLY <1>4, <1>5, <2>1, <3>1
<1>12. CASE AnEntry!LoginRestored
  <2> DEFINE w == AnEntry!Overtaken(a)
             x == AnEntry!acceptStatus(w, AnEntry!StatusOf(b), "none")
  <2>1. b' = b /\ (a' = [a EXCEPT !.unlock = "none"] \/ a' = [x EXCEPT !.unlock = "none", !.reauth = off])
    BY <1>12 DEF AnEntry!LoginRestored, AnEntry!NotUnlocked, off
  <2>2. w \in EntryStates /\ Same(w, a) /\ Kept(w, a) /\ AnEntry!StatusOf(b) \in AnEntry!Statuses
    BY <1>1, StatusOvertaken, StatusOK
  <2> HIDE DEF w
  <2>3. x \in EntryStates /\ x.by = "answer" /\ x.pendingSelection = w.pendingSelection /\ Kept(x, w)
    BY <2>2, AcceptOK
  <2> HIDE DEF x
  <2>4. CASE a' = [a EXCEPT !.unlock = "none"]
    <3>1. a' = EntrySet(a.reauth, a.pendingReauth, "none", a.step)
      BY <1>6, <2>4
    <3> QED
      BY ONLY <1>4, <1>5, <2>1, <3>1
  <2>5. CASE a' = [x EXCEPT !.unlock = "none", !.reauth = off]
    <3>1. a' \in EntryStates /\ a'.by = x.by /\ a'.pendingSelection = x.pendingSelection /\ a'.calls = x.calls /\ a'.late = x.late
      BY <1>1, <2>3, <2>5 DEF EntryStates
    <3>2. Kept(a', a) /\ a'.pendingSelection = a.pendingSelection /\ a'.by = "answer"
      BY <2>2, <2>3, <3>1 DEF Kept, Same
    <3> QED
      BY <1>1, <1>2, <2>1, <3>1, <3>2, EntryKeeps
  <2> QED
    BY <2>1, <2>4, <2>5
<1>13. ASSUME NEW step \in AnEntry!SetupSteps, AnEntry!goto(step) PROVE EntryInv'
  <2>1. b' = b /\ a' = [a EXCEPT !.step = step]
    BY <1>13 DEF AnEntry!goto
  <2> QED
    <3>1. a' = EntrySet(a.reauth, a.pendingReauth, a.unlock, step)
      BY <1>6, <2>1
    <3> QED
      BY ONLY <1>4, <1>5, <1>13, <2>1, <3>1
<1> QED
  BY <1>7, <1>8, <1>9, <1>10, <1>11, <1>12, <1>13

LEMMA WorkspaceSavesOK ==
  ASSUME EntryInv, NEW name \in ProviderNames, NEW reach \in AnEntry!Reaches \cup {"none"}, AnEntry!WorkspaceSaves(name, reach)
  PROVE  EntryInv'
<1> DEFINE w == AnEntry!Overtaken(a)
           providers == [b.providers EXCEPT ![name] = reach]
<1>1. a \in EntryStates /\ b \in HostStates /\ c \in ReadStates /\ c' = c
  BY DEF EntryInv, EntryGood, AnEntry!WorkspaceSaves
<1>2. a' = [w EXCEPT !.by = "answer"] /\ b' = [b EXCEPT !.providers = providers]
  BY <1>1 DEF AnEntry!WorkspaceSaves, HostStates
<1>3. providers \in [ProviderNames -> AnEntry!Reaches \cup {"none"}]
  BY <1>1 DEF HostStates
<1>4. w \in EntryStates /\ Same(w, a) /\ Kept(w, a) /\ (~w.late => a.calls = {})
  BY <1>1, StatusOvertaken
<1> HIDE DEF w, providers
<1>5. a' \in EntryStates /\ a'.by = "answer" /\ a'.pendingSelection = w.pendingSelection /\ a'.calls = w.calls /\ a'.late = w.late
  BY <1>2, <1>4 DEF EntryStates
<1>6. b' \in HostStates
  BY <1>1, <1>2, <1>3 DEF HostStates
<1>7. Kept(a', a) /\ a'.pendingSelection = a.pendingSelection /\ (~a'.late => a'.calls = {})
  BY <1>4, <1>5 DEF Kept, Same
<1> QED
  BY <1>1, <1>5, <1>6, <1>7, EntryKeeps

-----------------------------------------------------------------------------
\* Calls begin.
LEMMA CallOK ==
  ASSUME NEW at \in AnEntry!Calls, NEW mode \in AnEntry!Modes
  PROVE  /\ AnEntry!Call(at, mode) \in AnEntry!CallsMade /\ AnEntry!Call(at, mode).at = at
         /\ AnEntry!Call(at, mode).here /\ AnEntry!Call(at, mode).mode = mode
<1> DEFINE on == TRUE
           off == FALSE
<1>1. AnEntry!Call(at, mode) = [at |-> at, here |-> on, name |-> NoName, reach |-> "local", test |-> off, mode |-> mode]
      /\ on \in BOOLEAN /\ off \in BOOLEAN /\ on
  BY DEF AnEntry!Call
<1> HIDE DEF on, off
<1>2. AnEntry!Call(at, mode).here = on
  BY <1>1
<1> QED
  BY <1>1, <1>2 DEF AnEntry!CallsMade, AnEntry!Reaches

LEMMA CallsBegin ==
  ASSUME EntryInv, \/ AnEntry!login \/ AnEntry!submit \/ AnEntry!finish
                   \/ \E mode \in AnEntry!Modes : AnEntry!changeMode(mode)
                   \/ \E name \in ProviderNames, reach \in AnEntry!Reaches, test \in BOOLEAN : AnEntry!save(name, reach, test)
  PROVE  EntryInv'
<1>1. a \in EntryStates /\ b \in HostStates /\ a.mode \in AnEntry!Modes /\ a.pendingSelection \in ProviderNames \cup {NoName}
  BY DEF EntryInv, EntryGood, EntryStates
<1>2. b' = b /\ c' = c /\ AnEntry!Free
  BY DEF AnEntry!login, AnEntry!submit, AnEntry!finish, AnEntry!changeMode, AnEntry!save, AnEntry!Begins
<1>3. ASSUME NEW w \in EntryStates, Same(w, a), w.calls = a.calls, w.late = a.late, NEW k \in AnEntry!CallsMade, k.here,
             a' = AnEntry!Starts(w, k),
             k.at \in {"finish", "finishMode", "finishComplete"} => k.at = "finish" /\ k.name = a.pendingSelection
      PROVE  EntryInv'
  <2>1. a' \in EntryStates /\ Same(a', w) /\ a'.calls = w.calls \cup {k} /\ a'.late = w.late
    BY <1>3, StartsOK
  <2>2. Same(a', a) /\ a'.calls = a.calls \cup {k} /\ a'.late = a.late
    BY <1>3, <2>1 DEF Same
  <2> QED
    BY <1>2, <1>3, <2>1, <2>2, EntryCalls
<1>4. Same(a, a)
  BY DEF Same
<1>5. CASE AnEntry!login \/ AnEntry!submit
  <2>1. PICK at \in {"login", "link"} : a' = AnEntry!Starts(a, AnEntry!Call(at, a.mode))
    BY <1>5 DEF AnEntry!login, AnEntry!submit, AnEntry!Begins
  <2>2. at \in AnEntry!Calls
    BY DEF AnEntry!Calls
  <2>3. AnEntry!Call(at, a.mode) \in AnEntry!CallsMade /\ AnEntry!Call(at, a.mode).at = at /\ AnEntry!Call(at, a.mode).here
    BY <1>1, <2>2, CallOK
  <2> QED
    BY <1>1, <1>3, <1>4, <2>1, <2>3
<1>6. CASE AnEntry!finish
  <2> DEFINE k0 == AnEntry!Call("finish", a.mode)
             k == [k0 EXCEPT !.name = a.pendingSelection]
  <2>1. "finish" \in AnEntry!Calls
    BY DEF AnEntry!Calls
  <2>2. k0 \in AnEntry!CallsMade /\ k0.at = "finish" /\ k0.here
    BY <1>1, <2>1, CallOK
  <2>3. a' = AnEntry!Starts(a, k)
    BY <1>6 DEF AnEntry!finish
  <2> HIDE DEF k0
  <2>4. k \in AnEntry!CallsMade /\ k.at = "finish" /\ k.here /\ k.name = a.pendingSelection
    BY <1>1, <2>2 DEF AnEntry!CallsMade
  <2> HIDE DEF k
  <2> QED
    BY <1>1, <1>3, <1>4, <2>3, <2>4
<1>7. ASSUME NEW mode \in AnEntry!Modes, AnEntry!changeMode(mode) PROVE EntryInv'
  <2> DEFINE on == TRUE
             w == [a EXCEPT !.touched = on]
  <2>1. \/ a' = AnEntry!Starts(w, AnEntry!Call("mode", mode))
        \/ a' = [w EXCEPT !.mode = mode]
    BY <1>7 DEF AnEntry!changeMode
  <2>2. on \in BOOLEAN
    OBVIOUS
  <2> HIDE DEF on
  <2>3. w \in EntryStates /\ w.calls = a.calls /\ w.late = a.late /\ Same(w, a)
    BY <1>1, <2>2 DEF EntryStates, Same
  <2> HIDE DEF w
  <2>4. CASE a' = AnEntry!Starts(w, AnEntry!Call("mode", mode))
    <3>1. "mode" \in AnEntry!Calls
      BY DEF AnEntry!Calls
    <3>2. AnEntry!Call("mode", mode) \in AnEntry!CallsMade /\ AnEntry!Call("mode", mode).at = "mode" /\ AnEntry!Call("mode", mode).here
      BY <1>7, <3>1, CallOK
    <3> QED
      BY <1>3, <2>3, <2>4, <3>2
  <2>5. CASE a' = [w EXCEPT !.mode = mode]
    <3>1. a' \in EntryStates /\ a'.calls = w.calls /\ a'.late = w.late /\ Same(a', w)
      BY <1>7, <2>3, <2>5 DEF EntryStates, Same
    <3>2. Kept(a', a) /\ Same(a', a)
      BY <2>3, <3>1 DEF Kept, Same
    <3> QED
      BY <1>1, <1>2, <3>1, <3>2, EntryKeeps DEF Same, EntryInv
  <2> QED
    BY <2>1, <2>4, <2>5
<1>8. ASSUME NEW name \in ProviderNames, NEW reach \in AnEntry!Reaches, NEW test \in BOOLEAN, AnEntry!save(name, reach, test)
      PROVE  EntryInv'
  <2> DEFINE k0 == AnEntry!Call("save", a.mode)
             k == [k0 EXCEPT !.name = name, !.reach = reach, !.test = test]
  <2>1. "save" \in AnEntry!Calls
    BY DEF AnEntry!Calls
  <2>2. k0 \in AnEntry!CallsMade /\ k0.at = "save" /\ k0.here
    BY <1>1, <2>1, CallOK
  <2>3. a' = AnEntry!Starts(a, k)
    BY <1>8 DEF AnEntry!save
  <2> HIDE DEF k0
  <2>4. k \in AnEntry!CallsMade /\ k.at = "save" /\ k.here
    BY <1>8, <2>2 DEF AnEntry!CallsMade
  <2> HIDE DEF k
  <2> QED
    BY <1>1, <1>3, <1>4, <2>3, <2>4
<1> QED
  BY <1>5, <1>6, <1>7, <1>8

-----------------------------------------------------------------------------
\* Calls are answered.
LEMMA LoginsAnswered ==
  ASSUME EntryInv, NEW k \in a.calls,
         AnEntry!ModeChanged(k) \/ AnEntry!LoggedIn(k) \/ AnEntry!ModeApplied(k) \/ AnEntry!StatusAfterLogin(k)
  PROVE  EntryInv'
<1>1. a \in EntryStates /\ b \in HostStates /\ k \in AnEntry!CallsMade /\ k.mode \in AnEntry!Modes
  BY DoneOK DEF EntryInv, EntryGood, AnEntry!CallsMade
<1>2. c' = c
  BY DEF AnEntry!ModeChanged, AnEntry!LoggedIn, AnEntry!ModeApplied, AnEntry!StatusAfterLogin
<1>3. /\ AnEntry!Done(k) \in EntryStates /\ Same(AnEntry!Done(k), a)
      /\ AnEntry!Done(k).calls = a.calls \ {k} /\ AnEntry!Done(k).late = a.late
  BY DoneOK
<1>4. CASE AnEntry!Fails(k) /\ b' \in HostStates
  BY <1>2, <1>4, EntryFails
<1>5. CASE AnEntry!ModeChanged(k)
  <2>1. CASE AnEntry!ModeFails(k.mode) /\ AnEntry!Fails(k)
    BY <1>1, <1>4, <2>1, ModeOK
  <2>2. CASE /\ AnEntry!ModeIsSet(k.mode)
             /\ a' = AnEntry!Reauthed([AnEntry!Done(k) EXCEPT !.mode = b'.mode, !.status = AnEntry!StatusOf(b'), !.by = "answer"])
    <3> DEFINE done == AnEntry!Done(k)
               status == AnEntry!StatusOf(b')
               mode == b'.mode
               x == [done EXCEPT !.mode = mode, !.status = status, !.by = "answer"]
    <3>1. b' \in HostStates
      BY <1>1, <2>2, ModeOK
    <3>2. status \in AnEntry!Statuses /\ mode \in AnEntry!Modes
      BY <3>1, StatusOK DEF HostStates
    <3>3. a' = AnEntry!Reauthed(x)
      BY <2>2
    <3> HIDE DEF done, status, mode
    <3>4. x \in EntryStates /\ x.by = "answer" /\ x.calls = done.calls /\ x.late = done.late
      BY <1>3, <3>2 DEF EntryStates, done
    <3> HIDE DEF x
    <3>5. a' \in EntryStates /\ a'.by = "answer" /\ a'.calls = a.calls \ {k} /\ a'.late = a.late
      BY <1>3, <3>3, <3>4, ReauthedOK DEF Same, done
    <3> QED
      BY <1>2, <3>1, <3>5, EntryEnds
  <2> QED
    BY <1>5, <2>1, <2>2 DEF AnEntry!ModeChanged
<1>6. CASE AnEntry!LoggedIn(k)
  <2>1. AnEntry!Opens \in HostStates /\ [AnEntry!Opens EXCEPT !.session = b.session] \in HostStates
    BY <1>1, OpensOK
  <2>2. b' \in HostStates
    BY <1>1, <1>6, <2>1 DEF AnEntry!LoggedIn
  <2>3. AnEntry!Fails(k) \/ AnEntry!ContinuesWith(k, "loginMode") \/ AnEntry!ContinuesWith(k, "loginStatus")
    BY <1>6 DEF AnEntry!LoggedIn
  <2>4. {"loginMode", "loginStatus"} \subseteq AnEntry!Calls \ {"finish", "finishMode", "finishComplete"}
    BY DEF AnEntry!Calls
  <2> QED
    BY <1>2, <1>4, <2>2, <2>3, <2>4, EntryGoesOn
<1>7. CASE AnEntry!ModeApplied(k)
  <2>1. b' \in HostStates
    BY <1>1, <1>7, ModeOK DEF AnEntry!ModeApplied
  <2>2. AnEntry!Fails(k) \/ AnEntry!ContinuesWith(k, "loginStatus")
    BY <1>7 DEF AnEntry!ModeApplied
  <2>3. "loginStatus" \in AnEntry!Calls \ {"finish", "finishMode", "finishComplete"}
    BY DEF AnEntry!Calls
  <2> QED
    BY <1>2, <1>4, <2>1, <2>2, <2>3, EntryGoesOn
<1>8. CASE AnEntry!StatusAfterLogin(k)
  <2>1. b' = b /\ (AnEntry!Fails(k) \/ a' = AnEntry!acceptStatus(AnEntry!Done(k), AnEntry!StatusOf(b), "account"))
    BY <1>8 DEF AnEntry!StatusAfterLogin
  <2>2. CASE a' = AnEntry!acceptStatus(AnEntry!Done(k), AnEntry!StatusOf(b), "account")
    <3>1. AnEntry!StatusOf(b) \in AnEntry!Statuses /\ "account" \in AnEntry!SetupSteps \cup {"none"}
      BY <1>1, StatusOK DEF AnEntry!SetupSteps
    <3>2. a' \in EntryStates /\ a'.by = "answer" /\ Kept(a', AnEntry!Done(k))
      BY <1>3, <2>2, <3>1, AcceptOK
    <3>3. ~a'.late => ~a.late /\ a'.calls \subseteq a.calls \ {k}
      BY <1>3, <3>2 DEF Kept
    <3> QED
      BY <1>1, <1>2, <2>1, <3>2, <3>3, EntryEnds
  <2> QED
    BY <1>1, <1>4, <2>1, <2>2
<1> QED
  BY <1>5, <1>6, <1>7, <1>8

LEMMA LinksAnswered ==
  ASSUME EntryInv, NEW k \in a.calls, AnEntry!acceptPlatformAccount(k) \/ AnEntry!ModeOfAccount(k)
  PROVE  EntryInv'
<1>1. a \in EntryStates /\ b \in HostStates /\ k \in AnEntry!CallsMade /\ k.mode \in AnEntry!Modes
      /\ "account" \in AnEntry!SetupSteps \cup {"none"} /\ "linkMode" \in AnEntry!Calls
  BY DoneOK DEF EntryInv, EntryGood, AnEntry!CallsMade, AnEntry!SetupSteps, AnEntry!Calls
<1>2. c' = c
  BY DEF AnEntry!acceptPlatformAccount, AnEntry!ModeOfAccount
<1>3. /\ AnEntry!Done(k) \in EntryStates /\ Same(AnEntry!Done(k), a)
      /\ AnEntry!Done(k).calls = a.calls \ {k} /\ AnEntry!Done(k).late = a.late
  BY DoneOK
<1>4. CASE AnEntry!Fails(k) /\ b' \in HostStates
  BY <1>2, <1>4, EntryFails
<1>5. ASSUME b' \in HostStates, NEW h \in HostStates, a' = AnEntry!acceptStatus(AnEntry!Done(k), AnEntry!StatusOf(h), "account")
      PROVE  EntryInv'
  <2>1. AnEntry!StatusOf(h) \in AnEntry!Statuses
    BY StatusOK
  <2>2. a' \in EntryStates /\ a'.by = "answer" /\ Kept(a', AnEntry!Done(k))
    BY <1>1, <1>3, <1>5, <2>1, AcceptOK
  <2>3. ~a'.late => ~a.late /\ a'.calls \subseteq a.calls \ {k}
    BY <1>3, <2>2 DEF Kept
  <2> QED
    BY <1>2, <1>5, <2>2, <2>3, EntryEnds
<1>6. CASE AnEntry!acceptPlatformAccount(k)
  <2> DEFINE linked == [AnEntry!Opens EXCEPT !.linked = TRUE]
             w == AnEntry!Onward(k, "linkMode")
             k0 == [k EXCEPT !.at = "linkMode"]
  <2>1. linked \in HostStates /\ [linked EXCEPT !.session = b.session] \in HostStates
    BY <1>1, OpensOK
  <2>2. b' \in HostStates
    BY <1>1, <1>6, <2>1 DEF AnEntry!acceptPlatformAccount
  <2>3. \/ AnEntry!Fails(k)
        \/ a' = AnEntry!Done(k)
        \/ a' = AnEntry!acceptStatus(AnEntry!Done(k), AnEntry!StatusOf(linked), "account")
        \/ a' = AnEntry!acceptStatus(w, AnEntry!StatusOf(linked), "account")
    BY <1>6 DEF AnEntry!acceptPlatformAccount
  <2> HIDE DEF linked
  <2>4. CASE a' = AnEntry!acceptStatus(w, AnEntry!StatusOf(linked), "account")
    <3>1. w \in EntryStates /\ Same(w, a) /\ w.calls = (a.calls \ {k}) \cup {k0} /\ w.late = a.late
          /\ k0.at = "linkMode" /\ k0.here = k.here
      BY <1>1, OnwardOK
    <3> HIDE DEF w, k0
    <3>2. AnEntry!StatusOf(linked) \in AnEntry!Statuses
      BY <2>1, StatusOK
    <3>3. a' \in EntryStates /\ a'.by = "answer" /\ Kept(a', w)
      BY <1>1, <2>4, <3>1, <3>2, AcceptOK
    <3>4. ~a'.late => ~a.late /\ a'.calls \subseteq (a.calls \ {k}) \cup {k0}
      BY <3>1, <3>3 DEF Kept
    <3>5. FinishOK(a', b', k0)
      BY <3>1 DEF FinishOK
    <3> QED
      BY <1>2, <2>2, <3>1, <3>3, <3>4, <3>5, EntryAnswers
  <2> QED
    BY <1>4, <1>5, <2>1, <2>2, <2>3, <2>4 DEF AnEntry!Fails
<1>7. CASE AnEntry!ModeOfAccount(k)
  <2>1. b' \in HostStates
    BY <1>1, <1>7, ModeOK DEF AnEntry!ModeOfAccount
  <2>2. AnEntry!Fails(k) \/ a' = AnEntry!acceptStatus(AnEntry!Done(k), AnEntry!StatusOf(b'), "account")
    BY <1>7 DEF AnEntry!ModeOfAccount
  <2> QED
    BY <1>4, <1>5, <2>1, <2>2
<1> QED
  BY <1>6, <1>7

LEMMA SavesAnswered ==
  ASSUME EntryInv, NEW k \in a.calls, AnEntry!SettingsRead(k) \/ AnEntry!saveSetupProvider(k) \/ AnEntry!prepareMode(k)
  PROVE  EntryInv'
<1>1. a \in EntryStates /\ b \in HostStates /\ k \in AnEntry!CallsMade
  BY DoneOK DEF EntryInv, EntryGood
<1>2. c' = c /\ {"write", "reread"} \subseteq AnEntry!Calls \ {"finish", "finishMode", "finishComplete"}
  BY DEF AnEntry!SettingsRead, AnEntry!saveSetupProvider, AnEntry!prepareMode, AnEntry!Calls
<1>3. /\ AnEntry!Done(k) \in EntryStates /\ Same(AnEntry!Done(k), a)
      /\ AnEntry!Done(k).calls = a.calls \ {k} /\ AnEntry!Done(k).late = a.late
  BY DoneOK
<1>4. CASE AnEntry!Fails(k) /\ b' \in HostStates
  BY <1>2, <1>4, EntryFails
<1>5. CASE AnEntry!SettingsRead(k)
  <2>1. b' = b /\ (AnEntry!Fails(k) \/ AnEntry!ContinuesWith(k, "write"))
    BY <1>5 DEF AnEntry!SettingsRead
  <2> QED
    BY <1>1, <1>2, <1>4, <2>1, EntryGoesOn
<1>6. CASE AnEntry!saveSetupProvider(k)
  <2> DEFINE stored == [b EXCEPT !.providers[k.name] = k.reach, !.agent = k.name]
             providers == [b.providers EXCEPT ![k.name] = k.reach]
  <2>1. k.name \in ProviderNames \cup {NoName} /\ k.reach \in AnEntry!Reaches
    BY <1>1 DEF AnEntry!CallsMade
  <2>2. providers \in [ProviderNames -> AnEntry!Reaches \cup {"none"}]
    BY <1>1, <2>1 DEF HostStates
  <2>3. stored = [b EXCEPT !.providers = providers, !.agent = k.name]
    BY <1>1 DEF HostStates
  <2> HIDE DEF providers
  <2>4. stored \in HostStates
    BY <1>1, <2>1, <2>2, <2>3 DEF HostStates
  <2>5. b' \in {b, stored} /\ (AnEntry!Fails(k) \/ AnEntry!ContinuesWith(k, "reread"))
    BY <1>6 DEF AnEntry!saveSetupProvider
  <2> HIDE DEF stored
  <2> QED
    BY <1>1, <1>2, <1>4, <2>4, <2>5, EntryGoesOn
<1>7. CASE AnEntry!prepareMode(k)
  <2> DEFINE x == [AnEntry!Done(k) EXCEPT !.pendingSelection = k.name, !.step = "mode"]
  <2>1. b' = b /\ (AnEntry!Fails(k) \/ a' = AnEntry!Drawn(x))
    BY <1>7 DEF AnEntry!prepareMode, AnEntry!Fails
  <2>2. CASE a' = AnEntry!Drawn(x)
    <3>1. k.name \in ProviderNames \cup {NoName} /\ "mode" \in AnEntry!SetupSteps
      BY <1>1 DEF AnEntry!CallsMade, AnEntry!SetupSteps
    <3>2. x \in EntryStates /\ x.calls = a.calls \ {k} /\ x.late = a.late /\ x.by = a.by /\ x.status = a.status
      BY <1>3, <3>1 DEF EntryStates, Same
    <3> HIDE DEF x
    <3>3. a' \in EntryStates /\ Same(a', x) /\ Kept(a', x)
      BY <2>2, <3>2, DrawnOK
    <3>4. /\ ~a'.late => ~a.late /\ a'.calls \subseteq a.calls \ {k}
          /\ a'.by = a.by /\ a'.status = a.status
      BY <3>2, <3>3 DEF Kept, Same
    <3> QED
      BY <1>1, <1>2, <2>1, <3>3, <3>4, EntryEnds
  <2> QED
    BY <1>1, <1>4, <2>1, <2>2
<1> QED
  BY <1>5, <1>6, <1>7

LEMMA FinishAnswered ==
  ASSUME EntryInv, NEW k \in a.calls, AnEntry!SelectionChecked(k) \/ AnEntry!ModeSaved(k)
  PROVE  EntryInv'
<1>1. a \in EntryStates /\ b \in HostStates /\ k \in AnEntry!CallsMade /\ k.mode \in AnEntry!Modes
  BY DoneOK DEF EntryInv, EntryGood, AnEntry!CallsMade
<1>2. c' = c /\ {"finishMode", "finishComplete"} \subseteq AnEntry!Calls
  BY DEF AnEntry!SelectionChecked, AnEntry!ModeSaved, AnEntry!Calls
<1>3. CASE AnEntry!Fails(k) /\ b' \in HostStates
  BY <1>2, <1>3, EntryFails
<1>4. ASSUME NEW at \in {"finishMode", "finishComplete"}, AnEntry!ContinuesWith(k, at), b' \in HostStates,
             k.at \in {"finish", "finishMode", "finishComplete"},
             Suits(b', k.name, k.mode), at = "finishComplete" => b'.mode = k.mode
      PROVE  EntryInv'
  <2> DEFINE k0 == [k EXCEPT !.at = at]
  <2>1. /\ a' \in EntryStates /\ Same(a', a) /\ a'.calls = (a.calls \ {k}) \cup {k0} /\ a'.late = a.late
        /\ k0.at = at /\ k0.here = k.here /\ k0.name = k.name /\ k0.mode = k.mode
    BY <1>2, <1>4, OnwardOK DEF AnEntry!ContinuesWith
  <2> HIDE DEF k0
  <2>2. ~a.late => k.name = a.pendingSelection
    BY <1>4 DEF EntryInv, EntryGood, FinishOK
  <2>3. ~a'.late => FinishOK(a', b', k0)
    BY <1>4, <2>1, <2>2 DEF FinishOK, Same
  <2> QED
    BY <1>2, <1>4, <2>1, <2>3, EntryAnswers DEF Same
<1>5. CASE AnEntry!SelectionChecked(k)
  <2>1. b' = b /\ k.at = "finish"
    BY <1>5 DEF AnEntry!SelectionChecked
  <2>2. CASE AnEntry!Fails(k)
    BY <1>1, <1>3, <2>1, <2>2
  <2>3. CASE ~AnEntry!Fails(k)
    <3>1. Suits(b, k.name, k.mode) /\ AnEntry!ContinuesWith(k, "finishMode")
      BY <1>5, <2>3 DEF AnEntry!SelectionChecked, Suits
    <3> QED
      BY <1>1, <1>4, <2>1, <3>1
  <2> QED
    BY <2>2, <2>3
<1>6. CASE AnEntry!ModeSaved(k)
  <2>1. b' \in HostStates /\ k.at = "finishMode"
    BY <1>1, <1>6, ModeOK DEF AnEntry!ModeSaved
  <2>2. CASE AnEntry!Fails(k)
    BY <1>3, <2>1, <2>2
  <2>3. CASE AnEntry!ModeIsSet(k.mode) /\ AnEntry!ContinuesWith(k, "finishComplete")
    <3> DEFINE k0 == [k EXCEPT !.at = "finishComplete"]
    <3>1. b'.mode = k.mode /\ b'.providers = b.providers
      BY <1>1, <2>3, ModeOK
    <3>2. /\ a' \in EntryStates /\ Same(a', a) /\ a'.calls = (a.calls \ {k}) \cup {k0} /\ a'.late = a.late
          /\ k0.at = "finishComplete" /\ k0.here = k.here /\ k0.name = k.name /\ k0.mode = k.mode
      BY <1>2, <2>3, OnwardOK DEF AnEntry!ContinuesWith
    <3> HIDE DEF k0
    <3>3. ~a.late => k.name = a.pendingSelection /\ Suits(b, k.name, k.mode)
      BY <2>1 DEF EntryInv, EntryGood, FinishOK
    <3>4. ~a'.late => FinishOK(a', b', k0)
      BY <3>1, <3>2, <3>3 DEF FinishOK, Same, Suits
    <3> QED
      BY <1>2, <2>1, <3>2, <3>4, EntryAnswers DEF Same
  <2> QED
    BY <1>6, <2>2, <2>3 DEF AnEntry!ModeSaved
<1> QED
  BY <1>5, <1>6

LEMMA SetupCompleted == ASSUME EntryInv, NEW k \in a.calls, AnEntry!Completed(k) PROVE EntryInv'
<1> DEFINE on == TRUE
           configured == [b EXCEPT !.configured = on]
           done == AnEntry!Done(k)
           status == AnEntry!StatusOf(b')
           mode == b'.mode
           x == [done EXCEPT !.mode = mode, !.status = status, !.by = "finish"]
           y == AnEntry!Reauthed(x)
<1>1. a \in EntryStates /\ b \in HostStates /\ k \in AnEntry!CallsMade /\ c' = c /\ c \in ReadStates
      /\ k.at = "finishComplete" /\ on \in BOOLEAN
  BY DoneOK DEF EntryInv, EntryGood, AnEntry!Completed
<1>2. /\ b' \in {b, configured}
      /\ AnEntry!Fails(k) \/ a' = AnEntry!Drawn(y)
  BY DEF AnEntry!Completed
<1>3. done \in EntryStates /\ Same(done, a) /\ done.calls = a.calls \ {k} /\ done.late = a.late
  BY DoneOK
<1> HIDE DEF on
<1>4. b' \in HostStates /\ b'.mode = b.mode /\ b'.providers = b.providers
  BY <1>1, <1>2 DEF HostStates
<1> HIDE DEF configured
<1>5. CASE AnEntry!Fails(k)
  BY <1>1, <1>4, <1>5, EntryFails
<1>6. CASE a' = AnEntry!Drawn(y)
  <2>1. status \in AnEntry!Statuses /\ status.connection_mode = b'.mode /\ mode \in AnEntry!Modes
    BY <1>4, StatusOK DEF HostStates
  <2> HIDE DEF done, status, mode
  <2>2. x \in EntryStates /\ x.calls = done.calls /\ x.late = done.late /\ x.status = status
        /\ x.pendingSelection = done.pendingSelection
    BY <1>3, <2>1 DEF EntryStates
  <2> HIDE DEF x
  <2>3. y \in EntryStates /\ Same(y, x) /\ y.calls = x.calls /\ y.late = x.late
    BY <2>2, ReauthedOK
  <2> HIDE DEF y
  <2>4. a' \in EntryStates /\ Same(a', y) /\ Kept(a', y)
    BY <1>6, <2>3, DrawnOK
  <2>5. ASSUME ~a'.late PROVE OneCall(a') /\ (\A j \in a'.calls : FinishOK(a', b', j)) /\ EndedOK(a', b')
    <3>1. ~a.late /\ a'.calls = a.calls \ {k}
      BY <1>3, <2>2, <2>3, <2>4, <2>5 DEF Kept
    <3>2. a.calls = {k} /\ k.name = a.pendingSelection /\ Suits(b, k.name, k.mode) /\ b.mode = k.mode
      BY <1>1, <3>1 DEF EntryInv, EntryGood, OneCall, FinishOK
    <3>3. a'.calls = {} /\ a'.status = status /\ a'.pendingSelection = k.name
      BY <1>3, <2>2, <2>3, <2>4, <3>1, <3>2 DEF Same
    <3> QED
      BY <1>4, <2>1, <3>2, <3>3 DEF OneCall, EndedOK, Suits
  <2> QED
    BY <1>1, <1>4, <2>4, <2>5 DEF EntryInv, EntryGood
<1> QED
  BY <1>2, <1>5, <1>6

LEMMA EntryStep == ASSUME EntryInv, [AnEntry!EntryNext]_<<a, b, c>> PROVE EntryInv'
<1>1. CASE UNCHANGED <<a, b, c>>
  BY <1>1 DEF EntryInv, EntryGood, OneCall, FinishOK, EndedOK, Suits
<1>2. ASSUME NEW r \in StatusReads,
             AnEntry!AskStatus(r) \/ AnEntry!AnswerStatus(r) \/ AnEntry!StatusFails(r) \/ AnEntry!StatusArrives(r)
      PROVE  EntryInv'
  BY <1>2, StatusReadMoves
<1>3. CASE \/ AnEntry!SessionEnds \/ AnEntry!LoginRequired \/ AnEntry!WorkspaceStarts \/ AnEntry!reauthenticate
           \/ AnEntry!Unlocked \/ AnEntry!LoginRestored
           \/ \E step \in AnEntry!SetupSteps : AnEntry!goto(step)
  BY ONLY EntryInv, <1>3, SessionMoves
<1>4. ASSUME NEW name \in ProviderNames, NEW reach \in AnEntry!Reaches \cup {"none"}, AnEntry!WorkspaceSaves(name, reach) PROVE EntryInv'
  BY <1>4, WorkspaceSavesOK
<1>5. CASE \/ AnEntry!login \/ AnEntry!submit \/ AnEntry!finish
           \/ \E mode \in AnEntry!Modes : AnEntry!changeMode(mode)
           \/ \E name \in ProviderNames, reach \in AnEntry!Reaches, test \in BOOLEAN : AnEntry!save(name, reach, test)
  BY ONLY EntryInv, <1>5, CallsBegin
<1>6. ASSUME NEW k \in a.calls,
             \/ AnEntry!ModeChanged(k) \/ AnEntry!LoggedIn(k) \/ AnEntry!ModeApplied(k) \/ AnEntry!StatusAfterLogin(k)
             \/ AnEntry!acceptPlatformAccount(k) \/ AnEntry!ModeOfAccount(k)
             \/ AnEntry!SettingsRead(k) \/ AnEntry!saveSetupProvider(k) \/ AnEntry!prepareMode(k)
             \/ AnEntry!SelectionChecked(k) \/ AnEntry!ModeSaved(k) \/ AnEntry!Completed(k)
      PROVE  EntryInv'
  BY <1>6, LoginsAnswered, LinksAnswered, SavesAnswered, FinishAnswered, SetupCompleted
<1> QED
  BY ONLY <1>1, <1>2, <1>3, <1>4, <1>5, <1>6, [AnEntry!EntryNext]_<<a, b, c>> DEF AnEntry!EntryNext

-----------------------------------------------------------------------------
(* The household panel: an item of a revision has the facts of that        *)
(* revision, in memory, on disk and in the plan the page shows or sends, so *)
(* that the package made of it is the one that was shown.                  *)

HouseStates == [open : BOOLEAN, memory : AHousehold!HouseholdStates, disk : AHousehold!HouseholdStates]
HousePanels ==
  [known : [Items -> 0..MaxItemRevision], selected : Items \cup {NoItem}, plan : AHousehold!Plans,
   at : {"idle", "asked", "answered", "failed", "lists"}, command : AHousehold!Commands,
   item : Items \cup {NoItem}, revision : 0..MaxItemRevision, answer : AHousehold!Plans]

StoreGood(s) ==
  /\ s \in AHousehold!HouseholdStates
  /\ \A p \in s.packages : p.shown
  /\ \A i \in Items : s.items[i].revision > 0 => s.items[i].facts = s.items[i].revision - 1
PlanGood(q) == q.item # NoItem => q.revision > 0 /\ q.facts = q.revision - 1
PanelGood(p) ==
  /\ p \in HousePanels /\ PlanGood(p.plan)
  /\ p.at \in {"asked", "answered"} /\ p.command \in {"import", "change", "preview", "apply"} => p.item \in Items
  /\ p.at = "asked" /\ p.command = "apply" => p.answer.item # NoItem /\ PlanGood(p.answer) /\ p.answer.revision = p.revision
  /\ p.at = "answered" /\ p.command = "preview" => PlanGood(p.answer)
HouseInv == a \in HouseStates /\ StoreGood(a.memory) /\ StoreGood(a.disk) /\ PanelGood(b)

LEMMA HouseHolds == ASSUME HouseInv PROVE AHousehold!HouseholdTypeOK /\ AHousehold!PackagedAsShown
BY DEF HouseInv, StoreGood, PanelGood, HouseStates, HousePanels, AHousehold!HouseholdTypeOK, AHousehold!PackagedAsShown

LEMMA NoPlanOK == AHousehold!NoPlan \in AHousehold!Plans /\ PlanGood(AHousehold!NoPlan)
<1> DEFINE zero == 0
<1>1. zero \in 0..MaxItemRevision /\ AHousehold!NoPlan = [item |-> NoItem, revision |-> zero, facts |-> zero]
  BY Bounds DEF AHousehold!NoPlan
<1> HIDE DEF zero
<1> QED
  BY <1>1 DEF AHousehold!Plans, PlanGood

LEMMA HouseStarts == ASSUME AHousehold!HouseholdInit PROVE HouseInv
<1> DEFINE zero == 0
           none == {}
           on == TRUE
           fresh == [revision |-> zero, facts |-> zero]
           items == [i \in Items |-> fresh]
           known == [i \in Items |-> zero]
           s == AHousehold!NothingKept
<1>1. /\ zero \in 0..MaxItemRevision /\ zero \in 0..MaxPackages /\ ~(zero > 0)
      /\ none \in SUBSET AHousehold!Packages /\ none = {} /\ on \in BOOLEAN
  BY Bounds
<1>2. /\ s = [items |-> items, packages |-> none, count |-> zero]
      /\ a = [open |-> on, memory |-> s, disk |-> s]
      /\ b = [known |-> known, selected |-> NoItem, plan |-> AHousehold!NoPlan, at |-> "lists",
              command |-> "none", item |-> NoItem, revision |-> zero, answer |-> AHousehold!NoPlan]
  BY DEF AHousehold!HouseholdInit, AHousehold!NothingKept
<1> HIDE DEF zero, none, on, s
<1>3. fresh \in [revision : 0..MaxItemRevision, facts : 0..MaxItemRevision] /\ fresh.revision = zero
  BY <1>1
<1> HIDE DEF fresh
<1>4. items \in AHousehold!ItemRecords /\ (\A i \in Items : ~(items[i].revision > 0)) /\ known \in [Items -> 0..MaxItemRevision]
  BY <1>1, <1>3 DEF AHousehold!ItemRecords
<1> HIDE DEF items, known
<1>5. s \in AHousehold!HouseholdStates /\ s.packages = none /\ s.items = items
  BY <1>1, <1>2, <1>4 DEF AHousehold!HouseholdStates
<1>6. StoreGood(s)
  BY <1>1, <1>4, <1>5 DEF StoreGood
<1>7. a \in HouseStates /\ a.memory = s /\ a.disk = s
  BY <1>1, <1>2, <1>5 DEF HouseStates
<1>8. b \in HousePanels /\ b.plan = AHousehold!NoPlan /\ b.at = "lists"
  BY <1>1, <1>2, <1>4, NoPlanOK DEF HousePanels, AHousehold!Commands
<1> QED
  BY <1>6, <1>7, <1>8, NoPlanOK DEF HouseInv, PanelGood

-----------------------------------------------------------------------------
\* The store: what a command leads to, and its save.
LEMMA ItemChangedOK ==
  ASSUME NEW s, StoreGood(s), NEW i \in Items, s.items[i].revision < MaxItemRevision
  PROVE  StoreGood(AHousehold!ItemChanged(s, i))
<1> DEFINE r == s.items[i].revision
           item == [s.items[i] EXCEPT !.revision = r + 1, !.facts = r]
           items == [s.items EXCEPT ![i] = item]
           t == AHousehold!ItemChanged(s, i)
<1>1. s \in AHousehold!HouseholdStates /\ s.items \in AHousehold!ItemRecords
      /\ s.items[i] \in [revision : 0..MaxItemRevision, facts : 0..MaxItemRevision]
  BY DEF StoreGood, AHousehold!HouseholdStates, AHousehold!ItemRecords
<1>2. t = [s EXCEPT !.items = items]
  BY <1>1 DEF AHousehold!ItemChanged, AHousehold!HouseholdStates, AHousehold!ItemRecords
<1>3. r \in 0..MaxItemRevision /\ r + 1 \in 0..MaxItemRevision /\ r \in Nat
  BY <1>1, Bounds
<1> HIDE DEF r
<1>4. item \in [revision : 0..MaxItemRevision, facts : 0..MaxItemRevision] /\ item.revision = r + 1 /\ item.facts = r
  BY <1>1, <1>3
<1> HIDE DEF item
<1>5. /\ items \in AHousehold!ItemRecords
      /\ \A j \in Items : items[j] = IF j = i THEN item ELSE s.items[j]
  BY <1>1, <1>4 DEF AHousehold!ItemRecords
<1> HIDE DEF items, t
<1>6. t \in AHousehold!HouseholdStates /\ t.items = items /\ t.packages = s.packages
  BY <1>1, <1>2, <1>5 DEF AHousehold!HouseholdStates
<1>7. \A j \in Items : t.items[j].revision > 0 => t.items[j].facts = t.items[j].revision - 1
  BY <1>3, <1>4, <1>5, <1>6 DEF StoreGood
<1> QED
  BY <1>6, <1>7 DEF StoreGood, t

LEMMA PackageOK ==
  ASSUME NEW s, StoreGood(s), NEW i \in Items, s.count < MaxPackages, NEW q, s.items[i].revision > 0,
         q.facts = s.items[i].facts, NEW revision, revision = s.items[i].revision
  PROVE  StoreGood([s EXCEPT !.count = s.count + 1, !.packages = s.packages \cup
             {[item |-> i, revision |-> revision, facts |-> s.items[i].facts, shown |-> q.facts = s.items[i].facts]}])
<1> DEFINE shown == q.facts = s.items[i].facts
           p == [item |-> i, revision |-> revision, facts |-> s.items[i].facts, shown |-> shown]
           packages == s.packages \cup {p}
           t == [s EXCEPT !.count = s.count + 1, !.packages = packages]
<1>1. s \in AHousehold!HouseholdStates /\ s.packages \in SUBSET AHousehold!Packages /\ s.count \in 0..MaxPackages
      /\ s.items[i] \in [revision : 0..MaxItemRevision, facts : 0..MaxItemRevision]
  BY DEF StoreGood, AHousehold!HouseholdStates, AHousehold!ItemRecords
<1>2. shown /\ shown \in BOOLEAN
  OBVIOUS
<1>3. revision \in 1..MaxItemRevision /\ s.items[i].facts \in 0..MaxItemRevision
  BY <1>1, Bounds
<1>4. s.count + 1 \in 0..MaxPackages
  BY <1>1, Bounds
<1> HIDE DEF shown
<1>5. p \in AHousehold!Packages /\ p.shown = shown
  BY <1>2, <1>3 DEF AHousehold!Packages
<1> HIDE DEF p
<1>6. packages \in SUBSET AHousehold!Packages /\ \A x \in packages : x.shown
  BY <1>1, <1>2, <1>5 DEF StoreGood
<1> HIDE DEF packages
<1>7. t \in AHousehold!HouseholdStates /\ t.items = s.items /\ t.packages = packages
  BY <1>1, <1>4, <1>6 DEF AHousehold!HouseholdStates
<1> HIDE DEF t
<1>8. StoreGood(t)
  BY <1>6, <1>7 DEF StoreGood
<1> QED
  BY <1>8 DEF t, packages, p, shown

LEMMA EffectsOK ==
  ASSUME StoreGood(a.memory), NEW command, NEW i, NEW revision, NEW plan,
         command \in {"import", "change", "preview", "apply"} => i \in Items,
         command = "apply" => plan.item # NoItem /\ PlanGood(plan) /\ plan.revision = revision,
         NEW next \in AHousehold!CommandEffects(command, i, revision, plan)
  PROVE  StoreGood(next)
<1> DEFINE s == a.memory
<1>1. CASE command = "import"
  <2>1. i \in Items /\ (next = s \/ (s.items[i].revision < MaxItemRevision /\ next = AHousehold!ItemChanged(s, i)))
    BY <1>1 DEF AHousehold!CommandEffects
  <2> QED
    BY <2>1, ItemChangedOK
<1>2. CASE command = "change"
  <2>1. i \in Items /\ s.items[i].revision \in 1..(MaxItemRevision - 1) /\ next = AHousehold!ItemChanged(s, i)
    BY <1>2 DEF AHousehold!CommandEffects, AHousehold!Amended
  <2>2. s.items[i].revision < MaxItemRevision
    BY <2>1, Bounds
  <2> QED
    BY <2>1, <2>2, ItemChangedOK
<1>3. CASE command = "apply"
  <2>1. /\ i \in Items /\ s.items[i].revision = revision /\ revision > 0 /\ s.count < MaxPackages
        /\ next = [s EXCEPT !.count = s.count + 1, !.packages = s.packages \cup
             {[item |-> i, revision |-> revision, facts |-> s.items[i].facts, shown |-> plan.facts = s.items[i].facts]}]
    BY <1>3 DEF AHousehold!CommandEffects, StoreGood, AHousehold!HouseholdStates
  <2>2. plan.facts = s.items[i].facts
    BY <1>3, <2>1 DEF PlanGood, StoreGood
  <2> QED
    BY <2>1, <2>2, PackageOK
<1>4. CASE command \notin {"import", "change", "apply"}
  BY <1>4 DEF AHousehold!CommandEffects
<1> QED
  BY <1>1, <1>2, <1>3, <1>4

LEMMA SaveHouseholdOK ==
  ASSUME a \in HouseStates, StoreGood(a.memory), StoreGood(a.disk), NEW next, StoreGood(next), AHousehold!SaveHousehold(next)
  PROVE  a' \in HouseStates /\ StoreGood(a'.memory) /\ StoreGood(a'.disk)
<1> DEFINE off == FALSE
<1>1. next \in AHousehold!HouseholdStates /\ off \in BOOLEAN
  BY DEF StoreGood
<1>2. \/ a' = [a EXCEPT !.memory = next, !.disk = next]
      \/ \E x \in {a.disk, next} : a' = [a EXCEPT !.open = off, !.disk = x]
  BY DEF AHousehold!SaveHousehold
<1> HIDE DEF off
<1>3. CASE a' = [a EXCEPT !.memory = next, !.disk = next]
  BY <1>1, <1>3 DEF HouseStates
<1>4. ASSUME NEW x \in {a.disk, next}, a' = [a EXCEPT !.open = off, !.disk = x]
      PROVE  a' \in HouseStates /\ StoreGood(a'.memory) /\ StoreGood(a'.disk)
  <2>1. x \in AHousehold!HouseholdStates /\ StoreGood(x)
    BY <1>1, <1>4 DEF HouseStates
  <2> QED
    BY <1>1, <1>4, <2>1 DEF HouseStates
<1> QED
  BY <1>2, <1>3, <1>4

-----------------------------------------------------------------------------
\* The panel at rest, whatever it shows.
LEMMA PanelRestsOK ==
  ASSUME NEW p \in HousePanels, PlanGood(p.plan)
  PROVE  PanelGood(AHousehold!PanelRests(p))
<1> DEFINE zero == 0
           q == AHousehold!PanelRests(p)
<1>1. q = [p EXCEPT !.at = "idle", !.command = "none", !.item = NoItem, !.revision = zero, !.answer = AHousehold!NoPlan]
      /\ zero \in 0..MaxItemRevision
  BY Bounds DEF AHousehold!PanelRests
<1> HIDE DEF zero, q
<1>2. q \in HousePanels /\ q.plan = p.plan /\ q.at = "idle"
  BY <1>1, NoPlanOK DEF HousePanels, AHousehold!Commands
<1> QED
  BY <1>2 DEF PanelGood, q

LEMMA PlanShownOK ==
  ASSUME NEW p \in HousePanels, PlanGood(p.plan)
  PROVE  /\ AHousehold!PlanShown(p) \in HousePanels /\ PlanGood(AHousehold!PlanShown(p).plan)
         /\ AHousehold!PlanShown(p).at = p.at /\ AHousehold!PlanShown(p).command = p.command
         /\ AHousehold!PlanShown(p).item = p.item /\ AHousehold!PlanShown(p).revision = p.revision
         /\ AHousehold!PlanShown(p).answer = p.answer
<1>1. AHousehold!PlanShown(p) \in {p, [p EXCEPT !.plan = AHousehold!NoPlan]}
  BY DEF AHousehold!PlanShown
<1> QED
  BY <1>1, NoPlanOK DEF HousePanels

LEMMA PanelMovesOK ==
  ASSUME HouseInv, \/ \E i \in Items \cup {NoItem} : AHousehold!SelectItem(i)
                   \/ AHousehold!TakeAnswer \/ AHousehold!ListRead \/ AHousehold!CommandFailed
  PROVE  HouseInv'
<1>1. b \in HousePanels /\ PlanGood(b.plan) /\ PanelGood(b) /\ a \in HouseStates /\ b.item \in Items \cup {NoItem}
      /\ b.answer \in AHousehold!Plans
  BY DEF HouseInv, PanelGood, HousePanels
<1>2. a' = a
  BY DEF AHousehold!SelectItem, AHousehold!TakeAnswer, AHousehold!ListRead, AHousehold!CommandFailed
<1> SUFFICES PanelGood(b')
  BY <1>2 DEF HouseInv
<1>3. ASSUME NEW i \in Items \cup {NoItem}, AHousehold!SelectItem(i) PROVE PanelGood(b')
  <2> DEFINE p == [b EXCEPT !.selected = i]
  <2>1. p \in HousePanels /\ p.plan = b.plan /\ p.at = b.at /\ p.command = b.command /\ p.item = b.item /\ p.revision = b.revision
        /\ p.answer = b.answer
    BY <1>1 DEF HousePanels
  <2>2. b' = AHousehold!PlanShown(p)
    BY <1>3 DEF AHousehold!SelectItem
  <2> HIDE DEF p
  <2>3. /\ b' \in HousePanels /\ PlanGood(b'.plan) /\ b'.at = p.at /\ b'.command = p.command
        /\ b'.item = p.item /\ b'.revision = p.revision /\ b'.answer = p.answer
    BY <1>1, <2>1, <2>2, PlanShownOK
  <2> QED
    BY <1>1, <2>1, <2>3 DEF PanelGood
<1>4. CASE AHousehold!TakeAnswer
  <2>1. ASSUME NEW p, b' = p, p \in HousePanels, PlanGood(p.plan), p.at = "lists" PROVE PanelGood(b')
    BY <2>1 DEF PanelGood
  <2>2. CASE b.command = "preview"
    <3>1. b' = [b EXCEPT !.plan = b.answer, !.at = "lists"] /\ PlanGood(b.answer)
      BY <1>1, <1>4, <2>2 DEF AHousehold!TakeAnswer, PanelGood
    <3>2. b' \in HousePanels /\ b'.plan = b.answer /\ b'.at = "lists"
      BY <1>1, <3>1 DEF HousePanels
    <3> QED
      BY <2>1, <3>1, <3>2
  <2>3. CASE b.command = "apply"
    <3>1. b' = [b EXCEPT !.plan = AHousehold!NoPlan, !.at = "lists"]
      BY <1>4, <2>3 DEF AHousehold!TakeAnswer
    <3>2. b' \in HousePanels /\ b'.plan = AHousehold!NoPlan /\ b'.at = "lists"
      BY <1>1, <3>1, NoPlanOK DEF HousePanels
    <3> QED
      BY <2>1, <3>2, NoPlanOK
  <2>4. CASE b.command = "import"
    <3> DEFINE p == [b EXCEPT !.selected = b.item, !.at = "lists"]
    <3>1. b' = AHousehold!PlanShown(p)
      BY <1>4, <2>4 DEF AHousehold!TakeAnswer
    <3>2. p \in HousePanels /\ p.plan = b.plan /\ p.at = "lists"
      BY <1>1 DEF HousePanels
    <3> HIDE DEF p
    <3>3. b' \in HousePanels /\ PlanGood(b'.plan) /\ b'.at = "lists"
      BY <1>1, <3>1, <3>2, PlanShownOK
    <3> QED
      BY <2>1, <3>3
  <2>5. CASE b.command \notin {"preview", "apply", "import"}
    <3>1. b' = [b EXCEPT !.at = "lists"]
      BY <1>4, <2>5 DEF AHousehold!TakeAnswer
    <3>2. b' \in HousePanels /\ b'.plan = b.plan /\ b'.at = "lists"
      BY <1>1, <3>1 DEF HousePanels
    <3> QED
      BY <1>1, <2>1, <3>2
  <2> QED
    BY <2>2, <2>3, <2>4, <2>5
<1>5. [b EXCEPT !.plan = AHousehold!NoPlan] \in HousePanels /\ PlanGood([b EXCEPT !.plan = AHousehold!NoPlan].plan)
  BY <1>1, NoPlanOK DEF HousePanels
<1>6. CASE AHousehold!ListRead
  <2> DEFINE known == [i \in Items |-> a.memory.items[i].revision]
             there == {i \in Items : known[i] > 0}
  <2>1. \/ \E s \in IF b.selected \in there THEN {b.selected} ELSE IF there # {} THEN there ELSE {NoItem} :
             b' = AHousehold!PanelRests(AHousehold!PlanShown([b EXCEPT !.known = known, !.selected = s]))
        \/ b' = AHousehold!PanelRests([b EXCEPT !.plan = AHousehold!NoPlan])
    BY <1>6 DEF AHousehold!ListRead
  <2>2. known \in [Items -> 0..MaxItemRevision] /\ there \subseteq Items
    BY DEF HouseInv, StoreGood, AHousehold!HouseholdStates, AHousehold!ItemRecords
  <2> HIDE DEF known, there
  <2>3. ASSUME NEW s \in Items \cup {NoItem},
               b' = AHousehold!PanelRests(AHousehold!PlanShown([b EXCEPT !.known = known, !.selected = s]))
        PROVE  PanelGood(b')
    <3> DEFINE p == [b EXCEPT !.known = known, !.selected = s]
               q == AHousehold!PlanShown(p)
    <3>1. p \in HousePanels /\ p.plan = b.plan
      BY <1>1, <2>2 DEF HousePanels
    <3>2. b' = AHousehold!PanelRests(q)
      BY <2>3
    <3> HIDE DEF p
    <3>3. q \in HousePanels /\ PlanGood(q.plan)
      BY <1>1, <3>1, PlanShownOK
    <3> HIDE DEF q
    <3> QED
      BY <3>2, <3>3, PanelRestsOK
  <2> QED
    BY <1>5, <2>1, <2>2, <2>3, PanelRestsOK
<1>7. CASE AHousehold!CommandFailed
  BY <1>5, <1>7, PanelRestsOK DEF AHousehold!CommandFailed
<1> QED
  BY <1>3, <1>4, <1>6, <1>7

LEMMA AskCommandOK ==
  ASSUME HouseInv, NEW command \in AHousehold!Commands \ {"none"}, AHousehold!AskCommand(command)
  PROVE  HouseInv'
<1>1. b \in HousePanels /\ PanelGood(b) /\ PlanGood(b.plan) /\ a' = a /\ b.at = "idle"
  BY DEF HouseInv, PanelGood, AHousehold!AskCommand
<1> SUFFICES PanelGood(b')
  BY <1>1 DEF HouseInv
<1>2. b.plan \in AHousehold!Plans /\ b.answer \in AHousehold!Plans /\ b.item \in Items \cup {NoItem} /\ b.revision \in 0..MaxItemRevision
      /\ b.selected \in Items \cup {NoItem}
  BY <1>1 DEF HousePanels
<1>3. CASE command \in {"list", "complete"}
  <2>1. b' = [b EXCEPT !.at = "asked", !.command = command]
    BY <1>3 DEF AHousehold!AskCommand
  <2>2. b' \in HousePanels /\ b'.command = command /\ b'.plan = b.plan /\ b'.at = "asked"
    BY <1>1, <2>1 DEF HousePanels
  <2> QED
    BY <1>1, <1>3, <2>2 DEF PanelGood
<1>4. CASE command = "import"
  <2>1. PICK i \in Items : b' = [b EXCEPT !.at = "asked", !.command = command, !.item = i]
    BY <1>2, <1>4 DEF AHousehold!AskCommand
  <2>2. b' \in HousePanels /\ b'.command = command /\ b'.plan = b.plan /\ b'.at = "asked" /\ b'.item = i
    BY <1>1, <2>1 DEF HousePanels
  <2> QED
    BY <1>1, <1>4, <2>2 DEF PanelGood
<1>5. CASE command \in {"change", "preview"}
  <2> DEFINE now == AHousehold!CurrentRevision
  <2>1. b' = [b EXCEPT !.at = "asked", !.command = command, !.item = b.selected, !.revision = now] /\ now > 0
    BY <1>5 DEF AHousehold!AskCommand
  <2>2. b.selected \in Items /\ now \in 0..MaxItemRevision
    BY <1>1, <1>2, <2>1 DEF AHousehold!CurrentRevision, HousePanels
  <2> HIDE DEF now
  <2>3. b' \in HousePanels /\ b'.command = command /\ b'.plan = b.plan /\ b'.at = "asked" /\ b'.item = b.selected
    BY <1>1, <2>1, <2>2 DEF HousePanels
  <2> QED
    BY <1>1, <1>5, <2>2, <2>3 DEF PanelGood
<1>6. CASE command = "apply"
  <2>1. /\ b.plan.item # NoItem
        /\ b' = [b EXCEPT !.at = "asked", !.command = command, !.item = b.plan.item, !.revision = b.plan.revision, !.answer = b.plan]
    BY <1>6 DEF AHousehold!AskCommand
  <2>2. b.plan.item \in Items /\ b.plan.revision \in 0..MaxItemRevision
    BY <1>2, <2>1 DEF AHousehold!Plans
  <2>3. b' \in HousePanels /\ b'.command = command /\ b'.plan = b.plan /\ b'.at = "asked" /\ b'.item = b.plan.item
        /\ b'.revision = b.plan.revision /\ b'.answer = b.plan
    BY <1>1, <1>2, <2>1, <2>2 DEF HousePanels
  <2> QED
    BY <1>1, <1>6, <2>1, <2>2, <2>3 DEF PanelGood
<1> QED
  BY <1>3, <1>4, <1>5, <1>6 DEF AHousehold!Commands

LEMMA HouseholdCommandOK == ASSUME HouseInv, AHousehold!HouseholdCommand PROVE HouseInv'
<1> DEFINE i == b.item
           command == b.command
           nexts == IF a.open THEN AHousehold!CommandEffects(command, i, b.revision, b.answer) ELSE {}
<1>1. /\ b \in HousePanels /\ PanelGood(b) /\ PlanGood(b.plan) /\ b.at = "asked" /\ a \in HouseStates /\ StoreGood(a.memory) /\ StoreGood(a.disk)
      /\ b.revision \in 0..MaxItemRevision
  BY DEF HouseInv, PanelGood, HousePanels, AHousehold!HouseholdCommand
<1>2. CASE b' = [b EXCEPT !.at = "failed"]
  <2>1. a' = a \/ \E next \in nexts : AHousehold!SaveHousehold(next)
    BY DEF AHousehold!HouseholdCommand
  <2>2. \A next \in nexts : StoreGood(next)
    BY <1>1, EffectsOK DEF PanelGood
  <2>3. a' \in HouseStates /\ StoreGood(a'.memory) /\ StoreGood(a'.disk)
    BY <1>1, <2>1, <2>2, SaveHouseholdOK
  <2>4. b' \in HousePanels /\ b'.plan = b.plan /\ b'.at = "failed"
    BY <1>1, <1>2 DEF HousePanels
  <2> QED
    BY <1>1, <2>3, <2>4 DEF HouseInv, PanelGood
<1>3. CASE ~(b' = [b EXCEPT !.at = "failed"])
  <2>1. PICK next \in nexts :
          /\ AHousehold!SaveHousehold(next)
          /\ b' = [b EXCEPT !.at = "answered", !.answer = IF command = "preview"
                     THEN [item |-> i, revision |-> b.revision, facts |-> next.items[i].facts] ELSE AHousehold!NoPlan]
    BY <1>3 DEF AHousehold!HouseholdCommand
  <2> DEFINE plan == [item |-> i, revision |-> b.revision, facts |-> next.items[i].facts]
             answer == IF command = "preview" THEN plan ELSE AHousehold!NoPlan
  <2>2. StoreGood(next)
    BY <1>1, EffectsOK DEF PanelGood
  <2>3. a' \in HouseStates /\ StoreGood(a'.memory) /\ StoreGood(a'.disk)
    BY <1>1, <2>1, <2>2, SaveHouseholdOK
  <2>4. answer \in AHousehold!Plans /\ (command = "preview" => PlanGood(answer))
    <3>1. CASE command = "preview"
      <4>1. i \in Items /\ next = a.memory /\ a.memory.items[i].revision = b.revision /\ b.revision > 0
        BY <1>1, <3>1 DEF PanelGood, AHousehold!CommandEffects
      <4>2. next.items[i].facts = b.revision - 1 /\ next.items[i].facts \in 0..MaxItemRevision
        BY <1>1, <4>1 DEF StoreGood, AHousehold!HouseholdStates, AHousehold!ItemRecords
      <4> HIDE DEF i, nexts
      <4>3. plan \in AHousehold!Plans /\ PlanGood(plan)
        BY <1>1, <4>1, <4>2 DEF AHousehold!Plans, PlanGood
      <4> QED
        BY <3>1, <4>3
    <3>2. CASE command # "preview"
      BY <3>2, NoPlanOK
    <3> QED
      BY <3>1, <3>2
  <2>5. b' = [b EXCEPT !.at = "answered", !.answer = answer]
    BY <2>1
  <2> HIDE DEF answer, nexts
  <2>6. b' \in HousePanels /\ b'.plan = b.plan /\ b'.at = "answered" /\ b'.answer = answer /\ b'.command = b.command /\ b'.item = b.item
    BY <1>1, <2>4, <2>5 DEF HousePanels
  <2> QED
    BY <1>1, <2>3, <2>4, <2>6 DEF HouseInv, PanelGood
<1> QED
  BY <1>2, <1>3

LEMMA HouseStep == ASSUME HouseInv, [AHousehold!HouseholdNext]_<<a, b>> PROVE HouseInv'
<1>1. CASE UNCHANGED <<a, b>>
  BY <1>1 DEF HouseInv
<1>2. CASE (\E i \in Items \cup {NoItem} : AHousehold!SelectItem(i)) \/ AHousehold!TakeAnswer \/ AHousehold!ListRead \/ AHousehold!CommandFailed
  BY ONLY HouseInv, <1>2, PanelMovesOK
<1>3. CASE \E command \in AHousehold!Commands \ {"none"} : AHousehold!AskCommand(command)
  BY <1>3, AskCommandOK
<1>4. CASE AHousehold!HouseholdCommand
  BY <1>4, HouseholdCommandOK
<1>5. CASE AHousehold!OtherClient
  <2>1. PICK command \in {"import", "change"}, i \in Items :
          \E next \in AHousehold!CommandEffects(command, i, a.memory.items[i].revision, AHousehold!NoPlan) : AHousehold!SaveHousehold(next)
    BY <1>5 DEF AHousehold!OtherClient
  <2>2. b' = b
    BY <1>5 DEF AHousehold!OtherClient
  <2>3. a' \in HouseStates /\ StoreGood(a'.memory) /\ StoreGood(a'.disk)
    BY <2>1, EffectsOK, SaveHouseholdOK DEF HouseInv
  <2> QED
    BY <2>2, <2>3 DEF HouseInv
<1>6. CASE AHousehold!ReopenStore
  <2> DEFINE on == TRUE
  <2>1. b' = b /\ a' = [a EXCEPT !.open = on, !.memory = a.disk] /\ on \in BOOLEAN
    BY <1>6 DEF AHousehold!ReopenStore
  <2> HIDE DEF on
  <2> QED
    BY <2>1 DEF HouseInv, HouseStates
<1> QED
  BY ONLY <1>1, <1>2, <1>3, <1>4, <1>5, <1>6, [AHousehold!HouseholdNext]_<<a, b>> DEF AHousehold!HouseholdNext

-----------------------------------------------------------------------------
(* Mail on the server: until its answer is an error, a call that reports   *)
(* what it does has reported all of it; with the error at most one more.   *)

ServerStates == [place : [AMailbox!RemoteUids -> AMailbox!Places], flagged : SUBSET AMailbox!RemoteUids, uidplus : BOOLEAN]
MailJobs ==
  [at : {"idle", "connects", "locks", "works", "ends"}, kind : AMailbox!JobKinds, left : SUBSET AMailbox!RemoteUids,
   told : SUBSET AMailbox!RemoteUids, did : SUBSET AMailbox!RemoteUids, sent : BOOLEAN, answer : {"none", "done", "error"}]

MailJobGood(j) ==
  /\ j \in MailJobs /\ j.told \subseteq j.did
  /\ j.kind # "delete" /\ j.answer # "error" => j.did = j.told
  /\ j.kind # "delete" => \E u \in Nat : j.did \subseteq j.told \cup {u}
  /\ j.answer = "done" \/ j.kind = "send" => j.left = {}
  /\ j.answer # "none" => j.at = "ends"
MailInv == a \in ServerStates /\ b = [j \in RemoteJobs |-> b[j]] /\ \A j \in RemoteJobs : MailJobGood(b[j])

LEMMA MailCounts == \A S : AMailbox!Cardinality(S) = Cardinality(S)
BY DEF AMailbox!Cardinality, Cardinality

LEMMA MailHolds == ASSUME MailInv PROVE AMailbox!MailActionTypeOK /\ AMailbox!ReportsAreTrue
<1>1. AMailbox!MailActionTypeOK
  BY DEF MailInv, ServerStates, MailJobs, MailJobGood, AMailbox!MailActionTypeOK
<1>2. ASSUME NEW j \in RemoteJobs
      PROVE  /\ b[j].told \subseteq b[j].did
             /\ b[j].kind = "delete" \/ Cardinality(b[j].did \ b[j].told) <= IF b[j].answer = "error" THEN 1 ELSE 0
             /\ b[j].answer = "done" => b[j].left = {}
  <2> DEFINE rest == b[j].did \ b[j].told
  <2>1. MailJobGood(b[j])
    BY DEF MailInv
  <2>2. b[j].kind # "delete" => (b[j].answer # "error" => rest = {}) /\ \E u \in Nat : rest \in {{}, {u}}
    BY <2>1 DEF MailJobGood
  <2> HIDE DEF rest
  <2>3. b[j].kind # "delete" => Cardinality(rest) <= IF b[j].answer = "error" THEN 1 ELSE 0
    BY <2>2, FS_EmptySet, FS_Singleton
  <2> QED
    BY <2>1, <2>3 DEF MailJobGood, rest
<1>3. AMailbox!ReportsAreTrue
  BY <1>2, MailCounts DEF AMailbox!ReportsAreTrue, AMailbox!Job
<1> QED
  BY <1>1, <1>3

LEMMA IdleMailJob == MailJobGood(AMailbox!IdleJob) /\ AMailbox!IdleJob.kind = "flag" /\ AMailbox!IdleJob.answer = "none"
                     /\ AMailbox!IdleJob.told = {} /\ AMailbox!IdleJob.did = {}
<1> DEFINE none == {}
           off == FALSE
           j == AMailbox!IdleJob
<1>1. j = [at |-> "idle", kind |-> "flag", left |-> none, told |-> none, did |-> none, sent |-> off, answer |-> "none"]
      /\ none \in SUBSET AMailbox!RemoteUids /\ off \in BOOLEAN /\ none = {}
  BY DEF AMailbox!IdleJob
<1> HIDE DEF none, off, j
<1>2. j \in MailJobs /\ j.told = none /\ j.did = none /\ j.left = none /\ j.answer = "none" /\ j.kind = "flag"
  BY <1>1 DEF MailJobs, AMailbox!JobKinds
<1> QED
  BY <1>1, <1>2 DEF MailJobGood, j

LEMMA MailStarts == ASSUME AMailbox!MailActionInit PROVE MailInv
<1> DEFINE none == {}
           place == [u \in AMailbox!RemoteUids |-> "source"]
<1>1. PICK uidplus \in BOOLEAN : a = [place |-> place, flagged |-> none, uidplus |-> uidplus]
  BY DEF AMailbox!MailActionInit
<1>2. none \in SUBSET AMailbox!RemoteUids /\ place \in [AMailbox!RemoteUids -> AMailbox!Places]
  BY DEF AMailbox!Places
<1> HIDE DEF none, place
<1>3. a \in ServerStates
  BY <1>1, <1>2 DEF ServerStates
<1>4. b = [j \in RemoteJobs |-> AMailbox!IdleJob]
  BY DEF AMailbox!MailActionInit
<1> QED
  BY <1>3, <1>4, IdleMailJob DEF MailInv

\* One call moves.
LEMMA OneMailJob ==
  ASSUME MailInv, a' \in ServerStates, NEW j \in RemoteJobs, NEW x, MailJobGood(x), b' = [b EXCEPT ![j] = x]
  PROVE  MailInv'
BY DEF MailInv

LEMMA MailEffect ==
  ASSUME a \in ServerStates, NEW u \in AMailbox!RemoteUids, NEW kind
  PROVE  AMailbox!Effect(kind, u) \in ServerStates
<1> DEFINE moved == [a.place EXCEPT ![u] = "moved"]
           gone == [a.place EXCEPT ![u] = "gone"]
<1>1. moved \in [AMailbox!RemoteUids -> AMailbox!Places] /\ gone \in [AMailbox!RemoteUids -> AMailbox!Places]
  BY DEF ServerStates, AMailbox!Places
<1>2. /\ [a EXCEPT !.place[u] = "moved"] = [a EXCEPT !.place = moved]
      /\ [a EXCEPT !.place[u] = "gone"] = [a EXCEPT !.place = gone]
  BY DEF ServerStates
<1>3. AMailbox!Effect(kind, u) \in {a, [a EXCEPT !.flagged = a.flagged \cup {u}], [a EXCEPT !.flagged = a.flagged \ {u}],
                                    [a EXCEPT !.place = moved], [a EXCEPT !.place = gone]}
  BY <1>2 DEF AMailbox!Effect, ServerStates
<1> HIDE DEF moved, gone
<1>4. a.flagged \cup {u} \in SUBSET AMailbox!RemoteUids /\ a.flagged \ {u} \in SUBSET AMailbox!RemoteUids
  BY DEF ServerStates
<1> QED
  BY <1>1, <1>3, <1>4 DEF ServerStates

LEMMA BeginActionOK ==
  ASSUME MailInv, NEW j \in RemoteJobs, NEW kind \in AMailbox!JobKinds, NEW uids \in SUBSET AMailbox!RemoteUids,
         AMailbox!BeginAction(j, kind, uids)
  PROVE  MailInv'
<1> DEFINE idle == AMailbox!IdleJob
           at == IF uids = {} /\ kind # "send" THEN "ends" ELSE "connects"
           answer == IF uids = {} /\ kind # "send" THEN "done" ELSE "none"
           x == [idle EXCEPT !.kind = kind, !.left = uids, !.at = at, !.answer = answer]
<1>1. a' = a /\ b' = [b EXCEPT ![j] = x] /\ (kind = "send" => uids = {})
  BY DEF AMailbox!BeginAction
<1>2. MailJobGood(idle) /\ idle.told = {} /\ idle.did = {}
  BY IdleMailJob
<1>3. at \in {"connects", "ends"} /\ answer \in {"none", "done"} /\ (answer = "done" => uids = {}) /\ (answer # "none" => at = "ends")
  OBVIOUS
<1> HIDE DEF idle, at, answer
<1>4. x \in MailJobs /\ x.told = idle.told /\ x.did = idle.did /\ x.kind = kind /\ x.left = uids /\ x.at = at /\ x.answer = answer
  BY <1>2, <1>3 DEF MailJobGood, MailJobs
<1> HIDE DEF x
<1>5. MailJobGood(x)
  BY <1>1, <1>2, <1>3, <1>4 DEF MailJobGood
<1> QED
  BY <1>1, <1>5, OneMailJob DEF MailInv

\* A call that only goes on, or ends with an error.
LEMMA MailJobPasses ==
  ASSUME MailInv, a' = a, NEW j \in RemoteJobs, b[j].answer = "none", NEW at \in {"locks", "works", "ends"},
         NEW answer \in {"none", "error"}, answer = "error" => at = "ends",
         b' = [b EXCEPT ![j] = [b[j] EXCEPT !.at = at, !.answer = answer]]
  PROVE  MailInv'
<1> DEFINE y == b[j]
           x == [y EXCEPT !.at = at, !.answer = answer]
<1>1. MailJobGood(y) /\ b' = [b EXCEPT ![j] = x] /\ y.answer = "none"
  BY DEF MailInv
<1> HIDE DEF y
<1>2. x \in MailJobs /\ x.told = y.told /\ x.did = y.did /\ x.kind = y.kind /\ x.left = y.left /\ x.at = at /\ x.answer = answer
  BY <1>1 DEF MailJobGood, MailJobs
<1> HIDE DEF x
<1>3. MailJobGood(x)
  BY <1>1, <1>2 DEF MailJobGood
<1> QED
  BY <1>1, <1>3, OneMailJob DEF MailInv

LEMMA JobFailsOK ==
  ASSUME MailInv, a' = a, NEW j \in RemoteJobs, b[j].at # "ends", AMailbox!JobFails(j)
  PROVE  MailInv'
<1>1. MailJobGood(b[j]) /\ b[j] \in MailJobs /\ b[j].answer = "none"
  BY DEF MailInv, MailJobGood, MailJobs
<1>2. b' = [b EXCEPT ![j] = [b[j] EXCEPT !.at = "ends", !.answer = "error"]]
  BY DEF AMailbox!JobFails, MailInv
<1> QED
  BY <1>1, <1>2, MailJobPasses

LEMMA JobGoesOK ==
  ASSUME MailInv, a' = a, NEW j \in RemoteJobs, b[j].at # "ends", NEW at \in {"locks", "works"}, AMailbox!JobGoes(j, at)
  PROVE  MailInv'
<1>1. MailJobGood(b[j]) /\ b[j] \in MailJobs /\ b[j].answer = "none"
  BY DEF MailInv, MailJobGood, MailJobs
<1>2. b' = [b EXCEPT ![j] = [b[j] EXCEPT !.at = at, !.answer = "none"]]
  <2> DEFINE y == b[j]
             x == [y EXCEPT !.at = at]
  <2>1. b' = [b EXCEPT ![j] = x] /\ y \in MailJobs /\ y.answer = "none"
    BY <1>1 DEF AMailbox!JobGoes, MailInv
  <2> HIDE DEF y
  <2>2. x = [y EXCEPT !.at = at, !.answer = "none"]
    BY <2>1 DEF MailJobs
  <2> HIDE DEF x
  <2> QED
    BY <2>1, <2>2 DEF y
<1> QED
  BY <1>1, <1>2, MailJobPasses

LEMMA CommandOK ==
  ASSUME MailInv, NEW j \in RemoteJobs, NEW u \in AMailbox!RemoteUids, AMailbox!Command(j, u)
  PROVE  MailInv'
<1> DEFINE y == b[j]
<1>1. MailJobGood(y) /\ y \in MailJobs /\ y.at = "works" /\ u \in y.left /\ y.answer = "none" /\ a \in ServerStates /\ u \in Nat
  BY DEF MailInv, MailJobGood, MailJobs, AMailbox!Command, AMailbox!Job, AMailbox!RemoteUids
<1>2. AMailbox!Effect(y.kind, u) \in ServerStates
  BY <1>1, MailEffect
<1>3. CASE a' = a /\ AMailbox!JobFails(j)
  BY <1>1, <1>3, JobFailsOK
<1> DEFINE left == y.left \ {u}
           did == y.did \cup {u}
           told == AMailbox!Told(j, u)
<1>4. left \in SUBSET AMailbox!RemoteUids /\ did \in SUBSET AMailbox!RemoteUids /\ told \in SUBSET AMailbox!RemoteUids
  BY <1>1 DEF MailJobs, AMailbox!Told, AMailbox!Job
<1>5. told = IF y.kind = "delete" THEN y.told ELSE y.told \cup {u}
  BY DEF AMailbox!Told, AMailbox!Job
<1>6. CASE a' = AMailbox!Effect(y.kind, u) /\ b' = [b EXCEPT ![j].left = @ \ {u}, ![j].did = @ \cup {u}, ![j].told = told]
  <2> DEFINE x == [y EXCEPT !.left = left, !.did = did, !.told = told]
  <2>1. b' = [b EXCEPT ![j] = x]
    BY <1>6 DEF MailInv
  <2> HIDE DEF y, told, left, did
  <2>2. x \in MailJobs /\ x.told = told /\ x.did = did /\ x.kind = y.kind /\ x.left = left /\ x.at = y.at /\ x.answer = y.answer
    BY <1>1, <1>4 DEF MailJobs
  <2> HIDE DEF x
  <2>3. MailJobGood(x)
    BY <1>1, <1>5, <2>2 DEF MailJobGood, left, did
  <2> QED
    BY <1>2, <1>6, <2>1, <2>3, OneMailJob
<1>7. CASE a' = AMailbox!Effect(y.kind, u) /\ b' = [b EXCEPT ![j].did = @ \cup {u}, ![j].at = "ends", ![j].answer = "error"]
  <2> DEFINE x == [y EXCEPT !.did = did, !.at = "ends", !.answer = "error"]
  <2>1. b' = [b EXCEPT ![j] = x]
    BY <1>7 DEF MailInv
  <2> HIDE DEF y, did
  <2>2. x \in MailJobs /\ x.told = y.told /\ x.did = did /\ x.kind = y.kind /\ x.left = y.left /\ x.at = "ends" /\ x.answer = "error"
    BY <1>1, <1>4 DEF MailJobs
  <2> HIDE DEF x
  <2>3. MailJobGood(x)
    BY <1>1, <2>2 DEF MailJobGood, did
  <2> QED
    BY <1>2, <1>7, <2>1, <2>3, OneMailJob
<1> QED
  BY <1>3, <1>6, <1>7 DEF AMailbox!Command, AMailbox!Job

LEMMA MailEndsOK ==
  ASSUME MailInv, NEW j \in RemoteJobs, AMailbox!AllDone(j) \/ AMailbox!SendMail(j) \/ AMailbox!JobAnswered(j)
  PROVE  MailInv'
<1> DEFINE y == b[j]
<1>1. MailJobGood(y) /\ y \in MailJobs /\ a \in ServerStates /\ a' = a
  BY DEF MailInv, MailJobGood, AMailbox!AllDone, AMailbox!SendMail, AMailbox!JobAnswered
<1>2. CASE AMailbox!AllDone(j)
  <2> DEFINE x == [y EXCEPT !.at = "ends", !.answer = "done"]
  <2>1. b' = [b EXCEPT ![j] = x] /\ y.left = {} /\ y.at = "works"
    BY <1>2 DEF MailInv, AMailbox!AllDone, AMailbox!Job
  <2> HIDE DEF y
  <2>2. x \in MailJobs /\ x.told = y.told /\ x.did = y.did /\ x.kind = y.kind /\ x.left = y.left /\ x.at = "ends" /\ x.answer = "done"
    BY <1>1 DEF MailJobs
  <2> HIDE DEF x
  <2>3. y.answer = "none"
    BY <1>1, <2>1 DEF MailJobGood, MailJobs
  <2>4. MailJobGood(x)
    BY <1>1, <2>1, <2>2, <2>3 DEF MailJobGood
  <2> QED
    BY <1>1, <2>1, <2>4, OneMailJob
<1>3. CASE AMailbox!SendMail(j)
  <2>1. PICK sent \in BOOLEAN, answer \in {"done", "error"} : b' = [b EXCEPT ![j].at = "ends", ![j].sent = sent, ![j].answer = answer]
    BY <1>3 DEF AMailbox!SendMail
  <2> DEFINE x == [y EXCEPT !.at = "ends", !.sent = sent, !.answer = answer]
  <2>2. b' = [b EXCEPT ![j] = x] /\ y.kind = "send" /\ y.at = "connects"
    BY <1>3, <2>1 DEF MailInv, AMailbox!SendMail, AMailbox!Job
  <2> HIDE DEF y
  <2>3. x \in MailJobs /\ x.told = y.told /\ x.did = y.did /\ x.kind = y.kind /\ x.left = y.left /\ x.at = "ends" /\ x.answer = answer
    BY <1>1, <2>1 DEF MailJobs
  <2> HIDE DEF x
  <2>4. y.answer = "none"
    BY <1>1, <2>2 DEF MailJobGood, MailJobs
  <2>5. MailJobGood(x)
    BY <1>1, <2>2, <2>3, <2>4 DEF MailJobGood
  <2> QED
    BY <1>1, <2>2, <2>5, OneMailJob
<1>4. CASE AMailbox!JobAnswered(j)
  BY <1>1, <1>4, IdleMailJob, OneMailJob DEF AMailbox!JobAnswered
<1> QED
  BY <1>2, <1>3, <1>4

LEMMA MailStep == ASSUME MailInv, [AMailbox!MailActionNext]_<<a, b>> PROVE MailInv'
<1>1. CASE UNCHANGED <<a, b>>
  BY <1>1 DEF MailInv
<1>2. ASSUME NEW j \in RemoteJobs, NEW kind \in AMailbox!JobKinds, NEW uids \in SUBSET AMailbox!RemoteUids, AMailbox!BeginAction(j, kind, uids)
      PROVE  MailInv'
  BY <1>2, BeginActionOK
<1>3. ASSUME NEW j \in RemoteJobs, AMailbox!Connect(j) \/ AMailbox!LockMailbox(j) PROVE MailInv'
  <2>1. a' = a /\ b[j].at # "ends" /\ (AMailbox!JobGoes(j, "locks") \/ AMailbox!JobGoes(j, "works") \/ AMailbox!JobFails(j))
    BY <1>3 DEF AMailbox!Connect, AMailbox!LockMailbox, AMailbox!Job
  <2> QED
    BY <2>1, JobGoesOK, JobFailsOK
<1>4. ASSUME NEW j \in RemoteJobs, AMailbox!AllDone(j) \/ AMailbox!SendMail(j) \/ AMailbox!JobAnswered(j) PROVE MailInv'
  BY <1>4, MailEndsOK
<1>5. ASSUME NEW j \in RemoteJobs, NEW u \in AMailbox!RemoteUids, AMailbox!Command(j, u) PROVE MailInv'
  BY <1>5, CommandOK
<1>6. ASSUME NEW u \in AMailbox!RemoteUids, AMailbox!OthersMove(u) PROVE MailInv'
  <2> DEFINE place == [a.place EXCEPT ![u] = "gone"]
  <2>1. a \in ServerStates /\ b' = b /\ a' = [a EXCEPT !.place = place]
    BY <1>6 DEF MailInv, ServerStates, AMailbox!OthersMove
  <2>2. place \in [AMailbox!RemoteUids -> AMailbox!Places]
    BY <2>1 DEF ServerStates, AMailbox!Places
  <2> HIDE DEF place
  <2>3. a' \in ServerStates
    BY <2>1, <2>2 DEF ServerStates
  <2> QED
    BY <2>1, <2>3 DEF MailInv
<1> QED
  BY ONLY <1>1, <1>2, <1>3, <1>4, <1>5, <1>6, [AMailbox!MailActionNext]_<<a, b>> DEF AMailbox!MailActionNext

-----------------------------------------------------------------------------
(* The sessions of the main window: one that is listed is open, or one of  *)
(* the sequences under way is about to open it, or to own up to that it    *)
(* could not.                                                              *)

WindowStates ==
  [listed : SUBSET WindowAgents, running : SUBSET WindowAgents, broken : SUBSET WindowAgents, settings : AWindow!Versions]
OpenSessions == [open : SUBSET WindowAgents, turns : SUBSET WindowAgents, news : SUBSET WindowAgents, file : AWindow!Versions]

Opener(agent, er) == er.agent = agent /\ er.step = "create" /\ er.kind \in {"renew", "save"}
Accounted(w, s, jobs) ==
  \A agent \in WindowAgents : agent \in w.listed /\ agent \notin w.broken => agent \in s.open \/ \E er \in jobs : Opener(agent, er)

WindowInv == a \in WindowStates /\ b \in OpenSessions /\ c \subseteq AWindow!Errands /\ Accounted(a, b, c)

LEMMA WindowHolds == ASSUME WindowInv PROVE AWindow!WindowTypeOK /\ AWindow!ListedIsOpen
<1>1. AWindow!WindowTypeOK
  BY DEF WindowInv, WindowStates, OpenSessions, AWindow!WindowTypeOK
<1>2. AWindow!ListedIsOpen
  <2> SUFFICES ASSUME c = {}, NEW agent, agent \in a.listed, agent \notin a.broken PROVE agent \in b.open
    BY DEF AWindow!ListedIsOpen
  <2>1. agent \in WindowAgents
    BY DEF WindowInv, WindowStates
  <2> QED
    BY <2>1 DEF WindowInv, Accounted
<1> QED
  BY <1>1, <1>2

LEMMA WindowStarts == ASSUME AWindow!WindowInit PROVE WindowInv
<1>1. PICK saved \in [WindowAgents -> 0..1] : \E opened \in SUBSET {x \in WindowAgents : saved[x] = 1} :
        /\ a = [listed |-> opened, running |-> {}, broken |-> {}, settings |-> saved]
        /\ b = [open |-> opened, turns |-> {}, news |-> {}, file |-> saved] /\ c = {}
  BY DEF AWindow!WindowInit
<1>2. PICK opened \in SUBSET WindowAgents :
        /\ a = [listed |-> opened, running |-> {}, broken |-> {}, settings |-> saved]
        /\ b = [open |-> opened, turns |-> {}, news |-> {}, file |-> saved] /\ c = {}
  BY <1>1
<1>3. saved \in AWindow!Versions
  BY Bounds DEF AWindow!Versions
<1> DEFINE none == {}
<1>4. none \in SUBSET WindowAgents
  OBVIOUS
<1>5. /\ a = [listed |-> opened, running |-> none, broken |-> none, settings |-> saved]
      /\ b = [open |-> opened, turns |-> none, news |-> none, file |-> saved]
  BY <1>2
<1> HIDE DEF none
<1>6. a \in WindowStates /\ b \in OpenSessions /\ a.listed = opened /\ b.open = opened
  BY <1>3, <1>4, <1>5 DEF WindowStates, OpenSessions
<1> QED
  BY <1>2, <1>6 DEF WindowInv, Accounted

-----------------------------------------------------------------------------
\* The sequences as they begin and go on.
LEMMA ErrandOK ==
  ASSUME a \in WindowStates, NEW kind \in {"create", "close", "renew", "save", "send", "abort"}, NEW agent \in WindowAgents,
         NEW step \in {"abort", "close", "create", "store", "read", "call"}
  PROVE  /\ AWindow!Errand(kind, agent, step) \in AWindow!Errands
         /\ kind = "save" => AWindow!Errand(kind, agent, step).copy = a.settings
<1> DEFINE copy == IF kind \in {"create", "close", "save"} THEN a.settings ELSE [x \in WindowAgents |-> 0]
           saw == IF kind = "save" THEN a.listed ELSE {}
<1>1. copy \in AWindow!Versions
  BY Bounds DEF WindowStates, AWindow!Versions
<1>2. saw \in SUBSET WindowAgents
  BY DEF WindowStates
<1>3. AWindow!Errand(kind, agent, step) = [kind |-> kind, agent |-> agent, step |-> step, copy |-> copy, saw |-> saw]
  BY DEF AWindow!Errand
<1>4. kind = "save" => copy = a.settings
  OBVIOUS
<1> HIDE DEF copy, saw
<1> QED
  BY <1>1, <1>2, <1>3, <1>4 DEF AWindow!Errands

\* What has begun leaves each session accounted for; what is done does, when its own is.
LEMMA BegunAccounts ==
  ASSUME c \subseteq AWindow!Errands, Accounted(a, b, c), NEW er \in AWindow!Errands, AWindow!Begin(er)
  PROVE  c' \subseteq AWindow!Errands /\ c \subseteq c'
BY DEF AWindow!Begin

LEMMA GoneAccounts ==
  ASSUME NEW w, NEW v, NEW s, NEW t, NEW jobs, NEW left, NEW er \in jobs, Accounted(w, s, jobs),
         jobs \ {er} \subseteq left,
         \A agent \in WindowAgents : agent # er.agent =>
           /\ (agent \in v.listed => agent \in w.listed) /\ (agent \in w.broken => agent \in v.broken)
           /\ (agent \in s.open => agent \in t.open),
         er.agent \in v.listed /\ er.agent \notin v.broken => er.agent \in t.open \/ \E x \in left : Opener(er.agent, x)
  PROVE  Accounted(v, t, left)
<1> SUFFICES ASSUME NEW agent \in WindowAgents, agent \in v.listed, agent \notin v.broken
             PROVE  agent \in t.open \/ \E x \in left : Opener(agent, x)
  BY DEF Accounted
<1>1. CASE agent = er.agent
  BY <1>1
<1>2. CASE agent # er.agent
  <2>1. agent \in s.open \/ \E x \in jobs : Opener(agent, x)
    BY <1>2 DEF Accounted
  <2>2. ASSUME NEW x \in jobs, Opener(agent, x) PROVE x \in left
    BY <1>2, <2>2 DEF Opener
  <2> QED
    BY <1>2, <2>1, <2>2
<1> QED
  BY <1>1, <1>2

\* One that is no opener goes, and takes no opener with it.
LEMMA OthersAccount ==
  ASSUME NEW w, NEW s, NEW jobs, NEW left, NEW er \in jobs, Accounted(w, s, jobs), jobs \ {er} \subseteq left, ~Opener(er.agent, er)
  PROVE  Accounted(w, s, left)
BY DEF Accounted, Opener

-----------------------------------------------------------------------------
LEMMA AskedKeeps ==
  ASSUME WindowInv, NEW agent \in WindowAgents,
         \/ AWindow!CreateSession(agent) \/ AWindow!CloseSession(agent) \/ AWindow!StartNewConversation(agent)
         \/ AWindow!SaveSettings(agent) \/ AWindow!SendText(agent) \/ AWindow!AbortTurn(agent)
  PROVE  WindowInv'
<1>0. a \in WindowStates /\ b \in OpenSessions /\ c \subseteq AWindow!Errands /\ Accounted(a, b, c)
  BY DEF WindowInv
<1>1. UNCHANGED b
  BY DEF AWindow!CreateSession, AWindow!CloseSession, AWindow!StartNewConversation, AWindow!SaveSettings, AWindow!SendText, AWindow!AbortTurn
<1>2. a' \in WindowStates /\ a'.listed = a.listed /\ a'.broken = a.broken
  <2>1. CASE UNCHANGED a
    BY <1>0, <2>1
  <2>2. CASE \/ a' = [a EXCEPT !.running = @ \ {agent}] \/ a' = [a EXCEPT !.running = @ \cup {agent}]
    <3> DEFINE fewer == a.running \ {agent}
               more == a.running \cup {agent}
    <3>1. fewer \in SUBSET WindowAgents /\ more \in SUBSET WindowAgents
      BY <1>0 DEF WindowStates
    <3>2. a' = [a EXCEPT !.running = fewer] \/ a' = [a EXCEPT !.running = more]
      BY <1>0, <2>2 DEF WindowStates
    <3> HIDE DEF fewer, more
    <3> QED
      BY <1>0, <3>1, <3>2 DEF WindowStates
  <2> QED
    BY <2>1, <2>2 DEF AWindow!CreateSession, AWindow!CloseSession, AWindow!StartNewConversation, AWindow!SaveSettings, AWindow!SendText, AWindow!AbortTurn
<1>3. \E er \in AWindow!Errands : AWindow!Begin(er)
  <2>1. CASE AWindow!CreateSession(agent)
    BY <1>0, <2>1, ErrandOK DEF AWindow!CreateSession
  <2>2. CASE AWindow!CloseSession(agent)
    BY <1>0, <2>2, ErrandOK DEF AWindow!CloseSession
  <2>3. CASE AWindow!StartNewConversation(agent)
    BY <1>0, <2>3, ErrandOK DEF AWindow!StartNewConversation
  <2>4. CASE AWindow!SaveSettings(agent)
    <3> DEFINE er == AWindow!Errand("save", agent, "store")
               copy == [a.settings EXCEPT ![agent] = a.settings[agent] + 1]
    <3>1. er \in AWindow!Errands /\ er.copy = a.settings
      BY <1>0, ErrandOK
    <3>2. a.settings \in AWindow!Versions /\ a.settings[agent] \in 1..(MaxVersion - 1)
      BY <1>0, <2>4 DEF WindowStates, AWindow!SaveSettings
    <3>3. copy \in AWindow!Versions
      BY <3>2, Bounds DEF AWindow!Versions
    <3>4. AWindow!Begin([er EXCEPT !.copy[agent] = @ + 1])
      BY <2>4 DEF AWindow!SaveSettings
    <3> HIDE DEF er
    <3>5. [er EXCEPT !.copy[agent] = @ + 1] = [er EXCEPT !.copy = copy]
      BY <3>1, <3>2 DEF AWindow!Errands, AWindow!Versions
    <3> HIDE DEF copy
    <3>6. [er EXCEPT !.copy = copy] \in AWindow!Errands
      BY <3>1, <3>3 DEF AWindow!Errands
    <3> QED
      BY <3>4, <3>5, <3>6
  <2>5. CASE AWindow!SendText(agent)
    BY <1>0, <2>5, ErrandOK DEF AWindow!SendText
  <2>6. CASE AWindow!AbortTurn(agent)
    BY <1>0, <2>6, ErrandOK DEF AWindow!AbortTurn
  <2> QED
    BY <2>1, <2>2, <2>3, <2>4, <2>5, <2>6
<1>4. c' \subseteq AWindow!Errands /\ c \subseteq c'
  BY <1>0, <1>3, BegunAccounts
<1>5. Accounted(a', b', c')
  BY <1>0, <1>1, <1>2, <1>4 DEF Accounted
<1> QED
  BY <1>0, <1>1, <1>2, <1>4, <1>5 DEF WindowInv

\* The states the window and the sidecar come to, part by part.
LEMMA WindowParts ==
  ASSUME NEW w \in WindowStates, NEW agent \in WindowAgents
  PROVE  /\ [w EXCEPT !.running = @ \ {agent}] \in WindowStates
         /\ [w EXCEPT !.running = @ \ {agent}].listed = w.listed /\ [w EXCEPT !.running = @ \ {agent}].broken = w.broken
         /\ [w EXCEPT !.listed = @ \ {agent}] \in WindowStates
         /\ [w EXCEPT !.listed = @ \ {agent}].listed = w.listed \ {agent} /\ [w EXCEPT !.listed = @ \ {agent}].broken = w.broken
         /\ [w EXCEPT !.broken = @ \ {agent}] \in WindowStates
         /\ [w EXCEPT !.broken = @ \ {agent}].listed = w.listed /\ [w EXCEPT !.broken = @ \ {agent}].broken = w.broken \ {agent}
         /\ [w EXCEPT !.broken = @ \cup {agent}] \in WindowStates
         /\ [w EXCEPT !.broken = @ \cup {agent}].listed = w.listed /\ [w EXCEPT !.broken = @ \cup {agent}].broken = w.broken \cup {agent}
         /\ [w EXCEPT !.listed = @ \cup {agent}, !.broken = @ \ {agent}] \in WindowStates
         /\ [w EXCEPT !.listed = @ \cup {agent}, !.broken = @ \ {agent}].listed = w.listed \cup {agent}
         /\ [w EXCEPT !.listed = @ \cup {agent}, !.broken = @ \ {agent}].broken = w.broken \ {agent}
         /\ \A s \in AWindow!Versions : /\ [w EXCEPT !.settings = s] \in WindowStates
                                        /\ [w EXCEPT !.settings = s].listed = w.listed /\ [w EXCEPT !.settings = s].broken = w.broken
BY DEF WindowStates

LEMMA SidecarParts ==
  ASSUME b \in OpenSessions, NEW agent \in WindowAgents
  PROVE  /\ AWindow!Opened(agent) \in OpenSessions /\ AWindow!Opened(agent).open = b.open \cup {agent}
         /\ AWindow!ClosedThere(agent) \in OpenSessions /\ AWindow!ClosedThere(agent).open = b.open \ {agent}
         /\ [b EXCEPT !.turns = @ \cup {agent}] \in OpenSessions /\ [b EXCEPT !.turns = @ \cup {agent}].open = b.open
         /\ [b EXCEPT !.turns = @ \ {agent}, !.news = @ \cup {agent}] \in OpenSessions
         /\ [b EXCEPT !.turns = @ \ {agent}, !.news = @ \cup {agent}].open = b.open
         /\ [b EXCEPT !.news = @ \ {agent}] \in OpenSessions /\ [b EXCEPT !.news = @ \ {agent}].open = b.open
         /\ \A s \in AWindow!Versions : [b EXCEPT !.file = s] \in OpenSessions /\ [b EXCEPT !.file = s].open = b.open
BY DEF OpenSessions, AWindow!Opened, AWindow!ClosedThere

LEMMA ReportKeeps ==
  ASSUME WindowInv, NEW agent \in WindowAgents, AWindow!TurnEnds(agent) \/ AWindow!EndReported(agent) PROVE WindowInv'
<1>0. a \in WindowStates /\ b \in OpenSessions /\ c \subseteq AWindow!Errands /\ Accounted(a, b, c)
  BY DEF WindowInv
<1>1. CASE AWindow!TurnEnds(agent)
  <2>1. UNCHANGED <<a, c>> /\ b' = [b EXCEPT !.turns = @ \ {agent}, !.news = @ \cup {agent}]
    BY <1>1 DEF AWindow!TurnEnds
  <2>2. b' \in OpenSessions /\ b'.open = b.open
    BY <1>0, <2>1, SidecarParts
  <2> QED
    BY <1>0, <2>1, <2>2 DEF WindowInv, Accounted
<1>2. CASE AWindow!EndReported(agent)
  <2>1. UNCHANGED c /\ b' = [b EXCEPT !.news = @ \ {agent}] /\ a' = [a EXCEPT !.running = @ \ {agent}]
    BY <1>2 DEF AWindow!EndReported
  <2>2. b' \in OpenSessions /\ b'.open = b.open
    BY <1>0, <2>1, SidecarParts
  <2>3. a' \in WindowStates /\ a'.listed = a.listed /\ a'.broken = a.broken
    BY <1>0, <2>1, WindowParts
  <2> QED
    BY <1>0, <2>1, <2>2, <2>3 DEF WindowInv, Accounted
<1> QED
  BY <1>1, <1>2

-----------------------------------------------------------------------------
\* A step of a sequence is sound when the types hold and its own session stays accounted for.
LEMMA ErrandKeeps ==
  ASSUME WindowInv, NEW er \in c, a' \in WindowStates, b' \in OpenSessions, c' \subseteq AWindow!Errands, c \ {er} \subseteq c',
         \A agent \in WindowAgents : agent # er.agent =>
           /\ (agent \in a'.listed => agent \in a.listed) /\ (agent \in a.broken => agent \in a'.broken)
           /\ (agent \in b.open => agent \in b'.open),
         er.agent \in a'.listed /\ er.agent \notin a'.broken => er.agent \in b'.open \/ \E x \in c' : Opener(er.agent, x)
  PROVE  WindowInv'
<1>1. Accounted(a, b, c)
  BY DEF WindowInv
<1>2. Accounted(a', b', c')
  BY <1>1, GoneAccounts
<1> QED
  BY <1>2 DEF WindowInv

LEMMA GoesOrEnds ==
  ASSUME WindowInv, NEW er \in c
  PROVE  /\ er \in AWindow!Errands /\ er.agent \in WindowAgents
         /\ AWindow!Done(er) => c' \subseteq AWindow!Errands /\ c \ {er} \subseteq c'
         /\ \A step \in {"abort", "close", "create", "store", "read", "call"} : AWindow!Go(er, step) =>
              /\ c' \subseteq AWindow!Errands /\ c \ {er} \subseteq c'
              /\ step = "create" /\ er.kind \in {"renew", "save"} => \E x \in c' : Opener(er.agent, x)
<1>0. c \in SUBSET AWindow!Errands /\ er \in AWindow!Errands
  BY DEF WindowInv
<1>1. er.agent \in WindowAgents
  BY <1>0 DEF AWindow!Errands
<1>2. AWindow!Done(er) => c' \subseteq AWindow!Errands /\ c \ {er} \subseteq c'
  BY <1>0 DEF AWindow!Done
<1>3. ASSUME NEW step \in {"abort", "close", "create", "store", "read", "call"}, AWindow!Go(er, step)
      PROVE  /\ c' \subseteq AWindow!Errands /\ c \ {er} \subseteq c'
             /\ step = "create" /\ er.kind \in {"renew", "save"} => \E x \in c' : Opener(er.agent, x)
  <2> DEFINE x == [er EXCEPT !.step = step]
  <2>1. c' = (c \ {er}) \cup {x}
    BY <1>3 DEF AWindow!Go
  <2>2. (c \ {er}) \cup {x} \in SUBSET AWindow!Errands /\ x.agent = er.agent /\ x.kind = er.kind /\ x.step = step
    BY <1>0 DEF AWindow!Errands
  <2> HIDE DEF x
  <2> QED
    BY <2>1, <2>2 DEF Opener
<1> QED
  BY <1>0, <1>1, <1>2, <1>3

LEMMA AmendOK ==
  ASSUME NEW er \in AWindow!Errands, er.kind \in {"create", "close"} PROVE AWindow!Amend(er) \in AWindow!Versions
<1>1. er.copy \in AWindow!Versions /\ er.agent \in WindowAgents
  BY DEF AWindow!Errands
<1> DEFINE copy == er.copy
           one == IF copy[er.agent] = 0 THEN 1 ELSE copy[er.agent]
<1>2. one \in 0..MaxVersion /\ 0 \in 0..MaxVersion
  BY <1>1, Bounds DEF AWindow!Versions
<1>3. AWindow!Amend(er) = IF er.kind = "create" THEN [copy EXCEPT ![er.agent] = one] ELSE [copy EXCEPT ![er.agent] = 0]
  <2>1. CASE er.kind = "create"
    BY <1>1, <2>1 DEF AWindow!Amend, AWindow!Versions
  <2>2. CASE er.kind = "close"
    BY <1>1, <2>2 DEF AWindow!Amend, AWindow!Versions
  <2> QED
    BY <2>1, <2>2
<1> HIDE DEF one, copy
<1>4. [copy EXCEPT ![er.agent] = one] \in AWindow!Versions /\ [copy EXCEPT ![er.agent] = 0] \in AWindow!Versions
  BY <1>1, <1>2 DEF AWindow!Versions, copy
<1> QED
  BY <1>3, <1>4

LEMMA SentKeeps == ASSUME WindowInv, NEW er \in c, AWindow!Sent(er) \/ AWindow!Aborted(er) PROVE WindowInv'
<1>0. a \in WindowStates /\ b \in OpenSessions /\ Accounted(a, b, c)
  BY DEF WindowInv
<1>1. /\ er.agent \in WindowAgents /\ c' \subseteq AWindow!Errands /\ c \ {er} \subseteq c' /\ ~Opener(er.agent, er)
  BY GoesOrEnds DEF AWindow!Sent, AWindow!Aborted, Opener
<1>2. a' = a \/ a' = [a EXCEPT !.running = @ \ {er.agent}]
  BY DEF AWindow!Sent, AWindow!Aborted
<1>3. a' \in WindowStates /\ a'.listed = a.listed /\ a'.broken = a.broken
  <2>1. CASE a' = a
    BY <1>0, <2>1
  <2>2. CASE a' = [a EXCEPT !.running = @ \ {er.agent}]
    BY <1>0, <1>1, <2>2, WindowParts
  <2> QED
    BY <1>2, <2>1, <2>2
<1>4. b' = b \/ b' = [b EXCEPT !.turns = @ \cup {er.agent}]
  BY DEF AWindow!Sent, AWindow!Aborted
<1>5. b' \in OpenSessions /\ b'.open = b.open
  <2>1. CASE b' = b
    BY <1>0, <2>1
  <2>2. CASE b' = [b EXCEPT !.turns = @ \cup {er.agent}]
    BY <1>0, <1>1, <2>2, SidecarParts
  <2> QED
    BY <1>4, <2>1, <2>2
<1>6. Accounted(a, b, c')
  BY <1>0, <1>1, OthersAccount
<1> QED
  BY <1>1, <1>3, <1>5, <1>6 DEF WindowInv, Accounted

LEMMA CreatedKeeps == ASSUME WindowInv, NEW er \in c, AWindow!Created(er) PROVE WindowInv'
<1>0. a \in WindowStates /\ b \in OpenSessions /\ c \subseteq AWindow!Errands /\ Accounted(a, b, c) /\ er.agent \in WindowAgents
  BY GoesOrEnds DEF WindowInv
<1>1. CASE b' = AWindow!Opened(er.agent) /\ AWindow!Go(er, "store") /\ a' = [a EXCEPT !.listed = @ \cup {er.agent}, !.broken = @ \ {er.agent}]
  <2>1. c' \subseteq AWindow!Errands /\ c \ {er} \subseteq c'
    BY <1>1, GoesOrEnds
  <2>2. b' \in OpenSessions /\ b'.open = b.open \cup {er.agent}
    BY <1>0, <1>1, SidecarParts
  <2>3. a' \in WindowStates /\ a'.listed = a.listed \cup {er.agent} /\ a'.broken = a.broken \ {er.agent}
    BY <1>0, <1>1, WindowParts
  <2> QED
    BY <2>1, <2>2, <2>3, ErrandKeeps
<1>2. CASE AWindow!Done(er) /\ UNCHANGED <<a, b>>
  <2>1. c' \subseteq AWindow!Errands /\ c \ {er} \subseteq c' /\ ~Opener(er.agent, er)
    BY <1>2, GoesOrEnds DEF AWindow!Created, Opener
  <2>2. Accounted(a, b, c')
    BY <1>0, <2>1, OthersAccount
  <2> QED
    BY <1>0, <1>2, <2>1, <2>2 DEF WindowInv
<1> QED
  BY <1>1, <1>2 DEF AWindow!Created

LEMMA ClosedKeeps == ASSUME WindowInv, NEW er \in c, AWindow!Closed(er) PROVE WindowInv'
<1>0. a \in WindowStates /\ b \in OpenSessions /\ er.agent \in WindowAgents
  BY GoesOrEnds DEF WindowInv
<1>1. c' \subseteq AWindow!Errands /\ c \ {er} \subseteq c'
  BY GoesOrEnds DEF AWindow!Closed
<1>2. a' \in WindowStates /\ a'.listed = a.listed \ {er.agent} /\ a'.broken = a.broken
  <2>1. a' = [a EXCEPT !.listed = @ \ {er.agent}]
    BY DEF AWindow!Closed
  <2> QED
    BY <1>0, <2>1, WindowParts
<1>3. b' \in OpenSessions /\ b'.open \in {b.open, b.open \ {er.agent}}
  <2>1. b' = b \/ b' = AWindow!ClosedThere(er.agent)
    BY DEF AWindow!Closed
  <2> QED
    BY <1>0, <2>1, SidecarParts
<1> QED
  BY <1>1, <1>2, <1>3, ErrandKeeps

LEMMA StoredKeeps ==
  ASSUME WindowInv, NEW er \in c, AWindow!Stored(er) \/ AWindow!SettingsSaved(er) \/ AWindow!SettingsRead(er) PROVE WindowInv'
<1>0. a \in WindowStates /\ b \in OpenSessions /\ Accounted(a, b, c) /\ er \in AWindow!Errands /\ er.agent \in WindowAgents
  BY GoesOrEnds DEF WindowInv
<1>1. c' \subseteq AWindow!Errands /\ c \ {er} \subseteq c' /\ ~Opener(er.agent, er)
  BY GoesOrEnds DEF AWindow!Stored, AWindow!SettingsSaved, AWindow!SettingsRead, Opener
<1>2. \E s \in AWindow!Versions : b' = b \/ b' = [b EXCEPT !.file = s]
  <2>1. b.file \in AWindow!Versions /\ er.copy \in AWindow!Versions
    BY <1>0 DEF OpenSessions, AWindow!Errands
  <2>2. CASE AWindow!Stored(er)
    <3>1. AWindow!Amend(er) \in AWindow!Versions
      BY <1>0, <2>2, AmendOK DEF AWindow!Stored
    <3> QED
      BY <2>1, <2>2, <3>1 DEF AWindow!Stored
  <2>3. CASE AWindow!SettingsSaved(er) \/ AWindow!SettingsRead(er)
    BY <2>1, <2>3 DEF AWindow!SettingsSaved, AWindow!SettingsRead
  <2> QED
    BY <2>2, <2>3
<1>3. b' \in OpenSessions /\ b'.open = b.open
  <2>1. CASE b' = b
    BY <1>0, <2>1
  <2>2. ASSUME NEW s \in AWindow!Versions, b' = [b EXCEPT !.file = s] PROVE b' \in OpenSessions /\ b'.open = b.open
    BY <1>0, <2>2, SidecarParts
  <2> QED
    BY <1>2, <2>1, <2>2
<1>4. \E s \in AWindow!Versions : a' = a \/ a' = [a EXCEPT !.settings = s]
  <2>1. b.file \in AWindow!Versions
    BY <1>0 DEF OpenSessions
  <2>2. CASE AWindow!Stored(er)
    <3>1. AWindow!Amend(er) \in AWindow!Versions
      BY <1>0, <2>2, AmendOK DEF AWindow!Stored
    <3> QED
      BY <2>2, <3>1 DEF AWindow!Stored
  <2>3. CASE AWindow!SettingsSaved(er) \/ AWindow!SettingsRead(er)
    BY <2>1, <2>3 DEF AWindow!SettingsSaved, AWindow!SettingsRead
  <2> QED
    BY <2>2, <2>3
<1>5. a' \in WindowStates /\ a'.listed = a.listed /\ a'.broken = a.broken
  <2>1. CASE a' = a
    BY <1>0, <2>1
  <2>2. ASSUME NEW s \in AWindow!Versions, a' = [a EXCEPT !.settings = s]
        PROVE  a' \in WindowStates /\ a'.listed = a.listed /\ a'.broken = a.broken
    BY <1>0, <2>2, WindowParts
  <2> QED
    BY <1>4, <2>1, <2>2
<1>6. Accounted(a, b, c')
  BY <1>0, <1>1, OthersAccount
<1> QED
  BY <1>1, <1>3, <1>5, <1>6 DEF WindowInv, Accounted

LEMMA RenewedKeeps == ASSUME WindowInv, NEW er \in c, AWindow!Renewed(er) PROVE WindowInv'
<1>0. a \in WindowStates /\ b \in OpenSessions /\ Accounted(a, b, c) /\ er.agent \in WindowAgents /\ er.kind = "renew"
  BY GoesOrEnds DEF WindowInv, AWindow!Renewed
<1>1. CASE er.step = "abort" /\ AWindow!Go(er, "close") /\ UNCHANGED <<a, b>>
  <2>1. c' \subseteq AWindow!Errands /\ c \ {er} \subseteq c' /\ ~Opener(er.agent, er)
    BY <1>1, GoesOrEnds DEF Opener
  <2>2. Accounted(a, b, c')
    BY <1>0, <2>1, OthersAccount
  <2> QED
    BY <1>0, <1>1, <2>1, <2>2 DEF WindowInv
<1>2. CASE AWindow!Go(er, "create") /\ UNCHANGED a /\ b' \in {b, AWindow!ClosedThere(er.agent)}
  <2>1. c' \subseteq AWindow!Errands /\ c \ {er} \subseteq c' /\ \E x \in c' : Opener(er.agent, x)
    BY <1>0, <1>2, GoesOrEnds
  <2>2. b' \in OpenSessions /\ b'.open \in {b.open, b.open \ {er.agent}}
    BY <1>0, <1>2, SidecarParts
  <2> QED
    BY <1>0, <1>2, <2>1, <2>2, ErrandKeeps
<1>3. CASE AWindow!Done(er) /\ b' = AWindow!Opened(er.agent) /\ a' = [a EXCEPT !.broken = @ \ {er.agent}]
  <2>1. c' \subseteq AWindow!Errands /\ c \ {er} \subseteq c'
    BY <1>3, GoesOrEnds
  <2>2. b' \in OpenSessions /\ b'.open = b.open \cup {er.agent}
    BY <1>0, <1>3, SidecarParts
  <2>3. a' \in WindowStates /\ a'.listed = a.listed /\ a'.broken = a.broken \ {er.agent}
    BY <1>0, <1>3, WindowParts
  <2> QED
    BY <2>1, <2>2, <2>3, ErrandKeeps
<1>4. CASE AWindow!Done(er) /\ UNCHANGED b /\ a' = [a EXCEPT !.broken = @ \cup {er.agent}]
  <2>1. c' \subseteq AWindow!Errands /\ c \ {er} \subseteq c'
    BY <1>4, GoesOrEnds
  <2>2. a' \in WindowStates /\ a'.listed = a.listed /\ a'.broken = a.broken \cup {er.agent}
    BY <1>0, <1>4, WindowParts
  <2> QED
    BY <1>0, <1>4, <2>1, <2>2, ErrandKeeps
<1> QED
  BY <1>1, <1>2, <1>3, <1>4 DEF AWindow!Renewed

LEMMA ReopenedKeeps == ASSUME WindowInv, NEW er \in c, AWindow!Reopened(er) PROVE WindowInv'
<1>0. a \in WindowStates /\ b \in OpenSessions /\ er.agent \in WindowAgents /\ er.kind = "save"
  BY GoesOrEnds DEF WindowInv, AWindow!Reopened
<1>1. CASE b' = AWindow!ClosedThere(er.agent) /\ AWindow!Go(er, "create") /\ UNCHANGED a
  <2>1. c' \subseteq AWindow!Errands /\ c \ {er} \subseteq c' /\ \E x \in c' : Opener(er.agent, x)
    BY <1>0, <1>1, GoesOrEnds
  <2>2. b' \in OpenSessions /\ b'.open = b.open \ {er.agent}
    BY <1>0, <1>1, SidecarParts
  <2> QED
    BY <1>0, <1>1, <2>1, <2>2, ErrandKeeps
<1>2. CASE b' = AWindow!Opened(er.agent) /\ AWindow!Done(er) /\ UNCHANGED a
  <2>1. c' \subseteq AWindow!Errands /\ c \ {er} \subseteq c'
    BY <1>2, GoesOrEnds
  <2>2. b' \in OpenSessions /\ b'.open = b.open \cup {er.agent}
    BY <1>0, <1>2, SidecarParts
  <2> QED
    BY <1>0, <1>2, <2>1, <2>2, ErrandKeeps
<1>3. CASE AWindow!Done(er) /\ UNCHANGED b /\ a' = [a EXCEPT !.listed = @ \ {er.agent}]
  <2>1. c' \subseteq AWindow!Errands /\ c \ {er} \subseteq c'
    BY <1>3, GoesOrEnds
  <2>2. a' \in WindowStates /\ a'.listed = a.listed \ {er.agent} /\ a'.broken = a.broken
    BY <1>0, <1>3, WindowParts
  <2> QED
    BY <1>0, <1>3, <2>1, <2>2, ErrandKeeps
<1> QED
  BY <1>1, <1>2, <1>3 DEF AWindow!Reopened

LEMMA WindowStep == ASSUME WindowInv, [AWindow!WindowNext]_<<a, b, c>> PROVE WindowInv'
<1>1. CASE UNCHANGED <<a, b, c>>
  BY <1>1 DEF WindowInv, Accounted
<1>2. ASSUME NEW agent \in WindowAgents,
             \/ AWindow!CreateSession(agent) \/ AWindow!CloseSession(agent) \/ AWindow!StartNewConversation(agent)
             \/ AWindow!SaveSettings(agent) \/ AWindow!SendText(agent) \/ AWindow!AbortTurn(agent)
      PROVE  WindowInv'
  BY <1>2, AskedKeeps
<1>3. ASSUME NEW agent \in WindowAgents, AWindow!TurnEnds(agent) \/ AWindow!EndReported(agent) PROVE WindowInv'
  BY <1>3, ReportKeeps
<1>4. ASSUME NEW er \in c, AWindow!Sent(er) \/ AWindow!Aborted(er) PROVE WindowInv'
  BY <1>4, SentKeeps
<1>5. ASSUME NEW er \in c, AWindow!Created(er) PROVE WindowInv'
  BY <1>5, CreatedKeeps
<1>6. ASSUME NEW er \in c, AWindow!Closed(er) PROVE WindowInv'
  BY <1>6, ClosedKeeps
<1>7. ASSUME NEW er \in c, AWindow!Stored(er) \/ AWindow!SettingsSaved(er) \/ AWindow!SettingsRead(er) PROVE WindowInv'
  BY <1>7, StoredKeeps
<1>8. ASSUME NEW er \in c, AWindow!Renewed(er) PROVE WindowInv'
  BY <1>8, RenewedKeeps
<1>9. ASSUME NEW er \in c, AWindow!Reopened(er) PROVE WindowInv'
  BY <1>9, ReopenedKeeps
<1> QED
  BY ONLY <1>1, <1>2, <1>3, <1>4, <1>5, <1>6, <1>7, <1>8, <1>9, [AWindow!WindowNext]_<<a, b, c>> DEF AWindow!WindowNext

-----------------------------------------------------------------------------
(* The page of cards, routines, policy and connectors: what is on its way  *)
(* to the page of a card that was decided is so in the sidecar, where it   *)
(* stays decided.                                                          *)

CardBoard == [Cards -> AnAssist!Statuses]
RoutineBoard == [RoutineNames -> AnAssist!Switches]
AssistPages ==
  [open : BOOLEAN, cards : CardBoard, busy : SUBSET Cards, routines : RoutineBoard,
   policy : 0..MaxPolicy, connector : BOOLEAN, secret : AnAssist!Secrets]
Offices == [cards : CardBoard, routines : RoutineBoard, policy : 0..MaxPolicy, connector : BOOLEAN, secret : BOOLEAN]

Told(board, cards) == \A x \in Cards : cards[x] \in AnAssist!Final => board[x] = cards[x]
TrueLetter(n, board) ==
  /\ "cards" \in DOMAIN n => Told(board, n.cards)
  /\ "card" \in DOMAIN n /\ n.status \in AnAssist!Final => board[n.card] = n.status

AssistInv ==
  /\ a \in AnAssist!Parts /\ b \in AssistPages /\ c \in Offices /\ d \subseteq AnAssist!Calls /\ e \subseteq AnAssist!News
  /\ Told(c.cards, b.cards) /\ \A n \in e : TrueLetter(n, c.cards)

LEMMA AssistHolds == ASSUME AssistInv PROVE AnAssist!AssistTypeOK /\ AnAssist!DecidedAsShown
<1>1. AnAssist!AssistTypeOK
  BY DEF AssistInv, AssistPages, Offices, CardBoard, RoutineBoard, AnAssist!AssistTypeOK
<1>2. AnAssist!DecidedAsShown
  BY DEF AssistInv, Told, AnAssist!DecidedAsShown
<1> QED
  BY <1>1, <1>2

\* A page with nothing in it.
LEMMA AtRestOK == AnAssist!AtRest \in AssistPages /\ [AnAssist!AtRest EXCEPT !.open = TRUE] \in AssistPages
                  /\ (\A x \in Cards : AnAssist!AtRest.cards[x] = "none")
                  /\ [AnAssist!AtRest EXCEPT !.open = TRUE].cards = AnAssist!AtRest.cards
<1> DEFINE off == FALSE
           on == TRUE
           cards == [x \in Cards |-> "none"]
           routines == [r \in RoutineNames |-> "none"]
           empty == {}
           zero == 0
           p == AnAssist!AtRest
<1>1. /\ off \in BOOLEAN /\ on \in BOOLEAN /\ empty \in SUBSET Cards /\ zero \in 0..MaxPolicy
      /\ cards \in CardBoard /\ routines \in RoutineBoard /\ \A x \in Cards : cards[x] = "none"
  BY Bounds DEF CardBoard, RoutineBoard, AnAssist!Statuses, AnAssist!Switches
<1>2. p = [open |-> off, cards |-> cards, busy |-> empty, routines |-> routines, policy |-> zero, connector |-> off, secret |-> "none"]
  BY DEF AnAssist!AtRest
<1> HIDE DEF off, on, cards, routines, empty, zero, p
<1>3. p \in AssistPages /\ p.cards = cards /\ [p EXCEPT !.open = on] \in AssistPages /\ [p EXCEPT !.open = on].cards = cards
  BY <1>1, <1>2 DEF AssistPages, AnAssist!Secrets
<1>4. p \in AssistPages /\ [p EXCEPT !.open = TRUE] \in AssistPages
  BY <1>3 DEF on
<1>5. (\A x \in Cards : p.cards[x] = "none") /\ [p EXCEPT !.open = TRUE].cards = p.cards
  BY <1>1, <1>3 DEF on
<1> QED
  BY <1>4, <1>5 DEF p

LEMMA AssistStarts == ASSUME AnAssist!AssistInit PROVE AssistInv
<1>1. a \in AnAssist!Parts /\ b = AnAssist!AtRest /\ d = {} /\ e = {}
  BY DEF AnAssist!AssistInit
<1>2. c \in Offices
  <2> DEFINE off == FALSE
             cards == [x \in Cards |-> "none"]
             routines == [r \in RoutineNames |-> "none"]
             zero == 0
  <2>1. /\ off \in BOOLEAN /\ zero \in 0..MaxPolicy /\ cards \in CardBoard /\ routines \in RoutineBoard
    BY Bounds DEF CardBoard, RoutineBoard, AnAssist!Statuses, AnAssist!Switches
  <2>2. c = [cards |-> cards, routines |-> routines, policy |-> zero, connector |-> off, secret |-> off]
    BY DEF AnAssist!AssistInit
  <2> HIDE DEF off, cards, routines, zero
  <2> QED
    BY <2>1, <2>2 DEF Offices
<1>3. Told(c.cards, b.cards)
  BY <1>1, AtRestOK DEF Told, AnAssist!Final
<1> QED
  BY <1>1, <1>2, <1>3, AtRestOK DEF AssistInv

-----------------------------------------------------------------------------
\* What the letters of each kind hold.
LEMMA Letters ==
  ASSUME NEW n \in AnAssist!News
  PROVE  /\ "cards" \in DOMAIN n => n.cards \in CardBoard
         /\ "routines" \in DOMAIN n => n.routines \in RoutineBoard
         /\ "card" \in DOMAIN n => n.card \in Cards /\ n.status \in AnAssist!Statuses
         /\ "routine" \in DOMAIN n => n.routine \in RoutineNames /\ n.stands \in AnAssist!Switches
         /\ "version" \in DOMAIN n => n.version \in 0..MaxPolicy
         /\ "kept" \in DOMAIN n => n.kept \in BOOLEAN
BY DEF AnAssist!News, CardBoard, RoutineBoard

LEMMA CardLetter ==
  ASSUME NEW x \in Cards, NEW status \in AnAssist!Statuses, NEW own \in BOOLEAN, NEW board
  PROVE  /\ AnAssist!Card(x, status, own) \in AnAssist!News
         /\ (status \in AnAssist!Final => board[x] = status) => TrueLetter(AnAssist!Card(x, status, own), board)
<1> DEFINE n == AnAssist!Card(x, status, own)
           event == ~own
<1>1. n = [event |-> event, card |-> x, status |-> status, decided |-> own] /\ event \in BOOLEAN
  BY DEF AnAssist!Card
<1> HIDE DEF n, event
<1>2. n \in AnAssist!News
  BY <1>1 DEF AnAssist!News
<1>3. "cards" \notin DOMAIN n /\ n.card = x /\ n.status = status
  BY <1>1
<1> QED
  BY <1>2, <1>3 DEF n, TrueLetter

LEMMA RoutineLetter ==
  ASSUME NEW r \in RoutineNames, NEW stands \in AnAssist!Switches, NEW own \in BOOLEAN, NEW board
  PROVE  AnAssist!Routine(r, stands, own) \in AnAssist!News /\ TrueLetter(AnAssist!Routine(r, stands, own), board)
<1> DEFINE n == AnAssist!Routine(r, stands, own)
           event == ~own
<1>1. n = [event |-> event, routine |-> r, stands |-> stands] /\ event \in BOOLEAN
  BY DEF AnAssist!Routine
<1> HIDE DEF n, event
<1>2. n \in AnAssist!News
  BY <1>1 DEF AnAssist!News
<1>3. "cards" \notin DOMAIN n /\ "card" \notin DOMAIN n
  BY <1>1
<1> QED
  BY <1>2, <1>3 DEF n, TrueLetter

LEMMA OtherLetters ==
  ASSUME NEW board, NEW version \in 0..MaxPolicy, NEW answer \in {"connectors", "connectorPut", "dropConnector"},
         NEW ok \in BOOLEAN, NEW isKept \in BOOLEAN, NEW cards \in CardBoard, NEW routines \in RoutineBoard, Told(board, cards)
  PROVE  /\ [list |-> "cards", cards |-> cards] \in AnAssist!News /\ TrueLetter([list |-> "cards", cards |-> cards], board)
         /\ [list |-> "routines", routines |-> routines] \in AnAssist!News
         /\ TrueLetter([list |-> "routines", routines |-> routines], board)
         /\ [answer |-> "policy", version |-> version] \in AnAssist!News
         /\ TrueLetter([answer |-> "policy", version |-> version], board)
         /\ [answer |-> answer, ok |-> ok, kept |-> isKept] \in AnAssist!News
         /\ TrueLetter([answer |-> answer, ok |-> ok, kept |-> isKept], board)
         /\ [failed |-> "policy"] \in AnAssist!News /\ TrueLetter([failed |-> "policy"], board)
<1>1. [list |-> "cards", cards |-> cards] \in AnAssist!News /\ TrueLetter([list |-> "cards", cards |-> cards], board)
  BY DEF AnAssist!News, CardBoard, TrueLetter
<1>2. [list |-> "routines", routines |-> routines] \in AnAssist!News /\ TrueLetter([list |-> "routines", routines |-> routines], board)
  BY DEF AnAssist!News, RoutineBoard, TrueLetter
<1>3. [answer |-> "policy", version |-> version] \in AnAssist!News /\ TrueLetter([answer |-> "policy", version |-> version], board)
  BY DEF AnAssist!News, TrueLetter
<1>4. /\ [answer |-> answer, ok |-> ok, kept |-> isKept] \in AnAssist!News
      /\ TrueLetter([answer |-> answer, ok |-> ok, kept |-> isKept], board)
  BY DEF AnAssist!News, TrueLetter
<1>5. [failed |-> "policy"] \in AnAssist!News /\ TrueLetter([failed |-> "policy"], board)
  BY DEF AnAssist!News, TrueLetter
<1> QED
  BY <1>1, <1>2, <1>3, <1>4, <1>5

-----------------------------------------------------------------------------
\* The page moves: it hears a letter, or the user asks for something.
LEMMA PageMoves ==
  ASSUME AssistInv, UNCHANGED <<a, c>>, b' \in AssistPages, Told(c.cards, b'.cards), d' \subseteq AnAssist!Calls, e' \subseteq e
  PROVE  AssistInv'
BY DEF AssistInv

\* The calls the page makes.
LEMMA CallsOK ==
  /\ \A kind \in AnAssist!Parts \cup {"dropConnector"} : [kind |-> kind] \in AnAssist!Calls
  /\ \A x \in Cards, says \in {"approved", "denied"} : [kind |-> "decide", card |-> x, says |-> says] \in AnAssist!Calls
  /\ \A r \in RoutineNames, on \in BOOLEAN, kind \in {"put", "delete"} : [kind |-> kind, routine |-> r, on |-> on] \in AnAssist!Calls
  /\ \A v \in 0..MaxPolicy : [kind |-> "policySet", version |-> v] \in AnAssist!Calls
  /\ \A secret \in BOOLEAN : [kind |-> "connectorPut", secret |-> secret] \in AnAssist!Calls
<1>1. \A kind \in AnAssist!Parts \cup {"dropConnector"} : [kind |-> kind] \in AnAssist!Calls
  BY DEF AnAssist!Calls, AnAssist!Parts
<1>2. \A x \in Cards, says \in {"approved", "denied"} : [kind |-> "decide", card |-> x, says |-> says] \in AnAssist!Calls
  BY DEF AnAssist!Calls
<1>3. \A r \in RoutineNames, on \in BOOLEAN, kind \in {"put", "delete"} : [kind |-> kind, routine |-> r, on |-> on] \in AnAssist!Calls
  BY DEF AnAssist!Calls
<1>4. \A v \in 0..MaxPolicy : [kind |-> "policySet", version |-> v] \in AnAssist!Calls
  BY DEF AnAssist!Calls
<1>5. \A secret \in BOOLEAN : [kind |-> "connectorPut", secret |-> secret] \in AnAssist!Calls
  BY DEF AnAssist!Calls
<1> QED
  BY <1>1, <1>2, <1>3, <1>4, <1>5

LEMMA AskedOf ==
  ASSUME AssistInv, UNCHANGED a, NEW call \in AnAssist!Calls, AnAssist!Calling(call), b' \in AssistPages, b'.cards = b.cards
  PROVE  AssistInv'
<1>1. UNCHANGED <<c, e>> /\ d' = d \cup {call} /\ d \subseteq AnAssist!Calls /\ Told(c.cards, b.cards)
  BY DEF AnAssist!Calling, AssistInv
<1> QED
  BY <1>1, PageMoves

LEMMA UserKeeps ==
  ASSUME AssistInv, UNCHANGED a,
         \/ AnAssist!OpenAssist \/ AnAssist!CloseAssist \/ AnAssist!SavePolicy \/ AnAssist!TypeSecret
         \/ AnAssist!SaveConnector \/ AnAssist!DropConnector
         \/ \E x \in Cards, says \in {"approved", "denied"} : AnAssist!ClickCard(x, says)
         \/ \E r \in RoutineNames : AnAssist!SaveRoutine(r) \/ AnAssist!ToggleRoutine(r) \/ AnAssist!RemoveRoutine(r)
  PROVE  AssistInv'
<1>0. a \in AnAssist!Parts /\ b \in AssistPages /\ c \in Offices /\ d \subseteq AnAssist!Calls /\ Told(c.cards, b.cards)
  BY DEF AssistInv
<1>1. CASE AnAssist!OpenAssist
  <2>1. b' = [AnAssist!AtRest EXCEPT !.open = TRUE] /\ UNCHANGED <<c, e>> /\ d' = d \cup [kind : {a}]
    BY <1>1 DEF AnAssist!OpenAssist
  <2>2. b' \in AssistPages /\ \A x \in Cards : b'.cards[x] = "none"
    BY <2>1, AtRestOK
  <2>3. Told(c.cards, b'.cards)
    BY <2>2 DEF Told, AnAssist!Final
  <2>4. [kind : {a}] \subseteq AnAssist!Calls
    BY <1>0 DEF AnAssist!Calls, AnAssist!Parts
  <2> QED
    BY <1>0, <2>1, <2>2, <2>3, <2>4, PageMoves
<1>2. CASE AnAssist!CloseAssist
  <2>1. b' = AnAssist!AtRest /\ UNCHANGED <<c, d>> /\ e' = {}
    BY <1>2 DEF AnAssist!CloseAssist
  <2>2. b' \in AssistPages /\ \A x \in Cards : b'.cards[x] = "none"
    BY <2>1, AtRestOK
  <2>3. Told(c.cards, b'.cards)
    BY <2>2 DEF Told, AnAssist!Final
  <2> QED
    BY <1>0, <2>1, <2>2, <2>3, PageMoves
<1>3. CASE AnAssist!SavePolicy
  <2> DEFINE next == b.policy + 1
             call == [kind |-> "policySet", version |-> next]
  <2>1. b.policy < MaxPolicy /\ b' = [b EXCEPT !.policy = next] /\ AnAssist!Calling(call)
    BY <1>3 DEF AnAssist!SavePolicy
  <2>2. next \in 0..MaxPolicy
    BY <1>0, <2>1, Bounds DEF AssistPages
  <2>3. call \in AnAssist!Calls
    BY <2>2, CallsOK
  <2> HIDE DEF next
  <2>4. b' \in AssistPages /\ b'.cards = b.cards
    BY <1>0, <2>1, <2>2 DEF AssistPages
  <2> HIDE DEF call
  <2> QED
    BY <2>1, <2>3, <2>4, AskedOf
<1>4. CASE AnAssist!TypeSecret
  <2>1. b' = [b EXCEPT !.secret = "typed"] /\ UNCHANGED <<c, d, e>>
    BY <1>4 DEF AnAssist!TypeSecret
  <2>2. b' \in AssistPages /\ b'.cards = b.cards
    BY <1>0, <2>1 DEF AssistPages, AnAssist!Secrets
  <2> QED
    BY <1>0, <2>1, <2>2, PageMoves
<1>5. CASE AnAssist!SaveConnector
  <2> DEFINE secret == b.secret = "typed"
  <2>1. AnAssist!Calling([kind |-> "connectorPut", secret |-> secret]) /\ UNCHANGED b /\ secret \in BOOLEAN
    BY <1>5 DEF AnAssist!SaveConnector
  <2> HIDE DEF secret
  <2> DEFINE call == [kind |-> "connectorPut", secret |-> secret]
  <2>2. call \in AnAssist!Calls /\ AnAssist!Calling(call)
    BY <2>1, CallsOK
  <2> HIDE DEF call
  <2> QED
    BY <1>0, <2>1, <2>2, AskedOf
<1>6. CASE AnAssist!DropConnector
  <2> DEFINE call == [kind |-> "dropConnector"]
  <2>1. AnAssist!Calling(call) /\ UNCHANGED b /\ call \in AnAssist!Calls
    BY <1>6, CallsOK DEF AnAssist!DropConnector
  <2> HIDE DEF call
  <2> QED
    BY <1>0, <2>1, AskedOf
<1>7. ASSUME NEW x \in Cards, NEW says \in {"approved", "denied"}, AnAssist!ClickCard(x, says) PROVE AssistInv'
  <2> DEFINE call == [kind |-> "decide", card |-> x, says |-> says]
             busy == {x}
  <2>1. AnAssist!Calling(call) /\ b' = [b EXCEPT !.busy = busy] /\ call \in AnAssist!Calls /\ busy \in SUBSET Cards
    BY <1>7, CallsOK DEF AnAssist!ClickCard
  <2> HIDE DEF call, busy
  <2>2. b' \in AssistPages /\ b'.cards = b.cards
    BY <1>0, <2>1 DEF AssistPages
  <2> QED
    BY <2>1, <2>2, AskedOf
<1>8. ASSUME NEW r \in RoutineNames, AnAssist!SaveRoutine(r) \/ AnAssist!ToggleRoutine(r) \/ AnAssist!RemoveRoutine(r) PROVE AssistInv'
  <2>1. PICK kind \in {"put", "delete"}, on \in BOOLEAN : AnAssist!Calling([kind |-> kind, routine |-> r, on |-> on]) /\ UNCHANGED b
    <3>1. CASE AnAssist!SaveRoutine(r)
      BY <3>1 DEF AnAssist!SaveRoutine
    <3>2. CASE AnAssist!ToggleRoutine(r)
      BY <3>2 DEF AnAssist!ToggleRoutine
    <3>3. CASE AnAssist!RemoveRoutine(r)
      BY <3>3 DEF AnAssist!RemoveRoutine
    <3> QED
      BY <1>8, <3>1, <3>2, <3>3
  <2> DEFINE call == [kind |-> kind, routine |-> r, on |-> on]
  <2>2. call \in AnAssist!Calls /\ AnAssist!Calling(call)
    BY <2>1, CallsOK
  <2> HIDE DEF call
  <2> QED
    BY <1>0, <2>1, <2>2, AskedOf
<1> QED
  BY <1>1, <1>2, <1>3, <1>4, <1>5, <1>6, <1>7, <1>8

-----------------------------------------------------------------------------
\* What reaches the page is of a letter that is true.
LEMMA HeardKeeps == ASSUME AssistInv, UNCHANGED a, NEW n \in e, NEW page \in AssistPages, AnAssist!Hear(n, page), Told(c.cards, page.cards) PROVE AssistInv'
<1>1. b' = page /\ UNCHANGED <<c, d>> /\ e' \subseteq e
  BY DEF AnAssist!Hear
<1>2. d \subseteq AnAssist!Calls
  BY DEF AssistInv
<1> QED
  BY <1>1, <1>2, PageMoves

LEMMA LetterKeeps ==
  ASSUME AssistInv, UNCHANGED a, NEW n \in e,
         \/ AnAssist!CardsListed(n) \/ AnAssist!RoutinesListed(n) \/ AnAssist!CardHeard(n) \/ AnAssist!RoutineHeard(n)
         \/ AnAssist!PolicyHeard(n) \/ AnAssist!ConnectorHeard(n) \/ AnAssist!ErrorHeard(n)
  PROVE  AssistInv'
<1>0. b \in AssistPages /\ c \in Offices /\ n \in AnAssist!News /\ Told(c.cards, b.cards) /\ TrueLetter(n, c.cards)
  BY DEF AssistInv
<1>1. CASE AnAssist!CardsListed(n)
  <2> DEFINE cards == n.cards
             page == [b EXCEPT !.cards = cards]
  <2>1. "cards" \in DOMAIN n /\ AnAssist!Hear(n, page)
    BY <1>1 DEF AnAssist!CardsListed
  <2>2. cards \in CardBoard /\ Told(c.cards, cards)
    BY <1>0, <2>1, Letters DEF TrueLetter
  <2> HIDE DEF cards
  <2>3. page \in AssistPages /\ page.cards = cards
    BY <1>0, <2>2 DEF AssistPages
  <2> HIDE DEF page
  <2> QED
    BY <2>1, <2>2, <2>3, HeardKeeps
<1>2. CASE AnAssist!RoutinesListed(n)
  <2> DEFINE routines == n.routines
             page == [b EXCEPT !.routines = routines]
  <2>1. "routines" \in DOMAIN n /\ AnAssist!Hear(n, page)
    BY <1>2 DEF AnAssist!RoutinesListed
  <2>2. routines \in RoutineBoard
    BY <1>0, <2>1, Letters
  <2> HIDE DEF routines
  <2>3. page \in AssistPages /\ page.cards = b.cards
    BY <1>0, <2>2 DEF AssistPages
  <2> HIDE DEF page
  <2> QED
    BY <1>0, <2>1, <2>3, HeardKeeps
<1>3. CASE AnAssist!CardHeard(n)
  <2> DEFINE cards == [b.cards EXCEPT ![n.card] = n.status]
             busy == IF n.decided THEN {} ELSE b.busy
             page == [b EXCEPT !.cards = cards, !.busy = busy]
  <2>1. "card" \in DOMAIN n /\ AnAssist!Hear(n, page)
    <3>1. [b EXCEPT !.cards[n.card] = n.status, !.busy = IF n.decided THEN {} ELSE @] = page
      BY <1>0 DEF AssistPages
    <3> HIDE DEF page
    <3> QED
      BY <1>3, <3>1 DEF AnAssist!CardHeard
  <2>2. n.card \in Cards /\ n.status \in AnAssist!Statuses
    BY <1>0, <2>1, Letters
  <2>3. b.cards \in CardBoard /\ busy \in SUBSET Cards
    BY <1>0 DEF AssistPages
  <2>4. cards \in CardBoard
    BY <2>2, <2>3 DEF CardBoard
  <2>5. Told(c.cards, cards)
    <3>1. n.status \in AnAssist!Final => c.cards[n.card] = n.status
      BY <1>0, <2>1 DEF TrueLetter
    <3>2. \A x \in Cards : cards[x] = IF x = n.card THEN n.status ELSE b.cards[x]
      BY <2>2, <2>3 DEF CardBoard
    <3> HIDE DEF cards
    <3> QED
      BY <1>0, <3>1, <3>2 DEF Told
  <2> HIDE DEF cards, busy
  <2>6. page \in AssistPages /\ page.cards = cards
    BY <1>0, <2>3, <2>4 DEF AssistPages
  <2> HIDE DEF page
  <2> QED
    BY <2>1, <2>5, <2>6, HeardKeeps
<1>4. CASE AnAssist!RoutineHeard(n)
  <2> DEFINE routines == [b.routines EXCEPT ![n.routine] = n.stands]
             page == [b EXCEPT !.routines = routines]
  <2>1. "routine" \in DOMAIN n /\ (AnAssist!Hear(n, page) \/ AnAssist!Hear(n, b))
    <3>1. [b EXCEPT !.routines[n.routine] = n.stands] = page
      BY <1>0 DEF AssistPages
    <3> HIDE DEF page
    <3> QED
      BY <1>4, <3>1 DEF AnAssist!RoutineHeard
  <2>2. routines \in RoutineBoard
    BY <1>0, <2>1, Letters DEF AssistPages, RoutineBoard
  <2> HIDE DEF routines
  <2>3. page \in AssistPages /\ page.cards = b.cards
    BY <1>0, <2>2 DEF AssistPages
  <2> HIDE DEF page
  <2>4. CASE AnAssist!Hear(n, page)
    BY <1>0, <2>3, <2>4, HeardKeeps
  <2>5. CASE AnAssist!Hear(n, b)
    BY <1>0, <2>5, HeardKeeps
  <2> QED
    BY <2>1, <2>4, <2>5
<1>5. CASE AnAssist!PolicyHeard(n)
  <2> DEFINE version == n.version
             page == [b EXCEPT !.policy = version]
  <2>1. "version" \in DOMAIN n /\ AnAssist!Hear(n, page)
    BY <1>5 DEF AnAssist!PolicyHeard
  <2>2. version \in 0..MaxPolicy
    BY <1>0, <2>1, Letters
  <2> HIDE DEF version
  <2>3. page \in AssistPages /\ page.cards = b.cards
    BY <1>0, <2>2 DEF AssistPages
  <2> HIDE DEF page
  <2> QED
    BY <1>0, <2>1, <2>3, HeardKeeps
<1>6. CASE AnAssist!ConnectorHeard(n)
  <2> DEFINE connector == n.kept
             secret == IF n.answer = "connectorPut" THEN "none" ELSE b.secret
             page == [b EXCEPT !.connector = connector, !.secret = secret]
  <2>1. "kept" \in DOMAIN n /\ (AnAssist!Hear(n, page) \/ AnAssist!Hear(n, b))
    <3>1. [b EXCEPT !.connector = n.kept, !.secret = IF n.answer = "connectorPut" THEN "none" ELSE @] = page
      BY <1>0 DEF AssistPages
    <3> HIDE DEF page
    <3> QED
      BY <1>6, <3>1 DEF AnAssist!ConnectorHeard
  <2>2. connector \in BOOLEAN /\ secret \in AnAssist!Secrets
    BY <1>0, <2>1, Letters DEF AssistPages, AnAssist!Secrets
  <2> HIDE DEF connector, secret
  <2>3. page \in AssistPages /\ page.cards = b.cards
    BY <1>0, <2>2 DEF AssistPages
  <2> HIDE DEF page
  <2>4. CASE AnAssist!Hear(n, page)
    BY <1>0, <2>3, <2>4, HeardKeeps
  <2>5. CASE AnAssist!Hear(n, b)
    BY <1>0, <2>5, HeardKeeps
  <2> QED
    BY <2>1, <2>4, <2>5
<1>7. CASE AnAssist!ErrorHeard(n)
  BY <1>0, <1>7, HeardKeeps DEF AnAssist!ErrorHeard
<1> QED
  BY <1>1, <1>2, <1>3, <1>4, <1>5, <1>6, <1>7

-----------------------------------------------------------------------------
\* The sidecar moves: a card that was decided stays as it is, and what is said is true.
LEMMA SidecarMoves ==
  ASSUME AssistInv, UNCHANGED <<a, b>>, c' \in Offices, \A x \in Cards : c.cards[x] \in AnAssist!Final => c'.cards[x] = c.cards[x],
         d' \subseteq d, NEW letters \in SUBSET AnAssist!News, \A n \in letters : TrueLetter(n, c'.cards), AnAssist!Says(letters)
  PROVE  AssistInv'
<1>0. /\ a \in AnAssist!Parts /\ b \in AssistPages /\ d \subseteq AnAssist!Calls /\ e \subseteq AnAssist!News
      /\ Told(c.cards, b.cards) /\ \A n \in e : TrueLetter(n, c.cards)
  BY DEF AssistInv
<1>1. e' \subseteq e \cup letters
  BY DEF AnAssist!Says
<1>2. \A x \in Cards : c.cards[x] \in AnAssist!Final => c'.cards[x] = c.cards[x]
  OBVIOUS
<1>3. Told(c'.cards, b'.cards)
  BY <1>0, <1>2 DEF Told
<1>4. ASSUME NEW n \in e PROVE TrueLetter(n, c'.cards)
  <2>1. TrueLetter(n, c.cards) /\ n \in AnAssist!News
    BY <1>0
  <2>2. "cards" \in DOMAIN n => Told(c'.cards, n.cards)
    BY <1>2, <2>1 DEF TrueLetter, Told
  <2>3. "card" \in DOMAIN n /\ n.status \in AnAssist!Final => c'.cards[n.card] = n.status
    BY <1>2, <2>1, Letters DEF TrueLetter
  <2> QED
    BY <2>2, <2>3 DEF TrueLetter
<1>5. \A n \in e' : TrueLetter(n, c'.cards)
  BY <1>1, <1>4
<1>6. e' \subseteq AnAssist!News /\ d' \subseteq AnAssist!Calls
  BY <1>0, <1>1
<1> QED
  BY <1>0, <1>3, <1>5, <1>6 DEF AssistInv

\* One card changes in the sidecar, that was not decided.
LEMMA CardMoves ==
  ASSUME c \in Offices, NEW x \in Cards, NEW status \in AnAssist!Statuses, c' = [c EXCEPT !.cards[x] = status],
         c.cards[x] \notin AnAssist!Final
  PROVE  /\ c' \in Offices /\ c'.cards[x] = status
         /\ \A y \in Cards : c.cards[y] \in AnAssist!Final => c'.cards[y] = c.cards[y]
<1> DEFINE cards == [c.cards EXCEPT ![x] = status]
<1>1. c' = [c EXCEPT !.cards = cards]
  BY DEF Offices
<1>2. cards \in CardBoard /\ cards[x] = status /\ \A y \in Cards : y # x => cards[y] = c.cards[y]
  BY DEF Offices, CardBoard
<1> HIDE DEF cards
<1>3. c' \in Offices /\ c'.cards = cards
  BY <1>1, <1>2 DEF Offices
<1> QED
  BY <1>2, <1>3

LEMMA CardsKeep ==
  ASSUME AssistInv, UNCHANGED a, NEW x \in Cards, AnAssist!CardOpens(x) \/ AnAssist!CardExpires(x) PROVE AssistInv'
<1>0. c \in Offices
  BY DEF AssistInv
<1>1. PICK status \in {"pending", "expired"} :
        /\ c' = [c EXCEPT !.cards[x] = status] /\ UNCHANGED <<b, d>> /\ c.cards[x] \in {"none", "pending"}
        /\ AnAssist!Says({AnAssist!Card(x, status, FALSE)})
  BY DEF AnAssist!CardOpens, AnAssist!CardExpires
<1>2. status \in AnAssist!Statuses /\ c.cards[x] \notin AnAssist!Final
  BY <1>1 DEF AnAssist!Statuses, AnAssist!Final
<1>3. /\ c' \in Offices /\ c'.cards[x] = status
      /\ \A y \in Cards : c.cards[y] \in AnAssist!Final => c'.cards[y] = c.cards[y]
  BY <1>0, <1>1, <1>2, CardMoves
<1> DEFINE n == AnAssist!Card(x, status, FALSE)
<1>4. n \in AnAssist!News /\ TrueLetter(n, c'.cards)
  BY <1>2, <1>3, CardLetter
<1>5. AnAssist!Says({n})
  BY <1>1
<1> HIDE DEF n
<1> DEFINE letters == {n}
<1>6. letters \in SUBSET AnAssist!News /\ (\A m \in letters : TrueLetter(m, c'.cards)) /\ AnAssist!Says(letters)
  BY <1>4, <1>5
<1> HIDE DEF letters
<1> QED
  BY <1>1, <1>3, <1>6, SidecarMoves

LEMMA DecisionKeeps == ASSUME AssistInv, UNCHANGED a, NEW call \in d, AnAssist!CardDecided(call) PROVE AssistInv'
<1>0. c \in Offices /\ call \in AnAssist!Calls
  BY DEF AssistInv
<1>1. call.kind = "decide" /\ d' \subseteq d /\ UNCHANGED b
  BY DEF AnAssist!CardDecided
<1>2. call.card \in Cards /\ call.says \in {"approved", "denied"}
  BY <1>0, <1>1 DEF AnAssist!Calls
<1> DEFINE x == call.card
           says == call.says
<1>3. CASE c.cards[x] = "pending"
  <2> DEFINE n == AnAssist!Card(x, says, FALSE)
             m == AnAssist!Card(x, says, TRUE)
  <2>1. c' = [c EXCEPT !.cards[x] = says] /\ AnAssist!Says({n, m})
    BY <1>3 DEF AnAssist!CardDecided
  <2>2. says \in AnAssist!Statuses /\ c.cards[x] \notin AnAssist!Final
    BY <1>2, <1>3 DEF AnAssist!Statuses, AnAssist!Final
  <2> HIDE DEF x, says
  <2>3. /\ c' \in Offices /\ c'.cards[x] = says
        /\ \A y \in Cards : c.cards[y] \in AnAssist!Final => c'.cards[y] = c.cards[y]
    BY <1>0, <1>2, <2>1, <2>2, CardMoves DEF x
  <2>4. n \in AnAssist!News /\ TrueLetter(n, c'.cards) /\ m \in AnAssist!News /\ TrueLetter(m, c'.cards)
    BY <1>2, <2>2, <2>3, CardLetter DEF x
  <2> HIDE DEF n, m
  <2> DEFINE letters == {n, m}
  <2>5. letters \in SUBSET AnAssist!News /\ (\A l \in letters : TrueLetter(l, c'.cards)) /\ AnAssist!Says(letters)
    BY <2>1, <2>4
  <2> HIDE DEF letters
  <2> QED
    BY <1>1, <2>3, <2>5, SidecarMoves
<1>4. CASE c.cards[x] # "pending"
  <2> DEFINE status == c.cards[x]
             n == AnAssist!Card(x, status, TRUE)
  <2>1. UNCHANGED c /\ AnAssist!Says({n})
    BY <1>4 DEF AnAssist!CardDecided
  <2>2. status \in AnAssist!Statuses
    BY <1>0, <1>2 DEF Offices, CardBoard
  <2>3. n \in AnAssist!News /\ TrueLetter(n, c'.cards)
    BY <1>2, <2>1, <2>2, CardLetter
  <2> HIDE DEF n
  <2> DEFINE letters == {n}
  <2>4. letters \in SUBSET AnAssist!News /\ (\A l \in letters : TrueLetter(l, c'.cards)) /\ AnAssist!Says(letters)
    BY <2>1, <2>3
  <2> HIDE DEF letters
  <2> QED
    BY <1>0, <1>1, <2>1, <2>4, SidecarMoves
<1> QED
  BY <1>3, <1>4

\* An answer that leaves the cards alone.
LEMMA AnsweredKeeps ==
  ASSUME AssistInv, UNCHANGED <<a, b>>, c' \in Offices, c'.cards = c.cards, d' \subseteq d,
         NEW n \in AnAssist!News, TrueLetter(n, c.cards), AnAssist!Says({n})
  PROVE  AssistInv'
<1> DEFINE letters == {n}
<1>1. letters \in SUBSET AnAssist!News /\ (\A m \in letters : TrueLetter(m, c'.cards)) /\ AnAssist!Says(letters)
  OBVIOUS
<1> HIDE DEF letters
<1> QED
  BY <1>1, SidecarMoves

LEMMA ListKeeps == ASSUME AssistInv, UNCHANGED a, NEW call \in d, AnAssist!ListAnswered(call) PROVE AssistInv'
<1>0. c \in Offices /\ UNCHANGED <<b, c>> /\ d' \subseteq d /\ call.kind \in AnAssist!Parts
  BY DEF AssistInv, AnAssist!ListAnswered
<1>1. c.policy \in 0..MaxPolicy /\ c.connector \in BOOLEAN /\ c.cards \in CardBoard /\ c.routines \in RoutineBoard /\ Told(c.cards, c.cards)
  BY <1>0 DEF Offices, Told
<1> DEFINE n1 == [list |-> "cards", cards |-> c.cards]
           n2 == [list |-> "routines", routines |-> c.routines]
           n3 == [answer |-> "policy", version |-> c.policy]
           n4 == [answer |-> "connectors", ok |-> TRUE, kept |-> c.connector]
<1>2. AnAssist!Says({n1}) \/ AnAssist!Says({n2}) \/ AnAssist!Says({n3}) \/ AnAssist!Says({n4})
  BY <1>0 DEF AnAssist!ListAnswered, AnAssist!Parts
<1>3. /\ n1 \in AnAssist!News /\ TrueLetter(n1, c.cards) /\ n2 \in AnAssist!News /\ TrueLetter(n2, c.cards)
      /\ n3 \in AnAssist!News /\ TrueLetter(n3, c.cards) /\ n4 \in AnAssist!News /\ TrueLetter(n4, c.cards)
  BY <1>1, OtherLetters
<1> HIDE DEF n1, n2, n3, n4
<1>4. PICK n \in AnAssist!News : TrueLetter(n, c.cards) /\ AnAssist!Says({n})
  BY <1>2, <1>3
<1> QED
  BY <1>0, <1>4, AnsweredKeeps

LEMMA RoutineKeeps == ASSUME AssistInv, UNCHANGED a, NEW call \in d, AnAssist!RoutineKept(call) PROVE AssistInv'
<1>0. c \in Offices /\ call \in AnAssist!Calls /\ call.kind \in {"put", "delete"} /\ UNCHANGED b /\ d' \subseteq d
  BY DEF AssistInv, AnAssist!RoutineKept
<1> DEFINE r == call.routine
           stands == IF call.kind = "delete" THEN "none" ELSE IF call.on THEN "on" ELSE "off"
           routines == [c.routines EXCEPT ![r] = stands]
           owns == IF call.kind = "put" THEN BOOLEAN ELSE {TRUE}
           letters == {AnAssist!Routine(r, stands, own) : own \in owns}
<1>1. r \in RoutineNames /\ stands \in AnAssist!Switches /\ owns \subseteq BOOLEAN
  BY <1>0 DEF AnAssist!Calls, AnAssist!Switches
<1>2. c' = [c EXCEPT !.routines[r] = stands] /\ AnAssist!Says(letters)
  BY DEF AnAssist!RoutineKept
<1>3. c' = [c EXCEPT !.routines = routines]
  BY <1>0, <1>2 DEF Offices
<1> HIDE DEF r, stands, owns
<1>4. routines \in RoutineBoard
  BY <1>0, <1>1 DEF Offices, RoutineBoard
<1> HIDE DEF routines
<1>5. c' \in Offices /\ c'.cards = c.cards
  BY <1>0, <1>3, <1>4 DEF Offices
<1>6. \A own \in owns : AnAssist!Routine(r, stands, own) \in AnAssist!News /\ TrueLetter(AnAssist!Routine(r, stands, own), c'.cards)
  BY <1>1, RoutineLetter
<1>7. letters \in SUBSET AnAssist!News /\ \A n \in letters : TrueLetter(n, c'.cards)
  BY <1>6
<1> HIDE DEF letters
<1> QED
  BY <1>0, <1>2, <1>5, <1>7, SidecarMoves

LEMMA PolicyKeeps == ASSUME AssistInv, UNCHANGED a, NEW call \in d, AnAssist!PolicyKept(call) PROVE AssistInv'
<1>0. c \in Offices /\ call \in AnAssist!Calls /\ call.kind = "policySet" /\ UNCHANGED b /\ d' \subseteq d
  BY DEF AssistInv, AnAssist!PolicyKept
<1> DEFINE version == call.version
<1>1. version \in 0..MaxPolicy
  BY <1>0 DEF AnAssist!Calls
<1>2. c.cards \in CardBoard /\ c.routines \in RoutineBoard /\ Told(c.cards, c.cards)
  BY <1>0 DEF Offices, Told
<1> DEFINE n == [answer |-> "policy", version |-> version]
           f == [failed |-> "policy"]
<1>3. \/ c' = [c EXCEPT !.policy = version] /\ AnAssist!Says({n})
      \/ c' = c /\ AnAssist!Says({f})
  BY DEF AnAssist!PolicyKept
<1> HIDE DEF version
<1>4. n \in AnAssist!News /\ TrueLetter(n, c.cards) /\ f \in AnAssist!News /\ TrueLetter(f, c.cards)
  BY <1>1, <1>2, OtherLetters
<1> HIDE DEF n, f
<1>5. c' \in Offices /\ c'.cards = c.cards
  BY <1>0, <1>1, <1>3 DEF Offices
<1>6. PICK m \in AnAssist!News : TrueLetter(m, c.cards) /\ AnAssist!Says({m})
  BY <1>3, <1>4
<1> QED
  BY <1>0, <1>5, <1>6, AnsweredKeeps

LEMMA ConnectorKeeps == ASSUME AssistInv, UNCHANGED a, NEW call \in d, AnAssist!ConnectorKept(call) PROVE AssistInv'
<1>0. c \in Offices /\ call \in AnAssist!Calls /\ call.kind \in {"connectorPut", "dropConnector"} /\ UNCHANGED b /\ d' \subseteq d
  BY DEF AssistInv, AnAssist!ConnectorKept
<1>1. PICK ok \in BOOLEAN :
        /\ c' = CASE call.kind = "dropConnector" /\ ok -> [c EXCEPT !.connector = FALSE]
                  [] call.kind = "connectorPut" /\ ok -> [c EXCEPT !.connector = TRUE, !.secret = @ \/ call.secret]
                  [] call.kind = "connectorPut" /\ ~ok /\ call.secret -> [c EXCEPT !.connector = TRUE]
                  [] OTHER -> c
        /\ AnAssist!Says({[answer |-> call.kind, ok |-> ok, kept |-> ok /\ call.kind = "connectorPut"]})
  BY DEF AnAssist!ConnectorKept
<1> DEFINE off == FALSE
           on == TRUE
           secret == c.secret \/ call.secret
           isKept == ok /\ call.kind = "connectorPut"
           answer == call.kind
<1>2. off \in BOOLEAN /\ on \in BOOLEAN /\ secret \in BOOLEAN /\ isKept \in BOOLEAN /\ answer \in {"connectors", "connectorPut", "dropConnector"}
  BY <1>0
<1>3. \/ c' = [c EXCEPT !.connector = off]
      \/ c' = [c EXCEPT !.connector = on, !.secret = secret]
      \/ c' = [c EXCEPT !.connector = on]
      \/ c' = c
  BY <1>1
<1>4. AnAssist!Says({[answer |-> answer, ok |-> ok, kept |-> isKept]})
  BY <1>1
<1> HIDE DEF off, on, secret, isKept, answer
<1>5. c' \in Offices /\ c'.cards = c.cards
  BY <1>0, <1>2, <1>3 DEF Offices
<1>6. c.cards \in CardBoard /\ c.routines \in RoutineBoard /\ Told(c.cards, c.cards) /\ c.policy \in 0..MaxPolicy
  BY <1>0 DEF Offices, Told
<1> DEFINE n == [answer |-> answer, ok |-> ok, kept |-> isKept]
<1>7. n \in AnAssist!News /\ TrueLetter(n, c.cards)
  BY <1>1, <1>2, <1>6, OtherLetters
<1> HIDE DEF n
<1>8. AnAssist!Says({n})
  BY <1>4 DEF n
<1> QED
  BY <1>0, <1>5, <1>7, <1>8, AnsweredKeeps

LEMMA AssistStep == ASSUME AssistInv, [AnAssist!AssistNext]_<<a, b, c, d, e>> PROVE AssistInv'
<1>1. CASE UNCHANGED <<a, b, c, d, e>>
  BY <1>1 DEF AssistInv, Told, TrueLetter
<1>2. CASE AnAssist!AssistNext
  <2>0. UNCHANGED a /\ AnAssist!AssistActs
    BY <1>2 DEF AnAssist!AssistNext
  <2>1. CASE \/ AnAssist!OpenAssist \/ AnAssist!CloseAssist \/ AnAssist!SavePolicy \/ AnAssist!TypeSecret
             \/ AnAssist!SaveConnector \/ AnAssist!DropConnector
    BY <2>0, <2>1, UserKeeps
  <2>2. ASSUME NEW x \in Cards, AnAssist!CardOpens(x) \/ AnAssist!CardExpires(x) PROVE AssistInv'
    BY <2>0, <2>2, CardsKeep
  <2>3. ASSUME NEW x \in Cards, NEW says \in {"approved", "denied"}, AnAssist!ClickCard(x, says) PROVE AssistInv'
    BY <2>0, <2>3, UserKeeps
  <2>4. ASSUME NEW r \in RoutineNames, AnAssist!SaveRoutine(r) \/ AnAssist!ToggleRoutine(r) \/ AnAssist!RemoveRoutine(r) PROVE AssistInv'
    BY <2>0, <2>4, UserKeeps
  <2>5. ASSUME NEW call \in d, AnAssist!ListAnswered(call) PROVE AssistInv'
    BY <2>0, <2>5, ListKeeps
  <2>6. ASSUME NEW call \in d, AnAssist!CardDecided(call) PROVE AssistInv'
    BY <2>0, <2>6, DecisionKeeps
  <2>7. ASSUME NEW call \in d, AnAssist!RoutineKept(call) PROVE AssistInv'
    BY <2>0, <2>7, RoutineKeeps
  <2>8. ASSUME NEW call \in d, AnAssist!PolicyKept(call) PROVE AssistInv'
    BY <2>0, <2>8, PolicyKeeps
  <2>9. ASSUME NEW call \in d, AnAssist!ConnectorKept(call) PROVE AssistInv'
    BY <2>0, <2>9, ConnectorKeeps
  <2>10. ASSUME NEW n \in e,
                \/ AnAssist!CardsListed(n) \/ AnAssist!RoutinesListed(n) \/ AnAssist!CardHeard(n) \/ AnAssist!RoutineHeard(n)
                \/ AnAssist!PolicyHeard(n) \/ AnAssist!ConnectorHeard(n) \/ AnAssist!ErrorHeard(n)
         PROVE  AssistInv'
    BY <2>0, <2>10, LetterKeeps
  <2> QED
    BY ONLY <2>0, <2>1, <2>2, <2>3, <2>4, <2>5, <2>6, <2>7, <2>8, <2>9, <2>10 DEF AnAssist!AssistActs
<1> QED
  BY <1>1, <1>2

-----------------------------------------------------------------------------
(* The delegation rules: what a restart still reads is one request or one  *)
(* answer, of the stage it is in, and no policy is read any more once one  *)
(* was set in time.                                                        *)

RulebookStates ==
  [policy : ARulebook!Policies, touched : BOOLEAN, last : ARulebook!Policies \cup {ARulebook!NoPolicy}, raced : BOOLEAN,
   stage : {"tasks", "policy", "restored", "gaveUp"}]
RequestsMade == [ask : {"tasks", "policy", "write"}, policy : ARulebook!Policies \cup {ARulebook!NoPolicy}]
AnswersMade ==
  [to : {"none", "tasks", "policy"}, how : {"ok", "noRoot", "failed"}, policy : ARulebook!Policies \cup {ARulebook!NoPolicy}]
RuleFileStates ==
  [root : BOOLEAN, file : ARulebook!Policies \cup {ARulebook!NoPolicy}, edits : 0..MaxEdited, wire : Seq(RequestsMade), answer : AnswersMade]

OneRead(wire, to, stage) ==
  /\ \A i, j \in 1..Len(wire) : wire[i].ask # "write" /\ wire[j].ask # "write" => i = j
  /\ \A i \in 1..Len(wire) : wire[i].ask # "write" => wire[i].ask = stage /\ to = "none"
  /\ to # "none" => to = stage
Stands(r) ==
  /\ r.touched <=> r.last # ARulebook!NoPolicy
  /\ r.last # ARulebook!NoPolicy /\ ~r.raced => r.stage # "policy" /\ r.policy = r.last

RulesInv == a \in RulebookStates /\ b \in RuleFileStates /\ Stands(a) /\ OneRead(b.wire, b.answer.to, a.stage)

-----------------------------------------------------------------------------
LEMMA LeastNumber == ASSUME NEW T \in SUBSET Nat, T # {} PROVE \E m \in T : \A k \in T : ~(k < m)
<1>1. \E m \in T : \A k \in T : ~(<<k, m>> \in OpToRel(<, Nat))
  BY NatLessThanWellFounded, WFMin, Zenon
<1> QED
  BY <1>1, Zenon DEF OpToRel

\* The scan over the rules, defined by itself, is what its equation says.
LEMMA ScanStep ==
  ASSUME NEW p \in ARulebook!Policies, NEW from, NEW to
  PROVE  /\ ARulebook!Scan(p, from, to)[0] = [found |-> FALSE, score |-> 0, allow |-> p.mode # "deny"]
         /\ \A n \in 1..Len(p.rules) :
              ARulebook!Scan(p, from, to)[n] = ARulebook!Judged(ARulebook!Scan(p, from, to)[n - 1], p.rules[n], from, to)
<1> DEFINE base == [found |-> FALSE, score |-> 0, allow |-> p.mode # "deny"]
           J(x, n) == ARulebook!Judged(x, p.rules[n], from, to)
           H(f, n) == f = [i \in 0..n |-> IF i = 0 THEN base ELSE J(f[i - 1], i)]
           N == Len(p.rules)
           T == {n \in Nat : ~\E f : H(f, n)}
           best == ARulebook!Scan(p, from, to)
<1>1. N \in Nat
  BY LenProperties DEF ARulebook!Policies
<1>2. best = CHOOSE f : H(f, N)
  BY DEF ARulebook!Scan
<1> HIDE DEF base, J, N, best
<1>3. T = {}
  <2> SUFFICES ASSUME T # {} PROVE FALSE
    OBVIOUS
  <2>1. PICK m \in T : \A k \in T : ~(k < m)
    <3>1. T \in SUBSET Nat
      OBVIOUS
    <3> HIDE DEF T
    <3> QED
      BY <3>1, LeastNumber
  <2>2. m \in Nat /\ ~\E f : H(f, m)
    OBVIOUS
  <2>3. \A k \in Nat : k < m => k \notin T
    BY <2>1, <2>2
  <2>4. CASE m = 0
    <3> DEFINE f == [i \in 0..0 |-> base]
    <3>1. f = [i \in 0..0 |-> IF i = 0 THEN base ELSE J(f[i - 1], i)]
      OBVIOUS
    <3> HIDE DEF f
    <3>2. H(f, m)
      BY <2>4, <3>1
    <3> QED
      BY <2>2, <3>2
  <2>5. CASE m # 0
    <3>1. m - 1 \in Nat /\ m - 1 < m
      BY <2>2, <2>5
    <3>2. PICK g : H(g, m - 1)
      BY <2>3, <3>1
    <3> DEFINE f == [i \in 0..m |-> IF i = m THEN J(g[m - 1], m) ELSE g[i]]
    <3>3. \A i \in 0..m : f[i] = IF i = 0 THEN base ELSE J(f[i - 1], i)
      <4> SUFFICES ASSUME NEW i \in 0..m PROVE f[i] = IF i = 0 THEN base ELSE J(f[i - 1], i)
        OBVIOUS
      <4>1. CASE i = m
        <5>1. i - 1 \in 0..m /\ i - 1 # m /\ i # 0
          BY <2>2, <2>5, <4>1
        <5> QED
          BY <4>1, <5>1
      <4>2. CASE i # m
        <5>1. i \in 0..(m - 1) /\ f[i] = g[i] /\ (i # 0 => i - 1 \in 0..m /\ i - 1 # m)
          BY <2>2, <4>2
        <5>2. g[i] = IF i = 0 THEN base ELSE J(g[i - 1], i)
          BY <3>2, <5>1
        <5>3. i # 0 => f[i - 1] = g[i - 1]
          BY <5>1
        <5> QED
          BY <5>1, <5>2, <5>3
      <4> QED
        BY <4>1, <4>2
    <3>4. f = [i \in 0..m |-> f[i]]
      OBVIOUS
    <3> HIDE DEF f
    <3>5. H(f, m)
      BY <3>3, <3>4
    <3> QED
      BY <2>2, <3>5
  <2> QED
    BY <2>4, <2>5
<1>4. \E f : H(f, N)
  BY <1>1, <1>3
<1>5. H(best, N)
  BY <1>2, <1>4
<1>6. \A i \in 0..N : best[i] = IF i = 0 THEN base ELSE J(best[i - 1], i)
  BY <1>5
<1>7. best[0] = base
  BY <1>1, <1>6
<1>8. \A n \in 1..N : best[n] = J(best[n - 1], n)
  BY <1>1, <1>6
<1> QED
  BY <1>7, <1>8 DEF base, J, N, best

\* The score and the match of a rule are numbers and truths.
LEMMA ScoresAreNumbers ==
  ASSUME NEW rule, NEW from, NEW to, ARulebook!Matches(rule, from, to)
  PROVE  ARulebook!Score(rule, from, to) \in Nat
BY DEF ARulebook!Matches, ARulebook!Score, ARulebook!EndpointScore, ARulebook!NoMatch

Scanned(p, n, best, from, to) ==
  IF best.found
  THEN \E i \in 1..n :
         /\ ARulebook!Matches(p.rules[i], from, to)
         /\ best.score = ARulebook!Score(p.rules[i], from, to) /\ best.allow = p.rules[i].allow
         /\ \A j \in 1..n : ARulebook!Matches(p.rules[j], from, to) =>
              \/ best.score > ARulebook!Score(p.rules[j], from, to)
              \/ best.score = ARulebook!Score(p.rules[j], from, to) /\ i >= j
  ELSE best.allow = (p.mode # "deny") /\ \A i \in 1..n : ~ARulebook!Matches(p.rules[i], from, to)

\* After n rules the scan holds the verdict over these n.
LEMMA ScanOK ==
  ASSUME NEW p \in ARulebook!Policies, NEW from, NEW to
  PROVE  \A n \in 0..Len(p.rules) : Scanned(p, n, ARulebook!Scan(p, from, to)[n], from, to)
<1> DEFINE best == ARulebook!Scan(p, from, to)
           N == Len(p.rules)
           T == {n \in 0..N : ~Scanned(p, n, best[n], from, to)}
<1>1. N \in Nat
  BY LenProperties DEF ARulebook!Policies
<1>2. best[0] = [found |-> FALSE, score |-> 0, allow |-> p.mode # "deny"]
  BY ScanStep
<1>3. \A n \in 1..N : best[n] = ARulebook!Judged(best[n - 1], p.rules[n], from, to)
  BY ScanStep
<1> HIDE DEF best, N
<1> SUFFICES ASSUME T # {} PROVE FALSE
  BY DEF best, N
<1>4. PICK m \in T : \A k \in T : ~(k < m)
  <2>1. T \in SUBSET Nat
    BY <1>1
  <2> HIDE DEF T
  <2> QED
    BY <2>1, LeastNumber
<1>5. m \in 0..N /\ ~Scanned(p, m, best[m], from, to)
  OBVIOUS
<1>6. CASE m = 0
  BY <1>2, <1>5, <1>6 DEF Scanned
<1>7. CASE m # 0
  <2> DEFINE n == m - 1
             x == best[n]
             r == p.rules[m]
  <2>1. n \in 0..N /\ m \in 1..N /\ n \in Nat /\ m = n + 1 /\ n < m
    BY <1>1, <1>5, <1>7
  <2>2. Scanned(p, n, x, from, to)
    BY <1>4, <2>1
  <2>3. best[m] = ARulebook!Judged(x, r, from, to)
    BY <1>3, <2>1
  <2>4. 1..m = 1..n \cup {m}
    BY <2>1
  <2> HIDE DEF n, x
  <2>5. CASE ~ARulebook!Matches(r, from, to)
    <3>1. best[m] = x
      BY <2>3, <2>5 DEF ARulebook!Judged
    <3>2. Scanned(p, m, x, from, to)
      BY <2>2, <2>4, <2>5 DEF Scanned
    <3> QED
      BY <1>5, <3>1, <3>2
  <2>6. CASE ARulebook!Matches(r, from, to) /\ ~(x.found => ARulebook!Better(ARulebook!Score(r, from, to), x))
    <3>1. best[m] = x /\ x.found
      BY <2>3, <2>6 DEF ARulebook!Judged
    <3>2. PICK i \in 1..n :
         /\ ARulebook!Matches(p.rules[i], from, to)
         /\ x.score = ARulebook!Score(p.rules[i], from, to) /\ x.allow = p.rules[i].allow
         /\ \A j \in 1..n : ARulebook!Matches(p.rules[j], from, to) =>
              \/ x.score > ARulebook!Score(p.rules[j], from, to)
              \/ x.score = ARulebook!Score(p.rules[j], from, to) /\ i >= j
      BY <2>2, <3>1 DEF Scanned
    <3>3. x.score \in Nat /\ ARulebook!Score(r, from, to) \in Nat
      BY <2>6, <3>2, ScoresAreNumbers
    <3>4. x.score > ARulebook!Score(r, from, to)
      BY <2>6, <3>3 DEF ARulebook!Better
    <3>5. Scanned(p, m, x, from, to)
      BY <2>4, <3>1, <3>2, <3>4 DEF Scanned
    <3> QED
      BY <1>5, <3>1, <3>5
  <2>7. CASE ARulebook!Matches(r, from, to) /\ (x.found => ARulebook!Better(ARulebook!Score(r, from, to), x))
    <3> DEFINE s == ARulebook!Score(r, from, to)
               on == TRUE
               y == [found |-> on, score |-> s, allow |-> r.allow]
    <3>1. best[m] = y /\ on
      BY <2>3, <2>7 DEF ARulebook!Judged
    <3>2. s \in Nat
      BY <2>7, ScoresAreNumbers
    <3> HIDE DEF on
    <3>3. y.found = on /\ y.score = s /\ y.allow = r.allow
      OBVIOUS
    <3>4. ASSUME NEW j \in 1..n, ARulebook!Matches(p.rules[j], from, to)
          PROVE  s > ARulebook!Score(p.rules[j], from, to) \/ (s = ARulebook!Score(p.rules[j], from, to) /\ m >= j)
      <4>1. x.found
        BY <2>2, <3>4 DEF Scanned
      <4>2. PICK i \in 1..n : /\ ARulebook!Matches(p.rules[i], from, to) /\ x.score = ARulebook!Score(p.rules[i], from, to)
                              /\ x.score > ARulebook!Score(p.rules[j], from, to) \/ x.score = ARulebook!Score(p.rules[j], from, to)
        BY <2>2, <3>4, <4>1 DEF Scanned
      <4>3. x.score \in Nat /\ ARulebook!Score(p.rules[j], from, to) \in Nat
        BY <3>4, <4>2, ScoresAreNumbers
      <4>4. s > x.score \/ s = x.score
        BY <2>7, <4>1 DEF ARulebook!Better
      <4>5. m >= j
        BY <2>1
      <4> HIDE DEF s
      <4> QED
        BY <3>2, <4>2, <4>3, <4>4, <4>5
    <3>5. m \in 1..m /\ m >= m
      BY <2>1
    <3> HIDE DEF y
    <3>6. Scanned(p, m, y, from, to)
      BY <2>4, <2>7, <3>1, <3>3, <3>4, <3>5 DEF Scanned
    <3> QED
      BY <1>5, <3>1, <3>6
  <2> QED
    BY <2>5, <2>6, <2>7
<1> QED
  BY <1>6, <1>7

LEMMA VerdictOK == ASSUME a.policy \in ARulebook!Policies PROVE ARulebook!VerdictIsMostSpecific
<1> SUFFICES ASSUME NEW from \in Names, NEW to \in Names
    PROVE  ARulebook!PolicyAllows(a.policy, from, to) =
             \/ \E i \in DOMAIN a.policy.rules : ARulebook!Counts(a.policy, i, from, to) /\ a.policy.rules[i].allow
             \/ /\ \A i \in DOMAIN a.policy.rules : ~ARulebook!Matches(a.policy.rules[i], from, to)
                /\ a.policy.mode = "allow"
  BY DEF ARulebook!VerdictIsMostSpecific
<1> DEFINE p == a.policy
           N == Len(p.rules)
           best == ARulebook!Scan(p, from, to)[N]
<1>1. p \in ARulebook!Policies /\ p.rules \in Seq(ARulebook!Rules) /\ N \in Nat /\ DOMAIN p.rules = 1..N
      /\ (p.mode # "deny" <=> p.mode = "allow")
  BY LenProperties DEF ARulebook!Policies
<1>2. \A i \in 1..N : p.rules[i].allow \in BOOLEAN
  <2> DEFINE rules == p.rules
  <2>1. rules \in Seq(ARulebook!Rules) /\ Len(rules) = N
    BY <1>1
  <2> HIDE DEF rules
  <2>2. \A i \in 1..N : rules[i] \in ARulebook!Rules
    BY <2>1, ElementOfSeq
  <2>3. \A i \in 1..N : rules[i].allow \in BOOLEAN
    BY <2>2 DEF ARulebook!Rules
  <2> QED
    BY <2>3 DEF rules
<1>3. Scanned(p, N, best, from, to)
  BY <1>1, ScanOK
<1>4. ARulebook!PolicyAllows(p, from, to) = best.allow
  BY DEF ARulebook!PolicyAllows
<1> HIDE DEF p, N, best
<1>5. CASE best.found
  <2>1. PICK i \in 1..N :
         /\ ARulebook!Matches(p.rules[i], from, to)
         /\ best.score = ARulebook!Score(p.rules[i], from, to) /\ best.allow = p.rules[i].allow
         /\ \A j \in 1..N : ARulebook!Matches(p.rules[j], from, to) =>
              \/ best.score > ARulebook!Score(p.rules[j], from, to)
              \/ best.score = ARulebook!Score(p.rules[j], from, to) /\ i >= j
    BY <1>3, <1>5 DEF Scanned
  <2>2. ARulebook!Counts(p, i, from, to)
    BY <1>1, <2>1 DEF ARulebook!Counts
  <2>3. ASSUME NEW j \in 1..N, ARulebook!Counts(p, j, from, to) PROVE j = i
    <3>1. ARulebook!Score(p.rules[i], from, to) \in Nat /\ ARulebook!Score(p.rules[j], from, to) \in Nat
      BY <2>2, <2>3, ScoresAreNumbers DEF ARulebook!Counts
    <3>2. \/ ARulebook!Score(p.rules[i], from, to) > ARulebook!Score(p.rules[j], from, to)
          \/ ARulebook!Score(p.rules[i], from, to) = ARulebook!Score(p.rules[j], from, to) /\ i >= j
      BY <1>1, <2>2, <2>3 DEF ARulebook!Counts
    <3>3. \/ ARulebook!Score(p.rules[j], from, to) > ARulebook!Score(p.rules[i], from, to)
          \/ ARulebook!Score(p.rules[j], from, to) = ARulebook!Score(p.rules[i], from, to) /\ j >= i
      BY <1>1, <2>2, <2>3 DEF ARulebook!Counts
    <3> QED
      BY <1>1, <3>1, <3>2, <3>3
  <2>4. \E k \in 1..N : ARulebook!Matches(p.rules[k], from, to)
    BY <2>1
  <2>5. (\E k \in 1..N : ARulebook!Counts(p, k, from, to) /\ p.rules[k].allow) <=> p.rules[i].allow
    BY <2>2, <2>3
  <2>6. best.allow \in BOOLEAN /\ best.allow = p.rules[i].allow
    BY <1>2, <2>1
  <2>7. p.rules[i].allow = \/ \E k \in 1..N : ARulebook!Counts(p, k, from, to) /\ p.rules[k].allow
                           \/ /\ \A k \in 1..N : ~ARulebook!Matches(p.rules[k], from, to)
                              /\ p.mode = "allow"
    BY ONLY <1>2, <2>4, <2>5
  <2> QED
    BY ONLY <1>1, <1>4, <2>6, <2>7 DEF p
<1>6. CASE ~best.found
  <2>1. best.allow = (p.mode # "deny") /\ \A k \in 1..N : ~ARulebook!Matches(p.rules[k], from, to)
    BY <1>3, <1>6 DEF Scanned
  <2>2. ~\E k \in 1..N : ARulebook!Counts(p, k, from, to) /\ p.rules[k].allow
    BY <2>1 DEF ARulebook!Counts
  <2>3. (p.mode # "deny") = \/ \E k \in 1..N : ARulebook!Counts(p, k, from, to) /\ p.rules[k].allow
                            \/ /\ \A k \in 1..N : ~ARulebook!Matches(p.rules[k], from, to)
                               /\ p.mode = "allow"
    <3>1. CASE p.mode = "allow"
      <4>1. p.mode # "deny"
        BY <1>1, <3>1
      <4>2. \A k \in 1..N : ~ARulebook!Matches(p.rules[k], from, to)
        BY ONLY <2>1
      <4>3. (\A k \in 1..N : ~ARulebook!Matches(p.rules[k], from, to)) /\ p.mode = "allow"
        BY ONLY <3>1, <4>2
      <4> QED
        BY ONLY <3>1, <4>1, <4>3
    <3>2. CASE ~(p.mode = "allow")
      <4>1. (p.mode # "deny") = FALSE
        BY <1>1, <3>2
      <4> QED
        BY ONLY <2>1, <2>2, <3>2, <4>1
    <3> QED
      BY ONLY <3>1, <3>2
  <2> QED
    BY ONLY <1>1, <1>4, <2>1, <2>3 DEF p
<1> QED
  BY <1>5, <1>6

LEMMA RulesHolds == ASSUME RulesInv PROVE ARulebook!DelegationTypeOK /\ ARulebook!VerdictIsMostSpecific /\ ARulebook!SetPolicyStands
<1>1. ARulebook!DelegationTypeOK
  BY DEF RulesInv, RulebookStates, RuleFileStates, RequestsMade, AnswersMade, ARulebook!DelegationTypeOK
<1>2. a.policy \in ARulebook!Policies
  BY DEF RulesInv, RulebookStates
<1>3. ARulebook!SetPolicyStands
  BY DEF RulesInv, Stands, ARulebook!SetPolicyStands
<1> QED
  BY <1>1, <1>2, <1>3, VerdictOK

-----------------------------------------------------------------------------
LEMMA PoliciesThere ==
  /\ ARulebook!DefaultPolicy \in ARulebook!Policies /\ ARulebook!DenyAll \in ARulebook!Policies
  /\ ARulebook!NoPolicy \notin ARulebook!Policies
<1> DEFINE none == <<>>
<1>1. none \in Seq(ARulebook!Rules)
  BY EmptySeq
<1>2. /\ ARulebook!DefaultPolicy = [mode |-> "allow", rules |-> none] /\ ARulebook!DenyAll = [mode |-> "deny", rules |-> none]
      /\ ARulebook!NoPolicy = [mode |-> "none", rules |-> none]
  BY DEF ARulebook!DefaultPolicy, ARulebook!DenyAll, ARulebook!NoPolicy
<1> HIDE DEF none
<1> QED
  BY <1>1, <1>2 DEF ARulebook!Policies

LEMMA FreshOK == ARulebook!FreshRulebook \in RulebookStates /\ Stands(ARulebook!FreshRulebook) /\ ARulebook!FreshRulebook.stage = "tasks"
<1> DEFINE off == FALSE
           r == ARulebook!FreshRulebook
<1>1. r = [policy |-> ARulebook!DefaultPolicy, touched |-> off, last |-> ARulebook!NoPolicy, raced |-> off, stage |-> "tasks"]
      /\ off \in BOOLEAN /\ ~off
  BY DEF ARulebook!FreshRulebook
<1> HIDE DEF off, r
<1>2. r.touched = off /\ r.last = ARulebook!NoPolicy /\ r.stage = "tasks"
  BY <1>1
<1>3. r \in RulebookStates
  BY <1>1, PoliciesThere DEF RulebookStates
<1> QED
  BY <1>1, <1>2, <1>3 DEF Stands, r

LEMMA WireEnds ==
  ASSUME NEW wire \in Seq(RequestsMade), NEW q \in RequestsMade
  PROVE  /\ Append(wire, q) \in Seq(RequestsMade) /\ Len(Append(wire, q)) = Len(wire) + 1 /\ Len(wire) \in Nat
         /\ \A i \in 1..Len(wire) : Append(wire, q)[i] = wire[i]
         /\ Append(wire, q)[Len(wire) + 1] = q
BY AppendProperties, LenProperties

\* A request goes on the wire: a write, or a read when none is under way.
LEMMA OneReadSent ==
  ASSUME NEW wire \in Seq(RequestsMade), NEW to, NEW stage, NEW q \in RequestsMade, NEW stage2,
         \/ q.ask = "write" /\ OneRead(wire, to, stage) /\ stage2 = stage
         \/ q.ask = stage2 /\ to = "none" /\ \A i \in 1..Len(wire) : wire[i].ask = "write"
  PROVE  OneRead(Append(wire, q), to, stage2)
<1> DEFINE w == Append(wire, q)
           n == Len(wire)
<1>1. n \in Nat /\ Len(w) = n + 1 /\ (\A i \in 1..n : w[i] = wire[i]) /\ w[n + 1] = q
  BY WireEnds
<1>2. 1..Len(w) = 1..n \cup {n + 1}
  BY <1>1
<1> HIDE DEF w
<1>3. CASE q.ask = "write" /\ OneRead(wire, to, stage) /\ stage2 = stage
  BY <1>1, <1>2, <1>3 DEF OneRead
<1>4. CASE q.ask = stage2 /\ to = "none" /\ \A i \in 1..n : wire[i].ask = "write"
  BY <1>1, <1>2, <1>4 DEF OneRead
<1> QED
  BY <1>3, <1>4 DEF w

LEMMA AskOK ==
  /\ \A what \in {"tasks", "policy"} : ARulebook!Ask(what) \in RequestsMade /\ ARulebook!Ask(what).ask = what
  /\ \A p \in ARulebook!Policies : ARulebook!Write(p) \in RequestsMade /\ ARulebook!Write(p).ask = "write"
BY DEF ARulebook!Ask, ARulebook!Write, RequestsMade

LEMMA NoAnswerOK == ARulebook!NoAnswer \in AnswersMade /\ ARulebook!NoAnswer.to = "none"
BY DEF ARulebook!NoAnswer, AnswersMade

LEMMA RulesStarts == ASSUME ARulebook!DelegationInit PROVE RulesInv
<1> DEFINE none == <<>>
           q == ARulebook!Ask("tasks")
           w == <<q>>
           zero == 0
<1>1. a \in RulebookStates /\ Stands(a) /\ a.stage = "tasks"
  BY FreshOK DEF ARulebook!DelegationInit
<1>2. q \in RequestsMade /\ q.ask = "tasks"
  BY AskOK
<1>3. /\ b = [root |-> b.root, file |-> b.file, edits |-> zero, wire |-> w, answer |-> ARulebook!NoAnswer]
      /\ b.root \in BOOLEAN /\ b.file \in {ARulebook!NoPolicy, ARulebook!DenyAll}
  BY DEF ARulebook!DelegationInit
<1> HIDE DEF q
<1>4. w \in Seq(RequestsMade) /\ Len(w) = 1 /\ w[1] = q
  BY <1>2, SeqDef
<1>7. zero \in 0..MaxEdited
  BY Bounds
<1> HIDE DEF w, zero
<1>8. b.wire = w /\ b.answer = ARulebook!NoAnswer
  BY ONLY <1>3
<1>9. b.file \in ARulebook!Policies \cup {ARulebook!NoPolicy}
  BY <1>3, PoliciesThere
<1>5. b \in RuleFileStates /\ b.wire = w /\ b.answer = ARulebook!NoAnswer
  BY ONLY <1>3, <1>4, <1>7, <1>8, <1>9, NoAnswerOK DEF RuleFileStates
<1>6. OneRead(w, "none", "tasks")
  BY <1>2, <1>4 DEF OneRead
<1> QED
  BY <1>1, <1>5, <1>6, NoAnswerOK DEF RulesInv

-----------------------------------------------------------------------------
LEMMA RemoveAtOK ==
  ASSUME NEW S, NEW s \in Seq(S), NEW i \in 1..Len(s)
  PROVE  /\ ARulebook!RemoveAt(s, i) \in Seq(S) /\ Len(ARulebook!RemoveAt(s, i)) = Len(s) - 1 /\ Len(s) \in Nat
         /\ \A k \in 1..(Len(s) - 1) : ARulebook!RemoveAt(s, i)[k] = s[IF k < i THEN k ELSE k + 1]
<1> DEFINE n == Len(s)
           left == SubSeq(s, 1, i - 1)
           right == SubSeq(s, i + 1, n)
           t == left \o right
<1>1. n \in Nat /\ i \in 1..n
  BY LenProperties
<1>2. ARulebook!RemoveAt(s, i) = t
  BY DEF ARulebook!RemoveAt
<1>3. left \in Seq(S) /\ Len(left) = i - 1 /\ \A k \in 1..(i - 1) : left[k] = s[k]
  BY <1>1, SubSeqProperties
<1>4. right \in Seq(S) /\ Len(right) = n - i /\ \A k \in 1..(n - i) : right[k] = s[i + k]
  BY <1>1, SubSeqProperties
<1> HIDE DEF left, right, n
<1>5. t \in Seq(S) /\ Len(t) = Len(left) + Len(right)
      /\ \A k \in 1..(Len(left) + Len(right)) : t[k] = IF k <= Len(left) THEN left[k] ELSE right[k - Len(left)]
  BY <1>3, <1>4, ConcatProperties
<1> HIDE DEF t
<1>6. Len(left) + Len(right) = n - 1
  BY <1>1, <1>3, <1>4
<1>7. \A k \in 1..(n - 1) : t[k] = s[IF k < i THEN k ELSE k + 1]
  <2> SUFFICES ASSUME NEW k \in 1..(n - 1) PROVE t[k] = s[IF k < i THEN k ELSE k + 1]
    OBVIOUS
  <2>1. CASE k < i
    <3>1. k \in 1..(i - 1) /\ k <= i - 1 /\ k \in 1..(Len(left) + Len(right))
      BY <1>1, <1>6, <2>1
    <3> QED
      BY <1>3, <1>5, <2>1, <3>1
  <2>2. CASE ~(k < i)
    <3>1. k - (i - 1) \in 1..(n - i) /\ i + (k - (i - 1)) = k + 1
      BY <1>1, <2>2
    <3>2. t[k] = right[k - (i - 1)]
      BY <1>1, <1>3, <1>5, <1>6, <2>2
    <3> QED
      BY <1>4, <2>2, <3>1, <3>2
  <2> QED
    BY <2>1, <2>2
<1> QED
  BY <1>1, <1>2, <1>5, <1>6, <1>7 DEF n

LEMMA EditsOK == ASSUME NEW p \in ARulebook!Policies, NEW q \in ARulebook!EditsOf(p) PROVE q \in ARulebook!Policies
<1> DEFINE rules == p.rules
<1>1. rules \in Seq(ARulebook!Rules) /\ DOMAIN rules = 1..Len(rules) /\ p.mode \in {"allow", "deny"}
      /\ p = [mode |-> p.mode, rules |-> rules]
  BY LenProperties DEF ARulebook!Policies
<1>2. \/ q = [p EXCEPT !.mode = IF p.mode = "allow" THEN "deny" ELSE "allow"]
      \/ \E i \in DOMAIN rules : q = [p EXCEPT !.rules = ARulebook!RemoveAt(rules, i)]
      \/ \E r \in ARulebook!Rules : q = [p EXCEPT !.rules = Append(rules, r)]
  BY <1>1 DEF ARulebook!EditsOf
<1> HIDE DEF rules
<1>3. \A i \in DOMAIN rules : ARulebook!RemoveAt(rules, i) \in Seq(ARulebook!Rules)
  BY <1>1, RemoveAtOK
<1>4. \A r \in ARulebook!Rules : Append(rules, r) \in Seq(ARulebook!Rules)
  BY <1>1, AppendProperties
<1> QED
  BY <1>1, <1>2, <1>3, <1>4 DEF ARulebook!Policies

LEMMA PolicySetOK ==
  ASSUME RulesInv, NEW p \in ARulebook!EditsOf(a.policy), ARulebook!SetPolicyRules(p)
  PROVE  RulesInv'
<1> DEFINE on == TRUE
           raced == a.stage = "policy"
           wire == Append(b.wire, ARulebook!Write(p))
<1>1. a \in RulebookStates /\ b \in RuleFileStates /\ Stands(a) /\ OneRead(b.wire, b.answer.to, a.stage)
  BY DEF RulesInv
<1>2. p \in ARulebook!Policies
  BY <1>1, EditsOK DEF RulebookStates
<1>3. a' = [a EXCEPT !.policy = p, !.touched = on, !.last = p, !.raced = raced] /\ on /\ on \in BOOLEAN /\ raced \in BOOLEAN
      /\ (raced <=> a.stage = "policy") /\ b.edits < MaxEdited
      /\ b' = [b EXCEPT !.edits = b.edits + 1, !.wire = wire]
  BY <1>1 DEF ARulebook!SetPolicyRules, RuleFileStates
<1>4. b.wire \in Seq(RequestsMade) /\ ARulebook!Write(p) \in RequestsMade /\ ARulebook!Write(p).ask = "write"
  BY <1>1, <1>2, AskOK DEF RuleFileStates
<1>5. wire \in Seq(RequestsMade)
  BY <1>4, WireEnds
<1>6. OneRead(wire, b.answer.to, a.stage)
  BY <1>1, <1>4, OneReadSent
<1>7. b.edits + 1 \in 0..MaxEdited
  <2>1. b.edits \in 0..MaxEdited
    BY <1>1 DEF RuleFileStates
  <2> QED
    BY <1>3, <2>1, Bounds
<1> HIDE DEF on, raced, wire
<1>8. b' \in RuleFileStates /\ b'.wire = wire /\ b'.answer = b.answer
  BY ONLY <1>1, <1>3, <1>5, <1>7 DEF RuleFileStates
<1>9. a' \in RulebookStates /\ a'.policy = p /\ a'.last = p /\ a'.stage = a.stage /\ a'.touched = on /\ a'.raced = raced
  BY ONLY <1>1, <1>2, <1>3 DEF RulebookStates
<1>10. Stands(a')
  BY <1>2, <1>3, <1>9, PoliciesThere DEF Stands
<1> QED
  BY <1>6, <1>8, <1>9, <1>10 DEF RulesInv

LEMMA PolicyServedOK == ASSUME RulesInv, ARulebook!PolicyFileServed PROVE RulesInv'
<1>1. a \in RulebookStates /\ b \in RuleFileStates /\ Stands(a) /\ OneRead(b.wire, b.answer.to, a.stage) /\ a' = a
  BY DEF RulesInv, ARulebook!PolicyFileServed
<1> DEFINE request == Head(b.wire)
           wire == Tail(b.wire)
<1>2. PICK how \in {"ok", "failed", "noRoot"} :
        b' = [b EXCEPT !.wire = wire,
               !.file = IF request.ask = "write" /\ how = "ok" THEN request.policy ELSE b.file,
               !.answer = IF request.ask = "write" THEN b.answer ELSE ARulebook!Answers(request, how)]
  BY <1>1 DEF ARulebook!PolicyFileServed, RuleFileStates
<1>3. b.wire \in Seq(RequestsMade) /\ b.wire # <<>> /\ b.answer.to = "none" /\ b.answer \in AnswersMade
  BY <1>1, NoAnswerOK DEF ARulebook!PolicyFileServed, RuleFileStates
<1>4. /\ request \in RequestsMade /\ wire \in Seq(RequestsMade) /\ Len(b.wire) \in Nat \ {0} /\ Len(wire) = Len(b.wire) - 1
      /\ request = b.wire[1] /\ \A i \in 1..Len(wire) : wire[i] = b.wire[i + 1]
  <2> DEFINE w == b.wire
  <2>1. w \in Seq(RequestsMade) /\ w # <<>>
    BY <1>3
  <2> HIDE DEF w
  <2>2. /\ Head(w) \in RequestsMade /\ Tail(w) \in Seq(RequestsMade) /\ Len(Tail(w)) = Len(w) - 1
        /\ \A i \in 1..Len(Tail(w)) : Tail(w)[i] = w[i + 1]
    BY <2>1, HeadTailProperties
  <2>3. Len(w) \in Nat \ {0} /\ Head(w) = w[1]
    BY <2>1, LenProperties, EmptySeq
  <2> QED
    BY <2>2, <2>3 DEF w
<1> DEFINE file == IF request.ask = "write" /\ how = "ok" THEN request.policy ELSE b.file
           answer == IF request.ask = "write" THEN b.answer ELSE ARulebook!Answers(request, how)
<1>5. file \in ARulebook!Policies \cup {ARulebook!NoPolicy} /\ b.file \in ARulebook!Policies \cup {ARulebook!NoPolicy}
  BY <1>1, <1>4 DEF RuleFileStates, RequestsMade
<1>6. answer \in AnswersMade /\ answer.to = IF request.ask = "write" THEN "none" ELSE request.ask
  <2> DEFINE told == IF request.ask = "policy" /\ how = "ok" THEN b.file ELSE ARulebook!NoPolicy
  <2>1. told \in ARulebook!Policies \cup {ARulebook!NoPolicy}
    BY <1>5
  <2>2. ARulebook!Answers(request, how) = [to |-> request.ask, how |-> how, policy |-> told]
    BY DEF ARulebook!Answers
  <2> HIDE DEF told
  <2>3. CASE request.ask = "write"
    BY <1>3, <2>3
  <2>4. CASE request.ask # "write"
    <3>1. request.ask \in {"none", "tasks", "policy"} /\ how \in {"ok", "noRoot", "failed"}
      BY <1>4, <2>4 DEF RequestsMade
    <3> QED
      BY <2>1, <2>2, <2>4, <3>1 DEF AnswersMade
  <2> QED
    BY <2>3, <2>4
<1>7. OneRead(wire, answer.to, a.stage)
  <2>1. \A i \in 1..Len(wire) : i + 1 \in 1..Len(b.wire) /\ i + 1 # 1
    BY <1>4
  <2>2. 1 \in 1..Len(b.wire)
    BY <1>4
  <2> HIDE DEF wire, request, answer
  <2>3. \A i, j \in 1..Len(wire) : wire[i].ask # "write" /\ wire[j].ask # "write" => i = j
    <3> SUFFICES ASSUME NEW i \in 1..Len(wire), NEW j \in 1..Len(wire), wire[i].ask # "write", wire[j].ask # "write" PROVE i = j
      OBVIOUS
    <3>1. b.wire[i + 1].ask # "write" /\ b.wire[j + 1].ask # "write" /\ i + 1 \in 1..Len(b.wire) /\ j + 1 \in 1..Len(b.wire)
      BY <1>4, <2>1
    <3>2. i + 1 = j + 1
      BY <1>1, <3>1 DEF OneRead
    <3> QED
      BY <3>2
  <2>4. CASE request.ask = "write"
    <3>1. answer.to = "none"
      BY <1>6, <2>4
    <3> QED
      BY <1>1, <1>3, <1>4, <2>1, <2>3, <3>1 DEF OneRead
  <2>5. CASE request.ask # "write"
    <3>1. answer.to = request.ask /\ request.ask = a.stage
      BY <1>1, <1>4, <1>6, <2>2, <2>5 DEF OneRead
    <3>2. \A i \in 1..Len(wire) : wire[i].ask = "write"
      BY <1>1, <1>4, <2>1, <2>2, <2>5 DEF OneRead
    <3> QED
      BY <2>3, <3>1, <3>2 DEF OneRead
  <2> QED
    BY <2>4, <2>5
<1>8. b' = [b EXCEPT !.wire = wire, !.file = file, !.answer = answer]
  BY <1>2
<1> HIDE DEF wire, file, answer, request
<1>9. b' \in RuleFileStates /\ b'.wire = wire /\ b'.answer = answer
  BY ONLY <1>1, <1>4, <1>5, <1>6, <1>8 DEF RuleFileStates
<1> QED
  BY <1>1, <1>7, <1>9 DEF RulesInv

LEMMA RestoreReadsOK == ASSUME RulesInv, ARulebook!TasksRead \/ ARulebook!PolicyRead PROVE RulesInv'
<1>1. a \in RulebookStates /\ b \in RuleFileStates /\ Stands(a) /\ OneRead(b.wire, b.answer.to, a.stage)
      /\ b.answer \in AnswersMade /\ b.wire \in Seq(RequestsMade)
  BY DEF RulesInv, RuleFileStates
<1>2. a.stage = b.answer.to /\ \A i \in 1..Len(b.wire) : b.wire[i].ask = "write"
  <2>1. b.answer.to # "none"
    BY DEF ARulebook!TasksRead, ARulebook!PolicyRead
  <2> QED
    BY <1>1, <2>1 DEF OneRead
<1>3. ASSUME NEW stage \in {"policy", "restored", "gaveUp"}, NEW policy \in ARulebook!Policies, NEW wire \in Seq(RequestsMade),
             a' = [a EXCEPT !.stage = stage, !.policy = policy], b' = [b EXCEPT !.answer = ARulebook!NoAnswer, !.wire = wire],
             OneRead(wire, "none", stage),
             a.last # ARulebook!NoPolicy /\ ~a.raced => stage # "policy" /\ policy = a.policy
      PROVE  RulesInv'
  <2>1. b' \in RuleFileStates /\ b'.wire = wire /\ b'.answer = ARulebook!NoAnswer
    BY <1>1, <1>3, NoAnswerOK DEF RuleFileStates
  <2>2. a' \in RulebookStates /\ a'.policy = policy /\ a'.last = a.last /\ a'.stage = stage /\ a'.touched = a.touched /\ a'.raced = a.raced
    BY <1>1, <1>3 DEF RulebookStates
  <2>3. Stands(a')
    BY <1>1, <1>3, <2>2 DEF Stands
  <2> QED
    BY <1>3, <2>1, <2>2, <2>3, NoAnswerOK DEF RulesInv
<1>4. \A stage : OneRead(b.wire, "none", stage)
  BY <1>2 DEF OneRead
<1>5. CASE ARulebook!TasksRead
  <2> DEFINE asks == b.answer.how = "ok" /\ ~a.touched
             stage == IF asks THEN "policy" ELSE IF b.answer.how = "noRoot" THEN "gaveUp" ELSE "restored"
             wire == IF asks THEN Append(b.wire, ARulebook!Ask("policy")) ELSE b.wire
  <2>1. a' = [a EXCEPT !.stage = stage] /\ b' = [b EXCEPT !.answer = ARulebook!NoAnswer, !.wire = wire]
    BY <1>5 DEF ARulebook!TasksRead
  <2>2. a' = [a EXCEPT !.stage = stage, !.policy = a.policy] /\ a.policy \in ARulebook!Policies
    BY <1>1, <2>1 DEF RulebookStates
  <2>3. ARulebook!Ask("policy") \in RequestsMade /\ ARulebook!Ask("policy").ask = "policy"
    BY AskOK
  <2>4. wire \in Seq(RequestsMade) /\ stage \in {"policy", "restored", "gaveUp"}
    BY <1>1, <2>3, WireEnds
  <2>5. OneRead(wire, "none", stage)
    <3>1. CASE asks
      BY <1>1, <1>2, <2>3, <3>1, OneReadSent
    <3>2. CASE ~asks
      BY <1>4, <3>2
    <3> QED
      BY <3>1, <3>2
  <2>6. a.last # ARulebook!NoPolicy => stage # "policy"
    BY <1>1 DEF Stands
  <2> HIDE DEF stage, wire
  <2> QED
    BY ONLY <1>3, <2>1, <2>2, <2>4, <2>5, <2>6
<1>6. CASE ARulebook!PolicyRead
  <2> DEFINE policy == IF b.answer.policy = ARulebook!NoPolicy THEN a.policy ELSE b.answer.policy
             stage == IF b.answer.how = "noRoot" THEN "gaveUp" ELSE "restored"
  <2>1. a' = [a EXCEPT !.stage = stage, !.policy = policy] /\ b' = [b EXCEPT !.answer = ARulebook!NoAnswer] /\ b.answer.to = "policy"
    BY <1>1, <1>6 DEF ARulebook!PolicyRead, RulebookStates
  <2>2. b' = [b EXCEPT !.answer = ARulebook!NoAnswer, !.wire = b.wire]
    BY <1>1, <2>1 DEF RuleFileStates
  <2>3. policy \in ARulebook!Policies /\ stage \in {"policy", "restored", "gaveUp"}
    BY <1>1 DEF RulebookStates, AnswersMade
  <2>4. ~(a.last # ARulebook!NoPolicy /\ ~a.raced)
    BY <1>1, <1>2, <2>1 DEF Stands
  <2> HIDE DEF stage, policy
  <2> QED
    BY ONLY <1>1, <1>3, <1>4, <2>1, <2>2, <2>3, <2>4
<1> QED
  BY <1>5, <1>6

LEMMA WritesOK ==
  ASSUME NEW wire \in Seq(RequestsMade),
         \A i, j \in 1..Len(wire) : wire[i].ask # "write" /\ wire[j].ask # "write" => i = j
  PROVE  /\ ARulebook!Writes(wire) \in Seq(RequestsMade)
         /\ \A k \in 1..Len(ARulebook!Writes(wire)) : ARulebook!Writes(wire)[k].ask = "write"
<1> DEFINE reads == {i \in DOMAIN wire : wire[i].ask # "write"}
           i == CHOOSE k \in reads : TRUE
           t == ARulebook!RemoveAt(wire, i)
<1>1. DOMAIN wire = 1..Len(wire)
  BY LenProperties
<1>2. ARulebook!Writes(wire) = IF reads = {} THEN wire ELSE t
  BY DEF ARulebook!Writes
<1>3. CASE reads = {}
  BY <1>1, <1>2, <1>3
<1>4. CASE reads # {}
  <2>1. i \in 1..Len(wire) /\ wire[i].ask # "write"
    BY <1>1, <1>4
  <2> HIDE DEF i
  <2>2. t \in Seq(RequestsMade) /\ Len(t) = Len(wire) - 1 /\ Len(wire) \in Nat
        /\ \A k \in 1..(Len(wire) - 1) : t[k] = wire[IF k < i THEN k ELSE k + 1]
    BY <2>1, RemoveAtOK
  <2> HIDE DEF t
  <2>3. \A k \in 1..Len(t) : t[k].ask = "write"
    <3> SUFFICES ASSUME NEW k \in 1..Len(t) PROVE t[k].ask = "write"
      OBVIOUS
    <3> DEFINE j == IF k < i THEN k ELSE k + 1
    <3>1. j \in 1..Len(wire) /\ j # i /\ t[k] = wire[j]
      BY <2>1, <2>2
    <3> HIDE DEF j
    <3> QED
      BY <2>1, <3>1
  <2> QED
    BY <1>2, <1>4, <2>2, <2>3
<1> QED
  BY <1>3, <1>4

LEMMA RestartOK == ASSUME RulesInv, ARulebook!SidecarRestarts PROVE RulesInv'
<1>1. b \in RuleFileStates /\ OneRead(b.wire, b.answer.to, a.stage) /\ b.wire \in Seq(RequestsMade)
  BY DEF RulesInv, RuleFileStates
<1>2. a' \in RulebookStates /\ Stands(a') /\ a'.stage = "tasks"
  BY FreshOK DEF ARulebook!SidecarRestarts
<1>3. PICK n \in 0..Len(b.wire) :
        b' = [b EXCEPT !.answer = ARulebook!NoAnswer,
                       !.wire = Append(ARulebook!Writes(SubSeq(b.wire, 1, n)), ARulebook!Ask("tasks"))]
  BY <1>1 DEF ARulebook!SidecarRestarts, RuleFileStates
<1> DEFINE sent == SubSeq(b.wire, 1, n)
           wrote == ARulebook!Writes(sent)
           wire == Append(wrote, ARulebook!Ask("tasks"))
<1>4. Len(b.wire) \in Nat
  BY <1>1, LenProperties
<1>5. sent \in Seq(RequestsMade) /\ Len(sent) = n /\ \A i \in 1..n : sent[i] = b.wire[i]
  BY <1>1, <1>4, SubSeqProperties
<1> HIDE DEF sent
<1>6. \A i, j \in 1..Len(sent) : sent[i].ask # "write" /\ sent[j].ask # "write" => i = j
  BY <1>1, <1>4, <1>5 DEF OneRead
<1>7. wrote \in Seq(RequestsMade) /\ \A k \in 1..Len(wrote) : wrote[k].ask = "write"
  BY <1>5, <1>6, WritesOK
<1>8. ARulebook!Ask("tasks") \in RequestsMade /\ ARulebook!Ask("tasks").ask = "tasks"
  BY AskOK
<1> HIDE DEF wrote
<1>9. wire \in Seq(RequestsMade) /\ OneRead(wire, "none", "tasks")
  BY <1>7, <1>8, WireEnds, OneReadSent
<1>10. b' = [b EXCEPT !.answer = ARulebook!NoAnswer, !.wire = wire]
  BY <1>3 DEF wrote, sent
<1> HIDE DEF wire
<1>11. b' \in RuleFileStates /\ b'.wire = wire /\ b'.answer = ARulebook!NoAnswer
  BY <1>1, <1>9, <1>10, NoAnswerOK DEF RuleFileStates
<1> QED
  BY <1>2, <1>9, <1>11, NoAnswerOK DEF RulesInv

LEMMA RulesStep == ASSUME RulesInv, [ARulebook!DelegationNext]_<<a, b>> PROVE RulesInv'
<1>1. CASE UNCHANGED <<a, b>>
  BY <1>1 DEF RulesInv, Stands, OneRead
<1>2. CASE \E p \in ARulebook!EditsOf(a.policy) : ARulebook!SetPolicyRules(p)
  BY <1>2, PolicySetOK
<1>3. CASE ARulebook!ChooseDataFolder
  <2> DEFINE on == TRUE
  <2>1. a' = a /\ b' = [b EXCEPT !.root = on] /\ on \in BOOLEAN
    BY <1>3 DEF ARulebook!ChooseDataFolder
  <2> HIDE DEF on
  <2>2. b' \in RuleFileStates /\ b'.wire = b.wire /\ b'.answer = b.answer
    BY <2>1 DEF RulesInv, RuleFileStates
  <2> QED
    BY <2>1, <2>2 DEF RulesInv
<1>4. CASE ARulebook!PolicyFileServed
  BY <1>4, PolicyServedOK
<1>5. CASE ARulebook!TasksRead \/ ARulebook!PolicyRead
  BY <1>5, RestoreReadsOK
<1>6. CASE ARulebook!SidecarRestarts
  BY <1>6, RestartOK
<1> QED
  BY ONLY <1>1, <1>2, <1>3, <1>4, <1>5, <1>6, [ARulebook!DelegationNext]_<<a, b>> DEF ARulebook!DelegationNext

-----------------------------------------------------------------------------
(* The tools of an agent: a search has looked at a set of folders, closed  *)
(* under what it still has to look at, and found every file in them.       *)

ToolTree == [1..MaxFolder -> ATool!FolderIds]
DiskStates ==
  [parent : ToolTree, place : [ToolFiles -> ATool!FolderIds \cup {ATool!Gone}], moved : SUBSET ToolFiles, control : BOOLEAN]
ToolStates ==
  [has : ATool!Toolsets, phase : {"idle", "asking", "vault", "walking", "done"}, name : ATool!ToolNames, control : BOOLEAN,
   told : {"nothing", "blocked", "failed", "done", "truncated"}]
FoundPairs == ToolFiles \X ATool!FolderIds
WalkStates ==
  [pending : Seq(ATool!FolderIds), visited : 0..MaxVisited, found : SUBSET FoundPairs, failed : BOOLEAN]

LEMMA ToolNumbers ==
  /\ \A S : ATool!Cardinality(S) = Cardinality(S)
  /\ MaxFolder \in Nat /\ SearchDepth \in Nat /\ SearchLimit \in Nat /\ MaxVisited \in Nat
  /\ ATool!FolderIds = 0..MaxFolder /\ ATool!FolderIds \subseteq Nat
<1>1. \A S : ATool!Cardinality(S) = Cardinality(S)
  BY DEF ATool!Cardinality, Cardinality
<1>2. ATool!FolderIds = 0..MaxFolder
  BY DEF ATool!FolderIds
<1> QED
  BY <1>1, <1>2, Bounds

\* What is found is counted in numbers, and so is what a folder holds.
LEMMA FindsAreFinite ==
  /\ \A S \in SUBSET FoundPairs : IsFiniteSet(S) /\ Cardinality(S) \in Nat
  /\ \A S \in SUBSET ToolFiles : IsFiniteSet(S) /\ Cardinality(S) \in Nat
  /\ \A S \in SUBSET ATool!FolderIds : IsFiniteSet(S) /\ Cardinality(S) \in Nat
<1>1. IsFiniteSet(ToolFiles) /\ IsFiniteSet(ATool!FolderIds)
  <2>1. IsFiniteSet(0..MaxFolder)
    BY FS_Interval, ToolNumbers
  <2> QED
    BY <2>1, ToolNumbers, ScreensAssumption
<1>2. IsFiniteSet(FoundPairs)
  BY <1>1, FS_Product DEF FoundPairs
<1> QED
  BY <1>1, <1>2, FS_Subset, FS_CardinalityType

\* What is put into a sequence is there once.
LEMMA ListedOnce ==
  ASSUME NEW S, IsFiniteSet(S)
  PROVE  /\ ATool!SetToSeq(S) \in Seq(S)
         /\ \A x \in S : \E i \in 1..Len(ATool!SetToSeq(S)) : ATool!SetToSeq(S)[i] = x
         /\ \A i, j \in 1..Len(ATool!SetToSeq(S)) : ATool!SetToSeq(S)[i] = ATool!SetToSeq(S)[j] => i = j
<1> DEFINE n == Cardinality(S)
           s == ATool!SetToSeq(S)
           Once(f) == \A i, j \in 1..n : f[i] = f[j] => i = j
<1>1. n \in Nat /\ ExistsBijection(1..n, S) /\ IsFiniteSet(1..n) /\ Cardinality(1..n) = n
  BY FS_CardinalityType, FS_Interval
<1>2. \E f \in [1..n -> S] : Once(f)
  <2> HIDE DEF n
  <2>1. PICK f \in Bijection(1..n, S) : TRUE
    BY <1>1 DEF ExistsBijection
  <2>2. f \in [1..n -> S] /\ \A i, j \in 1..n : f[i] = f[j] => i = j
    BY <2>1 DEF Bijection, Injection, IsInjective
  <2> QED
    BY <2>2
<1>3. s = CHOOSE f \in [1..n -> S] : ATool!IsInjective(f)
  BY ToolNumbers DEF ATool!SetToSeq
<1>4. \A f \in [1..n -> S] : ATool!IsInjective(f) <=> Once(f)
  BY DEF ATool!IsInjective
<1>5. s \in [1..n -> S] /\ Once(s)
  <2> HIDE DEF s, n
  <2> QED
    BY <1>2, <1>3, <1>4
<1>6. s \in Injection(1..n, S)
  <2> HIDE DEF s, n
  <2> QED
    BY <1>5 DEF Injection, IsInjective
<1>7. s \in Surjection(1..n, S)
  <2> HIDE DEF s
  <2> QED
    BY <1>1, <1>6, FS_Injection
<1>8. s \in Seq(S) /\ Len(s) = n
  <2> HIDE DEF s, n
  <2> QED
    BY <1>1, <1>5, SeqDef, LenProperties
<1> QED
  BY <1>5, <1>7, <1>8 DEF Surjection

-----------------------------------------------------------------------------
\* The depth of every folder of a tree.
FolderDepths(parent) ==
  CHOOSE f : f = [g \in ATool!FolderIds |-> IF g = 0 THEN 0 ELSE f[parent[g]] + 1]
GrowsDown(parent) == \A g \in 1..MaxFolder : parent[g] < g

LEMMA DepthIsOfTree == ASSUME NEW g \in ATool!FolderIds PROVE ATool!Depth(g) = FolderDepths(a.parent)[g]
BY DEF ATool!Depth, FolderDepths

LEMMA DepthStep ==
  ASSUME NEW parent \in ToolTree, GrowsDown(parent)
  PROVE  \A g \in ATool!FolderIds : /\ FolderDepths(parent)[g] \in Nat
                                      /\ FolderDepths(parent)[g] = IF g = 0 THEN 0 ELSE FolderDepths(parent)[parent[g]] + 1
<1> DEFINE H(f, n) == f = [g \in 0..n |-> IF g = 0 THEN 0 ELSE f[parent[g]] + 1]
           T == {n \in 0..MaxFolder : ~\E f : H(f, n) /\ \A g \in 0..n : f[g] \in Nat}
           depth == FolderDepths(parent)
<1>1. depth = CHOOSE f : H(f, MaxFolder)
  BY ToolNumbers DEF FolderDepths
<1>2. \A g \in 1..MaxFolder : parent[g] \in 0..(g - 1)
  BY ToolNumbers DEF ToolTree, GrowsDown
<1> HIDE DEF depth
<1>3. T = {}
  <2> SUFFICES ASSUME T # {} PROVE FALSE
    OBVIOUS
  <2>1. PICK m \in T : \A k \in T : ~(k < m)
    <3>1. T \in SUBSET Nat
      BY ToolNumbers
    <3> HIDE DEF T
    <3> QED
      BY <3>1, LeastNumber
  <2>2. m \in 0..MaxFolder /\ ~\E f : H(f, m) /\ \A g \in 0..m : f[g] \in Nat
    OBVIOUS
  <2>3. CASE m = 0
    <3> DEFINE f == [g \in 0..0 |-> 0]
    <3>1. f = [g \in 0..0 |-> IF g = 0 THEN 0 ELSE f[parent[g]] + 1] /\ \A g \in 0..0 : f[g] \in Nat
      OBVIOUS
    <3> HIDE DEF f
    <3> QED
      BY <2>2, <2>3, <3>1
  <2>4. CASE m # 0
    <3>1. m - 1 \in 0..MaxFolder /\ m - 1 < m /\ m \in 1..MaxFolder
      BY <2>2, <2>4, ToolNumbers
    <3>2. m - 1 \notin T
      BY <2>1, <3>1
    <3>3. PICK h : H(h, m - 1) /\ \A g \in 0..(m - 1) : h[g] \in Nat
      BY <3>1, <3>2
    <3> DEFINE f == [g \in 0..m |-> IF g = m THEN h[parent[m]] + 1 ELSE h[g]]
    <3>4. \A g \in 0..m : f[g] = (IF g = 0 THEN 0 ELSE f[parent[g]] + 1) /\ f[g] \in Nat
      <4> SUFFICES ASSUME NEW g \in 0..m PROVE f[g] = (IF g = 0 THEN 0 ELSE f[parent[g]] + 1) /\ f[g] \in Nat
        OBVIOUS
      <4>1. g # 0 => parent[g] \in 0..(g - 1) /\ parent[g] \in 0..m /\ parent[g] # m
        BY <1>2, <3>1, ToolNumbers
      <4>2. g # 0 => f[parent[g]] = h[parent[g]]
        BY <4>1
      <4>3. CASE g = m
        <5>1. m \in 0..m /\ parent[m] \in 0..(m - 1)
          BY <3>1, <4>1, <4>3, <2>4
        <5>2. h[parent[m]] \in Nat /\ f[m] = h[parent[m]] + 1
          BY <3>3, <5>1
        <5> QED
          BY <2>4, <4>2, <4>3, <5>2
      <4>4. CASE g # m
        <5>1. g \in 0..(m - 1) /\ f[g] = h[g]
          BY <3>1, <4>4
        <5> QED
          BY <3>3, <4>2, <5>1
      <4> QED
        BY <4>3, <4>4
    <3>5. f = [g \in 0..m |-> f[g]]
      OBVIOUS
    <3> HIDE DEF f
    <3>6. H(f, m)
      BY <3>4, <3>5
    <3> QED
      BY <2>2, <3>4, <3>6
  <2> QED
    BY <2>3, <2>4
<1>4. \E f : H(f, MaxFolder) /\ \A g \in 0..MaxFolder : f[g] \in Nat
  BY <1>3, ToolNumbers
<1>5. H(depth, MaxFolder)
  BY <1>1, <1>4
<1>6. \A g \in 0..MaxFolder : depth[g] = IF g = 0 THEN 0 ELSE depth[parent[g]] + 1
  BY <1>5
<1>7. \A g \in 0..MaxFolder : depth[g] \in Nat
  <2> DEFINE U == {g \in 0..MaxFolder : depth[g] \notin Nat}
  <2> SUFFICES ASSUME U # {} PROVE FALSE
    OBVIOUS
  <2>1. PICK m \in U : \A k \in U : ~(k < m)
    <3>1. U \in SUBSET Nat
      BY ToolNumbers
    <3> HIDE DEF U
    <3> QED
      BY <3>1, LeastNumber
  <2>2. m \in 1..MaxFolder /\ parent[m] \in 0..(m - 1)
    BY <1>2, <1>6, ToolNumbers
  <2>3. depth[parent[m]] \in Nat
    BY <2>1, <2>2, ToolNumbers
  <2> QED
    BY <1>6, <2>2, <2>3
<1> QED
  BY <1>6, <1>7, ToolNumbers DEF depth

-----------------------------------------------------------------------------
Held(s) == {s[i] : i \in 1..Len(s)}
Distinct(s) == \A i, j \in 1..Len(s) : s[i] = s[j] => i = j

\* The folders V were looked at: what is pending are the folders found in them, each once.
LookedAt(V, disk, walk) ==
  /\ V \subseteq ATool!FolderIds /\ V \cap Held(walk.pending) = {} /\ Distinct(walk.pending)
  /\ 0 \in V \cup Held(walk.pending)
  /\ \A g \in V \cup Held(walk.pending) : g # 0 => disk.parent[g] \in V
  /\ \A g \in V, h \in 1..MaxFolder :
       FolderDepths(disk.parent)[g] < SearchDepth /\ disk.parent[h] = g => h \in V \cup Held(walk.pending)
  /\ \A f \in ToolFiles : disk.place[f] \in V /\ f \notin disk.moved => <<f, disk.place[f]>> \in walk.found
  /\ \A p \in walk.found : p[2] \in V
Searched(disk, walk) ==
  walk.failed \/ ~(Cardinality(walk.found) < SearchLimit) \/ \E V \in SUBSET ATool!FolderIds : LookedAt(V, disk, walk)

ToolInv ==
  /\ a \in DiskStates /\ GrowsDown(a.parent) /\ a.control
  /\ b \in ToolStates /\ c \in WalkStates
  /\ b.phase \in {"asking", "vault"} => b.name # "search" /\ ~ATool!Blocked(b.name, b.control)
  /\ b.phase = "walking" => b.name = "search"
  /\ b.phase \in {"walking", "done"} /\ b.name = "search" => Searched(a, c)
  /\ b.phase = "done" /\ b.name = "search" /\ b.told = "done" => c.pending = <<>>

\* What is looked at next leaves the sequence, and what comes after it is added.
LEMMA PendingMoves ==
  ASSUME NEW S, NEW s \in Seq(S), s # <<>>, Distinct(s), NEW u \in Seq(S), Distinct(u), Held(s) \cap Held(u) = {}
  PROVE  /\ Tail(s) \o u \in Seq(S) /\ Head(s) \in S /\ Head(s) \in Held(s)
         /\ Held(Tail(s) \o u) = (Held(s) \ {Head(s)}) \cup Held(u)
         /\ Distinct(Tail(s) \o u)
<1> DEFINE t == Tail(s)
           r == t \o u
           n == Len(s)
           m == Len(u)
<1>1. t \in Seq(S) /\ Len(t) = n - 1 /\ n \in Nat \ {0} /\ m \in Nat /\ Head(s) = s[1] /\ Head(s) \in S
  BY HeadTailProperties, LenProperties, EmptySeq
<1>2. \A i \in 1..(n - 1) : t[i] = s[i + 1]
  BY <1>1, HeadTailProperties
<1> HIDE DEF t
<1>3. r \in Seq(S) /\ Len(r) = n - 1 + m
      /\ \A i \in 1..(n - 1 + m) : r[i] = IF i <= n - 1 THEN t[i] ELSE u[i - (n - 1)]
  <2>1. r \in Seq(S) /\ Len(r) = Len(t) + m /\ \A i \in 1..(Len(t) + m) : r[i] = IF i <= Len(t) THEN t[i] ELSE u[i - Len(t)]
    BY <1>1, ConcatProperties
  <2> HIDE DEF r, n, m
  <2> QED
    BY <1>1, <2>1
<1> HIDE DEF r, n, m
<1>4. \A i \in 1..(n - 1) : r[i] = s[i + 1] /\ i + 1 \in 2..n
  BY <1>1, <1>2, <1>3
<1>5. \A i \in n..(n - 1 + m) : r[i] = u[i - (n - 1)] /\ i - (n - 1) \in 1..m
  BY <1>1, <1>3
<1>6. \A i \in 1..n, j \in 1..n : s[i] = s[j] => i = j
  BY DEF Distinct, n
<1>7. \A i \in 1..m, j \in 1..m : u[i] = u[j] => i = j
  BY DEF Distinct, m
<1>8. \A i \in 1..n, j \in 1..m : s[i] # u[j]
  BY DEF Held, n, m
<1>9. \A i, j \in 1..(n - 1 + m) : r[i] = r[j] => i = j
  <2> SUFFICES ASSUME NEW i \in 1..(n - 1 + m), NEW j \in 1..(n - 1 + m), r[i] = r[j] PROVE i = j
    OBVIOUS
  <2>1. CASE i \in 1..(n - 1) /\ j \in 1..(n - 1)
    BY <1>1, <1>4, <1>6, <2>1
  <2>2. CASE i \in n..(n - 1 + m) /\ j \in n..(n - 1 + m)
    BY <1>1, <1>5, <1>7, <2>2
  <2>3. CASE i \in 1..(n - 1) /\ j \in n..(n - 1 + m)
    BY <1>1, <1>4, <1>5, <1>8, <2>3
  <2>4. CASE j \in 1..(n - 1) /\ i \in n..(n - 1 + m)
    BY <1>1, <1>4, <1>5, <1>8, <2>4
  <2> QED
    BY <1>1, <2>1, <2>2, <2>3, <2>4
<1>10. \A x : x \in Held(r) => x \in (Held(s) \ {Head(s)}) \cup Held(u)
  <2> SUFFICES ASSUME NEW i \in 1..(n - 1 + m) PROVE r[i] \in (Held(s) \ {Head(s)}) \cup Held(u)
    BY <1>3 DEF Held
  <2>1. CASE i \in 1..(n - 1)
    <3>1. i + 1 \in 1..n /\ s[i + 1] # s[1] /\ r[i] = s[i + 1]
      BY <1>1, <1>4, <1>6, <2>1
    <3> QED
      BY <1>1, <3>1 DEF Held, n
  <2>2. CASE i \in n..(n - 1 + m)
    <3>1. r[i] = u[i - (n - 1)] /\ i - (n - 1) \in 1..m
      BY <1>5, <2>2
    <3> QED
      BY <3>1 DEF Held, m
  <2> QED
    BY <1>1, <2>1, <2>2
<1>11. \A x : x \in (Held(s) \ {Head(s)}) => x \in Held(r)
  <2> SUFFICES ASSUME NEW i \in 1..n, s[i] # s[1] PROVE s[i] \in Held(r)
    BY <1>1 DEF Held, n
  <2>1. i - 1 \in 1..(n - 1 + m) /\ r[i - 1] = s[i]
    BY <1>1, <1>4
  <2> QED
    BY <1>3, <2>1 DEF Held
<1>12. \A x : x \in Held(u) => x \in Held(r)
  <2> SUFFICES ASSUME NEW i \in 1..m PROVE u[i] \in Held(r)
    BY DEF Held, m
  <2>1. i + (n - 1) \in 1..(n - 1 + m) /\ r[i + (n - 1)] = u[i]
    BY <1>1, <1>3
  <2> QED
    BY <1>3, <2>1 DEF Held
<1>13. Head(s) \in Held(s)
  BY <1>1 DEF Held, n
<1>14. Held(r) = (Held(s) \ {Head(s)}) \cup Held(u)
  BY <1>10, <1>11, <1>12
<1>15. Distinct(r)
  BY <1>3, <1>9 DEF Distinct
<1> QED
  BY <1>1, <1>3, <1>13, <1>14, <1>15 DEF r, t

-----------------------------------------------------------------------------
LEMMA ToolHolds == ASSUME ToolInv PROVE ATool!ToolsTypeOK /\ ATool!SearchIsWhole
<1> USE DEF ToolInv
<1>1. ATool!ToolsTypeOK
  BY DEF DiskStates, ToolTree, ToolStates, WalkStates, FoundPairs, ATool!ToolsTypeOK
<1>2. ASSUME b.phase = "done", b.name = "search", b.told = "done", ~c.failed, Cardinality(c.found) < SearchLimit,
             NEW f \in ToolFiles, a.place[f] # ATool!Gone, f \notin a.moved, ATool!Depth(a.place[f]) <= SearchDepth
      PROVE  <<f, a.place[f]>> \in c.found
  <2> DEFINE depth == FolderDepths(a.parent)
  <2>1. PICK V \in SUBSET ATool!FolderIds : LookedAt(V, a, c)
    BY <1>2 DEF Searched
  <2>2. Held(c.pending) = {}
    <3>1. c.pending = <<>>
      BY <1>2
    <3> QED
      BY <3>1, EmptySeq DEF Held
  <2>3. a.parent \in ToolTree /\ a.place[f] \in ATool!FolderIds
    BY <1>2 DEF DiskStates
  <2>4. \A g \in ATool!FolderIds : depth[g] \in Nat /\ depth[g] = IF g = 0 THEN 0 ELSE depth[a.parent[g]] + 1
    BY <2>3, DepthStep
  <2>5. /\ 0 \in V
        /\ \A g \in V, h \in 1..MaxFolder : depth[g] < SearchDepth /\ a.parent[h] = g => h \in V
        /\ a.place[f] \in V => <<f, a.place[f]>> \in c.found
    BY <1>2, <2>1, <2>2 DEF LookedAt
  <2> DEFINE T == {g \in ATool!FolderIds : depth[g] <= SearchDepth /\ g \notin V}
  <2>6. T = {}
    <3> SUFFICES ASSUME T # {} PROVE FALSE
      OBVIOUS
    <3>1. PICK g \in T : \A k \in T : ~(k < g)
      <4>1. T \in SUBSET Nat
        BY ToolNumbers
      <4> HIDE DEF T
      <4> QED
        BY <4>1, LeastNumber
    <3>2. g \in 1..MaxFolder /\ g \in ATool!FolderIds
      BY <2>5, ToolNumbers
    <3>3. a.parent[g] \in ATool!FolderIds /\ a.parent[g] < g
      BY <2>3, <3>2 DEF GrowsDown, ToolTree
    <3>4. depth[g] = depth[a.parent[g]] + 1 /\ depth[a.parent[g]] \in Nat /\ depth[g] \in Nat
      <4> HIDE DEF depth
      <4>1. g # 0
        BY <3>2
      <4> QED
        BY <2>4, <3>2, <3>3, <4>1
    <3>5. depth[a.parent[g]] < SearchDepth /\ depth[a.parent[g]] <= SearchDepth
      BY <3>4, ToolNumbers
    <3>6. a.parent[g] \in V
      BY <3>1, <3>3, <3>5
    <3> QED
      BY <2>5, <3>2, <3>5, <3>6
  <2>7. ATool!Depth(a.place[f]) = depth[a.place[f]]
    BY <2>3, DepthIsOfTree
  <2> QED
    BY <1>2, <2>3, <2>5, <2>6, <2>7
<1>3. ATool!SearchIsWhole
  BY <1>2, ToolNumbers DEF ATool!SearchIsWhole
<1> QED
  BY <1>1, <1>3

LEMMA ToolStarts == ASSUME ATool!ToolsInit PROVE ToolInv
<1> USE DEF ATool!ToolsInit
<1>1. a \in DiskStates /\ GrowsDown(a.parent) /\ a.control
  BY DEF DiskStates, ToolTree, GrowsDown
<1>2. b \in ToolStates /\ b.phase = "idle"
  BY DEF ToolStates, ATool!ToolNames
<1>3. c \in WalkStates
  <2>1. <<>> \in Seq(ATool!FolderIds) /\ 0 \in 0..MaxVisited
    BY EmptySeq, ToolNumbers
  <2> QED
    BY <2>1 DEF WalkStates, ATool!NoWalk
<1> QED
  BY <1>1, <1>2, <1>3 DEF ToolInv

-----------------------------------------------------------------------------
\* A folder is looked at: it joins V, and the folders it holds come to the end.
LEMMA LooksOn ==
  ASSUME NEW disk \in DiskStates, GrowsDown(disk.parent), NEW V, NEW walk \in WalkStates, NEW next \in WalkStates,
         LookedAt(V, disk, walk), walk.pending # <<>>, NEW folders \in SUBSET ATool!FolderIds,
         \A g \in folders : g \in 1..MaxFolder /\ disk.parent[g] = Head(walk.pending),
         FolderDepths(disk.parent)[Head(walk.pending)] < SearchDepth =>
           \A g \in 1..MaxFolder : disk.parent[g] = Head(walk.pending) => g \in folders,
         next.pending = Tail(walk.pending) \o ATool!SetToSeq(folders),
         next.found = walk.found \cup ({f \in ToolFiles : disk.place[f] = Head(walk.pending)} \X {Head(walk.pending)})
  PROVE  LookedAt(V \cup {Head(walk.pending)}, disk, next)
<1> DEFINE s == walk.pending
           u == ATool!SetToSeq(folders)
           h == Head(s)
           W == V \cup {h}
           files == {f \in ToolFiles : disk.place[f] = h}
<1>1. u \in Seq(folders) /\ Distinct(u) /\ \A x \in folders : \E i \in 1..Len(u) : u[i] = x
  BY FindsAreFinite, ListedOnce DEF Distinct
<1>2. s \in Seq(ATool!FolderIds) /\ s # <<>>
  BY DEF WalkStates
<1>3. /\ V \subseteq ATool!FolderIds /\ V \cap Held(s) = {} /\ Distinct(s) /\ 0 \in V \cup Held(s)
      /\ \A g \in V \cup Held(s) : g # 0 => disk.parent[g] \in V
      /\ \A g \in V, k \in 1..MaxFolder :
           FolderDepths(disk.parent)[g] < SearchDepth /\ disk.parent[k] = g => k \in V \cup Held(s)
      /\ \A f \in ToolFiles : disk.place[f] \in V /\ f \notin disk.moved => <<f, disk.place[f]>> \in walk.found
      /\ \A p \in walk.found : p[2] \in V
  BY DEF LookedAt
<1>4. /\ next.pending = Tail(s) \o u /\ next.found = walk.found \cup (files \X {h})
      /\ \A g \in folders : g \in 1..MaxFolder /\ disk.parent[g] = h
      /\ FolderDepths(disk.parent)[h] < SearchDepth => \A g \in 1..MaxFolder : disk.parent[g] = h => g \in folders
  OBVIOUS
<1> HIDE DEF u, s
<1>5. Held(u) = folders
  <2>1. \A i \in 1..Len(u) : u[i] \in folders
    BY <1>1, ElementOfSeq
  <2> QED
    BY <1>1, <2>1, ZenonT(60) DEF Held
<1>6. h \in Held(s) /\ h \in ATool!FolderIds
  <2>1. h = s[1] /\ 1 \in 1..Len(s)
    BY <1>2, HeadTailProperties, LenProperties, EmptySeq
  <2>2. s[1] \in ATool!FolderIds
    BY <1>2, <2>1, ElementOfSeq
  <2> QED
    BY <2>1, <2>2 DEF Held
<1>7. h \notin V
  BY <1>3, <1>6
<1>8. \A g \in folders : g \notin V /\ g \notin Held(s) /\ g # h
  <2>1. \A g \in folders : g # 0
    BY <1>4, ToolNumbers
  <2> QED
    BY <1>3, <1>4, <1>6, <1>7, <2>1
<1>9. u \in Seq(ATool!FolderIds)
  BY <1>1, SeqMonotonic
<1>10. Held(s) \cap Held(u) = {}
  BY <1>5, <1>8
<1>11. Held(Tail(s) \o u) = (Held(s) \ {h}) \cup folders /\ Distinct(Tail(s) \o u)
  BY <1>1, <1>2, <1>3, <1>5, <1>9, <1>10, PendingMoves
<1> DEFINE P == Held(next.pending)
<1>12. P = (Held(s) \ {h}) \cup folders /\ Distinct(next.pending)
  BY <1>4, <1>11
<1> HIDE DEF P, h
<1>13. W \subseteq ATool!FolderIds /\ W \cap P = {} /\ 0 \in W \cup P
  BY <1>3, <1>6, <1>7, <1>8, <1>12
<1>14. \A g \in W \cup P : g # 0 => disk.parent[g] \in W
  BY <1>3, <1>4, <1>6, <1>12
<1>15. \A g \in W, k \in 1..MaxFolder :
         FolderDepths(disk.parent)[g] < SearchDepth /\ disk.parent[k] = g => k \in W \cup P
  BY <1>3, <1>4, <1>6, <1>12
<1>16. \A f \in ToolFiles : disk.place[f] \in W /\ f \notin disk.moved => <<f, disk.place[f]>> \in next.found
  BY <1>3, <1>4
<1>17. \A p \in next.found : p[2] \in W
  BY <1>3, <1>4
<1> HIDE DEF W
<1>18. LookedAt(W, disk, next)
  BY <1>12, <1>13, <1>14, <1>15, <1>16, <1>17 DEF LookedAt, P
<1> QED
  BY <1>18 DEF W, h, s

\* Some files of a folder not looked at yet, that fill the search, are as many more.
LEMMA FillsUp ==
  ASSUME NEW disk, NEW walk \in WalkStates, NEW V, LookedAt(V, disk, walk), NEW h \in ATool!FolderIds, h \notin V,
         NEW files \in SUBSET ToolFiles
  PROVE  Cardinality(walk.found \cup (files \X {h})) = Cardinality(walk.found) + Cardinality(files)
<1> DEFINE old == walk.found
           new == files \X {h}
<1>1. old \in SUBSET FoundPairs /\ new \in SUBSET FoundPairs
  BY DEF WalkStates, FoundPairs
<1>2. old \cap new = {}
  BY DEF LookedAt
<1>3. IsFiniteSet(old) /\ IsFiniteSet(new) /\ Cardinality(old) \in Nat
  BY <1>1, FindsAreFinite
<1>4. IsFiniteSet(files) /\ Cardinality(files) \in Nat
  BY FindsAreFinite
<1>5. Cardinality(new) = Cardinality(files)
  <2>1. IsFiniteSet({h}) /\ Cardinality({h}) = 1
    BY FS_Singleton
  <2>2. Cardinality(new) = Cardinality(files) * Cardinality({h})
    BY <1>4, <2>1, FS_Product
  <2> HIDE DEF new
  <2> QED
    BY <1>4, <2>1, <2>2
<1> HIDE DEF old, new
<1>6. Cardinality(old \cup new) = Cardinality(old) + Cardinality(new) - Cardinality({})
  BY <1>2, <1>3, FS_Union
<1>7. Cardinality({}) = 0
  BY FS_EmptySet
<1>8. Cardinality(old \cup new) = Cardinality(old) + Cardinality(files)
  BY <1>3, <1>4, <1>5, <1>6, <1>7
<1> QED
  BY <1>8 DEF old, new

LEMMA FolderListed == ASSUME ToolInv, ATool!ListFolder PROVE c' \in WalkStates /\ Searched(a, c') /\ UNCHANGED <<a, b>>
<1> DEFINE s == c.pending
           h == Head(s)
           In == {f \in ToolFiles : a.place[f] = h}
           Level == ATool!NextLevel(h)
           seen(files, folders) ==
             [c EXCEPT !.pending = Tail(@) \o ATool!SetToSeq(folders), !.visited = @ + 1, !.found = @ \cup (files \X {h})]
           passed == [c EXCEPT !.pending = Tail(@), !.visited = @ + 1, !.failed = TRUE]
<1>1. /\ b.phase = "walking" /\ s # <<>> /\ Cardinality(c.found) < SearchLimit /\ c.visited < MaxVisited /\ UNCHANGED <<a, b>>
      /\ \/ c' = passed
         \/ Cardinality(c.found) + Cardinality(In) < SearchLimit /\ c' = seen(In, Level)
         \/ \E files \in SUBSET In, folders \in SUBSET Level :
              Cardinality(c.found) + Cardinality(files) = SearchLimit /\ c' = seen(files, folders)
  BY ToolNumbers DEF ATool!ListFolder, ATool!GoesOn, ATool!In
<1>2. s \in Seq(ATool!FolderIds) /\ h \in ATool!FolderIds /\ Tail(s) \in Seq(ATool!FolderIds)
  <2>1. s \in Seq(ATool!FolderIds)
    BY DEF ToolInv, WalkStates
  <2> HIDE DEF s
  <2> QED
    BY <1>1, <2>1, HeadTailProperties
<1>3. c \in WalkStates /\ c.visited + 1 \in 0..MaxVisited /\ a \in DiskStates /\ GrowsDown(a.parent)
  <2>1. c \in WalkStates /\ c.visited \in 0..MaxVisited
    BY DEF ToolInv, WalkStates
  <2>2. c.visited < MaxVisited /\ MaxVisited \in Nat
    BY <1>1, ToolNumbers
  <2>3. c.visited + 1 \in 0..MaxVisited
    BY ONLY <2>1, <2>2
  <2> QED
    BY <2>1, <2>3 DEF ToolInv
<1>4. /\ Level \subseteq ATool!FolderIds /\ \A g \in Level : g \in 1..MaxFolder /\ a.parent[g] = h
      /\ FolderDepths(a.parent)[h] < SearchDepth => \A g \in 1..MaxFolder : a.parent[g] = h => g \in Level
  <2>1. ATool!Depth(h) = FolderDepths(a.parent)[h]
    BY <1>2, DepthIsOfTree
  <2>2. 1..MaxFolder \subseteq ATool!FolderIds
    BY ToolNumbers
  <2> HIDE DEF h
  <2> QED
    BY <2>1, <2>2 DEF ATool!NextLevel, ATool!Within
<1>5. Searched(a, c)
  <2>1. b.name = "search"
    BY <1>1 DEF ToolInv
  <2> QED
    BY <1>1, <2>1 DEF ToolInv
<1>6. \A files \in SUBSET ToolFiles, folders \in SUBSET ATool!FolderIds :
        /\ seen(files, folders) \in WalkStates
        /\ seen(files, folders).pending = Tail(s) \o ATool!SetToSeq(folders)
        /\ seen(files, folders).found = c.found \cup (files \X {h})
        /\ seen(files, folders).failed = c.failed
  <2> SUFFICES ASSUME NEW files \in SUBSET ToolFiles, NEW folders \in SUBSET ATool!FolderIds
               PROVE  /\ seen(files, folders) \in WalkStates
                      /\ seen(files, folders).pending = Tail(s) \o ATool!SetToSeq(folders)
                      /\ seen(files, folders).found = c.found \cup (files \X {h})
                      /\ seen(files, folders).failed = c.failed
    OBVIOUS
  <2> DEFINE p == Tail(s) \o ATool!SetToSeq(folders)
             f == c.found \cup (files \X {h})
             v == c.visited + 1
             x == [c EXCEPT !.pending = p, !.visited = v, !.found = f]
  <2>1. ATool!SetToSeq(folders) \in Seq(ATool!FolderIds)
    <3>1. ATool!SetToSeq(folders) \in Seq(folders)
      BY FindsAreFinite, ListedOnce
    <3> HIDE DEF s
    <3> QED
      BY <3>1, SeqMonotonic
  <2>2. p \in Seq(ATool!FolderIds)
    <3> HIDE DEF s
    <3> QED
      BY <1>2, <2>1, ConcatProperties
  <2>3. f \in SUBSET FoundPairs
    BY <1>2, <1>3 DEF WalkStates, FoundPairs
  <2>4. v \in 0..MaxVisited
    BY <1>3
  <2>5. seen(files, folders) = x
    BY <1>3 DEF WalkStates
  <2> HIDE DEF p, f, v
  <2>6. x \in WalkStates /\ x.pending = p /\ x.found = f /\ x.failed = c.failed
    BY <1>3, <2>2, <2>3, <2>4 DEF WalkStates
  <2> HIDE DEF x, seen
  <2> QED
    BY <2>5, <2>6 DEF p, f
<1>7. CASE c' = passed
  <2> DEFINE p == Tail(s)
             v == c.visited + 1
             on == TRUE
  <2>1. p \in Seq(ATool!FolderIds) /\ v \in 0..MaxVisited /\ on \in BOOLEAN /\ on
    BY <1>2, <1>3
  <2>2. c' = [c EXCEPT !.pending = p, !.visited = v, !.failed = on]
    BY <1>7
  <2> HIDE DEF p, v, on
  <2>3. c' \in WalkStates /\ c'.failed = on
    BY <1>3, <2>1, <2>2 DEF WalkStates
  <2> QED
    BY <1>1, <2>1, <2>3 DEF Searched
<1>8. CASE Cardinality(c.found) + Cardinality(In) < SearchLimit /\ c' = seen(In, Level)
  <2> HIDE DEF Level, seen
  <2>1. c' \in WalkStates /\ c'.pending = Tail(s) \o ATool!SetToSeq(Level) /\ c'.found = c.found \cup (In \X {h}) /\ c'.failed = c.failed
    <3>1. In \in SUBSET ToolFiles
      OBVIOUS
    <3> HIDE DEF In
    <3> QED
      BY <1>4, <1>6, <1>8, <3>1
  <2>2. ASSUME NEW V \in SUBSET ATool!FolderIds, LookedAt(V, a, c) PROVE LookedAt(V \cup {h}, a, c')
    BY <1>1, <1>3, <1>4, <2>1, <2>2, LooksOn
  <2>3. c.failed \/ \E V \in SUBSET ATool!FolderIds : LookedAt(V, a, c)
    BY <1>1, <1>5 DEF Searched
  <2>4. c'.failed \/ \E V \in SUBSET ATool!FolderIds : LookedAt(V, a, c')
    <3> HIDE DEF h
    <3> QED
      BY <1>2, <2>1, <2>2, <2>3
  <2> QED
    BY <1>1, <2>1, <2>4 DEF Searched
<1>9. CASE \E files \in SUBSET In, folders \in SUBSET Level :
             Cardinality(c.found) + Cardinality(files) = SearchLimit /\ c' = seen(files, folders)
  <2> HIDE DEF Level, seen
  <2>1. PICK files \in SUBSET In, folders \in SUBSET Level :
          Cardinality(c.found) + Cardinality(files) = SearchLimit /\ c' = seen(files, folders)
    BY <1>9
  <2>2. files \in SUBSET ToolFiles /\ folders \in SUBSET ATool!FolderIds
    BY <1>4
  <2>3. c' \in WalkStates /\ c'.found = c.found \cup (files \X {h}) /\ c'.failed = c.failed
    BY <1>6, <2>1, <2>2
  <2>4. ASSUME NEW V \in SUBSET ATool!FolderIds, LookedAt(V, a, c) PROVE Cardinality(c'.found) = SearchLimit
    <3>1. h \notin V
      <4>1. V \cap Held(s) = {}
        BY <2>4 DEF LookedAt
      <4>2. h \in Held(s)
        <5> HIDE DEF s
        <5>1. h = s[1] /\ 1 \in 1..Len(s)
          BY <1>1, <1>2, HeadTailProperties, LenProperties, EmptySeq
        <5> QED
          BY <5>1 DEF Held
      <4> QED
        BY <4>1, <4>2
    <3> HIDE DEF h
    <3>2. Cardinality(c.found \cup (files \X {h})) = Cardinality(c.found) + Cardinality(files)
      BY <1>2, <1>3, <2>2, <2>4, <3>1, FillsUp
    <3> QED
      BY <2>1, <2>3, <3>2
  <2>5. c.failed \/ \E V \in SUBSET ATool!FolderIds : LookedAt(V, a, c)
    BY <1>1, <1>5 DEF Searched
  <2>6. c'.failed \/ Cardinality(c'.found) = SearchLimit
    <3> HIDE DEF h, s
    <3>1. CASE c.failed
      BY <2>3, <3>1
    <3>2. CASE \E V \in SUBSET ATool!FolderIds : LookedAt(V, a, c)
      BY <2>4, <3>2
    <3> QED
      BY <2>5, <3>1, <3>2
  <2>7. ~(SearchLimit < SearchLimit)
    BY ToolNumbers
  <2> QED
    BY <1>1, <2>3, <2>6, <2>7 DEF Searched
<1> QED
  BY <1>1, <1>7, <1>8, <1>9

-----------------------------------------------------------------------------
\* A search starts with the root to look at.
LEMMA SearchBegun ==
  ASSUME NEW disk, NEW walk, walk.pending = << 0 >>, walk.found = {}
  PROVE  Searched(disk, walk)
<1> DEFINE s == << 0 >>
<1>1. Held(s) = {0} /\ Distinct(s)
  BY DEF Held, Distinct
<1> HIDE DEF s
<1>2. LookedAt({}, disk, walk)
  BY <1>1 DEF LookedAt, s
<1> QED
  BY <1>2 DEF Searched

\* A file that is moved counts as moved, wherever it was.
LEMMA MovedCounts ==
  ASSUME NEW disk, NEW next, NEW walk, Searched(disk, walk), next.parent = disk.parent,
         \A f \in ToolFiles : f \notin next.moved => f \notin disk.moved /\ next.place[f] = disk.place[f]
  PROVE  Searched(next, walk)
<1>1. ASSUME NEW V, LookedAt(V, disk, walk) PROVE LookedAt(V, next, walk)
  BY <1>1 DEF LookedAt
<1> QED
  BY <1>1 DEF Searched

AfterMove(disk, f, to) == [disk EXCEPT !.place[f] = to, !.moved = @ \cup {f}]
LEMMA DiskMoves ==
  ASSUME NEW disk \in DiskStates, NEW f \in ToolFiles, NEW to \in ATool!FolderIds \cup {ATool!Gone}
  PROVE  /\ AfterMove(disk, f, to) \in DiskStates /\ AfterMove(disk, f, to).parent = disk.parent
         /\ AfterMove(disk, f, to).control = disk.control
         /\ \A g \in ToolFiles : g \notin AfterMove(disk, f, to).moved =>
              g \notin disk.moved /\ AfterMove(disk, f, to).place[g] = disk.place[g]
<1> DEFINE next == AfterMove(disk, f, to)
           place == [disk.place EXCEPT ![f] = to]
           moved == disk.moved \cup {f}
<1>1. next = [disk EXCEPT !.place = place, !.moved = moved]
  BY DEF DiskStates, AfterMove
<1>2. place \in [ToolFiles -> ATool!FolderIds \cup {ATool!Gone}] /\ \A g \in ToolFiles : g # f => place[g] = disk.place[g]
  BY DEF DiskStates
<1>3. moved \in SUBSET ToolFiles /\ f \in moved /\ \A g : g \notin moved => g \notin disk.moved
  BY DEF DiskStates
<1> HIDE DEF next, place, moved
<1>4. /\ next \in DiskStates /\ next.parent = disk.parent /\ next.control = disk.control
      /\ next.place = place /\ next.moved = moved
  BY <1>1, <1>2, <1>3 DEF DiskStates
<1>5. \A g \in ToolFiles : g \notin next.moved => g \notin disk.moved /\ next.place[g] = disk.place[g]
  BY <1>2, <1>3, <1>4
<1> QED
  BY <1>4, <1>5 DEF next

LEMMA NothingMoved ==
  ASSUME NEW disk \in DiskStates
  PROVE  /\ [disk EXCEPT !.moved = {}] \in DiskStates /\ [disk EXCEPT !.moved = {}].parent = disk.parent
         /\ [disk EXCEPT !.moved = {}].control = disk.control
<1> DEFINE none == {}
<1>1. none \in SUBSET ToolFiles
  OBVIOUS
<1> HIDE DEF none
<1>2. [disk EXCEPT !.moved = none] \in DiskStates /\ [disk EXCEPT !.moved = none].parent = disk.parent
      /\ [disk EXCEPT !.moved = none].control = disk.control
  BY <1>1 DEF DiskStates
<1> QED
  BY <1>2 DEF none

LEMMA EmptyWalk ==
  /\ ATool!NoWalk \in WalkStates
  /\ [ATool!NoWalk EXCEPT !.pending = << 0 >>] \in WalkStates
  /\ [ATool!NoWalk EXCEPT !.pending = << 0 >>].pending = << 0 >> /\ [ATool!NoWalk EXCEPT !.pending = << 0 >>].found = {}
<1> DEFINE empty == <<>>
           root == << 0 >>
           off == FALSE
           none == {}
           zero == 0
           W == ATool!NoWalk
<1>1. /\ empty \in Seq(ATool!FolderIds) /\ root \in Seq(ATool!FolderIds)
      /\ off \in BOOLEAN /\ none \in SUBSET FoundPairs /\ zero \in 0..MaxVisited
  <2>1. 0 \in ATool!FolderIds
    BY ToolNumbers
  <2> QED
    BY <2>1, EmptySeq, ToolNumbers
<1>2. W = [pending |-> empty, visited |-> zero, found |-> none, failed |-> off]
  BY DEF ATool!NoWalk
<1> HIDE DEF empty, root, off, none, zero, W
<1>3. W \in WalkStates /\ [W EXCEPT !.pending = root] \in WalkStates
      /\ [W EXCEPT !.pending = root].pending = root /\ [W EXCEPT !.pending = root].found = none
  BY <1>1, <1>2 DEF WalkStates
<1> QED
  BY <1>3 DEF W, root, none

\* The next phase of a call.
LEMMA PhaseMoves ==
  ASSUME b \in ToolStates, NEW phase \in {"asking", "vault", "walking", "done"},
         NEW told \in {"nothing", "blocked", "failed", "done", "truncated"}, ATool!Phase(phase, told)
  PROVE  /\ b' \in ToolStates /\ b'.phase = phase /\ b'.told = told /\ b'.name = b.name /\ b'.control = b.control
BY DEF ATool!Phase, ToolStates

LEMMA ToolStep == ASSUME ToolInv, [ATool!ToolsNext]_<<a, b, c>> PROVE ToolInv'
<1>0. /\ a \in DiskStates /\ GrowsDown(a.parent) /\ a.control
      /\ b \in ToolStates /\ c \in WalkStates
  BY DEF ToolInv
<1>1. CASE UNCHANGED <<a, b, c>>
  BY <1>1 DEF ToolInv
<1>2. ASSUME NEW name \in ATool!ToolNames, NEW control \in BOOLEAN, ATool!CallTool(name, control) PROVE ToolInv'
  <2> DEFINE blocked == ATool!Blocked(name, control)
             phase == IF blocked THEN "done" ELSE IF name \in ATool!AsksFirst THEN "asking" ELSE "vault"
             told == IF blocked THEN "blocked" ELSE "nothing"
  <2>1. /\ name # "search" /\ a' = [a EXCEPT !.moved = {}] /\ c' = ATool!NoWalk
        /\ b' = [b EXCEPT !.name = name, !.control = control, !.phase = phase, !.told = told]
    BY <1>2 DEF ATool!CallTool
  <2>2. phase \in {"asking", "vault", "done"} /\ told \in {"nothing", "blocked"} /\ (phase # "done" => ~blocked)
    OBVIOUS
  <2> HIDE DEF phase, told
  <2>3. b' \in ToolStates /\ b'.name = name /\ b'.control = control /\ b'.phase = phase /\ b'.told = told
    BY <1>0, <2>1, <2>2 DEF ToolStates
  <2>4. a' \in DiskStates /\ a'.parent = a.parent /\ a'.control = a.control
    BY <1>0, <2>1, NothingMoved
  <2>5. c' \in WalkStates
    BY <2>1, EmptyWalk
  <2> QED
    BY <1>0, <2>1, <2>2, <2>3, <2>4, <2>5 DEF ToolInv
<1>3. ASSUME NEW approved \in BOOLEAN, ATool!CardAnswered(approved) PROVE ToolInv'
  <2>1. /\ b.phase = "asking" /\ UNCHANGED <<a, c>>
        /\ ATool!Phase("vault", "nothing") \/ ATool!Phase("done", "blocked")
    BY <1>3 DEF ATool!CardAnswered
  <2>2. b' \in ToolStates /\ b'.phase \in {"vault", "done"} /\ b'.name = b.name /\ b'.control = b.control
    BY <1>0, <2>1, PhaseMoves
  <2> QED
    BY <1>0, <2>1, <2>2 DEF ToolInv
<1>4. ASSUME NEW f \in ToolFiles, NEW to \in ATool!FolderIds \cup {ATool!Gone}, ATool!UserMoves(f, to) PROVE ToolInv'
  <2>1. a' = AfterMove(a, f, to) /\ UNCHANGED <<b, c>>
    BY <1>4 DEF ATool!UserMoves, AfterMove
  <2>2. /\ a' \in DiskStates /\ a'.parent = a.parent /\ a'.control = a.control
        /\ \A g \in ToolFiles : g \notin a'.moved => g \notin a.moved /\ a'.place[g] = a.place[g]
    BY <1>0, <2>1, DiskMoves, ZenonT(60)
  <2>3. Searched(a, c) => Searched(a', c)
    BY <2>2, MovedCounts
  <2> QED
    BY <1>0, <2>1, <2>2, <2>3 DEF ToolInv
<1>5. ASSUME ATool!VaultDoes PROVE ToolInv'
  <2>1. /\ b.phase = "vault" /\ UNCHANGED c
        /\ b.name # "search" /\ ~ATool!Blocked(b.name, b.control)
    BY <1>5 DEF ATool!VaultDoes, ToolInv
  <2>2. b' \in ToolStates /\ b'.phase = "done" /\ b'.name = b.name
    BY <1>0, <1>5, PhaseMoves DEF ATool!VaultDoes
  <2>3. a' \in DiskStates /\ a'.parent = a.parent /\ a'.control = a.control
    <3>1. CASE UNCHANGED a
      BY <1>0, <3>1
    <3>2. ASSUME NEW f \in ToolFiles, a' = AfterMove(a, f, ATool!Gone)
          PROVE  a' \in DiskStates /\ a'.parent = a.parent /\ a'.control = a.control
      BY <1>0, <3>2, DiskMoves
    <3>3. CASE b.name \in {"write", "compress"} /\ a' = [a EXCEPT !.control = @ /\ ~b.control]
      <4>1. ~b.control
        BY <2>1, <3>3, <1>0 DEF ATool!Blocked, ATool!GuardsPath, ToolStates
      <4>2. a' = a
        BY <1>0, <3>3, <4>1 DEF DiskStates
      <4> QED
        BY <1>0, <4>2
    <3> QED
      BY <1>5, <3>1, <3>2, <3>3 DEF ATool!VaultDoes, AfterMove
  <2> QED
    BY <1>0, <2>1, <2>2, <2>3 DEF ToolInv
<1>6. ASSUME ATool!BeginSearch PROVE ToolInv'
  <2> DEFINE off == FALSE
  <2>1. /\ a' = [a EXCEPT !.moved = {}] /\ c' = [ATool!NoWalk EXCEPT !.pending = << 0 >>]
        /\ b' = [b EXCEPT !.name = "search", !.control = off, !.phase = "walking", !.told = "nothing"]
    BY <1>6 DEF ATool!BeginSearch
  <2>2. off \in BOOLEAN /\ "search" \in ATool!ToolNames
    BY DEF ATool!ToolNames
  <2> HIDE DEF off
  <2>3. b' \in ToolStates /\ b'.name = "search" /\ b'.phase = "walking"
    BY <1>0, <2>1, <2>2 DEF ToolStates
  <2>4. a' \in DiskStates /\ a'.parent = a.parent /\ a'.control = a.control
    BY <1>0, <2>1, NothingMoved
  <2>5. c' \in WalkStates /\ c'.pending = << 0 >> /\ c'.found = {}
    BY <2>1, EmptyWalk
  <2>6. Searched(a', c')
    BY <2>5, SearchBegun
  <2> QED
    BY <1>0, <2>3, <2>4, <2>5, <2>6 DEF ToolInv
<1>7. ASSUME ATool!ListFolder PROVE ToolInv'
  <2>1. b.phase = "walking" /\ b.name = "search"
    BY <1>7 DEF ATool!ListFolder, ToolInv
  <2>2. c' \in WalkStates /\ Searched(a, c') /\ UNCHANGED <<a, b>>
    BY <1>7, FolderListed
  <2> QED
    BY <1>0, <2>1, <2>2 DEF ToolInv
<1>8. ASSUME ATool!EndSearch PROVE ToolInv'
  <2>1. /\ b.phase = "walking" /\ UNCHANGED <<a, c>>
        /\ ATool!Phase("done", IF c.pending = <<>> THEN "done" ELSE "truncated")
    BY <1>8 DEF ATool!EndSearch
  <2>2. /\ b' \in ToolStates /\ b'.phase = "done" /\ b'.name = b.name
        /\ b'.told = IF c.pending = <<>> THEN "done" ELSE "truncated"
    BY <1>0, <2>1, PhaseMoves
  <2>3. Searched(a, c) /\ (b'.told = "done" => c.pending = <<>>)
    BY <2>1, <2>2 DEF ToolInv
  <2> QED
    BY <1>0, <2>1, <2>2, <2>3 DEF ToolInv
<1> QED
  BY ONLY <1>1, <1>2, <1>3, <1>4, <1>5, <1>6, <1>7, <1>8, [ATool!ToolsNext]_<<a, b, c>> DEF ATool!ToolsNext

-----------------------------------------------------------------------------
(* The conversations of an agent: as long as nothing failed, the browser   *)
(* has what the page has, and the workspace has, or is about to get, what  *)
(* the page takes for written.                                             *)

TalkNone == ATalk!NoSnapshot
TalkPages ==
  [history : ATalk!Histories, last : ATalk!Histories \cup {TalkNone}, timer : BOOLEAN, restore : {"no", "reading", "read", "done"},
   local : ATalk!Histories, read : ATalk!Histories \cup {TalkNone}, root : BOOLEAN, shown : {0} \cup ATalk!Talks,
   talk : BOOLEAN, running : BOOLEAN, settled : BOOLEAN]
KeptTalkStates == [browser : ATalk!Histories, root : BOOLEAN, file : ATalk!Histories, writes : Seq(ATalk!Histories)]
TalkNumbers == [talks : 0..MaxTalks, starts : 0..MaxStarts]

InFile(k) == IF k.writes = <<>> THEN k.file ELSE k.writes[Len(k.writes)]
TalkGood(p, k) ==
  /\ p.settled => p.history = k.browser /\ p.last \in {TalkNone, InFile(k)}
  /\ p.settled /\ p.restore = "read" => k.writes = <<>> /\ p.read \in {TalkNone, k.file}
  /\ ~p.timer => p.history = {} \/ p.history = p.last

TalkInv == a \in TalkPages /\ b \in KeptTalkStates /\ c \in TalkNumbers /\ TalkGood(a, b)

\* A history is never what stands for none; the shortest ones are histories.
LEMMA HistoriesOK ==
  /\ TalkNone \notin ATalk!Histories /\ {} \in ATalk!Histories /\ {1} \in ATalk!Histories
  /\ ATalk!Talks = 1..MaxTalks /\ MaxTalks \in Nat \ {0} /\ KeptTalks \in Nat \ {0} /\ MaxStarts \in Nat
  /\ \A S : ATalk!Cardinality(S) = Cardinality(S)
<1>1. MaxTalks \in Nat \ {0} /\ KeptTalks \in Nat \ {0} /\ MaxStarts \in Nat
  BY Bounds
<1>2. \A S : ATalk!Cardinality(S) = Cardinality(S)
  BY DEF ATalk!Cardinality, Cardinality
<1>3. Cardinality({}) = 0 /\ Cardinality({1}) = 1
  BY FS_EmptySet, FS_Singleton
<1>4. ATalk!Talks = 1..MaxTalks
  BY DEF ATalk!Talks
<1>5. \A h \in SUBSET ATalk!Talks : ATalk!Cardinality(h) <= KeptTalks => h \in ATalk!Histories
  BY DEF ATalk!Histories
<1>6. {} \in ATalk!Histories /\ {1} \in ATalk!Histories
  <2>1. ATalk!Cardinality({}) <= KeptTalks /\ ATalk!Cardinality({1}) <= KeptTalks
    BY <1>1, <1>2, <1>3
  <2>2. {} \in SUBSET ATalk!Talks /\ {1} \in SUBSET ATalk!Talks
    BY <1>1, <1>4
  <2> QED
    BY <1>5, <2>1, <2>2
<1>7. TalkNone \notin ATalk!Histories
  BY <1>4 DEF TalkNone, ATalk!NoSnapshot, ATalk!Histories
<1> QED
  BY <1>1, <1>2, <1>4, <1>6, <1>7

LEMMA TalkHolds == ASSUME TalkInv PROVE ATalk!ConversationsTypeOK /\ ATalk!KeptAsShown
<1>1. ATalk!ConversationsTypeOK
  BY DEF TalkInv, TalkPages, KeptTalkStates, TalkNumbers, TalkNone, ATalk!ConversationsTypeOK
<1>2. ATalk!KeptAsShown
  <2> SUFFICES ASSUME a.settled, ~a.timer, b.writes = <<>> PROVE a.history = b.browser /\ a.history \in {b.file, {}}
    BY DEF ATalk!KeptAsShown
  <2>1. a.history \in ATalk!Histories
    BY DEF TalkInv, TalkPages
  <2> QED
    BY <2>1, HistoriesOK DEF TalkInv, TalkGood, InFile
<1> QED
  BY <1>1, <1>2

\* The last ones of a set of conversations are a history.
LEMMA LastOnesOK == ASSUME NEW H \in SUBSET ATalk!Talks PROVE ATalk!LastOnes(H) \in ATalk!Histories
<1> DEFINE L == ATalk!LastOnes(H)
           After(t) == {u \in H : u > t}
<1>1. L = {t \in H : Cardinality(After(t)) < KeptTalks}
  BY HistoriesOK DEF ATalk!LastOnes
<1>2. H \subseteq Nat /\ IsFiniteSet(H)
  <2>1. IsFiniteSet(1..MaxTalks)
    BY FS_Interval, HistoriesOK
  <2>2. H \in SUBSET (1..MaxTalks) /\ H \subseteq Nat
    BY HistoriesOK
  <2> QED
    BY ONLY <2>1, <2>2, FS_Subset
<1>3. L \subseteq H /\ L \in SUBSET Nat /\ IsFiniteSet(L)
  <2>1. L \subseteq H
    BY <1>1
  <2> HIDE DEF L
  <2> QED
    BY <1>2, <2>1, FS_Subset
<1> HIDE DEF L
<1>4. Cardinality(L) <= KeptTalks
  <2>1. CASE L = {}
    BY <2>1, FS_EmptySet, HistoriesOK
  <2>2. CASE L # {}
    <3>1. PICK m \in L : \A k \in L : ~(k < m)
      BY <1>3, <2>2, LeastNumber
    <3>2. L \ {m} \subseteq After(m) /\ Cardinality(After(m)) < KeptTalks
      BY <1>1, <1>2, <1>3, <3>1
    <3>3. IsFiniteSet(After(m)) /\ Cardinality(After(m)) \in Nat
      <4>1. After(m) \subseteq H
        OBVIOUS
      <4> HIDE DEF After
      <4> QED
        BY <1>2, <4>1, FS_Subset, FS_CardinalityType
    <3> HIDE DEF After
    <3>4. Cardinality(L \ {m}) <= Cardinality(After(m))
      BY <3>2, <3>3, FS_Subset
    <3>5. Cardinality(L \ {m}) = Cardinality(L) - 1 /\ Cardinality(L) \in Nat
      BY <1>3, <3>1, FS_RemoveElement, FS_CardinalityType
    <3> QED
      BY <3>2, <3>3, <3>4, <3>5, HistoriesOK
  <2> QED
    BY <2>1, <2>2
<1> QED
  BY <1>3, <1>4, HistoriesOK DEF ATalk!Histories, L

\* A page that has just been loaded.
LEMMA FreshTalkOK ==
  ASSUME NEW h \in ATalk!Histories
  PROVE  /\ ATalk!Fresh(h) \in TalkPages /\ ATalk!Fresh(h).history = h /\ ATalk!Fresh(h).last = TalkNone
         /\ ATalk!Fresh(h).timer = TRUE /\ ATalk!Fresh(h).restore = "no"
<1> DEFINE none == TalkNone
           off == FALSE
           on == TRUE
           empty == {}
           zero == 0
           p == ATalk!Fresh(h)
<1>1. /\ none \in ATalk!Histories \cup {TalkNone} /\ off \in BOOLEAN /\ on \in BOOLEAN /\ empty \in ATalk!Histories
      /\ zero \in {0} \cup ATalk!Talks
  BY HistoriesOK
<1>2. p = [history |-> h, last |-> none, timer |-> on, restore |-> "no", local |-> empty, read |-> none, root |-> off,
           shown |-> zero, talk |-> off, running |-> off, settled |-> on]
  BY DEF ATalk!Fresh, TalkNone
<1> HIDE DEF none, off, on, empty, zero, p
<1>3. p \in TalkPages /\ p.history = h /\ p.last = none /\ p.timer = on /\ p.restore = "no"
  BY <1>1, <1>2 DEF TalkPages
<1>4. p \in TalkPages /\ p.history = h /\ p.last = TalkNone
  BY <1>3 DEF none
<1>5. p.timer = TRUE
  BY <1>3 DEF on
<1>6. p.restore = "no"
  BY <1>3
<1> QED
  BY <1>4, <1>5, <1>6 DEF p

LEMMA TalkStarts == ASSUME ATalk!ConversationsInit PROVE TalkInv
<1>1. b \in KeptTalkStates /\ b.browser \in ATalk!Histories
  <2>1. <<>> \in Seq(ATalk!Histories)
    BY EmptySeq
  <2>2. /\ b.browser \in {{}, {1}} /\ b.root \in BOOLEAN /\ b.file \in {{}, {1}} /\ b.writes = <<>>
        /\ b = [browser |-> b.browser, root |-> b.root, file |-> b.file, writes |-> b.writes]
    BY DEF ATalk!ConversationsInit
  <2>3. b.browser \in ATalk!Histories /\ b.file \in ATalk!Histories /\ b.writes \in Seq(ATalk!Histories)
    BY <2>1, <2>2, HistoriesOK
  <2> QED
    BY <2>2, <2>3 DEF KeptTalkStates
<1>2. a = ATalk!Fresh(b.browser)
  BY DEF ATalk!ConversationsInit
<1>3. a \in TalkPages /\ a.history = b.browser /\ a.last = TalkNone /\ a.timer = TRUE /\ a.restore = "no"
  <2>1. b.browser \in ATalk!Histories
    BY <1>1
  <2> QED
    BY ONLY <1>2, <2>1, FreshTalkOK
<1>4. c \in TalkNumbers
  <2>1. c = [talks |-> 1, starts |-> 0]
    BY DEF ATalk!ConversationsInit
  <2> QED
    BY <2>1, HistoriesOK DEF TalkNumbers
<1> QED
  BY <1>1, <1>3, <1>4 DEF TalkInv, TalkGood

-----------------------------------------------------------------------------
\* A step that touches neither the history nor where it is kept.
LEMMA TalkStands ==
  ASSUME TalkInv, a' \in TalkPages, UNCHANGED b, c' \in TalkNumbers, a'.history = a.history, a'.last = a.last, a'.timer = a.timer,
         a'.settled => a.settled, a'.restore = "read" => a.restore = "read" /\ a'.read = a.read
  PROVE  TalkInv'
BY DEF TalkInv, TalkGood, InFile

\* The history changes, and is copied or not.
LEMMA ChangedKeeps ==
  ASSUME b \in KeptTalkStates, NEW w \in TalkPages, NEW h \in ATalk!Histories, w.restore # "read",
         w.settled => w.last \in {TalkNone, InFile(b)}, ATalk!Changed(w, h)
  PROVE  a' \in TalkPages /\ b' \in KeptTalkStates /\ TalkGood(a', b')
<1>1. PICK stored \in BOOLEAN :
        /\ a' = [w EXCEPT !.history = h, !.timer = TRUE, !.settled = @ /\ stored]
        /\ b' = [b EXCEPT !.browser = IF stored THEN h ELSE @]
  BY DEF ATalk!Changed
<1> DEFINE on == TRUE
           settled == w.settled /\ stored
           browser == IF stored THEN h ELSE b.browser
<1>2. on \in BOOLEAN /\ settled \in BOOLEAN /\ browser \in ATalk!Histories /\ (settled => browser = h) /\ (settled => w.settled)
  BY DEF KeptTalkStates
<1>3. a' = [w EXCEPT !.history = h, !.timer = on, !.settled = settled] /\ b' = [b EXCEPT !.browser = browser]
  BY <1>1
<1>4. on = TRUE
  OBVIOUS
<1> HIDE DEF on, settled, browser
<1>5. /\ a' \in TalkPages /\ a'.history = h /\ a'.timer = on /\ a'.settled = settled /\ a'.restore = w.restore /\ a'.last = w.last
      /\ b' \in KeptTalkStates /\ b'.browser = browser /\ b'.file = b.file /\ b'.writes = b.writes
  BY <1>2, <1>3 DEF TalkPages, KeptTalkStates
<1>6. InFile(b') = InFile(b)
  BY <1>5 DEF InFile
<1> QED
  BY <1>2, <1>4, <1>5, <1>6 DEF TalkGood

LEMMA TimerKeeps == ASSUME TalkInv, ATalk!TimerFires PROVE TalkInv'
<1> DEFINE writes == a.history # {} /\ a.history # a.last
           off == FALSE
           last == IF writes THEN a.history ELSE a.last
           settled == a.settled /\ ~(writes /\ a.restore = "read")
           sent == IF writes THEN Append(b.writes, a.history) ELSE b.writes
<1>0. a \in TalkPages /\ b \in KeptTalkStates /\ c \in TalkNumbers /\ TalkGood(a, b)
  BY DEF TalkInv
<1>1. a.history \in ATalk!Histories /\ a.last \in ATalk!Histories \cup {TalkNone} /\ b.writes \in Seq(ATalk!Histories) /\ a.settled \in BOOLEAN
  BY <1>0 DEF TalkPages, KeptTalkStates
<1>2. /\ UNCHANGED c /\ a' = [a EXCEPT !.timer = off, !.last = last, !.settled = settled]
      /\ b' = IF writes THEN [b EXCEPT !.writes = sent] ELSE b
  BY DEF ATalk!TimerFires
<1>3. /\ off \in BOOLEAN /\ settled \in BOOLEAN /\ last \in ATalk!Histories \cup {TalkNone}
      /\ settled => a.settled /\ (a.restore = "read" => ~writes)
      /\ a.history = {} \/ a.history = last
      /\ writes => last = a.history
      /\ ~writes => last = a.last
  BY <1>1
<1>4. sent \in Seq(ATalk!Histories) /\ (writes => sent # <<>> /\ sent[Len(sent)] = a.history) /\ (~writes => sent = b.writes)
  BY <1>1, AppendProperties, EmptySeq
<1> HIDE DEF off, last, settled, sent, writes
<1>5. b' = [b EXCEPT !.writes = sent]
  BY <1>0, <1>2, <1>4 DEF KeptTalkStates
<1>6. /\ a' \in TalkPages /\ a'.last = last /\ a'.settled = settled /\ a'.history = a.history /\ a'.restore = a.restore /\ a'.read = a.read
      /\ b' \in KeptTalkStates /\ b'.writes = sent /\ b'.browser = b.browser /\ b'.file = b.file
  BY <1>0, <1>2, <1>3, <1>4, <1>5 DEF TalkPages, KeptTalkStates
<1>7. CASE writes
  <2>1. InFile(b') = a.history
    BY <1>4, <1>6, <1>7 DEF InFile
  <2> QED
    BY <1>0, <1>2, <1>3, <1>6, <1>7, <2>1 DEF TalkInv, TalkGood
<1>8. CASE ~writes
  <2>1. InFile(b') = InFile(b) /\ b'.writes = b.writes
    BY <1>4, <1>6, <1>8 DEF InFile
  <2> QED
    BY <1>0, <1>2, <1>3, <1>6, <1>8, <2>1 DEF TalkInv, TalkGood
<1> QED
  BY <1>7, <1>8

LEMMA WriteKeeps == ASSUME TalkInv, NEW ok \in BOOLEAN, ATalk!WriteDone(ok) PROVE TalkInv'
<1> DEFINE s == b.writes
           rest == Tail(s)
           file == IF ok THEN Head(s) ELSE b.file
           settled == a.settled /\ ok
<1>0. a \in TalkPages /\ b \in KeptTalkStates /\ c \in TalkNumbers /\ TalkGood(a, b)
  BY DEF TalkInv
<1>1. /\ s # <<>> /\ UNCHANGED c /\ b' = [b EXCEPT !.writes = rest, !.file = file] /\ a' = [a EXCEPT !.settled = settled]
  BY DEF ATalk!WriteDone
<1>2. s \in Seq(ATalk!Histories) /\ a.settled \in BOOLEAN /\ b.file \in ATalk!Histories
  BY <1>0 DEF TalkPages, KeptTalkStates
<1>3. rest \in Seq(ATalk!Histories) /\ Head(s) \in ATalk!Histories /\ Head(s) = s[1] /\ Len(s) \in Nat \ {0}
      /\ Len(rest) = Len(s) - 1 /\ \A i \in 1..Len(rest) : rest[i] = s[i + 1]
  <2> HIDE DEF s
  <2> QED
    BY <1>1, <1>2, HeadTailProperties, EmptySeq
<1>4. file \in ATalk!Histories /\ settled \in BOOLEAN /\ (settled => a.settled /\ file = s[1])
  BY <1>2, <1>3
<1> HIDE DEF rest, file, settled
<1>5. /\ a' \in TalkPages /\ a'.settled = settled /\ a'.history = a.history /\ a'.restore = a.restore /\ a'.last = a.last /\ a'.timer = a.timer
      /\ b' \in KeptTalkStates /\ b'.writes = rest /\ b'.browser = b.browser /\ b'.file = file
  BY <1>0, <1>1, <1>3, <1>4 DEF TalkPages, KeptTalkStates
<1>6. settled => InFile(b') = InFile(b)
  <2>1. InFile(b) = s[Len(s)]
    BY <1>1 DEF InFile
  <2>2. CASE rest = <<>>
    <3>1. Len(s) = 1
      BY <1>3, <2>2, EmptySeq
    <3> HIDE DEF s
    <3> QED
      BY <1>4, <1>5, <2>1, <2>2, <3>1 DEF InFile
  <2>3. CASE rest # <<>>
    <3>1. Len(rest) \in Nat \ {0}
      BY <1>3, <2>3, EmptySeq
    <3>2. rest[Len(rest)] = s[Len(s)]
      <4> HIDE DEF s
      <4> QED
        BY <1>3, <3>1
    <3> QED
      BY <1>5, <2>1, <2>3, <3>2 DEF InFile
  <2> QED
    BY <2>2, <2>3
<1>7. a.settled => a.restore # "read"
  BY <1>0, <1>1 DEF TalkGood
<1> QED
  BY <1>0, <1>1, <1>4, <1>5, <1>6, <1>7 DEF TalkInv, TalkGood

LEMMA RestoreKeeps ==
  ASSUME TalkInv, ATalk!RestoreBegins \/ ATalk!BootFails \/ \E ok \in BOOLEAN : ATalk!RestoreReads(ok) PROVE TalkInv'
<1>0. a \in TalkPages /\ b \in KeptTalkStates /\ c \in TalkNumbers /\ TalkGood(a, b)
  BY DEF TalkInv
<1>1. CASE ATalk!RestoreBegins
  <2>1. PICK known \in {FALSE, b.root} : a' = [a EXCEPT !.restore = "reading", !.local = b.browser, !.root = known]
    BY <1>1 DEF ATalk!RestoreBegins
  <2>2. known \in BOOLEAN /\ b.browser \in ATalk!Histories /\ UNCHANGED <<b, c>>
    BY <1>0, <1>1 DEF KeptTalkStates, ATalk!RestoreBegins
  <2> DEFINE local == b.browser
  <2> HIDE DEF local
  <2>3. a' = [a EXCEPT !.restore = "reading", !.local = local, !.root = known] /\ local \in ATalk!Histories
    BY <2>1, <2>2 DEF local
  <2>4. /\ a' \in TalkPages /\ a'.restore = "reading" /\ a'.history = a.history /\ a'.last = a.last /\ a'.timer = a.timer
        /\ a'.settled = a.settled
    BY <1>0, <2>2, <2>3 DEF TalkPages
  <2> QED
    BY <1>0, <2>2, <2>4, TalkStands
<1>2. CASE ATalk!BootFails
  <2>1. a' = [a EXCEPT !.restore = "done"] /\ UNCHANGED <<b, c>>
    BY <1>2 DEF ATalk!BootFails
  <2>2. /\ a' \in TalkPages /\ a'.restore = "done" /\ a'.history = a.history /\ a'.last = a.last /\ a'.timer = a.timer
        /\ a'.settled = a.settled
    BY <1>0, <2>1 DEF TalkPages
  <2> QED
    BY <1>0, <2>1, <2>2, TalkStands
<1>3. ASSUME NEW ok \in BOOLEAN, ATalk!RestoreReads(ok) PROVE TalkInv'
  <2> DEFINE read == IF ok /\ b.file # {} THEN b.file ELSE TalkNone
             settled == a.settled /\ b.writes = <<>>
  <2>1. a' = [a EXCEPT !.restore = "read", !.read = read, !.settled = settled] /\ UNCHANGED <<b, c>>
    BY <1>3 DEF ATalk!RestoreReads, TalkNone
  <2>2. read \in ATalk!Histories \cup {TalkNone} /\ settled \in BOOLEAN /\ (settled => a.settled /\ b.writes = <<>>)
        /\ read \in {TalkNone, b.file}
    BY <1>0 DEF KeptTalkStates
  <2> HIDE DEF read, settled
  <2>3. /\ a' \in TalkPages /\ a'.restore = "read" /\ a'.read = read /\ a'.settled = settled
        /\ a'.history = a.history /\ a'.last = a.last /\ a'.timer = a.timer
    BY <1>0, <2>1, <2>2 DEF TalkPages
  <2> QED
    BY <1>0, <2>1, <2>2, <2>3 DEF TalkInv, TalkGood, InFile
<1> QED
  BY <1>1, <1>2, <1>3

LEMMA RestoreEndKeeps == ASSUME TalkInv, ATalk!RestoreEnds PROVE TalkInv'
<1>0. a \in TalkPages /\ b \in KeptTalkStates /\ c \in TalkNumbers /\ TalkGood(a, b)
  BY DEF TalkInv
<1> DEFINE restored == IF a.read # TalkNone THEN a.read ELSE a.local
           empty == {}
           none == TalkNone
           done == [a EXCEPT !.restore = "done", !.local = empty, !.read = none]
           seeds == a.read
           w == [done EXCEPT !.last = seeds]
<1>1. /\ UNCHANGED c /\ a.restore = "read"
      /\ IF restored = {} THEN a' = done /\ UNCHANGED b ELSE ATalk!Changed(w, restored)
  BY DEF ATalk!RestoreEnds, ATalk!Seeds, TalkNone
<1>2. /\ a.read \in ATalk!Histories \cup {TalkNone} /\ a.local \in ATalk!Histories /\ restored \in ATalk!Histories
      /\ empty \in ATalk!Histories /\ none \in ATalk!Histories \cup {TalkNone} /\ seeds \in ATalk!Histories \cup {TalkNone}
  BY <1>0, HistoriesOK DEF TalkPages
<1>3. a.settled => seeds \in {TalkNone, InFile(b)}
  BY <1>0, <1>1 DEF TalkGood, InFile
<1> HIDE DEF restored, empty, none, seeds
<1>4. /\ done \in TalkPages /\ done.restore = "done" /\ done.history = a.history /\ done.last = a.last /\ done.timer = a.timer
      /\ done.settled = a.settled
  BY <1>0, <1>2 DEF TalkPages
<1> HIDE DEF done
<1>5. w \in TalkPages /\ w.last = seeds /\ w.restore = "done" /\ w.settled = done.settled
  BY <1>2, <1>4 DEF TalkPages
<1> HIDE DEF w
<1>6. CASE a' = done /\ UNCHANGED b
  BY <1>0, <1>1, <1>4, <1>6, TalkStands
<1>7. CASE ATalk!Changed(w, restored)
  <2>1. w.restore # "read" /\ (w.settled => w.last \in {TalkNone, InFile(b)})
    BY <1>3, <1>4, <1>5
  <2>2. a' \in TalkPages /\ b' \in KeptTalkStates /\ TalkGood(a', b')
    BY <1>0, <1>2, <1>5, <1>7, <2>1, ChangedKeeps
  <2> QED
    BY <1>0, <1>1, <2>2 DEF TalkInv
<1> QED
  BY <1>1, <1>6, <1>7

\* The page is loaded anew, or another workspace is chosen.
LEMMA StartKeeps == ASSUME TalkInv, ATalk!Crash \/ \E file \in {{}, {1}} : ATalk!PickRoot(file) PROVE TalkInv'
<1>0. a \in TalkPages /\ b \in KeptTalkStates /\ c \in TalkNumbers /\ TalkGood(a, b)
  BY DEF TalkInv
<1>1. c' \in TalkNumbers
  <2> DEFINE starts == c.starts + 1
  <2>1. c.starts < MaxStarts /\ c' = [c EXCEPT !.starts = starts]
    BY DEF ATalk!Crash, ATalk!PickRoot
  <2>2. starts \in 0..MaxStarts
    BY <1>0, <2>1, HistoriesOK DEF TalkNumbers
  <2> HIDE DEF starts
  <2> QED
    BY <1>0, <2>1, <2>2 DEF TalkNumbers
<1>2. CASE ATalk!Crash
  <2>1. PICK n \in 0..Len(b.writes) : b' = [b EXCEPT !.writes = <<>>, !.file = IF n = 0 THEN @ ELSE b.writes[n]]
    BY <1>2 DEF ATalk!Crash
  <2>2. a' = ATalk!Fresh(b.browser) /\ b.browser \in ATalk!Histories
    BY <1>0, <1>2 DEF ATalk!Crash, KeptTalkStates
  <2>3. a' \in TalkPages /\ a'.history = b.browser /\ a'.last = TalkNone /\ a'.timer = TRUE /\ a'.restore = "no"
    BY <2>2, FreshTalkOK
  <2> DEFINE empty == <<>>
             s == b.writes
             file == IF n = 0 THEN b.file ELSE s[n]
  <2>4. empty \in Seq(ATalk!Histories) /\ file \in ATalk!Histories
    <3>1. s \in Seq(ATalk!Histories) /\ b.file \in ATalk!Histories
      BY <1>0 DEF KeptTalkStates
    <3>2. n # 0 => n \in 1..Len(s)
      BY <3>1, LenProperties
    <3> HIDE DEF s
    <3> QED
      BY <3>1, <3>2, ElementOfSeq, EmptySeq
  <2>5. b' = [b EXCEPT !.writes = empty, !.file = file]
    BY <1>0, <2>1 DEF KeptTalkStates
  <2> HIDE DEF empty, file
  <2>6. b' \in KeptTalkStates /\ b'.browser = b.browser
    BY <1>0, <2>4, <2>5 DEF KeptTalkStates
  <2> QED
    BY <1>1, <2>3, <2>6 DEF TalkInv, TalkGood
<1>3. ASSUME NEW file \in {{}, {1}}, ATalk!PickRoot(file) PROVE TalkInv'
  <2> DEFINE on == TRUE
             off == FALSE
  <2>1. b' = [b EXCEPT !.file = file, !.root = on] /\ a' = [a EXCEPT !.root = on, !.settled = off]
    BY <1>3 DEF ATalk!PickRoot
  <2>2. on \in BOOLEAN /\ off \in BOOLEAN /\ file \in ATalk!Histories /\ ~off
    BY HistoriesOK
  <2> HIDE DEF on, off
  <2>3. /\ a' \in TalkPages /\ a'.settled = off /\ a'.history = a.history /\ a'.last = a.last /\ a'.timer = a.timer
        /\ b' \in KeptTalkStates
    BY <1>0, <2>1, <2>2 DEF TalkPages, KeptTalkStates
  <2> QED
    BY <1>0, <1>1, <2>2, <2>3 DEF TalkInv, TalkGood
<1> QED
  BY <1>2, <1>3

\* Turns and what is looked at.
LEMMA TurnKeeps ==
  ASSUME TalkInv,
         \/ ATalk!Submit \/ ATalk!TurnRuns \/ ATalk!TurnSpeaks \/ ATalk!SessionCloses \/ ATalk!EnterPanel
         \/ \E failed \in BOOLEAN : ATalk!TurnDone(failed)
         \/ \E t \in {0} \cup ATalk!Talks : ATalk!ViewHistory(t)
  PROVE  TalkInv'
<1>0. a \in TalkPages /\ c \in TalkNumbers /\ UNCHANGED <<b, c>>
  BY DEF TalkInv, ATalk!Submit, ATalk!TurnRuns, ATalk!TurnSpeaks, ATalk!SessionCloses, ATalk!EnterPanel, ATalk!TurnDone, ATalk!ViewHistory
<1>1. \E talk \in BOOLEAN, running \in BOOLEAN, t \in {0} \cup ATalk!Talks :
        \/ a' = [a EXCEPT !.talk = talk, !.running = running]
        \/ a' = [a EXCEPT !.running = running]
        \/ a' = [a EXCEPT !.talk = talk]
        \/ a' = [a EXCEPT !.shown = t]
  <2>1. a.talk \in BOOLEAN /\ a.history \subseteq ATalk!Talks /\ 0 \in {0} \cup ATalk!Talks
    BY <1>0 DEF TalkPages, ATalk!Histories
  <2>2. CASE ATalk!Submit \/ ATalk!TurnRuns
    BY <2>1, <2>2 DEF ATalk!Submit, ATalk!TurnRuns
  <2>3. CASE ATalk!TurnSpeaks \/ ATalk!SessionCloses
    BY <2>1, <2>3 DEF ATalk!TurnSpeaks, ATalk!SessionCloses
  <2>4. ASSUME NEW failed \in BOOLEAN, ATalk!TurnDone(failed)
        PROVE  \E talk \in BOOLEAN, running \in BOOLEAN : a' = [a EXCEPT !.talk = talk, !.running = running]
    <3>1. (a.talk \/ failed) \in BOOLEAN /\ a' = [a EXCEPT !.talk = a.talk \/ failed, !.running = FALSE]
      BY <1>0, <2>4 DEF ATalk!TurnDone, TalkPages
    <3> QED
      BY <3>1
  <2>5. CASE ATalk!EnterPanel
    BY <2>1, <2>5 DEF ATalk!EnterPanel
  <2>6. CASE \E t \in {0} \cup ATalk!Talks : ATalk!ViewHistory(t)
    BY <2>1, <2>6 DEF ATalk!ViewHistory
  <2> QED
    BY <2>1, <2>2, <2>3, <2>4, <2>5, <2>6
<1>2. /\ a' \in TalkPages /\ a'.history = a.history /\ a'.last = a.last /\ a'.timer = a.timer /\ a'.settled = a.settled
      /\ a'.restore = a.restore /\ a'.read = a.read
  BY <1>0, <1>1, ZenonT(60) DEF TalkPages
<1> QED
  BY <1>0, <1>2, TalkStands

LEMMA CreateKeeps == ASSUME TalkInv, NEW complete \in BOOLEAN, ATalk!CreateConversation(complete) PROVE TalkInv'
<1>0. a \in TalkPages /\ b \in KeptTalkStates /\ c \in TalkNumbers /\ TalkGood(a, b) /\ a.restore = "done"
  BY DEF TalkInv, ATalk!CreateConversation, ATalk!Drawn
<1> DEFINE zero == 0
           talk == a.talk /\ ~complete
           running == a.running /\ ~complete
           p == [a EXCEPT !.shown = zero]
           w == [p EXCEPT !.talk = talk, !.running = running]
           H == a.history \cup {c.talks + 1}
           h == ATalk!LastOnes(H)
           next == c.talks + 1
<1>1. zero \in {0} \cup ATalk!Talks /\ talk \in BOOLEAN /\ running \in BOOLEAN
  BY <1>0 DEF TalkPages
<1>2. /\ a.talk => c.talks < MaxTalks
      /\ IF a.talk THEN ATalk!Changed(w, h) /\ c' = [c EXCEPT !.talks = next] ELSE a' = w /\ UNCHANGED <<b, c>>
  <2>1. p.talk = a.talk /\ p.running = a.running
    BY <1>0 DEF TalkPages
  <2>2. w = ATalk!NewConversation([a EXCEPT !.shown = 0], complete)
    BY <1>0 DEF ATalk!NewConversation, TalkPages
  <2> HIDE DEF w, p
  <2> QED
    BY <2>2 DEF ATalk!CreateConversation
<1> HIDE DEF zero, talk, running
<1>3. p \in TalkPages /\ p.history = a.history /\ p.last = a.last /\ p.timer = a.timer /\ p.settled = a.settled /\ p.restore = a.restore
  BY <1>0, <1>1, ZenonT(60) DEF TalkPages
<1> HIDE DEF p
<1>4. w \in TalkPages /\ w.history = a.history /\ w.last = a.last /\ w.timer = a.timer /\ w.settled = a.settled /\ w.restore = a.restore
  BY <1>1, <1>3 DEF TalkPages
<1> HIDE DEF w
<1>5. CASE a.talk
  <2>1. next \in 0..MaxTalks /\ next \in ATalk!Talks
    BY <1>0, <1>2, <1>5, HistoriesOK DEF TalkNumbers
  <2>2. H \in SUBSET ATalk!Talks
    BY <1>0, <2>1 DEF TalkPages, ATalk!Histories
  <2> HIDE DEF H
  <2>3. h \in ATalk!Histories
    BY <2>2, LastOnesOK
  <2> HIDE DEF h, next
  <2>4. w.restore # "read" /\ (w.settled => w.last \in {TalkNone, InFile(b)})
    BY <1>0, <1>4 DEF TalkGood
  <2>5. a' \in TalkPages /\ b' \in KeptTalkStates /\ TalkGood(a', b')
    BY <1>0, <1>2, <1>4, <1>5, <2>3, <2>4, ChangedKeeps
  <2>6. c' \in TalkNumbers
    BY <1>0, <1>2, <1>5, <2>1 DEF TalkNumbers
  <2> QED
    BY <2>5, <2>6 DEF TalkInv
<1>6. CASE ~a.talk
  BY <1>0, <1>2, <1>4, <1>6, TalkStands
<1> QED
  BY <1>5, <1>6

LEMMA TalkStep == ASSUME TalkInv, [ATalk!ConversationsNext]_<<a, b, c>> PROVE TalkInv'
<1>1. CASE UNCHANGED <<a, b, c>>
  BY <1>1 DEF TalkInv, TalkGood, InFile
<1>2. ASSUME NEW ok \in BOOLEAN, ATalk!WriteDone(ok) PROVE TalkInv'
  BY <1>2, WriteKeeps
<1>3. ASSUME NEW ok \in BOOLEAN, ATalk!RestoreReads(ok) PROVE TalkInv'
  BY <1>3, RestoreKeeps
<1>4. ASSUME NEW ok \in BOOLEAN, ATalk!CreateConversation(ok) PROVE TalkInv'
  BY <1>4, CreateKeeps
<1>5. ASSUME NEW ok \in BOOLEAN, ATalk!TurnDone(ok) \/ ATalk!Abort(ok) PROVE TalkInv'
  BY <1>5, TurnKeeps DEF ATalk!Abort
<1>6. ASSUME NEW file \in {{}, {1}}, ATalk!PickRoot(file) PROVE TalkInv'
  BY <1>6, StartKeeps
<1>7. ASSUME NEW t \in {0} \cup ATalk!Talks, ATalk!ViewHistory(t) PROVE TalkInv'
  BY <1>7, TurnKeeps
<1>8. CASE ATalk!TimerFires
  BY <1>8, TimerKeeps
<1>9. CASE ATalk!RestoreBegins \/ ATalk!BootFails
  BY <1>9, RestoreKeeps
<1>10. CASE ATalk!RestoreEnds
  BY <1>10, RestoreEndKeeps
<1>11. CASE ATalk!Crash
  BY <1>11, StartKeeps
<1>12. CASE ATalk!Submit \/ ATalk!TurnRuns \/ ATalk!TurnSpeaks \/ ATalk!SessionCloses \/ ATalk!EnterPanel
  BY <1>12, TurnKeeps
<1> QED
  BY ONLY <1>1, <1>2, <1>3, <1>4, <1>5, <1>6, <1>7, <1>8, <1>9, <1>10, <1>11, <1>12, [ATalk!ConversationsNext]_<<a, b, c>>
     DEF ATalk!ConversationsNext

-----------------------------------------------------------------------------
(* The run of all pages.                                                   *)

\* What the run keeps: the invariant of the page it started.
ScreensInv ==
  /\ screen \in {"room", "control", "household", "inbox", "mobile", "butler", "window", "mailbox", "computer",
                "tree", "oldRoom", "assist", "tool", "talk", "editor", "rulebook", "desktop", "entry"}
  /\ screen = "room" => RoomInv
  /\ screen = "control" => ControlInv
  /\ screen = "household" => HouseInv
  /\ screen = "inbox" => InboxInv
  /\ screen = "mobile" => MobileInv
  /\ screen = "butler" => ButlerInv
  /\ screen = "window" => WindowInv
  /\ screen = "mailbox" => MailInv
  /\ screen = "computer" => ComputerInv
  /\ screen = "tree" => TreeInv
  /\ screen = "oldRoom" => LegacyInv
  /\ screen = "assist" => AssistInv
  /\ screen = "tool" => ToolInv
  /\ screen = "talk" => TalkInv
  /\ screen = "editor" => EditorInv
  /\ screen = "rulebook" => RulesInv
  /\ screen = "desktop" => DesktopInv
  /\ screen = "entry" => EntryInv

(* Each page keeps its inductive invariant however the person, the answers *)
(* and the pages' timers interleave.                                       *)
THEOREM ScreensHold == ScreensSpec => []ScreensInv
<1>1. ScreensInit => ScreensInv
  <2> SUFFICES ASSUME ScreensInit PROVE ScreensInv
    OBVIOUS
  <2>0. screen \in {"room", "control", "household", "inbox", "mobile", "butler", "window", "mailbox", "computer",
                    "tree", "oldRoom", "assist", "tool", "talk", "editor", "rulebook", "desktop", "entry"}
    BY DEF ScreensInit
  <2>1. screen = "room" => RoomInv
    BY StartsAlone, RoomStarts
  <2>2. screen = "control" => ControlInv
    BY StartsAlone, ControlStarts
  <2>3. screen = "household" => HouseInv
    BY StartsAlone, HouseStarts
  <2>4. screen = "inbox" => InboxInv
    BY StartsAlone, InboxStarts
  <2>5. screen = "mobile" => MobileInv
    BY StartsAlone, MobileStarts
  <2>6. screen = "butler" => ButlerInv
    BY StartsAlone, ButlerStarts
  <2>7. screen = "window" => WindowInv
    BY StartsAlone, WindowStarts
  <2>8. screen = "mailbox" => MailInv
    BY StartsAlone, MailStarts
  <2>9. screen = "computer" => ComputerInv
    BY StartsAlone, ComputerStarts
  <2>10. screen = "tree" => TreeInv
    BY StartsAlone, TreeStarts
  <2>11. screen = "oldRoom" => LegacyInv
    BY StartsAlone, LegacyStarts
  <2>12. screen = "assist" => AssistInv
    BY StartsAlone, AssistStarts
  <2>13. screen = "tool" => ToolInv
    BY StartsAlone, ToolStarts
  <2>14. screen = "talk" => TalkInv
    BY StartsAlone, TalkStarts
  <2>15. screen = "editor" => EditorInv
    BY StartsAlone, EditorStarts
  <2>16. screen = "rulebook" => RulesInv
    BY StartsAlone, RulesStarts
  <2>17. screen = "desktop" => DesktopInv
    BY StartsAlone, DesktopStarts
  <2>18. screen = "entry" => EntryInv
    BY StartsAlone, EntryStarts
  <2> QED
    BY ONLY <2>0, <2>1, <2>2, <2>3, <2>4, <2>5, <2>6, <2>7, <2>8, <2>9, <2>10, <2>11, <2>12, <2>13, <2>14, <2>15, <2>16, <2>17, <2>18 DEF ScreensInv
<1>2. ScreensInv /\ [ScreensNext]_screenVars => ScreensInv'
  <2> SUFFICES ASSUME ScreensInv, [ScreensNext]_screenVars PROVE ScreensInv'
    OBVIOUS
  <2>0. screen' = screen /\ screen \in {"room", "control", "household", "inbox", "mobile", "butler", "window", "mailbox", "computer",
                                        "tree", "oldRoom", "assist", "tool", "talk", "editor", "rulebook", "desktop", "entry"}
    BY MovesAlone DEF ScreensInv
  <2>1. screen' = "room" => RoomInv'
    <3> SUFFICES ASSUME screen = "room" PROVE RoomInv'
      BY <2>0
    <3>1. RoomInv
      BY DEF ScreensInv
    <3> QED
      BY <3>1, MovesAlone, RoomStep
  <2>2. screen' = "control" => ControlInv'
    <3> SUFFICES ASSUME screen = "control" PROVE ControlInv'
      BY <2>0
    <3>1. ControlInv
      BY DEF ScreensInv
    <3> QED
      BY <3>1, MovesAlone, ControlStep
  <2>3. screen' = "household" => HouseInv'
    <3> SUFFICES ASSUME screen = "household" PROVE HouseInv'
      BY <2>0
    <3>1. HouseInv
      BY DEF ScreensInv
    <3> QED
      BY <3>1, MovesAlone, HouseStep
  <2>4. screen' = "inbox" => InboxInv'
    <3> SUFFICES ASSUME screen = "inbox" PROVE InboxInv'
      BY <2>0
    <3>1. InboxInv
      BY DEF ScreensInv
    <3> QED
      BY <3>1, MovesAlone, InboxStep
  <2>5. screen' = "mobile" => MobileInv'
    <3> SUFFICES ASSUME screen = "mobile" PROVE MobileInv'
      BY <2>0
    <3>1. MobileInv
      BY DEF ScreensInv
    <3> QED
      BY <3>1, MovesAlone, MobileStep
  <2>6. screen' = "butler" => ButlerInv'
    <3> SUFFICES ASSUME screen = "butler" PROVE ButlerInv'
      BY <2>0
    <3>1. ButlerInv
      BY DEF ScreensInv
    <3> QED
      BY <3>1, MovesAlone, ButlerStep
  <2>7. screen' = "window" => WindowInv'
    <3> SUFFICES ASSUME screen = "window" PROVE WindowInv'
      BY <2>0
    <3>1. WindowInv
      BY DEF ScreensInv
    <3> QED
      BY <3>1, MovesAlone, WindowStep
  <2>8. screen' = "mailbox" => MailInv'
    <3> SUFFICES ASSUME screen = "mailbox" PROVE MailInv'
      BY <2>0
    <3>1. MailInv
      BY DEF ScreensInv
    <3> QED
      BY <3>1, MovesAlone, MailStep
  <2>9. screen' = "computer" => ComputerInv'
    <3> SUFFICES ASSUME screen = "computer" PROVE ComputerInv'
      BY <2>0
    <3>1. ComputerInv
      BY DEF ScreensInv
    <3> QED
      BY <3>1, MovesAlone, ComputerStep
  <2>10. screen' = "tree" => TreeInv'
    <3> SUFFICES ASSUME screen = "tree" PROVE TreeInv'
      BY <2>0
    <3>1. TreeInv
      BY DEF ScreensInv
    <3> QED
      BY <3>1, MovesAlone, TreeStep
  <2>11. screen' = "oldRoom" => LegacyInv'
    <3> SUFFICES ASSUME screen = "oldRoom" PROVE LegacyInv'
      BY <2>0
    <3>1. LegacyInv
      BY DEF ScreensInv
    <3> QED
      BY <3>1, MovesAlone, LegacyStep
  <2>12. screen' = "assist" => AssistInv'
    <3> SUFFICES ASSUME screen = "assist" PROVE AssistInv'
      BY <2>0
    <3>1. AssistInv
      BY DEF ScreensInv
    <3> QED
      BY <3>1, MovesAlone, AssistStep
  <2>13. screen' = "tool" => ToolInv'
    <3> SUFFICES ASSUME screen = "tool" PROVE ToolInv'
      BY <2>0
    <3>1. ToolInv
      BY DEF ScreensInv
    <3> QED
      BY <3>1, MovesAlone, ToolStep
  <2>14. screen' = "talk" => TalkInv'
    <3> SUFFICES ASSUME screen = "talk" PROVE TalkInv'
      BY <2>0
    <3>1. TalkInv
      BY DEF ScreensInv
    <3> QED
      BY <3>1, MovesAlone, TalkStep
  <2>15. screen' = "editor" => EditorInv'
    <3> SUFFICES ASSUME screen = "editor" PROVE EditorInv'
      BY <2>0
    <3>1. EditorInv
      BY DEF ScreensInv
    <3> QED
      BY <3>1, MovesAlone, EditorStep
  <2>16. screen' = "rulebook" => RulesInv'
    <3> SUFFICES ASSUME screen = "rulebook" PROVE RulesInv'
      BY <2>0
    <3>1. RulesInv
      BY DEF ScreensInv
    <3> QED
      BY <3>1, MovesAlone, RulesStep
  <2>17. screen' = "desktop" => DesktopInv'
    <3> SUFFICES ASSUME screen = "desktop" PROVE DesktopInv'
      BY <2>0
    <3>1. DesktopInv
      BY DEF ScreensInv
    <3> QED
      BY <3>1, MovesAlone, DesktopStep
  <2>18. screen' = "entry" => EntryInv'
    <3> SUFFICES ASSUME screen = "entry" PROVE EntryInv'
      BY <2>0
    <3>1. EntryInv
      BY DEF ScreensInv
    <3> QED
      BY <3>1, MovesAlone, EntryStep
  <2> QED
    BY ONLY <2>0, <2>1, <2>2, <2>3, <2>4, <2>5, <2>6, <2>7, <2>8, <2>9, <2>10, <2>11, <2>12, <2>13, <2>14, <2>15, <2>16, <2>17, <2>18 DEF ScreensInv
<1> QED
  BY <1>1, <1>2, PTL DEF ScreensSpec

(* What each page keeps and what is on its way to and from it stay of      *)
(* their types (modules Room to Entry, with the lines they model).         *)
THEOREM ScreensAreTyped == ScreensSpec => []ScreensTypeOK
<1>1. ScreensInv => ScreensTypeOK
  <2> SUFFICES ASSUME ScreensInv PROVE ScreensTypeOK
    OBVIOUS
  <2>1. CASE screen = "room"
    <3>1. ARoom!RoomTypeOK
      BY <2>1, RoomHolds DEF ScreensInv
    <3> QED
      BY ONLY <2>1, <3>1 DEF ScreensTypeOK
  <2>2. CASE screen = "control"
    <3>1. AControl!ControlTypeOK
      BY <2>2, ControlHolds DEF ScreensInv
    <3> QED
      BY ONLY <2>2, <3>1 DEF ScreensTypeOK
  <2>3. CASE screen = "household"
    <3>1. AHousehold!HouseholdTypeOK
      BY <2>3, HouseHolds DEF ScreensInv
    <3> QED
      BY ONLY <2>3, <3>1 DEF ScreensTypeOK
  <2>4. CASE screen = "inbox"
    <3>1. AnInbox!InboxTypeOK
      BY <2>4, InboxHolds DEF ScreensInv
    <3> QED
      BY ONLY <2>4, <3>1 DEF ScreensTypeOK
  <2>5. CASE screen = "mobile"
    <3>1. AMobile!MobileTypeOK
      BY <2>5, MobileHolds DEF ScreensInv
    <3> QED
      BY ONLY <2>5, <3>1 DEF ScreensTypeOK
  <2>6. CASE screen = "butler"
    <3>1. AButler!ButlerTypeOK
      BY <2>6, ButlerHolds DEF ScreensInv
    <3> QED
      BY ONLY <2>6, <3>1 DEF ScreensTypeOK
  <2>7. CASE screen = "window"
    <3>1. AWindow!WindowTypeOK
      BY <2>7, WindowHolds DEF ScreensInv
    <3> QED
      BY ONLY <2>7, <3>1 DEF ScreensTypeOK
  <2>8. CASE screen = "mailbox"
    <3>1. AMailbox!MailActionTypeOK
      BY <2>8, MailHolds DEF ScreensInv
    <3> QED
      BY ONLY <2>8, <3>1 DEF ScreensTypeOK
  <2>9. CASE screen = "computer"
    <3>1. AComputer!ComputerTypeOK
      BY <2>9, ComputerHolds DEF ScreensInv
    <3> QED
      BY ONLY <2>9, <3>1 DEF ScreensTypeOK
  <2>10. CASE screen = "tree"
    <3>1. ATree!FileTreeTypeOK
      BY <2>10, TreeHolds DEF ScreensInv
    <3> QED
      BY ONLY <2>10, <3>1 DEF ScreensTypeOK
  <2>11. CASE screen = "oldRoom"
    <3>1. AnOldRoom!LegacyRoomTypeOK
      BY <2>11 DEF ScreensInv, LegacyInv
    <3> QED
      BY ONLY <2>11, <3>1 DEF ScreensTypeOK
  <2>12. CASE screen = "assist"
    <3>1. AnAssist!AssistTypeOK
      BY <2>12, AssistHolds DEF ScreensInv
    <3> QED
      BY ONLY <2>12, <3>1 DEF ScreensTypeOK
  <2>13. CASE screen = "tool"
    <3>1. ATool!ToolsTypeOK
      BY <2>13, ToolHolds DEF ScreensInv
    <3> QED
      BY ONLY <2>13, <3>1 DEF ScreensTypeOK
  <2>14. CASE screen = "talk"
    <3>1. ATalk!ConversationsTypeOK
      BY <2>14, TalkHolds DEF ScreensInv
    <3> QED
      BY ONLY <2>14, <3>1 DEF ScreensTypeOK
  <2>15. CASE screen = "editor"
    <3>1. AnEditor!AgentFilesTypeOK
      BY <2>15, EditorHolds DEF ScreensInv
    <3> QED
      BY ONLY <2>15, <3>1 DEF ScreensTypeOK
  <2>16. CASE screen = "rulebook"
    <3>1. ARulebook!DelegationTypeOK
      BY <2>16, RulesHolds DEF ScreensInv
    <3> QED
      BY ONLY <2>16, <3>1 DEF ScreensTypeOK
  <2>17. CASE screen = "desktop"
    <3>1. ADesktop!DesktopTypeOK
      BY <2>17, DesktopHolds DEF ScreensInv
    <3> QED
      BY ONLY <2>17, <3>1 DEF ScreensTypeOK
  <2>18. CASE screen = "entry"
    <3>1. AnEntry!EntryTypeOK
      BY <2>18, EntryHolds DEF ScreensInv
    <3> QED
      BY ONLY <2>18, <3>1 DEF ScreensTypeOK
  <2>19. screen \in {"room", "control", "household", "inbox", "mobile", "butler", "window", "mailbox", "computer",
                     "tree", "oldRoom", "assist", "tool", "talk", "editor", "rulebook", "desktop", "entry"}
    BY DEF ScreensInv
  <2> QED
    BY ONLY <2>1, <2>2, <2>3, <2>4, <2>5, <2>6, <2>7, <2>8, <2>9, <2>10, <2>11, <2>12, <2>13, <2>14, <2>15, <2>16, <2>17, <2>18, <2>19
<1> QED
  BY <1>1, ScreensHold, PTL

(* What is sent to a model, a machine or a lamp is what the person saw and *)
(* agreed to when it left (AgentRoom, legacy room, computer and butler).   *)
THEOREM PagesActAsShown == ScreensSpec => []ActsAsShown
<1>1. ScreensInv => ActsAsShown
  <2> SUFFICES ASSUME ScreensInv PROVE ActsAsShown
    OBVIOUS
  <2>1. screen = "room" => ARoom!SentAsShown /\ ARoom!OneDriver
    BY RoomHolds DEF ScreensInv
  <2>2. screen = "oldRoom" => AnOldRoom!ConsentPerMessage
    BY DEF ScreensInv, LegacyInv
  <2>3. screen = "computer" => AComputer!TouchedAsShown
    BY ComputerHolds DEF ScreensInv
  <2>4. screen = "butler" => AButler!LampAsShown
    BY ButlerHolds DEF ScreensInv
  <2> QED
    BY ONLY <2>1, <2>2, <2>3, <2>4 DEF ActsAsShown
<1> QED
  BY <1>1, ScreensHold, PTL

(* What a page shows is of the file, person, agent or span it has          *)
(* selected, and the list of mails of the account whose list was asked for *)
(* last, however late, and in whatever order, the answers come.  That the  *)
(* account is the one selected is not claimed, and not so (Inbox).         *)
THEOREM PagesShowTheirOwn == ScreensSpec => []ShowsItsOwn
<1>1. ScreensInv => ShowsItsOwn
  <2> SUFFICES ASSUME ScreensInv PROVE ShowsItsOwn
    OBVIOUS
  <2>1. screen = "control" => AControl!PreviewIsOfFile
    BY ControlHolds DEF ScreensInv
  <2>2. screen = "inbox" => AnInbox!ChunksBelong
    BY InboxHolds DEF ScreensInv
  <2>3. screen = "mobile" => AMobile!PrivateToOwner
    BY MobileHolds DEF ScreensInv
  <2>4. screen = "tree" => ATree!PreviewOfSelected
    BY TreeHolds DEF ScreensInv
  <2>5. screen = "editor" => AnEditor!FilesAreOwn
    BY EditorHolds DEF ScreensInv
  <2>6. screen = "desktop" => ADesktop!SeriesIsOfChoice
    BY DesktopHolds DEF ScreensInv
  <2> QED
    BY ONLY <2>1, <2>2, <2>3, <2>4, <2>5, <2>6 DEF ShowsItsOwn
<1> QED
  BY <1>1, ScreensHold, PTL

(* What a page reports of the service behind it is so there: the package   *)
(* saved, the sessions open, the cards decided, the mails moved, the       *)
(* matches of a search; and what it keeps is what it showed.               *)
THEOREM PagesReportWhatIs == ScreensSpec => []ReportsWhatIs
<1>1. ScreensInv => ReportsWhatIs
  <2> SUFFICES ASSUME ScreensInv PROVE ReportsWhatIs
    OBVIOUS
  <2>1. screen = "household" => AHousehold!PackagedAsShown
    BY HouseHolds DEF ScreensInv
  <2>2. screen = "window" => AWindow!ListedIsOpen
    BY WindowHolds DEF ScreensInv
  <2>3. screen = "assist" => AnAssist!DecidedAsShown
    BY AssistHolds DEF ScreensInv
  <2>4. screen = "mailbox" => AMailbox!ReportsAreTrue
    BY MailHolds DEF ScreensInv
  <2>5. screen = "tool" => ATool!SearchIsWhole
    BY ToolHolds DEF ScreensInv
  <2>6. screen = "talk" => ATalk!KeptAsShown
    BY TalkHolds DEF ScreensInv
  <2>7. screen = "desktop" => ADesktop!DrawnWhereHeld
    BY DesktopHolds DEF ScreensInv
  <2> QED
    BY ONLY <2>1, <2>2, <2>3, <2>4, <2>5, <2>6, <2>7 DEF ReportsWhatIs
<1> QED
  BY <1>1, ScreensHold, PTL

(* The policy in force is the one last set, each verdict is that of its    *)
(* most specific rule, and a set-up ends in the mode that was saved.       *)
THEOREM WhatWasSetStands == ScreensSpec => []RulesHold
<1>1. ScreensInv => RulesHold
  <2> SUFFICES ASSUME ScreensInv PROVE RulesHold
    OBVIOUS
  <2>1. screen = "rulebook" => ARulebook!VerdictIsMostSpecific /\ ARulebook!SetPolicyStands
    BY RulesHolds DEF ScreensInv
  <2>2. screen = "entry" => AnEntry!EnteredAsChosen
    BY EntryHolds DEF ScreensInv
  <2> QED
    BY ONLY <2>1, <2>2 DEF RulesHold
<1> QED
  BY <1>1, ScreensHold, PTL

=============================================================================
