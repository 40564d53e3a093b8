---------------------------- MODULE PageProofs ----------------------------
(***************************************************************************)
(* Proofs about the pages, first half: the agent rooms, the computer, the  *)
(* butler, the settings dialog, the inbox, the file manager, the agents'   *)
(* files, the desktop and the companion.  Each section proves, for every   *)
(* value of the constants, that a page starts with its inductive           *)
(* invariant, that every step keeps it, and that its properties follow;    *)
(* ScreenProofs does so for the others and draws the theorems about the    *)
(* whole run from them.                                                    *)
(***************************************************************************)
EXTENDS MCScreens, Sequences, FiniteSetTheorems, SequenceTheorems, TLAPS

-----------------------------------------------------------------------------
\* The run starts one page, and moves it alone.
LEMMA StartsAlone ==
  ASSUME ScreensInit
  PROVE
    /\ screen = "room" => ARoom!RoomInit
    /\ screen = "control" => AControl!ControlInit
    /\ screen = "household" => AHousehold!HouseholdInit
    /\ screen = "inbox" => AnInbox!InboxInit
    /\ screen = "mobile" => AMobile!MobileInit
    /\ screen = "butler" => AButler!ButlerInit
    /\ screen = "window" => AWindow!WindowInit
    /\ screen = "mailbox" => AMailbox!MailActionInit
    /\ screen = "computer" => AComputer!ComputerInit
    /\ screen = "tree" => ATree!FileTreeInit
    /\ screen = "oldRoom" => AnOldRoom!LegacyRoomInit
    /\ screen = "assist" => AnAssist!AssistInit
    /\ screen = "tool" => ATool!ToolsInit
    /\ screen = "talk" => ATalk!ConversationsInit
    /\ screen = "editor" => AnEditor!AgentFilesInit
    /\ screen = "rulebook" => ARulebook!DelegationInit
    /\ screen = "desktop" => ADesktop!DesktopInit
    /\ screen = "entry" => AnEntry!EntryInit
BY DEF ScreensInit

LEMMA MovesAlone ==
  ASSUME [ScreensNext]_screenVars
  PROVE
    /\ screen' = screen
    /\ screen = "room" => [ARoom!RoomNext]_<<a, b>>
    /\ screen = "control" => [AControl!ControlNext]_<<a, b>>
    /\ screen = "household" => [AHousehold!HouseholdNext]_<<a, b>>
    /\ screen = "inbox" => [AnInbox!InboxNext]_<<a, b, c>>
    /\ screen = "mobile" => [AMobile!MobileNext]_<<a, b>>
    /\ screen = "butler" => [AButler!ButlerNext]_<<a, b>>
    /\ screen = "window" => [AWindow!WindowNext]_<<a, b, c>>
    /\ screen = "mailbox" => [AMailbox!MailActionNext]_<<a, b>>
    /\ screen = "computer" => [AComputer!ComputerNext]_<<a, b, c>>
    /\ screen = "tree" => [ATree!FileTreeNext]_<<a, b, c>>
    /\ screen = "oldRoom" => [AnOldRoom!LegacyRoomNext]_<<a, b, c, d>>
    /\ screen = "assist" => [AnAssist!AssistNext]_<<a, b, c, d, e>>
    /\ screen = "tool" => [ATool!ToolsNext]_<<a, b, c>>
    /\ screen = "talk" => [ATalk!ConversationsNext]_<<a, b, c>>
    /\ screen = "editor" => [AnEditor!AgentFilesNext]_<<a, b, c, d, e>>
    /\ screen = "rulebook" => [ARulebook!DelegationNext]_<<a, b>>
    /\ screen = "desktop" => [ADesktop!DesktopNext]_<<a, b, c, d>>
    /\ screen = "entry" => [AnEntry!EntryNext]_<<a, b, c>>
BY DEF ScreensNext, Only, screenVars

\* What the assumption says of each bound.
LEMMA Bounds ==
  /\ RoomSteps \in Nat \ {0} /\ MaxProfile \in Nat \ {0} /\ MaxItemRevision \in Nat \ {0} /\ MaxLoads \in Nat \ {0} /\ MaxJobs \in Nat \ {0}
  /\ MaxVersion \in Nat \ {0} /\ MaxPoint \in Nat \ {0} /\ MaxPageRevision \in Nat \ {0} /\ PageCount \in Nat \ {0}
  /\ MaxMessages \in Nat /\ MaxPackages \in Nat /\ MaxDeeds \in Nat /\ MaxQuestions \in Nat /\ MaxRequests \in Nat
  /\ MaxDemoTasks \in Nat /\ MaxWindowJobs \in Nat /\ MaxRemoteUid \in Nat /\ MaxLives \in Nat /\ MaxQueued \in Nat
  /\ MaxReads \in Nat /\ MaxSaid \in Nat /\ MaxAsks \in Nat /\ MaxPolicy \in Nat /\ MaxCalls \in Nat
  /\ MaxNews \in Nat /\ MaxFolder \in Nat /\ SearchDepth \in Nat /\ SearchLimit \in Nat /\ MaxVisited \in Nat
  /\ MaxMoves \in Nat /\ MaxSkills \in Nat /\ KeptTalks \in Nat \ {0} /\ MaxTalks \in Nat \ {0} /\ MaxStarts \in Nat
  /\ MaxEdits \in Nat /\ MaxSaves \in Nat /\ MaxRules \in Nat /\ MaxEdited \in Nat
BY ScreensAssumption

-----------------------------------------------------------------------------
(* The agent room: what was agreed to is what is shown, unless the draft   *)
(* is empty or an answer came in; whoever works the browser works it       *)
(* alone; and a sending leaves room for its own answers.                   *)

RoomStates ==
  [session : BOOLEAN, leaving : BOOLEAN, person : ARoom!People, draft : ARoom!Texts,
   engine : Engines, history : BOOLEAN, computerMode : BOOLEAN,
   consent : BOOLEAN, agreed : ARoom!Outgoings \cup {ARoom!NoTick, ARoom!Overtaken},
   messages : [ARoom!People -> 0..MaxMessages], busy : ARoom!People \cup {"nobody"},
   step : 0..RoomSteps, stop : BOOLEAN, browsing : BOOLEAN]
BrowserStates ==
  [enabled : BOOLEAN, configured : BOOLEAN, acts : BOOLEAN, proposed : BOOLEAN,
   reading : BOOLEAN, screen : {"none", "runs", "asks"}]

AgreedTo(r) == r.consent /\ r.draft # ARoom!NoDraft => r.agreed \in {ARoom!Outgoing(r), ARoom!Overtaken}
AnswersFit(r) ==
  r.busy # "nobody" => /\ r.step > 0 /\ r.messages[r.busy] + RoomSteps < MaxMessages + r.step
                       /\ RoomSteps < MaxMessages
OneWorks(r, w) == (w.acts => r.busy = "nobody") /\ (r.browsing => r.busy # "nobody")

RoomInv ==
  /\ a \in RoomStates /\ b \in BrowserStates
  /\ AgreedTo(a) /\ AnswersFit(a) /\ OneWorks(a, b)

LEMMA RoomIsTyped == ARoom!RoomTypeOK <=> a \in RoomStates /\ b \in BrowserStates
BY DEF ARoom!RoomTypeOK, RoomStates, BrowserStates, ARoom!NoTick, ARoom!Overtaken

LEMMA RoomHolds == ASSUME RoomInv PROVE ARoom!RoomTypeOK /\ ARoom!SentAsShown /\ ARoom!OneDriver
<1>1. ARoom!RoomTypeOK
  BY RoomIsTyped DEF RoomInv
<1>2. ARoom!SentAsShown
  BY DEF RoomInv, AgreedTo, ARoom!SentAsShown, ARoom!MaySend
<1>3. ARoom!OneDriver
  BY DEF RoomInv, OneWorks, ARoom!OneDriver
<1> QED
  BY <1>1, <1>2, <1>3

LEMMA RoomStarts == ASSUME ARoom!RoomInit PROVE RoomInv
<1>1. (CHOOSE x \in Engines : TRUE) \in Engines
  BY ScreensAssumption
<1>2. 0 \in 0..MaxMessages /\ 0 \in 0..RoomSteps
  BY Bounds
<1>3. a \in RoomStates
  BY <1>1, <1>2 DEF ARoom!RoomInit, RoomStates, ARoom!People, ARoom!Texts
<1>4. b \in BrowserStates
  BY DEF ARoom!RoomInit, BrowserStates
<1> QED
  BY <1>3, <1>4 DEF ARoom!RoomInit, RoomInv, AgreedTo, AnswersFit, OneWorks

\* What the effects leave of the state the setters asked for.
LEMMA RenderedKeeps ==
  ASSUME a \in RoomStates, NEW n \in RoomStates, ARoom!Rendered(n)
  PROVE  /\ a' \in RoomStates
         /\ a'.person = n.person /\ a'.draft = n.draft /\ a'.engine = n.engine /\ a'.history = n.history
         /\ a'.messages = n.messages /\ a'.busy = n.busy /\ a'.step = n.step /\ a'.browsing = n.browsing
         /\ a'.consent => /\ n.consent /\ a'.agreed = n.agreed
                          /\ n.person = a.person /\ n.draft = a.draft /\ n.engine = a.engine
                          /\ n.history = a.history
<1>1. CASE a' = n /\ ARoom!TickedFor(n) = ARoom!TickedFor(a)
  BY <1>1 DEF ARoom!TickedFor
<1>2. CASE a' = [n EXCEPT !.consent = FALSE, !.agreed = ARoom!NoTick]
  BY <1>2 DEF RoomStates
<1> QED
  BY <1>1, <1>2 DEF ARoom!Rendered

\* A step in which only what is written or chosen changes, and no message comes.
LEMMA RoomEdited ==
  ASSUME RoomInv, NEW n \in RoomStates, ARoom!Rendered(n), b' = b,
         n.messages = a.messages, n.busy = a.busy, n.step = a.step, n.browsing = a.browsing,
         n.consent => a.consent /\ n.agreed = a.agreed
  PROVE  RoomInv'
<1> USE RenderedKeeps DEF RoomInv
<1>1. a' \in RoomStates /\ b' \in BrowserStates
  OBVIOUS
<1>2. AgreedTo(a)'
  BY DEF AgreedTo, ARoom!Outgoing
<1>3. AnswersFit(a)' /\ OneWorks(a, b)'
  BY DEF AnswersFit, OneWorks
<1> QED
  BY <1>1, <1>2, <1>3

LEMMA OutgoingTyped == ASSUME NEW r \in RoomStates PROVE ARoom!Outgoing(r) \in ARoom!Outgoings
BY Bounds DEF RoomStates, ARoom!Outgoing, ARoom!Outgoings

LEMMA RoomStep == ASSUME RoomInv, [ARoom!RoomNext]_<<a, b>> PROVE RoomInv'
<1>1. ASSUME NEW text \in ARoom!Texts, ARoom!TypeDraft(text) PROVE RoomInv'
  <2>1. [a EXCEPT !.draft = text] \in RoomStates
    BY DEF RoomInv, RoomStates
  <2> QED
    BY <1>1, <2>1, RoomEdited DEF RoomInv, RoomStates, ARoom!TypeDraft
<1>2. ASSUME NEW text \in ARoom!Texts, ARoom!StartBrowsing(text) PROVE RoomInv'
  <2>1. [a EXCEPT !.draft = text, !.computerMode = TRUE] \in RoomStates
    BY DEF RoomInv, RoomStates
  <2> QED
    BY <1>2, <2>1, RoomEdited DEF RoomInv, RoomStates, ARoom!StartBrowsing
<1>3. ASSUME NEW x \in Engines, ARoom!PickEngine(x) PROVE RoomInv'
  <2>1. [a EXCEPT !.engine = x] \in RoomStates
    BY DEF RoomInv, RoomStates
  <2> QED
    BY <1>3, <2>1, RoomEdited DEF RoomInv, RoomStates, ARoom!PickEngine
<1>4. CASE ARoom!PickHistory
  <2>1. [a EXCEPT !.history = ~@] \in RoomStates
    BY ZenonT(60) DEF RoomInv, RoomStates
  <2> QED
    BY <1>4, <2>1, RoomEdited DEF RoomInv, RoomStates, ARoom!PickHistory
<1>5. CASE ARoom!PickComputer
  <2>1. [a EXCEPT !.computerMode = ~@] \in RoomStates
    BY ZenonT(60) DEF RoomInv, RoomStates
  <2> QED
    BY <1>5, <2>1, RoomEdited DEF RoomInv, RoomStates, ARoom!PickComputer
<1>6. CASE ARoom!Tick
  <2>1. ARoom!Outgoing(a) \in ARoom!Outgoings
    BY OutgoingTyped DEF RoomInv
  <2>2. a' \in RoomStates
    BY <1>6, <2>1 DEF ARoom!Tick, RoomInv, RoomStates
  <2>3. AgreedTo(a)'
    BY <1>6 DEF ARoom!Tick, RoomInv, RoomStates, AgreedTo, ARoom!Outgoing
  <2>4. AnswersFit(a)' /\ OneWorks(a, b)' /\ b' = b
    BY <1>6 DEF ARoom!Tick, RoomInv, RoomStates, AnswersFit, OneWorks
  <2> QED
    BY <2>2, <2>3, <2>4 DEF RoomInv
<1>7. CASE ARoom!SendDraft
  <2> DEFINE n == [a EXCEPT !.busy = a.person, !.stop = FALSE, !.step = 1, !.draft = ARoom!NoDraft,
                            !.consent = FALSE, !.agreed = ARoom!NoTick, !.browsing = a.computerMode,
                            !.messages[a.person] = @ + 1]
  <2>1. a \in RoomStates /\ b \in BrowserStates /\ a.busy = "nobody" /\ ~b.acts /\ b' = b
    BY <1>7 DEF RoomInv, ARoom!SendDraft, ARoom!MaySend, ARoom!RoomIdle
  <2>2. a.messages[a.person] + RoomSteps < MaxMessages /\ a.messages[a.person] \in Nat
    BY <1>7, <2>1, Bounds DEF ARoom!SendDraft, ARoom!RoomLeft, RoomStates
  <2>3. a.messages[a.person] + 1 \in 0..MaxMessages /\ 1 \in 0..RoomSteps /\ RoomSteps < MaxMessages
    BY <2>2, Bounds
  <2>4. [a.messages EXCEPT ![a.person] = @ + 1] \in [ARoom!People -> 0..MaxMessages]
    BY <2>1, <2>3 DEF RoomStates
  <2>5. n \in RoomStates
    BY <2>1, <2>3, <2>4 DEF RoomStates, ARoom!Texts
  <2>6. ARoom!Rendered(n)
    BY <1>7 DEF ARoom!SendDraft, ARoom!Begun
  <2>7. a' \in RoomStates /\ ~a'.consent /\ a'.busy = a.person /\ a'.step = 1
        /\ a'.messages = [a.messages EXCEPT ![a.person] = @ + 1]
    <3>1. n.busy = a.person /\ n.step = 1 /\ ~n.consent /\ n.messages = [a.messages EXCEPT ![a.person] = @ + 1]
      BY <2>1 DEF RoomStates
    <3> QED
      BY <2>1, <2>5, <2>6, <3>1, RenderedKeeps
  <2>8. AgreedTo(a)'
    BY <2>7 DEF AgreedTo
  <2>9. AnswersFit(a)'
    BY <2>1, <2>2, <2>3, <2>7, Bounds DEF AnswersFit, RoomStates
  <2>10. OneWorks(a, b)'
    BY <2>1, <2>7 DEF OneWorks, RoomStates, ARoom!People
  <2> QED
    BY <2>1, <2>7, <2>8, <2>9, <2>10 DEF RoomInv
<1>8. CASE ARoom!ChatFails
  <2>1. a' = ARoom!Settled(a) /\ b'.acts = b.acts /\ b' \in BrowserStates
    BY <1>8 DEF ARoom!ChatFails, RoomInv, BrowserStates
  <2>2. 0 \in 0..RoomSteps
    BY Bounds
  <2> QED
    BY <2>1, <2>2 DEF ARoom!Settled, RoomInv, RoomStates, AgreedTo, ARoom!Outgoing, AnswersFit, OneWorks
<1>9. CASE ARoom!StopSteps
  BY <1>9 DEF ARoom!StopSteps, RoomInv, RoomStates, AgreedTo, ARoom!Outgoing, AnswersFit, OneWorks
<1>10. ASSUME NEW p \in ARoom!People, ARoom!ChoosePerson(p) PROVE RoomInv'
  <2>1. PICK x \in Engines : ARoom!Rendered([a EXCEPT !.person = p, !.engine = x, !.computerMode = FALSE])
    BY <1>10 DEF ARoom!ChoosePerson
  <2>2. [a EXCEPT !.person = p, !.engine = x, !.computerMode = FALSE] \in RoomStates
    BY DEF RoomInv, RoomStates
  <2> QED
    BY <1>10, <2>1, <2>2, RoomEdited DEF RoomInv, RoomStates, ARoom!ChoosePerson
<1>11. ASSUME NEW s \in {"none", "runs", "asks"}, NEW proposed \in BOOLEAN, NEW continues \in BOOLEAN,
              ARoom!Answered(s, proposed, continues)
       PROVE  RoomInv'
  <2> DEFINE n == [ARoom!Told(a) EXCEPT !.messages[a.busy] = @ + 1]
  <2>1. a \in RoomStates /\ a.busy # "nobody" /\ a.busy \in ARoom!People
    BY <1>11 DEF RoomInv, RoomStates, ARoom!Answered, ARoom!RoomIdle
  <2>2. b' \in BrowserStates /\ b'.acts = b.acts
    BY <1>11 DEF RoomInv, BrowserStates, ARoom!Answered
  <2>3. /\ ARoom!Told(a) \in RoomStates
        /\ \E g \in {a.agreed, ARoom!Overtaken} :
             /\ ARoom!Told(a) = [a EXCEPT !.agreed = g]
             /\ a.consent /\ a.history /\ a.person = a.busy => g = ARoom!Overtaken
    BY <2>1 DEF ARoom!Told, RoomStates
  <2>4. PICK g \in {a.agreed, ARoom!Overtaken} :
             /\ ARoom!Told(a) = [a EXCEPT !.agreed = g]
             /\ a.consent /\ a.history /\ a.person = a.busy => g = ARoom!Overtaken
    BY <2>3
  <2>5. a.messages[a.busy] \in Nat /\ a.step \in Nat /\ a.step <= RoomSteps /\ a.step > 0
        /\ a.messages[a.busy] + RoomSteps < MaxMessages + a.step /\ RoomSteps < MaxMessages
    BY <2>1, Bounds DEF RoomInv, RoomStates, AnswersFit
  <2>6. a.messages[a.busy] + 1 \in 0..MaxMessages
    BY <2>5, Bounds
  <2>7. [a.messages EXCEPT ![a.busy] = @ + 1] \in [ARoom!People -> 0..MaxMessages]
    BY <2>1, <2>6 DEF RoomStates
  <2>8. n \in RoomStates /\ n.messages = [a.messages EXCEPT ![a.busy] = @ + 1] /\ n.agreed = g
        /\ n = [n EXCEPT !.busy = a.busy, !.step = a.step, !.browsing = a.browsing]
        /\ n.consent = a.consent /\ n.draft = a.draft /\ n.history = a.history /\ n.person = a.person
        /\ n.engine = a.engine /\ n.busy = a.busy /\ n.step = a.step /\ n.browsing = a.browsing
    BY <2>1, <2>3, <2>4, <2>7, ZenonT(60) DEF RoomStates
  <2> HIDE DEF n
  <2>9. AgreedTo(n)
    BY <2>1, <2>4, <2>8 DEF AgreedTo, RoomInv, RoomStates, ARoom!Outgoing
  <2>10. CASE a.step < RoomSteps /\ a' = [n EXCEPT !.step = @ + 1]
    <3>1. a.step + 1 \in 0..RoomSteps /\ a'.step = a.step + 1
      BY <2>5, <2>8, <2>10, Bounds DEF RoomStates
    <3>2. a' \in RoomStates
      BY <2>8, <2>10, <3>1 DEF RoomStates
    <3>3. AgreedTo(a)'
      BY <2>8, <2>9, <2>10 DEF AgreedTo, RoomStates, ARoom!Outgoing
    <3>4. a'.messages = [a.messages EXCEPT ![a.busy] = @ + 1] /\ a'.busy = a.busy /\ a'.browsing = a.browsing
      BY <2>8, <2>10 DEF RoomStates
    <3>5. a'.messages[a.busy] = a.messages[a.busy] + 1
      BY <2>1, <3>4 DEF RoomStates
    <3>6. AnswersFit(a)'
      BY <2>5, <3>1, <3>4, <3>5, Bounds DEF AnswersFit
    <3>7. OneWorks(a, b)'
      BY <2>2, <3>4 DEF OneWorks, RoomInv
    <3> QED
      BY <2>2, <3>2, <3>3, <3>6, <3>7 DEF RoomInv
  <2>11. CASE a' = ARoom!Settled(n)
    <3>1. 0 \in 0..RoomSteps
      BY Bounds
    <3>2. a' \in RoomStates /\ AgreedTo(a)' /\ AnswersFit(a)' /\ OneWorks(a, b)'
      BY <2>2, <2>8, <2>9, <2>11, <3>1
      DEF ARoom!Settled, RoomStates, AgreedTo, ARoom!Outgoing, AnswersFit, OneWorks
    <3> QED
      BY <2>2, <3>2 DEF RoomInv
  <2> QED
    BY <1>11, <2>10, <2>11 DEF ARoom!Answered, n
<1>12. CASE ARoom!ComputerAction
  BY <1>12 DEF ARoom!ComputerAction, ARoom!RoomIdle, RoomInv, BrowserStates, OneWorks
<1>13. CASE ARoom!ActionEnds \/ ARoom!StatusRead
  <2>1. a' = a /\ b' \in BrowserStates /\ (b'.acts => b.acts)
    BY <1>13 DEF ARoom!ActionEnds, ARoom!StatusRead, RoomInv, BrowserStates
  <2> QED
    BY <2>1 DEF RoomInv, OneWorks
<1>14. CASE ARoom!SessionOpens
  BY <1>14 DEF ARoom!SessionOpens, RoomInv, RoomStates, BrowserStates, AgreedTo, ARoom!Outgoing, AnswersFit, OneWorks
<1>15. CASE ARoom!AskLogout
  BY <1>15 DEF ARoom!AskLogout, RoomInv, RoomStates, AgreedTo, ARoom!Outgoing, AnswersFit, OneWorks
<1>16. CASE ARoom!LogoutAnswered
  <2>1. CASE a' = [a EXCEPT !.leaving = FALSE] /\ b' = b
    BY <2>1 DEF RoomInv, RoomStates, AgreedTo, ARoom!Outgoing, AnswersFit, OneWorks
  <2>2. CASE /\ ARoom!Rendered([ARoom!Told(a) EXCEPT !.leaving = FALSE, !.session = FALSE, !.draft = ARoom!NoDraft,
                                                    !.messages = [p \in ARoom!People |-> 0]])
             /\ b' = [b EXCEPT !.screen = "none", !.proposed = FALSE]
    <3> DEFINE n == [ARoom!Told(a) EXCEPT !.leaving = FALSE, !.session = FALSE, !.draft = ARoom!NoDraft,
                                         !.messages = [p \in ARoom!People |-> 0]]
    <3>1. ARoom!Told(a) \in RoomStates /\ ARoom!Told(a).busy = a.busy /\ ARoom!Told(a).step = a.step
          /\ ARoom!Told(a).browsing = a.browsing
      BY DEF RoomInv, ARoom!Told, RoomStates
    <3>2. [p \in ARoom!People |-> 0] \in [ARoom!People -> 0..MaxMessages]
      BY Bounds
    <3>3. n \in RoomStates /\ n.draft = ARoom!NoDraft /\ n.messages = [p \in ARoom!People |-> 0]
          /\ n.busy = a.busy /\ n.step = a.step /\ n.browsing = a.browsing
      BY <3>1, <3>2 DEF RoomStates, ARoom!Texts
    <3>4. a' \in RoomStates /\ a'.draft = ARoom!NoDraft /\ a'.messages = [p \in ARoom!People |-> 0]
          /\ a'.busy = a.busy /\ a'.step = a.step /\ a'.browsing = a.browsing
      BY <2>2, <3>3, RenderedKeeps DEF RoomInv
    <3>5. AgreedTo(a)'
      BY <3>4 DEF AgreedTo
    <3>6. a.busy # "nobody" => a'.messages[a.busy] = 0 /\ a.step \in Nat
      BY <3>4, Bounds DEF RoomInv, RoomStates
    <3>7. AnswersFit(a)'
      BY <3>4, <3>6, Bounds DEF RoomInv, AnswersFit
    <3>8. b' \in BrowserStates /\ b'.acts = b.acts
      BY <2>2 DEF RoomInv, BrowserStates
    <3>9. OneWorks(a, b)'
      BY <3>4, <3>8 DEF RoomInv, OneWorks
    <3> QED
      BY <3>4, <3>5, <3>7, <3>8, <3>9 DEF RoomInv
  <2> QED
    BY <1>16, <2>1, <2>2 DEF ARoom!LogoutAnswered
<1>17. CASE UNCHANGED <<a, b>>
  BY <1>17 DEF RoomInv, AgreedTo, AnswersFit, OneWorks
<1> QED
  BY <1>1, <1>2, <1>3, <1>4, <1>5, <1>6, <1>7, <1>8, <1>9, <1>10, <1>11, <1>12, <1>13, <1>14, <1>15, <1>16, <1>17
  DEF ARoom!RoomNext

-----------------------------------------------------------------------------
(* The old room: each message has its consent and its answer, and no key   *)
(* stays in a form that is closed.                                         *)

Maybe == Providers \cup {NoProvider}
Talks ==
  [ready : BOOLEAN, draft : BOOLEAN, consent : BOOLEAN, busy : BOOLEAN, testing : BOOLEAN, agreed : 0..MaxSaid,
   said : 0..MaxSaid, heard : 0..MaxSaid]
Panels ==
  [open : BOOLEAN, active : Maybe, form : Maybe, key : BOOLEAN, saving : BOOLEAN, activating : BOOLEAN,
   asks : SUBSET AnOldRoom!Asks]
LegacyInv == AnOldRoom!LegacyRoomTypeOK /\ AnOldRoom!ConsentPerMessage

TalkCounts(t) ==
  /\ t.said + (IF t.consent THEN 1 ELSE 0) <= t.agreed
  /\ t.said = t.heard + (IF t.busy THEN 1 ELSE 0)
KeyInForm(p) == p.key => p.form # NoProvider

LEMMA LegacyParts ==
  LegacyInv <=> /\ a \in {"asking", "failed", "core", "legacy", "off"} /\ b \in Talks /\ c \in Panels /\ d \in Maybe
                /\ TalkCounts(b) /\ KeyInForm(c)
BY DEF LegacyInv, AnOldRoom!LegacyRoomTypeOK, AnOldRoom!ConsentPerMessage, Talks, Panels, Maybe, TalkCounts, KeyInForm

LEMMA LegacyStarts == ASSUME AnOldRoom!LegacyRoomInit PROVE LegacyInv
<1>1. 0 \in 0..MaxSaid
  BY Bounds
<1>2. b \in Talks /\ TalkCounts(b)
  BY <1>1 DEF AnOldRoom!LegacyRoomInit, Talks, TalkCounts
<1>3. c \in Panels /\ KeyInForm(c)
  BY DEF AnOldRoom!LegacyRoomInit, Panels, Maybe, KeyInForm
<1>4. a = "asking" /\ d \in Maybe
  BY DEF AnOldRoom!LegacyRoomInit, Maybe
<1> QED
  BY <1>2, <1>3, <1>4, LegacyParts

LEMMA AskingTyped ==
  ASSUME NEW p \in Panels, NEW k \in {"load", "save", "activate"}, NEW of \in Maybe
  PROVE  /\ AnOldRoom!Asking(p, k, of) \in Panels
         /\ AnOldRoom!Asking(p, k, of).key = p.key /\ AnOldRoom!Asking(p, k, of).form = p.form
<1> DEFINE ask == [kind |-> k, of |-> of, done |-> FALSE, says |-> NoProvider]
<1>1. ask \in AnOldRoom!Asks
  BY DEF AnOldRoom!Asks, Maybe
<1>2. AnOldRoom!Asking(p, k, of) = [p EXCEPT !.asks = @ \cup {ask}]
  BY DEF AnOldRoom!Asking
<1> HIDE DEF ask
<1> QED
  BY <1>1, <1>2 DEF Panels

LEMMA AskEndsTyped ==
  ASSUME NEW p \in Panels, NEW x
  PROVE  /\ AnOldRoom!AskEnds(x, p) \in Panels
         /\ AnOldRoom!AskEnds(x, p).key = p.key /\ AnOldRoom!AskEnds(x, p).form = p.form
BY DEF Panels, AnOldRoom!AskEnds

LEMMA LegacyStep == ASSUME LegacyInv, [AnOldRoom!LegacyRoomNext]_<<a, b, c, d>> PROVE LegacyInv'
<1>0. /\ a \in {"asking", "failed", "core", "legacy", "off"} /\ b \in Talks /\ c \in Panels /\ d \in Maybe
      /\ TalkCounts(b) /\ KeyInForm(c)
  BY LegacyParts
<1>1. ASSUME /\ a' \in {"asking", "failed", "core", "legacy", "off"} /\ b' \in Talks /\ c' \in Panels /\ d' \in Maybe
             /\ TalkCounts(b') /\ KeyInForm(c')
      PROVE  LegacyInv'
  BY <1>1 DEF LegacyInv, AnOldRoom!LegacyRoomTypeOK, AnOldRoom!ConsentPerMessage, Talks, Panels, Maybe, TalkCounts, KeyInForm
<1>2. ASSUME NEW state \in {"failed", "core", "legacy", "off"}, AnOldRoom!ConfigAnswered(state) PROVE LegacyInv'
  BY <1>0, <1>1, <1>2 DEF AnOldRoom!ConfigAnswered
<1>3. CASE AnOldRoom!ProbeAgain
  BY <1>0, <1>1, <1>3 DEF AnOldRoom!ProbeAgain
<1>4. ASSUME a' = a, c' = c, d' = d, b' \in Talks, TalkCounts(b') PROVE LegacyInv'
  BY <1>0, <1>1, <1>4
<1>5. ASSUME NEW on \in BOOLEAN, AnOldRoom!StatusAnswered(on) PROVE LegacyInv'
  <2>1. b' \in Talks /\ TalkCounts(b')
    BY <1>0, <1>5 DEF AnOldRoom!StatusAnswered, Talks, TalkCounts
  <2> QED
    BY <1>4, <1>5, <2>1 DEF AnOldRoom!StatusAnswered, AnOldRoom!InRoom
<1>6. ASSUME NEW on \in BOOLEAN, AnOldRoom!Agree(on) PROVE LegacyInv'
  <2>1. b.agreed \in Nat /\ b.said \in Nat /\ (on => b.agreed + 1 \in 0..MaxSaid)
    BY <1>0, <1>6, Bounds DEF AnOldRoom!Agree, Talks
  <2>2. b' = [b EXCEPT !.consent = on, !.agreed = IF on THEN @ + 1 ELSE @] /\ b.consent # on
    BY <1>6 DEF AnOldRoom!Agree
  <2>3. b' \in Talks
    BY <1>0, <2>1, <2>2 DEF Talks
  <2>4. TalkCounts(b')
    BY <1>0, <2>1, <2>2 DEF TalkCounts, Talks
  <2> QED
    BY <1>4, <1>6, <2>3, <2>4 DEF AnOldRoom!Agree, AnOldRoom!InRoom
<1>7. CASE AnOldRoom!Fill \/ AnOldRoom!TestProvider \/ AnOldRoom!Tested
  <2>1. b' \in Talks /\ TalkCounts(b')
    BY <1>0, <1>7 DEF AnOldRoom!Fill, AnOldRoom!TestProvider, AnOldRoom!Tested, Talks, TalkCounts
  <2> QED
    BY <1>4, <1>7, <2>1 DEF AnOldRoom!Fill, AnOldRoom!TestProvider, AnOldRoom!Tested, AnOldRoom!InRoom
<1>8. CASE AnOldRoom!Send
  <2>1. b.agreed \in Nat /\ b.said \in Nat /\ b.said + 1 \in 0..MaxSaid /\ b.heard \in Nat
    BY <1>0, <1>8, Bounds DEF AnOldRoom!Send, Talks
  <2>2. b' = [b EXCEPT !.said = @ + 1, !.draft = FALSE, !.consent = FALSE, !.busy = TRUE] /\ b.consent /\ ~b.busy
    BY <1>8 DEF AnOldRoom!Send
  <2>3. b' \in Talks /\ b'.said = b.said + 1 /\ ~b'.consent /\ b'.busy /\ b'.agreed = b.agreed /\ b'.heard = b.heard
    BY <1>0, <2>1, <2>2 DEF Talks
  <2>4. b.said + 1 <= b.agreed /\ b.said = b.heard + 0
    BY <1>0, <2>2 DEF TalkCounts
  <2>5. TalkCounts(b')
    BY <2>1, <2>3, <2>4 DEF TalkCounts
  <2> QED
    BY <1>4, <1>8, <2>3, <2>5 DEF AnOldRoom!Send, AnOldRoom!InRoom
<1>9. CASE AnOldRoom!Replied
  <2>1. b' = [b EXCEPT !.heard = @ + 1, !.busy = FALSE] /\ b.busy
    BY <1>9 DEF AnOldRoom!Replied
  <2>2. b.said \in Nat /\ b.said <= MaxSaid /\ b.heard \in Nat /\ b.said = b.heard + 1
    BY <1>0, <2>1, Bounds DEF Talks, TalkCounts
  <2>3. b.heard + 1 \in 0..MaxSaid
    BY <2>2, Bounds
  <2>4. b' \in Talks /\ b'.said = b.said /\ b'.consent = b.consent /\ ~b'.busy /\ b'.agreed = b.agreed /\ b'.heard = b.heard + 1
    BY <1>0, <2>1, <2>3 DEF Talks
  <2>5. TalkCounts(b')
    BY <1>0, <2>2, <2>4 DEF TalkCounts
  <2> QED
    BY <1>4, <1>9, <2>4, <2>5 DEF AnOldRoom!Replied, AnOldRoom!InRoom
<1>10. ASSUME a' = a, b' = b, c' \in Panels, KeyInForm(c'), d' \in Maybe PROVE LegacyInv'
  BY <1>0, <1>1, <1>10
<1>11. CASE AnOldRoom!OpenPanel
  <2> DEFINE p == [c EXCEPT !.open = TRUE, !.asks = {x \in @ : x.kind # "load"}]
  <2>1. p \in Panels /\ p.key = c.key /\ p.form = c.form
    BY <1>0 DEF Panels
  <2>2. c' = AnOldRoom!Asking(p, "load", NoProvider) /\ a' = a /\ b' = b /\ d' = d
    BY <1>11 DEF AnOldRoom!OpenPanel, AnOldRoom!InRoom
  <2>3. c' \in Panels /\ c'.key = c.key /\ c'.form = c.form
    BY <2>1, <2>2, AskingTyped DEF Maybe
  <2> QED
    BY <1>0, <1>10, <2>2, <2>3 DEF KeyInForm
<1>12. CASE AnOldRoom!ClosePanel
  <2>1. c' \in Panels /\ c'.key = c.key /\ c'.form = c.form
    BY <1>0, <1>12 DEF AnOldRoom!ClosePanel, Panels
  <2> QED
    BY <1>0, <1>10, <1>12, <2>1 DEF KeyInForm, AnOldRoom!ClosePanel, AnOldRoom!InRoom
<1>13. ASSUME NEW p \in Providers, AnOldRoom!EditProvider(p) PROVE LegacyInv'
  <2>1. c' \in Panels /\ ~c'.key
    BY <1>0, <1>13 DEF AnOldRoom!EditProvider, Panels, Maybe
  <2> QED
    BY <1>0, <1>10, <1>13, <2>1 DEF KeyInForm, AnOldRoom!EditProvider, AnOldRoom!InRoom
<1>14. ASSUME NEW p \in Providers, AnOldRoom!ActivateProvider(p) PROVE LegacyInv'
  <2>1. c' = [AnOldRoom!Asking(c, "activate", p) EXCEPT !.activating = TRUE] /\ a' = a /\ b' = b /\ d' = d
    BY <1>14 DEF AnOldRoom!ActivateProvider, AnOldRoom!InRoom
  <2>2. AnOldRoom!Asking(c, "activate", p) \in Panels
        /\ AnOldRoom!Asking(c, "activate", p).key = c.key /\ AnOldRoom!Asking(c, "activate", p).form = c.form
    BY <1>0, AskingTyped DEF Maybe
  <2>3. c' \in Panels /\ c'.key = c.key /\ c'.form = c.form
    BY <2>1, <2>2 DEF Panels
  <2> QED
    BY <1>0, <1>10, <2>1, <2>3 DEF KeyInForm
<1>15. CASE AnOldRoom!SaveProvider
  <2>1. c' = [AnOldRoom!Asking(c, "save", c.form) EXCEPT !.saving = TRUE] /\ a' = a /\ b' = b /\ d' = d
    BY <1>15 DEF AnOldRoom!SaveProvider, AnOldRoom!InRoom
  <2>2. AnOldRoom!Asking(c, "save", c.form) \in Panels
        /\ AnOldRoom!Asking(c, "save", c.form).key = c.key /\ AnOldRoom!Asking(c, "save", c.form).form = c.form
    BY <1>0, AskingTyped DEF Panels
  <2>3. c' \in Panels /\ c'.key = c.key /\ c'.form = c.form
    BY <2>1, <2>2 DEF Panels
  <2> QED
    BY <1>0, <1>10, <2>1, <2>3 DEF KeyInForm
<1>16. CASE AnOldRoom!TypeKey \/ AnOldRoom!CancelForm
  <2>1. c' \in Panels /\ KeyInForm(c')
    BY <1>0, <1>16 DEF AnOldRoom!TypeKey, AnOldRoom!CancelForm, Panels, Maybe, KeyInForm
  <2> QED
    BY <1>0, <1>10, <1>16, <2>1 DEF AnOldRoom!TypeKey, AnOldRoom!CancelForm, AnOldRoom!InRoom
<1>17. ASSUME NEW x \in AnOldRoom!Asks, AnOldRoom!ServerDoes(x) PROVE LegacyInv'
  <2>1. x.of \in Maybe
    BY DEF AnOldRoom!Asks, Maybe
  <2>2. d' \in Maybe
    BY <1>0, <1>17, <2>1 DEF AnOldRoom!ServerDoes
  <2> DEFINE y == [x EXCEPT !.done = TRUE, !.says = d']
  <2>3. y \in AnOldRoom!Asks
    BY <2>2 DEF AnOldRoom!Asks, Maybe
  <2>4. c' = [c EXCEPT !.asks = (@ \ {x}) \cup {y}] /\ a' = a /\ b' = b
    BY <1>17 DEF AnOldRoom!ServerDoes
  <2> HIDE DEF y
  <2>5. c' \in Panels /\ c'.key = c.key /\ c'.form = c.form
    BY <1>0, <2>3, <2>4 DEF Panels
  <2> QED
    BY <1>0, <1>10, <2>2, <2>4, <2>5 DEF KeyInForm
<1>18. ASSUME NEW x \in AnOldRoom!Asks, AnOldRoom!AskAnswered(x) PROVE LegacyInv'
  <2> DEFINE p == AnOldRoom!AskEnds(x, c)
  <2>1. p \in Panels /\ p.key = c.key /\ p.form = c.form
    BY <1>0, AskEndsTyped
  <2>2. x.says \in Maybe
    BY DEF AnOldRoom!Asks, Maybe
  <2>3. a' = a /\ b' = b /\ d' = d
        /\ c' \in {p, [p EXCEPT !.active = x.says], [p EXCEPT !.active = x.says, !.form = NoProvider, !.key = FALSE]}
    BY <1>18 DEF AnOldRoom!AskAnswered, AnOldRoom!InRoom
  <2> HIDE DEF p
  <2>4. c' \in Panels /\ KeyInForm(c')
    BY <1>0, <2>1, <2>2, <2>3 DEF Panels, Maybe, KeyInForm
  <2> QED
    BY <1>0, <1>10, <2>3, <2>4
<1>19. CASE UNCHANGED <<a, b, c, d>>
  BY <1>0, <1>1, <1>19
<1> QED
  BY <1>2, <1>3, <1>5, <1>6, <1>7, <1>8, <1>9, <1>11, <1>12, <1>13, <1>14, <1>15, <1>16, <1>17, <1>18, <1>19
  DEF AnOldRoom!LegacyRoomNext

-----------------------------------------------------------------------------
(* The computer: whatever a viewer was shown, in the views or carried by   *)
(* an order, is of an earlier life, an earlier revision, or the page that  *)
(* was last looked at; and an order being served is of this revision.      *)

Containers ==
  [up : BOOLEAN, life : 0..MaxLives, page : Pages \cup {"none"}, print : Pages \cup {"none"},
   revision : 0..MaxPageRevision, asked : BOOLEAN, queue : Seq(AComputer!Orders), serving : Seq(AComputer!Orders)]
Brokers == [at : {"idle", "inspects", "starts", "execs", "waits"}, order : Seq(AComputer!Orders)]

ContainerOK(x) ==
  /\ x \in Containers
  /\ x.up => x.life > 0 /\ x.page \in Pages /\ x.print \in Pages
  /\ ~x.up => x.queue = <<>> /\ x.serving = <<>>
ServedIsCurrent(x) ==
  \A i \in DOMAIN x.serving : x.serving[i].kind \in AComputer!Touching => x.serving[i].seen.revision = x.revision
\* What was shown is not ahead of the container.
Behind(s, x) ==
  /\ s.life <= x.life
  /\ x.up /\ s.life = x.life => s.revision <= x.revision /\ (s.revision = x.revision => s.page = x.print)
OrdersBehind(os, x) == \A i \in DOMAIN os : Behind(os[i].seen, x)
ViewsBehind(vs, x) == \A v \in Viewers : Behind(vs[v], x)

ComputerInv ==
  /\ ContainerOK(a) /\ b \in Brokers /\ c \in [Viewers -> AComputer!Shown]
  /\ b.at # "idle" => b.order # <<>>
  /\ ServedIsCurrent(a)
  /\ OrdersBehind(a.queue, a) /\ OrdersBehind(a.serving, a) /\ OrdersBehind(b.order, a) /\ ViewsBehind(c, a)

\* The container went on: to another life, to another revision, or with the page last looked at.
Ages(x, n) ==
  /\ x.life <= n.life
  /\ n.up /\ n.life = x.life => x.up /\ (x.revision < n.revision \/ (n.revision = x.revision /\ n.print = x.print))

LEMMA ComputerHolds == ASSUME ComputerInv PROVE AComputer!ComputerTypeOK /\ AComputer!TouchedAsShown
<1>1. AComputer!ComputerTypeOK
  BY DEF ComputerInv, ContainerOK, Containers, Brokers, AComputer!ComputerTypeOK
<1>2. ASSUME NEW i \in DOMAIN a.serving, a.serving[i].kind \in AComputer!Touching, a.serving[i].seen.life = a.life
      PROVE  a.print = a.serving[i].seen.page
  <2>1. a.up
    BY <1>2 DEF ComputerInv, ContainerOK, Containers
  <2>2. a.serving[i].seen.revision = a.revision /\ Behind(a.serving[i].seen, a)
    BY <1>2 DEF ComputerInv, ServedIsCurrent, OrdersBehind
  <2> QED
    BY <1>2, <2>1, <2>2 DEF Behind
<1>3. ASSUME NEW v \in Viewers, a.up, c[v].life = a.life, c[v].revision = a.revision PROVE c[v].page = a.print
  BY <1>3 DEF ComputerInv, ViewsBehind, Behind
<1>4. AComputer!TouchedAsShown
  BY <1>2, <1>3 DEF AComputer!TouchedAsShown
<1> QED
  BY <1>1, <1>4

LEMMA Older ==
  ASSUME NEW s \in AComputer!Shown, NEW x \in Containers, NEW n \in Containers, Behind(s, x), Ages(x, n)
  PROVE  Behind(s, n)
<1>1. s.life \in Nat /\ x.life \in Nat /\ n.life \in Nat /\ s.revision \in Nat /\ x.revision \in Nat /\ n.revision \in Nat
  BY Bounds DEF AComputer!Shown, Containers
<1> QED
  BY <1>1 DEF Behind, Ages

LEMMA OrderTyped ==
  ASSUME NEW os \in Seq(AComputer!Orders)
  PROVE  /\ Len(os) \in Nat /\ DOMAIN os = 1..Len(os)
         /\ \A i \in DOMAIN os : os[i] \in AComputer!Orders /\ os[i].seen \in AComputer!Shown
<1>1. Len(os) \in Nat /\ DOMAIN os = 1..Len(os) /\ \A i \in DOMAIN os : os[i] \in AComputer!Orders
  BY LenProperties, ElementOfSeq
<1> QED
  BY <1>1 DEF AComputer!Orders

LEMMA NothingIsBehind ==
  ASSUME NEW x, ContainerOK(x)
  PROVE  AComputer!NothingShown \in AComputer!Shown /\ Behind(AComputer!NothingShown, x)
<1>1. AComputer!NothingShown \in AComputer!Shown
  BY Bounds DEF AComputer!NothingShown, AComputer!Shown
<1>2. x.life \in Nat /\ (x.up => x.life > 0)
  BY Bounds DEF ContainerOK, Containers
<1> QED
  BY <1>1, <1>2 DEF Behind, AComputer!NothingShown

\* A step that only lets the container go on, and gives out nothing but what was shown.
LEMMA GoesOn ==
  ASSUME ComputerInv, ContainerOK(a'), Ages(a, a'), ServedIsCurrent(a'),
         b' \in Brokers, b'.at # "idle" => b'.order # <<>>, c' \in [Viewers -> AComputer!Shown],
         OrdersBehind(a'.queue, a), OrdersBehind(a'.serving, a), OrdersBehind(b'.order, a),
         \A v \in Viewers : Behind(c'[v], a) \/ Behind(c'[v], a')
  PROVE  ComputerInv'
<1>1. a \in Containers /\ a' \in Containers
  BY DEF ComputerInv, ContainerOK
<1>2. ASSUME NEW os \in Seq(AComputer!Orders), OrdersBehind(os, a) PROVE OrdersBehind(os, a')
  BY <1>1, <1>2, OrderTyped, Older DEF OrdersBehind
<1>3. OrdersBehind(a'.queue, a') /\ OrdersBehind(a'.serving, a') /\ OrdersBehind(b'.order, a')
  BY <1>1, <1>2 DEF Containers, Brokers
<1>4. ViewsBehind(c', a')
  BY <1>1, Older DEF ViewsBehind
<1> QED
  BY <1>3, <1>4 DEF ComputerInv, ContainerOK, ServedIsCurrent, OrdersBehind, ViewsBehind, Behind

LEMMA Looked ==
  ASSUME NEW x, ContainerOK(x), x.up, NEW n, n = AComputer!Snapshot(x), n.revision <= MaxPageRevision
  PROVE  /\ ContainerOK(n) /\ Ages(x, n) /\ n.up /\ n.queue = x.queue /\ n.serving = x.serving
         /\ n.life = x.life /\ n.page = x.page /\ n.print = x.page
<1>1. x \in Containers /\ x.page \in Pages /\ x.print \in Pages /\ x.print # "none" /\ x.life > 0
      /\ x.revision \in Nat /\ x.life \in Nat
  BY ScreensAssumption, Bounds DEF ContainerOK, Containers
<1>2. CASE x.print = x.page
  <2>1. n = [x EXCEPT !.print = x.page]
    BY <1>2 DEF AComputer!Snapshot
  <2>2. n \in Containers /\ n.up /\ n.queue = x.queue /\ n.serving = x.serving /\ n.life = x.life
        /\ n.page = x.page /\ n.print = x.page /\ n.revision = x.revision
    BY <1>1, <2>1 DEF Containers
  <2>3. ContainerOK(n)
    BY <1>1, <2>2 DEF ContainerOK
  <2>4. n.print = x.print /\ x.life <= n.life
    BY <1>1, <1>2, <2>2
  <2>5. Ages(x, n)
    BY <2>2, <2>4 DEF Ages
  <2> QED
    BY <2>2, <2>3, <2>5
<1>3. CASE x.print # x.page
  <2>1. n = [x EXCEPT !.print = x.page, !.revision = x.revision + 1, !.asked = FALSE]
    BY <1>1, <1>3 DEF AComputer!Snapshot
  <2>0. n.revision = x.revision + 1
    BY <1>1, <2>1 DEF Containers
  <2>2. n.revision = x.revision + 1 /\ x.revision + 1 \in 0..MaxPageRevision
    BY <1>1, <2>0, Bounds
  <2>3. n \in Containers /\ n.up /\ n.queue = x.queue /\ n.serving = x.serving /\ n.life = x.life
        /\ n.page = x.page /\ n.print = x.page
    BY <1>1, <2>1, <2>2 DEF Containers
  <2>4. Ages(x, n)
    BY <1>1, <2>2, <2>3 DEF Ages
  <2> QED
    BY <1>1, <2>3, <2>4 DEF ContainerOK
<1> QED
  BY <1>2, <1>3

LEMMA AgesOn ==
  ASSUME NEW x \in Containers, NEW y \in Containers, NEW n \in Containers, Ages(x, y), Ages(y, n)
  PROVE  Ages(x, n)
<1>1. x.life \in Nat /\ y.life \in Nat /\ n.life \in Nat /\ x.revision \in Nat /\ y.revision \in Nat /\ n.revision \in Nat
  BY Bounds DEF Containers
<1> QED
  BY <1>1 DEF Ages

LEMMA SeenIsBehind ==
  ASSUME NEW x, ContainerOK(x), x.up
  PROVE  AComputer!Seen(x) \in AComputer!Shown /\ Behind(AComputer!Seen(x), x)
BY Bounds DEF ContainerOK, Containers, AComputer!Seen, AComputer!Shown, Behind

LEMMA SwitchedOff ==
  ASSUME NEW x \in Containers, NEW n, n = AComputer!Off(x)
  PROVE  ContainerOK(n) /\ Ages(x, n) /\ n.queue = <<>> /\ n.serving = <<>> /\ ServedIsCurrent(n) /\ ~n.up /\ n.life = x.life
<1>1. <<>> \in Seq(AComputer!Orders) /\ 0 \in 0..MaxPageRevision /\ x.life \in Nat
  BY EmptySeq, Bounds DEF Containers
<1>2. n \in Containers /\ ~n.up /\ n.queue = <<>> /\ n.serving = <<>> /\ n.life = x.life
  BY <1>1 DEF AComputer!Off, Containers
<1>3. DOMAIN n.serving = {}
  BY <1>2
<1> QED
  BY <1>1, <1>2, <1>3 DEF ContainerOK, Ages, ServedIsCurrent

LEMMA ComputerStarts == ASSUME AComputer!ComputerInit PROVE ComputerInv
<1>1. <<>> \in Seq(AComputer!Orders) /\ 0 \in 0..MaxPageRevision /\ 0 \in 0..MaxLives
  BY EmptySeq, Bounds
<1>2. a \in Containers /\ ~a.up /\ a.queue = <<>> /\ a.serving = <<>> /\ a.life = 0
  BY <1>1 DEF AComputer!ComputerInit, AComputer!Off, Containers
<1>3. b \in Brokers /\ b.at = "idle" /\ b.order = <<>>
  BY <1>1 DEF AComputer!ComputerInit, AComputer!IdleBroker, Brokers
<1>4. ContainerOK(a)
  BY <1>2 DEF ContainerOK
<1>5. c \in [Viewers -> AComputer!Shown] /\ ViewsBehind(c, a)
  BY <1>4, NothingIsBehind DEF AComputer!ComputerInit, ViewsBehind
<1>6. ServedIsCurrent(a) /\ OrdersBehind(a.queue, a) /\ OrdersBehind(a.serving, a) /\ OrdersBehind(b.order, a)
  BY <1>2, <1>3 DEF ServedIsCurrent, OrdersBehind
<1> QED
  BY <1>3, <1>4, <1>5, <1>6 DEF ComputerInv

LEMMA ComputerStays == ASSUME ComputerInv PROVE Ages(a, a) /\ a.life \in Nat /\ a.revision \in Nat
BY Bounds DEF ComputerInv, ContainerOK, Containers, Ages

LEMMA IdleTyped == AComputer!IdleBroker \in Brokers /\ AComputer!IdleBroker.at = "idle" /\ OrdersBehind(AComputer!IdleBroker.order, a)
<1>1. <<>> \in Seq(AComputer!Orders)
  BY EmptySeq
<1> QED
  BY <1>1 DEF AComputer!IdleBroker, Brokers, OrdersBehind

\* The order of a broker that is at work.
LEMMA AtWork ==
  ASSUME ComputerInv, b.at # "idle"
  PROVE  AComputer!Order \in AComputer!Orders /\ Behind(AComputer!Order.seen, a)
<1>1. b.order \in Seq(AComputer!Orders) /\ b.order # <<>> /\ OrdersBehind(b.order, a)
  BY DEF ComputerInv, Brokers
<1>2. 1 \in DOMAIN b.order
  BY <1>1, EmptySeq
<1> QED
  BY <1>1, <1>2, OrderTyped DEF AComputer!Order, OrdersBehind

\* The broker is done with its order; the container stays, or is switched off.
LEMMA BrokerRests ==
  ASSUME ComputerInv, b' = AComputer!IdleBroker, c' \in [Viewers -> AComputer!Shown],
         \A v \in Viewers : c'[v] \in {c[v], AComputer!NothingShown}, a' \in {a, AComputer!Off(a)}
  PROVE  ComputerInv'
<1>1. ContainerOK(a') /\ Ages(a, a') /\ ServedIsCurrent(a') /\ OrdersBehind(a'.queue, a) /\ OrdersBehind(a'.serving, a)
  <2>1. CASE a' = a
    BY <2>1, ComputerStays DEF ComputerInv
  <2>2. CASE a' = AComputer!Off(a)
    BY <2>2, SwitchedOff DEF ComputerInv, ContainerOK, OrdersBehind
  <2> QED
    BY <2>1, <2>2
<1>2. \A v \in Viewers : Behind(c'[v], a)
  BY NothingIsBehind DEF ComputerInv, ViewsBehind
<1> QED
  BY <1>1, <1>2, IdleTyped, GoesOn

\* Only where the broker stands, or what it carries, changes.
LEMMA BrokerMoves ==
  ASSUME ComputerInv, a' = a, c' = c, b' \in Brokers, b'.order # <<>>, OrdersBehind(b'.order, a)
  PROVE  ComputerInv'
BY ComputerStays, GoesOn DEF ComputerInv, ViewsBehind

LEMMA Sends ==
  ASSUME ComputerInv, NEW v \in Viewers, NEW kind \in AComputer!OrderKinds, AComputer!SendOrder(v, kind)
  PROVE  ComputerInv'
<1> DEFINE seen == IF kind \in AComputer!Touching THEN c[v] ELSE AComputer!NothingShown
           order == [kind |-> kind, viewer |-> v, waited |-> TRUE, seen |-> seen]
<1>1. seen \in AComputer!Shown /\ Behind(seen, a)
  BY NothingIsBehind DEF ComputerInv, ViewsBehind
<1>2. b' = [at |-> "inspects", order |-> <<order>>] /\ a' = a /\ c' = c
  BY DEF AComputer!SendOrder
<1> HIDE DEF seen
<1>3. order \in AComputer!Orders /\ order.seen = seen
  BY <1>1 DEF AComputer!Orders
<1> HIDE DEF order
<1>4. <<order>> \in Seq(AComputer!Orders) /\ <<order>> # <<>> /\ \A i \in DOMAIN <<order>> : <<order>>[i] = order
  BY <1>3
<1> DEFINE os == <<order>>
<1>5. b'.order = os /\ b' \in Brokers
  BY <1>2, <1>4 DEF Brokers
<1>6. os # <<>> /\ OrdersBehind(os, a)
  BY <1>1, <1>3, <1>4 DEF OrdersBehind
<1> HIDE DEF os
<1> QED
  BY <1>2, <1>5, <1>6, BrokerMoves

LEMMA Inspects == ASSUME ComputerInv, NEW found \in BOOLEAN, AComputer!Inspect(found) PROVE ComputerInv'
<1>1. b.at = "inspects" /\ AComputer!Order.viewer \in Viewers
  BY AtWork DEF AComputer!Inspect, AComputer!Orders
<1>2. CASE AComputer!Refuses /\ a' = a
  BY <1>2, BrokerRests DEF AComputer!Refuses, ComputerInv
<1>3. CASE AComputer!Tells(AComputer!NothingShown) /\ a' \in {a, AComputer!Off(a)}
  <2>1. b' = AComputer!IdleBroker /\ c' = [c EXCEPT ![AComputer!Order.viewer] = AComputer!NothingShown]
    BY <1>3 DEF AComputer!Tells
  <2>2. c' \in [Viewers -> AComputer!Shown] /\ \A v \in Viewers : c'[v] \in {c[v], AComputer!NothingShown}
    BY <1>1, <2>1, NothingIsBehind DEF ComputerInv
  <2> QED
    BY <1>3, <2>1, <2>2, BrokerRests
<1>4. CASE AComputer!BrokerGoes(IF found THEN "execs" ELSE "starts") /\ a' = a /\ c' = c
  <2>1. b' \in Brokers /\ b'.order = b.order
    BY <1>4 DEF AComputer!BrokerGoes, ComputerInv, Brokers
  <2> QED
    BY <1>1, <1>4, <2>1, BrokerMoves DEF ComputerInv
<1> QED
  BY <1>2, <1>3, <1>4 DEF AComputer!Inspect, AComputer!InspectedAs

LEMMA StartsContainer == ASSUME ComputerInv, AComputer!StartContainer PROVE ComputerInv'
<1>1. CASE AComputer!Refuses /\ a' = a
  BY <1>1, BrokerRests DEF AComputer!Refuses, ComputerInv
<1>2. CASE /\ ~a.up /\ a.life < MaxLives /\ AComputer!BrokerGoes("execs") /\ c' = c
           /\ \E p \in Pages : a' = AComputer!Snapshot([AComputer!Off(a) EXCEPT !.up = TRUE, !.life = @ + 1, !.page = p, !.revision = 1])
  <2>1. PICK p \in Pages :
          a' = AComputer!Snapshot([AComputer!Off(a) EXCEPT !.up = TRUE, !.life = @ + 1, !.page = p, !.revision = 1])
    BY <1>2
  <2> DEFINE n == [AComputer!Off(a) EXCEPT !.up = TRUE, !.life = @ + 1, !.page = p, !.revision = 1]
  <2>2. AComputer!Off(a) \in Containers /\ AComputer!Off(a).life = a.life /\ AComputer!Off(a).print = "none"
        /\ AComputer!Off(a).queue = <<>> /\ AComputer!Off(a).serving = <<>>
    BY SwitchedOff DEF ComputerInv, ContainerOK, AComputer!Off
  <2>3. a.life \in Nat /\ a.life + 1 \in 0..MaxLives /\ 1 \in 0..MaxPageRevision
    BY <1>2, ComputerStays, Bounds
  <2>4. n \in Containers /\ n.up /\ n.life = a.life + 1 /\ n.page = p /\ n.print = "none" /\ n.queue = <<>> /\ n.serving = <<>>
    BY <2>2, <2>3 DEF Containers
  <2>5. a' = [n EXCEPT !.print = p]
    BY <2>1, <2>4 DEF AComputer!Snapshot
  <2> HIDE DEF n
  <2>6. a' \in Containers /\ a'.up /\ a'.life = a.life + 1 /\ a'.page = p /\ a'.print = p /\ a'.queue = <<>> /\ a'.serving = <<>>
    BY <2>4, <2>5 DEF Containers
  <2>7. ContainerOK(a') /\ Ages(a, a')
    BY <2>3, <2>6 DEF ContainerOK, Ages
  <2>8. ServedIsCurrent(a') /\ OrdersBehind(a'.queue, a) /\ OrdersBehind(a'.serving, a)
    BY <2>6 DEF ServedIsCurrent, OrdersBehind
  <2>9. b' \in Brokers /\ b'.order = b.order /\ b.order # <<>>
    BY <1>2 DEF AComputer!BrokerGoes, ComputerInv, Brokers, AComputer!StartContainer
  <2> QED
    BY <1>2, <2>7, <2>8, <2>9, GoesOn DEF ComputerInv, ViewsBehind
<1> QED
  BY <1>1, <1>2 DEF AComputer!StartContainer

LEMMA Executes == ASSUME ComputerInv, AComputer!ExecOrder PROVE ComputerInv'
<1>1. CASE AComputer!Refuses /\ a' = a
  BY <1>1, BrokerRests DEF AComputer!Refuses, ComputerInv
<1>2. CASE a.up /\ a' = [a EXCEPT !.queue = Append(@, AComputer!Order)] /\ AComputer!BrokerGoes("waits") /\ c' = c
  <2>1. b.at = "execs" /\ AComputer!Order \in AComputer!Orders /\ Behind(AComputer!Order.seen, a)
    BY AtWork DEF AComputer!ExecOrder
  <2> DEFINE q == Append(a.queue, AComputer!Order)
  <2>2. a.queue \in Seq(AComputer!Orders) /\ a \in Containers
    BY DEF ComputerInv, ContainerOK, Containers
  <2>3. /\ q \in Seq(AComputer!Orders) /\ DOMAIN q = DOMAIN a.queue \cup {Len(a.queue) + 1}
        /\ \A i \in DOMAIN a.queue : q[i] = a.queue[i]
        /\ q[Len(a.queue) + 1] = AComputer!Order
    BY <2>1, <2>2, AppendProperties, OrderTyped
  <2>4. a' = [a EXCEPT !.queue = q]
    BY <1>2
  <2> HIDE DEF q
  <2>5. OrdersBehind(q, a)
    BY <2>1, <2>3 DEF OrdersBehind, ComputerInv
  <2>6. a' \in Containers /\ a'.queue = q /\ a'.serving = a.serving /\ a'.up /\ a'.life = a.life /\ a'.page = a.page
        /\ a'.print = a.print /\ a'.revision = a.revision
    BY <1>2, <2>2, <2>3, <2>4 DEF Containers
  <2>7. ContainerOK(a') /\ Ages(a, a')
    BY <1>2, <2>6, ComputerStays DEF ContainerOK, Ages, ComputerInv
  <2>8. ServedIsCurrent(a') /\ OrdersBehind(a'.queue, a) /\ OrdersBehind(a'.serving, a)
    BY <2>5, <2>6 DEF ServedIsCurrent, OrdersBehind, ComputerInv
  <2>9. b' \in Brokers /\ b'.order = b.order /\ b.order # <<>>
    BY <1>2, <2>1 DEF AComputer!BrokerGoes, ComputerInv, Brokers
  <2> QED
    BY <1>2, <2>7, <2>8, <2>9, GoesOn DEF ComputerInv, ViewsBehind
<1> QED
  BY <1>1, <1>2 DEF AComputer!ExecOrder

LEMMA Forsaken ==
  ASSUME ComputerInv, NEW os \in Seq(AComputer!Orders), OrdersBehind(os, a), NEW gone,
         gone = [i \in DOMAIN os |-> [os[i] EXCEPT !.waited = FALSE]]
  PROVE  /\ gone \in Seq(AComputer!Orders) /\ OrdersBehind(gone, a) /\ DOMAIN gone = DOMAIN os
         /\ \A i \in DOMAIN os : gone[i].kind = os[i].kind /\ gone[i].seen = os[i].seen
         /\ os = <<>> => gone = <<>>
<1>1. Len(os) \in Nat /\ DOMAIN os = 1..Len(os) /\ \A i \in DOMAIN os : os[i] \in AComputer!Orders
  BY OrderTyped
<1>2. \A i \in DOMAIN os : gone[i] \in AComputer!Orders /\ gone[i].kind = os[i].kind /\ gone[i].seen = os[i].seen
  BY <1>1 DEF AComputer!Orders
<1>3. gone \in [1..Len(os) -> AComputer!Orders]
  BY <1>1, <1>2
<1>4. gone \in Seq(AComputer!Orders)
  BY <1>1, <1>3, SeqDef
<1>5. OrdersBehind(gone, a)
  BY <1>2 DEF OrdersBehind
<1>6. os = <<>> => gone = <<>>
  BY <1>4, EmptySeq, LenProperties
<1> QED
  BY <1>2, <1>4, <1>5, <1>6

LEMMA GivesUp == ASSUME ComputerInv, AComputer!GiveUp PROVE ComputerInv'
<1> DEFINE q == [i \in DOMAIN a.queue |-> [a.queue[i] EXCEPT !.waited = FALSE]]
           s == [i \in DOMAIN a.serving |-> [a.serving[i] EXCEPT !.waited = FALSE]]
<1>1. a' = [a EXCEPT !.queue = q, !.serving = s] /\ b' = AComputer!IdleBroker /\ c' = c
  BY DEF AComputer!GiveUp, AComputer!Refuses
<1>2. a \in Containers /\ a.queue \in Seq(AComputer!Orders) /\ a.serving \in Seq(AComputer!Orders)
      /\ OrdersBehind(a.queue, a) /\ OrdersBehind(a.serving, a)
  BY DEF ComputerInv, ContainerOK, Containers
<1>3. q \in Seq(AComputer!Orders) /\ OrdersBehind(q, a) /\ (a.queue = <<>> => q = <<>>)
  BY <1>2, Forsaken
<1>4. /\ s \in Seq(AComputer!Orders) /\ OrdersBehind(s, a) /\ (a.serving = <<>> => s = <<>>) /\ DOMAIN s = DOMAIN a.serving
      /\ \A i \in DOMAIN a.serving : s[i].kind = a.serving[i].kind /\ s[i].seen = a.serving[i].seen
  BY <1>2, Forsaken
<1> HIDE DEF q, s
<1>5. a' \in Containers /\ a'.queue = q /\ a'.serving = s /\ a'.up = a.up /\ a'.life = a.life /\ a'.page = a.page
      /\ a'.print = a.print /\ a'.revision = a.revision
  BY <1>1, <1>2, <1>3, <1>4 DEF Containers
<1>6. ContainerOK(a') /\ Ages(a, a')
  BY <1>3, <1>4, <1>5, ComputerStays DEF ContainerOK, Ages, ComputerInv
<1>7. ServedIsCurrent(a')
  BY <1>4, <1>5 DEF ServedIsCurrent, ComputerInv
<1> QED
  BY <1>1, <1>3, <1>4, <1>5, <1>6, <1>7, IdleTyped, GoesOn DEF ComputerInv, ViewsBehind

\* An order has been served by a container that went on to x meanwhile.
LEMMA ServedHolds ==
  ASSUME ComputerInv, NEW x, ContainerOK(x), x.up, Ages(a, x), OrdersBehind(x.queue, a),
         NEW order \in AComputer!Orders, NEW shown \in BOOLEAN, AComputer!Served(x, order, shown)
  PROVE  ComputerInv'
<1>1. <<>> \in Seq(AComputer!Orders) /\ DOMAIN <<>> = {}
  BY EmptySeq
<1> DEFINE empty == <<>>
<1>2. a' = [x EXCEPT !.serving = empty]
  BY DEF AComputer!Served
<1>3. empty \in Seq(AComputer!Orders) /\ DOMAIN empty = {}
  BY <1>1
<1> HIDE DEF empty
<1>4. a' \in Containers /\ a'.serving = empty /\ a'.up = x.up /\ a'.life = x.life /\ a'.page = x.page
      /\ a'.print = x.print /\ a'.revision = x.revision /\ a'.queue = x.queue /\ a'.asked = x.asked
  BY <1>2, <1>3 DEF ContainerOK, Containers
<1>5. ContainerOK(a') /\ Ages(a, a') /\ a'.up
  BY <1>4 DEF ContainerOK, Ages
<1>6. ServedIsCurrent(a') /\ OrdersBehind(a'.serving, a) /\ OrdersBehind(a'.queue, a)
  BY <1>3, <1>4 DEF ServedIsCurrent, OrdersBehind
<1>7. AComputer!Seen(x) = AComputer!Seen(a')
  BY <1>4 DEF AComputer!Seen
<1>8. AComputer!Seen(x) \in AComputer!Shown /\ Behind(AComputer!Seen(x), a')
  BY <1>5, <1>7, SeenIsBehind
<1>9. c' = c \/ c' = [c EXCEPT ![order.viewer] = AComputer!Seen(x)]
  BY DEF AComputer!Served
<1>10. c' \in [Viewers -> AComputer!Shown] /\ \A v \in Viewers : Behind(c'[v], a) \/ Behind(c'[v], a')
  BY <1>8, <1>9 DEF ComputerInv, ViewsBehind
<1>11. b' \in {b, AComputer!IdleBroker}
  BY DEF AComputer!Served
<1>12. b' \in Brokers /\ (b'.at # "idle" => b'.order # <<>>) /\ OrdersBehind(b'.order, a)
  BY <1>11, IdleTyped DEF ComputerInv
<1> QED
  BY <1>5, <1>6, <1>10, <1>12, GoesOn

LEMMA ServesNext == ASSUME ComputerInv, AComputer!ServeNext PROVE ComputerInv'
<1> DEFINE order == Head(a.queue)
           rest == Tail(a.queue)
           x == [a EXCEPT !.queue = rest]
           n == AComputer!Snapshot(x)
<1>1. a \in Containers /\ a.up /\ a.queue \in Seq(AComputer!Orders) /\ a.queue # <<>> /\ a.serving = <<>> /\ OrdersBehind(a.queue, a)
  BY DEF ComputerInv, ContainerOK, Containers, AComputer!ServeNext
<1>2. order \in AComputer!Orders /\ Behind(order.seen, a)
  BY <1>1, OrderTyped, HeadTailProperties, EmptySeq DEF OrdersBehind
<1>3. rest \in Seq(AComputer!Orders) /\ Len(rest) = Len(a.queue) - 1 /\ \A i \in 1..Len(rest) : rest[i] = a.queue[i+1]
  BY <1>1, HeadTailProperties
<1>4. DOMAIN rest = 1..Len(rest) /\ DOMAIN a.queue = 1..Len(a.queue) /\ Len(a.queue) \in Nat
  BY <1>1, <1>3, OrderTyped
<1>5. OrdersBehind(rest, a)
  BY <1>1, <1>3, <1>4 DEF OrdersBehind
<1>6. n.revision <= MaxPageRevision
      /\ IF order.kind \in AComputer!Touching /\ order.seen.revision # n.revision THEN AComputer!Served(n, order, FALSE)
         ELSE a' = [n EXCEPT !.serving = <<order>>] /\ b' = b /\ c' = c
  BY DEF AComputer!ServeNext
<1> HIDE DEF order, rest
<1>7. x \in Containers /\ x.up /\ x.serving = <<>> /\ x.life = a.life /\ x.page = a.page /\ x.print = a.print
      /\ x.revision = a.revision /\ x.queue = rest
  BY <1>1, <1>3 DEF Containers
<1>8. ContainerOK(x) /\ Ages(a, x)
  BY <1>7, ComputerStays DEF ContainerOK, Ages, ComputerInv
<1> HIDE DEF x
<1>9. /\ ContainerOK(n) /\ Ages(x, n) /\ n.up /\ n.queue = rest /\ n.serving = <<>>
  BY <1>6, <1>7, <1>8, Looked
<1> HIDE DEF n
<1>10. Ages(a, n) /\ n \in Containers
  BY <1>1, <1>7, <1>8, <1>9, AgesOn DEF ContainerOK
<1>11. CASE AComputer!Served(n, order, FALSE)
  BY <1>2, <1>5, <1>9, <1>10, <1>11, ServedHolds
<1>12. CASE /\ order.kind \in AComputer!Touching => order.seen.revision = n.revision
            /\ a' = [n EXCEPT !.serving = <<order>>] /\ b' = b /\ c' = c
  <2> DEFINE s == <<order>>
  <2>1. s \in Seq(AComputer!Orders) /\ \A i \in DOMAIN s : s[i] = order
    BY <1>2
  <2>2. a' = [n EXCEPT !.serving = s]
    BY <1>12
  <2> HIDE DEF s
  <2>3. a' \in Containers /\ a'.serving = s /\ a'.up /\ a'.life = n.life /\ a'.page = n.page
        /\ a'.print = n.print /\ a'.revision = n.revision /\ a'.queue = rest
    BY <1>9, <1>10, <2>1, <2>2 DEF Containers
  <2>4. ContainerOK(a') /\ Ages(a, a')
    BY <1>9, <1>10, <2>3 DEF ContainerOK, Ages
  <2>5. ServedIsCurrent(a')
    BY <1>12, <2>1, <2>3 DEF ServedIsCurrent
  <2>6. OrdersBehind(a'.serving, a) /\ OrdersBehind(a'.queue, a)
    BY <1>2, <1>5, <2>1, <2>3 DEF OrdersBehind
  <2> QED
    BY <1>12, <2>4, <2>5, <2>6, GoesOn DEF ComputerInv, ViewsBehind
<1> QED
  BY <1>6, <1>11, <1>12

\* What an order does to the page leaves the page last looked at.
LEMMA DoneKeeps ==
  ASSUME NEW x, ContainerOK(x), x.up, NEW order, NEW n \in AComputer!Done(order, x)
  PROVE  ContainerOK(n) /\ n.up /\ Ages(x, n) /\ n.queue = x.queue /\ n.revision = x.revision
<1>1. \/ n = x
      \/ \E p \in Pages, asked \in BOOLEAN : n = [x EXCEPT !.page = p, !.asked = asked]
      \/ n = [x EXCEPT !.asked = TRUE]
  BY DEF AComputer!Done, ContainerOK, Containers
<1>2. x.life \in Nat /\ x.revision \in Nat
  BY Bounds DEF ContainerOK, Containers
<1>3. n \in Containers /\ n.up /\ n.serving = x.serving /\ n.queue = x.queue /\ n.life = x.life /\ n.print = x.print
      /\ n.revision = x.revision /\ n.page \in Pages
  BY <1>1 DEF ContainerOK, Containers
<1> QED
  BY <1>2, <1>3 DEF ContainerOK, Ages

LEMMA ServesOrder == ASSUME ComputerInv, AComputer!ServeOrder PROVE ComputerInv'
<1> DEFINE order == a.serving[1]
           before == IF order.kind = "respond" THEN AComputer!Snapshot(a) ELSE a
<1>1. /\ a.up /\ a.serving # <<>> /\ before.revision <= MaxPageRevision
      /\ \/ AComputer!Served(before, order, FALSE)
         \/ \E x \in AComputer!Done(order, before) :
              LET after == AComputer!Snapshot(x) IN
              /\ after.revision <= MaxPageRevision
              /\ \/ AComputer!Served([after EXCEPT !.asked = @ \/ order.kind = "request_input"], order, TRUE)
                 \/ AComputer!Served(x, order, FALSE)
  BY DEF AComputer!ServeOrder
<1>2. a \in Containers /\ a.serving \in Seq(AComputer!Orders) /\ ContainerOK(a) /\ OrdersBehind(a.queue, a)
  BY DEF ComputerInv, ContainerOK, Containers
<1>3. order \in AComputer!Orders
  BY <1>1, <1>2, OrderTyped, EmptySeq
<1>4. ContainerOK(before) /\ before.up /\ Ages(a, before) /\ before.queue = a.queue
  <2>1. CASE before = a
    BY <1>1, <1>2, <2>1, ComputerStays
  <2>2. CASE before = AComputer!Snapshot(a)
    BY <1>1, <1>2, <2>2, Looked
  <2> QED
    BY <2>1, <2>2
<1> HIDE DEF order, before
<1>5. CASE AComputer!Served(before, order, FALSE)
  BY <1>2, <1>3, <1>4, <1>5, ServedHolds
<1>6. ASSUME NEW x \in AComputer!Done(order, before), NEW after, after = AComputer!Snapshot(x),
             after.revision <= MaxPageRevision,
             \/ AComputer!Served([after EXCEPT !.asked = @ \/ order.kind = "request_input"], order, TRUE)
             \/ AComputer!Served(x, order, FALSE)
      PROVE  ComputerInv'
  <2>1. ContainerOK(x) /\ x.up /\ Ages(before, x) /\ x.queue = a.queue
    BY <1>4, DoneKeeps
  <2>2. Ages(a, x) /\ x \in Containers
    BY <1>2, <1>4, <2>1, AgesOn DEF ContainerOK
  <2>3. CASE AComputer!Served(x, order, FALSE)
    BY <1>2, <1>3, <2>1, <2>2, <2>3, ServedHolds
  <2>4. CASE AComputer!Served([after EXCEPT !.asked = @ \/ order.kind = "request_input"], order, TRUE)
    <3>1. ContainerOK(after) /\ Ages(x, after) /\ after.up /\ after.queue = a.queue
      BY <1>6, <2>1, Looked
    <3>2. Ages(a, after)
      BY <1>2, <2>2, <3>1, AgesOn DEF ContainerOK
    <3> DEFINE asked == after.asked \/ order.kind = "request_input"
               n == [after EXCEPT !.asked = asked]
    <3>3. asked \in BOOLEAN
      BY <3>1 DEF ContainerOK, Containers
    <3> HIDE DEF asked
    <3>4. ContainerOK(n) /\ n.up /\ Ages(a, n) /\ n.queue = a.queue
      BY <3>1, <3>2, <3>3 DEF ContainerOK, Containers, Ages
    <3>5. AComputer!Served(n, order, TRUE)
      BY <2>4 DEF asked
    <3> HIDE DEF n
    <3> QED
      BY <1>2, <1>3, <3>4, <3>5, ServedHolds
  <2> QED
    BY <1>6, <2>3, <2>4
<1> QED
  BY <1>1, <1>5, <1>6

LEMMA ComputerStep == ASSUME ComputerInv, [AComputer!ComputerNext]_<<a, b, c>> PROVE ComputerInv'
<1>1. CASE AComputer!IdleEnds
  <2>1. ContainerOK(a') /\ Ages(a, a') /\ a'.queue = <<>> /\ a'.serving = <<>> /\ ServedIsCurrent(a') /\ b' = b /\ c' = c
    BY <1>1, SwitchedOff DEF AComputer!IdleEnds, ComputerInv, ContainerOK
  <2>2. OrdersBehind(a'.queue, a) /\ OrdersBehind(a'.serving, a)
    BY <2>1 DEF OrdersBehind
  <2> QED
    BY <2>1, <2>2, GoesOn DEF ComputerInv, ViewsBehind
<1>2. ASSUME NEW p \in Pages, AComputer!PageChanges(p) PROVE ComputerInv'
  <2>1. a' = [a EXCEPT !.page = p] /\ a.up /\ b' = b /\ c' = c /\ a \in Containers
    BY <1>2 DEF AComputer!PageChanges, ComputerInv, ContainerOK
  <2>2. a' \in Containers /\ a'.serving = a.serving /\ a'.up /\ a'.life = a.life /\ a'.page = p
        /\ a'.print = a.print /\ a'.revision = a.revision /\ a'.queue = a.queue
    BY <2>1 DEF Containers
  <2>3. ContainerOK(a') /\ Ages(a, a')
    BY <2>1, <2>2, ComputerStays DEF ContainerOK, Ages, ComputerInv
  <2>4. ServedIsCurrent(a')
    BY <2>2 DEF ServedIsCurrent, ComputerInv
  <2> QED
    BY <2>1, <2>2, <2>3, <2>4, GoesOn DEF ComputerInv, ViewsBehind
<1>3. CASE UNCHANGED <<a, b, c>>
  BY <1>3 DEF ComputerInv, ContainerOK, ServedIsCurrent, OrdersBehind, ViewsBehind, Behind
<1> QED
  BY <1>1, <1>2, <1>3, Sends, Inspects, StartsContainer, Executes, GivesUp, ServesNext, ServesOrder DEF AComputer!ComputerNext

-----------------------------------------------------------------------------
(* The butler: one lamp order at most is under way, each timer is for a    *)
(* task of its kind, and after an order that was lost there is none.       *)

ButlerStates ==
  [tasks : Seq(AButler!DemoTask), light : AButler!Levels \cup {42}, actual : AButler!Levels \cup {42},
   lightUnknown : BOOLEAN, empty : BOOLEAN, failure : BOOLEAN]
UnderWay(s) == {i \in DOMAIN s : s[i].kind = "light" /\ s[i].status \in {"running", "waiting"}}
TimersFit(s, timers) ==
  \A t \in timers : /\ t.task \in DOMAIN s
                    /\ t.does = "lamp" <=> s[t.task].kind = "light"
                    /\ t.does = "lamp" => t.value \in AButler!Levels
NoLampWaits(s) == \A i \in DOMAIN s : s[i].status = "waiting" => s[i].kind # "light"
OneOrder(s) == \A i, j \in UnderWay(s) : i = j
LampKnown(x) ==
  IF x.lightUnknown
    THEN UnderWay(x.tasks) = {} /\ \E i \in DOMAIN x.tasks : x.tasks[i].kind = "light" /\ x.tasks[i].status = "unknown"
    ELSE x.light = x.actual

ButlerInv ==
  /\ a \in ButlerStates /\ b \in SUBSET AButler!TimerRecords
  /\ Len(a.tasks) <= MaxDemoTasks /\ TimersFit(a.tasks, b) /\ OneOrder(a.tasks) /\ LampKnown(a)
  /\ NoLampWaits(a.tasks)

LEMMA ButlerHolds == ASSUME ButlerInv PROVE AButler!ButlerTypeOK /\ AButler!LampAsShown
<1>1. AButler!ButlerTypeOK
  BY DEF ButlerInv, AButler!ButlerTypeOK, ButlerStates
<1>2. \A i \in DOMAIN a.tasks : a.tasks[i] \in AButler!DemoTask
  BY DEF ButlerInv, ButlerStates
<1>3. AButler!LampAsShown
  BY <1>2 DEF ButlerInv, LampKnown, UnderWay, AButler!LampAsShown, AButler!Active, AButler!DemoTask
<1> QED
  BY <1>1, <1>3

\* A demonstration that is fresh, with whatever switch for failures.
LEMMA FreshIsFit ==
  ASSUME NEW f \in BOOLEAN, a' = AButler!FreshButler(f), b' = {}
  PROVE  ButlerInv'
<1>1. a' \in ButlerStates /\ Len(a'.tasks) = 0 /\ DOMAIN a'.tasks = {} /\ ~a'.lightUnknown /\ a'.light = a'.actual
  BY EmptySeq DEF AButler!FreshButler, ButlerStates
<1>2. UnderWay(a'.tasks) = {}
  BY <1>1 DEF UnderWay
<1> QED
  BY <1>1, <1>2, Bounds DEF ButlerInv, TimersFit, OneOrder, LampKnown, NoLampWaits

LEMMA ButlerStarts == ASSUME AButler!ButlerInit PROVE ButlerInv
<1>1. a \in ButlerStates /\ Len(a.tasks) = 0 /\ DOMAIN a.tasks = {} /\ ~a.lightUnknown /\ a.light = a.actual /\ b = {}
  BY EmptySeq DEF AButler!ButlerInit, AButler!FreshButler, ButlerStates
<1>2. UnderWay(a.tasks) = {}
  BY <1>1 DEF UnderWay
<1> QED
  BY <1>1, <1>2, Bounds DEF ButlerInv, TimersFit, OneOrder, LampKnown, NoLampWaits

\* Tasks that go on, or end, in their places.
GoOn(s, t) ==
  /\ t \in Seq(AButler!DemoTask) /\ Len(t) = Len(s)
  /\ \A i \in DOMAIN s : /\ t[i].kind = s[i].kind
                         /\ t[i].status \in {"running", "waiting"} => s[i].status \in {"running", "waiting"}
                         /\ t[i].status = "waiting" => s[i].kind # "light"

LEMMA GoneOn ==
  ASSUME ButlerInv, NEW t, GoOn(a.tasks, t)
  PROVE  /\ DOMAIN t = DOMAIN a.tasks /\ UnderWay(t) \subseteq UnderWay(a.tasks) /\ OneOrder(t)
         /\ TimersFit(t, b) /\ Len(t) <= MaxDemoTasks /\ NoLampWaits(t)
<1>1. a.tasks \in Seq(AButler!DemoTask)
  BY DEF ButlerInv, ButlerStates
<1>2. DOMAIN t = DOMAIN a.tasks
  BY <1>1, LenProperties DEF GoOn
<1>3. UnderWay(t) \subseteq UnderWay(a.tasks)
  BY <1>2 DEF UnderWay, GoOn
<1>4. OneOrder(t)
  BY <1>3 DEF OneOrder, ButlerInv
<1>5. TimersFit(t, b) /\ NoLampWaits(t)
  BY <1>2 DEF GoOn, TimersFit, NoLampWaits, ButlerInv
<1> QED
  BY <1>2, <1>3, <1>4, <1>5 DEF GoOn, ButlerInv

\* A task that is given another status.
LEMMA Patched ==
  ASSUME ButlerInv, NEW i \in DOMAIN a.tasks, a.tasks[i].status \in {"running", "waiting"},
         NEW st \in {"running", "waiting", "done", "unknown", "cancelled"}, st = "waiting" => a.tasks[i].kind # "light",
         NEW t, t = [a.tasks EXCEPT ![i].status = st]
  PROVE  /\ GoOn(a.tasks, t) /\ AButler!Patch(i, st) = [a EXCEPT !.tasks = t] /\ AButler!Patch(i, st) \in ButlerStates
         /\ t[i].status = st /\ \A j \in DOMAIN a.tasks : j # i => t[j] = a.tasks[j]
<1>1. a.tasks \in Seq(AButler!DemoTask) /\ i \in 1..Len(a.tasks) /\ DOMAIN a.tasks = 1..Len(a.tasks)
  BY LenProperties DEF ButlerInv, ButlerStates
<1>2. a.tasks[i] \in AButler!DemoTask
  BY <1>1, ElementOfSeq
<1> DEFINE task == [a.tasks[i] EXCEPT !.status = st]
<1>3. task \in AButler!DemoTask /\ task.kind = a.tasks[i].kind /\ task.status = st
  BY <1>2 DEF AButler!DemoTask
<1>4. t = [a.tasks EXCEPT ![i] = task]
  OBVIOUS
<1> HIDE DEF task
<1>5. t \in Seq(AButler!DemoTask) /\ Len(t) = Len(a.tasks) /\ \A j \in 1..Len(a.tasks) : t[j] = IF j = i THEN task ELSE a.tasks[j]
  BY <1>1, <1>3, <1>4, ExceptSeq
<1>6. GoOn(a.tasks, t)
  BY <1>1, <1>3, <1>5 DEF GoOn, ButlerInv, NoLampWaits
<1>7. AButler!Patch(i, st) = [a EXCEPT !.tasks = t]
  BY DEF AButler!Patch, ButlerInv, ButlerStates
<1> QED
  BY <1>1, <1>3, <1>5, <1>6, <1>7 DEF ButlerInv, ButlerStates

\* A task that ends or waits, with the lamp as it was.
LEMMA PatchedHolds ==
  ASSUME ButlerInv, NEW i \in DOMAIN a.tasks, a.tasks[i].status \in {"running", "waiting"},
         NEW st \in {"running", "waiting", "done", "cancelled"}, st = "waiting" => a.tasks[i].kind # "light",
         a' = AButler!Patch(i, st), b' \in SUBSET AButler!TimerRecords, TimersFit(a.tasks, b')
  PROVE  ButlerInv'
<1> DEFINE t == [a.tasks EXCEPT ![i].status = st]
<1>1. /\ GoOn(a.tasks, t) /\ a' = [a EXCEPT !.tasks = t] /\ a' \in ButlerStates
      /\ \A j \in DOMAIN a.tasks : j # i => t[j] = a.tasks[j]
  BY Patched
<1> HIDE DEF t
<1>2. /\ DOMAIN t = DOMAIN a.tasks /\ UnderWay(t) \subseteq UnderWay(a.tasks) /\ OneOrder(t)
      /\ TimersFit(t, b) /\ Len(t) <= MaxDemoTasks /\ NoLampWaits(t)
  BY <1>1, GoneOn
<1>3. a'.tasks = t /\ a'.lightUnknown = a.lightUnknown /\ a'.light = a.light /\ a'.actual = a.actual
  BY <1>1 DEF ButlerInv, ButlerStates
<1>4. LampKnown(a)'
  BY <1>1, <1>2, <1>3 DEF ButlerInv, LampKnown
<1>5. TimersFit(t, b')
  BY <1>1, <1>2 DEF TimersFit, GoOn
<1> QED
  BY <1>1, <1>2, <1>3, <1>4, <1>5 DEF ButlerInv

\* A task is added, with timers for it.
LEMMA TaskAdded ==
  ASSUME ButlerInv, Len(a.tasks) < MaxDemoTasks, NEW k \in AButler!DemoKinds,
         NEW n, n = [kind |-> k, status |-> "running"], NEW new \in SUBSET AButler!TimerRecords,
         a' = [a EXCEPT !.tasks = Append(@, n)], b' = b \cup new,
         \A t \in new : /\ t.task = Len(a.tasks) + 1
                        /\ t.does = "lamp" <=> k = "light"
                        /\ t.does = "lamp" => t.value \in AButler!Levels,
         k = "light" => UnderWay(a.tasks) = {} /\ ~a.lightUnknown
  PROVE  ButlerInv'
<1>1. a.tasks \in Seq(AButler!DemoTask) /\ n \in AButler!DemoTask /\ Len(a.tasks) \in Nat /\ DOMAIN a.tasks = 1..Len(a.tasks)
  BY LenProperties DEF ButlerInv, ButlerStates, AButler!DemoTask
<1> DEFINE s == Append(a.tasks, n)
<1>2. /\ s \in Seq(AButler!DemoTask) /\ Len(s) = Len(a.tasks) + 1 /\ s[Len(a.tasks) + 1] = n
      /\ DOMAIN s = DOMAIN a.tasks \cup {Len(a.tasks) + 1} /\ \A i \in DOMAIN a.tasks : s[i] = a.tasks[i]
  BY <1>1, AppendProperties
<1> HIDE DEF s
<1>3. a' \in ButlerStates /\ a'.tasks = s /\ a'.lightUnknown = a.lightUnknown /\ a'.light = a.light /\ a'.actual = a.actual
  BY <1>2 DEF ButlerInv, ButlerStates, s
<1>4. b' \in SUBSET AButler!TimerRecords
  BY DEF ButlerInv
<1>5. TimersFit(s, b')
  <2> SUFFICES ASSUME NEW t \in b'
               PROVE  /\ t.task \in DOMAIN s
                      /\ t.does = "lamp" <=> s[t.task].kind = "light"
                      /\ t.does = "lamp" => t.value \in AButler!Levels
    BY DEF TimersFit
  <2>1. CASE t \in b
    BY <1>2, <2>1 DEF ButlerInv, TimersFit
  <2>2. CASE t \in new
    BY <1>2, <2>2
  <2> QED
    BY <2>1, <2>2
<1>6. UnderWay(s) = UnderWay(a.tasks) \cup (IF k = "light" THEN {Len(a.tasks) + 1} ELSE {})
  BY <1>1, <1>2 DEF UnderWay
<1>7. OneOrder(s)
  BY <1>6 DEF OneOrder, ButlerInv
<1>8. LampKnown(a)'
  BY <1>2, <1>3, <1>6, ZenonT(60) DEF LampKnown, ButlerInv
<1>9. Len(s) <= MaxDemoTasks
  <2>1. Len(s) = Len(a.tasks) + 1 /\ Len(a.tasks) \in Nat /\ MaxDemoTasks \in Nat
    BY <1>1, <1>2, Bounds
  <2>2. Len(a.tasks) < MaxDemoTasks
    OBVIOUS
  <2> QED
    BY ONLY <2>1, <2>2
<1>10. NoLampWaits(s)
  BY <1>2 DEF NoLampWaits, ButlerInv
<1> QED
  BY <1>3, <1>4, <1>5, <1>7, <1>8, <1>9, <1>10 DEF ButlerInv

\* What the lamp answers, known or lost.
LEMMA LampAnswers ==
  ASSUME ButlerInv, NEW t \in b, t.does = "lamp", a.tasks[t.task].status = "running",
         a' = AButler!LightAnswered(t), b' = b \ {t}
  PROVE  ButlerInv'
<1> DEFINE i == t.task
           st == IF a.failure THEN "unknown" ELSE "done"
           s == [a.tasks EXCEPT ![i].status = st]
<1>1. i \in DOMAIN a.tasks /\ a.tasks[i].kind = "light" /\ t.value \in AButler!Levels /\ i \in UnderWay(a.tasks)
  BY DEF ButlerInv, TimersFit, UnderWay
<1>2. /\ GoOn(a.tasks, s) /\ AButler!Patch(i, st) = [a EXCEPT !.tasks = s] /\ AButler!Patch(i, st) \in ButlerStates
      /\ s[i].status = st
  BY <1>1, Patched
<1>3. /\ DOMAIN s = DOMAIN a.tasks /\ UnderWay(s) \subseteq UnderWay(a.tasks) /\ OneOrder(s)
      /\ TimersFit(s, b) /\ Len(s) <= MaxDemoTasks /\ NoLampWaits(s)
  BY <1>2, GoneOn
<1>4. a' \in ButlerStates /\ a'.tasks = s /\ a'.actual = t.value
      /\ IF a.failure THEN a'.lightUnknown ELSE a'.lightUnknown = a.lightUnknown /\ a'.light = t.value
  BY <1>1, <1>2 DEF AButler!LightAnswered, ButlerStates, ButlerInv
<1>5. ~a.lightUnknown
  BY <1>1 DEF ButlerInv, LampKnown
<1>6. UnderWay(s) = {}
  BY <1>1, <1>2, <1>3 DEF UnderWay, OneOrder, ButlerInv
<1>7. s[i].kind = "light"
  BY <1>1, <1>2 DEF GoOn
<1> HIDE DEF s, i
<1>8. LampKnown(a)'
  BY <1>1, <1>2, <1>3, <1>4, <1>5, <1>6, <1>7 DEF LampKnown
<1>9. TimersFit(s, b')
  BY <1>3 DEF TimersFit
<1>10. b' \in SUBSET AButler!TimerRecords
  BY DEF ButlerInv
<1> QED
  BY <1>3, <1>4, <1>8, <1>9, <1>10 DEF ButlerInv

\* Several tasks are settled or called off at once.
LEMMA Settling ==
  ASSUME ButlerInv, NEW s, DOMAIN s = DOMAIN a.tasks,
         \A i \in DOMAIN a.tasks :
           s[i] \in {a.tasks[i]} \cup {[a.tasks[i] EXCEPT !.status = st] : st \in {"done", "cancelled"}},
         s = [i \in DOMAIN a.tasks |-> s[i]]
  PROVE  GoOn(a.tasks, s)
<1>1. a.tasks \in Seq(AButler!DemoTask) /\ DOMAIN a.tasks = 1..Len(a.tasks) /\ Len(a.tasks) \in Nat
  BY LenProperties DEF ButlerInv, ButlerStates
<1>2. \A i \in DOMAIN a.tasks : a.tasks[i] \in AButler!DemoTask
  BY <1>1, ElementOfSeq
<1>3. \A i \in DOMAIN a.tasks :
        /\ s[i] \in AButler!DemoTask /\ s[i].kind = a.tasks[i].kind
        /\ s[i].status \in {"running", "waiting"} => s[i] = a.tasks[i]
  <2> SUFFICES ASSUME NEW i \in DOMAIN a.tasks
               PROVE  /\ s[i] \in AButler!DemoTask /\ s[i].kind = a.tasks[i].kind
                      /\ s[i].status \in {"running", "waiting"} => s[i] = a.tasks[i]
    OBVIOUS
  <2>1. a.tasks[i] \in AButler!DemoTask
    BY <1>2
  <2>2. ASSUME NEW st \in {"done", "cancelled"}, s[i] = [a.tasks[i] EXCEPT !.status = st]
        PROVE  s[i] \in AButler!DemoTask /\ s[i].kind = a.tasks[i].kind /\ s[i].status = st
    BY <2>1, <2>2 DEF AButler!DemoTask
  <2> QED
    BY <2>1, <2>2
<1>4. s \in [1..Len(a.tasks) -> AButler!DemoTask]
  BY <1>1, <1>3
<1>5. s \in Seq(AButler!DemoTask) /\ Len(s) = Len(a.tasks)
  BY <1>1, <1>4, SeqDef, LenProperties
<1> QED
  BY <1>3, <1>5 DEF GoOn, ButlerInv, NoLampWaits

\* What was settled with nothing left under way, or only under way as it was.
LEMMA SettledHolds ==
  ASSUME ButlerInv, NEW s, GoOn(a.tasks, s), a' \in ButlerStates, a'.tasks = s, b' = b, LampKnown(a)'
  PROVE  ButlerInv'
BY GoneOn DEF ButlerInv

LEMMA ButlerStep == ASSUME ButlerInv, [AButler!ButlerNext]_<<a, b>> PROVE ButlerInv'
<1>0. a \in ButlerStates /\ a.tasks \in Seq(AButler!DemoTask) /\ Len(a.tasks) \in Nat /\ DOMAIN a.tasks = 1..Len(a.tasks)
  BY LenProperties DEF ButlerInv, ButlerStates
<1>1. ASSUME NEW k \in {"organize", "repair"}, AButler!DemoJob(k) PROVE ButlerInv'
  <2> DEFINE new == {[task |-> Len(a.tasks) + 1, does |-> x, value |-> 0] : x \in {"step", "last"}}
  <2>0. Len(a.tasks) < MaxDemoTasks
    BY <1>1 DEF AButler!DemoJob
  <2>1. Len(a.tasks) < MaxDemoTasks /\ Len(a.tasks) + 1 \in AButler!DemoTasks
    BY <1>0, <2>0, Bounds DEF AButler!DemoTasks
  <2>2. new \in SUBSET AButler!TimerRecords
    BY <2>1 DEF AButler!TimerRecords
  <2>3. k \in AButler!DemoKinds
    BY DEF AButler!DemoKinds
  <2>4. \A t \in new : t.task = Len(a.tasks) + 1 /\ t.does # "lamp"
    OBVIOUS
  <2>5. a' = [a EXCEPT !.tasks = Append(@, [kind |-> k, status |-> "running"])] /\ b' = b \cup new
    BY <1>1 DEF AButler!DemoJob
  <2> HIDE DEF new
  <2> QED
    BY <2>1, <2>2, <2>3, <2>4, <2>5, TaskAdded
<1>2. ASSUME NEW v \in AButler!Levels, AButler!AdjustLight(v) PROVE ButlerInv'
  <2> DEFINE timer == [task |-> Len(a.tasks) + 1, does |-> "lamp", value |-> v]
  <2>0. Len(a.tasks) + 1 <= MaxDemoTasks
    BY <1>2 DEF AButler!AdjustLight
  <2>1. Len(a.tasks) < MaxDemoTasks /\ Len(a.tasks) + 1 \in AButler!DemoTasks
    BY <1>0, <2>0, Bounds DEF AButler!DemoTasks
  <2>2. {timer} \in SUBSET AButler!TimerRecords
    BY <2>1 DEF AButler!TimerRecords
  <2>3. "light" \in AButler!DemoKinds
    BY DEF AButler!DemoKinds
  <2>4. UnderWay(a.tasks) = {} /\ ~a.lightUnknown
    BY <1>2 DEF AButler!AdjustLight, AButler!Active, UnderWay
  <2>5. a' = [a EXCEPT !.tasks = Append(@, [kind |-> "light", status |-> "running"])] /\ b' = b \cup {timer}
    BY <1>2 DEF AButler!AdjustLight
  <2>6. \A t \in {timer} : t.task = Len(a.tasks) + 1 /\ t.does = "lamp" /\ t.value \in AButler!Levels
    OBVIOUS
  <2> HIDE DEF timer
  <2> QED
    BY <2>1, <2>2, <2>3, <2>4, <2>5, <2>6, TaskAdded
<1>3. ASSUME NEW i \in AButler!DemoTasks, AButler!ConfirmDate(i) PROVE ButlerInv'
  <2> DEFINE timer == [task |-> i, does |-> "package", value |-> 0]
  <2>1. i \in DOMAIN a.tasks /\ a.tasks[i].status = "waiting" /\ a' = AButler!Patch(i, "running") /\ b' = b \cup {timer}
    BY <1>3 DEF AButler!ConfirmDate
  <2>2. a.tasks[i].kind # "light"
    BY <2>1 DEF ButlerInv, NoLampWaits
  <2>3. b' \in SUBSET AButler!TimerRecords
    BY <2>1 DEF ButlerInv, AButler!TimerRecords
  <2>4. TimersFit(a.tasks, b')
    <3> SUFFICES ASSUME NEW t \in b'
                 PROVE  /\ t.task \in DOMAIN a.tasks
                        /\ t.does = "lamp" <=> a.tasks[t.task].kind = "light"
                        /\ t.does = "lamp" => t.value \in AButler!Levels
      BY DEF TimersFit
    <3>1. CASE t \in b
      BY <3>1 DEF ButlerInv, TimersFit
    <3>2. CASE t = timer
      BY <2>1, <2>2, <3>2
    <3> QED
      BY <2>1, <3>1, <3>2
  <2> HIDE DEF timer
  <2> QED
    BY <2>1, <2>3, <2>4, PatchedHolds
<1>4. ASSUME NEW i \in AButler!DemoTasks, AButler!CancelTask(i) PROVE ButlerInv'
  BY <1>4, PatchedHolds DEF AButler!CancelTask, ButlerInv
<1>5. ASSUME NEW t \in b, AButler!TimerFires(t) PROVE ButlerInv'
  <2>1. /\ t \in AButler!TimerRecords /\ t.task \in DOMAIN a.tasks /\ b' = b \ {t}
        /\ t.does = "lamp" <=> a.tasks[t.task].kind = "light"
    BY <1>5 DEF ButlerInv, TimersFit, AButler!TimerFires
  <2>2. b' \in SUBSET AButler!TimerRecords /\ TimersFit(a.tasks, b')
    BY <2>1 DEF ButlerInv, TimersFit
  <2>3. CASE a' = a
    BY <2>2, <2>3 DEF ButlerInv, LampKnown
  <2>4. CASE a.tasks[t.task].status = "running" /\ t.does = "last"
    <3>1. PICK st \in {"waiting", "done"} : a' = AButler!Patch(t.task, st)
      BY <1>5, <2>4 DEF AButler!TimerFires
    <3> QED
      BY <2>1, <2>2, <2>4, <3>1, PatchedHolds
  <2>5. CASE a.tasks[t.task].status = "running" /\ t.does = "package"
    <3>1. a' = AButler!Patch(t.task, "done")
      BY <1>5, <2>5 DEF AButler!TimerFires
    <3> QED
      BY <2>1, <2>2, <2>5, <3>1, PatchedHolds
  <2>6. CASE a.tasks[t.task].status = "running" /\ t.does = "lamp"
    <3>1. a' = AButler!LightAnswered(t)
      BY <1>5, <2>6 DEF AButler!TimerFires
    <3> QED
      BY <2>1, <2>6, <3>1, LampAnswers
  <2>7. t.does \in {"step", "last", "package", "lamp"}
    BY <2>1 DEF AButler!TimerRecords
  <2>8. a.tasks[t.task].status # "running" \/ t.does = "step" => a' = a
    BY <1>5 DEF AButler!TimerFires
  <2> QED
    BY <2>3, <2>4, <2>5, <2>6, <2>7, <2>8
<1>6. CASE AButler!RecheckLight
  <2> DEFINE s == [i \in DOMAIN a.tasks |-> IF a.tasks[i].kind = "light" /\ a.tasks[i].status = "unknown"
                                            THEN [a.tasks[i] EXCEPT !.status = "done"] ELSE a.tasks[i]]
  <2>1. a' = [a EXCEPT !.light = a.actual, !.lightUnknown = FALSE, !.tasks = s] /\ b' = b
    BY <1>6 DEF AButler!RecheckLight
  <2>2. GoOn(a.tasks, s)
    BY Settling
  <2> HIDE DEF s
  <2>3. a' \in ButlerStates /\ a'.tasks = s /\ ~a'.lightUnknown /\ a'.light = a'.actual
    BY <1>0, <2>1, <2>2 DEF ButlerStates, GoOn
  <2> QED
    BY <2>1, <2>2, <2>3, SettledHolds DEF LampKnown
<1>7. CASE AButler!SetDemoEmpty
  <2> DEFINE s == [i \in DOMAIN a.tasks |-> IF a.tasks[i].status \in {"running", "waiting"}
                                            THEN [a.tasks[i] EXCEPT !.status = "cancelled"] ELSE a.tasks[i]]
  <2>1. a' = [a EXCEPT !.empty = TRUE, !.tasks = s] /\ b' = b
    BY <1>7 DEF AButler!SetDemoEmpty
  <2>2. GoOn(a.tasks, s)
    BY Settling
  <2>3. DOMAIN s = DOMAIN a.tasks /\ \A i \in DOMAIN a.tasks : a.tasks[i].status = "unknown" => s[i] = a.tasks[i]
    OBVIOUS
  <2> HIDE DEF s
  <2>4. a' \in ButlerStates /\ a'.tasks = s /\ a'.lightUnknown = a.lightUnknown /\ a'.light = a.light /\ a'.actual = a.actual
    BY <1>0, <2>1, <2>2 DEF ButlerStates, GoOn
  <2>5. UnderWay(s) \subseteq UnderWay(a.tasks)
    BY <2>2, GoneOn
  <2>6. LampKnown(a)'
    BY <2>3, <2>4, <2>5 DEF LampKnown, ButlerInv
  <2> QED
    BY <2>1, <2>2, <2>4, <2>6, SettledHolds
<1>8. CASE AButler!ToggleFailure
  BY <1>8 DEF AButler!ToggleFailure, ButlerInv, ButlerStates, LampKnown
<1>9. CASE AButler!ClearButler
  BY <1>0, <1>9, FreshIsFit DEF AButler!ClearButler, ButlerStates
<1>10. CASE UNCHANGED <<a, b>>
  BY <1>10 DEF ButlerInv, LampKnown
<1> QED
  BY <1>1, <1>2, <1>3, <1>4, <1>5, <1>6, <1>7, <1>8, <1>9, <1>10 DEF AButler!ButlerNext

-----------------------------------------------------------------------------
(* The settings dialog: a preview under way is of the file chosen, unless  *)
(* it was overtaken.                                                       *)

Dialogs ==
  [open : BOOLEAN, job : AControl!ControlJobs, passphrase : BOOLEAN, key : BOOLEAN,
   id : Profiles, expected : 0..MaxProfile, sent : Profiles, basis : 0..MaxProfile,
   tried : BOOLEAN, file : OldFiles \cup {NoOldFile}, previewed : OldFiles \cup {NoOldFile},
   asked : OldFiles \cup {NoOldFile}, overtaken : BOOLEAN]
Cores == [locked : BOOLEAN, revision : [Profiles -> 0..MaxProfile]]
PreviewsOfFile(x) ==
  /\ x.file # NoOldFile /\ x.previewed # NoOldFile => x.previewed = x.file \/ x.overtaken
  /\ x.job = "previews" /\ x.file # NoOldFile => x.asked = x.file \/ x.overtaken
ControlInv == a \in Dialogs /\ b \in Cores /\ PreviewsOfFile(a)

LEMMA ControlHolds == ASSUME ControlInv PROVE AControl!ControlTypeOK /\ AControl!PreviewIsOfFile
BY DEF ControlInv, Dialogs, Cores, PreviewsOfFile, AControl!ControlTypeOK, AControl!PreviewIsOfFile

LEMMA ControlStarts == ASSUME AControl!ControlInit PROVE ControlInv
<1>1. 0 \in 0..MaxProfile
  BY Bounds
<1>2. PICK p \in Profiles :
        /\ a = [open |-> FALSE, job |-> "idle", passphrase |-> FALSE, key |-> FALSE, id |-> p,
                expected |-> 0, sent |-> p, basis |-> 0, tried |-> FALSE, file |-> NoOldFile,
                previewed |-> NoOldFile, asked |-> NoOldFile, overtaken |-> FALSE]
        /\ b = [locked |-> TRUE, revision |-> [q \in Profiles |-> 0]]
  BY DEF AControl!ControlInit
<1>3. a \in Dialogs /\ b \in Cores
  BY <1>1, <1>2 DEF Dialogs, Cores, AControl!ControlJobs
<1> QED
  BY <1>2, <1>3 DEF ControlInv, PreviewsOfFile

\* A revision that is not at its bound is raised by one.
LEMMA Raised ==
  ASSUME b \in Cores, NEW p \in Profiles, b.revision[p] < MaxProfile, NEW n, n = [b EXCEPT !.revision[p] = @ + 1]
  PROVE  n \in Cores /\ n.revision[p] \in 0..MaxProfile
<1>1. b.revision[p] \in 0..MaxProfile /\ b.revision \in [Profiles -> 0..MaxProfile]
  BY DEF Cores
<1>2. b.revision[p] + 1 \in 0..MaxProfile
  BY <1>1, Bounds
<1>3. [b.revision EXCEPT ![p] = @ + 1] \in [Profiles -> 0..MaxProfile]
      /\ [b.revision EXCEPT ![p] = @ + 1][p] = b.revision[p] + 1
  BY <1>1, <1>2
<1> QED
  BY <1>2, <1>3 DEF Cores

LEMMA JobEnds ==
  ASSUME a \in Dialogs, AControl!JobFailed
  PROVE  a' \in Dialogs /\ a'.file = a.file /\ a'.previewed = a.previewed /\ a'.overtaken = a.overtaken /\ a'.job # "previews"
BY DEF AControl!JobFailed, Dialogs, AControl!ControlJobs

LEMMA JobGoesOn ==
  ASSUME a \in Dialogs, NEW job \in AControl!ControlJobs \ {"previews"}, a' = [a EXCEPT !.job = job]
  PROVE  a' \in Dialogs /\ a'.file = a.file /\ a'.previewed = a.previewed /\ a'.overtaken = a.overtaken /\ a'.job # "previews"
BY DEF Dialogs

LEMMA ControlStep == ASSUME ControlInv, [AControl!ControlNext]_<<a, b>> PROVE ControlInv'
<1> USE DEF ControlInv
<1>0. ASSUME a' \in Dialogs, b' \in Cores, a'.file = a.file, a'.previewed = a.previewed, a'.overtaken = a.overtaken,
             a'.job # "previews" \/ (a'.job = a.job /\ a'.asked = a.asked)
      PROVE  ControlInv'
  BY <1>0 DEF PreviewsOfFile
<1>j. {"idle", "asks", "unlocks", "saves", "refreshes", "tests", "test_asks", "applies", "activates", "store"}
        \subseteq AControl!ControlJobs \ {"previews"} /\ "previews" \in AControl!ControlJobs
  BY DEF AControl!ControlJobs
<1>1. CASE AControl!OpenSettings
  BY <1>0, <1>1 DEF AControl!OpenSettings, Dialogs
<1>2. CASE AControl!TypeKey
  BY <1>0, <1>2 DEF AControl!TypeKey, Dialogs
<1>3. CASE AControl!TypePassphrase
  BY <1>0, <1>3 DEF AControl!TypePassphrase, Dialogs
<1>4. CASE AControl!CloseSettings
  <2>1. a' \in Dialogs /\ b' = b /\ a'.file = NoOldFile
    BY <1>4, ZenonT(60) DEF AControl!CloseSettings, Dialogs
  <2> QED
    BY <2>1 DEF PreviewsOfFile
<1>5. ASSUME NEW p \in Profiles, AControl!PickProfile(p) PROVE ControlInv'
  <2>1. PICK n \in {0, b.revision[p]} : a' = [a EXCEPT !.id = p, !.expected = n, !.key = FALSE]
    BY <1>5 DEF AControl!PickProfile
  <2>2. n \in 0..MaxProfile
    BY Bounds DEF Cores
  <2>3. a' \in Dialogs /\ a'.file = a.file /\ a'.previewed = a.previewed /\ a'.overtaken = a.overtaken
        /\ a'.job = a.job /\ a'.asked = a.asked
    BY <2>1, <2>2 DEF Dialogs
  <2> QED
    BY <1>0, <1>5, <2>3 DEF AControl!PickProfile
<1>6. CASE AControl!SaveProvider
  <2>1. a' \in Dialogs /\ a'.file = a.file /\ a'.previewed = a.previewed /\ a'.overtaken = a.overtaken /\ a'.job # "previews"
    BY <1>6, <1>j DEF AControl!SaveProvider, Dialogs
  <2> QED
    BY <1>0, <1>6, <2>1 DEF AControl!SaveProvider
<1>7. CASE AControl!ConfigRead
  BY <1>0, <1>7, <1>j, JobEnds, JobGoesOn DEF AControl!ConfigRead
<1>8. CASE AControl!ConfigRefreshed
  BY <1>0, <1>8, <1>j, JobEnds, JobGoesOn DEF AControl!ConfigRefreshed
<1>9. CASE AControl!TestAsked
  BY <1>0, <1>9, <1>j, JobEnds, JobGoesOn DEF AControl!TestAsked
<1>10. CASE AControl!StoreUnlocked
  <2>1. b' \in Cores
    BY <1>10 DEF AControl!StoreUnlocked, Cores
  <2>2. a' = [a EXCEPT !.job = "saves"] \/ AControl!JobFailed
    BY <1>10 DEF AControl!StoreUnlocked
  <2> QED
    BY <1>0, <1>j, <2>1, <2>2, JobEnds, JobGoesOn
<1>11. CASE AControl!StoreAnswered
  <2>1. b' \in Cores
    BY <1>11 DEF AControl!StoreAnswered, Cores
  <2> QED
    BY <1>0, <1>11, <2>1, JobEnds DEF AControl!StoreAnswered
<1>12. CASE AControl!ProviderSaved
  <2>1. CASE AControl!JobFailed /\ b' = b
    BY <1>0, <2>1, JobEnds
  <2>2. CASE AControl!SaveTaken /\ b' = [b EXCEPT !.revision[a.sent] = @ + 1]
    <3>1. a.sent \in Profiles /\ b.revision[a.sent] < MaxProfile
      BY <2>2 DEF AControl!SaveTaken, Dialogs
    <3>2. b' \in Cores /\ b'.revision[a.sent] \in 0..MaxProfile
      BY <2>2, <3>1, Raised
    <3>3. \/ a' = [a EXCEPT !.job = "refreshes", !.key = FALSE, !.expected = b'.revision[a.sent]]
          \/ AControl!JobFailed
      BY <1>12, <2>2 DEF AControl!ProviderSaved, AControl!JobFailed
    <3> DEFINE n == b'.revision[a.sent]
    <3>4. CASE a' = [a EXCEPT !.job = "refreshes", !.key = FALSE, !.expected = n]
      <4>1. n \in 0..MaxProfile
        BY <3>2
      <4> HIDE DEF n
      <4>2. a' \in Dialogs /\ a'.file = a.file /\ a'.previewed = a.previewed /\ a'.overtaken = a.overtaken /\ a'.job # "previews"
        BY <1>j, <3>4, <4>1 DEF Dialogs
      <4> QED
        BY <1>0, <3>2, <4>2
    <3> QED
      BY <1>0, <3>2, <3>3, <3>4, JobEnds
  <2> QED
    BY <1>12, <2>1, <2>2 DEF AControl!ProviderSaved
<1>13. CASE AControl!TestProvider
  <2>1. a' \in Dialogs /\ a'.file = a.file /\ a'.previewed = a.previewed /\ a'.overtaken = a.overtaken /\ a'.job # "previews"
    BY <1>13, <1>j DEF AControl!TestProvider, Dialogs
  <2> QED
    BY <1>0, <1>13, <2>1 DEF AControl!TestProvider
<1>14. CASE AControl!ProviderTested
  <2>1. CASE AControl!JobFailed
    BY <1>0, <1>14, <2>1, JobEnds DEF AControl!ProviderTested
  <2>2. CASE a' = [a EXCEPT !.job = "idle", !.tried = TRUE, !.passphrase = FALSE]
    <3>1. a' \in Dialogs /\ a'.file = a.file /\ a'.previewed = a.previewed /\ a'.overtaken = a.overtaken /\ a'.job # "previews"
      BY <1>j, <2>2 DEF Dialogs
    <3> QED
      BY <1>0, <1>14, <3>1 DEF AControl!ProviderTested
  <2> QED
    BY <1>14, <2>1, <2>2 DEF AControl!ProviderTested
<1>15. CASE AControl!AskStore
  BY <1>0, <1>15, <1>j, JobGoesOn DEF AControl!AskStore
<1>16. CASE AControl!CoreMoves
  <2>1. CASE b' = [b EXCEPT !.locked = TRUE]
    <3>1. b' \in Cores
      BY <2>1 DEF Cores
    <3> QED
      BY <1>0, <1>16, <3>1 DEF AControl!CoreMoves
  <2>2. ASSUME NEW p \in Profiles, b.revision[p] < MaxProfile, b' = [b EXCEPT !.revision[p] = @ + 1] PROVE ControlInv'
    <3>1. b' \in Cores
      BY <2>2, Raised
    <3> QED
      BY <1>0, <1>16, <3>1 DEF AControl!CoreMoves
  <2> QED
    BY <1>16, <2>1, <2>2 DEF AControl!CoreMoves
<1>17. ASSUME NEW f \in OldFiles, AControl!ChooseFile(f) PROVE ControlInv'
  <2>1. a' \in Dialogs /\ a'.previewed = NoOldFile /\ (a'.job = "previews" => a'.overtaken) /\ b' = b
    BY <1>17 DEF AControl!ChooseFile, Dialogs
  <2> QED
    BY <2>1 DEF PreviewsOfFile
<1>18. CASE AControl!PreviewFile
  <2>1. a' \in Dialogs /\ a'.file = a.file /\ a'.previewed = a.previewed /\ a'.overtaken = a.overtaken /\ a'.asked = a'.file /\ b' = b
    BY <1>18, <1>j DEF AControl!PreviewFile, Dialogs
  <2> QED
    BY <2>1 DEF PreviewsOfFile
<1>19. CASE AControl!PreviewAnswered
  <2>1. CASE AControl!JobFailed
    BY <1>0, <1>19, <2>1, JobEnds DEF AControl!PreviewAnswered
  <2>2. CASE a' = [a EXCEPT !.job = "idle", !.passphrase = FALSE, !.previewed = a.asked]
    <3>1. a' \in Dialogs /\ a'.file = a.file /\ a'.previewed = a.asked /\ a'.overtaken = a.overtaken /\ a'.job = "idle"
      BY <1>j, <2>2 DEF Dialogs
    <3>2. PreviewsOfFile(a)'
      BY <1>19, <3>1 DEF PreviewsOfFile, AControl!PreviewAnswered
    <3> QED
      BY <1>19, <3>1, <3>2 DEF AControl!PreviewAnswered
  <2> QED
    BY <1>19, <2>1, <2>2 DEF AControl!PreviewAnswered
<1>20. CASE AControl!ApplyFile
  <2>1. a' \in Dialogs /\ a'.file = a.file /\ a'.previewed = a.previewed /\ a'.overtaken = a.overtaken /\ a'.job # "previews"
    BY <1>20, <1>j DEF AControl!ApplyFile, Dialogs
  <2> QED
    BY <1>0, <1>20, <2>1 DEF AControl!ApplyFile
<1>21. CASE AControl!ActivateProfile
  <2>1. a' \in Dialogs /\ a'.file = a.file /\ a'.previewed = a.previewed /\ a'.overtaken = a.overtaken /\ a'.job # "previews"
    BY <1>21, <1>j DEF AControl!ActivateProfile, Dialogs
  <2> QED
    BY <1>0, <1>21, <2>1 DEF AControl!ActivateProfile
<1>22. CASE AControl!FileApplied
  <2>1. CASE AControl!JobFailed
    BY <1>0, <1>22, <2>1, JobEnds DEF AControl!FileApplied
  <2>2. CASE a' = [a EXCEPT !.job = "idle", !.passphrase = FALSE, !.file = NoOldFile]
    <3>1. a' \in Dialogs /\ a'.file = NoOldFile
      BY <1>j, <2>2 DEF Dialogs
    <3> QED
      BY <1>22, <3>1 DEF AControl!FileApplied, PreviewsOfFile
  <2> QED
    BY <1>22, <2>1, <2>2 DEF AControl!FileApplied
<1>23. CASE AControl!ProfileActivated
  <2>1. b' = b \/ (AControl!SaveTaken /\ b' = [b EXCEPT !.revision[a.sent] = @ + 1])
    BY <1>23 DEF AControl!ProfileActivated
  <2>2. b' \in Cores
    BY <2>1, Raised DEF AControl!SaveTaken, Dialogs
  <2> QED
    BY <1>0, <1>23, <2>2, JobEnds DEF AControl!ProfileActivated
<1>24. CASE UNCHANGED <<a, b>>
  BY <1>24 DEF PreviewsOfFile
<1> QED
  BY <1>1, <1>2, <1>3, <1>4, <1>5, <1>6, <1>7, <1>8, <1>9, <1>10, <1>11, <1>12, <1>13, <1>14, <1>15, <1>16, <1>17,
     <1>18, <1>19, <1>20, <1>21, <1>22, <1>23, <1>24
  DEF AControl!ControlNext

-----------------------------------------------------------------------------
(* The inbox page: a call under way with the number of the last load is of *)
(* the account whose list was asked for, and no index holds more patches   *)
(* than deeds were done, those under way not counted.                      *)

InboxStates ==
  [account : Accounts \cup {NoAccount}, request : 0..MaxLoads, asked : Accounts \cup {NoAccount},
   shown : SUBSET AnInbox!MailIds, fresh : BOOLEAN, chunks : 0..2, loading : BOOLEAN, more : BOOLEAN,
   open : AnInbox!MailIds \cup {AnInbox!NoMail}, ticked : SUBSET AnInbox!MailIds, doomed : SUBSET AnInbox!MailIds,
   index : 0..MaxDeeds, boxes : Accounts \cup {NoAccount}, syncing : BOOLEAN, composing : BOOLEAN, deeds : 0..MaxDeeds]
MailStates == [server : SUBSET AnInbox!Received, copies : SUBSET (Accounts \X {0}), index : 0..MaxDeeds]

ListKinds == {"load", "reload", "more"}
DeedKinds == {"mark", "act", "delete", "trash", "send", "copy"}

ListFits(p, js) ==
  /\ \A m \in p.shown : m[2] # 0 => m[1] = p.asked
  /\ \A j \in js : j.kind \in ListKinds => j.request > 0 /\ j.request <= p.request /\ (j.request = p.request => j.account = p.asked)
IndexFits(p, js, ms) ==
  /\ p.index <= p.deeds /\ ms.index <= p.deeds
  /\ p.doomed # {} => p.index + 1 <= p.deeds
  /\ \A j \in js : j.kind \in DeedKinds => j.index + 1 <= p.deeds /\ (p.doomed # {} => j.index + 2 <= p.deeds)
Opened(p, js) ==
  /\ p.account = NoAccount => js = {} /\ p.request = 0 /\ p.shown = {} /\ p.doomed = {} /\ ~p.composing
  /\ p.account # NoAccount => p.request > 0 /\ p.asked \in Accounts

InboxInv ==
  /\ a \in InboxStates /\ b \subseteq AnInbox!JobRecords /\ c \in MailStates
  /\ ListFits(a, b) /\ IndexFits(a, b, c) /\ Opened(a, b)

LEMMA InboxHolds == ASSUME InboxInv PROVE AnInbox!InboxTypeOK /\ AnInbox!ChunksBelong
<1>1. AnInbox!InboxTypeOK
  BY DEF InboxInv, InboxStates, MailStates, AnInbox!InboxTypeOK, AnInbox!IndexStates
<1>2. AnInbox!ChunksBelong
  BY DEF InboxInv, ListFits, AnInbox!ChunksBelong
<1> QED
  BY <1>1, <1>2

LEMMA InboxStarts == ASSUME AnInbox!InboxInit PROVE InboxInv
<1>1. 0 \in 0..MaxLoads /\ 0 \in 0..MaxDeeds /\ NoAccount \in Accounts \cup {NoAccount}
  BY Bounds
<1>2. a \in InboxStates
  BY <1>1 DEF AnInbox!InboxInit, InboxStates, AnInbox!NoPatch
<1>3. b \subseteq AnInbox!JobRecords /\ c \in MailStates
  BY <1>1 DEF AnInbox!InboxInit, MailStates, AnInbox!NoPatch
<1>4. ListFits(a, b) /\ IndexFits(a, b, c) /\ Opened(a, b)
  BY DEF AnInbox!InboxInit, ListFits, IndexFits, Opened, AnInbox!NoPatch
<1> QED
  BY <1>2, <1>3, <1>4 DEF InboxInv

\* A call made by the page is one of the records.
LEMMA JobOK ==
  ASSUME NEW kind \in AnInbox!JobKinds, NEW x \in Accounts, NEW n \in 0..MaxLoads,
         NEW about \in SUBSET AnInbox!MailIds, NEW index \in 0..MaxDeeds
  PROVE  /\ AnInbox!Job(kind, x, n, about, index) \in AnInbox!JobRecords
         /\ AnInbox!Job(kind, x, n, about, index).kind = kind
         /\ AnInbox!Job(kind, x, n, about, index).account = x
         /\ AnInbox!Job(kind, x, n, about, index).request = n
         /\ AnInbox!Job(kind, x, n, about, index).index = index
BY DEF AnInbox!Job, AnInbox!JobRecords, AnInbox!IndexStates

\* Fewer calls under way, and nothing else of the list, the index or the account changed.
LEMMA Fewer ==
  ASSUME InboxInv, a' \in InboxStates, b' \in SUBSET b, c' \in MailStates,
         a'.account = a.account, a'.request = a.request, a'.asked = a.asked,
         \A m \in a'.shown : m \in a.shown \/ m[2] = 0 \/ m[1] = a.asked,
         a.account = NoAccount => a'.shown = {},
         a'.doomed \in {a.doomed, {}}, a.account = NoAccount => ~a'.composing,
         a'.index = a.index, a'.deeds = a.deeds, c'.index = c.index
  PROVE  InboxInv'
<1>1. b' \subseteq AnInbox!JobRecords
  BY DEF InboxInv
<1>2. ListFits(a, b)'
  BY DEF InboxInv, ListFits
<1>3. a.index \in 0..MaxDeeds /\ a.deeds \in 0..MaxDeeds /\ \A j \in b : j.index \in 0..MaxDeeds
  BY DEF InboxInv, InboxStates, AnInbox!JobRecords, AnInbox!IndexStates
<1>4. IndexFits(a, b, c)'
  BY <1>3 DEF InboxInv, IndexFits
<1>5. Opened(a, b)'
  BY DEF InboxInv, Opened
<1> QED
  BY <1>1, <1>2, <1>4, <1>5 DEF InboxInv

\* More calls under way.
LEMMA Adds ==
  ASSUME InboxInv, NEW js \in SUBSET AnInbox!JobRecords, a' \in InboxStates, b' \in SUBSET (b \cup js), c' = c,
         a'.account = a.account, a'.request = a.request, a'.asked = a.asked, a'.shown = a.shown, a.account # NoAccount,
         \A j0 \in js : j0.kind \in ListKinds =>
           j0.request > 0 /\ j0.request <= a.request /\ (j0.request = a.request => j0.account = a.asked),
         IndexFits(a, b, c)'
  PROVE  InboxInv'
<1>1. b' \subseteq AnInbox!JobRecords
  BY DEF InboxInv
<1>2. ListFits(a, b)'
  <2>1. \A m \in a'.shown : m[2] # 0 => m[1] = a'.asked
    BY DEF InboxInv, ListFits
  <2> SUFFICES ASSUME NEW j \in b', j.kind \in ListKinds
               PROVE  j.request > 0 /\ j.request <= a'.request /\ (j.request = a'.request => j.account = a'.asked)
    BY <2>1 DEF ListFits
  <2>2. CASE j \in b
    BY <2>2 DEF InboxInv, ListFits
  <2>3. CASE j \in js
    BY <2>3
  <2> QED
    BY <2>2, <2>3
<1>3. Opened(a, b)'
  BY DEF InboxInv, Opened
<1> QED
  BY <1>1, <1>2, <1>3 DEF InboxInv

\* A patch of the index, or less, when a call ends.
LEMMA Patches ==
  ASSUME InboxInv, a.account # NoAccount, a' \in InboxStates, b' \in SUBSET b, c' \in MailStates,
         a'.account = a.account, a'.request = a.request, a'.asked = a.asked, a'.doomed = a.doomed, a'.deeds >= a.deeds,
         \A m \in a'.shown : m \in a.shown \/ m[2] = 0,
         a'.index <= a'.deeds, c'.index <= a'.deeds, a.doomed # {} => a'.index + 1 <= a'.deeds
  PROVE  InboxInv'
<1>1. b' \subseteq AnInbox!JobRecords
  BY DEF InboxInv
<1>2. ListFits(a, b)'
  BY DEF InboxInv, ListFits
<1>3. a.deeds \in Int /\ a'.deeds \in Int /\ \A j \in b : j.index \in Int
  BY DEF InboxInv, InboxStates, AnInbox!JobRecords, AnInbox!IndexStates
<1>4. \A j \in b' : j.kind \in DeedKinds => j.index + 1 <= a'.deeds /\ (a.doomed # {} => j.index + 2 <= a'.deeds)
  BY <1>3 DEF InboxInv, IndexFits
<1>5. IndexFits(a, b, c)'
  BY <1>4 DEF IndexFits
<1>6. Opened(a, b)'
  BY DEF InboxInv, Opened
<1> QED
  BY <1>1, <1>2, <1>5, <1>6 DEF InboxInv

\* A list is asked for.
LEMMA Asks ==
  ASSUME InboxInv, NEW x \in Accounts, NEW kind \in {"load", "reload"}, a.request < MaxLoads,
         a' \in {[AnInbox!Loading(a, x) EXCEPT !.account = x, !.ticked = {}], AnInbox!Loading(a, x)},
         a.account = NoAccount => a'.account = x, 
         b' \in SUBSET (b \cup {AnInbox!Job(kind, x, a.request + 1, {}, AnInbox!NoPatch), AnInbox!Job("boxes", x, 0, {}, AnInbox!NoPatch)}),
         c' = c
  PROVE  InboxInv'
<1> DEFINE j1 == AnInbox!Job(kind, x, a.request + 1, {}, AnInbox!NoPatch)
           j2 == AnInbox!Job("boxes", x, 0, {}, AnInbox!NoPatch)
<1>1. /\ a.request + 1 \in 0..MaxLoads /\ 0 \in 0..MaxLoads /\ a.request \in Nat /\ AnInbox!NoPatch \in 0..MaxDeeds
      /\ {} \in SUBSET AnInbox!MailIds /\ kind \in AnInbox!JobKinds /\ "boxes" \in AnInbox!JobKinds
  BY Bounds DEF InboxInv, InboxStates, AnInbox!JobKinds, AnInbox!NoPatch
<1>2. j1 \in AnInbox!JobRecords /\ j1.kind = kind /\ j1.account = x /\ j1.request = a.request + 1
  BY <1>1, JobOK
<1>3. j2 \in AnInbox!JobRecords /\ j2.kind = "boxes"
  BY <1>1, JobOK
<1>4. b' \subseteq AnInbox!JobRecords /\ b' \subseteq b \cup {j1, j2}
  BY <1>2, <1>3 DEF InboxInv
<1>5. /\ a' \in InboxStates /\ a'.shown = {} /\ a'.request = a.request + 1 /\ a'.asked = x
      /\ a'.index = a.index /\ a'.deeds = a.deeds /\ a'.doomed = a.doomed /\ a'.composing = a.composing
      /\ a'.account # NoAccount
  <2> DEFINE l == AnInbox!Loading(a, x)
  <2>1. x # NoAccount /\ a \in InboxStates
    BY ScreensAssumption DEF InboxInv
  <2>2. /\ l \in InboxStates /\ l.shown = {} /\ l.request = a.request + 1 /\ l.asked = x
        /\ l.index = a.index /\ l.deeds = a.deeds /\ l.doomed = a.doomed /\ l.composing = a.composing
        /\ l.account = a.account
    <3> DEFINE n == a.request + 1
    <3>1. n \in 0..MaxLoads /\ x \in Accounts \cup {NoAccount} /\ 0 \in 0..2
      BY <1>1
    <3>2. l = [a EXCEPT !.request = n, !.asked = x, !.loading = TRUE, !.more = FALSE, !.shown = {}, !.chunks = 0]
      BY <2>1 DEF AnInbox!Loading, InboxStates
    <3> HIDE DEF n, l
    <3>3. /\ l \in InboxStates /\ l.shown = {} /\ l.request = n /\ l.asked = x
          /\ l.index = a.index /\ l.deeds = a.deeds /\ l.doomed = a.doomed /\ l.composing = a.composing
          /\ l.account = a.account
      BY <2>1, <3>1, <3>2 DEF InboxStates
    <3> QED
      BY <3>3 DEF n
  <2>3. a' \in {[l EXCEPT !.account = x, !.ticked = {}], l}
    OBVIOUS
  <2> HIDE DEF l
  <2>4. CASE a' = [l EXCEPT !.account = x, !.ticked = {}]
    BY <2>1, <2>2, <2>4 DEF InboxStates
  <2>5. CASE a' = l
    BY <2>1, <2>2, <2>5
  <2> QED
    BY <2>3, <2>4, <2>5
<1> HIDE DEF j1, j2
<1>6. ListFits(a, b)'
  <2>1. \A j \in b : j.request \in Nat /\ (j.kind \in ListKinds => j.request > 0 /\ j.request <= a.request)
    BY DEF InboxInv, ListFits, AnInbox!JobRecords
  <2>2. \A j \in b' : j.kind \in ListKinds => j.request > 0 /\ j.request <= a.request + 1 /\ (j.request = a.request + 1 => j.account = x)
    BY <1>1, <1>2, <1>3, <1>4, <2>1 DEF ListKinds
  <2> QED
    BY <1>5, <2>2 DEF ListFits
<1>7. IndexFits(a, b, c)'
  <2>1. \A j \in b' : j.kind \in DeedKinds => j \in b
    BY <1>2, <1>3, <1>4 DEF DeedKinds
  <2> QED
    BY <1>5, <2>1 DEF InboxInv, IndexFits
<1>8. Opened(a, b)'
  BY <1>1, <1>5 DEF Opened
<1> QED
  BY <1>4, <1>5, <1>6, <1>7, <1>8 DEF InboxInv

\* A call of the list ends.
LEMMA Answered ==
  ASSUME InboxInv, NEW j \in b,
         AnInbox!LoadEnds(j) \/ AnInbox!LoadMoreEnds(j) \/ AnInbox!BoxesRead(j) \/ AnInbox!FetchEnds(j)
  PROVE  InboxInv'
<1>1. j \in AnInbox!JobRecords /\ j.account \in Accounts /\ j.account # NoAccount
  BY ScreensAssumption DEF InboxInv, AnInbox!JobRecords
<1>2. <<j.account, 1>> \in AnInbox!MailIds /\ <<j.account, 2>> \in AnInbox!MailIds
  BY <1>1 DEF AnInbox!MailIds, AnInbox!Uids
<1>3. a \in InboxStates /\ c \in MailStates /\ b \ {j} \in SUBSET b
  BY DEF InboxInv
<1>4. (j.kind \in ListKinds /\ j.request = a.request) => j.account = a.asked
  BY DEF InboxInv, ListFits, Opened
<1>5. a.account # NoAccount
  BY DEF InboxInv, Opened
<1>6. CASE AnInbox!LoadEnds(j)
  <2>1. j.kind \in ListKinds /\ b' = b \ {j} /\ c' = c
    BY <1>6 DEF AnInbox!LoadEnds, ListKinds
  <2> DEFINE rests == IF j.kind = "reload" THEN [a EXCEPT !.syncing = FALSE] ELSE a
             list == {<<j.account, 1>>} \cup (c.copies \cap {<<j.account, 0>>})
             open == IF a.open \in list THEN a.open ELSE <<j.account, 1>>
  <2>2. /\ rests \in InboxStates /\ rests.account = a.account /\ rests.request = a.request /\ rests.asked = a.asked
        /\ rests.shown = a.shown /\ rests.doomed = a.doomed /\ rests.composing = a.composing
        /\ rests.index = a.index /\ rests.deeds = a.deeds /\ rests.open = a.open
    BY <1>3, ZenonT(60) DEF InboxStates
  <2>3. /\ list \in SUBSET AnInbox!MailIds /\ open \in AnInbox!MailIds \cup {AnInbox!NoMail}
        /\ \A m \in list : m[2] = 0 \/ m[1] = j.account
    <3>1. c.copies \subseteq Accounts \X {0} /\ Accounts \X {0} \subseteq AnInbox!MailIds
      BY <1>3 DEF MailStates, AnInbox!MailIds, AnInbox!Uids
    <3> QED
      BY <1>2, <3>1
  <2>4. \/ a' = rests
        \/ j.request = a.request /\ a' = [rests EXCEPT !.loading = FALSE, !.shown = list, !.fresh = FALSE, !.chunks = 1, !.open = open]
        \/ j.request = a.request /\ a' = [rests EXCEPT !.loading = FALSE, !.shown = {}, !.chunks = 0, !.open = AnInbox!NoMail]
    <3>1. \/ j.request # a.request /\ a' = rests
          \/ j.request = a.request /\ a' = [rests EXCEPT !.loading = FALSE, !.shown = list, !.fresh = FALSE, !.chunks = 1,
                                              !.open = IF @ \in list THEN @ ELSE <<j.account, 1>>]
          \/ j.request = a.request /\ a' = [rests EXCEPT !.loading = FALSE, !.shown = {}, !.chunks = 0, !.open = AnInbox!NoMail]
      BY <1>6 DEF AnInbox!LoadEnds
    <3> HIDE DEF rests
    <3> QED
      BY <2>2, <3>1 DEF InboxStates
  <2> HIDE DEF rests, list, open
  <2>5. CASE a' = rests
    BY <1>3, <1>5, <2>1, <2>2, <2>5, Fewer
  <2>6. CASE j.request = a.request /\ a' = [rests EXCEPT !.loading = FALSE, !.shown = list, !.fresh = FALSE, !.chunks = 1, !.open = open]
    <3>1. /\ a' \in InboxStates /\ a'.account = a.account /\ a'.request = a.request /\ a'.asked = a.asked
          /\ a'.shown = list /\ a'.doomed = a.doomed /\ a'.composing = a.composing
          /\ a'.index = a.index /\ a'.deeds = a.deeds
      <4> DEFINE off == FALSE
                 one == 1
      <4>3. off \in BOOLEAN /\ one \in 0..2
        OBVIOUS
      <4>4. a' = [rests EXCEPT !.loading = off, !.shown = list, !.fresh = off, !.chunks = one, !.open = open]
        BY <2>6
      <4> HIDE DEF off, one
      <4>1. a' \in InboxStates
        BY ONLY <2>2, <2>3, <4>3, <4>4, ZenonT(60) DEF InboxStates
      <4>2. /\ a'.account = a.account /\ a'.request = a.request /\ a'.asked = a.asked
            /\ a'.shown = list /\ a'.doomed = a.doomed /\ a'.composing = a.composing
            /\ a'.index = a.index /\ a'.deeds = a.deeds
        BY ONLY <2>2, <2>6 DEF InboxStates
      <4> QED
        BY ONLY <4>1, <4>2
    <3> QED
      BY <1>3, <1>4, <1>5, <2>1, <2>3, <2>6, <3>1, Fewer
  <2>7. CASE j.request = a.request /\ a' = [rests EXCEPT !.loading = FALSE, !.shown = {}, !.chunks = 0, !.open = AnInbox!NoMail]
    <3>1. /\ a' \in InboxStates /\ a'.account = a.account /\ a'.request = a.request /\ a'.asked = a.asked
          /\ a'.shown = {} /\ a'.doomed = a.doomed /\ a'.composing = a.composing
          /\ a'.index = a.index /\ a'.deeds = a.deeds
      <4> DEFINE off == FALSE
                 none == {}
                 zero == 0
                 shut == AnInbox!NoMail
      <4>3. off \in BOOLEAN /\ none \in SUBSET AnInbox!MailIds /\ zero \in 0..2 /\ shut \in AnInbox!MailIds \cup {AnInbox!NoMail}
        OBVIOUS
      <4>4. a' = [rests EXCEPT !.loading = off, !.shown = none, !.chunks = zero, !.open = shut]
        BY <2>7
      <4> HIDE DEF off, none, zero, shut
      <4>1. a' \in InboxStates
        BY ONLY <2>2, <4>3, <4>4 DEF InboxStates
      <4>2. /\ a'.account = a.account /\ a'.request = a.request /\ a'.asked = a.asked
            /\ a'.shown = {} /\ a'.doomed = a.doomed /\ a'.composing = a.composing
            /\ a'.index = a.index /\ a'.deeds = a.deeds
        BY ONLY <2>2, <2>7 DEF InboxStates
      <4> QED
        BY ONLY <4>1, <4>2
    <3> QED
      BY <1>3, <1>5, <2>1, <3>1, Fewer
  <2> QED
    BY <2>4, <2>5, <2>6, <2>7
<1>7. CASE AnInbox!LoadMoreEnds(j)
  <2> DEFINE list == a.shown \cup {<<j.account, 2>>}
             two == 2
             off == FALSE
             still == IF j.request = a.request THEN FALSE ELSE a.more
  <2>1. j.kind \in ListKinds /\ b' = b \ {j} /\ c' = c
    BY <1>3, <1>7 DEF AnInbox!LoadMoreEnds, ListKinds
  <2>5. \/ j.request = a.request /\ a' = [a EXCEPT !.shown = list, !.chunks = two, !.more = off]
        \/ a' = a
        \/ a' = [a EXCEPT !.more = still]
    BY <1>7 DEF AnInbox!LoadMoreEnds, AnInbox!MoreTaken, AnInbox!MoreShown
  <2>6. list \in SUBSET AnInbox!MailIds /\ two \in 0..2 /\ off \in BOOLEAN /\ still \in BOOLEAN
    <3>1. a.shown \in SUBSET AnInbox!MailIds /\ a.more \in BOOLEAN
      BY <1>3, ZenonT(60) DEF InboxStates
    <3>2. list \in SUBSET AnInbox!MailIds
      BY <1>2, <3>1
    <3>3. still \in BOOLEAN
      BY <3>1
    <3>4. two \in 0..2
      OBVIOUS
    <3>5. off \in BOOLEAN
      OBVIOUS
    <3> QED
      BY ONLY <3>2, <3>3, <3>4, <3>5
  <2>7. list = a.shown \cup {<<j.account, 2>>}
    OBVIOUS
  <2> HIDE DEF list, two, off, still
  <2>2. /\ a' \in InboxStates /\ a'.account = a.account /\ a'.request = a.request /\ a'.asked = a.asked
        /\ a'.doomed = a.doomed /\ a'.composing = a.composing /\ a'.index = a.index /\ a'.deeds = a.deeds
    BY <1>3, <2>5, <2>6, ZenonT(60) DEF InboxStates
  <2>3. a'.shown = a.shown \/ (j.request = a.request /\ a'.shown = a.shown \cup {<<j.account, 2>>})
    BY <1>3, <2>5, <2>7 DEF InboxStates
  <2>4. \A m \in a'.shown : m \in a.shown \/ m[2] = 0 \/ m[1] = a.asked
    <3>1. <<j.account, 2>>[1] = j.account
      OBVIOUS
    <3>2. CASE a'.shown = a.shown
      BY <3>2
    <3>3. CASE j.request = a.request /\ a'.shown = a.shown \cup {<<j.account, 2>>}
      BY <1>4, <2>1, <3>1, <3>3
    <3> QED
      BY <2>3, <3>2, <3>3
  <2> QED
    BY <1>3, <1>5, <2>1, <2>2, <2>4, Fewer
<1>8. CASE AnInbox!BoxesRead(j)
  <2>1. b' = b \ {j} /\ c' = c /\ \E x \in Accounts \cup {NoAccount} : a' = [a EXCEPT !.boxes = x]
    BY <1>1, <1>8 DEF AnInbox!BoxesRead
  <2>2. /\ a' \in InboxStates /\ a'.account = a.account /\ a'.request = a.request /\ a'.asked = a.asked /\ a'.shown = a.shown
        /\ a'.doomed = a.doomed /\ a'.composing = a.composing /\ a'.index = a.index /\ a'.deeds = a.deeds
    BY <1>3, <2>1 DEF InboxStates
  <2> QED
    BY <1>3, <1>5, <2>1, <2>2, Fewer
<1>9. CASE AnInbox!FetchEnds(j)
  <2>1. CASE /\ a.request < MaxLoads /\ a' = AnInbox!Loading(a, j.account)
             /\ b' = (b \ {j}) \cup {AnInbox!Job("reload", j.account, a.request + 1, {}, AnInbox!NoPatch)}
    <3>1. c' = c /\ a' \in {[AnInbox!Loading(a, j.account) EXCEPT !.account = j.account, !.ticked = {}], AnInbox!Loading(a, j.account)}
      BY <1>9, <2>1 DEF AnInbox!FetchEnds
    <3>2. b' \in SUBSET (b \cup {AnInbox!Job("reload", j.account, a.request + 1, {}, AnInbox!NoPatch), AnInbox!Job("boxes", j.account, 0, {}, AnInbox!NoPatch)})
      BY <2>1
    <3> QED
      BY <1>1, <1>5, <2>1, <3>1, <3>2, Asks
  <2>2. CASE a' = [a EXCEPT !.syncing = FALSE] /\ b' = b \ {j}
    <3>1. /\ a' \in InboxStates /\ a'.account = a.account /\ a'.request = a.request /\ a'.asked = a.asked /\ a'.shown = a.shown
          /\ a'.doomed = a.doomed /\ a'.composing = a.composing /\ a'.index = a.index /\ a'.deeds = a.deeds
      BY <1>3, <2>2 DEF InboxStates
    <3> QED
      BY <1>3, <1>5, <1>9, <2>2, <3>1, Fewer DEF AnInbox!FetchEnds
  <2> QED
    BY <1>9, <2>1, <2>2 DEF AnInbox!FetchEnds
<1> QED
  BY <1>6, <1>7, <1>8, <1>9

\* What the user does to mails.
LEMMA MailOpened == ASSUME InboxInv, NEW m \in AnInbox!MailIds, AnInbox!OpenMail(m) PROVE InboxInv'
<1>1. a \in InboxStates /\ c \in MailStates /\ b' = b /\ a.account # NoAccount /\ m \in AnInbox!MailIds \cup {AnInbox!NoMail}
  BY DEF InboxInv, Opened, AnInbox!OpenMail
<1>2. CASE a' = [a EXCEPT !.open = m] /\ c' = c
  <2>1. /\ a' \in InboxStates /\ a'.account = a.account /\ a'.request = a.request /\ a'.asked = a.asked /\ a'.shown = a.shown
        /\ a'.doomed = a.doomed /\ a'.composing = a.composing /\ a'.index = a.index /\ a'.deeds = a.deeds
    BY <1>1, <1>2 DEF InboxStates
  <2> QED
    BY <1>1, <1>2, <2>1, Fewer
<1>3. CASE /\ a.deeds < MaxDeeds
           /\ AnInbox!IndexPersisted([a EXCEPT !.open = m, !.deeds = @ + 1], c.server, a.index + 1)
  <2> DEFINE n == a.index + 1
             o == a.deeds + 1
  <2>1. /\ a.index \in 0..MaxDeeds /\ a.deeds \in 0..MaxDeeds /\ c.index \in 0..MaxDeeds /\ a.index <= a.deeds
        /\ c.index <= a.deeds /\ (a.doomed # {} => a.index + 1 <= a.deeds) /\ MaxDeeds \in Nat
    BY <1>1, Bounds DEF InboxInv, InboxStates, MailStates, IndexFits
  <2>2. /\ n \in 0..MaxDeeds /\ o \in 0..MaxDeeds /\ n <= o /\ c.index <= o /\ a.deeds <= o
        /\ (a.doomed # {} => n + 1 <= o)
    BY <1>3, <2>1
  <2>3. a' = [a EXCEPT !.open = m, !.deeds = o, !.index = n]
    BY <1>1, <1>3 DEF InboxStates, AnInbox!IndexPersisted
  <2>4. PICK i \in {n, c.index} : c' = [c EXCEPT !.server = c.server, !.index = i]
    BY <1>3 DEF AnInbox!IndexPersisted
  <2> HIDE DEF n, o
  <2>5. /\ a' \in InboxStates /\ a'.account = a.account /\ a'.request = a.request /\ a'.asked = a.asked /\ a'.shown = a.shown
        /\ a'.doomed = a.doomed /\ a'.composing = a.composing /\ a'.index = n /\ a'.deeds = o
    BY <1>1, <2>2, <2>3 DEF InboxStates
  <2>6. i \in 0..MaxDeeds /\ i <= o
    BY <2>1, <2>2
  <2>7. c' \in MailStates /\ c'.index = i
    BY <1>1, <2>4, <2>6 DEF MailStates
  <2>8. \A x \in a'.shown : x \in a.shown \/ x[2] = 0
    BY <2>5
  <2> QED
    BY <1>1, <2>2, <2>5, <2>6, <2>7, <2>8, Patches
<1> QED
  BY <1>2, <1>3 DEF AnInbox!OpenMail

\* Mails are worked on at the account that is selected.
LEMMA Acts ==
  ASSUME InboxInv, NEW kind \in {"act", "mark", "delete", "trash", "send", "copy"}, NEW about \in SUBSET AnInbox!MailIds,
         a.account # NoAccount, c' = c, a' \in InboxStates,
         a'.account = a.account, a'.request = a.request, a'.asked = a.asked, a'.shown = a.shown, a'.index = a.index,
         \/ a'.doomed = a.doomed /\ a'.deeds = a.deeds + 1
         \/ a.doomed # {} /\ a'.doomed = {} /\ a'.deeds = a.deeds,
         b' = b \cup {AnInbox!Job(kind, a.account, 0, about, a.index)}
  PROVE  InboxInv'
<1> DEFINE j0 == AnInbox!Job(kind, a.account, 0, about, a.index)
<1>1. /\ a.account \in Accounts /\ 0 \in 0..MaxLoads /\ a.index \in 0..MaxDeeds /\ kind \in AnInbox!JobKinds
      /\ a.deeds \in Nat /\ c.index \in Nat
  BY Bounds DEF InboxInv, InboxStates, MailStates, AnInbox!JobKinds
<1>2. j0 \in AnInbox!JobRecords /\ j0.kind = kind /\ j0.index = a.index
  BY <1>1, JobOK
<1>3. b' = b \cup {j0} /\ b' \in SUBSET (b \cup {j0})
  OBVIOUS
<1> HIDE DEF j0
<1>4. /\ a.index <= a.deeds /\ c.index <= a.deeds /\ (a.doomed # {} => a.index + 1 <= a.deeds)
      /\ \A j \in b : j.kind \in DeedKinds => j.index \in Nat /\ j.index + 1 <= a.deeds /\ (a.doomed # {} => j.index + 2 <= a.deeds)
  BY DEF InboxInv, IndexFits, AnInbox!JobRecords, AnInbox!IndexStates
<1>5. IndexFits(a, b, c)'
  <2>1. a'.index <= a'.deeds /\ c'.index <= a'.deeds /\ (a'.doomed # {} => a'.index + 1 <= a'.deeds)
    BY <1>1, <1>4
  <2>2. ASSUME NEW j \in b', j.kind \in DeedKinds
        PROVE  j.index + 1 <= a'.deeds /\ (a'.doomed # {} => j.index + 2 <= a'.deeds)
    <3>1. CASE j \in b
      <4>1. j.index \in Nat /\ j.index + 1 <= a.deeds /\ (a.doomed # {} => j.index + 2 <= a.deeds)
        BY <1>4, <2>2, <3>1
      <4> QED
        BY <1>1, <4>1
    <3>2. CASE j = j0
      BY <1>1, <1>2, <1>4, <3>2
    <3> QED
      BY <1>3, <3>1, <3>2
  <2> QED
    BY <2>1, <2>2 DEF IndexFits
<1> DEFINE js == {j0}
<1>6. js \in SUBSET AnInbox!JobRecords /\ b' \in SUBSET (b \cup js) /\ \A j \in js : j.kind \notin ListKinds
  BY <1>2, <1>3 DEF ListKinds
<1> HIDE DEF js
<1> QED
  BY <1>5, <1>6, Adds

LEMMA Deletes ==
  ASSUME InboxInv, AnInbox!RequestDelete \/ AnInbox!CancelDelete \/ AnInbox!ConfirmDelete
  PROVE  InboxInv'
<1>1. a \in InboxStates /\ c \in MailStates /\ a.ticked \cap a.shown \in SUBSET AnInbox!MailIds
      /\ a.doomed \in SUBSET AnInbox!MailIds
  BY DEF InboxInv, InboxStates
<1>2. CASE AnInbox!RequestDelete
  <2> DEFINE doomed == a.ticked \cap a.shown
             o == a.deeds + 1
  <2>1. /\ a.index \in Nat /\ a.deeds \in Nat /\ o \in 0..MaxDeeds /\ a.index <= a.deeds /\ c.index \in Nat
        /\ c.index <= a.deeds /\ a.doomed = {} /\ doomed # {} /\ b' = b /\ c' = c
    BY <1>1, <1>2, Bounds DEF AnInbox!RequestDelete, AnInbox!Deed, InboxInv, InboxStates, MailStates, IndexFits
  <2>2. a' = [a EXCEPT !.doomed = doomed, !.deeds = o] /\ doomed \in SUBSET AnInbox!MailIds
    BY <1>1, <1>2 DEF AnInbox!RequestDelete, AnInbox!Deed, InboxStates
  <2>3. a.account # NoAccount
    BY <2>1 DEF InboxInv, Opened
  <2>4. a.index + 1 <= o /\ c.index <= o /\ o = a.deeds + 1 /\ a.index <= o
    BY <2>1
  <2>5. \A j \in b : j.kind \in DeedKinds => j.index + 1 <= o /\ j.index + 2 <= o
    <3>1. \A j \in b : j.kind \in DeedKinds => j.index \in Nat /\ j.index + 1 <= a.deeds
      BY DEF InboxInv, IndexFits, AnInbox!JobRecords, AnInbox!IndexStates
    <3> QED
      BY <2>1, <3>1
  <2> HIDE DEF doomed, o
  <2>6. /\ a' \in InboxStates /\ a'.account = a.account /\ a'.request = a.request /\ a'.asked = a.asked /\ a'.shown = a.shown
        /\ a'.doomed = doomed /\ a'.index = a.index /\ a'.deeds = o
    BY <1>1, <2>1, <2>2 DEF InboxStates
  <2>7. IndexFits(a, b, c)'
    BY <2>1, <2>4, <2>5, <2>6 DEF IndexFits
  <2> DEFINE js == {}
  <2>8. js \in SUBSET AnInbox!JobRecords /\ b' \in SUBSET (b \cup js) /\ \A j \in js : j.kind \notin ListKinds
    BY <2>1
  <2> HIDE DEF js
  <2> QED
    BY <2>1, <2>3, <2>6, <2>7, <2>8, Adds
<1> DEFINE none == {}
<1>3. none \in SUBSET AnInbox!MailIds /\ none = {}
  OBVIOUS
<1>4. a' = [a EXCEPT !.doomed = none] => /\ a' \in InboxStates /\ a'.account = a.account /\ a'.request = a.request
                                        /\ a'.asked = a.asked /\ a'.shown = a.shown /\ a'.doomed = none
                                        /\ a'.composing = a.composing /\ a'.index = a.index /\ a'.deeds = a.deeds
  <2> HIDE DEF none
  <2> QED
    BY <1>1, <1>3 DEF InboxStates
<1>5. AnInbox!CancelDelete \/ AnInbox!ConfirmDelete => a.account # NoAccount
  BY DEF InboxInv, Opened, AnInbox!CancelDelete, AnInbox!ConfirmDelete
<1>6. CASE AnInbox!CancelDelete
  <2>1. a' = [a EXCEPT !.doomed = none] /\ b' = b /\ c' = c
    BY <1>6 DEF AnInbox!CancelDelete
  <2> HIDE DEF none
  <2>2. \A m \in a'.shown : m \in a.shown
    BY <1>4, <2>1
  <2> QED
    BY <1>1, <1>3, <1>4, <1>5, <1>6, <2>1, <2>2, Fewer
<1>7. CASE AnInbox!ConfirmDelete
  <2>1. a' = [a EXCEPT !.doomed = none] /\ c' = c /\ a.doomed # {}
    BY <1>7 DEF AnInbox!ConfirmDelete
  <2>2. PICK k \in {"delete", "trash"} : b' = b \cup {AnInbox!Job(k, a.account, 0, a.doomed, a.index)}
    BY <1>7 DEF AnInbox!ConfirmDelete
  <2> HIDE DEF none
  <2>3. k \in {"act", "mark", "delete", "trash", "send", "copy"}
    OBVIOUS
  <2> QED
    BY <1>1, <1>3, <1>4, <1>5, <1>7, <2>1, <2>2, <2>3, Acts
<1> QED
  BY <1>2, <1>6, <1>7

LEMMA Compose ==
  ASSUME InboxInv,
         \/ AnInbox!ComposeMail \/ AnInbox!CloseCompose \/ AnInbox!SubmitMail
         \/ AnInbox!PutAway \/ AnInbox!MarkSelectedRead
  PROVE  InboxInv'
<1>1. a \in InboxStates /\ c \in MailStates
  BY DEF InboxInv
<1>2. CASE AnInbox!ComposeMail \/ AnInbox!CloseCompose
  <2>1. PICK x \in BOOLEAN : a' = [a EXCEPT !.composing = x]
    BY <1>2 DEF AnInbox!ComposeMail, AnInbox!CloseCompose
  <2>2. /\ a' \in InboxStates /\ a'.account = a.account /\ a'.request = a.request /\ a'.asked = a.asked /\ a'.shown = a.shown
        /\ a'.doomed = a.doomed /\ a'.index = a.index /\ a'.deeds = a.deeds
    BY <1>1, <2>1 DEF InboxStates
  <2>3. a.account # NoAccount /\ b' = b /\ c' = c
    BY <1>2 DEF AnInbox!ComposeMail, AnInbox!CloseCompose, InboxInv, Opened
  <2>4. \A m \in a'.shown : m \in a.shown
    BY <2>2
  <2> QED
    BY <1>1, <2>2, <2>3, <2>4, Fewer
<1> DEFINE o == a.deeds + 1
<1>3. a' = [a EXCEPT !.deeds = o] /\ a.deeds < MaxDeeds =>
        /\ a' \in InboxStates /\ a'.account = a.account /\ a'.request = a.request /\ a'.asked = a.asked /\ a'.shown = a.shown
        /\ a'.doomed = a.doomed /\ a'.index = a.index /\ a'.deeds = a.deeds + 1
  <2>1. a.deeds < MaxDeeds => o \in 0..MaxDeeds
    BY <1>1, Bounds DEF InboxStates
  <2>2. o = a.deeds + 1
    OBVIOUS
  <2> HIDE DEF o
  <2> QED
    BY <1>1, <2>1, <2>2 DEF InboxStates
<1>4. ASSUME NEW kind \in {"act", "mark"}, NEW about, AnInbox!Act(kind, about) PROVE InboxInv'
  <2>1. /\ a' = [a EXCEPT !.deeds = o] /\ a.deeds < MaxDeeds /\ c' = c
        /\ about \subseteq a.shown /\ about # {}
        /\ b' = b \cup {AnInbox!Job(kind, a.account, 0, about, a.index)}
    BY <1>1, <1>4 DEF AnInbox!Act, AnInbox!Deed, InboxStates
  <2>2. a.account # NoAccount /\ about \in SUBSET AnInbox!MailIds /\ kind \in {"act", "mark", "delete", "trash", "send", "copy"}
    BY <1>1, <2>1 DEF InboxInv, Opened, InboxStates
  <2> QED
    BY <1>3, <2>1, <2>2, Acts
<1>5. CASE AnInbox!SubmitMail
  <2>1. /\ a' = [a EXCEPT !.deeds = o] /\ a.deeds < MaxDeeds /\ c' = c
    BY <1>1, <1>5 DEF AnInbox!SubmitMail, AnInbox!Deed, InboxStates
  <2>2. PICK k \in {"send", "copy"} : b' = b \cup {AnInbox!Job(k, a.account, 0, {}, a.index)}
    BY <1>5 DEF AnInbox!SubmitMail
  <2>3. a.account # NoAccount /\ {} \in SUBSET AnInbox!MailIds /\ k \in {"act", "mark", "delete", "trash", "send", "copy"}
    BY <1>5 DEF InboxInv, Opened, AnInbox!SubmitMail
  <2> QED
    BY <1>3, <2>1, <2>2, <2>3, Acts
<1> QED
  BY <1>2, <1>4, <1>5 DEF AnInbox!PutAway, AnInbox!MarkSelectedRead

\* The answers to what was asked of the server.
LEMMA Acted ==
  ASSUME InboxInv, NEW j \in b, j.kind \in DeedKinds,
         NEW p \in InboxStates, p.account = a.account, p.request = a.request, p.asked = a.asked,
         p.doomed = a.doomed, p.deeds = a.deeds, \A m \in p.shown : m \in a.shown \/ m[2] = 0,
         a' = [p EXCEPT !.index = j.index + 1], b' = b \ {j},
         NEW server \in SUBSET AnInbox!Received, NEW copies \in SUBSET (Accounts \X {0}),
         NEW i \in {j.index + 1, c.index}, c' = [c EXCEPT !.server = server, !.copies = copies, !.index = i]
  PROVE  InboxInv'
<1> DEFINE n == j.index + 1
<1>1. c \in MailStates /\ j.index \in 0..MaxDeeds /\ a.deeds \in 0..MaxDeeds /\ c.index \in 0..MaxDeeds /\ MaxDeeds \in Nat
      /\ c.index <= a.deeds /\ a.account # NoAccount /\ j.index + 1 <= a.deeds /\ (a.doomed # {} => j.index + 2 <= a.deeds)
  BY Bounds DEF InboxInv, InboxStates, MailStates, AnInbox!JobRecords, AnInbox!IndexStates, IndexFits, Opened
<1>2. n \in 0..MaxDeeds /\ n <= a.deeds /\ i \in 0..MaxDeeds /\ i <= a.deeds /\ (a.doomed # {} => n + 1 <= a.deeds)
      /\ a.deeds >= a.deeds
  BY <1>1
<1>3. a' = [p EXCEPT !.index = n] /\ b' \in SUBSET b
  OBVIOUS
<1> HIDE DEF n
<1>4. /\ a' \in InboxStates /\ a'.account = a.account /\ a'.request = a.request /\ a'.asked = a.asked /\ a'.shown = p.shown
      /\ a'.doomed = a.doomed /\ a'.index = n /\ a'.deeds = a.deeds
  BY <1>2, <1>3 DEF InboxStates
<1>5. c' \in MailStates /\ c'.index = i
  BY <1>1, <1>2 DEF MailStates
<1>6. \A m \in a'.shown : m \in a.shown \/ m[2] = 0
  BY <1>4
<1> QED
  BY <1>1, <1>2, <1>3, <1>4, <1>5, <1>6, Patches

LEMMA ActsEnd == ASSUME InboxInv, NEW j \in b, AnInbox!ActEnds(j) PROVE InboxInv'
<1>1. a \in InboxStates /\ c \in MailStates /\ j.about \in SUBSET AnInbox!MailIds /\ a.account # NoAccount
      /\ c.server \in SUBSET AnInbox!Received /\ c.copies \in SUBSET (Accounts \X {0}) /\ b' = b \ {j}
  BY DEF InboxInv, MailStates, AnInbox!JobRecords, Opened, AnInbox!ActEnds
<1> DEFINE open == IF a.open \in j.about THEN AnInbox!NoMail ELSE a.open
           ticked == a.ticked \ j.about
           shut == AnInbox!NoMail
           none == {}
           fewer == c.server \ AnInbox!AtServer(j)
<1>2. /\ open \in AnInbox!MailIds \cup {AnInbox!NoMail} /\ ticked \in SUBSET AnInbox!MailIds /\ none \in SUBSET AnInbox!MailIds
      /\ shut \in AnInbox!MailIds \cup {AnInbox!NoMail} /\ fewer \in SUBSET AnInbox!Received
  <2>1. a.open \in AnInbox!MailIds \cup {AnInbox!NoMail} /\ a.ticked \in SUBSET AnInbox!MailIds
    BY <1>1 DEF InboxStates
  <2> QED
    BY <1>1, <2>1
<1>3. \/ j.kind = "act" /\ AnInbox!IndexPersisted([a EXCEPT !.open = shut, !.ticked = ticked], fewer, j.index + 1)
      \/ j.kind = "mark" /\ AnInbox!IndexPersisted([a EXCEPT !.ticked = none], c.server, j.index + 1)
      \/ j.kind = "trash" /\ AnInbox!IndexPersisted([a EXCEPT !.ticked = ticked, !.open = open], c.server, j.index + 1)
      \/ a' = a /\ c' = c
  <2>1. \/ j.kind = "act" /\ AnInbox!IndexPersisted([a EXCEPT !.open = shut, !.ticked = @ \ j.about], fewer, j.index + 1)
        \/ j.kind = "mark" /\ AnInbox!IndexPersisted([a EXCEPT !.ticked = none], c.server, j.index + 1)
        \/ j.kind = "trash" /\ AnInbox!IndexPersisted([a EXCEPT !.ticked = @ \ j.about, !.open = IF @ \in j.about THEN AnInbox!NoMail ELSE @],
                                                        c.server, j.index + 1)
        \/ a' = a /\ c' = c
    BY DEF AnInbox!ActEnds
  <2>2. [a EXCEPT !.open = shut, !.ticked = @ \ j.about] = [a EXCEPT !.open = shut, !.ticked = ticked]
    BY <1>1 DEF InboxStates
  <2>3. [a EXCEPT !.ticked = @ \ j.about, !.open = IF @ \in j.about THEN AnInbox!NoMail ELSE @] = [a EXCEPT !.ticked = ticked, !.open = open]
    BY <1>1 DEF InboxStates
  <2> QED
    BY <2>1, <2>2, <2>3
<1> HIDE DEF open, ticked, shut, none, fewer
<1>4. ASSUME NEW p \in InboxStates, p.account = a.account, p.request = a.request, p.asked = a.asked,
             p.doomed = a.doomed, p.deeds = a.deeds, p.shown = a.shown, NEW server \in SUBSET AnInbox!Received,
             j.kind \in {"act", "mark", "trash"}, AnInbox!IndexPersisted(p, server, j.index + 1)
      PROVE  InboxInv'
  <2>1. a' = [p EXCEPT !.index = j.index + 1]
    BY <1>4 DEF AnInbox!IndexPersisted
  <2>2. PICK i \in {j.index + 1, c.index} : c' = [c EXCEPT !.server = server, !.index = i]
    BY <1>4 DEF AnInbox!IndexPersisted
  <2>3. c' = [c EXCEPT !.server = server, !.copies = c.copies, !.index = i]
    BY <1>1, <2>2 DEF MailStates
  <2>4. j.kind \in DeedKinds /\ \A m \in p.shown : m \in a.shown \/ m[2] = 0
    BY <1>4 DEF DeedKinds
  <2> QED
    BY <1>1, <1>4, <2>1, <2>3, <2>4, Acted
<1>5. CASE j.kind = "act" /\ AnInbox!IndexPersisted([a EXCEPT !.open = shut, !.ticked = ticked], fewer, j.index + 1)
  <2> DEFINE p == [a EXCEPT !.open = shut, !.ticked = ticked]
  <2>1. /\ p \in InboxStates /\ p.account = a.account /\ p.request = a.request /\ p.asked = a.asked
        /\ p.doomed = a.doomed /\ p.deeds = a.deeds /\ p.shown = a.shown
    BY <1>1, <1>2 DEF InboxStates
  <2>2. j.kind = "act" /\ AnInbox!IndexPersisted(p, fewer, j.index + 1)
    BY <1>5
  <2> HIDE DEF p
  <2> QED
    BY <1>2, <1>4, <2>1, <2>2
<1>6. CASE j.kind = "mark" /\ AnInbox!IndexPersisted([a EXCEPT !.ticked = none], c.server, j.index + 1)
  <2> DEFINE p == [a EXCEPT !.ticked = none]
  <2>1. /\ p \in InboxStates /\ p.account = a.account /\ p.request = a.request /\ p.asked = a.asked
        /\ p.doomed = a.doomed /\ p.deeds = a.deeds /\ p.shown = a.shown
    BY <1>1, <1>2 DEF InboxStates
  <2>2. j.kind = "mark" /\ AnInbox!IndexPersisted(p, c.server, j.index + 1)
    BY <1>6
  <2> HIDE DEF p
  <2> QED
    BY <1>1, <1>4, <2>1, <2>2
<1>7. CASE j.kind = "trash" /\ AnInbox!IndexPersisted([a EXCEPT !.ticked = ticked, !.open = open], c.server, j.index + 1)
  <2> DEFINE p == [a EXCEPT !.ticked = ticked, !.open = open]
  <2>1. /\ p \in InboxStates /\ p.account = a.account /\ p.request = a.request /\ p.asked = a.asked
        /\ p.doomed = a.doomed /\ p.deeds = a.deeds /\ p.shown = a.shown
    BY <1>1, <1>2 DEF InboxStates
  <2>2. j.kind = "trash" /\ AnInbox!IndexPersisted(p, c.server, j.index + 1)
    BY <1>7
  <2> HIDE DEF p
  <2> QED
    BY <1>1, <1>4, <2>1, <2>2
<1>8. CASE a' = a /\ c' = c
  <2>1. a' \in InboxStates /\ b' \in SUBSET b /\ c' \in MailStates /\ \A m \in a'.shown : m \in a.shown
    BY <1>1, <1>8
  <2> QED
    BY <1>1, <1>8, <2>1, Fewer
<1> QED
  BY <1>3, <1>5, <1>6, <1>7, <1>8

\* A call goes on as another, or ends, with the page unchanged.
LEMMA InboxGoesOn ==
  ASSUME InboxInv, NEW j \in b, j.kind \in DeedKinds, NEW kind \in {"trash", "copy"}, a' = a,
         \/ c' = c /\ (b' = b \ {j} \/ b' = (b \ {j}) \cup {[j EXCEPT !.kind = kind]})
         \/ b' = b /\ \E server \in SUBSET AnInbox!Received : c' = [c EXCEPT !.server = server]
  PROVE  InboxInv'
<1> DEFINE j0 == [j EXCEPT !.kind = kind]
<1>1. /\ a \in InboxStates /\ c \in MailStates /\ a' \in InboxStates /\ a.account # NoAccount /\ j \in AnInbox!JobRecords
      /\ kind \in AnInbox!JobKinds
  BY DEF InboxInv, Opened, AnInbox!JobKinds
<1>2. j0 \in AnInbox!JobRecords /\ j0.kind = kind /\ j0.index = j.index
  BY <1>1 DEF AnInbox!JobRecords
<1> HIDE DEF j0
<1>3. CASE c' = c /\ b' = b \ {j}
  <2>1. \A m \in a'.shown : m \in a.shown
    OBVIOUS
  <2>2. b' \in SUBSET b /\ c' \in MailStates
    BY <1>1, <1>3
  <2> QED
    BY <1>1, <1>3, <2>1, <2>2, Fewer
<1>4. CASE b' = b /\ \E server \in SUBSET AnInbox!Received : c' = [c EXCEPT !.server = server]
  <2>1. c' \in MailStates /\ c'.index = c.index /\ b' \in SUBSET b /\ \A m \in a'.shown : m \in a.shown
    BY <1>1, <1>4 DEF MailStates
  <2> QED
    BY <1>1, <1>4, <2>1, Fewer
<1>5. CASE c' = c /\ b' = (b \ {j}) \cup {j0}
  <2>1. j.index + 1 <= a.deeds /\ (a.doomed # {} => j.index + 2 <= a.deeds)
    BY DEF InboxInv, IndexFits
  <2>2. \A x \in b' : x.kind \in DeedKinds => x.index + 1 <= a.deeds /\ (a.doomed # {} => x.index + 2 <= a.deeds)
    BY <1>2, <1>5, <2>1 DEF InboxInv, IndexFits
  <2>3. IndexFits(a, b, c)'
    BY <1>5, <2>2 DEF InboxInv, IndexFits
  <2> DEFINE js == {j0}
  <2>4. js \in SUBSET AnInbox!JobRecords /\ b' \in SUBSET (b \cup js) /\ \A x \in js : x.kind \notin ListKinds
    BY <1>2, <1>5 DEF ListKinds
  <2> HIDE DEF js
  <2> QED
    BY <1>1, <1>5, <2>3, <2>4, Adds
<1> QED
  BY <1>3, <1>4, <1>5 DEF j0

LEMMA SendsEnd == ASSUME InboxInv, NEW j \in b, AnInbox!SendEnds(j) PROVE InboxInv'
<1> DEFINE m == <<j.account, 0>>
           shown == a.shown \cup {m}
           copies == c.copies \cup {m}
           on == TRUE
           off == FALSE
           p == [a EXCEPT !.shown = shown, !.fresh = on, !.open = m, !.composing = off]
<1>1. CASE /\ j.kind = "copy" /\ b' = b \ {j}
           /\ a' = [a EXCEPT !.index = j.index + 1, !.shown = @ \cup {m}, !.fresh = TRUE, !.open = m, !.composing = FALSE]
           /\ c' = [c EXCEPT !.copies = @ \cup {m}, !.index = j.index + 1]
  <2>1. /\ a \in InboxStates /\ c \in MailStates /\ a.shown \in SUBSET AnInbox!MailIds /\ j.account \in Accounts
        /\ c.copies \in SUBSET (Accounts \X {0}) /\ c.server \in SUBSET AnInbox!Received
    BY DEF InboxInv, InboxStates, MailStates, AnInbox!JobRecords
  <2>2. m \in AnInbox!MailIds /\ m \in Accounts \X {0} /\ m[2] = 0
    BY <2>1 DEF AnInbox!MailIds, AnInbox!Uids
  <2>3. /\ shown \in SUBSET AnInbox!MailIds /\ copies \in SUBSET (Accounts \X {0}) /\ m \in AnInbox!MailIds \cup {AnInbox!NoMail}
        /\ on \in BOOLEAN /\ off \in BOOLEAN
    BY <2>1, <2>2
  <2>4. a' = [a EXCEPT !.index = j.index + 1, !.shown = shown, !.fresh = on, !.open = m, !.composing = off]
        /\ c' = [c EXCEPT !.copies = copies, !.index = j.index + 1]
    BY <1>1, <2>1 DEF InboxStates, MailStates
  <2>5. \A x \in shown : x \in a.shown \/ x[2] = 0
    BY <2>2
  <2> HIDE DEF m, shown, copies, on, off
  <2>6. /\ p \in InboxStates /\ p.account = a.account /\ p.request = a.request /\ p.asked = a.asked
        /\ p.doomed = a.doomed /\ p.deeds = a.deeds /\ p.shown = shown
    BY <2>1, <2>3, ZenonT(60) DEF InboxStates
  <2>7. a' = [p EXCEPT !.index = j.index + 1] /\ c' = [c EXCEPT !.server = c.server, !.copies = copies, !.index = j.index + 1]
    BY <2>1, <2>4 DEF InboxStates, MailStates
  <2>8. j.kind \in DeedKinds
    BY <1>1 DEF DeedKinds
  <2> HIDE DEF p
  <2>9. b' = b \ {j} /\ j.index + 1 \in {j.index + 1, c.index} /\ \A x \in p.shown : x \in a.shown \/ x[2] = 0
    BY <1>1, <2>5, <2>6
  <2> QED
    BY <2>1, <2>3, <2>6, <2>7, <2>8, <2>9, Acted
<1>2. CASE /\ j.kind \in {"send", "copy"} /\ a' = a /\ c' = c
           /\ (b' = b \ {j} \/ b' = (b \ {j}) \cup {[j EXCEPT !.kind = "copy"]})
  BY <1>2, InboxGoesOn DEF DeedKinds
<1> QED
  BY <1>1, <1>2 DEF AnInbox!SendEnds

LEMMA Small ==
  ASSUME InboxInv,
         \/ AnInbox!LoadIndex \/ AnInbox!LoadMore \/ AnInbox!FetchMail
         \/ \E m \in AnInbox!MailIds : AnInbox!TickMail(m)
         \/ \E j \in b : AnInbox!DeleteOne(j)
  PROVE  InboxInv'
<1>1. a \in InboxStates /\ c \in MailStates /\ b \subseteq AnInbox!JobRecords /\ Opened(a, b) /\ IndexFits(a, b, c)
  BY DEF InboxInv
<1>2. CASE AnInbox!LoadIndex
  <2>1. a.request = 0 /\ b' = b /\ c' = c /\ \E i \in {c.index, AnInbox!NoPatch} : a' = [a EXCEPT !.index = i]
    BY <1>2 DEF AnInbox!LoadIndex
  <2>2. a.account = NoAccount /\ b = {} /\ a.doomed = {} /\ a.request \in Nat /\ a.deeds \in Nat
    BY <1>1, <2>1 DEF Opened, InboxStates
  <2>3. PICK i \in {c.index, AnInbox!NoPatch} : a' = [a EXCEPT !.index = i]
    BY <2>1
  <2>4. i \in 0..MaxDeeds /\ i <= a.deeds
    BY <1>1, <2>2, Bounds DEF MailStates, IndexFits, AnInbox!NoPatch
  <2>5. /\ a' \in InboxStates /\ a'.account = a.account /\ a'.request = a.request /\ a'.asked = a.asked /\ a'.shown = a.shown
        /\ a'.doomed = a.doomed /\ a'.composing = a.composing /\ a'.index = i /\ a'.deeds = a.deeds
    BY <1>1, <2>3, <2>4 DEF InboxStates
  <2>6. IndexFits(a, b, c)' /\ ListFits(a, b)' /\ Opened(a, b)'
    BY <1>1, <2>1, <2>2, <2>4, <2>5 DEF IndexFits, ListFits, Opened, InboxInv
  <2> QED
    BY <1>1, <2>1, <2>5, <2>6 DEF InboxInv
<1>3. ASSUME NEW m \in AnInbox!MailIds, AnInbox!TickMail(m) PROVE InboxInv'
  <2> DEFINE ticked == IF m \in a.ticked THEN a.ticked \ {m} ELSE a.ticked \cup {m}
  <2>1. a' = [a EXCEPT !.ticked = ticked] /\ b' = b /\ c' = c /\ a.shown # {}
    BY <1>1, <1>3 DEF AnInbox!TickMail, InboxStates
  <2>2. ticked \in SUBSET AnInbox!MailIds
    BY <1>1 DEF InboxStates
  <2> HIDE DEF ticked
  <2>3. /\ a' \in InboxStates /\ a'.account = a.account /\ a'.request = a.request /\ a'.asked = a.asked /\ a'.shown = a.shown
        /\ a'.doomed = a.doomed /\ a'.composing = a.composing /\ a'.index = a.index /\ a'.deeds = a.deeds
    BY <1>1, <2>1, <2>2 DEF InboxStates
  <2>4. a.account # NoAccount /\ \A x \in a'.shown : x \in a.shown
    BY <1>1, <2>1, <2>3 DEF Opened
  <2> QED
    BY <1>1, <2>1, <2>3, <2>4, Fewer
<1>4. ASSUME NEW j \in b, AnInbox!DeleteOne(j) PROVE InboxInv'
  <2>1. j.kind \in DeedKinds /\ a' = a
    BY <1>4 DEF AnInbox!DeleteOne, DeedKinds
  <2>2. \/ c' = c /\ (b' = b \ {j} \/ b' = (b \ {j}) \cup {[j EXCEPT !.kind = "trash"]})
        \/ b' = b /\ \E m \in AnInbox!AtServer(j) \cap c.server : c' = [c EXCEPT !.server = c.server \ {m}]
    BY <1>1, <1>4 DEF AnInbox!DeleteOne, MailStates
  <2>3. c.server \in SUBSET AnInbox!Received
    BY <1>1 DEF MailStates
  <2> QED
    BY <2>1, <2>2, <2>3, InboxGoesOn
<1>5. ASSUME NEW kind \in {"more", "fetch"}, NEW n \in {0, a.request}, NEW x \in {a.account, a.asked}, a.account # NoAccount,
             kind = "more" => n = a.request /\ x = a.asked,
             b' = b \cup {AnInbox!Job(kind, x, n, {}, AnInbox!NoPatch)}, c' = c,
             NEW on \in BOOLEAN, a' \in {[a EXCEPT !.more = on], [a EXCEPT !.syncing = on]}
      PROVE  InboxInv'
  <2> DEFINE j0 == AnInbox!Job(kind, x, n, {}, AnInbox!NoPatch)
             js == {j0}
  <2>1. /\ n \in 0..MaxLoads /\ x \in Accounts /\ kind \in AnInbox!JobKinds /\ {} \in SUBSET AnInbox!MailIds
        /\ AnInbox!NoPatch \in 0..MaxDeeds /\ a.request > 0 /\ a.request \in Nat
    BY <1>1, <1>5, Bounds DEF InboxStates, Opened, AnInbox!JobKinds, AnInbox!NoPatch
  <2>2. j0 \in AnInbox!JobRecords /\ j0.kind = kind /\ j0.request = n /\ j0.account = x
    BY <2>1, JobOK
  <2>3. b' = b \cup js
    BY <1>5
  <2> HIDE DEF j0
  <2>4. js \in SUBSET AnInbox!JobRecords /\ b' \in SUBSET (b \cup js)
    BY <2>2, <2>3
  <2>5. \A j \in js : j.kind \in ListKinds => j.request > 0 /\ j.request <= a.request /\ (j.request = a.request => j.account = a.asked)
    BY <1>5, <2>1, <2>2 DEF ListKinds
  <2>6. \A j \in js : j.kind \notin DeedKinds
    BY <2>2 DEF DeedKinds
  <2>7. /\ a' \in InboxStates /\ a'.account = a.account /\ a'.request = a.request /\ a'.asked = a.asked /\ a'.shown = a.shown
        /\ a'.doomed = a.doomed /\ a'.index = a.index /\ a'.deeds = a.deeds
    BY <1>1, <1>5 DEF InboxStates
  <2>8. IndexFits(a, b, c)'
    BY <1>1, <1>5, <2>3, <2>6, <2>7 DEF IndexFits
  <2> HIDE DEF js
  <2> QED
    BY <1>5, <2>4, <2>5, <2>7, <2>8, Adds
<1>6. CASE AnInbox!LoadMore
  BY <1>5, <1>6 DEF AnInbox!LoadMore
<1>7. CASE AnInbox!FetchMail
  BY <1>5, <1>7 DEF AnInbox!FetchMail
<1> QED
  BY <1>2, <1>3, <1>4, <1>6, <1>7

LEMMA InboxStep == ASSUME InboxInv, [AnInbox!InboxNext]_<<a, b, c>> PROVE InboxInv'
<1>1. ASSUME NEW x \in Accounts, AnInbox!Selected(a, x, b), c' = c PROVE InboxInv'
  <2>1. a.request < MaxLoads /\ a' = [AnInbox!Loading(a, x) EXCEPT !.account = x, !.ticked = {}]
        /\ b' = b \cup {AnInbox!Job("load", x, a.request + 1, {}, AnInbox!NoPatch), AnInbox!Job("boxes", x, 0, {}, AnInbox!NoPatch)}
    BY <1>1 DEF AnInbox!Selected
  <2>2. a.account = NoAccount => a'.account = x
    BY <2>1 DEF InboxInv, InboxStates, AnInbox!Loading
  <2>3. "load" \in {"load", "reload"}
    OBVIOUS
  <2> QED
    BY <1>1, <2>1, <2>2, <2>3, Asks
<1>2. ASSUME \/ AnInbox!LoadAccounts \/ \E x \in Accounts : AnInbox!SaveAccount(x) \/ AnInbox!PickAccount(x) PROVE InboxInv'
  BY <1>1, <1>2 DEF AnInbox!LoadAccounts, AnInbox!SaveAccount, AnInbox!PickAccount
<1>3. CASE UNCHANGED <<a, b, c>>
  BY <1>3 DEF InboxInv, ListFits, IndexFits, Opened
<1>4. CASE AnInbox!InboxNext
  BY <1>2, <1>4, Small, Deletes, Compose, MailOpened, Answered, ActsEnd, SendsEnd DEF AnInbox!InboxNext
<1> QED
  BY <1>3, <1>4

-----------------------------------------------------------------------------
(* The file manager: a read that still counts is of the file selected, and *)
(* a request that still counts is of the question and page shown.          *)

PreviewStates ==
  [selected : TreeFiles \cup {NoFile}, indexed : BOOLEAN, kind : ATree!PreviewKinds, of : TreeFiles \cup {NoFile},
   changed : BOOLEAN, urls : 0..2, reads : SUBSET ATree!FileReads]
FolderStates ==
  [at : TreeFolders, node : [TreeFolders -> [read : BOOLEAN, expanded : BOOLEAN, loading : BOOLEAN]],
   loads : SUBSET TreeFolders]
FoundStates ==
  [find : Finds, page : 0..PageCount-1, timer : BOOLEAN, loading : BOOLEAN, requests : SUBSET ATree!FindRequests,
   shown : [find : Finds, page : 0..PageCount-1]]

Selected(p) ==
  /\ p.kind \in {"loading", "text", "url"} => p.of = p.selected
  /\ p.indexed => ~p.changed
  /\ p.urls = IF p.kind = "url" THEN 1 ELSE 0
  /\ \A r \in p.reads : r.current => r.of = p.selected /\ r.indexed = p.indexed
Awaited(fs) == \A x \in TreeFolders : fs.node[x].loading => x \in fs.loads
Wanted(f) ==
  /\ (~f.timer /\ ~f.loading) => f.shown.find = f.find /\ f.shown.page = f.page
  /\ \A q \in f.requests : q.current => q.find = f.find /\ q.page = f.page

TreeInv ==
  /\ a \in PreviewStates /\ b \in FolderStates /\ c \in FoundStates
  /\ Selected(a) /\ Awaited(b) /\ Wanted(c)

LEMMA TreeHolds == ASSUME TreeInv PROVE ATree!FileTreeTypeOK /\ ATree!PreviewOfSelected
<1>1. ATree!FileTreeTypeOK
  BY DEF TreeInv, PreviewStates, FolderStates, FoundStates, ATree!FileTreeTypeOK
<1>2. ATree!PreviewOfSelected
  BY DEF TreeInv, Selected, Awaited, Wanted, ATree!PreviewOfSelected
<1> QED
  BY <1>1, <1>2

LEMMA TreeStarts == ASSUME ATree!FileTreeInit PROVE TreeInv
<1>1. 0 \in 0..PageCount-1
  BY Bounds
<1>2. a \in PreviewStates /\ Selected(a)
  BY DEF ATree!FileTreeInit, PreviewStates, Selected, ATree!PreviewKinds
<1>3. b \in FolderStates /\ Awaited(b)
  BY DEF ATree!FileTreeInit, FolderStates, Awaited
<1>4. c \in FoundStates /\ Wanted(c)
  BY <1>1 DEF ATree!FileTreeInit, FoundStates, Wanted
<1> QED
  BY <1>2, <1>3, <1>4 DEF TreeInv

LEMMA KindsAre ==
  /\ {"none", "loading", "text", "url", "error", "unsupported"} \subseteq ATree!PreviewKinds
  /\ NoFile \in TreeFiles \cup {NoFile} /\ TreeFiles \subseteq TreeFiles \cup {NoFile} /\ FALSE \in BOOLEAN
BY DEF ATree!PreviewKinds

\* n is p with what it shows replaced, by what is of the file `of`.
Replaces(n, p, kind, of, changed) ==
  /\ n \in PreviewStates /\ n.kind = kind /\ n.of = of /\ (~changed => ~n.changed)
  /\ n.selected = p.selected /\ n.indexed = p.indexed /\ n.reads = p.reads
  /\ n.urls = IF kind = "url" THEN 1 ELSE 0

\* What the preview shows is replaced, by what is of the file selected or is no content.
LEMMA ReplacedOK ==
  ASSUME NEW p \in PreviewStates, Selected(p), NEW kind \in ATree!PreviewKinds, NEW of \in TreeFiles \cup {NoFile},
         NEW changed \in BOOLEAN
  PROVE  Replaces(ATree!Replaced(p, kind, of, changed), p, kind, of, changed)
<1> DEFINE n == ATree!Replaced(p, kind, of, changed)
<1> DEFINE urls == p.urls - (IF p.kind = "url" THEN 1 ELSE 0) + (IF kind = "url" THEN 1 ELSE 0)
<1>1. urls = IF kind = "url" THEN 1 ELSE 0
  BY DEF Selected
<1>2. urls \in 0..2
  BY <1>1
<1>3. n = [p EXCEPT !.kind = kind, !.of = of, !.changed = changed, !.urls = urls]
  BY DEF ATree!Replaced, PreviewStates
<1> HIDE DEF urls, n
<1>4. Replaces(n, p, kind, of, changed)
  BY <1>1, <1>2, <1>3 DEF PreviewStates, Replaces
<1> QED
  BY <1>4 DEF n

LEMMA OvertakenOK ==
  ASSUME NEW rs \in SUBSET ATree!FileReads
  PROVE  ATree!Overtaken(rs) \in SUBSET ATree!FileReads /\ \A r \in ATree!Overtaken(rs) : ~r.current
BY DEF ATree!Overtaken, ATree!FileReads

\* Nothing is selected any more.
LEMMA UnselectedOK ==
  ASSUME a \in PreviewStates, Selected(a), NEW n, n = ATree!Unselected(a)
  PROVE  n \in PreviewStates /\ Selected(n)
<1> DEFINE p == ATree!Replaced(a, "none", NoFile, FALSE)
<1>1. /\ p \in PreviewStates /\ p.kind = "none" /\ ~p.changed /\ p.urls = 0
  <2>1. "none" \in ATree!PreviewKinds /\ NoFile \in TreeFiles \cup {NoFile} /\ FALSE \in BOOLEAN
    BY KindsAre
  <2>2. Replaces(ATree!Replaced(a, "none", NoFile, FALSE), a, "none", NoFile, FALSE)
    BY <2>1, ReplacedOK
  <2>3. Replaces(p, a, "none", NoFile, FALSE)
    BY <2>2 DEF p
  <2> HIDE DEF p
  <2> QED
    BY <2>3 DEF Replaces
<1> HIDE DEF p
<1> DEFINE rs == ATree!Overtaken(p.reads)
<1>2. rs \in SUBSET ATree!FileReads /\ \A r \in rs : ~r.current
  BY <1>1, OvertakenOK DEF PreviewStates
<1>3. n = [p EXCEPT !.selected = NoFile, !.indexed = FALSE, !.reads = rs]
  BY DEF ATree!Unselected, p
<1> HIDE DEF rs
<1> QED
  BY <1>1, <1>2, <1>3 DEF PreviewStates, Selected

LEMMA ErrorShown ==
  ASSUME a \in PreviewStates, Selected(a), a' \in {a, ATree!Replaced(a, "error", NoFile, FALSE)}
  PROVE  a' \in PreviewStates /\ Selected(a)'
<1>1. CASE a' = a
  BY <1>1 DEF Selected
<1>2. CASE a' = ATree!Replaced(a, "error", NoFile, FALSE)
  <2>1. /\ a' \in PreviewStates /\ a'.kind = "error" /\ ~a'.changed /\ a'.urls = 0
        /\ a'.selected = a.selected /\ a'.indexed = a.indexed /\ a'.reads = a.reads
    <3>1. "error" \in ATree!PreviewKinds /\ NoFile \in TreeFiles \cup {NoFile} /\ FALSE \in BOOLEAN
      BY KindsAre
    <3>2. Replaces(ATree!Replaced(a, "error", NoFile, FALSE), a, "error", NoFile, FALSE)
      BY <3>1, ReplacedOK
    <3>3. Replaces(a', a, "error", NoFile, FALSE)
      BY <1>2, <3>2
    <3> QED
      BY <3>3 DEF Replaces
  <2> QED
    BY <2>1 DEF Selected
<1> QED
  BY <1>1, <1>2

LEMMA Loaded ==
  ASSUME NEW fs \in FolderStates, Awaited(fs), NEW x \in TreeFolders, NEW n, n = ATree!LoadFolder(fs, x)
  PROVE  n \in FolderStates /\ Awaited(n)
<1> DEFINE nd == [fs.node[x] EXCEPT !.expanded = TRUE, !.loading = TRUE]
           node == [fs.node EXCEPT ![x] = nd]
<1>1. fs.node[x] \in [read : BOOLEAN, expanded : BOOLEAN, loading : BOOLEAN]
  BY DEF FolderStates
<1>2. nd \in [read : BOOLEAN, expanded : BOOLEAN, loading : BOOLEAN]
  BY <1>1
<1>3. n = [fs EXCEPT !.node = node, !.loads = @ \cup {x}]
  BY DEF ATree!LoadFolder, FolderStates
<1> HIDE DEF nd
<1>4. node \in [TreeFolders -> [read : BOOLEAN, expanded : BOOLEAN, loading : BOOLEAN]]
      /\ \A y \in TreeFolders : y # x => node[y] = fs.node[y]
  BY <1>2 DEF FolderStates
<1> HIDE DEF node
<1>5. n \in FolderStates /\ n.node = node /\ n.loads = fs.loads \cup {x}
  BY <1>3, <1>4, ZenonT(60) DEF FolderStates
<1>6. Awaited(n)
  BY <1>4, <1>5 DEF Awaited
<1> QED
  BY <1>5, <1>6

LEMMA Opens ==
  ASSUME TreeInv, NEW f \in TreeFiles, NEW indexed \in BOOLEAN, NEW readable \in BOOLEAN, ATree!OpenFile(f, indexed, readable)
  PROVE  TreeInv'
<1> DEFINE kind == IF readable THEN "loading" ELSE "unsupported"
           p == ATree!Replaced(a, kind, f, FALSE)
           one == IF readable THEN {[of |-> f, indexed |-> indexed, current |-> TRUE]} ELSE {}
<1>1. /\ p \in PreviewStates /\ p.kind = kind /\ p.of = f /\ ~p.changed /\ p.urls = 0
  <2>1. kind \in ATree!PreviewKinds /\ kind # "url" /\ f \in TreeFiles \cup {NoFile} /\ FALSE \in BOOLEAN
    BY KindsAre
  <2>2. a \in PreviewStates /\ Selected(a)
    BY DEF TreeInv
  <2> HIDE DEF kind
  <2>3. Replaces(ATree!Replaced(a, kind, f, FALSE), a, kind, f, FALSE)
    BY <2>1, <2>2, ReplacedOK
  <2>4. Replaces(p, a, kind, f, FALSE)
    BY <2>3 DEF p
  <2> HIDE DEF p
  <2> QED
    BY <2>1, <2>4 DEF Replaces
<1>2. one \in SUBSET ATree!FileReads /\ \A r \in one : r.of = f /\ r.indexed = indexed
  BY DEF ATree!FileReads
<1> HIDE DEF p
<1> DEFINE q == [p EXCEPT !.selected = f, !.indexed = indexed]
<1>3. /\ q \in PreviewStates /\ q.kind = kind /\ q.of = f /\ ~q.changed /\ q.urls = 0
      /\ q.selected = f /\ q.indexed = indexed /\ q.reads = p.reads
  BY <1>1 DEF PreviewStates
<1> DEFINE rs == ATree!Overtaken(q.reads)
<1>4. rs \in SUBSET ATree!FileReads /\ \A r \in rs : ~r.current
  BY <1>3, OvertakenOK DEF PreviewStates
<1>5. a' = [q EXCEPT !.reads = rs \cup one] /\ b' = b /\ c' = c
  BY DEF ATree!OpenFile, p
<1> HIDE DEF q, rs, one
<1>6. a' \in PreviewStates /\ a'.kind = kind /\ a'.of = f /\ ~a'.changed /\ a'.urls = 0
      /\ a'.selected = f /\ a'.indexed = indexed /\ a'.reads = rs \cup one
  BY <1>2, <1>3, <1>4, <1>5 DEF PreviewStates
<1>7. Selected(a)'
  BY <1>2, <1>4, <1>6 DEF Selected
<1> QED
  BY <1>5, <1>6, <1>7 DEF TreeInv, Awaited, Wanted

LEMMA Answers == ASSUME TreeInv, NEW r \in ATree!FileReads, ATree!FileAnswered(r) PROVE TreeInv'
<1> DEFINE p == [a EXCEPT !.reads = @ \ {r}]
<1>1. p \in PreviewStates /\ Selected(p) /\ p.selected = a.selected /\ p.indexed = a.indexed
  BY DEF TreeInv, PreviewStates, Selected
<1>2. r \in a.reads /\ b' = b /\ c' = c
      /\ \/ a' = p
         \/ \E kind \in {"text", "url"}, changed \in BOOLEAN :
              r.current /\ a' = IF r.indexed /\ changed THEN ATree!Replaced(p, "error", r.of, FALSE) ELSE ATree!Replaced(p, kind, r.of, changed)
         \/ \E kind \in {"error", "unsupported"} : r.current /\ a' = ATree!Replaced(p, kind, r.of, FALSE)
  BY DEF ATree!FileAnswered
<1>3. r.of \in TreeFiles \cup {NoFile} /\ r.indexed \in BOOLEAN
  BY DEF ATree!FileReads
<1>4. r.current => r.of = p.selected /\ r.indexed = p.indexed
  BY <1>1, <1>2 DEF TreeInv, Selected
<1> HIDE DEF p
<1>5. ASSUME NEW kind \in {"text", "url", "error", "unsupported"}, NEW changed \in BOOLEAN, r.current,
             r.indexed => ~changed, a' = ATree!Replaced(p, kind, r.of, changed)
      PROVE  a' \in PreviewStates /\ Selected(a)'
  <2>1. /\ a' \in PreviewStates /\ a'.kind = kind /\ a'.of = r.of /\ (~changed => ~a'.changed)
        /\ a'.selected = p.selected /\ a'.indexed = p.indexed /\ a'.reads = p.reads
        /\ a'.urls = IF kind = "url" THEN 1 ELSE 0
    <3>1. kind \in ATree!PreviewKinds
      BY <1>5 DEF ATree!PreviewKinds
    <3>2. Replaces(ATree!Replaced(p, kind, r.of, changed), p, kind, r.of, changed)
      BY <1>1, <1>3, <3>1, ReplacedOK
    <3>3. Replaces(a', p, kind, r.of, changed)
      BY <1>5, <3>2
    <3> QED
      BY <3>3 DEF Replaces
  <2> QED
    BY <1>1, <1>4, <1>5, <2>1 DEF Selected
<1>6. a' \in PreviewStates /\ Selected(a)'
  BY <1>1, <1>2, <1>3, <1>5 DEF Selected
<1> QED
  BY <1>2, <1>6 DEF TreeInv, Awaited, Wanted

\* Requests that are under way no longer count.
LEMMA AskedOK ==
  ASSUME TreeInv, NEW f \in Finds, NEW page \in 0..PageCount-1, ATree!Asked(f, page), a' = a, b' = b
  PROVE  TreeInv'
<1> DEFINE qs == {[q EXCEPT !.current = FALSE] : q \in c.requests}
<1>1. c.requests \in SUBSET ATree!FindRequests
  BY DEF TreeInv, FoundStates
<1>2. qs \in SUBSET ATree!FindRequests /\ \A q \in qs : ~q.current
  BY <1>1 DEF ATree!FindRequests
<1>3. c' = [c EXCEPT !.find = f, !.page = page, !.timer = TRUE, !.requests = qs]
  BY DEF ATree!Asked
<1> HIDE DEF qs
<1>4. c' \in FoundStates /\ Wanted(c)'
  BY <1>2, <1>3 DEF TreeInv, FoundStates, Wanted
<1> QED
  BY <1>4 DEF TreeInv, Selected, Awaited

LEMMA Finds0 == ASSUME TreeInv, NEW q \in ATree!FindRequests, ATree!FindAnswered(q) PROVE TreeInv'
<1> DEFINE rest == [c EXCEPT !.requests = @ \ {q}]
           of == [find |-> q.find, page |-> q.page]
<1>1. c \in FoundStates /\ Wanted(c) /\ q \in c.requests /\ b' = b
  BY DEF TreeInv, ATree!FindAnswered
<1>2. of \in [find : Finds, page : 0..PageCount-1] /\ 0 \in 0..PageCount-1
  BY Bounds DEF ATree!FindRequests
<1>3. rest \in FoundStates /\ rest.requests \subseteq c.requests
      /\ rest.find = c.find /\ rest.page = c.page /\ rest.timer = c.timer /\ rest.loading = c.loading /\ rest.shown = c.shown
  BY <1>1 DEF FoundStates
<1>4. q.current => q.find = c.find /\ q.page = c.page
  BY <1>1 DEF Wanted
<1>5. \/ c' = rest
      \/ q.current /\ c' = [rest EXCEPT !.loading = FALSE, !.shown = of]
      \/ q.current /\ q.page > 0 /\ c' = [rest EXCEPT !.loading = FALSE, !.page = 0, !.timer = TRUE]
  BY DEF ATree!FindAnswered
<1>6. \A x \in rest.requests : x.current => x.find = c.find /\ x.page = c.page
  BY <1>1, <1>3 DEF Wanted
<1>7. of.find = q.find /\ of.page = q.page
  OBVIOUS
<1>8. a' \in PreviewStates /\ Selected(a)'
  BY ErrorShown DEF TreeInv, ATree!FindAnswered
<1> HIDE DEF rest, of
<1>9. CASE c' = rest
  BY <1>1, <1>3, <1>6, <1>8, <1>9 DEF TreeInv, Wanted, Awaited
<1>10. CASE q.current /\ c' = [rest EXCEPT !.loading = FALSE, !.shown = of]
  <2>1. c' \in FoundStates /\ c'.shown = of /\ c'.find = c.find /\ c'.page = c.page /\ c'.requests = rest.requests
    BY <1>2, <1>3, <1>10 DEF FoundStates
  <2>2. Wanted(c)'
    BY <1>4, <1>6, <1>7, <1>10, <2>1 DEF Wanted
  <2> QED
    BY <1>1, <1>8, <2>1, <2>2 DEF TreeInv, Awaited
<1>11. CASE q.current /\ q.page > 0 /\ c' = [rest EXCEPT !.loading = FALSE, !.page = 0, !.timer = TRUE]
  <2>1. c' \in FoundStates /\ c'.timer /\ c'.find = c.find /\ c'.page = 0 /\ c'.requests = rest.requests
    BY <1>2, <1>3, <1>11 DEF FoundStates
  <2>2. q \notin rest.requests
    BY <1>1 DEF rest, FoundStates
  <2>3. \A x \in rest.requests : ~x.current
    <3> SUFFICES ASSUME NEW x \in rest.requests, x.current PROVE FALSE
      OBVIOUS
    <3>1. x \in ATree!FindRequests /\ x.find = q.find /\ x.page = q.page /\ q.current
      BY <1>1, <1>3, <1>4, <1>6, <1>11 DEF FoundStates
    <3>2. x = q
      BY <3>1 DEF ATree!FindRequests
    <3> QED
      BY <2>2, <3>2
  <2>4. Wanted(c)'
    BY <2>1, <2>3 DEF Wanted
  <2> QED
    BY <1>1, <1>8, <2>1, <2>4 DEF TreeInv, Awaited
<1> QED
  BY <1>5, <1>9, <1>10, <1>11

LEMMA TreeStep == ASSUME TreeInv, [ATree!FileTreeNext]_<<a, b, c>> PROVE TreeInv'
<1>1. ASSUME NEW x \in TreeFolders, ATree!NavigateTo(x) PROVE TreeInv'
  <2> DEFINE fs == [b EXCEPT !.at = x]
  <2>1. fs \in FolderStates /\ Awaited(fs)
    BY DEF TreeInv, FolderStates, Awaited
  <2>2. b' \in {fs, ATree!LoadFolder(fs, x)} /\ a' = ATree!Unselected(a) /\ c' = c
    BY <1>1 DEF ATree!NavigateTo
  <2> HIDE DEF fs
  <2>3. b' \in FolderStates /\ Awaited(b')
    BY <2>1, <2>2, Loaded
  <2>4. a' \in PreviewStates /\ Selected(a')
    BY <2>2, UnselectedOK DEF TreeInv
  <2> QED
    BY <2>2, <2>3, <2>4 DEF TreeInv, Selected, Awaited, Wanted
<1>2. ASSUME NEW x \in TreeFolders, ATree!ToggleDir(x) PROVE TreeInv'
  <2>1. b \in FolderStates /\ Awaited(b) /\ a' = a /\ c' = c
    BY <1>2 DEF TreeInv, ATree!ToggleDir
  <2>2. CASE \E on \in BOOLEAN : b' = [b EXCEPT !.node[x].expanded = on]
    <3>1. PICK on \in BOOLEAN : b' = [b EXCEPT !.node[x].expanded = on]
      BY <2>2
    <3> DEFINE node == [b.node EXCEPT ![x] = [b.node[x] EXCEPT !.expanded = on]]
    <3>2. node \in [TreeFolders -> [read : BOOLEAN, expanded : BOOLEAN, loading : BOOLEAN]]
          /\ \A y \in TreeFolders : node[y].loading = b.node[y].loading
      BY <2>1 DEF FolderStates
    <3>3. b' = [b EXCEPT !.node = node]
      BY <2>1, <3>1 DEF FolderStates
    <3> HIDE DEF node
    <3>4. b' \in FolderStates /\ b'.node = node /\ b'.loads = b.loads
      BY <2>1, <3>2, <3>3 DEF FolderStates
    <3>5. Awaited(b)'
      BY <2>1, <3>2, <3>4 DEF Awaited
    <3> QED
      BY <2>1, <3>4, <3>5 DEF TreeInv, Selected, Wanted
  <2>3. CASE b' = ATree!LoadFolder(b, x)
    <3>1. b' \in FolderStates /\ Awaited(b')
      BY <2>1, <2>3, Loaded
    <3> QED
      BY <2>1, <3>1 DEF TreeInv, Selected, Awaited, Wanted
  <2> QED
    BY <1>2, <2>2, <2>3 DEF ATree!ToggleDir
<1>3. ASSUME NEW x \in TreeFolders, ATree!FolderAnswered(x) PROVE TreeInv'
  <2> DEFINE done == [read |-> TRUE, expanded |-> TRUE, loading |-> FALSE]
  <2>1. b' = [b EXCEPT !.loads = @ \ {x}, !.node[x] = done] /\ c' = c /\ done \in [read : BOOLEAN, expanded : BOOLEAN, loading : BOOLEAN]
        /\ ~done.loading
    BY <1>3 DEF ATree!FolderAnswered
  <2> HIDE DEF done
  <2>2. b' \in FolderStates /\ Awaited(b)'
    BY <2>1 DEF TreeInv, FolderStates, Awaited
  <2>3. a' \in PreviewStates /\ Selected(a)'
    BY <1>3, ErrorShown DEF TreeInv, ATree!FolderAnswered
  <2> QED
    BY <2>1, <2>2, <2>3 DEF TreeInv, Wanted
<1>4. ASSUME NEW f \in Finds, ATree!AskAgain(f) PROVE TreeInv'
  <2>1. 0 \in 0..PageCount-1
    BY Bounds
  <2> QED
    BY <1>4, <2>1, AskedOK DEF ATree!AskAgain
<1>5. ASSUME NEW page \in 0..PageCount-1, ATree!TurnPage(page) PROVE TreeInv'
  BY <1>5, AskedOK DEF ATree!TurnPage, TreeInv, FoundStates
<1>6. CASE ATree!Refresh
  BY <1>6, AskedOK DEF ATree!Refresh, TreeInv, FoundStates
<1>7. CASE ATree!ClosePreview
  BY <1>7, UnselectedOK DEF ATree!ClosePreview, TreeInv, Selected, Awaited, Wanted
<1>8. CASE ATree!TimerAsks
  <2> DEFINE of == [find |-> c.find, page |-> c.page]
             ask == [find |-> c.find, page |-> c.page, current |-> TRUE]
  <2>1. of \in [find : Finds, page : 0..PageCount-1] /\ of.find = c.find /\ of.page = c.page
        /\ ask \in ATree!FindRequests /\ ask.find = c.find /\ ask.page = c.page
    BY DEF TreeInv, FoundStates, ATree!FindRequests
  <2> HIDE DEF of, ask
  <2>2. CASE c' = [c EXCEPT !.timer = FALSE, !.loading = TRUE, !.requests = @ \cup {ask}] /\ a' = a /\ b' = b
    <3>1. c' \in FoundStates /\ c'.loading /\ c'.find = c.find /\ c'.page = c.page /\ c'.requests = c.requests \cup {ask}
      BY <2>1, <2>2 DEF TreeInv, FoundStates
    <3>2. Wanted(c)'
      BY <2>1, <3>1 DEF TreeInv, Wanted
    <3> QED
      BY <2>2, <3>1, <3>2 DEF TreeInv, Selected, Awaited
  <2>3. CASE c' = [c EXCEPT !.timer = FALSE, !.loading = FALSE, !.shown = of] /\ a' = a /\ b' = ATree!LoadFolder(b, b.at)
    <3>1. c' \in FoundStates /\ c'.shown = of /\ c'.find = c.find /\ c'.page = c.page /\ c'.requests = c.requests
      BY <2>1, <2>3 DEF TreeInv, FoundStates
    <3>2. Wanted(c)'
      BY <2>1, <3>1 DEF TreeInv, Wanted
    <3>3. b.at \in TreeFolders /\ b \in FolderStates /\ Awaited(b)
      BY DEF TreeInv, FolderStates
    <3>4. b' \in FolderStates /\ Awaited(b')
      BY <2>3, <3>3, Loaded
    <3> QED
      BY <2>3, <3>1, <3>2, <3>4 DEF TreeInv, Selected, Awaited
  <2> QED
    BY <1>8, <2>2, <2>3 DEF ATree!TimerAsks, of, ask
<1>9. CASE UNCHANGED <<a, b, c>>
  BY <1>9 DEF TreeInv, Selected, Awaited, Wanted
<1> QED
  BY <1>1, <1>2, <1>3, <1>4, <1>5, <1>6, <1>7, <1>8, <1>9, Opens, Answers, Finds0
  DEF ATree!FileTreeNext, ATree!RowClicked, ATree!TreeClicked, ATree!PathClicked

-----------------------------------------------------------------------------
(* The agents' files: the folder, what is being saved and, unless they are *)
(* being read, the files on the panel are of one agent each; and a read    *)
(* that is listened to is of the agent chosen, on the tab that shows it.   *)

EditorStates ==
  [agent : Configured, files : AnEditor!Sheets, loading : BOOLEAN, edits : 0..MaxEdits,
   tab : {"config", "session"}, saving : BOOLEAN]
SaveRecords ==
  [kind : {"save", "join", "create"}, of : Configured, files : AnEditor!Sheets, left : SUBSET FileNames,
   team : SUBSET Configured, current : BOOLEAN]

TextsOf(x, files) == \A n \in FileNames : files[n].of = x
PanelOwn(w) == w.tab = "config" /\ ~w.loading => TextsOf(w.agent, w.files)
ReadsOwn(w, rs) == \A r \in rs : r.current => r.of = w.agent /\ w.tab = "config"
FolderOwn == \A x \in Configured : TextsOf(x, b[x])
SavesOwn(ss) == \A s \in ss : s.left # {} => TextsOf(s.of, s.files)   \* one that joins writes no file

EditorInv ==
  /\ a \in EditorStates /\ b \in [Configured -> AnEditor!Sheets] /\ c \in SUBSET Configured
  /\ d \in SUBSET AnEditor!Reads /\ e \in SUBSET SaveRecords
  /\ PanelOwn(a) /\ ReadsOwn(a, d) /\ FolderOwn /\ SavesOwn(e)

LEMMA EditorHolds == ASSUME EditorInv PROVE AnEditor!AgentFilesTypeOK /\ AnEditor!FilesAreOwn
<1>1. AnEditor!AgentFilesTypeOK
  BY DEF EditorInv, EditorStates, SaveRecords, AnEditor!AgentFilesTypeOK
<1>2. AnEditor!FilesAreOwn
  BY DEF EditorInv, PanelOwn, FolderOwn, TextsOf, AnEditor!FilesAreOwn
<1> QED
  BY <1>1, <1>2

LEMMA BlankOK == ASSUME NEW x \in Configured PROVE AnEditor!Blank(x) \in AnEditor!Sheets /\ TextsOf(x, AnEditor!Blank(x))
<1>1. AnEditor!Default(x) \in AnEditor!Texts /\ AnEditor!Default(x).of = x
  BY Bounds DEF AnEditor!Default, AnEditor!Texts
<1> QED
  BY <1>1 DEF AnEditor!Blank, AnEditor!Sheets, TextsOf

LEMMA ReadingOK ==
  ASSUME NEW x \in Configured
  PROVE  AnEditor!Reading(x) \in AnEditor!Reads /\ AnEditor!Reading(x).of = x
<1>1. AnEditor!Blank(x) \in AnEditor!Sheets
  BY BlankOK
<1> QED
  BY <1>1 DEF AnEditor!Reading, AnEditor!Reads

LEMMA OpenedOK ==
  ASSUME NEW x \in Configured, NEW n \in 0..MaxEdits
  PROVE  AnEditor!Opened(x, n) \in EditorStates /\ AnEditor!Opened(x, n).agent = x
         /\ AnEditor!Opened(x, n).loading /\ AnEditor!Opened(x, n).tab = "config"
<1> DEFINE on == TRUE
           off == FALSE
<1>1. AnEditor!Blank(x) \in AnEditor!Sheets
  BY BlankOK
<1>2. on \in BOOLEAN /\ off \in BOOLEAN /\ on
  OBVIOUS
<1>3. AnEditor!Opened(x, n) = [agent |-> x, files |-> AnEditor!Blank(x), loading |-> on, edits |-> n, tab |-> "config", saving |-> off]
  BY DEF AnEditor!Opened
<1> HIDE DEF on, off
<1> QED
  BY <1>1, <1>2, <1>3 DEF EditorStates

LEMMA ShownOK == ASSUME NEW x \in Configured, NEW agents \in SUBSET Configured PROVE AnEditor!Shown(x, agents) \subseteq Configured
BY ScreensAssumption DEF AnEditor!Shown

LEMMA EditorStarts == ASSUME AnEditor!AgentFilesInit PROVE EditorInv
<1>1. PICK x \in AnEditor!Shown(Main, c) : a = AnEditor!Opened(x, 0) /\ d = {AnEditor!Reading(x)}
  BY DEF AnEditor!AgentFilesInit
<1>2. b = [y \in Configured |-> AnEditor!Blank(y)] /\ c \in SUBSET Configured /\ e = {}
  BY DEF AnEditor!AgentFilesInit
<1>3. x \in Configured /\ 0 \in 0..MaxEdits
  BY <1>1, <1>2, ShownOK, ScreensAssumption, Bounds
<1>4. a \in EditorStates /\ a.agent = x /\ a.loading /\ a.tab = "config"
  BY <1>1, <1>3, OpenedOK
<1>5. d \in SUBSET AnEditor!Reads /\ ReadsOwn(a, d)
  BY <1>1, <1>3, <1>4, ReadingOK DEF ReadsOwn
<1>6. b \in [Configured -> AnEditor!Sheets] /\ FolderOwn
  BY <1>2, BlankOK DEF FolderOwn
<1> QED
  BY <1>2, <1>4, <1>5, <1>6 DEF EditorInv, PanelOwn, SavesOwn

LEMMA UnheardReads ==
  ASSUME NEW rs \in SUBSET AnEditor!Reads
  PROVE  AnEditor!Unheard(rs) \in SUBSET AnEditor!Reads /\ \A r \in AnEditor!Unheard(rs) : ~r.current
BY DEF AnEditor!Unheard, AnEditor!Reads

\* The panel goes to an agent, or stays.
LEMMA PanelGoes ==
  ASSUME NEW w \in EditorStates, NEW rs \in SUBSET AnEditor!Reads, rs = d, ReadsOwn(w, rs), NEW x \in Configured, AnEditor!Go(w, x)
  PROVE  a' \in EditorStates /\ d' \in SUBSET AnEditor!Reads /\ PanelOwn(a') /\ ReadsOwn(a', d')
<1> DEFINE loading == w.tab = "config"
<1>1. a' = [w EXCEPT !.agent = x, !.loading = loading] /\ loading \in BOOLEAN
  BY DEF AnEditor!Go
<1> HIDE DEF loading
<1>2. a' \in EditorStates /\ a'.agent = x /\ a'.tab = w.tab /\ a'.loading = loading
  BY <1>1 DEF EditorStates
<1>3. PanelOwn(a')
  BY <1>2 DEF PanelOwn, loading
<1>4. CASE w.tab = "config"
  <2>1. d' = AnEditor!Unheard(rs) \cup {AnEditor!Reading(x)}
    BY <1>4 DEF AnEditor!Go, AnEditor!Choose
  <2> QED
    BY <1>2, <1>3, <1>4, <2>1, UnheardReads, ReadingOK DEF ReadsOwn
<1>5. CASE w.tab # "config"
  BY <1>2, <1>3, <1>5 DEF AnEditor!Go, ReadsOwn
<1> QED
  BY <1>4, <1>5

LEMMA PanelShows ==
  ASSUME NEW w \in EditorStates, NEW rs \in SUBSET AnEditor!Reads, rs = d, ReadsOwn(w, rs), PanelOwn(w),
         NEW x \in Configured, NEW agents \in SUBSET Configured, AnEditor!Show(w, x, agents)
  PROVE  a' \in EditorStates /\ d' \in SUBSET AnEditor!Reads /\ PanelOwn(a') /\ ReadsOwn(a', d')
<1>1. PICK y \in AnEditor!Shown(x, agents) : IF y = w.agent THEN a' = w /\ UNCHANGED d ELSE AnEditor!Go(w, y)
  BY DEF AnEditor!Show
<1>2. y \in Configured
  BY ShownOK
<1>3. CASE y = w.agent
  BY <1>1, <1>3
<1>4. CASE y # w.agent
  BY <1>1, <1>2, <1>4, PanelGoes
<1> QED
  BY <1>3, <1>4

LEMMA EditorTabs == ASSUME EditorInv, AnEditor!TabSession \/ AnEditor!TabConfig PROVE EditorInv'
<1>1. CASE AnEditor!TabSession
  <2> DEFINE off == FALSE
  <2>1. a' = [a EXCEPT !.tab = "session", !.loading = off, !.saving = off] /\ off \in BOOLEAN /\ a \in EditorStates
    BY <1>1 DEF AnEditor!TabSession, EditorInv
  <2> HIDE DEF off
  <2>2. a' \in EditorStates /\ a'.tab = "session"
    BY <2>1 DEF EditorStates
  <2>3. d' \in SUBSET AnEditor!Reads /\ ReadsOwn(a', d')
    BY <1>1, UnheardReads DEF AnEditor!TabSession, EditorInv, ReadsOwn
  <2>4. e' \in SUBSET SaveRecords /\ SavesOwn(e')
    <3>1. e' = AnEditor!Unheard(e) /\ e \in SUBSET SaveRecords /\ SavesOwn(e)
      BY <1>1 DEF AnEditor!TabSession, EditorInv
    <3> DEFINE U(s) == [s EXCEPT !.current = FALSE]
    <3>2. \A s \in SaveRecords : U(s) \in SaveRecords /\ U(s).left = s.left /\ U(s).of = s.of /\ U(s).files = s.files
      BY DEF SaveRecords
    <3>3. e' = {U(s) : s \in e}
      BY <3>1 DEF AnEditor!Unheard
    <3> HIDE DEF U
    <3> QED
      BY <3>1, <3>2, <3>3 DEF SavesOwn, TextsOf
  <2> QED
    BY <1>1, <2>2, <2>3, <2>4 DEF AnEditor!TabSession, EditorInv, PanelOwn, FolderOwn, TextsOf
<1>2. CASE AnEditor!TabConfig
  <2>1. a.agent \in Configured /\ a.edits \in 0..MaxEdits
    BY DEF EditorInv, EditorStates
  <2>2. a' \in EditorStates /\ a'.agent = a.agent /\ a'.loading /\ a'.tab = "config"
    BY <1>2, <2>1, OpenedOK DEF AnEditor!TabConfig
  <2>3. d' \in SUBSET AnEditor!Reads /\ ReadsOwn(a', d')
    BY <1>2, <2>1, <2>2, UnheardReads, ReadingOK DEF AnEditor!TabConfig, AnEditor!Choose, EditorInv, ReadsOwn
  <2> QED
    BY <1>2, <2>2, <2>3 DEF AnEditor!TabConfig, EditorInv, PanelOwn, FolderOwn, TextsOf, SavesOwn
<1> QED
  BY <1>1, <1>2

LEMMA FilesCome == ASSUME EditorInv, NEW r, AnEditor!FilesRead(r) PROVE EditorInv'
<1>1. r \in d /\ d' = d \ {r} /\ UNCHANGED <<b, c, e>>
  BY DEF AnEditor!FilesRead
<1>2. CASE ~r.current
  <2>1. a' = a
    BY <1>2 DEF AnEditor!FilesRead
  <2> QED
    BY <1>1, <2>1 DEF EditorInv, PanelOwn, ReadsOwn, FolderOwn, TextsOf, SavesOwn
<1>3. CASE r.current
  <2>1. PICK done \in AnEditor!Read(r) : a' = [a EXCEPT !.files = done.files, !.loading = FALSE]
    BY <1>3 DEF AnEditor!FilesRead
  <2> DEFINE F(failed) == [n \in FileNames |-> IF n \in failed THEN AnEditor!Default(r.of) ELSE b[r.of][n]]
             off == FALSE
  <2>2. PICK failed \in SUBSET FileNames : done = [r EXCEPT !.files = F(failed)]
    BY <2>1 DEF AnEditor!Read
  <2>3. r \in AnEditor!Reads /\ r.of \in Configured /\ r.of = a.agent /\ a.tab = "config" /\ a \in EditorStates
    BY <1>1, <1>3 DEF EditorInv, ReadsOwn, AnEditor!Reads
  <2>4. AnEditor!Default(r.of) \in AnEditor!Texts /\ AnEditor!Default(r.of).of = r.of
    BY <2>3, Bounds DEF AnEditor!Default, AnEditor!Texts
  <2>5. F(failed) \in AnEditor!Sheets /\ TextsOf(r.of, F(failed))
    BY <2>3, <2>4 DEF EditorInv, FolderOwn, TextsOf, AnEditor!Sheets
  <2>6. done.files = F(failed)
    BY <2>2, <2>3 DEF AnEditor!Reads
  <2>7. a' = [a EXCEPT !.files = F(failed), !.loading = off] /\ off \in BOOLEAN
    BY <2>1, <2>6
  <2> HIDE DEF F, off
  <2>8. a' \in EditorStates /\ a'.files = F(failed) /\ a'.agent = a.agent /\ a'.tab = a.tab
    BY <2>3, <2>5, <2>7 DEF EditorStates
  <2>9. PanelOwn(a') /\ ReadsOwn(a', d')
    BY <1>1, <2>3, <2>5, <2>8 DEF EditorInv, PanelOwn, ReadsOwn, TextsOf
  <2> QED
    BY <1>1, <2>8, <2>9 DEF EditorInv, FolderOwn, TextsOf, SavesOwn
<1> QED
  BY <1>2, <1>3

LEMMA FileEdited == ASSUME EditorInv, NEW n \in FileNames, AnEditor!EditFile(n) PROVE EditorInv'
<1> DEFINE k == a.edits + 1
           text == [of |-> a.agent, edit |-> k]
           files == [a.files EXCEPT ![n] = text]
<1>1. /\ a \in EditorStates /\ a.agent \in Configured /\ a.files \in AnEditor!Sheets /\ a.edits \in 0..MaxEdits
      /\ a.edits < MaxEdits /\ a.tab = "config" /\ ~a.loading /\ TextsOf(a.agent, a.files)
  BY DEF EditorInv, EditorStates, PanelOwn, AnEditor!EditFile
<1>2. k \in 0..MaxEdits
  BY <1>1, Bounds
<1>3. text \in AnEditor!Texts /\ text.of = a.agent
  BY <1>1, <1>2 DEF AnEditor!Texts
<1> HIDE DEF text
<1>4. files \in AnEditor!Sheets /\ TextsOf(a.agent, files)
  BY <1>1, <1>3 DEF AnEditor!Sheets, TextsOf
<1>5. a' = [a EXCEPT !.edits = k, !.files = files] /\ UNCHANGED <<b, c, d, e>>
  BY <1>1 DEF AnEditor!EditFile, EditorStates, text
<1> HIDE DEF k, files
<1>6. a' \in EditorStates /\ a'.agent = a.agent /\ a'.tab = a.tab /\ a'.files = files
  BY <1>1, <1>2, <1>4, <1>5 DEF EditorStates
<1> QED
  BY <1>1, <1>4, <1>5, <1>6 DEF EditorInv, PanelOwn, ReadsOwn, FolderOwn, TextsOf, SavesOwn

LEMMA SavingOK ==
  ASSUME EditorInv, NEW kind \in {"save", "join", "create"}, NEW x \in Configured, NEW files \in AnEditor!Sheets,
         NEW left \in SUBSET FileNames, left # {} => TextsOf(x, files), AnEditor!Saving(kind, x, files, left)
  PROVE  e' \in SUBSET SaveRecords /\ SavesOwn(e')
<1> DEFINE on == TRUE
           s == [kind |-> kind, of |-> x, files |-> files, left |-> left, team |-> c, current |-> on]
<1>1. e' = e \cup {s} /\ on \in BOOLEAN /\ c \in SUBSET Configured /\ e \in SUBSET SaveRecords /\ SavesOwn(e)
  BY DEF AnEditor!Saving, EditorInv
<1> HIDE DEF on
<1>2. s \in SaveRecords /\ s.of = x /\ s.files = files /\ s.left = left
  BY <1>1 DEF SaveRecords
<1> HIDE DEF s
<1> QED
  BY <1>1, <1>2 DEF SavesOwn

LEMMA SaveBegins ==
  ASSUME EditorInv, AnEditor!Save \/ AnEditor!CreateAgent \/ \E x \in Configured : AnEditor!SubmitAgent(x)
  PROVE  EditorInv'
<1>1. a \in EditorStates /\ a.agent \in Configured /\ a.files \in AnEditor!Sheets
  BY DEF EditorInv, EditorStates
<1>2. CASE AnEditor!Save
  <2> DEFINE on == TRUE
  <2>1. a' = [a EXCEPT !.saving = on] /\ on \in BOOLEAN /\ UNCHANGED <<b, c, d>> /\ TextsOf(a.agent, a.files)
    BY <1>2 DEF AnEditor!Save, EditorInv, PanelOwn
  <2>2. AnEditor!Saving("save", a.agent, a.files, FileNames)
    BY <1>2 DEF AnEditor!Save
  <2>3. e' \in SUBSET SaveRecords /\ SavesOwn(e')
    BY <1>1, <2>1, <2>2, SavingOK
  <2> HIDE DEF on
  <2>4. a' \in EditorStates /\ a'.agent = a.agent /\ a'.tab = a.tab /\ a'.files = a.files /\ a'.loading = a.loading
    BY <1>1, <2>1 DEF EditorStates
  <2> QED
    BY <2>1, <2>3, <2>4 DEF EditorInv, PanelOwn, ReadsOwn, FolderOwn, TextsOf
<1>3. CASE AnEditor!CreateAgent
  <2>1. UNCHANGED <<a, b, c, d>> /\ AnEditor!Saving("join", a.agent, a.files, {})
    BY <1>3 DEF AnEditor!CreateAgent
  <2>2. e' \in SUBSET SaveRecords /\ SavesOwn(e')
    <3> DEFINE none == {}
    <3>1. none \in SUBSET FileNames /\ none = {} /\ AnEditor!Saving("join", a.agent, a.files, none)
      BY <2>1
    <3> HIDE DEF none
    <3> QED
      BY <1>1, <3>1, SavingOK
  <2> QED
    BY <2>1, <2>2 DEF EditorInv, PanelOwn, ReadsOwn, FolderOwn, TextsOf
<1>4. ASSUME NEW x \in Configured, AnEditor!SubmitAgent(x) PROVE EditorInv'
  <2>1. UNCHANGED <<a, b, c, d>> /\ AnEditor!Saving("create", x, AnEditor!Blank(x), {})
    BY <1>4 DEF AnEditor!SubmitAgent
  <2>2. e' \in SUBSET SaveRecords /\ SavesOwn(e')
    <3> DEFINE none == {}
    <3>1. none \in SUBSET FileNames /\ AnEditor!Saving("create", x, AnEditor!Blank(x), none)
      BY <2>1
    <3>2. AnEditor!Blank(x) \in AnEditor!Sheets /\ TextsOf(x, AnEditor!Blank(x))
      BY <1>4, BlankOK
    <3> HIDE DEF none
    <3> QED
      BY <1>4, <3>1, <3>2, SavingOK
  <2> QED
    BY <2>1, <2>2 DEF EditorInv, PanelOwn, ReadsOwn, FolderOwn, TextsOf
<1> QED
  BY <1>2, <1>3, <1>4

LEMMA FileWritten == ASSUME EditorInv, NEW n \in FileNames, NEW s \in e, AnEditor!WriteFile(s, n) PROVE EditorInv'
<1>1. s \in SaveRecords /\ n \in s.left /\ TextsOf(s.of, s.files) /\ UNCHANGED <<c, d>>
  BY DEF EditorInv, SavesOwn, AnEditor!WriteFile
<1>2. CASE b' = [b EXCEPT ![s.of][n] = s.files[n]] /\ a' = a /\ e' = (e \ {s}) \cup {[s EXCEPT !.left = @ \ {n}]}
  <2> DEFINE left == s.left \ {n}
             rest == [s EXCEPT !.left = left]
             text == s.files[n]
             sheet == [b[s.of] EXCEPT ![n] = text]
  <2>1. /\ b \in [Configured -> AnEditor!Sheets] /\ FolderOwn /\ s.of \in Configured /\ s.files \in AnEditor!Sheets
        /\ left \in SUBSET FileNames
    BY <1>1 DEF EditorInv, SaveRecords
  <2>2. text \in AnEditor!Texts /\ text.of = s.of /\ b[s.of] \in AnEditor!Sheets
    BY <1>1, <2>1 DEF AnEditor!Sheets, TextsOf
  <2> HIDE DEF text
  <2>3. sheet \in AnEditor!Sheets /\ TextsOf(s.of, sheet)
    BY <2>1, <2>2 DEF AnEditor!Sheets, TextsOf, FolderOwn
  <2>4. b' = [b EXCEPT ![s.of] = sheet]
    BY <1>2, <2>1 DEF text
  <2> HIDE DEF sheet, left
  <2>5. b' \in [Configured -> AnEditor!Sheets] /\ \A x \in Configured : TextsOf(x, b'[x])
    BY <2>1, <2>3, <2>4 DEF FolderOwn
  <2>6. rest \in SaveRecords /\ rest.of = s.of /\ rest.files = s.files
    BY <1>1, <2>1 DEF SaveRecords
  <2>7. e' = (e \ {s}) \cup {rest}
    BY <1>1, <1>2 DEF left, SaveRecords
  <2> HIDE DEF rest
  <2>8. e' \in SUBSET SaveRecords /\ SavesOwn(e')
    BY <1>1, <2>6, <2>7 DEF EditorInv, SavesOwn
  <2> QED
    BY <1>1, <1>2, <2>5, <2>8 DEF EditorInv, PanelOwn, ReadsOwn, FolderOwn, TextsOf
<1>3. CASE e' = e \ {s} /\ a' = AnEditor!SaveEnds(s) /\ b' = b
  <2> DEFINE off == FALSE
  <2>1. a' \in {a, [a EXCEPT !.saving = off]} /\ a \in EditorStates /\ off \in BOOLEAN
    BY <1>3 DEF AnEditor!SaveEnds, EditorInv
  <2> HIDE DEF off
  <2>2. a' \in EditorStates /\ a'.agent = a.agent /\ a'.tab = a.tab /\ a'.files = a.files /\ a'.loading = a.loading
    BY <2>1 DEF EditorStates
  <2> QED
    BY <1>1, <1>3, <2>2 DEF EditorInv, PanelOwn, ReadsOwn, FolderOwn, TextsOf, SavesOwn
<1> QED
  BY <1>2, <1>3 DEF AnEditor!WriteFile

LEMMA SettingsSaved == ASSUME EditorInv, NEW s \in e, AnEditor!SaveSettings(s) PROVE EditorInv'
<1> DEFINE w == AnEditor!SaveEnds(s)
           off == FALSE
<1>1. s \in SaveRecords /\ s.of \in Configured /\ e' = e \ {s} /\ b' = b /\ d \in SUBSET AnEditor!Reads
      /\ a.agent \in Configured /\ a \in EditorStates /\ PanelOwn(a) /\ ReadsOwn(a, d)
  BY DEF EditorInv, SaveRecords, EditorStates, AnEditor!SaveSettings
<1>2. w \in {a, [a EXCEPT !.saving = off]} /\ off \in BOOLEAN
  BY DEF AnEditor!SaveEnds
<1> HIDE DEF w, off
<1>3. w \in EditorStates /\ w.agent = a.agent /\ w.tab = a.tab /\ w.files = a.files /\ w.loading = a.loading
  BY <1>1, <1>2 DEF EditorStates
<1>4. PanelOwn(w) /\ ReadsOwn(w, d)
  BY <1>1, <1>3 DEF PanelOwn, ReadsOwn, TextsOf
<1>5. c' \in SUBSET Configured
  BY <1>1 DEF AnEditor!SaveSettings, EditorInv, SaveRecords
<1>6. \/ a' = w /\ d' = d
      \/ AnEditor!Show(w, a.agent, c')
      \/ AnEditor!Show(a, s.of, c')
  BY DEF AnEditor!SaveSettings, w
<1>7. a' \in EditorStates /\ d' \in SUBSET AnEditor!Reads /\ PanelOwn(a') /\ ReadsOwn(a', d')
  <2>1. CASE a' = w /\ d' = d
    BY <1>1, <1>3, <1>4, <2>1
  <2>2. CASE AnEditor!Show(w, a.agent, c')
    BY <1>1, <1>3, <1>4, <1>5, <2>2, PanelShows
  <2>3. CASE AnEditor!Show(a, s.of, c')
    BY <1>1, <1>5, <2>3, PanelShows
  <2> QED
    BY <1>6, <2>1, <2>2, <2>3
<1> QED
  BY <1>1, <1>5, <1>7 DEF EditorInv, FolderOwn, TextsOf, SavesOwn

LEMMA EditorStep == ASSUME EditorInv, [AnEditor!AgentFilesNext]_<<a, b, c, d, e>> PROVE EditorInv'
<1>1. CASE UNCHANGED <<a, b, c, d, e>>
  BY <1>1 DEF EditorInv, PanelOwn, ReadsOwn, FolderOwn, TextsOf, SavesOwn
<1>2. ASSUME NEW x \in Configured, AnEditor!SelectAgent(x) PROVE EditorInv'
  <2>1. PICK y \in AnEditor!Shown(x, c) : AnEditor!Go(a, y)
    BY <1>2 DEF AnEditor!SelectAgent
  <2>2. y \in Configured /\ a \in EditorStates /\ d \in SUBSET AnEditor!Reads /\ ReadsOwn(a, d) /\ UNCHANGED <<b, c, e>>
    BY <1>2, ShownOK DEF EditorInv, AnEditor!SelectAgent
  <2>3. a' \in EditorStates /\ d' \in SUBSET AnEditor!Reads /\ PanelOwn(a') /\ ReadsOwn(a', d')
    BY <2>1, <2>2, PanelGoes
  <2> QED
    BY <2>2, <2>3 DEF EditorInv, FolderOwn, TextsOf, SavesOwn
<1>3. CASE AnEditor!TabSession \/ AnEditor!TabConfig
  BY <1>3, EditorTabs
<1>4. CASE AnEditor!Save \/ AnEditor!CreateAgent \/ \E x \in Configured : AnEditor!SubmitAgent(x)
  BY <1>4, SaveBegins
<1>5. ASSUME NEW n \in FileNames, AnEditor!EditFile(n) PROVE EditorInv'
  BY <1>5, FileEdited
<1>6. ASSUME NEW n \in FileNames, NEW s \in e, AnEditor!WriteFile(s, n) PROVE EditorInv'
  BY <1>6, FileWritten
<1>7. ASSUME NEW s \in e, AnEditor!SaveSettings(s) PROVE EditorInv'
  BY <1>7, SettingsSaved
<1>8. ASSUME NEW r \in d, AnEditor!FilesRead(r) PROVE EditorInv'
  BY <1>8, FilesCome
<1> QED
  BY ONLY <1>1, <1>2, <1>3, <1>4, <1>5, <1>6, <1>7, <1>8, [AnEditor!AgentFilesNext]_<<a, b, c, d, e>> DEF AnEditor!AgentFilesNext

-----------------------------------------------------------------------------
(* The desktop: the polls that are still live are of the span chosen; a    *)
(* frame is due, and a point is kept for it, only during a drag.           *)

ShellStates ==
  [stack : Seq(Apps), low : SUBSET Apps, mini : BOOLEAN, span : Spans, shown : Spans \cup {NoSpan}, fresh : BOOLEAN]
FloatStates ==
  [up : {"gone", "mounted", "placed", "watched"}, at : ADesktop!PointsX, set : ADesktop!PointsX,
   drag : BOOLEAN, pending : ADesktop!PointsX \cup {ADesktop!NoPoint}, frame : BOOLEAN]
StorageStates ==
  [point : ADesktop!PointsX \cup {ADesktop!NoPoint}, lost : BOOLEAN, edge : ADesktop!PointsX \ {0}]
Polls == [span : Spans, live : BOOLEAN]

StackOK(s) == ADesktop!IsInjective(s.stack) /\ s.low \subseteq ADesktop!Range(s.stack)
SeriesOK(s, ps) == (s.fresh => s.shown = s.span) /\ \A p \in ps : p.live => p.span = s.span
DragOK(f) == f.frame \/ f.pending # ADesktop!NoPoint => f.drag
HeldOK(f, s) ==
  /\ f.up \in {"placed", "watched"} /\ ~f.drag => f.at = f.set
  /\ f.up = "watched" /\ ~f.drag /\ ~s.lost => s.point = f.set

DesktopInv ==
  /\ a \in ShellStates /\ b \in SUBSET Polls /\ c \in FloatStates /\ d \in StorageStates
  /\ StackOK(a) /\ SeriesOK(a, b) /\ DragOK(c) /\ HeldOK(c, d)

LEMMA DesktopHolds ==
  ASSUME DesktopInv PROVE ADesktop!DesktopTypeOK /\ ADesktop!SeriesIsOfChoice /\ ADesktop!DrawnWhereHeld
<1>1. ADesktop!DesktopTypeOK
  BY DEF DesktopInv, ShellStates, FloatStates, StorageStates, Polls, StackOK, ADesktop!DesktopTypeOK
<1>2. ADesktop!SeriesIsOfChoice
  BY DEF DesktopInv, SeriesOK, ADesktop!SeriesIsOfChoice
<1>3. ADesktop!DrawnWhereHeld
  BY DEF DesktopInv, HeldOK, ADesktop!DrawnWhereHeld, ADesktop!OnStage
<1> QED
  BY <1>1, <1>2, <1>3

LEMMA PointsOK ==
  /\ 0 \in ADesktop!PointsX /\ MaxPoint \in ADesktop!PointsX \ {0} /\ ADesktop!NoPoint \notin ADesktop!PointsX
BY Bounds DEF ADesktop!PointsX, ADesktop!NoPoint

LEMMA MountedOK ==
  /\ ADesktop!Mounted \in FloatStates /\ DragOK(ADesktop!Mounted) /\ ADesktop!Mounted.up = "mounted"
  /\ [ADesktop!Mounted EXCEPT !.up = "gone"] \in FloatStates /\ DragOK([ADesktop!Mounted EXCEPT !.up = "gone"])
  /\ [ADesktop!Mounted EXCEPT !.up = "gone"].up = "gone"
<1> DEFINE off == FALSE
           zero == 0
           m == ADesktop!Mounted
           g == [m EXCEPT !.up = "gone"]
<1>1. m = [up |-> "mounted", at |-> zero, set |-> zero, drag |-> off, pending |-> ADesktop!NoPoint, frame |-> off]
  BY DEF ADesktop!Mounted
<1>2. off \in BOOLEAN /\ ~off /\ zero \in ADesktop!PointsX
  BY PointsOK
<1> HIDE DEF off, zero, m
<1>3. m \in FloatStates /\ m.up = "mounted" /\ m.frame = off /\ m.pending = ADesktop!NoPoint
  BY <1>1, <1>2 DEF FloatStates
<1>4. g \in FloatStates /\ g.up = "gone" /\ g.frame = m.frame /\ g.pending = m.pending
  BY <1>3 DEF FloatStates
<1>5. DragOK(m) /\ DragOK(g)
  BY <1>2, <1>3, <1>4 DEF DragOK
<1> QED
  BY <1>3, <1>4, <1>5 DEF m

LEMMA DesktopStarts == ASSUME ADesktop!DesktopInit PROVE DesktopInv
<1>1. c = ADesktop!Mounted /\ b = {[span |-> a.span, live |-> TRUE]}
      /\ a \in [stack : {<<>>}, low : {{}}, mini : {TRUE}, span : Spans, shown : {NoSpan}, fresh : {FALSE}]
      /\ d \in [point : ADesktop!PointsX \cup {ADesktop!NoPoint}, lost : {FALSE}, edge : {MaxPoint}]
  BY DEF ADesktop!DesktopInit
<1>2. a \in ShellStates
  BY <1>1, EmptySeq, ZenonT(60) DEF ShellStates
<1>3. a.stack = << >> /\ a.low = {} /\ ~a.fresh
  BY <1>1
<1>4. StackOK(a)
  BY <1>3 DEF StackOK, ADesktop!IsInjective
<1>5. b \in SUBSET Polls /\ SeriesOK(a, b)
  BY <1>1, <1>2, <1>3 DEF Polls, SeriesOK, ShellStates
<1>6. d \in StorageStates
  BY <1>1, PointsOK DEF StorageStates
<1>7. c \in FloatStates /\ DragOK(c) /\ c.up = "mounted"
  BY <1>1, MountedOK
<1>8. HeldOK(c, d)
  BY <1>7 DEF HeldOK
<1> QED
  BY <1>2, <1>4, <1>5, <1>6, <1>7, <1>8 DEF DesktopInv

-----------------------------------------------------------------------------
\* A stack whose apps each have one window.
LEMMA WithoutOK ==
  ASSUME a \in ShellStates, ADesktop!IsInjective(a.stack), NEW app \in Apps
  PROVE  /\ ADesktop!Without(app) \in Seq(Apps) /\ ADesktop!IsInjective(ADesktop!Without(app))
         /\ ADesktop!Range(ADesktop!Without(app)) = ADesktop!Range(a.stack) \ {app}
<1> DEFINE s == a.stack
           n == Len(s)
<1>1. s \in Seq(Apps) /\ n \in Nat /\ DOMAIN s = 1..n /\ \A i \in 1..n : s[i] \in Apps
  BY LenProperties, ElementOfSeq DEF ShellStates
<1>2. CASE app \notin ADesktop!Range(s)
  BY <1>1, <1>2 DEF ADesktop!Without
<1>3. CASE app \in ADesktop!Range(s)
  <2> DEFINE i == CHOOSE k \in DOMAIN s : s[k] = app
             left == SubSeq(s, 1, i - 1)
             right == SubSeq(s, i + 1, n)
             t == left \o right
  <2>1. i \in 1..n /\ s[i] = app
    BY <1>1, <1>3 DEF ADesktop!Range
  <2>2. ADesktop!Without(app) = t
    BY <1>3, ZenonT(30) DEF ADesktop!Without
  <2> HIDE DEF i
  <2>3. left \in Seq(Apps) /\ Len(left) = i - 1 /\ \A k \in 1..(i - 1) : left[k] = s[k]
    BY <1>1, <2>1, SubSeqProperties
  <2>4. right \in Seq(Apps) /\ Len(right) = n - i /\ \A k \in 1..(n - i) : right[k] = s[i + k]
    BY <1>1, <2>1, SubSeqProperties
  <2> HIDE DEF left, right
  <2>5. t \in Seq(Apps) /\ Len(t) = n - 1 /\ \A k \in 1..(n - 1) : t[k] = IF k <= i - 1 THEN left[k] ELSE right[k - (i - 1)]
    <3>1. t \in Seq(Apps) /\ Len(t) = Len(left) + Len(right)
          /\ \A k \in 1..(Len(left) + Len(right)) : t[k] = IF k <= Len(left) THEN left[k] ELSE right[k - Len(left)]
      BY <2>3, <2>4, ConcatProperties
    <3>2. Len(left) + Len(right) = n - 1
      BY <1>1, <2>1, <2>3, <2>4
    <3> HIDE DEF t, n, s
    <3> QED
      BY <2>3, <3>1, <3>2
  <2>6. DOMAIN t = 1..(n - 1)
    BY <2>5, LenProperties
  <2>7. \A k \in 1..(n - 1) : t[k] = IF k <= i - 1 THEN s[k] ELSE s[k + 1]
    BY <1>1, <2>1, <2>3, <2>4, <2>5
  <2> HIDE DEF t, s, n
  <2>8. ADesktop!IsInjective(t)
    <3> SUFFICES ASSUME NEW j \in 1..(n - 1), NEW k \in 1..(n - 1), t[j] = t[k] PROVE j = k
      BY <2>6 DEF ADesktop!IsInjective
    <3>1. \A x, y \in 1..n : s[x] = s[y] => x = y
      BY <1>1 DEF ADesktop!IsInjective, s
    <3> QED
      BY <1>1, <2>1, <2>7, <3>1
  <2>9. ADesktop!Range(t) \subseteq ADesktop!Range(s) \ {app}
    <3> SUFFICES ASSUME NEW k \in 1..(n - 1) PROVE t[k] \in ADesktop!Range(s) /\ t[k] # app
      BY <2>6 DEF ADesktop!Range
    <3>1. \A x, y \in 1..n : s[x] = s[y] => x = y
      BY <1>1 DEF ADesktop!IsInjective, s
    <3>2. PICK x \in 1..n : t[k] = s[x] /\ x # i
      BY <1>1, <2>1, <2>7
    <3> QED
      BY <1>1, <2>1, <3>1, <3>2 DEF ADesktop!Range
  <2>10. ADesktop!Range(s) \ {app} \subseteq ADesktop!Range(t)
    <3> SUFFICES ASSUME NEW x \in 1..n, s[x] # app PROVE \E k \in 1..(n - 1) : t[k] = s[x]
      BY <1>1, <2>6 DEF ADesktop!Range
    <3>1. CASE x < i
      BY <1>1, <2>1, <2>7, <3>1
    <3>2. CASE x > i
      <4>1. x - 1 \in 1..(n - 1) /\ t[x - 1] = s[x]
        BY <1>1, <2>1, <2>7, <3>2
      <4> QED
        BY <4>1
    <3> QED
      BY <1>1, <2>1, <3>1, <3>2
  <2> QED
    BY <2>2, <2>5, <2>8, <2>9, <2>10 DEF s
<1> QED
  BY <1>2, <1>3

LEMMA OnTopOK ==
  ASSUME a \in ShellStates, ADesktop!IsInjective(a.stack), NEW app \in Apps
  PROVE  /\ ADesktop!OnTop(app) \in Seq(Apps) /\ ADesktop!IsInjective(ADesktop!OnTop(app))
         /\ ADesktop!Range(ADesktop!OnTop(app)) = ADesktop!Range(a.stack) \cup {app}
<1> DEFINE s == ADesktop!Without(app)
           t == ADesktop!OnTop(app)
           n == Len(s)
<1>1. s \in Seq(Apps) /\ ADesktop!IsInjective(s) /\ ADesktop!Range(s) = ADesktop!Range(a.stack) \ {app}
  BY WithoutOK
<1>2. t = Append(s, app)
  BY DEF ADesktop!OnTop
<1> HIDE DEF s, t
<1>3. n \in Nat /\ DOMAIN s = 1..n
  BY <1>1, LenProperties
<1>4. t \in Seq(Apps) /\ Len(t) = n + 1 /\ (\A i \in 1..n : t[i] = s[i]) /\ t[n + 1] = app
  BY <1>1, <1>2, AppendProperties
<1>5. DOMAIN t = 1..(n + 1)
  BY <1>4, LenProperties
<1>6. \A i \in 1..n : s[i] # app
  BY <1>1, <1>3 DEF ADesktop!Range
<1> HIDE DEF n
<1>7. ADesktop!IsInjective(t)
  <2> SUFFICES ASSUME NEW j \in 1..(n + 1), NEW k \in 1..(n + 1), t[j] = t[k] PROVE j = k
    BY <1>5 DEF ADesktop!IsInjective
  <2>1. \A x, y \in 1..n : s[x] = s[y] => x = y
    BY <1>1, <1>3 DEF ADesktop!IsInjective
  <2> QED
    BY <1>3, <1>4, <1>6, <2>1
<1>8. ADesktop!Range(t) = ADesktop!Range(s) \cup {app}
  <2>1. ADesktop!Range(t) \subseteq ADesktop!Range(s) \cup {app}
    BY <1>3, <1>4, <1>5 DEF ADesktop!Range
  <2>2. ADesktop!Range(s) \subseteq ADesktop!Range(t)
    <3> SUFFICES ASSUME NEW i \in 1..n PROVE s[i] \in ADesktop!Range(t)
      BY <1>3 DEF ADesktop!Range
    <3>1. i \in 1..(n + 1) /\ t[i] = s[i]
      BY <1>3, <1>4
    <3> QED
      BY <1>5, <3>1 DEF ADesktop!Range
  <2>3. app \in ADesktop!Range(t)
    BY <1>3, <1>4, <1>5 DEF ADesktop!Range
  <2> QED
    BY <2>1, <2>2, <2>3
<1> QED
  BY <1>1, <1>4, <1>7, <1>8 DEF t

-----------------------------------------------------------------------------
\* The stage is set: its windows are on it once, and the small window comes and goes.
LEMMA StagedOK ==
  ASSUME DesktopInv, NEW s \in ShellStates, StackOK(s), s.span = a.span, s.shown = a.shown, s.fresh = a.fresh, ADesktop!Staged(s)
  PROVE  DesktopInv'
<1>1. a' = s /\ b' = b /\ d' = d
  BY DEF ADesktop!Staged
<1>2. SeriesOK(a', b')
  BY <1>1 DEF DesktopInv, SeriesOK
<1>3. c' \in {[ADesktop!Mounted EXCEPT !.up = "gone"], ADesktop!Mounted, c}
  BY DEF ADesktop!Staged
<1>4. CASE c' = c
  BY <1>1, <1>2, <1>4 DEF DesktopInv, StackOK, HeldOK, DragOK
<1>5. CASE c' \in {[ADesktop!Mounted EXCEPT !.up = "gone"], ADesktop!Mounted}
  <2>1. c' \in FloatStates /\ DragOK(c') /\ c'.up \in {"gone", "mounted"}
    BY <1>5, MountedOK
  <2>2. HeldOK(c', d')
    BY <2>1 DEF HeldOK
  <2> QED
    BY <1>1, <1>2, <2>1, <2>2 DEF DesktopInv, StackOK
<1> QED
  BY <1>3, <1>4, <1>5

\* A stack and those minimized on it, put in the place of the ones there are.
Put(stack, low, mini) == [a EXCEPT !.stack = stack, !.low = low, !.mini = mini]

LEMMA StackSet ==
  ASSUME a \in ShellStates, NEW stack \in Seq(Apps), NEW low \in SUBSET Apps, NEW mini \in BOOLEAN,
         ADesktop!IsInjective(stack), low \subseteq ADesktop!Range(stack)
  PROVE  /\ Put(stack, low, mini) \in ShellStates /\ StackOK(Put(stack, low, mini))
         /\ Put(stack, low, mini).span = a.span /\ Put(stack, low, mini).shown = a.shown
         /\ Put(stack, low, mini).fresh = a.fresh
<1> DEFINE s == Put(stack, low, mini)
<1>1. s \in ShellStates /\ s.stack = stack /\ s.low = low /\ s.span = a.span /\ s.shown = a.shown /\ s.fresh = a.fresh
  BY DEF ShellStates, Put
<1> QED
  BY <1>1 DEF StackOK

LEMMA WindowsMove ==
  ASSUME DesktopInv,
         \/ ADesktop!OpenApp \/ ADesktop!GoHome \/ ADesktop!HideMonitor \/ ADesktop!ShowMonitor
         \/ \E app \in Apps : ADesktop!Minimize(app) \/ ADesktop!Close(app) \/ ADesktop!Focus(app)
  PROVE  DesktopInv'
<1> DEFINE range == ADesktop!Range(a.stack)
           on == TRUE
           off == FALSE
<1>1. /\ a \in ShellStates /\ a.stack \in Seq(Apps) /\ a.low \in SUBSET Apps /\ a.mini \in BOOLEAN
      /\ ADesktop!IsInjective(a.stack) /\ a.low \subseteq range /\ on \in BOOLEAN /\ off \in BOOLEAN
  BY DEF DesktopInv, ShellStates, StackOK
<1>2. range \subseteq Apps
  BY <1>1, LenProperties, ElementOfSeq DEF ADesktop!Range
<1> HIDE DEF range, on, off
<1>3. ASSUME NEW stack \in Seq(Apps), NEW low \in SUBSET Apps, NEW mini \in BOOLEAN,
             ADesktop!IsInjective(stack), low \subseteq ADesktop!Range(stack),
             ADesktop!Staged(Put(stack, low, mini))
      PROVE  DesktopInv'
  <2> DEFINE s == Put(stack, low, mini)
  <2>1. s \in ShellStates /\ StackOK(s) /\ s.span = a.span /\ s.shown = a.shown /\ s.fresh = a.fresh
    BY <1>1, <1>3, StackSet
  <2> QED
    BY <1>3, <2>1, StagedOK
<1>4. /\ \A x : [a EXCEPT !.stack = x] = Put(x, a.low, a.mini)
      /\ \A x : [a EXCEPT !.low = x] = Put(a.stack, x, a.mini)
      /\ \A x : [a EXCEPT !.mini = x] = Put(a.stack, a.low, x)
      /\ \A x, y : [a EXCEPT !.stack = x, !.low = y] = Put(x, y, a.mini)
      /\ \A x, y, z : [[a EXCEPT !.stack = x, !.low = y] EXCEPT !.mini = z] = Put(x, y, z)
  BY <1>1 DEF ShellStates, Put
<1>5. ASSUME NEW app \in Apps
      PROVE  /\ ADesktop!OnTop(app) \in Seq(Apps) /\ ADesktop!IsInjective(ADesktop!OnTop(app))
             /\ ADesktop!Range(ADesktop!OnTop(app)) = range \cup {app}
             /\ ADesktop!Without(app) \in Seq(Apps) /\ ADesktop!IsInjective(ADesktop!Without(app))
             /\ ADesktop!Range(ADesktop!Without(app)) = range \ {app}
             /\ ADesktop!Open(app) = [a EXCEPT !.stack = ADesktop!OnTop(app), !.low = a.low \ {app}]
             /\ ADesktop!Open(app) = Put(ADesktop!OnTop(app), a.low \ {app}, a.mini)
             /\ \A z : [ADesktop!Open(app) EXCEPT !.mini = z] = Put(ADesktop!OnTop(app), a.low \ {app}, z)
             /\ a.low \ {app} \in SUBSET Apps /\ a.low \cup {app} \in SUBSET Apps
  <2>1. ADesktop!Open(app) = [a EXCEPT !.stack = ADesktop!OnTop(app), !.low = a.low \ {app}]
    BY <1>1 DEF ADesktop!Open, ShellStates
  <2>2. ADesktop!Open(app) = Put(ADesktop!OnTop(app), a.low \ {app}, a.mini)
    BY ONLY <1>4, <2>1
  <2>3. \A z : [ADesktop!Open(app) EXCEPT !.mini = z] = Put(ADesktop!OnTop(app), a.low \ {app}, z)
    BY ONLY <1>4, <2>1
  <2>4. a.low \ {app} \in SUBSET Apps /\ a.low \cup {app} \in SUBSET Apps
    BY <1>1, <1>5
  <2> QED
    BY <1>1, <1>5, <2>1, <2>2, <2>3, <2>4, OnTopOK, WithoutOK DEF range
<1>6. CASE ADesktop!OpenApp
  <2>1. PICK app \in Apps : ADesktop!Staged(ADesktop!Open(app))
    BY <1>6 DEF ADesktop!OpenApp
  <2>2. ADesktop!Open(app) = Put(ADesktop!OnTop(app), a.low \ {app}, a.mini)
    BY ONLY <1>4, <1>5, app \in Apps
  <2>3. a.low \ {app} \subseteq ADesktop!Range(ADesktop!OnTop(app))
    BY <1>1, <1>5
  <2>4. ADesktop!OnTop(app) \in Seq(Apps) /\ ADesktop!IsInjective(ADesktop!OnTop(app)) /\ a.low \ {app} \in SUBSET Apps
    BY <1>5
  <2>5. ADesktop!Staged(Put(ADesktop!OnTop(app), a.low \ {app}, a.mini)) /\ a.mini \in BOOLEAN
    BY ONLY <1>1, <2>1, <2>2
  <2> QED
    BY ONLY <1>3, <2>3, <2>4, <2>5
<1>7. CASE ADesktop!GoHome
  <2>1. ADesktop!Staged(Put(a.stack, range, a.mini))
    BY <1>4, <1>7 DEF ADesktop!GoHome, range
  <2> QED
    BY <1>1, <1>2, <1>3, <2>1 DEF range
<1>8. CASE ADesktop!HideMonitor
  <2>1. ADesktop!Staged(Put(a.stack, a.low, off))
    BY <1>4, <1>8 DEF ADesktop!HideMonitor, off
  <2> QED
    BY <1>1, <1>3, <2>1 DEF range
<1>9. CASE ADesktop!ShowMonitor
  <2>1. CASE "performance" \in range
    <3>1. "performance" \in Apps
      BY <1>2, <2>1
    <3>2. ADesktop!Staged([ADesktop!Open("performance") EXCEPT !.mini = on])
      BY <1>9, <2>1 DEF ADesktop!ShowMonitor, on, range
    <3>3. [ADesktop!Open("performance") EXCEPT !.mini = on]
          = Put(ADesktop!OnTop("performance"), a.low \ {"performance"}, on)
      BY <1>4, <1>5, <3>1
    <3>4. a.low \ {"performance"} \subseteq ADesktop!Range(ADesktop!OnTop("performance"))
      BY <1>1, <1>5, <3>1
    <3>5. /\ ADesktop!OnTop("performance") \in Seq(Apps) /\ ADesktop!IsInjective(ADesktop!OnTop("performance"))
          /\ a.low \ {"performance"} \in SUBSET Apps
      BY <1>5, <3>1
    <3>6. ADesktop!Staged(Put(ADesktop!OnTop("performance"), a.low \ {"performance"}, on)) /\ on \in BOOLEAN
      BY ONLY <1>1, <3>2, <3>3
    <3> QED
      BY ONLY <1>3, <3>4, <3>5, <3>6
  <2>2. CASE "performance" \notin range
    <3>1. ADesktop!Staged(Put(a.stack, a.low, on))
      BY <1>4, <1>9, <2>2 DEF ADesktop!ShowMonitor, on, range
    <3> QED
      BY <1>1, <1>3, <3>1 DEF range
  <2> QED
    BY <2>1, <2>2
<1>10. ASSUME NEW app \in Apps, ADesktop!Minimize(app) PROVE DesktopInv'
  <2>1. ADesktop!Staged([a EXCEPT !.low = a.low \cup {app}]) /\ app \in range
    BY <1>1, <1>10 DEF ADesktop!Minimize, ADesktop!VisibleWindow, range, ShellStates
  <2>2. ADesktop!Staged(Put(a.stack, a.low \cup {app}, a.mini))
    BY <1>4, <2>1
  <2>3. a.low \cup {app} \subseteq ADesktop!Range(a.stack)
    BY <1>1, <2>1 DEF range
  <2> QED
    BY <1>1, <1>3, <1>5, <1>10, <2>2, <2>3
<1>11. ASSUME NEW app \in Apps, ADesktop!Close(app) PROVE DesktopInv'
  <2>1. ADesktop!Staged([a EXCEPT !.stack = ADesktop!Without(app), !.low = a.low \ {app}])
    BY <1>1, <1>11 DEF ADesktop!Close, ShellStates
  <2>2. ADesktop!Staged(Put(ADesktop!Without(app), a.low \ {app}, a.mini))
    BY <1>4, <2>1
  <2>3. a.low \ {app} \subseteq ADesktop!Range(ADesktop!Without(app))
    BY <1>1, <1>5, <1>11
  <2> QED
    BY <1>1, <1>3, <1>5, <1>11, <2>2, <2>3
<1>12. ASSUME NEW app \in Apps, ADesktop!Focus(app) PROVE DesktopInv'
  <2>1. ADesktop!Staged(Put(ADesktop!OnTop(app), a.low, a.mini))
    BY <1>4, <1>12 DEF ADesktop!Focus
  <2>2. a.low \subseteq ADesktop!Range(ADesktop!OnTop(app))
    BY <1>1, <1>5, <1>12
  <2> QED
    BY <1>1, <1>3, <1>5, <1>12, <2>1, <2>2
<1> QED
  BY <1>6, <1>7, <1>8, <1>9, <1>10, <1>11, <1>12

LEMMA SeriesMove ==
  ASSUME DesktopInv,
         \/ \E s \in Spans : ADesktop!ChooseSpan(s)
         \/ ADesktop!SeriesTick
         \/ \E p \in b : ADesktop!SeriesAnswered(p)
  PROVE  DesktopInv'
<1>1. a \in ShellStates /\ b \in SUBSET Polls /\ SeriesOK(a, b) /\ StackOK(a) /\ a.span \in Spans
  BY DEF DesktopInv, ShellStates
<1>2. ASSUME a' \in ShellStates, StackOK(a'), b' \in SUBSET Polls, SeriesOK(a', b'), UNCHANGED <<c, d>> PROVE DesktopInv'
  BY <1>2 DEF DesktopInv, DragOK, HeldOK
<1>3. ASSUME NEW s \in Spans, ADesktop!ChooseSpan(s) PROVE DesktopInv'
  <2> DEFINE off == FALSE
             Stop(p) == [p EXCEPT !.live = FALSE]
             new == [span |-> s, live |-> TRUE]
  <2>1. a' = [a EXCEPT !.span = s, !.fresh = off] /\ off \in BOOLEAN /\ ~off
    BY <1>3 DEF ADesktop!ChooseSpan
  <2>2. b' = {Stop(p) : p \in b} \cup {new} /\ UNCHANGED <<c, d>>
    BY <1>3 DEF ADesktop!ChooseSpan
  <2>3. \A p \in b : Stop(p) \in Polls /\ ~Stop(p).live
    BY <1>1 DEF Polls
  <2>4. new \in Polls /\ new.span = s
    BY DEF Polls
  <2> HIDE DEF off, Stop, new
  <2>5. a' \in ShellStates /\ a'.span = s /\ a'.fresh = off /\ a'.stack = a.stack /\ a'.low = a.low
    BY <1>1, <2>1 DEF ShellStates
  <2>6. b' \in SUBSET Polls /\ SeriesOK(a', b')
    BY <2>1, <2>2, <2>3, <2>4, <2>5 DEF SeriesOK
  <2>7. StackOK(a')
    BY <1>1, <2>5 DEF StackOK
  <2> QED
    BY <1>2, <2>2, <2>5, <2>6, <2>7
<1>4. CASE ADesktop!SeriesTick
  <2> DEFINE new == [span |-> a.span, live |-> TRUE]
  <2>1. b' = b \cup {new} /\ UNCHANGED <<a, c, d>>
    BY <1>4 DEF ADesktop!SeriesTick
  <2>2. new \in Polls /\ new.span = a.span
    BY <1>1 DEF Polls
  <2> HIDE DEF new
  <2>3. b' \in SUBSET Polls /\ SeriesOK(a', b') /\ StackOK(a') /\ a' \in ShellStates
    BY <1>1, <2>1, <2>2 DEF SeriesOK, StackOK
  <2> QED
    BY <1>2, <2>1, <2>3
<1>5. ASSUME NEW p \in b, ADesktop!SeriesAnswered(p) PROVE DesktopInv'
  <2> DEFINE on == TRUE
  <2>1. b' = b \ {p} /\ UNCHANGED <<c, d>>
    BY <1>5 DEF ADesktop!SeriesAnswered
  <2>2. (a' = a \/ (p.live /\ a' = [a EXCEPT !.shown = p.span, !.fresh = on])) /\ on \in BOOLEAN
    BY <1>5 DEF ADesktop!SeriesAnswered
  <2> HIDE DEF on
  <2>3. CASE a' = a
    BY <1>1, <1>2, <2>1, <2>3 DEF SeriesOK, StackOK
  <2>4. CASE p.live /\ a' = [a EXCEPT !.shown = p.span, !.fresh = on] /\ on \in BOOLEAN
    <3>1. p.span = a.span /\ p.span \in Spans
      BY <1>1, <2>4 DEF SeriesOK, Polls
    <3>2. a' \in ShellStates /\ a'.span = a.span /\ a'.shown = p.span /\ a'.stack = a.stack /\ a'.low = a.low
      BY <1>1, <2>4, <3>1 DEF ShellStates
    <3>3. SeriesOK(a', b') /\ StackOK(a') /\ b' \in SUBSET Polls
      BY <1>1, <2>1, <3>1, <3>2 DEF SeriesOK, StackOK
    <3> QED
      BY <1>2, <2>1, <3>2, <3>3
  <2> QED
    BY <2>2, <2>3, <2>4
<1> QED
  BY <1>3, <1>4, <1>5

-----------------------------------------------------------------------------
\* What is held is what is drawn, and what is saved is either that or lost.
LEMMA ClampOK == ASSUME d \in StorageStates, NEW x \in ADesktop!PointsX \cup {MaxPoint + 1} PROVE ADesktop!Clamp(x) \in ADesktop!PointsX
BY Bounds DEF StorageStates, ADesktop!PointsX, ADesktop!NoPoint, ADesktop!Clamp

LEMMA SavedOK ==
  ASSUME d \in StorageStates, NEW x \in ADesktop!PointsX, ADesktop!Saved(x)
  PROVE  d' \in StorageStates /\ (~d'.lost => d'.point = x)
<1> DEFINE on == TRUE
           off == FALSE
<1>1. d' \in {[d EXCEPT !.point = x, !.lost = off], [d EXCEPT !.lost = on]} /\ on \in BOOLEAN /\ off \in BOOLEAN /\ on
  BY DEF ADesktop!Saved
<1> HIDE DEF on, off
<1>2. CASE d' = [d EXCEPT !.point = x, !.lost = off]
  BY <1>1, <1>2 DEF StorageStates
<1>3. CASE d' = [d EXCEPT !.lost = on]
  <2>1. d' \in StorageStates /\ d'.lost = on
    BY <1>1, <1>3 DEF StorageStates
  <2> QED
    BY <1>1, <2>1
<1> QED
  BY <1>1, <1>2, <1>3

LEMMA PlacedOK ==
  ASSUME c \in FloatStates, NEW x \in ADesktop!PointsX
  PROVE  /\ ADesktop!Placed(x) \in FloatStates /\ ADesktop!Placed(x).at = x /\ ADesktop!Placed(x).set = x
         /\ ADesktop!Placed(x).drag = c.drag /\ ADesktop!Placed(x).frame = c.frame
         /\ ADesktop!Placed(x).pending = c.pending /\ ADesktop!Placed(x).up = c.up
BY DEF ADesktop!Placed, FloatStates

LEMMA WindowPlaced ==
  ASSUME DesktopInv, \/ ADesktop!Initialize \/ ADesktop!StageResized \/ ADesktop!OnResize \/ ADesktop!FinishDrag
                     \/ ADesktop!DragBegins \/ ADesktop!FramePaints
                     \/ \E x \in ADesktop!PointsX : ADesktop!PointerMove(x) \/ ADesktop!OnKeyDown(x)
  PROVE  DesktopInv'
<1>1. c \in FloatStates /\ d \in StorageStates /\ DragOK(c) /\ HeldOK(c, d)
  BY DEF DesktopInv
<1>2. ASSUME c' \in FloatStates, d' \in StorageStates, DragOK(c'), HeldOK(c', d'), UNCHANGED <<a, b>> PROVE DesktopInv'
  BY <1>2 DEF DesktopInv, StackOK, SeriesOK
<1>3. CASE ADesktop!Initialize
  <2> DEFINE covers == d.edge = MaxPoint /\ d.point = 0
             initial == IF d.point = ADesktop!NoPoint \/ covers THEN d.edge ELSE ADesktop!Clamp(d.point)
             f == ADesktop!Placed(initial)
  <2>1. initial \in ADesktop!PointsX
    BY <1>1, ClampOK DEF StorageStates, ADesktop!NoPoint
  <2>2. c' = [f EXCEPT !.up = "placed"] /\ UNCHANGED <<a, b>>
    BY <1>3 DEF ADesktop!Initialize
  <2>3. ADesktop!Saved(initial) \/ d' = d
    BY <1>3 DEF ADesktop!Initialize
  <2> HIDE DEF initial
  <2>4. f \in FloatStates /\ f.at = initial /\ f.set = initial /\ f.drag = c.drag /\ f.frame = c.frame /\ f.pending = c.pending
    BY <1>1, <2>1, PlacedOK
  <2> HIDE DEF f
  <2>5. c' \in FloatStates /\ c'.at = f.at /\ c'.set = f.set /\ c'.drag = f.drag /\ c'.frame = f.frame /\ c'.pending = f.pending
        /\ c'.up = "placed"
    BY <2>2, <2>4 DEF FloatStates
  <2>6. d' \in StorageStates
    BY <1>1, <2>1, <2>3, SavedOK
  <2>7. DragOK(c') /\ HeldOK(c', d')
    BY <1>1, <2>4, <2>5 DEF DragOK, HeldOK
  <2> QED
    BY <1>2, <2>2, <2>5, <2>6, <2>7
<1>4. CASE ADesktop!StageResized
  <2>1. PICK edge \in ADesktop!PointsX \ {0} : d' = [d EXCEPT !.edge = edge]
    BY <1>4 DEF ADesktop!StageResized
  <2>2. UNCHANGED <<a, b, c>>
    BY <1>4 DEF ADesktop!StageResized
  <2>3. d' \in StorageStates /\ d'.lost = d.lost /\ d'.point = d.point
    BY <1>1, <2>1 DEF StorageStates
  <2>4. c' \in FloatStates /\ DragOK(c') /\ HeldOK(c', d')
    BY <1>1, <2>2, <2>3 DEF DragOK, HeldOK
  <2> QED
    BY <1>2, <2>2, <2>3, <2>4
<1>5. CASE ADesktop!OnResize
  <2> DEFINE x == ADesktop!Clamp(c.at)
             f == ADesktop!Placed(x)
  <2>1. x \in ADesktop!PointsX
    BY <1>1, ClampOK DEF FloatStates
  <2>2. c' = [f EXCEPT !.up = "watched"] /\ ADesktop!Saved(x) /\ UNCHANGED <<a, b>>
    BY <1>5 DEF ADesktop!OnResize
  <2> HIDE DEF x
  <2>3. f \in FloatStates /\ f.at = x /\ f.set = x /\ f.drag = c.drag /\ f.frame = c.frame /\ f.pending = c.pending
    BY <1>1, <2>1, PlacedOK
  <2> HIDE DEF f
  <2>4. c' \in FloatStates /\ c'.at = f.at /\ c'.set = f.set /\ c'.drag = f.drag /\ c'.frame = f.frame /\ c'.pending = f.pending
    BY <2>2, <2>3 DEF FloatStates
  <2>5. d' \in StorageStates /\ (~d'.lost => d'.point = x)
    BY <1>1, <2>1, <2>2, SavedOK
  <2>6. DragOK(c') /\ HeldOK(c', d')
    BY <1>1, <2>3, <2>4, <2>5 DEF DragOK, HeldOK
  <2> QED
    BY <1>2, <2>2, <2>4, <2>5, <2>6
<1>6. CASE ADesktop!FinishDrag
  <2> DEFINE x == ADesktop!FinalPoint
             f == ADesktop!Placed(x)
             off == FALSE
  <2>1. x \in ADesktop!PointsX
    BY <1>1 DEF ADesktop!FinalPoint, FloatStates
  <2>2. c' = [f EXCEPT !.drag = off, !.pending = ADesktop!NoPoint, !.frame = off] /\ ADesktop!Saved(x) /\ UNCHANGED <<a, b>>
        /\ off \in BOOLEAN /\ ~off
    BY <1>6 DEF ADesktop!FinishDrag
  <2> HIDE DEF x, off
  <2>3. f \in FloatStates /\ f.at = x /\ f.set = x /\ f.up = c.up
    BY <1>1, <2>1, PlacedOK
  <2> HIDE DEF f
  <2>4. c' \in FloatStates /\ c'.at = f.at /\ c'.set = f.set /\ c'.drag = off /\ c'.frame = off /\ c'.pending = ADesktop!NoPoint
    BY <2>2, <2>3 DEF FloatStates
  <2>5. d' \in StorageStates /\ (~d'.lost => d'.point = x)
    BY <1>1, <2>1, <2>2, SavedOK
  <2>6. DragOK(c') /\ HeldOK(c', d')
    BY <2>2, <2>3, <2>4, <2>5 DEF DragOK, HeldOK
  <2> QED
    BY <1>2, <2>2, <2>4, <2>5, <2>6
<1>7. CASE ADesktop!DragBegins
  <2> DEFINE on == TRUE
  <2>1. c' = [c EXCEPT !.drag = on] /\ UNCHANGED <<a, b, d>> /\ on \in BOOLEAN /\ on
    BY <1>7 DEF ADesktop!DragBegins
  <2> HIDE DEF on
  <2>2. c' \in FloatStates /\ c'.drag = on
    BY <1>1, <2>1 DEF FloatStates
  <2>3. DragOK(c') /\ HeldOK(c', d')
    BY <2>1, <2>2 DEF DragOK, HeldOK
  <2> QED
    BY <1>1, <1>2, <2>1, <2>2, <2>3
<1>8. CASE ADesktop!FramePaints
  <2> DEFINE off == FALSE
             x == IF c.pending = ADesktop!NoPoint THEN c.at ELSE c.pending
  <2>1. c' = [c EXCEPT !.frame = off, !.at = x] /\ UNCHANGED <<a, b, d>> /\ off \in BOOLEAN /\ c.drag
    BY <1>1, <1>8 DEF ADesktop!FramePaints, DragOK, FloatStates
  <2>2. x \in ADesktop!PointsX
    BY <1>1 DEF FloatStates
  <2> HIDE DEF off, x
  <2>3. c' \in FloatStates /\ c'.drag = c.drag
    BY <1>1, <2>1, <2>2 DEF FloatStates
  <2>4. DragOK(c') /\ HeldOK(c', d')
    BY <2>1, <2>3 DEF DragOK, HeldOK
  <2> QED
    BY <1>1, <1>2, <2>1, <2>3, <2>4
<1>9. ASSUME NEW x0 \in ADesktop!PointsX, ADesktop!PointerMove(x0) PROVE DesktopInv'
  <2> DEFINE on == TRUE
             x == ADesktop!Clamp(x0)
  <2>1. c' = [c EXCEPT !.pending = x, !.frame = on] /\ UNCHANGED <<a, b, d>> /\ on \in BOOLEAN /\ c.drag
    BY <1>9 DEF ADesktop!PointerMove
  <2>2. x \in ADesktop!PointsX
    BY <1>1, <1>9, ClampOK
  <2> HIDE DEF on, x
  <2>3. c' \in FloatStates /\ c'.drag = c.drag
    BY <1>1, <2>1, <2>2 DEF FloatStates
  <2>4. DragOK(c') /\ HeldOK(c', d')
    BY <2>1, <2>3 DEF DragOK, HeldOK
  <2> QED
    BY <1>1, <1>2, <2>1, <2>3, <2>4
<1>10. ASSUME NEW x0 \in ADesktop!PointsX, ADesktop!OnKeyDown(x0) PROVE DesktopInv'
  <2> DEFINE x == ADesktop!Clamp(x0)
  <2>1. x \in ADesktop!PointsX
    BY <1>1, <1>10, ClampOK
  <2>2. c' = ADesktop!Placed(x) /\ ADesktop!Saved(x) /\ UNCHANGED <<a, b>>
    BY <1>10 DEF ADesktop!OnKeyDown
  <2> HIDE DEF x
  <2>3. c' \in FloatStates /\ c'.at = x /\ c'.set = x /\ c'.drag = c.drag /\ c'.frame = c.frame /\ c'.pending = c.pending
    BY <1>1, <2>1, <2>2, PlacedOK
  <2>4. d' \in StorageStates /\ (~d'.lost => d'.point = x)
    BY <1>1, <2>1, <2>2, SavedOK
  <2>5. DragOK(c') /\ HeldOK(c', d')
    BY <1>1, <2>3, <2>4 DEF DragOK, HeldOK
  <2> QED
    BY <1>2, <2>2, <2>3, <2>4, <2>5
<1> QED
  BY <1>3, <1>4, <1>5, <1>6, <1>7, <1>8, <1>9, <1>10

LEMMA DesktopStep == ASSUME DesktopInv, [ADesktop!DesktopNext]_<<a, b, c, d>> PROVE DesktopInv'
<1>1. CASE UNCHANGED <<a, b, c, d>>
  BY <1>1 DEF DesktopInv, StackOK, SeriesOK, DragOK, HeldOK
<1>2. CASE \/ ADesktop!OpenApp \/ ADesktop!GoHome \/ ADesktop!HideMonitor \/ ADesktop!ShowMonitor
           \/ \E app \in Apps : ADesktop!Minimize(app) \/ ADesktop!Close(app) \/ ADesktop!Focus(app)
  BY <1>2, WindowsMove
<1>3. CASE \/ \E s \in Spans : ADesktop!ChooseSpan(s)
           \/ ADesktop!SeriesTick
           \/ \E p \in b : ADesktop!SeriesAnswered(p)
  BY <1>3, SeriesMove
<1>4. CASE \/ ADesktop!Initialize \/ ADesktop!StageResized \/ ADesktop!OnResize \/ ADesktop!FinishDrag
           \/ ADesktop!DragBegins \/ ADesktop!FramePaints
           \/ \E x \in ADesktop!PointsX : ADesktop!PointerMove(x) \/ ADesktop!OnKeyDown(x)
  BY <1>4, WindowPlaced
<1> QED
  BY ONLY <1>1, <1>2, <1>3, <1>4, [ADesktop!DesktopNext]_<<a, b, c, d>> DEF ADesktop!DesktopNext

-----------------------------------------------------------------------------
(* The companion: unless a sign-out is under way, all that is kept is of   *)
(* the person signed in last, and so is all that is asked for and still    *)
(* counts on both sides; and no overtaken check can bring a session in     *)
(* beside that person's.                                                   *)

MobileStates ==
  [identity : AMobile!Persons, previous : AMobile!Persons, session : AMobile!Persons,
   status : [AMobile!Questions -> AMobile!TaskStates], owner : [AMobile!Questions -> AMobile!Persons],
   asked : 0..MaxQuestions, queue : Seq(AMobile!Questions), files : AMobile!Persons, family : AMobile!Persons,
   sheet : {"none", "login", "cloud"}, busy : BOOLEAN, draft : {"empty", "listening", "text"}]

SignKinds == {"login", "logout"}
DataKinds == {"chat", "list", "read", "family"}

\* One sign-in or sign-out at a time, and one check of who is signed in; a question is asked for by its number.
Single(p, rs) ==
  /\ \A r, s \in rs : r.kind \in SignKinds /\ s.kind \in SignKinds => r = s
  /\ \A r, s \in rs : r.kind = "restore" /\ s.kind = "restore" => r = s
  /\ (\E r \in rs : r.kind \in SignKinds) => p.busy
  /\ \A r \in rs : r.kind = "chat" => r.question # 0
\* While signing in, nothing else counts.
SigningIn(p, rs) ==
  (\E r \in rs : r.kind = "login") =>
    /\ \A r \in rs : r.kind # "login" => ~r.live /\ ~r.ours
    /\ p.sheet = "login" /\ p.queue = << >>
\* Without a person nothing waits to be asked.
Signed(p) ==
  /\ p.identity = NoPrincipal => \A q \in AMobile!Questions : p.status[q] # "queued"
  /\ p.sheet = "cloud" => p.draft # "listening" /\ (p.draft = "text" => p.identity # NoPrincipal)
\* What is kept, and what may still come, is of one person.
OfOne(p, rs) ==
  /\ p.identity \in {NoPrincipal, p.previous}
  /\ \A q \in AMobile!Questions : p.status[q] # "absent" => p.owner[q] = p.previous /\ p.previous # NoPrincipal
  /\ p.files \in {NoPrincipal, p.previous} /\ p.family \in {NoPrincipal, p.previous}
  /\ \A r \in rs : r.kind \in DataKinds /\ r.ours /\ r.live => r.who = p.identity /\ p.identity # NoPrincipal
  /\ p.identity # NoPrincipal => p.session \in {NoPrincipal, p.identity}
  /\ p.identity # NoPrincipal => \A r \in rs : r.kind = "restore" /\ r.live => r.ours

Good(p, rs) ==
  /\ p \in MobileStates /\ rs \subseteq AMobile!RequestRecords
  /\ Single(p, rs) /\ SigningIn(p, rs) /\ Signed(p)
  /\ (\A r \in rs : r.kind # "logout") => OfOne(p, rs)
MobileInv == Good(a, b)

LEMMA MobileHolds == ASSUME MobileInv PROVE AMobile!MobileTypeOK /\ AMobile!PrivateToOwner
<1>1. AMobile!MobileTypeOK
  BY DEF MobileInv, Good, MobileStates, AMobile!MobileTypeOK
<1>2. ASSUME a.identity # NoPrincipal, ~a.busy
      PROVE  /\ \A q \in AMobile!Questions : a.status[q] # "absent" => a.owner[q] = a.identity
             /\ a.files \in {NoPrincipal, a.identity} /\ a.family \in {NoPrincipal, a.identity}
  <2>1. \A r \in b : r.kind # "logout"
    BY <1>2 DEF MobileInv, Good, Single, SignKinds
  <2> QED
    BY <1>2, <2>1 DEF MobileInv, Good, OfOne
<1> QED
  BY <1>1, <1>2 DEF AMobile!PrivateToOwner

LEMMA MobileStarts == ASSUME AMobile!MobileInit PROVE MobileInv
<1> DEFINE r0 == [kind |-> "restore", who |-> NoPrincipal, question |-> 0, ours |-> TRUE, live |-> TRUE]
<1>1. NoPrincipal \in AMobile!Persons /\ 0 \in 0..MaxQuestions
  BY Bounds DEF AMobile!Persons
<1>2. r0 \in AMobile!RequestRecords
  BY <1>1 DEF AMobile!RequestRecords, AMobile!RequestKinds
<1>3. a \in MobileStates
  <2> DEFINE empty == << >>
             off == FALSE
  <2>1. /\ AMobile!NoQuestions \in [AMobile!Questions -> AMobile!TaskStates]
        /\ AMobile!NoOwners \in [AMobile!Questions -> AMobile!Persons]
    BY <1>1 DEF AMobile!NoQuestions, AMobile!NoOwners, AMobile!TaskStates
  <2>2. empty \in Seq(AMobile!Questions) /\ off \in BOOLEAN
    OBVIOUS
  <2>3. a = [identity |-> NoPrincipal, previous |-> NoPrincipal, session |-> NoPrincipal,
             status |-> AMobile!NoQuestions, owner |-> AMobile!NoOwners, asked |-> 0, queue |-> empty,
             files |-> NoPrincipal, family |-> NoPrincipal, sheet |-> "none", busy |-> off, draft |-> "empty"]
    BY DEF AMobile!MobileInit
  <2> HIDE DEF empty, off
  <2> QED
    BY <1>1, <2>1, <2>2, <2>3 DEF MobileStates
<1>4. a.identity = NoPrincipal /\ a.files = NoPrincipal /\ a.family = NoPrincipal /\ a.sheet = "none"
      /\ \A q \in AMobile!Questions : a.status[q] = "absent"
  BY DEF AMobile!MobileInit, AMobile!NoQuestions
<1>5. b = {r0} /\ r0.kind = "restore"
  BY DEF AMobile!MobileInit
<1> HIDE DEF r0
<1>6. Single(a, b) /\ SigningIn(a, b)
  BY <1>5 DEF Single, SigningIn, SignKinds
<1>7. Signed(a) /\ OfOne(a, b)
  BY <1>4, <1>5 DEF Signed, OfOne, DataKinds
<1> QED
  BY <1>2, <1>3, <1>5, <1>6, <1>7 DEF MobileInv, Good

\* Requests that are no more than others: some are gone, some no longer count.
Sole(rs) ==
  /\ \A r, s \in rs : r.kind \in SignKinds /\ s.kind \in SignKinds => r = s
  /\ \A r, s \in rs : r.kind = "restore" /\ s.kind = "restore" => r = s
Faded(ts, rs) ==
  /\ ts \subseteq AMobile!RequestRecords
  /\ \A t \in ts : \E r \in rs : /\ t.kind = r.kind /\ t.who = r.who /\ t.question = r.question
                               /\ (t.ours => r.ours) /\ (t.live => r.live)
  /\ Sole(rs) => Sole(ts)
Leaving(rs) == \E r \in rs : r.kind = "logout"

LEMMA FadedTwice ==
  ASSUME NEW us, NEW ts, NEW rs, Faded(us, ts), Faded(ts, rs)
  PROVE  Faded(us, rs)
<1> SUFFICES ASSUME NEW u \in us
             PROVE  \E r \in rs : /\ u.kind = r.kind /\ u.who = r.who /\ u.question = r.question
                                 /\ (u.ours => r.ours) /\ (u.live => r.live)
  BY DEF Faded
<1>1. PICK t \in ts : /\ u.kind = t.kind /\ u.who = t.who /\ u.question = t.question
                      /\ (u.ours => t.ours) /\ (u.live => t.live)
  BY DEF Faded
<1>2. PICK r \in rs : /\ t.kind = r.kind /\ t.who = r.who /\ t.question = r.question
                      /\ (t.ours => r.ours) /\ (t.live => r.live)
  BY DEF Faded
<1> QED
  BY <1>1, <1>2

LEMMA FadedPart == ASSUME NEW rs \in SUBSET AMobile!RequestRecords, NEW ts \in SUBSET rs PROVE Faded(ts, rs)
BY DEF Faded, Sole

LEMMA FadedBy ==
  ASSUME NEW rs \in SUBSET AMobile!RequestRecords, NEW kinds
  PROVE  /\ Faded(AMobile!OutOfDate(kinds, rs), rs)
         /\ \A t \in AMobile!OutOfDate(kinds, rs) : (t.kind \in kinds => ~t.ours) /\ (t.kind \notin kinds => t \in rs)
         /\ Leaving(rs) => Leaving(AMobile!OutOfDate(kinds, rs))
<1> DEFINE F(r) == IF r.kind \in kinds THEN [r EXCEPT !.ours = FALSE] ELSE r
           ts == AMobile!OutOfDate(kinds, rs)
<1>1. \A r \in rs : /\ F(r) \in AMobile!RequestRecords /\ F(r).kind = r.kind /\ F(r).who = r.who /\ F(r).question = r.question
                    /\ (F(r).ours => r.ours) /\ F(r).live = r.live /\ (r.kind \in kinds => ~F(r).ours)
                    /\ (r.kind \notin kinds => F(r) = r)
  BY DEF AMobile!RequestRecords
<1>2. ts = {t \in {F(r) : r \in rs} : t.ours \/ t.live \/ t.kind \in {"chat", "login", "logout"}}
  BY DEF AMobile!OutOfDate, AMobile!Awaited
<1> HIDE DEF F, ts
<1>3. ts \subseteq AMobile!RequestRecords /\ \A t \in ts : (t.kind \in kinds => ~t.ours) /\ (t.kind \notin kinds => t \in rs)
  BY <1>1, <1>2
<1>4. \A t \in ts : \E r \in rs : /\ t.kind = r.kind /\ t.who = r.who /\ t.question = r.question
                                   /\ (t.ours => r.ours) /\ (t.live => r.live)
  BY <1>1, <1>2
<1>5. Sole(rs) => Sole(ts)
  BY <1>1, <1>2 DEF Sole
<1>6. Leaving(rs) => Leaving(ts)
  BY <1>1, <1>2 DEF Leaving
<1> QED
  BY <1>3, <1>4, <1>5, <1>6 DEF Faded, ts

LEMMA FadedCut ==
  ASSUME NEW rs \in SUBSET AMobile!RequestRecords
  PROVE  /\ Faded(AMobile!Cut(rs), rs) /\ \A t \in AMobile!Cut(rs) : ~t.live
         /\ Leaving(rs) => Leaving(AMobile!Cut(rs))
<1> DEFINE F(r) == [r EXCEPT !.live = FALSE]
           ts == AMobile!Cut(rs)
<1>1. \A r \in rs : /\ F(r) \in AMobile!RequestRecords /\ F(r).kind = r.kind /\ F(r).who = r.who /\ F(r).question = r.question
                    /\ F(r).ours = r.ours /\ ~F(r).live
  BY DEF AMobile!RequestRecords
<1>2. ts = {t \in {F(r) : r \in rs} : t.ours \/ t.live \/ t.kind \in {"chat", "login", "logout"}}
  BY DEF AMobile!Cut, AMobile!Awaited
<1> HIDE DEF F, ts
<1>3. ts \subseteq AMobile!RequestRecords /\ \A t \in ts : ~t.live
  BY <1>1, <1>2
<1>4. \A t \in ts : \E r \in rs : /\ t.kind = r.kind /\ t.who = r.who /\ t.question = r.question
                                   /\ (t.ours => r.ours) /\ (t.live => r.live)
  BY <1>1, <1>2
<1>5. Sole(rs) => Sole(ts)
  BY <1>1, <1>2 DEF Sole
<1>6. Leaving(rs) => Leaving(ts)
  BY <1>1, <1>2 DEF Leaving
<1> QED
  BY <1>3, <1>4, <1>5, <1>6 DEF Faded, ts

\* The session is left with the answer that says it is over.
LEMMA FadedLeft ==
  ASSUME NEW rs \in SUBSET AMobile!RequestRecords, NEW r \in rs, r.kind # "logout"
  PROVE  /\ Faded(rs \ {r}, rs) /\ Faded(AMobile!Left(r, rs), rs)
         /\ \A t \in AMobile!Left(r, rs) : t.live => t \in rs
         /\ Leaving(rs) => Leaving(rs \ {r}) /\ Leaving(AMobile!Left(r, rs))
<1>1. rs \ {r} \in SUBSET AMobile!RequestRecords /\ rs \ {r} \in SUBSET rs
  OBVIOUS
<1>2. Faded(rs \ {r}, rs)
  BY <1>1, FadedPart
<1>3. Faded(AMobile!Cut(rs \ {r}), rs \ {r}) /\ (Leaving(rs \ {r}) => Leaving(AMobile!Cut(rs \ {r})))
      /\ \A t \in AMobile!Cut(rs \ {r}) : ~t.live
  BY <1>1, FadedCut
<1>4. Faded(AMobile!Cut(rs \ {r}), rs)
  BY <1>2, <1>3, FadedTwice
<1>5. Leaving(rs) => Leaving(rs \ {r})
  BY DEF Leaving
<1>6. AMobile!Left(r, rs) \in {AMobile!Cut(rs \ {r}), rs \ {r}}
  BY DEF AMobile!Left
<1> QED
  BY <1>2, <1>3, <1>4, <1>5, <1>6

LEMMA RequestOK ==
  ASSUME NEW m \in MobileStates, NEW kind \in AMobile!RequestKinds, NEW question \in 0..MaxQuestions
  PROVE  /\ AMobile!Request(kind, m, question) \in AMobile!RequestRecords
         /\ AMobile!Request(kind, m, question).kind = kind
         /\ AMobile!Request(kind, m, question).question = question
         /\ AMobile!Request(kind, m, question).ours
         /\ kind \in DataKinds /\ AMobile!Request(kind, m, question).live =>
              AMobile!Request(kind, m, question).who = m.session /\ m.session # NoPrincipal
<1> DEFINE who == IF kind \in {"restore", "login", "logout"} THEN NoPrincipal ELSE m.session
           live == kind \in {"restore", "login"} \/ m.session # NoPrincipal
<1>1. who \in AMobile!Persons /\ live \in BOOLEAN
  BY DEF MobileStates, AMobile!Persons
<1>2. kind \in DataKinds /\ live => who = m.session /\ m.session # NoPrincipal
  BY DEF DataKinds
<1>3. AMobile!Request(kind, m, question) = [kind |-> kind, who |-> who, question |-> question, ours |-> TRUE, live |-> live]
  BY DEF AMobile!Request
<1> HIDE DEF who, live
<1> QED
  BY <1>1, <1>2, <1>3 DEF AMobile!RequestRecords

\* The page changes a little, and no request more counts.
LEMMA MobileFades ==
  ASSUME NEW m, NEW rs, Good(m, rs), NEW n \in MobileStates, NEW ts, Faded(ts, rs), Leaving(rs) => Leaving(ts),
         n.previous = m.previous, n.owner = m.owner, n.session \in {m.session, NoPrincipal},
         \/ n.identity = m.identity
         \/ n.identity = NoPrincipal /\ \A t \in ts : ~t.ours,
         \A q \in AMobile!Questions : (n.status[q] # "absent" => m.status[q] # "absent"),
         \A q \in AMobile!Questions : n.status[q] = "queued" => m.status[q] = "queued" /\ n.identity = m.identity,
         n.files \in {m.files, NoPrincipal}, n.family \in {m.family, NoPrincipal},
         (n.identity # NoPrincipal /\ ~Leaving(ts)) => \A t \in ts : t.kind = "restore" /\ t.live => t \in rs,
         (\E t \in ts : t.kind \in SignKinds) => n.busy,
         (\E t \in ts : t.kind = "login") => n.sheet = "login" /\ n.queue = << >>,
         n.sheet = "cloud" => n.draft # "listening" /\ (n.draft = "text" => n.identity # NoPrincipal)
  PROVE  Good(n, ts)
<1>1. \A t \in ts : \E r \in rs : /\ t.kind = r.kind /\ t.who = r.who /\ t.question = r.question
                                   /\ (t.ours => r.ours) /\ (t.live => r.live)
  BY DEF Faded
<1>2. ts \subseteq AMobile!RequestRecords /\ Sole(ts)
  BY DEF Faded, Good, Single, Sole
<1>3. Single(n, ts)
  <2>1. \A t \in ts : t.kind = "chat" => t.question # 0
    BY <1>1 DEF Good, Single
  <2> QED
    BY <1>2, <2>1 DEF Sole, Single
<1>4. SigningIn(n, ts)
  <2> SUFFICES ASSUME NEW l \in ts, l.kind = "login" PROVE SigningIn(n, ts)
    BY DEF SigningIn
  <2>1. PICK l0 \in rs : l0.kind = "login"
    BY <1>1
  <2>2. \A r \in rs : r.kind # "login" => ~r.live /\ ~r.ours
    BY <2>1 DEF Good, SigningIn
  <2>3. \A t \in ts : t.kind # "login" => ~t.live /\ ~t.ours
    BY <1>1, <2>2
  <2> QED
    BY <2>3 DEF SigningIn
<1>5. Signed(n)
  BY DEF Signed, Good
<1>6. ASSUME \A t \in ts : t.kind # "logout" PROVE OfOne(n, ts)
  <2>1. OfOne(m, rs)
    BY <1>6 DEF Leaving, Good
  <2>2. \A t \in ts : t.kind \in DataKinds /\ t.ours /\ t.live => t.who = n.identity /\ n.identity # NoPrincipal
    BY <1>1, <2>1 DEF OfOne
  <2>3. n.identity # NoPrincipal => n.session \in {NoPrincipal, n.identity}
    BY <2>1 DEF OfOne
  <2>4. n.identity # NoPrincipal => \A t \in ts : t.kind = "restore" /\ t.live => t.ours
    <3> SUFFICES ASSUME n.identity # NoPrincipal, NEW t \in ts, t.kind = "restore", t.live PROVE t.ours
      OBVIOUS
    <3>1. t \in rs /\ m.identity # NoPrincipal
      BY <1>6, <2>1 DEF Leaving
    <3> QED
      BY <2>1, <3>1 DEF OfOne
  <2> QED
    BY <2>1, <2>2, <2>3, <2>4 DEF OfOne
<1> QED
  BY <1>2, <1>3, <1>4, <1>5, <1>6 DEF Good

\* One more request, of the person whose session it is.
LEMMA MobileAsks ==
  ASSUME NEW m, NEW rs, Good(m, rs), NEW r0 \in AMobile!RequestRecords, r0.kind \notin SignKinds, r0.ours,
         r0.kind = "restore" => \A r \in rs : r.kind # "restore",
         r0.kind = "chat" => r0.question # 0,
         r0.kind # "restore" => m.identity # NoPrincipal,
         r0.kind \in DataKinds /\ r0.live => r0.who = m.session /\ m.session # NoPrincipal,
         \A r \in rs : r.kind # "login"
  PROVE  Good(m, rs \cup {r0})
<1> DEFINE ts == rs \cup {r0}
<1>1. ts \subseteq AMobile!RequestRecords /\ m \in MobileStates
  BY DEF Good
<1>2. Single(m, ts)
  BY DEF Good, Single, SignKinds
<1>3. SigningIn(m, ts) /\ Signed(m)
  BY DEF Good, SigningIn, SignKinds
<1>4. ASSUME \A t \in ts : t.kind # "logout" PROVE OfOne(m, ts)
  <2>1. OfOne(m, rs)
    BY <1>4 DEF Good
  <2>2. r0.kind \in DataKinds /\ r0.ours /\ r0.live => r0.who = m.identity /\ m.identity # NoPrincipal
    BY <2>1 DEF OfOne, DataKinds
  <2> QED
    BY <2>1, <2>2 DEF OfOne
<1> QED
  BY <1>1, <1>2, <1>3, <1>4 DEF Good

\* The next question that waits is asked.
LEMMA MobileDrains ==
  ASSUME NEW m, NEW rs, Good(m, rs), AMobile!Drained(m, rs)
  PROVE  MobileInv'
<1>1. CASE a' = m /\ b' = rs
  BY <1>1 DEF MobileInv
<1>2. ASSUME \A r \in rs : r.kind # "chat",
             NEW i \in AMobile!Waiting(m),
             a' = [m EXCEPT !.status[m.queue[i]] = "running", !.queue = SubSeq(@, i + 1, Len(@))],
             b' = rs \cup {AMobile!Request("chat", m, m.queue[i])}
      PROVE  MobileInv'
  <2> DEFINE q == m.queue[i]
             rest == SubSeq(m.queue, i + 1, Len(m.queue))
             status == [m.status EXCEPT ![q] = "running"]
             n == [m EXCEPT !.status = status, !.queue = rest]
             r0 == AMobile!Request("chat", m, q)
  <2>1. /\ m \in MobileStates /\ m.queue \in Seq(AMobile!Questions) /\ i \in 1..Len(m.queue) /\ m.status[q] = "queued"
        /\ m.status \in [AMobile!Questions -> AMobile!TaskStates]
    BY <1>2 DEF Good, MobileStates, AMobile!Waiting
  <2>2. q \in AMobile!Questions /\ rest \in Seq(AMobile!Questions)
    BY <2>1, ElementOfSeq, SubSeqProperties, LenProperties
  <2>3. q \in 0..MaxQuestions /\ q # 0
    BY <2>2, Bounds DEF AMobile!Questions
  <2>4. a' = n
    BY <1>2, <2>1 DEF MobileStates
  <2>5. status \in [AMobile!Questions -> AMobile!TaskStates] /\ status[q] = "running"
        /\ \A x \in AMobile!Questions : x # q => status[x] = m.status[x]
    BY <2>1, <2>2 DEF AMobile!TaskStates
  <2>6. \A r \in rs : r.kind # "login"
    <3>1. (\E r \in rs : r.kind = "login") => m.queue = << >>
      BY DEF Good, SigningIn
    <3>2. m.queue # << >>
      BY <2>1, EmptySeq, LenProperties
    <3> QED
      BY <3>1, <3>2
  <2>7. m.identity # NoPrincipal
    BY <2>1, <2>2 DEF Good, Signed
  <2> HIDE DEF q, rest, status
  <2>8. /\ n \in MobileStates /\ n.status = status /\ n.owner = m.owner /\ n.previous = m.previous /\ n.session = m.session
        /\ n.identity = m.identity /\ n.files = m.files /\ n.family = m.family /\ n.busy = m.busy /\ n.sheet = m.sheet
        /\ n.draft = m.draft
    BY <2>1, <2>2, <2>5 DEF MobileStates
  <2> HIDE DEF n
  <2>9. Good(n, rs)
    <3>1. Faded(rs, rs)
      BY FadedPart DEF Good
    <3>2. \A x \in AMobile!Questions : n.status[x] # "absent" => m.status[x] # "absent"
      BY <2>1, <2>2, <2>5, <2>8 DEF q
    <3>3. \A x \in AMobile!Questions : n.status[x] = "queued" => m.status[x] = "queued"
      BY <2>5, <2>8
    <3>4. (\E t \in rs : t.kind \in SignKinds) => n.busy
      BY <2>8 DEF Good, Single
    <3>5. n.sheet = "cloud" => n.draft # "listening" /\ (n.draft = "text" => n.identity # NoPrincipal)
      BY <2>8 DEF Good, Signed
    <3> QED
      BY <2>6, <2>8, <3>1, <3>2, <3>3, <3>4, <3>5, MobileFades
  <2>10. /\ r0 \in AMobile!RequestRecords /\ r0.kind = "chat" /\ r0.question = q /\ r0.ours
         /\ (r0.live => r0.who = m.session /\ m.session # NoPrincipal)
    <3>1. "chat" \in AMobile!RequestKinds /\ "chat" \in DataKinds
      BY DEF AMobile!RequestKinds, DataKinds
    <3> QED
      BY <2>1, <2>3, <3>1, RequestOK
  <2>11. b' = rs \cup {r0}
    BY <1>2 DEF q
  <2> HIDE DEF r0
  <2>12. Good(n, rs \cup {r0})
    <3>1. r0.kind \notin SignKinds /\ r0.kind # "restore" /\ r0.question # 0
      BY <2>3, <2>10 DEF SignKinds
    <3> QED
      BY <2>6, <2>7, <2>8, <2>9, <2>10, <3>1, MobileAsks
  <2> QED
    BY <2>4, <2>11, <2>12 DEF MobileInv
<1> QED
  BY <1>1, <1>2 DEF AMobile!Drained

\* A question that was asked is answered.
LEMMA MobilePatches ==
  ASSUME MobileInv, NEW r \in b, r.kind = "chat", NEW p \in {r.who, a.owner[r.question]}, p = r.who => (r.ours /\ r.live) \/ p = a.owner[r.question]
  PROVE  Good(AMobile!Patched(a, r.question, "ended", p), b \ {r})
<1> DEFINE q == r.question
           status == [a.status EXCEPT ![q] = "ended"]
           owner == [a.owner EXCEPT ![q] = p]
           n == [a EXCEPT !.status = status, !.owner = owner]
<1>1. /\ a \in MobileStates /\ b \in SUBSET AMobile!RequestRecords /\ q \in AMobile!Questions /\ p \in AMobile!Persons
      /\ a.status \in [AMobile!Questions -> AMobile!TaskStates] /\ a.owner \in [AMobile!Questions -> AMobile!Persons]
  <2>1. /\ a \in MobileStates /\ b \in SUBSET AMobile!RequestRecords /\ q \in 0..MaxQuestions /\ q # 0 /\ r.who \in AMobile!Persons
    BY DEF MobileInv, Good, Single, AMobile!RequestRecords
  <2>2. q \in AMobile!Questions
    BY <2>1, Bounds DEF AMobile!Questions
  <2>3. a.status \in [AMobile!Questions -> AMobile!TaskStates] /\ a.owner \in [AMobile!Questions -> AMobile!Persons]
    BY <2>1 DEF MobileStates
  <2> QED
    BY <2>1, <2>2, <2>3
<1>2. Faded(b \ {r}, b) /\ (Leaving(b) => Leaving(b \ {r}))
  BY <1>1, FadedLeft
<1>3. ASSUME NEW m, Good(m, b), m.busy = a.busy, m.sheet = a.sheet, m.queue = a.queue
      PROVE  Good(m, b \ {r})
  <2>1. m \in MobileStates
    BY <1>3 DEF Good
  <2>2. (\E t \in b \ {r} : t.kind \in SignKinds) => m.busy
    BY <1>3 DEF Good, Single
  <2>3. (\E t \in b \ {r} : t.kind = "login") => m.sheet = "login" /\ m.queue = << >>
    BY <1>3 DEF Good, SigningIn
  <2>4. m.sheet = "cloud" => m.draft # "listening" /\ (m.draft = "text" => m.identity # NoPrincipal)
    BY <1>3 DEF Good, Signed
  <2> QED
    BY <1>2, <1>3, <2>1, <2>2, <2>3, <2>4, MobileFades
<1>4. CASE a.status[q] = "absent"
  <2>1. AMobile!Patched(a, q, "ended", p) = a
    BY <1>4 DEF AMobile!Patched
  <2> QED
    BY <1>3, <2>1 DEF MobileInv
<1>5. CASE a.status[q] # "absent"
  <2>1. AMobile!Patched(a, q, "ended", p) = n
    BY <1>1, <1>5 DEF AMobile!Patched, MobileStates
  <2>2. /\ status \in [AMobile!Questions -> AMobile!TaskStates] /\ owner \in [AMobile!Questions -> AMobile!Persons]
        /\ owner[q] = p /\ status[q] = "ended"
        /\ \A x \in AMobile!Questions : x # q => status[x] = a.status[x] /\ owner[x] = a.owner[x]
    BY <1>1 DEF AMobile!TaskStates
  <2> HIDE DEF status, owner
  <2>3. /\ n \in MobileStates /\ n.status = status /\ n.owner = owner /\ n.previous = a.previous /\ n.session = a.session
        /\ n.identity = a.identity /\ n.files = a.files /\ n.family = a.family /\ n.busy = a.busy /\ n.sheet = a.sheet
        /\ n.draft = a.draft /\ n.queue = a.queue
    BY <1>1, <2>2 DEF MobileStates
  <2> HIDE DEF n
  <2>4. Single(n, b) /\ SigningIn(n, b)
    BY <2>3 DEF MobileInv, Good, Single, SigningIn
  <2>5. Signed(n)
    <3>1. \A x \in AMobile!Questions : n.status[x] = "queued" => a.status[x] = "queued"
      BY <2>2, <2>3
    <3> QED
      BY <2>3, <3>1 DEF MobileInv, Good, Signed
  <2>6. ASSUME \A t \in b : t.kind # "logout" PROVE OfOne(n, b)
    <3>1. OfOne(a, b)
      BY <2>6 DEF MobileInv, Good
    <3>2. r.ours /\ r.live => r.who = a.identity /\ a.identity # NoPrincipal
      BY <3>1 DEF OfOne, DataKinds
    <3>3. a.owner[q] = a.previous /\ a.previous # NoPrincipal
      BY <1>1, <1>5, <3>1 DEF OfOne
    <3>4. p = a.previous
      BY <3>1, <3>2, <3>3 DEF OfOne
    <3>5. \A x \in AMobile!Questions : n.status[x] # "absent" => n.owner[x] = n.previous /\ n.previous # NoPrincipal
      BY <2>2, <2>3, <3>1, <3>3, <3>4 DEF OfOne
    <3> QED
      BY <2>3, <3>1, <3>5 DEF OfOne
  <2>7. Good(n, b)
    BY <1>1, <2>3, <2>4, <2>5, <2>6 DEF Good
  <2> QED
    BY <1>3, <2>1, <2>3, <2>7
<1> QED
  BY <1>4, <1>5

LEMMA ExpiredOK ==
  ASSUME NEW m \in MobileStates, NEW r
  PROVE  /\ AMobile!Expired(m, r) \in MobileStates
         /\ AMobile!Expired(m, r).session \in {m.session, NoPrincipal}
         /\ AMobile!Expired(m, r).identity = m.identity /\ AMobile!Expired(m, r).previous = m.previous
         /\ AMobile!Expired(m, r).status = m.status /\ AMobile!Expired(m, r).owner = m.owner
         /\ AMobile!Expired(m, r).queue = m.queue /\ AMobile!Expired(m, r).files = m.files
         /\ AMobile!Expired(m, r).family = m.family /\ AMobile!Expired(m, r).sheet = m.sheet
         /\ AMobile!Expired(m, r).busy = m.busy /\ AMobile!Expired(m, r).draft = m.draft
<1>1. NoPrincipal \in AMobile!Persons
  BY DEF AMobile!Persons
<1> QED
  BY <1>1 DEF AMobile!Expired, MobileStates

\* The session is over: what is under way counts no more for the page.
LEMMA SignsOut ==
  ASSUME NEW m, NEW rs, Good(m, rs), NEW ts, Faded(ts, rs), Leaving(rs) => Leaving(ts), NEW r
  PROVE  Good(AMobile!SignedOut(AMobile!Expired(m, r)), AMobile!AllOvertaken(ts))
<1> DEFINE x == AMobile!Expired(m, r)
           status == [q \in AMobile!Questions |-> IF x.status[q] = "queued" THEN "ended" ELSE x.status[q]]
           empty == << >>
           draft == AMobile!Hushed(x.draft)
           n == [x EXCEPT !.identity = NoPrincipal, !.queue = empty, !.sheet = "login", !.draft = draft, !.status = status]
           us == AMobile!AllOvertaken(ts)
<1>1. /\ x \in MobileStates /\ x.session \in {m.session, NoPrincipal} /\ x.previous = m.previous
      /\ x.status = m.status /\ x.owner = m.owner /\ x.files = m.files /\ x.family = m.family /\ x.busy = m.busy
  BY ExpiredOK DEF Good
<1> HIDE DEF x
<1>2. /\ NoPrincipal \in AMobile!Persons /\ empty \in Seq(AMobile!Questions) /\ draft \in {"empty", "listening", "text"}
      /\ status \in [AMobile!Questions -> AMobile!TaskStates]
      /\ \A q \in AMobile!Questions : status[q] # "queued" /\ (status[q] # "absent" => m.status[q] # "absent")
  <2>1. x.status \in [AMobile!Questions -> AMobile!TaskStates] /\ x.draft \in {"empty", "listening", "text"}
    BY <1>1 DEF MobileStates
  <2>2. draft \in {"empty", "listening", "text"}
    BY <2>1 DEF AMobile!Hushed
  <2>3. status \in [AMobile!Questions -> AMobile!TaskStates]
    BY <2>1 DEF AMobile!TaskStates
  <2>4. \A q \in AMobile!Questions : status[q] # "queued" /\ (status[q] # "absent" => m.status[q] # "absent")
    BY <1>1
  <2>5. NoPrincipal \in AMobile!Persons /\ empty \in Seq(AMobile!Questions)
    BY DEF AMobile!Persons
  <2> QED
    BY ONLY <2>2, <2>3, <2>4, <2>5
<1>3. AMobile!SignedOut(x) = n
  BY <1>1 DEF AMobile!SignedOut, MobileStates
<1>4. empty = << >>
  OBVIOUS
<1> HIDE DEF status, empty, draft
<1>5. /\ n \in MobileStates /\ n.identity = NoPrincipal /\ n.queue = empty /\ n.sheet = "login" /\ n.status = status
      /\ n.session = x.session /\ n.previous = x.previous /\ n.owner = x.owner /\ n.files = x.files /\ n.family = x.family
      /\ n.busy = x.busy
  BY <1>1, <1>2 DEF MobileStates
<1> HIDE DEF n
<1>6. Faded(us, rs) /\ (Leaving(rs) => Leaving(us)) /\ \A t \in us : ~t.ours
  <2>1. ts \in SUBSET AMobile!RequestRecords
    BY DEF Faded
  <2>2. us = AMobile!OutOfDate(AMobile!RequestKinds, ts)
    BY DEF AMobile!AllOvertaken
  <2>3. Faded(us, ts) /\ (Leaving(ts) => Leaving(us)) /\ \A t \in us : t.kind \in AMobile!RequestKinds => ~t.ours
    BY <2>1, <2>2, FadedBy
  <2>4. us \subseteq AMobile!RequestRecords
    BY <2>3 DEF Faded
  <2>5. \A t \in us : t.kind \in AMobile!RequestKinds
    BY <2>4 DEF AMobile!RequestRecords
  <2>6. Faded(us, rs)
    BY <2>3, FadedTwice
  <2> QED
    BY <2>3, <2>5, <2>6
<1> HIDE DEF us
<1>7. (\E t \in us : t.kind \in SignKinds) => n.busy
  <2> SUFFICES ASSUME NEW t \in us, t.kind \in SignKinds PROVE n.busy
    OBVIOUS
  <2>1. PICK r1 \in rs : t.kind = r1.kind
    BY <1>6 DEF Faded
  <2> QED
    BY <1>1, <1>5, <2>1 DEF Good, Single
<1>8. Good(n, us)
  <2>1. \A q \in AMobile!Questions : n.status[q] # "absent" => m.status[q] # "absent"
    BY <1>2, <1>5
  <2>2. \A q \in AMobile!Questions : n.status[q] # "queued"
    BY <1>2, <1>5
  <2> QED
    BY <1>1, <1>4, <1>5, <1>6, <1>7, <2>1, <2>2, MobileFades
<1> QED
  BY <1>3, <1>8 DEF x, us

\* A request is gone, or with it the session it was of.
LEMMA MobileLess ==
  ASSUME NEW m, NEW rs, Good(m, rs), NEW r \in rs, r.kind # "logout"
  PROVE  Good(m, rs \ {r}) /\ Good(AMobile!Expired(m, r), AMobile!Left(r, rs))
<1>1. m \in MobileStates /\ rs \in SUBSET AMobile!RequestRecords
  BY DEF Good
<1>2. /\ Faded(rs \ {r}, rs) /\ Faded(AMobile!Left(r, rs), rs)
      /\ \A t \in AMobile!Left(r, rs) : t.live => t \in rs
      /\ Leaving(rs) => Leaving(rs \ {r}) /\ Leaving(AMobile!Left(r, rs))
  BY <1>1, FadedLeft
<1>3. ASSUME NEW n \in MobileStates, NEW ts, Faded(ts, rs), Leaving(rs) => Leaving(ts), \A t \in ts : t.live => t \in rs,
             n.previous = m.previous, n.owner = m.owner, n.session \in {m.session, NoPrincipal}, n.identity = m.identity,
             n.status = m.status, n.files = m.files, n.family = m.family, n.busy = m.busy, n.sheet = m.sheet,
             n.queue = m.queue, n.draft = m.draft
      PROVE  Good(n, ts)
  <2>1. (\E t \in ts : t.kind \in SignKinds) => n.busy
    <3> SUFFICES ASSUME NEW t \in ts, t.kind \in SignKinds PROVE n.busy
      OBVIOUS
    <3>1. PICK r1 \in rs : t.kind = r1.kind
      BY <1>3 DEF Faded
    <3> QED
      BY <1>3, <3>1 DEF Good, Single
  <2>2. (\E t \in ts : t.kind = "login") => n.sheet = "login" /\ n.queue = << >>
    <3> SUFFICES ASSUME NEW t \in ts, t.kind = "login" PROVE n.sheet = "login" /\ n.queue = << >>
      OBVIOUS
    <3>1. PICK r1 \in rs : t.kind = r1.kind
      BY <1>3 DEF Faded
    <3> QED
      BY <1>3, <3>1 DEF Good, SigningIn
  <2>3. n.sheet = "cloud" => n.draft # "listening" /\ (n.draft = "text" => n.identity # NoPrincipal)
    BY <1>3 DEF Good, Signed
  <2> QED
    BY <1>3, <2>1, <2>2, <2>3, MobileFades
<1>4. Good(m, rs \ {r})
  BY <1>1, <1>2, <1>3
<1> DEFINE n == AMobile!Expired(m, r)
<1>5. /\ n \in MobileStates /\ n.session \in {m.session, NoPrincipal}
      /\ n.identity = m.identity /\ n.previous = m.previous /\ n.status = m.status /\ n.owner = m.owner
      /\ n.queue = m.queue /\ n.files = m.files /\ n.family = m.family /\ n.sheet = m.sheet
      /\ n.busy = m.busy /\ n.draft = m.draft
  BY <1>1, ExpiredOK
<1> HIDE DEF n
<1>6. Good(n, AMobile!Left(r, rs))
  BY <1>2, <1>3, <1>5
<1> QED
  BY <1>4, <1>6 DEF n

LEMMA ChatAnswered == ASSUME MobileInv, NEW r \in b, AMobile!ChatEnds(r) PROVE MobileInv'
<1>1. r.kind = "chat" /\ Good(a, b) /\ b \in SUBSET AMobile!RequestRecords
  BY DEF MobileInv, Good, AMobile!ChatEnds
<1> DEFINE p1 == AMobile!Patched(a, r.question, "ended", r.who)
           p2 == AMobile!Patched(a, r.question, "ended", a.owner[r.question])
<1>2. r.ours /\ r.live => Good(p1, b \ {r})
  BY <1>1, MobilePatches
<1>3. Good(p2, b \ {r})
  <2>1. a.owner[r.question] \in {r.who, a.owner[r.question]}
    OBVIOUS
  <2> QED
    BY <1>1, <2>1, MobilePatches
<1>4. Good(a, b \ {r}) /\ Good(AMobile!Expired(a, r), AMobile!Left(r, b))
  BY <1>1, MobileLess
<1>5. \/ r.live /\ r.ours /\ AMobile!Drained(p1, b \ {r})
      \/ AMobile!Drained(a, b \ {r})
      \/ AMobile!Drained(p2, b \ {r})
      \/ /\ a' = AMobile!SignedOut(AMobile!Expired(p2, r))
         /\ b' = AMobile!AllOvertaken(AMobile!Left(r, b))
      \/ AMobile!Drained(AMobile!Expired(a, r), AMobile!Left(r, b))
  BY DEF AMobile!ChatEnds
<1> HIDE DEF p1, p2
<1>6. CASE r.live /\ r.ours /\ AMobile!Drained(p1, b \ {r})
  BY <1>2, <1>6, MobileDrains
<1>7. CASE AMobile!Drained(a, b \ {r})
  BY <1>4, <1>7, MobileDrains
<1>8. CASE AMobile!Drained(p2, b \ {r})
  BY <1>3, <1>8, MobileDrains
<1>9. CASE AMobile!Drained(AMobile!Expired(a, r), AMobile!Left(r, b))
  BY <1>4, <1>9, MobileDrains
<1>10. CASE /\ a' = AMobile!SignedOut(AMobile!Expired(p2, r))
            /\ b' = AMobile!AllOvertaken(AMobile!Left(r, b))
  <2>1. b \ {r} \in SUBSET AMobile!RequestRecords
    BY <1>1
  <2>2. /\ Faded(AMobile!Cut(b \ {r}), b \ {r}) /\ (Leaving(b \ {r}) => Leaving(AMobile!Cut(b \ {r})))
    BY <2>1, FadedCut
  <2>3. Faded(b \ {r}, b \ {r})
    BY <2>1, FadedPart
  <2>4. AMobile!Left(r, b) \in {AMobile!Cut(b \ {r}), b \ {r}}
    BY DEF AMobile!Left
  <2>5. Faded(AMobile!Left(r, b), b \ {r}) /\ (Leaving(b \ {r}) => Leaving(AMobile!Left(r, b)))
    BY <2>2, <2>3, <2>4
  <2>6. Good(AMobile!SignedOut(AMobile!Expired(p2, r)), AMobile!AllOvertaken(AMobile!Left(r, b)))
    BY <1>3, <2>5, SignsOut
  <2> QED
    BY <1>10, <2>6 DEF MobileInv
<1> QED
  BY <1>5, <1>6, <1>7, <1>8, <1>9, <1>10

\* Files or the household are shown, or nothing of them.
LEMMA MobileShows ==
  ASSUME MobileInv, NEW p \in AMobile!Persons, ~Leaving(b) => p \in {NoPrincipal, a.previous},
         NEW n \in {a, [a EXCEPT !.files = p], [a EXCEPT !.family = p]}
  PROVE  Good(n, b)
<1>1. a \in MobileStates
  BY DEF MobileInv, Good
<1>2. /\ n \in MobileStates /\ n.previous = a.previous /\ n.owner = a.owner /\ n.session = a.session /\ n.identity = a.identity
      /\ n.status = a.status /\ n.busy = a.busy /\ n.sheet = a.sheet /\ n.queue = a.queue /\ n.draft = a.draft
      /\ n.files \in {a.files, p} /\ n.family \in {a.family, p}
  BY <1>1 DEF MobileStates
<1>3. Single(n, b) /\ SigningIn(n, b) /\ Signed(n)
  BY <1>2 DEF MobileInv, Good, Single, SigningIn, Signed
<1>4. ASSUME \A r \in b : r.kind # "logout" PROVE OfOne(n, b)
  <2>1. OfOne(a, b) /\ p \in {NoPrincipal, a.previous}
    BY <1>4 DEF MobileInv, Good, Leaving
  <2>2. n.files \in {NoPrincipal, n.previous} /\ n.family \in {NoPrincipal, n.previous}
    BY <1>2, <2>1 DEF OfOne
  <2> QED
    BY <1>2, <2>1, <2>2 DEF OfOne
<1> QED
  BY <1>2, <1>3, <1>4 DEF MobileInv, Good

LEMMA LoadedShown == ASSUME MobileInv, NEW r \in b, AMobile!ShowLoaded(r) PROVE MobileInv'
<1>1. /\ r.kind \in {"list", "read", "family"} /\ r.kind # "logout" /\ Good(a, b) /\ b \in SUBSET AMobile!RequestRecords
      /\ r.who \in AMobile!Persons
  BY DEF MobileInv, Good, AMobile!ShowLoaded, AMobile!RequestRecords
<1>2. NoPrincipal \in AMobile!Persons
  BY DEF AMobile!Persons
<1> DEFINE n1 == AMobile!Loaded(r.kind, a, r.who)
           blank == IF r.ours /\ r.kind # "read" THEN AMobile!Loaded(r.kind, a, NoPrincipal) ELSE a
<1>3. r.ours /\ r.live => Good(n1, b)
  <2> SUFFICES ASSUME r.ours, r.live PROVE Good(n1, b)
    OBVIOUS
  <2>1. ~Leaving(b) => r.who \in {NoPrincipal, a.previous}
    BY <1>1 DEF Leaving, MobileInv, Good, OfOne, DataKinds
  <2>2. n1 \in {a, [a EXCEPT !.files = r.who], [a EXCEPT !.family = r.who]}
    BY <1>1 DEF AMobile!Loaded
  <2> QED
    BY <1>1, <2>1, <2>2, MobileShows
<1>4. Good(blank, b)
  <2>1. blank \in {a, [a EXCEPT !.files = NoPrincipal], [a EXCEPT !.family = NoPrincipal]}
    BY <1>1 DEF AMobile!Loaded
  <2>2. NoPrincipal \in {NoPrincipal, a.previous}
    OBVIOUS
  <2> QED
    BY <1>2, <2>1, <2>2, MobileShows
<1>5. \/ r.live /\ r.ours /\ a' = n1 /\ b' = b \ {r}
      \/ a' = a /\ b' = b \ {r}
      \/ a' = blank /\ b' = b \ {r}
      \/ a' = AMobile!SignedOut(AMobile!Expired(blank, r)) /\ b' = AMobile!AllOvertaken(AMobile!Left(r, b))
      \/ a' = AMobile!Expired(blank, r) /\ b' = AMobile!Left(r, b)
  BY DEF AMobile!ShowLoaded
<1> HIDE DEF n1, blank
<1>6. CASE r.live /\ r.ours /\ a' = n1 /\ b' = b \ {r}
  <2>1. Good(n1, b \ {r})
    BY <1>1, <1>3, <1>6, MobileLess
  <2> QED
    BY <1>6, <2>1 DEF MobileInv
<1>7. CASE a' = a /\ b' = b \ {r}
  <2>1. Good(a, b \ {r})
    BY <1>1, MobileLess
  <2> QED
    BY <1>7, <2>1 DEF MobileInv
<1>8. Good(blank, b \ {r}) /\ Good(AMobile!Expired(blank, r), AMobile!Left(r, b))
  BY <1>1, <1>4, MobileLess
<1>9. CASE a' = blank /\ b' = b \ {r}
  BY <1>8, <1>9 DEF MobileInv
<1>10. CASE a' = AMobile!Expired(blank, r) /\ b' = AMobile!Left(r, b)
  BY <1>8, <1>10 DEF MobileInv
<1>11. CASE a' = AMobile!SignedOut(AMobile!Expired(blank, r)) /\ b' = AMobile!AllOvertaken(AMobile!Left(r, b))
  <2>1. Faded(AMobile!Left(r, b), b) /\ (Leaving(b) => Leaving(AMobile!Left(r, b)))
    BY <1>1, FadedLeft
  <2>2. Good(AMobile!SignedOut(AMobile!Expired(blank, r)), AMobile!AllOvertaken(AMobile!Left(r, b)))
    BY <1>4, <2>1, SignsOut
  <2> QED
    BY <1>11, <2>2 DEF MobileInv
<1> QED
  BY <1>5, <1>6, <1>7, <1>9, <1>10, <1>11

\* The page and its store are emptied.
LEMMA ClearedOK ==
  ASSUME NEW m \in MobileStates, NEW n, n = AMobile!Cleared(m)
  PROVE  /\ n \in MobileStates /\ \A q \in AMobile!Questions : n.status[q] = "absent"
         /\ n.files = NoPrincipal /\ n.family = NoPrincipal /\ n.sheet # "cloud" /\ n.sheet \in {m.sheet, "none"}
         /\ n.sheet = m.sheet \/ m.sheet = "cloud"
         /\ n.draft \in {m.draft, "empty"} /\ n.draft # "text"
         /\ n.queue = << >> /\ n.busy = m.busy /\ n.asked = m.asked /\ n.owner \in [AMobile!Questions -> AMobile!Persons]
<1> DEFINE empty == << >>
           draft == IF m.draft = "listening" THEN m.draft ELSE "empty"
           sheet == IF m.sheet = "cloud" THEN "none" ELSE m.sheet
<1>1. m.draft \in {"empty", "listening", "text"} /\ m.sheet \in {"none", "login", "cloud"}
  BY DEF MobileStates
<1>2. /\ AMobile!NoQuestions \in [AMobile!Questions -> AMobile!TaskStates] /\ \A q \in AMobile!Questions : AMobile!NoQuestions[q] = "absent"
      /\ AMobile!NoOwners \in [AMobile!Questions -> AMobile!Persons] /\ NoPrincipal \in AMobile!Persons
  BY DEF AMobile!NoQuestions, AMobile!NoOwners, AMobile!TaskStates, AMobile!Persons
<1>3. empty \in Seq(AMobile!Questions) /\ empty = << >>
  OBVIOUS
<1>4. /\ draft \in {"empty", "listening", "text"} /\ draft \in {m.draft, "empty"} /\ draft # "text"
      /\ sheet \in {"none", "login", "cloud"} /\ sheet \in {m.sheet, "none"} /\ sheet # "cloud" /\ (sheet = m.sheet \/ m.sheet = "cloud")
  BY <1>1
<1>5. n = [m EXCEPT !.status = AMobile!NoQuestions, !.owner = AMobile!NoOwners, !.queue = empty, !.files = NoPrincipal,
                    !.family = NoPrincipal, !.draft = draft, !.sheet = sheet]
  BY DEF AMobile!Cleared, MobileStates
<1> HIDE DEF empty, draft, sheet
<1>6. /\ n \in MobileStates /\ n.status = AMobile!NoQuestions /\ n.owner = AMobile!NoOwners
      /\ n.files = NoPrincipal /\ n.family = NoPrincipal /\ n.sheet = sheet /\ n.draft = draft
      /\ n.queue = empty /\ n.busy = m.busy /\ n.asked = m.asked
  <2> DEFINE status == AMobile!NoQuestions
             owner == AMobile!NoOwners
  <2>1. /\ n = [m EXCEPT !.status = status, !.owner = owner, !.queue = empty, !.files = NoPrincipal,
                          !.family = NoPrincipal, !.draft = draft, !.sheet = sheet]
        /\ status \in [AMobile!Questions -> AMobile!TaskStates] /\ owner \in [AMobile!Questions -> AMobile!Persons]
    BY <1>2, <1>5
  <2> HIDE DEF status, owner
  <2>2. n \in MobileStates
    <3>1. m \in MobileStates
      OBVIOUS
    <3>2. /\ NoPrincipal \in AMobile!Persons /\ draft \in {"empty", "listening", "text"}
          /\ sheet \in {"none", "login", "cloud"} /\ empty \in Seq(AMobile!Questions)
      BY <1>2, <1>3, <1>4
    <3> QED
      BY ONLY <2>1, <3>1, <3>2 DEF MobileStates
  <2>3. /\ n.status = status /\ n.owner = owner /\ n.files = NoPrincipal /\ n.family = NoPrincipal
        /\ n.sheet = sheet /\ n.draft = draft /\ n.queue = empty /\ n.busy = m.busy /\ n.asked = m.asked
    BY <2>1 DEF MobileStates
  <2> QED
    BY <2>2, <2>3 DEF status, owner
<1> QED
  BY <1>2, <1>3, <1>4, <1>6

\* A person is signed in: of another one before nothing stays.
LEMMA Enters ==
  ASSUME MobileInv, NEW p \in Principals, NEW n, NEW ts, Faded(ts, b), Leaving(b) => Leaving(ts),
         \A t \in ts : t.kind # "login", \A t \in ts : t.kind = "restore" => ~t.live,
         a.previous \notin {NoPrincipal, p} => \A t \in ts : t.kind \in DataKinds => ~t.ours \/ ~t.live,
         \/ n = AMobile!Entered(a, p)
         \/ n = [AMobile!Entered(a, p) EXCEPT !.busy = FALSE, !.sheet = "none"] /\ \A t \in ts : t.kind \notin SignKinds
  PROVE  Good(n, ts)
<1> DEFINE x == AMobile!Admitted(a, p)
           e1 == [x EXCEPT !.previous = p, !.identity = p, !.session = p]
<1>1. a \in MobileStates /\ p \in AMobile!Persons /\ p # NoPrincipal
  BY ScreensAssumption DEF MobileInv, Good, AMobile!Persons
<1>2. /\ x \in MobileStates /\ x.busy = a.busy /\ (x.sheet = "cloud" => x.draft # "listening")
      /\ a.previous \in {NoPrincipal, p} => x = a
      /\ a.previous \notin {NoPrincipal, p} => /\ \A q \in AMobile!Questions : x.status[q] = "absent"
                                             /\ x.files = NoPrincipal /\ x.family = NoPrincipal
  <2>1. CASE a.previous \in {NoPrincipal, p}
    <3>1. x = a
      BY <2>1 DEF AMobile!Admitted
    <3> HIDE DEF x
    <3> QED
      BY <2>1, <3>1 DEF MobileInv, Good, Signed
  <2>2. CASE a.previous \notin {NoPrincipal, p}
    <3>1. x = AMobile!Cleared(a)
      BY <2>2 DEF AMobile!Admitted
    <3> HIDE DEF x
    <3>2. /\ x \in MobileStates /\ \A q \in AMobile!Questions : x.status[q] = "absent"
          /\ x.files = NoPrincipal /\ x.family = NoPrincipal /\ x.sheet # "cloud" /\ x.busy = a.busy
      BY <1>1, <3>1, ClearedOK
    <3> QED
      BY <2>2, <3>2
  <2> QED
    BY <2>1, <2>2
<1>3. AMobile!Entered(a, p) = e1
  BY DEF AMobile!Entered
<1> HIDE DEF x
<1>4. /\ e1 \in MobileStates /\ e1.previous = p /\ e1.identity = p /\ e1.session = p /\ e1.busy = x.busy /\ e1.sheet = x.sheet
      /\ e1.draft = x.draft /\ e1.status = x.status /\ e1.owner = x.owner /\ e1.files = x.files /\ e1.family = x.family
  BY <1>1, <1>2 DEF MobileStates
<1> HIDE DEF e1
<1>5. /\ n \in MobileStates /\ n.previous = p /\ n.identity = p /\ n.session = p
      /\ n.status = x.status /\ n.owner = x.owner /\ n.files = x.files /\ n.family = x.family
      /\ n.busy = x.busy \/ (\A t \in ts : t.kind \notin SignKinds)
      /\ n.sheet = "cloud" => n.draft # "listening"
  <2>1. CASE n = e1
    BY <1>2, <1>4, <2>1
  <2>2. CASE n = [e1 EXCEPT !.busy = FALSE, !.sheet = "none"] /\ \A t \in ts : t.kind \notin SignKinds
    <3> DEFINE off == FALSE
    <3>1. off \in BOOLEAN /\ n = [e1 EXCEPT !.busy = off, !.sheet = "none"]
      BY <2>2
    <3> HIDE DEF off
    <3> QED
      BY <1>4, <2>2, <3>1, ZenonT(60) DEF MobileStates
  <2> QED
    BY <1>3, <2>1, <2>2
<1>6. ts \subseteq AMobile!RequestRecords /\ Sole(ts)
  BY DEF Faded, MobileInv, Good, Single, Sole
<1>7. Single(n, ts)
  <2>1. \A t \in ts : t.kind = "chat" => t.question # 0
    BY DEF Faded, MobileInv, Good, Single
  <2>2. ASSUME NEW t \in ts, t.kind \in SignKinds PROVE n.busy
    <3>1. PICK r1 \in b : t.kind = r1.kind
      BY <2>2 DEF Faded
    <3> QED
      BY <1>2, <1>5, <2>2, <3>1 DEF MobileInv, Good, Single
  <2> QED
    BY <1>6, <2>1, <2>2 DEF Sole, Single
<1>8. SigningIn(n, ts) /\ Signed(n)
  BY <1>1, <1>5 DEF SigningIn, Signed
<1>9. ASSUME \A t \in ts : t.kind # "logout" PROVE OfOne(n, ts)
  <2>1. OfOne(a, b)
    BY <1>9 DEF Leaving, MobileInv, Good
  <2>2. \A q \in AMobile!Questions : n.status[q] # "absent" => n.owner[q] = n.previous /\ n.previous # NoPrincipal
    BY <1>1, <1>2, <1>5, <2>1 DEF OfOne
  <2>3. n.files \in {NoPrincipal, n.previous} /\ n.family \in {NoPrincipal, n.previous}
    BY <1>1, <1>2, <1>5, <2>1 DEF OfOne
  <2>4. ASSUME NEW t \in ts, t.kind \in DataKinds, t.ours, t.live PROVE t.who = n.identity
    <3>1. a.previous \in {NoPrincipal, p}
      BY <2>4
    <3>2. PICK r1 \in b : t.kind = r1.kind /\ t.who = r1.who /\ r1.ours /\ r1.live
      BY <2>4 DEF Faded
    <3> QED
      BY <1>5, <2>1, <2>4, <3>1, <3>2 DEF OfOne
  <2> QED
    BY <1>1, <1>5, <2>2, <2>3, <2>4 DEF OfOne
<1> QED
  BY <1>5, <1>6, <1>7, <1>8, <1>9 DEF Good

LEMMA AcceptedOK ==
  ASSUME MobileInv, NEW r \in b, r.kind # "logout", NEW p
  PROVE  /\ Faded(AMobile!Accepted(p, b \ {r}), b) /\ (Leaving(b) => Leaving(AMobile!Accepted(p, b \ {r})))
         /\ AMobile!Accepted(p, b \ {r}) \in SUBSET AMobile!RequestRecords
         /\ \A t \in AMobile!Accepted(p, b \ {r}) : t.live => t \in b \ {r}
         /\ \A t \in AMobile!Accepted(p, b \ {r}) : \E u \in b \ {r} : t.kind = u.kind
<1> DEFINE ts == AMobile!Accepted(p, b \ {r})
<1>1. b \in SUBSET AMobile!RequestRecords /\ b \ {r} \in SUBSET AMobile!RequestRecords
  BY DEF MobileInv, Good
<1>2. Faded(b \ {r}, b) /\ (Leaving(b) => Leaving(b \ {r}))
  BY <1>1, FadedLeft
<1>3. /\ Faded(AMobile!Cut(b \ {r}), b \ {r}) /\ (Leaving(b \ {r}) => Leaving(AMobile!Cut(b \ {r})))
      /\ \A t \in AMobile!Cut(b \ {r}) : ~t.live
  BY <1>1, FadedCut
<1>4. Faded(AMobile!Cut(b \ {r}), b)
  BY <1>2, <1>3, FadedTwice
<1>5. ts \in {AMobile!Cut(b \ {r}), b \ {r}}
  BY DEF AMobile!Accepted
<1> HIDE DEF ts
<1>6. Faded(ts, b \ {r})
  BY <1>1, <1>3, <1>5, FadedPart
<1> QED
  BY <1>1, <1>2, <1>3, <1>4, <1>5, <1>6 DEF Faded, ts

LEMMA Restored == ASSUME MobileInv, NEW r \in b, AMobile!RestoreEnds(r) PROVE MobileInv'
<1>1. r.kind = "restore" /\ r.kind # "logout" /\ Good(a, b) /\ b \in SUBSET AMobile!RequestRecords
  BY DEF MobileInv, Good, AMobile!RestoreEnds
<1>2. ASSUME NEW p \in Principals, r.live, r.ours, a' = AMobile!Entered(a, p),
             b' = IF a.previous \in {NoPrincipal, p} THEN AMobile!Accepted(p, b \ {r}) ELSE AMobile!AllOvertaken(AMobile!Accepted(p, b \ {r}))
      PROVE  MobileInv'
  <2> DEFINE rest == AMobile!Accepted(p, b \ {r})
  <2>1. /\ Faded(rest, b) /\ (Leaving(b) => Leaving(rest)) /\ rest \in SUBSET AMobile!RequestRecords
        /\ \A t \in rest : t.live => t \in b \ {r}
        /\ \A t \in rest : \E u \in b \ {r} : t.kind = u.kind
    BY <1>1, AcceptedOK
  <2>2. b' = rest \/ (a.previous \notin {NoPrincipal, p} /\ b' = AMobile!OutOfDate(AMobile!RequestKinds, rest))
    BY <1>2 DEF AMobile!AllOvertaken
  <2>3. a.previous \notin {NoPrincipal, p} => b' = AMobile!OutOfDate(AMobile!RequestKinds, rest)
    BY <1>2 DEF AMobile!AllOvertaken
  <2> HIDE DEF rest
  <2>4. /\ Faded(AMobile!OutOfDate(AMobile!RequestKinds, rest), rest)
        /\ \A t \in AMobile!OutOfDate(AMobile!RequestKinds, rest) : t.kind \in AMobile!RequestKinds => ~t.ours
        /\ Leaving(rest) => Leaving(AMobile!OutOfDate(AMobile!RequestKinds, rest))
    BY <2>1, FadedBy
  <2>5. Faded(b', b) /\ (Leaving(b) => Leaving(b'))
    BY <2>1, <2>2, <2>4, FadedTwice
  <2>6. Faded(b', rest)
    BY <2>1, <2>2, <2>4, FadedPart
  <2>7. \A u \in b \ {r} : u.kind # "login" /\ u.kind # "restore"
    BY <1>1, <1>2 DEF MobileInv, Good, SigningIn, Single
  <2>8. \A t \in b' : t.kind # "login" /\ t.kind # "restore"
    BY <2>1, <2>6, <2>7 DEF Faded
  <2>9. a.previous \notin {NoPrincipal, p} => \A t \in b' : t.kind \in DataKinds => ~t.ours
    BY <2>3, <2>4 DEF DataKinds, AMobile!RequestKinds
  <2>10. Good(AMobile!Entered(a, p), b')
    BY <2>5, <2>8, <2>9, Enters
  <2> QED
    BY <1>2, <2>10 DEF MobileInv
<1>3. ASSUME NEW p \in Principals, r.live, ~r.ours, a' = [a EXCEPT !.session = p], b' = AMobile!Accepted(p, b \ {r})
      PROVE  MobileInv'
  <2>1. /\ Faded(b', b) /\ (Leaving(b) => Leaving(b')) /\ b' \in SUBSET AMobile!RequestRecords
        /\ \A t \in b' : t.live => t \in b \ {r}
    BY <1>1, <1>3, AcceptedOK
  <2>2. a \in MobileStates /\ p \in AMobile!Persons
    BY DEF MobileInv, Good, AMobile!Persons
  <2>3. /\ a' \in MobileStates /\ a'.previous = a.previous /\ a'.owner = a.owner /\ a'.identity = a.identity
        /\ a'.status = a.status /\ a'.busy = a.busy /\ a'.sheet = a.sheet /\ a'.queue = a.queue /\ a'.draft = a.draft
        /\ a'.files = a.files /\ a'.family = a.family
    BY <1>3, <2>2 DEF MobileStates
  <2>4. Good(a, b')
    <3>1. /\ Faded(b \ {r}, b)
      BY <1>1, FadedLeft
    <3>2. (\E t \in b' : t.kind \in SignKinds) => a.busy
      <4> SUFFICES ASSUME NEW t \in b', t.kind \in SignKinds PROVE a.busy
        OBVIOUS
      <4>1. PICK r1 \in b : t.kind = r1.kind
        BY <2>1 DEF Faded
      <4> QED
        BY <4>1 DEF MobileInv, Good, Single
    <3>3. (\E t \in b' : t.kind = "login") => a.sheet = "login" /\ a.queue = << >>
      <4> SUFFICES ASSUME NEW t \in b', t.kind = "login" PROVE a.sheet = "login" /\ a.queue = << >>
        OBVIOUS
      <4>1. PICK r1 \in b : t.kind = r1.kind
        BY <2>1 DEF Faded
      <4> QED
        BY <4>1 DEF MobileInv, Good, SigningIn
    <3>4. a.sheet = "cloud" => a.draft # "listening" /\ (a.draft = "text" => a.identity # NoPrincipal)
      BY DEF MobileInv, Good, Signed
    <3> QED
      BY <1>1, <2>1, <2>2, <3>2, <3>3, <3>4, MobileFades
  <2>5. Single(a', b') /\ SigningIn(a', b') /\ Signed(a')
    BY <2>3, <2>4 DEF Good, Single, SigningIn, Signed
  <2>6. ASSUME \A t \in b' : t.kind # "logout" PROVE OfOne(a', b')
    <3>1. OfOne(a, b') /\ OfOne(a, b)
      BY <2>1, <2>4, <2>6 DEF Good, MobileInv, Leaving
    <3>2. a.identity = NoPrincipal
      BY <1>1, <1>3, <3>1 DEF OfOne
    <3> QED
      BY <2>3, <3>1, <3>2 DEF OfOne
  <2> QED
    BY <2>1, <2>3, <2>5, <2>6 DEF MobileInv, Good
<1>4. CASE a' = AMobile!Expired(a, r) /\ b' = AMobile!Left(r, b)
  <2>1. Good(AMobile!Expired(a, r), AMobile!Left(r, b))
    BY <1>1, MobileLess
  <2> QED
    BY <1>4, <2>1 DEF MobileInv
<1>5. CASE a' = a /\ b' = b \ {r}
  <2>1. Good(a, b \ {r})
    BY <1>1, MobileLess
  <2> QED
    BY <1>5, <2>1 DEF MobileInv
<1> QED
  BY <1>2, <1>3, <1>4, <1>5 DEF AMobile!RestoreEnds

\* Signing in and out: no other sign-in or sign-out is under way.
LEMMA LoggedIn == ASSUME MobileInv, AMobile!Login PROVE MobileInv'
<1> DEFINE r0 == AMobile!Request("login", a, 0)
           over == AMobile!AllOvertaken(b)
           ts == AMobile!Cut(over)
<1>1. a \in MobileStates /\ b \in SUBSET AMobile!RequestRecords /\ ~a.busy /\ a.sheet = "login" /\ NoPrincipal \in AMobile!Persons
  BY DEF MobileInv, Good, AMobile!Login, AMobile!Persons
<1>2. r0 \in AMobile!RequestRecords /\ r0.kind = "login"
  <2>1. "login" \in AMobile!RequestKinds /\ 0 \in 0..MaxQuestions
    BY Bounds DEF AMobile!RequestKinds
  <2> QED
    BY <1>1, <2>1, RequestOK
<1>3. Faded(over, b) /\ \A t \in over : ~t.ours
  <2>1. /\ Faded(over, b) /\ \A t \in over : t.kind \in AMobile!RequestKinds => ~t.ours
    BY <1>1, FadedBy DEF AMobile!AllOvertaken
  <2> QED
    BY <2>1 DEF Faded, AMobile!RequestRecords
<1>4. over \in SUBSET AMobile!RequestRecords
  BY <1>3 DEF Faded
<1> HIDE DEF over
<1>5. Faded(ts, over) /\ \A t \in ts : ~t.live
  BY <1>4, FadedCut
<1>6. Faded(ts, b)
  BY <1>3, <1>5, FadedTwice
<1>7. \A t \in ts : ~t.live /\ ~t.ours
  BY <1>3, <1>5 DEF Faded
<1>8. \A t \in ts : t.kind \notin SignKinds
  BY <1>1, <1>6 DEF Faded, MobileInv, Good, Single
<1>9. b' = ts \cup {r0}
  BY DEF AMobile!Login, over
<1> DEFINE empty == << >>
           on == TRUE
<1>10. a' = [a EXCEPT !.busy = on, !.queue = empty, !.session = NoPrincipal] /\ empty \in Seq(AMobile!Questions) /\ empty = << >>
       /\ on \in BOOLEAN /\ on
  BY DEF AMobile!Login
<1> HIDE DEF empty, on, r0, ts
<1>11. /\ a' \in MobileStates /\ a'.previous = a.previous /\ a'.owner = a.owner /\ a'.session = NoPrincipal /\ a'.identity = a.identity
       /\ a'.status = a.status /\ a'.files = a.files /\ a'.family = a.family /\ a'.busy = on /\ a'.sheet = a.sheet
       /\ a'.queue = empty /\ a'.draft = a.draft
  BY <1>1, <1>10 DEF MobileStates
<1>12. b' \subseteq AMobile!RequestRecords
  BY <1>2, <1>6, <1>9 DEF Faded
<1>13. Single(a', b')
  <2>1. Sole(ts) /\ \A t \in ts : t.kind = "chat" => t.question # 0
    BY <1>6 DEF Faded, Sole, MobileInv, Good, Single
  <2> QED
    BY <1>2, <1>8, <1>9, <1>10, <1>11, <2>1 DEF Single, Sole, SignKinds
<1>14. SigningIn(a', b')
  BY <1>1, <1>2, <1>7, <1>9, <1>10, <1>11 DEF SigningIn
<1>15. Signed(a')
  BY <1>1, <1>11 DEF MobileInv, Good, Signed
<1>16. ASSUME \A r \in b' : r.kind # "logout" PROVE OfOne(a', b')
  <2>1. OfOne(a, b)
    BY <1>1 DEF MobileInv, Good, Single, SignKinds
  <2>2. \A r \in b' : r.kind \in DataKinds \cup {"restore"} => ~r.live
    BY <1>2, <1>7, <1>9 DEF DataKinds
  <2> QED
    BY <1>11, <2>1, <2>2 DEF OfOne
<1> QED
  BY <1>11, <1>12, <1>13, <1>14, <1>15, <1>16 DEF MobileInv, Good

LEMMA LoginAnswered == ASSUME MobileInv, NEW r \in b, AMobile!LoginEnds(r) PROVE MobileInv'
<1>1. r.kind = "login" /\ r.kind # "logout" /\ Good(a, b) /\ b \in SUBSET AMobile!RequestRecords /\ a \in MobileStates
  BY DEF MobileInv, Good, AMobile!LoginEnds
<1>2. \A t \in b \ {r} : t.kind \notin SignKinds /\ ~t.live /\ ~t.ours
  BY <1>1 DEF Good, Single, SigningIn, SignKinds
<1>3. ASSUME NEW p \in Principals, a' = [AMobile!Entered(a, p) EXCEPT !.busy = FALSE, !.sheet = "none"],
             b' \in {AMobile!Accepted(p, b \ {r}), AMobile!OutOfDate({"chat", "restore", "read"}, AMobile!Accepted(p, b \ {r}))}
      PROVE  MobileInv'
  <2> DEFINE rest == AMobile!Accepted(p, b \ {r})
  <2>1. /\ Faded(rest, b) /\ (Leaving(b) => Leaving(rest)) /\ rest \in SUBSET AMobile!RequestRecords
        /\ \A t \in rest : t.live => t \in b \ {r}
        /\ \A t \in rest : \E u \in b \ {r} : t.kind = u.kind
    BY <1>1, AcceptedOK
  <2>2. b' \in {rest, AMobile!OutOfDate({"chat", "restore", "read"}, rest)}
    BY <1>3
  <2> HIDE DEF rest
  <2>3. /\ Faded(AMobile!OutOfDate({"chat", "restore", "read"}, rest), rest)
        /\ Leaving(rest) => Leaving(AMobile!OutOfDate({"chat", "restore", "read"}, rest))
    BY <2>1, FadedBy
  <2>4. Faded(b', rest) /\ Faded(b', b) /\ (Leaving(b) => Leaving(b'))
    BY <2>1, <2>2, <2>3, FadedPart, FadedTwice
  <2>5. \A t \in rest : t.kind \notin SignKinds /\ ~t.live
    BY <1>2, <2>1
  <2>6. \A t \in b' : t.kind \notin SignKinds /\ ~t.live
    BY <2>4, <2>5 DEF Faded
  <2>7. \A t \in b' : t.kind # "login"
    BY <2>6 DEF SignKinds
  <2>8. Good(a', b')
    BY <1>3, <2>4, <2>6, <2>7, Enters
  <2> QED
    BY <2>8 DEF MobileInv
<1>4. ASSUME NEW x, NEW ts, Good(x, ts), \A t \in ts : t.kind \notin SignKinds, a' = [x EXCEPT !.busy = FALSE], b' = ts
      PROVE  MobileInv'
  <2> DEFINE off == FALSE
  <2>1. x \in MobileStates /\ off \in BOOLEAN /\ a' = [x EXCEPT !.busy = off]
    BY <1>4 DEF Good
  <2> HIDE DEF off
  <2>2. /\ a' \in MobileStates /\ a'.previous = x.previous /\ a'.owner = x.owner /\ a'.session = x.session /\ a'.identity = x.identity
        /\ a'.status = x.status /\ a'.files = x.files /\ a'.family = x.family /\ a'.sheet = x.sheet
        /\ a'.queue = x.queue /\ a'.draft = x.draft
    BY <2>1 DEF MobileStates
  <2>3. Good(a', ts)
    BY <1>4, <2>2 DEF Good, Single, SigningIn, Signed, OfOne
  <2> QED
    BY <1>4, <2>3 DEF MobileInv
<1>5. Good(a, b \ {r}) /\ Good(AMobile!Expired(a, r), AMobile!Left(r, b))
  BY <1>1, MobileLess
<1>6. \A t \in AMobile!Left(r, b) : t.kind \notin SignKinds
  <2>1. Faded(AMobile!Cut(b \ {r}), b \ {r}) /\ Faded(b \ {r}, b \ {r})
    BY <1>1, FadedCut, FadedPart
  <2>2. Faded(AMobile!Left(r, b), b \ {r})
    BY <2>1 DEF AMobile!Left
  <2> QED
    BY <1>2, <2>2 DEF Faded
<1>7. CASE a' = [AMobile!Expired(a, r) EXCEPT !.busy = FALSE] /\ b' = AMobile!Left(r, b)
  BY <1>4, <1>5, <1>6, <1>7
<1>8. CASE a' = [a EXCEPT !.busy = FALSE] /\ b' = b \ {r}
  BY <1>2, <1>4, <1>5, <1>8
<1> QED
  BY <1>3, <1>7, <1>8 DEF AMobile!LoginEnds

LEMMA LoggedOut == ASSUME MobileInv, AMobile!Logout PROVE MobileInv'
<1> DEFINE r0 == AMobile!Request("logout", a, 0)
           ts == AMobile!AllOvertaken(b)
           empty == << >>
           on == TRUE
           draft == AMobile!Hushed(a.draft)
<1>1. a \in MobileStates /\ b \in SUBSET AMobile!RequestRecords /\ ~a.busy /\ a.sheet = "none"
  BY DEF MobileInv, Good, AMobile!Logout, AMobile!AtPage
<1>2. r0 \in AMobile!RequestRecords /\ r0.kind = "logout"
  <2>1. "logout" \in AMobile!RequestKinds /\ 0 \in 0..MaxQuestions
    BY Bounds DEF AMobile!RequestKinds
  <2> QED
    BY <1>1, <2>1, RequestOK
<1>3. Faded(ts, b)
  BY <1>1, FadedBy DEF AMobile!AllOvertaken
<1>4. \A t \in ts : t.kind \notin SignKinds
  BY <1>1, <1>3 DEF Faded, MobileInv, Good, Single
<1>5. b' = ts \cup {r0}
  BY DEF AMobile!Logout
<1>6. /\ a' = [a EXCEPT !.busy = on, !.queue = empty, !.draft = draft] /\ empty \in Seq(AMobile!Questions)
      /\ on \in BOOLEAN /\ on
  BY <1>1 DEF AMobile!Logout, MobileStates
<1>7. draft \in {"empty", "listening", "text"}
  BY <1>1 DEF AMobile!Hushed, MobileStates
<1> HIDE DEF empty, on, r0, ts, draft
<1>8. /\ a' \in MobileStates /\ a'.identity = a.identity /\ a'.status = a.status /\ a'.busy = on /\ a'.sheet = "none"
  BY <1>1, <1>6, <1>7 DEF MobileStates
<1>9. b' \subseteq AMobile!RequestRecords
  BY <1>2, <1>3, <1>5 DEF Faded
<1>10. Single(a', b')
  <2>1. Sole(ts) /\ \A t \in ts : t.kind = "chat" => t.question # 0
    BY <1>3 DEF Faded, Sole, MobileInv, Good, Single
  <2> QED
    BY <1>2, <1>4, <1>5, <1>6, <1>8, <2>1 DEF Single, Sole, SignKinds
<1>11. SigningIn(a', b')
  BY <1>2, <1>4, <1>5 DEF SigningIn, SignKinds
<1>12. Signed(a')
  BY <1>8 DEF MobileInv, Good, Signed
<1>13. \E r \in b' : r.kind = "logout"
  BY <1>2, <1>5
<1> QED
  BY <1>8, <1>9, <1>10, <1>11, <1>12, <1>13 DEF MobileInv, Good

LEMMA LogoutAnswered == ASSUME MobileInv, NEW r \in b, AMobile!LogoutEnds(r) PROVE MobileInv'
<1> DEFINE x == AMobile!Cleared(a)
           off == FALSE
<1>1. r.kind = "logout" /\ a \in MobileStates /\ b \in SUBSET AMobile!RequestRecords
      /\ a.queue \in Seq(AMobile!Questions) /\ a.sheet \in {"none", "login", "cloud"} /\ NoPrincipal \in AMobile!Persons
  BY DEF MobileInv, Good, MobileStates, AMobile!LogoutEnds, AMobile!Persons
<1>2. \A t \in b \ {r} : t.kind \notin SignKinds
  BY <1>1 DEF MobileInv, Good, Single, SignKinds
<1>3. /\ x \in MobileStates /\ \A q \in AMobile!Questions : x.status[q] = "absent"
      /\ x.files = NoPrincipal /\ x.family = NoPrincipal /\ x.draft \in {a.draft, "empty"} /\ x.draft # "text"
  BY <1>1, ClearedOK
<1>4. a' = [x EXCEPT !.busy = off, !.identity = NoPrincipal, !.previous = NoPrincipal,
                     !.session = NoPrincipal, !.queue = a.queue, !.sheet = a.sheet] /\ off \in BOOLEAN
  BY DEF AMobile!LogoutEnds
<1> HIDE DEF x, off
<1>5. /\ a' \in MobileStates /\ a'.identity = NoPrincipal /\ a'.previous = NoPrincipal /\ a'.sheet = a.sheet
      /\ a'.status = x.status /\ a'.files = x.files /\ a'.family = x.family /\ a'.draft = x.draft
  BY <1>1, <1>3, <1>4 DEF MobileStates
<1>6. b' = AMobile!Cut(b \ {r})
  BY DEF AMobile!LogoutEnds
<1>7. Faded(b', b \ {r}) /\ \A t \in b' : ~t.live
  BY <1>1, <1>6, FadedCut
<1>8. Faded(b \ {r}, b)
  BY <1>1, FadedPart
<1>9. \A t \in b' : t.kind \notin SignKinds
  BY <1>2, <1>7 DEF Faded
<1>10. Single(a', b')
  <2>1. Faded(b', b)
    BY <1>7, <1>8, FadedTwice
  <2>2. Sole(b') /\ \A t \in b' : t.kind = "chat" => t.question # 0
    BY <2>1 DEF Faded, Sole, MobileInv, Good, Single
  <2> QED
    BY <1>9, <2>2 DEF Single, Sole
<1>11. SigningIn(a', b')
  BY <1>9 DEF SigningIn, SignKinds
<1>12. Signed(a')
  <2>1. a.sheet = "cloud" => a.draft # "listening"
    BY DEF MobileInv, Good, Signed
  <2> QED
    BY <1>3, <1>5, <2>1 DEF Signed
<1>13. OfOne(a', b')
  BY <1>3, <1>5, <1>7 DEF OfOne
<1>14. b' \subseteq AMobile!RequestRecords
  BY <1>7 DEF Faded
<1> QED
  BY <1>5, <1>10, <1>11, <1>12, <1>13, <1>14 DEF MobileInv, Good

\* The requests stay; what is kept stays or goes.
LEMMA MobileSmall ==
  ASSUME MobileInv, a' \in MobileStates, b' = b, a'.previous = a.previous, a'.owner = a.owner, a'.session = a.session,
         a'.identity = a.identity, a'.busy = a.busy, a'.queue = a.queue,
         \A q \in AMobile!Questions : a'.status[q] = a.status[q] \/ (a.status[q] = "queued" /\ a'.status[q] = "ended"),
         a'.files \in {a.files, NoPrincipal}, a'.family \in {a.family, NoPrincipal},
         a.sheet = "login" /\ a.busy => a'.sheet = "login",
         a'.sheet = "cloud" => a'.draft # "listening" /\ (a'.draft = "text" => a'.identity # NoPrincipal)
  PROVE  MobileInv'
<1>1. Good(a, b) /\ b \in SUBSET AMobile!RequestRecords
  BY DEF MobileInv, Good
<1>2. Faded(b, b)
  BY <1>1, FadedPart
<1>3. (\E t \in b : t.kind \in SignKinds) => a'.busy
  BY <1>1 DEF Good, Single
<1>4. (\E t \in b : t.kind = "login") => a'.sheet = "login" /\ a'.queue = << >>
  <2> SUFFICES ASSUME NEW t \in b, t.kind = "login" PROVE a'.sheet = "login" /\ a'.queue = << >>
    OBVIOUS
  <2>1. a.sheet = "login" /\ a.queue = << >> /\ a.busy
    BY <1>1 DEF Good, SigningIn, Single, SignKinds
  <2> QED
    BY <2>1
<1>5. /\ \A q \in AMobile!Questions : (a'.status[q] # "absent" => a.status[q] # "absent")
      /\ \A q \in AMobile!Questions : a'.status[q] = "queued" => a.status[q] = "queued" /\ a'.identity = a.identity
  OBVIOUS
<1>6. Good(a', b)
  BY <1>1, <1>2, <1>3, <1>4, <1>5, MobileFades
<1> QED
  BY <1>6 DEF MobileInv

LEMMA SheetsAndDrafts ==
  ASSUME MobileInv, \/ AMobile!OpenLogin \/ AMobile!CloseLogin \/ AMobile!TypeQuestion \/ AMobile!StartVoice
                    \/ AMobile!VoiceEnds \/ AMobile!AskCloud \/ AMobile!RefuseCloud
  PROVE  MobileInv'
<1>1. a \in MobileStates /\ b \in SUBSET AMobile!RequestRecords /\ Signed(a)
  BY DEF MobileInv, Good
<1>2. ASSUME NEW sheet \in {"none", "login", "cloud"}, NEW draft \in {"empty", "listening", "text"},
             a' = [a EXCEPT !.sheet = sheet, !.draft = draft], b' = b,
             a.sheet = "login" /\ a.busy => sheet = "login",
             sheet = "cloud" => draft # "listening" /\ (draft = "text" => a.identity # NoPrincipal)
      PROVE  MobileInv'
  <2>1. /\ a' \in MobileStates /\ a'.previous = a.previous /\ a'.owner = a.owner /\ a'.session = a.session
        /\ a'.identity = a.identity /\ a'.busy = a.busy /\ a'.queue = a.queue /\ a'.status = a.status
        /\ a'.files = a.files /\ a'.family = a.family /\ a'.sheet = sheet /\ a'.draft = draft
    BY <1>1, <1>2 DEF MobileStates
  <2> QED
    BY <1>2, <2>1, MobileSmall
<1>3. a.sheet \in {"none", "login", "cloud"} /\ a.draft \in {"empty", "listening", "text"}
      /\ a = [a EXCEPT !.sheet = a.sheet, !.draft = a.draft]
  BY <1>1 DEF MobileStates
<1>4. \A s \in {"none", "login", "cloud"} : [a EXCEPT !.sheet = s] = [a EXCEPT !.sheet = s, !.draft = a.draft]
  BY <1>1 DEF MobileStates
<1>5. \A t \in {"empty", "listening", "text"} : [a EXCEPT !.draft = t] = [a EXCEPT !.sheet = a.sheet, !.draft = t]
  BY <1>1 DEF MobileStates
<1>6. CASE AMobile!OpenLogin
  <2>1. a' = [a EXCEPT !.sheet = "login", !.draft = a.draft] /\ b' = b
    BY <1>4, <1>6 DEF AMobile!OpenLogin
  <2> QED
    BY <1>2, <1>3, <2>1
<1>7. CASE AMobile!CloseLogin
  <2>1. a' = [a EXCEPT !.sheet = "none", !.draft = a.draft] /\ b' = b /\ ~a.busy
    BY <1>4, <1>7 DEF AMobile!CloseLogin
  <2> QED
    BY <1>2, <1>3, <2>1
<1>8. CASE AMobile!TypeQuestion
  <2>1. a' = [a EXCEPT !.sheet = a.sheet, !.draft = "text"] /\ b' = b /\ a.sheet = "none"
    BY <1>5, <1>8 DEF AMobile!TypeQuestion, AMobile!AtPage
  <2> QED
    BY <1>2, <1>3, <2>1
<1>9. CASE AMobile!StartVoice
  <2>1. a' = [a EXCEPT !.sheet = a.sheet, !.draft = "listening"] /\ b' = b /\ a.sheet = "none"
    BY <1>5, <1>9 DEF AMobile!StartVoice, AMobile!AtPage
  <2> QED
    BY <1>2, <1>3, <2>1
<1>10. CASE AMobile!VoiceEnds
  <2>1. PICK heard \in {"empty", "text"} : a' = [a EXCEPT !.draft = heard] /\ b' = b
    BY <1>10 DEF AMobile!VoiceEnds
  <2>2. a' = [a EXCEPT !.sheet = a.sheet, !.draft = heard]
    BY <1>5, <2>1
  <2>3. a.sheet # "cloud"
    BY <1>1, <1>10 DEF Signed, AMobile!VoiceEnds
  <2> QED
    BY <1>2, <1>3, <2>1, <2>2, <2>3
<1>11. CASE AMobile!AskCloud
  <2>1. a' = [a EXCEPT !.sheet = "cloud", !.draft = a.draft] /\ b' = b /\ a.sheet = "none" /\ a.draft = "text"
        /\ a.identity # NoPrincipal
    BY <1>4, <1>11 DEF AMobile!AskCloud, AMobile!AtPage
  <2> QED
    BY <1>2, <1>3, <2>1
<1>12. CASE AMobile!RefuseCloud
  <2>1. a' = [a EXCEPT !.sheet = "none", !.draft = a.draft] /\ b' = b /\ a.sheet = "cloud"
    BY <1>4, <1>12 DEF AMobile!RefuseCloud
  <2> QED
    BY <1>2, <1>3, <2>1
<1> QED
  BY <1>6, <1>7, <1>8, <1>9, <1>10, <1>11, <1>12

LEMMA Cancelled == ASSUME MobileInv, NEW q \in AMobile!Questions, AMobile!CancelQuestion(q) PROVE MobileInv'
<1> DEFINE st == [a.status EXCEPT ![q] = "ended"]
<1>1. a \in MobileStates /\ a.status \in [AMobile!Questions -> AMobile!TaskStates] /\ "ended" \in AMobile!TaskStates
  BY DEF MobileInv, Good, MobileStates, AMobile!TaskStates
<1>2. st \in [AMobile!Questions -> AMobile!TaskStates]
      /\ \A x \in AMobile!Questions : st[x] = a.status[x] \/ (a.status[x] = "queued" /\ st[x] = "ended")
  BY <1>1 DEF AMobile!CancelQuestion
<1>3. a' = [a EXCEPT !.status = st] /\ b' = b /\ a.sheet = "none"
  BY <1>1 DEF AMobile!CancelQuestion, AMobile!AtPage, MobileStates
<1> HIDE DEF st
<1>4. /\ a' \in MobileStates /\ a'.previous = a.previous /\ a'.owner = a.owner /\ a'.session = a.session
      /\ a'.identity = a.identity /\ a'.busy = a.busy /\ a'.queue = a.queue /\ a'.status = st
      /\ a'.files = a.files /\ a'.family = a.family /\ a'.sheet = a.sheet /\ a'.draft = a.draft
  BY <1>1, <1>2, <1>3 DEF MobileStates
<1> QED
  BY <1>2, <1>3, <1>4, MobileSmall

LEMMA Checks == ASSUME MobileInv, AMobile!Restore PROVE MobileInv'
<1> DEFINE r0 == AMobile!Request("restore", a, 0)
<1>1. a \in MobileStates /\ "restore" \in AMobile!RequestKinds /\ 0 \in 0..MaxQuestions
  BY Bounds DEF MobileInv, Good, AMobile!RequestKinds
<1>2. r0 \in AMobile!RequestRecords /\ r0.kind = "restore" /\ r0.ours
  BY <1>1, RequestOK
<1>3. a' = a /\ b' = b \cup {r0} /\ \A r \in b : r.kind # "restore"
  BY DEF AMobile!Restore
<1>4. \A r \in b : r.kind # "login"
  BY DEF AMobile!Restore, MobileInv, Good, Single, SignKinds
<1> HIDE DEF r0
<1>5. r0.kind \notin SignKinds /\ r0.kind \notin DataKinds
  BY <1>2 DEF SignKinds, DataKinds
<1>6. Good(a, b \cup {r0})
  BY <1>2, <1>3, <1>4, <1>5, MobileAsks DEF MobileInv
<1> QED
  BY <1>3, <1>6 DEF MobileInv

LEMMA Loads == ASSUME MobileInv, NEW kind \in {"list", "read", "family"}, AMobile!Load(kind) PROVE MobileInv'
<1> DEFINE r0 == AMobile!Request(kind, a, 0)
           over == CASE kind = "list" -> {"list", "read"} [] kind = "family" -> {"family"} [] OTHER -> {}
           ts == AMobile!OutOfDate(over, b)
<1>1. a \in MobileStates /\ kind \in AMobile!RequestKinds /\ 0 \in 0..MaxQuestions /\ b \in SUBSET AMobile!RequestRecords
      /\ kind \in DataKinds /\ kind \notin SignKinds
  BY Bounds DEF MobileInv, Good, AMobile!RequestKinds, DataKinds, SignKinds
<1>2. /\ r0 \in AMobile!RequestRecords /\ r0.kind = kind /\ r0.ours
      /\ (kind \in DataKinds /\ r0.live => r0.who = a.session /\ a.session # NoPrincipal)
  BY <1>1, RequestOK
<1>3. a' = a /\ b' = ts \cup {r0} /\ a.sheet = "none" /\ a.identity # NoPrincipal
  BY DEF AMobile!Load, AMobile!AtPage
<1>4. "restore" \notin over
  OBVIOUS
<1> HIDE DEF r0, over
<1>5. /\ Faded(ts, b) /\ (Leaving(b) => Leaving(ts))
      /\ \A t \in ts : t.kind \notin over => t \in b
  BY <1>1, FadedBy
<1> HIDE DEF ts
<1>6. Good(a, ts)
  <2>1. (\E t \in ts : t.kind \in SignKinds) => a.busy
    <3> SUFFICES ASSUME NEW t \in ts, t.kind \in SignKinds PROVE a.busy
      OBVIOUS
    <3>1. PICK r1 \in b : t.kind = r1.kind
      BY <1>5 DEF Faded
    <3> QED
      BY <3>1 DEF MobileInv, Good, Single
  <2>2. (\E t \in ts : t.kind = "login") => a.sheet = "login" /\ a.queue = << >>
    <3> SUFFICES ASSUME NEW t \in ts, t.kind = "login" PROVE a.sheet = "login" /\ a.queue = << >>
      OBVIOUS
    <3>1. PICK r1 \in b : t.kind = r1.kind
      BY <1>5 DEF Faded
    <3> QED
      BY <3>1 DEF MobileInv, Good, SigningIn
  <2>3. \A t \in ts : t.kind = "restore" /\ t.live => t \in b
    BY <1>4, <1>5
  <2>4. a.sheet # "cloud" /\ Good(a, b)
    BY <1>3 DEF MobileInv
  <2> QED
    BY <1>1, <1>5, <2>1, <2>2, <2>3, <2>4, MobileFades
<1>7. \A t \in ts : t.kind # "login"
  BY <1>3, <1>6 DEF Good, SigningIn
<1>8. r0.kind # "restore" /\ r0.kind # "chat" /\ r0.kind \notin SignKinds
  BY <1>1, <1>2
<1>9. r0.kind \in DataKinds /\ r0.live => r0.who = a.session /\ a.session # NoPrincipal
  BY <1>1, <1>2
<1>10. Good(a, ts \cup {r0})
  BY <1>2, <1>3, <1>6, <1>7, <1>8, <1>9, MobileAsks
<1> QED
  BY <1>3, <1>10 DEF MobileInv

LEMMA RootChanged == ASSUME MobileInv, AMobile!ChangeRoot PROVE MobileInv'
<1> DEFINE kinds == {"list", "read"}
           ts == AMobile!OutOfDate(kinds, b)
<1>1. a \in MobileStates /\ b \in SUBSET AMobile!RequestRecords /\ Good(a, b) /\ NoPrincipal \in AMobile!Persons
  BY DEF MobileInv, Good, AMobile!Persons
<1>2. a' = [a EXCEPT !.files = NoPrincipal] /\ b' = ts /\ a.sheet = "none" /\ ~a.busy
  BY DEF AMobile!ChangeRoot, AMobile!AtPage
<1>3. "restore" \notin kinds
  OBVIOUS
<1> HIDE DEF kinds
<1>4. /\ Faded(ts, b) /\ (Leaving(b) => Leaving(ts))
      /\ \A t \in ts : t.kind \notin kinds => t \in b
  BY <1>1, FadedBy
<1> HIDE DEF ts
<1>5. \A t \in ts : t.kind \notin SignKinds
  BY <1>1, <1>2, <1>4 DEF Faded, Good, Single
<1>6. /\ a' \in MobileStates /\ a'.previous = a.previous /\ a'.owner = a.owner /\ a'.session = a.session
      /\ a'.identity = a.identity /\ a'.busy = a.busy /\ a'.queue = a.queue /\ a'.status = a.status
      /\ a'.files = NoPrincipal /\ a'.family = a.family /\ a'.sheet = a.sheet /\ a'.draft = a.draft
  BY <1>1, <1>2 DEF MobileStates
<1>7. \A t \in ts : t.kind = "restore" /\ t.live => t \in b
  BY <1>3, <1>4
<1>8. a'.sheet # "cloud" /\ \A t \in ts : t.kind # "login"
  BY <1>2, <1>5, <1>6 DEF SignKinds
<1>9. Good(a', ts)
  BY <1>1, <1>4, <1>5, <1>6, <1>7, <1>8, MobileFades
<1> QED
  BY <1>2, <1>9 DEF MobileInv

LEMMA Asked == ASSUME MobileInv, AMobile!Ask PROVE MobileInv'
<1> DEFINE q == a.asked + 1
           st == [a.status EXCEPT ![q] = "queued"]
           ow == [a.owner EXCEPT ![q] = a.identity]
           qs == Append(a.queue, q)
           m == [a EXCEPT !.asked = q, !.status = st, !.owner = ow, !.queue = qs, !.draft = "empty", !.sheet = "none"]
<1>1. /\ a \in MobileStates /\ b \subseteq AMobile!RequestRecords /\ Good(a, b)
      /\ a.status \in [AMobile!Questions -> AMobile!TaskStates] /\ a.owner \in [AMobile!Questions -> AMobile!Persons]
      /\ a.asked \in 0..MaxQuestions /\ a.asked < MaxQuestions /\ a.queue \in Seq(AMobile!Questions)
      /\ a.identity \in AMobile!Persons /\ "queued" \in AMobile!TaskStates
  BY DEF MobileInv, Good, MobileStates, AMobile!Ask, AMobile!TaskStates
<1>2. q \in 0..MaxQuestions /\ q \in AMobile!Questions
  BY <1>1, Bounds DEF AMobile!Questions
<1>3. AMobile!Drained([a EXCEPT !.asked = q, !.status[q] = "queued", !.owner[q] = a.identity,
                            !.queue = Append(@, q), !.draft = "empty", !.sheet = "none"], b)
  BY DEF AMobile!Ask
<1>4. m = [a EXCEPT !.asked = q, !.status[q] = "queued", !.owner[q] = a.identity,
                            !.queue = Append(@, q), !.draft = "empty", !.sheet = "none"]
  BY <1>1 DEF MobileStates
<1>5. AMobile!Drained(m, b)
  BY <1>3, <1>4
<1> HIDE DEF q
<1>6. /\ st \in [AMobile!Questions -> AMobile!TaskStates] /\ st[q] = "queued"
      /\ \A x \in AMobile!Questions : x # q => st[x] = a.status[x]
  BY <1>1, <1>2
<1>7. /\ ow \in [AMobile!Questions -> AMobile!Persons] /\ ow[q] = a.identity
      /\ \A x \in AMobile!Questions : x # q => ow[x] = a.owner[x]
  BY <1>1, <1>2
<1>8. qs \in Seq(AMobile!Questions)
  BY <1>1, <1>2, AppendProperties
<1> HIDE DEF st, ow, qs
<1>9. /\ m \in MobileStates /\ m.previous = a.previous /\ m.owner = ow /\ m.session = a.session
      /\ m.identity = a.identity /\ m.busy = a.busy /\ m.status = st
      /\ m.files = a.files /\ m.family = a.family /\ m.sheet = "none" /\ m.draft = "empty"
  BY <1>1, <1>2, <1>6, <1>7, <1>8 DEF MobileStates
<1> HIDE DEF m
<1>10. a.identity # NoPrincipal /\ a.sheet # "login"
  BY <1>1 DEF AMobile!Ask, Good, Signed
<1>11. Single(m, b) /\ SigningIn(m, b)
  BY <1>1, <1>9, <1>10 DEF Good, Single, SigningIn
<1>12. Signed(m)
  BY <1>9, <1>10 DEF Signed
<1>13. ASSUME \A r \in b : r.kind # "logout" PROVE OfOne(m, b)
  <2>1. OfOne(a, b)
    BY <1>1, <1>13 DEF Good
  <2>2. a.identity = a.previous /\ a.previous # NoPrincipal
    BY <1>10, <2>1 DEF OfOne
  <2>3. \A x \in AMobile!Questions : m.status[x] # "absent" => m.owner[x] = m.previous /\ m.previous # NoPrincipal
    BY <1>6, <1>7, <1>9, <2>1, <2>2 DEF OfOne
  <2> QED
    BY <1>9, <2>1, <2>3 DEF OfOne
<1>14. Good(m, b)
  BY <1>1, <1>9, <1>11, <1>12, <1>13 DEF Good
<1> QED
  BY <1>5, <1>14, MobileDrains

LEMMA MobileStep == ASSUME MobileInv, [AMobile!MobileNext]_<<a, b>> PROVE MobileInv'
<1>1. CASE UNCHANGED <<a, b>>
  BY <1>1 DEF MobileInv, Good, MobileStates, Single, SigningIn, Signed, OfOne
<1>2. CASE AMobile!Restore
  BY <1>2, Checks
<1>3. CASE \/ AMobile!OpenLogin \/ AMobile!CloseLogin \/ AMobile!TypeQuestion \/ AMobile!StartVoice
           \/ AMobile!VoiceEnds \/ AMobile!AskCloud \/ AMobile!RefuseCloud
  BY <1>3, SheetsAndDrafts
<1>4. CASE AMobile!Login
  BY <1>4, LoggedIn
<1>5. CASE AMobile!Logout
  BY <1>5, LoggedOut
<1>6. CASE AMobile!Ask
  BY <1>6, Asked
<1>7. CASE AMobile!ChangeRoot
  BY <1>7, RootChanged
<1>8. ASSUME NEW q \in AMobile!Questions, AMobile!CancelQuestion(q) PROVE MobileInv'
  BY <1>8, Cancelled
<1>9. ASSUME NEW k \in {"list", "read", "family"}, AMobile!Load(k) PROVE MobileInv'
  BY <1>9, Loads
<1>10. ASSUME NEW r \in b, AMobile!RestoreEnds(r) PROVE MobileInv'
  BY <1>10, Restored
<1>11. ASSUME NEW r \in b, AMobile!LoginEnds(r) PROVE MobileInv'
  BY <1>11, LoginAnswered
<1>12. ASSUME NEW r \in b, AMobile!LogoutEnds(r) PROVE MobileInv'
  BY <1>12, LogoutAnswered
<1>13. ASSUME NEW r \in b, AMobile!ChatEnds(r) PROVE MobileInv'
  BY <1>13, ChatAnswered
<1>14. ASSUME NEW r \in b, AMobile!ShowLoaded(r) PROVE MobileInv'
  BY <1>14, LoadedShown
<1>15. CASE AMobile!MobileNext
  <2>1. CASE \/ AMobile!Restore \/ AMobile!OpenLogin \/ AMobile!CloseLogin \/ AMobile!Login \/ AMobile!Logout
             \/ AMobile!TypeQuestion \/ AMobile!StartVoice \/ AMobile!VoiceEnds
             \/ AMobile!AskCloud \/ AMobile!RefuseCloud \/ AMobile!Ask \/ AMobile!ChangeRoot
    BY ONLY <1>2, <1>3, <1>4, <1>5, <1>6, <1>7, <2>1
  <2>2. CASE \E q \in AMobile!Questions : AMobile!CancelQuestion(q)
    BY ONLY <1>8, <2>2
  <2>3. CASE \E k \in {"list", "read", "family"} : AMobile!Load(k)
    BY ONLY <1>9, <2>3
  <2>4. CASE \E r \in b : \/ AMobile!RestoreEnds(r) \/ AMobile!LoginEnds(r) \/ AMobile!LogoutEnds(r)
                          \/ AMobile!ChatEnds(r) \/ AMobile!ShowLoaded(r)
    BY ONLY <1>10, <1>11, <1>12, <1>13, <1>14, <2>4
  <2> QED
    BY ONLY <1>15, <2>1, <2>2, <2>3, <2>4 DEF AMobile!MobileNext
<1> QED
  BY <1>1, <1>15

=============================================================================
