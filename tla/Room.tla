-------------------------------- MODULE Room --------------------------------
(***************************************************************************)
(* The agent room of the web desk (webdesk/web/src/apps/AgentCore.tsx and  *)
(* ComputerPanel.tsx): a person to talk to, a draft, a box to tick before  *)
(* anything is sent, the loop of up to six steps in which the agent uses   *)
(* the browser, and the panel in which the user works the same browser.    *)
(* An operator "next" is the state the setters ask for; Rendered adds what *)
(* the effects do after it.                                                *)
(***************************************************************************)
EXTENDS Naturals

CONSTANTS
  Drafts,       \* the texts the user types
  Engines,      \* the choices of framework and model
  RoomSteps,    \* how many steps one sending may take in computer mode: 6
  MaxMessages   \* a bound on the messages of one person

VARIABLES
  room,   \* the state of the page
  browser  \* the computer: what runs, and the panel action under way

roomVars == <<room, browser>>

People == {"wukong", "bajie"}
NoDraft == "empty"
Texts == Drafts \cup {NoDraft}

\* What is sent: the role, the messages picked from the conversation, the question.
Outgoings == [person : People, draft : Texts, engine : Engines, told : 0..MaxMessages]
Outgoing(r) ==
  [person |-> r.person, draft |-> r.draft, engine |-> r.engine,
   told |-> IF r.history THEN r.messages[r.person] ELSE 0]

RoomTypeOK ==
  /\ room \in [session : BOOLEAN, leaving : BOOLEAN, person : People, draft : Texts,
               engine : Engines, history : BOOLEAN, computerMode : BOOLEAN,
               consent : BOOLEAN, agreed : Outgoings \cup {[told |-> "nothing"], [told |-> "overtaken"]},
               messages : [People -> 0..MaxMessages], busy : People \cup {"nobody"},
               step : 0..RoomSteps, stop : BOOLEAN, browsing : BOOLEAN]
  /\ browser \in [enabled : BOOLEAN, configured : BOOLEAN, acts : BOOLEAN, proposed : BOOLEAN,
                reading : BOOLEAN, screen : {"none", "runs", "asks"}]

NoTick == [told |-> "nothing"]
Overtaken == [told |-> "overtaken"]

RoomInit ==
  /\ room = [session |-> FALSE, leaving |-> FALSE, person |-> "wukong", draft |-> NoDraft,
             engine |-> CHOOSE e \in Engines : TRUE, history |-> FALSE, computerMode |-> FALSE, consent |-> FALSE,
             agreed |-> NoTick, messages |-> [p \in People |-> 0], busy |-> "nobody",
             step |-> 0, stop |-> FALSE, browsing |-> FALSE]
  /\ browser = [enabled |-> TRUE, configured |-> TRUE, acts |-> FALSE, proposed |-> FALSE,
              reading |-> FALSE, screen |-> "none"]

RoomIdle == room.busy = "nobody"
TickedFor(r) == <<r.draft, r.person, r.engine, r.history, r.computerMode>>

\* Mutant: the effect forgets that "history" adds to what is sent.
RenderedButHistory(next) ==
  IF <<next.draft, next.person, next.engine, next.computerMode>>
       # <<room.draft, room.person, room.engine, room.computerMode>>
    THEN room' = [next EXCEPT !.consent = FALSE, !.agreed = NoTick]
    ELSE room' = next

\* The effect that takes the tick back when what it was given for has changed.
Rendered(next) ==
  IF TickedFor(next) # TickedFor(room) THEN room' = [next EXCEPT !.consent = FALSE, !.agreed = NoTick]
                             ELSE room' = next

-----------------------------------------------------------------------------
(* The composer.                                                            *)
TypeDraft(text) == Rendered([room EXCEPT !.draft = text]) /\ UNCHANGED browser

\* A starter of the empty page, and "continue" of the panel, fill the draft too.
StartBrowsing(text) ==
  /\ browser.enabled
  /\ \/ room.person = "wukong" /\ room.messages["wukong"] = 0
     \/ RoomIdle /\ ~browser.acts /\ room.session /\ browser.screen = "runs"
  /\ Rendered([room EXCEPT !.draft = text, !.computerMode = TRUE]) /\ UNCHANGED browser

PickEngine(e) == RoomIdle /\ Rendered([room EXCEPT !.engine = e]) /\ UNCHANGED browser
PickHistory == Rendered([room EXCEPT !.history = ~@]) /\ UNCHANGED browser
PickComputer ==
  /\ room.person = "wukong" /\ browser.enabled /\ RoomIdle
  /\ Rendered([room EXCEPT !.computerMode = ~@]) /\ UNCHANGED browser

ChoosePerson(p) ==
  /\ RoomIdle /\ ~browser.acts
  /\ \E e \in Engines : Rendered([room EXCEPT !.person = p, !.engine = e, !.computerMode = FALSE])
  /\ UNCHANGED browser

Tick ==
  /\ room' = IF room.consent THEN [room EXCEPT !.consent = FALSE, !.agreed = NoTick]
                             ELSE [room EXCEPT !.consent = TRUE, !.agreed = Outgoing(room)]
  /\ UNCHANGED browser

-----------------------------------------------------------------------------
(* A sending.                                                               *)
MaySend == RoomIdle /\ room.draft # NoDraft /\ room.session /\ room.consent /\ browser.configured
Begun ==
  Rendered([room EXCEPT !.busy = room.person, !.stop = FALSE, !.step = 1, !.draft = NoDraft,
                        !.consent = FALSE, !.agreed = NoTick, !.browsing = room.computerMode,
                        !.messages[room.person] = @ + 1])
RoomLeft == room.messages[room.person] + RoomSteps < MaxMessages   \* the bound on messages

\* Mutant: only a sending is waited for, not what the panel does.
SendAnyway == MaySend /\ RoomLeft /\ Begun /\ UNCHANGED browser

SendDraft == MaySend /\ ~browser.acts /\ RoomLeft /\ Begun /\ UNCHANGED browser

Told(r) ==
  IF r.consent /\ r.history /\ r.person = r.busy THEN [r EXCEPT !.agreed = Overtaken] ELSE r
Settled(r) == [r EXCEPT !.busy = "nobody", !.step = 0, !.stop = FALSE, !.browsing = FALSE]

\* The answer to one step: it is shown; then the next step, or the end.
Answered(screen, proposed, continues) ==
  /\ ~RoomIdle /\ (screen # browser.screen \/ proposed => room.browsing)
  /\ browser' = [browser EXCEPT !.screen = screen, !.proposed = @ \/ proposed]
  /\ LET next == [Told(room) EXCEPT !.messages[room.busy] = @ + 1] IN
     IF /\ continues /\ room.browsing /\ screen # "asks" /\ ~proposed /\ ~room.stop
        /\ room.step < RoomSteps
     THEN room' = [next EXCEPT !.step = @ + 1]
     ELSE room' = Settled(next)

\* An error is shown but never told again; the configuration is read afresh.
ChatFails ==
  /\ ~RoomIdle
  /\ room' = Settled(room)
  /\ \E c \in BOOLEAN : browser' = [browser EXCEPT !.configured = c]

StopSteps == ~RoomIdle /\ room' = [room EXCEPT !.stop = TRUE] /\ UNCHANGED browser

-----------------------------------------------------------------------------
(* The panel, and the session.                                              *)
ComputerAction ==
  /\ room.session /\ RoomIdle /\ ~browser.acts
  /\ browser' = [browser EXCEPT !.acts = TRUE] /\ UNCHANGED room
ActionEnds ==
  /\ browser.acts /\ UNCHANGED room
  /\ \/ \E s \in {"none", "runs", "asks"} :
          browser' = [browser EXCEPT !.acts = FALSE, !.screen = s, !.proposed = FALSE]
     \/ browser' = [browser EXCEPT !.acts = FALSE]

\* businessSession on load, or a login; the status of the computer is asked for.
SessionOpens ==
  /\ ~room.session
  /\ room' = [room EXCEPT !.session = TRUE]
  /\ browser' = [browser EXCEPT !.reading = TRUE]

\* Its answer is shown whenever it comes.
StatusRead ==
  /\ browser.reading /\ UNCHANGED room
  /\ \E s \in {browser.screen, "none", "runs", "asks"} :
       browser' = [browser EXCEPT !.reading = FALSE, !.screen = s]

AskLogout ==
  /\ room.session /\ RoomIdle
  /\ room' = [room EXCEPT !.leaving = TRUE] /\ UNCHANGED browser

\* A sending that began meanwhile goes on, and its answer comes to the empty page.
LogoutAnswered ==
  /\ room.leaving
  /\ \/ /\ Rendered([Told(room) EXCEPT !.leaving = FALSE, !.session = FALSE, !.draft = NoDraft,
                                       !.messages = [p \in People |-> 0]])
        /\ browser' = [browser EXCEPT !.screen = "none", !.proposed = FALSE]
     \/ room' = [room EXCEPT !.leaving = FALSE] /\ UNCHANGED browser

RoomNext ==
  \/ \E text \in Texts : TypeDraft(text) \/ StartBrowsing(text)
  \/ \E e \in Engines : PickEngine(e)
  \/ PickHistory \/ PickComputer \/ Tick \/ SendDraft \/ ChatFails \/ StopSteps
  \/ \E p \in People : ChoosePerson(p)
  \/ \E s \in {"none", "runs", "asks"}, proposed, continues \in BOOLEAN : Answered(s, proposed, continues)
  \/ ComputerAction \/ ActionEnds \/ SessionOpens \/ StatusRead \/ AskLogout \/ LogoutAnswered

RoomSpec == RoomInit /\ [][RoomNext]_roomVars

-----------------------------------------------------------------------------
(* A tick is good for what the page shows to be sent and nothing else,     *)
(* unless an answer came in after it (AgentCore.tsx:239-241, 381-403).     *)
SentAsShown == MaySend => room.agreed \in {Outgoing(room), Overtaken}

(* The agent's steps and the user's panel never work the browser at the    *)
(* same time (AgentCore.tsx:389-390, ComputerPanel.tsx:56-188).            *)
OneDriver == ~(browser.acts /\ room.browsing)
=============================================================================
