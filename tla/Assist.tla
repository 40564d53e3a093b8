------------------------------- MODULE Assist -------------------------------
(***************************************************************************)
(* The page on which the user decides approval cards and keeps routines,   *)
(* the delegation policy and connectors (AgentAssistPanel.tsx).  It reads  *)
(* four lists once, when it opens, and from then on follows the events of  *)
(* the sidecar and the answers to its own requests.  Requests, answers and *)
(* events of different calls overtake each other.                          *)
(***************************************************************************)
EXTENDS FiniteSets, Naturals

CONSTANTS
  Cards,          \* approval cards
  RoutineNames,   \* routines
  MaxPolicy,      \* a bound on the versions of the policy
  MaxCalls,       \* a bound on the requests under way
  MaxNews         \* a bound on the letters on their way to the page

VARIABLES
  part,     \* which of its four lists is looked at: they share nothing
  assist,   \* the page
  office,   \* what the sidecar keeps
  calls,    \* requests that have not reached the sidecar
  news      \* answers and events that have not reached the page

assistVars == <<part, assist, office, calls, news>>

Statuses == {"none", "pending", "approved", "denied", "expired"}
Final == {"approved", "denied", "expired"}
Switches == {"none", "on", "off"}
Secrets == {"none", "typed", "kept"}

Calls ==
  [kind : {"cards", "routines", "policy", "connectors", "dropConnector"}]
    \cup [kind : {"decide"}, card : Cards, says : {"approved", "denied"}]
    \cup [kind : {"put", "delete"}, routine : RoutineNames, on : BOOLEAN]
    \cup [kind : {"policySet"}, version : 0..MaxPolicy]
    \cup [kind : {"connectorPut"}, secret : BOOLEAN]

News ==
  [list : {"cards"}, cards : [Cards -> Statuses]] \cup [list : {"routines"}, routines : [RoutineNames -> Switches]]
    \cup [answer : {"policy"}, version : 0..MaxPolicy] \cup [answer : {"connectors", "connectorPut", "dropConnector"}, ok : BOOLEAN, kept : BOOLEAN]
    \cup [event : BOOLEAN, card : Cards, status : Statuses, decided : BOOLEAN]
    \cup [event : BOOLEAN, routine : RoutineNames, stands : Switches] \cup [failed : {"policy"}]

Parts == {"cards", "routines", "policy", "connectors"}

AssistTypeOK ==
  /\ part \in Parts
  /\ assist \in [open : BOOLEAN, cards : [Cards -> Statuses], busy : SUBSET Cards, routines : [RoutineNames -> Switches],
                 policy : 0..MaxPolicy, connector : BOOLEAN, secret : Secrets]
  /\ office \in [cards : [Cards -> Statuses], routines : [RoutineNames -> Switches], policy : 0..MaxPolicy, connector : BOOLEAN, secret : BOOLEAN]
  /\ calls \subseteq Calls /\ news \subseteq News

AtRest == [open |-> FALSE, cards |-> [c \in Cards |-> "none"], busy |-> {}, routines |-> [r \in RoutineNames |-> "none"],
           policy |-> 0, connector |-> FALSE, secret |-> "none"]

AssistInit ==
  /\ part \in Parts /\ assist = AtRest /\ calls = {} /\ news = {}
  /\ office = [cards |-> [c \in Cards |-> "none"], routines |-> [r \in RoutineNames |-> "none"], policy |-> 0, connector |-> FALSE, secret |-> FALSE]

-----------------------------------------------------------------------------
(* The page. *)

\* Closed, the page hears nothing any more; answers to its requests are lost with it.
OpenAssist ==
  /\ ~assist.open /\ assist' = [AtRest EXCEPT !.open = TRUE] /\ UNCHANGED <<office, news>>
  /\ calls' = calls \cup [kind : {part}]
CloseAssist == assist.open /\ assist' = AtRest /\ news' = {} /\ UNCHANGED <<office, calls>>

Calling(call) ==
  /\ assist.open /\ Cardinality(calls) < MaxCalls /\ calls' = calls \cup {call} /\ UNCHANGED <<office, news>>

\* Only the card clicked last is busy: the one before it can be clicked again.
ClickCard(c, says) ==
  /\ assist.cards[c] = "pending" /\ c \notin assist.busy /\ assist' = [assist EXCEPT !.busy = {c}]
  /\ Calling([kind |-> "decide", card |-> c, says |-> says])

SaveRoutine(r) == part = "routines" /\ assist.routines[r] = "none" /\ Calling([kind |-> "put", routine |-> r, on |-> TRUE]) /\ UNCHANGED assist
ToggleRoutine(r) ==
  assist.routines[r] # "none" /\ Calling([kind |-> "put", routine |-> r, on |-> assist.routines[r] = "off"]) /\ UNCHANGED assist
RemoveRoutine(r) == assist.routines[r] # "none" /\ Calling([kind |-> "delete", routine |-> r, on |-> FALSE]) /\ UNCHANGED assist

\* The new policy is shown before it is kept.
SavePolicy ==
  /\ part = "policy" /\ assist.policy < MaxPolicy /\ assist' = [assist EXCEPT !.policy = @ + 1]
  /\ Calling([kind |-> "policySet", version |-> assist.policy + 1])

TypeSecret == part = "connectors" /\ assist.open /\ assist.secret = "none" /\ assist' = [assist EXCEPT !.secret = "typed"] /\ UNCHANGED <<office, calls, news>>
SaveConnector == part = "connectors" /\ Calling([kind |-> "connectorPut", secret |-> assist.secret = "typed"]) /\ UNCHANGED assist
DropConnector == assist.connector /\ Calling([kind |-> "dropConnector"]) /\ UNCHANGED assist

-----------------------------------------------------------------------------
(* The sidecar: it answers a call, and says what has changed. *)

Card(c, status, own) == [event |-> ~own, card |-> c, status |-> status, decided |-> own]
Routine(r, stands, own) == [event |-> ~own, routine |-> r, stands |-> stands]
Says(letters) == news' = (IF assist.open THEN news \cup letters ELSE news) /\ Cardinality(news') <= MaxNews

CardOpens(c) ==
  /\ part = "cards" /\ office.cards[c] = "none" /\ office' = [office EXCEPT !.cards[c] = "pending"] /\ UNCHANGED <<assist, calls>>
  /\ Says({Card(c, "pending", FALSE)})
CardExpires(c) ==
  /\ office.cards[c] = "pending" /\ office' = [office EXCEPT !.cards[c] = "expired"] /\ UNCHANGED <<assist, calls>>
  /\ Says({Card(c, "expired", FALSE)})

ListAnswered(call) ==
  /\ call \in calls /\ call.kind \in Parts /\ calls' = calls \ {call} /\ UNCHANGED <<assist, office>>
  /\ CASE call.kind = "cards" -> Says({[list |-> "cards", cards |-> office.cards]})
       [] call.kind = "routines" -> Says({[list |-> "routines", routines |-> office.routines]})
       [] call.kind = "policy" -> Says({[answer |-> "policy", version |-> office.policy]})
       [] call.kind = "connectors" -> Says({[answer |-> "connectors", ok |-> TRUE, kept |-> office.connector]})

\* Mutant: the last word on a card counts, not the first.
CardDecidedAgain(call) ==
  /\ call \in calls /\ call.kind = "decide" /\ calls' = calls \ {call} /\ UNCHANGED assist
  /\ office' = [office EXCEPT !.cards[call.card] = call.says]
  /\ Says({Card(call.card, call.says, FALSE), Card(call.card, call.says, TRUE)})

\* A card that is no longer pending is answered as it stands.
CardDecided(call) ==
  /\ call \in calls /\ call.kind = "decide" /\ calls' = calls \ {call} /\ UNCHANGED assist
  /\ IF office.cards[call.card] = "pending"
     THEN /\ office' = [office EXCEPT !.cards[call.card] = call.says]
          /\ Says({Card(call.card, call.says, FALSE), Card(call.card, call.says, TRUE)})
     ELSE UNCHANGED office /\ Says({Card(call.card, office.cards[call.card], TRUE)})

\* An id the sidecar has forgotten makes a routine again.
RoutineKept(call) ==
  /\ call \in calls /\ call.kind \in {"put", "delete"} /\ calls' = calls \ {call} /\ UNCHANGED assist
  /\ LET stands == IF call.kind = "delete" THEN "none" ELSE IF call.on THEN "on" ELSE "off"
     IN  /\ office' = [office EXCEPT !.routines[call.routine] = stands]
         /\ Says({Routine(call.routine, stands, own) : own \in IF call.kind = "put" THEN BOOLEAN ELSE {TRUE}})

PolicyKept(call) ==
  /\ call \in calls /\ call.kind = "policySet" /\ calls' = calls \ {call} /\ UNCHANGED assist
  /\ \/ office' = [office EXCEPT !.policy = call.version] /\ Says({[answer |-> "policy", version |-> call.version]})
     \/ UNCHANGED office /\ Says({[failed |-> "policy"]})

\* The connector is stored first, its secret second: the second may fail alone.
ConnectorKept(call) ==
  /\ call \in calls /\ call.kind \in {"connectorPut", "dropConnector"} /\ calls' = calls \ {call} /\ UNCHANGED assist
  /\ \E ok \in BOOLEAN :
       /\ office' = CASE call.kind = "dropConnector" /\ ok -> [office EXCEPT !.connector = FALSE]
                      [] call.kind = "connectorPut" /\ ok -> [office EXCEPT !.connector = TRUE, !.secret = @ \/ call.secret]
                      [] call.kind = "connectorPut" /\ ~ok /\ call.secret -> [office EXCEPT !.connector = TRUE]
                      [] OTHER -> office
       /\ Says({[answer |-> call.kind, ok |-> ok, kept |-> ok /\ call.kind = "connectorPut"]})

-----------------------------------------------------------------------------
(* What reaches the page. *)

Hear(n, page) == assist.open /\ n \in news /\ news' = news \ {n} /\ assist' = page /\ UNCHANGED <<office, calls>>

CardsListed(n) == "cards" \in DOMAIN n /\ Hear(n, [assist EXCEPT !.cards = n.cards])
RoutinesListed(n) == "routines" \in DOMAIN n /\ Hear(n, [assist EXCEPT !.routines = n.routines])
CardHeard(n) ==
  "card" \in DOMAIN n /\ Hear(n, [assist EXCEPT !.cards[n.card] = n.status, !.busy = IF n.decided THEN {} ELSE @])

\* The answer to a toggle changes a routine that is still listed; an event, or the answer to a new one, lists it.
RoutineHeard(n) ==
  /\ "routine" \in DOMAIN n
  /\ \/ Hear(n, [assist EXCEPT !.routines[n.routine] = n.stands])
     \/ ~n.event /\ assist.routines[n.routine] = "none" /\ Hear(n, assist)
PolicyHeard(n) == "version" \in DOMAIN n /\ Hear(n, [assist EXCEPT !.policy = n.version])
ConnectorHeard(n) ==
  /\ "kept" \in DOMAIN n
  /\ Hear(n, IF ~n.ok THEN assist
             ELSE [assist EXCEPT !.connector = n.kept, !.secret = IF n.answer = "connectorPut" THEN "none" ELSE @])
ErrorHeard(n) == "failed" \in DOMAIN n /\ Hear(n, assist)

AssistActs ==
  \/ OpenAssist \/ CloseAssist \/ SavePolicy \/ TypeSecret \/ SaveConnector \/ DropConnector
  \/ \E c \in Cards : CardOpens(c) \/ CardExpires(c) \/ (\E says \in {"approved", "denied"} : ClickCard(c, says))
  \/ \E r \in RoutineNames : SaveRoutine(r) \/ ToggleRoutine(r) \/ RemoveRoutine(r)
  \/ \E call \in calls : ListAnswered(call) \/ CardDecided(call) \/ RoutineKept(call) \/ PolicyKept(call) \/ ConnectorKept(call)
  \/ \E n \in news : CardsListed(n) \/ RoutinesListed(n) \/ CardHeard(n) \/ RoutineHeard(n) \/ PolicyHeard(n) \/ ConnectorHeard(n) \/ ErrorHeard(n)

AssistNext == UNCHANGED part /\ AssistActs
AssistSpec == AssistInit /\ [][AssistNext]_assistVars

-----------------------------------------------------------------------------
(* What the page says was decided is what the sidecar did, whichever of a  *)
(* card's answers, events and lists came first and whichever of two clicks *)
(* the sidecar saw first (AgentAssistPanel.tsx:119-141, approval.ts:172).  *)
DecidedAsShown == \A c \in Cards : assist.cards[c] \in Final => office.cards[c] = assist.cards[c]
=============================================================================
