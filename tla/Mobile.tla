------------------------------- MODULE Mobile -------------------------------
(***************************************************************************)
(* The mobile companion, connected to a home (mobile/src/App.tsx,          *)
(* lib/api.ts, lib/store.ts): who is signed in, the queue of questions put *)
(* to the model one after another, the files and the household read for    *)
(* that person.  Sessions are shared with the other pages of the browser,  *)
(* so any of the persons may turn out to be the one signed in.             *)
(* A counter that tells old requests (authEpoch, readEpoch, familyEpoch in *)
(* the page, generation in MobileApi) is modelled by a mark on them:       *)
(* "ours" and "live" are lost when the counter moves on.                   *)
(***************************************************************************)
EXTENDS Naturals, Sequences, FiniteSets

CONSTANTS
  Principals,    \* the persons of the home
  NoPrincipal,
  MaxQuestions,  \* a bound on the questions asked
  MaxRequests    \* a bound on the requests under way at once

VARIABLES
  mobile,    \* the page, its store and the session of its MobileApi
  requests   \* the requests under way

mobileVars == <<mobile, requests>>

Questions == 1..MaxQuestions
Persons == Principals \cup {NoPrincipal}
TaskStates == {"absent", "queued", "running", "ended"}   \* ended: done, error, unknown, cancelled
RequestKinds == {"chat", "list", "read", "family", "restore", "login", "logout"}
RequestRecords ==
  [kind : RequestKinds, who : Persons, question : 0..MaxQuestions, ours : BOOLEAN, live : BOOLEAN]

MobileTypeOK ==
  /\ mobile \in [identity : Persons, previous : Persons, session : Persons,
                 status : [Questions -> TaskStates], owner : [Questions -> Persons], asked : 0..MaxQuestions,
                 queue : Seq(Questions), files : Persons, family : Persons,
                 sheet : {"none", "login", "cloud"}, busy : BOOLEAN,
                 draft : {"empty", "listening", "text"}]
  /\ requests \subseteq RequestRecords

NoQuestions == [q \in Questions |-> "absent"]
NoOwners == [q \in Questions |-> NoPrincipal]

\* The page asks who is signed in as soon as it is there.
MobileInit ==
  /\ mobile = [identity |-> NoPrincipal, previous |-> NoPrincipal, session |-> NoPrincipal,
               status |-> NoQuestions, owner |-> NoOwners, asked |-> 0, queue |-> << >>,
               files |-> NoPrincipal, family |-> NoPrincipal, sheet |-> "none", busy |-> FALSE,
               draft |-> "empty"]
  /\ requests = {[kind |-> "restore", who |-> NoPrincipal, question |-> 0, ours |-> TRUE, live |-> TRUE]}

Quiet == Cardinality(requests) < MaxRequests   \* the bound on requests
AtPage == mobile.sheet = "none"                \* an open sheet is modal

-----------------------------------------------------------------------------
(* Requests.                                                                *)
\* One that needs the session fails at once without it.
Request(kind, m, question) ==
  [kind |-> kind, who |-> IF kind \in {"restore", "login", "logout"} THEN NoPrincipal ELSE m.session, question |-> question, ours |-> TRUE,
   live |-> kind \in {"restore", "login"} \/ m.session # NoPrincipal]

\* An answer both sides refuse changes nothing, unless the queue waits for it.
Awaited(rs) == {r \in rs : r.ours \/ r.live \/ r.kind \in {"chat", "login", "logout"}}
OutOfDate(kinds, rs) == Awaited({IF r.kind \in kinds THEN [r EXCEPT !.ours = FALSE] ELSE r : r \in rs})
AllOvertaken(rs) == OutOfDate(RequestKinds, rs)
\* clearSession: the answers to what is under way are refused.
Cut(rs) == Awaited({[r EXCEPT !.live = FALSE] : r \in rs})

\* ButlerStore.clear, and the page's own reset beside it.
Cleared(m) ==
  [m EXCEPT !.status = NoQuestions, !.owner = NoOwners, !.queue = << >>, !.files = NoPrincipal,
            !.family = NoPrincipal, !.draft = IF @ = "listening" THEN @ ELSE "empty", !.sheet = IF @ = "cloud" THEN "none" ELSE @]
\* voice.cancel.
Hushed(d) == IF d = "listening" THEN "empty" ELSE d

\* drainQueue goes on to the next question that still waits, past those cancelled.
Waiting(m) == {i \in 1..Len(m.queue) : m.status[m.queue[i]] = "queued"}
Drained(m, rs) ==
  IF (\E r \in rs : r.kind = "chat") \/ Waiting(m) = {} THEN mobile' = m /\ requests' = rs
  ELSE \E i \in Waiting(m) :
         LET q == m.queue[i] IN
         /\ \A k \in Waiting(m) : i <= k
         /\ mobile' = [m EXCEPT !.status[q] = "running", !.queue = SubSeq(@, i + 1, Len(@))]
         /\ requests' = rs \cup {Request("chat", m, q)}

\* authFailure, for an answer that says the session is over.
SignedOut(m) ==
  [m EXCEPT !.identity = NoPrincipal, !.queue = << >>, !.sheet = "login", !.draft = Hushed(@),
            !.status = [q \in Questions |-> IF @[q] = "queued" THEN "ended" ELSE @[q]]]
\* MobileApi.request drops the session with such an answer, if it is still the one.
Expired(m, r) == IF r.live THEN [m EXCEPT !.session = NoPrincipal] ELSE m
Left(r, rs) == IF r.live THEN Cut(rs \ {r}) ELSE rs \ {r}

\* Mutant: the data of the person before is kept if nobody is signed in now.
KnownTo(m, p) ==
  IF m.identity \notin {NoPrincipal, p} THEN Cleared(m) ELSE m

\* Another person than before: nothing of the one before stays.
Admitted(m, p) ==
  IF m.previous \notin {NoPrincipal, p} THEN Cleared(m) ELSE m

Entered(m, p) == [Admitted(m, p) EXCEPT !.previous = p, !.identity = p, !.session = p]

-----------------------------------------------------------------------------
(* Signing in and out.                                                      *)
Restore ==
  /\ AtPage /\ ~mobile.busy /\ Quiet /\ (\A r \in requests : r.kind # "restore")
  /\ requests' = requests \cup {Request("restore", mobile, 0)} /\ UNCHANGED mobile

\* acceptSession: another person's session cuts the requests of the one before.
Accepted(p, rs) == IF mobile.session \notin {NoPrincipal, p} THEN Cut(rs) ELSE rs

RestoreEnds(r) ==
  /\ r.kind = "restore"
  /\ \/ \E p \in Principals :
          /\ r.live
          /\ LET rest == Accepted(p, requests \ {r}) IN
             IF r.ours
               THEN /\ mobile' = Entered(mobile, p)
                    /\ requests' = IF mobile.previous \in {NoPrincipal, p} THEN rest ELSE AllOvertaken(rest)
               ELSE mobile' = [mobile EXCEPT !.session = p] /\ requests' = rest
     \/ mobile' = Expired(mobile, r) /\ requests' = Left(r, requests)
     \/ UNCHANGED mobile /\ requests' = requests \ {r}

OpenLogin == AtPage /\ mobile.identity = NoPrincipal /\ mobile' = [mobile EXCEPT !.sheet = "login"]
             /\ UNCHANGED requests
CloseLogin == mobile.sheet = "login" /\ ~mobile.busy /\ mobile' = [mobile EXCEPT !.sheet = "none"] /\ UNCHANGED requests

Login ==
  /\ mobile.sheet = "login" /\ ~mobile.busy /\ Quiet
  /\ mobile' = [mobile EXCEPT !.busy = TRUE, !.queue = << >>, !.session = NoPrincipal]
  /\ requests' = Cut(AllOvertaken(requests)) \cup {Request("login", mobile, 0)}
LoginEnds(r) ==
  /\ r.kind = "login"
  /\ \/ \E p \in Principals :
          /\ r.live
          /\ mobile' = [Entered(mobile, p) EXCEPT !.busy = FALSE, !.sheet = "none"]
          /\ LET rest == Accepted(p, requests \ {r}) IN
             requests' = IF mobile.previous \in {NoPrincipal, p} THEN rest
                         ELSE OutOfDate({"chat", "restore", "read"}, rest)
     \/ mobile' = [Expired(mobile, r) EXCEPT !.busy = FALSE] /\ requests' = Left(r, requests)
     \/ mobile' = [mobile EXCEPT !.busy = FALSE] /\ requests' = requests \ {r}

Logout ==
  /\ AtPage /\ mobile.identity # NoPrincipal /\ ~mobile.busy /\ Quiet
  /\ mobile' = [mobile EXCEPT !.busy = TRUE, !.queue = << >>, !.draft = Hushed(@)]
  /\ requests' = AllOvertaken(requests) \cup {Request("logout", mobile, 0)}
\* Whatever the answer, the page and the session are emptied.
LogoutEnds(r) ==
  /\ r.kind = "logout"
  /\ mobile' = [Cleared(mobile) EXCEPT !.busy = FALSE, !.identity = NoPrincipal, !.previous = NoPrincipal,
                                       !.session = NoPrincipal, !.queue = mobile.queue, !.sheet = mobile.sheet]
  /\ requests' = Cut(requests \ {r})

-----------------------------------------------------------------------------
(* Questions.                                                               *)
TypeQuestion ==
  /\ AtPage /\ mobile.draft = "empty" /\ mobile.identity # NoPrincipal
  /\ mobile' = [mobile EXCEPT !.draft = "text"] /\ UNCHANGED requests
\* Speech is recognised into an empty draft; a callback after "cancel" is ignored.
StartVoice ==
  /\ AtPage /\ mobile.draft = "empty" /\ mobile.identity # NoPrincipal
  /\ mobile' = [mobile EXCEPT !.draft = "listening"] /\ UNCHANGED requests
VoiceEnds ==
  /\ mobile.draft = "listening" /\ UNCHANGED requests
  /\ \E heard \in {"empty", "text"} : mobile' = [mobile EXCEPT !.draft = heard]

\* send: a cloud model is asked only after the sheet with the text has been agreed to.
AskCloud ==
  /\ AtPage /\ mobile.draft = "text" /\ mobile.identity # NoPrincipal
  /\ mobile' = [mobile EXCEPT !.sheet = "cloud"] /\ UNCHANGED requests
RefuseCloud == mobile.sheet = "cloud" /\ mobile' = [mobile EXCEPT !.sheet = "none"] /\ UNCHANGED requests

Ask ==
  /\ mobile.draft = "text" /\ mobile.sheet # "login" /\ mobile.asked < MaxQuestions
  /\ mobile.sheet = "cloud" \/ mobile.identity # NoPrincipal
  /\ LET q == mobile.asked + 1 IN
     Drained([mobile EXCEPT !.asked = q, !.status[q] = "queued", !.owner[q] = mobile.identity,
                            !.queue = Append(@, q), !.draft = "empty", !.sheet = "none"], requests)

CancelQuestion(q) ==
  /\ AtPage /\ mobile.identity # NoPrincipal /\ mobile.status[q] = "queued"
  /\ mobile' = [mobile EXCEPT !.status[q] = "ended"] /\ UNCHANGED requests

Patched(m, q, s, p) ==
  IF m.status[q] = "absent" THEN m ELSE [m EXCEPT !.status[q] = s, !.owner[q] = p]
\* An answer of before leaves its question as it was.
ChatEnds(r) ==
  /\ r.kind = "chat"
  /\ \/ /\ r.live
        /\ Drained(IF r.ours THEN Patched(mobile, r.question, "ended", r.who) ELSE mobile, requests \ {r})
     \/ Drained(IF r.ours THEN Patched(mobile, r.question, "ended", mobile.owner[r.question]) ELSE mobile,
                requests \ {r})
     \/ IF r.ours
          THEN /\ mobile' = SignedOut(Expired(Patched(mobile, r.question, "ended", mobile.owner[r.question]), r))
               /\ requests' = AllOvertaken(Left(r, requests))
          ELSE Drained(Expired(mobile, r), Left(r, requests))

-----------------------------------------------------------------------------
(* Files and the household.                                                 *)
\* loadFiles and loadFamily: the last one counts.  readFile goes with the list it is of.
Load(kind) ==
  /\ AtPage /\ mobile.identity # NoPrincipal /\ Quiet /\ UNCHANGED mobile
  /\ kind = "read" => mobile.files # NoPrincipal
  /\ requests' = OutOfDate(CASE kind = "list" -> {"list", "read"} [] kind = "family" -> {"family"} [] OTHER -> {},
                            requests) \cup {Request(kind, mobile, 0)}

\* The directory is changed in the settings.
ChangeRoot ==
  /\ AtPage /\ ~mobile.busy /\ mobile' = [mobile EXCEPT !.files = NoPrincipal]
  /\ requests' = OutOfDate({"list", "read"}, requests)

Loaded(kind, m, p) ==
  CASE kind = "list" -> [m EXCEPT !.files = p] [] kind = "family" -> [m EXCEPT !.family = p]
    [] OTHER -> IF m.files = NoPrincipal THEN m ELSE [m EXCEPT !.files = p]
ShowLoaded(r) ==
  /\ r.kind \in {"list", "read", "family"}
  /\ \/ /\ r.live /\ requests' = requests \ {r}
        /\ mobile' = IF r.ours THEN Loaded(r.kind, mobile, r.who) ELSE mobile
     \/ LET blank == IF r.ours /\ r.kind # "read" THEN Loaded(r.kind, mobile, NoPrincipal) ELSE mobile IN
        \/ mobile' = blank /\ requests' = requests \ {r}
        \/ /\ mobile' = IF r.ours THEN SignedOut(Expired(blank, r)) ELSE Expired(blank, r)
           /\ requests' = IF r.ours THEN AllOvertaken(Left(r, requests)) ELSE Left(r, requests)

MobileNext ==
  \/ Restore \/ OpenLogin \/ CloseLogin \/ Login \/ Logout \/ TypeQuestion \/ StartVoice \/ VoiceEnds
  \/ AskCloud \/ RefuseCloud \/ Ask \/ ChangeRoot
  \/ \E q \in Questions : CancelQuestion(q)
  \/ \E k \in {"list", "read", "family"} : Load(k)
  \/ \E r \in requests : RestoreEnds(r) \/ LoginEnds(r) \/ LogoutEnds(r) \/ ChatEnds(r) \/ ShowLoaded(r)

MobileSpec == MobileInit /\ [][MobileNext]_mobileVars

-----------------------------------------------------------------------------
(* Whoever is signed in sees questions, files and a household of theirs     *)
(* only, however answers asked for by others come in (App.tsx:178-205,      *)
(* 252-286, api.ts:104-162).  While a sign-out is under way it need not     *)
(* hold: the session an overtaken check brings in is used until the page    *)
(* is emptied at its end.                                                   *)
PrivateToOwner ==
  mobile.identity # NoPrincipal /\ ~mobile.busy =>
    /\ \A q \in Questions : mobile.status[q] # "absent" => mobile.owner[q] = mobile.identity
    /\ {mobile.files, mobile.family} \subseteq {NoPrincipal, mobile.identity}
=============================================================================
