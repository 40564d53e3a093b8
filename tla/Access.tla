------------------------------- MODULE Access -------------------------------
(***************************************************************************)
(* Business sessions, worker leases and model leases of the managed vault  *)
(* (src-tauri vault/access.rs, access/workers.rs, gateway.rs, computer.rs).*)
(* One mutex is held through every call, its file or network access        *)
(* included; time passes meanwhile, so a session or a lease may end under  *)
(* a call.  Tokens are random: an ended session or lease never comes back. *)
(***************************************************************************)
EXTENDS Naturals, FiniteSets

CONSTANTS
  Logins,        \* the sessions that may be opened
  Workers,       \* the worker leases that may be issued
  Models,        \* the model leases that may be issued
  MaxCalls,      \* the calls of a worker lease
  MaxFailures,   \* the failed logins that start a pause
  Nobody

Leases == Workers \cup Models

VARIABLES
  access,   \* sessions, leases, failed logins and the audit stream
  call      \* the call that holds the mutex

accessVars == <<access, call>>

Lives == {"none", "live", "ended"}
LeaseStates == [life : Lives, of : Logins \cup {Nobody}, used : 0..MaxCalls, sent : 0..2]
Accesses ==
  [session : [Logins -> Lives], lease : [Leases -> LeaseStates], failures : 0..MaxFailures,
   paused : BOOLEAN, audit : BOOLEAN, computer : SUBSET Logins]
Calls ==
  [at : {"free", "reads", "sends", "released"}, of : Logins \cup {Nobody}, lease : Leases \cup {Nobody}]

AccessTypeOK == access \in Accesses /\ call \in Calls

Free == [at |-> "free", of |-> Nobody, lease |-> Nobody]
NoLease == [life |-> "none", of |-> Nobody, used |-> 0, sent |-> 0]

AccessInit ==
  /\ access = [session |-> [s \in Logins |-> "none"], lease |-> [l \in Leases |-> NoLease],
               failures |-> 0, paused |-> FALSE, audit |-> TRUE, computer |-> {}]
  /\ call = Free

\* checked_session, and a lease of such a session before its deadline.
LiveSession(s) == access.session[s] = "live"
LiveLease(l) == access.lease[l].life = "live" /\ LiveSession(access.lease[l].of)

\* The mutex is free, and the durable audit a step must write succeeds.
Enters == call.at \in {"free", "released"}
EntersAudited == Enters /\ access.audit

Login(s) ==
  /\ EntersAudited /\ ~access.paused /\ access.session[s] = "none"
  /\ access' = [access EXCEPT !.session[s] = "live", !.failures = 0]
  /\ call' = Free

LoginFails ==
  /\ Enters /\ ~access.paused
  /\ LET n == IF access.failures < MaxFailures THEN access.failures + 1 ELSE MaxFailures IN
     access' = [access EXCEPT !.failures = n, !.paused = n = MaxFailures]
  /\ call' = Free

PauseEnds == access.paused /\ access' = [access EXCEPT !.paused = FALSE] /\ UNCHANGED call

Ended(lease, these) ==
  [l \in Leases |-> IF l \in these THEN [lease[l] EXCEPT !.life = "ended"] ELSE lease[l]]

\* business_session: a logout removes the session and its leases before it is
\* audited.
Logout(s) ==
  /\ Enters /\ LiveSession(s)
  /\ access' = [access EXCEPT !.session[s] = "ended",
                  !.lease = Ended(@, {l \in Leases : access.lease[l].of = s})]
  /\ call' = Free

\* issue_worker and issue_model: expired leases are pruned, the issue is
\* audited, and the session checked again.
IssueLease(l, s) ==
  /\ EntersAudited /\ LiveSession(s) /\ access.lease[l].life = "none"
  /\ LET dead == {m \in Leases : access.lease[m].life = "live" /\ ~LiveLease(m)} IN
     access' = [access EXCEPT !.lease =
                  [Ended(@, dead) EXCEPT ![l] = [NoLease EXCEPT !.life = "live", !.of = s]]]
  /\ call' = Free

RevokeLease(l) ==
  /\ Enters /\ LiveLease(l)
  /\ access' = [access EXCEPT !.lease = Ended(@, {l})]
  /\ call' = Free

\* delegated_read.
BeginRead(s) ==
  /\ Enters /\ LiveSession(s)
  /\ call' = [at |-> "reads", of |-> s, lease |-> Nobody]
  /\ UNCHANGED access

\* worker_read: the call is counted once its intent is audited, and may then
\* be refused for its command or its path.
BeginWorker(l) ==
  /\ EntersAudited /\ l \in Workers /\ LiveLease(l) /\ access.lease[l].used < MaxCalls
  /\ access' = [access EXCEPT !.lease[l].used = @ + 1]
  /\ call' \in {Free, [at |-> "reads", of |-> access.lease[l].of, lease |-> l]}

\* Mutant: the lease is consumed by an answer only.
BeginModelUnconsumed(l) ==
  /\ EntersAudited /\ l \in Models /\ LiveLease(l) /\ access.lease[l].used = 0
  /\ call' \in {Free, [at |-> "sends", of |-> access.lease[l].of, lease |-> l]}
  /\ UNCHANGED access

\* invoke_model: the lease is consumed before anything is sent, and the call
\* may then be refused for its content.
BeginModel(l) ==
  /\ EntersAudited /\ l \in Models /\ LiveLease(l) /\ access.lease[l].used = 0
  /\ access' = [access EXCEPT !.lease[l].used = 1]
  /\ call' \in {Free, [at |-> "sends", of |-> access.lease[l].of, lease |-> l]}

\* use_provider_profile and exchange: nothing is sent without the key, or
\* after the deadline of the lease and its session.
SendModel ==
  /\ call.at = "sends"
  /\ \/ /\ LiveLease(call.lease)
        /\ access' = [access EXCEPT !.lease[call.lease].sent = @ + 1]
        /\ call' = [call EXCEPT !.at = "reads"]
     \/ UNCHANGED access /\ call' = Free

\* Mutant: what was read is released without another look at the session.
ReleaseUnchecked ==
  /\ call.at = "reads"
  /\ \/ access.audit /\ call' = [call EXCEPT !.at = "released"]
     \/ call' = Free
  /\ UNCHANGED access

\* The file was read or the model answered, and that was audited: session and
\* lease are checked again; or any of it fails.
Release ==
  /\ call.at = "reads"
  /\ \/ /\ access.audit /\ LiveSession(call.of)
        /\ call.lease # Nobody => LiveLease(call.lease)
        /\ call' = [call EXCEPT !.at = "released"]
     \/ call' = Free
  /\ UNCHANGED access

\* computer_authorize: audited after the mutex is released; the daemon then
\* lets the computer service act, whatever became of the session.
AuthorizeComputer(s) ==
  /\ EntersAudited /\ LiveSession(s)
  /\ access' = [access EXCEPT !.computer = @ \cup {s}]
  /\ call' = Free

ComputerActs(s) ==
  /\ s \in access.computer
  /\ access' = [access EXCEPT !.computer = @ \ {s}]
  /\ UNCHANGED call

\* Time passes: a session reaches its idle or absolute limit, a lease its own.
SessionExpires(s) ==
  LiveSession(s) /\ access' = [access EXCEPT !.session[s] = "ended"] /\ UNCHANGED call
LeaseExpires(l) ==
  access.lease[l].life = "live" /\ access' = [access EXCEPT !.lease = Ended(@, {l})] /\ UNCHANGED call

\* expire_delegations: only when the mutex is free.
ExpireDelegations ==
  /\ Enters
  /\ access' = [access EXCEPT !.lease = Ended(@, {l \in Leases : access.lease[l].life = "live" /\ ~LiveLease(l)})]
  /\ UNCHANGED call

\* record_durable fails once and for all, and the call with it.
AccessAuditBreaks ==
  /\ access' = [access EXCEPT !.audit = FALSE]
  /\ call' = Free

AccessNext ==
  \/ \E s \in Logins :
       \/ Login(s) \/ Logout(s) \/ BeginRead(s) \/ AuthorizeComputer(s)
       \/ ComputerActs(s) \/ SessionExpires(s) \/ \E l \in Leases : IssueLease(l, s)
  \/ \E l \in Leases :
       RevokeLease(l) \/ BeginWorker(l) \/ BeginModel(l) \/ LeaseExpires(l)
  \/ LoginFails \/ PauseEnds \/ SendModel \/ Release \/ ExpireDelegations \/ AccessAuditBreaks

AccessSpec == AccessInit /\ [][AccessNext]_accessVars

-----------------------------------------------------------------------------
(* What a call has read or what a model answered is released only while    *)
(* the session, and the lease it was called with, are still live, however  *)
(* long the call took (access.rs:429-468, workers.rs:297-312,              *)
(* gateway.rs:1250-1263).                                                  *)
ReleasedWhileLive ==
  call.at = "reads" /\ call'.at = "released" =>
    LiveSession(call.of) /\ (call.lease # Nobody => LiveLease(call.lease))

(* "consume BEFORE any credential use/network attempt": a model lease      *)
(* leads to one request at most, also when calls fail and are repeated     *)
(* (gateway.rs:1199-1248).                                                 *)
ModelSentOnce == \A l \in Leases : access.lease[l].sent <= 1

\* Why it holds: a model lease is consumed before the call that sends.
ConsumedBeforeSent ==
  /\ \A l \in Leases : access.lease[l].life = "none" => access.lease[l].used = 0
  /\ \A l \in Leases : access.lease[l].sent > 0 => l \in Models /\ access.lease[l].used > 0
  /\ call.at = "sends" => /\ call.lease \in Models
                          /\ access.lease[call.lease].used > 0 /\ access.lease[call.lease].sent = 0
  /\ ModelSentOnce
=============================================================================
