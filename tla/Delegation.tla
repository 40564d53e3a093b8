----------------------------- MODULE Delegation -----------------------------
(***************************************************************************)
(* Who may delegate to whom (sidecar/src/team.ts): the rules the user      *)
(* edits, the verdict the orchestrator takes from them, and the file       *)
(* team/policy.json that restore reads once, unless the policy was set     *)
(* first.  Module Team takes the verdict as a set of pairs; here it is     *)
(* computed from the rules.                                                *)
(***************************************************************************)
EXTENDS Naturals, Sequences

CONSTANTS
  Names,      \* the session ids
  Label,      \* the label of each session; two may share one
  MaxRules,   \* 200 in the code
  MaxEdited   \* a bound on team/policy_set

VARIABLES
  rulebook,  \* the orchestrator: this.policy, policyTouched, how far restore is,
             \* and two ghosts: the policy last set, and whether restore was
             \* reading the file meanwhile
  ruleFile   \* the host: the file, the requests not yet handled, the answer
             \* not yet taken, and the number of policies set

ruleVars == <<rulebook, ruleFile>>

Patterns == {"*"} \cup Names \cup {Label[n] : n \in Names}
Rules == [from : Patterns, to : Patterns, allow : BOOLEAN]
Policies == [mode : {"allow", "deny"}, rules : Seq(Rules)]
DefaultPolicy == [mode |-> "allow", rules |-> <<>>]
NoPolicy == [mode |-> "none", rules |-> <<>>]
DenyAll == [mode |-> "deny", rules |-> <<>>]

Ask(what) == [ask |-> what, policy |-> NoPolicy]
Write(p) == [ask |-> "write", policy |-> p]
NoAnswer == [to |-> "none", how |-> "ok", policy |-> NoPolicy]

DelegationTypeOK ==
  /\ rulebook \in [policy : Policies, touched : BOOLEAN, last : Policies \cup {NoPolicy}, raced : BOOLEAN,
                   stage : {"tasks", "policy", "restored", "gaveUp"}]
  /\ ruleFile \in [root : BOOLEAN, file : Policies \cup {NoPolicy}, edits : 0..MaxEdited,
                   wire : Seq([ask : {"tasks", "policy", "write"}, policy : Policies \cup {NoPolicy}]),
                   answer : [to : {"none", "tasks", "policy"}, how : {"ok", "noRoot", "failed"}, policy : Policies \cup {NoPolicy}]]

\* Restore starts with the orchestrator; it asks for the tasks first.
FreshRulebook == [policy |-> DefaultPolicy, touched |-> FALSE, last |-> NoPolicy, raced |-> FALSE, stage |-> "tasks"]

DelegationInit ==
  /\ rulebook = FreshRulebook
  /\ ruleFile \in [root : BOOLEAN, file : {NoPolicy, DenyAll}, edits : {0}, wire : {<<Ask("tasks")>>}, answer : {NoAnswer}]

-----------------------------------------------------------------------------
(* The verdict.                                                            *)

NoMatch == 99

EndpointScore(pattern, n) ==
  IF pattern = "*" THEN 0 ELSE IF pattern = n THEN 4 ELSE IF pattern = Label[n] THEN 2 ELSE NoMatch

Matches(rule, from, to) == EndpointScore(rule.from, from) # NoMatch /\ EndpointScore(rule.to, to) # NoMatch
Score(rule, from, to) == EndpointScore(rule.from, from) + EndpointScore(rule.to, to)

\* Mutant: of two rules of equal score the earlier one is kept.
BetterFirst(score, best) == score > best.score

\* The rules are scanned in order, so one of equal score takes over.
Better(score, best) == score > best.score \/ score = best.score

Judged(best, rule, from, to) ==
  IF Matches(rule, from, to) /\ (best.found => Better(Score(rule, from, to), best))
  THEN [found |-> TRUE, score |-> Score(rule, from, to), allow |-> rule.allow]
  ELSE best

\* What the scan holds after each rule; before the first it is the mode.
Scan(p, from, to) ==
  LET best[n \in 0..Len(p.rules)] ==
        IF n = 0 THEN [found |-> FALSE, score |-> 0, allow |-> p.mode # "deny"]
        ELSE Judged(best[n - 1], p.rules[n], from, to)
  IN best
PolicyAllows(p, from, to) == Scan(p, from, to)[Len(p.rules)].allow

-----------------------------------------------------------------------------
(* The host: requests are handled in the order they were sent.             *)

ChooseDataFolder == ~ruleFile.root /\ ruleFile' = [ruleFile EXCEPT !.root = TRUE] /\ UNCHANGED rulebook

Answers(request, how) ==
  [to |-> request.ask, how |-> how, policy |-> IF request.ask = "policy" /\ how = "ok" THEN ruleFile.file ELSE NoPolicy]

PolicyFileServed ==
  /\ ruleFile.wire # <<>> /\ ruleFile.answer = NoAnswer
  /\ \E how \in {"ok", "failed", "noRoot"}, request \in {Head(ruleFile.wire)} :
       /\ how = "noRoot" <=> ~ruleFile.root
       /\ ruleFile' = [ruleFile EXCEPT !.wire = Tail(@),
            !.file = IF request.ask = "write" /\ how = "ok" THEN request.policy ELSE @,
            !.answer = IF request.ask = "write" THEN @ ELSE Answers(request, how)]
  /\ UNCHANGED rulebook

-----------------------------------------------------------------------------
(* The orchestrator.                                                       *)

\* Of a list, all but what stands at i.
RemoveAt(s, i) == SubSeq(s, 1, i - 1) \o SubSeq(s, i + 1, Len(s))

\* What the list on the page can send: the mode turned, a rule dropped, a rule added.
EditsOf(p) ==
  {[p EXCEPT !.mode = IF @ = "allow" THEN "deny" ELSE "allow"]}
    \cup {[p EXCEPT !.rules = RemoveAt(@, i)] : i \in DOMAIN p.rules}
    \cup {[p EXCEPT !.rules = Append(@, r)] : r \in Rules}

\* A policy with too many rules is refused before anything is touched.
SetPolicyRules(p) ==
  /\ ruleFile.edits < MaxEdited /\ Len(p.rules) <= MaxRules
  /\ rulebook' = [rulebook EXCEPT !.policy = p, !.touched = TRUE, !.last = p, !.raced = rulebook.stage = "policy"]
  /\ ruleFile' = [ruleFile EXCEPT !.edits = @ + 1, !.wire = Append(@, Write(p))]

\* Mutant: restore reads the stored policy also when one was set before.
TasksReadRegardless ==
  /\ ruleFile.answer.to = "tasks"
  /\ LET asks == ruleFile.answer.how = "ok"
     IN /\ rulebook' = [rulebook EXCEPT !.stage =
             IF asks THEN "policy" ELSE IF ruleFile.answer.how = "noRoot" THEN "gaveUp" ELSE "restored"]
        /\ ruleFile' = [ruleFile EXCEPT !.answer = NoAnswer, !.wire = IF asks THEN Append(@, Ask("policy")) ELSE @]

TasksRead ==
  /\ ruleFile.answer.to = "tasks"
  /\ LET asks == ruleFile.answer.how = "ok" /\ ~rulebook.touched
     IN /\ rulebook' = [rulebook EXCEPT !.stage =
             IF asks THEN "policy" ELSE IF ruleFile.answer.how = "noRoot" THEN "gaveUp" ELSE "restored"]
        /\ ruleFile' = [ruleFile EXCEPT !.answer = NoAnswer, !.wire = IF asks THEN Append(@, Ask("policy")) ELSE @]

\* The file's policy takes over; policyTouched is not looked at again.
PolicyRead ==
  /\ ruleFile.answer.to = "policy"
  /\ rulebook' = [rulebook EXCEPT !.stage = IF ruleFile.answer.how = "noRoot" THEN "gaveUp" ELSE "restored",
                                  !.policy = IF ruleFile.answer.policy = NoPolicy THEN @ ELSE ruleFile.answer.policy]
  /\ ruleFile' = [ruleFile EXCEPT !.answer = NoAnswer]

\* The answer to the read under way, of which there is one at a time, reaches nobody.
Writes(sent) ==
  LET reads == {i \in DOMAIN sent : sent[i].ask # "write"}
  IN  IF reads = {} THEN sent ELSE RemoveAt(sent, CHOOSE i \in reads : TRUE)

\* The sidecar dies; of what it sent, the host handles what reached the pipe.
SidecarRestarts ==
  /\ rulebook' = FreshRulebook
  /\ \E n \in 0..Len(ruleFile.wire) :
       ruleFile' = [ruleFile EXCEPT !.answer = NoAnswer, !.wire = Append(Writes(SubSeq(@, 1, n)), Ask("tasks"))]

DelegationNext ==
  \/ \E p \in EditsOf(rulebook.policy) : SetPolicyRules(p)
  \/ ChooseDataFolder \/ PolicyFileServed \/ TasksRead \/ PolicyRead \/ SidecarRestarts

DelegationSpec == DelegationInit /\ [][DelegationNext]_ruleVars

-----------------------------------------------------------------------------
(* The verdict is the one documented: of the matching rules the most       *)
(* specific counts, of equals the later, and the mode where none matches;  *)
(* also when one agent's label is another's, or a rule names both ways     *)
(* (team.ts:183-203).                                                      *)
Counts(p, i, from, to) ==
  /\ Matches(p.rules[i], from, to)
  /\ \A j \in DOMAIN p.rules : Matches(p.rules[j], from, to) =>
       \/ Score(p.rules[i], from, to) > Score(p.rules[j], from, to)
       \/ Score(p.rules[i], from, to) = Score(p.rules[j], from, to) /\ i >= j

VerdictIsMostSpecific ==
  \A from, to \in Names : from # to =>
    PolicyAllows(rulebook.policy, from, to) =
      \/ \E i \in DOMAIN rulebook.policy.rules : Counts(rulebook.policy, i, from, to) /\ rulebook.policy.rules[i].allow
      \/ /\ \A i \in DOMAIN rulebook.policy.rules : ~Matches(rulebook.policy.rules[i], from, to)
         /\ rulebook.policy.mode = "allow"

(* A policy the user has set stays in force however late restore gets its  *)
(* files, unless the policy file was already being read when it was set    *)
(* (team.ts:596-603, the one gap: policyTouched is read before the await). *)
SetPolicyStands == rulebook.last # NoPolicy /\ ~rulebook.raced => rulebook.policy = rulebook.last
=============================================================================
