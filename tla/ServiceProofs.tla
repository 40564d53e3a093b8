--------------------------- MODULE ServiceProofs ---------------------------
(***************************************************************************)
(* Proofs about the services.  Each section proves, for every value of the *)
(* constants, that a component starts with its inductive invariant, that   *)
(* every step keeps it, and that its properties follow; the last sections  *)
(* draw the theorems about the run of all services (MCServices) from them, *)
(* for every value of its constants that its assumption admits.            *)
(***************************************************************************)
EXTENDS MCServices, FiniteSetTheorems, TLAPS

-----------------------------------------------------------------------------
\* The run starts one component, and moves it alone.
LEMMA StartsAlone ==
  ASSUME ServicesInit
  PROVE
    /\ focus = "store" => AStore!StoreInit
    /\ focus = "routines" => ATimer!RoutinesInit
    /\ focus = "host" => AHost!HostInit
    /\ focus = "todo" => Todos(Three, Keys, {}, 0)!TodoInit
    /\ focus = "board" => Todos(Two, NoKeys, {"l1"}, 1)!TodoInit
    /\ focus = "harness" => AHarness!HarnessInit
    /\ focus = "mcp" => AnMcp!McpInit
    /\ focus = "r1" => AnR1!R1Init
    /\ focus = "settings" => ASettings!SettingsInit
    /\ focus = "vault" => AVault!VaultInit
    /\ focus = "memory" => AMemory!MemoryStarts
    /\ focus = "secrets" => ASecret!SecretInit
    /\ focus = "access" => AnAccess!AccessInit
    /\ focus = "library" => ALibrary!LibraryInit
    /\ focus = "mail" => AMail!MailInit
    /\ focus = "calendar" => Calendars(PageEvents, OneSync)!CalendarInit
    /\ focus = "syncs" => Calendars({}, TwoSyncs)!CalendarInit
    /\ focus = "welcome" => AWelcome!WelcomeInit
BY DEF ServicesInit

LEMMA MovesAlone ==
  ASSUME [ServicesNext]_serviceVars
  PROVE
    /\ focus' = focus
    /\ focus = "store" => [AStore!StoreNext]_AStore!storeVars
    /\ focus = "routines" => [ATimer!RoutinesNext]_ATimer!schedVars
    /\ focus = "host" => [AHost!HostNext]_AHost!hostVars
    /\ focus = "todo" => [Todos(Three, Keys, {}, 0)!TodoNext]_<<a, b, c>>
    /\ focus = "board" => [Todos(Two, NoKeys, {"l1"}, 1)!TodoNext]_<<a, b, c>>
    /\ focus = "harness" => [AHarness!HarnessNext]_AHarness!harnessVars
    /\ focus = "mcp" => [AnMcp!McpNext]_AnMcp!mcpVars
    /\ focus = "r1" => [AnR1!R1Next]_AnR1!r1Vars
    /\ focus = "settings" => [ASettings!SettingsNext]_ASettings!settingsVars
    /\ focus = "vault" => [AVault!VaultNext]_AVault!vaultVars
    /\ focus = "memory" => [AMemory!MemoryStep]_AMemory!memoryVars
    /\ focus = "secrets" => [ASecret!SecretNext]_ASecret!secretVars
    /\ focus = "access" => [AnAccess!AccessNext]_AnAccess!accessVars
    /\ focus = "library" => [ALibrary!LibraryNext]_ALibrary!libraryVars
    /\ focus = "mail" => [AMail!MailNext]_AMail!mailVars
    /\ focus = "calendar" => [Calendars(PageEvents, OneSync)!CalendarNext]_<<a, b, c, d>>
    /\ focus = "syncs" => [Calendars({}, TwoSyncs)!CalendarNext]_<<a, b, c, d>>
    /\ focus = "welcome" => [AWelcome!WelcomeNext]_AWelcome!welcomeVars
BY DEF ServicesNext, Only, serviceVars, AStore!storeVars, ATimer!schedVars, AHost!hostVars, Todos!todoVars, AHarness!harnessVars, AnMcp!mcpVars, AnR1!r1Vars, ASettings!settingsVars, AVault!vaultVars, AMemory!memoryVars, ASecret!secretVars, AnAccess!accessVars, ALibrary!libraryVars, AMail!mailVars, Calendars!calendarVars, AWelcome!welcomeVars

\* What the assumption says of each bound.
LEMMA Bounds ==
  /\ MaxMinute \in Nat \ {0} /\ Hour \in Nat \ {0} /\ MaxCalls \in Nat \ {0} /\ MaxEdits \in Nat \ {0}
  /\ MaxFlushes \in Nat /\ MaxHistory \in Nat /\ MaxPerHour \in Nat /\ MaxObjects \in Nat /\ MaxWrites \in Nat
  /\ MaxProcs \in Nat /\ MaxLines \in Nat /\ MaxTodoOps \in Nat /\ MaxTurns \in Nat
  /\ MaxAsks \in Nat /\ MaxRevision \in Nat
  /\ MaxFailures \in Nat /\ MaxNoteRevision \in Nat /\ MaxUid \in Nat /\ Points \in Nat
  /\ MaxWrong \in Nat
BY ServicesAssumption

-----------------------------------------------------------------------------
(* The engines: calls of remote tools, text-only sessions, isolated runs.  *)

LEMMA ToolCallsTyped ==
  ASSUME AnMcp!McpTypeOK, AnMcp!CallKeepsCard, NEW x \in McpCalls,
         \/ AnMcp!BeginCall(x) \/ AnMcp!OpenCallCard(x) \/ AnMcp!DecideCall(x)
         \/ AnMcp!EnsureInitialized(x) \/ AnMcp!PostCall(x) \/ AnMcp!RefreshToken(x)
  PROVE  AnMcp!McpTypeOK'
<1> USE DEF AnMcp!McpTypeOK, AnMcp!At, AnMcp!Goes
<1>1. a' \in AnMcp!Registries
  BY DEF AnMcp!Registries, AnMcp!BeginCall, AnMcp!OpenCallCard, AnMcp!DecideCall, AnMcp!EnsureInitialized,
         AnMcp!PostCall, AnMcp!RefreshToken
<1>2. b' \in [McpCalls -> AnMcp!ToolCalls]
  <2>1. CASE AnMcp!BeginCall(x) \/ AnMcp!EnsureInitialized(x)
    BY <2>1 DEF AnMcp!ToolCalls, AnMcp!BeginCall, AnMcp!EnsureInitialized
  <2>2. CASE AnMcp!OpenCallCard(x) \/ AnMcp!DecideCall(x)
    BY <2>2 DEF AnMcp!ToolCalls, AnMcp!Registries, AnMcp!OpenCallCard, AnMcp!DecideCall
  <2>3. CASE AnMcp!PostCall(x)
    BY <2>3 DEF AnMcp!ToolCalls, AnMcp!PostCall, AnMcp!CallKeepsCard
  <2>4. CASE AnMcp!RefreshToken(x)
    BY <2>4 DEF AnMcp!ToolCalls, AnMcp!RefreshToken
  <2> QED
    BY <2>1, <2>2, <2>3, <2>4
<1> QED
  BY <1>1, <1>2

LEMMA ConnectorTyped ==
  ASSUME AnMcp!McpTypeOK,
         AnMcp!EditConnector \/ AnMcp!ForgetInitialized \/ AnMcp!ForgetGrants \/ AnMcp!TokenChanges
  PROVE  AnMcp!McpTypeOK'
<1> USE DEF AnMcp!McpTypeOK
<1>1. a' \in AnMcp!Registries
  <2>1. CASE AnMcp!EditConnector
    <3>1. a.edits + 1 \in 0..MaxEdits
      BY <2>1, Bounds DEF AnMcp!Registries, AnMcp!EditConnector
    <3>2. PICK to \in {0, a.edits + 1} :
            a' = [a EXCEPT !.file = to, !.edits = @ + 1, !.forgetting = TRUE]
      BY <2>1 DEF AnMcp!EditConnector
    <3>3. to \in 0..MaxEdits
      BY <3>1, Bounds
    <3> QED
      BY <3>1, <3>2, <3>3 DEF AnMcp!Registries
  <2>2. CASE AnMcp!ForgetInitialized
    BY <2>2 DEF AnMcp!Registries, AnMcp!ForgetInitialized
  <2>3. CASE AnMcp!ForgetGrants
    BY <2>3 DEF AnMcp!Registries, AnMcp!ForgetGrants
  <2>4. CASE AnMcp!TokenChanges
    BY <2>4 DEF AnMcp!Registries, AnMcp!TokenChanges
  <2> QED
    BY <2>1, <2>2, <2>3, <2>4
<1>2. b' = b
  BY DEF AnMcp!EditConnector, AnMcp!ForgetInitialized, AnMcp!ForgetGrants, AnMcp!TokenChanges
<1> QED
  BY <1>1, <1>2

LEMMA McpStep ==
  ASSUME AnMcp!McpTypeOK, AnMcp!CallKeepsCard, AnMcp!RunsAsApproved, [AnMcp!McpNext]_AnMcp!mcpVars
  PROVE  AnMcp!McpTypeOK' /\ AnMcp!CallKeepsCard' /\ AnMcp!RunsAsApproved'
<1>1. ASSUME NEW x \in McpCalls,
             \/ AnMcp!BeginCall(x) \/ AnMcp!OpenCallCard(x) \/ AnMcp!DecideCall(x)
             \/ AnMcp!EnsureInitialized(x) \/ AnMcp!PostCall(x) \/ AnMcp!RefreshToken(x)
      PROVE  AnMcp!McpTypeOK' /\ AnMcp!CallKeepsCard' /\ AnMcp!RunsAsApproved'
  <2>1. AnMcp!McpTypeOK'
    BY <1>1, ToolCallsTyped
  <2> USE DEF AnMcp!McpTypeOK, AnMcp!ToolCalls, AnMcp!CallKeepsCard, AnMcp!At, AnMcp!Goes
  <2>2. CASE AnMcp!BeginCall(x) \/ AnMcp!EnsureInitialized(x)
    <3>1. PICK stage \in {"granted", "over", "posts"} :
            b' = [b EXCEPT ![x].stage = stage] /\ (stage = "posts" => AnMcp!At(x, "initialises"))
      BY <2>2 DEF AnMcp!BeginCall, AnMcp!EnsureInitialized
    <3>2. AnMcp!CallKeepsCard'
      BY <2>2, <3>1 DEF AnMcp!BeginCall, AnMcp!EnsureInitialized
    <3>3. AnMcp!RunsAsApproved'
      BY <3>1 DEF AnMcp!RunsAsApproved
    <3> QED
      BY <2>1, <3>2, <3>3
  <2>3. CASE AnMcp!OpenCallCard(x)
    <3>1. AnMcp!CallKeepsCard'
      BY <2>3 DEF AnMcp!OpenCallCard
    <3>2. AnMcp!RunsAsApproved'
      BY <2>3 DEF AnMcp!RunsAsApproved, AnMcp!OpenCallCard
    <3> QED
      BY <2>1, <3>1, <3>2
  <2>4. CASE AnMcp!DecideCall(x)
    <3>1. AnMcp!CallKeepsCard'
      BY <2>4 DEF AnMcp!DecideCall
    <3>2. AnMcp!RunsAsApproved'
      BY <2>4 DEF AnMcp!RunsAsApproved, AnMcp!DecideCall
    <3> QED
      BY <2>1, <3>1, <3>2
  <2>5. CASE AnMcp!PostCall(x)
    <3>1. AnMcp!CallKeepsCard'
      BY <2>5 DEF AnMcp!PostCall
    <3>2. AnMcp!RunsAsApproved'
      BY <2>5 DEF AnMcp!RunsAsApproved, AnMcp!PostCall
    <3> QED
      BY <2>1, <3>1, <3>2
  <2>6. CASE AnMcp!RefreshToken(x)
    <3>1. AnMcp!CallKeepsCard'
      BY <2>6 DEF AnMcp!RefreshToken
    <3>2. AnMcp!RunsAsApproved'
      BY <2>6 DEF AnMcp!RunsAsApproved, AnMcp!RefreshToken
    <3> QED
      BY <2>1, <3>1, <3>2
  <2> QED
    BY <1>1, <2>2, <2>3, <2>4, <2>5, <2>6
<1>2. CASE AnMcp!EditConnector \/ AnMcp!ForgetInitialized \/ AnMcp!ForgetGrants \/ AnMcp!TokenChanges
  <2>1. b' = b
    BY <1>2 DEF AnMcp!EditConnector, AnMcp!ForgetInitialized, AnMcp!ForgetGrants, AnMcp!TokenChanges
  <2> QED
    BY <1>2, <2>1, ConnectorTyped DEF AnMcp!CallKeepsCard, AnMcp!RunsAsApproved
<1>3. CASE UNCHANGED AnMcp!mcpVars
  BY <1>3 DEF AnMcp!mcpVars, AnMcp!McpTypeOK, AnMcp!CallKeepsCard, AnMcp!RunsAsApproved
<1> QED
  BY <1>1, <1>2, <1>3 DEF AnMcp!McpNext

LEMMA HarnessTyped ==
  ASSUME AHarness!HarnessTypeOK, [AHarness!HarnessNext]_AHarness!harnessVars
  PROVE  AHarness!HarnessTypeOK'
<1> USE DEF AHarness!HarnessTypeOK, AHarness!HarnessSessions
<1>1. CASE AHarness!PromptHarness
  BY <1>1 DEF AHarness!PromptHarness
<1>2. CASE AHarness!ResolveCommand
  BY <1>2 DEF AHarness!ResolveCommand
<1>3. CASE AHarness!Prepare
  BY <1>3 DEF AHarness!Prepare
<1>4. CASE AHarness!ChildExits
  BY <1>4 DEF AHarness!ChildExits
<1>5. CASE AHarness!Collect
  <2> PICK answered \in BOOLEAN :
        /\ a' = [a EXCEPT !.stage = "settled", !.busy = FALSE, !.active = FALSE,
                   !.turns = IF answered /\ @ < MaxTurns THEN @ + 1 ELSE @]
        /\ b' = "none"
    BY <1>5 DEF AHarness!Collect
  <2>1. (IF answered /\ a.turns < MaxTurns THEN a.turns + 1 ELSE a.turns) \in 0..MaxTurns
    BY Bounds
  <2> QED
    BY <2>1
<1>6. CASE AHarness!AbortHarness
  BY <1>6 DEF AHarness!AbortHarness, AHarness!Aborted0, AHarness!ToldToStop
<1>7. CASE AHarness!DisposeHarness
  BY <1>7 DEF AHarness!DisposeHarness, AHarness!Aborted0, AHarness!ToldToStop
<1>8. CASE UNCHANGED AHarness!harnessVars
  BY <1>8 DEF AHarness!harnessVars
<1> QED
  BY <1>1, <1>2, <1>3, <1>4, <1>5, <1>6, <1>7, <1>8 DEF AHarness!HarnessNext

LEMMA HarnessStep ==
  ASSUME AHarness!HarnessTypeOK, AHarness!ChildIsCollected, AHarness!HarnessStops,
         [AHarness!HarnessNext]_AHarness!harnessVars
  PROVE  AHarness!HarnessTypeOK' /\ AHarness!ChildIsCollected' /\ AHarness!HarnessStops'
<1> USE DEF AHarness!HarnessTypeOK, AHarness!HarnessSessions, AHarness!ChildIsCollected, AHarness!HarnessStops
<1>1. CASE AHarness!PromptHarness
  BY <1>1, HarnessTyped DEF AHarness!PromptHarness
<1>2. CASE AHarness!ResolveCommand
  BY <1>2, HarnessTyped DEF AHarness!ResolveCommand
<1>3. CASE AHarness!Prepare
  BY <1>3, HarnessTyped DEF AHarness!Prepare
<1>4. CASE AHarness!ChildExits
  BY <1>4, HarnessTyped DEF AHarness!ChildExits
<1>5. CASE AHarness!Collect
  BY <1>5, HarnessTyped DEF AHarness!Collect
<1>6. CASE AHarness!AbortHarness
  BY <1>6, HarnessTyped DEF AHarness!AbortHarness, AHarness!Aborted0, AHarness!ToldToStop
<1>7. CASE AHarness!DisposeHarness
  BY <1>7, HarnessTyped DEF AHarness!DisposeHarness, AHarness!Aborted0, AHarness!ToldToStop
<1>8. CASE UNCHANGED AHarness!harnessVars
  BY <1>8 DEF AHarness!harnessVars
<1> QED
  BY <1>1, <1>2, <1>3, <1>4, <1>5, <1>6, <1>7, <1>8 DEF AHarness!HarnessNext

LEMMA R1Typed ==
  ASSUME AnR1!R1TypeOK, AnR1!OneQuestion, [AnR1!R1Next]_AnR1!r1Vars
  PROVE  AnR1!R1TypeOK'
<1> USE Bounds DEF AnR1!R1TypeOK
<1>1. CASE AnR1!ParseInput \/ AnR1!LoopResumes \/ AnR1!Stop \/ AnR1!FinishRun
  <2>1. a' \in AnR1!Runs
    BY <1>1 DEF AnR1!Runs, AnR1!ParseInput, AnR1!LoopResumes, AnR1!Stop, AnR1!FinishRun
  <2> QED
    BY <1>1, <2>1 DEF AnR1!ParseInput, AnR1!LoopResumes, AnR1!Stop, AnR1!FinishRun
<1>2. CASE AnR1!Invoke
  <2>1. a.calls + 1 \in 0..MaxAsks
    BY <1>2 DEF AnR1!Invoke, AnR1!Runs
  <2>2. a' \in AnR1!Runs
    BY <1>2, <2>1 DEF AnR1!Invoke, AnR1!Runs
  <2>3. b' \in AnR1!Gateways
    BY <1>2 DEF AnR1!Invoke, AnR1!Gateways
  <2> QED
    BY <2>2, <2>3
<1>3. CASE AnR1!CoreCalls
  <2>1. b.spent + 1 \in 0..MaxAsks
    BY <1>3 DEF AnR1!CoreCalls, AnR1!OneQuestion, AnR1!Runs
  <2>2. b' \in AnR1!Gateways
    BY <1>3, <2>1 DEF AnR1!CoreCalls, AnR1!Gateways
  <2> QED
    BY <1>3, <2>2 DEF AnR1!CoreCalls
<1>4. CASE AnR1!ClientExits
  <2>1. b' \in AnR1!Gateways
    BY <1>4 DEF AnR1!ClientExits, AnR1!Gateways
  <2> QED
    BY <1>4, <2>1 DEF AnR1!ClientExits
<1>5. CASE AnR1!GatewaySettles
  <2>1. a' \in AnR1!Runs
    BY <1>5 DEF AnR1!GatewaySettles, AnR1!Runs
  <2>2. b' \in AnR1!Gateways
    BY <1>5 DEF AnR1!GatewaySettles, AnR1!Gateways
  <2> QED
    BY <2>1, <2>2
<1>6. CASE UNCHANGED AnR1!r1Vars
  BY <1>6 DEF AnR1!r1Vars
<1> QED
  BY <1>1, <1>2, <1>3, <1>4, <1>5, <1>6 DEF AnR1!R1Next

LEMMA R1Step ==
  ASSUME AnR1!R1TypeOK, AnR1!OneQuestion, AnR1!OneModelCall, [AnR1!R1Next]_AnR1!r1Vars
  PROVE  AnR1!R1TypeOK' /\ AnR1!OneQuestion' /\ AnR1!OneModelCall'
<1>0. AnR1!R1TypeOK'
  BY R1Typed
<1> USE DEF AnR1!R1TypeOK, AnR1!Runs, AnR1!Gateways, AnR1!OneQuestion, AnR1!OneModelCall
<1>1. CASE AnR1!ParseInput \/ AnR1!LoopResumes \/ AnR1!Stop
  BY <1>0, <1>1 DEF AnR1!ParseInput, AnR1!LoopResumes, AnR1!Stop
<1>2. CASE AnR1!Invoke
  <2>1. CASE a.calls = 0 /\ ~a.aborted
    <3>0. /\ a' = [a EXCEPT !.stage = "calls", !.calls = @ + 1]
          /\ b' = [b EXCEPT !.client = "runs", !.settled = FALSE, !.asked = FALSE]
      BY <1>2, <2>1 DEF AnR1!Invoke
    <3>1. AnR1!OneQuestion'
      <4>1. b.spent = 0 /\ a.received = FALSE /\ a.outcome = "none"
        BY <1>2, <2>1 DEF AnR1!Invoke
      <4>2. a'.calls = 1 /\ a'.received = FALSE /\ a'.outcome = "none"
        BY <2>1, <3>0, <4>1
      <4>3. b'.spent = 0 /\ b'.asked = FALSE
        BY <3>0, <4>1
      <4> QED
        BY <4>2, <4>3
    <3>2. AnR1!OneModelCall'
      BY <1>2, <2>1 DEF AnR1!Invoke
    <3> QED
      BY <1>0, <3>1, <3>2
  <2>2. CASE ~(a.calls = 0 /\ ~a.aborted)
    <3>1. b' = b /\ a' = [a EXCEPT !.calls = @ + 1, !.failed = TRUE]
      BY <1>2, <2>2 DEF AnR1!Invoke
    <3>2. AnR1!OneQuestion'
      BY <3>1, <1>2, <2>2, Bounds DEF AnR1!Invoke
    <3>3. AnR1!OneModelCall'
      BY <3>1
    <3> QED
      BY <1>0, <3>2, <3>3
  <2> QED
    BY <2>1, <2>2
<1>3. CASE AnR1!CoreCalls
  BY <1>0, <1>3 DEF AnR1!CoreCalls
<1>4. CASE AnR1!ClientExits
  BY <1>0, <1>4 DEF AnR1!ClientExits
<1>5. CASE AnR1!GatewaySettles
  BY <1>0, <1>5 DEF AnR1!GatewaySettles
<1>6. CASE AnR1!FinishRun
  BY <1>0, <1>6 DEF AnR1!FinishRun
<1>7. CASE UNCHANGED AnR1!r1Vars
  BY <1>7 DEF AnR1!r1Vars
<1> QED
  BY <1>1, <1>2, <1>3, <1>4, <1>5, <1>6, <1>7 DEF AnR1!R1Next

\* What each engine keeps: its types, why its property holds, and the property.
McpInv == AnMcp!McpTypeOK /\ AnMcp!CallKeepsCard /\ AnMcp!RunsAsApproved
HarnessInv == AHarness!HarnessTypeOK /\ AHarness!ChildIsCollected /\ AHarness!HarnessStops
R1Inv == AnR1!R1TypeOK /\ AnR1!OneQuestion /\ AnR1!OneModelCall

LEMMA McpStart ==
  ASSUME AnMcp!McpInit
  PROVE  McpInv
<1> DEFINE zero == 0
           new == [stage |-> "new", connector |-> zero, card |-> zero, approved |-> FALSE, attempt |-> zero,
                   ran |-> zero, at |-> zero]
<1>1. zero \in 0..MaxEdits /\ zero \in 0..1 /\ zero \in 0..2 /\ 1 \in 0..MaxEdits /\ ~ (zero > 0)
  BY Bounds
<1>2. /\ b = [x \in McpCalls |-> new]
      /\ a \in [file: {zero, 1}, edits: {1}, forgetting: {FALSE}, granted: {TRUE}, initialized: {FALSE}, token: BOOLEAN]
  BY DEF AnMcp!McpInit
<1> HIDE DEF zero
<1>3. /\ new \in AnMcp!ToolCalls /\ new.stage = "new" /\ new.ran = zero /\ new.connector = new.card
  BY <1>1 DEF AnMcp!ToolCalls
<1>4. a \in AnMcp!Registries
  BY <1>1, <1>2 DEF AnMcp!Registries
<1> HIDE DEF new
<1>5. b \in [McpCalls -> AnMcp!ToolCalls] /\ \A x \in McpCalls : b[x] = new
  BY <1>2, <1>3
<1>6. AnMcp!CallKeepsCard
  BY <1>3, <1>5 DEF AnMcp!CallKeepsCard, zero
<1>7. AnMcp!RunsAsApproved
  BY <1>1, <1>3, <1>5 DEF AnMcp!RunsAsApproved
<1> QED
  BY <1>4, <1>5, <1>6, <1>7 DEF McpInv, AnMcp!McpTypeOK

LEMMA HarnessStart ==
  ASSUME AHarness!HarnessInit
  PROVE  HarnessInv
<1>1. 0 \in 0..MaxTurns
  BY Bounds
<1> QED
  BY <1>1 DEF AHarness!HarnessInit, HarnessInv, AHarness!HarnessTypeOK, AHarness!HarnessSessions,
              AHarness!ChildIsCollected, AHarness!HarnessStops

LEMMA R1Start ==
  ASSUME AnR1!R1Init
  PROVE  R1Inv
<1> DEFINE zero == 0
<1>1. zero \in 0..MaxAsks /\ zero = 0 /\ zero <= 1
  BY Bounds
<1>2. /\ a \in [stage: {"reads"}, engine: {"pi", "deepseek-harness"}, calls: {zero},
                aborted: {FALSE}, received: {FALSE}, failed: {FALSE}, outcome: {"none"}]
      /\ b = [client |-> "none", settled |-> FALSE, asked |-> FALSE, spent |-> zero]
  BY DEF AnR1!R1Init
<1> HIDE DEF zero
<1>3. a \in AnR1!Runs /\ a.received = FALSE /\ a.outcome = "none"
  BY <1>1, <1>2 DEF AnR1!Runs
<1>4. b \in AnR1!Gateways /\ b.client = "none" /\ b.asked = FALSE /\ b.spent = zero
  BY <1>1, <1>2 DEF AnR1!Gateways
<1>5. AnR1!OneQuestion /\ AnR1!OneModelCall
  BY <1>1, <1>3, <1>4 DEF AnR1!OneQuestion, AnR1!OneModelCall
<1> QED
  BY <1>3, <1>4, <1>5 DEF R1Inv, AnR1!R1TypeOK

-----------------------------------------------------------------------------
(* The mail cursor.                                                        *)

\* The next message a fetch deals with is the first it has not got to.
LEMMA NextIsHandled ==
  ASSUME AMail!MailTypeOK, AMail!CursorsBehind,
         NEW w \in Writers, NEW u \in AMail!Uids, AMail!NextUid(w, u), AMail!Here(w)
  PROVE  /\ b[w].pos < u /\ u < a.next
         /\ \A v \in a.box : v <= u => v \in a.handled \/ v <= a.kept \/ v = u
BY Bounds DEF AMail!MailTypeOK, AMail!CursorsBehind, AMail!Behind, AMail!NextUid, AMail!Uids, AMail!Here

LEMMA CursorsAreNumbers ==
  ASSUME AMail!MailTypeOK
  PROVE  /\ a.next \in Nat /\ a.file.last \in Nat /\ a.kept \in Nat /\ a.box \subseteq Nat
         /\ a.file \in AMail!Accounts
         /\ \A w \in Writers : b[w].pos \in Nat /\ b[w].account.last \in Nat /\ b[w].account \in AMail!Accounts
BY Bounds DEF AMail!MailTypeOK, AMail!Accounts, AMail!Uids

LEMMA MailTyped ==
  ASSUME AMail!MailTypeOK, [AMail!MailNext]_AMail!mailVars
  PROVE  AMail!MailTypeOK'
<1> USE Bounds DEF AMail!MailTypeOK, AMail!Uids
<1>0. AMail!NewAccount \in AMail!Accounts
  BY DEF AMail!NewAccount, AMail!Accounts
<1>1. ASSUME NEW w \in Writers, AMail!BeginFetch(w) \/ AMail!OpenSettings(w)
      PROVE  AMail!MailTypeOK'
  <2>1. a.file \in AMail!Accounts /\ a.file.last \in 0..MaxUid
    BY DEF AMail!Accounts
  <2> QED
    BY <1>1, <2>1 DEF AMail!BeginFetch, AMail!OpenSettings
<1>2. ASSUME NEW w \in Writers, AMail!EndFetch(w) \/ AMail!PersistAccounts(w) \/ AMail!CloseSettings(w)
      PROVE  AMail!MailTypeOK'
  BY <1>0, <1>2 DEF AMail!EndFetch, AMail!PersistAccounts, AMail!CloseSettings, AMail!Idle
<1>3. ASSUME NEW w \in Writers, NEW u \in AMail!Uids, AMail!SaveMessage(w, u) \/ AMail!PassMessage(w, u)
      PROVE  AMail!MailTypeOK'
  <2>1. [b[w].account EXCEPT !.last = u] \in AMail!Accounts
    BY DEF AMail!Accounts
  <2>2. a' = [a EXCEPT !.handled = IF AMail!Here(w) THEN @ \cup {u} ELSE @]
    BY <1>3 DEF AMail!SaveMessage, AMail!PassMessage
  <2>3. \/ b' = [b EXCEPT ![w].pos = u, ![w].account = [b[w].account EXCEPT !.last = u]]
        \/ b' = [b EXCEPT ![w].pos = u]
    BY <1>3 DEF AMail!SaveMessage, AMail!PassMessage
  <2> QED
    BY <2>1, <2>2, <2>3
<1>4. ASSUME NEW w \in Writers, NEW here \in BOOLEAN, NEW last \in 0..MaxUid, AMail!EditAccount(w, here, last)
      PROVE  AMail!MailTypeOK'
  <2> DEFINE edited == [here |-> here, last |-> last]
             carried == here /\ ~AMail!Here(w) /\ last > a.kept
  <2>1. edited \in AMail!Accounts
    BY <1>4 DEF AMail!Accounts
  <2>2. /\ a' = [a EXCEPT !.file = edited, !.kept = IF carried THEN last ELSE @]
        /\ b' = [b EXCEPT ![w].account = edited]
    BY <1>4 DEF AMail!EditAccount
  <2> HIDE DEF edited, carried
  <2> QED
    BY <1>4, <2>1, <2>2
<1>5. CASE AMail!FetchesDie
  BY <1>0, <1>5 DEF AMail!FetchesDie, AMail!Idle
<1>6. CASE AMail!MailArrives
  <2>1. a.next \in AMail!Uids /\ a.next + 1 \in 1..(MaxUid + 1)
    BY <1>6 DEF AMail!MailArrives
  <2>2. a.box \cup {a.next} \in SUBSET AMail!Uids
    BY <2>1
  <2> QED
    BY <1>6, <2>1, <2>2 DEF AMail!MailArrives
<1>7. CASE \E u \in a.box : AMail!RemoveMail(u)
  BY <1>7 DEF AMail!RemoveMail
<1>8. CASE AMail!Renumber
  <2>1. (IF a.next > a.kept THEN a.next - 1 ELSE a.kept) \in 0..MaxUid /\ 1 \in 1..(MaxUid + 1)
    OBVIOUS
  <2> QED
    BY <1>8, <2>1 DEF AMail!Renumber
<1>9. CASE UNCHANGED AMail!mailVars
  BY <1>9 DEF AMail!mailVars
<1> QED
  BY <1>1, <1>2, <1>3, <1>4, <1>5, <1>6, <1>7, <1>8, <1>9 DEF AMail!MailNext

\* A cursor below which all is dealt with stays so, if the mailbox gains only
\* what is above it, and nothing is undone.
LEMMA BehindStays ==
  ASSUME AMail!MailTypeOK, AMail!MailTypeOK', AMail!CursorsBehind, NEW cursor \in Nat, AMail!Behind(cursor),
         a.handled \subseteq a'.handled, a.kept <= a'.kept, a.next <= a'.next,
         \A u \in a'.box : u \in a.box \/ u = a.next
  PROVE  AMail!Behind(cursor)'
<1>1. /\ a.next \in Nat /\ a.kept \in Nat /\ a'.next \in Nat /\ a'.kept \in Nat
      /\ a'.box \subseteq Nat
  BY CursorsAreNumbers, Bounds DEF AMail!MailTypeOK, AMail!Uids
<1>2. cursor < a'.next \/ cursor <= a'.kept
  BY <1>1 DEF AMail!Behind
<1>3. ASSUME NEW u \in a'.box, u <= cursor
      PROVE  u \in a'.handled \/ u <= a'.kept
  BY <1>1, <1>3 DEF AMail!Behind
<1> QED
  BY <1>2, <1>3 DEF AMail!Behind

\* Before the first message nothing is skipped.
LEMMA NewIsBehind ==
  ASSUME AMail!MailTypeOK
  PROVE  AMail!Behind(AMail!NewAccount.last) /\ AMail!Behind(0)
BY Bounds DEF AMail!MailTypeOK, AMail!Behind, AMail!NewAccount, AMail!Uids

LEMMA CursorsStayBehind ==
  ASSUME AMail!MailTypeOK, AMail!CursorsBehind, [AMail!MailNext]_AMail!mailVars
  PROVE  AMail!CursorsBehind'
<1>0. /\ a.next \in Nat /\ a.file.last \in Nat /\ a.kept \in Nat /\ a.box \subseteq Nat
      /\ \A w \in Writers : b[w].pos \in Nat /\ b[w].account.last \in Nat
      /\ AMail!MailTypeOK'
  BY CursorsAreNumbers, MailTyped
<1>1. ASSUME NEW w \in Writers, AMail!BeginFetch(w) \/ AMail!OpenSettings(w)
      PROVE  AMail!CursorsBehind'
  <2>1. /\ a' = a /\ \A v \in Writers \ {w} : b'[v] = b[v]
        /\ b'[w].account = a.file /\ (b'[w].at = "reads" => b'[w].pos = a.file.last)
    BY <1>1 DEF AMail!MailTypeOK, AMail!BeginFetch, AMail!OpenSettings
  <2> QED
    BY <2>1 DEF AMail!CursorsBehind, AMail!Behind
<1>2. ASSUME NEW w \in Writers, AMail!EndFetch(w) \/ AMail!CloseSettings(w)
      PROVE  AMail!CursorsBehind'
  <2>1. /\ a' = a /\ \A v \in Writers \ {w} : b'[v] = b[v]
        /\ b'[w].at # "reads" /\ b'[w].account \in {b[w].account, AMail!NewAccount}
    BY <1>2 DEF AMail!MailTypeOK, AMail!EndFetch, AMail!CloseSettings, AMail!Idle
  <2> QED
    BY <2>1, NewIsBehind DEF AMail!CursorsBehind, AMail!Behind
<1>3. ASSUME NEW w \in Writers, AMail!PersistAccounts(w)
      PROVE  AMail!CursorsBehind'
  <2>1. /\ a' = [a EXCEPT !.file = b[w].account] /\ \A v \in Writers \ {w} : b'[v] = b[v]
        /\ b'[w].at # "reads" /\ b'[w].account = AMail!NewAccount
    BY <1>3 DEF AMail!MailTypeOK, AMail!PersistAccounts, AMail!Idle
  <2>2. a'.file = b[w].account /\ a'.box = a.box /\ a'.next = a.next /\ a'.kept = a.kept /\ a'.handled = a.handled
    BY <2>1 DEF AMail!MailTypeOK
  <2> QED
    BY <2>1, <2>2, NewIsBehind DEF AMail!CursorsBehind, AMail!Behind
<1>4. ASSUME NEW w \in Writers, NEW u \in AMail!Uids, AMail!SaveMessage(w, u) \/ AMail!PassMessage(w, u)
      PROVE  AMail!CursorsBehind'
  <2>1. /\ a' = [a EXCEPT !.handled = IF AMail!Here(w) THEN @ \cup {u} ELSE @]
        /\ \A v \in Writers \ {w} : b'[v] = b[v]
        /\ b'[w].pos = u /\ b'[w].account.here = b[w].account.here
        /\ b'[w].account.last \in {u, b[w].account.last}
    BY <1>4 DEF AMail!MailTypeOK, AMail!Accounts, AMail!SaveMessage, AMail!PassMessage
  <2>2. /\ a'.file = a.file /\ a'.box = a.box /\ a'.next = a.next /\ a'.kept = a.kept
        /\ a.handled \subseteq a'.handled /\ (AMail!Here(w) => u \in a'.handled)
    BY <2>1 DEF AMail!MailTypeOK
  <2>3. \A cursor \in Nat : AMail!Behind(cursor) => AMail!Behind(cursor)'
    BY <1>0, <2>2, BehindStays
  <2>4. AMail!Here(w) => AMail!Behind(u)'
    BY <1>0, <1>4, <2>2, NextIsHandled DEF AMail!SaveMessage, AMail!PassMessage, AMail!Behind
  <2>5. /\ \A v \in a'.box : v < a'.next
        /\ a'.file.here => AMail!Behind(a.file.last)'
    BY <1>0, <2>2, <2>3 DEF AMail!CursorsBehind
  <2>6. ASSUME NEW v \in Writers, b'[v].account.here
        PROVE  /\ b'[v].account.last \in Nat /\ AMail!Behind(b[v].account.last)'
               /\ b'[v].at = "reads" => AMail!Behind(b[v].pos)'
    <3>1. CASE v = w
      <4>1. AMail!Here(w) /\ b[w].at = "reads" /\ AMail!Behind(u)' /\ u \in Nat
        BY <1>4, <2>1, <2>4, <2>6, <3>1, Bounds DEF AMail!Here, AMail!SaveMessage, AMail!PassMessage, AMail!NextUid, AMail!Uids
      <4>2. b[w].account.last \in Nat /\ AMail!Behind(b[w].account.last)
        BY <1>0, <4>1 DEF AMail!CursorsBehind, AMail!Here
      <4>3. \A cursor \in {u, b[w].account.last} : AMail!Behind(cursor)'
        BY <2>3, <4>1, <4>2
      <4> QED
        BY <2>1, <3>1, <4>1, <4>2, <4>3 DEF AMail!Behind
    <3>2. CASE v # w
      BY <1>0, <2>1, <2>3, <2>6, <3>2 DEF AMail!CursorsBehind, AMail!Behind
    <3> QED
      BY <3>1, <3>2
  <2> QED
    BY <2>2, <2>5, <2>6 DEF AMail!CursorsBehind
<1>5. ASSUME NEW w \in Writers, NEW here \in BOOLEAN, NEW last \in 0..MaxUid, AMail!EditAccount(w, here, last)
      PROVE  AMail!CursorsBehind'
  <2> DEFINE edited == [here |-> here, last |-> last]
             carried == here /\ ~AMail!Here(w) /\ last > a.kept
  <2>1. /\ a' = [a EXCEPT !.file = edited, !.kept = IF carried THEN last ELSE @]
        /\ b' = [b EXCEPT ![w].account = edited] /\ b[w].at = "edits" /\ last \in {0, b[w].account.last}
    BY <1>5 DEF AMail!EditAccount
  <2>2. /\ a'.file = edited /\ a'.box = a.box /\ a'.next = a.next /\ a'.handled = a.handled
        /\ a'.kept = IF carried THEN last ELSE a.kept
        /\ b'[w].account = edited /\ b'[w].at = "edits" /\ \A v \in Writers \ {w} : b'[v] = b[v]
    BY <2>1 DEF AMail!MailTypeOK
  <2>3. a.kept <= a'.kept /\ last \in Nat
    BY <1>0, <2>2, Bounds
  <2>4. \A cursor \in Nat : AMail!Behind(cursor) => AMail!Behind(cursor)'
    BY <1>0, <2>2, <2>3, BehindStays
  <2>5. here => AMail!Behind(last)'
    <3>1. CASE here /\ AMail!Here(w) /\ last = b[w].account.last
      BY <2>3, <2>4, <3>1 DEF AMail!CursorsBehind, AMail!Here
    <3>2. CASE here /\ last = 0
      BY <1>0, <2>2, <3>2, NewIsBehind DEF AMail!Behind
    <3>3. CASE here /\ ~AMail!Here(w)
      BY <1>0, <2>2, <2>3, <3>3 DEF AMail!Behind
    <3> QED
      BY <2>1, <3>1, <3>2, <3>3
  <2>6. \A v \in a'.box : v < a'.next
    BY <2>2 DEF AMail!CursorsBehind
  <2>7. ASSUME NEW v \in Writers, b'[v].account.here
        PROVE  /\ AMail!Behind(b[v].account.last)'
               /\ b'[v].at = "reads" => AMail!Behind(b[v].pos)'
    <3>1. CASE v = w
      BY <2>2, <2>5, <2>7, <3>1 DEF AMail!Behind
    <3>2. CASE v # w
      BY <1>0, <2>2, <2>4, <2>7, <3>2 DEF AMail!CursorsBehind, AMail!Behind
    <3> QED
      BY <3>1, <3>2
  <2>8. a'.file.here => AMail!Behind(a.file.last)'
    BY <2>2, <2>5 DEF AMail!Behind
  <2> QED
    BY <2>6, <2>7, <2>8 DEF AMail!CursorsBehind
<1>6. CASE AMail!FetchesDie
  <2>1. a' = a /\ \A v \in Writers : b'[v] = b[v] \/ (b'[v].at = "idle" /\ b'[v].account = AMail!NewAccount)
    BY <1>6 DEF AMail!FetchesDie, AMail!Idle
  <2> QED
    BY <2>1, NewIsBehind DEF AMail!CursorsBehind, AMail!Behind
<1>7. CASE AMail!MailArrives \/ \E u \in a.box : AMail!RemoveMail(u)
  <2>1. /\ a'.file = a.file /\ a'.handled = a.handled /\ a'.kept = a.kept /\ a.next <= a'.next
        /\ \A u \in a'.box : u \in a.box \/ (u = a.next /\ a.next < a'.next)
        /\ b' = b
    <3>1. CASE AMail!MailArrives
      <4>1. /\ a'.file = a.file /\ a'.handled = a.handled /\ a'.kept = a.kept /\ b' = b
            /\ a'.next = a.next + 1 /\ a'.box = a.box \cup {a.next}
        BY <3>1 DEF AMail!MailTypeOK, AMail!MailArrives
      <4> QED
        BY <1>0, <4>1
    <3>2. CASE \E u \in a.box : AMail!RemoveMail(u)
      <4>1. /\ a'.file = a.file /\ a'.handled = a.handled /\ a'.kept = a.kept /\ b' = b
            /\ a'.next = a.next /\ a'.box \subseteq a.box
        BY <3>2 DEF AMail!MailTypeOK, AMail!RemoveMail
      <4> QED
        BY <1>0, <4>1
    <3> QED
      BY <1>7, <3>1, <3>2
  <2>2. \A cursor \in Nat : AMail!Behind(cursor) => AMail!Behind(cursor)'
    BY <1>0, <2>1, BehindStays
  <2>3. \A u \in a'.box : u < a'.next
    BY <1>0, <2>1, Bounds DEF AMail!CursorsBehind, AMail!MailTypeOK, AMail!Uids
  <2> QED
    BY <1>0, <2>1, <2>2, <2>3 DEF AMail!CursorsBehind
<1>8. CASE AMail!Renumber
  <2>1. /\ a'.file = a.file /\ a'.box = {} /\ a'.next = 1 /\ b' = b
        /\ a'.kept \in Nat /\ a.kept <= a'.kept /\ a.next - 1 <= a'.kept
    BY <1>0, <1>8 DEF AMail!MailTypeOK, AMail!Renumber
  <2>2. \A cursor \in Nat : AMail!Behind(cursor) => AMail!Behind(cursor)'
    BY <1>0, <2>1 DEF AMail!Behind
  <2> QED
    BY <1>0, <2>1, <2>2 DEF AMail!CursorsBehind
<1>9. CASE UNCHANGED AMail!mailVars
  BY <1>9 DEF AMail!mailVars, AMail!CursorsBehind, AMail!Behind
<1> QED
  BY <1>1, <1>2, <1>3, <1>4, <1>5, <1>6, <1>7, <1>8, <1>9 DEF AMail!MailNext

LEMMA MailStarts == AMail!MailInit => AMail!MailTypeOK /\ AMail!CursorsBehind
BY Bounds DEF AMail!MailInit, AMail!MailTypeOK, AMail!Idle, AMail!NewAccount, AMail!Accounts, AMail!Uids,
              AMail!CursorsBehind, AMail!Behind

LEMMA MailIsHandled == AMail!CursorsBehind => AMail!MailNotSkipped
BY DEF AMail!CursorsBehind, AMail!Behind, AMail!MailNotSkipped

-----------------------------------------------------------------------------
(* The agent memory.                                                       *)

\* What the log and the old files hold under an id.
LEMMA EventTyped ==
  ASSUME AMemory!MemoryTypeOK, NEW r \in AMemory!Records
  PROVE  /\ a.events[r] \in AMemory!Events /\ AMemory!OldLine(r) \in AMemory!Lines
         /\ a.events[r].status \in AMemory!Statuses \cup {"none"} /\ a.events[r].said \in Facts \cup {NoFact}
         /\ a.events[r].status = "none" => a.events[r] = AMemory!NoEvent
         /\ a.events[r].status = "confirmed" => a.events[r].said \in Facts
         /\ AMemory!OldLine(r).status \in {"none", "candidate", "confirmed"}
         /\ AMemory!OldLine(r).status # "none" => AMemory!OldLine(r).said \in Facts
<1>1. a.events[r] \in AMemory!Events
  BY DEF AMemory!MemoryTypeOK, AMemory!Memories
<1>2. AMemory!OldLine(r) \in AMemory!Lines
  BY DEF AMemory!MemoryTypeOK, AMemory!Memories, AMemory!OldLine, AMemory!Lines
<1>3. /\ a.events[r].status \in AMemory!Statuses \cup {"none"} /\ a.events[r].said \in Facts \cup {NoFact}
      /\ a.events[r].status = "none" => a.events[r] = AMemory!NoEvent
      /\ a.events[r].status = "confirmed" => a.events[r].said \in Facts
  BY <1>1 DEF AMemory!Events, AMemory!NoEvent, AMemory!Statuses
<1>4. /\ AMemory!OldLine(r).status \in {"none", "candidate", "confirmed"}
      /\ AMemory!OldLine(r).status # "none" => AMemory!OldLine(r).said \in Facts
  BY <1>2 DEF AMemory!Lines, AMemory!NoLine
<1> QED
  BY <1>1, <1>2, <1>3, <1>4

\* A record the memory has says something.
LEMMA SaysAFact ==
  ASSUME AMemory!MemoryTypeOK, NEW r \in AMemory!Records, AMemory!Load(r) # "none"
  PROVE  AMemory!Says(r) \in Facts
<1> DEFINE event == a.events[r]
           line == AMemory!OldLine(r)
<1>1. /\ event.said \in Facts \cup {NoFact} /\ (line.status # "none" => line.said \in Facts)
      /\ event.status = "confirmed" => event.said \in Facts
      /\ event.said = NoFact => event.status \in {"none", "tombstoned"}
  <2>1. event \in AMemory!Events
    BY EventTyped
  <2>2. event.said = NoFact => event.status \in {"none", "tombstoned"}
    BY <2>1, ServicesAssumption DEF AMemory!Events, AMemory!NoEvent, AMemory!Statuses
  <2> QED
    BY <2>2, EventTyped
<1>2. event.said = NoFact => line.status # "none"
  BY <1>1 DEF AMemory!Load
<1> QED
  BY <1>1, <1>2 DEF AMemory!Says

\* A confirmed record is one by its last event, or without any by an old line.
LEMMA ConfirmedSays ==
  ASSUME AMemory!MemoryTypeOK, NEW r \in AMemory!Records, AMemory!Load(r) = "confirmed"
  PROVE  \/ a.events[r].status = "confirmed" /\ AMemory!Says(r) = a.events[r].said
         \/ /\ a.events[r] = AMemory!NoEvent /\ AMemory!OldLine(r).status = "confirmed"
            /\ AMemory!Says(r) = AMemory!OldLine(r).said
<1>1. CASE a.events[r].status = "none"
  <2>1. a.events[r] = AMemory!NoEvent /\ a.events[r].said = NoFact
    BY <1>1, EventTyped DEF AMemory!NoEvent
  <2> QED
    BY <1>1, <2>1 DEF AMemory!Load, AMemory!Says
<1>2. CASE a.events[r].status # "none"
  <2>1. a.events[r].status = "confirmed"
    BY <1>2 DEF AMemory!Load
  <2>2. a.events[r].said # NoFact
    BY <2>1, EventTyped, ServicesAssumption
  <2> QED
    BY <2>1, <2>2 DEF AMemory!Says
<1> QED
  BY <1>1, <1>2

\* The other way round.
LEMMA SaidIsConfirmed ==
  ASSUME AMemory!MemoryTypeOK, NEW r \in AMemory!Records
  PROVE  /\ a.events[r].status = "confirmed" =>
              AMemory!Load(r) = "confirmed" /\ AMemory!Says(r) = a.events[r].said
         /\ a.events[r] = AMemory!NoEvent /\ AMemory!OldLine(r).status = "confirmed" =>
              AMemory!Load(r) = "confirmed" /\ AMemory!Says(r) = AMemory!OldLine(r).said
<1>1. ASSUME a.events[r].status = "confirmed"
      PROVE  AMemory!Load(r) = "confirmed" /\ AMemory!Says(r) = a.events[r].said
  <2>1. a.events[r].said # NoFact
    BY <1>1, EventTyped, ServicesAssumption
  <2> QED
    BY <1>1, <2>1 DEF AMemory!Load, AMemory!Says
<1>2. ASSUME a.events[r] = AMemory!NoEvent, AMemory!OldLine(r).status = "confirmed"
      PROVE  AMemory!Load(r) = "confirmed" /\ AMemory!Says(r) = AMemory!OldLine(r).said
  BY <1>2 DEF AMemory!NoEvent, AMemory!Load, AMemory!Says
<1> QED
  BY <1>1, <1>2

LEMMA LoggedIsNotConfirmed ==
  ASSUME AMemory!MemoryTypeOK, AMemory!RevocationIsLogged, AMemory!ConfirmedIsNotTaken
  PROVE  /\ a.revoked \cap AMemory!QueryConfirmed = {}
         /\ a.taken \cap AMemory!FactsOf(AMemory!QueryConfirmed) = {}
<1>1. ASSUME NEW r \in AMemory!QueryConfirmed
      PROVE  r \notin a.revoked /\ AMemory!Says(r) \notin a.taken
  <2>1. r \in AMemory!Records /\ AMemory!Load(r) = "confirmed"
    BY DEF AMemory!QueryConfirmed
  <2>2. a.events[r].status \in {"confirmed", "none"} /\ AMemory!Says(r) \notin a.taken
    BY <2>1, ConfirmedSays DEF AMemory!ConfirmedIsNotTaken, AMemory!NoEvent
  <2> QED
    BY <2>2 DEF AMemory!RevocationIsLogged
<1> QED
  BY <1>1 DEF AMemory!FactsOf

LEMMA LoggedIsRevoked ==
  ASSUME AMemory!MemoryTypeOK, AMemory!RevocationIsLogged, AMemory!ConfirmedIsNotTaken, AMemory!GivenWasNotTaken
  PROVE  AMemory!RevokedStaysRevoked
BY LoggedIsNotConfirmed DEF AMemory!GivenWasNotTaken, AMemory!RevokedStaysRevoked

LEMMA AppendTyped ==
  ASSUME AMemory!MemoryTypeOK, NEW r \in AMemory!Records, NEW event \in AMemory!Events,
         NEW revoked \in SUBSET AMemory!Records, NEW taken \in SUBSET Facts,
         AMemory!AppendEvent(r, event, revoked, taken)
  PROVE  /\ AMemory!MemoryTypeOK'
         /\ a'.events = [a.events EXCEPT ![r] = event] /\ a'.old = a.old
         /\ a'.revoked = revoked /\ a'.taken = taken
BY DEF AMemory!AppendEvent, AMemory!MemoryTypeOK, AMemory!Memories

\* What a change of the log by one event must give for the invariant to hold.
LEMMA AppendKeeps ==
  ASSUME AMemory!MemoryTypeOK, AMemory!RevocationIsLogged, AMemory!ConfirmedIsNotTaken,
         NEW r \in AMemory!Records, NEW event \in AMemory!Events,
         NEW revoked \in SUBSET AMemory!Records, NEW taken \in SUBSET Facts,
         AMemory!AppendEvent(r, event, revoked, taken),
         event # AMemory!NoEvent,
         revoked \subseteq a.revoked \cup {r},
         r \in revoked => event.status \in {"rejected", "tombstoned"},
         event.status = "confirmed" => event.said \notin taken,
         \A s \in AMemory!Records \ {r} : AMemory!Load(s) = "confirmed" =>
           AMemory!Says(s) \notin taken \/ AMemory!Says(s) \in a.taken
  PROVE  AMemory!MemoryTypeOK' /\ AMemory!RevocationIsLogged' /\ AMemory!ConfirmedIsNotTaken'
<1>1. /\ AMemory!MemoryTypeOK'
      /\ a'.events = [a.events EXCEPT ![r] = event] /\ a'.old = a.old
      /\ a'.revoked = revoked /\ a'.taken = taken
  BY AppendTyped
<1>2. a'.events[r] = event /\ \A s \in AMemory!Records \ {r} : a'.events[s] = a.events[s]
  BY <1>1 DEF AMemory!MemoryTypeOK, AMemory!Memories
<1>3. \A s \in AMemory!Records : AMemory!OldLine(s)' = AMemory!OldLine(s)
  BY <1>1 DEF AMemory!OldLine
<1>4. AMemory!RevocationIsLogged'
  BY <1>1, <1>2 DEF AMemory!RevocationIsLogged
<1>5. ASSUME NEW s \in AMemory!Records
      PROVE  /\ a'.events[s].status = "confirmed" => a'.events[s].said \notin taken
             /\ a'.events[s] = AMemory!NoEvent /\ AMemory!OldLine(s).status = "confirmed" =>
                  AMemory!OldLine(s).said \notin taken
  <2>1. CASE s = r
    BY <1>2, <2>1
  <2>2. CASE s # r
    BY <1>2, <2>2, SaidIsConfirmed DEF AMemory!ConfirmedIsNotTaken
  <2> QED
    BY <2>1, <2>2
<1>6. AMemory!ConfirmedIsNotTaken'
  BY <1>1, <1>3, <1>5 DEF AMemory!ConfirmedIsNotTaken
<1> QED
  BY <1>1, <1>4, <1>6

LEMMA MemoryKeeps ==
  ASSUME AMemory!MemoryTypeOK, AMemory!RevocationIsLogged, AMemory!ConfirmedIsNotTaken, AMemory!MemoryNext
  PROVE  AMemory!MemoryTypeOK' /\ AMemory!RevocationIsLogged' /\ AMemory!ConfirmedIsNotTaken'
<1>0. a.revoked \in SUBSET AMemory!Records /\ a.taken \in SUBSET Facts
  BY DEF AMemory!MemoryTypeOK, AMemory!Memories
<1>1. ASSUME NEW r \in AMemory!Records, AMemory!Propose(r)
      PROVE  AMemory!MemoryTypeOK' /\ AMemory!RevocationIsLogged' /\ AMemory!ConfirmedIsNotTaken'
  <2>1. PICK fact \in Facts :
          AMemory!AppendEvent(r, [status |-> "candidate", said |-> fact], a.revoked, a.taken)
    BY <1>1 DEF AMemory!Propose
  <2> DEFINE event == [status |-> "candidate", said |-> fact]
  <2>2. event \in AMemory!Events /\ event.status = "candidate" /\ event # AMemory!NoEvent
    BY DEF AMemory!Events, AMemory!Statuses, AMemory!NoEvent
  <2>3. r \notin a.revoked
    BY <1>1 DEF AMemory!Propose, AMemory!NoEvent, AMemory!RevocationIsLogged
  <2> HIDE DEF event
  <2>4. AMemory!AppendEvent(r, event, a.revoked, a.taken)
    BY <2>1 DEF event
  <2> QED
    BY <1>0, <2>2, <2>3, <2>4, AppendKeeps
<1>2. ASSUME NEW r \in AMemory!Records, AMemory!Confirm(r)
      PROVE  AMemory!MemoryTypeOK' /\ AMemory!RevocationIsLogged' /\ AMemory!ConfirmedIsNotTaken'
  <2>1. PICK said \in Facts :
          AMemory!AppendEvent(r, [status |-> "confirmed", said |-> said], a.revoked \ {r}, a.taken \ {said})
    BY <1>2 DEF AMemory!Confirm
  <2> DEFINE event == [status |-> "confirmed", said |-> said]
             revoked == a.revoked \ {r}
             taken == a.taken \ {said}
  <2>2. event \in AMemory!Events /\ event.status = "confirmed" /\ event.said \notin taken /\ event # AMemory!NoEvent
    BY <2>1 DEF AMemory!Events, AMemory!Statuses, AMemory!NoEvent
  <2>3. AMemory!AppendEvent(r, event, revoked, taken)
    BY <2>1
  <2>4. /\ revoked \in SUBSET AMemory!Records /\ taken \in SUBSET Facts
        /\ r \notin revoked /\ revoked \subseteq a.revoked /\ taken \subseteq a.taken
    BY <1>0
  <2> HIDE DEF event, revoked, taken
  <2> QED
    BY <2>2, <2>3, <2>4, AppendKeeps
<1>3. ASSUME NEW r \in AMemory!Records, NEW status \in {"rejected", "tombstoned"}, AMemory!Revoke(r, status)
      PROVE  AMemory!MemoryTypeOK' /\ AMemory!RevocationIsLogged' /\ AMemory!ConfirmedIsNotTaken'
  <2> DEFINE said == IF status = "tombstoned" THEN a.events[r].said ELSE AMemory!Says(r)
             event == [status |-> status, said |-> said]
             revoked == a.revoked \cup {r}
             taken == IF AMemory!SaidByAnother(r) THEN a.taken ELSE a.taken \cup {AMemory!Says(r)}
  <2>1. AMemory!Says(r) \in Facts /\ a.events[r].said \in Facts \cup {NoFact}
    BY <1>3, SaysAFact, EventTyped DEF AMemory!Revoke
  <2>2. event \in AMemory!Events /\ event.status = status /\ event # AMemory!NoEvent
    BY <2>1 DEF AMemory!Events, AMemory!Statuses, AMemory!NoEvent
  <2>3. AMemory!AppendEvent(r, event, revoked, taken)
    BY <1>3 DEF AMemory!Revoke
  <2>4. revoked \in SUBSET AMemory!Records /\ taken \in SUBSET Facts /\ revoked \subseteq a.revoked \cup {r}
    BY <1>0, <2>1
  <2>5. ASSUME NEW s \in AMemory!Records \ {r}, AMemory!Load(s) = "confirmed"
        PROVE  AMemory!Says(s) \notin taken \/ AMemory!Says(s) \in a.taken
    BY <2>5 DEF AMemory!SaidByAnother
  <2> HIDE DEF event, revoked, taken
  <2> QED
    BY <2>2, <2>3, <2>4, <2>5, AppendKeeps
<1>4. ASSUME NEW f \in AMemory!OldFiles, AMemory!EditOldFile(f)
      PROVE  AMemory!MemoryTypeOK' /\ AMemory!RevocationIsLogged' /\ AMemory!ConfirmedIsNotTaken'
  <2>1. PICK lines \in AMemory!Contents(f) :
          LET Stated == {r \in AMemory!OldContents(f) : /\ lines[r] # a.old[r] /\ lines[r].status = "confirmed"
                                                        /\ a.events[r] = AMemory!NoEvent} IN
          a' = [a EXCEPT !.old = [r \in OldRecords |-> IF r \in AMemory!OldContents(f) THEN lines[r] ELSE @[r]],
                         !.taken = @ \ {lines[r].said : r \in Stated}]
    BY <1>4 DEF AMemory!EditOldFile
  <2> DEFINE Stated == {r \in AMemory!OldContents(f) : /\ lines[r] # a.old[r] /\ lines[r].status = "confirmed"
                                                       /\ a.events[r] = AMemory!NoEvent}
             old == [r \in OldRecords |-> IF r \in AMemory!OldContents(f) THEN lines[r] ELSE a.old[r]]
             taken == a.taken \ {lines[r].said : r \in Stated}
  <2>2. a' = [a EXCEPT !.old = old, !.taken = taken]
    BY <2>1
  <2>3. /\ \A r \in AMemory!OldContents(f) : lines[r] \in AMemory!Lines
        /\ AMemory!OldContents(f) \subseteq OldRecords
    BY DEF AMemory!Contents, AMemory!OldContents
  <2>4. old \in [OldRecords -> AMemory!Lines] /\ taken \in SUBSET Facts
    BY <1>0, <2>3 DEF AMemory!MemoryTypeOK, AMemory!Memories
  <2>5. \A r \in OldRecords :
          /\ old[r] = a.old[r] \/ (r \in AMemory!OldContents(f) /\ old[r] = lines[r] /\ lines[r] # a.old[r])
          /\ r \in AMemory!OldContents(f) /\ lines[r] # a.old[r] /\ lines[r].status = "confirmed"
               /\ a.events[r] = AMemory!NoEvent => lines[r].said \notin taken
    OBVIOUS
  <2>6. taken \subseteq a.taken
    OBVIOUS
  <2> HIDE DEF Stated, old, taken
  <2>7. AMemory!MemoryTypeOK'
    BY <2>2, <2>4 DEF AMemory!MemoryTypeOK, AMemory!Memories
  <2>8. a'.events = a.events /\ a'.revoked = a.revoked /\ a'.old = old /\ a'.taken = taken
    BY <2>2 DEF AMemory!MemoryTypeOK, AMemory!Memories
  <2>9. AMemory!RevocationIsLogged'
    BY <2>8 DEF AMemory!RevocationIsLogged
  <2>10. ASSUME NEW r \in AMemory!Records
         PROVE  /\ a.events[r].status = "confirmed" => a.events[r].said \notin taken
                /\ a.events[r] = AMemory!NoEvent /\ AMemory!OldLine(r)'.status = "confirmed" =>
                     AMemory!OldLine(r)'.said \notin taken
    <3>1. CASE r \in OldRecords
      BY <2>5, <2>6, <2>8, <3>1 DEF AMemory!OldLine, AMemory!ConfirmedIsNotTaken
    <3>2. CASE r \notin OldRecords
      BY <2>6, <3>2 DEF AMemory!OldLine, AMemory!NoLine, AMemory!ConfirmedIsNotTaken
    <3> QED
      BY <3>1, <3>2
  <2> QED
    BY <2>7, <2>8, <2>9, <2>10 DEF AMemory!ConfirmedIsNotTaken
<1>5. CASE AMemory!CutOff
  <2>1. AMemory!NoEvents \in [AMemory!Records -> AMemory!Events]
    BY DEF AMemory!NoEvents, AMemory!Events
  <2>2. AMemory!MemoryTypeOK' /\ a'.revoked = {} /\ a'.taken = {}
    BY <1>5, <2>1 DEF AMemory!CutOff, AMemory!MemoryTypeOK, AMemory!Memories
  <2> QED
    BY <2>2 DEF AMemory!RevocationIsLogged, AMemory!ConfirmedIsNotTaken
<1> QED
  BY <1>1, <1>2, <1>3, <1>4, <1>5 DEF AMemory!MemoryNext

LEMMA ContextTyped ==
  ASSUME AMemory!MemoryTypeOK, AMemory!ContextTypeOK, AMemory!ContextNext
  PROVE  AMemory!ContextTypeOK'
<1> USE DEF AMemory!ContextTypeOK
<1>1. CASE \E ok \in BOOLEAN : AMemory!BuildPersonalContext(ok)
  BY <1>1 DEF AMemory!BuildPersonalContext, AMemory!NoContext
<1>2. CASE \E ok \in BOOLEAN : AMemory!ReadSharedMemory(ok)
  <2> PICK ok \in BOOLEAN : AMemory!ReadSharedMemory(ok)
    BY <1>2
  <2> DEFINE facts == AMemory!FactsOf(AMemory!QueryConfirmed)
  <2>1. facts \in SUBSET Facts /\ a.taken \in SUBSET Facts
    BY SaysAFact DEF AMemory!QueryConfirmed, AMemory!FactsOf, AMemory!MemoryTypeOK, AMemory!Memories
  <2>2. \/ b' = [b EXCEPT !.at = "built", !.items = facts, !.from = "log", !.taken = a.taken]
        \/ b' = [b EXCEPT !.at = "reads", !.unread = AMemory!OldFiles, !.from = "files"]
    BY DEF AMemory!ReadSharedMemory
  <2> HIDE DEF facts
  <2> QED
    BY <2>1, <2>2
<1>3. CASE \E ok \in BOOLEAN : \E f \in AMemory!OldFiles : AMemory!ReadText(f, ok)
  <2> PICK ok \in BOOLEAN, f \in AMemory!OldFiles : AMemory!ReadText(f, ok)
    BY <1>3
  <2> DEFINE items == IF ok THEN b.items \cup AMemory!ConfirmedIn(f) ELSE b.items
             at == IF b.unread = {f} THEN "built" ELSE b.at
  <2>1. AMemory!ConfirmedIn(f) \in SUBSET Facts
    <3>1. ASSUME NEW r \in AMemory!OldContents(f), a.old[r].status = "confirmed"
          PROVE  a.old[r].said \in Facts
      <4>1. a.old[r] \in AMemory!Lines
        BY DEF AMemory!OldContents, AMemory!MemoryTypeOK, AMemory!Memories
      <4> QED
        BY <3>1, <4>1 DEF AMemory!Lines, AMemory!NoLine
    <3> QED
      BY <3>1 DEF AMemory!ConfirmedIn
  <2>2. items \in SUBSET Facts /\ at \in {"none", "asks", "reads", "built"}
    BY <2>1
  <2>3. b' = [b EXCEPT !.unread = @ \ {f}, !.at = at, !.items = items]
    BY DEF AMemory!ReadText
  <2> HIDE DEF items, at
  <2> QED
    BY <2>2, <2>3
<1>4. CASE AMemory!WithPersonalContext
  BY <1>4 DEF AMemory!WithPersonalContext, AMemory!NoContext
<1> QED
  BY <1>1, <1>2, <1>3, <1>4 DEF AMemory!ContextNext

LEMMA GivenStaysUnrevoked ==
  ASSUME AMemory!MemoryTypeOK, AMemory!ContextTypeOK, AMemory!RevocationIsLogged, AMemory!ConfirmedIsNotTaken,
         AMemory!GivenWasNotTaken, AMemory!ContextNext
  PROVE  AMemory!GivenWasNotTaken'
<1> USE DEF AMemory!GivenWasNotTaken, AMemory!ContextTypeOK
<1>1. CASE \E ok \in BOOLEAN : AMemory!BuildPersonalContext(ok)
  BY <1>1 DEF AMemory!BuildPersonalContext, AMemory!NoContext
<1>2. CASE \E ok \in BOOLEAN : AMemory!ReadSharedMemory(ok)
  <2>1. a.taken \cap AMemory!FactsOf(AMemory!QueryConfirmed) = {}
    BY LoggedIsNotConfirmed
  <2> QED
    BY <1>2, <2>1 DEF AMemory!ReadSharedMemory
<1>3. CASE \E ok \in BOOLEAN : \E f \in AMemory!OldFiles : AMemory!ReadText(f, ok)
  BY <1>3 DEF AMemory!ReadText
<1>4. CASE AMemory!WithPersonalContext
  BY <1>4 DEF AMemory!WithPersonalContext, AMemory!NoContext
<1> QED
  BY <1>1, <1>2, <1>3, <1>4 DEF AMemory!ContextNext

LEMMA LogStays ==
  ASSUME AMemory!MemoryTypeOK, AMemory!RevocationIsLogged, AMemory!ConfirmedIsNotTaken, UNCHANGED a
  PROVE  AMemory!MemoryTypeOK' /\ AMemory!RevocationIsLogged' /\ AMemory!ConfirmedIsNotTaken'
BY DEF AMemory!MemoryTypeOK, AMemory!RevocationIsLogged, AMemory!ConfirmedIsNotTaken, AMemory!OldLine

LEMMA MemoryStep ==
  ASSUME AMemory!MemoryTypeOK, AMemory!ContextTypeOK, AMemory!RevocationIsLogged, AMemory!ConfirmedIsNotTaken,
         AMemory!GivenWasNotTaken, [AMemory!MemoryStep]_AMemory!memoryVars
  PROVE  /\ AMemory!MemoryTypeOK' /\ AMemory!ContextTypeOK'
         /\ AMemory!RevocationIsLogged' /\ AMemory!ConfirmedIsNotTaken' /\ AMemory!GivenWasNotTaken'
<1>1. CASE AMemory!MemoryNext /\ UNCHANGED b
  BY <1>1, MemoryKeeps DEF AMemory!ContextTypeOK, AMemory!GivenWasNotTaken
<1>2. CASE AMemory!ContextNext /\ UNCHANGED a
  <2>1. AMemory!ContextTypeOK' /\ AMemory!GivenWasNotTaken'
    BY <1>2, ContextTyped, GivenStaysUnrevoked
  <2> QED
    BY <1>2, <2>1, LogStays
<1>3. CASE UNCHANGED AMemory!memoryVars
  <2>1. UNCHANGED a /\ UNCHANGED b
    BY <1>3 DEF AMemory!memoryVars
  <2> QED
    BY <2>1, LogStays DEF AMemory!ContextTypeOK, AMemory!GivenWasNotTaken
<1> QED
  BY <1>1, <1>2, <1>3 DEF AMemory!MemoryStep

LEMMA MemoryStarts ==
  AMemory!MemoryStarts => /\ AMemory!MemoryTypeOK /\ AMemory!ContextTypeOK
                          /\ AMemory!RevocationIsLogged /\ AMemory!ConfirmedIsNotTaken /\ AMemory!GivenWasNotTaken
<1> SUFFICES ASSUME AMemory!MemoryStarts
             PROVE  /\ AMemory!MemoryTypeOK /\ AMemory!ContextTypeOK
                    /\ AMemory!RevocationIsLogged /\ AMemory!ConfirmedIsNotTaken /\ AMemory!GivenWasNotTaken
  OBVIOUS
<1>1. PICK profile \in AMemory!Contents("profile"), longTerm \in AMemory!Contents("long_term") :
        a = [events |-> AMemory!NoEvents, revoked |-> {}, taken |-> {},
             old |-> [r \in OldRecords |-> IF r \in ProfileRecords THEN profile[r] ELSE longTerm[r]]]
  BY DEF AMemory!MemoryStarts, AMemory!MemoryInit
<1>2. [r \in OldRecords |-> IF r \in ProfileRecords THEN profile[r] ELSE longTerm[r]] \in [OldRecords -> AMemory!Lines]
  BY DEF AMemory!Contents, AMemory!OldContents
<1>3. AMemory!NoEvents \in [AMemory!Records -> AMemory!Events]
  BY DEF AMemory!NoEvents, AMemory!Events
<1>4. AMemory!MemoryTypeOK /\ a.revoked = {} /\ a.taken = {}
  BY <1>1, <1>2, <1>3 DEF AMemory!MemoryTypeOK, AMemory!Memories
<1>5. AMemory!ContextTypeOK /\ AMemory!GivenWasNotTaken
  BY DEF AMemory!MemoryStarts, AMemory!NoContext, AMemory!ContextTypeOK, AMemory!GivenWasNotTaken
<1> QED
  BY <1>4, <1>5 DEF AMemory!RevocationIsLogged, AMemory!ConfirmedIsNotTaken

-----------------------------------------------------------------------------
(* The secret store.                                                       *)

\* Whatever becomes of a commit, the snapshot is dropped or is the file.
LEMMA SavedIsStored ==
  ASSUME ASecret!SecretTypeOK, ASecret!UnlockedIsStored,
         NEW next \in ASecret!SecretSnapshots, ASecret!Saved(next)
  PROVE  ASecret!SecretTypeOK' /\ ASecret!UnlockedIsStored'
<1> USE DEF ASecret!SecretTypeOK, ASecret!SecretFiles, ASecret!SecretStores
<1>1. a' \in ASecret!SecretFiles
  BY DEF ASecret!Saved
<1>2. \/ a'.now = next /\ b' = [b EXCEPT !.snapshot = next]
      \/ b' = [b EXCEPT !.snapshot = Locked]
      \/ b' = [[b EXCEPT !.snapshot = Locked] EXCEPT !.audit = FALSE]
  BY DEF ASecret!Saved, ASecret!LockStore
<1>3. b' \in ASecret!SecretStores
  BY <1>2
<1>4. ASecret!UnlockedIsStored'
  BY <1>2 DEF ASecret!UnlockedIsStored
<1> QED
  BY <1>1, <1>3, <1>4

LEMMA RecordTyped ==
  ASSUME NEW s \in ASecret!SecretSnapshots, NEW o \in SecretOps, NEW kind \in ASecret!Kinds,
         NEW n \in ASecret!Revisions
  PROVE  ASecret!Record(s, o, kind, n) \in ASecret!SecretSnapshots
<1> DEFINE digest == [kind |-> kind, expected |-> n]
<1>1. digest \in ASecret!Digests
  BY DEF ASecret!Digests
<1> HIDE DEF digest
<1>2. ASecret!Record(s, o, kind, n) = [s EXCEPT !.ops[o] = digest]
  BY DEF ASecret!Record, digest
<1> QED
  BY <1>1, <1>2 DEF ASecret!SecretSnapshots

LEMMA NewIsUnlocked ==
  ASSUME ASecret!SecretTypeOK, NEW o, ASecret!New(o)
  PROVE  b.snapshot \in ASecret!SecretSnapshots
BY DEF ASecret!SecretTypeOK, ASecret!SecretStores, ASecret!New

LEMMA KeysAreSaved ==
  ASSUME ASecret!SecretTypeOK, NEW o \in SecretOps, NEW n \in ASecret!Revisions,
         ASecret!PutSecret(o, n) \/ ASecret!Revoke(o, n)
  PROVE  \E next \in ASecret!SecretSnapshots : ASecret!Saved(next)
<1>1. b.snapshot \in ASecret!SecretSnapshots
  BY NewIsUnlocked DEF ASecret!PutSecret, ASecret!Revoke
<1>2. PICK kind \in ASecret!Kinds, revoked \in BOOLEAN :
        /\ n < MaxRevision
        /\ ASecret!Saved([ASecret!Record(b.snapshot, o, kind, n) EXCEPT !.revision = n + 1, !.revoked = revoked])
  BY DEF ASecret!PutSecret, ASecret!Revoke, ASecret!Kinds
<1> DEFINE recorded == ASecret!Record(b.snapshot, o, kind, n)
<1>3. recorded \in ASecret!SecretSnapshots
  BY <1>1, RecordTyped
<1>4. n + 1 \in ASecret!Revisions
  BY <1>2, Bounds DEF ASecret!Revisions
<1> HIDE DEF recorded
<1>5. [recorded EXCEPT !.revision = n + 1, !.revoked = revoked] \in ASecret!SecretSnapshots
  BY <1>3, <1>4 DEF ASecret!SecretSnapshots
<1> QED
  BY <1>2, <1>5 DEF recorded

LEMMA ImportIsSaved ==
  ASSUME ASecret!SecretTypeOK, NEW o \in SecretOps, ASecret!Import(o)
  PROVE  \E next \in ASecret!SecretSnapshots : ASecret!Saved(next)
<1> DEFINE recorded == ASecret!Record(b.snapshot, o, "import", 0)
<1>1. b.snapshot \in ASecret!SecretSnapshots /\ 0 < MaxRevision
  BY NewIsUnlocked DEF ASecret!Import
<1>2. 0 \in ASecret!Revisions /\ 1 \in ASecret!Revisions
  BY <1>1, Bounds DEF ASecret!Revisions
<1>3. recorded \in ASecret!SecretSnapshots
  BY <1>1, <1>2, RecordTyped DEF ASecret!Kinds
<1> HIDE DEF recorded
<1>4. [recorded EXCEPT !.revision = 1] \in ASecret!SecretSnapshots
  BY <1>2, <1>3 DEF ASecret!SecretSnapshots
<1> QED
  BY <1>4 DEF ASecret!Import, recorded

LEMMA ProfileIsSaved ==
  ASSUME ASecret!SecretTypeOK, NEW o \in SecretOps, NEW n \in ASecret!Revisions, NEW kind \in ASecret!Kinds,
         ASecret!SaveProfile(o, kind, n)
  PROVE  \E next \in ASecret!SecretSnapshots : ASecret!Saved(next)
<1> DEFINE s == b.snapshot
           rotated == IF kind = "save key" THEN [s EXCEPT !.revision = @ + 1, !.revoked = FALSE] ELSE s
           recorded == ASecret!Record(rotated, o, kind, n)
<1>1. s \in ASecret!SecretSnapshots
  BY NewIsUnlocked DEF ASecret!SaveProfile
<1>2. /\ n < MaxRevision /\ (kind = "save key" => s.revision < MaxRevision)
      /\ ASecret!Saved([recorded EXCEPT !.profile = n + 1, !.names = rotated.revision])
  BY DEF ASecret!SaveProfile
<1> HIDE DEF s
<1>3. kind = "save key" => s.revision + 1 \in ASecret!Revisions
  <2>1. s.revision \in ASecret!Revisions
    BY <1>1 DEF ASecret!SecretSnapshots
  <2>2. ASSUME NEW r \in ASecret!Revisions, r < MaxRevision PROVE r + 1 \in ASecret!Revisions
    BY <2>2, Bounds DEF ASecret!Revisions
  <2> QED
    BY <1>2, <2>1, <2>2
<1>4. rotated \in ASecret!SecretSnapshots
  BY <1>1, <1>3 DEF ASecret!SecretSnapshots
<1> HIDE DEF rotated
<1>5. recorded \in ASecret!SecretSnapshots
  BY <1>4, RecordTyped
<1>6. rotated.revision \in ASecret!Revisions
  BY <1>4 DEF ASecret!SecretSnapshots
<1>7. n + 1 \in ASecret!Revisions
  <2>1. n < MaxRevision
    BY <1>2
  <2> QED
    BY <2>1, Bounds DEF ASecret!Revisions
<1> HIDE DEF recorded
<1>8. [recorded EXCEPT !.profile = n + 1, !.names = rotated.revision] \in ASecret!SecretSnapshots
  BY <1>5, <1>6, <1>7 DEF ASecret!SecretSnapshots
<1> QED
  BY <1>2, <1>8

LEMMA SecretStep ==
  ASSUME ASecret!SecretTypeOK, ASecret!UnlockedIsStored, [ASecret!SecretNext]_ASecret!secretVars
  PROVE  ASecret!SecretTypeOK' /\ ASecret!UnlockedIsStored'
<1> USE DEF ASecret!UnlockedIsStored
<1>1. CASE ASecret!Initialize
  <2>1. ASecret!Blank \in ASecret!SecretSnapshots
    BY Bounds DEF ASecret!Blank, ASecret!SecretSnapshots, ASecret!Revisions, ASecret!Digests
  <2> QED
    BY <1>1, <2>1, SavedIsStored DEF ASecret!Initialize
<1>2. CASE ASecret!Unlock
  <2>1. a.now \in ASecret!SecretSnapshots
    BY <1>2 DEF ASecret!Unlock, ASecret!SecretTypeOK, ASecret!SecretFiles
  <2>2. b' \in ASecret!SecretStores
    BY <1>2, <2>1 DEF ASecret!Unlock, ASecret!SecretTypeOK, ASecret!SecretStores
  <2>3. ASecret!UnlockedIsStored'
    <3>1. b'.snapshot = a.now \/ b'.snapshot = Locked
      BY <1>2 DEF ASecret!Unlock, ASecret!SecretTypeOK, ASecret!SecretStores
    <3> QED
      BY <1>2, <3>1 DEF ASecret!Unlock
  <2> QED
    BY <1>2, <2>2, <2>3 DEF ASecret!Unlock, ASecret!SecretTypeOK
<1>10. CASE ASecret!CooldownEnds
  BY <1>10 DEF ASecret!CooldownEnds, ASecret!SecretTypeOK, ASecret!SecretStores
<1>3. CASE ASecret!LockNow \/ ASecret!AuditFails
  BY <1>3 DEF ASecret!LockNow, ASecret!AuditFails, ASecret!LockStore, ASecret!SecretTypeOK, ASecret!SecretStores
<1>4. ASSUME NEW o \in SecretOps, NEW n \in ASecret!Revisions, ASecret!PutSecret(o, n) \/ ASecret!Revoke(o, n)
      PROVE  ASecret!SecretTypeOK' /\ ASecret!UnlockedIsStored'
  BY <1>4, KeysAreSaved, SavedIsStored
<1>5. ASSUME NEW o \in SecretOps, NEW n \in ASecret!Revisions, NEW kind \in ASecret!Kinds,
             ASecret!SaveProfile(o, kind, n)
      PROVE  ASecret!SecretTypeOK' /\ ASecret!UnlockedIsStored'
  BY <1>5, ProfileIsSaved, SavedIsStored
<1>6. ASSUME NEW o \in SecretOps, ASecret!Import(o)
      PROVE  ASecret!SecretTypeOK' /\ ASecret!UnlockedIsStored'
  BY <1>6, ImportIsSaved, SavedIsStored
<1>7. CASE \E profile, names \in ASecret!Revisions : ASecret!UseProfile(profile, names)
  BY <1>7 DEF ASecret!UseProfile, ASecret!secretVars, ASecret!SecretTypeOK
<1>8. CASE ASecret!ProcessStops \/ ASecret!PowerFails
  <2>0. b' = [snapshot |-> Locked, audit |-> TRUE, cooldown |-> FALSE]
    BY <1>8 DEF ASecret!ProcessStops, ASecret!PowerFails
  <2>1. b' \in ASecret!SecretStores /\ b'.snapshot = Locked
    BY <2>0 DEF ASecret!SecretStores
  <2>2. a' \in ASecret!SecretFiles
    BY <1>8 DEF ASecret!ProcessStops, ASecret!PowerFails, ASecret!SecretTypeOK, ASecret!SecretFiles
  <2> QED
    BY <2>1, <2>2 DEF ASecret!SecretTypeOK
<1>9. CASE UNCHANGED ASecret!secretVars
  BY <1>9 DEF ASecret!secretVars, ASecret!SecretTypeOK
<1> QED
  BY <1>1, <1>2, <1>3, <1>4, <1>5, <1>6, <1>7, <1>8, <1>9, <1>10 DEF ASecret!SecretNext

LEMMA SecretsStart == ASecret!SecretInit => ASecret!SecretTypeOK /\ ASecret!UnlockedIsStored
BY DEF ASecret!SecretInit, ASecret!SecretTypeOK, ASecret!SecretFiles, ASecret!SecretStores, ASecret!UnlockedIsStored

-----------------------------------------------------------------------------
(* Operations on the files of the user.                                    *)

\* What an operation does in its folder, without its audit.
VaultSteps(x) ==
  \/ \E kind \in AVault!FileKinds : AVault!CallFile(x, kind)
  \/ AVault!ResolvePath(x) \/ AVault!ReadInside(x) \/ AVault!ChangeInside(x) \/ AVault!CompressInside(x)
  \/ AVault!AnswerFile(x)

LEMMA RootTyped ==
  ASSUME AVault!VaultTypeOK, NEW f \in Roots, AVault!SetRoot(f)
  PROVE  AVault!VaultTypeOK'
<1>1. a' \in AVault!Vaults
  BY DEF AVault!VaultTypeOK, AVault!Vaults, AVault!SetRoot
<1>2. b' \in [AVault!Actors -> AVault!FileOps]
  <2>1. ASSUME NEW x \in AVault!Actors
        PROVE  [b[x] EXCEPT !.homes = IF b[x].at \in {"idle", "done"} THEN @ ELSE @ \cup {f}] \in AVault!FileOps
    BY DEF AVault!VaultTypeOK, AVault!FileOps
  <2> QED
    BY <2>1 DEF AVault!SetRoot, AVault!Meets
<1> QED
  BY <1>1, <1>2 DEF AVault!VaultTypeOK

\* What the choice of a folder does to an operation.
OpMeets(x, f) ==
  /\ b'[x].at = b[x].at /\ b'[x].lines = b[x].lines /\ b'[x].folder = b[x].folder
  /\ b'[x].faulty = b[x].faulty
  /\ b'[x].homes = IF b[x].at \in {"idle", "done"} THEN b[x].homes ELSE b[x].homes \cup {f}

LEMMA OpsMeet ==
  ASSUME AVault!VaultTypeOK, NEW f \in Roots, AVault!SetRoot(f), NEW x \in AVault!Actors
  PROVE  OpMeets(x, f)
<1>1. b'[x] = [b[x] EXCEPT !.homes = IF b[x].at \in {"idle", "done"} THEN @ ELSE @ \cup {f}]
  BY DEF AVault!SetRoot, AVault!Meets
<1>2. b[x] \in AVault!FileOps
  BY DEF AVault!VaultTypeOK
<1> DEFINE homes == IF b[x].at \in {"idle", "done"} THEN b[x].homes ELSE b[x].homes \cup {f}
<1>3. b'[x] = [b[x] EXCEPT !.homes = homes]
  BY <1>1
<1> HIDE DEF homes
<1>4. /\ b'[x].at = b[x].at /\ b'[x].lines = b[x].lines /\ b'[x].folder = b[x].folder
      /\ b'[x].faulty = b[x].faulty /\ b'[x].homes = homes
  BY <1>2, <1>3 DEF AVault!FileOps
<1> QED
  BY <1>4 DEF OpMeets, homes

LEMMA EndedOp ==
  ASSUME NEW op \in AVault!FileOps
  PROVE  /\ AVault!Ended(op) \in AVault!FileOps
         /\ AVault!Ended(op).at = "audits" /\ AVault!Ended(op).lines = op.lines
         /\ AVault!Ended(op).homes = op.homes /\ AVault!Ended(op).folder = op.folder
BY DEF AVault!Ended, AVault!FileOps

LEMMA StepsTyped ==
  ASSUME AVault!VaultTypeOK, AVault!LineAtTheEnd, NEW x \in AVault!Actors, VaultSteps(x)
  PROVE  AVault!VaultTypeOK'
<1> USE DEF AVault!VaultTypeOK
<1>0. b[x] \in AVault!FileOps /\ a.root \in Roots \cup {NoRoot} /\ a.choosing \in Roots \cup {NoRoot}
  BY DEF AVault!Vaults
<1>1. ASSUME NEW kind \in AVault!FileKinds, AVault!CallFile(x, kind)
      PROVE  AVault!VaultTypeOK'
  <2>1. AVault!NoOp \in AVault!FileOps
    BY DEF AVault!NoOp, AVault!FileOps
  <2> DEFINE homes == {a.root, a.choosing} \ {NoRoot}
  <2>2. homes \in SUBSET Roots
    BY <1>0
  <2> HIDE DEF homes
  <2>3. PICK at \in {"audits", "resolves"}, any \in AVault!FileKinds \cup {"any"} :
          b' = [b EXCEPT ![x] = [AVault!NoOp EXCEPT !.at = at, !.kind = any, !.homes = homes]]
    BY <1>1 DEF AVault!CallFile, homes
  <2>4. [AVault!NoOp EXCEPT !.at = at, !.kind = any, !.homes = homes] \in AVault!FileOps
    BY <2>1, <2>2 DEF AVault!FileOps
  <2> QED
    BY <1>1, <2>3, <2>4 DEF AVault!CallFile
<1>2. CASE AVault!ResolvePath(x)
  <2>1. PICK found \in BOOLEAN :
          b' = [b EXCEPT ![x] = IF found THEN [b[x] EXCEPT !.at = "acts", !.folder = a.root] ELSE AVault!Ended(b[x])]
    BY <1>2 DEF AVault!ResolvePath
  <2>2. [b[x] EXCEPT !.at = "acts", !.folder = a.root] \in AVault!FileOps
    BY <1>0 DEF AVault!FileOps
  <2> QED
    BY <1>0, <1>2, <2>1, <2>2, EndedOp DEF AVault!ResolvePath
<1>3. CASE AVault!ReadInside(x)
  BY <1>0, <1>3, EndedOp DEF AVault!ReadInside
<1>4. CASE AVault!ChangeInside(x)
  <2>0. b[x].folder \in Roots \cup {NoRoot}
    BY <1>0 DEF AVault!FileOps
  <2>1. PICK files : a' = [a EXCEPT !.files = files] /\ files \in SUBSET (a.files \cup {b[x].folder})
    BY <1>4 DEF AVault!ChangeInside
  <2>2. b[x].folder \in Roots
    BY <1>4, <2>0 DEF AVault!ChangeInside, AVault!LineAtTheEnd
  <2>3. a' \in AVault!Vaults
    BY <2>1, <2>2 DEF AVault!Vaults
  <2>4. b' \in [AVault!Actors -> AVault!FileOps]
    BY <1>0, <1>4, EndedOp DEF AVault!ChangeInside
  <2> QED
    BY <2>3, <2>4
<1>5. CASE AVault!CompressInside(x)
  <2>1. [b[x] EXCEPT !.at = "builds", !.folder = a.root] \in AVault!FileOps
    BY <1>0 DEF AVault!FileOps
  <2>2. \/ b' = [b EXCEPT ![x] = [b[x] EXCEPT !.at = "builds", !.folder = a.root]]
        \/ b' = [b EXCEPT ![x] = AVault!Ended(b[x])]
    BY <1>5 DEF AVault!CompressInside
  <2> QED
    BY <1>0, <1>5, <2>1, <2>2, EndedOp DEF AVault!CompressInside
<1>6. CASE AVault!AnswerFile(x)
  <2>1. AVault!NoOp \in AVault!FileOps
    BY DEF AVault!NoOp, AVault!FileOps
  <2> QED
    BY <1>6, <2>1 DEF AVault!AnswerFile
<1> QED
  BY <1>1, <1>2, <1>3, <1>4, <1>5, <1>6 DEF VaultSteps

\* What appending a line leaves of the logs.
LEMMA TornTyped ==
  ASSUME AVault!VaultTypeOK, NEW wrote \in AVault!Outcomes
  PROVE  AVault!Torn(wrote) \in SUBSET Roots /\ (AVault!Readable(wrote) => a.audit \in Roots)
BY DEF AVault!VaultTypeOK, AVault!Vaults, AVault!Outcomes, AVault!Torn, AVault!Readable

\* What a step of an operation, but for its audit, does to its record.
OpMoves(x) ==
  /\ b'[x].at # "done" /\ b'[x].lines = {}
  /\ b'[x].at = "acts" => b'[x].folder # NoRoot
  /\ b'[x].at # "idle" =>
       \/ /\ b[x].at \notin {"idle", "done"} /\ b'[x].homes = b[x].homes
          /\ b'[x].folder \in {b[x].folder, NoRoot, a.root}
       \/ /\ b'[x].homes = {a.root, a.choosing} \ {NoRoot} /\ b'[x].folder = NoRoot
          /\ x = "user" => a.choosing = NoRoot
  /\ b'[x].at = "idle" => b'[x].homes = {}

LEMMA StepsMoveOps ==
  ASSUME AVault!VaultTypeOK, AVault!LineAtTheEnd, NEW x \in AVault!Actors, VaultSteps(x)
  PROVE  OpMoves(x)
<1>0. b[x] \in AVault!FileOps /\ b' = [b EXCEPT ![x] = b'[x]] /\ (b[x].at # "done" => b[x].lines = {})
  BY DEF AVault!VaultTypeOK, AVault!LineAtTheEnd, VaultSteps, AVault!CallFile, AVault!ResolvePath,
         AVault!ReadInside, AVault!ChangeInside, AVault!CompressInside, AVault!AnswerFile
<1>1. ASSUME NEW kind \in AVault!FileKinds, AVault!CallFile(x, kind)
      PROVE  OpMoves(x)
  BY <1>1 DEF AVault!VaultTypeOK, AVault!CallFile, AVault!NoOp, OpMoves
<1>2. CASE AVault!ResolvePath(x)
  <2>1. b'[x] \in {[b[x] EXCEPT !.at = "acts", !.folder = a.root], AVault!Ended(b[x])}
    BY <1>2 DEF AVault!VaultTypeOK, AVault!ResolvePath
  <2>2. b'[x] = [b[x] EXCEPT !.at = "acts", !.folder = a.root] => a.root # NoRoot
    BY <1>0, <1>2, EndedOp DEF AVault!VaultTypeOK, AVault!ResolvePath, AVault!FileOps
  <2>3. CASE b'[x] = [b[x] EXCEPT !.at = "acts", !.folder = a.root]
    BY <1>0, <1>2, <2>2, <2>3 DEF AVault!ResolvePath, AVault!FileOps, OpMoves
  <2>4. CASE b'[x] = AVault!Ended(b[x])
    BY <1>0, <1>2, <2>4, EndedOp DEF AVault!ResolvePath, OpMoves
  <2> QED
    BY <2>1, <2>3, <2>4
<1>3. CASE AVault!ReadInside(x) \/ AVault!ChangeInside(x)
  <2>1. b'[x] = AVault!Ended(b[x]) /\ b[x].at = "acts"
    BY <1>3 DEF AVault!VaultTypeOK, AVault!ReadInside, AVault!ChangeInside
  <2> QED
    BY <1>0, <2>1, EndedOp DEF OpMoves
<1>4. CASE AVault!CompressInside(x)
  <2>1. /\ b[x].at \in {"acts", "builds"}
        /\ \/ b'[x] = [b[x] EXCEPT !.at = "builds", !.folder = a.root]
           \/ b'[x] = AVault!Ended(b[x])
    BY <1>4 DEF AVault!VaultTypeOK, AVault!CompressInside
  <2>2. CASE b'[x] = [b[x] EXCEPT !.at = "builds", !.folder = a.root]
    BY <1>0, <2>1, <2>2 DEF AVault!FileOps, OpMoves
  <2>3. CASE b'[x] = AVault!Ended(b[x])
    BY <1>0, <2>1, <2>3, EndedOp DEF OpMoves
  <2> QED
    BY <2>1, <2>2, <2>3
<1>5. CASE AVault!AnswerFile(x)
  BY <1>5 DEF AVault!VaultTypeOK, AVault!AnswerFile, AVault!NoOp, OpMoves
<1> QED
  BY <1>1, <1>2, <1>3, <1>4, <1>5 DEF VaultSteps

LEMMA VaultStep ==
  ASSUME AVault!VaultTypeOK, AVault!StreamIsOfRoot, AVault!LineAtTheEnd, [AVault!VaultNext]_AVault!vaultVars
  PROVE  AVault!VaultTypeOK' /\ AVault!StreamIsOfRoot' /\ AVault!LineAtTheEnd'
<1> USE DEF AVault!VaultTypeOK
<1>1. CASE AVault!SetLogin
  BY <1>1 DEF AVault!SetLogin, AVault!Vaults, AVault!StreamIsOfRoot, AVault!LineAtTheEnd
<1>2. CASE AVault!RecordDurable
  <2>1. PICK wrote \in AVault!Outcomes :
          a' = [a EXCEPT !.torn = AVault!Torn(wrote), !.silent = wrote # "whole"]
    BY <1>2 DEF AVault!RecordDurable
  <2>2. AVault!Torn(wrote) \in SUBSET Roots /\ b' = b
    BY <1>2, TornTyped DEF AVault!RecordDurable
  <2>3. a' \in AVault!Vaults /\ a'.audit = a.audit /\ a'.root = a.root /\ a'.choosing = a.choosing
    BY <2>1, <2>2 DEF AVault!Vaults
  <2> QED
    BY <2>2, <2>3 DEF AVault!StreamIsOfRoot, AVault!LineAtTheEnd
<1>3. ASSUME NEW f \in Roots, AVault!SetRoot(f)
      PROVE  AVault!VaultTypeOK' /\ AVault!StreamIsOfRoot' /\ AVault!LineAtTheEnd'
  <2>1. AVault!VaultTypeOK'
    BY <1>3, RootTyped
  <2>2. \A x \in AVault!Actors : OpMeets(x, f)
    BY <1>3, OpsMeet
  <2> HIDE DEF AVault!VaultTypeOK
  <2>3. AVault!StreamIsOfRoot'
    <3>1. /\ a'.choosing \in {NoRoot, f} /\ (a'.root = a.root \/ a'.root = f) /\ a'.audit # NoRoot
          /\ a.choosing = NoRoot \/ a.choosing = f
      <4>1. f # NoRoot /\ a \in AVault!Vaults
        BY ServicesAssumption DEF AVault!VaultTypeOK
      <4>2. CASE a.choosing = NoRoot /\ a' = [a EXCEPT !.choosing = f, !.audit = f, !.silent = FALSE]
        BY <4>1, <4>2 DEF AVault!Vaults
      <4>3. CASE a.choosing = f /\ a' = [a EXCEPT !.choosing = NoRoot, !.root = f]
        BY <4>1, <4>3 DEF AVault!Vaults, AVault!StreamIsOfRoot
      <4> QED
        BY <1>3, <4>2, <4>3 DEF AVault!SetRoot
    <3>2. a'.audit = IF a'.choosing = NoRoot THEN a'.root ELSE a'.choosing
      BY <1>3, ServicesAssumption DEF AVault!VaultTypeOK, AVault!SetRoot, AVault!StreamIsOfRoot, AVault!Vaults
    <3>3. b'["user"].at = "idle"
      BY <1>3, <2>2 DEF AVault!SetRoot, AVault!Actors, OpMeets
    <3>4. ASSUME NEW x \in AVault!Actors, b'[x].at \notin {"idle", "done"}
          PROVE  {a'.root, a'.choosing} \ {NoRoot} \subseteq b'[x].homes
      <4>1. b'[x].homes = b[x].homes \cup {f} /\ b[x].at \notin {"idle", "done"}
        BY <2>2, <3>4 DEF OpMeets
      <4>2. {a.root, a.choosing} \ {NoRoot} \subseteq b[x].homes
        BY <4>1 DEF AVault!StreamIsOfRoot
      <4> QED
        BY <3>1, <4>1, <4>2
    <3> QED
      BY <3>1, <3>2, <3>3, <3>4 DEF AVault!StreamIsOfRoot
  <2>4. AVault!LineAtTheEnd'
    BY <2>2 DEF AVault!LineAtTheEnd, OpMeets
  <2> QED
    BY <2>1, <2>3, <2>4
<1>4. ASSUME NEW x \in AVault!Actors, VaultSteps(x)
      PROVE  AVault!VaultTypeOK' /\ AVault!StreamIsOfRoot' /\ AVault!LineAtTheEnd'
  <2>1. a'.choosing = a.choosing /\ a'.audit = a.audit /\ a'.root = a.root
    BY <1>4 DEF VaultSteps, AVault!CallFile, AVault!ResolvePath, AVault!ReadInside, AVault!ChangeInside,
                AVault!CompressInside, AVault!AnswerFile, AVault!Vaults
  <2>2. \A y \in AVault!Actors \ {x} : b'[y] = b[y]
    BY <1>4 DEF VaultSteps, AVault!CallFile, AVault!ResolvePath, AVault!ReadInside, AVault!ChangeInside,
                AVault!CompressInside, AVault!AnswerFile
  <2>3. OpMoves(x)
    BY <1>4, StepsMoveOps
  <2>4. AVault!StreamIsOfRoot'
    <3>1. a.choosing # NoRoot => b'["user"].at = "idle"
      BY <2>2, <2>3 DEF OpMoves, AVault!StreamIsOfRoot, AVault!Actors
    <3>2. \A y \in AVault!Actors : b'[y].at \notin {"idle", "done"} => {a.root, a.choosing} \ {NoRoot} \subseteq b'[y].homes
      BY <2>2, <2>3 DEF OpMoves, AVault!StreamIsOfRoot
    <3>3. a.audit = NoRoot => \A y \in AVault!Actors : b'[y].homes = {}
      <4>1. a.audit = NoRoot => a.root = NoRoot /\ a.choosing = NoRoot
        BY DEF AVault!StreamIsOfRoot
      <4>2. a.audit = NoRoot => b'[x].homes = {}
        <5>1. a.audit = NoRoot => b[x].homes = {} /\ {a.root, a.choosing} \ {NoRoot} = {}
          BY <4>1 DEF AVault!StreamIsOfRoot
        <5>2. CASE b'[x].at = "idle"
          BY <2>3, <5>2 DEF OpMoves
        <5>3. CASE b'[x].at # "idle" /\ b'[x].homes = b[x].homes
          BY <5>1, <5>3
        <5>4. CASE b'[x].at # "idle" /\ b'[x].homes = {a.root, a.choosing} \ {NoRoot}
          BY <5>1, <5>4
        <5> QED
          BY <2>3, <5>2, <5>3, <5>4 DEF OpMoves
      <4> QED
        BY <2>2, <4>2 DEF AVault!StreamIsOfRoot
    <3> QED
      BY <2>1, <3>1, <3>2, <3>3 DEF AVault!StreamIsOfRoot
  <2>5. AVault!LineAtTheEnd'
    <3>1. b'[x].at # "idle" => b'[x].folder \in b'[x].homes \cup {NoRoot}
      BY <2>3 DEF OpMoves, AVault!StreamIsOfRoot, AVault!LineAtTheEnd
    <3> QED
      BY <2>2, <2>3, <3>1 DEF OpMoves, AVault!LineAtTheEnd
  <2> QED
    BY <1>4, <2>4, <2>5, StepsTyped
<1>5. ASSUME NEW x \in AVault!Actors, AVault!RecordAudit(x)
      PROVE  AVault!VaultTypeOK' /\ AVault!StreamIsOfRoot' /\ AVault!LineAtTheEnd'
  <2>0. PICK wrote \in AVault!Outcomes :
        /\ a' = [a EXCEPT !.torn = AVault!Torn(wrote)]
        /\ b' = [b EXCEPT ![x].at = "done",
                          ![x].lines = IF AVault!Readable(wrote) THEN {a.audit} ELSE {},
                          ![x].faulty = a.audit # NoRoot /\ ~AVault!Readable(wrote)]
    BY <1>5 DEF AVault!RecordAudit
  <2> DEFINE lines == IF AVault!Readable(wrote) THEN {a.audit} ELSE {}
             faulty == a.audit # NoRoot /\ ~AVault!Readable(wrote)
             op == [b[x] EXCEPT !.at = "done", !.lines = lines, !.faulty = faulty]
  <2>1. AVault!Torn(wrote) \in SUBSET Roots /\ lines \in SUBSET Roots /\ faulty \in BOOLEAN
    BY TornTyped
  <2>2. a' \in AVault!Vaults /\ a'.audit = a.audit /\ a'.root = a.root /\ a'.choosing = a.choosing
    BY <2>0, <2>1 DEF AVault!Vaults
  <2>3. b' = [b EXCEPT ![x] = op] /\ b[x].at = "audits"
    BY <1>5, <2>0 DEF AVault!RecordAudit
  <2>4. /\ a.audit # NoRoot => a.audit \in b[x].homes
        /\ lines = {} => faulty \/ b[x].homes = {}
        /\ lines \subseteq b[x].homes
    <3>1. AVault!Readable(wrote) => a.audit # NoRoot
      BY DEF AVault!Readable, AVault!Outcomes
    <3>2. {a.root, a.choosing} \ {NoRoot} \subseteq b[x].homes
      BY <2>3 DEF AVault!StreamIsOfRoot
    <3> QED
      BY <3>1, <3>2 DEF AVault!StreamIsOfRoot
  <2> HIDE DEF lines, faulty
  <2>5. op \in AVault!FileOps
    BY <2>1 DEF AVault!FileOps
  <2>6. op.at = "done" /\ op.lines = lines /\ op.faulty = faulty /\ op.homes = b[x].homes /\ op.folder = b[x].folder
    BY DEF AVault!FileOps
  <2> HIDE DEF op
  <2>7. b' \in [AVault!Actors -> AVault!FileOps]
    BY <2>3, <2>5
  <2>8. b'[x] = op /\ \A y \in AVault!Actors \ {x} : b'[y] = b[y]
    BY <2>3
  <2>9. AVault!VaultTypeOK'
    BY <2>2, <2>7
  <2> HIDE DEF AVault!VaultTypeOK
  <2>10. AVault!StreamIsOfRoot'
    <3>1. a.choosing # NoRoot => b'["user"].at = "idle"
      BY <2>3, <2>8 DEF AVault!StreamIsOfRoot, AVault!Actors
    <3>2. \A y \in AVault!Actors : b'[y].homes = b[y].homes /\ (b'[y].at \notin {"idle", "done"} => b'[y].at = b[y].at)
      BY <2>6, <2>8
    <3> QED
      BY <2>2, <3>1, <3>2 DEF AVault!StreamIsOfRoot
  <2>11. AVault!LineAtTheEnd'
    <3>1. b[x].folder \in b[x].homes \cup {NoRoot}
      BY <2>3 DEF AVault!LineAtTheEnd
    <3> QED
      BY <2>4, <2>6, <2>8, <3>1 DEF AVault!LineAtTheEnd
  <2> QED
    BY <2>9, <2>10, <2>11
<1>6. CASE UNCHANGED AVault!vaultVars
  BY <1>6 DEF AVault!vaultVars, AVault!StreamIsOfRoot, AVault!LineAtTheEnd
<1> QED
  BY <1>1, <1>2, <1>3, <1>4, <1>5, <1>6 DEF AVault!VaultNext, VaultSteps

LEMMA VaultStarts == AVault!VaultInit => AVault!VaultTypeOK /\ AVault!StreamIsOfRoot /\ AVault!LineAtTheEnd
BY DEF AVault!VaultInit, AVault!NoOp, AVault!VaultTypeOK, AVault!Vaults, AVault!FileOps, AVault!StreamIsOfRoot,
       AVault!LineAtTheEnd, AVault!Actors, AVault!FileKinds

LEMMA LinesAreAtHome == AVault!LineAtTheEnd => AVault!AuditedAtHome
BY DEF AVault!LineAtTheEnd, AVault!AuditedAtHome

-----------------------------------------------------------------------------
(* Business sessions and leases.                                           *)

LEMMA EndedTyped ==
  ASSUME NEW lease \in [AnAccess!Leases -> AnAccess!LeaseStates], NEW these
  PROVE  /\ AnAccess!Ended(lease, these) \in [AnAccess!Leases -> AnAccess!LeaseStates]
         /\ \A l \in AnAccess!Leases :
              /\ AnAccess!Ended(lease, these)[l].used = lease[l].used
              /\ AnAccess!Ended(lease, these)[l].sent = lease[l].sent
              /\ AnAccess!Ended(lease, these)[l].life \in {lease[l].life, "ended"}
BY DEF AnAccess!Ended, AnAccess!LeaseStates, AnAccess!Lives

\* What happens to the leases but for the calls: some end, one may be issued.
LEMMA LeasesMove ==
  ASSUME AnAccess!AccessTypeOK, AnAccess!ConsumedBeforeSent,
         NEW these, NEW session \in [Logins -> AnAccess!Lives],
         a' = [a EXCEPT !.session = session, !.lease = AnAccess!Ended(a.lease, these)], b' \in {b, AnAccess!Free}
  PROVE  AnAccess!AccessTypeOK' /\ AnAccess!ConsumedBeforeSent'
<1>1. a.lease \in [AnAccess!Leases -> AnAccess!LeaseStates]
  BY DEF AnAccess!AccessTypeOK, AnAccess!Accesses
<1>2. /\ a'.lease \in [AnAccess!Leases -> AnAccess!LeaseStates]
      /\ \A l \in AnAccess!Leases : /\ a'.lease[l].used = a.lease[l].used /\ a'.lease[l].sent = a.lease[l].sent
                                    /\ a'.lease[l].life \in {a.lease[l].life, "ended"}
  BY <1>1, EndedTyped DEF AnAccess!AccessTypeOK, AnAccess!Accesses
<1>3. a' \in AnAccess!Accesses
  BY <1>2 DEF AnAccess!AccessTypeOK, AnAccess!Accesses
<1>4. b' \in AnAccess!Calls
  BY DEF AnAccess!AccessTypeOK, AnAccess!Free, AnAccess!Calls
<1>5. AnAccess!ConsumedBeforeSent'
  <2>1. b'.at = "sends" => b' = b
    BY DEF AnAccess!Free
  <2>2. b.at = "sends" => b.lease \in AnAccess!Leases
    BY DEF AnAccess!ConsumedBeforeSent, AnAccess!ModelSentOnce, AnAccess!Leases
  <2> QED
    BY <1>2, <2>1, <2>2 DEF AnAccess!ConsumedBeforeSent, AnAccess!ModelSentOnce
<1> QED
  BY <1>3, <1>4, <1>5 DEF AnAccess!AccessTypeOK

LEMMA LeaseIssued ==
  ASSUME AnAccess!AccessTypeOK, AnAccess!ConsumedBeforeSent,
         NEW l \in AnAccess!Leases, NEW s \in Logins, AnAccess!IssueLease(l, s)
  PROVE  AnAccess!AccessTypeOK' /\ AnAccess!ConsumedBeforeSent'
<1> DEFINE new == [AnAccess!NoLease EXCEPT !.life = "live", !.of = s]
<1>1. PICK these : /\ a' = [a EXCEPT !.lease = [AnAccess!Ended(@, these) EXCEPT ![l] = new]]
                   /\ b' = AnAccess!Free
  BY DEF AnAccess!IssueLease
<1> DEFINE ended == AnAccess!Ended(a.lease, these)
<1>2. a.lease \in [AnAccess!Leases -> AnAccess!LeaseStates]
  BY DEF AnAccess!AccessTypeOK, AnAccess!Accesses
<1>3. /\ ended \in [AnAccess!Leases -> AnAccess!LeaseStates]
      /\ \A m \in AnAccess!Leases : /\ ended[m].used = a.lease[m].used /\ ended[m].sent = a.lease[m].sent
                                    /\ ended[m].life \in {a.lease[m].life, "ended"}
  BY <1>2, EndedTyped
<1>4. new \in AnAccess!LeaseStates /\ new.used = 0 /\ new.sent = 0
  <2>1. 0 \in 0..MaxCalls
    BY Bounds
  <2>2. /\ AnAccess!NoLease \in AnAccess!LeaseStates
        /\ AnAccess!NoLease.used = 0 /\ AnAccess!NoLease.sent = 0
    BY <2>1 DEF AnAccess!NoLease, AnAccess!LeaseStates, AnAccess!Lives
  <2> QED
    BY <2>2 DEF AnAccess!LeaseStates, AnAccess!Lives
<1> HIDE DEF new, ended
<1>5. a' = [a EXCEPT !.lease = [ended EXCEPT ![l] = new]]
  BY <1>1 DEF ended
<1>6. a'.lease = [ended EXCEPT ![l] = new]
  BY <1>5 DEF AnAccess!AccessTypeOK, AnAccess!Accesses
<1>7. a'.lease \in [AnAccess!Leases -> AnAccess!LeaseStates]
  BY <1>3, <1>4, <1>6
<1>8. a' \in AnAccess!Accesses
  BY <1>5, <1>6, <1>7 DEF AnAccess!AccessTypeOK, AnAccess!Accesses
<1>9. b' \in AnAccess!Calls /\ b'.at = "free"
  BY <1>1 DEF AnAccess!Free, AnAccess!Calls
<1>10. AnAccess!ConsumedBeforeSent'
  BY <1>3, <1>4, <1>6, <1>9 DEF AnAccess!ConsumedBeforeSent, AnAccess!ModelSentOnce
<1> QED
  BY <1>8, <1>9, <1>10 DEF AnAccess!AccessTypeOK

LEMMA CallBegins ==
  ASSUME AnAccess!AccessTypeOK, AnAccess!ConsumedBeforeSent, NEW l \in AnAccess!Leases,
         AnAccess!BeginWorker(l) \/ AnAccess!BeginModel(l)
  PROVE  AnAccess!AccessTypeOK' /\ AnAccess!ConsumedBeforeSent'
<1> USE DEF AnAccess!AccessTypeOK
<1>0. /\ a.lease \in [AnAccess!Leases -> AnAccess!LeaseStates] /\ a.lease[l] \in AnAccess!LeaseStates
      /\ a.lease[l].used \in 0..MaxCalls /\ a.lease[l].of \in Logins \cup {Nobody}
  BY DEF AnAccess!Accesses, AnAccess!LeaseStates
<1>1. PICK used \in 0..MaxCalls : /\ a' = [a EXCEPT !.lease[l].used = used] /\ used > 0
                                  /\ l \in Models => a.lease[l].used = 0 \/ AnAccess!BeginWorker(l)
  <2>1. CASE AnAccess!BeginWorker(l)
    <3>1. a.lease[l].used + 1 \in 0..MaxCalls /\ a.lease[l].used + 1 > 0
      BY <1>0, <2>1, Bounds DEF AnAccess!BeginWorker
    <3> QED
      BY <2>1, <3>1 DEF AnAccess!BeginWorker
  <2>2. CASE AnAccess!BeginModel(l)
    <3>1. 1 \in 0..MaxCalls
      BY Bounds
    <3> QED
      BY <2>2, <3>1 DEF AnAccess!BeginModel
  <2> QED
    BY <2>1, <2>2
<1>2. a'.lease = [a.lease EXCEPT ![l].used = used]
  BY <1>1 DEF AnAccess!Accesses
<1>3. a'.lease \in [AnAccess!Leases -> AnAccess!LeaseStates]
  BY <1>0, <1>2 DEF AnAccess!LeaseStates
<1>4. a' \in AnAccess!Accesses
  BY <1>1, <1>2, <1>3 DEF AnAccess!Accesses
<1>5. PICK at \in {"free", "reads", "sends"} :
        /\ b'.at = at /\ b' \in AnAccess!Calls
        /\ at = "sends" => b'.lease = l /\ AnAccess!BeginModel(l)
  BY <1>0 DEF AnAccess!BeginWorker, AnAccess!BeginModel, AnAccess!Free, AnAccess!Calls
<1>6. \A m \in AnAccess!Leases :
        /\ a'.lease[m].sent = a.lease[m].sent /\ a'.lease[m].life = a.lease[m].life
        /\ m # l => a'.lease[m].used = a.lease[m].used
        /\ m = l => a'.lease[m].used = used
  BY <1>0, <1>2 DEF AnAccess!LeaseStates
<1>7. a.lease[l].life # "none"
  BY DEF AnAccess!BeginWorker, AnAccess!BeginModel, AnAccess!LiveLease
<1>8. AnAccess!BeginModel(l) => l \in Models /\ a.lease[l].sent = 0
  <2>1. AnAccess!BeginModel(l) => l \in Models /\ a.lease[l].used = 0
    BY DEF AnAccess!BeginModel
  <2>2. a.lease[l].sent \in Nat
    BY <1>0 DEF AnAccess!LeaseStates
  <2> QED
    BY <2>1, <2>2 DEF AnAccess!ConsumedBeforeSent, AnAccess!ModelSentOnce
<1>9. AnAccess!ConsumedBeforeSent'
  BY <1>1, <1>5, <1>6, <1>7, <1>8 DEF AnAccess!ConsumedBeforeSent, AnAccess!ModelSentOnce
<1> QED
  BY <1>4, <1>5, <1>9

LEMMA ModelIsSent ==
  ASSUME AnAccess!AccessTypeOK, AnAccess!ConsumedBeforeSent, AnAccess!SendModel
  PROVE  AnAccess!AccessTypeOK' /\ AnAccess!ConsumedBeforeSent'
<1> USE DEF AnAccess!AccessTypeOK
<1>1. CASE UNCHANGED a /\ b' = AnAccess!Free
  BY <1>1 DEF AnAccess!Free, AnAccess!Calls, AnAccess!ConsumedBeforeSent, AnAccess!ModelSentOnce
<1>2. CASE /\ a' = [a EXCEPT !.lease[b.lease].sent = @ + 1] /\ b' = [b EXCEPT !.at = "reads"]
  <2>0. /\ b.lease \in Models /\ b.lease \in AnAccess!Leases
        /\ a.lease[b.lease].used > 0 /\ a.lease[b.lease].sent = 0
    BY DEF AnAccess!SendModel, AnAccess!ConsumedBeforeSent, AnAccess!Leases
  <2>1. a.lease \in [AnAccess!Leases -> AnAccess!LeaseStates]
    BY DEF AnAccess!Accesses
  <2>2. a'.lease = [a.lease EXCEPT ![b.lease].sent = 1]
    BY <1>2, <2>0 DEF AnAccess!Accesses
  <2>3. a'.lease \in [AnAccess!Leases -> AnAccess!LeaseStates]
    <3>1. a.lease[b.lease] \in AnAccess!LeaseStates
      BY <2>0, <2>1
    <3>2. [a.lease[b.lease] EXCEPT !.sent = 1] \in AnAccess!LeaseStates
      BY <3>1 DEF AnAccess!LeaseStates
    <3> QED
      BY <2>1, <2>2, <3>2
  <2>4. a' \in AnAccess!Accesses
    BY <1>2, <2>2, <2>3 DEF AnAccess!Accesses
  <2>5. b' \in AnAccess!Calls /\ b'.at = "reads"
    BY <1>2 DEF AnAccess!Calls
  <2>6. \A m \in AnAccess!Leases :
          /\ a'.lease[m].used = a.lease[m].used /\ a'.lease[m].life = a.lease[m].life
          /\ m # b.lease => a'.lease[m].sent = a.lease[m].sent
    BY <2>1, <2>2 DEF AnAccess!LeaseStates
  <2>7. AnAccess!ConsumedBeforeSent'
    <3>1. a'.lease[b.lease].sent = 1
      BY <2>0, <2>1, <2>2 DEF AnAccess!LeaseStates
    <3>2. a'.lease[b.lease].used > 0
      BY <2>0, <2>6
    <3> QED
      BY <2>0, <2>5, <2>6, <3>1, <3>2 DEF AnAccess!ConsumedBeforeSent, AnAccess!ModelSentOnce
  <2> QED
    BY <2>4, <2>5, <2>7
<1> QED
  BY <1>1, <1>2 DEF AnAccess!SendModel

\* The steps that leave the leases alone.
LEMMA LeasesStay ==
  ASSUME AnAccess!AccessTypeOK, AnAccess!ConsumedBeforeSent,
         \/ \E s \in Logins : \/ AnAccess!Login(s) \/ AnAccess!BeginRead(s) \/ AnAccess!AuthorizeComputer(s)
                              \/ AnAccess!ComputerActs(s) \/ AnAccess!SessionExpires(s)
         \/ AnAccess!LoginFails \/ AnAccess!PauseEnds \/ AnAccess!Release \/ AnAccess!AccessAuditBreaks
  PROVE  AnAccess!AccessTypeOK' /\ AnAccess!ConsumedBeforeSent'
<1> USE DEF AnAccess!AccessTypeOK
<1>1. a' \in AnAccess!Accesses /\ a'.lease = a.lease
  <2>1. ASSUME NEW s \in Logins, AnAccess!Login(s) \/ AnAccess!SessionExpires(s)
        PROVE  a' \in AnAccess!Accesses /\ a'.lease = a.lease
    <3>1. 0 \in 0..MaxFailures
      BY Bounds
    <3>2. CASE AnAccess!Login(s)
      BY <3>1, <3>2 DEF AnAccess!Accesses, AnAccess!Login, AnAccess!Lives
    <3>3. CASE AnAccess!SessionExpires(s)
      BY <3>3 DEF AnAccess!Accesses, AnAccess!SessionExpires, AnAccess!Lives
    <3> QED
      BY <2>1, <3>2, <3>3
  <2>2. ASSUME NEW s \in Logins, AnAccess!AuthorizeComputer(s) \/ AnAccess!ComputerActs(s)
        PROVE  a' \in AnAccess!Accesses /\ a'.lease = a.lease
    BY <2>2 DEF AnAccess!Accesses, AnAccess!AuthorizeComputer, AnAccess!ComputerActs
  <2>3. CASE AnAccess!LoginFails
    <3> DEFINE n == IF a.failures < MaxFailures THEN a.failures + 1 ELSE MaxFailures
    <3>1. n \in 0..MaxFailures
      BY Bounds DEF AnAccess!Accesses
    <3>2. a' = [a EXCEPT !.failures = n, !.paused = (n = MaxFailures)]
      BY <2>3 DEF AnAccess!LoginFails
    <3> HIDE DEF n
    <3> QED
      BY <3>1, <3>2 DEF AnAccess!Accesses
  <2>4. CASE AnAccess!PauseEnds \/ AnAccess!AccessAuditBreaks
    BY <2>4 DEF AnAccess!Accesses, AnAccess!PauseEnds, AnAccess!AccessAuditBreaks
  <2>5. ASSUME NEW s \in Logins, AnAccess!BeginRead(s) PROVE a' = a
    BY <2>5 DEF AnAccess!BeginRead
  <2>6. CASE AnAccess!Release
    BY <2>6 DEF AnAccess!Release
  <2> QED
    BY <2>1, <2>2, <2>3, <2>4, <2>5, <2>6
<1>2. b' \in AnAccess!Calls /\ (b'.at = "sends" => b' = b)
  <2> USE DEF AnAccess!Calls
  <2>1. ASSUME NEW s \in Logins, AnAccess!BeginRead(s) PROVE b' \in AnAccess!Calls /\ b'.at = "reads"
    BY <2>1 DEF AnAccess!BeginRead
  <2>2. CASE AnAccess!Release
    BY <2>2 DEF AnAccess!Release, AnAccess!Free
  <2>3. ASSUME NEW s \in Logins,
               \/ AnAccess!Login(s) \/ AnAccess!AuthorizeComputer(s) \/ AnAccess!ComputerActs(s)
               \/ AnAccess!SessionExpires(s)
        PROVE  b' \in {b, AnAccess!Free}
    BY <2>3 DEF AnAccess!Login, AnAccess!AuthorizeComputer, AnAccess!ComputerActs, AnAccess!SessionExpires
  <2>4. ASSUME AnAccess!LoginFails \/ AnAccess!PauseEnds \/ AnAccess!AccessAuditBreaks
        PROVE  b' \in {b, AnAccess!Free}
    BY <2>4 DEF AnAccess!LoginFails, AnAccess!PauseEnds, AnAccess!AccessAuditBreaks
  <2>5. AnAccess!Free \in AnAccess!Calls /\ AnAccess!Free.at = "free"
    BY DEF AnAccess!Free
  <2> QED
    BY <2>1, <2>2, <2>3, <2>4, <2>5
<1> QED
  BY <1>1, <1>2 DEF AnAccess!ConsumedBeforeSent, AnAccess!ModelSentOnce

LEMMA AccessStep ==
  ASSUME AnAccess!AccessTypeOK, AnAccess!ConsumedBeforeSent, [AnAccess!AccessNext]_AnAccess!accessVars
  PROVE  AnAccess!AccessTypeOK' /\ AnAccess!ConsumedBeforeSent'
<1>1. ASSUME NEW s \in Logins, AnAccess!Logout(s)
      PROVE  AnAccess!AccessTypeOK' /\ AnAccess!ConsumedBeforeSent'
  <2> DEFINE these == {l \in AnAccess!Leases : a.lease[l].of = s}
           session == [a.session EXCEPT ![s] = "ended"]
  <2>1. session \in [Logins -> AnAccess!Lives]
    BY DEF AnAccess!AccessTypeOK, AnAccess!Accesses, AnAccess!Lives
  <2>2. b' = AnAccess!Free /\ a' = [a EXCEPT !.session = session, !.lease = AnAccess!Ended(a.lease, these)]
    BY <1>1 DEF AnAccess!Logout, AnAccess!AccessTypeOK, AnAccess!Accesses
  <2> HIDE DEF these, session
  <2> QED
    BY <2>1, <2>2, LeasesMove
<1>2. CASE \/ \E l \in AnAccess!Leases : AnAccess!RevokeLease(l) \/ AnAccess!LeaseExpires(l)
           \/ AnAccess!ExpireDelegations
  <2>1. PICK these : a' = [a EXCEPT !.lease = AnAccess!Ended(@, these)]
    BY <1>2 DEF AnAccess!RevokeLease, AnAccess!LeaseExpires, AnAccess!ExpireDelegations
  <2>2. b' \in {b, AnAccess!Free}
    BY <1>2 DEF AnAccess!RevokeLease, AnAccess!LeaseExpires, AnAccess!ExpireDelegations
  <2>3. a.session \in [Logins -> AnAccess!Lives]
    BY DEF AnAccess!AccessTypeOK, AnAccess!Accesses
  <2>4. a' = [a EXCEPT !.session = a.session, !.lease = AnAccess!Ended(a.lease, these)]
    BY <2>1 DEF AnAccess!AccessTypeOK, AnAccess!Accesses
  <2> QED
    BY <2>2, <2>3, <2>4, LeasesMove
<1>3. CASE UNCHANGED AnAccess!accessVars
  BY <1>3 DEF AnAccess!accessVars, AnAccess!AccessTypeOK, AnAccess!ConsumedBeforeSent, AnAccess!ModelSentOnce
<1> QED
  BY <1>1, <1>2, <1>3, LeaseIssued, CallBegins, ModelIsSent, LeasesStay DEF AnAccess!AccessNext

LEMMA AccessStarts == AnAccess!AccessInit => AnAccess!AccessTypeOK /\ AnAccess!ConsumedBeforeSent
BY Bounds DEF AnAccess!AccessInit, AnAccess!AccessTypeOK, AnAccess!Accesses, AnAccess!Calls, AnAccess!Free,
   AnAccess!NoLease, AnAccess!LeaseStates, AnAccess!Lives, AnAccess!ConsumedBeforeSent, AnAccess!ModelSentOnce

\* Only Release lets out what was read, after another look at session and lease.
LEMMA ReleaseLooks ==
  ASSUME [AnAccess!AccessNext]_AnAccess!accessVars
  PROVE  AnAccess!ReleasedWhileLive
<1> SUFFICES ASSUME b.at = "reads", b'.at = "released"
             PROVE  AnAccess!LiveSession(b.of) /\ (b.lease # Nobody => AnAccess!LiveLease(b.lease))
  BY DEF AnAccess!ReleasedWhileLive
<1>1. CASE AnAccess!Release
  BY <1>1 DEF AnAccess!Release, AnAccess!Free
<1>2. ASSUME NEW s \in Logins,
             \/ AnAccess!Login(s) \/ AnAccess!Logout(s) \/ AnAccess!BeginRead(s) \/ AnAccess!AuthorizeComputer(s)
             \/ AnAccess!ComputerActs(s) \/ AnAccess!SessionExpires(s)
             \/ \E l \in AnAccess!Leases : AnAccess!IssueLease(l, s)
      PROVE  FALSE
  BY <1>2 DEF AnAccess!Login, AnAccess!Logout, AnAccess!BeginRead, AnAccess!AuthorizeComputer,
              AnAccess!ComputerActs, AnAccess!SessionExpires, AnAccess!IssueLease, AnAccess!EntersAudited,
              AnAccess!Enters
<1>3. ASSUME NEW l \in AnAccess!Leases,
             \/ AnAccess!RevokeLease(l) \/ AnAccess!BeginWorker(l) \/ AnAccess!BeginModel(l)
             \/ AnAccess!LeaseExpires(l)
      PROVE  FALSE
  BY <1>3 DEF AnAccess!RevokeLease, AnAccess!BeginWorker, AnAccess!BeginModel, AnAccess!LeaseExpires,
              AnAccess!EntersAudited, AnAccess!Enters
<1>4. ASSUME \/ AnAccess!LoginFails \/ AnAccess!PauseEnds \/ AnAccess!SendModel \/ AnAccess!ExpireDelegations
             \/ AnAccess!AccessAuditBreaks \/ UNCHANGED AnAccess!accessVars
      PROVE  FALSE
  BY <1>4 DEF AnAccess!LoginFails, AnAccess!PauseEnds, AnAccess!SendModel, AnAccess!ExpireDelegations,
              AnAccess!AccessAuditBreaks, AnAccess!accessVars, AnAccess!Enters, AnAccess!Free
<1> QED
  BY <1>1, <1>2, <1>3, <1>4 DEF AnAccess!AccessNext

LEMMA ConsumedIsSentOnce == AnAccess!ConsumedBeforeSent => AnAccess!ModelSentOnce
BY DEF AnAccess!ConsumedBeforeSent

-----------------------------------------------------------------------------
(* The file library.                                                       *)

\* What an operation attaches to the file, and nothing else of the library.
LEMMA NoteAttached ==
  ASSUME ALibrary!LibraryTypeOK, NEW s \in ALibrary!Contents, NEW revision \in Nat, NEW by \in {"ai", "user"},
         ALibrary!Attach(s, revision, by)
  PROVE  a' \in ALibrary!Libraries /\ a'.receipt = a.receipt /\ a'.note.by = by
<1> DEFINE note == [sha |-> s, revision |-> revision, by |-> by]
<1>1. note \in ALibrary!Notes /\ note.by = by
  BY Bounds DEF ALibrary!Attach, ALibrary!Notes
<1>2. a' = [a EXCEPT !.note = note]
  BY DEF ALibrary!Attach
<1> HIDE DEF note
<1> QED
  BY <1>1, <1>2 DEF ALibrary!LibraryTypeOK, ALibrary!Libraries

\* Revisions stay numbers.
LEMMA RevisionsAreNumbers ==
  ASSUME ALibrary!LibraryTypeOK, NEW s
  PROVE  /\ a.note.revision \in 0..MaxNoteRevision /\ a.note.sha \in ALibrary!Contents
         /\ ALibrary!NoteOn(s).revision \in 0..MaxNoteRevision
         /\ b.expected \in 0..MaxNoteRevision
<1>1. a.note \in ALibrary!Notes /\ ALibrary!NoNote \in ALibrary!Notes
  BY Bounds DEF ALibrary!LibraryTypeOK, ALibrary!Libraries, ALibrary!Notes, ALibrary!NoNote, ALibrary!Contents
<1>2. ALibrary!NoteOn(s) \in ALibrary!Notes
  BY <1>1 DEF ALibrary!NoteOn
<1> QED
  BY <1>1, <1>2 DEF ALibrary!LibraryTypeOK, ALibrary!Notes, ALibrary!Jobs

\* The steps of an import, and of the user's other programs.
LibraryImports ==
  \/ \E i \in Inputs : ALibrary!BeginImport(i)
  \/ ALibrary!ExistingCopy \/ ALibrary!PublishCopy \/ ALibrary!CommitImport \/ ALibrary!LibraryCrash
  \/ (\E x \in ALibrary!Contents : ALibrary!EditCopy(x)) \/ ALibrary!OpenOrLeave \/ ALibrary!Refresh

LEMMA ImportsTyped ==
  ASSUME ALibrary!LibraryTypeOK, ALibrary!ReceiptIsKept, LibraryImports
  PROVE  ALibrary!LibraryTypeOK' /\ a'.note = a.note
<1> USE DEF ALibrary!LibraryTypeOK, ALibrary!Answer, ALibrary!Step
<1>1. a' \in ALibrary!Libraries /\ a'.note = a.note
  <2> USE DEF ALibrary!Libraries
  <2>1. CASE \E i \in Inputs : ALibrary!BeginImport(i)
    BY <2>1 DEF ALibrary!BeginImport
  <2>2. CASE ALibrary!ExistingCopy \/ ALibrary!LibraryCrash
    BY <2>2 DEF ALibrary!ExistingCopy, ALibrary!LibraryCrash
  <2>3. CASE ALibrary!PublishCopy
    <3>1. b.input \in ALibrary!Contents
      BY DEF ALibrary!Jobs
    <3>2. \/ a' = [a EXCEPT !.part = TRUE] \/ a' = [a EXCEPT !.copy = b.input, !.links = 2]
          \/ a' = [a EXCEPT !.part = FALSE] \/ a' = [a EXCEPT !.part = FALSE, !.links = 1]
      BY <2>3 DEF ALibrary!PublishCopy
    <3> QED
      BY <3>1, <3>2
  <2>4. CASE ALibrary!CommitImport
    <3>1. b.input \in ALibrary!Contents
      BY DEF ALibrary!Jobs
    <3>2. ALibrary!FirstRecord \in ALibrary!Contents
      BY <3>1 DEF ALibrary!FirstRecord
    <3>3. a' = a \/ a' = [a EXCEPT !.row = ALibrary!FirstRecord, !.receipt = ALibrary!FirstRecord]
      BY <2>4 DEF ALibrary!CommitImport
    <3> QED
      BY <3>2, <3>3
  <2>5. ASSUME NEW x \in ALibrary!Contents, ALibrary!EditCopy(x)
        PROVE  a' \in ALibrary!Libraries /\ a'.note = a.note
    <3>1. PICK links \in {a.links, 1} : a' = [a EXCEPT !.copy = x, !.links = links]
      BY <2>5 DEF ALibrary!EditCopy
    <3> QED
      BY <3>1
  <2>6. CASE ALibrary!OpenOrLeave
    BY <2>6 DEF ALibrary!OpenOrLeave
  <2>7. CASE ALibrary!Refresh
    <3>1. NoInput \in ALibrary!Contents
      BY DEF ALibrary!Contents
    <3> QED
      BY <2>7, <3>1 DEF ALibrary!Refresh
  <2> QED
    BY <2>1, <2>2, <2>3, <2>4, <2>5, <2>6, <2>7 DEF LibraryImports
<1>2. b' \in ALibrary!Jobs
  <2> USE DEF ALibrary!Jobs
  <2>0. NoInput \in ALibrary!Contents /\ 0 \in 0..MaxNoteRevision
    BY Bounds DEF ALibrary!Contents
  <2>1. ASSUME NEW i \in Inputs, ALibrary!BeginImport(i)
        PROVE  b' \in ALibrary!Jobs
    <3>1. i \in ALibrary!Contents
      BY DEF ALibrary!Contents
    <3> QED
      BY <2>1, <3>1 DEF ALibrary!BeginImport
  <2>2. CASE ALibrary!ExistingCopy
    BY <2>0, <2>2 DEF ALibrary!ExistingCopy
  <2>3. CASE ALibrary!LibraryCrash
    BY <2>0, <2>3 DEF ALibrary!LibraryCrash
  <2>4. CASE ALibrary!PublishCopy
    BY <2>0, <2>4 DEF ALibrary!PublishCopy
  <2>5. CASE ALibrary!CommitImport
    <3>1. b.input \in Inputs
      BY <2>5 DEF ALibrary!CommitImport, ALibrary!ReceiptIsKept, ALibrary!Contents
    <3>2. \/ b' = [b EXCEPT !.at = "idle", !.input = NoInput]
          \/ b' = [b EXCEPT !.at = "idle", !.input = NoInput, !.answered = @ \cup {b.input}]
      BY <2>5 DEF ALibrary!CommitImport
    <3>3. b.answered \cup {b.input} \in SUBSET Inputs
      BY <3>1
    <3> QED
      BY <2>0, <3>2, <3>3
  <2>6. CASE \/ (\E x \in ALibrary!Contents : ALibrary!EditCopy(x)) \/ ALibrary!OpenOrLeave \/ ALibrary!Refresh
    BY <2>6 DEF ALibrary!EditCopy, ALibrary!OpenOrLeave, ALibrary!Refresh
  <2> QED
    BY <2>1, <2>2, <2>3, <2>4, <2>5, <2>6 DEF LibraryImports
<1> QED
  BY <1>1, <1>2

LEMMA ImportsKeepReceipt ==
  ASSUME ALibrary!LibraryTypeOK, ALibrary!ReceiptIsKept, LibraryImports
  PROVE  ALibrary!ReceiptIsKept'
<1> USE DEF ALibrary!LibraryTypeOK, ALibrary!Libraries, ALibrary!Jobs, ALibrary!ReceiptIsKept,
            ALibrary!OneInputPerOperation, ALibrary!Answer, ALibrary!Step
<1>1. ASSUME NEW i \in Inputs, ALibrary!BeginImport(i)
      PROVE  ALibrary!ReceiptIsKept'
  <2>1. i # NoInput
    BY ServicesAssumption
  <2> QED
    BY <1>1, <2>1 DEF ALibrary!BeginImport
<1>2. CASE ALibrary!ExistingCopy
  BY <1>2 DEF ALibrary!ExistingCopy
<1>3. CASE ALibrary!PublishCopy
  BY <1>3 DEF ALibrary!PublishCopy
<1>4. CASE ALibrary!CommitImport
  <2>1. b.input # NoInput /\ ALibrary!FirstRecord = b.input /\ (a.receipt # NoInput => a.receipt = b.input)
    BY <1>4 DEF ALibrary!CommitImport, ALibrary!FirstRecord
  <2>2. b.answered \subseteq {b.input}
    <3>1. NoInput \notin Inputs /\ b.answered \subseteq Inputs
      BY ServicesAssumption
    <3> QED
      BY <2>1, <3>1
  <2>3. \/ a'.receipt = b.input /\ b'.answered \in {b.answered, b.answered \cup {b.input}}
        \/ a'.receipt = a.receipt /\ b'.answered = b.answered
    <3>1. CASE a.open /\ a.row \in {NoInput, ALibrary!FirstRecord}
      BY <1>4, <2>1, <3>1 DEF ALibrary!CommitImport
    <3>2. CASE ~(a.open /\ a.row \in {NoInput, ALibrary!FirstRecord})
      BY <1>4, <3>2 DEF ALibrary!CommitImport
    <3> QED
      BY <3>1, <3>2
  <2>4. b'.at = "idle"
    BY <1>4 DEF ALibrary!CommitImport
  <2>5. b'.answered \subseteq {a'.receipt}
    BY <2>2, <2>3
  <2> QED
    BY <2>4, <2>5
<1>5. CASE ALibrary!LibraryCrash
  BY <1>5 DEF ALibrary!LibraryCrash
<1>6. CASE (\E x \in ALibrary!Contents : ALibrary!EditCopy(x)) \/ ALibrary!OpenOrLeave \/ ALibrary!Refresh
  BY <1>6 DEF ALibrary!EditCopy, ALibrary!OpenOrLeave, ALibrary!Refresh
<1> QED
  BY <1>1, <1>2, <1>3, <1>4, <1>5, <1>6 DEF LibraryImports

\* What the user and the analysis attach to the file.
LibraryNotes ==
  \/ \E i \in Inputs :
       \/ ALibrary!PrepareAnalysis(i) \/ ALibrary!CorrectNote(i) \/ ALibrary!PhotoTagsSet(i)
       \/ ALibrary!VideoTagsSet(i) \/ ALibrary!FavoriteSet(i) \/ ALibrary!CollectionPut(i)
       \/ ALibrary!StoryPut(i)
  \/ ALibrary!SaveAnalysis \/ ALibrary!AnalysisFails \/ ALibrary!FamilyInfoPut

LEMMA NotesTyped ==
  ASSUME ALibrary!LibraryTypeOK, LibraryNotes
  PROVE  /\ ALibrary!LibraryTypeOK' /\ a'.receipt = a.receipt
         /\ b'.at = b.at /\ b'.input = b.input /\ b'.answered = b.answered
         /\ ALibrary!UserWordsStay
<1> USE DEF ALibrary!LibraryTypeOK
<1>0. \A s : /\ a.note.revision + 1 \in Nat /\ a.note.revision \in Nat
             /\ ALibrary!NoteOn(s).revision \in 0..MaxNoteRevision /\ ALibrary!NoteOn(s).revision + 1 \in Nat
             /\ b.expected + 1 \in Nat /\ a.note.sha \in ALibrary!Contents
  BY RevisionsAreNumbers
<1>1. ASSUME NEW s \in ALibrary!Contents, NEW revision \in Nat, ALibrary!Attach(s, revision, "user"), b' = b
      PROVE  /\ ALibrary!LibraryTypeOK' /\ a'.receipt = a.receipt
             /\ b'.at = b.at /\ b'.input = b.input /\ b'.answered = b.answered
             /\ ALibrary!UserWordsStay
  BY <1>1, NoteAttached DEF ALibrary!UserWordsStay
<1>2. ASSUME NEW i \in Inputs,
             \/ ALibrary!CorrectNote(i) \/ ALibrary!PhotoTagsSet(i) \/ ALibrary!VideoTagsSet(i)
             \/ ALibrary!FavoriteSet(i) \/ ALibrary!CollectionPut(i) \/ ALibrary!StoryPut(i)
      PROVE  b' = b /\ \E s \in ALibrary!Contents, revision \in Nat : ALibrary!Attach(s, revision, "user")
  <2>1. i \in ALibrary!Contents
    BY DEF ALibrary!Contents
  <2> QED
    BY <1>0, <1>2, <2>1 DEF ALibrary!CorrectNote, ALibrary!PhotoTagsSet, ALibrary!VideoTagsSet,
       ALibrary!FavoriteSet, ALibrary!CollectionPut, ALibrary!StoryPut
<1>3. CASE ALibrary!FamilyInfoPut
  <2>1. NoInput \in ALibrary!Contents
    BY DEF ALibrary!Contents
  <2> QED
    BY <1>0, <1>1, <1>3, <2>1 DEF ALibrary!FamilyInfoPut
<1>4. ASSUME NEW i \in Inputs, ALibrary!PrepareAnalysis(i)
      PROVE  /\ ALibrary!LibraryTypeOK' /\ a'.receipt = a.receipt
             /\ b'.at = b.at /\ b'.input = b.input /\ b'.answered = b.answered
             /\ ALibrary!UserWordsStay
  <2>1. i \in ALibrary!Contents
    BY DEF ALibrary!Contents
  <2> QED
    BY <1>0, <1>4, <2>1 DEF ALibrary!PrepareAnalysis, ALibrary!Jobs, ALibrary!UserWordsStay
<1>5. ASSUME b' = ALibrary!Forgotten
      PROVE  b' \in ALibrary!Jobs /\ b'.at = b.at /\ b'.input = b.input /\ b'.answered = b.answered
  <2>1. NoInput \in ALibrary!Contents /\ 0 \in 0..MaxNoteRevision
    BY Bounds DEF ALibrary!Contents
  <2> QED
    BY <1>5, <2>1 DEF ALibrary!Forgotten, ALibrary!Jobs
<1>6. CASE ALibrary!SaveAnalysis
  <2> DEFINE by == IF ALibrary!NoteOn(b.asked).by = "user" THEN "user" ELSE "ai"
  <2>1. ALibrary!Attach(b.asked, b.expected + 1, by) /\ b' = ALibrary!Forgotten
    BY <1>6 DEF ALibrary!SaveAnalysis
  <2>2. b.asked \in ALibrary!Contents /\ by \in {"ai", "user"}
    BY DEF ALibrary!Jobs
  <2>3. a'.note.sha = b.asked
    BY <2>1 DEF ALibrary!Attach, ALibrary!Libraries
  <2>4. a' \in ALibrary!Libraries /\ a'.receipt = a.receipt /\ a'.note.by = by
    BY <1>0, <2>1, <2>2, NoteAttached
  <2>5. ALibrary!UserWordsStay
    BY <2>3, <2>4 DEF ALibrary!UserWordsStay, ALibrary!NoteOn
  <2> QED
    BY <1>5, <2>1, <2>4, <2>5
<1>7. CASE ALibrary!AnalysisFails
  BY <1>5, <1>7 DEF ALibrary!AnalysisFails, ALibrary!UserWordsStay
<1> QED
  BY <1>1, <1>2, <1>3, <1>4, <1>6, <1>7 DEF LibraryNotes

LEMMA LibraryStep ==
  ASSUME ALibrary!LibraryTypeOK, ALibrary!ReceiptIsKept, [ALibrary!LibraryNext]_ALibrary!libraryVars
  PROVE  ALibrary!LibraryTypeOK' /\ ALibrary!ReceiptIsKept' /\ ALibrary!UserWordsStay
<1>1. CASE LibraryImports
  BY <1>1, ImportsTyped, ImportsKeepReceipt DEF ALibrary!UserWordsStay
<1>2. CASE LibraryNotes
  BY <1>2, NotesTyped DEF ALibrary!ReceiptIsKept, ALibrary!OneInputPerOperation
<1>3. CASE UNCHANGED ALibrary!libraryVars
  BY <1>3 DEF ALibrary!libraryVars, ALibrary!LibraryTypeOK, ALibrary!ReceiptIsKept, ALibrary!OneInputPerOperation,
              ALibrary!UserWordsStay
<1> QED
  BY <1>1, <1>2, <1>3 DEF ALibrary!LibraryNext, LibraryImports, LibraryNotes

LEMMA LibraryStarts == ALibrary!LibraryInit => ALibrary!LibraryTypeOK /\ ALibrary!ReceiptIsKept
BY Bounds DEF ALibrary!LibraryInit, ALibrary!LibraryTypeOK, ALibrary!Libraries, ALibrary!Jobs, ALibrary!Contents,
   ALibrary!NoNote, ALibrary!Notes, ALibrary!ReceiptIsKept, ALibrary!OneInputPerOperation

LEMMA ReceiptIsForOne == ALibrary!ReceiptIsKept => ALibrary!OneInputPerOperation
BY DEF ALibrary!ReceiptIsKept

-----------------------------------------------------------------------------
(* The settings service.                                                   *)

\* What a PUT has stored by now: with the copy it is about to write, if any.
ByNow(blob, put, p) == IF put.at \in {"opens blob", "fills blob"} THEN put.copy[p] ELSE blob[p]

\* The part of KeysBeforeRefs for one PUT.
PutKept(key, blob, put, client) ==
  /\ put.at \in {"encrypts", "opens blob", "fills blob"} => put.key = key /\ key # "none"
  /\ put.at = "fills key" => key = "none" /\ put.key = client
  /\ put.at \notin {"idle", "reads"} =>
       \A p \in Providers :
         /\ put.merged[p] = "ref" => ByNow(blob, put, p) # "none" /\ ByNow(blob, put, p) = key
         /\ blob[p] # "none" /\ blob[p] = key => ByNow(blob, put, p) # "none" /\ ByNow(blob, put, p) = key
         /\ ByNow(blob, put, p) # "none" => ByNow(blob, put, p) = key

\* KeysBeforeRefs, of which the parts for single PUTs change one at a time.
SettingsInv ==
  /\ ASettings!SettingsTypeOK
  /\ \A p \in Providers : a.file[p] # "plain"
  /\ \A client \in Puts : b[client].at \in {"saves", "fills file"} =>
       \A p \in Providers : b[client].merged[p] # "plain"
  /\ ~a.overlap =>
       /\ \A x, y \in Puts : b[x].at # "idle" /\ b[y].at # "idle" => x = y
       /\ \A p \in Providers : a.blob[p] # "none" => a.blob[p] = a.key
       /\ \A p \in Providers : a.file[p] = "ref" => a.blob[p] # "none" /\ a.blob[p] = a.key
       /\ \A client \in Puts : PutKept(a.key, a.blob, b[client], client)

LEMMA KeysAreKept == SettingsInv <=> ASettings!SettingsTypeOK /\ ASettings!KeysBeforeRefs
<1>1. \A client \in Puts, p \in Providers : ASettings!StoredByNow(client)[p] = ByNow(a.blob, b[client], p)
  BY DEF ASettings!StoredByNow, ByNow
<1>2. \A client \in Puts : ASettings!Fresh(client) = {} <=> \A p \in Providers : b[client].merged[p] # "plain"
  BY DEF ASettings!Fresh
<1>3. \A client \in Puts : PutKept(a.key, a.blob, b[client], client) <=>
        /\ b[client].at \in {"encrypts", "opens blob", "fills blob"} => b[client].key = a.key /\ a.key # "none"
        /\ b[client].at = "fills key" => a.key = "none" /\ b[client].key = client
        /\ b[client].at \notin {"idle", "reads"} =>
             \A p \in Providers :
               /\ b[client].merged[p] = "ref" => ASettings!Stored(ASettings!StoredByNow(client), p)
               /\ ASettings!Stored(a.blob, p) => ASettings!Stored(ASettings!StoredByNow(client), p)
               /\ ASettings!StoredByNow(client)[p] # "none" => ASettings!StoredByNow(client)[p] = a.key
  BY <1>1 DEF PutKept, ASettings!Stored
<1> QED
  BY <1>2, <1>3 DEF SettingsInv, ASettings!KeysBeforeRefs, ASettings!Stored

LEMMA KeptResolves == SettingsInv => ASettings!RefsResolve
BY DEF SettingsInv, ASettings!SettingsTypeOK, ASettings!SettingsStores, ASettings!ApiKeys, ASettings!RefsResolve

\* A PUT goes on while the files keep what they have.
LEMMA PutMoves ==
  ASSUME SettingsInv, NEW client \in Puts, NEW op \in ASettings!PutStates, b' = [b EXCEPT ![client] = op],
         a' \in ASettings!SettingsStores, a'.file = a.file, a'.key = a.key, a'.blob = a.blob,
         a.overlap => a'.overlap,
         ~a'.overlap => (op.at # "idle" => \A x \in Puts \ {client} : b[x].at = "idle"),
         ~a'.overlap => PutKept(a.key, a.blob, op, client),
         op.at \in {"saves", "fills file"} => \A p \in Providers : op.merged[p] # "plain"
  PROVE  SettingsInv'
<1>1. /\ b' \in [Puts -> ASettings!PutStates] /\ b'[client] = op /\ \A x \in Puts \ {client} : b'[x] = b[x]
  BY DEF SettingsInv, ASettings!SettingsTypeOK
<1>2. ASettings!SettingsTypeOK'
  BY <1>1 DEF ASettings!SettingsTypeOK
<1>3. \A x \in Puts : b'[x].at \in {"saves", "fills file"} => \A p \in Providers : b'[x].merged[p] # "plain"
  BY <1>1 DEF SettingsInv
<1>4. ASSUME ~a'.overlap
      PROVE  /\ \A x, y \in Puts : b'[x].at # "idle" /\ b'[y].at # "idle" => x = y
             /\ \A x \in Puts : PutKept(a'.key, a'.blob, b'[x], x)
  BY <1>1, <1>4 DEF SettingsInv
<1> QED
  BY <1>2, <1>3, <1>4 DEF SettingsInv

LEMMA PutsTyped ==
  ASSUME ASettings!SettingsTypeOK, NEW client \in Puts
  PROVE  /\ a \in ASettings!SettingsStores /\ b[client] \in ASettings!PutStates
         /\ a.key \in ASettings!MasterKeys /\ client \in ASettings!MasterKeys /\ a.overlap \in BOOLEAN
         /\ a.file \in [Providers -> ASettings!ApiKeys] /\ a.blob \in [Providers -> ASettings!MasterKeys]
         /\ b[client].merged \in [Providers -> ASettings!ApiKeys]
         /\ b[client].copy \in [Providers -> ASettings!MasterKeys] /\ b[client].patch \in ASettings!Patches
BY DEF ASettings!SettingsTypeOK, ASettings!SettingsStores, ASettings!PutStates, ASettings!MasterKeys

\* A PUT is refused, fails or has been answered.
LEMMA PutEnds ==
  ASSUME SettingsInv, NEW client \in Puts, b' = ASettings!Finished(client), a' = a
  PROVE  SettingsInv'
<1> DEFINE op == [at |-> "idle", patch |-> ASettings!Each("redacted"), merged |-> ASettings!Each("none"),
                  key |-> "none", copy |-> ASettings!Each("none")]
<1>1. b' = [b EXCEPT ![client] = op] /\ op.at = "idle"
  BY DEF ASettings!Finished
<1>2. /\ ASettings!Each("redacted") \in ASettings!Patches /\ ASettings!Each("none") \in [Providers -> ASettings!ApiKeys]
      /\ ASettings!Each("none") \in [Providers -> ASettings!MasterKeys] /\ "none" \in ASettings!MasterKeys
  BY DEF ASettings!Each, ASettings!Patches, ASettings!ApiKeys, ASettings!MasterKeys
<1>3. op \in ASettings!PutStates
  BY <1>2 DEF ASettings!PutStates
<1> HIDE DEF op
<1>4. a' \in ASettings!SettingsStores
  BY DEF SettingsInv, ASettings!SettingsTypeOK
<1>5. PutKept(a.key, a.blob, op, client)
  BY <1>1 DEF PutKept
<1> QED
  BY <1>1, <1>3, <1>4, <1>5, PutMoves

LEMMA PutBegins ==
  ASSUME SettingsInv, NEW client \in Puts, NEW patch \in ASettings!Patches, ASettings!PutSettings(client, patch)
  PROVE  SettingsInv'
<1> DEFINE op == [b[client] EXCEPT !.at = "reads", !.patch = patch]
<1>0. a \in ASettings!SettingsStores /\ b[client] \in ASettings!PutStates
  BY PutsTyped DEF SettingsInv
<1>1. b' = [b EXCEPT ![client] = op]
  BY DEF ASettings!PutSettings, SettingsInv, ASettings!SettingsTypeOK
<1>2. op \in ASettings!PutStates /\ op.at = "reads"
  BY <1>0 DEF ASettings!PutStates
<1> HIDE DEF op
<1>3. PutKept(a.key, a.blob, op, client) /\ a.overlap \in BOOLEAN
  BY <1>2, PutsTyped DEF PutKept, SettingsInv
<1>4. CASE a.overlap \/ \E x \in Puts : b[x].at # "idle"
  <2>1. a' = [a EXCEPT !.overlap = TRUE]
    BY <1>3, <1>4 DEF ASettings!PutSettings
  <2>2. /\ a' \in ASettings!SettingsStores /\ a'.file = a.file /\ a'.key = a.key /\ a'.blob = a.blob
        /\ a'.overlap = TRUE
    BY <1>0, <2>1 DEF ASettings!SettingsStores
  <2> QED
    BY <1>1, <1>2, <1>3, <2>2, PutMoves
<1>5. CASE ~a.overlap /\ \A x \in Puts : b[x].at = "idle"
  <2>1. a' = [a EXCEPT !.overlap = FALSE]
    BY <1>3, <1>5 DEF ASettings!PutSettings
  <2>2. /\ a' \in ASettings!SettingsStores /\ a'.file = a.file /\ a'.key = a.key /\ a'.blob = a.blob
        /\ a'.overlap = FALSE
    BY <1>0, <2>1 DEF ASettings!SettingsStores
  <2> QED
    BY <1>1, <1>2, <1>3, <1>5, <2>2, PutMoves
<1> QED
  BY <1>4, <1>5

LEMMA PutReads ==
  ASSUME SettingsInv, NEW client \in Puts, ASettings!ReadSettings(client)
  PROVE  SettingsInv'
<1> DEFINE merged == ASettings!Merge(ASettings!Current, b[client].patch)
           op == [b[client] EXCEPT !.at = "finds key", !.merged = merged]
<1>1. b' = [b EXCEPT ![client] = op] /\ a' = a /\ b[client].at = "reads"
  BY DEF ASettings!ReadSettings, SettingsInv, ASettings!SettingsTypeOK
<1>2. merged \in [Providers -> ASettings!ApiKeys] /\ \A p \in Providers : merged[p] = "ref" => a.file[p] = "ref"
  <2>1. a.file \in [Providers -> ASettings!ApiKeys] /\ {"none", "plain"} \subseteq ASettings!ApiKeys
    BY PutsTyped DEF SettingsInv, ASettings!ApiKeys
  <2> QED
    BY <2>1 DEF ASettings!Merge, ASettings!Current, ASettings!Each
<1> HIDE DEF merged
<1>3. op \in ASettings!PutStates /\ op.at = "finds key" /\ op.merged = merged
  BY <1>2, PutsTyped DEF SettingsInv, ASettings!PutStates
<1> HIDE DEF op
<1>4. ~a.overlap => PutKept(a.key, a.blob, op, client)
  BY <1>2, <1>3 DEF SettingsInv, PutKept, ByNow
<1>5. ~a.overlap => \A x \in Puts \ {client} : b[x].at = "idle"
  BY <1>1 DEF SettingsInv
<1> QED
  BY <1>1, <1>3, <1>4, <1>5, PutMoves, PutsTyped DEF SettingsInv

LEMMA KeyIsFound ==
  ASSUME SettingsInv, NEW client \in Puts, ASettings!EnsureMasterKey(client)
  PROVE  SettingsInv'
<1>0. /\ a \in ASettings!SettingsStores /\ b[client] \in ASettings!PutStates /\ b \in [Puts -> ASettings!PutStates]
      /\ a.key \in ASettings!MasterKeys /\ client \in ASettings!MasterKeys
  BY PutsTyped DEF SettingsInv, ASettings!SettingsTypeOK
<1>1. b[client].at = "finds key" /\ (~a.overlap => PutKept(a.key, a.blob, b[client], client))
      /\ (~a.overlap => \A x \in Puts \ {client} : b[x].at = "idle")
  BY DEF ASettings!EnsureMasterKey, SettingsInv
<1>2. CASE b' = ASettings!Finished(client) /\ a' = a
  BY <1>2, PutEnds
<1>3. CASE a.key = "none" /\ a' = [a EXCEPT !.torn = @ \cup {"key"}]
           /\ b' = [b EXCEPT ![client].at = "fills key", ![client].key = client]
  <2> DEFINE op == [b[client] EXCEPT !.at = "fills key", !.key = client]
  <2>1. b' = [b EXCEPT ![client] = op]
    BY <1>0, <1>3
  <2>2. op \in ASettings!PutStates /\ op.at = "fills key" /\ op.key = client /\ op.merged = b[client].merged
    BY <1>0 DEF ASettings!PutStates
  <2> HIDE DEF op
  <2>3. /\ a' \in ASettings!SettingsStores /\ a'.file = a.file /\ a'.key = a.key /\ a'.blob = a.blob
        /\ a'.overlap = a.overlap
    BY <1>0, <1>3 DEF ASettings!SettingsStores
  <2>4. ~a.overlap => PutKept(a.key, a.blob, op, client)
    BY <1>1, <1>3, <2>2 DEF PutKept, ByNow
  <2> QED
    BY <1>1, <2>1, <2>2, <2>3, <2>4, PutMoves
<1>4. CASE a.key # "none" /\ a' = a /\ b' = [b EXCEPT ![client].at = "encrypts", ![client].key = a.key]
  <2> DEFINE op == [b[client] EXCEPT !.at = "encrypts", !.key = a.key]
  <2>1. b' = [b EXCEPT ![client] = op]
    BY <1>0, <1>4
  <2>2. op \in ASettings!PutStates /\ op.at = "encrypts" /\ op.key = a.key /\ op.merged = b[client].merged
    BY <1>0 DEF ASettings!PutStates
  <2> HIDE DEF op
  <2>3. ~a.overlap => PutKept(a.key, a.blob, op, client)
    BY <1>1, <1>4, <2>2 DEF PutKept, ByNow
  <2> QED
    BY <1>0, <1>1, <1>4, <2>1, <2>2, <2>3, PutMoves
<1> QED
  BY <1>2, <1>3, <1>4 DEF ASettings!EnsureMasterKey

LEMMA KeyIsFilled ==
  ASSUME SettingsInv, NEW client \in Puts, ASettings!FillKey(client)
  PROVE  SettingsInv'
<1> DEFINE op == [b[client] EXCEPT !.at = "encrypts"]
<1>0. /\ a \in ASettings!SettingsStores /\ b[client] \in ASettings!PutStates /\ b \in [Puts -> ASettings!PutStates]
      /\ client \in ASettings!MasterKeys /\ client # "none"
  BY PutsTyped, ServicesAssumption DEF SettingsInv, ASettings!SettingsTypeOK
<1>1. b' = [b EXCEPT ![client] = op] /\ a' = [a EXCEPT !.key = client, !.torn = @ \ {"key"}]
      /\ b[client].at = "fills key"
  BY DEF ASettings!FillKey, ASettings!Goto
<1>2. /\ op \in ASettings!PutStates /\ op.at = "encrypts" /\ op.key = b[client].key /\ op.merged = b[client].merged
      /\ op.copy = b[client].copy
  BY <1>0 DEF ASettings!PutStates
<1> HIDE DEF op
<1>3. /\ a' \in ASettings!SettingsStores /\ a'.file = a.file /\ a'.key = client /\ a'.blob = a.blob
      /\ a'.overlap = a.overlap
  BY <1>0, <1>1 DEF ASettings!SettingsStores
<1>4. /\ b' \in [Puts -> ASettings!PutStates] /\ b'[client] = op /\ \A x \in Puts \ {client} : b'[x] = b[x]
  BY <1>0, <1>1, <1>2
<1>5. ASSUME ~a.overlap
      PROVE  /\ \A x, y \in Puts : b'[x].at # "idle" /\ b'[y].at # "idle" => x = y
             /\ \A p \in Providers : a.blob[p] = "none" /\ a.file[p] # "ref"
             /\ \A x \in Puts : PutKept(a'.key, a'.blob, b'[x], x)
  <2>1. /\ \A x \in Puts \ {client} : b[x].at = "idle"
        /\ PutKept(a.key, a.blob, b[client], client)
    BY <1>1, <1>5 DEF SettingsInv
  <2>2. a.key = "none" /\ b[client].key = client
    BY <1>1, <2>1 DEF PutKept
  <2>3. \A p \in Providers : a.blob[p] = "none" /\ a.file[p] # "ref"
    BY <1>5, <2>2 DEF SettingsInv
  <2>4. \A p \in Providers : b[client].merged[p] # "ref"
    BY <1>1, <2>1, <2>3 DEF PutKept, ByNow
  <2>5. PutKept(client, a.blob, op, client)
    BY <1>0, <1>2, <2>2, <2>3, <2>4 DEF PutKept, ByNow
  <2>6. \A x \in Puts \ {client} : PutKept(client, a.blob, b[x], x)
    BY <2>1 DEF PutKept
  <2> QED
    BY <1>3, <1>4, <2>1, <2>3, <2>5, <2>6
<1>6. ASettings!SettingsTypeOK'
  BY <1>3, <1>4 DEF ASettings!SettingsTypeOK
<1>7. \A x \in Puts : b'[x].at \in {"saves", "fills file"} => \A p \in Providers : b'[x].merged[p] # "plain"
  BY <1>2, <1>4 DEF SettingsInv
<1> QED
  BY <1>3, <1>5, <1>6, <1>7 DEF SettingsInv

\* A fresh key is encrypted into the copy of the blob, and the merged settings refer to it.
LEMMA KeyIsEncrypted ==
  ASSUME SettingsInv, NEW client \in Puts, ASettings!EncryptFreshKey(client)
  PROVE  SettingsInv'
<1>0. /\ a \in ASettings!SettingsStores /\ b[client] \in ASettings!PutStates /\ b \in [Puts -> ASettings!PutStates]
      /\ b[client].merged \in [Providers -> ASettings!ApiKeys] /\ a.blob \in [Providers -> ASettings!MasterKeys]
      /\ b[client].key \in ASettings!MasterKeys
  BY PutsTyped DEF SettingsInv, ASettings!SettingsTypeOK, ASettings!PutStates
<1>1. b[client].at = "encrypts" /\ (~a.overlap => PutKept(a.key, a.blob, b[client], client))
      /\ (~a.overlap => \A x \in Puts \ {client} : b[x].at = "idle") /\ a' = a
  BY DEF ASettings!EncryptFreshKey, SettingsInv
<1>2. CASE ASettings!Fresh(client) = {} /\ ASettings!Goto(client, "saves")
  <2> DEFINE op == [b[client] EXCEPT !.at = "saves"]
  <2>1. b' = [b EXCEPT ![client] = op]
    BY <1>0, <1>2 DEF ASettings!Goto
  <2>2. op \in ASettings!PutStates /\ op.at = "saves" /\ op.merged = b[client].merged
    BY <1>0 DEF ASettings!PutStates
  <2> HIDE DEF op
  <2>3. ~a.overlap => PutKept(a.key, a.blob, op, client)
    BY <1>1, <2>2 DEF PutKept, ByNow
  <2>4. \A p \in Providers : op.merged[p] # "plain"
    BY <1>2, <2>2 DEF ASettings!Fresh
  <2> QED
    BY <1>0, <1>1, <2>1, <2>2, <2>3, <2>4, PutMoves
<1>3. CASE b' = ASettings!Finished(client)
  BY <1>1, <1>3, PutEnds
<1>4. ASSUME NEW p \in Providers,
             b' = [b EXCEPT ![client].at = "opens blob", ![client].merged[p] = "ref",
                            ![client].copy = [a.blob EXCEPT ![p] = b[client].key]]
      PROVE  SettingsInv'
  <2> DEFINE merged == [b[client].merged EXCEPT ![p] = "ref"]
             copy == [a.blob EXCEPT ![p] = b[client].key]
             op == [b[client] EXCEPT !.at = "opens blob", !.merged = merged, !.copy = copy]
  <2>1. b' = [b EXCEPT ![client] = op]
    BY <1>0, <1>4
  <2>2. merged \in [Providers -> ASettings!ApiKeys] /\ copy \in [Providers -> ASettings!MasterKeys]
    BY <1>0 DEF ASettings!ApiKeys
  <2>3. /\ copy[p] = b[client].key
        /\ \A q \in Providers \ {p} : merged[q] = b[client].merged[q] /\ copy[q] = a.blob[q]
    BY <1>0
  <2> HIDE DEF merged, copy
  <2>4. op \in ASettings!PutStates /\ op.at = "opens blob" /\ op.merged = merged /\ op.copy = copy
        /\ op.key = b[client].key
    BY <1>0, <2>2 DEF ASettings!PutStates
  <2> HIDE DEF op
  <2>5. ASSUME ~a.overlap PROVE PutKept(a.key, a.blob, op, client)
    <3>1. b[client].key = a.key /\ a.key # "none"
      BY <1>1, <2>5 DEF PutKept
    <3>2. \A q \in Providers : ByNow(a.blob, op, q) = copy[q]
      BY <2>4 DEF ByNow
    <3>3. \A q \in Providers :
          /\ b[client].merged[q] = "ref" => a.blob[q] # "none" /\ a.blob[q] = a.key
          /\ a.blob[q] # "none" => a.blob[q] = a.key
      BY <1>1, <2>5 DEF PutKept, ByNow
    <3>4. ASSUME NEW q \in Providers
          PROVE  /\ merged[q] = "ref" => copy[q] # "none" /\ copy[q] = a.key
                 /\ a.blob[q] # "none" => copy[q] # "none"
                 /\ copy[q] # "none" => copy[q] = a.key
      <4>1. CASE q = p
        BY <2>3, <3>1, <4>1
      <4>2. CASE q # p
        BY <2>3, <3>3, <4>2
      <4> QED
        BY <4>1, <4>2
    <3> QED
      BY <2>4, <3>1, <3>2, <3>4 DEF PutKept
  <2> QED
    BY <1>0, <1>1, <2>1, <2>4, <2>5, PutMoves
<1> QED
  BY <1>2, <1>3, <1>4 DEF ASettings!EncryptFreshKey, ASettings!Fresh

\* One of the files is truncated: what it holds afterwards is still to be seen.
LEMMA FileIsTorn ==
  ASSUME SettingsInv, NEW client \in Puts, NEW from, NEW to, NEW torn \in {"file", "blob"},
         \/ from = "opens blob" /\ to = "fills blob"
         \/ from = "saves" /\ to = "fills file",
         b[client].at = from, a' = [a EXCEPT !.torn = @ \cup {torn}], ASettings!Goto(client, to)
  PROVE  SettingsInv'
<1> DEFINE op == [b[client] EXCEPT !.at = to]
<1>0. /\ a \in ASettings!SettingsStores /\ b[client] \in ASettings!PutStates /\ b \in [Puts -> ASettings!PutStates]
  BY PutsTyped DEF SettingsInv, ASettings!SettingsTypeOK
<1>1. /\ ~a.overlap => PutKept(a.key, a.blob, b[client], client)
      /\ ~a.overlap => \A x \in Puts \ {client} : b[x].at = "idle"
      /\ b[client].at \in {"saves", "fills file"} => \A p \in Providers : b[client].merged[p] # "plain"
  BY DEF SettingsInv
<1>2. b' = [b EXCEPT ![client] = op]
  BY <1>0 DEF ASettings!Goto
<1>3. op \in ASettings!PutStates /\ op.at = to /\ op.merged = b[client].merged /\ op.key = b[client].key
      /\ op.copy = b[client].copy
  BY <1>0 DEF ASettings!PutStates
<1> HIDE DEF op
<1>4. /\ a' \in ASettings!SettingsStores /\ a'.file = a.file /\ a'.key = a.key /\ a'.blob = a.blob
      /\ a'.overlap = a.overlap
  BY <1>0 DEF ASettings!SettingsStores
<1>5. ~a.overlap => PutKept(a.key, a.blob, op, client)
  BY <1>1, <1>3 DEF PutKept, ByNow
<1> QED
  BY <1>1, <1>2, <1>3, <1>4, <1>5, PutMoves

LEMMA BlobIsFilled ==
  ASSUME SettingsInv, NEW client \in Puts, b[client].at = "fills blob", ASettings!Goto(client, "encrypts"),
         a' = [a EXCEPT !.torn = @ \ {"blob"}, !.blob = b[client].copy]
  PROVE  SettingsInv'
<1> DEFINE op == [b[client] EXCEPT !.at = "encrypts"]
<1>0. /\ a \in ASettings!SettingsStores /\ b[client] \in ASettings!PutStates /\ b \in [Puts -> ASettings!PutStates]
      /\ b[client].copy \in [Providers -> ASettings!MasterKeys]
  BY PutsTyped DEF SettingsInv, ASettings!SettingsTypeOK
<1>1. b' = [b EXCEPT ![client] = op]
  BY <1>0 DEF ASettings!Goto
<1>2. op \in ASettings!PutStates /\ op.at = "encrypts" /\ op.merged = b[client].merged /\ op.key = b[client].key
  BY <1>0 DEF ASettings!PutStates
<1> HIDE DEF op
<1>3. /\ a' \in ASettings!SettingsStores /\ a'.file = a.file /\ a'.key = a.key /\ a'.blob = b[client].copy
      /\ a'.overlap = a.overlap
  BY <1>0 DEF ASettings!SettingsStores
<1>4. /\ b' \in [Puts -> ASettings!PutStates] /\ b'[client] = op /\ \A x \in Puts \ {client} : b'[x] = b[x]
  BY <1>0, <1>1, <1>2
<1>5. ASSUME ~a.overlap
      PROVE  /\ \A x, y \in Puts : b'[x].at # "idle" /\ b'[y].at # "idle" => x = y
             /\ \A p \in Providers : a'.blob[p] # "none" => a'.blob[p] = a'.key
             /\ \A p \in Providers : a'.file[p] = "ref" => a'.blob[p] # "none" /\ a'.blob[p] = a'.key
             /\ \A x \in Puts : PutKept(a'.key, a'.blob, b'[x], x)
  <2>1. (\A x \in Puts \ {client} : b[x].at = "idle") /\ PutKept(a.key, a.blob, b[client], client)
    BY <1>5 DEF SettingsInv
  <2>2. \A p \in Providers :
        /\ b[client].merged[p] = "ref" => b[client].copy[p] # "none" /\ b[client].copy[p] = a.key
        /\ a.blob[p] # "none" /\ a.blob[p] = a.key => b[client].copy[p] # "none"
        /\ b[client].copy[p] # "none" => b[client].copy[p] = a.key
    BY <2>1 DEF PutKept, ByNow
  <2>3. b[client].key = a.key /\ a.key # "none"
    BY <2>1 DEF PutKept
  <2>4. PutKept(a.key, b[client].copy, op, client)
    <3>1. \A p \in Providers : ByNow(b[client].copy, op, p) = b[client].copy[p]
      BY <1>2 DEF ByNow
    <3> QED
      BY <1>2, <2>2, <2>3, <3>1 DEF PutKept
  <2>5. \A x \in Puts \ {client} : PutKept(a.key, b[client].copy, b[x], x)
    BY <2>1 DEF PutKept
  <2>6. \A p \in Providers : a.file[p] = "ref" => b[client].copy[p] # "none" /\ b[client].copy[p] = a.key
    BY <1>5, <2>2 DEF SettingsInv
  <2>7. \A x \in Puts : PutKept(a.key, b[client].copy, b'[x], x)
    <3>1. ASSUME NEW x \in Puts PROVE PutKept(a.key, b[client].copy, b'[x], x)
      <4>1. CASE x = client
        BY <1>4, <2>4, <4>1
      <4>2. CASE x # client
        BY <1>4, <2>5, <4>2
      <4> QED
        BY <4>1, <4>2
    <3> QED
      BY <3>1
  <2>8. \A x, y \in Puts : b'[x].at # "idle" /\ b'[y].at # "idle" => x = y
    <3>1. ASSUME NEW x \in Puts, b'[x].at # "idle" PROVE x = client
      <4>1. CASE x # client
        <5>1. b'[x] = b[x] /\ b[x].at = "idle"
          BY <1>4, <2>1, <4>1
        <5> QED
          BY <3>1, <5>1
      <4> QED
        BY <4>1
    <3> QED
      BY <3>1
  <2> QED
    <3>1. \A x \in Puts : PutKept(a'.key, a'.blob, b'[x], x)
      BY <1>3, <2>7
    <3>2. \A p \in Providers : a'.blob[p] # "none" => a'.blob[p] = a'.key
      BY <1>3, <2>2
    <3>3. \A p \in Providers : a'.file[p] = "ref" => a'.blob[p] # "none" /\ a'.blob[p] = a'.key
      BY <1>3, <2>6
    <3> QED
      BY <2>8, <3>1, <3>2, <3>3
<1>6. ASettings!SettingsTypeOK'
  BY <1>3, <1>4 DEF ASettings!SettingsTypeOK
<1>7. \A x \in Puts : b'[x].at \in {"saves", "fills file"} => \A p \in Providers : b'[x].merged[p] # "plain"
  BY <1>2, <1>4 DEF SettingsInv
<1>8. \A p \in Providers : a'.file[p] # "plain"
  BY <1>3 DEF SettingsInv
<1> QED
  BY <1>3, <1>5, <1>6, <1>7, <1>8 DEF SettingsInv

LEMMA FileIsFilled ==
  ASSUME SettingsInv, NEW client \in Puts, b[client].at = "fills file", b' = ASettings!Finished(client),
         a' = [a EXCEPT !.torn = @ \ {"file"}, !.file = b[client].merged]
  PROVE  SettingsInv'
<1>0. /\ a \in ASettings!SettingsStores /\ b \in [Puts -> ASettings!PutStates]
      /\ b[client].merged \in [Providers -> ASettings!ApiKeys]
  BY PutsTyped DEF SettingsInv, ASettings!SettingsTypeOK
<1>1. /\ b' \in [Puts -> ASettings!PutStates] /\ b'[client].at = "idle" /\ \A x \in Puts \ {client} : b'[x] = b[x]
  <2> DEFINE op == [at |-> "idle", patch |-> ASettings!Each("redacted"), merged |-> ASettings!Each("none"),
                    key |-> "none", copy |-> ASettings!Each("none")]
  <2>1. b' = [b EXCEPT ![client] = op] /\ op.at = "idle"
    BY DEF ASettings!Finished
  <2>2. /\ ASettings!Each("redacted") \in ASettings!Patches /\ ASettings!Each("none") \in [Providers -> ASettings!ApiKeys]
        /\ ASettings!Each("none") \in [Providers -> ASettings!MasterKeys] /\ "none" \in ASettings!MasterKeys
    BY DEF ASettings!Each, ASettings!Patches, ASettings!ApiKeys, ASettings!MasterKeys
  <2>3. op \in ASettings!PutStates
    BY <2>2 DEF ASettings!PutStates
  <2> HIDE DEF op
  <2> QED
    BY <1>0, <2>1, <2>3
<1>2. /\ a' \in ASettings!SettingsStores /\ a'.file = b[client].merged /\ a'.key = a.key /\ a'.blob = a.blob
      /\ a'.overlap = a.overlap
  BY <1>0 DEF ASettings!SettingsStores
<1>3. \A p \in Providers : b[client].merged[p] # "plain"
  BY DEF SettingsInv
<1>4. ~a.overlap => \A p \in Providers : b[client].merged[p] = "ref" => a.blob[p] # "none" /\ a.blob[p] = a.key
  BY DEF SettingsInv, PutKept, ByNow
<1>5. ~a.overlap => /\ \A x, y \in Puts : b'[x].at # "idle" /\ b'[y].at # "idle" => x = y
                    /\ \A p \in Providers : a.blob[p] # "none" => a.blob[p] = a.key
                    /\ \A x \in Puts : PutKept(a.key, a.blob, b'[x], x)
  <2>1. PutKept(a.key, a.blob, b'[client], client)
    BY <1>1 DEF PutKept
  <2> QED
    BY <1>1, <2>1 DEF SettingsInv
<1>6. \A x \in Puts : b'[x].at \in {"saves", "fills file"} => \A p \in Providers : b'[x].merged[p] # "plain"
  BY <1>1 DEF SettingsInv
<1> QED
  BY <1>1, <1>2, <1>3, <1>4, <1>5, <1>6 DEF SettingsInv, ASettings!SettingsTypeOK

LEMMA SettingsStep ==
  ASSUME SettingsInv, [ASettings!SettingsNext]_ASettings!settingsVars
  PROVE  SettingsInv'
<1>1. CASE UNCHANGED ASettings!settingsVars
  BY <1>1 DEF ASettings!settingsVars, SettingsInv, ASettings!SettingsTypeOK
<1>2. ASSUME NEW client \in Puts, ASettings!StoreBlob(client) \/ ASettings!WriteSettings(client)
      PROVE  SettingsInv'
  BY <1>2, FileIsTorn, BlobIsFilled, FileIsFilled DEF ASettings!StoreBlob, ASettings!WriteSettings
<1>3. ASSUME NEW client \in Puts, ASettings!PutFails(client)
      PROVE  SettingsInv'
  BY <1>3, PutEnds DEF ASettings!PutFails
<1> QED
  BY <1>1, <1>2, <1>3, PutBegins, PutReads, KeyIsFound, KeyIsFilled, KeyIsEncrypted DEF ASettings!SettingsNext

LEMMA SettingsStart ==
  ASSUME ASettings!SettingsInit
  PROVE  SettingsInv
<1>1. PICK stored \in SUBSET Providers :
        a = [file |-> [p \in Providers |-> IF p \in stored THEN "ref" ELSE "none"],
             torn |-> {}, key |-> IF stored = {} THEN "none" ELSE "first",
             blob |-> [p \in Providers |-> IF p \in stored THEN "first" ELSE "none"], overlap |-> FALSE]
  BY DEF ASettings!SettingsInit
<1> DEFINE file == [p \in Providers |-> IF p \in stored THEN "ref" ELSE "none"]
           key == IF stored = {} THEN "none" ELSE "first"
           blob == [p \in Providers |-> IF p \in stored THEN "first" ELSE "none"]
           op == [at |-> "idle", patch |-> ASettings!Each("redacted"), merged |-> ASettings!Each("none"),
                  key |-> "none", copy |-> ASettings!Each("none")]
<1>2. /\ file \in [Providers -> ASettings!ApiKeys] /\ key \in ASettings!MasterKeys
      /\ blob \in [Providers -> ASettings!MasterKeys]
  BY DEF ASettings!ApiKeys, ASettings!MasterKeys
<1>3. /\ \A p \in Providers : file[p] # "plain"
      /\ \A p \in Providers : blob[p] # "none" => blob[p] = key
      /\ \A p \in Providers : file[p] = "ref" => blob[p] # "none" /\ blob[p] = key
  OBVIOUS
<1>4. a = [file |-> file, torn |-> {}, key |-> key, blob |-> blob, overlap |-> FALSE]
  BY <1>1
<1> HIDE DEF file, key, blob
<1>5. a \in ASettings!SettingsStores /\ a.file = file /\ a.key = key /\ a.blob = blob
  BY <1>2, <1>4 DEF ASettings!SettingsStores
<1>6. b = [client \in Puts |-> op] /\ op.at = "idle"
  BY DEF ASettings!SettingsInit
<1>7. op \in ASettings!PutStates
  <2>1. /\ ASettings!Each("redacted") \in ASettings!Patches /\ ASettings!Each("none") \in [Providers -> ASettings!ApiKeys]
        /\ ASettings!Each("none") \in [Providers -> ASettings!MasterKeys] /\ "none" \in ASettings!MasterKeys
    BY DEF ASettings!Each, ASettings!Patches, ASettings!ApiKeys, ASettings!MasterKeys
  <2> QED
    BY <2>1 DEF ASettings!PutStates
<1> HIDE DEF op
<1>8. b \in [Puts -> ASettings!PutStates] /\ \A x \in Puts : b[x].at = "idle"
  BY <1>6, <1>7
<1> QED
  BY <1>3, <1>5, <1>8 DEF SettingsInv, ASettings!SettingsTypeOK, PutKept

-----------------------------------------------------------------------------
(* The onboarding account.                                                 *)

\* What is left and what was charged make up the grant of s.
AddsUp(s) ==
  IF s.granted THEN s.balance + AWelcome!Charged(s) = Points ELSE s.balance + AWelcome!Charged(s) = 0

\* What the account keeps: its types, its books and the receipt before the asking.
WelcomeInv == AWelcome!WelcomeTypeOK /\ AWelcome!ReceiptBeforeAsking /\ AWelcome!PointsAddUp

\* What may be saved next: no receipt is lost, and the points add up.
Fits(next) ==
  /\ next \in AWelcome!AccountSnapshots /\ AddsUp(next)
  /\ \A chat \in Chats : b.chats[chat] # "none" => next.chats[chat] # "none"

LEMMA BothAddUp ==
  /\ AWelcome!PointsAddUp <=> AddsUp(a) /\ AddsUp(b)
  /\ AWelcome!PointsAddUp' <=> AddsUp(a') /\ AddsUp(b')
BY DEF AWelcome!PointsAddUp, AddsUp, AWelcome!Charged

\* The cardinality of the component's module is that of FiniteSets.
LEMMA CardinalitiesAlike == \A S : AWelcome!Cardinality(S) = Cardinality(S)
BY DEF AWelcome!Cardinality, Cardinality

\* The chats that a snapshot has charged for.
ChargedChats(s) == {chat \in Chats : s.chats[chat] \in {"pending", "success"}}

LEMMA ChargedIsFinite ==
  ASSUME NEW s
  PROVE  IsFiniteSet(ChargedChats(s)) /\ AWelcome!Charged(s) \in Nat /\ AWelcome!Charged(s) = Cardinality(ChargedChats(s))
<1>1. ChargedChats(s) \subseteq Chats /\ IsFiniteSet(Chats)
  BY ServicesAssumption DEF ChargedChats
<1>2. IsFiniteSet(ChargedChats(s))
  BY <1>1, FS_Subset
<1>3. AWelcome!Charged(s) = Cardinality(ChargedChats(s))
  <2>1. ChargedChats(s) = {x \in Chats : s.chats[x] \in {"pending", "success"}}
    BY DEF ChargedChats
  <2>2. AWelcome!Charged(s) = Cardinality({x \in Chats : s.chats[x] \in {"pending", "success"}})
    BY CardinalitiesAlike DEF AWelcome!Charged
  <2> QED
    BY <2>1, <2>2
<1> QED
  BY <1>2, <1>3, FS_CardinalityType

\* A chat of which one snapshot is charged and another is not, all others being as they are.
LEMMA ChargedOnce ==
  ASSUME NEW s, NEW t, NEW chat \in Chats,
         s.chats[chat] \notin {"pending", "success"}, t.chats[chat] \in {"pending", "success"},
         \A x \in Chats \ {chat} : s.chats[x] = t.chats[x]
  PROVE  AWelcome!Charged(t) = AWelcome!Charged(s) + 1
<1>1. ChargedChats(t) = ChargedChats(s) \cup {chat} /\ chat \notin ChargedChats(s)
  BY DEF ChargedChats
<1>2. IsFiniteSet(ChargedChats(s))
  BY ChargedIsFinite
<1>3. Cardinality(ChargedChats(t)) = Cardinality(ChargedChats(s)) + 1
  BY <1>1, <1>2, FS_AddElement
<1> QED
  BY <1>3, ChargedIsFinite

LEMMA ChargedAlike ==
  ASSUME NEW s, NEW t,
         \A x \in Chats : s.chats[x] \in {"pending", "success"} <=> t.chats[x] \in {"pending", "success"}
  PROVE  AWelcome!Charged(t) = AWelcome!Charged(s)
<1>1. ChargedChats(t) = ChargedChats(s)
  BY DEF ChargedChats
<1> QED
  BY <1>1, ChargedIsFinite

LEMMA AccountTyped ==
  ASSUME AWelcome!WelcomeTypeOK
  PROVE  /\ a \in AWelcome!AccountSnapshots /\ b \in AWelcome!AccountSnapshots /\ c \in AWelcome!Desks
         /\ b.balance \in 0..Points /\ b.chats \in [Chats -> {"none", "pending", "success", "failed"}]
         /\ b.granted \in BOOLEAN
         /\ c.asked \in [Chats -> 0..2] /\ c.wrong \in 0..MaxWrong /\ c.chat \in SUBSET Chats
BY DEF AWelcome!WelcomeTypeOK, AWelcome!AccountSnapshots, AWelcome!Desks

\* The account changes while no chat is on its way.
LEMMA AccountSaves ==
  ASSUME WelcomeInv, NEW next, Fits(next), AWelcome!Save(next) \/ AWelcome!SaveFails(next),
         c' \in AWelcome!Desks, c'.asked = c.asked, c'.at \notin {"asks", "settles"}
  PROVE  WelcomeInv'
<1>1. (a' = a \/ a' = next) /\ (b' = b \/ b' = next)
  BY DEF AWelcome!Save, AWelcome!SaveFails
<1>2. AWelcome!WelcomeTypeOK'
  BY <1>1 DEF WelcomeInv, AWelcome!WelcomeTypeOK, Fits
<1>3. AWelcome!PointsAddUp'
  BY <1>1, BothAddUp DEF WelcomeInv, Fits
<1>4. ASSUME NEW chat \in Chats, c.asked[chat] > 0
      PROVE  a'.chats[chat] # "none" /\ b'.chats[chat] # "none"
  <2>1. a.chats[chat] # "none" /\ b.chats[chat] # "none"
    BY <1>4 DEF WelcomeInv, AWelcome!ReceiptBeforeAsking
  <2>2. next.chats[chat] # "none"
    BY <2>1 DEF Fits
  <2> QED
    BY <1>1, <2>1, <2>2
<1>5. AWelcome!ReceiptBeforeAsking'
  BY <1>4 DEF WelcomeInv, AWelcome!ReceiptBeforeAsking
<1> QED
  BY <1>2, <1>3, <1>5 DEF WelcomeInv

\* The desk changes, and no chat with it.
LEMMA DeskMoves ==
  ASSUME WelcomeInv, a' = a, b' = b, c' \in AWelcome!Desks, c'.asked = c.asked,
         c'.at \in {"asks", "settles"} => c'.at = c.at /\ c'.chat = c.chat
  PROVE  WelcomeInv'
<1>1. AWelcome!WelcomeTypeOK' /\ AWelcome!PointsAddUp'
  BY BothAddUp DEF WelcomeInv, AWelcome!WelcomeTypeOK
<1>2. AWelcome!ReceiptBeforeAsking'
  BY DEF WelcomeInv, AWelcome!ReceiptBeforeAsking
<1> QED
  BY <1>1, <1>2 DEF WelcomeInv

\* The account as it is, or with another flag, may be saved.
LEMMA AccountFits ==
  ASSUME WelcomeInv
  PROVE  /\ Fits(b)
         /\ \A linked \in BOOLEAN : Fits([b EXCEPT !.user = TRUE, !.linked = linked])
         /\ Fits([b EXCEPT !.linked = TRUE]) /\ Fits([b EXCEPT !.configured = TRUE])
         /\ \A mode \in {"online", "local"} : Fits([b EXCEPT !.mode = mode])
<1>1. b \in AWelcome!AccountSnapshots /\ AddsUp(b)
  BY AccountTyped, BothAddUp DEF WelcomeInv
<1>2. ASSUME NEW next \in AWelcome!AccountSnapshots, next.granted = b.granted, next.balance = b.balance,
             next.chats = b.chats
      PROVE  Fits(next)
  <2>1. AWelcome!Charged(next) = AWelcome!Charged(b)
    BY <1>2 DEF AWelcome!Charged
  <2> QED
    BY <1>1, <1>2, <2>1 DEF Fits, AddsUp
<1>3. Fits(b)
  BY <1>1, <1>2
<1>4. ASSUME NEW linked \in BOOLEAN PROVE Fits([b EXCEPT !.user = TRUE, !.linked = linked])
  <2> DEFINE next == [b EXCEPT !.user = TRUE, !.linked = linked]
  <2>1. next \in AWelcome!AccountSnapshots /\ next.granted = b.granted /\ next.balance = b.balance
        /\ next.chats = b.chats
    BY <1>1 DEF AWelcome!AccountSnapshots
  <2> QED
    BY <1>2, <2>1
<1>5. Fits([b EXCEPT !.linked = TRUE])
  <2> DEFINE next == [b EXCEPT !.linked = TRUE]
  <2>1. next \in AWelcome!AccountSnapshots /\ next.granted = b.granted /\ next.balance = b.balance
        /\ next.chats = b.chats
    BY <1>1 DEF AWelcome!AccountSnapshots
  <2> QED
    BY <1>2, <2>1
<1>6. Fits([b EXCEPT !.configured = TRUE])
  <2> DEFINE next == [b EXCEPT !.configured = TRUE]
  <2>1. next \in AWelcome!AccountSnapshots /\ next.granted = b.granted /\ next.balance = b.balance
        /\ next.chats = b.chats
    BY <1>1 DEF AWelcome!AccountSnapshots
  <2> QED
    BY <1>2, <2>1
<1>7. ASSUME NEW mode \in {"online", "local"} PROVE Fits([b EXCEPT !.mode = mode])
  <2> DEFINE next == [b EXCEPT !.mode = mode]
  <2>1. next \in AWelcome!AccountSnapshots /\ next.granted = b.granted /\ next.balance = b.balance
        /\ next.chats = b.chats
    BY <1>1 DEF AWelcome!AccountSnapshots
  <2> QED
    BY <1>2, <2>1
<1> QED
  BY <1>3, <1>4, <1>5, <1>6, <1>7

LEMMA FirstGrantFits ==
  ASSUME WelcomeInv, ~b.granted
  PROVE  Fits([b EXCEPT !.granted = TRUE, !.balance = Points])
<1> DEFINE next == [b EXCEPT !.granted = TRUE, !.balance = Points]
<1>1. b \in AWelcome!AccountSnapshots /\ AddsUp(b) /\ b.balance \in 0..Points /\ Points \in 0..Points
  BY AccountTyped, BothAddUp, Bounds DEF WelcomeInv
<1>2. next \in AWelcome!AccountSnapshots /\ next.granted = TRUE /\ next.balance = Points /\ next.chats = b.chats
  BY <1>1 DEF AWelcome!AccountSnapshots
<1>3. AWelcome!Charged(next) = AWelcome!Charged(b)
  BY <1>2 DEF AWelcome!Charged
<1>4. AWelcome!Charged(b) = 0
  <2>1. b.balance + AWelcome!Charged(b) = 0 /\ AWelcome!Charged(b) \in Nat /\ b.balance \in Nat
    BY <1>1, ChargedIsFinite DEF AddsUp
  <2> QED
    BY <2>1
<1> HIDE DEF next
<1>5. AddsUp(next)
  BY <1>2, <1>3, <1>4, Bounds DEF AddsUp
<1> QED
  BY <1>2, <1>5 DEF Fits, next

LEMMA AccountWorks ==
  ASSUME WelcomeInv,
         \/ \E linked \in BOOLEAN : AWelcome!Register(linked)
         \/ AWelcome!LinkAccount
         \/ \E mode \in {"online", "local"} : AWelcome!SetMode(mode)
         \/ AWelcome!CompleteWelcome \/ AWelcome!Activate
  PROVE  WelcomeInv'
<1>0. c \in AWelcome!Desks /\ 0 \in 0..MaxWrong
  BY AccountTyped, Bounds DEF WelcomeInv
<1>1. ASSUME NEW at \in {"free", "activates"}, AWelcome!Turn(at)
      PROVE  c' \in AWelcome!Desks /\ c'.asked = c.asked /\ c'.at \notin {"asks", "settles"}
  BY <1>0, <1>1 DEF AWelcome!Turn, AWelcome!Desks
<1>2. ASSUME c' = c, AWelcome!DeskFree
      PROVE  c' \in AWelcome!Desks /\ c'.asked = c.asked /\ c'.at \notin {"asks", "settles"}
  BY <1>0, <1>2 DEF AWelcome!DeskFree
<1>3. ASSUME c' = AWelcome!SessionOpen
      PROVE  c' \in AWelcome!Desks /\ c'.asked = c.asked /\ c'.at \notin {"asks", "settles"}
  <2> DEFINE zero == 0
  <2>1. zero \in 0..MaxWrong /\ c' = [c EXCEPT !.at = "free", !.session = TRUE, !.wrong = zero, !.blocked = FALSE]
    BY <1>0, <1>3 DEF AWelcome!SessionOpen
  <2> HIDE DEF zero
  <2> QED
    BY <1>0, <2>1 DEF AWelcome!Desks
<1>4. ASSUME NEW linked \in BOOLEAN, AWelcome!Register(linked) PROVE WelcomeInv'
  <2> DEFINE next == [b EXCEPT !.user = TRUE, !.linked = linked]
  <2>1. Fits(next)
    BY AccountFits
  <2>2. CASE AWelcome!Save(next) /\ AWelcome!Turn("activates")
    BY <1>1, <2>1, <2>2, AccountSaves
  <2>3. CASE AWelcome!SaveFails(next) /\ c' = c
    BY <1>2, <1>4, <2>1, <2>3, AccountSaves DEF AWelcome!Register
  <2> QED
    BY <1>4, <2>2, <2>3 DEF AWelcome!Register
<1>5. ASSUME AWelcome!LinkAccount PROVE WelcomeInv'
  <2> DEFINE next == [b EXCEPT !.linked = TRUE]
  <2>1. Fits(next)
    BY AccountFits
  <2>2. CASE AWelcome!Save(next) /\ AWelcome!Turn("activates")
    BY <1>1, <2>1, <2>2, AccountSaves
  <2>3. CASE AWelcome!SaveFails(next) /\ c' = c
    BY <1>2, <1>5, <2>1, <2>3, AccountSaves DEF AWelcome!LinkAccount, AWelcome!Active
  <2> QED
    BY <1>5, <2>2, <2>3 DEF AWelcome!LinkAccount
<1>6. ASSUME NEW mode \in {"online", "local"}, AWelcome!SetMode(mode) PROVE WelcomeInv'
  BY <1>2, <1>6, AccountFits, AccountSaves DEF AWelcome!SetMode, AWelcome!Active
<1>7. ASSUME AWelcome!CompleteWelcome PROVE WelcomeInv'
  BY <1>2, <1>7, AccountFits, AccountSaves DEF AWelcome!CompleteWelcome, AWelcome!Active
<1>8. ASSUME AWelcome!Activate PROVE WelcomeInv'
  <2> DEFINE next == IF b.granted THEN b ELSE [b EXCEPT !.granted = TRUE, !.balance = Points]
  <2>1. Fits(next)
    BY AccountFits, FirstGrantFits
  <2>2. AWelcome!Save(next) \/ AWelcome!SaveFails(next)
    BY <1>8 DEF AWelcome!Activate
  <2>3. c' = AWelcome!SessionOpen \/ AWelcome!Turn("free")
    BY <1>8 DEF AWelcome!Activate
  <2> HIDE DEF next
  <2> QED
    BY <1>1, <1>3, <2>1, <2>2, <2>3, AccountSaves
<1> QED
  BY <1>4, <1>5, <1>6, <1>7, <1>8

LEMMA DeskWorks ==
  ASSUME WelcomeInv,
         \/ \E right \in BOOLEAN : AWelcome!SignIn(right)
         \/ AWelcome!BlockEnds \/ AWelcome!SessionEnds \/ AWelcome!AuthorizeProvider
  PROVE  WelcomeInv'
<1>0. c \in AWelcome!Desks /\ c.wrong \in 0..MaxWrong
  BY AccountTyped DEF WelcomeInv
<1>1. CASE AWelcome!BlockEnds \/ AWelcome!SessionEnds \/ AWelcome!AuthorizeProvider
  <2>1. c' \in AWelcome!Desks /\ c'.asked = c.asked /\ c'.at = c.at /\ c'.chat = c.chat
    BY <1>0, <1>1 DEF AWelcome!BlockEnds, AWelcome!SessionEnds, AWelcome!AuthorizeProvider, AWelcome!Desks
  <2> QED
    BY <1>1, <2>1, DeskMoves DEF AWelcome!BlockEnds, AWelcome!SessionEnds, AWelcome!AuthorizeProvider, AWelcome!Unchanged
<1>2. ASSUME NEW right \in BOOLEAN, AWelcome!SignIn(right) PROVE WelcomeInv'
  <2>1. CASE AWelcome!Turn("activates")
    <3>1. c' \in AWelcome!Desks /\ c'.asked = c.asked /\ c'.at = "activates"
      BY <1>0, <2>1 DEF AWelcome!Turn, AWelcome!Desks
    <3> QED
      BY <1>2, <3>1, DeskMoves DEF AWelcome!SignIn, AWelcome!Unchanged
  <2>2. CASE \E wrong \in 0..MaxWrong, blocked \in BOOLEAN : c' = [c EXCEPT !.wrong = wrong, !.blocked = blocked]
    <3>1. c' \in AWelcome!Desks /\ c'.asked = c.asked /\ c'.at = c.at /\ c'.chat = c.chat
      BY <1>0, <2>2 DEF AWelcome!Desks
    <3> QED
      BY <1>2, <3>1, DeskMoves DEF AWelcome!SignIn, AWelcome!Unchanged
  <2>3. ASSUME NEW wrong, wrong = IF c.wrong < MaxWrong THEN c.wrong + 1 ELSE MaxWrong PROVE wrong \in 0..MaxWrong
    BY <1>0, <2>3, Bounds
  <2> QED
    BY <1>2, <2>1, <2>2, <2>3 DEF AWelcome!SignIn
<1> QED
  BY <1>1, <1>2

\* A chat is reserved, asked about and settled.
LEMMA ChatIsReserved ==
  ASSUME WelcomeInv, NEW chat \in Chats, AWelcome!ReserveChat(chat)
  PROVE  WelcomeInv'
<1> DEFINE next == AWelcome!Reserved(chat)
<1>0. /\ b \in AWelcome!AccountSnapshots /\ AddsUp(b) /\ b.balance \in 0..Points /\ c \in AWelcome!Desks
      /\ b.chats \in [Chats -> {"none", "pending", "success", "failed"}] /\ c.asked \in [Chats -> 0..2]
  BY AccountTyped, BothAddUp DEF WelcomeInv
<1>1. /\ b.balance > 0 /\ b.chats[chat] = "none" /\ AWelcome!DeskFree
      /\ next = [b EXCEPT !.balance = b.balance - 1, !.chats = [b.chats EXCEPT ![chat] = "pending"]]
  BY <1>0 DEF AWelcome!ReserveChat, AWelcome!Reserved, AWelcome!Receipts, AWelcome!AccountSnapshots, AWelcome!Active
<1>2. b.balance - 1 \in 0..Points
  BY <1>0, <1>1, Bounds
<1>3. [b.chats EXCEPT ![chat] = "pending"] \in [Chats -> {"none", "pending", "success", "failed"}]
  BY <1>0
<1>4. /\ next \in AWelcome!AccountSnapshots /\ next.granted = b.granted /\ next.balance = b.balance - 1
      /\ next.chats = [b.chats EXCEPT ![chat] = "pending"]
  BY <1>0, <1>1, <1>2, <1>3 DEF AWelcome!AccountSnapshots
<1> HIDE DEF next
<1>5. next.chats[chat] = "pending" /\ \A x \in Chats \ {chat} : next.chats[x] = b.chats[x]
  BY <1>0, <1>4
<1>6. AWelcome!Charged(next) = AWelcome!Charged(b) + 1
  BY <1>1, <1>5, ChargedOnce
<1>7. AddsUp(next)
  BY <1>0, <1>1, <1>4, <1>6, ChargedIsFinite, Bounds DEF AddsUp
<1>8. Fits(next)
  BY <1>4, <1>5, <1>7 DEF Fits
<1>9. CASE AWelcome!SaveFails(next) /\ c' = c
  BY <1>0, <1>1, <1>8, <1>9, AccountSaves DEF AWelcome!DeskFree
<1>10. CASE AWelcome!Save(next) /\ c' = [c EXCEPT !.at = "asks", !.chat = {chat}]
  <2>1. c' \in AWelcome!Desks /\ c'.asked = c.asked /\ c'.at = "asks" /\ c'.chat = {chat}
    BY <1>0, <1>10 DEF AWelcome!Desks
  <2>2. a' = next /\ b' = next
    BY <1>10 DEF AWelcome!Save
  <2>3. AWelcome!WelcomeTypeOK' /\ AWelcome!PointsAddUp'
    BY <1>4, <1>7, <2>1, <2>2, BothAddUp DEF AWelcome!WelcomeTypeOK
  <2>4. c.asked[chat] = 0
    <3>1. c.asked[chat] \in 0..2 /\ ~(c.asked[chat] > 0)
      BY <1>0, <1>1 DEF WelcomeInv, AWelcome!ReceiptBeforeAsking
    <3> QED
      BY <3>1
  <2>5. \A x \in Chats : c.asked[x] > 0 => next.chats[x] # "none"
    BY <1>1, <1>5 DEF WelcomeInv, AWelcome!ReceiptBeforeAsking
  <2>6. AWelcome!ReceiptBeforeAsking'
    BY <1>5, <2>1, <2>2, <2>4, <2>5 DEF WelcomeInv, AWelcome!ReceiptBeforeAsking
  <2> QED
    BY <2>3, <2>6 DEF WelcomeInv
<1> QED
  BY <1>9, <1>10 DEF AWelcome!ReserveChat, next

LEMMA ModelIsAsked ==
  ASSUME WelcomeInv, AWelcome!AskModel
  PROVE  WelcomeInv'
<1>0. c \in AWelcome!Desks /\ c.asked \in [Chats -> 0..2] /\ a' = a /\ b' = b /\ c.at = "asks"
  BY AccountTyped DEF WelcomeInv, AWelcome!AskModel, AWelcome!Unchanged
<1> DEFINE asked == [x \in Chats |-> IF x \in c.chat /\ c.asked[x] < 2 THEN c.asked[x] + 1 ELSE c.asked[x]]
<1>1. PICK answer \in {"success", "failed", "unknown"} :
        c' = [c EXCEPT !.at = "settles", !.answer = answer, !.asked = asked]
  BY <1>0 DEF AWelcome!AskModel, AWelcome!Desks
<1>2. asked \in [Chats -> 0..2]
  BY <1>0
<1>3. PICK chat \in Chats : c.chat = {chat} /\ b.chats[chat] = "pending" /\ a.chats[chat] = "pending"
  BY <1>0 DEF WelcomeInv, AWelcome!ReceiptBeforeAsking
<1>4. c.asked[chat] = 0
  BY <1>0, <1>3 DEF WelcomeInv, AWelcome!ReceiptBeforeAsking
<1>5. asked[chat] = 1 /\ \A x \in Chats \ {chat} : asked[x] = c.asked[x]
  BY <1>3, <1>4
<1> HIDE DEF asked
<1>6. c' \in AWelcome!Desks /\ c'.asked = asked /\ c'.at = "settles" /\ c'.chat = c.chat
  BY <1>0, <1>1, <1>2 DEF AWelcome!Desks
<1>7. AWelcome!WelcomeTypeOK' /\ AWelcome!PointsAddUp'
  BY <1>0, <1>6, BothAddUp DEF WelcomeInv, AWelcome!WelcomeTypeOK
<1>8. \A x \in Chats : asked[x] <= 1 /\ (asked[x] > 0 => b.chats[x] # "none" /\ a.chats[x] # "none")
  <2>1. \A x \in Chats \ {chat} : asked[x] <= 1 /\ (asked[x] > 0 => b.chats[x] # "none" /\ a.chats[x] # "none")
    BY <1>5 DEF WelcomeInv, AWelcome!ReceiptBeforeAsking
  <2> QED
    BY <1>3, <1>5, <2>1
<1>9. AWelcome!ReceiptBeforeAsking'
  BY <1>0, <1>3, <1>6, <1>8 DEF AWelcome!ReceiptBeforeAsking
<1> QED
  BY <1>7, <1>9 DEF WelcomeInv

LEMMA SettledFits ==
  ASSUME WelcomeInv, NEW chat \in Chats, b.chats[chat] = "pending"
  PROVE  /\ Fits([b EXCEPT !.chats[chat] = "success"])
         /\ Fits([b EXCEPT !.chats[chat] = "failed", !.balance = @ + 1])
<1>0. /\ b \in AWelcome!AccountSnapshots /\ AddsUp(b) /\ b.balance \in 0..Points
      /\ b.chats \in [Chats -> {"none", "pending", "success", "failed"}]
  BY AccountTyped, BothAddUp DEF WelcomeInv
<1>1. Fits([b EXCEPT !.chats[chat] = "success"])
  <2> DEFINE chats == [b.chats EXCEPT ![chat] = "success"]
             next == [b EXCEPT !.chats = chats]
  <2>1. chats \in [Chats -> {"none", "pending", "success", "failed"}] /\ chats[chat] = "success"
        /\ \A x \in Chats \ {chat} : chats[x] = b.chats[x]
    BY <1>0
  <2> HIDE DEF chats
  <2>2. next \in AWelcome!AccountSnapshots /\ next.granted = b.granted /\ next.balance = b.balance
        /\ next.chats = chats
    BY <1>0, <2>1 DEF AWelcome!AccountSnapshots
  <2> HIDE DEF next
  <2>3. AWelcome!Charged(next) = AWelcome!Charged(b)
    BY <2>1, <2>2, ChargedAlike
  <2>4. Fits(next)
    BY <1>0, <2>1, <2>2, <2>3 DEF Fits, AddsUp
  <2>5. next = [b EXCEPT !.chats[chat] = "success"]
    BY <1>0 DEF next, chats
  <2> QED
    BY <2>4, <2>5
<1>2. Fits([b EXCEPT !.chats[chat] = "failed", !.balance = @ + 1])
  <2> DEFINE chats == [b.chats EXCEPT ![chat] = "failed"]
             balance == b.balance + 1
             next == [b EXCEPT !.chats = chats, !.balance = balance]
  <2>1. chats \in [Chats -> {"none", "pending", "success", "failed"}] /\ chats[chat] = "failed"
        /\ \A x \in Chats \ {chat} : chats[x] = b.chats[x]
    BY <1>0
  <2>2. next = [b EXCEPT !.chats[chat] = "failed", !.balance = @ + 1]
    BY <1>0 DEF AWelcome!AccountSnapshots
  <2> HIDE DEF chats
  <2>3. \A s : s.chats = chats => AWelcome!Charged(b) = AWelcome!Charged(s) + 1
    BY <2>1, ChargedOnce
  <2>4. AWelcome!Charged([b EXCEPT !.chats = chats]) \in Nat
        /\ AWelcome!Charged(b) = AWelcome!Charged([b EXCEPT !.chats = chats]) + 1
    <3>1. [b EXCEPT !.chats = chats].chats = chats
      BY <1>0 DEF AWelcome!AccountSnapshots
    <3> QED
      BY <2>3, <3>1, ChargedIsFinite
  <2>5. balance \in 0..Points /\ b.granted
    BY <1>0, <2>4, Bounds DEF AddsUp
  <2>6. b.granted => b.balance + AWelcome!Charged(b) = Points
    BY <1>0 DEF AddsUp
  <2>7. next \in AWelcome!AccountSnapshots /\ next.granted = b.granted /\ next.balance = balance
        /\ next.chats = chats
    <3> HIDE DEF balance
    <3> QED
      BY <1>0, <2>1, <2>5 DEF AWelcome!AccountSnapshots
  <2> HIDE DEF next
  <2>8. AWelcome!Charged(next) \in Nat /\ AWelcome!Charged(b) = AWelcome!Charged(next) + 1
    BY <2>3, <2>7, ChargedIsFinite
  <2>9. AddsUp(next)
    <3>1. next.balance + AWelcome!Charged(next) = Points
      BY <1>0, <2>5, <2>6, <2>7, <2>8, Bounds
    <3> QED
      BY <2>5, <2>7, <3>1 DEF AddsUp
  <2>10. Fits(next)
    BY <2>1, <2>7, <2>9 DEF Fits
  <2> QED
    BY <2>2, <2>10
<1> QED
  BY <1>1, <1>2

LEMMA ChatIsSettled ==
  ASSUME WelcomeInv, AWelcome!SettleChat
  PROVE  WelcomeInv'
<1>1. PICK chat \in Chats : c.chat = {chat} /\ b.chats[chat] = "pending"
  BY DEF AWelcome!SettleChat, WelcomeInv, AWelcome!ReceiptBeforeAsking
<1>2. c' \in AWelcome!Desks /\ c'.asked = c.asked /\ c'.at = "free"
  BY AccountTyped DEF AWelcome!SettleChat, AWelcome!Turn, AWelcome!Desks, WelcomeInv
<1>3. \E next : Fits(next) /\ (AWelcome!Save(next) \/ AWelcome!SaveFails(next))
  <2>1. CASE c.answer = "success"
    BY <1>1, <2>1, SettledFits DEF AWelcome!SettleChat
  <2>2. CASE c.answer = "failed"
    BY <1>1, <2>2, SettledFits DEF AWelcome!SettleChat
  <2>3. CASE c.answer \notin {"success", "failed"}
    BY <1>1, <2>3, AccountFits DEF AWelcome!SettleChat
  <2> QED
    BY <2>1, <2>2, <2>3
<1> QED
  BY <1>2, <1>3, AccountSaves

LEMMA StoreIsReopened ==
  ASSUME WelcomeInv, AWelcome!Reopen
  PROVE  WelcomeInv'
<1> DEFINE zero == 0
<1>0. c \in AWelcome!Desks /\ zero \in 0..MaxWrong /\ a' = a /\ b' = a
      /\ c' = [c EXCEPT !.at = "free", !.chat = {}, !.answer = "none", !.session = FALSE, !.wrong = zero,
                        !.blocked = FALSE, !.pinned = FALSE]
  BY AccountTyped, Bounds DEF WelcomeInv, AWelcome!Reopen
<1> HIDE DEF zero
<1>1. c' \in AWelcome!Desks /\ c'.asked = c.asked /\ c'.at = "free"
  BY <1>0 DEF AWelcome!Desks
<1>2. AWelcome!WelcomeTypeOK' /\ AWelcome!PointsAddUp'
  BY <1>0, <1>1, BothAddUp DEF WelcomeInv, AWelcome!WelcomeTypeOK
<1>3. AWelcome!ReceiptBeforeAsking'
  BY <1>0, <1>1 DEF WelcomeInv, AWelcome!ReceiptBeforeAsking
<1> QED
  BY <1>2, <1>3 DEF WelcomeInv

LEMMA WelcomeStep ==
  ASSUME WelcomeInv, [AWelcome!WelcomeNext]_AWelcome!welcomeVars
  PROVE  WelcomeInv'
<1>1. CASE UNCHANGED AWelcome!welcomeVars
  <2>1. a' = a /\ b' = b /\ c' = c
    BY <1>1 DEF AWelcome!welcomeVars
  <2> QED
    BY <2>1, DeskMoves, AccountTyped DEF WelcomeInv
<1> QED
  BY <1>1, AccountWorks, DeskWorks, ChatIsReserved, ModelIsAsked, ChatIsSettled, StoreIsReopened
     DEF AWelcome!WelcomeNext

LEMMA WelcomeStarts ==
  ASSUME AWelcome!WelcomeInit
  PROVE  WelcomeInv
<1> DEFINE chats == [x \in Chats |-> "none"]
           asked == [x \in Chats |-> 0]
           zero == 0
<1>1. /\ chats \in [Chats -> {"none", "pending", "success", "failed"}] /\ \A x \in Chats : chats[x] = "none"
      /\ asked \in [Chats -> 0..2] /\ \A x \in Chats : asked[x] = 0
      /\ zero \in 0..Points /\ zero \in 0..MaxWrong
  BY Bounds
<1>2. AWelcome!NoAccount = [user |-> FALSE, granted |-> FALSE, balance |-> zero, linked |-> FALSE,
                            configured |-> FALSE, mode |-> "online", chats |-> chats]
  BY DEF AWelcome!NoAccount
<1>3. /\ a = AWelcome!NoAccount /\ b = AWelcome!NoAccount
      /\ c = [session |-> FALSE, wrong |-> zero, blocked |-> FALSE, pinned |-> FALSE,
              at |-> "free", chat |-> {}, answer |-> "none", asked |-> asked]
  BY DEF AWelcome!WelcomeInit
<1>4. zero = 0
  OBVIOUS
<1> HIDE DEF chats, asked, zero
<1>5. /\ AWelcome!NoAccount \in AWelcome!AccountSnapshots /\ AWelcome!NoAccount.granted = FALSE
      /\ AWelcome!NoAccount.balance = zero /\ AWelcome!NoAccount.chats = chats
  BY <1>1, <1>2 DEF AWelcome!AccountSnapshots
<1>6. c \in AWelcome!Desks /\ c.at = "free" /\ c.asked = asked
  BY <1>1, <1>3 DEF AWelcome!Desks
<1>7. AWelcome!Charged(AWelcome!NoAccount) = 0
  <2>1. ChargedChats(AWelcome!NoAccount) = {}
    BY <1>1, <1>5 DEF ChargedChats
  <2> QED
    BY <2>1, ChargedIsFinite, FS_EmptySet
<1>8. AddsUp(AWelcome!NoAccount)
  BY <1>4, <1>5, <1>7 DEF AddsUp
<1>9. AWelcome!ReceiptBeforeAsking
  BY <1>1, <1>6 DEF AWelcome!ReceiptBeforeAsking
<1> QED
  BY <1>3, <1>5, <1>6, <1>8, <1>9, BothAddUp DEF WelcomeInv, AWelcome!WelcomeTypeOK

LEMMA ReceiptAsksOnce == WelcomeInv => AWelcome!AskedOnce
BY DEF WelcomeInv, AWelcome!ReceiptBeforeAsking, AWelcome!AskedOnce

-----------------------------------------------------------------------------
(* The to-dos and their board, whatever to-dos there are.                  *)

\* What the to-dos I with the dedupe keys K and a board with the lists L keep.
TodoInv(I, K, L, M) ==
  /\ Todos(I, K, L, M)!TodoTypeOK /\ Todos(I, K, L, M)!FirstOfChainRuns
  /\ Todos(I, K, L, M)!BoardIsBehind /\ Todos(I, K, L, M)!BoardIsTrue

LEMMA LanesAreNot ==
  "absent" \notin Lanes /\ "backlog" \in Lanes
BY ServicesAssumption

\* The rest of the chain waits.
LEMMA ChainShrinks ==
  ASSUME NEW I, NEW K, NEW L, NEW M, Todos(I, K, L, M)!TodoTypeOK, Todos(I, K, L, M)!FirstOfChainRuns,
         b # <<>>, b' = Todos(I, K, L, M)!Without1(1)
  PROVE  b' \in Seq(Todos(I, K, L, M)!TodoOps) /\ Todos(I, K, L, M)!FirstOfChainRuns'
<1> DEFINE Ops == Todos(I, K, L, M)!TodoOps
<1>1. b \in Seq(Ops)
  BY DEF Todos!TodoTypeOK
<1>2. Len(b) \in Nat /\ Len(b) - 1 \in Nat /\ DOMAIN b = 1..Len(b)
  BY <1>1
<1>3. b' = [i \in 1..(Len(b) - 1) |-> b[i + 1]]
  <2>1. \A i \in 1..(Len(b) - 1) : (IF i < 1 THEN i ELSE i + 1) = i + 1
    BY <1>2
  <2> QED
    BY <2>1 DEF Todos!Without1
<1>4. \A i \in 1..(Len(b) - 1) : i + 1 \in DOMAIN b /\ b[i + 1] \in Ops /\ i + 1 > 1
  BY <1>1, <1>2
<1> HIDE DEF Ops
<1>5. b' \in Seq(Ops)
  BY <1>2, <1>3, <1>4
<1>6. \A n \in DOMAIN b' : b'[n].stage = "waits"
  BY <1>3, <1>4 DEF Todos!FirstOfChainRuns
<1> QED
  BY <1>5, <1>6 DEF Todos!FirstOfChainRuns, Ops

\* The first of the chain goes on.
LEMMA HeadMoves ==
  ASSUME NEW I, NEW K, NEW L, NEW M, Todos(I, K, L, M)!TodoTypeOK, Todos(I, K, L, M)!FirstOfChainRuns,
         b # <<>>, NEW op \in Todos(I, K, L, M)!TodoOps, b' = [b EXCEPT ![1] = op], a' = a,
         op.stage = "reads" => op.copy = a,
         op.stage = "writes" =>
            /\ op.copy = [a EXCEPT ![op.id] = op.lane]
            /\ op.kind = "update" => a[op.id] # "absent"
            /\ op.kind = "enqueue" => \A j \in I : Todos(I, K, L, M)!SameKey(j, op.id) => a[j] = "absent"
  PROVE  b' \in Seq(Todos(I, K, L, M)!TodoOps) /\ Todos(I, K, L, M)!FirstOfChainRuns'
<1> DEFINE Ops == Todos(I, K, L, M)!TodoOps
<1>1. b \in Seq(Ops) /\ op \in Ops
  BY DEF Todos!TodoTypeOK
<1> HIDE DEF Ops
<1>2. b' \in Seq(Ops) /\ DOMAIN b' = DOMAIN b
  BY <1>1
<1>3. 1 \in DOMAIN b /\ b'[1] = op /\ \A n \in DOMAIN b \ {1} : b'[n] = b[n] /\ n > 1
  BY <1>1
<1>4. \A n \in DOMAIN b' : n > 1 => b'[n].stage = "waits"
  <2>1. ~ (1 > 1)
    OBVIOUS
  <2> QED
    BY <1>2, <1>3, <2>1 DEF Todos!FirstOfChainRuns
<1>5. \A n \in DOMAIN b' : b'[n] = op \/ b'[n].stage = "waits"
  BY <1>2, <1>3, <1>4
<1>6. \A j, k : Todos(I, K, L, M)!SameKey(j, k)' = Todos(I, K, L, M)!SameKey(j, k)
  BY DEF Todos!SameKey
<1> QED
  BY <1>2, <1>4, <1>5, <1>6 DEF Todos!FirstOfChainRuns, Ops

\* The board is told only of what the file holds.
LEMMA BoardStays ==
  ASSUME NEW I, NEW K, NEW L, NEW M, TodoInv(I, K, L, M), a' = a, c' = c,
         b' \in Seq(Todos(I, K, L, M)!TodoOps), Todos(I, K, L, M)!FirstOfChainRuns'
  PROVE  TodoInv(I, K, L, M)'
BY DEF TodoInv, Todos!TodoTypeOK, Todos!BoardIsBehind, Todos!BoardIsTrue

LEMMA TodoCalled ==
  ASSUME NEW I, NEW K, NEW L, NEW M, TodoInv(I, K, L, M), NEW kind \in {"enqueue", "update"}, NEW id \in I,
         NEW lane \in Lanes, NEW byBoard \in BOOLEAN, Todos(I, K, L, M)!CallTodo(kind, id, lane, byBoard)
  PROVE  TodoInv(I, K, L, M)'
<1> DEFINE Ops == Todos(I, K, L, M)!TodoOps
           op == [kind |-> kind, id |-> id, lane |-> lane, byBoard |-> byBoard, stage |-> "waits",
                  copy |-> Todos(I, K, L, M)!NoTodos]
<1>1. b \in Seq(Ops) /\ Todos(I, K, L, M)!FirstOfChainRuns
  BY DEF TodoInv, Todos!TodoTypeOK
<1>2. op \in Ops /\ op.stage = "waits"
  <2>1. Todos(I, K, L, M)!NoTodos \in Todos(I, K, L, M)!TodoFiles
    BY DEF Todos!NoTodos, Todos!TodoFiles
  <2> QED
    BY <2>1 DEF Todos!TodoOps
<1>3. b' = Append(b, op) /\ a' = a /\ c' = c
  BY DEF Todos!CallTodo
<1> HIDE DEF Ops, op
<1>4. b' \in Seq(Ops)
  BY <1>1, <1>2, <1>3
<1>5. ASSUME NEW n \in DOMAIN b'
      PROVE  b'[n] = op \/ (n \in DOMAIN b /\ b'[n] = b[n])
  <2>1. DOMAIN b = 1..Len(b) /\ Len(b) \in Nat /\ DOMAIN b' = 1..(Len(b) + 1)
    BY <1>1, <1>2, <1>3
  <2>2. n \in DOMAIN b \/ n = Len(b) + 1
    BY <2>1
  <2>3. n = Len(b) + 1 => b'[n] = op
    BY <1>1, <1>2, <1>3
  <2>4. n \in DOMAIN b => b'[n] = b[n]
    BY <1>1, <1>2, <1>3
  <2> QED
    BY <2>2, <2>3, <2>4
<1>6. \A j, k : Todos(I, K, L, M)!SameKey(j, k)' = Todos(I, K, L, M)!SameKey(j, k)
  BY DEF Todos!SameKey
<1>7. \A n \in DOMAIN b' : n > 1 => b'[n].stage = "waits"
  BY <1>1, <1>2, <1>5 DEF Todos!FirstOfChainRuns
<1>8. ASSUME NEW n \in DOMAIN b', b'[n].stage # "waits"
      PROVE  n \in DOMAIN b /\ b'[n] = b[n]
  BY <1>2, <1>5, <1>8
<1>9. Todos(I, K, L, M)!FirstOfChainRuns'
  BY <1>1, <1>3, <1>6, <1>7, <1>8 DEF Todos!FirstOfChainRuns
<1> QED
  BY <1>3, <1>4, <1>9, BoardStays DEF Ops

LEMMA TodoRead ==
  ASSUME NEW I, NEW K, NEW L, NEW M, TodoInv(I, K, L, M), NEW n, Todos(I, K, L, M)!ReadQueue(n)
  PROVE  TodoInv(I, K, L, M)' /\ a' = a
<1> DEFINE op == [b[1] EXCEPT !.stage = "reads", !.copy = a]
<1>1. /\ n = 1 /\ b # <<>> /\ a' = a /\ c' = c
      /\ \/ b' = [b EXCEPT ![1].stage = "reads", ![1].copy = a]
         \/ b' = Todos(I, K, L, M)!Without1(1)
  BY DEF Todos!ReadQueue, Todos!Runs
<1>2. /\ Todos(I, K, L, M)!TodoTypeOK /\ Todos(I, K, L, M)!FirstOfChainRuns /\ b \in Seq(Todos(I, K, L, M)!TodoOps)
      /\ a \in Todos(I, K, L, M)!TodoFiles
  BY DEF TodoInv, Todos!TodoTypeOK
<1>3. b[1] \in Todos(I, K, L, M)!TodoOps /\ 1 \in DOMAIN b
  BY <1>1, <1>2
<1>4. op \in Todos(I, K, L, M)!TodoOps /\ op.stage = "reads" /\ op.copy = a
  BY <1>2, <1>3 DEF Todos!TodoOps
<1>5. CASE b' = [b EXCEPT ![1].stage = "reads", ![1].copy = a]
  <2>1. b' = [b EXCEPT ![1] = op]
    BY <1>3, <1>5
  <2> HIDE DEF op
  <2>2. op.stage # "writes"
    BY <1>4
  <2>3. b' \in Seq(Todos(I, K, L, M)!TodoOps) /\ Todos(I, K, L, M)!FirstOfChainRuns'
    BY <1>1, <1>2, <1>4, <2>1, <2>2, HeadMoves
  <2> QED
    BY <1>1, <2>3, BoardStays
<1>6. CASE b' = Todos(I, K, L, M)!Without1(1)
  BY <1>1, <1>2, <1>6, ChainShrinks, BoardStays
<1> QED
  BY <1>1, <1>5, <1>6

LEMMA TodoChanged ==
  ASSUME NEW I, NEW K, NEW L, NEW M, TodoInv(I, K, L, M), NEW n, Todos(I, K, L, M)!ChangeItem(n)
  PROVE  TodoInv(I, K, L, M)' /\ a' = a
<1> DEFINE op == b[1]
           new == [op EXCEPT !.stage = "writes", !.copy[op.id] = op.lane]
<1>1. /\ n = 1 /\ b # <<>> /\ a' = a /\ c' = c /\ op.stage = "reads"
      /\ IF Todos(I, K, L, M)!Refused(op) THEN b' = Todos(I, K, L, M)!Without1(1)
         ELSE b' = [b EXCEPT ![1].stage = "writes", ![1].copy[op.id] = op.lane]
  BY DEF Todos!ChangeItem, Todos!Runs
<1>2. /\ Todos(I, K, L, M)!TodoTypeOK /\ Todos(I, K, L, M)!FirstOfChainRuns /\ b \in Seq(Todos(I, K, L, M)!TodoOps)
      /\ a \in Todos(I, K, L, M)!TodoFiles
  BY DEF TodoInv, Todos!TodoTypeOK
<1>3. op \in Todos(I, K, L, M)!TodoOps /\ 1 \in DOMAIN b
  BY <1>1, <1>2
<1>4. op.copy = a
  BY <1>1, <1>2, <1>3 DEF Todos!FirstOfChainRuns
<1>5. CASE Todos(I, K, L, M)!Refused(op)
  BY <1>1, <1>2, <1>5, ChainShrinks, BoardStays
<1>6. CASE ~Todos(I, K, L, M)!Refused(op)
  <2>0. op.id \in I /\ op.lane \in Lanes
    BY <1>3 DEF Todos!TodoOps
  <2>1. /\ op.kind = "update" => a[op.id] # "absent"
        /\ op.kind = "enqueue" => \A j \in I : Todos(I, K, L, M)!SameKey(j, op.id) => a[j] = "absent"
    BY <1>4, <1>6 DEF Todos!Refused
  <2> DEFINE copy == [a EXCEPT ![op.id] = op.lane]
  <2>2. copy \in Todos(I, K, L, M)!TodoFiles
    BY <1>2, <2>0 DEF Todos!TodoFiles
  <2>3. new = [op EXCEPT !.stage = "writes", !.copy = copy]
    BY <1>3, <1>4 DEF Todos!TodoOps
  <2>4. b' = [b EXCEPT ![1] = new]
    BY <1>1, <1>3, <1>6
  <2> HIDE DEF copy, new
  <2>5. /\ new \in Todos(I, K, L, M)!TodoOps /\ new.stage = "writes" /\ new.copy = copy /\ new.id = op.id
        /\ new.lane = op.lane /\ new.kind = op.kind
    BY <1>3, <2>2, <2>3 DEF Todos!TodoOps
  <2> HIDE DEF op
  <2>6. new.copy = [a EXCEPT ![new.id] = new.lane] /\ new.stage # "reads"
    BY <2>5 DEF copy
  <2>7. b' \in Seq(Todos(I, K, L, M)!TodoOps) /\ Todos(I, K, L, M)!FirstOfChainRuns'
    BY <1>1, <1>2, <2>1, <2>4, <2>5, <2>6, HeadMoves
  <2> QED
    BY <1>1, <2>7, BoardStays
<1> QED
  BY <1>1, <1>5, <1>6

\* A write puts one item in its lane, and the board is told.
LEMMA TodoWritten ==
  ASSUME NEW I, NEW K, NEW L, NEW M, TodoInv(I, K, L, M), NEW n, Todos(I, K, L, M)!WriteQueue(n)
  PROVE  /\ TodoInv(I, K, L, M)'
         /\ a' # a => Todos(I, K, L, M)!OneTodoAtATime
<1> DEFINE op == b[1]
<1>1. /\ n = 1 /\ b # <<>> /\ op.stage = "writes" /\ b' = Todos(I, K, L, M)!Without1(1)
      /\ \/ a' = op.copy /\ Todos(I, K, L, M)!Published(op)
         \/ a' = a /\ c' = c
  BY DEF Todos!WriteQueue, Todos!Runs
<1>2. /\ Todos(I, K, L, M)!TodoTypeOK /\ Todos(I, K, L, M)!FirstOfChainRuns /\ b \in Seq(Todos(I, K, L, M)!TodoOps)
      /\ a \in Todos(I, K, L, M)!TodoFiles /\ c \in Todos(I, K, L, M)!Boards
      /\ Todos(I, K, L, M)!BoardIsBehind /\ Todos(I, K, L, M)!BoardIsTrue
  BY DEF TodoInv, Todos!TodoTypeOK
<1>3. op \in Todos(I, K, L, M)!TodoOps /\ 1 \in DOMAIN b
  BY <1>1, <1>2
<1>4. /\ op.copy = [a EXCEPT ![op.id] = op.lane]
      /\ op.kind = "update" => a[op.id] # "absent"
      /\ op.kind = "enqueue" => \A j \in I : Todos(I, K, L, M)!SameKey(j, op.id) => a[j] = "absent"
  BY <1>1, <1>2, <1>3 DEF Todos!FirstOfChainRuns
<1>5. b' \in Seq(Todos(I, K, L, M)!TodoOps) /\ Todos(I, K, L, M)!FirstOfChainRuns'
  BY <1>1, <1>2, ChainShrinks
<1>6. CASE a' = a /\ c' = c
  BY <1>5, <1>6, BoardStays
<1>7. CASE a' = op.copy /\ Todos(I, K, L, M)!Published(op)
  <2>1. op.id \in I /\ op.lane \in Lanes /\ op.lane # "absent" /\ op.kind \in {"enqueue", "update"} /\ op.byBoard \in BOOLEAN
    BY <1>3, LanesAreNot DEF Todos!TodoOps
  <2> HIDE DEF op
  <2>2. /\ a' \in Todos(I, K, L, M)!TodoFiles /\ a'[op.id] = op.lane /\ \A i \in I \ {op.id} : a'[i] = a[i]
    BY <1>2, <1>4, <1>7, <2>1 DEF Todos!TodoFiles
  <2>3. \A i \in I : a[i] # "absent" => a'[i] # "absent"
    BY <2>1, <2>2
  <2>4. Todos(I, K, L, M)!OneTodoAtATime
    <3>1. \E id \in I : \A i \in I \ {id} : a'[i] = a[i]
      BY <2>1, <2>2
    <3>2. ASSUME NEW i \in I, a[i] # a'[i]
          PROVE  /\ a'[i] # "absent"
                 /\ a[i] = "absent" => \A j \in I : Todos(I, K, L, M)!SameKey(i, j) => a[j] = "absent"
      <4>1. i = op.id /\ a'[i] # "absent"
        BY <2>1, <2>2, <3>2
      <4>2. a[i] = "absent" => op.kind = "enqueue"
        BY <1>4, <2>1, <4>1
      <4>3. \A j \in I : Todos(I, K, L, M)!SameKey(i, j) => Todos(I, K, L, M)!SameKey(j, i)
        BY DEF Todos!SameKey
      <4> QED
        BY <1>4, <4>1, <4>2, <4>3
    <3> QED
      BY <3>1, <3>2 DEF Todos!OneTodoAtATime
  <2>5. CASE ~c.open
    <3>1. c' = c /\ c.answers = {}
      BY <1>2, <1>7, <2>5 DEF Todos!Published, Todos!BoardIsBehind
    <3>2. Todos(I, K, L, M)!BoardIsBehind' /\ Todos(I, K, L, M)!BoardIsTrue'
      BY <1>2, <2>3, <3>1 DEF Todos!BoardIsBehind, Todos!BoardIsTrue
    <3> QED
      BY <1>2, <1>5, <2>2, <2>4, <3>1, <3>2 DEF TodoInv, Todos!TodoTypeOK
  <2>6. CASE c.open
    <3> DEFINE told == [kind |-> op.kind, id |-> op.id, lane |-> op.lane, last |-> TRUE]
               Later(x) == [x EXCEPT !.last = x.last /\ x.id # op.id]
               answers == {Later(x) : x \in c.answers} \cup IF op.byBoard THEN {told} ELSE {}
    <3>1. PICK l \in L : c' = [c EXCEPT !.lists[l] = Todos(I, K, L, M)!Asked, !.answers = answers]
      BY <1>7, <2>6 DEF Todos!Published
    <3> DEFINE lists == [c.lists EXCEPT ![l] = Todos(I, K, L, M)!Asked]
    <3>2. /\ c.lists \in [L -> Todos(I, K, L, M)!TodoLists] /\ c.answers \in SUBSET Todos(I, K, L, M)!TodoAnswers
          /\ c.shown \in Todos(I, K, L, M)!TodoFiles
      BY <1>2 DEF Todos!Boards
    <3>3. Todos(I, K, L, M)!Asked \in Todos(I, K, L, M)!TodoLists /\ \A i \in I : Todos(I, K, L, M)!Asked.items[i] = "absent"
      BY DEF Todos!Asked, Todos!TodoLists, Todos!NoTodos, Todos!TodoFiles
    <3>4. lists \in [L -> Todos(I, K, L, M)!TodoLists] /\ \A k \in L : lists[k] = c.lists[k] \/ lists[k] = Todos(I, K, L, M)!Asked
      BY <3>2, <3>3
    <3>5. ASSUME NEW x \in c.answers
          PROVE  /\ Later(x) \in Todos(I, K, L, M)!TodoAnswers /\ Later(x).id = x.id /\ Later(x).lane = x.lane
                 /\ Later(x).last => x.last /\ x.id # op.id
                 /\ x.id \in I
      BY <3>2 DEF Todos!TodoAnswers
    <3>6. told \in Todos(I, K, L, M)!TodoAnswers /\ told.id = op.id /\ told.lane = op.lane
      BY <2>1 DEF Todos!TodoAnswers
    <3> HIDE DEF told
    <3>7. answers \in SUBSET Todos(I, K, L, M)!TodoAnswers
      BY <3>5, <3>6
    <3>8. \A x \in answers : x = told \/ \E y \in c.answers : x = Later(y)
      OBVIOUS
    <3>9. ASSUME NEW x \in answers
          PROVE  a'[x.id] # "absent" /\ (x.last => a'[x.id] = x.lane)
      <4>1. CASE x = told
        BY <2>1, <2>2, <3>6, <4>1
      <4>2. ASSUME NEW y \in c.answers, x = Later(y)
            PROVE  a'[x.id] # "absent" /\ (x.last => a'[x.id] = x.lane)
        <5>1. x.id = y.id /\ x.lane = y.lane /\ (x.last => y.last /\ y.id # op.id) /\ y.id \in I
          BY <3>5, <4>2
        <5>2. a[y.id] # "absent" /\ (y.last => a[y.id] = y.lane)
          BY <1>2 DEF Todos!BoardIsBehind, Todos!BoardIsTrue
        <5> QED
          BY <2>2, <2>3, <5>1, <5>2
      <4> QED
        BY <3>8, <4>1, <4>2
    <3> HIDE DEF answers, lists
    <3>10. c' = [c EXCEPT !.lists = lists, !.answers = answers]
      BY <1>2, <3>1 DEF lists, Todos!Boards
    <3>11. /\ c' \in Todos(I, K, L, M)!Boards /\ c'.lists = lists /\ c'.answers = answers /\ c'.shown = c.shown
           /\ c'.open = c.open
      BY <1>2, <3>4, <3>7, <3>10 DEF Todos!Boards
    <3>12. Todos(I, K, L, M)!BoardIsBehind'
      BY <1>2, <2>3, <2>6, <3>3, <3>4, <3>9, <3>11 DEF Todos!BoardIsBehind
    <3>13. Todos(I, K, L, M)!BoardIsTrue'
      BY <1>2, <2>3, <3>9, <3>11 DEF Todos!BoardIsTrue
    <3> QED
      BY <1>5, <2>2, <2>4, <3>11, <3>12, <3>13 DEF TodoInv, Todos!TodoTypeOK
  <2> QED
    BY <2>5, <2>6
<1> QED
  BY <1>1, <1>6, <1>7

\* The lists and answers of the board, its file and chain as they are.
LEMMA BoardMoves ==
  ASSUME NEW I, NEW K, NEW L, NEW M, TodoInv(I, K, L, M), a' = a, b' = b,
         c' \in Todos(I, K, L, M)!Boards, c'.answers \subseteq c.answers, c.open => c'.open,
         \A l \in L, i \in I : c'.lists[l].items[i] # "absent" => a[i] # "absent",
         \A i \in I : c'.shown[i] # "absent" => a[i] # "absent"
  PROVE  TodoInv(I, K, L, M)'
<1>1. Todos(I, K, L, M)!BoardIsBehind' /\ Todos(I, K, L, M)!BoardIsTrue'
  BY DEF TodoInv, Todos!BoardIsBehind, Todos!BoardIsTrue
<1>2. \A j, k : Todos(I, K, L, M)!SameKey(j, k)' = Todos(I, K, L, M)!SameKey(j, k)
  BY DEF Todos!SameKey
<1>3. Todos(I, K, L, M)!FirstOfChainRuns'
  BY <1>2 DEF TodoInv, Todos!FirstOfChainRuns
<1> QED
  BY <1>1, <1>3 DEF TodoInv, Todos!TodoTypeOK

LEMMA BoardLooks ==
  ASSUME NEW I, NEW K, NEW L, NEW M, TodoInv(I, K, L, M),
         \/ Todos(I, K, L, M)!OpenBoard
         \/ \E l \in L : Todos(I, K, L, M)!ReadList(l) \/ Todos(I, K, L, M)!Listed(l)
         \/ \E answer \in c.answers : Todos(I, K, L, M)!Answered(answer)
  PROVE  TodoInv(I, K, L, M)' /\ a' = a
<1> DEFINE Lists == Todos(I, K, L, M)!TodoLists
<1>1. /\ c \in Todos(I, K, L, M)!Boards /\ c.lists \in [L -> Lists] /\ a \in Todos(I, K, L, M)!TodoFiles
      /\ c.shown \in Todos(I, K, L, M)!TodoFiles /\ c.answers \in SUBSET Todos(I, K, L, M)!TodoAnswers
      /\ Todos(I, K, L, M)!BoardIsBehind /\ Todos(I, K, L, M)!BoardIsTrue
  BY DEF TodoInv, Todos!TodoTypeOK, Todos!Boards
<1>2. /\ \A l \in L, i \in I : c.lists[l].items[i] # "absent" => a[i] # "absent"
      /\ \A i \in I : c.shown[i] # "absent" => a[i] # "absent"
  BY <1>1 DEF Todos!BoardIsBehind, Todos!BoardIsTrue
<1>3. \A x \in {Todos(I, K, L, M)!Asked, Todos(I, K, L, M)!NotListed} :
        x \in Lists /\ \A i \in I : x.items[i] = "absent"
  BY DEF Todos!Asked, Todos!NotListed, Todos!TodoLists, Todos!NoTodos, Todos!TodoFiles
<1>4. ASSUME NEW l \in L, NEW list \in Lists, \A i \in I : list.items[i] # "absent" => a[i] # "absent",
             NEW open \in BOOLEAN, c.open => open, NEW shown \in Todos(I, K, L, M)!TodoFiles,
             \A i \in I : shown[i] # "absent" => a[i] # "absent",
             c' = [c EXCEPT !.open = open, !.lists[l] = list, !.shown = shown], a' = a, b' = b
      PROVE  TodoInv(I, K, L, M)'
  <2> DEFINE lists == [c.lists EXCEPT ![l] = list]
  <2>1. lists \in [L -> Lists] /\ \A k \in L : lists[k] = c.lists[k] \/ lists[k] = list
    BY <1>1
  <2>2. c' = [c EXCEPT !.open = open, !.lists = lists, !.shown = shown]
    BY <1>1, <1>4 DEF Todos!Boards
  <2> HIDE DEF lists
  <2>3. /\ c' \in Todos(I, K, L, M)!Boards /\ c'.open = open /\ c'.lists = lists /\ c'.shown = shown
        /\ c'.answers = c.answers
    BY <1>1, <2>1, <2>2 DEF Todos!Boards
  <2>4. \A k \in L, i \in I : lists[k].items[i] # "absent" => a[i] # "absent"
    BY <1>2, <1>4, <2>1
  <2> QED
    BY <1>4, <2>3, <2>4, BoardMoves
<1>5. c.open \in BOOLEAN
  BY <1>1 DEF Todos!Boards
<1>6. CASE Todos(I, K, L, M)!OpenBoard
  <2>1. PICK l \in L : c' = [c EXCEPT !.open = TRUE, !.lists[l] = Todos(I, K, L, M)!Asked]
    BY <1>6 DEF Todos!OpenBoard
  <2>2. c' = [c EXCEPT !.open = TRUE, !.lists[l] = Todos(I, K, L, M)!Asked, !.shown = c.shown]
    BY <1>1, <2>1 DEF Todos!Boards
  <2>3. a' = a /\ b' = b
    BY <1>6 DEF Todos!OpenBoard
  <2> QED
    BY <1>1, <1>2, <1>3, <1>4, <2>2, <2>3
<1>7. ASSUME NEW l \in L, Todos(I, K, L, M)!ReadList(l)
      PROVE  TodoInv(I, K, L, M)'
  <2> DEFINE list == [at |-> "read", items |-> a]
  <2>1. list \in Lists /\ list.items = a
    BY <1>1 DEF Todos!TodoLists
  <2>2. c' = [c EXCEPT !.lists[l] = list] /\ a' = a /\ b' = b
    BY <1>7 DEF Todos!ReadList
  <2>3. c' = [c EXCEPT !.open = c.open, !.lists[l] = list, !.shown = c.shown]
    BY <1>1, <2>2 DEF Todos!Boards
  <2> HIDE DEF list
  <2>4. \A i \in I : list.items[i] # "absent" => a[i] # "absent"
    BY <2>1
  <2>5. c.shown \in Todos(I, K, L, M)!TodoFiles /\ (c.open => c.open)
    BY <1>1
  <2>6. \A i \in I : c.shown[i] # "absent" => a[i] # "absent"
    BY <1>2
  <2>7. a' = a /\ b' = b /\ list \in Lists
    BY <2>1, <2>2
  <2> HIDE DEF Lists
  <2> QED
    BY <1>4, <1>5, <2>3, <2>4, <2>5, <2>6, <2>7
<1>8. ASSUME NEW l \in L, Todos(I, K, L, M)!Listed(l)
      PROVE  TodoInv(I, K, L, M)'
  <2> DEFINE shown == IF c.lists[l].at = "read" THEN c.lists[l].items ELSE c.shown
  <2>1. c.lists[l].items \in Todos(I, K, L, M)!TodoFiles
    BY <1>1 DEF Todos!TodoLists
  <2>2. shown \in Todos(I, K, L, M)!TodoFiles /\ \A i \in I : shown[i] # "absent" => a[i] # "absent"
    BY <1>1, <1>2, <2>1
  <2>3. c' = [c EXCEPT !.lists[l] = Todos(I, K, L, M)!NotListed, !.shown = shown] /\ a' = a /\ b' = b
    BY <1>1, <1>8 DEF Todos!Listed, Todos!Boards
  <2> HIDE DEF shown
  <2>4. c' = [c EXCEPT !.open = c.open, !.lists[l] = Todos(I, K, L, M)!NotListed, !.shown = shown]
    BY <1>1, <2>3 DEF Todos!Boards
  <2>5. /\ Todos(I, K, L, M)!NotListed \in Lists
        /\ \A i \in I : Todos(I, K, L, M)!NotListed.items[i] # "absent" => a[i] # "absent"
    BY <1>3
  <2>6. a' = a /\ b' = b /\ (c.open => c.open)
    BY <2>3
  <2> HIDE DEF Lists
  <2> QED
    BY <1>4, <1>5, <2>2, <2>4, <2>5, <2>6
<1>9. ASSUME NEW answer \in c.answers, Todos(I, K, L, M)!Answered(answer)
      PROVE  TodoInv(I, K, L, M)'
  <2> DEFINE lane == IF (answer.kind = "enqueue") = (c.shown[answer.id] = "absent") THEN answer.lane ELSE c.shown[answer.id]
             shown == [c.shown EXCEPT ![answer.id] = lane]
             answers == c.answers \ {answer}
  <2>1. answer.id \in I /\ answer.lane \in Lanes /\ a[answer.id] # "absent"
    BY <1>1 DEF Todos!TodoAnswers, Todos!BoardIsBehind
  <2>2. c' = [c EXCEPT !.answers = answers, !.shown = shown] /\ a' = a /\ b' = b
    BY <1>1, <1>9, <2>1 DEF Todos!Answered, Todos!Boards, Todos!TodoFiles
  <2>3. lane \in Lanes \cup {"absent"}
    BY <1>1, <2>1 DEF Todos!TodoFiles
  <2> HIDE DEF lane
  <2>4. shown \in Todos(I, K, L, M)!TodoFiles /\ \A i \in I : shown[i] # "absent" => a[i] # "absent"
    BY <1>1, <1>2, <2>1, <2>3 DEF Todos!TodoFiles
  <2>5. answers \in SUBSET Todos(I, K, L, M)!TodoAnswers /\ answers \subseteq c.answers
    BY <1>1
  <2> HIDE DEF shown, answers
  <2>6. /\ c' \in Todos(I, K, L, M)!Boards /\ c'.open = c.open /\ c'.lists = c.lists /\ c'.shown = shown
        /\ c'.answers = answers
    BY <1>1, <2>2, <2>4, <2>5 DEF Todos!Boards
  <2> QED
    BY <1>2, <2>2, <2>4, <2>5, <2>6, BoardMoves
<1>10. a' = a
  BY DEF Todos!OpenBoard, Todos!ReadList, Todos!Listed, Todos!Answered
<1> QED
  BY <1>6, <1>7, <1>8, <1>9, <1>10

LEMMA TodoStep ==
  ASSUME NEW I, NEW K, NEW L, NEW M, I # {}, TodoInv(I, K, L, M), [Todos(I, K, L, M)!TodoNext]_<<a, b, c>>
  PROVE  TodoInv(I, K, L, M)' /\ Todos(I, K, L, M)!OneTodoAtATime
<1>1. a' = a => Todos(I, K, L, M)!OneTodoAtATime
  BY DEF Todos!OneTodoAtATime
<1>2. CASE UNCHANGED <<a, b, c>>
  <2>1. TodoInv(I, K, L, M)'
    <3>1. c' \in Todos(I, K, L, M)!Boards /\ a' = a /\ b' = b /\ c' = c
      BY <1>2 DEF TodoInv, Todos!TodoTypeOK
    <3>2. /\ \A l \in L, i \in I : c.lists[l].items[i] # "absent" => a[i] # "absent"
          /\ \A i \in I : c.shown[i] # "absent" => a[i] # "absent"
      BY DEF TodoInv, Todos!BoardIsBehind, Todos!BoardIsTrue
    <3> QED
      BY <3>1, <3>2, BoardMoves
  <2> QED
    BY <1>1, <1>2, <2>1
<1>3. ASSUME NEW kind \in {"enqueue", "update"}, NEW id \in I, NEW lane \in Lanes, NEW byBoard \in BOOLEAN,
             Todos(I, K, L, M)!CallTodo(kind, id, lane, byBoard)
      PROVE  TodoInv(I, K, L, M)' /\ a' = a
  BY <1>3, TodoCalled DEF Todos!CallTodo
<1>4. ASSUME NEW id \in I, NEW lane \in Lanes, Todos(I, K, L, M)!MoveItem(id, lane)
      PROVE  TodoInv(I, K, L, M)' /\ a' = a
  BY <1>3, <1>4 DEF Todos!MoveItem
<1>5. ASSUME NEW id \in I, Todos(I, K, L, M)!AddManualTodo(id)
      PROVE  TodoInv(I, K, L, M)' /\ a' = a
  BY <1>3, <1>5, LanesAreNot DEF Todos!AddManualTodo
<1>6. ASSUME NEW n \in 1..MaxTodoOps,
             Todos(I, K, L, M)!ReadQueue(n) \/ Todos(I, K, L, M)!ChangeItem(n) \/ Todos(I, K, L, M)!WriteQueue(n)
      PROVE  TodoInv(I, K, L, M)' /\ Todos(I, K, L, M)!OneTodoAtATime
  BY <1>1, <1>6, TodoRead, TodoChanged, TodoWritten
<1> QED
  BY <1>1, <1>2, <1>3, <1>4, <1>5, <1>6, BoardLooks DEF Todos!TodoNext

LEMMA TodoStart ==
  ASSUME NEW I, NEW K, NEW L, NEW M, Todos(I, K, L, M)!TodoInit
  PROVE  TodoInv(I, K, L, M)
<1> DEFINE none == Todos(I, K, L, M)!NoTodos
           lists == [l \in L |-> Todos(I, K, L, M)!NotListed]
           nothing == {}
           empty == <<>>
<1>1. none \in Todos(I, K, L, M)!TodoFiles /\ \A i \in I : none[i] = "absent"
  BY DEF Todos!NoTodos, Todos!TodoFiles
<1>2. lists \in [L -> Todos(I, K, L, M)!TodoLists] /\ \A l \in L : lists[l].items = none
  BY <1>1 DEF Todos!NotListed, Todos!TodoLists
<1>3. nothing \in SUBSET Todos(I, K, L, M)!TodoAnswers /\ empty \in Seq(Todos(I, K, L, M)!TodoOps) /\ DOMAIN empty = {}
  OBVIOUS
<1>4. /\ a = none /\ b = empty
      /\ c = [open |-> FALSE, shown |-> none, lists |-> lists, answers |-> nothing]
  BY DEF Todos!TodoInit
<1>5. \A x \in nothing : FALSE
  OBVIOUS
<1> HIDE DEF none, lists, nothing, empty
<1>6. c \in Todos(I, K, L, M)!Boards /\ c.lists = lists /\ c.answers = nothing /\ c.shown = none
  BY <1>1, <1>2, <1>3, <1>4 DEF Todos!Boards
<1>7. Todos(I, K, L, M)!BoardIsBehind /\ Todos(I, K, L, M)!BoardIsTrue
  <2>1. nothing = {}
    BY DEF nothing
  <2> QED
    BY <1>1, <1>2, <1>5, <1>6, <2>1 DEF Todos!BoardIsBehind, Todos!BoardIsTrue
<1>8. Todos(I, K, L, M)!FirstOfChainRuns
  BY <1>3, <1>4 DEF Todos!FirstOfChainRuns
<1> QED
  BY <1>1, <1>3, <1>4, <1>6, <1>7, <1>8 DEF TodoInv, Todos!TodoTypeOK

-----------------------------------------------------------------------------
(* The link of the host to the sidecar.                                    *)

\* Who waits for r has not been left to a process that is gone.
Holds(process, r) ==
  \/ r \in process.inbox
  \/ process.reader \in {"reads", "serves"} /\ ~process.running
  \/ \E i \in DOMAIN process.out : process.out[i] = r
  \/ process.reader \in {"ended", "cleared", "dropped"}

\* What the link keeps: no request in it belongs to a process that is gone.
HostInv ==
  /\ AHost!HostTypeOK /\ AHost!OneReaderAtWork /\ AHost!WaitingIsPending
  /\ AHost!NobodyWaitsForTheDead /\ AHost!AnswersStayHome

LEMMA WaitersAreHeld ==
  /\ AHost!NobodyWaitsForTheDead <=>
       \A r \in Requests : b[r] = "waiting" => \E p \in AHost!Procs : Holds(c[p], r)
  /\ AHost!NobodyWaitsForTheDead' <=>
       \A r \in Requests : b'[r] = "waiting" => \E p \in AHost!Procs : Holds(c'[p], r)
BY DEF AHost!NobodyWaitsForTheDead, Holds

\* A process that is killed no longer runs, and has nothing more to read.
LEMMA KilledIsGone ==
  ASSUME AHost!HostTypeOK, NEW p \in AHost!Procs \cup {0}
  PROVE  /\ AHost!Killed(c, p) \in [AHost!Procs -> AHost!Process]
         /\ \A q \in AHost!Procs :
              /\ AHost!Killed(c, p)[q].reader = c[q].reader /\ AHost!Killed(c, p)[q].out = c[q].out
              /\ q # p => AHost!Killed(c, p)[q] = c[q]
              /\ q = p => AHost!Killed(c, p)[q].running = FALSE /\ AHost!Killed(c, p)[q].inbox = {}
<1>1. CASE p = 0
  <2>1. p \notin AHost!Procs
    BY <1>1 DEF AHost!Procs
  <2> QED
    BY <1>1, <2>1 DEF AHost!Killed, AHost!HostTypeOK
<1>2. CASE p # 0
  <2> DEFINE new == [c[p] EXCEPT !.running = FALSE, !.inbox = {}]
  <2>1. AHost!Killed(c, p) = [c EXCEPT ![p] = new]
    BY <1>2 DEF AHost!Killed, AHost!HostTypeOK
  <2>2. c \in [AHost!Procs -> AHost!Process] /\ p \in AHost!Procs
    BY <1>2 DEF AHost!HostTypeOK
  <2>3. new \in AHost!Process /\ new.running = FALSE /\ new.inbox = {} /\ new.reader = c[p].reader /\ new.out = c[p].out
    BY <2>2 DEF AHost!Process
  <2> HIDE DEF new
  <2> QED
    BY <2>1, <2>2, <2>3
<1> QED
  BY <1>1, <1>2

LEMMA CallersMove ==
  ASSUME HostInv, NEW r \in Requests,
         \/ AHost!Call(r) \/ AHost!Enter(r) \/ AHost!TimeOut(r)
         \/ /\ c' = c /\ a' \in {a, [a EXCEPT !.pending = @ \ {r}]}
            /\ \E stage \in {"started", "failed"} : b' = [b EXCEPT ![r] = stage]
  PROVE  HostInv'
<1> USE DEF AHost!HostTypeOK
<1>1. c' = c
  BY DEF AHost!Call, AHost!Enter, AHost!TimeOut
<1>2. PICK stage \in AHost!CallerStages \ {"waiting"} : b' = [b EXCEPT ![r] = stage]
  BY DEF AHost!Call, AHost!Enter, AHost!TimeOut, AHost!CallerStages
<1>3. a' \in {a, [a EXCEPT !.pending = @ \cup {r}], [a EXCEPT !.pending = @ \ {r}]}
  BY DEF AHost!Call, AHost!Enter, AHost!TimeOut
<1>4. /\ a' \in AHost!Links /\ a'.alive = a.alive /\ a'.proc = a.proc /\ a'.spawned = a.spawned
      /\ a'.misdirected = a.misdirected /\ \A q \in Requests \ {r} : q \in a.pending => q \in a'.pending
  BY <1>3 DEF HostInv, AHost!Links
<1>5. AHost!HostTypeOK'
  BY <1>1, <1>2, <1>4 DEF HostInv
<1>6. AHost!OneReaderAtWork'
  BY <1>1, <1>4 DEF HostInv, AHost!OneReaderAtWork
<1>7. \A q \in Requests : b'[q] = "waiting" => b[q] = "waiting" /\ q # r
  BY <1>2 DEF HostInv
<1>8. AHost!WaitingIsPending'
  BY <1>1, <1>4, <1>7 DEF HostInv, AHost!WaitingIsPending
<1>9. AHost!NobodyWaitsForTheDead'
  BY <1>1, <1>7 DEF HostInv, AHost!NobodyWaitsForTheDead
<1> QED
  BY <1>4, <1>5, <1>6, <1>8, <1>9 DEF HostInv, AHost!AnswersStayHome

\* A process or its reader goes on, and callers with it, but the link stays what it is.
LEMMA ProcessMoves ==
  ASSUME HostInv, NEW p \in AHost!Procs, NEW new \in AHost!Process, c' = [c EXCEPT ![p] = new],
         new.reader = c[p].reader \/ {new.reader, c[p].reader} \subseteq AHost!AtWork,
         new.running => c[p].running, ~new.running => new.inbox = {},
         a' \in AHost!Links, a'.alive = a.alive, a'.proc = a.proc, a'.spawned = a.spawned,
         a'.misdirected = a.misdirected, b' \in [Requests -> AHost!CallerStages],
         \A q \in Requests : b'[q] = "waiting" =>
           /\ q \in a'.pending
           /\ Holds(new, q) \/ (b[q] = "waiting" /\ ~Holds(c[p], q))
  PROVE  HostInv'
<1>0. c \in [AHost!Procs -> AHost!Process] /\ a \in AHost!Links
  BY DEF HostInv, AHost!HostTypeOK
<1>1. c'[p] = new /\ \A q \in AHost!Procs \ {p} : c'[q] = c[q]
  BY <1>0
<1>2. AHost!HostTypeOK'
  BY <1>0 DEF AHost!HostTypeOK
<1>3. AHost!OneReaderAtWork'
  <2>0. new.reader = c[p].reader \/ (new.reader \in AHost!AtWork /\ c[p].reader \in AHost!AtWork)
    OBVIOUS
  <2>1. ASSUME NEW q \in AHost!Procs, c'[q].reader # c[q].reader
        PROVE  c'[q].reader \in AHost!AtWork /\ c[q].reader \in AHost!AtWork
    <3>1. q = p
      BY <1>1, <2>1
    <3>2. c'[q] = new
      BY <1>1, <3>1
    <3>3. new.reader # c[p].reader
      BY <2>1, <3>1, <3>2
    <3> QED
      BY <2>0, <3>1, <3>2, <3>3
  <2>2. \A q \in AHost!Procs : c'[q].reader \in AHost!AtWork => a'.alive /\ q = a'.spawned
    BY <2>1 DEF HostInv, AHost!OneReaderAtWork
  <2>3. \A q \in AHost!Procs : q > a'.spawned => c'[q].reader = "none"
    <3>1. "none" \notin AHost!AtWork
      BY DEF AHost!AtWork
    <3> QED
      BY <2>1, <3>1 DEF HostInv, AHost!OneReaderAtWork
  <2>4. a'.proc \in {0, a'.spawned} /\ (a'.proc # 0 => c'[a'.proc].reader \in AHost!AtWork \cup {"cleared"})
    BY <1>0, <2>1 DEF HostInv, AHost!OneReaderAtWork, AHost!Links
  <2>5. a'.alive => a'.spawned # 0 /\ c'[a'.spawned].reader \in AHost!AtWork
    BY <1>0, <2>1 DEF HostInv, AHost!OneReaderAtWork, AHost!Links
  <2> QED
    BY <2>2, <2>3, <2>4, <2>5 DEF AHost!OneReaderAtWork
<1>4. AHost!WaitingIsPending'
  BY <1>0, <1>1 DEF HostInv, AHost!WaitingIsPending
<1>5. AHost!NobodyWaitsForTheDead'
  <2>1. ASSUME NEW q \in Requests, b'[q] = "waiting"
        PROVE  \E x \in AHost!Procs : Holds(c'[x], q)
    <3>1. CASE Holds(new, q)
      BY <1>1, <3>1
    <3>2. CASE b[q] = "waiting" /\ ~Holds(c[p], q)
      <4>1. PICK x \in AHost!Procs : Holds(c[x], q)
        BY <3>2, WaitersAreHeld DEF HostInv
      <4> QED
        BY <1>1, <3>2, <4>1
    <3> QED
      BY <2>1, <3>1, <3>2
  <2> QED
    BY <2>1, WaitersAreHeld
<1>6. AHost!AnswersStayHome'
  BY DEF HostInv, AHost!AnswersStayHome
<1> QED
  BY <1>2, <1>3, <1>4, <1>5, <1>6 DEF HostInv

LEMMA SidecarMoves ==
  ASSUME HostInv, NEW p \in AHost!Procs, AHost!Reply(p) \/ AHost!AskHost(p) \/ AHost!Die(p)
  PROVE  HostInv'
<1>0. /\ c \in [AHost!Procs -> AHost!Process] /\ c[p] \in AHost!Process /\ a \in AHost!Links
      /\ b \in [Requests -> AHost!CallerStages] /\ c[p].running /\ a' = a /\ b' = b
  BY DEF HostInv, AHost!HostTypeOK, AHost!Reply, AHost!AskHost, AHost!Die
<1>1. \A q \in Requests : b[q] = "waiting" => q \in a.pending
  BY DEF HostInv, AHost!WaitingIsPending
<1>2. CASE AHost!Reply(p)
  <2>1. PICK r \in c[p].inbox : c' = [c EXCEPT ![p].inbox = @ \ {r}, ![p].out = Append(@, r)]
    BY <1>2 DEF AHost!Reply
  <2> DEFINE new == [c[p] EXCEPT !.inbox = @ \ {r}, !.out = Append(@, r)]
  <2>2. c' = [c EXCEPT ![p] = new]
    BY <1>0, <2>1
  <2>3. c[p].out \in Seq(Requests \cup {AHost!Ask}) /\ r \in Requests
    BY <1>0 DEF AHost!Process
  <2>4. Append(c[p].out, r) \in Seq(Requests \cup {AHost!Ask})
    BY <2>3
  <2>5. new \in AHost!Process /\ new.reader = c[p].reader /\ new.running = c[p].running
    BY <1>0, <2>4 DEF AHost!Process
  <2>6. new.inbox = c[p].inbox \ {r} /\ new.out = Append(c[p].out, r)
    BY <1>0 DEF AHost!Process
  <2> HIDE DEF new
  <2>7. ASSUME NEW q \in Requests, Holds(c[p], q) PROVE Holds(new, q)
    <3>1. CASE q = r
      <4>1. Len(new.out) \in DOMAIN new.out /\ new.out[Len(new.out)] = r
        BY <2>3, <2>6
      <4> QED
        BY <3>1, <4>1 DEF Holds
    <3>2. ASSUME NEW i \in DOMAIN c[p].out, c[p].out[i] = q PROVE Holds(new, q)
      <4>1. i \in DOMAIN new.out /\ new.out[i] = q
        BY <2>3, <2>6, <3>2
      <4> QED
        BY <4>1 DEF Holds
    <3> QED
      BY <2>5, <2>6, <2>7, <3>1, <3>2 DEF Holds
  <2> QED
    BY <1>0, <1>1, <2>2, <2>5, <2>7, ProcessMoves
<1>3. CASE AHost!AskHost(p)
  <2> DEFINE new == [c[p] EXCEPT !.asks = TRUE, !.out = Append(@, AHost!Ask)]
  <2>1. c' = [c EXCEPT ![p] = new]
    BY <1>0, <1>3 DEF AHost!AskHost
  <2>2. c[p].out \in Seq(Requests \cup {AHost!Ask})
    BY <1>0 DEF AHost!Process
  <2>3. Append(c[p].out, AHost!Ask) \in Seq(Requests \cup {AHost!Ask})
    BY <2>2
  <2>4. /\ new \in AHost!Process /\ new.reader = c[p].reader /\ new.running = c[p].running
        /\ new.inbox = c[p].inbox /\ new.out = Append(c[p].out, AHost!Ask)
    BY <1>0, <2>3 DEF AHost!Process
  <2> HIDE DEF new
  <2>5. ASSUME NEW q \in Requests, Holds(c[p], q) PROVE Holds(new, q)
    <3>1. ASSUME NEW i \in DOMAIN c[p].out, c[p].out[i] = q PROVE Holds(new, q)
      <4>1. i \in DOMAIN new.out /\ new.out[i] = q
        BY <2>2, <2>4, <3>1
      <4> QED
        BY <4>1 DEF Holds
    <3> QED
      BY <2>4, <2>5, <3>1 DEF Holds
  <2> QED
    BY <1>0, <1>1, <2>1, <2>4, <2>5, ProcessMoves
<1>4. CASE AHost!Die(p)
  <2> DEFINE new == [c[p] EXCEPT !.running = FALSE, !.inbox = {}]
  <2>1. c' = [c EXCEPT ![p] = new]
    <3>1. p # 0
      BY DEF AHost!Procs
    <3> QED
      BY <1>0, <1>4, <3>1 DEF AHost!Die, AHost!Killed
  <2>2. new \in AHost!Process /\ new.reader = c[p].reader /\ new.running = FALSE /\ new.inbox = {}
    BY <1>0 DEF AHost!Process
  <2> HIDE DEF new
  <2>3. \A q : Holds(new, q)
    <3>1. a.proc = p /\ p # 0
      BY <1>0 DEF HostInv, AHost!WaitingIsPending, AHost!Procs
    <3>2. c[p].reader \in {"reads", "serves", "ended", "cleared"}
      BY <3>1 DEF HostInv, AHost!OneReaderAtWork, AHost!AtWork
    <3> QED
      BY <2>2, <3>2 DEF Holds
  <2> QED
    BY <1>0, <1>1, <2>1, <2>2, <2>3, ProcessMoves
<1> QED
  BY <1>2, <1>3, <1>4

LEMMA TailKeeps ==
  ASSUME NEW S, NEW s \in Seq(S), s # <<>>, NEW i \in DOMAIN s, s[i] # Head(s)
  PROVE  i - 1 \in DOMAIN Tail(s) /\ Tail(s)[i - 1] = s[i]
OBVIOUS

LEMMA ReadersMove ==
  ASSUME HostInv, NEW p \in AHost!Procs,
         AHost!HandleLine(p) \/ AHost!SendResponse(p) \/ AHost!ReaderEnds(p)
  PROVE  HostInv'
<1>0. /\ c \in [AHost!Procs -> AHost!Process] /\ c[p] \in AHost!Process /\ a \in AHost!Links
      /\ b \in [Requests -> AHost!CallerStages] /\ c[p].out \in Seq(Requests \cup {AHost!Ask})
      /\ c[p].running \in BOOLEAN
  BY DEF HostInv, AHost!HostTypeOK, AHost!Process
<1>1. /\ \A q \in Requests : b[q] = "waiting" => q \in a.pending
      /\ ~c[p].running => c[p].inbox = {}
  BY DEF HostInv, AHost!WaitingIsPending
<1>2. CASE AHost!HandleLine(p)
  <2> DEFINE line == Head(c[p].out)
  <2>1. c[p].reader = "reads" /\ c[p].out # <<>>
    BY <1>2 DEF AHost!HandleLine
  <2>2. /\ line \in Requests \cup {AHost!Ask} /\ Tail(c[p].out) \in Seq(Requests \cup {AHost!Ask})
    BY <1>0, <2>1
  <2>3. ASSUME NEW new \in AHost!Process, new.inbox = c[p].inbox, new.running = c[p].running,
               new.out = Tail(c[p].out), new.reader \in {"reads", "serves"},
               NEW q \in Requests, q # line, Holds(c[p], q)
        PROVE  Holds(new, q)
    <3>1. ASSUME NEW i \in DOMAIN c[p].out, c[p].out[i] = q PROVE Holds(new, q)
      <4>1. i - 1 \in DOMAIN new.out /\ new.out[i - 1] = q
        BY <1>0, <2>1, <2>3, <3>1, TailKeeps
      <4> QED
        BY <4>1 DEF Holds
    <3> QED
      BY <2>1, <2>3, <3>1 DEF Holds
  <2>4. CASE line = AHost!Ask
    <3> DEFINE new == [c[p] EXCEPT !.out = Tail(@), !.reader = "serves"]
    <3>1. c' = [c EXCEPT ![p] = new] /\ a' = a /\ b' = b
      BY <1>0, <1>2, <2>4 DEF AHost!HandleLine
    <3>2. /\ new \in AHost!Process /\ new.inbox = c[p].inbox /\ new.running = c[p].running
          /\ new.out = Tail(c[p].out) /\ new.reader = "serves"
      BY <1>0, <2>2 DEF AHost!Process
    <3> HIDE DEF new
    <3>3. \A q \in Requests : q # line
      BY <2>4, ServicesAssumption DEF AHost!Ask
    <3>4. {new.reader, c[p].reader} \subseteq AHost!AtWork
      BY <2>1, <3>2 DEF AHost!AtWork
    <3>5. \A q \in Requests : Holds(c[p], q) => Holds(new, q)
      BY <2>3, <3>2, <3>3
    <3>6. \A q \in Requests : b'[q] = "waiting" =>
            q \in a'.pending /\ (Holds(new, q) \/ (b[q] = "waiting" /\ ~Holds(c[p], q)))
      BY <1>1, <3>1, <3>5
    <3>7. b' \in [Requests -> AHost!CallerStages] /\ a' \in AHost!Links
      BY <1>0, <3>1
    <3> QED
      BY <1>1, <3>1, <3>2, <3>4, <3>6, <3>7, ProcessMoves
  <2>5. CASE line # AHost!Ask
    <3> DEFINE new == [c[p] EXCEPT !.out = Tail(@)]
    <3>1. /\ c' = [c EXCEPT ![p] = new] /\ a' = [a EXCEPT !.pending = @ \ {line}]
          /\ b' = IF line \in a.pending THEN [b EXCEPT ![line] = "answered"] ELSE b
      BY <1>0, <1>2, <2>5 DEF AHost!HandleLine
    <3>2. /\ new \in AHost!Process /\ new.inbox = c[p].inbox /\ new.running = c[p].running
          /\ new.out = Tail(c[p].out) /\ new.reader = "reads"
      BY <1>0, <2>1, <2>2 DEF AHost!Process
    <3> HIDE DEF new
    <3>3. line \in Requests
      BY <2>2, <2>5
    <3>4. /\ a' \in AHost!Links /\ a'.alive = a.alive /\ a'.proc = a.proc /\ a'.spawned = a.spawned
          /\ a'.misdirected = a.misdirected /\ a'.pending = a.pending \ {line}
      BY <1>0, <3>1 DEF AHost!Links
    <3>5. b' \in [Requests -> AHost!CallerStages]
      BY <1>0, <3>1, <3>3 DEF AHost!CallerStages
    <3>6. \A q \in Requests : b'[q] = "waiting" => b[q] = "waiting" /\ q # line
      BY <1>0, <1>1, <3>1, <3>3
    <3>7. \A q \in Requests : q # line => (Holds(c[p], q) => Holds(new, q))
      BY <2>3, <3>2
    <3>8. \A q \in Requests : b'[q] = "waiting" =>
            q \in a'.pending /\ (Holds(new, q) \/ (b[q] = "waiting" /\ ~Holds(c[p], q)))
      BY <1>1, <3>4, <3>6, <3>7
    <3>9. new.reader = c[p].reader /\ (~new.running => new.inbox = {}) /\ (new.running => c[p].running)
      BY <1>1, <2>1, <3>2
    <3> QED
      BY <3>1, <3>2, <3>4, <3>5, <3>8, <3>9, ProcessMoves
  <2> QED
    BY <2>4, <2>5
<1>3. CASE AHost!SendResponse(p)
  <2>1. c[p].reader = "serves" /\ b' = b
    BY <1>3 DEF AHost!SendResponse
  <2>2. PICK asks \in BOOLEAN : c' = [c EXCEPT ![p].reader = "reads", ![p].asks = asks]
    BY <1>0, <1>3 DEF AHost!SendResponse, AHost!Process
  <2> DEFINE new == [c[p] EXCEPT !.reader = "reads", !.asks = asks]
  <2>3. c' = [c EXCEPT ![p] = new]
    BY <1>0, <2>2
  <2>4. /\ new \in AHost!Process /\ new.inbox = c[p].inbox /\ new.running = c[p].running
        /\ new.out = c[p].out /\ new.reader = "reads"
    BY <1>0 DEF AHost!Process
  <2> HIDE DEF new
  <2>5. a.proc \in {0, p}
    BY <2>1 DEF HostInv, AHost!OneReaderAtWork, AHost!AtWork
  <2>6. a.misdirected = FALSE
    BY <1>0 DEF HostInv, AHost!AnswersStayHome, AHost!Links
  <2>7. a' = [a EXCEPT !.misdirected = FALSE]
    BY <1>3, <2>5, <2>6 DEF AHost!SendResponse
  <2>8. /\ a' \in AHost!Links /\ a'.alive = a.alive /\ a'.proc = a.proc /\ a'.spawned = a.spawned
        /\ a'.misdirected = a.misdirected /\ a'.pending = a.pending
    BY <1>0, <2>6, <2>7 DEF AHost!Links
  <2>9. {new.reader, c[p].reader} \subseteq AHost!AtWork
    BY <2>1, <2>4 DEF AHost!AtWork
  <2>10. \A q \in Requests : Holds(c[p], q) => Holds(new, q)
    BY <2>1, <2>4 DEF Holds
  <2> QED
    BY <1>0, <1>1, <2>1, <2>3, <2>4, <2>8, <2>9, <2>10, ProcessMoves
<1>4. CASE AHost!ReaderEnds(p)
  <2> DEFINE new == [c[p] EXCEPT !.reader = "ended", !.out = <<>>]
  <2>1. c[p].reader = "reads" /\ b' = b /\ a' = a /\ c' = [c EXCEPT ![p] = new]
    BY <1>0, <1>4 DEF AHost!ReaderEnds
  <2>0. <<>> \in Seq(Requests \cup {AHost!Ask})
    OBVIOUS
  <2>2. /\ new \in AHost!Process /\ new.inbox = c[p].inbox /\ new.running = c[p].running
        /\ new.reader = "ended"
    <3> DEFINE empty == <<>>
    <3>1. empty \in Seq(Requests \cup {AHost!Ask}) /\ new = [c[p] EXCEPT !.reader = "ended", !.out = empty]
      BY <2>0
    <3> HIDE DEF empty, new
    <3> QED
      BY <1>0, <3>1 DEF AHost!Process
  <2> HIDE DEF new
  <2>3. {new.reader, c[p].reader} \subseteq AHost!AtWork
    BY <2>1, <2>2 DEF AHost!AtWork
  <2>4. \A q : Holds(new, q)
    BY <2>2 DEF Holds
  <2> QED
    BY <1>0, <1>1, <2>1, <2>2, <2>3, <2>4, ProcessMoves
<1> QED
  BY <1>2, <1>3, <1>4

LEMMA ValueIsSent ==
  ASSUME HostInv, NEW r \in Requests, AHost!SendValue(r)
  PROVE  HostInv'
<1>0. /\ c \in [AHost!Procs -> AHost!Process] /\ a \in AHost!Links /\ b \in [Requests -> AHost!CallerStages]
      /\ a.proc \in AHost!Procs \cup {0}
  BY DEF HostInv, AHost!HostTypeOK, AHost!Links
<1>1. \A q \in Requests : b[q] = "waiting" => q \in a.pending
  BY DEF HostInv, AHost!WaitingIsPending
<1>2. CASE /\ a.proc # 0 /\ a' = a
           /\ b' = [b EXCEPT ![r] = IF r \in a.pending THEN "waiting" ELSE "failed"]
           /\ c' = IF c[a.proc].running THEN [c EXCEPT ![a.proc].inbox = @ \cup {r}] ELSE c
  <2> DEFINE p == a.proc
             new == IF c[p].running THEN [c[p] EXCEPT !.inbox = @ \cup {r}] ELSE c[p]
  <2>1. p \in AHost!Procs /\ c[p] \in AHost!Process
    BY <1>0, <1>2
  <2>2. c' = [c EXCEPT ![p] = new]
    BY <1>0, <1>2, <2>1
  <2>3. /\ new \in AHost!Process /\ new.running = c[p].running /\ new.reader = c[p].reader
        /\ new.out = c[p].out /\ c[p].inbox \subseteq new.inbox
        /\ new.running => r \in new.inbox
        /\ ~new.running => new.inbox = c[p].inbox
    BY <2>1 DEF AHost!Process
  <2>4. ~c[p].running => c[p].inbox = {}
    BY <2>1 DEF HostInv, AHost!WaitingIsPending
  <2>5. c[p].reader \in {"reads", "serves", "ended", "cleared"}
    BY <1>2 DEF HostInv, AHost!OneReaderAtWork, AHost!AtWork
  <2> HIDE DEF new
  <2>6. Holds(new, r)
    BY <2>3, <2>5 DEF Holds
  <2>7. \A q \in Requests : Holds(c[p], q) => Holds(new, q)
    BY <2>3 DEF Holds
  <2>8. b' \in [Requests -> AHost!CallerStages]
    BY <1>0, <1>2 DEF AHost!CallerStages
  <2>9. \A q \in Requests : b'[q] = "waiting" => IF q = r THEN r \in a.pending ELSE b[q] = "waiting"
    BY <1>0, <1>2
  <2>10. \A q \in Requests : b'[q] = "waiting" =>
           q \in a'.pending /\ (Holds(new, q) \/ (b[q] = "waiting" /\ ~Holds(c[p], q)))
    BY <1>1, <1>2, <2>6, <2>7, <2>9
  <2>11. /\ new.reader = c[p].reader /\ (~new.running => new.inbox = {}) /\ (new.running => c[p].running)
         /\ a' \in AHost!Links /\ a' = a
    BY <1>0, <1>2, <2>3, <2>4
  <2> HIDE DEF p
  <2> QED
    BY <2>1, <2>2, <2>3, <2>8, <2>10, <2>11, ProcessMoves
<1>3. CASE c' = c /\ b' = [b EXCEPT ![r] = "failed"] /\ a' = [a EXCEPT !.pending = @ \ {r}]
  BY <1>3, CallersMove
<1> QED
  BY <1>2, <1>3 DEF AHost!SendValue

LEMMA LinkIsAlive ==
  ASSUME NEW old \in AHost!Links, NEW p \in AHost!Procs \cup {0}
  PROVE  [old EXCEPT !.alive = TRUE, !.proc = p, !.spawned = p] \in AHost!Links
BY DEF AHost!Links

\* A process is spawned; the one left behind is killed.
LEMMA ProcessStarts ==
  ASSUME HostInv, NEW r \in Requests, ~a.alive, NEW p \in AHost!Procs, a.proc # p,
         c[p].reader = "none", \A q \in AHost!Procs : q > p => c[q].reader = "none",
         c' = [AHost!Killed(c, a.proc) EXCEPT ![p].running = TRUE, ![p].reader = "reads"],
         a' = [a EXCEPT !.alive = TRUE, !.proc = p, !.spawned = p], b' = [b EXCEPT ![r] = "started"]
  PROVE  HostInv'
<1> DEFINE old == AHost!Killed(c, a.proc)
           new == [old[p] EXCEPT !.running = TRUE, !.reader = "reads"]
<1>0. /\ c \in [AHost!Procs -> AHost!Process] /\ a \in AHost!Links /\ b \in [Requests -> AHost!CallerStages]
      /\ a.proc \in AHost!Procs \cup {0} /\ a.spawned \in AHost!Procs \cup {0}
  BY DEF HostInv, AHost!HostTypeOK, AHost!Links
<1>2. /\ old \in [AHost!Procs -> AHost!Process]
      /\ \A q \in AHost!Procs :
           /\ old[q].reader = c[q].reader /\ old[q].out = c[q].out
           /\ q # a.proc => old[q] = c[q]
           /\ q = a.proc => old[q].running = FALSE /\ old[q].inbox = {}
  BY <1>0, KilledIsGone DEF HostInv
<1> HIDE DEF old
<1>3. c' = [old EXCEPT ![p] = new]
  BY <1>2 DEF old
<1>4. /\ new \in AHost!Process /\ new.running = TRUE /\ new.reader = "reads"
      /\ new.inbox = old[p].inbox /\ new.out = old[p].out
  BY <1>2 DEF AHost!Process
<1> HIDE DEF new
<1>5. c' \in [AHost!Procs -> AHost!Process] /\ c'[p] = new /\ \A q \in AHost!Procs \ {p} : c'[q] = old[q]
  BY <1>2, <1>3, <1>4
<1>6. /\ a' \in AHost!Links /\ a'.alive = TRUE /\ a'.proc = p /\ a'.spawned = p /\ a'.pending = a.pending
      /\ a'.misdirected = a.misdirected
  <2>1. p \in AHost!Procs \cup {0}
    OBVIOUS
  <2>2. a' = [a EXCEPT !.alive = TRUE, !.proc = p, !.spawned = p]
    OBVIOUS
  <2>3. a' \in AHost!Links
    BY <1>0, <2>1, <2>2, LinkIsAlive
  <2>4. a.misdirected \in BOOLEAN /\ a.pending \in SUBSET Requests
    BY <1>0 DEF AHost!Links
  <2>5. a'.alive = TRUE /\ a'.proc = p /\ a'.spawned = p
    BY <1>0, <2>2 DEF AHost!Links
  <2>6. a'.pending = a.pending /\ a'.misdirected = a.misdirected
    BY <1>0, <2>2 DEF AHost!Links
  <2> QED
    BY <2>3, <2>5, <2>6
<1>7. b' \in [Requests -> AHost!CallerStages] /\ \A q \in Requests : b'[q] = "waiting" => b[q] = "waiting"
  BY <1>0 DEF AHost!CallerStages
<1>9. \A q \in AHost!Procs : c[q].reader \notin AHost!AtWork
  BY DEF HostInv, AHost!OneReaderAtWork
<1>10. AHost!HostTypeOK'
  BY <1>5, <1>6, <1>7 DEF AHost!HostTypeOK
<1>11. AHost!OneReaderAtWork'
  <2>1. \A q \in AHost!Procs \ {p} : c'[q].reader = c[q].reader
    BY <1>2, <1>5
  <2>2. "reads" \in AHost!AtWork
    BY DEF AHost!AtWork
  <2>3. \A q \in AHost!Procs : c'[q].reader \in AHost!AtWork => q = p
    BY <1>9, <2>1
  <2>4. \A q \in AHost!Procs : q > p => q # p
    BY DEF AHost!Procs
  <2>5. \A q \in AHost!Procs : q > p => c'[q].reader = "none"
    BY <2>1, <2>4
  <2>6. p # 0
    BY DEF AHost!Procs
  <2> QED
    BY <1>4, <1>5, <1>6, <2>2, <2>3, <2>5, <2>6 DEF AHost!OneReaderAtWork
<1>12. AHost!WaitingIsPending'
  <2>1. \A q \in AHost!Procs \ {p} : ~c'[q].running /\ c'[q].inbox = {}
    <3>1. \A q \in AHost!Procs : q # a.proc => ~c[q].running /\ c[q].inbox = {}
      BY <1>0 DEF HostInv, AHost!WaitingIsPending
    <3> QED
      BY <1>2, <1>5, <3>1
  <2> QED
    BY <1>4, <1>5, <1>6, <1>7, <2>1 DEF HostInv, AHost!WaitingIsPending
<1>13. AHost!NobodyWaitsForTheDead'
  <2>1. ASSUME NEW q \in Requests, b'[q] = "waiting"
        PROVE  \E x \in AHost!Procs : Holds(c'[x], q)
    <3>1. PICK x \in AHost!Procs : Holds(c[x], q)
      BY <1>7, <2>1, WaitersAreHeld DEF HostInv
    <3>2. CASE x = p
      <4>2. c'[p].inbox = c[p].inbox /\ c'[p].out = c[p].out
        BY <1>2, <1>4, <1>5
      <4> QED
        BY <3>1, <3>2, <4>2 DEF Holds
    <3>3. CASE x # p /\ x # a.proc
      BY <1>2, <1>5, <3>1, <3>3
    <3>4. CASE x # p /\ x = a.proc
      <4>1. c[x].reader \in AHost!AtWork \cup {"cleared"}
        BY <3>4 DEF HostInv, AHost!OneReaderAtWork, AHost!Procs
      <4>2. c'[x].reader = "cleared"
        BY <1>2, <1>5, <1>9, <3>4, <4>1
      <4> QED
        BY <4>2 DEF Holds
    <3> QED
      BY <3>2, <3>3, <3>4
  <2> QED
    BY <2>1, WaitersAreHeld
<1> QED
  BY <1>6, <1>10, <1>11, <1>12, <1>13 DEF HostInv, AHost!AnswersStayHome

LEMMA SpawnKeeps ==
  ASSUME HostInv, NEW r \in Requests, AHost!Spawn(r)
  PROVE  HostInv'
<1>1. CASE c' = c /\ a' = a /\ \E stage \in {"started", "failed"} : b' = [b EXCEPT ![r] = stage]
  BY <1>1, CallersMove
<1>2. CASE /\ ~a.alive /\ a.spawned < MaxProcs
           /\ c' = [AHost!Killed(c, a.proc) EXCEPT ![a.spawned + 1].running = TRUE,
                                                   ![a.spawned + 1].reader = "reads"]
           /\ a' = [a EXCEPT !.alive = TRUE, !.proc = a.spawned + 1, !.spawned = a.spawned + 1]
           /\ b' = [b EXCEPT ![r] = "started"]
  <2> DEFINE p == a.spawned + 1
  <2>1. a.spawned \in 0..MaxProcs /\ a.spawned < MaxProcs /\ a.proc \in {0, a.spawned}
    <3>1. a.spawned \in AHost!Procs \cup {0}
      BY DEF HostInv, AHost!HostTypeOK, AHost!Links
    <3>2. AHost!Procs \cup {0} = 0..MaxProcs
      BY Bounds DEF AHost!Procs
    <3> QED
      BY <1>2, <3>1, <3>2 DEF HostInv, AHost!OneReaderAtWork
  <2>2. p \in AHost!Procs /\ p # 0 /\ p > a.spawned /\ p # a.spawned
    BY <2>1, Bounds DEF AHost!Procs
  <2>3. \A q \in AHost!Procs : q > p => q > a.spawned
    BY <2>1, Bounds DEF AHost!Procs
  <2>4. a.proc # p /\ c[p].reader = "none" /\ \A q \in AHost!Procs : q > p => c[q].reader = "none"
    BY <2>1, <2>2, <2>3 DEF HostInv, AHost!OneReaderAtWork
  <2>5. /\ c' = [AHost!Killed(c, a.proc) EXCEPT ![p].running = TRUE, ![p].reader = "reads"]
        /\ a' = [a EXCEPT !.alive = TRUE, !.proc = p, !.spawned = p]
        /\ b' = [b EXCEPT ![r] = "started"] /\ ~a.alive
    BY <1>2
  <2> HIDE DEF p
  <2> QED
    BY <2>2, <2>4, <2>5, ProcessStarts
<1> QED
  BY <1>1, <1>2 DEF AHost!Spawn

\* Of a link that is declared dead nobody waits for what nobody will end.
LEMMA AliveIsCleared ==
  ASSUME HostInv, NEW p \in AHost!Procs, AHost!ClearAlive(p)
  PROVE  HostInv'
<1> DEFINE new == [c[p] EXCEPT !.reader = "cleared"]
<1>0. /\ c \in [AHost!Procs -> AHost!Process] /\ a \in AHost!Links /\ b \in [Requests -> AHost!CallerStages]
      /\ a.proc \in AHost!Procs \cup {0} /\ a.spawned \in AHost!Procs \cup {0}
  BY DEF HostInv, AHost!HostTypeOK, AHost!Links
<1>1. c[p].reader = "ended" /\ b' = b /\ a' = [a EXCEPT !.alive = FALSE] /\ c' = [c EXCEPT ![p] = new]
  BY <1>0 DEF AHost!ClearAlive
<1>2. /\ new \in AHost!Process /\ new.running = c[p].running /\ new.reader = "cleared"
      /\ new.inbox = c[p].inbox /\ new.out = c[p].out
  BY <1>0 DEF AHost!Process
<1> HIDE DEF new
<1>3. c' \in [AHost!Procs -> AHost!Process] /\ c'[p] = new /\ \A q \in AHost!Procs \ {p} : c'[q] = c[q]
  BY <1>0, <1>1, <1>2
<1>4. /\ a' \in AHost!Links /\ a'.alive = FALSE /\ a'.proc = a.proc /\ a'.spawned = a.spawned
      /\ a'.pending = a.pending /\ a'.misdirected = a.misdirected
  BY <1>0, <1>1 DEF AHost!Links
<1>5. AHost!HostTypeOK'
  BY <1>0, <1>1, <1>3, <1>4 DEF AHost!HostTypeOK
<1>6. AHost!OneReaderAtWork'
  <2>1. p = a.spawned
    BY <1>1 DEF HostInv, AHost!OneReaderAtWork, AHost!AtWork
  <2>2. \A q \in AHost!Procs : c[q].reader \in AHost!AtWork => q = p
    BY <2>1 DEF HostInv, AHost!OneReaderAtWork
  <2>3. "cleared" \notin AHost!AtWork
    BY DEF AHost!AtWork
  <2>4. \A q \in AHost!Procs : c'[q].reader \notin AHost!AtWork
    BY <1>2, <1>3, <2>2, <2>3
  <2>5. \A q \in AHost!Procs : q > a'.spawned => q # p /\ c[q].reader = "none"
    BY <1>4, <2>1 DEF HostInv, AHost!OneReaderAtWork, AHost!Procs
  <2>6. a'.proc \in {0, a'.spawned} /\ (a'.proc # 0 => a'.proc = p)
    BY <1>4, <2>1 DEF HostInv, AHost!OneReaderAtWork
  <2> QED
    BY <1>2, <1>3, <1>4, <2>4, <2>5, <2>6 DEF AHost!OneReaderAtWork
<1>7. AHost!WaitingIsPending'
  BY <1>1, <1>2, <1>3, <1>4 DEF HostInv, AHost!WaitingIsPending
<1>8. AHost!NobodyWaitsForTheDead'
  <2>1. ASSUME NEW q \in Requests, b'[q] = "waiting"
        PROVE  \E x \in AHost!Procs : Holds(c'[x], q)
    <3>1. PICK x \in AHost!Procs : Holds(c[x], q)
      BY <1>1, <2>1, WaitersAreHeld DEF HostInv
    <3>2. CASE x = p
      BY <1>2, <1>3, <3>2 DEF Holds
    <3> QED
      BY <1>3, <3>1, <3>2
  <2> QED
    BY <2>1, WaitersAreHeld
<1> QED
  BY <1>4, <1>5, <1>6, <1>7, <1>8 DEF HostInv, AHost!AnswersStayHome

LEMMA ProcIsDropped ==
  ASSUME HostInv, NEW p \in AHost!Procs, AHost!DropProc(p)
  PROVE  HostInv'
<1> DEFINE old == AHost!Killed(c, a.proc)
           new == [old[p] EXCEPT !.reader = "dropped"]
<1>0. /\ c \in [AHost!Procs -> AHost!Process] /\ a \in AHost!Links /\ b \in [Requests -> AHost!CallerStages]
      /\ a.proc \in AHost!Procs \cup {0} /\ a.spawned \in AHost!Procs \cup {0}
  BY DEF HostInv, AHost!HostTypeOK, AHost!Links
<1>1. /\ old \in [AHost!Procs -> AHost!Process]
      /\ \A q \in AHost!Procs :
           /\ old[q].reader = c[q].reader /\ old[q].out = c[q].out
           /\ q # a.proc => old[q] = c[q]
           /\ q = a.proc => old[q].running = FALSE /\ old[q].inbox = {}
  BY <1>0, KilledIsGone DEF HostInv
<1> HIDE DEF old
<1>2. c[p].reader = "cleared" /\ b' = b /\ a' = [a EXCEPT !.proc = 0] /\ c' = [old EXCEPT ![p] = new]
  BY <1>1 DEF AHost!DropProc, old
<1>3. /\ new \in AHost!Process /\ new.running = old[p].running /\ new.reader = "dropped"
      /\ new.inbox = old[p].inbox
  BY <1>1 DEF AHost!Process
<1> HIDE DEF new
<1>4. c' \in [AHost!Procs -> AHost!Process] /\ c'[p] = new /\ \A q \in AHost!Procs \ {p} : c'[q] = old[q]
  BY <1>1, <1>2, <1>3
<1>5. /\ a' \in AHost!Links /\ a'.alive = a.alive /\ a'.proc = 0 /\ a'.spawned = a.spawned
      /\ a'.pending = a.pending /\ a'.misdirected = a.misdirected
  BY <1>0, <1>2 DEF AHost!Links
<1>6. AHost!HostTypeOK'
  BY <1>0, <1>2, <1>4, <1>5 DEF AHost!HostTypeOK
<1>7. \A q \in AHost!Procs \ {p} : c'[q].reader = c[q].reader
  BY <1>1, <1>4
<1>8. AHost!OneReaderAtWork'
  <2>1. "dropped" \notin AHost!AtWork /\ "cleared" \notin AHost!AtWork
    BY DEF AHost!AtWork
  <2>2. \A q \in AHost!Procs : c'[q].reader \in AHost!AtWork => a.alive /\ q = a.spawned
    BY <1>3, <1>4, <1>7, <2>1 DEF HostInv, AHost!OneReaderAtWork
  <2>3. \A q \in AHost!Procs : q > a.spawned => q # p /\ c[q].reader = "none"
    BY <1>2 DEF HostInv, AHost!OneReaderAtWork
  <2>4. a.alive => a.spawned # 0 /\ a.spawned # p /\ c[a.spawned].reader \in AHost!AtWork
    BY <1>2, <2>1 DEF HostInv, AHost!OneReaderAtWork
  <2>5. a.alive => c'[a.spawned].reader \in AHost!AtWork
    BY <1>0, <1>7, <2>4
  <2> QED
    BY <1>5, <1>7, <2>2, <2>3, <2>4, <2>5 DEF AHost!OneReaderAtWork
<1>9. AHost!WaitingIsPending'
  <2>1. \A q \in AHost!Procs : q # a.proc => ~c[q].running /\ c[q].inbox = {}
    BY <1>0 DEF HostInv, AHost!WaitingIsPending
  <2>2. \A q \in AHost!Procs : ~c'[q].running /\ c'[q].inbox = {}
    BY <1>1, <1>3, <1>4, <2>1
  <2> QED
    BY <1>2, <1>5, <2>2 DEF HostInv, AHost!WaitingIsPending
<1>10. AHost!NobodyWaitsForTheDead'
  <2>1. ASSUME NEW q \in Requests, b'[q] = "waiting"
        PROVE  \E x \in AHost!Procs : Holds(c'[x], q)
    <3>1. PICK x \in AHost!Procs : Holds(c[x], q)
      BY <1>2, <2>1, WaitersAreHeld DEF HostInv
    <3>2. CASE x = p
      BY <1>3, <1>4, <3>2 DEF Holds
    <3>3. CASE x # p /\ x # a.proc
      BY <1>1, <1>4, <3>1, <3>3
    <3>4. CASE x # p /\ x = a.proc
      <4>1. c[x].reader \in {"reads", "serves", "ended", "cleared"}
        BY <3>4 DEF HostInv, AHost!OneReaderAtWork, AHost!Procs, AHost!AtWork
      <4>2. c'[x].reader = c[x].reader /\ c'[x].running = FALSE
        BY <1>1, <1>4, <3>4
      <4> QED
        BY <4>1, <4>2 DEF Holds
    <3> QED
      BY <3>2, <3>3, <3>4
  <2> QED
    BY <2>1, WaitersAreHeld
<1> QED
  BY <1>5, <1>6, <1>8, <1>9, <1>10 DEF HostInv, AHost!AnswersStayHome

LEMMA PendingIsDrained ==
  ASSUME HostInv, NEW p \in AHost!Procs, AHost!DrainPending(p)
  PROVE  HostInv'
<1> DEFINE new == [c[p] EXCEPT !.reader = "done"]
<1>0. /\ c \in [AHost!Procs -> AHost!Process] /\ a \in AHost!Links /\ b \in [Requests -> AHost!CallerStages]
      /\ a.proc \in AHost!Procs \cup {0} /\ a.spawned \in AHost!Procs \cup {0}
  BY DEF HostInv, AHost!HostTypeOK, AHost!Links
<1>1. /\ c[p].reader = "dropped" /\ a' = [a EXCEPT !.pending = {}] /\ c' = [c EXCEPT ![p] = new]
      /\ b' = [r \in Requests |-> IF r \in a.pending /\ b[r] = "waiting" THEN "failed" ELSE b[r]]
  BY <1>0 DEF AHost!DrainPending
<1>2. /\ new \in AHost!Process /\ new.running = c[p].running /\ new.reader = "done"
      /\ new.inbox = c[p].inbox
  BY <1>0 DEF AHost!Process
<1> HIDE DEF new
<1>3. c' \in [AHost!Procs -> AHost!Process] /\ c'[p] = new /\ \A q \in AHost!Procs \ {p} : c'[q] = c[q]
  BY <1>0, <1>1, <1>2
<1>4. /\ a' \in AHost!Links /\ a'.alive = a.alive /\ a'.proc = a.proc /\ a'.spawned = a.spawned
      /\ a'.misdirected = a.misdirected
  BY <1>0, <1>1 DEF AHost!Links
<1>5. \A r \in Requests : b[r] = "waiting" => r \in a.pending
  BY DEF HostInv, AHost!WaitingIsPending
<1>6. \A r \in Requests : b'[r] # "waiting"
  BY <1>1, <1>5
<1>7. b' \in [Requests -> AHost!CallerStages]
  BY <1>0, <1>1 DEF AHost!CallerStages
<1>8. AHost!HostTypeOK'
  BY <1>3, <1>4, <1>7 DEF AHost!HostTypeOK
<1>9. AHost!OneReaderAtWork'
  <2>1. {"dropped", "done"} \cap (AHost!AtWork \cup {"cleared"}) = {}
    BY DEF AHost!AtWork
  <2>2. \A q \in AHost!Procs : c'[q].reader \in AHost!AtWork => a.alive /\ q = a.spawned
    BY <1>2, <1>3, <2>1 DEF HostInv, AHost!OneReaderAtWork
  <2>3. \A q \in AHost!Procs : q > a.spawned => q # p /\ c[q].reader = "none"
    BY <1>1 DEF HostInv, AHost!OneReaderAtWork
  <2>4. /\ a.alive => a.spawned # 0 /\ a.spawned # p /\ c[a.spawned].reader \in AHost!AtWork
        /\ a.proc \in {0, a.spawned}
        /\ a.proc # 0 => a.proc # p /\ c[a.proc].reader \in AHost!AtWork \cup {"cleared"}
    BY <1>1, <2>1 DEF HostInv, AHost!OneReaderAtWork
  <2>5. /\ a.alive => c'[a.spawned].reader \in AHost!AtWork
        /\ a.proc # 0 => c'[a.proc].reader \in AHost!AtWork \cup {"cleared"}
    BY <1>0, <1>3, <2>4
  <2> QED
    BY <1>3, <1>4, <2>2, <2>3, <2>4, <2>5 DEF AHost!OneReaderAtWork
<1>10. AHost!WaitingIsPending'
  BY <1>1, <1>2, <1>3, <1>4, <1>6 DEF HostInv, AHost!WaitingIsPending
<1>11. AHost!NobodyWaitsForTheDead'
  BY <1>6 DEF AHost!NobodyWaitsForTheDead
<1> QED
  BY <1>4, <1>8, <1>9, <1>10, <1>11 DEF HostInv, AHost!AnswersStayHome

LEMMA HostStep ==
  ASSUME HostInv, [AHost!HostNext]_AHost!hostVars
  PROVE  HostInv'
<1>1. ASSUME NEW r \in Requests,
             AHost!Call(r) \/ AHost!Spawn(r) \/ AHost!Enter(r) \/ AHost!SendValue(r) \/ AHost!TimeOut(r)
      PROVE  HostInv'
  <2>1. CASE AHost!Call(r) \/ AHost!Enter(r) \/ AHost!TimeOut(r)
    BY <2>1, CallersMove
  <2>2. CASE AHost!Spawn(r)
    BY <2>2, SpawnKeeps
  <2>3. CASE AHost!SendValue(r)
    BY <2>3, ValueIsSent
  <2> QED
    BY <1>1, <2>1, <2>2, <2>3
<1>2. ASSUME NEW p \in AHost!Procs,
             AHost!Reply(p) \/ AHost!AskHost(p) \/ AHost!Die(p) \/ AHost!HandleLine(p)
               \/ AHost!SendResponse(p) \/ AHost!ReaderEnds(p) \/ AHost!MarkDead(p)
      PROVE  HostInv'
  <2>1. CASE AHost!Reply(p) \/ AHost!AskHost(p) \/ AHost!Die(p)
    BY <2>1, SidecarMoves
  <2>2. CASE AHost!HandleLine(p) \/ AHost!SendResponse(p) \/ AHost!ReaderEnds(p)
    BY <2>2, ReadersMove
  <2>3. CASE AHost!MarkDead(p)
    BY <2>3, AliveIsCleared, ProcIsDropped, PendingIsDrained DEF AHost!MarkDead
  <2> QED
    BY <1>2, <2>1, <2>2, <2>3
<1>3. CASE UNCHANGED AHost!hostVars
  BY <1>3 DEF AHost!hostVars, HostInv, AHost!HostTypeOK, AHost!OneReaderAtWork, AHost!WaitingIsPending,
              AHost!NobodyWaitsForTheDead, AHost!AnswersStayHome
<1> QED
  BY <1>1, <1>2, <1>3 DEF AHost!HostNext

LEMMA HostStarts ==
  ASSUME AHost!HostInit
  PROVE  HostInv
<1>1. <<>> \in Seq(Requests \cup {AHost!Ask})
  OBVIOUS
<1>2. /\ a = [alive |-> FALSE, proc |-> 0, spawned |-> 0, pending |-> {}, misdirected |-> FALSE]
      /\ b = [r \in Requests |-> "new"] /\ a \in AHost!Links
  BY DEF AHost!HostInit, AHost!Links
<1>3. c \in [AHost!Procs -> AHost!Process]
  <2> DEFINE empty == <<>>
             idle == [running |-> FALSE, inbox |-> {}, asks |-> FALSE, out |-> empty, reader |-> "none"]
  <2>1. empty \in Seq(Requests \cup {AHost!Ask}) /\ c = [p \in AHost!Procs |-> idle]
    BY <1>1 DEF AHost!HostInit
  <2> HIDE DEF empty
  <2>2. idle \in AHost!Process
    BY <2>1 DEF AHost!Process
  <2> QED
    BY <2>1, <2>2
<1>4. \A p \in AHost!Procs : c[p].running = FALSE /\ c[p].inbox = {} /\ c[p].reader = "none"
  BY DEF AHost!HostInit
<1>5. AHost!HostTypeOK
  BY <1>2, <1>3 DEF AHost!HostTypeOK, AHost!CallerStages
<1> QED
  BY <1>2, <1>4, <1>5 DEF HostInv, AHost!OneReaderAtWork, AHost!WaitingIsPending, AHost!NobodyWaitsForTheDead,
                          AHost!AnswersStayHome, AHost!AtWork

-----------------------------------------------------------------------------
(* The stored queue of the team.                                           *)

\* The data folder is chosen once.
OneFolder == \A f, g \in Folders : f = g

\* What the queue keeps in any case, and what as long as there is one folder.
StoreInv ==
  /\ AStore!StoreTypeOK
  /\ b.restoring # "restored" => b.due = 0 /\ b.sent = <<>>
  /\ OneFolder /\ ~a.lost => AStore!FlushedInOrder /\ AStore!OnwardOfStored /\ AStore!HistoryKept

LEMMA StagesMoveOn ==
  /\ \A x \in AStore!Stages : x \in AStore!Onward(x) /\ AStore!Resumed(x) \in AStore!Onward(x)
  /\ \A x, y, z \in AStore!Stages :
       x \in AStore!Onward(y) /\ y \in AStore!Onward(z) => x \in AStore!Onward(z)
  /\ \A x \in AStore!Stages : x \in AStore!Onward("none")
  /\ \A x, y \in AStore!Stages : x \in AStore!Onward(y) /\ x = "none" => y = "none"
  /\ \A x \in AStore!Stages : AStore!Resumed(x) \in AStore!Stages /\ AStore!Resumed(AStore!Resumed(x)) = AStore!Resumed(x)
  /\ \A x \in AStore!Stages : AStore!Resumed(x) = "none" => x = "none"
BY DEF AStore!Stages, AStore!Onward, AStore!Resumed

LEMMA SnapshotsAreSent ==
  ASSUME AStore!StoreTypeOK
  PROVE  /\ b.queue \in AStore!Snapshots
         /\ b.sent # <<>> => b.sent[1] \in AStore!Snapshots
         /\ a.root \in Folders => AStore!Stored \in AStore!Snapshots
         /\ AStore!Empty \in AStore!Snapshots
<1>1. b.sent \in {<<>>} \cup [1..1 -> AStore!Snapshots] /\ b.queue \in AStore!Snapshots
  BY DEF AStore!StoreTypeOK, AStore!TeamMems
<1>2. 1 \in 1..1
  OBVIOUS
<1>3. a.tasks \in [Folders -> AStore!Snapshots]
  BY DEF AStore!StoreTypeOK, AStore!TeamFiles
<1>4. AStore!Empty \in AStore!Snapshots
  BY DEF AStore!Empty, AStore!Snapshots, AStore!Stages
<1> QED
  BY <1>1, <1>2, <1>3, <1>4 DEF AStore!Stored

\* What a step of a task makes of the queue: it is marked, and every task moves
\* onward; one may begin that was not there.
QueueMoves(t, from) ==
  /\ b' \in AStore!TeamMems /\ b'.dirty = TRUE /\ b'.restoring = b.restoring /\ b'.sent = b.sent
  /\ b.restoring # "restored" => b'.due = b.due
  /\ \A u \in StoredTasks : b'.queue[u] \in AStore!Onward(b.queue[u])
  /\ \A u \in StoredTasks : b.queue[u] = "none" => b'.queue[u] = "none" \/ (u = t /\ from = "none")
  /\ AStore!KeepsHistory(b.queue) => AStore!KeepsHistory(b'.queue)

\* TeamStore counts as FiniteSets does.
LEMMA SameCardinality ==
  ASSUME NEW S
  PROVE  AStore!Cardinality(S) = Cardinality(S)
BY DEF AStore!Cardinality, Cardinality

\* The ended tasks can be counted.
LEMMA EndedIsFinite ==
  ASSUME NEW queue
  PROVE  /\ AStore!Cardinality(AStore!Ended(queue)) \in Nat
         /\ \A S \in SUBSET AStore!Ended(queue) : AStore!Cardinality(S) <= AStore!Cardinality(AStore!Ended(queue))
<1>1. AStore!Ended(queue) \in SUBSET StoredTasks /\ IsFiniteSet(StoredTasks)
  BY ServicesAssumption DEF AStore!Ended
<1>2. IsFiniteSet(AStore!Ended(queue))
  BY <1>1, FS_Subset
<1>3. /\ Cardinality(AStore!Ended(queue)) \in Nat
      /\ \A S \in SUBSET AStore!Ended(queue) : Cardinality(S) <= Cardinality(AStore!Ended(queue))
  BY <1>2, FS_Subset, FS_CardinalityType
<1> QED
  BY <1>3, SameCardinality

\* A task that ends stays among the ended ones, or leaves enough of them behind.
LEMMA TrimKeeps ==
  ASSUME NEW queue \in AStore!Snapshots, NEW later \in AStore!Snapshots, NEW trimmed \in AStore!Trimmed(later),
         AStore!Ended(queue) \subseteq AStore!Ended(later),
         \A u \in StoredTasks : later[u] = "gone" => queue[u] = "gone"
  PROVE  /\ trimmed \in AStore!Snapshots
         /\ \A u \in StoredTasks : trimmed[u] = later[u] \/ (later[u] \in {"owed", "told"} /\ trimmed[u] = "gone")
         /\ AStore!KeepsHistory(queue) => AStore!KeepsHistory(trimmed)
<1>1. PICK T \in SUBSET AStore!Ended(later) :
        /\ trimmed = AStore!Without(later, T)
        /\ \/ T = {} /\ AStore!Cardinality(AStore!Ended(later)) <= MaxHistory
           \/ AStore!Cardinality(AStore!Ended(later) \ T) = MaxHistory
  BY DEF AStore!Trimmed
<1>2. \A u \in StoredTasks : trimmed[u] = IF u \in T THEN "gone" ELSE later[u]
  BY <1>1 DEF AStore!Without
<1>3. trimmed \in AStore!Snapshots
  <2>1. \A u \in StoredTasks : later[u] \in AStore!Stages /\ "gone" \in AStore!Stages
    BY DEF AStore!Snapshots, AStore!Stages
  <2> QED
    BY <1>1, <2>1 DEF AStore!Snapshots, AStore!Without
<1>4. \A u \in T : u \in StoredTasks /\ later[u] \in {"owed", "told"}
  BY <1>1 DEF AStore!Ended
<1>5. AStore!Ended(trimmed) = AStore!Ended(later) \ T
  BY <1>2 DEF AStore!Ended
<1>6. ASSUME AStore!KeepsHistory(queue)
      PROVE  AStore!KeepsHistory(trimmed)
  <2>1. CASE T = {} /\ AStore!Cardinality(AStore!Ended(later)) <= MaxHistory
    <3>1. ASSUME NEW u \in StoredTasks, trimmed[u] = "gone"
          PROVE  AStore!Cardinality(AStore!Ended(queue)) >= MaxHistory
      BY <1>2, <1>6, <2>1, <3>1 DEF AStore!KeepsHistory
    <3>2. AStore!Cardinality(AStore!Ended(queue)) <= AStore!Cardinality(AStore!Ended(later))
          /\ AStore!Cardinality(AStore!Ended(queue)) \in Nat /\ AStore!Cardinality(AStore!Ended(later)) \in Nat
      BY EndedIsFinite
    <3>3. AStore!Ended(trimmed) = AStore!Ended(later)
      BY <1>5, <2>1
    <3> QED
      BY <3>1, <3>2, <3>3, Bounds DEF AStore!KeepsHistory
  <2>2. CASE AStore!Cardinality(AStore!Ended(later) \ T) = MaxHistory
    BY <1>5, <2>2, Bounds DEF AStore!KeepsHistory
  <2> QED
    BY <1>1, <2>1, <2>2
<1> QED
  BY <1>2, <1>3, <1>4, <1>6

\* What is stored of a task is marked and lined up with the queue it moves in.
LEMMA QueueIsMarked ==
  ASSUME AStore!StoreTypeOK, NEW queue \in AStore!Snapshots, NEW n \in Nat, NEW lined \in SUBSET StoredTasks,
         b' = AStore!Persisted([b EXCEPT !.queue = queue, !.lined = lined], n)
  PROVE  /\ b' \in AStore!TeamMems /\ b'.dirty = TRUE /\ b'.restoring = b.restoring /\ b'.sent = b.sent
         /\ b'.queue = queue
         /\ b.restoring # "restored" => b'.due = b.due
<1> DEFINE due == IF b.restoring = "restored" THEN b.due + n ELSE b.due
<1>1. b \in AStore!TeamMems /\ b.due \in Nat
  BY DEF AStore!StoreTypeOK, AStore!TeamMems
<1>2. due \in Nat
  BY <1>1
<1>3. b' = [b EXCEPT !.queue = queue, !.lined = lined, !.dirty = TRUE, !.due = due]
  BY <1>1 DEF AStore!Persisted, AStore!TeamMems
<1>4. b.restoring # "restored" => due = b.due
  OBVIOUS
<1> HIDE DEF due
<1>5. b' \in AStore!TeamMems
  BY <1>1, <1>2, <1>3 DEF AStore!TeamMems
<1>6. b'.dirty = TRUE /\ b'.restoring = b.restoring /\ b'.sent = b.sent /\ b'.queue = queue /\ b'.due = due
  BY <1>1, <1>3 DEF AStore!TeamMems
<1> QED
  BY <1>4, <1>5, <1>6

LEMMA TransitionMoves ==
  ASSUME AStore!StoreTypeOK, NEW t \in StoredTasks, NEW from \in {"none", "queued", "running"},
         NEW to \in AStore!Onward(from) \ {"none", "gone"}, NEW n \in Nat, NEW lined \in SUBSET StoredTasks,
         AStore!Transition(t, from, to, n, lined)
  PROVE  QueueMoves(t, from) /\ b.queue[t] = from
<1> DEFINE later == [b.queue EXCEPT ![t] = to]
<1>1. b.queue \in AStore!Snapshots /\ b.queue[t] = from /\ to \in AStore!Stages
  BY DEF AStore!StoreTypeOK, AStore!TeamMems, AStore!Transition, AStore!Onward, AStore!Stages
<1>2. PICK queue \in AStore!Trimmed(later) : b' = AStore!Persisted([b EXCEPT !.queue = queue, !.lined = lined], n)
  BY DEF AStore!Transition
<1>3. later \in AStore!Snapshots /\ later[t] = to /\ \A u \in StoredTasks \ {t} : later[u] = b.queue[u]
  BY <1>1 DEF AStore!Snapshots
<1> HIDE DEF later
<1>4. AStore!Ended(b.queue) \subseteq AStore!Ended(later) /\ \A u \in StoredTasks : later[u] = "gone" => b.queue[u] = "gone"
  BY <1>1, <1>3 DEF AStore!Ended
<1>5. /\ queue \in AStore!Snapshots
      /\ \A u \in StoredTasks : queue[u] = later[u] \/ (later[u] \in {"owed", "told"} /\ queue[u] = "gone")
      /\ AStore!KeepsHistory(b.queue) => AStore!KeepsHistory(queue)
  BY <1>1, <1>3, <1>4, TrimKeeps
<1>6. /\ b' \in AStore!TeamMems /\ b'.dirty = TRUE /\ b'.restoring = b.restoring /\ b'.sent = b.sent
      /\ b'.queue = queue
      /\ b.restoring # "restored" => b'.due = b.due
  BY <1>2, <1>5, QueueIsMarked
<1>7. ASSUME NEW u \in StoredTasks
      PROVE  /\ queue[u] \in AStore!Onward(b.queue[u])
             /\ b.queue[u] = "none" => queue[u] = "none" \/ (u = t /\ from = "none")
  <2>1. b.queue[u] \in AStore!Stages /\ later[u] \in AStore!Stages /\ queue[u] \in AStore!Stages
    BY <1>1, <1>3, <1>5 DEF AStore!Snapshots
  <2>2. later[u] \in AStore!Onward(b.queue[u])
    BY <1>1, <1>3, <2>1, StagesMoveOn
  <2>3. queue[u] \in AStore!Onward(later[u])
    BY <1>5, <2>1, StagesMoveOn DEF AStore!Onward
  <2>4. b.queue[u] = "none" /\ ~(u = t /\ from = "none") => queue[u] = "none"
    BY <1>1, <1>3, <1>5
  <2> QED
    BY <2>1, <2>2, <2>3, <2>4, StagesMoveOn
<1> QED
  BY <1>1, <1>5, <1>6, <1>7 DEF QueueMoves

\* A result that is told, or lined up again, is that of an ended task.
LEMMA MoveMoves ==
  ASSUME AStore!StoreTypeOK, NEW t \in StoredTasks, NEW to \in {"owed", "told"},
         NEW n \in Nat, NEW lined \in SUBSET StoredTasks, AStore!Move(t, "owed", to, n, lined)
  PROVE  QueueMoves(t, "owed") /\ b.queue[t] = "owed"
<1> DEFINE queue == [b.queue EXCEPT ![t] = to]
<1>1. b.queue \in AStore!Snapshots /\ b.queue[t] = "owed" /\ to \in AStore!Stages
  BY DEF AStore!StoreTypeOK, AStore!TeamMems, AStore!Move, AStore!Stages
<1>2. b' = AStore!Persisted([b EXCEPT !.queue = queue, !.lined = lined], n)
  BY DEF AStore!Move, AStore!StoreTypeOK, AStore!TeamMems
<1>3. queue \in AStore!Snapshots /\ queue[t] = to /\ \A u \in StoredTasks \ {t} : queue[u] = b.queue[u]
  BY <1>1 DEF AStore!Snapshots
<1> HIDE DEF queue
<1>4. AStore!Ended(queue) = AStore!Ended(b.queue) /\ \A u \in StoredTasks : queue[u] = "gone" <=> b.queue[u] = "gone"
  BY <1>1, <1>3 DEF AStore!Ended
<1>5. AStore!KeepsHistory(b.queue) => AStore!KeepsHistory(queue)
  BY <1>4 DEF AStore!KeepsHistory
<1>6. /\ b' \in AStore!TeamMems /\ b'.dirty = TRUE /\ b'.restoring = b.restoring /\ b'.sent = b.sent
      /\ b'.queue = queue
      /\ b.restoring # "restored" => b'.due = b.due
  BY <1>2, <1>3, QueueIsMarked
<1>7. \A u \in StoredTasks : b.queue[u] \in AStore!Stages
  BY <1>1 DEF AStore!Snapshots
<1>8. "owed" \in AStore!Onward("owed") /\ "told" \in AStore!Onward("owed")
  BY DEF AStore!Onward
<1> QED
  BY <1>1, <1>3, <1>5, <1>6, <1>7, <1>8, StagesMoveOn DEF QueueMoves

\* The tasks of the files stay.
LEMMA FilesStay ==
  ASSUME StoreInv, a'.tasks = a.tasks
  PROVE  OneFolder => AStore!StoreMovesOnward
<1> SUFFICES ASSUME OneFolder, ~a.lost
             PROVE  AStore!StoreMovesOnward
  BY DEF AStore!StoreMovesOnward
<1>1. AStore!HistoryKept /\ a.tasks \in [Folders -> AStore!Snapshots]
  BY DEF StoreInv, AStore!StoreTypeOK, AStore!TeamFiles
<1>2. \A f \in Folders, t \in StoredTasks : a'.tasks[f][t] \in AStore!Onward(a.tasks[f][t])
  BY <1>1, StagesMoveOn DEF AStore!Snapshots
<1>3. \A f \in Folders : AStore!KeepsHistory(a'.tasks[f])
  BY <1>1 DEF AStore!HistoryKept
<1> QED
  BY <1>2, <1>3 DEF AStore!StoreMovesOnward, AStore!KeepsHistory

\* Nothing is said of more than the queue, what is sent and the files.
LEMMA HistoryStays ==
  ASSUME AStore!HistoryKept, b'.queue = b.queue, b'.sent = b.sent \/ b'.sent = <<>>,
         a'.tasks = a.tasks, ~a'.lost => ~a.lost
  PROVE  AStore!HistoryKept'
BY DEF AStore!HistoryKept, AStore!KeepsHistory, AStore!Ended

\* What it was is where it may move from.
LEMMA MovedKeeps ==
  ASSUME StoreInv, NEW t \in StoredTasks, NEW from, QueueMoves(t, from), b.queue[t] = from,
         \/ a' = a /\ from # "none"
         \/ from = "none" /\ t \notin a.ids /\ a' = [a EXCEPT !.ids = @ \cup {t}]
  PROVE  StoreInv' /\ (OneFolder => AStore!StoreMovesOnward)
<1>1. AStore!StoreTypeOK
  BY DEF StoreInv
<1>2. /\ b' \in AStore!TeamMems /\ b'.dirty = TRUE /\ b'.restoring = b.restoring /\ b'.sent = b.sent
      /\ b.restoring # "restored" => b'.due = b.due
      /\ \A u \in StoredTasks : b'.queue[u] \in AStore!Onward(b.queue[u])
      /\ \A u \in StoredTasks : b.queue[u] = "none" => b'.queue[u] = "none" \/ (u = t /\ from = "none")
      /\ AStore!KeepsHistory(b.queue) => AStore!KeepsHistory(b'.queue)
  BY DEF QueueMoves
<1>3. /\ a' \in AStore!TeamFiles /\ a'.tasks = a.tasks /\ a'.root = a.root /\ a'.lost = a.lost
      /\ a.ids \subseteq a'.ids /\ (from = "none" => t \in a'.ids)
  BY <1>1 DEF AStore!StoreTypeOK, AStore!TeamFiles
<1>4. /\ b.queue \in AStore!Snapshots /\ b'.queue \in AStore!Snapshots
      /\ b.sent # <<>> => b.sent[1] \in AStore!Snapshots
      /\ a.tasks \in [Folders -> AStore!Snapshots]
      /\ a.root \in Folders => AStore!Stored \in AStore!Snapshots
  <2>1. b.queue \in AStore!Snapshots /\ (b.sent # <<>> => b.sent[1] \in AStore!Snapshots)
        /\ (a.root \in Folders => AStore!Stored \in AStore!Snapshots)
    BY <1>1, SnapshotsAreSent
  <2>2. b'.queue \in AStore!Snapshots /\ a.tasks \in [Folders -> AStore!Snapshots]
    BY <1>1, <1>2 DEF AStore!TeamMems, AStore!StoreTypeOK, AStore!TeamFiles
  <2> QED
    BY <2>1, <2>2
<1>5. AStore!StoreTypeOK'
  BY <1>2, <1>3 DEF AStore!StoreTypeOK
<1>6. AStore!Stored' = AStore!Stored /\ AStore!HasRoot' = AStore!HasRoot
  BY <1>3 DEF AStore!Stored, AStore!HasRoot
<1>7. ASSUME OneFolder, ~a'.lost
      PROVE  AStore!FlushedInOrder' /\ AStore!OnwardOfStored' /\ AStore!HistoryKept'
  <2>1. AStore!FlushedInOrder /\ AStore!OnwardOfStored /\ AStore!HistoryKept
    BY <1>3, <1>7 DEF StoreInv
  <2>2. AStore!FlushedInOrder'
    BY <1>2, <1>6, <2>1 DEF AStore!FlushedInOrder
  <2>3. \A u \in StoredTasks, f \in Folders :
          b'.queue[u] # "none" \/ a'.tasks[f][u] # "none" => u \in a'.ids
    <3>1. ASSUME NEW u \in StoredTasks, NEW f \in Folders,
                 b'.queue[u] # "none" \/ a'.tasks[f][u] # "none"
          PROVE  u \in a'.ids
      <4>1. CASE u = t /\ from = "none"
        BY <1>3, <4>1
      <4>2. CASE ~(u = t /\ from = "none")
        <5>1. b.queue[u] # "none" \/ a.tasks[f][u] # "none"
          BY <1>2, <1>3, <3>1, <4>2
        <5> QED
          BY <1>3, <2>1, <5>1 DEF AStore!OnwardOfStored
      <4> QED
        BY <4>1, <4>2
    <3> QED
      BY <3>1
  <2>4. AStore!HistoryKept'
    BY <1>2, <1>3, <2>1 DEF AStore!HistoryKept
  <2>5. CASE b.restoring \in {"policy", "restored"}
    <3>1. a.root \in Folders
      BY <1>1, <2>1, <2>5 DEF AStore!FlushedInOrder, AStore!HasRoot, AStore!StoreTypeOK, AStore!TeamFiles
    <3>2. /\ AStore!OnwardOf(b.queue, AStore!Stored)
          /\ b.sent # <<>> => AStore!OnwardOf(b.sent[1], AStore!Stored) /\ AStore!OnwardOf(b.queue, b.sent[1])
      BY <1>3, <1>7, <2>1, <2>5 DEF AStore!OnwardOfStored
    <3>3. ASSUME NEW base \in AStore!Snapshots, AStore!OnwardOf(b.queue, base)
          PROVE  AStore!OnwardOf(b'.queue, base)
      <4>1. \A u \in StoredTasks : b.queue[u] \in AStore!Stages /\ b'.queue[u] \in AStore!Stages /\ base[u] \in AStore!Stages
        BY <1>4 DEF AStore!Snapshots
      <4> QED
        BY <1>2, <3>3, <4>1, StagesMoveOn DEF AStore!OnwardOf
    <3>4. AStore!OnwardOf(b'.queue, AStore!Stored)
      BY <1>4, <3>1, <3>2, <3>3
    <3>5. b.sent # <<>> => AStore!OnwardOf(b'.queue, b.sent[1])
      BY <1>4, <3>2, <3>3
    <3> QED
      BY <1>2, <1>6, <2>2, <2>3, <2>4, <2>5, <3>2, <3>4, <3>5 DEF AStore!OnwardOfStored, AStore!OnwardOf
  <2>6. CASE b.restoring \notin {"policy", "restored"}
    <3>1. ASSUME NEW u \in StoredTasks, NEW f \in Folders, b'.queue[u] # "none"
          PROVE  a'.tasks[f][u] = "none"
      <4>1. CASE b.queue[u] # "none"
        BY <1>3, <1>7, <2>1, <2>6, <4>1 DEF AStore!OnwardOfStored
      <4>2. CASE b.queue[u] = "none"
        <5>1. u = t /\ from = "none"
          BY <1>2, <3>1, <4>2
        <5> QED
          BY <1>3, <2>1, <5>1 DEF AStore!OnwardOfStored
      <4> QED
        BY <4>1, <4>2
    <3> QED
      BY <1>2, <2>2, <2>3, <2>4, <2>6, <3>1 DEF AStore!OnwardOfStored
  <2> QED
    BY <2>5, <2>6
<1>8. OneFolder => AStore!StoreMovesOnward
  BY <1>3, FilesStay
<1> QED
  BY <1>1, <1>2, <1>5, <1>7, <1>8 DEF StoreInv

\* A result no longer lined up.
LEMMA UnlinedKeeps ==
  ASSUME StoreInv, NEW t \in StoredTasks, b' = [b EXCEPT !.lined = @ \ {t}], a' = a
  PROVE  StoreInv' /\ (OneFolder => AStore!StoreMovesOnward)
<1>1. AStore!StoreTypeOK /\ b.lined \in SUBSET StoredTasks
  BY DEF StoreInv, AStore!StoreTypeOK, AStore!TeamMems
<1>2. /\ b' \in AStore!TeamMems /\ b'.restoring = b.restoring /\ b'.queue = b.queue /\ b'.dirty = b.dirty
      /\ b'.due = b.due /\ b'.sent = b.sent
  BY <1>1 DEF AStore!StoreTypeOK, AStore!TeamMems
<1>3. AStore!FlushedInOrder => AStore!FlushedInOrder'
  BY <1>2 DEF AStore!FlushedInOrder, AStore!Stored, AStore!HasRoot
<1>4. AStore!OnwardOfStored => AStore!OnwardOfStored'
  BY <1>2 DEF AStore!OnwardOfStored, AStore!OnwardOf, AStore!Stored
<1> QED
  BY <1>1, <1>2, <1>3, <1>4, FilesStay, HistoryStays DEF StoreInv, AStore!StoreTypeOK

LEMMA TasksWork ==
  ASSUME StoreInv, NEW t \in StoredTasks,
         AStore!Enqueue(t) \/ AStore!Work(t) \/ AStore!Tell(t) \/ AStore!LineUp(t)
  PROVE  StoreInv' /\ (OneFolder => AStore!StoreMovesOnward)
<1>1. AStore!StoreTypeOK /\ b.lined \in SUBSET StoredTasks
  BY DEF StoreInv, AStore!StoreTypeOK, AStore!TeamMems
<1>2. /\ {1, 2} \subseteq Nat
      /\ "queued" \in AStore!Onward("none") \ {"none", "gone"}
      /\ {"running", "owed", "told"} \subseteq AStore!Onward("queued") \ {"none", "gone"}
      /\ "owed" \in AStore!Onward("running") \ {"none", "gone"}
  BY DEF AStore!Stages, AStore!Onward
<1>3. \A lined \in {{}, {t}} : b.lined \cup lined \in SUBSET StoredTasks
  BY <1>1
<1>4. b.lined \ {t} \in SUBSET StoredTasks /\ b.lined \cup {t} \in SUBSET StoredTasks
  BY <1>1
<1>5. CASE AStore!Enqueue(t)
  <2>1. QueueMoves(t, "none") /\ b.queue[t] = "none"
    BY <1>1, <1>2, <1>5, TransitionMoves DEF AStore!Enqueue
  <2> QED
    BY <1>5, <2>1, MovedKeeps DEF AStore!Enqueue
<1>6. CASE AStore!Transition(t, "queued", "running", 1, b.lined) /\ a' = a
  <2>1. QueueMoves(t, "queued") /\ b.queue[t] = "queued"
    BY <1>1, <1>2, <1>6, TransitionMoves
  <2> QED
    BY <1>6, <2>1, MovedKeeps
<1>7. ASSUME NEW from \in {"queued", "running"}, NEW lined \in {{}, {t}},
             AStore!Transition(t, from, "owed", 2, b.lined \cup lined), a' = a
      PROVE  StoreInv' /\ (OneFolder => AStore!StoreMovesOnward)
  <2>1. "owed" \in AStore!Onward(from) \ {"none", "gone"} /\ from # "none" /\ from \in {"none", "queued", "running"}
    BY <1>2
  <2>2. QueueMoves(t, from) /\ b.queue[t] = from
    BY <1>1, <1>2, <1>3, <1>7, <2>1, TransitionMoves
  <2> QED
    BY <1>7, <2>1, <2>2, MovedKeeps
<1>8. CASE AStore!Transition(t, "queued", "told", 1, b.lined) /\ a' = a
  <2>1. QueueMoves(t, "queued") /\ b.queue[t] = "queued"
    BY <1>1, <1>2, <1>8, TransitionMoves
  <2> QED
    BY <1>8, <2>1, MovedKeeps
<1>9. ASSUME NEW to \in {"owed", "told"}, NEW lined \in SUBSET StoredTasks, AStore!Move(t, "owed", to, 1, lined), a' = a
      PROVE  StoreInv' /\ (OneFolder => AStore!StoreMovesOnward)
  <2>1. QueueMoves(t, "owed") /\ b.queue[t] = "owed"
    BY <1>1, <1>2, <1>9, MoveMoves
  <2> QED
    BY <1>9, <2>1, MovedKeeps
<1>10. CASE b' = [b EXCEPT !.lined = @ \ {t}] /\ a' = a
  BY <1>10, UnlinedKeeps
<1>11. CASE AStore!Work(t)
  BY <1>6, <1>7, <1>8, <1>11 DEF AStore!Work
<1>12. CASE AStore!Tell(t) \/ AStore!LineUp(t)
  BY <1>4, <1>9, <1>10, <1>12 DEF AStore!Tell, AStore!LineUp
<1> QED
  BY <1>5, <1>11, <1>12

\* The replies to the reads of a start.
LEMMA RestoreKeeps ==
  ASSUME StoreInv, AStore!Restore
  PROVE  StoreInv' /\ (OneFolder => AStore!StoreMovesOnward)
<1>1. AStore!StoreTypeOK /\ b \in AStore!TeamMems /\ a \in AStore!TeamFiles /\ b.due \in Nat
  BY DEF StoreInv, AStore!StoreTypeOK, AStore!TeamMems
<1>2. /\ b.queue \in AStore!Snapshots /\ a.root \in Folders => AStore!Stored \in AStore!Snapshots
      /\ AStore!HasRoot => a.root \in Folders
  BY <1>1, SnapshotsAreSent DEF AStore!HasRoot, AStore!TeamFiles
<1>3. CASE /\ AStore!HasRoot /\ b.restoring = "tasks" /\ a' = a
           /\ b' = [b EXCEPT !.restoring = "policy",
                !.queue = [t \in StoredTasks |-> IF @[t] = "none" THEN AStore!Resumed(AStore!Stored[t]) ELSE @[t]]]
  <2> DEFINE queue == [t \in StoredTasks |-> IF b.queue[t] = "none" THEN AStore!Resumed(AStore!Stored[t])
                                                                  ELSE b.queue[t]]
  <2>1. b' = [b EXCEPT !.restoring = "policy", !.queue = queue]
    BY <1>1, <1>3 DEF AStore!TeamMems
  <2>2. AStore!Stored \in AStore!Snapshots /\ b.queue \in AStore!Snapshots
    BY <1>1, <1>2, <1>3, SnapshotsAreSent
  <2>3. queue \in AStore!Snapshots
    BY <2>2, StagesMoveOn DEF AStore!Snapshots
  <2>4. \A t \in StoredTasks : IF b.queue[t] = "none" THEN queue[t] = AStore!Resumed(AStore!Stored[t])
                                                     ELSE queue[t] = b.queue[t]
    OBVIOUS
  <2> HIDE DEF queue
  <2>5. b' \in AStore!TeamMems /\ b'.restoring = "policy" /\ b'.queue = queue /\ b'.dirty = b.dirty
        /\ b'.due = b.due /\ b'.sent = b.sent
    BY <1>1, <2>1, <2>3 DEF AStore!TeamMems
  <2>6. b.due = 0 /\ b.sent = <<>>
    BY <1>3 DEF StoreInv
  <2>7. AStore!Stored' = AStore!Stored /\ AStore!HasRoot' = AStore!HasRoot
    BY <1>3 DEF AStore!Stored, AStore!HasRoot
  <2>8. ASSUME OneFolder, ~a'.lost PROVE AStore!FlushedInOrder' /\ AStore!OnwardOfStored' /\ AStore!HistoryKept'
    <3>1. AStore!FlushedInOrder /\ AStore!OnwardOfStored /\ AStore!HistoryKept
      BY <1>3, <2>8 DEF StoreInv
    <3>2. ~b.dirty => \A t \in StoredTasks : queue[t] = AStore!Resumed(AStore!Stored[t])
      BY <1>3, <2>4, <3>1 DEF AStore!FlushedInOrder, AStore!Empty
    <3>3. \A t \in StoredTasks : AStore!Stored[t] \in AStore!Stages /\ queue[t] \in AStore!Stages
      BY <2>2, <2>3 DEF AStore!Snapshots
    <3>4. AStore!FlushedInOrder'
      BY <1>3, <2>5, <2>6, <2>7, <3>2, <3>3, StagesMoveOn DEF AStore!FlushedInOrder
    <3>5. \A t \in StoredTasks : b.queue[t] # "none" => AStore!Stored[t] = "none"
      BY <1>2, <1>3, <2>8, <3>1 DEF AStore!OnwardOfStored, AStore!Stored
    <3>6. AStore!OnwardOf(queue, AStore!Stored)
      BY <2>4, <3>3, <3>5, StagesMoveOn DEF AStore!OnwardOf
    <3>7. \A t \in StoredTasks : queue[t] # "none" => b.queue[t] # "none" \/ AStore!Stored[t] # "none"
      BY <2>4, <3>3 DEF AStore!Resumed
    <3>8. \A t \in StoredTasks, f \in Folders : queue[t] # "none" \/ a.tasks[f][t] # "none" => t \in a.ids
      BY <1>2, <1>3, <3>1, <3>7 DEF AStore!OnwardOfStored, AStore!Stored
    <3>9. AStore!OnwardOfStored'
      BY <1>3, <2>5, <2>6, <2>7, <3>6, <3>8 DEF AStore!OnwardOfStored, AStore!OnwardOf
    <3>10. AStore!KeepsHistory(b.queue) /\ AStore!KeepsHistory(AStore!Stored)
      BY <1>2, <1>3, <2>8, <3>1 DEF AStore!HistoryKept, AStore!Stored
    <3>11. AStore!Ended(b.queue) \subseteq AStore!Ended(queue) /\ AStore!Ended(AStore!Stored) \subseteq AStore!Ended(queue)
      BY <2>4, <3>5 DEF AStore!Ended, AStore!Resumed
    <3>12. \A t \in StoredTasks : queue[t] = "gone" => b.queue[t] = "gone" \/ AStore!Stored[t] = "gone"
      BY <2>4 DEF AStore!Resumed
    <3>13. AStore!KeepsHistory(queue)
      <4>1. /\ AStore!Cardinality(AStore!Ended(b.queue)) \in Nat /\ AStore!Cardinality(AStore!Ended(AStore!Stored)) \in Nat
            /\ AStore!Cardinality(AStore!Ended(queue)) \in Nat
            /\ AStore!Cardinality(AStore!Ended(b.queue)) <= AStore!Cardinality(AStore!Ended(queue))
            /\ AStore!Cardinality(AStore!Ended(AStore!Stored)) <= AStore!Cardinality(AStore!Ended(queue))
        BY <3>11, EndedIsFinite
      <4> QED
        BY <3>10, <3>12, <4>1, Bounds DEF AStore!KeepsHistory
    <3>14. AStore!HistoryKept'
      BY <1>3, <2>5, <2>6, <3>1, <3>13 DEF AStore!HistoryKept
    <3> QED
      BY <3>4, <3>9, <3>14
  <2> QED
    BY <1>1, <1>3, <2>5, <2>6, <2>8, FilesStay DEF StoreInv, AStore!StoreTypeOK
<1>4. CASE /\ AStore!HasRoot /\ b.restoring = "policy" /\ a' = a
           /\ b' = [b EXCEPT !.restoring = "restored", !.due = IF b.dirty THEN @ + 1 ELSE @]
  <2> DEFINE due == IF b.dirty THEN b.due + 1 ELSE b.due
  <2>1. due \in Nat /\ b' = [b EXCEPT !.restoring = "restored", !.due = due]
    BY <1>1, <1>4
  <2> HIDE DEF due
  <2>2. b' \in AStore!TeamMems /\ b'.restoring = "restored" /\ b'.queue = b.queue /\ b'.dirty = b.dirty
        /\ b'.sent = b.sent
    BY <1>1, <2>1 DEF AStore!TeamMems
  <2>3. AStore!FlushedInOrder => AStore!FlushedInOrder'
    BY <1>4, <2>2 DEF AStore!FlushedInOrder, AStore!Stored, AStore!HasRoot
  <2>4. AStore!OnwardOfStored => AStore!OnwardOfStored'
    BY <1>4, <2>2 DEF AStore!OnwardOfStored, AStore!OnwardOf, AStore!Stored
  <2> QED
    BY <1>1, <1>4, <2>2, <2>3, <2>4, FilesStay, HistoryStays DEF StoreInv, AStore!StoreTypeOK
<1>5. CASE /\ ~AStore!HasRoot /\ b.restoring \in {"tasks", "policy"} /\ a' = a
           /\ b' = [b EXCEPT !.restoring = "gaveUp"]
  <2>1. b' \in AStore!TeamMems /\ b'.restoring = "gaveUp" /\ b'.queue = b.queue /\ b'.dirty = b.dirty
        /\ b'.sent = b.sent /\ b'.due = b.due
    BY <1>1, <1>5 DEF AStore!TeamMems
  <2>2. b.due = 0 /\ b.sent = <<>>
    BY <1>5 DEF StoreInv
  <2>3. AStore!FlushedInOrder => AStore!FlushedInOrder'
    BY <1>5, <2>1, <2>2 DEF AStore!FlushedInOrder, AStore!Stored, AStore!HasRoot
  <2>4. AStore!FlushedInOrder /\ ~a.lost /\ AStore!OnwardOfStored => AStore!OnwardOfStored'
    BY <1>5, <2>1 DEF AStore!OnwardOfStored, AStore!FlushedInOrder
  <2> QED
    BY <1>1, <1>5, <2>1, <2>2, <2>3, <2>4, FilesStay, HistoryStays DEF StoreInv, AStore!StoreTypeOK
<1>6. CASE /\ AStore!HasRoot /\ b.restoring \in {"tasks", "policy"} /\ b' = [b EXCEPT !.restoring = "restored"]
           /\ a' = [a EXCEPT !.lost = @ \/ b.restoring = "tasks"]
  <2>1. b' \in AStore!TeamMems /\ b'.restoring = "restored" /\ b'.queue = b.queue /\ b'.dirty = b.dirty
        /\ b'.sent = b.sent /\ b'.due = b.due
    BY <1>1, <1>6 DEF AStore!TeamMems
  <2>2. PICK lost \in BOOLEAN : a' = [a EXCEPT !.lost = lost] /\ (~lost => ~a.lost /\ b.restoring = "policy")
    BY <1>1, <1>6 DEF AStore!TeamFiles
  <2>3. /\ a' \in AStore!TeamFiles /\ a'.tasks = a.tasks /\ a'.root = a.root /\ a'.ids = a.ids
        /\ ~a'.lost => ~a.lost /\ b.restoring = "policy"
    BY <1>1, <2>2 DEF AStore!TeamFiles
  <2>4. AStore!Stored' = AStore!Stored /\ AStore!HasRoot' = AStore!HasRoot
    BY <2>3 DEF AStore!Stored, AStore!HasRoot
  <2>5. AStore!FlushedInOrder /\ ~a'.lost => AStore!FlushedInOrder'
    BY <2>1, <2>3, <2>4 DEF AStore!FlushedInOrder
  <2>6. AStore!OnwardOfStored /\ ~a'.lost => AStore!OnwardOfStored'
    BY <2>1, <2>3, <2>4 DEF AStore!OnwardOfStored, AStore!OnwardOf
  <2> QED
    BY <1>1, <2>1, <2>3, <2>5, <2>6, FilesStay, HistoryStays DEF StoreInv, AStore!StoreTypeOK
<1> QED
  BY <1>3, <1>4, <1>5, <1>6 DEF AStore!Restore, AStore!HasRoot

LEMMA SingleIsSent ==
  ASSUME NEW q \in AStore!Snapshots
  PROVE  <<q>> \in [1..1 -> AStore!Snapshots] /\ <<q>> # <<>> /\ <<q>>[1] = q
OBVIOUS

\* A rewrite is sent, and lands or not.
LEMMA FlushKeeps ==
  ASSUME StoreInv, AStore!FlushStarts
  PROVE  StoreInv' /\ (OneFolder => AStore!StoreMovesOnward)
<1> DEFINE sent == IF b.dirty THEN <<b.queue>> ELSE <<>>
           due == b.due - 1
<1>1. AStore!StoreTypeOK /\ b \in AStore!TeamMems /\ b.due \in Nat /\ b.queue \in AStore!Snapshots
  BY DEF StoreInv, AStore!StoreTypeOK, AStore!TeamMems
<1>2. a' = a /\ b.sent = <<>> /\ b' = [b EXCEPT !.due = due, !.dirty = FALSE, !.sent = sent]
  BY DEF AStore!FlushStarts
<1>3. b.restoring = "restored" /\ due \in Nat
  BY <1>1 DEF AStore!FlushStarts, StoreInv
<1>4. sent \in {<<>>} \cup [1..1 -> AStore!Snapshots] /\ (sent # <<>> => b.dirty /\ sent[1] = b.queue)
      /\ (sent = <<>> => ~b.dirty)
  BY <1>1, SingleIsSent
<1> HIDE DEF sent, due
<1>5. b' \in AStore!TeamMems /\ b'.restoring = "restored" /\ b'.queue = b.queue /\ b'.dirty = FALSE /\ b'.sent = sent
  BY <1>1, <1>2, <1>3, <1>4 DEF AStore!TeamMems
<1>6. AStore!FlushedInOrder => AStore!FlushedInOrder'
  BY <1>2, <1>3, <1>4, <1>5 DEF AStore!FlushedInOrder, AStore!Stored, AStore!HasRoot
<1>7. AStore!OnwardOfStored => AStore!OnwardOfStored'
  <2>1. AStore!OnwardOf(b.queue, b.queue)
    BY <1>1, StagesMoveOn DEF AStore!OnwardOf, AStore!Snapshots
  <2> QED
    BY <1>2, <1>3, <1>4, <1>5, <2>1 DEF AStore!OnwardOfStored, AStore!Stored, AStore!OnwardOf
<1>8. AStore!HistoryKept => AStore!HistoryKept'
  BY <1>2, <1>4, <1>5 DEF AStore!HistoryKept
<1> QED
  BY <1>1, <1>2, <1>5, <1>6, <1>7, <1>8, FilesStay DEF StoreInv, AStore!StoreTypeOK

\* What a rewrite that lands makes of the files.
LEMMA SentIsStored ==
  ASSUME StoreInv, b.sent # <<>>, AStore!HasRoot, a' = [a EXCEPT !.tasks[a.root] = b.sent[1]]
  PROVE  /\ a' \in AStore!TeamFiles /\ a'.root = a.root /\ a'.ids = a.ids /\ a'.lost = a.lost
         /\ AStore!Stored' = b.sent[1] /\ AStore!HasRoot'
         /\ \A f \in Folders : a'.tasks[f] = IF f = a.root THEN b.sent[1] ELSE a.tasks[f]
         /\ AStore!StoreMovesOnward \/ ~OneFolder
         /\ OneFolder /\ ~a.lost =>
              /\ \A t \in StoredTasks, f \in Folders : a'.tasks[f][t] # "none" => t \in a.ids
              /\ \A f \in Folders : AStore!KeepsHistory(a'.tasks[f])
<1>1. AStore!StoreTypeOK /\ a \in AStore!TeamFiles /\ a.root \in Folders /\ b.sent[1] \in AStore!Snapshots
  BY SnapshotsAreSent DEF StoreInv, AStore!StoreTypeOK, AStore!TeamFiles, AStore!HasRoot
<1>2. a' \in AStore!TeamFiles /\ a'.root = a.root /\ a'.ids = a.ids /\ a'.lost = a.lost
      /\ a'.tasks = [a.tasks EXCEPT ![a.root] = b.sent[1]] /\ a.tasks \in [Folders -> AStore!Snapshots]
  BY <1>1 DEF AStore!TeamFiles
<1>3. \A f \in Folders : a'.tasks[f] = IF f = a.root THEN b.sent[1] ELSE a.tasks[f]
  BY <1>1, <1>2
<1>4. AStore!Stored' = b.sent[1] /\ AStore!HasRoot'
  BY <1>1, <1>2, <1>3 DEF AStore!Stored, AStore!HasRoot
<1>5. b.restoring = "restored" /\ b.queue \in AStore!Snapshots
  BY <1>1, SnapshotsAreSent DEF StoreInv
<1>6. ASSUME OneFolder, ~a.lost
      PROVE  /\ AStore!StoreMovesOnward
             /\ \A t \in StoredTasks, f \in Folders : a'.tasks[f][t] # "none" => t \in a.ids
             /\ \A f \in Folders : AStore!KeepsHistory(a'.tasks[f])
  <2>1. AStore!OnwardOfStored /\ AStore!HistoryKept
    BY <1>6 DEF StoreInv
  <2>2. AStore!OnwardOf(b.sent[1], AStore!Stored) /\ AStore!OnwardOf(b.queue, b.sent[1])
    BY <1>5, <1>6, <2>1 DEF AStore!OnwardOfStored
  <2>3. \A f \in Folders : f = a.root
    BY <1>1, <1>6 DEF OneFolder
  <2>4. \A f \in Folders, t \in StoredTasks : a'.tasks[f][t] = b.sent[1][t] /\ a.tasks[f][t] = AStore!Stored[t]
    BY <1>3, <2>3 DEF AStore!Stored
  <2>8. \A f \in Folders : AStore!KeepsHistory(a'.tasks[f])
    BY <1>3, <1>6, <2>1, <2>3 DEF AStore!HistoryKept
  <2>5. AStore!StoreMovesOnward
    BY <2>2, <2>4, <2>8 DEF AStore!StoreMovesOnward, AStore!OnwardOf, AStore!KeepsHistory
  <2>6. \A t \in StoredTasks : b.sent[1][t] # "none" => b.queue[t] # "none"
    BY <1>1, <1>5, <2>2, StagesMoveOn DEF AStore!OnwardOf, AStore!Snapshots
  <2>7. \A t \in StoredTasks, f \in Folders : b.queue[t] # "none" => t \in a.ids
    BY <2>1 DEF AStore!OnwardOfStored
  <2> QED
    BY <2>4, <2>5, <2>6, <2>7, <2>8
<1>7. a.lost => AStore!StoreMovesOnward
  BY DEF AStore!StoreMovesOnward
<1> QED
  BY <1>2, <1>3, <1>4, <1>6, <1>7

LEMMA FlushLands ==
  ASSUME StoreInv, AStore!FlushEnds
  PROVE  StoreInv' /\ (OneFolder => AStore!StoreMovesOnward)
<1>1. AStore!StoreTypeOK /\ b \in AStore!TeamMems /\ b.sent # <<>> /\ b.restoring = "restored"
      /\ b.queue \in AStore!Snapshots
  BY DEF StoreInv, AStore!StoreTypeOK, AStore!TeamMems, AStore!FlushEnds
<1>2. CASE /\ AStore!HasRoot /\ a' = [a EXCEPT !.tasks[a.root] = b.sent[1]] /\ b' = [b EXCEPT !.sent = <<>>]
  <2>1. /\ b' \in AStore!TeamMems /\ b'.restoring = "restored" /\ b'.queue = b.queue /\ b'.dirty = b.dirty
        /\ b'.sent = <<>>
    BY <1>1, <1>2 DEF AStore!TeamMems
  <2>2. /\ a' \in AStore!TeamFiles /\ a'.root = a.root /\ a'.ids = a.ids /\ a'.lost = a.lost
        /\ AStore!Stored' = b.sent[1] /\ AStore!HasRoot'
        /\ AStore!StoreMovesOnward \/ ~OneFolder
        /\ OneFolder /\ ~a.lost =>
             /\ \A t \in StoredTasks, f \in Folders : a'.tasks[f][t] # "none" => t \in a.ids
             /\ \A f \in Folders : AStore!KeepsHistory(a'.tasks[f])
    BY <1>1, <1>2, SentIsStored
  <2>3. ASSUME OneFolder, ~a.lost PROVE AStore!FlushedInOrder' /\ AStore!OnwardOfStored' /\ AStore!HistoryKept'
    <3>1. AStore!FlushedInOrder /\ AStore!OnwardOfStored /\ AStore!HistoryKept
      BY <2>3 DEF StoreInv
    <3>2. AStore!FlushedInOrder'
      BY <1>1, <2>1, <2>2, <3>1 DEF AStore!FlushedInOrder
    <3>3. AStore!OnwardOf(b.queue, b.sent[1])
      BY <1>1, <2>3, <3>1 DEF AStore!OnwardOfStored
    <3>4. \A t \in StoredTasks, f \in Folders : b.queue[t] # "none" => t \in a.ids
      BY <3>1 DEF AStore!OnwardOfStored
    <3>5. AStore!HistoryKept'
      BY <2>1, <2>2, <2>3, <3>1 DEF AStore!HistoryKept
    <3> QED
      BY <2>1, <2>2, <2>3, <3>2, <3>3, <3>4, <3>5 DEF AStore!OnwardOfStored, AStore!OnwardOf
  <2> QED
    BY <2>1, <2>2, <2>3 DEF StoreInv, AStore!StoreTypeOK
<1>3. CASE b' = [b EXCEPT !.sent = <<>>, !.dirty = TRUE] /\ a' = a
  <2>1. /\ b' \in AStore!TeamMems /\ b'.restoring = "restored" /\ b'.queue = b.queue /\ b'.dirty = TRUE
        /\ b'.sent = <<>>
    BY <1>1, <1>3 DEF AStore!TeamMems
  <2>2. AStore!FlushedInOrder => AStore!FlushedInOrder'
    BY <1>1, <1>3, <2>1 DEF AStore!FlushedInOrder, AStore!HasRoot
  <2>3. AStore!OnwardOfStored => AStore!OnwardOfStored'
    BY <1>1, <1>3, <2>1 DEF AStore!OnwardOfStored, AStore!OnwardOf, AStore!Stored
  <2> QED
    BY <1>1, <1>3, <2>1, <2>2, <2>3, FilesStay, HistoryStays DEF StoreInv, AStore!StoreTypeOK
<1> QED
  BY <1>2, <1>3 DEF AStore!FlushEnds

LEMMA StartIsClean ==
  /\ AStore!Started \in AStore!TeamMems /\ AStore!Started.restoring = "tasks" /\ AStore!Started.due = 0
  /\ AStore!Started.sent = <<>> /\ AStore!Started.queue = AStore!Empty
  /\ \A t \in StoredTasks : AStore!Empty[t] = "none"
<1>1. AStore!Empty \in AStore!Snapshots /\ \A t \in StoredTasks : AStore!Empty[t] = "none"
  BY DEF AStore!Empty, AStore!Snapshots, AStore!Stages
<1>2. AStore!Started.restoring = "tasks" /\ AStore!Started.due = 0 /\ AStore!Started.sent = <<>>
      /\ AStore!Started.queue = AStore!Empty
  BY DEF AStore!Started
<1>3. 0 \in Nat /\ <<>> \in {<<>>} \cup [1..1 -> AStore!Snapshots] /\ {} \in SUBSET StoredTasks
  OBVIOUS
<1>4. AStore!Started \in AStore!TeamMems
  <2> DEFINE nothing == <<>>
             zero == 0
  <2>1. AStore!Started = [restoring |-> "tasks", queue |-> AStore!Empty, lined |-> {}, dirty |-> FALSE,
                          due |-> zero, sent |-> nothing]
    BY DEF AStore!Started
  <2>2. zero \in Nat /\ nothing \in {<<>>} \cup [1..1 -> AStore!Snapshots]
    BY <1>3
  <2> HIDE DEF nothing, zero
  <2> QED
    BY <1>1, <2>1, <2>2 DEF AStore!TeamMems
<1> QED
  BY <1>1, <1>2, <1>4

\* Another folder is chosen, and the sidecar starts again.
LEMMA RootIsChosen ==
  ASSUME StoreInv, AStore!ChooseRoot
  PROVE  StoreInv' /\ (OneFolder => AStore!StoreMovesOnward)
<1>1. PICK f \in Folders \ {a.root} : a' = [a EXCEPT !.root = f]
  BY DEF AStore!ChooseRoot
<1>2. AStore!StoreTypeOK /\ b' = b
  BY DEF StoreInv, AStore!ChooseRoot
<1>3. a' \in AStore!TeamFiles /\ a'.tasks = a.tasks /\ a'.lost = a.lost /\ a'.ids = a.ids /\ a'.root = f
  BY <1>1, <1>2 DEF AStore!StoreTypeOK, AStore!TeamFiles
<1>4. AStore!HasRoot'
  BY <1>3, ServicesAssumption DEF AStore!HasRoot
<1>5. ASSUME OneFolder, ~a.lost PROVE AStore!FlushedInOrder' /\ AStore!OnwardOfStored' /\ AStore!HistoryKept'
  <2>1. AStore!FlushedInOrder /\ AStore!OnwardOfStored /\ AStore!HistoryKept
    BY <1>5 DEF StoreInv
  <2>2. ~AStore!HasRoot
    <3>1. a.root \in Folders \cup {NoFolder}
      BY <1>2 DEF AStore!StoreTypeOK, AStore!TeamFiles
    <3> QED
      BY <1>1, <1>5, <3>1 DEF OneFolder, AStore!HasRoot
  <2>3. b.restoring \notin {"policy", "restored"}
    BY <2>1, <2>2 DEF AStore!FlushedInOrder
  <2> QED
    BY <1>2, <1>3, <1>4, <2>1, <2>3, HistoryStays DEF AStore!FlushedInOrder, AStore!OnwardOfStored
<1> QED
  BY <1>2, <1>3, <1>5, FilesStay DEF StoreInv, AStore!StoreTypeOK

LEMMA SidecarRestarts ==
  ASSUME StoreInv, AStore!RestartSidecar
  PROVE  StoreInv' /\ (OneFolder => AStore!StoreMovesOnward)
<1>1. AStore!StoreTypeOK /\ b' = AStore!Started
  BY DEF StoreInv, AStore!RestartSidecar
<1>2. /\ b' \in AStore!TeamMems /\ b'.restoring = "tasks" /\ b'.due = 0 /\ b'.sent = <<>>
      /\ b'.queue = AStore!Empty /\ \A t \in StoredTasks : b'.queue[t] = "none"
  BY <1>1, StartIsClean
<1>3. ASSUME a' \in AStore!TeamFiles, a'.ids = a.ids, a'.lost = a.lost,
             OneFolder /\ ~a.lost =>
               /\ \A t \in StoredTasks, f \in Folders : a'.tasks[f][t] # "none" => t \in a.ids
               /\ \A f \in Folders : AStore!KeepsHistory(a'.tasks[f])
      PROVE  StoreInv'
  <2>1. AStore!FlushedInOrder'
    BY <1>2 DEF AStore!FlushedInOrder, AStore!Empty
  <2>2. OneFolder /\ ~a'.lost => AStore!OnwardOfStored'
    BY <1>2, <1>3 DEF AStore!OnwardOfStored
  <2>3. OneFolder /\ ~a'.lost => AStore!HistoryKept'
    BY <1>2, <1>3 DEF AStore!HistoryKept, AStore!KeepsHistory
  <2> QED
    BY <1>2, <1>3, <2>1, <2>2, <2>3 DEF StoreInv, AStore!StoreTypeOK
<1>4. CASE b.sent # <<>> /\ AStore!HasRoot /\ a' = [a EXCEPT !.tasks[a.root] = b.sent[1]]
  BY <1>3, <1>4, SentIsStored
<1>5. CASE a' = a
  <2>1. OneFolder /\ ~a.lost =>
          /\ \A t \in StoredTasks, f \in Folders : a.tasks[f][t] # "none" => t \in a.ids
          /\ \A f \in Folders : AStore!KeepsHistory(a.tasks[f])
    BY DEF StoreInv, AStore!OnwardOfStored, AStore!HistoryKept
  <2>2. a \in AStore!TeamFiles
    BY <1>1 DEF AStore!StoreTypeOK
  <2> QED
    BY <1>1, <1>3, <1>5, <2>1, <2>2, FilesStay
<1> QED
  BY <1>4, <1>5 DEF AStore!RestartSidecar

LEMMA StoreStep ==
  ASSUME StoreInv, [AStore!StoreNext]_AStore!storeVars
  PROVE  StoreInv' /\ (OneFolder => AStore!StoreMovesOnward)
<1>1. CASE UNCHANGED AStore!storeVars
  <2>1. a' = a /\ b' = b
    BY <1>1 DEF AStore!storeVars
  <2>2. OneFolder => AStore!StoreMovesOnward
    BY <2>1, FilesStay
  <2> QED
    BY <2>1, <2>2, HistoryStays DEF StoreInv, AStore!StoreTypeOK, AStore!FlushedInOrder, AStore!OnwardOfStored,
                      AStore!Stored, AStore!HasRoot, AStore!OnwardOf
<1> QED
  BY <1>1, TasksWork, RestoreKeeps, FlushKeeps, FlushLands, RootIsChosen, SidecarRestarts DEF AStore!StoreNext

LEMMA StoreStarts ==
  ASSUME AStore!StoreInit
  PROVE  StoreInv
<1>1. AStore!Empty \in AStore!Snapshots /\ \A t \in StoredTasks : AStore!Empty[t] = "none"
  BY DEF AStore!Empty, AStore!Snapshots, AStore!Stages
<1>2. /\ a \in [tasks : {[f \in Folders |-> AStore!Empty]}, root : Folders \cup {NoFolder}, ids : {{}}, lost : {FALSE}]
      /\ b = AStore!Started
  BY DEF AStore!StoreInit
<1>3. a \in AStore!TeamFiles /\ \A f \in Folders : a.tasks[f] = AStore!Empty
  <2> DEFINE all == [f \in Folders |-> AStore!Empty]
  <2>1. all \in [Folders -> AStore!Snapshots] /\ \A f \in Folders : all[f] = AStore!Empty
    BY <1>1
  <2>2. a \in [tasks : {all}, root : Folders \cup {NoFolder}, ids : {{}}, lost : {FALSE}]
    BY <1>2
  <2> HIDE DEF all
  <2> QED
    BY <2>1, <2>2 DEF AStore!TeamFiles
<1>4. AStore!FlushedInOrder
  BY <1>2, StartIsClean DEF AStore!FlushedInOrder
<1>5. AStore!OnwardOfStored
  BY <1>1, <1>2, <1>3, StartIsClean DEF AStore!OnwardOfStored
<1>6. AStore!HistoryKept
  BY <1>1, <1>2, <1>3, StartIsClean DEF AStore!HistoryKept, AStore!KeepsHistory
<1> QED
  BY <1>2, <1>3, <1>4, <1>5, <1>6, StartIsClean DEF StoreInv, AStore!StoreTypeOK

LEMMA FlushedIsStored ==
  ASSUME StoreInv, OneFolder
  PROVE  AStore!CleanQueueIsStored
BY DEF StoreInv, AStore!CleanQueueIsStored, AStore!FlushedInOrder

-----------------------------------------------------------------------------
(* The routines and their file.                                            *)

\* What the routines keep: the firings counted and the last write on its way.
RoutinesInv ==
  /\ ATimer!RoutinesTypeOK /\ ATimer!TurnsAreCounted /\ ATimer!LastIsNow
  /\ \A r \in RoutineIds : a.table[r] <= a.made

\* What may stand on the wire to the host.
Wired == {ATimer!Read} \cup ATimer!Writes

LEMMA CardinalityOfTimer ==
  /\ \A S : ATimer!Cardinality(S) = Cardinality(S)
  /\ \A S : ATimer!IsFiniteSet(S) <=> IsFiniteSet(S)
<1>1. \A S : ATimer!Cardinality(S) = Cardinality(S)
  BY DEF ATimer!Cardinality, Cardinality
<1>2. \A S : ATimer!IsFiniteSet(S) <=> IsFiniteSet(S)
  BY DEF ATimer!IsFiniteSet, IsFiniteSet
<1> QED
  BY <1>1, <1>2

LEMMA RoutineBounds ==
  /\ MaxMinute \in Nat \ {0} /\ Hour \in Nat \ {0} /\ MaxPerHour \in Nat /\ MaxObjects \in Nat
  /\ MaxWrites \in Nat
BY Bounds

LEMMA EntriesTyped ==
  /\ \A t \in ATimer!Triggers, o \in ATimer!Outcomes : [trigger |-> t, last |-> o] \in ATimer!Entries
  /\ ATimer!NoEntry \notin ATimer!Entries
  /\ \A e \in ATimer!Entries \cup {ATimer!NoEntry}, t \in ATimer!Triggers :
       [e EXCEPT !.trigger = t] \in ATimer!Entries
  /\ \A e \in ATimer!Entries, o \in ATimer!Outcomes : [e EXCEPT !.last = o] \in ATimer!Entries
  /\ "disabled" \in ATimer!Triggers /\ "cron" \in ATimer!Triggers
  /\ {"none", "ended", "skipped"} \subseteq ATimer!Outcomes
BY DEF ATimer!Entries, ATimer!NoEntry, ATimer!Triggers, ATimer!Outcomes

\* A write is not a read.
LEMMA WritesAreNoReads ==
  \A w \in ATimer!Writes : w # ATimer!Read
<1>1. DOMAIN ATimer!Read = {}
  BY DEF ATimer!Read
<1>2. ASSUME NEW w \in ATimer!Writes
      PROVE  "blind" \in DOMAIN w
  BY DEF ATimer!Writes
<1> QED
  BY <1>1, <1>2

LEMMA TableNow ==
  ASSUME NEW s \in ATimer!Schedulers
  PROVE  /\ ATimer!RoutinesNow(s) \in ATimer!Tables
         /\ \A r \in RoutineIds :
              ATimer!RoutinesNow(s)[r] = IF s.table[r] = 0 THEN ATimer!NoEntry ELSE s.object[s.table[r]]
<1>1. s.table \in [RoutineIds -> ATimer!Objects \cup {0}] /\ s.object \in [ATimer!Objects -> ATimer!Entries]
  BY DEF ATimer!Schedulers
<1>2. \A r \in RoutineIds : s.table[r] # 0 => s.object[s.table[r]] \in ATimer!Entries
  BY <1>1
<1> QED
  BY <1>2 DEF ATimer!RoutinesNow, ATimer!Tables

\* A write is sent: it is the last on the wire.
LEMMA SentIsLast ==
  ASSUME ATimer!RoutinesTypeOK, NEW s \in ATimer!Schedulers, ATimer!PersistRoutines(s),
         NEW w, w = [table |-> ATimer!RoutinesNow(s), blind |-> ~s.restored]
  PROVE  /\ b' = [b EXCEPT !.wire = Append(b.wire, w)] /\ b' \in ATimer!Disks
         /\ w \in ATimer!Writes /\ w.table = ATimer!RoutinesNow(s) /\ w.blind = ~s.restored
         /\ b'.wire = Append(b.wire, w) /\ b'.now = b.now /\ b'.root = b.root /\ b'.file = b.file
         /\ b'.stale = b.stale /\ b'.started = b.started
<1>1. b \in ATimer!Disks /\ b.wire \in Seq(Wired)
  BY DEF ATimer!RoutinesTypeOK, ATimer!Disks, Wired
<1>2. s.restored \in BOOLEAN /\ ATimer!RoutinesNow(s) \in ATimer!Tables
  BY TableNow DEF ATimer!Schedulers
<1>3. w \in ATimer!Writes /\ w.table = ATimer!RoutinesNow(s) /\ w.blind = ~s.restored
  BY <1>2 DEF ATimer!Writes
<1>4. b' = [b EXCEPT !.wire = Append(b.wire, w)]
  BY DEF ATimer!PersistRoutines
<1> DEFINE wire == Append(b.wire, w)
<1>5. wire \in Seq(Wired)
  BY <1>1, <1>3 DEF Wired
<1> HIDE DEF wire
<1>6. b' = [b EXCEPT !.wire = wire]
  BY <1>4 DEF wire
<1>7. b' \in ATimer!Disks /\ b'.wire = wire /\ b'.now = b.now /\ b'.root = b.root /\ b'.file = b.file
      /\ b'.stale = b.stale /\ b'.started = b.started
  BY <1>1, <1>5, <1>6 DEF ATimer!Disks, Wired
<1> QED
  BY <1>3, <1>4, <1>7 DEF wire

\* What the wire holds after one more is sent.
LEMMA WireGrows ==
  ASSUME NEW wire \in Seq(Wired), NEW w \in Wired, NEW longer, longer = Append(wire, w)
  PROVE  /\ longer \in Seq(Wired) /\ Len(longer) = Len(wire) + 1 /\ longer # <<>>
         /\ DOMAIN longer = DOMAIN wire \cup {Len(longer)} /\ Len(longer) \notin DOMAIN wire
         /\ longer[Len(longer)] = w
         /\ \A i \in DOMAIN wire : longer[i] = wire[i]
<1>1. longer \in Seq(Wired) /\ Len(longer) = Len(wire) + 1 /\ Len(wire) \in Nat
  OBVIOUS
<1>2. DOMAIN longer = 1..Len(longer) /\ DOMAIN wire = 1..Len(wire)
  BY <1>1
<1>3. DOMAIN longer = DOMAIN wire \cup {Len(longer)} /\ Len(longer) \notin DOMAIN wire
  BY <1>1, <1>2
<1>4. longer[Len(longer)] = w /\ \A i \in DOMAIN wire : longer[i] = wire[i]
  BY <1>1, <1>2
<1>5. longer # <<>>
  BY <1>1
<1> QED
  BY <1>1, <1>3, <1>4, <1>5

\* What it holds after its first is taken.
LEMMA WireShrinks ==
  ASSUME NEW wire \in Seq(Wired), wire # <<>>, NEW rest, rest = Tail(wire)
  PROVE  /\ rest \in Seq(Wired) /\ Head(wire) = wire[1] /\ wire[1] \in Wired /\ 1 \in DOMAIN wire
         /\ \A i \in DOMAIN rest : i + 1 \in DOMAIN wire /\ rest[i] = wire[i + 1] /\ i + 1 # 1 /\ i \in Nat
         /\ \A i \in DOMAIN wire : i = 1 \/ \E j \in DOMAIN rest : rest[j] = wire[i]
         /\ rest # <<>> => rest[Len(rest)] = wire[Len(wire)] /\ Len(wire) \in DOMAIN wire /\ Len(wire) # 1
         /\ rest = <<>> => DOMAIN wire = {1} /\ wire[Len(wire)] = wire[1]
<1>1. rest \in Seq(Wired) /\ Len(wire) \in Nat \ {0} /\ Len(rest) = Len(wire) - 1
  OBVIOUS
<1>2. DOMAIN rest = 1..Len(rest) /\ DOMAIN wire = 1..Len(wire)
  BY <1>1
<1>3. \A i \in DOMAIN rest : i + 1 \in DOMAIN wire /\ rest[i] = wire[i + 1] /\ i + 1 # 1 /\ i \in Nat
  BY <1>1, <1>2
<1>4. ASSUME NEW i \in DOMAIN wire, i # 1
      PROVE  \E j \in DOMAIN rest : rest[j] = wire[i]
  <2>1. i - 1 \in DOMAIN rest /\ (i - 1) + 1 = i
    BY <1>1, <1>2, <1>4
  <2> QED
    BY <1>3, <2>1
<1>5. rest # <<>> => rest[Len(rest)] = wire[Len(wire)] /\ Len(wire) \in DOMAIN wire /\ Len(wire) # 1
  BY <1>1, <1>2
<1>6. rest = <<>> => DOMAIN wire = {1} /\ wire[Len(wire)] = wire[1]
  <2>1. rest = <<>> => Len(rest) = 0
    OBVIOUS
  <2>2. rest = <<>> => Len(wire) = 1
    BY <1>1, <2>1
  <2>3. 1..1 = {1}
    OBVIOUS
  <2> QED
    BY <1>2, <2>2, <2>3
<1>7. Head(wire) = wire[1] /\ 1 \in DOMAIN wire /\ wire[1] \in Wired
  BY <1>1, <1>2
<1> QED
  BY <1>1, <1>3, <1>4, <1>5, <1>6, <1>7

\* Whatever is sent last tells what memory has.
LEMMA PersistKeeps ==
  ASSUME RoutinesInv, a' \in ATimer!Schedulers, a'.restored = a.restored, ATimer!PersistRoutines(a')
  PROVE  /\ b' \in ATimer!Disks /\ ATimer!LastIsNow'
         /\ b'.now = b.now /\ b'.root = b.root /\ b'.started = b.started
<1> DEFINE w == [table |-> ATimer!RoutinesNow(a'), blind |-> ~a'.restored]
<1>1. ATimer!RoutinesTypeOK /\ b.wire \in Seq(Wired) /\ ATimer!LastIsNow
  BY DEF RoutinesInv, ATimer!RoutinesTypeOK, ATimer!Disks, Wired
<1>2. /\ b' \in ATimer!Disks /\ w \in ATimer!Writes /\ w.table = ATimer!RoutinesNow(a') /\ w.blind = ~a'.restored
      /\ b'.wire = Append(b.wire, w) /\ b'.now = b.now /\ b'.root = b.root
      /\ b'.stale = b.stale /\ b'.started = b.started
  BY <1>1, SentIsLast
<1> HIDE DEF w
<1>3. w \in Wired /\ w # ATimer!Read
  BY <1>2, WritesAreNoReads DEF Wired
<1>4. /\ b'.wire # <<>> /\ DOMAIN b'.wire = DOMAIN b.wire \cup {Len(b'.wire)} /\ b'.wire[Len(b'.wire)] = w
      /\ \A i \in DOMAIN b.wire : b'.wire[i] = b.wire[i]
  BY <1>1, <1>2, <1>3, WireGrows
<1>5. \A i, j \in DOMAIN b'.wire : b'.wire[i] = ATimer!Read /\ b'.wire[j] = ATimer!Read => i = j
  BY <1>1, <1>3, <1>4 DEF ATimer!LastIsNow
<1>6. a'.restored => ~ATimer!Reading'
  BY <1>1, <1>3, <1>4 DEF ATimer!LastIsNow, ATimer!Reading
<1>7. ~a'.restored => \A i \in DOMAIN b'.wire : b'.wire[i] # ATimer!Read => b'.wire[i].blind
  BY <1>1, <1>2, <1>4 DEF ATimer!LastIsNow
<1>8. ~a'.restored => ATimer!BlindWrites'
  BY <1>3, <1>4 DEF ATimer!BlindWrites
<1>9. a'.restored => b'.wire # <<>> /\ b'.wire[Len(b'.wire)].table = ATimer!RoutinesNow(a')
  BY <1>2, <1>4
<1>10. ATimer!LastIsNow'
  BY <1>5, <1>6, <1>7, <1>8, <1>9 DEF ATimer!LastIsNow
<1> QED
  BY <1>2, <1>10

\* The window slides and shrinks, but what is within it was counted.
LEMMA WindowsAreCounted ==
  ASSUME ATimer!RoutinesTypeOK, ATimer!TurnsAreCounted, NEW r \in RoutineIds
  PROVE  /\ ATimer!Window(r) \subseteq a.recent[r] /\ b.started[r] \subseteq ATimer!Window(r)
         /\ IsFiniteSet(ATimer!Window(r)) /\ Cardinality(ATimer!Window(r)) \in Nat
         /\ Cardinality(ATimer!Window(r)) <= MaxPerHour
         /\ IsFiniteSet(b.started[r]) /\ Cardinality(b.started[r]) <= MaxPerHour
<1>1. IsFiniteSet(a.recent[r]) /\ Cardinality(a.recent[r]) <= MaxPerHour /\ b.started[r] \subseteq ATimer!Window(r)
  BY CardinalityOfTimer DEF ATimer!TurnsAreCounted
<1>2. ATimer!Window(r) \subseteq a.recent[r]
  BY DEF ATimer!Window, ATimer!Within
<1>3. /\ IsFiniteSet(ATimer!Window(r)) /\ Cardinality(ATimer!Window(r)) <= Cardinality(a.recent[r])
  BY <1>1, <1>2, FS_Subset
<1>4. IsFiniteSet(b.started[r]) /\ Cardinality(b.started[r]) <= Cardinality(ATimer!Window(r))
  BY <1>1, <1>3, FS_Subset
<1>5. /\ Cardinality(ATimer!Window(r)) \in Nat /\ Cardinality(b.started[r]) \in Nat
      /\ Cardinality(a.recent[r]) \in Nat /\ MaxPerHour \in Nat
  BY <1>1, <1>3, <1>4, FS_CardinalityType, RoutineBounds
<1> QED
  BY <1>1, <1>2, <1>3, <1>4, <1>5

\* The counting of the turns is not touched.
LEMMA CountStays ==
  ASSUME ATimer!TurnsAreCounted, a'.recent = a.recent, b'.now = b.now, b'.started = b.started
  PROVE  ATimer!TurnsAreCounted'
<1>1. \A r \in RoutineIds : ATimer!Window(r)' = ATimer!Window(r)
  BY DEF ATimer!Window, ATimer!Within
<1> QED
  BY <1>1 DEF ATimer!TurnsAreCounted

\* The tables and the file stay: memory still tells the same.
LEMMA NowStays ==
  ASSUME ATimer!LastIsNow, a'.table = a.table, a'.object = a.object, a'.restored = a.restored,
         b'.file = b.file, b'.stale = b.stale, b'.wire = b.wire, a'.auditing = 0 => a.auditing = 0
  PROVE  ATimer!LastIsNow'
<1>1. ATimer!RoutinesNow(a)' = ATimer!RoutinesNow(a)
  BY DEF ATimer!RoutinesNow
<1>2. ATimer!Reading' = ATimer!Reading /\ ATimer!BlindWrites' = ATimer!BlindWrites
  BY DEF ATimer!Reading, ATimer!BlindWrites
<1> QED
  BY <1>1, <1>2 DEF ATimer!LastIsNow

\* While an audit is to be written, or the file is stale, nothing is said of the last write.
LEMMA NowIsOpen ==
  ASSUME ATimer!LastIsNow, a'.auditing # 0, a'.restored = a.restored, b'.wire = b.wire
  PROVE  ATimer!LastIsNow'
<1>1. ATimer!Reading' = ATimer!Reading
  BY DEF ATimer!Reading
<1> QED
  BY <1>1 DEF ATimer!LastIsNow

\* A new object for one routine.
LEMMA MadeIsNew ==
  ASSUME RoutinesInv, NEW r \in RoutineIds, NEW e \in ATimer!Entries, a.made < MaxObjects,
         a' = ATimer!Made(a, r, e)
  PROVE  /\ a' \in ATimer!Schedulers /\ a'.recent = a.recent /\ a'.restored = a.restored
         /\ a'.auditing = a.auditing /\ a'.turns = a.turns
         /\ \A q \in RoutineIds : a'.table[q] <= a'.made
         /\ a'.table = [a.table EXCEPT ![r] = a.made + 1]
         /\ \A q \in RoutineIds \ {r} : ATimer!RoutinesNow(a)'[q] = ATimer!RoutinesNow(a)[q]
         /\ ATimer!RoutinesNow(a)'[r] = e
<1> DEFINE n == a.made + 1
           table == [a.table EXCEPT ![r] = n]
           object == [a.object EXCEPT ![n] = e]
<1>1. /\ a \in ATimer!Schedulers /\ a.made \in ATimer!Objects \cup {0}
      /\ a.table \in [RoutineIds -> ATimer!Objects \cup {0}] /\ a.object \in [ATimer!Objects -> ATimer!Entries]
  BY DEF RoutinesInv, ATimer!RoutinesTypeOK, ATimer!Schedulers
<1>2. n \in ATimer!Objects /\ n \in Nat /\ n # 0 /\ a.made < n /\ a.made \in Nat
  BY <1>1, RoutineBounds DEF ATimer!Objects
<1>3. a' = [a EXCEPT !.made = n, !.table = table, !.object = object]
  BY <1>1 DEF ATimer!Made, ATimer!Schedulers
<1>4. \A q \in RoutineIds : a.table[q] \in Nat /\ a.table[q] <= a.made /\ a.table[q] # n
  BY <1>1, <1>2, RoutineBounds DEF RoutinesInv, ATimer!Objects
<1> HIDE DEF n
<1>5. /\ table \in [RoutineIds -> ATimer!Objects \cup {0}] /\ object \in [ATimer!Objects -> ATimer!Entries]
      /\ table[r] = n /\ object[n] = e /\ \A q \in RoutineIds \ {r} : table[q] = a.table[q]
      /\ \A o \in ATimer!Objects \ {n} : object[o] = a.object[o]
  BY <1>1, <1>2
<1>6. \A q \in RoutineIds : table[q] <= n
  BY <1>2, <1>4, <1>5
<1> HIDE DEF table, object
<1>7. /\ a' \in ATimer!Schedulers /\ a'.recent = a.recent /\ a'.restored = a.restored
      /\ a'.auditing = a.auditing /\ a'.turns = a.turns
      /\ a'.made = n /\ a'.table = table /\ a'.object = object
  BY <1>1, <1>2, <1>3, <1>5 DEF ATimer!Schedulers
<1>8. \A q \in RoutineIds : ATimer!RoutinesNow(a')[q] = IF table[q] = 0 THEN ATimer!NoEntry ELSE object[table[q]]
  BY <1>7, TableNow
<1>9. \A q \in RoutineIds : ATimer!RoutinesNow(a)[q] = IF a.table[q] = 0 THEN ATimer!NoEntry ELSE a.object[a.table[q]]
  BY <1>1, TableNow
<1>10. ASSUME NEW q \in RoutineIds \ {r}
       PROVE  ATimer!RoutinesNow(a')[q] = ATimer!RoutinesNow(a)[q]
  <2>1. table[q] = a.table[q] /\ a.table[q] # n /\ a.table[q] \in ATimer!Objects \cup {0}
    BY <1>1, <1>4, <1>5
  <2> QED
    BY <1>5, <1>8, <1>9, <2>1
<1>11. ATimer!RoutinesNow(a')[r] = e
  BY <1>2, <1>5, <1>8
<1>12. ATimer!RoutinesNow(a)' = ATimer!RoutinesNow(a')
  BY DEF ATimer!RoutinesNow
<1>13. a'.table = [a.table EXCEPT ![r] = a.made + 1]
  BY <1>7 DEF table, n
<1> QED
  BY <1>6, <1>7, <1>10, <1>11, <1>12, <1>13

LEMMA RoutinePut ==
  ASSUME RoutinesInv, NEW r \in RoutineIds, NEW trigger \in ATimer!Triggers, ATimer!PutRoutine(r, trigger)
  PROVE  RoutinesInv'
<1> DEFINE e == [ATimer!RoutinesNow(a)[r] EXCEPT !.trigger = trigger]
<1>1. a \in ATimer!Schedulers /\ ATimer!RoutinesNow(a)[r] \in ATimer!Entries \cup {ATimer!NoEntry}
  BY TableNow DEF RoutinesInv, ATimer!RoutinesTypeOK, ATimer!Tables
<1>2. e \in ATimer!Entries
  BY <1>1, EntriesTyped
<1>3. a.made < MaxObjects /\ a' = ATimer!Made(a, r, e) /\ ATimer!PersistRoutines(a')
  BY DEF ATimer!PutRoutine
<1> HIDE DEF e
<1>4. /\ a' \in ATimer!Schedulers /\ a'.recent = a.recent /\ a'.restored = a.restored
      /\ \A q \in RoutineIds : a'.table[q] <= a'.made
  BY <1>2, <1>3, MadeIsNew
<1>5. /\ b' \in ATimer!Disks /\ ATimer!LastIsNow'
      /\ b'.now = b.now /\ b'.root = b.root /\ b'.started = b.started
  BY <1>3, <1>4, PersistKeeps
<1>6. ATimer!TurnsAreCounted'
  BY <1>4, <1>5, CountStays DEF RoutinesInv
<1> QED
  BY <1>4, <1>5, <1>6 DEF RoutinesInv, ATimer!RoutinesTypeOK

LEMMA RoutineGoes ==
  ASSUME RoutinesInv, NEW r \in RoutineIds, ATimer!Delete(r)
  PROVE  RoutinesInv'
<1> DEFINE table == [a.table EXCEPT ![r] = 0]
<1>1. a \in ATimer!Schedulers /\ a.table \in [RoutineIds -> ATimer!Objects \cup {0}] /\ a.made \in ATimer!Objects \cup {0}
  BY DEF RoutinesInv, ATimer!RoutinesTypeOK, ATimer!Schedulers
<1>2. a' = [a EXCEPT !.table = table] /\ ATimer!PersistRoutines(a')
  BY <1>1 DEF ATimer!Delete, ATimer!Schedulers
<1>3. 0 <= a.made
  BY <1>1, RoutineBounds DEF ATimer!Objects
<1>4. table \in [RoutineIds -> ATimer!Objects \cup {0}] /\ \A q \in RoutineIds : table[q] <= a.made
  BY <1>1, <1>3 DEF RoutinesInv
<1> HIDE DEF table
<1>5. /\ a' \in ATimer!Schedulers /\ a'.recent = a.recent /\ a'.restored = a.restored
      /\ \A q \in RoutineIds : a'.table[q] <= a'.made
  BY <1>1, <1>2, <1>4 DEF ATimer!Schedulers
<1>6. /\ b' \in ATimer!Disks /\ ATimer!LastIsNow'
      /\ b'.now = b.now /\ b'.root = b.root /\ b'.started = b.started
  BY <1>2, <1>5, PersistKeeps
<1>7. ATimer!TurnsAreCounted'
  BY <1>5, <1>6, CountStays DEF RoutinesInv
<1> QED
  BY <1>5, <1>6, <1>7 DEF RoutinesInv, ATimer!RoutinesTypeOK

LEMMA FireIsPersisted ==
  ASSUME RoutinesInv, ATimer!Audited
  PROVE  RoutinesInv'
<1> DEFINE n == a.auditing - 1
<1>1. a \in ATimer!Schedulers /\ a.auditing \in 0..MaxWrites
  BY DEF RoutinesInv, ATimer!RoutinesTypeOK, ATimer!Schedulers
<1>2. a' = [a EXCEPT !.auditing = n] /\ ATimer!PersistRoutines(a') /\ a.auditing > 0
  BY <1>1 DEF ATimer!Audited, ATimer!Schedulers
<1>3. n \in 0..MaxWrites
  BY <1>1, <1>2, RoutineBounds
<1> HIDE DEF n
<1>4. /\ a' \in ATimer!Schedulers /\ a'.recent = a.recent /\ a'.restored = a.restored
      /\ a'.table = a.table /\ a'.made = a.made
  BY <1>1, <1>2, <1>3 DEF ATimer!Schedulers
<1>5. /\ b' \in ATimer!Disks /\ ATimer!LastIsNow'
      /\ b'.now = b.now /\ b'.root = b.root /\ b'.started = b.started
  BY <1>2, <1>4, PersistKeeps
<1>6. ATimer!TurnsAreCounted'
  BY <1>4, <1>5, CountStays DEF RoutinesInv
<1> QED
  BY <1>4, <1>5, <1>6 DEF RoutinesInv, ATimer!RoutinesTypeOK

\* A firing is counted, and its turn begins only if it is one of those allowed.
LEMMA FiringsCounted ==
  ASSUME RoutinesInv, NEW r \in RoutineIds
  PROVE  /\ ATimer!Counted(r) \in SUBSET ATimer!Firings /\ ATimer!Firing(r) \in ATimer!Firings
         /\ IsFiniteSet(ATimer!Counted(r)) /\ Cardinality(ATimer!Counted(r)) <= MaxPerHour
         /\ ATimer!Window(r) \subseteq ATimer!Counted(r)
         /\ ATimer!Allowed(r) => ATimer!Firing(r) \in ATimer!Counted(r)
         /\ \A f \in ATimer!Counted(r) : b.now - f[1] < Hour
<1>1. ATimer!RoutinesTypeOK /\ ATimer!TurnsAreCounted /\ a \in ATimer!Schedulers /\ b.now \in 1..MaxMinute
  BY DEF RoutinesInv, ATimer!RoutinesTypeOK, ATimer!Disks
<1>2. a.recent[r] \in SUBSET ATimer!Firings
  BY <1>1 DEF ATimer!Schedulers
<1>3. /\ ATimer!Window(r) \subseteq a.recent[r] /\ IsFiniteSet(ATimer!Window(r))
      /\ Cardinality(ATimer!Window(r)) \in Nat /\ Cardinality(ATimer!Window(r)) <= MaxPerHour
  BY <1>1, WindowsAreCounted
<1>4. ATimer!Cardinality(ATimer!Window(r)) = Cardinality(ATimer!Window(r))
  BY CardinalityOfTimer
<1>5. ATimer!Firing(r) \in ATimer!Firings /\ ATimer!Firing(r)[1] = b.now
  BY <1>1, <1>3, <1>4 DEF ATimer!Firing, ATimer!Firings
<1>6. ATimer!Counted(r) \in SUBSET ATimer!Firings /\ ATimer!Window(r) \subseteq ATimer!Counted(r)
  BY <1>2, <1>3, <1>5 DEF ATimer!Counted
<1>7. ATimer!Allowed(r) => Cardinality(ATimer!Window(r)) < MaxPerHour
  BY <1>4 DEF ATimer!Allowed
<1>8. IsFiniteSet(ATimer!Counted(r)) /\ Cardinality(ATimer!Counted(r)) <= MaxPerHour
  <2>1. CASE ~ATimer!Allowed(r)
    BY <1>3, <2>1 DEF ATimer!Counted
  <2>2. CASE ATimer!Allowed(r)
    <3>1. ATimer!Counted(r) = ATimer!Window(r) \cup {ATimer!Firing(r)}
      BY <2>2 DEF ATimer!Counted
    <3>2. /\ IsFiniteSet(ATimer!Window(r) \cup {ATimer!Firing(r)})
          /\ \/ Cardinality(ATimer!Window(r) \cup {ATimer!Firing(r)}) = Cardinality(ATimer!Window(r))
             \/ Cardinality(ATimer!Window(r) \cup {ATimer!Firing(r)}) = Cardinality(ATimer!Window(r)) + 1
      BY <1>3, FS_AddElement
    <3> QED
      BY <1>3, <1>7, <2>2, <3>1, <3>2, RoutineBounds
  <2> QED
    BY <2>1, <2>2
<1>9. ATimer!Allowed(r) => ATimer!Firing(r) \in ATimer!Counted(r)
  BY DEF ATimer!Counted
<1>10. \A f \in ATimer!Window(r) : b.now - f[1] < Hour
  BY DEF ATimer!Window, ATimer!Within
<1>11. b.now - ATimer!Firing(r)[1] < Hour
  <2>1. b.now - b.now = 0 /\ 0 < Hour
    BY <1>1, RoutineBounds
  <2> QED
    BY <1>5, <2>1
<1>12. \A f \in ATimer!Counted(r) : b.now - f[1] < Hour
  BY <1>10, <1>11 DEF ATimer!Counted
<1> QED
  BY <1>5, <1>6, <1>8, <1>9, <1>12

LEMMA CountGrows ==
  ASSUME RoutinesInv, NEW r \in RoutineIds, b'.now = b.now,
         a'.recent = [a.recent EXCEPT ![r] = ATimer!Counted(r)],
         \/ b'.started = b.started
         \/ ATimer!Allowed(r) /\ b'.started = [b.started EXCEPT ![r] = @ \cup {ATimer!Firing(r)}]
  PROVE  ATimer!TurnsAreCounted'
<1>0. ATimer!RoutinesTypeOK /\ ATimer!TurnsAreCounted
  BY DEF RoutinesInv
<1>1. a.recent \in [RoutineIds -> SUBSET ATimer!Firings] /\ b.started \in [RoutineIds -> SUBSET ATimer!Firings]
  BY <1>0 DEF ATimer!RoutinesTypeOK, ATimer!Schedulers, ATimer!Disks
<1>2. ASSUME NEW q \in RoutineIds
      PROVE  /\ IsFiniteSet(a'.recent[q]) /\ Cardinality(a'.recent[q]) <= MaxPerHour
             /\ b'.started[q] \subseteq ATimer!Within(a'.recent[q], b'.now)
  <2>1. CASE q # r
    <3>1. a'.recent[q] = a.recent[q] /\ b'.started[q] = b.started[q]
      BY <1>1, <2>1
    <3> QED
      BY <1>0, <3>1, CardinalityOfTimer DEF ATimer!TurnsAreCounted, ATimer!Window
  <2>2. CASE q = r
    <3>1. a'.recent[q] = ATimer!Counted(r)
      BY <1>1, <2>2
    <3>2. ATimer!Within(a'.recent[q], b'.now) = ATimer!Counted(r)
      BY <3>1, FiringsCounted DEF ATimer!Within
    <3>3. b.started[r] \subseteq ATimer!Counted(r)
      BY <1>0, FiringsCounted, WindowsAreCounted
    <3>4. b'.started[q] \subseteq ATimer!Counted(r)
      BY <1>1, <2>2, <3>3, FiringsCounted
    <3> QED
      BY <3>1, <3>2, <3>4, FiringsCounted
  <2> QED
    BY <2>1, <2>2
<1>3. \A q \in RoutineIds : ATimer!Window(q)' = ATimer!Within(a'.recent[q], b'.now)
  BY DEF ATimer!Window, ATimer!Within
<1> QED
  BY <1>2, <1>3, CardinalityOfTimer DEF ATimer!TurnsAreCounted

\* The outcome of an object is marked.
LEMMA MarkedTyped ==
  ASSUME NEW s \in ATimer!Schedulers, NEW o \in ATimer!Objects, NEW outcome \in ATimer!Outcomes,
         s.auditing < MaxWrites, NEW t, t = ATimer!Marked(s, o, outcome)
  PROVE  /\ t \in ATimer!Schedulers /\ t.auditing # 0 /\ t.restored = s.restored /\ t.recent = s.recent
         /\ t.table = s.table /\ t.made = s.made
<1> DEFINE n == s.auditing + 1
           e == [s.object[o] EXCEPT !.last = outcome]
           object == [s.object EXCEPT ![o] = e]
<1>1. s.object \in [ATimer!Objects -> ATimer!Entries] /\ s.auditing \in 0..MaxWrites
  BY DEF ATimer!Schedulers
<1>2. n \in 0..MaxWrites /\ n # 0
  BY <1>1, RoutineBounds
<1>3. e \in ATimer!Entries
  BY <1>1, EntriesTyped
<1>4. object \in [ATimer!Objects -> ATimer!Entries]
  BY <1>1, <1>3
<1>5. t = [s EXCEPT !.object = object, !.auditing = n]
  BY <1>1 DEF ATimer!Marked, ATimer!Schedulers
<1> HIDE DEF n, object
<1> QED
  BY <1>2, <1>4, <1>5 DEF ATimer!Schedulers

LEMMA RoutineFires ==
  ASSUME RoutinesInv, NEW r \in RoutineIds, a.table[r] # 0, NEW s \in ATimer!Schedulers,
         \E minutes \in [RoutineIds -> 0..MaxMinute] : s = [a EXCEPT !.lastMinute = minutes],
         ATimer!Fire(r, s)
  PROVE  RoutinesInv'
<1> DEFINE o == s.table[r]
           recent == [a.recent EXCEPT ![r] = ATimer!Counted(r)]
           counted == [s EXCEPT !.recent = recent]
<1>0. ATimer!RoutinesTypeOK /\ ATimer!TurnsAreCounted /\ a \in ATimer!Schedulers /\ b \in ATimer!Disks
  BY DEF RoutinesInv, ATimer!RoutinesTypeOK
<1>1. /\ s.restored = a.restored /\ s.table = a.table /\ s.made = a.made /\ s.object = a.object
      /\ s.recent = a.recent /\ s.turns = a.turns /\ s.auditing = a.auditing
  BY <1>0 DEF ATimer!Schedulers
<1>2. o \in ATimer!Objects
  BY <1>0, <1>1 DEF ATimer!Schedulers
<1>3. recent \in [RoutineIds -> SUBSET ATimer!Firings]
  <2>1. a.recent \in [RoutineIds -> SUBSET ATimer!Firings]
    BY <1>0 DEF ATimer!Schedulers
  <2> QED
    BY <2>1, FiringsCounted
<1>4. counted = [s EXCEPT !.recent[r] = ATimer!Counted(r)]
  BY <1>1 DEF ATimer!Schedulers
<1> HIDE DEF recent
<1>5. /\ counted \in ATimer!Schedulers /\ counted.recent = recent /\ counted.restored = a.restored
      /\ counted.table = a.table /\ counted.made = a.made /\ counted.object = a.object
      /\ counted.turns = a.turns /\ counted.auditing = a.auditing
  BY <1>1, <1>3 DEF ATimer!Schedulers
<1> HIDE DEF counted, o
<1>6. /\ a.auditing < MaxWrites
      /\ \/ a' = ATimer!Marked(counted, o, "skipped") /\ b' = b
         \/ /\ ATimer!Allowed(r) /\ a' = [counted EXCEPT !.turns = @ \cup {o}]
            /\ b' = [b EXCEPT !.started[r] = @ \cup {ATimer!Firing(r)}]
  BY <1>1, <1>4 DEF ATimer!Fire, o
<1>7. CASE a' = ATimer!Marked(counted, o, "skipped") /\ b' = b
  <2>1. "skipped" \in ATimer!Outcomes
    BY EntriesTyped
  <2>2. /\ a' \in ATimer!Schedulers /\ a'.auditing # 0 /\ a'.restored = a.restored /\ a'.recent = recent
        /\ a'.table = a.table /\ a'.made = a.made
    BY <1>2, <1>5, <1>6, <1>7, <2>1, MarkedTyped
  <2>3. ATimer!TurnsAreCounted'
    BY <1>7, <2>2, CountGrows DEF recent
  <2>4. ATimer!LastIsNow'
    BY <1>7, <2>2, NowIsOpen DEF RoutinesInv
  <2> QED
    BY <1>0, <1>7, <2>2, <2>3, <2>4 DEF RoutinesInv, ATimer!RoutinesTypeOK
<1>8. CASE /\ ATimer!Allowed(r) /\ a' = [counted EXCEPT !.turns = @ \cup {o}]
           /\ b' = [b EXCEPT !.started[r] = @ \cup {ATimer!Firing(r)}]
  <2> DEFINE started == [b.started EXCEPT ![r] = @ \cup {ATimer!Firing(r)}]
             turns == a.turns \cup {o}
  <2>1. started \in [RoutineIds -> SUBSET ATimer!Firings]
    <3>1. b.started \in [RoutineIds -> SUBSET ATimer!Firings]
      BY <1>0 DEF ATimer!Disks
    <3> QED
      BY <3>1, FiringsCounted
  <2>2. turns \in SUBSET ATimer!Objects
    BY <1>0, <1>2 DEF ATimer!Schedulers
  <2>3. b' = [b EXCEPT !.started = started]
    BY <1>0, <1>8 DEF ATimer!Disks
  <2>4. a' = [counted EXCEPT !.turns = turns]
    BY <1>5, <1>8
  <2> HIDE DEF turns, started
  <2>5. /\ a' \in ATimer!Schedulers /\ a'.auditing = a.auditing /\ a'.restored = a.restored /\ a'.recent = recent
        /\ a'.table = a.table /\ a'.made = a.made /\ a'.object = a.object
    BY <1>5, <2>2, <2>4 DEF ATimer!Schedulers
  <2>6. /\ b' \in ATimer!Disks /\ b'.started = started /\ b'.now = b.now /\ b'.file = b.file
        /\ b'.wire = b.wire /\ b'.stale = b.stale
    BY <1>0, <2>1, <2>3 DEF ATimer!Disks
  <2>7. ATimer!TurnsAreCounted'
    BY <1>8, <2>5, <2>6, CountGrows DEF recent, started
  <2>8. ATimer!LastIsNow'
    BY <2>5, <2>6, NowStays DEF RoutinesInv
  <2> QED
    BY <2>5, <2>6, <2>7, <2>8 DEF RoutinesInv, ATimer!RoutinesTypeOK
<1> QED
  BY <1>6, <1>7, <1>8

LEMMA RoutineIsFired ==
  ASSUME RoutinesInv, NEW r \in RoutineIds, ATimer!FireByClock(r) \/ ATimer!FireByEvent(r)
  PROVE  RoutinesInv'
<1>0. a \in ATimer!Schedulers /\ b.now \in 1..MaxMinute
  BY DEF RoutinesInv, ATimer!RoutinesTypeOK, ATimer!Disks
<1>1. CASE ATimer!FireByClock(r)
  <2> DEFINE minutes == [a.lastMinute EXCEPT ![r] = b.now]
             s == [a EXCEPT !.lastMinute = minutes]
  <2>1. b.now \in 0..MaxMinute
    BY <1>0, RoutineBounds
  <2>2. minutes \in [RoutineIds -> 0..MaxMinute]
    BY <1>0, <2>1 DEF ATimer!Schedulers
  <2>3. s = [a EXCEPT !.lastMinute[r] = b.now]
    BY <1>0 DEF ATimer!Schedulers
  <2> HIDE DEF minutes
  <2>4. s \in ATimer!Schedulers
    BY <1>0, <2>2 DEF ATimer!Schedulers
  <2>5. a.table[r] # 0 /\ ATimer!Fire(r, s)
    BY <1>1, <2>3 DEF ATimer!FireByClock
  <2>6. \E m \in [RoutineIds -> 0..MaxMinute] : s = [a EXCEPT !.lastMinute = m]
    BY <2>2
  <2> HIDE DEF s
  <2> QED
    BY <2>4, <2>5, <2>6, RoutineFires
<1>2. CASE ATimer!FireByEvent(r)
  <2>1. a.lastMinute \in [RoutineIds -> 0..MaxMinute] /\ a = [a EXCEPT !.lastMinute = a.lastMinute]
    BY <1>0 DEF ATimer!Schedulers
  <2>2. a.table[r] # 0 /\ ATimer!Fire(r, a)
    BY <1>2 DEF ATimer!FireByEvent
  <2>3. \E m \in [RoutineIds -> 0..MaxMinute] : a = [a EXCEPT !.lastMinute = m]
    BY <2>1
  <2> QED
    BY <1>0, <2>2, <2>3, RoutineFires
<1> QED
  BY <1>1, <1>2

LEMMA TurnIsOver ==
  ASSUME RoutinesInv, NEW o \in ATimer!Objects, ATimer!TurnEnds(o)
  PROVE  RoutinesInv'
<1> DEFINE s == [a EXCEPT !.turns = @ \ {o}]
<1>1. a \in ATimer!Schedulers /\ b \in ATimer!Disks /\ "ended" \in ATimer!Outcomes
  BY EntriesTyped DEF RoutinesInv, ATimer!RoutinesTypeOK
<1>2. /\ s \in ATimer!Schedulers /\ s.restored = a.restored /\ s.recent = a.recent /\ s.table = a.table
      /\ s.made = a.made /\ s.auditing = a.auditing
  BY <1>1 DEF ATimer!Schedulers
<1>3. a.auditing < MaxWrites /\ a' = ATimer!Marked(s, o, "ended") /\ b' = b
  BY DEF ATimer!TurnEnds
<1> HIDE DEF s
<1>4. /\ a' \in ATimer!Schedulers /\ a'.auditing # 0 /\ a'.restored = a.restored /\ a'.recent = a.recent
      /\ a'.table = a.table /\ a'.made = a.made
  BY <1>1, <1>2, <1>3, MarkedTyped
<1>5. ATimer!TurnsAreCounted'
  BY <1>3, <1>4, CountStays DEF RoutinesInv
<1>6. ATimer!LastIsNow'
  BY <1>3, <1>4, NowIsOpen DEF RoutinesInv
<1> QED
  BY <1>1, <1>3, <1>4, <1>5, <1>6 DEF RoutinesInv, ATimer!RoutinesTypeOK

\* The disk, but for some of its fields.
LEMMA DiskMoves ==
  ASSUME RoutinesInv, a' \in ATimer!Schedulers, a'.recent = a.recent, a'.table = a.table, a'.made = a.made,
         b' \in ATimer!Disks, b'.now = b.now, b'.started = b.started, ATimer!LastIsNow'
  PROVE  RoutinesInv'
<1>1. ATimer!TurnsAreCounted'
  BY CountStays DEF RoutinesInv
<1> QED
  BY <1>1 DEF RoutinesInv, ATimer!RoutinesTypeOK

\* The first of the wire is taken, and what is left is as it was.
LEMMA WireIsTaken ==
  ASSUME RoutinesInv, b.wire # <<>>, b'.wire = Tail(b.wire), a'.restored \in BOOLEAN,
         b.wire[1] = ATimer!Read \/ a'.restored = a.restored, b.wire[1] # ATimer!Read \/ ~a.restored
  PROVE  /\ \A i, j \in DOMAIN b'.wire : b'.wire[i] = ATimer!Read /\ b'.wire[j] = ATimer!Read => i = j
         /\ a'.restored => ~ATimer!Reading'
         /\ ~a'.restored => \A i \in DOMAIN b'.wire : b'.wire[i] # ATimer!Read => b'.wire[i].blind
<1>1. b.wire \in Seq(Wired) /\ ATimer!LastIsNow
  BY DEF RoutinesInv, ATimer!RoutinesTypeOK, ATimer!Disks, Wired
<1>2. /\ 1 \in DOMAIN b.wire
      /\ \A i \in DOMAIN b'.wire : i + 1 \in DOMAIN b.wire /\ b'.wire[i] = b.wire[i + 1] /\ i + 1 # 1 /\ i \in Nat
  BY <1>1, WireShrinks
<1>3. ASSUME NEW i \in DOMAIN b'.wire, NEW j \in DOMAIN b'.wire, b'.wire[i] = ATimer!Read, b'.wire[j] = ATimer!Read
      PROVE  i = j
  <2>1. i + 1 = j + 1
    BY <1>1, <1>2, <1>3 DEF ATimer!LastIsNow
  <2>2. i \in Nat /\ j \in Nat
    BY <1>2
  <2> QED
    BY <2>1, <2>2
<1>4. a'.restored => ~ATimer!Reading'
  <2>1. ASSUME a'.restored, NEW i \in DOMAIN b'.wire, b'.wire[i] = ATimer!Read
        PROVE  FALSE
    <3>1. i + 1 \in DOMAIN b.wire /\ b.wire[i + 1] = ATimer!Read /\ i + 1 # 1
      BY <1>2, <2>1
    <3>2. CASE b.wire[1] = ATimer!Read
      BY <1>1, <1>2, <3>1, <3>2 DEF ATimer!LastIsNow
    <3>3. CASE b.wire[1] # ATimer!Read
      BY <1>1, <2>1, <3>1, <3>3 DEF ATimer!LastIsNow, ATimer!Reading
    <3> QED
      BY <3>2, <3>3
  <2> QED
    BY <2>1 DEF ATimer!Reading
<1>5. ~a'.restored => \A i \in DOMAIN b'.wire : b'.wire[i] # ATimer!Read => b'.wire[i].blind
  <2>1. ~a'.restored => ~a.restored
    OBVIOUS
  <2> QED
    BY <1>1, <1>2, <2>1 DEF ATimer!LastIsNow
<1> QED
  BY <1>3, <1>4, <1>5

LEMMA FileIsTaken ==
  ASSUME RoutinesInv, ATimer!Restored
  PROVE  RoutinesInv'
<1>0. /\ a \in ATimer!Schedulers /\ b \in ATimer!Disks /\ ATimer!LastIsNow /\ b.wire \in Seq(Wired)
      /\ a.restored \in BOOLEAN /\ b.root \in BOOLEAN /\ b.file \in ATimer!Tables
  BY DEF RoutinesInv, ATimer!RoutinesTypeOK, ATimer!Disks, ATimer!Schedulers, Wired
<1>1. b.wire # <<>> /\ b.wire[1] = ATimer!Read /\ 1 \in DOMAIN b.wire /\ Tail(b.wire) \in Seq(Wired)
  BY <1>0, WireShrinks DEF ATimer!Restored
<1>2. ~a.restored
  BY <1>0, <1>1 DEF ATimer!LastIsNow, ATimer!Reading
<1>3. ASSUME NEW to \in BOOLEAN, NEW stale \in BOOLEAN, a' = [a EXCEPT !.restored = to],
             b' = [b EXCEPT !.wire = Tail(@), !.stale = stale],
             ~stale => to /\ ATimer!Missing = {} /\ stale = b.stale
      PROVE  RoutinesInv'
  <2> DEFINE wire == Tail(b.wire)
  <2>1. wire \in Seq(Wired) /\ b' = [b EXCEPT !.wire = wire, !.stale = stale]
    BY <1>0, <1>1, <1>3 DEF ATimer!Disks
  <2> HIDE DEF wire
  <2>2. /\ b' \in ATimer!Disks /\ b'.wire = wire /\ b'.stale = stale /\ b'.now = b.now /\ b'.started = b.started
        /\ b'.file = b.file
    BY <1>0, <2>1 DEF ATimer!Disks, Wired
  <2>3. /\ a' \in ATimer!Schedulers /\ a'.restored = to /\ a'.recent = a.recent /\ a'.table = a.table
        /\ a'.made = a.made /\ a'.auditing = a.auditing /\ a'.object = a.object
    BY <1>0, <1>3 DEF ATimer!Schedulers
  <2>4. /\ \A i, j \in DOMAIN b'.wire : b'.wire[i] = ATimer!Read /\ b'.wire[j] = ATimer!Read => i = j
        /\ a'.restored => ~ATimer!Reading'
        /\ ~a'.restored => \A i \in DOMAIN b'.wire : b'.wire[i] # ATimer!Read => b'.wire[i].blind
    BY <1>1, <1>2, <2>2, <2>3, WireIsTaken DEF wire
  <2>5. ASSUME a'.auditing = 0
        PROVE  IF b'.wire = <<>> THEN stale \/ b'.file = ATimer!RoutinesNow(a')
               ELSE b'.wire[Len(b'.wire)].blind
    <3>0. a.auditing = 0 /\ (~stale => ~b.stale /\ ATimer!Missing = {})
      BY <1>3, <2>3, <2>5
    <3>1. ~stale => ATimer!BlindWrites \/ \A r \in RoutineIds : a.table[r] # 0 => ATimer!RoutinesNow(a)[r] = b.file[r]
      BY <1>0, <1>2, <3>0 DEF ATimer!LastIsNow
    <3>2. CASE wire = <<>> /\ stale
      BY <2>2, <3>2
    <3>4. CASE wire = <<>> /\ ~stale
      <4>1. DOMAIN b.wire = {1}
        BY <1>0, <1>1, <3>4, WireShrinks DEF wire
      <4>2. \A r \in RoutineIds : a.table[r] # 0 => ATimer!RoutinesNow(a)[r] = b.file[r]
        BY <1>1, <3>1, <3>4, <4>1 DEF ATimer!BlindWrites
      <4>3. \A r \in RoutineIds : a.table[r] = 0 => b.file[r] = ATimer!NoEntry
        BY <3>0, <3>4 DEF ATimer!Missing
      <4>4. \A r \in RoutineIds : ATimer!RoutinesNow(a')[r] = b.file[r]
        BY <1>0, <2>3, <4>2, <4>3, TableNow
      <4>5. ATimer!RoutinesNow(a') \in ATimer!Tables
        BY <2>3, TableNow
      <4>6. ATimer!RoutinesNow(a') = b.file
        BY <1>0, <4>4, <4>5 DEF ATimer!Tables
      <4> QED
        BY <2>2, <3>4, <4>6
    <3>3. CASE wire # <<>>
      <4>1. wire[Len(wire)] = b.wire[Len(b.wire)] /\ Len(b.wire) \in DOMAIN b.wire /\ Len(b.wire) # 1
        BY <1>0, <1>1, <3>3, WireShrinks DEF wire
      <4>2. b.wire[Len(b.wire)] # ATimer!Read
        BY <1>0, <1>1, <4>1 DEF ATimer!LastIsNow
      <4>3. b.wire[Len(b.wire)].blind
        BY <1>0, <1>2, <4>1, <4>2 DEF ATimer!LastIsNow
      <4> QED
        BY <2>2, <3>3, <4>1, <4>3
    <3> QED
      BY <3>2, <3>3, <3>4
  <2>6. ATimer!RoutinesNow(a)' = ATimer!RoutinesNow(a')
    BY DEF ATimer!RoutinesNow
  <2>7. ~stale => a'.restored
    BY <1>3, <2>3
  <2>8. ATimer!LastIsNow'
    BY <2>2, <2>4, <2>5, <2>6, <2>7 DEF ATimer!LastIsNow
  <2> QED
    BY <2>2, <2>3, <2>8, DiskMoves
<1>4. CASE /\ b.root /\ ATimer!Missing = {} /\ a' = [a EXCEPT !.restored = TRUE]
           /\ b' = [b EXCEPT !.wire = Tail(@)]
  <2>1. b.stale \in BOOLEAN /\ b' = [b EXCEPT !.wire = Tail(@), !.stale = b.stale]
    BY <1>0, <1>4 DEF ATimer!Disks
  <2> QED
    BY <1>3, <1>4, <2>1
<1>5. CASE /\ b' = [b EXCEPT !.wire = Tail(@), !.stale = TRUE] /\ a' = [a EXCEPT !.restored = b.root]
  BY <1>0, <1>3, <1>5
<1>6. ASSUME NEW r \in ATimer!Missing, b.root, a.made < MaxObjects, a' = ATimer!Made(a, r, b.file[r]), b' = b
      PROVE  RoutinesInv'
  <2>1. r \in RoutineIds /\ a.table[r] = 0 /\ b.file[r] # ATimer!NoEntry /\ b.file[r] \in ATimer!Entries
    BY <1>0 DEF ATimer!Missing, ATimer!Tables
  <2>2. /\ a' \in ATimer!Schedulers /\ a'.recent = a.recent /\ a'.restored = a.restored
        /\ a'.auditing = a.auditing /\ \A q \in RoutineIds : a'.table[q] <= a'.made
        /\ a'.table = [a.table EXCEPT ![r] = a.made + 1]
        /\ \A q \in RoutineIds \ {r} : ATimer!RoutinesNow(a)'[q] = ATimer!RoutinesNow(a)[q]
        /\ ATimer!RoutinesNow(a)'[r] = b.file[r]
    BY <1>6, <2>1, MadeIsNew
  <2>3. ATimer!Reading' = ATimer!Reading /\ ATimer!BlindWrites' = ATimer!BlindWrites
    BY <1>6 DEF ATimer!Reading, ATimer!BlindWrites
  <2>4. \A q \in RoutineIds \ {r} : a'.table[q] = a.table[q]
    <3>1. a.table \in [RoutineIds -> ATimer!Objects \cup {0}]
      BY <1>0 DEF ATimer!Schedulers
    <3> QED
      BY <2>2, <3>1
  <2>5. ATimer!LastIsNow'
    BY <1>0, <1>2, <1>6, <2>2, <2>3, <2>4 DEF ATimer!LastIsNow
  <2>6. ATimer!TurnsAreCounted'
    BY <1>6, <2>2, CountStays DEF RoutinesInv
  <2> QED
    BY <1>0, <1>6, <2>2, <2>5, <2>6 DEF RoutinesInv, ATimer!RoutinesTypeOK
<1> QED
  BY <1>4, <1>5, <1>6 DEF ATimer!Restored

LEMMA ReadIsSent ==
  ASSUME RoutinesInv, ATimer!EnsureRestored
  PROVE  RoutinesInv'
<1> DEFINE wire == Append(b.wire, ATimer!Read)
<1>0. /\ a \in ATimer!Schedulers /\ b \in ATimer!Disks /\ ATimer!LastIsNow /\ b.wire \in Seq(Wired)
      /\ ATimer!Read \in Wired
  BY DEF RoutinesInv, ATimer!RoutinesTypeOK, ATimer!Disks, Wired
<1>1. wire \in Seq(Wired)
  BY <1>0
<1>2. ~a.restored /\ ~ATimer!Reading /\ a' = a /\ b' = [b EXCEPT !.wire = wire]
  BY <1>0 DEF ATimer!EnsureRestored, ATimer!Disks
<1>3. /\ DOMAIN wire = DOMAIN b.wire \cup {Len(wire)} /\ wire[Len(wire)] = ATimer!Read
      /\ \A i \in DOMAIN b.wire : wire[i] = b.wire[i]
  BY <1>0, WireGrows
<1> HIDE DEF wire
<1>4. /\ b' \in ATimer!Disks /\ b'.wire = wire /\ b'.stale = b.stale /\ b'.now = b.now /\ b'.started = b.started
      /\ b'.file = b.file
  BY <1>0, <1>1, <1>2 DEF ATimer!Disks, Wired
<1>5. \A i, j \in DOMAIN wire : wire[i] = ATimer!Read /\ wire[j] = ATimer!Read => i = j
  BY <1>2, <1>3 DEF ATimer!Reading
<1>6. \A i \in DOMAIN wire : wire[i] # ATimer!Read => wire[i].blind
  BY <1>0, <1>2, <1>3 DEF ATimer!LastIsNow
<1>7. ATimer!BlindWrites => ATimer!BlindWrites'
  BY <1>3, <1>4 DEF ATimer!BlindWrites
<1>8. ATimer!RoutinesNow(a)' = ATimer!RoutinesNow(a)
  BY <1>2 DEF ATimer!RoutinesNow
<1>9. ATimer!LastIsNow'
  BY <1>0, <1>2, <1>4, <1>5, <1>6, <1>7, <1>8 DEF ATimer!LastIsNow
<1> QED
  BY <1>0, <1>2, <1>4, <1>9, DiskMoves

LEMMA FileIsWritten ==
  ASSUME RoutinesInv, ATimer!HostWrites
  PROVE  RoutinesInv'
<1> DEFINE wire == Tail(b.wire)
<1>0. /\ a \in ATimer!Schedulers /\ b \in ATimer!Disks /\ ATimer!LastIsNow /\ b.wire \in Seq(Wired)
      /\ a.restored \in BOOLEAN /\ a' = a
  BY DEF RoutinesInv, ATimer!RoutinesTypeOK, ATimer!Disks, ATimer!Schedulers, Wired, ATimer!HostWrites
<1>1. b.wire # <<>> /\ b.wire[1] # ATimer!Read /\ 1 \in DOMAIN b.wire /\ wire \in Seq(Wired) /\ Head(b.wire) = b.wire[1]
      /\ b.wire[1] \in ATimer!Writes
  BY <1>0, WireShrinks DEF ATimer!HostWrites, Wired
<1>2. b.wire[1].table \in ATimer!Tables /\ b.wire[1].blind \in BOOLEAN
  BY <1>1 DEF ATimer!Writes
<1> HIDE DEF wire
<1>3. \/ b' = [b EXCEPT !.wire = wire, !.file = b.wire[1].table, !.stale = b.wire[1].blind]
      \/ b' = [b EXCEPT !.wire = wire, !.stale = TRUE]
  BY <1>0, <1>1 DEF ATimer!HostWrites, wire, ATimer!Disks
<1>4. /\ b' \in ATimer!Disks /\ b'.wire = wire /\ b'.now = b.now /\ b'.started = b.started
      /\ ~b'.stale => ~b.wire[1].blind /\ b'.file = b.wire[1].table
  BY <1>0, <1>1, <1>2, <1>3 DEF ATimer!Disks, Wired
<1>5. /\ \A i, j \in DOMAIN b'.wire : b'.wire[i] = ATimer!Read /\ b'.wire[j] = ATimer!Read => i = j
      /\ a'.restored => ~ATimer!Reading'
      /\ ~a'.restored => \A i \in DOMAIN b'.wire : b'.wire[i] # ATimer!Read => b'.wire[i].blind
  BY <1>0, <1>1, <1>4, WireIsTaken DEF wire
<1>6. ASSUME a.auditing = 0, a.restored
      PROVE  IF b'.wire = <<>> THEN b'.stale \/ b'.file = ATimer!RoutinesNow(a)
             ELSE LET last == b'.wire[Len(b'.wire)] IN last.blind \/ last.table = ATimer!RoutinesNow(a)
  <2>1. b.wire[Len(b.wire)].blind \/ b.wire[Len(b.wire)].table = ATimer!RoutinesNow(a)
    BY <1>0, <1>1, <1>6 DEF ATimer!LastIsNow
  <2>2. CASE wire = <<>>
    <3>1. b.wire[Len(b.wire)] = b.wire[1]
      BY <1>0, <1>1, <2>2, WireShrinks DEF wire
    <3> QED
      BY <1>4, <2>1, <2>2, <3>1
  <2>3. CASE wire # <<>>
    <3>1. wire[Len(wire)] = b.wire[Len(b.wire)]
      BY <1>0, <1>1, <2>3, WireShrinks DEF wire
    <3> QED
      BY <1>4, <2>1, <2>3, <3>1
  <2> QED
    BY <2>2, <2>3
<1>7. ~a.restored => b'.stale
  BY <1>0, <1>1, <1>4 DEF ATimer!LastIsNow
<1>8. ATimer!RoutinesNow(a)' = ATimer!RoutinesNow(a)
  BY <1>0 DEF ATimer!RoutinesNow
<1>9. ATimer!LastIsNow'
  BY <1>0, <1>5, <1>6, <1>7, <1>8 DEF ATimer!LastIsNow
<1> QED
  BY <1>0, <1>4, <1>9, DiskMoves

LEMMA FolderAndMinute ==
  ASSUME RoutinesInv, ATimer!ChooseFolder \/ ATimer!MinutePasses
  PROVE  RoutinesInv'
<1>0. a \in ATimer!Schedulers /\ b \in ATimer!Disks /\ ATimer!LastIsNow /\ ATimer!TurnsAreCounted
  BY DEF RoutinesInv, ATimer!RoutinesTypeOK
<1>1. CASE ATimer!ChooseFolder
  <2>1. a' = a /\ b' = [b EXCEPT !.root = TRUE]
    BY <1>1 DEF ATimer!ChooseFolder
  <2>2. /\ b' \in ATimer!Disks /\ b'.now = b.now /\ b'.started = b.started /\ b'.file = b.file
        /\ b'.wire = b.wire /\ b'.stale = b.stale
    BY <1>0, <2>1 DEF ATimer!Disks
  <2>3. ATimer!LastIsNow'
    BY <1>0, <2>1, <2>2, NowStays
  <2> QED
    BY <1>0, <2>1, <2>2, <2>3, DiskMoves
<1>2. CASE ATimer!MinutePasses
  <2> DEFINE now == b.now + 1
             started == [r \in RoutineIds |-> ATimer!Within(b.started[r], now)]
  <2>1. b.now \in 1..MaxMinute /\ b.now < MaxMinute /\ a' = a /\ b.started \in [RoutineIds -> SUBSET ATimer!Firings]
    BY <1>0, <1>2 DEF ATimer!MinutePasses, ATimer!Disks
  <2>2. now \in 1..MaxMinute
    BY <2>1, RoutineBounds
  <2>3. started \in [RoutineIds -> SUBSET ATimer!Firings]
    BY <2>1 DEF ATimer!Within
  <2>4. b' = [b EXCEPT !.now = now, !.started = started]
    BY <1>0, <1>2 DEF ATimer!MinutePasses, ATimer!Disks
  <2>5. \A r \in RoutineIds : started[r] = ATimer!Within(b.started[r], now)
    OBVIOUS
  <2> HIDE DEF now, started
  <2>6. /\ b' \in ATimer!Disks /\ b'.now = now /\ b'.started = started /\ b'.file = b.file
        /\ b'.wire = b.wire /\ b'.stale = b.stale
    BY <1>0, <2>2, <2>3, <2>4 DEF ATimer!Disks
  <2>7. ATimer!LastIsNow'
    BY <1>0, <2>1, <2>6, NowStays
  <2>8. ASSUME NEW r \in RoutineIds
        PROVE  started[r] \subseteq ATimer!Within(a.recent[r], now)
    <3>1. b.started[r] \subseteq a.recent[r]
      BY <1>0 DEF ATimer!TurnsAreCounted, ATimer!Window, ATimer!Within
    <3> QED
      BY <2>5, <3>1 DEF ATimer!Within
  <2>9. \A r \in RoutineIds : ATimer!Window(r)' = ATimer!Within(a.recent[r], now)
    BY <2>1, <2>6 DEF ATimer!Window, ATimer!Within
  <2>10. ATimer!TurnsAreCounted'
    BY <1>0, <2>1, <2>6, <2>8, <2>9 DEF ATimer!TurnsAreCounted
  <2> QED
    BY <1>0, <2>1, <2>6, <2>7, <2>10 DEF RoutinesInv, ATimer!RoutinesTypeOK
<1> QED
  BY <1>1, <1>2

LEMMA RoutinesStep ==
  ASSUME RoutinesInv, [ATimer!RoutinesNext]_ATimer!schedVars
  PROVE  RoutinesInv'
<1>1. CASE UNCHANGED ATimer!schedVars
  <2>1. a' = a /\ b' = b
    BY <1>1 DEF ATimer!schedVars
  <2>2. ATimer!LastIsNow' /\ ATimer!TurnsAreCounted'
    BY <2>1, NowStays, CountStays DEF RoutinesInv
  <2> QED
    BY <2>1, <2>2 DEF RoutinesInv, ATimer!RoutinesTypeOK
<1> QED
  BY <1>1, RoutinePut, RoutineGoes, RoutineIsFired, TurnIsOver, FileIsTaken, ReadIsSent, FireIsPersisted,
     FileIsWritten, FolderAndMinute DEF ATimer!RoutinesNext

LEMMA RoutinesStart ==
  ASSUME ATimer!RoutinesInit
  PROVE  RoutinesInv
<1> DEFINE object == [o \in ATimer!Objects |-> [trigger |-> "disabled", last |-> "none"]]
           none == [r \in RoutineIds |-> 0]
           empty == [r \in RoutineIds |-> {}]
           nobody == {}
           noone == 0
           wire == <<ATimer!Read>>
<1>1. object \in [ATimer!Objects -> ATimer!Entries]
  BY EntriesTyped
<1>2. none \in [RoutineIds -> ATimer!Objects \cup {0}] /\ none \in [RoutineIds -> 0..MaxMinute]
  BY RoutineBounds
<1>3. empty \in [RoutineIds -> SUBSET ATimer!Firings]
  OBVIOUS
<1>4. noone \in 0..MaxWrites /\ noone \in ATimer!Objects \cup {0} /\ 1 \in 1..MaxMinute
  BY RoutineBounds
<1>5. wire \in Seq(Wired) /\ DOMAIN wire = {1} /\ wire[1] = ATimer!Read /\ wire # <<>>
  BY DEF Wired
<1>6. nobody \in SUBSET ATimer!Objects /\ nobody \in SUBSET ATimer!Firings
  OBVIOUS
<1>7. \A r \in RoutineIds : none[r] = 0 /\ empty[r] = nobody
  OBVIOUS
<1>8. /\ a = [restored |-> FALSE, table |-> none, made |-> noone, object |-> object, lastMinute |-> none,
              recent |-> empty, turns |-> nobody, auditing |-> noone]
      /\ b \in [now: {1}, root: BOOLEAN,
               file: [RoutineIds -> {ATimer!NoEntry, [trigger |-> "cron", last |-> "none"]}],
               wire: {wire}, stale: {FALSE}, started: {empty}]
  BY DEF ATimer!RoutinesInit
<1>9. [RoutineIds -> {ATimer!NoEntry, [trigger |-> "cron", last |-> "none"]}] \subseteq ATimer!Tables
  BY EntriesTyped DEF ATimer!Tables
<1> HIDE DEF object, none, empty, nobody, wire, noone
<1>10. a \in ATimer!Schedulers
  BY <1>1, <1>2, <1>3, <1>4, <1>6, <1>8 DEF ATimer!Schedulers
<1>11. b \in ATimer!Disks
  BY <1>3, <1>4, <1>5, <1>8, <1>9 DEF ATimer!Disks, Wired
<1>12. a.restored = FALSE /\ a.table = none /\ a.made = 0 /\ a.recent = empty /\ b.wire = wire /\ b.started = empty
  BY <1>8 DEF noone
<1>13. \A r \in RoutineIds : a.table[r] <= a.made
  BY <1>7, <1>12
<1>14. ATimer!TurnsAreCounted
  <2>1. IsFiniteSet(nobody) /\ Cardinality(nobody) = 0 /\ 0 <= MaxPerHour
    BY FS_EmptySet, RoutineBounds DEF nobody
  <2>2. \A r \in RoutineIds : a.recent[r] = nobody /\ b.started[r] \subseteq ATimer!Window(r)
    BY <1>7, <1>12 DEF nobody
  <2> QED
    BY <2>1, <2>2, CardinalityOfTimer DEF ATimer!TurnsAreCounted
<1>15. ATimer!LastIsNow
  BY <1>5, <1>7, <1>12 DEF ATimer!LastIsNow
<1> QED
  BY <1>10, <1>11, <1>13, <1>14, <1>15 DEF RoutinesInv, ATimer!RoutinesTypeOK

\* What is quiet is stored, and the turns are within the limit.
LEMMA RoutinesHold ==
  ASSUME RoutinesInv
  PROVE  ATimer!QuietIsStored /\ ATimer!TurnsCapped
<1>1. ATimer!QuietIsStored
  BY DEF RoutinesInv, ATimer!LastIsNow, ATimer!QuietIsStored
<1>2. ATimer!TurnsCapped
  BY WindowsAreCounted, CardinalityOfTimer DEF RoutinesInv, ATimer!TurnsCapped
<1> QED
  BY <1>1, <1>2

-----------------------------------------------------------------------------
(* The calendar, whatever events its page makes and however many syncs     *)
(* overlap.                                                                *)

\* What the calendar keeps, with the events E of its page and the syncs S.
CalendarInv(E, S) ==
  /\ Calendars(E, S)!CalendarTypeOK /\ Calendars(E, S)!ReadIsMerged /\ Calendars(E, S)!NoEndlessConnecting
  /\ \A s \in S : c[s].at = "idle" => ~c[s].awaited

\* One sync goes on, and the page and the events stay.
LEMMA SyncGoesOn ==
  ASSUME NEW E, NEW S, CalendarInv(E, S), a' = a, b' = b, d' = d,
         NEW s \in S, NEW new \in Calendars(E, S)!SyncStates, c' = [c EXCEPT ![s] = new],
         c[s].awaited => new.awaited /\ new.targets = c[s].targets, new.at = "idle" => ~new.awaited,
         new.at \in {"asks", "writes"} /\ new.current => a.events \subseteq new.merged
  PROVE  CalendarInv(E, S)'
<1>1. c \in [S -> Calendars(E, S)!SyncStates]
  BY DEF CalendarInv, Calendars!CalendarTypeOK
<1>2. c' \in [S -> Calendars(E, S)!SyncStates] /\ c'[s] = new /\ \A t \in S \ {s} : c'[t] = c[t]
  BY <1>1
<1>3. Calendars(E, S)!CalendarTypeOK'
  BY <1>2 DEF CalendarInv, Calendars!CalendarTypeOK
<1>4. Calendars(E, S)!ReadIsMerged'
  BY <1>2 DEF CalendarInv, Calendars!ReadIsMerged
<1>5. \A t \in S : c[t].awaited => c'[t].awaited /\ c'[t].targets = c[t].targets
  BY <1>2
<1>6. Calendars(E, S)!NoEndlessConnecting'
  BY <1>5 DEF CalendarInv, Calendars!NoEndlessConnecting
<1>7. \A t \in S : c'[t].at = "idle" => ~c'[t].awaited
  BY <1>2 DEF CalendarInv
<1> QED
  BY <1>3, <1>4, <1>6, <1>7 DEF CalendarInv

LEMMA IdleSyncTyped ==
  ASSUME NEW E, NEW S
  PROVE  /\ Calendars(E, S)!IdleSync \in Calendars(E, S)!SyncStates
         /\ Calendars(E, S)!IdleSync.at = "idle" /\ Calendars(E, S)!IdleSync.awaited = FALSE
<1> DEFINE none == {}
<1>1. none \in SUBSET CalAccounts /\ none \in SUBSET Calendars(E, S)!Entries
  OBVIOUS
<1>2. Calendars(E, S)!IdleSync = [at |-> "idle", awaited |-> FALSE, targets |-> none, scope |-> none, failed |-> none,
             merged |-> none, current |-> FALSE]
  BY DEF Calendars!IdleSync
<1> HIDE DEF none
<1> QED
  BY <1>1, <1>2 DEF Calendars!SyncStates

LEMMA SyncBegins ==
  ASSUME NEW E, NEW S, CalendarInv(E, S), NEW s \in S, Calendars(E, S)!BeginSync(s)
  PROVE  CalendarInv(E, S)' /\ \A t \in S : c[t].at = "writes" => c'[t].at = "writes"
<1> DEFINE scope == {x \in c[s].scope : a.accounts[x] = "on"}
           begun == [c[s] EXCEPT !.at = "asks", !.merged = a.events, !.current = TRUE, !.scope = scope]
           failed == [c[s] EXCEPT !.at = "failed"]
<1>1. /\ c \in [S -> Calendars(E, S)!SyncStates] /\ c[s] \in Calendars(E, S)!SyncStates
      /\ a.events \in SUBSET Calendars(E, S)!Entries
  BY DEF CalendarInv, Calendars!CalendarTypeOK, Calendars!CalendarFiles
<1>2. a' = a /\ b' = b /\ d' = d /\ c[s].at = "called"
  BY DEF Calendars!BeginSync
<1>3. c' = [c EXCEPT ![s] = begun] \/ c' = [c EXCEPT ![s] = failed]
  BY <1>1 DEF Calendars!BeginSync
<1>4. scope \in SUBSET CalAccounts
  BY <1>1 DEF Calendars!SyncStates
<1> HIDE DEF scope
<1>5. /\ begun \in Calendars(E, S)!SyncStates /\ begun.at = "asks" /\ begun.merged = a.events
      /\ begun.awaited = c[s].awaited /\ begun.targets = c[s].targets
  BY <1>1, <1>4 DEF Calendars!SyncStates
<1>6. /\ failed \in Calendars(E, S)!SyncStates /\ failed.at = "failed"
      /\ failed.awaited = c[s].awaited /\ failed.targets = c[s].targets
  BY <1>1 DEF Calendars!SyncStates
<1> HIDE DEF begun, failed
<1>7. ASSUME NEW new \in {begun, failed}, c' = [c EXCEPT ![s] = new]
      PROVE  CalendarInv(E, S)'
  <2>1. /\ new \in Calendars(E, S)!SyncStates /\ new.at # "idle"
        /\ new.at \in {"asks", "writes"} => a.events \subseteq new.merged
        /\ c[s].awaited => new.awaited /\ new.targets = c[s].targets
    BY <1>5, <1>6
  <2> QED
    BY <1>2, <1>7, <2>1, SyncGoesOn
<1>8. \A t \in S : c[t].at = "writes" => c'[t].at = "writes"
  BY <1>1, <1>2, <1>3
<1> QED
  BY <1>3, <1>7, <1>8

LEMMA SyncImports ==
  ASSUME NEW E, NEW S, CalendarInv(E, S), NEW s \in S, Calendars(E, S)!ImportEvents(s)
  PROVE  CalendarInv(E, S)' /\ \A t \in S : c[t].at = "writes" => c'[t].at = "writes"
<1>1. /\ c \in [S -> Calendars(E, S)!SyncStates] /\ c[s] \in Calendars(E, S)!SyncStates /\ d \subseteq E
  BY DEF CalendarInv, Calendars!CalendarTypeOK
<1>2. a' = a /\ b' = b /\ d' = d /\ c[s].at = "asks"
  BY DEF Calendars!ImportEvents
<1>3. PICK failed \in SUBSET c[s].scope, imported \in SUBSET (RemoteEvents \cup d) :
        c' = [c EXCEPT ![s].at = "writes", ![s].failed = failed,
                ![s].merged = @ \cup {Calendars(E, S)!FeedEntry(e) : e \in imported}]
  BY DEF Calendars!ImportEvents
<1> DEFINE feed == {Calendars(E, S)!FeedEntry(e) : e \in imported}
           merged == c[s].merged \cup feed
           new == [c[s] EXCEPT !.at = "writes", !.failed = failed, !.merged = merged]
<1>4. c' = [c EXCEPT ![s] = new]
  <2>1. c' = [c EXCEPT ![s].at = "writes", ![s].failed = failed, ![s].merged = @ \cup feed]
    BY <1>3
  <2> HIDE DEF feed
  <2> QED
    BY <1>1, <2>1 DEF Calendars!SyncStates
<1>5. merged \in SUBSET Calendars(E, S)!Entries /\ c[s].merged \subseteq merged
  <2>1. ASSUME NEW e \in imported
        PROVE  Calendars(E, S)!FeedEntry(e) \in Calendars(E, S)!Entries
    <3>1. e \in E \cup RemoteEvents
      BY <1>1
    <3> QED
      BY <3>1 DEF Calendars!FeedEntry, Calendars!Entries, Calendars!AllEvents
  <2>2. feed \in SUBSET Calendars(E, S)!Entries
    BY <2>1
  <2>3. c[s].merged \in SUBSET Calendars(E, S)!Entries
    BY <1>1 DEF Calendars!SyncStates
  <2> HIDE DEF feed
  <2> QED
    BY <2>2, <2>3
<1>6. failed \in SUBSET CalAccounts
  BY <1>1 DEF Calendars!SyncStates
<1> HIDE DEF merged
<1>7. /\ new \in Calendars(E, S)!SyncStates /\ new.at = "writes" /\ new.merged = merged /\ new.current = c[s].current
      /\ new.awaited = c[s].awaited /\ new.targets = c[s].targets
  BY <1>1, <1>5, <1>6 DEF Calendars!SyncStates
<1> HIDE DEF new
<1>8. new.current => a.events \subseteq new.merged
  BY <1>2, <1>5, <1>7 DEF CalendarInv, Calendars!ReadIsMerged
<1>9. \A t \in S : c[t].at = "writes" => c'[t].at = "writes"
  BY <1>1, <1>4, <1>7
<1> QED
  BY <1>2, <1>4, <1>7, <1>8, <1>9, SyncGoesOn

LEMMA SyncWrites ==
  ASSUME NEW E, NEW S, CalendarInv(E, S), NEW s \in S, Calendars(E, S)!WriteMerged(s)
  PROVE  CalendarInv(E, S)' /\ Calendars(E, S)!SyncOnlyAdds
<1> DEFINE Ended(at) == Calendars(E, S)!Ended(s, at)
<1>1. /\ c \in [S -> Calendars(E, S)!SyncStates] /\ c[s] \in Calendars(E, S)!SyncStates
      /\ a \in Calendars(E, S)!CalendarFiles
  BY DEF CalendarInv, Calendars!CalendarTypeOK
<1>2. b' = b /\ d' = d /\ c[s].at = "writes"
  BY DEF Calendars!WriteMerged
<1>3. ASSUME NEW at \in {"done", "failed"}
      PROVE  /\ Ended(at) \in Calendars(E, S)!SyncStates /\ Ended(at).at \in {at, "idle"}
             /\ c[s].awaited => Ended(at).awaited /\ Ended(at).targets = c[s].targets
             /\ Ended(at).at = "idle" => ~Ended(at).awaited
  <2>1. CASE ~c[s].awaited
    BY <2>1, IdleSyncTyped DEF Calendars!Ended
  <2>2. CASE c[s].awaited
    <3> DEFINE new == [c[s] EXCEPT !.at = at]
    <3>1. Ended(at) = new
      BY <2>2 DEF Calendars!Ended
    <3>2. new \in Calendars(E, S)!SyncStates /\ new.at = at /\ new.awaited = c[s].awaited /\ new.targets = c[s].targets
      BY <1>1 DEF Calendars!SyncStates
    <3> HIDE DEF new
    <3> QED
      BY <2>2, <3>1, <3>2
  <2> QED
    BY <2>1, <2>2
<1> HIDE DEF Ended
<1>4. CASE c' = [c EXCEPT ![s] = Ended("failed")] /\ a' = a
  <2>1. CalendarInv(E, S)'
    BY <1>2, <1>3, <1>4, SyncGoesOn
  <2> QED
    BY <1>4, <2>1 DEF Calendars!SyncOnlyAdds
<1>5. CASE /\ a' = [a EXCEPT !.events = c[s].merged]
           /\ c' = [t \in S |-> IF t = s THEN Ended("done") ELSE [c[t] EXCEPT !.current = FALSE]]
  <2>1. c[s].merged \in SUBSET Calendars(E, S)!Entries
    BY <1>1 DEF Calendars!SyncStates
  <2>2. a' \in Calendars(E, S)!CalendarFiles /\ a'.events = c[s].merged
    BY <1>1, <1>5, <2>1 DEF Calendars!CalendarFiles
  <2>3. ASSUME NEW t \in S \ {s}
        PROVE  /\ c'[t] \in Calendars(E, S)!SyncStates /\ c'[t].at = c[t].at /\ c'[t].awaited = c[t].awaited
               /\ c'[t].targets = c[t].targets /\ c'[t].current = FALSE
    <3>1. c'[t] = [c[t] EXCEPT !.current = FALSE] /\ c[t] \in Calendars(E, S)!SyncStates
      BY <1>1, <1>5
    <3> QED
      BY <3>1 DEF Calendars!SyncStates
  <2>4. c'[s] = Ended("done")
    BY <1>5
  <2>5. c' \in [S -> Calendars(E, S)!SyncStates]
    BY <1>3, <1>5, <2>3, <2>4
  <2>6. Calendars(E, S)!CalendarTypeOK'
    BY <1>2, <2>2, <2>5 DEF CalendarInv, Calendars!CalendarTypeOK
  <2>7. Calendars(E, S)!ReadIsMerged'
    BY <1>3, <2>3, <2>4 DEF Calendars!ReadIsMerged
  <2>8. \A t \in S : c[t].awaited => c'[t].awaited /\ c'[t].targets = c[t].targets
    BY <1>3, <2>3, <2>4
  <2>9. Calendars(E, S)!NoEndlessConnecting'
    BY <1>2, <2>8 DEF CalendarInv, Calendars!NoEndlessConnecting
  <2>10. \A t \in S : c'[t].at = "idle" => ~c'[t].awaited
    BY <1>3, <2>3, <2>4 DEF CalendarInv
  <2>11. Calendars(E, S)!SyncOnlyAdds
    <3>1. ASSUME NEW t \in S, c[t].at = "writes", c'[t].at # "writes", c[t].current
          PROVE  a.events \subseteq a'.events
      <4>1. t = s
        BY <2>3, <3>1
      <4> QED
        BY <1>2, <2>2, <3>1, <4>1 DEF CalendarInv, Calendars!ReadIsMerged
    <3> QED
      BY <3>1 DEF Calendars!SyncOnlyAdds
  <2> QED
    BY <2>6, <2>7, <2>9, <2>10, <2>11 DEF CalendarInv
<1> QED
  BY <1>4, <1>5 DEF Calendars!WriteMerged, Ended

\* The page moves, no sync changes, and what it stores keeps what the syncs read,
\* or they are told apart.
LEMMA PageMoves ==
  ASSUME NEW E, NEW S, CalendarInv(E, S), a' \in Calendars(E, S)!CalendarFiles, b' \in Calendars(E, S)!Pages,
         d' \subseteq E, b.missed \subseteq b'.missed,
         \A x \in CalAccounts : b'.conn[x] = "connecting" => b.conn[x] = "connecting",
         \/ c' = c /\ a'.events = a.events
         \/ c' = [s \in S |-> [c[s] EXCEPT !.current = FALSE]]
  PROVE  CalendarInv(E, S)' /\ Calendars(E, S)!SyncOnlyAdds
<1>1. c \in [S -> Calendars(E, S)!SyncStates]
  BY DEF CalendarInv, Calendars!CalendarTypeOK
<1>2. ASSUME NEW t \in S
      PROVE  /\ c'[t] \in Calendars(E, S)!SyncStates /\ c'[t].at = c[t].at /\ c'[t].awaited = c[t].awaited
             /\ c'[t].targets = c[t].targets /\ c'[t].merged = c[t].merged
             /\ c'[t].current => c[t].current /\ a'.events = a.events
  <2>1. c[t] \in Calendars(E, S)!SyncStates
    BY <1>1
  <2>2. CASE c' = c /\ a'.events = a.events
    BY <2>1, <2>2
  <2>3. CASE c' = [s \in S |-> [c[s] EXCEPT !.current = FALSE]]
    <3>1. c'[t] = [c[t] EXCEPT !.current = FALSE]
      BY <2>3
    <3> QED
      BY <2>1, <3>1 DEF Calendars!SyncStates
  <2> QED
    BY <2>2, <2>3
<1>3. c' \in [S -> Calendars(E, S)!SyncStates]
  BY <1>1, <1>2
<1>4. Calendars(E, S)!CalendarTypeOK'
  BY <1>3 DEF Calendars!CalendarTypeOK
<1>5. Calendars(E, S)!ReadIsMerged'
  BY <1>2 DEF CalendarInv, Calendars!ReadIsMerged
<1>6. Calendars(E, S)!NoEndlessConnecting'
  BY <1>2 DEF CalendarInv, Calendars!NoEndlessConnecting
<1>7. \A t \in S : c'[t].at = "idle" => ~c'[t].awaited
  BY <1>2 DEF CalendarInv
<1>8. Calendars(E, S)!SyncOnlyAdds
  BY <1>2 DEF Calendars!SyncOnlyAdds
<1> QED
  BY <1>4, <1>5, <1>6, <1>7, <1>8 DEF CalendarInv

\* What loadCalendar leaves of a page.
LEMMA LoadedTyped ==
  ASSUME NEW E, NEW S, a \in Calendars(E, S)!CalendarFiles, NEW p \in Calendars(E, S)!Pages,
         NEW q \in Calendars(E, S)!Loaded(p)
  PROVE  q \in Calendars(E, S)!Pages /\ q.conn = p.conn /\ q.missed = p.missed
<1> DEFINE none == {}
<1>1. /\ a.events \in SUBSET Calendars(E, S)!Entries /\ a.accounts \in Calendars(E, S)!AccountFiles
      /\ none \in SUBSET Calendars(E, S)!Entries
  BY DEF Calendars!CalendarFiles
<1>2. Calendars(E, S)!NoAccounts \in Calendars(E, S)!AccountFiles
  BY DEF Calendars!NoAccounts, Calendars!AccountFiles
<1> HIDE DEF none
<1>3. ASSUME NEW shown \in SUBSET Calendars(E, S)!Entries, NEW accounts \in Calendars(E, S)!AccountFiles,
             q = [p EXCEPT !.shown = shown, !.accounts = accounts, !.loading = FALSE]
      PROVE  q \in Calendars(E, S)!Pages /\ q.conn = p.conn /\ q.missed = p.missed
  BY <1>3 DEF Calendars!Pages
<1>4. CASE q = [p EXCEPT !.loading = FALSE]
  BY <1>4 DEF Calendars!Pages
<1>5. q = [p EXCEPT !.loading = FALSE] \/
      \E shown \in {a.events, none}, accounts \in {a.accounts, Calendars(E, S)!NoAccounts} :
         q = [p EXCEPT !.shown = shown, !.accounts = accounts, !.loading = FALSE]
  BY DEF Calendars!Loaded, none
<1> QED
  BY <1>1, <1>2, <1>3, <1>4, <1>5

LEMMA CalendarLoads ==
  ASSUME NEW E, NEW S, CalendarInv(E, S), Calendars(E, S)!LoadCalendar
  PROVE  CalendarInv(E, S)' /\ Calendars(E, S)!SyncOnlyAdds
<1>1. a \in Calendars(E, S)!CalendarFiles /\ b \in Calendars(E, S)!Pages /\ d \subseteq E
  BY DEF CalendarInv, Calendars!CalendarTypeOK
<1>2. a' = a /\ c' = c /\ d' = d /\ b' \in Calendars(E, S)!Loaded(b)
  BY DEF Calendars!LoadCalendar
<1>3. b' \in Calendars(E, S)!Pages /\ b'.conn = b.conn /\ b'.missed = b.missed
  BY <1>1, <1>2, LoadedTyped
<1> QED
  BY <1>1, <1>2, <1>3, PageMoves

LEMMA AccountAdded ==
  ASSUME NEW E, NEW S, CalendarInv(E, S), NEW x \in CalAccounts, Calendars(E, S)!AddAccount(x)
  PROVE  CalendarInv(E, S)' /\ Calendars(E, S)!SyncOnlyAdds
<1> DEFINE next == [b.accounts EXCEPT ![x] = IF @ = "none" THEN "on" ELSE @]
           conn == [b.conn EXCEPT ![x] = IF b.accounts[x] = "none" THEN @ ELSE "idle"]
<1>1. /\ a \in Calendars(E, S)!CalendarFiles /\ b \in Calendars(E, S)!Pages /\ d \subseteq E
      /\ b.accounts \in Calendars(E, S)!AccountFiles
      /\ b.conn \in [CalAccounts -> {"idle", "connecting", "connected", "error"}]
  BY DEF CalendarInv, Calendars!CalendarTypeOK, Calendars!Pages
<1>2. a' = [a EXCEPT !.accounts = next] /\ b' = [b EXCEPT !.accounts = next, !.conn = conn] /\ c' = c /\ d' = d
  BY <1>1 DEF Calendars!AddAccount, Calendars!Pages
<1>3. next \in Calendars(E, S)!AccountFiles
  BY <1>1 DEF Calendars!AccountFiles
<1>4. /\ conn \in [CalAccounts -> {"idle", "connecting", "connected", "error"}]
      /\ \A y \in CalAccounts : conn[y] = "connecting" => b.conn[y] = "connecting"
  BY <1>1
<1> HIDE DEF next, conn
<1>5. a' \in Calendars(E, S)!CalendarFiles /\ a'.events = a.events
  BY <1>1, <1>2, <1>3 DEF Calendars!CalendarFiles
<1>6. b' \in Calendars(E, S)!Pages /\ b'.conn = conn /\ b'.missed = b.missed
  BY <1>1, <1>2, <1>3, <1>4 DEF Calendars!Pages
<1> QED
  BY <1>1, <1>2, <1>4, <1>5, <1>6, PageMoves

\* The events of the page are stored.
LEMMA EventsSaved ==
  ASSUME NEW E, NEW S, CalendarInv(E, S), NEW next \in SUBSET Calendars(E, S)!Entries,
         NEW p \in Calendars(E, S)!Pages, p.conn = b.conn, p.missed = b.missed,
         Calendars(E, S)!SaveEvents(next, p), d' = d
  PROVE  CalendarInv(E, S)' /\ Calendars(E, S)!SyncOnlyAdds
<1>1. a \in Calendars(E, S)!CalendarFiles /\ d \subseteq E
  BY DEF CalendarInv, Calendars!CalendarTypeOK
<1>2. /\ a' = [a EXCEPT !.events = next] /\ b' = [p EXCEPT !.shown = next]
      /\ c' = [s \in S |-> [c[s] EXCEPT !.current = FALSE]]
  BY DEF Calendars!SaveEvents
<1>3. a' \in Calendars(E, S)!CalendarFiles
  BY <1>1, <1>2 DEF Calendars!CalendarFiles
<1>4. b' \in Calendars(E, S)!Pages /\ b'.conn = p.conn /\ b'.missed = p.missed
  BY <1>2 DEF Calendars!Pages
<1> QED
  BY <1>1, <1>2, <1>3, <1>4, PageMoves

LEMMA PageEntriesTyped ==
  ASSUME NEW E, NEW S, NEW e \in E, NEW known \in BOOLEAN
  PROVE  Calendars(E, S)!PageEntry(e, known) \in Calendars(E, S)!Entries
BY DEF Calendars!PageEntry, Calendars!Entries, Calendars!AllEvents

LEMMA EventAdded ==
  ASSUME NEW E, NEW S, CalendarInv(E, S), NEW e \in E, Calendars(E, S)!AddEvent(e)
  PROVE  CalendarInv(E, S)' /\ Calendars(E, S)!SyncOnlyAdds
<1> DEFINE next == b.shown \cup {Calendars(E, S)!PageEntry(e, FALSE)}
           push == [event |-> e, next |-> next]
<1>1. /\ b \in Calendars(E, S)!Pages /\ b.shown \in SUBSET Calendars(E, S)!Entries /\ b.made \in SUBSET E
      /\ b.pushes \in SUBSET Calendars(E, S)!Pushes
  BY DEF CalendarInv, Calendars!CalendarTypeOK, Calendars!Pages
<1>2. next \in SUBSET Calendars(E, S)!Entries
  BY <1>1, PageEntriesTyped
<1>3. PICK pushes \in {{}, {push}} :
        Calendars(E, S)!SaveEvents(next, [b EXCEPT !.made = @ \cup {e}, !.pushes = @ \cup pushes])
  BY DEF Calendars!AddEvent
<1>4. d' = d
  BY DEF Calendars!AddEvent
<1> HIDE DEF next
<1>5. push \in Calendars(E, S)!Pushes
  BY <1>2 DEF Calendars!Pushes
<1> DEFINE made == b.made \cup {e}
           all == b.pushes \cup pushes
           p == [b EXCEPT !.made = made, !.pushes = all]
<1>6. made \in SUBSET E /\ all \in SUBSET Calendars(E, S)!Pushes
  BY <1>1, <1>5
<1>7. Calendars(E, S)!SaveEvents(next, p)
  BY <1>3
<1> HIDE DEF made, all
<1>8. p \in Calendars(E, S)!Pages /\ p.conn = b.conn /\ p.missed = b.missed
  BY <1>1, <1>6 DEF Calendars!Pages
<1> HIDE DEF p
<1> QED
  BY <1>2, <1>4, <1>7, <1>8, EventsSaved

LEMMA PushEnds ==
  ASSUME NEW E, NEW S, CalendarInv(E, S), NEW p \in b.pushes,
         Calendars(E, S)!PushTaken(p) \/ Calendars(E, S)!PushAnswered(p)
  PROVE  CalendarInv(E, S)' /\ Calendars(E, S)!SyncOnlyAdds
<1> DEFINE pushes == b.pushes \ {p}
           rest == [b EXCEPT !.pushes = pushes]
           next == (p.next \ {Calendars(E, S)!PageEntry(p.event, FALSE)}) \cup {Calendars(E, S)!PageEntry(p.event, TRUE)}
<1>1. /\ a \in Calendars(E, S)!CalendarFiles /\ b \in Calendars(E, S)!Pages /\ d \subseteq E
      /\ b.pushes \in SUBSET Calendars(E, S)!Pushes
  BY DEF CalendarInv, Calendars!CalendarTypeOK, Calendars!Pages
<1>2. p.event \in E /\ p.next \in SUBSET Calendars(E, S)!Entries
  BY <1>1 DEF Calendars!Pushes
<1>3. next \in SUBSET Calendars(E, S)!Entries
  <2>1. FALSE \in BOOLEAN /\ TRUE \in BOOLEAN
    OBVIOUS
  <2>2. Calendars(E, S)!PageEntry(p.event, TRUE) \in Calendars(E, S)!Entries
    BY <1>2, <2>1, PageEntriesTyped
  <2> QED
    BY <1>2, <2>2
<1>4. pushes \in SUBSET Calendars(E, S)!Pushes
  BY <1>1
<1>5. CASE Calendars(E, S)!PushTaken(p)
  <2>1. a' = a /\ b' = b /\ c' = c /\ d' = d \cup {p.event}
    BY <1>5 DEF Calendars!PushTaken
  <2>2. d' \subseteq E
    BY <1>1, <1>2, <2>1
  <2>3. a' \in Calendars(E, S)!CalendarFiles /\ b' \in Calendars(E, S)!Pages /\ b.missed \subseteq b'.missed
    BY <1>1, <2>1
  <2> QED
    BY <2>1, <2>2, <2>3, PageMoves
<1>6. CASE Calendars(E, S)!PushAnswered(p)
  <2>1. /\ d' = d
        /\ \/ Calendars(E, S)!SaveEvents(next, rest)
           \/ b' = rest /\ a' = a /\ c' = c
    BY <1>6 DEF Calendars!PushAnswered
  <2> HIDE DEF next, pushes
  <2>2. rest \in Calendars(E, S)!Pages /\ rest.conn = b.conn /\ rest.missed = b.missed
    BY <1>1, <1>4 DEF Calendars!Pages
  <2> HIDE DEF rest
  <2>3. CASE Calendars(E, S)!SaveEvents(next, rest)
    BY <1>3, <2>1, <2>2, <2>3, EventsSaved
  <2>4. CASE b' = rest /\ a' = a /\ c' = c
    BY <1>1, <2>1, <2>2, <2>4, PageMoves
  <2> QED
    BY <2>1, <2>3, <2>4
<1> QED
  BY <1>5, <1>6

LEMMA SyncIsCalled ==
  ASSUME NEW E, NEW S, CalendarInv(E, S), NEW s \in S, NEW targets \in SUBSET CalAccounts,
         NEW scope \in SUBSET CalAccounts, Calendars(E, S)!SyncCalendars(s, targets, scope)
  PROVE  CalendarInv(E, S)' /\ Calendars(E, S)!SyncOnlyAdds
<1> DEFINE conn == Calendars(E, S)!Connections(targets, "connecting")
           missed == b.missed \ targets
           new == [Calendars(E, S)!IdleSync EXCEPT !.at = "called", !.awaited = TRUE, !.targets = targets, !.scope = scope]
<1>1. /\ b \in Calendars(E, S)!Pages /\ b.missed \in SUBSET CalAccounts /\ c \in [S -> Calendars(E, S)!SyncStates]
      /\ b.conn \in [CalAccounts -> {"idle", "connecting", "connected", "error"}]
  BY DEF CalendarInv, Calendars!CalendarTypeOK, Calendars!Pages
<1>2. /\ c[s].at = "idle" /\ a' = a /\ d' = d /\ c' = [c EXCEPT ![s] = new]
      /\ b' = [b EXCEPT !.conn = conn, !.missed = missed, !.syncing = TRUE]
  BY <1>1 DEF Calendars!SyncCalendars, Calendars!Pages
<1>3. /\ conn \in [CalAccounts -> {"idle", "connecting", "connected", "error"}]
      /\ \A x \in CalAccounts \ targets : conn[x] = b.conn[x]
  BY <1>1 DEF Calendars!Connections
<1>4. missed \in SUBSET CalAccounts /\ \A x \in CalAccounts \ missed : x \in targets \/ x \notin b.missed
  BY <1>1
<1>5. /\ new \in Calendars(E, S)!SyncStates /\ new.at = "called" /\ new.awaited = TRUE /\ new.targets = targets
  BY IdleSyncTyped DEF Calendars!SyncStates
<1> HIDE DEF conn, missed, new
<1>6. b' \in Calendars(E, S)!Pages /\ b'.conn = conn /\ b'.missed = missed
  BY <1>1, <1>2, <1>3, <1>4 DEF Calendars!Pages
<1>7. c' \in [S -> Calendars(E, S)!SyncStates] /\ c'[s] = new /\ \A t \in S \ {s} : c'[t] = c[t]
  BY <1>1, <1>2, <1>5
<1>8. Calendars(E, S)!CalendarTypeOK'
  BY <1>2, <1>6, <1>7 DEF CalendarInv, Calendars!CalendarTypeOK
<1>9. Calendars(E, S)!ReadIsMerged'
  BY <1>2, <1>5, <1>7 DEF CalendarInv, Calendars!ReadIsMerged
<1>10. ASSUME NEW x \in CalAccounts \ missed, conn[x] = "connecting"
       PROVE  \E t \in S : c'[t].awaited /\ x \in c'[t].targets
  <2>1. CASE x \in targets
    BY <1>5, <1>7, <2>1
  <2>2. CASE x \notin targets
    <3>1. b.conn[x] = "connecting" /\ x \notin b.missed
      BY <1>3, <1>4, <1>10, <2>2
    <3>2. PICK t \in S : c[t].awaited /\ x \in c[t].targets
      BY <3>1 DEF CalendarInv, Calendars!NoEndlessConnecting
    <3>3. t # s
      BY <1>2, <3>2 DEF CalendarInv
    <3> QED
      BY <1>7, <3>2, <3>3
  <2> QED
    BY <2>1, <2>2
<1>11. Calendars(E, S)!NoEndlessConnecting'
  BY <1>6, <1>10 DEF Calendars!NoEndlessConnecting
<1>12. \A t \in S : c'[t].at = "idle" => ~c'[t].awaited
  BY <1>5, <1>7 DEF CalendarInv
<1>13. Calendars(E, S)!SyncOnlyAdds
  BY <1>2 DEF Calendars!SyncOnlyAdds
<1> QED
  BY <1>8, <1>9, <1>11, <1>12, <1>13 DEF CalendarInv

LEMMA SyncIsAnswered ==
  ASSUME NEW E, NEW S, CalendarInv(E, S), NEW s \in S, Calendars(E, S)!SyncAnswered(s)
  PROVE  CalendarInv(E, S)' /\ Calendars(E, S)!SyncOnlyAdds
<1> DEFINE sync == c[s]
           conn == [x \in CalAccounts |-> IF x \in sync.failed THEN "error"
                                       ELSE IF x \in sync.scope THEN "connected" ELSE b.conn[x]]
           missed == b.missed \cup (sync.targets \ sync.scope)
           p == [b EXCEPT !.conn = conn, !.missed = missed, !.syncing = FALSE]
           idle == Calendars(E, S)!IdleSync
<1>1. /\ b \in Calendars(E, S)!Pages /\ b.missed \in SUBSET CalAccounts /\ c \in [S -> Calendars(E, S)!SyncStates]
      /\ b.conn \in [CalAccounts -> {"idle", "connecting", "connected", "error"}]
      /\ sync \in Calendars(E, S)!SyncStates /\ a \in Calendars(E, S)!CalendarFiles
  BY DEF CalendarInv, Calendars!CalendarTypeOK, Calendars!Pages
<1>2. /\ sync.at = "done" /\ a' = a /\ d' = d /\ c' = [c EXCEPT ![s] = idle]
      /\ b' \in Calendars(E, S)!Loaded(p)
  BY <1>1 DEF Calendars!SyncAnswered, Calendars!Pages
<1>3. /\ conn \in [CalAccounts -> {"idle", "connecting", "connected", "error"}]
      /\ \A x \in CalAccounts : conn[x] = "connecting" => x \notin sync.scope /\ b.conn[x] = "connecting"
  BY <1>1
<1>4. /\ missed \in SUBSET CalAccounts
      /\ \A x \in CalAccounts \ missed : x \notin b.missed /\ (x \in sync.targets => x \in sync.scope)
  BY <1>1 DEF Calendars!SyncStates
<1> HIDE DEF conn, missed
<1>5. p \in Calendars(E, S)!Pages /\ p.conn = conn /\ p.missed = missed
  BY <1>1, <1>3, <1>4 DEF Calendars!Pages
<1> HIDE DEF p
<1>6. b' \in Calendars(E, S)!Pages /\ b'.conn = conn /\ b'.missed = missed
  BY <1>1, <1>2, <1>5, LoadedTyped
<1>7. idle \in Calendars(E, S)!SyncStates /\ idle.at = "idle" /\ ~idle.awaited
  BY IdleSyncTyped
<1> HIDE DEF idle
<1>8. c' \in [S -> Calendars(E, S)!SyncStates] /\ c'[s] = idle /\ \A t \in S \ {s} : c'[t] = c[t]
  BY <1>1, <1>2, <1>7
<1>9. Calendars(E, S)!CalendarTypeOK'
  BY <1>2, <1>6, <1>8 DEF CalendarInv, Calendars!CalendarTypeOK
<1>10. Calendars(E, S)!ReadIsMerged'
  BY <1>2, <1>7, <1>8 DEF CalendarInv, Calendars!ReadIsMerged
<1>11. ASSUME NEW x \in CalAccounts \ missed, conn[x] = "connecting"
       PROVE  \E t \in S : c'[t].awaited /\ x \in c'[t].targets
  <2>1. b.conn[x] = "connecting" /\ x \notin b.missed /\ x \notin sync.targets
    BY <1>3, <1>4, <1>11
  <2>2. PICK t \in S : c[t].awaited /\ x \in c[t].targets
    BY <2>1 DEF CalendarInv, Calendars!NoEndlessConnecting
  <2> QED
    BY <1>8, <2>1, <2>2
<1>12. Calendars(E, S)!NoEndlessConnecting'
  BY <1>6, <1>11 DEF Calendars!NoEndlessConnecting
<1>13. \A t \in S : c'[t].at = "idle" => ~c'[t].awaited
  BY <1>7, <1>8 DEF CalendarInv
<1>14. Calendars(E, S)!SyncOnlyAdds
  BY <1>2 DEF Calendars!SyncOnlyAdds
<1> QED
  BY <1>9, <1>10, <1>12, <1>13, <1>14 DEF CalendarInv

LEMMA SyncIsGivenUp ==
  ASSUME NEW E, NEW S, CalendarInv(E, S), NEW s \in S, Calendars(E, S)!SyncFailed(s)
  PROVE  CalendarInv(E, S)' /\ Calendars(E, S)!SyncOnlyAdds
<1> DEFINE conn == Calendars(E, S)!Connections(c[s].targets, "error")
           new == IF c[s].at = "failed" THEN Calendars(E, S)!IdleSync ELSE [c[s] EXCEPT !.awaited = FALSE]
<1>1. /\ b \in Calendars(E, S)!Pages /\ c \in [S -> Calendars(E, S)!SyncStates]
      /\ b.conn \in [CalAccounts -> {"idle", "connecting", "connected", "error"}]
      /\ c[s] \in Calendars(E, S)!SyncStates
  BY DEF CalendarInv, Calendars!CalendarTypeOK, Calendars!Pages
<1>2. /\ a' = a /\ d' = d /\ c' = [c EXCEPT ![s] = new]
      /\ b' = [b EXCEPT !.conn = conn, !.syncing = FALSE]
  BY <1>1 DEF Calendars!SyncFailed
<1>3. /\ conn \in [CalAccounts -> {"idle", "connecting", "connected", "error"}]
      /\ \A x \in CalAccounts : conn[x] = "connecting" => x \notin c[s].targets /\ b.conn[x] = "connecting"
  BY <1>1 DEF Calendars!Connections
<1>4. /\ new \in Calendars(E, S)!SyncStates /\ ~new.awaited
      /\ \/ new.at = c[s].at /\ new.current = c[s].current /\ new.merged = c[s].merged
         \/ new.at = "idle" /\ c[s].at = "failed"
  <2>1. CASE c[s].at = "failed"
    BY <2>1, IdleSyncTyped
  <2>2. CASE c[s].at # "failed"
    <3> DEFINE left == [c[s] EXCEPT !.awaited = FALSE]
    <3>1. new = left
      BY <2>2
    <3>2. /\ left \in Calendars(E, S)!SyncStates /\ ~left.awaited /\ left.at = c[s].at
          /\ left.current = c[s].current /\ left.merged = c[s].merged
      BY <1>1 DEF Calendars!SyncStates
    <3> HIDE DEF left, new
    <3> QED
      BY <3>1, <3>2
  <2> QED
    BY <2>1, <2>2
<1> HIDE DEF conn, new
<1>5. b' \in Calendars(E, S)!Pages /\ b'.conn = conn /\ b'.missed = b.missed
  BY <1>1, <1>2, <1>3 DEF Calendars!Pages
<1>6. c' \in [S -> Calendars(E, S)!SyncStates] /\ c'[s] = new /\ \A t \in S \ {s} : c'[t] = c[t]
  BY <1>1, <1>2, <1>4
<1>7. Calendars(E, S)!CalendarTypeOK'
  BY <1>2, <1>5, <1>6 DEF CalendarInv, Calendars!CalendarTypeOK
<1>8. Calendars(E, S)!ReadIsMerged'
  BY <1>2, <1>4, <1>6 DEF CalendarInv, Calendars!ReadIsMerged
<1>9. ASSUME NEW x \in CalAccounts \ b.missed, conn[x] = "connecting"
      PROVE  \E t \in S : c'[t].awaited /\ x \in c'[t].targets
  <2>1. b.conn[x] = "connecting" /\ x \notin c[s].targets
    BY <1>3, <1>9
  <2>2. PICK t \in S : c[t].awaited /\ x \in c[t].targets
    BY <2>1 DEF CalendarInv, Calendars!NoEndlessConnecting
  <2> QED
    BY <1>6, <2>1, <2>2
<1>10. Calendars(E, S)!NoEndlessConnecting'
  BY <1>5, <1>9 DEF Calendars!NoEndlessConnecting
<1>11. \A t \in S : c'[t].at = "idle" => ~c'[t].awaited
  BY <1>4, <1>6 DEF CalendarInv
<1>12. Calendars(E, S)!SyncOnlyAdds
  BY <1>2 DEF Calendars!SyncOnlyAdds
<1> QED
  BY <1>7, <1>8, <1>10, <1>11, <1>12 DEF CalendarInv

LEMMA CalendarStep ==
  ASSUME NEW E, NEW S, CalendarInv(E, S), [Calendars(E, S)!CalendarNext]_<<a, b, c, d>>
  PROVE  CalendarInv(E, S)' /\ Calendars(E, S)!SyncOnlyAdds
<1>1. CASE UNCHANGED <<a, b, c, d>>
  BY <1>1, PageMoves DEF CalendarInv, Calendars!CalendarTypeOK
<1>2. ASSUME NEW s \in S,
             Calendars(E, S)!BeginSync(s) \/ Calendars(E, S)!ImportEvents(s) \/ Calendars(E, S)!WriteMerged(s)
      PROVE  CalendarInv(E, S)' /\ Calendars(E, S)!SyncOnlyAdds
  <2>1. CASE Calendars(E, S)!BeginSync(s) \/ Calendars(E, S)!ImportEvents(s)
    <3>1. CalendarInv(E, S)' /\ \A t \in S : c[t].at = "writes" => c'[t].at = "writes"
      BY <2>1, SyncBegins, SyncImports
    <3> QED
      BY <3>1 DEF Calendars!SyncOnlyAdds
  <2> QED
    BY <1>2, <2>1, SyncWrites
<1>3. ASSUME NEW s \in S, Calendars(E, S)!SyncAnswered(s) \/ Calendars(E, S)!SyncFailed(s)
      PROVE  CalendarInv(E, S)' /\ Calendars(E, S)!SyncOnlyAdds
  BY <1>3, SyncIsAnswered, SyncIsGivenUp
<1>4. ASSUME NEW s \in S, NEW targets \in SUBSET CalAccounts, NEW scope \in SUBSET CalAccounts,
             Calendars(E, S)!SyncCalendars(s, targets, scope)
      PROVE  CalendarInv(E, S)' /\ Calendars(E, S)!SyncOnlyAdds
  BY <1>4, SyncIsCalled
<1> QED
  BY <1>1, <1>2, <1>3, <1>4, CalendarLoads, AccountAdded, EventAdded, PushEnds DEF Calendars!CalendarNext

LEMMA CalendarStart ==
  ASSUME NEW E, NEW S, Calendars(E, S)!CalendarInit
  PROVE  CalendarInv(E, S)
<1> DEFINE none == {}
           accounts == Calendars(E, S)!NoAccounts
           conn == [x \in CalAccounts |-> "idle"]
           idle == Calendars(E, S)!IdleSync
<1>1. /\ none \in SUBSET CalAccounts /\ none \in SUBSET Calendars(E, S)!Entries /\ none \in SUBSET E
      /\ none \in SUBSET Calendars(E, S)!Pushes
  OBVIOUS
<1>2. accounts \in Calendars(E, S)!AccountFiles
  BY DEF Calendars!NoAccounts, Calendars!AccountFiles
<1>3. conn \in [CalAccounts -> {"idle", "connecting", "connected", "error"}] /\ \A x \in CalAccounts : conn[x] = "idle"
  OBVIOUS
<1>4. idle \in Calendars(E, S)!SyncStates /\ idle.at = "idle" /\ ~idle.awaited
  BY IdleSyncTyped
<1>5. /\ \E first \in Calendars(E, S)!AccountFiles : a = [events |-> none, accounts |-> first]
      /\ b = [shown |-> none, accounts |-> accounts, made |-> none, pushes |-> none,
              conn |-> conn, missed |-> none, loading |-> TRUE, syncing |-> FALSE]
      /\ c = [s \in S |-> idle] /\ d = none
  BY DEF Calendars!CalendarInit
<1> HIDE DEF none, accounts, conn, idle
<1>6. a \in Calendars(E, S)!CalendarFiles
  BY <1>1, <1>5 DEF Calendars!CalendarFiles
<1>7. b \in Calendars(E, S)!Pages /\ b.conn = conn
  BY <1>1, <1>2, <1>3, <1>5 DEF Calendars!Pages
<1>8. c \in [S -> Calendars(E, S)!SyncStates] /\ \A s \in S : c[s] = idle
  BY <1>4, <1>5
<1>9. Calendars(E, S)!CalendarTypeOK
  BY <1>1, <1>5, <1>6, <1>7, <1>8 DEF Calendars!CalendarTypeOK
<1>10. Calendars(E, S)!ReadIsMerged
  BY <1>4, <1>8 DEF Calendars!ReadIsMerged
<1>11. Calendars(E, S)!NoEndlessConnecting
  BY <1>3, <1>7 DEF Calendars!NoEndlessConnecting
<1> QED
  BY <1>4, <1>8, <1>9, <1>10, <1>11 DEF CalendarInv

-----------------------------------------------------------------------------
(* The run of the services: each component keeps its own invariant, and    *)
(* only the one in focus moves.                                            *)

\* What each component keeps: its types and why its properties hold.
ServicesInv ==
  /\ focus \in {"store", "routines", "host", "todo", "board", "harness", "mcp", "r1", "settings", "vault",
                "memory", "secrets", "access", "library", "mail", "calendar", "syncs", "welcome"}
  /\ focus = "store" => StoreInv
  /\ focus = "routines" => RoutinesInv
  /\ focus = "host" => HostInv
  /\ focus = "todo" => TodoInv(Three, Keys, {}, 0)
  /\ focus = "board" => TodoInv(Two, NoKeys, {"l1"}, 1)
  /\ focus = "harness" => HarnessInv
  /\ focus = "mcp" => McpInv
  /\ focus = "r1" => R1Inv
  /\ focus = "settings" => SettingsInv
  /\ focus = "vault" => AVault!VaultTypeOK /\ AVault!StreamIsOfRoot /\ AVault!LineAtTheEnd
  /\ focus = "memory" => /\ AMemory!MemoryTypeOK /\ AMemory!ContextTypeOK
                         /\ AMemory!RevocationIsLogged /\ AMemory!ConfirmedIsNotTaken /\ AMemory!GivenWasNotTaken
  /\ focus = "secrets" => ASecret!SecretTypeOK /\ ASecret!UnlockedIsStored
  /\ focus = "access" => AnAccess!AccessTypeOK /\ AnAccess!ConsumedBeforeSent
  /\ focus = "library" => ALibrary!LibraryTypeOK /\ ALibrary!ReceiptIsKept
  /\ focus = "mail" => AMail!MailTypeOK /\ AMail!CursorsBehind
  /\ focus = "calendar" => CalendarInv(PageEvents, OneSync)
  /\ focus = "syncs" => CalendarInv({}, TwoSyncs)
  /\ focus = "welcome" => WelcomeInv

LEMMA ServicesStart == ServicesInit => ServicesInv
<1> SUFFICES ASSUME ServicesInit PROVE ServicesInv
  OBVIOUS
<1>1. focus \in {"store", "routines", "host", "todo", "board", "harness", "mcp", "r1", "settings", "vault",
                 "memory", "secrets", "access", "library", "mail", "calendar", "syncs", "welcome"}
  BY DEF ServicesInit
<1>2. /\ focus = "store" => StoreInv
      /\ focus = "routines" => RoutinesInv
      /\ focus = "host" => HostInv
  BY StartsAlone, StoreStarts, RoutinesStart, HostStarts
<1>3. focus = "todo" => TodoInv(Three, Keys, {}, 0)
  BY StartsAlone, TodoStart
<1>4. focus = "board" => TodoInv(Two, NoKeys, {"l1"}, 1)
  BY StartsAlone, TodoStart
<1>5. /\ focus = "harness" => HarnessInv
      /\ focus = "mcp" => McpInv
      /\ focus = "r1" => R1Inv
      /\ focus = "settings" => SettingsInv
      /\ focus = "welcome" => WelcomeInv
  BY StartsAlone, HarnessStart, McpStart, R1Start, SettingsStart, WelcomeStarts
<1>6. /\ focus = "vault" => AVault!VaultTypeOK /\ AVault!StreamIsOfRoot /\ AVault!LineAtTheEnd
      /\ focus = "memory" => /\ AMemory!MemoryTypeOK /\ AMemory!ContextTypeOK
                             /\ AMemory!RevocationIsLogged /\ AMemory!ConfirmedIsNotTaken /\ AMemory!GivenWasNotTaken
      /\ focus = "secrets" => ASecret!SecretTypeOK /\ ASecret!UnlockedIsStored
      /\ focus = "access" => AnAccess!AccessTypeOK /\ AnAccess!ConsumedBeforeSent
      /\ focus = "library" => ALibrary!LibraryTypeOK /\ ALibrary!ReceiptIsKept
      /\ focus = "mail" => AMail!MailTypeOK /\ AMail!CursorsBehind
  BY StartsAlone, VaultStarts, MemoryStarts, SecretsStart, AccessStarts, LibraryStarts, MailStarts
<1>7. focus = "calendar" => CalendarInv(PageEvents, OneSync)
  BY StartsAlone, CalendarStart
<1>8. focus = "syncs" => CalendarInv({}, TwoSyncs)
  BY StartsAlone, CalendarStart
<1> QED
  BY <1>1, <1>2, <1>3, <1>4, <1>5, <1>6, <1>7, <1>8 DEF ServicesInv

LEMMA ServicesStep == ServicesInv /\ [ServicesNext]_serviceVars => ServicesInv'
<1> SUFFICES ASSUME ServicesInv, [ServicesNext]_serviceVars PROVE ServicesInv'
  OBVIOUS
<1>1. focus' = focus
  BY MovesAlone
<1>2. focus = "store" => StoreInv'
  BY MovesAlone, StoreStep DEF ServicesInv
<1>3. focus = "routines" => RoutinesInv'
  BY MovesAlone, RoutinesStep DEF ServicesInv
<1>4. focus = "host" => HostInv'
  BY MovesAlone, HostStep DEF ServicesInv
<1>5. focus = "todo" => TodoInv(Three, Keys, {}, 0)'
  <2> SUFFICES ASSUME focus = "todo" PROVE TodoInv(Three, Keys, {}, 0)'
    OBVIOUS
  <2>1. TodoInv(Three, Keys, {}, 0) /\ [Todos(Three, Keys, {}, 0)!TodoNext]_<<a, b, c>>
    BY MovesAlone DEF ServicesInv
  <2>2. Three # {}
    BY DEF Three
  <2> QED
    BY <2>1, <2>2, TodoStep
<1>6. focus = "board" => TodoInv(Two, NoKeys, {"l1"}, 1)'
  <2> SUFFICES ASSUME focus = "board" PROVE TodoInv(Two, NoKeys, {"l1"}, 1)'
    OBVIOUS
  <2>1. TodoInv(Two, NoKeys, {"l1"}, 1) /\ [Todos(Two, NoKeys, {"l1"}, 1)!TodoNext]_<<a, b, c>>
    BY MovesAlone DEF ServicesInv
  <2>2. Two # {}
    BY DEF Two
  <2> QED
    BY <2>1, <2>2, TodoStep
<1>7. focus = "harness" => HarnessInv'
  BY MovesAlone, HarnessStep DEF ServicesInv, HarnessInv
<1>8. focus = "mcp" => McpInv'
  BY MovesAlone, McpStep DEF ServicesInv, McpInv
<1>9. focus = "r1" => R1Inv'
  BY MovesAlone, R1Step DEF ServicesInv, R1Inv
<1>10. focus = "settings" => SettingsInv'
  BY MovesAlone, SettingsStep DEF ServicesInv
<1>11. focus = "vault" => (AVault!VaultTypeOK /\ AVault!StreamIsOfRoot /\ AVault!LineAtTheEnd)'
  BY MovesAlone, VaultStep DEF ServicesInv
<1>12. focus = "memory" => (/\ AMemory!MemoryTypeOK /\ AMemory!ContextTypeOK
                            /\ AMemory!RevocationIsLogged /\ AMemory!ConfirmedIsNotTaken /\ AMemory!GivenWasNotTaken)'
  BY MovesAlone, MemoryStep DEF ServicesInv
<1>13. focus = "secrets" => (ASecret!SecretTypeOK /\ ASecret!UnlockedIsStored)'
  BY MovesAlone, SecretStep DEF ServicesInv
<1>14. focus = "access" => (AnAccess!AccessTypeOK /\ AnAccess!ConsumedBeforeSent)'
  BY MovesAlone, AccessStep DEF ServicesInv
<1>15. focus = "library" => (ALibrary!LibraryTypeOK /\ ALibrary!ReceiptIsKept)'
  BY MovesAlone, LibraryStep DEF ServicesInv
<1>16. focus = "mail" => (AMail!MailTypeOK /\ AMail!CursorsBehind)'
  BY MovesAlone, MailTyped, CursorsStayBehind DEF ServicesInv
<1>17. focus = "calendar" => CalendarInv(PageEvents, OneSync)'
  <2> SUFFICES ASSUME focus = "calendar" PROVE CalendarInv(PageEvents, OneSync)'
    OBVIOUS
  <2>1. CalendarInv(PageEvents, OneSync) /\ [Calendars(PageEvents, OneSync)!CalendarNext]_<<a, b, c, d>>
    BY MovesAlone DEF ServicesInv
  <2> QED
    BY <2>1, CalendarStep
<1>18. focus = "syncs" => CalendarInv({}, TwoSyncs)'
  <2> SUFFICES ASSUME focus = "syncs" PROVE CalendarInv({}, TwoSyncs)'
    OBVIOUS
  <2>1. CalendarInv({}, TwoSyncs) /\ [Calendars({}, TwoSyncs)!CalendarNext]_<<a, b, c, d>>
    BY MovesAlone DEF ServicesInv
  <2> QED
    BY <2>1, CalendarStep
<1>19. focus = "welcome" => WelcomeInv'
  BY MovesAlone, WelcomeStep DEF ServicesInv
<1> QED
  BY <1>1, <1>2, <1>3, <1>4, <1>5, <1>6, <1>7, <1>8, <1>9, <1>10, <1>11, <1>12, <1>13, <1>14, <1>15, <1>16,
     <1>17, <1>18, <1>19 DEF ServicesInv

(* Every service keeps its types and what its properties rest on, whatever *)
(* its bounds, its to-dos, its accounts, its routines and its callers are. *)
THEOREM ServicesHold == ServicesSpec => []ServicesInv
  BY ServicesStart, ServicesStep, PTL DEF ServicesSpec

LEMMA InvariantTypes == ServicesInv => ServicesTypeOK
<1> SUFFICES ASSUME ServicesInv PROVE ServicesTypeOK
  OBVIOUS
<1>1. CASE focus = "store"
  <2>1. AStore!StoreTypeOK
    BY <1>1 DEF ServicesInv, StoreInv
  <2> QED
    BY <1>1, <2>1 DEF ServicesTypeOK
<1>2. CASE focus = "routines"
  <2>1. ATimer!RoutinesTypeOK
    BY <1>2 DEF ServicesInv, RoutinesInv
  <2> QED
    BY <1>2, <2>1 DEF ServicesTypeOK
<1>3. CASE focus = "host"
  <2>1. AHost!HostTypeOK
    BY <1>3 DEF ServicesInv, HostInv
  <2> QED
    BY <1>3, <2>1 DEF ServicesTypeOK
<1>4. CASE focus = "todo"
  <2>1. Todos(Three, Keys, {}, 0)!TodoTypeOK
    BY <1>4 DEF ServicesInv, TodoInv
  <2> QED
    BY <1>4, <2>1 DEF ServicesTypeOK
<1>5. CASE focus = "board"
  <2>1. Todos(Two, NoKeys, {"l1"}, 1)!TodoTypeOK
    BY <1>5 DEF ServicesInv, TodoInv
  <2> QED
    BY <1>5, <2>1 DEF ServicesTypeOK
<1>6. CASE focus = "harness"
  <2>1. AHarness!HarnessTypeOK
    BY <1>6 DEF ServicesInv, HarnessInv
  <2> QED
    BY <1>6, <2>1 DEF ServicesTypeOK
<1>7. CASE focus = "mcp"
  <2>1. AnMcp!McpTypeOK
    BY <1>7 DEF ServicesInv, McpInv
  <2> QED
    BY <1>7, <2>1 DEF ServicesTypeOK
<1>8. CASE focus = "r1"
  <2>1. AnR1!R1TypeOK
    BY <1>8 DEF ServicesInv, R1Inv
  <2> QED
    BY <1>8, <2>1 DEF ServicesTypeOK
<1>9. CASE focus = "settings"
  <2>1. ASettings!SettingsTypeOK
    BY <1>9, KeysAreKept DEF ServicesInv
  <2> QED
    BY <1>9, <2>1 DEF ServicesTypeOK
<1>10. CASE focus = "vault"
  <2>1. AVault!VaultTypeOK
    BY <1>10 DEF ServicesInv
  <2> QED
    BY <1>10, <2>1 DEF ServicesTypeOK
<1>11. CASE focus = "memory"
  <2>1. AMemory!MemoryTypeOK /\ AMemory!ContextTypeOK
    BY <1>11 DEF ServicesInv
  <2> QED
    BY <1>11, <2>1 DEF ServicesTypeOK
<1>12. CASE focus = "secrets"
  <2>1. ASecret!SecretTypeOK
    BY <1>12 DEF ServicesInv
  <2> QED
    BY <1>12, <2>1 DEF ServicesTypeOK
<1>13. CASE focus = "access"
  <2>1. AnAccess!AccessTypeOK
    BY <1>13 DEF ServicesInv
  <2> QED
    BY <1>13, <2>1 DEF ServicesTypeOK
<1>14. CASE focus = "library"
  <2>1. ALibrary!LibraryTypeOK
    BY <1>14 DEF ServicesInv
  <2> QED
    BY <1>14, <2>1 DEF ServicesTypeOK
<1>15. CASE focus = "mail"
  <2>1. AMail!MailTypeOK
    BY <1>15 DEF ServicesInv
  <2> QED
    BY <1>15, <2>1 DEF ServicesTypeOK
<1>16. CASE focus = "calendar"
  <2>1. Calendars(PageEvents, OneSync)!CalendarTypeOK
    BY <1>16 DEF ServicesInv, CalendarInv
  <2> QED
    BY <1>16, <2>1 DEF ServicesTypeOK
<1>17. CASE focus = "syncs"
  <2>1. Calendars({}, TwoSyncs)!CalendarTypeOK
    BY <1>17 DEF ServicesInv, CalendarInv
  <2> QED
    BY <1>17, <2>1 DEF ServicesTypeOK
<1>18. CASE focus = "welcome"
  <2>1. AWelcome!WelcomeTypeOK
    BY <1>18 DEF ServicesInv, WelcomeInv
  <2> QED
    BY <1>18, <2>1 DEF ServicesTypeOK
<1> QED
  BY <1>1, <1>2, <1>3, <1>4, <1>5, <1>6, <1>7, <1>8, <1>9, <1>10, <1>11, <1>12, <1>13, <1>14, <1>15, <1>16, <1>17, <1>18 DEF ServicesInv

(* Every variable of every service keeps its type.                         *)
THEOREM ServicesTypeCorrect == ServicesSpec => []ServicesTypeOK
  BY ServicesHold, InvariantTypes, PTL

(* As long as there is one data folder: a stored team queue that is        *)
(* restored, clean and not being written is what a restart needs           *)
(* (team.ts:632-645). In any case the file of the routines holds what      *)
(* memory holds once its writes are through (schedule.ts:227-311), and the *)
(* secrets that are served are those of the file (secrets.rs:316-366).     *)
THEOREM StoresStayWhole ==
  ASSUME OneFolder
  PROVE  ServicesSpec => []StoresAreWhole
<1>1. ServicesInv => StoresAreWhole
  BY FlushedIsStored, RoutinesHold DEF ServicesInv, StoresAreWhole
<1> QED
  BY <1>1, ServicesHold, PTL

(* In no hour, wherever it begins, does a routine start more turns than    *)
(* its limit, whatever is put, deleted, paused and fired meanwhile, for    *)
(* any routines, hour and limit (schedule.ts:309-323).                     *)
THEOREM TurnsStayCapped == ServicesSpec => []TurnsCapped
<1>1. ServicesInv => TurnsCapped
  BY RoutinesHold DEF ServicesInv, TurnsCapped
<1> QED
  BY <1>1, ServicesHold, PTL

(* No caller of the sidecar is left waiting by a process that died, and no *)
(* answer reaches another process than the one that asked, for any callers *)
(* and any number of processes (rpc.rs:202-216).                           *)
THEOREM TheLinkHolds == ServicesSpec => []LinkHolds
<1>1. ServicesInv => LinkHolds
  BY DEF ServicesInv, HostInv, LinkHolds
<1> QED
  BY <1>1, ServicesHold, PTL

(* A remote tool runs at most once, as it was approved (mcp.ts:183-243);   *)
(* after an abort no child runs on untold (harness.ts:192-270); a content  *)
(* run makes one model call at most (r1Engine.ts:324-365).                 *)
THEOREM EnginesStayObedient == ServicesSpec => []EnginesObey
<1>1. ServicesInv => EnginesObey
  BY DEF ServicesInv, McpInv, HarnessInv, R1Inv, EnginesObey
<1> QED
  BY <1>1, ServicesHold, PTL

(* As long as no two PUTs overlap and no file was left truncated, a        *)
(* reference in the settings stands for a key that is stored and that the  *)
(* master key decrypts, whichever write of a request fails                 *)
(* (httpServer.ts:116-131, 188-196).                                       *)
THEOREM RefsStayResolved == ServicesSpec => []RefsResolve
<1>1. ServicesInv => RefsResolve
  BY KeptResolves DEF ServicesInv, RefsResolve
<1> QED
  BY <1>1, ServicesHold, PTL

(* The line of a file operation is in the log of a folder chosen, or being *)
(* chosen, while it ran, as is the folder it acted in; there is none only  *)
(* if there was no folder, or the log could not be written, ended in a     *)
(* torn line or was given up: for any folders and any choices of them      *)
(* (vault.rs:352-378, 551-575; audit.rs:108-147).                          *)
THEOREM LinesStayHome == ServicesSpec => []AuditedAtHome
<1>1. ServicesInv => AuditedAtHome
  BY LinesAreAtHome DEF ServicesInv, AuditedAtHome
<1> QED
  BY <1>1, ServicesHold, PTL

(* As long as no crash cut the log off, a record rejected or deleted under *)
(* an id is not confirmed again under it, whatever the old files come to   *)
(* hold there, unless the user confirms it; a fact taken back is confirmed *)
(* again only by the user, or by an edit of the old files that states it   *)
(* under an id the log does not know, as a line that is renumbered does;   *)
(* and a context that the memory answered holds no fact taken back then:   *)
(* for any records and facts (memory.rs:305-425, 447, 518).                *)
THEOREM RevocationsLast == ServicesSpec => []RevokedStaysRevoked
<1>1. ServicesInv => RevokedStaysRevoked
  BY LoggedIsRevoked DEF ServicesInv, RevokedStaysRevoked
<1> QED
  BY <1>1, ServicesHold, PTL

(* A model lease leads to one request at most (gateway.rs:1199-1248), a    *)
(* receipt of the library stands for one input (import.rs:100-118), the    *)
(* points of a new user add up and no chat is asked twice                  *)
(* (welcome.rs:199-226), across retries and restarts.                      *)
THEOREM GrantsCountOnce == ServicesSpec => []OncePerGrant
<1>1. ServicesInv => OncePerGrant
  BY ConsumedIsSentOnce, ReceiptIsForOne, ReceiptAsksOnce DEF ServicesInv, WelcomeInv, OncePerGrant
<1> QED
  BY <1>1, ServicesHold, PTL

(* In the mailbox the account points at, no message up to the stored       *)
(* last_uid is skipped but those up to a last_uid that was brought along   *)
(* from another mailbox or a former numbering, for any number of messages  *)
(* and of fetches and pages that overlap, fail or die (mail.ts:459-496,    *)
(* 560-600).                                                               *)
THEOREM MailIsNotSkipped == ServicesSpec => []MailNotSkipped
<1>1. ServicesInv => MailNotSkipped
  BY MailIsHandled DEF ServicesInv, MailNotSkipped
<1> QED
  BY <1>1, ServicesHold, PTL

(* The to-do board is told and shows what the file holds                   *)
(* (TodoBoard.tsx:44-92), and the calendar page shows no account as        *)
(* connecting whose every sync was answered (CalendarView.tsx:268-305).    *)
THEOREM PagesStayTrue == ServicesSpec => []PagesTellTheTruth
<1>1. ServicesInv => PagesTellTheTruth
  BY DEF ServicesInv, TodoInv, CalendarInv, PagesTellTheTruth
<1> QED
  BY <1>1, ServicesHold, PTL

(* As long as there is one data folder, whose file could be read, no       *)
(* rewrite of the team queue reopens a task that is stored as ended, owes  *)
(* a told result again or brings back a forgotten task, and one that has   *)
(* forgotten a task has MaxHistory ended ones at least, for any tasks and  *)
(* any such limit (team.ts:565-571, 609-659); and a rewrite of the to-dos  *)
(* changes one item, drops none and keeps dedupe keys apart                *)
(* (todo.ts:112-118).                                                      *)
THEOREM RewritesGoOnward ==
  ASSUME OneFolder
  PROVE  ServicesSpec => OnlyOnward
<1>1. ServicesInv /\ [ServicesNext]_serviceVars =>
        [/\ focus = "store" => AStore!StoreMovesOnward
         /\ focus = "todo" => Todos(Three, Keys, {}, 0)!OneTodoAtATime
         /\ focus = "board" => Todos(Two, NoKeys, {"l1"}, 1)!OneTodoAtATime]_serviceVars
  <2> SUFFICES ASSUME ServicesInv, [ServicesNext]_serviceVars
               PROVE  /\ focus = "store" => AStore!StoreMovesOnward
                      /\ focus = "todo" => Todos(Three, Keys, {}, 0)!OneTodoAtATime
                      /\ focus = "board" => Todos(Two, NoKeys, {"l1"}, 1)!OneTodoAtATime
    OBVIOUS
  <2>1. focus = "store" => AStore!StoreMovesOnward
    BY MovesAlone, StoreStep DEF ServicesInv
  <2>2. ASSUME focus = "todo" PROVE Todos(Three, Keys, {}, 0)!OneTodoAtATime
    <3>1. TodoInv(Three, Keys, {}, 0) /\ [Todos(Three, Keys, {}, 0)!TodoNext]_<<a, b, c>>
      BY <2>2, MovesAlone DEF ServicesInv
    <3>2. Three # {}
      BY DEF Three
    <3> QED
      BY <3>1, <3>2, TodoStep
  <2>3. ASSUME focus = "board" PROVE Todos(Two, NoKeys, {"l1"}, 1)!OneTodoAtATime
    <3>1. TodoInv(Two, NoKeys, {"l1"}, 1) /\ [Todos(Two, NoKeys, {"l1"}, 1)!TodoNext]_<<a, b, c>>
      BY <2>3, MovesAlone DEF ServicesInv
    <3>2. Two # {}
      BY DEF Two
    <3> QED
      BY <3>1, <3>2, TodoStep
  <2> QED
    BY <2>1, <2>2, <2>3
<1> QED
  BY <1>1, ServicesHold, PTL DEF ServicesSpec, OnlyOnward

(* A business call releases what it read only while its session, and the   *)
(* lease it was called with, are still live (access.rs:429-468).           *)
THEOREM OnlyTheLivingAreServed == ServicesSpec => ReleasedWhileLive
<1>1. [ServicesNext]_serviceVars => [focus = "access" => AnAccess!ReleasedWhileLive]_serviceVars
  <2> SUFFICES ASSUME [ServicesNext]_serviceVars, focus = "access" PROVE AnAccess!ReleasedWhileLive
    OBVIOUS
  <2> QED
    BY MovesAlone, ReleaseLooks
<1> QED
  BY <1>1, PTL DEF ServicesSpec, ReleasedWhileLive

(* Words the user corrected stay as long as the annotation is about the    *)
(* same bytes, also when an analysis was under way (content.rs:210-234).   *)
THEOREM UserWordsLast == ServicesSpec => UserWordsStay
<1>1. ServicesInv /\ [ServicesNext]_serviceVars => [focus = "library" => ALibrary!UserWordsStay]_serviceVars
  <2> SUFFICES ASSUME ServicesInv, [ServicesNext]_serviceVars, focus = "library" PROVE ALibrary!UserWordsStay
    OBVIOUS
  <2> QED
    BY MovesAlone, LibraryStep DEF ServicesInv
<1> QED
  BY <1>1, ServicesHold, PTL DEF ServicesSpec, UserWordsStay

(* A calendar sync whose file nobody else changed only adds to it,         *)
(* whatever could not be read or fetched (calendar.ts:144-152, 277-312).   *)
THEOREM SyncsOnlyAdd == ServicesSpec => SyncOnlyAdds
<1>1. ServicesInv /\ [ServicesNext]_serviceVars =>
        [/\ focus = "calendar" => Calendars(PageEvents, OneSync)!SyncOnlyAdds
         /\ focus = "syncs" => Calendars({}, TwoSyncs)!SyncOnlyAdds]_serviceVars
  <2> SUFFICES ASSUME ServicesInv, [ServicesNext]_serviceVars
               PROVE  /\ focus = "calendar" => Calendars(PageEvents, OneSync)!SyncOnlyAdds
                      /\ focus = "syncs" => Calendars({}, TwoSyncs)!SyncOnlyAdds
    OBVIOUS
  <2>1. ASSUME focus = "calendar" PROVE Calendars(PageEvents, OneSync)!SyncOnlyAdds
    <3>1. CalendarInv(PageEvents, OneSync) /\ [Calendars(PageEvents, OneSync)!CalendarNext]_<<a, b, c, d>>
      BY <2>1, MovesAlone DEF ServicesInv
    <3> QED
      BY <3>1, CalendarStep
  <2>2. ASSUME focus = "syncs" PROVE Calendars({}, TwoSyncs)!SyncOnlyAdds
    <3>1. CalendarInv({}, TwoSyncs) /\ [Calendars({}, TwoSyncs)!CalendarNext]_<<a, b, c, d>>
      BY <2>2, MovesAlone DEF ServicesInv
    <3> QED
      BY <3>1, CalendarStep
  <2> QED
    BY <2>1, <2>2
<1> QED
  BY <1>1, ServicesHold, PTL DEF ServicesSpec, SyncOnlyAdds
=============================================================================
