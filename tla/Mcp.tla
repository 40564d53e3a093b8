-------------------------------- MODULE Mcp --------------------------------
(***************************************************************************)
(* Calls of remote MCP tools by agents (sidecar/src/mcp.ts): each call is  *)
(* checked against the session's grants, looks up its connector, waits for *)
(* an approval card, and then talks HTTP, initialising the connector first *)
(* and refreshing an OAuth token once.  Meanwhile the user edits the       *)
(* connector.                                                              *)
(*                                                                         *)
(* One connector; what it points to is a number that grows with each edit, *)
(* 0 when it is deleted.                                                   *)
(***************************************************************************)
EXTENDS Naturals, FiniteSets

CONSTANTS
  McpCalls,    \* the tool calls, each made once
  MaxEdits     \* a bound on the edits of the connector

VARIABLES
  mcp,      \* the registry, the connector file and the remote servers
  mcpCall   \* where each call is

mcpVars == <<mcp, mcpCall>>

Registries ==
  [file: 0..MaxEdits, edits: 0..MaxEdits,
   forgetting: BOOLEAN,     \* an edit is written, its initialisation not yet forgotten
   granted: BOOLEAN,        \* the session has the grant; closing it forgets it
   initialized: BOOLEAN,
   token: BOOLEAN]          \* the servers take the stored access token
ToolCalls ==
  [stage: {"new", "granted", "asks", "initialises", "posts", "refreshes", "over"},
   connector: 0..MaxEdits,           \* the one the call holds
   card: 0..MaxEdits,                \* ghost: the one on the card
   approved: BOOLEAN, attempt: 0..1,
   ran: 0..2, at: 0..MaxEdits]       \* ghost: runs, and where the last was

McpTypeOK == mcp \in Registries /\ mcpCall \in [McpCalls -> ToolCalls]

McpInit ==
  /\ mcp \in [file: {0, 1}, edits: {1}, forgetting: {FALSE}, granted: {TRUE},
              initialized: {FALSE}, token: BOOLEAN]
  /\ mcpCall = [c \in McpCalls |-> [stage |-> "new", connector |-> 0, card |-> 0,
                                    approved |-> FALSE, attempt |-> 0, ran |-> 0, at |-> 0]]

At(c, stage) == mcpCall[c].stage = stage
Goes(c, stage) == mcpCall' = [mcpCall EXCEPT ![c].stage = stage]

\* execute: the grant is looked at when the agent calls.
BeginCall(c) ==
  /\ At(c, "new")
  /\ Goes(c, IF mcp.granted THEN "granted" ELSE "over")
  /\ UNCHANGED mcp

\* The connectors are read; with none of that id, or with arguments that are
\* no small JSON object, the call is over, else its card is opened.
OpenCallCard(c) ==
  /\ At(c, "granted")
  /\ \/ Goes(c, "over")
     \/ /\ mcp.file # 0
        /\ mcpCall' = [mcpCall EXCEPT ![c].stage = "asks", ![c].connector = mcp.file,
                                      ![c].card = mcp.file]
  /\ UNCHANGED mcp

\* Mutant: the connector is looked up again after the decision.
DecideCallLate(c) ==
  /\ At(c, "asks")
  /\ mcpCall' = [mcpCall EXCEPT ![c].stage = "initialises", ![c].approved = TRUE,
                                ![c].connector = mcp.file]
  /\ UNCHANGED mcp

\* The user approves the card, or the call is over.
DecideCall(c) ==
  /\ At(c, "asks")
  /\ \/ Goes(c, "over")
     \/ mcpCall' = [mcpCall EXCEPT ![c].stage = "initialises", ![c].approved = TRUE]
  /\ UNCHANGED mcp

\* ensureInitialized, before every attempt; it fails the call when the server
\* does not answer, or without a token that could be had.
EnsureInitialized(c) ==
  /\ At(c, "initialises")
  /\ \/ Goes(c, "posts") /\ mcp' = [mcp EXCEPT !.initialized = TRUE]
     \/ ~mcp.initialized /\ Goes(c, "over") /\ UNCHANGED mcp

\* tools/call is posted and the server carries it out or not; whether the
\* answer arrives makes no difference any more.
PostCall(c) ==
  /\ At(c, "posts")
  /\ \/ /\ mcp.token
        /\ mcpCall' = [mcpCall EXCEPT ![c].stage = "over", ![c].ran = @ + 1,
                                      ![c].at = mcpCall[c].connector]
     \/ Goes(c, "over")
     \/ /\ ~mcp.token /\ mcpCall[c].attempt = 0
        /\ Goes(c, "refreshes")
  /\ UNCHANGED mcp

\* refresh after a 401: once more from the start, or the call is over.
RefreshToken(c) ==
  /\ At(c, "refreshes")
  /\ \/ /\ mcp' = [mcp EXCEPT !.token = TRUE, !.initialized = FALSE]
        /\ mcpCall' = [mcpCall EXCEPT ![c].stage = "initialises", ![c].attempt = 1]
     \/ Goes(c, "over") /\ UNCHANGED mcp

\* putConnector and deleteConnector: the file is written first, and what was
\* initialised is forgotten when the write has been answered.
EditConnector ==
  /\ ~mcp.forgetting /\ mcp.edits < MaxEdits
  /\ \E to \in {0, mcp.edits + 1} :
       mcp' = [mcp EXCEPT !.file = to, !.edits = @ + 1, !.forgetting = TRUE]
  /\ UNCHANGED mcpCall

ForgetInitialized ==
  /\ mcp.forgetting
  /\ mcp' = [mcp EXCEPT !.forgetting = FALSE, !.initialized = FALSE]
  /\ UNCHANGED mcpCall

\* closeSession and mcp/reload take grants away; tokens expire and are stored.
ForgetGrants == mcp.granted /\ mcp' = [mcp EXCEPT !.granted = FALSE] /\ UNCHANGED mcpCall
TokenChanges == mcp' = [mcp EXCEPT !.token = ~@] /\ UNCHANGED mcpCall

McpNext ==
  \/ \E c \in McpCalls : \/ BeginCall(c) \/ OpenCallCard(c) \/ DecideCall(c)
                         \/ EnsureInitialized(c) \/ PostCall(c) \/ RefreshToken(c)
  \/ EditConnector \/ ForgetInitialized \/ ForgetGrants \/ TokenChanges

McpSpec == McpInit /\ [][McpNext]_mcpVars

-----------------------------------------------------------------------------
(* A remote tool runs at most once per approval, and at the connector that *)
(* the approved card named, however the connector is edited or deleted     *)
(* while the card is open and however often tokens expire                  *)
(* (mcp.ts:183-243, 316-343).                                              *)
RunsAsApproved ==
  \A c \in McpCalls : mcpCall[c].ran > 0 =>
    mcpCall[c].ran = 1 /\ mcpCall[c].approved /\ mcpCall[c].at = mcpCall[c].card

\* Why it holds: a call holds on to the connector it put on its card, asks once,
\* and is over when its tool has run.
CallKeepsCard ==
  \A c \in McpCalls :
    /\ mcpCall[c].stage # "over" => mcpCall[c].ran = 0
    /\ mcpCall[c].connector = mcpCall[c].card
    /\ mcpCall[c].stage \in {"initialises", "posts", "refreshes"} => mcpCall[c].approved
=============================================================================
