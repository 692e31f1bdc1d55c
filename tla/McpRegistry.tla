---------------------------- MODULE McpRegistry ----------------------------
(***************************************************************************)
(* The registry of MCP servers (core/mcp/registry.py) over HTTP clients     *)
(* (core/mcp/client.py; McpClient models one client over STDIO).  The       *)
(* configured servers are registered one after the other at start-up; then *)
(* requests call tools while others, and the background loop, check health;*)
(* shutdown disconnects every server.  A step is the code between two      *)
(* answers of a server.  A server's name is a sequence of characters,       *)
(* because tools are offered under "<server>__<tool>".                      *)
(***************************************************************************)
EXTENDS Integers, Sequences, FiniteSets, SequencesExt

CONSTANTS
  Characters,    \* what names are made of
  ServerNames,   \* names of servers: sequences of characters
  ToolNames,     \* names of tools: sequences of characters
  ServerLists,   \* the configured lists: sequences of [name, enabled, teams]
  Teams,         \* teams that ask for tools; "all" stands for a public server
  McpCallers,    \* requests that call a tool
  MaxReplaced    \* bounds the reconnections of the model

ASSUME RegistryAssumption ==
  /\ IsFiniteSet(ServerNames)
  /\ ServerNames \subseteq Seq(Characters) \ {<<>>} /\ ToolNames \subseteq Seq(Characters)
  /\ ServerLists \subseteq
       Seq([name : ServerNames, enabled : BOOLEAN, teams : SUBSET (Teams \cup {"all"})])

VARIABLES
  toConnect,     \* configured servers not registered yet
  server,        \* name -> the server's entry, or NoServer
  connections,   \* HTTP clients that are open
  replaced,      \* HTTP clients that connect() overwrote with a new one
  mcpCaller,     \* what each request is doing
  mcpPhase       \* "startup", "serving" or "stopped"

mcVars == <<toConnect, server, connections, replaced, mcpCaller, mcpPhase>>

NoServer == [registered |-> FALSE, enabled |-> FALSE, teams |-> {},
             initialized |-> FALSE, connected |-> FALSE, health |-> "unknown"]
NoCall == [phase |-> "idle", name |-> <<>>]

McInit ==
  /\ toConnect \in ServerLists
  /\ server = [n \in ServerNames |-> NoServer]
  /\ connections = 0 /\ replaced = 0
  /\ mcpCaller = [c \in McpCallers |-> NoCall]
  /\ mcpPhase = "startup"

(* connect() makes a new HTTP client, whatever client it had, and is       *)
(* initialized when the handshake and the discovery of the tools succeed.  *)
Connected(s, ok) ==
  [s EXCEPT !.connected = TRUE, !.initialized = @ \/ ok,
            !.health = IF ok THEN "healthy" ELSE "unhealthy"]

(* Registering a name again first unregisters it; a server that cannot be  *)
(* reached, or is not enabled, is registered all the same.                 *)
OpenAfterUnregister_kept(n) == connections

OpenAfterUnregister(n) == connections - (IF server[n].connected THEN 1 ELSE 0)

RegisterServer ==
  /\ mcpPhase = "startup" /\ toConnect # <<>>
  /\ toConnect' = Tail(toConnect)
  /\ \E ok \in BOOLEAN :
       LET config == Head(toConnect)
           entry  == [NoServer EXCEPT !.registered = TRUE, !.enabled = config.enabled,
                                      !.teams = config.teams]
       IN  /\ config.enabled \/ ~ok
           /\ server' = [server EXCEPT ![config.name] =
                           IF config.enabled THEN Connected(entry, ok) ELSE entry]
           /\ connections' = OpenAfterUnregister(config.name)
                             + (IF config.enabled THEN 1 ELSE 0)
  /\ UNCHANGED <<replaced, mcpCaller, mcpPhase>>

McServe ==
  /\ mcpPhase = "startup" /\ toConnect = <<>>
  /\ mcpPhase' = "serving"
  /\ UNCHANGED <<toConnect, server, connections, replaced, mcpCaller>>

(* The name a tool is offered under, and the server and tool a name stands *)
(* for: the name is cut at its first "__".                                 *)
Underscore == "_"

FunctionName(n, t) == n \o <<Underscore, Underscore>> \o t

CutAt(name, i) == <<SubSeq(name, 1, i - 1), SubSeq(name, i + 2, Len(name))>>

Cuts(name) == {i \in 1..(Len(name) - 1) : name[i] = Underscore /\ name[i + 1] = Underscore}

first_cut_last(cuts) == CHOOSE i \in cuts : \A j \in cuts : i >= j

first_cut(cuts) == CHOOSE i \in cuts : \A j \in cuts : i <= j

resolve_tool_call(name) ==
  IF Cuts(name) = {} THEN <<>>
  ELSE LET cut == CutAt(name, first_cut(Cuts(name)))
       IN  IF cut[1] \in ServerNames /\ server[cut[1]].registered THEN cut ELSE <<>>

(* The servers whose tools a team is shown.                                *)
list_tools(team) ==
  {n \in ServerNames : /\ server[n].enabled /\ server[n].initialized
                       /\ "all" \in server[n].teams \/ team \in server[n].teams}

(* A call does not look at the team.  A server that was not reached yet is *)
(* connected now, for every call that finds it so.                         *)
CallTool(c, n) ==
  /\ mcpPhase = "serving" /\ mcpCaller[c].phase = "idle"
  /\ server[n].registered /\ server[n].enabled
  /\ IF server[n].initialized
     THEN /\ mcpCaller' = [mcpCaller EXCEPT ![c] = [phase |-> "calling", name |-> n]]
          /\ UNCHANGED <<server, connections, replaced>>
     ELSE /\ replaced < MaxReplaced
          /\ mcpCaller' = [mcpCaller EXCEPT ![c] = [phase |-> "connecting", name |-> n]]
          /\ server' = [server EXCEPT ![n].connected = TRUE, ![n].health = "connecting"]
          /\ connections' = connections + 1
          /\ replaced' = replaced + (IF server[n].connected THEN 1 ELSE 0)
  /\ UNCHANGED <<toConnect, mcpPhase>>

ConnectEnds(c) ==
  /\ mcpCaller[c].phase = "connecting"
  /\ \E ok \in BOOLEAN :
       /\ server' = [server EXCEPT ![mcpCaller[c].name] = Connected(@, ok)]
       /\ mcpCaller' = [mcpCaller EXCEPT ![c] =
                          IF ok THEN [@ EXCEPT !.phase = "calling"] ELSE NoCall]
  /\ UNCHANGED <<toConnect, connections, replaced, mcpPhase>>

CallEnds(c) ==
  /\ mcpCaller[c].phase = "calling"
  /\ mcpCaller' = [mcpCaller EXCEPT ![c] = NoCall]
  /\ UNCHANGED <<toConnect, server, connections, replaced, mcpPhase>>

(* A ping: without an HTTP client it fails.                                *)
CheckServer(n) ==
  /\ mcpPhase = "serving" /\ server[n].registered
  /\ \E h \in {"unhealthy"} \cup (IF server[n].connected THEN {"healthy"} ELSE {}) :
       server' = [server EXCEPT ![n].health = h]
  /\ UNCHANGED <<toConnect, connections, replaced, mcpCaller, mcpPhase>>

(* The server is stopped once its requests have ended.                     *)
McShutdown ==
  /\ mcpPhase = "serving" /\ \A c \in McpCallers : mcpCaller[c].phase = "idle"
  /\ mcpPhase' = "stopped"
  /\ connections' = connections - Cardinality({n \in ServerNames : server[n].connected})
  /\ server' = [n \in ServerNames |-> NoServer]
  /\ UNCHANGED <<toConnect, replaced, mcpCaller>>

McNext ==
  \/ RegisterServer \/ McServe \/ McShutdown
  \/ \E n \in ServerNames : CheckServer(n) \/ \E c \in McpCallers : CallTool(c, n)
  \/ \E c \in McpCallers : ConnectEnds(c) \/ CallEnds(c)

McSpec == McInit /\ [][McNext]_mcVars

-----------------------------------------------------------------------------
McTypeOK ==
  /\ DOMAIN server = ServerNames /\ connections \in Nat /\ replaced \in Nat
  /\ \A n \in ServerNames : server[n].initialized => server[n].connected /\ server[n].enabled
  /\ mcpCaller \in [McpCallers -> [phase : {"idle", "connecting", "calling"},
                                   name : ServerNames \cup {<<>>}]]

(* A name configured twice leaves no connection behind: after shutdown the *)
(* only HTTP clients still open are those that a connect() replaced.       *)
ShutdownDisconnects == mcpPhase = "stopped" => connections = replaced

(* The name a tool is offered under leads back to its server and tool, as  *)
(* long as the server's name holds no "__" and does not end in "_".        *)
ToolsResolve ==
  \A n \in ServerNames, t \in ToolNames :
    (/\ \E team \in Teams : n \in list_tools(team)
     /\ Cuts(n) = {} /\ n[Len(n)] # Underscore)
    => resolve_tool_call(FunctionName(n, t)) = <<n, t>>
=============================================================================
