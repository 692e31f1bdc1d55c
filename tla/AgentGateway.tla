---------------------------- MODULE AgentGateway ----------------------------
(***************************************************************************)
(* The agent-to-agent gateway: the registry of core/a2a/registry.py with    *)
(* its clients (core/a2a/client.py), as proxy/app.py uses it.  At start-up  *)
(* the configured agents are registered one after the other; then requests  *)
(* invoke agents while the background loop and requests check their health; *)
(* shutdown stops the loop and disconnects every agent.  A step is the code *)
(* between two awaits on an agent's HTTP endpoint.  Cards, skills and the   *)
(* discovery filters are data of the configuration and left out.            *)
(***************************************************************************)
EXTENDS Integers, Sequences, FiniteSets

CONSTANTS
  Agents,        \* the names of agents
  AgentLists,    \* the configured lists: sequences of [name, enabled]
  Invocations,   \* the requests that invoke an agent
  Checkers       \* who checks the health of an agent: the loop and requests

ASSUME AgentsAssumption == AgentLists \subseteq Seq([name : Agents, enabled : BOOLEAN])

VARIABLES
  toRegister,    \* configured agents not registered yet
  client,        \* name -> its client, or NoClient
  leftOpen,      \* HTTP clients that nobody refers to any more
  invocation,    \* what each invocation is doing
  checker,       \* what each health check is doing
  gatewayPhase   \* "startup", "serving" or "stopped"

agVars == <<toRegister, client, leftOpen, invocation, checker, gatewayPhase>>

NoClient == [health |-> "absent", initialized |-> FALSE]
(* The endpoints that are tried in turn: /tasks/send, /invoke and /.       *)
LastPath == 3
NotInvoking == [phase |-> "idle", agent |-> "none", path |-> 0, runs |-> 0, lost |-> FALSE]
NotChecking == [phase |-> "idle", agent |-> "none"]

AgInit ==
  /\ toRegister \in AgentLists
  /\ client = [a \in Agents |-> NoClient]
  /\ leftOpen = 0
  /\ invocation = [i \in Invocations |-> NotInvoking]
  /\ checker = [c \in Checkers |-> NotChecking]
  /\ gatewayPhase = "startup"

(* connect() falls back to a card from the configuration when the agent's  *)
(* card cannot be had; any other failure leaves the agent registered and   *)
(* unhealthy.  A name that is configured twice takes the entry over, and   *)
(* the first client is never disconnected.                                 *)
RegisterAgent ==
  /\ gatewayPhase = "startup" /\ toRegister # <<>>
  /\ toRegister' = Tail(toRegister)
  /\ LET config == Head(toRegister)
     IN  IF config.enabled
         THEN /\ \E ok \in BOOLEAN :
                   client' = [client EXCEPT ![config.name] =
                     [health |-> IF ok THEN "healthy" ELSE "unhealthy", initialized |-> ok]]
              /\ leftOpen' = leftOpen + (IF client[config.name] = NoClient THEN 0 ELSE 1)
         ELSE UNCHANGED <<client, leftOpen>>
  /\ UNCHANGED <<invocation, checker, gatewayPhase>>

Serve ==
  /\ gatewayPhase = "startup" /\ toRegister = <<>>
  /\ gatewayPhase' = "serving"
  /\ UNCHANGED <<toRegister, client, leftOpen, invocation, checker>>

(* An unknown agent or one that never connected answers an error at once.  *)
InvokeAgent(i) ==
  /\ gatewayPhase = "serving" /\ invocation[i].phase = "idle"
  /\ \E a \in Agents :
       invocation' = [invocation EXCEPT ![i] =
         IF client[a].initialized
         THEN [@ EXCEPT !.phase = "posted", !.agent = a, !.path = 1]
         ELSE [@ EXCEPT !.phase = "error"]]
  /\ UNCHANGED <<toRegister, client, leftOpen, checker, gatewayPhase>>

Ended_retried(inv, answer, ran) ==
  LET next == [inv EXCEPT !.runs = @ + ran, !.lost = @ \/ answer = "transport"]
  IN  IF answer = "ok" THEN [next EXCEPT !.phase = "done"]
      ELSE IF inv.path < LastPath THEN [next EXCEPT !.path = @ + 1] ELSE [next EXCEPT !.phase = "error"]

Ended_again(inv, answer, ran) ==
  LET next == [inv EXCEPT !.runs = @ + ran]
  IN  CASE answer = "ok" -> [next EXCEPT !.phase = "done"]
        [] answer = "transport" -> [next EXCEPT !.phase = "error", !.lost = TRUE]
        [] OTHER -> [inv EXCEPT !.path = IF @ < LastPath THEN @ + 1 ELSE 1]

(* How a post ends: 404 and error statuses go on to the next endpoint, a   *)
(* transport error (a timeout among them) ends the call.  An agent may     *)
(* have run the task before it answers an error or the answer is lost.     *)
Ended(inv, answer, ran) ==
  LET next == [inv EXCEPT !.runs = @ + ran]
  IN  CASE answer = "ok" -> [next EXCEPT !.phase = "done"]
        [] answer = "transport" -> [next EXCEPT !.phase = "error", !.lost = TRUE]
        [] answer \in {"404", "status"} ->
             IF inv.path < LastPath THEN [next EXCEPT !.path = @ + 1] ELSE [next EXCEPT !.phase = "error"]

PostEnds(i) ==
  /\ invocation[i].phase = "posted"
  /\ \E answer \in {"ok", "404", "status", "transport"}, ran \in {0, 1} :
       /\ answer = "ok" => ran = 1
       /\ answer = "404" => ran = 0
       /\ invocation' = [invocation EXCEPT ![i] = Ended(@, answer, ran)]
  /\ UNCHANGED <<toRegister, client, leftOpen, checker, gatewayPhase>>

(* GET /health, then HEAD /: an answer below 500 is health, and only when  *)
(* both fail is the agent unhealthy.  Checks overlap, the last one to end  *)
(* decides.                                                                *)
CheckHealth(c) ==
  /\ gatewayPhase = "serving" /\ checker[c].phase = "idle"
  /\ \E a \in Agents : client[a] # NoClient /\ checker' = [checker EXCEPT ![c] = [phase |-> "get", agent |-> a]]
  /\ UNCHANGED <<toRegister, client, leftOpen, invocation, gatewayPhase>>

ProbeEnds_usable(c) ==
  /\ checker[c].phase \in {"get", "head"}
  /\ \E ok \in BOOLEAN :
       IF ~ok /\ checker[c].phase = "get"
       THEN checker' = [checker EXCEPT ![c].phase = "head"] /\ UNCHANGED client
       ELSE /\ checker' = [checker EXCEPT ![c] = NotChecking]
            /\ client' = [client EXCEPT ![checker[c].agent] =
                 [health |-> IF ok THEN "healthy" ELSE "unhealthy", initialized |-> ok]]
  /\ UNCHANGED <<toRegister, leftOpen, invocation, gatewayPhase>>

ProbeEnds(c) ==
  /\ checker[c].phase \in {"get", "head"}
  /\ \E ok \in BOOLEAN :
       IF ~ok /\ checker[c].phase = "get"
       THEN checker' = [checker EXCEPT ![c].phase = "head"] /\ UNCHANGED client
       ELSE /\ checker' = [checker EXCEPT ![c] = NotChecking]
            /\ client' = [client EXCEPT ![checker[c].agent].health = IF ok THEN "healthy" ELSE "unhealthy"]
  /\ UNCHANGED <<toRegister, leftOpen, invocation, gatewayPhase>>

(* The server stops accepting requests and waits for those it has before   *)
(* the application shuts down; the loop is cancelled where it is.          *)
Shutdown ==
  /\ gatewayPhase = "serving"
  /\ \A i \in Invocations : invocation[i].phase # "posted"
  /\ gatewayPhase' = "stopped"
  /\ client' = [a \in Agents |-> NoClient]
  /\ checker' = [c \in Checkers |-> NotChecking]
  /\ UNCHANGED <<toRegister, leftOpen, invocation>>

AgNext ==
  \/ RegisterAgent \/ Serve \/ Shutdown
  \/ \E i \in Invocations : InvokeAgent(i) \/ PostEnds(i)
  \/ \E c \in Checkers : CheckHealth(c) \/ ProbeEnds(c)

(* A post ends: every one is sent with the agent's timeout.                *)
AgSpec == AgInit /\ [][AgNext]_agVars /\ \A i \in Invocations : WF_agVars(PostEnds(i))

AgTypeOK ==
  /\ \A a \in Agents : client[a] = NoClient \/ client[a].health \in {"healthy", "unhealthy"}
  /\ leftOpen \in Nat
  /\ \A i \in Invocations :
       invocation[i].phase \in {"idle", "posted", "done", "error"} /\ invocation[i].path \in 0..LastPath
  /\ \A c \in Checkers : checker[c].phase = "idle" \/ client[checker[c].agent] # NoClient

(* A call whose answer was lost in transport is not posted again: an agent  *)
(* that has run it once runs it a second time only when it answered the     *)
(* first with an error status itself (client.py:203-222).                   *)
LostNotRepeated ==
  [][\A i \in Invocations : invocation[i].lost => invocation'[i] = invocation[i]]_agVars

(* Every invocation gets an answer, a result or an error.                   *)
InvocationAnswered ==
  \A i \in Invocations : invocation[i].phase = "posted" ~> invocation[i].phase \in {"done", "error"}

(* An agent that never connected is never called, whatever the health       *)
(* checks say of it later: health alone does not make a client usable       *)
(* (client.py:186, registry.py:59-67).                                      *)
OnlyConnectedInvoked ==
  \A i \in Invocations : invocation[i].phase = "posted" => client[invocation[i].agent].initialized
==============================================================================
