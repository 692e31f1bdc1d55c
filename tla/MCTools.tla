------------------------------ MODULE MCTools ------------------------------
(* Tools, agents, plugins and the content around a call, for TLC: components *)
(* that do not share state, each explored alone in the behaviours of its    *)
(* part.  All of them may come to an end.                                  *)
EXTENDS McpClient, McpRegistry, AgentGateway, Extensions, Adapters,
        Hub, Evaluation, SemanticRouter, TLC

VARIABLE part   \* the component that moves in this behaviour

Server(n, on, t) == [name |-> n, enabled |-> on, teams |-> t]
MCServerNames == {<<"a">>, <<"a", "_", "b">>}
MCToolNames == {<<"t">>, <<"_", "t">>, <<"t", "_", "_", "u">>}
MCServers == {
  <<Server(<<"a">>, TRUE, {"t1"}), Server(<<"a", "_", "b">>, FALSE, {"all"}), Server(<<"a">>, TRUE, {"all"})>>,
  <<Server(<<"a", "_", "b">>, TRUE, {"all"})>>}

Agent(n, on) == [name |-> n, enabled |-> on]
MCAgents == {<<Agent("a", TRUE), Agent("a", TRUE)>>, <<Agent("a", TRUE), Agent("b", FALSE)>>}

Plugin(n, works) == [name |-> n, usable |-> works]
MCPlugins == {<<Plugin("a", TRUE), Plugin("a", TRUE), Plugin("b", TRUE)>>,
              <<Plugin("a", TRUE), Plugin("b", FALSE)>>,
              <<Plugin("a", TRUE), Plugin("b", TRUE), Plugin("a", TRUE)>>}

MCRequests == {<<"user">>, <<"system", "user">>, <<"system", "system", "user", "assistant">>}
MCTemplates == UNION {[1..n -> {"prepend", "append", "replace"}] : n \in 0..3}
MCSources == {<<>>, <<"append">>, <<"prepend">>}

Block(k, n, f, p) == [kind |-> k, name |-> n, fragments |-> f, packed |-> p]
MCBlocks == {Block("text", "", <<"x", "y">>, FALSE), Block("text", "", <<"z", "w">>, TRUE),
             Block("tool", "f", <<"1", "2">>, FALSE), Block("tool", "g", <<>>, FALSE)}
MCReplies == {[blocks |-> b, stop |-> s] :
                b \in UNION {[1..n -> MCBlocks] : n \in 0..3}, s \in {"stop", "tool_calls"}}
Message(r, t, c, a) == [role |-> r, text |-> t, calls |-> c, answers |-> a]
MCConversations == {<<Message("system", "s", <<>>, ""), Message("user", "u", <<>>, ""),
  Message("assistant", "", <<[id |-> "1", name |-> "f"], [id |-> "2", name |-> "g"]>>, ""),
  Message("tool", "r", <<>>, "1"), Message("tool", "r", <<>>, "2"),
  Message("assistant", "", <<>>, ""), Message("user", "v", <<>>, "")>>}

MCAdapters == {"openai", "compat", "cohere", "ollama", "gemini", "bedrock", "anthropic"}
MCChains == {<<p, "openai">> : p \in MCAdapters} \cup {<<"anthropic">>}
MCAnswers == {Http(s) : s \in {200, 400, 401, 403, 429, 529}}
             \cup {Refusal(400, "string"), Refusal(503, "array")}
             \cup {Typed(400, "TooManyRequestsException"), Typed(400, "UnrecognizedClientException")}
             \cup {Broken("timeout"), Broken("network"), Broken("protocol")}

MCSettings == {
  [rules |-> "math" :> "big" @@ "translation" :> "poly", default |-> "small", classifier |-> "cls",
   test |-> <<"m", "a">>, caches |-> TRUE],
  [rules |-> "math" :> "big" @@ "code" :> "coder", default |-> "none", classifier |-> "cls",
   test |-> <<>>, caches |-> TRUE],
  [rules |-> "math" :> "big", default |-> "none", classifier |-> "none",
   test |-> <<"m", "a">>, caches |-> FALSE]}
MCIntentOf == "x" :> "none" @@ "y" :> "math" @@ "z" :> "none" @@ "w" :> "math"
\* The texts x and y have the same beginning.
MCKeyOf == "x" :> "x" @@ "y" :> "x" @@ "z" :> "z" @@ "w" :> "w"
MCPatternOf == "x" :> "none" @@ "y" :> "none" @@ "z" :> "p" @@ "w" :> "none"
Input(t, m, s) == [text |-> Plain(t), model |-> m, session |-> s]
MCInputs == {Input("x", "m", "s"), Input("y", "o", "none"), Input("z", "m", "s"),
             Input("w", "m", "none")}

MCContents == {{}, {"x"}}
MCModels == <<"m1", "m2">>

\* The input of a component while another component moves.
AnyServers  == CHOOSE s \in ServerLists : TRUE
AnyAgents   == CHOOSE a \in AgentLists : TRUE
AnyPlugins  == CHOOSE p \in PluginLists : TRUE
AnyReply    == CHOOSE r \in Replies : TRUE
AnyChain    == CHOOSE c \in Chains : TRUE
AnySetting  == CHOOSE s \in Settings : TRUE
AnyText     == CHOOSE t \in TokenLists : Len(t) = 1

Parts == {"client", "registry", "agents", "plugins", "transform", "streams",
          "prompts", "playground", "benchmark", "metrics", "errors",
          "semantic"}

bundleVars == <<part, vars, mcVars, agVars, pmVars, tpVars, psVars, phVars,
                      pgVars, beVars, tmVars, errorVars, srVars>>

ToolsInit ==
  /\ part \in Parts
  /\ Init
  /\ McInit /\ (part = "registry" \/ (toConnect = AnyServers))
  /\ AgInit /\ (part = "agents" \/ (toRegister = AnyAgents))
  /\ PmInit /\ (part = "plugins" \/ (found = AnyPlugins))
  /\ TpInit /\ (part = "transform" \/ (request = AsSent(<<"user">>) /\ todo = <<>>))
  /\ PsInit /\ (part = "streams" \/ (<<adapter, reply>> = <<"ollama", AnyReply>>))
  /\ PhInit
  /\ PgInit
  /\ BeInit
  /\ TmInit /\ (part = "metrics" \/ ({reference, candidate} = {AnyText}))
  /\ ErrInit /\ (part = "errors" \/ (chain = AnyChain /\ ~stream /\ fails = 0))
  /\ SrInit /\ (part = "semantic" \/ (setting = AnySetting /\ bucket \in [Sessions -> {1}]))

ToolsNext ==
  \/ part = "client" /\ Next
     /\ UNCHANGED <<part, mcVars, agVars, pmVars, tpVars, psVars, phVars,
                          pgVars, beVars, tmVars, errorVars, srVars>>
  \/ part = "registry" /\ McNext
     /\ UNCHANGED <<part, vars, agVars, pmVars, tpVars, psVars, phVars,
                          pgVars, beVars, tmVars, errorVars, srVars>>
  \/ part = "agents" /\ AgNext
     /\ UNCHANGED <<part, vars, mcVars, pmVars, tpVars, psVars, phVars,
                          pgVars, beVars, tmVars, errorVars, srVars>>
  \/ part = "plugins" /\ PmNext
     /\ UNCHANGED <<part, vars, mcVars, agVars, tpVars, psVars, phVars,
                          pgVars, beVars, tmVars, errorVars, srVars>>
  \/ part = "transform" /\ (ApplyStep \/ HookFails)
     /\ UNCHANGED <<part, vars, mcVars, agVars, pmVars, psVars, phVars,
                          pgVars, beVars, tmVars, errorVars, srVars>>
  \/ part = "streams" /\ PsNext
     /\ UNCHANGED <<part, vars, mcVars, agVars, pmVars, tpVars, phVars,
                          pgVars, beVars, tmVars, errorVars, srVars>>
  \/ part = "prompts" /\ PhNext
     /\ UNCHANGED <<part, vars, mcVars, agVars, pmVars, tpVars, psVars,
                          pgVars, beVars, tmVars, errorVars, srVars>>
  \/ part = "playground" /\ PgNext
     /\ UNCHANGED <<part, vars, mcVars, agVars, pmVars, tpVars, psVars,
                          phVars, beVars, tmVars, errorVars, srVars>>
  \/ part = "benchmark" /\ BeNext
     /\ UNCHANGED <<part, vars, mcVars, agVars, pmVars, tpVars, psVars,
                          phVars, pgVars, tmVars, errorVars, srVars>>
  \/ part = "metrics" /\ NextRow
     /\ UNCHANGED <<part, vars, mcVars, agVars, pmVars, tpVars, psVars,
                          phVars, pgVars, beVars, errorVars, srVars>>
  \/ part = "errors" /\ ErrNext
     /\ UNCHANGED <<part, vars, mcVars, agVars, pmVars, tpVars, psVars,
                          phVars, pgVars, beVars, tmVars, srVars>>
  \/ part = "semantic" /\ SrNext
     /\ UNCHANGED <<part, vars, mcVars, agVars, pmVars, tpVars, psVars,
                          phVars, pgVars, beVars, tmVars, errorVars>>

ToolsSpec ==
  /\ ToolsInit /\ [][ToolsNext]_bundleVars
  /\ \A c \in Callers : /\ WF_vars(part = "client" /\ Spawned(c)) /\ WF_vars(part = "client" /\ Enter(c))
                       /\ WF_vars(part = "client" /\ Answer(c))
  /\ \A i \in Invocations : WF_agVars(part = "agents" /\ PostEnds(i))
  /\ \A c \in 1..MaxCalls : WF_srVars(part = "semantic" /\ AskFails(c))

-----------------------------------------------------------------------------
(* Every component keeps the types of its state: what the code declares,   *)
(* and the bounds the model puts on it.                                    *)
TypesOK ==
  /\ TypeOK /\ McTypeOK /\ AgTypeOK /\ PmTypeOK
  /\ TpTypeOK /\ PsTypeOK /\ PhTypeOK /\ PgTypeOK
  /\ BeTypeOK /\ TmTypeOK /\ ErrTypeOK /\ SrTypeOK

(* Connections are used while they last and given back: one caller at a time *)
(* holds the pipe of a STDIO server and the one who reads is the last who    *)
(* wrote; shutting down leaves no server connected; a tool name leads back   *)
(* to its server; an agent is invoked only while connected, and never twice  *)
(* for one call whose answer was lost; and only plugins that have been set   *)
(* up are torn down.                                                         *)
ConnectionsKept ==
  /\ [](LockConsistent /\ ReaderIsLast)
  /\ [](ShutdownDisconnects /\ ToolsResolve)
  /\ [](OnlyConnectedInvoked /\ TornDownWereSetUp)
  /\ LostNotRepeated

(* What is computed from what is given is what its definition says: the      *)
(* transforms of a request keep the conversation and put the system's words  *)
(* first, the chunks of a streamed answer add up to the answer (a chunk of   *)
(* Gemini's with several texts apart), the calls of tools and their results  *)
(* arrive at the provider (Ollama's apart), the frontier decides what a      *)
(* benchmark recommends, and the metrics of two texts are those of their     *)
(* definitions.                                                              *)
ComputedAsDefined ==
  /\ ConversationKept /\ SystemFirst
  /\ StreamAddsUp /\ ToolTrafficKept
  /\ FrontierDecides /\ RowIsLongestCommon /\ OverlapSymmetric

(* What is judged rests on what was recorded: a prompt's versions never      *)
(* change and its current text is the last of them; an answer in a session   *)
(* follows its question and none is put to a session that has ended; and a   *)
(* benchmark covers its samples.                                             *)
JudgedOnEvidence ==
  /\ [](CurrentIsLastVersion /\ AnswersHaveQuestions /\ RunCovers)
  /\ VersionsImmutable /\ EndedTakesNoQuestions

(* A fault reaches the router as the kind that decides about its retries: a  *)
(* caller's own is not tried again nor held against the deployment, and      *)
(* without one every model of the chain is tried as often as it may be, up   *)
(* to the one that is found cooling down, but for what Anthropic's adapter   *)
(* gives up and for refusals that an adapter cannot read (FaultsTold,        *)
(* AllTried; ErrorsTranslated does not hold).                                *)
FaultsPassedOn == FaultsTold /\ AllTried

(* Semantic routing sends a text where its rules say, what it says of its    *)
(* choice is true of the text it was asked about, and what it remembers      *)
(* above the limit of its cache are the classifier's answers, which keep to  *)
(* no limit (CacheBounded does not hold).                                    *)
RoutedAndExplained == RoutedJustly /\ IntentsExplained /\ OnlyAnswersOutgrow

(* Every call ends: of a STDIO server, of an agent, and of the classifier    *)
(* behind the semantic routing, although it fails.                           *)
CallsEnd == EveryCallEnds /\ InvocationAnswered /\ CallsRouted
=============================================================================
