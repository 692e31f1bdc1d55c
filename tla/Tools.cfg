SPECIFICATION ToolsSpec
CONSTANTS
    Callers = {c1, c2}
    MaxProcs = 2
    MaxId = 4
    None = None
    Characters = {"a", "b", "t", "u", "_"}
    ServerNames <- MCServerNames
    ToolNames <- MCToolNames
    ServerLists <- MCServers
    Teams = {"t1", "t2"}
    McpCallers = {c1, c2}
    MaxReplaced = 2
    Agents = {"a", "b"}
    AgentLists <- MCAgents
    Invocations = {i1, i2}
    Checkers = {request}
    PluginNames = {"a", "b"}
    PluginLists <- MCPlugins
    Requests <- MCRequests
    Templates <- MCTemplates
    Sources <- MCSources
    Conversations <- MCConversations
    Replies <- MCReplies
    Contents <- MCContents
    MaxTemplates = 1
    MaxVersions = 2
    MaxCreated = 2
    MaxTests = 1
    MaxUses = 1
    Senders = {s1, s2}
    PgSessions = {p1}
    PgMaxMessages = 4
    ModelIds <- MCModels
    FirstSamples = 2
    MaxSamples = 3
    Scores = {0, 1}
    SampleCosts = {1, 2}
    Words = {w1, w2}
    TextSize = 3
    Chains <- MCChains
    Answers <- MCAnswers
    MaxRetries = 1
    AllowedFails = 2
    Settings <- MCSettings
    SrInputs <- MCInputs
    KeyOf <- MCKeyOf
    IntentOf <- MCIntentOf
    PatternOf <- MCPatternOf
    MaxCacheSize = 1
    MaxCalls = 4
INVARIANTS
    TypesOK
    ComputedAsDefined
    FaultsPassedOn
    RoutedAndExplained
PROPERTIES
    ConnectionsKept
    JudgedOnEvidence
    CallsEnd
CHECK_DEADLOCK FALSE
