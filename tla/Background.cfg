SPECIFICATION BackgroundSpec
CONSTANTS
    Jobs = {j1, j2}
    MaxPending = 2
    MaxAttempts = 2
    Workers = {w1, w2}
    WorkerCount = 1
    HasCallback = {j1}
    NoJob = NoJob
    BatchIds = {b1}
    CustomIds = {"x", "y", "z"}
    MaxBatch = 3
    Concurrency = 2
    Senders = {"webhook", "langfuse", "exporter"}
    DlEvents = {1, 2, 3}
    BatchOf = 2
    MaxTries = 2
    HookLists <- MCHooks
    CbRequests = {r1, r2}
    TeamSettings <- MCTeams
    EventSets <- MCEvents
    Owners = {"a", "b"}
    MaxRows = 3
    PageLimit = 1
    Retention = 1
    RlMaxDay = 2
    Gateways = {g1}
    Manifests <- MCManifests
    Loads <- MCLoads
    PodSets <- MCPods
    GwMaxTime = 2
    GwMaxGeneration = 2
    GwMaxDecided = 2
    OpModels = {m1}
    OpKeys = {k1, k2}
    OpTeams = {t1}
    Fields <- MCFields
    Files <- MCFiles
    Environs <- MCEnvirons
    Overrides <- MCOverrides
    Paths = {"db"}
    Ttls = {0, 1}
    LdMaxTime = 2
    LdMaxVersion = 2
INVARIANTS
    TypesOK
    EventsTold
    SecretsFromTheSource
PROPERTIES
    JobsKept
    BatchesKept
    OperatorsConverge
    WorkEnds
