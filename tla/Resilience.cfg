SPECIFICATION ResilienceSpec
CONSTANTS
    FailureThreshold = 2
    RecoveryTimeout = 2
    HalfOpenMaxCalls = 2
    SuccessThreshold = 2
    Callers = {c1, c2, c3, c4}
    ProbesRecorded = TRUE
    BhTasks = {t1, t2, t3, t4}
    MaxConcurrent = 2
    Queued = {q1, q2, q3}
    QueueSize = 2
    BatchSize = 1
    Providers = {p1, p2}
    Thresholds <- MCThresholds
    Regions = {"a", "b", "c", "far"}
    Configured = {"a", "b", "c"}
    Distance <- MCDistance
    Weights = {1, 2}
    MaxDistance = 2
    MaxDeployments = 3
    NoRegion = "none"
    RrDeployments = {d1, d2}
    RrRequests = {r1, r2}
    MaxReloads = 1
    MaxClients = 4
    LastVersion = 4
    Invalid = {1}
    Unreadable = {2}
    Refused = {3}
    CsModels = {m1}
    Fields = {"f1", "f2"}
    Updates = {"u1", "u2"}
    FieldOf <- MCFieldOf
    Edits <- MCEdits
    MaxLoads = 2
    Costs = {1, 2}
    MaxSnapshots = 2
    AlertThresholds <- MCAlerts
    Alternatives = {1}
    SaMaxTime = 3
    SaMaxRequests = 2
    Bearers = {1, 2}
    Verifiers = {"v", "w"}
    Life = 1
    CacheTtl = 1
    RefreshInterval = 1
    LastKid = 2
INVARIANTS
    TypesOK
    ThresholdsHonoured
    ProbesBounded
    KeptInStep
PROPERTIES
    OpenHoldsForTimeout
    QueuesKept
    ChoicesRight
    ComesBack
