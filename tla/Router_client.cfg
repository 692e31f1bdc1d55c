SPECIFICATION Spec
CONSTANTS
    m1 = m1
    m2 = m2
    d1 = d1
    d2 = d2
    d3 = d3
    r1 = r1
    r2 = r2
    r3 = r3
    Models = {m1, m2}
    Deployments = {d1, d2, d3}
    Registry <- MCRegistry
    Fallbacks <- MCFallbacks
    MaxRetries = 1
    AllowedFails = 2
    CooldownSeconds = 1
    Strategy = "least-connections"
    Requests = {r1, r2}
    MaxTime = 2
    None = None
INVARIANT OwnClient
CHECK_DEADLOCK FALSE
