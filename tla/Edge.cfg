SPECIFICATION EdgeSpec
CONSTANTS
    q1 = q1
    q2 = q2
    q3 = q3
    q4 = q4
    g = g
    k1 = k1
    k2 = k2
    Calls = {q1, q2, q3, q4}
    Scopes = {g, k1, k2}
    Global = g
    ScopesOf <- MCScopesOf
    Minute = 2
    Second = 2
    Limits <- MCLimits
    MaxClock = 4
    AxRequests = {r1, r2}
    Shapes <- MCShapes
    Settings <- MCSettings
    SizeLimit = 1
    KeyLimit = 1
    Pii = {"mail"}
    Secrets = {"token"}
    Keywords = {"word"}
    Categories = {"hint"}
    BlockedUsers = {"mallory"}
    CpCalls = {"c1", "c2", "c3", "c4"}
    Tenant <- MCTenants
    User <- MCCallers
    Prompt <- MCPrompts
    Streamed <- MCStreamed
    NoTenant = "none"
    Injected = {"token"}
    Answers <- MCAnswers
    Setups <- MCSetups
    MaxItems = 1
    TextLength = 6
    Replacements = {0, 1, 3, 5}
    MatchLists <- MCMatchLists
    AcUsers = {"u"}
    AcTeams = {"t"}
    AcKeys = {"a", "b"}
    Handlers = {"h", "i"}
    AcRequests = {"r"}
    Nobody = Nobody
    Never = Never
    KeyBudget = 1
    Bodies <- MCBodies
    AcMaxTime = 1
    Tokens = {"s1", "s2"}
    SsoProviders = {"o", "x"}
    Oidc = {"o"}
    Callbacks = {"c1", "c2", "c3"}
    SessionTtl = 1
    SetNames = {"a", "b", "c"}
    Grants = {"r", "w"}
    SetShapes <- MCSetShapes
    MaxParents = 2
    Headers = {"h"}
    WhCalls = {"c1", "c2"}
    WhTtl = 1
    AaMaxTime = 4
    Providers = {"p"}
    Tags = {"t"}
    Budgets = {1, 2}
    Periods = {0, 2}
    Costs <- MCCosts
    BuMaxTime = 5
    Configurations <- MCConfigurations
    CacheBackends = {"redis", "memory"}
    AlMaxFailures = 2
INVARIANTS
    TypesOK
    LimiterExact
    RedactionExact
    LifecycleSound
PROPERTIES
    LimitHonoured
    RequestsScreened
    AccountsSound
