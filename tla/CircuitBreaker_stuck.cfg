SPECIFICATION FairSpec
CONSTANTS
    FailureThreshold = 2
    RecoveryTimeout = 2
    HalfOpenMaxCalls = 2
    SuccessThreshold = 2
    Callers = {c1, c2, c3}
    ProbesRecorded = FALSE
PROPERTY AdmitsAgain
