SPECIFICATION Spec
CONSTANTS
    Jobs = {j1, j2}
    MaxPending = 2
    MaxAttempts = 2
    Workers = {w1, w2}
    WorkerCount = 1
    HasCallback = {j1}
    NoJob = NoJob
PROPERTY CancelIsFinal
