\* One worker with batches of two, one vendor that verifies and one that only expires, one
\* failing pass.
CONSTANTS
    r1 = r1
    r2 = r2
    op = op
    c1 = c1
    NoThread = NoThread
    Callers <- OneCaller
    Entries = {1, 2}
    subjectOf <- OneSubject
    operationOf <- EraseOnly
    Sessions <- TwoThreadsAndOperator
    Runners <- TwoThreads
    Operator = op
    Transactions <- OneErasure
    RequeueRequests = {}
    RetentionOnly = {2}
    Verifying = {1}
    MaxAttempts = 2
    MaxCounted = 4
    BatchSize = 2
    MaxFaults = 1
    MaxLapses = 0
SPECIFICATION WorkerSpec
INVARIANTS
    OneDrainLoop
PROPERTIES
    EveryRequestConcludes
\* With everything settled the worker only sleeps.
CHECK_DEADLOCK FALSE
