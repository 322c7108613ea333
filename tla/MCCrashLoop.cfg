\* A runner that is started again and again, with one attempt counted beyond the budget.
CONSTANTS
    r1 = r1
    op = op
    Entries = {1, 2}
    subjectOf <- OneSubject
    operationOf <- EraseOnly
    Sessions <- OneRunnerAndOperator
    Runners <- OneRunner
    Operator = op
    Transactions <- OneErasure
    RequeueRequests = {}
    RetentionOnly = {}
    Verifying = {}
    Poison = {1}
    MaxAttempts = 2
    MaxCounted = 3
    BatchSize = 1
    MaxFaults = 0
    MaxLapses = 0
SPECIFICATION LoopSpec
PROPERTIES
    CrashLoopsConverge
\* With everything settled and nobody enqueueing, the system rests.
CHECK_DEADLOCK FALSE
