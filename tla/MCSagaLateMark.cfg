\* A lease runs out under a slow runner, whose late mark hits a settled row.
CONSTANTS
    r1 = r1
    r2 = r2
    op = op
    Entries = {1}
    subjectOf <- OneSubject
    operationOf <- RectifyOnly
    Sessions <- TwoRunnersAndOperator
    Runners <- TwoRunners
    Operator = op
    Transactions <- OneEntry
    RequeueRequests = {}
    RetentionOnly = {}
    Verifying = {}
    MaxAttempts = 2
    MaxCounted = 4
    BatchSize = 1
    MaxFaults = 0
    MaxLapses = 1
SYMMETRY RunnersAreAlike
SPECIFICATION Spec
INVARIANTS
    CompletionIsHonest
\* With everything settled and nobody enqueueing, the system rests.
CHECK_DEADLOCK FALSE
