\* One lease may run out under a working runner, which then settles late.
CONSTANTS
    r1 = r1
    r2 = r2
    op = op
    Entries = {1, 2, 3}
    subjectOf <- OneSubject
    operationOf <- EraseAndRectify
    Sessions <- TwoRunnersAndOperator
    Runners <- TwoRunners
    Operator = op
    Transactions <- ErasureThenThird
    RequeueRequests = {}
    RetentionOnly = {2}
    Verifying = {}
    MaxAttempts = 2
    MaxCounted = 4
    BatchSize = 1
    MaxFaults = 0
    MaxLapses = 1
SYMMETRY RunnersAreAlike
SPECIFICATION Spec
INVARIANTS
    TerminalRowsKeepNoCorrections
    EveryOutcomeIsAudited
    CompletionIsNeverLost
    ErasureCompletionIsHonest
\* With everything settled and nobody enqueueing, the system rests.
CHECK_DEADLOCK FALSE
