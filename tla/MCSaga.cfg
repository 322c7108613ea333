\* Two runners and an operator, who names every entry; a pass or a requeue may end halfway
\* once, between its two appends for example, and leases cover the calls.
CONSTANTS
    r1 = r1
    r2 = r2
    op = op
    Entries = {1, 2, 3}
    subjectOf <- OneSubject
    operationOf <- EraseAndRectify
    Sessions <- TwoRunnersAndOperator
    Runners <- TwoRunners
    Operator = op
    Transactions <- ErasureThenThird
    RequeueRequests = {{1, 2, 3}}
    RetentionOnly = {}
    Verifying = {}
    MaxAttempts = 2
    MaxCounted = 4
    BatchSize = 1
    MaxFaults = 1
    MaxLapses = 0
SYMMETRY RunnersAreAlike
SPECIFICATION Spec
INVARIANTS
    CompletionIsHonest
    CompletionsAreAccountedFor
    WaitingEntriesHaveAttemptsLeft
PROPERTIES
    OutcomesAreFinal
    KeepsThePromise
\* With everything settled and nobody enqueueing, the system rests.
CHECK_DEADLOCK FALSE
