\* Up to three guarded calls, two at a time, on a subject who disappears and may sign
\* up again, or survives pseudonymized beside invoices that are retained.
CONSTANTS
    c1 = c1
    c2 = c2
    w1 = w1
    w2 = w2
    s1 = s1
    Calls <- TwoCalls
    Writers <- TwoWriters
    Subjects <- OneSubject
    Rows = {1, 2, 3, 4, 5}
    Initial = {1, 2, 3}
    NoRow = 0
    ownerOf <- SameOwner
    tableOf <- BesideTables
    parentOf <- BesideParents
    Plans <- AllGoesOrSomeIsKept
    SubjectTable = 3
    Locking = TRUE
    MaxCalls = 3
    MaxFaults = 2
SPECIFICATION FairSpec
INVARIANTS
    CommittedTogether
    SpansAreWhole
    NothingIsOrphaned
PROPERTIES
    KeepsTheTrail
    NothingSlipsIn
    EveryCallEnds
\* When every call has ended and every row exists, the system rests.
CHECK_DEADLOCK FALSE
