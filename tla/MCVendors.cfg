\* Two calls of a resolver on each of its systems, while entries are written and
\* deleted, requests fail and answers are lost.
CONSTANTS
    c1 = c1
    c2 = c2
    Callers <- TwoCallers
    Systems <- AllSystems
    Slots = {1, 2, 3}
    OwnSlots = {1, 2}
    Oversized <- LargeObjects
    Values = {"first", "second", "third"}
    OldValue = "first"
    verbsOf <- Methods
    corrections <- Corrections
    MaxVersion = 2
    MaxChanges = 2
    PageSize = 1
    BatchSize = 1
SPECIFICATION Spec
INVARIANTS
    ErasuresReportTruly
    ExportsAreWhole
    NothingOfOthers
    RejectedForCause
    RectificationsHold
\* Calls that have ended rest.
CHECK_DEADLOCK FALSE
