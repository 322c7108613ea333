\* Up to three requests in two sessions with one failure: records of both ledgers, or requests
\* about the subject's data.
CONSTANTS
    s1 = s1
    s2 = s2
    Sessions <- TwoSessions
    NoRequest = NoRequest
    MaxRequests = 3
    MaxFaults = 1
    Stamps = {1, 2}
    Purposes = {"marketing"}
    All = "all"
    SubjectTable = 2
    Plans <- MCPlans
    kindOf <- MCKindOf
    Registered = {"stripe", "auth"}
    Rectifying = {"stripe"}
    Offers <- MCOffers
SPECIFICATION Spec
INVARIANTS
    TheLastWordProtects
    CommitsAreEvidenced
    CommitsAreSerial
    BundlesAreWhole
