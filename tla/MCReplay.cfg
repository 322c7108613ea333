\* Two attempts on two subjects, two failures, and backups that wait for
\* finished erasures to be committed.
CONSTANTS
    c1 = c1
    c2 = c2
    replay = replay
    s1 = s1
    s2 = s2
    Calls <- TwoCallsAndReplay
    Subjects <- TwoSubjects
    NoSubject = none
    Replayer = replay
    QuietBackups = TRUE
    MaxCalls = 2
    MaxFaults = 2
SPECIFICATION FairSpec
INVARIANTS
    LostErasuresArePlanned
    ReplayIsWhole
PROPERTIES
    LostErasuresReturn
\* When the replay has committed and every call has ended, the system rests.
CHECK_DEADLOCK FALSE
