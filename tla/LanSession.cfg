SPECIFICATION FairSpec
CONSTANTS
    Workers = 1
    Units = 3
    Interval = 1
    Missed = 2
    LeaseSeconds = 3
    MaxRuns = 1
    Skews <- Behind
    MaxTime = 5
    MaxCalls = 2
INVARIANTS
    HeartbeatsAreNext
    NeverQueued
PROPERTIES
    TakenInTerm
    HeartbeatsKeepLease
    CallEnds
    WorkersLeave
CHECK_DEADLOCK FALSE
