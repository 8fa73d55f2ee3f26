SPECIFICATION FairSpec
CONSTANTS
    Workers = 2
    Units = 2
    Interval = 1
    Missed = 2
    LeaseSeconds = 2
    MaxRuns = 1
    Skews <- Exact
    MaxTime = 2
    MaxCalls = 1
INVARIANTS
    InOrder
    RunsUnderItsLease
PROPERTIES
    ImplementsBackend
CHECK_DEADLOCK FALSE
