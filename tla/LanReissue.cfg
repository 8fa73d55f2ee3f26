SPECIFICATION Spec
CONSTANTS
    Workers = 1
    Units = 1
    Interval = 1
    Missed = 2
    LeaseSeconds = 2
    MaxRuns = 1
    Skews <- Exact
    MaxTime = 3
    MaxCalls = 2
INVARIANTS
    ReissueIsNewAttempt
CHECK_DEADLOCK FALSE
