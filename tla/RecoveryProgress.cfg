SPECIFICATION ProgressSpec
CONSTANTS
    Unit = {u1, u2}
    Digest = {d1, d2}
    None = None
    Proc = {p1, p2}
    MaxAttempt = 2
    MaxRevision = 12
    BusyRevision = 4
PROPERTIES
    ResumeDecides
CHECK_DEADLOCK FALSE
