SPECIFICATION Spec
CONSTANTS
    Requests <- MCRequests
    Rules <- MCRules
    Player = "A"
    MaxOrders = 3
CHECK_DEADLOCK FALSE
INVARIANTS
    LedgersAgree
    LivesInItsPhase
    UncrossIsBest
PROPERTIES
    LeavesForAReason
    NoSelfTrade
    InstructionsKept
