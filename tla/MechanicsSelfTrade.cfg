SPECIFICATION Spec
CONSTANTS
    Requests <- MCRequests
    Rules <- MCRules
    Player = "A"
    MaxOrders = 3
PROPERTIES
    NeverSelfTrades
CHECK_DEADLOCK FALSE
