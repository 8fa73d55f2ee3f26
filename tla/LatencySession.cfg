SPECIFICATION Spec
CONSTANTS
  Requests <- MCRequests
  Quotes <- MCQuotes
  Sweeps <- MCSweeps
  Names <- MCNames
  Targets <- MCTargets
  Depth = 2
  MaxOrders = 2
  MaxCancels = 2
  MaxFlow = 1
CHECK_DEADLOCK FALSE
INVARIANTS LedgersReconcile ScreenCatchesUp NewBeforeCancel NothingStuck
