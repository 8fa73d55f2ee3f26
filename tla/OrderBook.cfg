\* Four IDs: two resting orders, a taker that sweeps both, and one more call.
SPECIFICATION Spec
CONSTANTS
  Ids = {a, b, c, d}
  NoOrder = NoOrder
  Prices = {1, 2}
  Quantities = {1, 3}
  Owners = {"PLAYER", "SIMULATED"}
SYMMETRY Renaming
INVARIANTS BookSound Restorable
PROPERTIES PriceTimePriority ImplementsMarket
CHECK_DEADLOCK FALSE
