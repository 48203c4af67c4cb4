SPECIFICATION Spec
CONSTANTS
  Cycles = {c1, c2, c3}
  MaxCandle = 2
  Price <- MCPrice
  Cash0 = 20
  Signals <- MCRoundTrip
  MaxFaults = 0
  MaxCrashes = 0
  BootCanFail = FALSE
SYMMETRY Symmetry
CHECK_DEADLOCK FALSE
INVARIANTS
  OneTradePerCandle
PROPERTIES
  ImplementsTradeLog
