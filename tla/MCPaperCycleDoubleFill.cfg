SPECIFICATION Spec
CONSTANTS
  Cycles = {c1, c2}
  MaxCandle = 1
  Price <- MCPrice
  Cash0 = 20
  Signals <- MCRoundTrip
  MaxFaults = 0
  MaxCrashes = 1
  BootCanFail = FALSE
SYMMETRY Symmetry
CHECK_DEADLOCK FALSE
INVARIANTS
  NoDoubleFill
