SPECIFICATION Spec
CONSTANTS
  Cycles = {c1, c2}
  MaxCandle = 2
  Price <- MCPrice
  Cash0 = 20
  Signals <- MCAnySignal
  MaxFaults = 2
  MaxCrashes = 1
  BootCanFail = TRUE
SYMMETRY Symmetry
CHECK_DEADLOCK FALSE
PROPERTIES
  FailClosed
  KeysHonoured
