SPECIFICATION Spec
CONSTANTS
  Actors = {a1, a2}
  KillCommands = {TRUE}
  PauseCommands = {}
  EnableCommands = {}
  MaxIssued = 1
  MaxFaults = 0
  MaxCrashes = 0
SYMMETRY Symmetry
CHECK_DEADLOCK FALSE
PROPERTIES
  KillStopsOrders
