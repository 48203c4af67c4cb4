SPECIFICATION Spec
CONSTANTS
  Actors = {a1, a2}
  KillCommands = {TRUE}
  PauseCommands = {FALSE, TRUE}
  EnableCommands = {TRUE}
  MaxIssued = 2
  MaxFaults = 1
  MaxCrashes = 1
SYMMETRY Symmetry
CHECK_DEADLOCK FALSE
INVARIANTS
  KillDurable
