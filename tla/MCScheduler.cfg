SPECIFICATION Spec
CONSTANTS
  MaxTasks = 3
  Stoppers = {s1, s2}
  MaxCommands = 3
  Threshold = 2
INVARIANTS
  NoOverlap
PROPERTIES
  StopTerminates
  StopEndsLoops
  FailuresTrip
  KeepsTrading
CHECK_DEADLOCK FALSE
