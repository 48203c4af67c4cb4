SPECIFICATION Spec
CONSTANTS
  Prices = {40, 80}
  InitialCash = 130
  Cent = 100
  Unit = 10
  FeeRate = 1
  MaxOrders = 4
  MaxFailures = 1
  MaxCrashes = 1
  MaxResets = 1
  MaxEvents = 5
  MaxHeld = 2
  JournalLimit = 2
  KeyCap = 1
INVARIANTS
  HaltHasCause
  ReservedBacked
  KeysSurvive
  TradesExplainCash
PROPERTIES
  ReportsAgree
CHECK_DEADLOCK FALSE
