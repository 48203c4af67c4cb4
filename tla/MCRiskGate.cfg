SPECIFICATION Spec
CONSTANTS
  Symbols = {a, b}
  Prices = {1000, 2000}
  Allowed = {a, b}
  Tickets <- MCTickets
  Cyclers = {"c"}
  Environments <- MCEnvironments
  Outages = {"database"}
  InitialCash = 10000
  SlipBps = 50
  FeeBps = 50
  MaxClock = 2
  MaxAccepted = 4
  MaxEvents = 2
  Window = 1
  MaxPerWindow = 2
  StaleAfter = 1
  RiskPct = 20
  PositionPct = 40
  PortfolioPct = 45
  DailyPct = 10
  DrawdownPct = 15
  MaxLosses = 1
  MaxOpen = 2
  MinNotional = 1000
  EntryPct = 25
SYMMETRY MCSymmetry
INVARIANTS
  RateLimited
  CooldownKept
  LossesBounded
  NeverLive
PROPERTIES
  ExposureCapped
  ExitsWhole
CHECK_DEADLOCK FALSE
