SPECIFICATION RSpec
CONSTANTS
  Symbols = {"s"}
  Prices = {10, 20}
  Requests <- MCRequests
  MaxOrders = 4
  InitialCash = 43
  Tick = 4
  MakerPct = 0
  TakerPct = 10
  ImpactPct = 10
  FillPct = 100
  Tolerance = 1
INVARIANTS
  NoStaleReservation
  HaltNeedsPhantom
