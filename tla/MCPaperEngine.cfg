SPECIFICATION Spec
CONSTANTS
  Symbols = {"s"}
  Prices = {10, 20}
  Requests <- MCRequests
  MaxOrders = 3
  InitialCash = 70
  Tick = 3
  MakerPct = 0
  TakerPct = 10
  ImpactPct = 10
  FillPct = 50
INVARIANTS
  TypeOK
  Solvent
  ReservationsBalance
  LiveBuysStayReserved
  FillsWithinOrder
  FillsExplainAccount
PROPERTIES
  TerminalIsFinal
  OnlyFillsMoveMoney
