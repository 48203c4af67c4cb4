SPECIFICATION Spec
CONSTANTS
  FastPeriod = 1
  SlowPeriod = 2
  RsiPeriod = 2
  AtrPeriod = 2
  VolumePeriod = 2
  Lookback = 2
  Warmup = 0
  UseRsiFilter = TRUE
  RsiBuyMin = 45
  RsiMin = 40
  RsiMax = 90
  Oversold = 30
  Overbought = 70
  MinAtr = 1
  StopMult = 2
  TargetMult = 2
  StopPct = 10
  TakePct = 20
  MaxHoldingBars = 2
  Candidates = {"ema_crossover", "ema_rsi", "ema_trend", "rsi_mean_reversion", "breakout"}
  Bars <- MCBars
  MaxBars = 6
  InitialCash = 100
  Unit = 10
  SizeRate = 8
  ImpactRate = 1
  FeeRate = 1
INVARIANTS
  CashExplained
  FirstTouch
  NeverAgainstTrend
  ReportFaithful
CHECK_DEADLOCK FALSE
