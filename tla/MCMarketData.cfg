SPECIFICATION MCSpec
CONSTANTS
  Symbols = {s1, s2}
  MaxStarts = 2
  MaxAttempts = 2
  MaxFaults = 3
  MaxRequests = 2
  MaxSeq = 3
  SeenCap = 1
  Candles <- MCCandles
  MaxCandles = 3
  MaxLoads = 3
  Delta = 2
INVARIANTS
  SubscriptionsAgree
  GapsNoticed
  HubHonest
PROPERTIES
  FeedRecovers
CHECK_DEADLOCK FALSE
