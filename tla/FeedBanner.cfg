CONSTANTS
  GatewayReachable = TRUE
  MaxFrames = 2
  Trim = 1
  HistoryMax = 2
  LoopMargin = 1
  Recording <- Session
  MaxTime = 2
  MaxSent = 1
  MaxBooks = 0
  MaxConnects = 2
  MaxChanges = 2
  MaxGestures = 0
SPECIFICATION Spec
INVARIANT
  BannerTruthful
