CONSTANTS
  GatewayReachable = TRUE
  MaxFrames = 1
  Trim = 2
  HistoryMax = 1
  LoopMargin = 1
  Recording <- Session
  MaxTime = 2
  MaxSent = 3
  MaxBooks = 1
  MaxConnects = 2
  MaxChanges = 3
  MaxGestures = 2
SPECIFICATION Spec
INVARIANTS
  TypeOK
  FramesUnmixed
  LiveContiguous
  RetryArmed
  ConnectingEnds
