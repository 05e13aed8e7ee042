CONSTANTS
  Null = Null
  Huge = Huge
  Sessions <- TwoSessions
  MaxPackets = 2
  MaxRecent = 2
  MaxSample = 3
  Window = 3
  Rate = 3
  Steps = {15, 40}
  MaxGestures = 3
  TypedPrices = {Null, Huge}
  TypedQuantities = {5, Huge}
  Levels = {1234}
  MaxEdits = 2
  MaxRequests = 2
  MaxBreaks = 1
SPECIFICATION Spec
INVARIANTS
  SpotFollows
  LatenciesFaithful
  ChartFaithful
  OrderWellFormed
  BusyExact
  MessageTruthful
PROPERTY
  BusyEnds
