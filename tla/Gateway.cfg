CONSTANTS
  Null = Null
  Orders <- BotAndUser
  HistoryMax = 2
  LadderRows = 2
  MaxResting = 2
  MaxOps = 3
  RecordWithin = 0
  MaxFaults = 1
SPECIFICATION Spec
INVARIANTS
  TypeOK
  ViewInOrder
  RestingExact
  AttributedWhenSeen
  ViewCurrent
  StatsTruthful
  StatusTruthful
  RecordingFaithful
  OneSubscription
