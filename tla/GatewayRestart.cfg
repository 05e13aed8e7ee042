CONSTANTS
  Null = Null
  Orders <- Bots
  HistoryMax = 2
  LadderRows = 2
  MaxResting = 2
  MaxOps = 3
  RecordWithin = 0
  MaxFaults = 1
SPECIFICATION Spec
INVARIANT
  TradesAttributed
