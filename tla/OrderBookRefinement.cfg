CONSTANTS
  OrderIds = {o1, o2, o3, o4}
  Prices = {1, 2}
  Quantities = {1, 2}
  NoOrder = NoOrder
SYMMETRY Interchangeable
SPECIFICATION HSpec
INVARIANTS
  TypeOK
  BookUncrossed
  IndexExact
  ReplyTellsResting
  TopOfBookCurrent
PROPERTIES
  MatchingProgresses
  ImplementsPriceTimePriority
