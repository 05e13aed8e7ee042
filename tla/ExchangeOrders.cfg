CONSTANTS
  Calls = {1, 2, 3}
  Requests <- Mixed
  Streams = {}
  Viewers = {}
  NoOrder = NoOrder
SPECIFICATION Spec
INVARIANTS
  OrdersAccountedFor
  RepliesMatchTape
  CancelFindsOrder
PROPERTY
  EveryCallAnswered
