CONSTANTS
  p1 = p1
  p2 = p2
  Producers = {p1, p2}
  Quota <- OneSlowProducer
  BufferSize = 2
  IndexModulus = 1000
SPECIFICATION Spec
INVARIANTS
  ChainSound
  WriterFindsItsSlot
  FreedMemorySafe
PROPERTY
  EveryItemDelivered
  ImplementsMessageQueue
CHECK_DEADLOCK FALSE
