CONSTANTS
  p1 = p1
  p2 = p2
  Producers = {p1}
  Quota <- OneProducer
  BufferSize = 2
  IndexModulus = 5
SPECIFICATION Spec
INVARIANT
  BuffersBounded
CHECK_DEADLOCK FALSE
