CONSTANTS
  p1 = p1
  p2 = p2
  Producers = {p1, p2}
  Quota <- TwoProducers
  BufferSize = 2
  IndexModulus = 1000
SPECIFICATION Spec
INVARIANT
  NoUseAfterFree
CHECK_DEADLOCK FALSE
