CONSTANTS
  Calls = {1, 2}
  Requests <- Ladder
  Streams = {s1}
  Viewers = {v1}
  NoOrder = NoOrder
SPECIFICATION Spec
INVARIANTS
  StreamGapless
  DrainedStreamCurrent
  TelemetryFaithful
