SPECIFICATION FairSpec
CONSTANTS
  Objects = {1, 2}
  Values = {"on", "off"}
  BatchMax = 2
  BufferSize = 5
  MaxTime = 2
  MaxInputs = 2
  MaxNet = 0
  MaxFaults = 1
CHECK_DEADLOCK FALSE
INVARIANTS
  EventsInOrder
  QuietAgrees
PROPERTIES
  Converges
