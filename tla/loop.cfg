SPECIFICATION LoopSpec
CONSTANTS
  p1 = p1
  c1 = c1
  c2 = c2
  NoOne = NoOne
  Partitions = {p1}
  Consumers = {c1}
  MaxRetries = 1
  ChannelBuffer = 1
  Arrivals <- JobRecords
  MaxRecords = 4
  MaxCrashes = 1
  MaxStops = 0
  MaxTimeouts = 0
  MaxErrors = 1
  MaxReplays = 1
INVARIANTS
  PoisonStaysInLoop
CHECK_DEADLOCK FALSE
