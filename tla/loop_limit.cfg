SPECIFICATION LoopSpec
CONSTANTS
  p1 = p1
  c1 = c1
  c2 = c2
  NoOne = NoOne
  Partitions = {p1}
  Consumers = {c1}
  MaxRetries = 1
  ChannelBuffer = 1
  Arrivals <- JobRecords
  MaxRecords = 4
  MaxCrashes = 0
  MaxStops = 0
  MaxTimeouts = 0
  MaxErrors = 0
  MaxReplays = 0
INVARIANTS
  RetriesLimited
CHECK_DEADLOCK FALSE
