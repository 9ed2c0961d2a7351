SPECIFICATION FairSpec
CONSTANTS
  p1 = p1
  p2 = p2
  c1 = c1
  c2 = c2
  NoOne = NoOne
  Partitions = {p1, p2}
  Consumers = {c1, c2}
  MaxRetries = 1
  ChannelBuffer = 2
  Arrivals <- JobRecords
  MaxRecords = 1
  MaxCrashes = 1
  MaxStops = 1
  MaxTimeouts = 0
  MaxErrors = 0
PROPERTIES
  EveryRecordCommitted
  TerminationCompletes
CHECK_DEADLOCK FALSE
