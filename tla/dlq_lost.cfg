SPECIFICATION Spec
CONSTANTS
  p1 = p1
  p2 = p2
  c1 = c1
  c2 = c2
  NoOne = NoOne
  Partitions = {p1}
  Consumers = {c1, c2}
  MaxRetries = 1
  ChannelBuffer = 2
  Arrivals <- JobRecords
  MaxRecords = 1
  MaxCrashes = 1
  MaxStops = 1
  MaxTimeouts = 1
  MaxErrors = 1
SYMMETRY Replicas
INVARIANTS
  RetryableIsRepublished
CHECK_DEADLOCK FALSE
