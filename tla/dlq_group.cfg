SPECIFICATION Spec
CONSTANTS
  p1 = p1
  p2 = p2
  c1 = c1
  c2 = c2
  NoOne = NoOne
  Partitions = {p1}
  Consumers = {c1, c2}
  MaxRetries = 1
  ChannelBuffer = 2
  Arrivals <- AllRecords
  MaxRecords = 2
  MaxCrashes = 1
  MaxStops = 1
  MaxTimeouts = 1
  MaxErrors = 1
SYMMETRY Replicas
INVARIANTS
  TypeOK
  CommittedIsSettled
  RepublishedOnceWithoutFailure
  DuplicatesBounded
  OneCommitterPerPartition
PROPERTIES
  CommittedNeverRegresses
  ImplementsRelay
CHECK_DEADLOCK FALSE
