SPECIFICATION Spec
CONSTANTS
  Gauges = {"messagesIn", "p99Produce"}
  Ranges = {"messagesInRange"}
  JobGauges = {}
  Waves <- MCWaves
  TopUsers = 2
  Windows = 1
  Rejected = Rejected
  Null = Null
  Missing = Missing
  Orphan = Orphan
  InitialWorlds <- DemoInitialWorlds
  Turns <- MCTurns
  Scrapes <- MCScrapes
  JobLists <- MCJobLists
  Upserts <- MCUpserts
  Followed <- DemoFollowed
  PoolMax = 2
  PrometheusUrl = "http://prometheus:9090"
  MaxMoves <- DemoMaxMoves
INVARIANT SimulatedIsLabelled
CHECK_DEADLOCK FALSE
