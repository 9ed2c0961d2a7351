SPECIFICATION FairSpec
CONSTANTS
  Gauges = {"messagesIn", "p99Produce"}
  Ranges = {"messagesInRange"}
  JobGauges = {}
  Waves <- MCWaves
  TopUsers = 2
  Windows = 1
  Rejected = Rejected
  Null = Null
  Missing = Missing
  Orphan = Orphan
  InitialWorlds <- MCInitialWorlds
  Turns <- MCTurns
  Scrapes <- MCScrapes
  JobLists <- MCJobLists
  Upserts <- MCUpserts
  Followed <- MCFollowed
  PoolMax = 2
  PrometheusUrl = "http://prometheus:9090"
  MaxMoves <- MCMaxMoves
INVARIANTS
  TypeOK
  HealthyIsReal
  DownIsReal
  CriticalIsReal
  FiringAlertsShown
  AllClearIsReal
  CheckpointsOfRunningJob
  TotalsOfTheTable
  StillWorldIsSnapshot
PROPERTIES
  AbandonedBounded
  RoutesConverge
CHECK_DEADLOCK FALSE
