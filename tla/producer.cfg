SPECIFICATION Spec
CONSTANTS
  b1 = b1
  b2 = b2
  b3 = b3
  w1 = w1
  w2 = w2
  NoLeader = NoLeader
  Workers = {w1, w2}
  Rates = {0, 100}
  RetryMax = 1
  Brokers = {b1, b2, b3}
  MinISR = 2
  MaxEvents = 2
  MaxCrashes = 1
SYMMETRY Alike
INVARIANTS
  TypeOK
  SentEventsSurvive
  NoEventTwice
  WorkerOrder
  StoppedIsSettled
CHECK_DEADLOCK FALSE
