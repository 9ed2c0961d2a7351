SPECIFICATION FairSpec
CONSTANTS
  p1 = p1
  p2 = p2
  r1 = r1
  r2 = r2
  u1 = u1
  u2 = u2
  empty = empty
  o1 = o1
  bad1 = bad1
  Partitions = {p1, p2}
  Readers = {r1, r2}
  ReaderOf <- TwoReaderOf
  Users = {u1, u2}
  EmptyId = empty
  OrderIds = {o1, bad1}
  BadIds = {bad1}
  AmountBound = 2
  PillBound = 2
  Amounts <- MCAmounts
  Times <- MCTimes
  Orders <- TwoOrders
  PartitionOf <- TwoPartitionOf
  WindowSize = 2
  OutOfOrderness = 1
  MaxOrders = 3
  MaxCrashes = 1
  MaxLosses = 0
INVARIANTS
  RowExactWhenOnTime
PROPERTIES
  PoisonReachesDlq
  ClosableWindowWritten
