SPECIFICATION Spec
CONSTANTS
  p1 = p1
  p2 = p2
  r1 = r1
  r2 = r2
  u1 = u1
  u2 = u2
  empty = empty
  o1 = o1
  bad1 = bad1
  Partitions = {p1}
  Readers = {r1}
  ReaderOf <- OneReaderOf
  Users = {u1}
  EmptyId = empty
  OrderIds = {o1, bad1}
  BadIds = {bad1}
  AmountBound = 2
  PillBound = 2
  Amounts <- MCAmounts
  Times <- MCTimes
  Orders <- OneOrders
  PartitionOf <- OnePartitionOf
  WindowSize = 2
  OutOfOrderness = 1
  MaxOrders = 3
  MaxCrashes = 1
  MaxLosses = 0
INVARIANTS EveryOrderDelivered
