-------------------------- MODULE MCOrderEventJob --------------------------
(* Small instances of OrderEventJob that read orders the producer generates:  *)
(* windows of two ticks, one tick of tolerated disorder, so that timestamp 3  *)
(* on every split closes the window that starts at 0 and timestamp 1 is still *)
(* on time after timestamp 2.                                                 *)
EXTENDS GeneratedOrders, TLC

CONSTANTS p1, p2, r1, r2, u1, u2, empty, o1, bad1

Order(u, id, amount, st, ts) ==
  [userId |-> u, orderId |-> id, amount |-> amount, status |-> st, timestamp |-> ts]

MCTimes == 0..4
MCAmounts == {-1, 0, 1}

(* Two partitions, one per user, read by two subtasks. *)
TwoPartitionOf == (u1 :> p1) @@ (u2 :> p2) @@ (empty :> p2)
TwoReaderOf == (p1 :> r1) @@ (p2 :> r2)
TwoOrders ==
  {Order(u1, o1, 1, "PLACED", 0), Order(u1, o1, 1, "PLACED", 3),
   Order(u2, o1, 1, "PLACED", 1), Order(u2, o1, 1, "SHIPPED", 3),
   Order(empty, bad1, 1, "PLACED", 4)}

(* One partition: longer logs of one user.  The order at 1 is alone in window *)
(* 0, in time or late; the one at 3, a minus zero, closes window 0 and is on  *)
(* time for its own after the one at 4, a negative pill, which moves the      *)
(* watermark without being counted.                                           *)
OnePartitionOf == [u \in {u1, empty} |-> p1]
OneReaderOf == [p \in {p1} |-> r1]
OneOrders ==
  {Order(u1, o1, 0, "PLACED", 1), Order(u1, bad1, 0, "PLACED", 3),
   Order(u1, bad1, -1, "PLACED", 4)}
=============================================================================
