------------------------------ MODULE OrderView ------------------------------
(***************************************************************************)
(* What the platform promises whoever reads user_order_stats and           *)
(* order-events-dlq, however the job reads, buffers, checkpoints, fails    *)
(* and restarts: a row is written only once its window is over on every    *)
(* partition, never counts an order twice, is exact as soon as it is there *)
(* if none of its own orders came after its end, and is written once       *)
(* unless the job fails; what is rejected is poison, and stays rejected.   *)
(* OrderEventJob implements it.                                            *)
(***************************************************************************)
EXTENDS Integers, Sequences, FiniteSets

CONSTANTS
  Partitions,
  Orders,    \* what a partition may hold
  Rows,      \* primary keys of the table
  OrdersOf,  \* the orders each row has to count
  Enders,    \* the orders after which no order of the row is on time
  Poison     \* the orders that belong on the dead-letter topic

VARIABLES
  topic,     \* the orders of each partition
  started,   \* has the job been submitted?
  since,     \* the length of each partition then
  intact,    \* has no restart lost the state?
  failed,    \* has the job failed yet?
  table,     \* the count in each row; 0 if there is none
  rejected   \* <<partition, offset>> of the dead letters

vars == <<topic, started, since, intact, failed, table, rejected>>

Held == UNION {{p} \X (1..Len(topic[p])) : p \in Partitions}
At(c) == topic[c[1]][c[2]]
Covered == {c \in Held : c[2] > since[c[1]]}

Of(row) == {c \in Held : At(c) \in OrdersOf[row]}

(* The window of the row is over on every partition.                          *)
Ended(row) == \A p \in Partitions : \E i \in 1..Len(topic[p]) : topic[p][i] \in Enders[row]

(* No order of the row comes after the end of its window in its partition.    *)
InTime(row) ==
  \A p \in Partitions : \A i \in 1..Len(topic[p]) : topic[p][i] \in OrdersOf[row] =>
    \A j \in 1..(i - 1) : topic[p][j] \notin Enders[row]

Init ==
  /\ topic = [p \in Partitions |-> <<>>]
  /\ started = FALSE /\ since = [p \in Partitions |-> 0]
  /\ intact = TRUE /\ failed = FALSE
  /\ table = [row \in Rows |-> 0]
  /\ rejected = {}

Arrive(p, e) ==
  /\ topic' = [topic EXCEPT ![p] = Append(@, e)]
  /\ UNCHANGED <<started, since, intact, failed, table, rejected>>

Submit ==
  /\ ~started /\ started' = TRUE
  /\ since' = [p \in Partitions |-> Len(topic[p])]
  /\ UNCHANGED <<topic, intact, failed, table, rejected>>

Fail ==
  /\ started /\ failed' = TRUE
  /\ UNCHANGED <<topic, started, since, intact, table, rejected>>

(* A restart without the state.                                               *)
Forget ==
  /\ failed /\ intact' = FALSE
  /\ UNCHANGED <<topic, started, since, failed, table, rejected>>

(* A row may be written with a count of n.                                    *)
Due(row, n) ==
  /\ Ended(row)
  /\ n \in 1..Cardinality(Of(row))
  /\ intact /\ InTime(row) => n = Cardinality(Of(row) \cap Covered)
  /\ ~failed => table[row] = 0

(* Any number of rows and dead letters at once.                               *)
Deliver ==
  /\ started
  /\ table' \in [Rows -> Nat]
  /\ \A row \in Rows : table'[row] = table[row] \/ Due(row, table'[row])
  /\ rejected \subseteq rejected'
  /\ \A c \in rejected' \ rejected : c \in Covered /\ At(c) \in Poison
  /\ UNCHANGED <<topic, started, since, intact, failed>>

Next ==
  \/ \E p \in Partitions, e \in Orders : Arrive(p, e)
  \/ Submit \/ Fail \/ Forget \/ Deliver

Spec == Init /\ [][Next]_vars
=============================================================================
