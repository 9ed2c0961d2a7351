------------------------------ MODULE DlqLoop ------------------------------
(***************************************************************************)
(* The retry loop of a poison order through both services: the retry       *)
(* consumer republishes it to order-events with a retry-count header, the  *)
(* Flink job reads the value only, finds it invalid again and writes it to *)
(* order-events-dlq, where the retry consumer reads it again.  The order   *)
(* is not changed on the way, so it is poison on every round, and its key  *)
(* puts it on the same partition each time.                                *)
(*                                                                         *)
(* Arrive of DlqRetryConsumer is the first time an order is routed; the    *)
(* job of OrderEventJob is reduced to that one path.                       *)
(***************************************************************************)
EXTENDS DlqRetryConsumer

CONSTANT MaxReplays  \* bound: records routed again after a job failure

(* An order without a header is what the producers' orders and the job's      *)
(* copies are.                                                                *)
ASSUME LoopAssumption ==
  /\ MaxReplays \in Nat
  /\ [json |-> TRUE, header |-> NoHeader] \in Arrivals

VARIABLES
  routed,   \* copies on the retry topic that the job has put back on the DLQ
  round,    \* history: how often the order of a record was retried before
  root,     \* history: the record by which the order first entered the DLQ
  replays   \* records the job routed again so far

loopVars == <<routed, round, root, replays>>
Lineage == [p \in Partitions |-> [i \in Offsets |-> 0]]

LoopInit ==
  /\ Init
  /\ routed = Lineage /\ round = Lineage /\ root = Lineage
  /\ replays = 0

(* An order straight from a producer: no header, no history. *)
Enter(p, r) ==
  /\ Arrive(p, r)
  /\ root' = [root EXCEPT ![p][Len(dlq[p]) + 1] = Len(dlq[p]) + 1]
  /\ UNCHANGED <<routed, round, replays>>

(* The consumer's message: the count it read plus one. *)
Outgoing(p, i) == [json |-> TRUE, header |-> extractRetryCount(dlq[p][i]) + 1]

(* OrderEventDeserializer then OrderEventKafkaSerializer: the value goes      *)
(* through, the headers do not.                                               *)
ThroughJob(r) == [json |-> r.json, header |-> NoHeader]

(* The job appends the copy of record i of p to the DLQ. *)
Reenter(p, i) ==
  LET j == Len(dlq[p]) + 1 IN
  /\ Arrive(p, ThroughJob(Outgoing(p, i)))
  /\ round' = [round EXCEPT ![p][j] = round[p][i] + 1]
  /\ root' = [root EXCEPT ![p][j] = root[p][i]]

(* Mutant: the position moves past the copy before the sink has flushed it. *)
JobRoutes_Unflushed(p, i) ==
  /\ routed[p][i] < sent[p][i]
  /\ routed' = [routed EXCEPT ![p][i] = @ + 1]
  /\ UNCHANGED <<vars, round, root, replays>>

JobRoutes(p, i) ==
  /\ routed[p][i] < sent[p][i]
  /\ Reenter(p, i)
  /\ routed' = [routed EXCEPT ![p][i] = @ + 1]
  /\ UNCHANGED replays

(* After a failure the job replays from its checkpoint and the at-least-once  *)
(* sink writes a second copy.                                                 *)
JobReplays(p, i) ==
  /\ routed[p][i] > 0 /\ replays < MaxReplays
  /\ replays' = replays + 1
  /\ Reenter(p, i)
  /\ UNCHANGED routed

Job(p, i) == JobRoutes(p, i) \/ JobReplays(p, i)

LoopNext ==
  \/ \E p \in Partitions, r \in Arrivals : Enter(p, r)
  \/ \E p \in Partitions, i \in Offsets : Job(p, i)
  \/ /\ \/ \E c \in Consumers : Process(c) \/ Coordinate(c)
        \/ CompleteRebalance
     /\ UNCHANGED loopVars

LoopSpec == LoopInit /\ [][LoopNext]_<<vars, loopVars>>

-----------------------------------------------------------------------------
(* While sends succeed a poison order never leaves the loop unnoticed: some   *)
(* record of it is still to be handled or committed, some copy is still to be *)
(* routed, or it was given up (consumer.go:88-99, OrderEventJob.java:69-91).  *)
PoisonStaysInLoop ==
  faults.errors = 0 =>
    \A p \in Partitions : \A r \in {root[p][i] : i \in 1..Len(dlq[p])} :
      \E i \in 1..Len(dlq[p]) :
        /\ root[p][i] = r
        /\ i > committed[p] \/ routed[p][i] < sent[p][i] \/ <<p, i>> \in closed

(* What the documents say: an order is retried a limited number of times,     *)
(* with a backoff that doubles, and then it fails permanently.                *)
RetriesLimited ==
  \A p \in Partitions : \A i \in 1..Len(dlq[p]) : round[p][i] <= MaxRetries
=============================================================================
