-------------------------------- MODULE Relay --------------------------------
(***************************************************************************)
(* What a consumer group that relays records promises, whoever its members *)
(* are and whatever happens to them: the records of a partition are dealt  *)
(* with in order, an offset is committed only over records that were, and  *)
(* no commit is ever taken back.  A record may be dealt with again, which  *)
(* is a stuttering step.  DlqRetryConsumer implements it.                  *)
(***************************************************************************)
EXTENDS Integers

CONSTANT Partitions

VARIABLES
  arrived,   \* records of each partition
  settled,   \* offsets of the records that were dealt with
  committed  \* records of each partition that nobody will look at again

vars == <<arrived, settled, committed>>

Init ==
  /\ arrived = [p \in Partitions |-> 0]
  /\ settled = [p \in Partitions |-> {}]
  /\ committed = [p \in Partitions |-> 0]

Arrive(p) ==
  /\ arrived' = [arrived EXCEPT ![p] = @ + 1]
  /\ UNCHANGED <<settled, committed>>

Settle(p, i) ==
  /\ 1..(i - 1) \subseteq settled[p]
  /\ settled' = [settled EXCEPT ![p] = @ \cup {i}]
  /\ UNCHANGED <<arrived, committed>>

(* Any number of partitions at once.                                          *)
Commit ==
  /\ committed' \in [Partitions -> Nat]
  /\ \A p \in Partitions :
       committed'[p] >= committed[p] /\ 1..committed'[p] \subseteq settled[p]
  /\ UNCHANGED <<arrived, settled>>

Next ==
  \/ \E p \in Partitions : Arrive(p) \/ \E i \in 1..arrived[p] : Settle(p, i)
  \/ Commit

Spec == Init /\ [][Next]_vars
=============================================================================
