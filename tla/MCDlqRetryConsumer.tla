------------------------ MODULE MCDlqRetryConsumer ------------------------
(* Small instances of DlqRetryConsumer: the replica of the deployment and the *)
(* one that a rolling update starts next to it.                               *)
EXTENDS DlqRetryConsumer, TLC

CONSTANTS p1, p2, c1, c2

(* What the Flink job writes: JSON without headers. *)
JobRecords == {[json |-> TRUE, header |-> NoHeader]}

(* A record of each kind ConsumeClaim distinguishes. *)
AllRecords ==
  {[json |-> TRUE, header |-> NoHeader], [json |-> TRUE, header |-> 1],
   [json |-> FALSE, header |-> NoHeader]}

Replicas == Permutations(Consumers)
=============================================================================
