-------------------------- MODULE MCEventProducer --------------------------
(* Small instances of EventProducer: every broker and worker alike.     *)
EXTENDS EventProducer, TLC

CONSTANTS b1, b2, b3, w1, w2

Alike == Permutations(Brokers) \cup Permutations(Workers)
=============================================================================
