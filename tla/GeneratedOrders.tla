-------------------------- MODULE GeneratedOrders --------------------------
(***************************************************************************)
(* The orders the Go producer really generates (producer/event.go), poison *)
(* pills among them, as the input of the Flink job: does the job's         *)
(* validation find the pills, all of them, and nothing else?               *)
(*                                                                         *)
(* A pill is told from an ordinary order by its id, "ord-bad-..." or empty.*)
(* An amount is an integer; -1 * 0.0 is a minus zero that is written "-0"  *)
(* and compares as 0, which is what 0 does here.                           *)
(***************************************************************************)
EXTENDS OrderEventJob

CONSTANTS
  BadIds,       \* the order ids that begin with "ord-bad-"
  AmountBound,  \* the n of rand.Intn(n) for an amount
  PillBound     \* the n of rand.Intn(n) for the amount of a negative pill

ASSUME GeneratorAssumption ==
  /\ BadIds \subseteq OrderIds /\ EmptyId \notin OrderIds
  /\ {AmountBound, PillBound} \subseteq Nat \ {0}

Intn(n) == 0..(n - 1)

NegativeAmount ==
  [userId : Users, orderId : BadIds, amount : {-1 * n : n \in Intn(PillBound)},
   status : {"PLACED"}, timestamp : Times]
NoUser ==
  [userId : {EmptyId}, orderId : BadIds, amount : Intn(AmountBound),
   status : {"PLACED"}, timestamp : Times]
NoOrderId ==
  [userId : Users, orderId : {EmptyId}, amount : Intn(AmountBound),
   status : {"PLACED"}, timestamp : Times]

generatePoisonPill == NegativeAmount \cup NoUser \cup NoOrderId

Ordinary ==
  [userId : Users, orderId : OrderIds \ BadIds, amount : Intn(AmountBound),
   status : Statuses, timestamp : Times]

GenerateOrderEvent == generatePoisonPill \cup Ordinary

(* The topic holds what the producer generates. *)
ASSUME OrdersAssumption == Orders \subseteq GenerateOrderEvent

(* The negative pill that is none. *)
MinusZero == {e \in NegativeAmount : e.amount = 0}

-----------------------------------------------------------------------------
(* Properties *)

(* The job's validation finds the pills that the producer makes, nothing but   *)
(* pills, and every one behind a completed checkpoint except minus zero: the   *)
(* two programs agree on the boundary of every field, and no test of the       *)
(* amount could do better, since an ordinary order may be of 0                 *)
(* (event.go:35-62, OrderEventJob.java:76-80).                                 *)
DeadLettersAreThePills ==
  /\ \A c \in dlq \cup dlqBuf : OrderAt(c) \in generatePoisonPill
  /\ chk.taken => \A c \in Lineage(chk.pos) :
                    OrderAt(c) \in generatePoisonPill \ MinusZero => c \in dlq

=============================================================================
