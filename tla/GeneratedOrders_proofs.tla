----------------------- MODULE GeneratedOrders_proofs -----------------------
(* Theorem of GeneratedOrders, for every topology of the job and every set of *)
(* orders that the generator may have produced.                               *)
EXTENDS GeneratedOrders, OrderEventJobExact_proofs

USE DEF vars, sourceVars, sinkVars, chkVars, envVars

(* The job and the generator disagree on nothing but minus zero: what the     *)
(* validation rejects is a pill, and every other pill is rejected.            *)
LEMMA PillIsPoison ==
  ASSUME NEW e \in GenerateOrderEvent
  PROVE  /\ isPoisonPill(e) => e \in generatePoisonPill
         /\ e \in generatePoisonPill \ MinusZero => isPoisonPill(e)
<1>1. CASE e \in Ordinary
  <2>1. /\ e.userId # EmptyId /\ e.orderId # EmptyId
        /\ e.amount \in Intn(AmountBound)
    BY <1>1, UsersAssumption, GeneratorAssumption DEF Ordinary
  <2>2. ~isPoisonPill(e)
    BY <2>1, GeneratorAssumption DEF isPoisonPill, Intn
  <2>3. e.orderId \notin BadIds
    BY <1>1 DEF Ordinary
  <2>4. e \notin NegativeAmount /\ e \notin NoUser /\ e \notin NoOrderId
    BY <2>1, <2>3 DEF NegativeAmount, NoUser, NoOrderId
  <2>. QED
    BY <2>2, <2>4 DEF generatePoisonPill
<1>2. CASE e \in NegativeAmount
  <2>1. e.amount \in {-1 * n : n \in Intn(PillBound)}
    BY <1>2 DEF NegativeAmount
  <2>2. e.amount # 0 => e.amount < 0
    BY <2>1, GeneratorAssumption DEF Intn
  <2>. QED
    BY <1>2, <2>2 DEF isPoisonPill, MinusZero, generatePoisonPill
<1>3. CASE e \in NoUser \cup NoOrderId
  <2>1. e.userId = EmptyId \/ e.orderId = EmptyId
    BY <1>3 DEF NoUser, NoOrderId
  <2>. QED
    BY <1>3, <2>1 DEF isPoisonPill, generatePoisonPill
<1>. QED
  BY <1>1, <1>2, <1>3 DEF GenerateOrderEvent, generatePoisonPill

(* Whatever is dead-lettered is a pill of the producer, and every pill behind *)
(* a completed checkpoint but minus zero is on order-events-dlq: the two      *)
(* programs agree on the boundary of every field.                             *)
THEOREM JobFindsThePills == Spec => []DeadLettersAreThePills
<1>1. TypeOK /\ DeadLettersInv /\ CheckpointedPoisonInDlq => DeadLettersAreThePills
  <2>. SUFFICES ASSUME TypeOK, DeadLettersInv, CheckpointedPoisonInDlq
                PROVE  DeadLettersAreThePills
    OBVIOUS
  <2>1. ASSUME NEW p \in Partitions, NEW i \in 1..Len(log[p])
        PROVE  log[p][i] \in GenerateOrderEvent
    BY <2>1, OrdersAssumption DEF TypeOK
  <2>2. ASSUME NEW c \in dlq \cup dlqBuf PROVE OrderAt(c) \in generatePoisonPill
    <3>1. c[1] \in Partitions
      BY DEF TypeOK, Coordinates
    <3>2. c[2] \in 1..Len(log[c[1]]) /\ isPoisonPill(log[c[1]][c[2]])
      BY DEF DeadLettersInv, DeadLetter
    <3>. QED
      BY <2>1, <3>1, <3>2, PillIsPoison DEF OrderAt
  <2>3. ASSUME chk.taken, NEW c \in Lineage(chk.pos),
               OrderAt(c) \in generatePoisonPill \ MinusZero
        PROVE  c \in dlq
    <3>1. isPoisonPill(OrderAt(c))
      BY <2>3, PillIsPoison DEF GenerateOrderEvent
    <3>. QED
      BY <2>3, <3>1 DEF CheckpointedPoisonInDlq
  <2>. QED
    BY <2>2, <2>3 DEF DeadLettersAreThePills
<1>. QED
  BY <1>1, JobDeliversPoison, TypeInit, TypeStep, PoisonInit, PoisonStep,
     LineageInit, LineageStep, DeadLettersInit, DeadLettersStep, PTL DEF Spec
=============================================================================
