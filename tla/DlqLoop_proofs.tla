--------------------------- MODULE DlqLoop_proofs ---------------------------
(***************************************************************************)
(* Theorems of DlqLoop, for every number of partitions, replicas, records  *)
(* and failures of either service.                                         *)
(***************************************************************************)
EXTENDS DlqLoop, DlqRetryConsumer_proofs

USE DEF vars, outVars, groupVars, claimVars, loopVars

(* What the job writes back is a record like those the producers' orders make. *)
LEMMA CopyArrives ==
  ASSUME NEW p \in Partitions, NEW i \in Offsets
  PROVE  ThroughJob(Outgoing(p, i)) \in Arrivals
BY LoopAssumption DEF ThroughJob, Outgoing

(* A step of the loop is, for the consumer group, a step of its own. *)
LEMMA LoopStepIsStep == [LoopNext]_<<vars, loopVars>> => [Next]_vars
<1>1. ASSUME NEW p \in Partitions, NEW i \in Offsets, Job(p, i) PROVE Next
  BY <1>1, CopyArrives DEF Job, JobRoutes, JobReplays, Reenter, Next
<1>2. ASSUME NEW p \in Partitions, NEW r \in Arrivals, Enter(p, r) PROVE Next
  BY <1>2 DEF Enter, Next
<1>. QED
  BY <1>1, <1>2 DEF LoopNext, Next

(* The consumer group of the loop is the consumer group: whatever holds of    *)
(* DlqRetryConsumer by itself holds of it in the loop with the job.           *)
THEOREM LoopKeepsGroup == LoopSpec => Spec
<1>1. LoopInit => Init
  BY DEF LoopInit
<1>. QED
  BY <1>1, LoopStepIsStep, PTL DEF LoopSpec, Spec

-----------------------------------------------------------------------------
(* Only a record that is there has copies. *)
SentInv == \A p \in Partitions, i \in Offsets : sent[p][i] > 0 => i <= Len(dlq[p])

(* No copy is sent initially. *)
LEMMA SentInit == Init => SentInv
BY DEF Init, SentInv

(* A claim sends copies of the records it was given. *)
LEMMA SentStep == TypeOK /\ RangeInv /\ SentInv /\ [Next]_vars => SentInv'
<1> SUFFICES ASSUME TypeOK, RangeInv, SentInv, [Next]_vars PROVE SentInv'
  OBVIOUS
<1>1. ASSUME NEW c \in Consumers, NEW p \in Partitions, ConsumeClaim(c, p) PROVE SentInv'
  <2>1. /\ HasMessage(c, p) /\ dlq' = dlq
        /\ sent' = sent \/ sent' = [sent EXCEPT ![p][next[c][p] + 1] = @ + 1]
    BY <1>1 DEF ConsumeClaim, SkipMalformed, GiveUp, StartBackoff, Republish, RepublishFails,
                Mark, claimFrame
  <2>2. next[c][p] + 1 \in 1..Len(dlq[p]) /\ next[c][p] + 1 \in Offsets
    BY <2>1, CurrentRange
  <2>3. \A q \in Partitions, j \in Offsets :
          sent'[q][j] = sent[q][j] \/ (q = p /\ j = next[c][p] + 1)
    BY <2>1, <2>2, SentMore
  <2>. QED
    BY <2>1, <2>2, <2>3 DEF SentInv
<1>2. ASSUME NEW p \in Partitions, NEW r \in Arrivals, Arrive(p, r) PROVE SentInv'
  <2>1. sent' = sent /\ \A q \in Partitions : /\ Len(dlq[q]) <= Len(dlq'[q])
                                              /\ Len(dlq[q]) \in Nat /\ Len(dlq'[q]) \in Nat
    BY <1>2 DEF Arrive, TypeOK
  <2>. QED
    BY <2>1 DEF SentInv, Offsets
<1>3. ASSUME UNCHANGED <<dlq, sent>> PROVE SentInv'
  BY <1>3 DEF SentInv
<1>4. ASSUME NEW c \in Consumers,
             \/ \E p \in Partitions : Fetch(c, p)
             \/ AutoCommit(c) \/ CancelSession(c) \/ ReleaseSession(c)
             \/ Start(c) \/ Terminate(c) \/ Exit(c) \/ Crash(c) \/ Coordinate(c)
      PROVE  UNCHANGED <<dlq, sent>>
  BY <1>4 DEF Fetch, claimFrame, AutoCommit, CancelSession, ReleaseSession, Start, Terminate,
              Exit, Crash, Coordinate, JoinGroup, SessionTimeout, RebalanceTimeout, Evicted,
              StartSession, groupFrame
<1>5. ASSUME CompleteRebalance \/ UNCHANGED vars PROVE UNCHANGED <<dlq, sent>>
  BY <1>5 DEF CompleteRebalance, groupFrame
<1>. QED
  BY <1>1, <1>2, <1>3, <1>4, <1>5 DEF Next, Process

(* Every order in the loop has a record that was never routed back: routing   *)
(* one adds another.  Records that are not there yet were not routed.         *)
TailInv ==
  /\ routed \in [Partitions -> [Offsets -> Nat]]
  /\ root \in [Partitions -> [Offsets -> Nat]]
  /\ \A p \in Partitions, i \in Offsets : i > Len(dlq[p]) => routed[p][i] = 0
  /\ \A p \in Partitions : \A i \in 1..Len(dlq[p]) :
       \E j \in 1..Len(dlq[p]) : root[p][j] = root[p][i] /\ routed[p][j] = 0

(* The loop is empty initially. *)
LEMMA TailInit == LoopInit => TailInv
BY DEF LoopInit, Init, TailInv, Lineage

(* A new record at the end of a partition is not routed, so each order has    *)
(* one, also that of the record that was routed with it, if any.              *)
LEMMA TailGrows ==
  ASSUME TypeOK, RangeInv, TailInv, NEW p \in Partitions, NEW r \in Arrivals, Arrive(p, r),
         NEW k \in Nat, k = Len(dlq[p]) + 1, NEW v \in Nat,
         root' = [root EXCEPT ![p][k] = v],
         \/ routed' = routed
         \/ \E i \in 1..Len(dlq[p]) :
              v = root[p][i] /\ routed' = [routed EXCEPT ![p][i] = @ + 1]
  PROVE  TailInv'
<1>1. /\ k \in Offsets /\ Len(dlq[p]) \in Nat /\ Len(dlq'[p]) = k
      /\ \A q \in Partitions \ {p} : dlq'[q] = dlq[q]
      /\ \A q \in Partitions : \A i \in 1..Len(dlq[q]) : i \in Offsets
  BY BoundsType DEF Arrive, TypeOK, RangeInv, Offsets
<1>2. /\ root' \in [Partitions -> [Offsets -> Nat]]
      /\ root'[p][k] = v
      /\ \A q \in Partitions, j \in Offsets :
           ~(q = p /\ j = k) => root'[q][j] = root[q][j]
  BY <1>1 DEF TailInv
<1>3. /\ routed' \in [Partitions -> [Offsets -> Nat]]
      /\ \A q \in Partitions, j \in Offsets :
           \/ routed'[q][j] = routed[q][j]
           \/ q = p /\ j \in 1..Len(dlq[p]) /\ v = root[p][j]
  <2>1. CASE routed' = routed
    BY <2>1 DEF TailInv
  <2>2. CASE \E i \in 1..Len(dlq[p]) :
               v = root[p][i] /\ routed' = [routed EXCEPT ![p][i] = @ + 1]
    <3>1. PICK i \in 1..Len(dlq[p]) :
            v = root[p][i] /\ routed' = [routed EXCEPT ![p][i] = @ + 1]
      BY <2>2
    <3>2. i \in Offsets
      BY <1>1
    <3>3. routed \in [Partitions -> [Offsets -> Nat]]
      BY DEF TailInv
    <3>4. routed[p][i] + 1 \in Nat
      BY <3>2, <3>3
    <3>5. routed' \in [Partitions -> [Offsets -> Nat]]
      BY <3>1, <3>2, <3>3, <3>4
    <3>6. \A q \in Partitions, j \in Offsets : ~(q = p /\ j = i) => routed'[q][j] = routed[q][j]
      BY <3>1, <3>2, <3>3
    <3>. QED
      BY <3>1, <3>5, <3>6
  <2>. QED
    BY <2>1, <2>2
<1>4. ASSUME NEW q \in Partitions, NEW i \in Offsets, i > Len(dlq'[q]) PROVE routed'[q][i] = 0
  <2>1. i \in Nat /\ Len(dlq[q]) \in Nat
    BY DEF TypeOK, Offsets
  <2>2. i > Len(dlq[q])
    <3>1. CASE q = p
      BY <1>1, <1>4, <2>1, <3>1
    <3>2. CASE q # p
      BY <1>1, <1>4, <3>2
    <3>. QED
      BY <3>1, <3>2
  <2>3. routed[q][i] = 0
    BY <2>2 DEF TailInv
  <2>4. q = p => ~(i \in 1..Len(dlq[p]))
    BY <2>1, <2>2
  <2>5. routed'[q][i] = routed[q][i]
    BY <1>3, <2>4
  <2>. QED
    BY <2>3, <2>5
<1>5. routed'[p][k] = 0
  <2>1. k > Len(dlq[p]) /\ ~(k \in 1..Len(dlq[p]))
    BY <1>1
  <2>. QED
    BY <1>1, <1>3, <2>1 DEF TailInv
<1>6. ASSUME NEW q \in Partitions, NEW i \in 1..Len(dlq'[q])
      PROVE  \E j \in 1..Len(dlq'[q]) : root'[q][j] = root'[q][i] /\ routed'[q][j] = 0
  <2>1. CASE q = p /\ root'[p][i] = v
    <3>1. k \in 1..Len(dlq'[q])
      BY <1>1, <2>1
    <3>. QED
      BY <1>2, <1>5, <2>1, <3>1
  <2>2. CASE ~(q = p /\ root'[p][i] = v)
    <3>1. i \in 1..Len(dlq[q]) /\ root'[q][i] = root[q][i]
      BY <1>1, <1>2, <2>2
    <3>2. PICK j \in 1..Len(dlq[q]) : root[q][j] = root[q][i] /\ routed[q][j] = 0
      BY <3>1 DEF TailInv
    <3>3. root'[q][j] = root[q][j] /\ j \in 1..Len(dlq'[q])
      BY <1>1, <1>2
    <3>4. routed'[q][j] = routed[q][j]
      BY <1>1, <1>3, <2>2, <3>1, <3>2
    <3>. QED
      BY <3>1, <3>2, <3>3, <3>4
  <2>. QED
    BY <2>1, <2>2
<1>. QED
  BY <1>2, <1>3, <1>4, <1>6 DEF TailInv

(* Every step of the loop leaves every order a record not routed yet. *)
LEMMA TailStep ==
  TypeOK /\ RangeInv /\ SentInv /\ TailInv /\ [LoopNext]_<<vars, loopVars>> => TailInv'
<1> SUFFICES ASSUME TypeOK, RangeInv, SentInv, TailInv, [LoopNext]_<<vars, loopVars>>
             PROVE  TailInv'
  OBVIOUS
<1>1. ASSUME NEW p \in Partitions, NEW r \in Arrivals, Enter(p, r) PROVE TailInv'
  <2> DEFINE k == Len(dlq[p]) + 1
  <2>1. k \in Nat /\ Arrive(p, r) /\ routed' = routed /\ root' = [root EXCEPT ![p][k] = k]
    BY <1>1 DEF Enter, TypeOK
  <2> HIDE DEF k
  <2>. QED
    BY <2>1, TailGrows DEF k
<1>2. ASSUME NEW p \in Partitions, NEW i \in Offsets, Job(p, i) PROVE TailInv'
  <2>1. /\ Reenter(p, i) /\ (routed[p][i] > 0 \/ routed[p][i] < sent[p][i])
        /\ routed' = routed \/ routed' = [routed EXCEPT ![p][i] = @ + 1]
    BY <1>2 DEF Job, JobRoutes, JobReplays
  <2>2. i \in 1..Len(dlq[p])
    <3>1. i \in Nat /\ i >= 1
      BY BoundsType DEF Offsets
    <3>3. Len(dlq[p]) \in Nat
      BY DEF TypeOK
    <3>4. routed[p][i] \in Nat
      BY DEF TailInv
    <3>5. sent[p][i] \in Nat
      BY DEF TypeOK
    <3>2. i <= Len(dlq[p])
      BY <2>1, <3>1, <3>3, <3>4, <3>5 DEF SentInv, TailInv
    <3>. QED
      BY <3>1, <3>2, <3>3
  <2> DEFINE k == Len(dlq[p]) + 1
             v == root[p][i]
             r == ThroughJob(Outgoing(p, i))
  <2>3. /\ k \in Nat /\ v \in Nat /\ r \in Arrivals
        /\ Arrive(p, r) /\ root' = [root EXCEPT ![p][k] = v]
    BY <2>1, CopyArrives DEF Reenter, TypeOK, TailInv
  <2>4. \/ routed' = routed
        \/ \E j \in 1..Len(dlq[p]) :
             v = root[p][j] /\ routed' = [routed EXCEPT ![p][j] = @ + 1]
    BY <2>1, <2>2
  <2>5. k = Len(dlq[p]) + 1
    OBVIOUS
  <2> HIDE DEF k, v, r
  <2>. QED
    BY <2>3, <2>4, <2>5, TailGrows
<1>3. CASE \/ (\E c \in Consumers : Process(c) \/ Coordinate(c)) /\ UNCHANGED loopVars
           \/ CompleteRebalance /\ UNCHANGED loopVars
           \/ UNCHANGED <<vars, loopVars>>
  <2>1. UNCHANGED <<dlq, routed, root>>
    BY <1>3 DEF Process, Fetch, ConsumeClaim, SkipMalformed, GiveUp, StartBackoff, Republish,
                RepublishFails, Mark, claimFrame, AutoCommit, CancelSession, ReleaseSession,
                Start, Terminate, Exit, Crash, Coordinate, JoinGroup, SessionTimeout,
                RebalanceTimeout, Evicted, StartSession, CompleteRebalance, groupFrame
  <2>. QED
    BY <2>1 DEF TailInv
<1>. QED
  BY <1>1, <1>2, <1>3 DEF LoopNext

-----------------------------------------------------------------------------
(* While sends succeed a poison order never leaves the loop unnoticed: one of *)
(* its records was never routed back, and that one is still to be handled, or *)
(* has a copy still to be routed, or was given up.                            *)
THEOREM LoopKeepsPoison == LoopSpec => []PoisonStaysInLoop
<1>1. TypeOK /\ RangeInv /\ SettledInv /\ TailInv => PoisonStaysInLoop
  <2> SUFFICES ASSUME TypeOK, RangeInv, SettledInv, TailInv,
                      NEW p \in Partitions, NEW k \in 1..Len(dlq[p])
               PROVE  \E i \in 1..Len(dlq[p]) :
                        /\ root[p][i] = root[p][k]
                        /\ i > committed[p] \/ routed[p][i] < sent[p][i] \/ <<p, i>> \in closed
    BY DEF PoisonStaysInLoop
  <2>1. PICK i \in 1..Len(dlq[p]) : root[p][i] = root[p][k] /\ routed[p][i] = 0
    BY DEF TailInv
  <2>2. committed[p] \in Nat
    BY DEF TypeOK, Positions
  <2>3. i <= committed[p] => Settled(p, i)
    BY <2>2 DEF SettledInv, CommittedIsSettled
  <2>4. i > committed[p] \/ routed[p][i] < sent[p][i] \/ <<p, i>> \in closed
    BY <2>1, <2>2, <2>3 DEF Settled
  <2>. QED
    BY <2>1, <2>4
<1>. QED
  BY <1>1, LoopKeepsGroup, LoopStepIsStep, TypeInit, TypeStep, FenceInit, FenceStep,
     SettledInit, SettledStep, SentInit, SentStep, TailInit, TailStep,
     PTL DEF LoopSpec, Spec
=============================================================================
