----------------------- MODULE DlqRetryConsumer_proofs -----------------------
(* Theorems of DlqRetryConsumer, for every number of partitions, replicas,    *)
(* records and failures, and every retry limit and channel size.              *)
EXTENDS DlqRetryConsumer, FiniteSetTheorems, TLAPS

USE DEF vars, outVars, groupVars, claimVars

(* Every position of a claim is within the records of its partition, and a    *)
(* claim has marked exactly what it has finished with.                        *)
RangeInv ==
  /\ \A p \in Partitions : Len(dlq[p]) <= MaxRecords /\ committed[p] <= Len(dlq[p])
  /\ \A c \in Consumers, p \in Partitions :
       /\ next[c][p] <= upto[c][p] /\ upto[c][p] <= Len(dlq[p])
       /\ marked[c][p] = next[c][p]

(* The bounds are natural numbers. *)
LEMMA BoundsType ==
  /\ MaxRecords \in Nat /\ MaxCrashes \in Nat /\ MaxStops \in Nat
  /\ MaxTimeouts \in Nat /\ MaxErrors \in Nat
BY BoundsAssumption

(* The position of a claim that has read nothing. *)
LEMMA NoClaimType == NoClaim \in Positions
BY DEF NoClaim, Positions

(* The group's variables have their types and ranges initially. *)
LEMMA TypeInit == Init => TypeOK /\ RangeInv
<1>. SUFFICES ASSUME Init PROVE TypeOK /\ RangeInv
  OBVIOUS
<1>1. TypeOK
  BY NoClaimType, BoundsType, GroupAssumption DEF Init, TypeOK, PerClaim, Faults
<1>2. RangeInv
  BY BoundsType DEF Init, RangeInv, NoClaim
<1>. QED
  BY <1>1, <1>2

(* A record arrives. *)
LEMMA TypeArrive ==
  ASSUME TypeOK, RangeInv, NEW p \in Partitions, NEW r \in Arrivals, Arrive(p, r)
  PROVE  TypeOK' /\ RangeInv'
<1>1. /\ dlq' \in [Partitions -> Seq(Arrivals)]
      /\ \A q \in Partitions : Len(dlq[q]) <= Len(dlq'[q]) /\ Len(dlq'[q]) <= MaxRecords
  BY BoundsType DEF Arrive, TypeOK, RangeInv
<1>2. TypeOK'
  BY <1>1 DEF Arrive, TypeOK
<1>3. \A q \in Partitions : Len(dlq[q]) \in Nat /\ Len(dlq'[q]) \in Nat /\ committed[q] \in Nat
  BY <1>1 DEF TypeOK, Positions
<1>4. \A c \in Consumers, q \in Partitions : upto[c][q] \in Nat
  BY DEF TypeOK, PerClaim, Positions
<1>5. RangeInv'
  BY <1>1, <1>3, <1>4 DEF Arrive, RangeInv
<1>. QED
  BY <1>2, <1>5

(* The record a claim works on is one of its partition's. *)
LEMMA CurrentRange ==
  ASSUME TypeOK, RangeInv, NEW c \in Consumers, NEW p \in Partitions, HasMessage(c, p)
  PROVE  /\ next[c][p] \in Nat /\ next[c][p] + 1 <= upto[c][p]
         /\ next[c][p] + 1 \in 1..Len(dlq[p]) /\ next[c][p] + 1 \in Offsets
         /\ Origin(c, p) \in Partitions \X Offsets
<1>1. next[c][p] \in Nat /\ upto[c][p] \in Nat /\ Len(dlq[p]) \in Nat
  BY DEF TypeOK, PerClaim, Positions
<1>2. next[c][p] + 1 <= upto[c][p]
  BY <1>1 DEF HasMessage
<1>3. next[c][p] + 1 \in 1..Len(dlq[p]) /\ next[c][p] + 1 \in Offsets
  BY <1>1, <1>2, BoundsType DEF RangeInv, Offsets
<1>. QED
  BY <1>1, <1>2, <1>3 DEF Origin

(* One more copy of a record. *)
LEMMA SentMore ==
  ASSUME TypeOK, NEW p \in Partitions, NEW i \in Offsets,
         sent' = [sent EXCEPT ![p][i] = @ + 1]
  PROVE  /\ sent' \in [Partitions -> [Offsets -> Nat]]
         /\ \A q \in Partitions, j \in Offsets :
              sent'[q][j] = IF q = p /\ j = i THEN sent[q][j] + 1 ELSE sent[q][j]
BY DEF TypeOK

(* A fault counted is within its bound. *)
LEMMA FaultsType ==
  ASSUME TypeOK
  PROVE  /\ faults.crashes < MaxCrashes => [faults EXCEPT !.crashes = @ + 1] \in Faults
         /\ faults.stops < MaxStops => [faults EXCEPT !.stops = @ + 1] \in Faults
         /\ faults.timeouts < MaxTimeouts => [faults EXCEPT !.timeouts = @ + 1] \in Faults
         /\ faults.errors < MaxErrors => [faults EXCEPT !.errors = @ + 1] \in Faults
<1>. DEFINE x == faults.crashes
            y == faults.stops
            z == faults.timeouts
            v == faults.errors
<1>1. /\ faults = [crashes |-> x, stops |-> y, timeouts |-> z, errors |-> v]
      /\ x \in 0..MaxCrashes /\ y \in 0..MaxStops
      /\ z \in 0..MaxTimeouts /\ v \in 0..MaxErrors
  BY DEF TypeOK, Faults
<1>2. /\ [faults EXCEPT !.crashes = @ + 1]
           = [crashes |-> x + 1, stops |-> y, timeouts |-> z, errors |-> v]
      /\ [faults EXCEPT !.stops = @ + 1]
           = [crashes |-> x, stops |-> y + 1, timeouts |-> z, errors |-> v]
      /\ [faults EXCEPT !.timeouts = @ + 1]
           = [crashes |-> x, stops |-> y, timeouts |-> z + 1, errors |-> v]
      /\ [faults EXCEPT !.errors = @ + 1]
           = [crashes |-> x, stops |-> y, timeouts |-> z, errors |-> v + 1]
  BY <1>1
<1>. HIDE DEF x, y, z, v
<1>3. /\ x < MaxCrashes => x + 1 \in 0..MaxCrashes
      /\ y < MaxStops => y + 1 \in 0..MaxStops
      /\ z < MaxTimeouts => z + 1 \in 0..MaxTimeouts
      /\ v < MaxErrors => v + 1 \in 0..MaxErrors
  BY <1>1, BoundsType
<1>. QED
  BY <1>1, <1>2, <1>3 DEF Faults, x, y, z, v

(* The mark of one record. *)
LEMMA MarkRange ==
  ASSUME TypeOK, RangeInv, NEW c \in Consumers, NEW p \in Partitions,
         HasMessage(c, p), MarkMessage(c, p)
  PROVE  /\ next' \in PerClaim /\ marked' \in PerClaim
         /\ \A d \in Consumers, q \in Partitions :
              /\ next'[d][q] = IF d = c /\ q = p THEN next[d][q] + 1 ELSE next[d][q]
              /\ marked'[d][q] = next'[d][q]
<1>1. next[c][p] + 1 \in Nat
  BY CurrentRange
<1>2. next' \in PerClaim
  BY <1>1 DEF MarkMessage, TypeOK, PerClaim, Positions
<1>3. marked' \in PerClaim
  BY <1>1 DEF MarkMessage, TypeOK, PerClaim, Positions
<1>4. \A d \in Consumers, q \in Partitions :
        next'[d][q] = IF d = c /\ q = p THEN next[d][q] + 1 ELSE next[d][q]
  BY DEF MarkMessage, TypeOK, PerClaim, Positions
<1>5. \A d \in Consumers, q \in Partitions :
        marked'[d][q] = IF d = c /\ q = p THEN next[d][q] + 1 ELSE marked[d][q]
  BY DEF MarkMessage, TypeOK, PerClaim, Positions
<1>. QED
  BY <1>2, <1>3, <1>4, <1>5 DEF RangeInv

(* A step of a claim keeps types and ranges. *)
LEMMA TypeClaim ==
  ASSUME TypeOK, RangeInv, NEW c \in Consumers, NEW p \in Partitions,
         Fetch(c, p) \/ ConsumeClaim(c, p)
  PROVE  TypeOK' /\ RangeInv'
<1>1. CASE Fetch(c, p)
  <2>1. upto[c][p] \in Nat /\ Len(dlq[p]) \in Nat /\ next[c][p] \in Nat
    BY DEF TypeOK, PerClaim, Positions
  <2>2. upto' \in PerClaim
    BY <1>1, <2>1 DEF Fetch, TypeOK, PerClaim, Positions
  <2>3. \A d \in Consumers, q \in Partitions :
          upto'[d][q] = IF d = c /\ q = p THEN upto[d][q] + 1 ELSE upto[d][q]
    BY <1>1 DEF Fetch, TypeOK, PerClaim, Positions
  <2>4. TypeOK'
    BY <1>1, <2>2 DEF Fetch, claimFrame, TypeOK
  <2>5. \A d \in Consumers, q \in Partitions :
          next[d][q] <= upto'[d][q] /\ upto'[d][q] <= Len(dlq[q])
    BY <1>1, <2>1, <2>3 DEF Fetch, RangeInv
  <2>. QED
    BY <1>1, <2>4, <2>5 DEF Fetch, claimFrame, RangeInv
<1>2. CASE ConsumeClaim(c, p)
  <2>1. HasMessage(c, p) /\ UNCHANGED claimFrame /\ UNCHANGED upto
    BY <1>2 DEF ConsumeClaim, SkipMalformed, GiveUp, StartBackoff, Republish,
                RepublishFails, Mark
  <2>2. Origin(c, p) \in Partitions \X Offsets /\ next[c][p] + 1 \in Offsets
    BY <2>1, CurrentRange
  <2>3. closed' \subseteq Partitions \X Offsets
    BY <1>2, <2>2 DEF ConsumeClaim, SkipMalformed, GiveUp, StartBackoff, Republish,
                      RepublishFails, Mark, TypeOK
  <2>4. sent' \in [Partitions -> [Offsets -> Nat]]
    <3>1. UNCHANGED sent \/ sent' = [sent EXCEPT ![p][next[c][p] + 1] = @ + 1]
      BY <1>2 DEF ConsumeClaim, SkipMalformed, GiveUp, StartBackoff, Republish,
                  RepublishFails, Mark
    <3>. QED
      BY <2>2, <3>1, SentMore DEF TypeOK
  <2>5. at' \in [Consumers -> [Partitions -> {"range", "backoff", "mark"}]]
    <3>1. \/ UNCHANGED at
          \/ \E step \in {"range", "backoff", "mark"} : at' = [at EXCEPT ![c][p] = step]
      BY <1>2 DEF ConsumeClaim, SkipMalformed, GiveUp, StartBackoff, Republish,
                  RepublishFails, Mark
    <3>2. at \in [Consumers -> [Partitions -> {"range", "backoff", "mark"}]]
      BY DEF TypeOK
    <3>3. ASSUME NEW step \in {"range", "backoff", "mark"},
                 at' = [at EXCEPT ![c][p] = step]
          PROVE  at' \in [Consumers -> [Partitions -> {"range", "backoff", "mark"}]]
      <4>1. [at[c] EXCEPT ![p] = step] \in [Partitions -> {"range", "backoff", "mark"}]
        BY <3>2
      <4>2. at' = [at EXCEPT ![c] = [at[c] EXCEPT ![p] = step]]
        BY <3>3
      <4>. QED
        BY <3>2, <4>1, <4>2
    <3>. QED
      BY <3>1, <3>2, <3>3
  <2>6. faults' \in Faults
    BY <1>2, FaultsType DEF ConsumeClaim, SkipMalformed, GiveUp, StartBackoff, Republish,
                RepublishFails, Mark, TypeOK
  <2>7. (UNCHANGED <<next, marked>>) \/ MarkMessage(c, p)
    BY <1>2 DEF ConsumeClaim, SkipMalformed, GiveUp, StartBackoff, Republish,
                RepublishFails, Mark
  <2>8. next' \in PerClaim /\ marked' \in PerClaim
    BY <2>1, <2>7, MarkRange DEF TypeOK
  <2>9. \A d \in Consumers, q \in Partitions :
          marked'[d][q] = next'[d][q] /\ next'[d][q] <= upto[d][q]
    BY <2>1, <2>7, MarkRange, CurrentRange DEF RangeInv
  <2>10. TypeOK'
    BY <2>1, <2>3, <2>4, <2>5, <2>6, <2>8 DEF claimFrame, TypeOK
  <2>. QED
    BY <2>1, <2>9, <2>10 DEF claimFrame, RangeInv
<1>. QED
  BY <1>1, <1>2

(* What a session commits is a position of its partition. *)
LEMMA CommitRange ==
  ASSUME TypeOK, RangeInv, NEW c \in Consumers
  PROVE  /\ AfterCommit(c) \in Positions
         /\ \A p \in Partitions : AfterCommit(c)[p] <= Len(dlq[p])
<1>1. \A p \in Partitions :
        /\ marked[c][p] \in Nat /\ next[c][p] \in Nat /\ upto[c][p] \in Nat
        /\ committed[p] \in Nat /\ Len(dlq[p]) \in Nat
  BY DEF TypeOK, PerClaim, Positions
<1>2. \A p \in Partitions : marked[c][p] <= Len(dlq[p]) /\ committed[p] <= Len(dlq[p])
  BY <1>1 DEF RangeInv
<1>. QED
  BY <1>1, <1>2 DEF AfterCommit, Positions

(* So does what remains of a session that has ended. *)
LEMMA EndRange ==
  ASSUME TypeOK, RangeInv, NEW c \in Consumers, EndSession(c)
  PROVE  /\ session' \in [Consumers -> Nat] /\ live' \in [Consumers -> BOOLEAN]
         /\ claims' \in [Consumers -> SUBSET Partitions]
         /\ next' \in PerClaim /\ upto' \in PerClaim /\ marked' \in PerClaim
         /\ at' \in [Consumers -> [Partitions -> {"range", "backoff", "mark"}]]
         /\ \A d \in Consumers, p \in Partitions :
              /\ next'[d][p] <= upto'[d][p] /\ upto'[d][p] <= Len(dlq[p])
              /\ marked'[d][p] = next'[d][p]
<1>1. next' \in PerClaim /\ upto' \in PerClaim /\ marked' \in PerClaim
  BY NoClaimType DEF EndSession, TypeOK, PerClaim
<1>2. /\ session' \in [Consumers -> Nat] /\ claims' \in [Consumers -> SUBSET Partitions]
      /\ live' \in [Consumers -> BOOLEAN]
      /\ at' \in [Consumers -> [Partitions -> {"range", "backoff", "mark"}]]
  BY DEF EndSession, TypeOK
<1>3. ASSUME NEW d \in Consumers, NEW p \in Partitions
      PROVE  \/ next'[d][p] = 0 /\ upto'[d][p] = 0 /\ marked'[d][p] = 0
             \/ /\ next'[d][p] = next[d][p] /\ upto'[d][p] = upto[d][p]
                /\ marked'[d][p] = marked[d][p]
  BY DEF EndSession, TypeOK, PerClaim, NoClaim
<1>4. \A p \in Partitions : Len(dlq[p]) \in Nat
  BY DEF TypeOK
<1>5. \A d \in Consumers, p \in Partitions :
        /\ next'[d][p] <= upto'[d][p] /\ upto'[d][p] <= Len(dlq[p])
        /\ marked'[d][p] = next'[d][p]
  BY <1>3, <1>4 DEF RangeInv
<1>. QED
  BY <1>1, <1>2, <1>5

(* Every step of a replica keeps types and ranges. *)
LEMMA TypeProcess ==
  ASSUME TypeOK, RangeInv, NEW c \in Consumers, Process(c)
  PROVE  TypeOK' /\ RangeInv'
<1>1. CASE \E p \in Partitions : Fetch(c, p) \/ ConsumeClaim(c, p)
  BY <1>1, TypeClaim
<1>2. CASE AutoCommit(c)
  BY <1>2, CommitRange DEF AutoCommit, TypeOK, RangeInv
<1>3. CASE CancelSession(c)
  BY <1>3 DEF CancelSession, TypeOK, RangeInv
<1>4. CASE ReleaseSession(c)
  <2>1. TypeOK'
    BY <1>4, CommitRange, EndRange DEF ReleaseSession, TypeOK
  <2>2. RangeInv'
    BY <1>4, CommitRange, EndRange DEF ReleaseSession, RangeInv
  <2>. QED
    BY <2>1, <2>2
<1>5. CASE Start(c) \/ Exit(c)
  <2>1. proc' \in [Consumers -> {"stopped", "running", "terminating"}]
    BY <1>5 DEF Start, Exit, TypeOK
  <2>2. UNCHANGED <<dlq, outVars, committed, groupVars, session, live, claims, claimVars,
                    faults>>
    BY <1>5 DEF Start, Exit
  <2>. QED
    BY <2>1, <2>2 DEF TypeOK, RangeInv
<1>6. CASE Terminate(c)
  BY <1>6, FaultsType DEF Terminate, TypeOK, RangeInv
<1>7. CASE Crash(c)
  <2>1. TypeOK'
    BY <1>7, FaultsType, EndRange DEF Crash, TypeOK
  <2>2. RangeInv'
    BY <1>7, EndRange DEF Crash, RangeInv
  <2>. QED
    BY <2>1, <2>2
<1>. QED
  BY <1>1, <1>2, <1>3, <1>4, <1>5, <1>6, <1>7 DEF Process

(* Every step of the coordinator does. *)
LEMMA TypeCoordinate ==
  ASSUME TypeOK, RangeInv,
         (\E c \in Consumers : Coordinate(c)) \/ CompleteRebalance
  PROVE  TypeOK' /\ RangeInv'
<1>1. ASSUME NEW c \in Consumers, JoinGroup(c) PROVE TypeOK' /\ RangeInv'
  BY <1>1 DEF JoinGroup, groupFrame, TypeOK, RangeInv
<1>2. ASSUME NEW c \in Consumers, SessionTimeout(c) PROVE TypeOK' /\ RangeInv'
  BY <1>2 DEF SessionTimeout, Evicted, groupFrame, TypeOK, RangeInv
<1>3. ASSUME NEW c \in Consumers, RebalanceTimeout(c) PROVE TypeOK' /\ RangeInv'
  <2>1. TypeOK'
    BY <1>3, FaultsType DEF RebalanceTimeout, Evicted, groupFrame, TypeOK
  <2>2. RangeInv'
    BY <1>3 DEF RebalanceTimeout, Evicted, groupFrame, RangeInv
  <2>. QED
    BY <2>1, <2>2
<1>4. ASSUME NEW c \in Consumers, StartSession(c) PROVE TypeOK' /\ RangeInv'
  <2>1. next' \in PerClaim /\ upto' \in PerClaim /\ marked' \in PerClaim
    BY <1>4 DEF StartSession, TypeOK, PerClaim
  <2>2. TypeOK'
    BY <1>4, <2>1 DEF StartSession, TypeOK
  <2>3. ASSUME NEW d \in Consumers, NEW p \in Partitions
        PROVE  \/ /\ next'[d][p] = committed[p] /\ upto'[d][p] = committed[p]
                  /\ marked'[d][p] = committed[p]
               \/ /\ next'[d][p] = next[d][p] /\ upto'[d][p] = upto[d][p]
                  /\ marked'[d][p] = marked[d][p]
    BY <1>4 DEF StartSession, TypeOK, PerClaim
  <2>4. \A p \in Partitions : committed[p] \in Nat
    BY DEF TypeOK, Positions
  <2>5. RangeInv'
    BY <1>4, <2>3, <2>4 DEF StartSession, RangeInv
  <2>. QED
    BY <2>2, <2>5
<1>5. ASSUME CompleteRebalance PROVE TypeOK' /\ RangeInv'
  <2>1. owner' \in [Partitions -> Consumers \cup {NoOne}]
    <3>1. PICK a \in [Partitions -> members] : owner' = a
      BY <1>5 DEF CompleteRebalance
    <3>. QED
      BY <3>1 DEF TypeOK
  <2>. QED
    BY <1>5, <2>1 DEF CompleteRebalance, groupFrame, TypeOK, RangeInv
<1>. QED
  BY <1>1, <1>2, <1>3, <1>4, <1>5 DEF Coordinate

(* Every step does. *)
LEMMA TypeStep == TypeOK /\ RangeInv /\ [Next]_vars => TypeOK' /\ RangeInv'
<1>. SUFFICES ASSUME TypeOK, RangeInv, [Next]_vars PROVE TypeOK' /\ RangeInv'
  OBVIOUS
<1>1. CASE Next
  BY <1>1, TypeArrive, TypeProcess, TypeCoordinate DEF Next
<1>2. CASE UNCHANGED vars
  BY <1>2 DEF TypeOK, RangeInv
<1>. QED
  BY <1>1, <1>2

(* Every variable of the group keeps its type, in every behaviour. *)
THEOREM GroupTypeCorrect == Spec => []TypeOK
BY TypeInit, TypeStep, PTL DEF Spec

-----------------------------------------------------------------------------
(* What is dealt with stays dealt with: the topic only grows, copies are not  *)
(* taken back, and an error that was counted stays counted.                   *)
Monotone ==
  /\ \A p \in Partitions : \A i \in 1..Len(dlq[p]) :
       dlq'[p][i] = dlq[p][i] /\ sent'[p][i] >= sent[p][i]
  /\ closed \subseteq closed'
  /\ faults'.errors = 0 => faults.errors = 0

(* A record of the topic has an offset within the bound. *)
LEMMA OffsetOfRecord ==
  ASSUME TypeOK, RangeInv, NEW p \in Partitions, NEW i \in 1..Len(dlq[p])
  PROVE  i \in Offsets /\ sent[p][i] \in Nat
<1>1. i \in Offsets
  BY BoundsType DEF TypeOK, RangeInv, Offsets
<1>. QED
  BY <1>1 DEF TypeOK

(* ConsumeClaim undoes nothing. *)
LEMMA ConsumeMonotone ==
  ASSUME TypeOK, RangeInv, NEW c \in Consumers, NEW p \in Partitions, ConsumeClaim(c, p)
  PROVE  Monotone
<1>1. HasMessage(c, p) /\ dlq' = dlq /\ closed \subseteq closed'
  BY DEF ConsumeClaim, SkipMalformed, GiveUp, StartBackoff, Republish, RepublishFails,
         Mark, claimFrame
<1>2. UNCHANGED sent \/ sent' = [sent EXCEPT ![p][next[c][p] + 1] = @ + 1]
  BY DEF ConsumeClaim, SkipMalformed, GiveUp, StartBackoff, Republish, RepublishFails, Mark
<1>3. \A q \in Partitions : \A i \in 1..Len(dlq[q]) : sent'[q][i] >= sent[q][i]
  <2>. SUFFICES ASSUME NEW q \in Partitions, NEW i \in 1..Len(dlq[q])
                PROVE  sent'[q][i] >= sent[q][i]
    OBVIOUS
  <2>1. i \in Offsets /\ sent[q][i] \in Nat
    BY OffsetOfRecord
  <2>2. next[c][p] + 1 \in Offsets
    BY <1>1, CurrentRange
  <2>3. sent'[q][i] \in {sent[q][i], sent[q][i] + 1}
    BY <1>2, <2>1, <2>2, SentMore
  <2>. QED
    BY <2>1, <2>3
<1>4. UNCHANGED faults \/ faults' = [faults EXCEPT !.errors = @ + 1]
  BY DEF ConsumeClaim, SkipMalformed, GiveUp, StartBackoff, Republish, RepublishFails, Mark
<1>5. faults'.errors = 0 => faults.errors = 0
  BY <1>4, BoundsType DEF TypeOK, Faults
<1>. QED
  BY <1>1, <1>3, <1>5 DEF Monotone

(* No step undoes anything. *)
LEMMA StepMonotone == TypeOK /\ RangeInv /\ [Next]_vars => Monotone
<1>. SUFFICES ASSUME TypeOK, RangeInv, [Next]_vars PROVE Monotone
  OBVIOUS
<1>1. \A p \in Partitions : \A i \in 1..Len(dlq[p]) : sent[p][i] \in Nat
  BY OffsetOfRecord
<1>2. ASSUME NEW p \in Partitions, NEW r \in Arrivals, Arrive(p, r) PROVE Monotone
  <2>1. \A q \in Partitions : \A i \in 1..Len(dlq[q]) : dlq'[q][i] = dlq[q][i]
    BY <1>2 DEF Arrive, TypeOK
  <2>. QED
    BY <1>1, <1>2, <2>1 DEF Arrive, Monotone
<1>3. ASSUME UNCHANGED <<dlq, sent, closed>>,
             faults'.errors = 0 => faults.errors = 0
      PROVE  Monotone
  BY <1>1, <1>3 DEF Monotone
<1>4. ASSUME NEW c \in Consumers, Process(c) PROVE Monotone
  <2>1. CASE \E p \in Partitions : ConsumeClaim(c, p)
    BY <2>1, ConsumeMonotone
  <2>2. CASE \E p \in Partitions : Fetch(c, p)
    BY <1>3, <2>2 DEF Fetch, claimFrame
  <2>3. CASE AutoCommit(c) \/ CancelSession(c) \/ ReleaseSession(c) \/ Start(c) \/ Exit(c)
    BY <1>3, <2>3 DEF AutoCommit, CancelSession, ReleaseSession, Start, Exit
  <2>4. CASE Terminate(c) \/ Crash(c)
    <3>1. faults'.errors = faults.errors
      BY <2>4 DEF Terminate, Crash, TypeOK, Faults
    <3>. QED
      BY <1>3, <2>4, <3>1 DEF Terminate, Crash
  <2>. QED
    BY <1>4, <2>1, <2>2, <2>3, <2>4 DEF Process
<1>5. ASSUME NEW c \in Consumers, Coordinate(c) PROVE Monotone
  <2>1. faults'.errors = faults.errors
    BY <1>5 DEF Coordinate, JoinGroup, SessionTimeout, RebalanceTimeout, StartSession,
                TypeOK, Faults
  <2>. QED
    BY <1>3, <1>5, <2>1 DEF Coordinate, JoinGroup, SessionTimeout, RebalanceTimeout,
                            StartSession, Evicted, groupFrame
<1>6. ASSUME CompleteRebalance \/ UNCHANGED vars PROVE Monotone
  BY <1>3, <1>6 DEF CompleteRebalance, groupFrame
<1>. QED
  BY <1>2, <1>4, <1>5, <1>6 DEF Next

(* A settled record stays settled. *)
LEMMA SettledStable ==
  ASSUME TypeOK, TypeOK', RangeInv, Monotone, NEW p \in Partitions, NEW i \in 1..Len(dlq[p]),
         Settled(p, i)
  PROVE  Settled(p, i)'
<1>1. sent[p][i] \in Nat /\ sent'[p][i] >= sent[p][i] /\ dlq'[p][i] = dlq[p][i]
  BY OffsetOfRecord DEF Monotone
<1>2. sent'[p][i] \in Nat
  BY OffsetOfRecord DEF TypeOK
<1>3. sent[p][i] > 0 => sent'[p][i] > 0
  BY <1>1, <1>2
<1>. QED
  BY <1>1, <1>3 DEF Settled, Monotone, Retryable, extractRetryCount

-----------------------------------------------------------------------------
(* Which session may commit for a partition.  A generation ends before the    *)
(* next assignment is made, so the sessions of older ones are shut out, and   *)
(* the sessions of the current one have the owners it has assigned.           *)
FenceInv ==
  /\ phase = "stable" /\ members # {} => gen > 0
  /\ \A c \in Consumers :
       /\ session[c] <= gen
       /\ session[c] = 0 => claims[c] = {} /\ \A p \in Partitions : at[c][p] = "range"
       /\ Accepted(c) => \A p \in claims[c] : owner[p] = c /\ committed[p] <= marked[c][p]

(* No session is accepted initially. *)
LEMMA FenceInit == Init => FenceInv
BY DEF Init, FenceInv

(* No step of a claim takes a mark back. *)
LEMMA ClaimFence ==
  ASSUME TypeOK, RangeInv, FenceInv, NEW c \in Consumers, NEW p \in Partitions,
         Fetch(c, p) \/ ConsumeClaim(c, p)
  PROVE  FenceInv'
<1>1. /\ UNCHANGED <<committed, members, phase, gen, owner, session, claims>>
      /\ p \in claims[c]
  BY DEF Fetch, ConsumeClaim, SkipMalformed, GiveUp, StartBackoff, Republish,
         RepublishFails, Mark, HasMessage, claimFrame
<1>2. \A d \in Consumers, q \in Partitions :
        at'[d][q] = at[d][q] \/ (d = c /\ q = p)
  <2>1. UNCHANGED at \/ \E step : at' = [at EXCEPT ![c][p] = step]
    BY DEF Fetch, ConsumeClaim, SkipMalformed, GiveUp, StartBackoff, Republish,
           RepublishFails, Mark
  <2>. QED
    BY <2>1 DEF TypeOK
<1>3. UNCHANGED marked \/ (HasMessage(c, p) /\ MarkMessage(c, p))
  BY DEF Fetch, ConsumeClaim, SkipMalformed, GiveUp, StartBackoff, Republish,
         RepublishFails, Mark
<1>4. \A d \in Consumers, q \in Partitions :
        /\ marked'[d][q] \in Nat /\ marked[d][q] \in Nat /\ committed[q] \in Nat
        /\ marked[d][q] <= marked'[d][q]
  <2>1. \A d \in Consumers, q \in Partitions :
          /\ next[d][q] \in Nat /\ marked[d][q] \in Nat /\ marked[d][q] = next[d][q]
          /\ committed[q] \in Nat
    BY DEF TypeOK, PerClaim, Positions, RangeInv
  <2>. QED
    BY <1>3, <2>1, MarkRange
<1>5. session[c] # 0
  BY <1>1 DEF FenceInv
<1>6. \A d \in Consumers : claims[d] \subseteq Partitions
  BY DEF TypeOK
<1>7. \A d \in Consumers : Accepted(d)' => Accepted(d)
  BY <1>1 DEF Accepted
<1>8. phase' = "stable" /\ members' # {} => gen' > 0
  BY <1>1 DEF FenceInv
<1>9. ASSUME NEW d \in Consumers
      PROVE  /\ session'[d] <= gen'
             /\ session'[d] = 0 => claims'[d] = {} /\ \A q \in Partitions : at'[d][q] = "range"
  BY <1>1, <1>2, <1>5 DEF FenceInv
<1>10. ASSUME NEW d \in Consumers, Accepted(d)', NEW q \in claims'[d]
       PROVE  owner'[q] = d /\ committed'[q] <= marked'[d][q]
  <2>1. q \in claims[d] /\ q \in Partitions /\ Accepted(d)
    BY <1>1, <1>6, <1>7, <1>10
  <2>2. owner[q] = d /\ committed[q] <= marked[d][q]
    BY <2>1 DEF FenceInv
  <2>. QED
    BY <1>1, <1>4, <2>1, <2>2
<1>. QED
  BY <1>8, <1>9, <1>10 DEF FenceInv

(* A commit is accepted from the owner only, and moves forward. *)
LEMMA CommitFence ==
  ASSUME TypeOK, RangeInv, FenceInv, NEW c \in Consumers
  PROVE  /\ \A p \in Partitions : AfterCommit(c)[p] >= committed[p]
         /\ \A d \in Consumers :
              Accepted(d) => \A p \in claims[d] : AfterCommit(c)[p] <= marked[d][p]
<1>1. \A d \in Consumers :
        /\ claims[d] \subseteq Partitions
        /\ \A p \in Partitions : committed[p] \in Nat /\ marked[d][p] \in Nat
  BY DEF TypeOK, PerClaim, Positions
<1>2. \A p \in Partitions : AfterCommit(c)[p] >= committed[p]
  BY <1>1 DEF AfterCommit, FenceInv
<1>3. ASSUME NEW d \in Consumers, Accepted(d), NEW p \in claims[d]
      PROVE  AfterCommit(c)[p] <= marked[d][p]
  <2>1. p \in Partitions /\ owner[p] = d /\ committed[p] <= marked[d][p]
    BY <1>1, <1>3 DEF FenceInv
  <2>2. CASE p \in claims[c] /\ Accepted(c)
    <3>1. c = d
      BY <2>1, <2>2 DEF FenceInv
    <3>2. AfterCommit(c)[p] = marked[c][p] /\ marked[c][p] \in Nat
      BY <1>1, <2>1, <2>2 DEF AfterCommit
    <3>. QED
      BY <3>1, <3>2
  <2>3. CASE ~(p \in claims[c] /\ Accepted(c))
    <3>1. AfterCommit(c)[p] = committed[p]
      BY <2>1, <2>3 DEF AfterCommit
    <3>. QED
      BY <2>1, <3>1
  <2>. QED
    BY <2>2, <2>3
<1>. QED
  BY <1>2, <1>3

(* Every step of a replica keeps the fence. *)
LEMMA ProcessFence ==
  ASSUME TypeOK, RangeInv, FenceInv, NEW c \in Consumers, Process(c)
  PROVE  FenceInv'
<1>0. \A d \in Consumers : claims[d] \subseteq Partitions
  BY DEF TypeOK
<1>1. CASE \E p \in Partitions : Fetch(c, p) \/ ConsumeClaim(c, p)
  BY <1>1, ClaimFence
<1>2. CASE AutoCommit(c)
  <2>1. /\ UNCHANGED <<members, phase, gen, owner, session, claims, marked, at>>
        /\ committed' = AfterCommit(c)
    BY <1>2 DEF AutoCommit
  <2>2. \A d \in Consumers : Accepted(d)' <=> Accepted(d)
    BY <2>1 DEF Accepted
  <2>. QED
    BY <2>1, <2>2, CommitFence DEF FenceInv
<1>3. CASE CancelSession(c) \/ Start(c) \/ Terminate(c) \/ Exit(c)
  <2>1. UNCHANGED <<members, phase, gen, owner, session, claims, marked, at, committed>>
    BY <1>3 DEF CancelSession, Start, Terminate, Exit
  <2>. QED
    BY <2>1 DEF FenceInv, Accepted
<1>4. CASE ReleaseSession(c) \/ Crash(c)
  <2>1. /\ UNCHANGED <<members, phase, gen, owner>>
        /\ EndSession(c)
        /\ committed' = AfterCommit(c) \/ committed' = committed
    BY <1>4 DEF ReleaseSession, Crash
  <2>2. /\ session'[c] = 0 /\ claims'[c] = {}
        /\ \A p \in Partitions : at'[c][p] = "range"
    BY <2>1 DEF EndSession, TypeOK
  <2>3. \A d \in Consumers \ {c} :
          session'[d] = session[d] /\ claims'[d] = claims[d] /\ at'[d] = at[d]
          /\ marked'[d] = marked[d]
    BY <2>1 DEF EndSession, TypeOK, PerClaim
  <2>4. \A d \in Consumers \ {c} : Accepted(d)' <=> Accepted(d)
    BY <2>1, <2>3 DEF Accepted
  <2>5. \A d \in Consumers :
          Accepted(d) => \A p \in claims[d] : committed'[p] <= marked[d][p]
    BY <2>1, CommitFence DEF FenceInv
  <2>6. ASSUME NEW d \in Consumers
        PROVE  /\ session'[d] <= gen'
               /\ session'[d] = 0 =>
                    claims'[d] = {} /\ \A p \in Partitions : at'[d][p] = "range"
               /\ Accepted(d)' => \A p \in claims'[d] :
                    owner'[p] = d /\ committed'[p] <= marked'[d][p]
    <3>1. CASE d = c
      BY <2>1, <2>2, <3>1 DEF TypeOK
    <3>2. CASE d # c
      BY <2>1, <2>3, <2>4, <2>5, <3>2 DEF FenceInv
    <3>. QED
      BY <3>1, <3>2
  <2>7. phase' = "stable" /\ members' # {} => gen' > 0
    BY <2>1 DEF FenceInv
  <2>. QED
    BY <2>6, <2>7 DEF FenceInv
<1>. QED
  BY <1>1, <1>2, <1>3, <1>4 DEF Process

(* Every step of the coordinator keeps it. *)
LEMMA CoordinateFence ==
  ASSUME TypeOK, RangeInv, FenceInv,
         (\E c \in Consumers : Coordinate(c)) \/ CompleteRebalance
  PROVE  FenceInv'
<1>1. ASSUME NEW c \in Consumers, JoinGroup(c) PROVE FenceInv'
  <2>1. /\ UNCHANGED <<gen, owner, session, claims, marked, at, committed>>
        /\ phase' = "rebalancing" /\ members' = members \cup {c} /\ session[c] = 0
    BY <1>1 DEF JoinGroup, groupFrame
  <2>2. claims[c] = {}
    BY <2>1 DEF FenceInv
  <2>3. \A d \in Consumers : d # c /\ Accepted(d)' => Accepted(d)
    BY <2>1 DEF Accepted
  <2>. QED
    BY <2>1, <2>2, <2>3 DEF FenceInv
<1>2. ASSUME NEW c \in Consumers, SessionTimeout(c) \/ RebalanceTimeout(c) PROVE FenceInv'
  <2>1. /\ UNCHANGED <<gen, owner, session, claims, marked, at, committed>>
        /\ phase' = "rebalancing" /\ members' \subseteq members
    BY <1>2 DEF SessionTimeout, RebalanceTimeout, Evicted, groupFrame
  <2>2. \A d \in Consumers : Accepted(d)' => Accepted(d)
    BY <2>1 DEF Accepted
  <2>. QED
    BY <2>1, <2>2 DEF FenceInv
<1>3. ASSUME NEW c \in Consumers, StartSession(c) PROVE FenceInv'
  <2>1. /\ UNCHANGED <<members, phase, gen, owner, at, committed>>
        /\ session' = [session EXCEPT ![c] = gen]
        /\ claims' = [claims EXCEPT ![c] = {p \in Partitions : owner[p] = c}]
        /\ marked' = [marked EXCEPT ![c] = committed]
        /\ gen > 0
    BY <1>3 DEF StartSession, FenceInv
  <2>2. /\ session'[c] = gen /\ marked'[c] = committed
        /\ claims'[c] = {p \in Partitions : owner[p] = c}
    BY <2>1 DEF TypeOK, PerClaim
  <2>3. \A d \in Consumers \ {c} :
          session'[d] = session[d] /\ claims'[d] = claims[d] /\ marked'[d] = marked[d]
    BY <2>1 DEF TypeOK, PerClaim
  <2>4. \A d \in Consumers \ {c} : Accepted(d)' <=> Accepted(d)
    BY <2>1, <2>3 DEF Accepted
  <2>5. gen \in Nat /\ \A p \in Partitions : committed[p] <= committed[p]
    BY DEF TypeOK, Positions
  <2>6. ASSUME NEW d \in Consumers
        PROVE  /\ session'[d] <= gen'
               /\ session'[d] = 0 =>
                    claims'[d] = {} /\ \A p \in Partitions : at'[d][p] = "range"
               /\ Accepted(d)' => \A p \in claims'[d] :
                    owner'[p] = d /\ committed'[p] <= marked'[d][p]
    <3>1. CASE d = c
      BY <2>1, <2>2, <2>5, <3>1
    <3>2. CASE d # c
      BY <2>1, <2>3, <2>4, <3>2 DEF FenceInv
    <3>. QED
      BY <3>1, <3>2
  <2>. QED
    BY <2>1, <2>6 DEF FenceInv
<1>4. ASSUME CompleteRebalance PROVE FenceInv'
  <2>1. /\ gen' = gen + 1
        /\ UNCHANGED <<members, session, claims, marked, at, committed>>
    BY <1>4 DEF CompleteRebalance, groupFrame
  <2>2. gen \in Nat /\ \A d \in Consumers : session[d] \in Nat /\ session[d] <= gen
    BY DEF TypeOK, FenceInv
  <2>3. \A d \in Consumers : ~Accepted(d)'
    BY <2>1, <2>2 DEF Accepted
  <2>. QED
    BY <2>1, <2>2, <2>3 DEF FenceInv
<1>. QED
  BY <1>1, <1>2, <1>3, <1>4 DEF Coordinate

(* Every step keeps it. *)
LEMMA FenceStep == TypeOK /\ RangeInv /\ FenceInv /\ [Next]_vars => FenceInv'
<1>. SUFFICES ASSUME TypeOK, RangeInv, FenceInv, [Next]_vars PROVE FenceInv'
  OBVIOUS
<1>1. CASE (\E p \in Partitions, r \in Arrivals : Arrive(p, r)) \/ UNCHANGED vars
  BY <1>1 DEF Arrive, FenceInv, Accepted
<1>. QED
  BY <1>1, ProcessFence, CoordinateFence DEF Next

(* At any moment at most one replica can commit for a partition, however many *)
(* evicted ones still drain their channels: the generation fences them off.   *)
THEOREM GroupHasOneCommitter == Spec => []OneCommitterPerPartition
<1>1. TypeOK /\ FenceInv => OneCommitterPerPartition
  <2>. SUFFICES ASSUME TypeOK, FenceInv, NEW c \in Consumers, NEW d \in Consumers, c # d,
                       Accepted(c), Accepted(d), NEW p \in claims[c], p \in claims[d]
                PROVE  FALSE
    BY DEF OneCommitterPerPartition
  <2>1. owner[p] = c /\ owner[p] = d
    BY DEF FenceInv
  <2>. QED
    BY <2>1
<1>. QED
  BY <1>1, TypeInit, TypeStep, FenceInit, FenceStep, PTL DEF Spec

(* A commit is either fenced off or made by the session that started at the   *)
(* offset committed before it.                                                *)
LEMMA CommitsForward ==
  TypeOK /\ RangeInv /\ FenceInv /\ [Next]_vars =>
    \A p \in Partitions : committed'[p] >= committed[p]
<1>. SUFFICES ASSUME TypeOK, RangeInv, FenceInv, [Next]_vars
              PROVE  \A p \in Partitions : committed'[p] >= committed[p]
  OBVIOUS
<1>1. committed' = committed \/ \E c \in Consumers : committed' = AfterCommit(c)
  BY DEF Next, Arrive, Process, Fetch, ConsumeClaim, SkipMalformed, GiveUp, StartBackoff,
         Republish, RepublishFails, Mark, claimFrame, AutoCommit, CancelSession,
         ReleaseSession, Start, Terminate, Exit, Crash, Coordinate, JoinGroup,
         SessionTimeout, RebalanceTimeout, Evicted, StartSession, CompleteRebalance,
         groupFrame
<1>2. \A p \in Partitions : committed[p] >= committed[p]
  BY DEF TypeOK, Positions
<1>. QED
  BY <1>1, <1>2, CommitFence

(* Committed offsets never go back, whoever commits. *)
THEOREM GroupCommitsForward == Spec => CommittedNeverRegresses
<1>1. TypeOK /\ RangeInv /\ FenceInv /\ [Next]_vars =>
        [\A p \in Partitions : committed'[p] >= committed[p]]_vars
  BY CommitsForward
<1>. QED
  BY <1>1, TypeInit, TypeStep, FenceInit, FenceStep, PTL DEF Spec, CommittedNeverRegresses

-----------------------------------------------------------------------------
(* What each position covers is dealt with; a claim that is about to mark a   *)
(* record has dealt with that one, too.                                       *)
Done(c, p) == IF at[c][p] = "mark" THEN next[c][p] + 1 ELSE next[c][p]

SettledInv ==
  /\ CommittedIsSettled
  /\ \A c \in Consumers, p \in Partitions :
       /\ Done(c, p) <= upto[c][p]
       /\ \A i \in 1..Done(c, p) : Settled(p, i)

(* Nothing is committed or dealt with initially. *)
LEMMA SettledInit == Init => SettledInv
<1>. SUFFICES ASSUME Init PROVE SettledInv
  OBVIOUS
<1>1. \A p \in Partitions : committed[p] = 0
  BY DEF Init, NoClaim
<1>2. \A c \in Consumers, p \in Partitions :
        next[c][p] = 0 /\ upto[c][p] = 0 /\ at[c][p] = "range"
  BY DEF Init, NoClaim
<1>. QED
  BY <1>1, <1>2 DEF SettledInv, CommittedIsSettled, Done

(* The positions of a claim and their order. *)
LEMMA DoneType ==
  ASSUME TypeOK, RangeInv, NEW c \in Consumers, NEW p \in Partitions
  PROVE  /\ next[c][p] \in Nat /\ upto[c][p] \in Nat /\ Done(c, p) \in Nat
         /\ committed[p] \in Nat /\ Len(dlq[p]) \in Nat
         /\ committed[p] <= Len(dlq[p]) /\ upto[c][p] <= Len(dlq[p])
         /\ next[c][p] <= Done(c, p)
BY DEF TypeOK, PerClaim, Positions, RangeInv, Done

(* What has been settled before a step is settled after it. *)
LEMMA KeepsSettled ==
  ASSUME TypeOK, TypeOK', RangeInv, Monotone, SettledInv
  PROVE  /\ \A p \in Partitions : \A i \in 1..committed[p] : Settled(p, i)'
         /\ \A c \in Consumers, p \in Partitions : \A i \in 1..Done(c, p) : Settled(p, i)'
<1>1. ASSUME NEW p \in Partitions, NEW i \in 1..committed[p] PROVE Settled(p, i)'
  <2>1. i \in 1..Len(dlq[p])
    BY DEF TypeOK, Positions, RangeInv
  <2>2. Settled(p, i)
    BY DEF SettledInv, CommittedIsSettled
  <2>. QED
    BY <2>1, <2>2, SettledStable
<1>2. ASSUME NEW c \in Consumers, NEW p \in Partitions, NEW i \in 1..Done(c, p)
      PROVE  Settled(p, i)'
  <2>1. Done(c, p) <= upto[c][p] /\ Settled(p, i)
    BY DEF SettledInv
  <2>2. i \in 1..Len(dlq[p])
    BY <2>1, DoneType
  <2>. QED
    BY <2>1, <2>2, SettledStable
<1>. QED
  BY <1>1, <1>2

(* The record that ConsumeClaim deals with in this step. *)
LEMMA DealtWith ==
  ASSUME TypeOK, RangeInv, NEW c \in Consumers, NEW p \in Partitions,
         NEW k \in Nat, k = next[c][p] + 1,
         SkipMalformed(c, p) \/ GiveUp(c, p) \/ Republish(c, p) \/ RepublishFails(c, p)
  PROVE  Settled(p, k)'
<1>0. HasMessage(c, p) /\ dlq' = dlq
  BY DEF SkipMalformed, GiveUp, Republish, RepublishFails, claimFrame
<1>1. k \in Offsets /\ k \in 1..Len(dlq[p]) /\ sent[p][k] \in Nat
  BY <1>0, CurrentRange, OffsetOfRecord
<1>2. dlq'[p][k] = Current(c, p) /\ <<p, k>> = Origin(c, p)
  BY <1>0 DEF Current, Origin
<1>3. CASE Republish(c, p)
  <2>1. sent' = [sent EXCEPT ![p][k] = @ + 1]
    BY <1>3 DEF Republish
  <2>2. sent'[p][k] = sent[p][k] + 1
    BY <1>1, <2>1, SentMore
  <2>3. sent'[p][k] > 0
    BY <1>1, <2>2
  <2>. QED
    BY <2>3 DEF Settled
<1>4. CASE RepublishFails(c, p)
  <2>1. <<p, k>> \in closed'
    BY <1>2, <1>4 DEF RepublishFails
  <2>2. faults'.errors # 0
    BY <1>4 DEF RepublishFails, TypeOK, Faults
  <2>. QED
    BY <2>1, <2>2 DEF Settled
<1>5. CASE SkipMalformed(c, p) \/ GiveUp(c, p)
  <2>1. <<p, k>> \in closed'
    BY <1>2, <1>5 DEF SkipMalformed, GiveUp
  <2>2. ~Retryable(Current(c, p))
    <3>1. CASE SkipMalformed(c, p)
      BY <3>1 DEF SkipMalformed, Retryable
    <3>2. CASE GiveUp(c, p)
      <4>1. Current(c, p) \in Record
        BY <1>0, CurrentRange, InputAssumption DEF Current, TypeOK
      <4>2. extractRetryCount(Current(c, p)) \in Nat
        BY <4>1 DEF extractRetryCount, Record, NoHeader
      <4>3. extractRetryCount(Current(c, p)) >= MaxRetries
        BY <3>2 DEF GiveUp, Exhausted
      <4>. QED
        BY <4>2, <4>3, ConfigAssumption DEF Retryable
    <3>. QED
      BY <1>5, <3>1, <3>2
  <2>. QED
    BY <1>2, <2>1, <2>2 DEF Settled
<1>. QED
  BY <1>3, <1>4, <1>5

(* A claim is done with a record when ConsumeClaim has dealt with it. *)
LEMMA DoneMoves ==
  ASSUME TypeOK, RangeInv, NEW c \in Consumers, NEW p \in Partitions, ConsumeClaim(c, p)
  PROVE  \A d \in Consumers, q \in Partitions :
           \/ Done(d, q)' = Done(d, q)
           \/ /\ d = c /\ q = p /\ Done(d, q) = next[c][p] /\ Done(d, q)' = next[c][p] + 1
              /\ \/ SkipMalformed(c, p) \/ GiveUp(c, p)
                 \/ Republish(c, p) \/ RepublishFails(c, p)
<1>. DEFINE k == next[c][p] + 1
<1>0. HasMessage(c, p)
  BY DEF ConsumeClaim, SkipMalformed, GiveUp, StartBackoff, Republish, RepublishFails, Mark
<1>1. CASE SkipMalformed(c, p) \/ Mark(c, p)
  <2>1. MarkMessage(c, p) /\ (SkipMalformed(c, p) \/ at[c][p] = "mark")
    BY <1>1 DEF SkipMalformed, Mark
  <2>2. \A d \in Consumers, q \in Partitions :
          next'[d][q] = IF d = c /\ q = p THEN k ELSE next[d][q]
    BY <1>0, <2>1, MarkRange
  <2>3. /\ at'[c][p] = "range"
        /\ \A d \in Consumers, q \in Partitions :
             (d = c /\ q = p) \/ at'[d][q] = at[d][q]
    BY <1>1 DEF SkipMalformed, Mark, TypeOK
  <2>. QED
    BY <1>1, <2>1, <2>2, <2>3 DEF SkipMalformed, Done
<1>2. CASE StartBackoff(c, p)
  <2>1. at[c][p] = "range" /\ at' = [at EXCEPT ![c][p] = "backoff"] /\ next' = next
    BY <1>2 DEF StartBackoff
  <2>. QED
    BY <2>1 DEF Done, TypeOK
<1>3. CASE GiveUp(c, p) \/ Republish(c, p) \/ RepublishFails(c, p)
  <2>1. at' = [at EXCEPT ![c][p] = "mark"] /\ next' = next
    BY <1>3 DEF GiveUp, Republish, RepublishFails
  <2>2. \A d \in Consumers, q \in Partitions :
          at'[d][q] = IF d = c /\ q = p THEN "mark" ELSE at[d][q]
    BY <2>1 DEF TypeOK
  <2>3. at[c][p] # "mark"
    BY <1>3 DEF GiveUp, Republish, RepublishFails
  <2>. QED
    BY <1>3, <2>1, <2>2, <2>3 DEF Done
<1>. QED
  BY <1>1, <1>2, <1>3 DEF ConsumeClaim

(* ConsumeClaim moves its position only over a record it has dealt with. *)
LEMMA ConsumeSettled ==
  ASSUME TypeOK, TypeOK', RangeInv, SettledInv,
         NEW c \in Consumers, NEW p \in Partitions, ConsumeClaim(c, p)
  PROVE  SettledInv'
<1>. DEFINE k == next[c][p] + 1
            Deals == \/ SkipMalformed(c, p) \/ GiveUp(c, p)
                     \/ Republish(c, p) \/ RepublishFails(c, p)
<1>0. Monotone /\ HasMessage(c, p) /\ UNCHANGED <<dlq, committed, upto>>
  BY ConsumeMonotone
     DEF ConsumeClaim, SkipMalformed, GiveUp, StartBackoff, Republish, RepublishFails,
         Mark, claimFrame
<1>1. k \in Nat /\ k <= upto[c][p] /\ next[c][p] \in Nat
  BY <1>0, CurrentRange
<1>2. Deals => \A i \in Nat : i = k => Settled(p, i)'
  BY DealtWith
<1>3. \A d \in Consumers, q \in Partitions :
        \/ Done(d, q)' = Done(d, q)
        \/ d = c /\ q = p /\ Done(d, q)' = k /\ Deals
  BY DoneMoves
<1>4. CommittedIsSettled'
  BY <1>0, KeepsSettled DEF CommittedIsSettled
<1>. HIDE DEF Deals
<1>5. \A d \in Consumers, q \in Partitions : Done(d, q)' <= upto'[d][q]
  BY <1>0, <1>1, <1>3 DEF SettledInv
<1>6. ASSUME NEW d \in Consumers, NEW q \in Partitions, NEW i \in 1..Done(d, q)'
      PROVE  Settled(q, i)'
  <2>1. CASE Done(d, q)' = Done(d, q)
    BY <1>0, <2>1, KeepsSettled
  <2>2. CASE d = c /\ q = p /\ Done(d, q)' = k /\ Deals
    <3>1. CASE i \in 1..next[c][p]
      BY <1>0, <2>2, <3>1, KeepsSettled, DoneType
    <3>2. CASE i \notin 1..next[c][p]
      <4>1. i = k /\ i \in Nat
        BY <1>1, <2>2, <3>2
      <4>. QED
        BY <1>2, <2>2, <4>1
    <3>. QED
      BY <3>1, <3>2
  <2>. QED
    BY <1>3, <2>1, <2>2
<1>. QED
  BY <1>4, <1>5, <1>6 DEF SettledInv

(* The other steps settle nothing: each position they install is one that was *)
(* reached before, or zero.                                                   *)
LEMMA InstallSettled ==
  ASSUME TypeOK, TypeOK', RangeInv, Monotone, SettledInv,
         \A p \in Partitions :
           \/ committed'[p] = committed[p]
           \/ \E c \in Consumers : committed'[p] = next[c][p],
         \A c \in Consumers, p \in Partitions :
           \/ Done(c, p)' = Done(c, p) /\ upto'[c][p] >= upto[c][p]
           \/ Done(c, p)' = 0
           \/ Done(c, p)' = committed[p] /\ upto'[c][p] = committed[p]
  PROVE  SettledInv'
<1>1. ASSUME NEW p \in Partitions, NEW i \in 1..committed'[p] PROVE Settled(p, i)'
  <2>1. CASE committed'[p] = committed[p]
    BY <2>1, KeepsSettled
  <2>2. CASE \E c \in Consumers : committed'[p] = next[c][p]
    <3>1. PICK c \in Consumers : committed'[p] = next[c][p]
      BY <2>2
    <3>2. i \in 1..Done(c, p)
      BY <3>1, DoneType
    <3>. QED
      BY <3>2, KeepsSettled
  <2>. QED
    BY <2>1, <2>2
<1>2. ASSUME NEW c \in Consumers, NEW p \in Partitions
      PROVE  Done(c, p)' <= upto'[c][p] /\ \A i \in 1..Done(c, p)' : Settled(p, i)'
  <2>1. upto'[c][p] \in Nat
    BY DEF TypeOK, PerClaim, Positions
  <2>2. CASE Done(c, p)' = Done(c, p) /\ upto'[c][p] >= upto[c][p]
    <3>1. Done(c, p)' <= upto'[c][p]
      <4>1. Done(c, p) <= upto[c][p] /\ Done(c, p) \in Nat /\ upto[c][p] \in Nat
        BY DoneType DEF SettledInv
      <4>. QED
        BY <2>1, <2>2, <4>1
    <3>2. \A i \in 1..Done(c, p)' : Settled(p, i)'
      BY <2>2, KeepsSettled
    <3>. QED
      BY <3>1, <3>2
  <2>3. CASE Done(c, p)' = 0
    BY <2>1, <2>3
  <2>4. CASE Done(c, p)' = committed[p] /\ upto'[c][p] = committed[p]
    BY <2>4, DoneType, KeepsSettled
  <2>. QED
    BY <2>2, <2>3, <2>4
<1>. QED
  BY <1>1, <1>2 DEF SettledInv, CommittedIsSettled

(* Every step keeps every covered record settled. *)
LEMMA SettledStep ==
  TypeOK /\ RangeInv /\ FenceInv /\ SettledInv /\ [Next]_vars => SettledInv'
<1>. SUFFICES ASSUME TypeOK, RangeInv, FenceInv, SettledInv, [Next]_vars PROVE SettledInv'
  OBVIOUS
<1>0. TypeOK' /\ Monotone
  BY TypeStep, StepMonotone
<1>1. CASE \E c \in Consumers, p \in Partitions : ConsumeClaim(c, p)
  BY <1>0, <1>1, ConsumeSettled
<1>2. ASSUME UNCHANGED <<committed, next, upto, at>> PROVE SettledInv'
  <2>1. \A c \in Consumers, p \in Partitions :
          Done(c, p)' = Done(c, p) /\ upto'[c][p] >= upto[c][p]
    BY <1>2, DoneType DEF Done
  <2>. QED
    BY <1>0, <1>2, <2>1, InstallSettled
<1>3. ASSUME NEW c \in Consumers, NEW p \in Partitions, Fetch(c, p) PROVE SettledInv'
  <2>1. UNCHANGED <<committed, next, at>> /\ upto' = [upto EXCEPT ![c][p] = @ + 1]
    BY <1>3 DEF Fetch, claimFrame
  <2>2. \A d \in Consumers, q \in Partitions : upto'[d][q] >= upto[d][q]
    <3>1. \A d \in Consumers, q \in Partitions :
            upto'[d][q] = IF d = c /\ q = p THEN upto[d][q] + 1 ELSE upto[d][q]
      BY <2>1 DEF TypeOK, PerClaim, Positions
    <3>. QED
      BY <3>1, DoneType
  <2>3. \A d \in Consumers, q \in Partitions : Done(d, q)' = Done(d, q)
    BY <2>1 DEF Done
  <2>. QED
    BY <1>0, <2>1, <2>2, <2>3, InstallSettled
<1>4. ASSUME NEW c \in Consumers, AutoCommit(c) \/ ReleaseSession(c) \/ Crash(c)
      PROVE  SettledInv'
  <2>1. committed' = committed \/ committed' = AfterCommit(c)
    BY <1>4 DEF AutoCommit, ReleaseSession, Crash
  <2>2. ASSUME NEW p \in Partitions
        PROVE  committed'[p] = committed[p] \/ \E d \in Consumers : committed'[p] = next[d][p]
    <3>1. committed'[p] = committed[p] \/ committed'[p] = marked[c][p]
      BY <2>1 DEF AfterCommit
    <3>. QED
      BY <3>1 DEF RangeInv
  <2>3. EndSession(c) \/ UNCHANGED <<next, upto, at>>
    BY <1>4 DEF AutoCommit, ReleaseSession, Crash
  <2>4. ASSUME NEW d \in Consumers, NEW p \in Partitions
        PROVE  \/ Done(d, p)' = Done(d, p) /\ upto'[d][p] >= upto[d][p]
               \/ Done(d, p)' = 0
    <3>1. CASE UNCHANGED <<next, upto, at>>
      BY <3>1, DoneType DEF Done
    <3>2. CASE EndSession(c) /\ d = c
      BY <3>2 DEF EndSession, NoClaim, Done, TypeOK, PerClaim
    <3>3. CASE EndSession(c) /\ d # c
      <4>1. next'[d] = next[d] /\ upto'[d] = upto[d] /\ at'[d] = at[d]
        BY <3>3 DEF EndSession, TypeOK, PerClaim
      <4>. QED
        BY <4>1, DoneType DEF Done
    <3>. QED
      BY <2>3, <3>1, <3>2, <3>3
  <2>. QED
    BY <1>0, <2>2, <2>4, InstallSettled
<1>5. ASSUME NEW c \in Consumers, StartSession(c) PROVE SettledInv'
  <2>1. /\ UNCHANGED <<committed, at>> /\ session[c] = 0
        /\ next' = [next EXCEPT ![c] = committed] /\ upto' = [upto EXCEPT ![c] = committed]
    BY <1>5 DEF StartSession
  <2>2. \A p \in Partitions : at[c][p] = "range"
    BY <2>1 DEF FenceInv
  <2>3. ASSUME NEW d \in Consumers, NEW p \in Partitions
        PROVE  \/ Done(d, p)' = Done(d, p) /\ upto'[d][p] >= upto[d][p]
               \/ Done(d, p)' = committed[p] /\ upto'[d][p] = committed[p]
    <3>1. CASE d = c
      BY <2>1, <2>2, <3>1 DEF Done, TypeOK, PerClaim
    <3>2. CASE d # c
      <4>1. next'[d] = next[d] /\ upto'[d] = upto[d] /\ at'[d] = at[d]
        BY <2>1, <3>2 DEF TypeOK, PerClaim
      <4>. QED
        BY <4>1, DoneType DEF Done
    <3>. QED
      BY <3>1, <3>2
  <2>. QED
    BY <1>0, <2>1, <2>3, InstallSettled
<1>6. CASE \/ \E p \in Partitions, r \in Arrivals : Arrive(p, r)
           \/ \E c \in Consumers : \/ CancelSession(c) \/ Start(c) \/ Terminate(c) \/ Exit(c)
                                   \/ JoinGroup(c) \/ SessionTimeout(c)
                                   \/ RebalanceTimeout(c)
           \/ CompleteRebalance \/ UNCHANGED vars
  <2>1. UNCHANGED <<committed, next, upto, at>>
    BY <1>6 DEF Arrive, CancelSession, Start, Terminate, Exit, JoinGroup, SessionTimeout,
                RebalanceTimeout, Evicted, CompleteRebalance, groupFrame
  <2>. QED
    BY <1>2, <2>1
<1>. QED
  BY <1>1, <1>3, <1>4, <1>5, <1>6 DEF Next, Process, Coordinate

(* No committed offset hides a record that was not dealt with: a crash, a     *)
(* rebalance or an eviction between any two steps of any claim repeats        *)
(* records and, while sends succeed, loses none.                              *)
THEOREM GroupCommitsSettled == Spec => []CommittedIsSettled
<1>1. SettledInv => CommittedIsSettled
  BY DEF SettledInv
<1>. QED
  BY <1>1, TypeInit, TypeStep, FenceInit, FenceStep, SettledInit, SettledStep, PTL DEF Spec

-----------------------------------------------------------------------------
(* The refinement: each step of the group is a step of the relay, or none of  *)
(* its steps.                                                                 *)

(* The group starts as the relay does.                                        *)
LEMMA RelayInit == Init => R!Init
<1>. SUFFICES ASSUME Init PROVE R!Init
  OBVIOUS
<1>1. \A p \in Partitions : Len(dlq[p]) = 0
  BY DEF Init
<1>2. \A p \in Partitions, i \in Offsets : ~(sent[p][i] > 0 \/ <<p, i>> \in closed)
  BY DEF Init
<1>. QED
  BY <1>1, <1>2 DEF Init, R!Init, Dealt, NoClaim

(* A settled record is dealt with. *)
LEMMA SettledIsDealt ==
  ASSUME NEW p \in Partitions, NEW i \in Offsets, Settled(p, i)
  PROVE  i \in Dealt[p]
BY DEF Settled, Dealt

(* A step that appends no record and deals with none may only commit.         *)
LEMMA RelayCommit ==
  ASSUME TypeOK, RangeInv, TypeOK', RangeInv', SettledInv', UNCHANGED <<dlq, outVars>>,
         \A p \in Partitions : committed'[p] >= committed[p]
  PROVE  R!Commit
<1>1. committed' \in [Partitions -> Nat]
  BY DEF TypeOK, Positions
<1>2. ASSUME NEW p \in Partitions, NEW i \in 1..committed'[p] PROVE i \in Dealt[p]
  <2>1. i \in Offsets
    BY <1>1, BoundsType DEF RangeInv, TypeOK, Offsets
  <2>2. Settled(p, i)'
    BY DEF SettledInv, CommittedIsSettled
  <2>3. sent[p][i] > 0 \/ <<p, i>> \in closed
    BY <2>2 DEF Settled
  <2>. QED
    BY <2>1, <2>3 DEF Dealt
<1>3. Dealt' = Dealt
  BY DEF Dealt
<1>. QED
  BY <1>1, <1>2, <1>3 DEF R!Commit

(* A claim deals with the record after those it has finished with.            *)
LEMMA RelaySettle ==
  ASSUME TypeOK, RangeInv, SettledInv, TypeOK',
         NEW c \in Consumers, NEW p \in Partitions,
         NEW k \in Nat, k = next[c][p] + 1,
         SkipMalformed(c, p) \/ GiveUp(c, p) \/ Republish(c, p) \/ RepublishFails(c, p)
  PROVE  k \in 1..Len(dlq[p]) /\ R!Settle(p, k)
<1>1. HasMessage(c, p) /\ UNCHANGED <<dlq, committed>>
  BY DEF SkipMalformed, GiveUp, Republish, RepublishFails, claimFrame
<1>2. k \in 1..Len(dlq[p]) /\ k \in Offsets /\ next[c][p] \in Nat
  BY <1>1, CurrentRange
<1>0. Origin(c, p) = <<p, k>>
  BY DEF Origin
<1>3. ASSUME NEW i \in 1..(k - 1) PROVE i \in Dealt[p]
  <2>1. i \in 1..Done(c, p) /\ i \in Offsets
    BY <1>2, DoneType, BoundsType DEF Offsets
  <2>. QED
    BY <2>1, SettledIsDealt DEF SettledInv
<1>4. Settled(p, k)'
  BY DealtWith
<1>5. ASSUME NEW q \in Partitions, NEW i \in Offsets
      PROVE  i \in Dealt'[q] <=> i \in Dealt[q] \/ (q = p /\ i = k)
  <2>1. sent[q][i] \in Nat
    BY DEF TypeOK
  <2>2. CASE q = p /\ i = k
    BY <1>4, <2>2 DEF Settled, Dealt
  <2>3. CASE ~(q = p /\ i = k)
    <3>1. <<q, i>> \in closed' <=> <<q, i>> \in closed
      BY <1>0, <2>3 DEF SkipMalformed, GiveUp, Republish, RepublishFails
    <3>2. sent'[q][i] = sent[q][i]
      BY <1>2, <2>3, SentMore DEF SkipMalformed, GiveUp, Republish, RepublishFails
    <3>. QED
      BY <2>3, <3>1, <3>2 DEF Dealt
  <2>. QED
    BY <2>2, <2>3
<1>6. Dealt' = [Dealt EXCEPT ![p] = @ \cup {k}]
  <2>1. \A q \in Partitions : Dealt[q] \subseteq Offsets /\ Dealt'[q] \subseteq Offsets
    BY DEF Dealt
  <2>2. \A q \in Partitions : Dealt'[q] = IF q = p THEN Dealt[q] \cup {k} ELSE Dealt[q]
    BY <1>2, <1>5, <2>1
  <2>. QED
    BY <2>2 DEF Dealt
<1>7. [q \in Partitions |-> Len(dlq[q])]' = [q \in Partitions |-> Len(dlq[q])]
  BY <1>1
<1>8. R!Settle(p, k)
  BY <1>1, <1>3, <1>6, <1>7 DEF R!Settle
<1>. QED
  BY <1>2, <1>8

(* A record that arrives changes nothing but the length of its partition.     *)
LEMMA RelayArrive ==
  ASSUME TypeOK, NEW p \in Partitions, NEW r \in Arrivals, Arrive(p, r)
  PROVE  R!Arrive(p)
<1>1. UNCHANGED <<sent, closed, committed>> /\ dlq' = [dlq EXCEPT ![p] = Append(@, r)]
  BY DEF Arrive
<1>2. \A q \in Partitions : Len(dlq'[q]) = IF q = p THEN Len(dlq[q]) + 1 ELSE Len(dlq[q])
  BY <1>1 DEF TypeOK
<1>3. Dealt' = Dealt
  BY <1>1 DEF Dealt
<1>. QED
  BY <1>1, <1>2, <1>3 DEF R!Arrive

(* Every step of the group maps to one of the relay. *)
LEMMA RelayStep ==
  /\ TypeOK /\ RangeInv /\ FenceInv /\ SettledInv /\ [Next]_vars
  /\ TypeOK' /\ RangeInv' /\ SettledInv'
  => [R!Next]_R!vars
<1>. SUFFICES ASSUME TypeOK, RangeInv, FenceInv, SettledInv, [Next]_vars,
                     TypeOK', RangeInv', SettledInv'
              PROVE  [R!Next]_R!vars
  OBVIOUS
<1>1. \A p \in Partitions : committed'[p] >= committed[p]
  BY CommitsForward
<1>2. CASE \E p \in Partitions, r \in Arrivals : Arrive(p, r)
  BY <1>2, RelayArrive DEF R!Next
<1>3. ASSUME NEW c \in Consumers, NEW p \in Partitions,
             SkipMalformed(c, p) \/ GiveUp(c, p) \/ Republish(c, p) \/ RepublishFails(c, p)
      PROVE  R!Next
  <2>1. next[c][p] \in Nat
    BY DoneType
  <2>2. PICK k \in Nat : k = next[c][p] + 1
    BY <2>1
  <2>3. k \in 1..Len(dlq[p]) /\ R!Settle(p, k)
    BY <1>3, <2>2, RelaySettle
  <2>. QED
    BY <2>3 DEF R!Next
<1>4. CASE UNCHANGED <<dlq, outVars>>
  BY <1>1, <1>4, RelayCommit DEF R!Next
<1>5. CASE \E c \in Consumers, p \in Partitions : StartBackoff(c, p) \/ Mark(c, p)
  BY <1>4, <1>5 DEF StartBackoff, Mark, claimFrame
<1>6. CASE \/ \E c \in Consumers :
                \/ \E p \in Partitions : Fetch(c, p)
                \/ AutoCommit(c) \/ CancelSession(c) \/ ReleaseSession(c)
                \/ Start(c) \/ Terminate(c) \/ Exit(c) \/ Crash(c) \/ Coordinate(c)
           \/ CompleteRebalance \/ UNCHANGED vars
  BY <1>4, <1>6 DEF Fetch, AutoCommit, CancelSession, ReleaseSession, Start, Terminate, Exit,
                    Crash, Coordinate, JoinGroup, SessionTimeout, RebalanceTimeout, Evicted,
                    StartSession, CompleteRebalance, claimFrame, groupFrame
<1>. QED
  BY <1>2, <1>3, <1>5, <1>6 DEF Next, Process, ConsumeClaim

(* The consumer group implements the relay of module Relay, for every number  *)
(* of partitions, replicas, records and failures.                             *)
THEOREM GroupImplementsRelay == Spec => ImplementsRelay
<1>1. Init => R!Init
  BY RelayInit
<1>2. SettledInv /\ TypeOK /\ RangeInv /\ FenceInv /\ [Next]_vars =>
        TypeOK' /\ RangeInv' /\ SettledInv'
  BY TypeStep, SettledStep
<1>3. SettledInv /\ TypeOK /\ RangeInv /\ FenceInv /\ [Next]_vars => [R!Next]_R!vars
  BY <1>2, RelayStep
<1>. QED
  BY <1>1, <1>3, TypeInit, TypeStep, FenceInit, FenceStep, SettledInit, SettledStep, PTL
     DEF Spec, ImplementsRelay, R!Spec

-----------------------------------------------------------------------------
(* How often a record is republished: at most once more per crash or eviction. *)

(* Membership: a session belongs to the current generation, or to a replica   *)
(* that was evicted; a member rejoins, and a process ends, without a session. *)
MemberInv ==
  /\ phase = "stable" => joined = {}
  /\ \A c \in Consumers :
       /\ proc[c] = "stopped" \/ c \in joined => session[c] = 0
       /\ c \in members /\ session[c] # 0 => session[c] = gen

(* Nobody is a member initially. *)
LEMMA MemberInit == Init => MemberInv
BY DEF Init, MemberInv

(* Every step keeps the sessions of members in the current generation. *)
LEMMA MemberStep == TypeOK /\ MemberInv /\ [Next]_vars => MemberInv'
<1> SUFFICES ASSUME TypeOK, MemberInv, [Next]_vars PROVE MemberInv'
  OBVIOUS
<1>0. joined \subseteq members
  BY DEF TypeOK
<1>1. ASSUME NEW c \in Consumers,
             \/ \E p \in Partitions : Fetch(c, p) \/ ConsumeClaim(c, p)
             \/ AutoCommit(c) \/ CancelSession(c)
      PROVE  MemberInv'
  <2>1. UNCHANGED <<members, joined, phase, gen, proc, session>>
    BY <1>1 DEF Fetch, ConsumeClaim, SkipMalformed, GiveUp, StartBackoff, Republish,
                RepublishFails, Mark, claimFrame, AutoCommit, CancelSession
  <2>. QED
    BY <2>1 DEF MemberInv
<1>2. ASSUME NEW c \in Consumers, Start(c) \/ Terminate(c) \/ Exit(c) PROVE MemberInv'
  <2>1. /\ UNCHANGED <<members, joined, phase, gen, session>>
        /\ \A d \in Consumers \ {c} : proc'[d] = proc[d]
        /\ proc'[c] = "stopped" => session[c] = 0
    BY <1>2 DEF Start, Terminate, Exit, TypeOK
  <2>. QED
    BY <2>1 DEF MemberInv
<1>3. ASSUME NEW c \in Consumers, ReleaseSession(c) \/ Crash(c) PROVE MemberInv'
  <2>1. /\ UNCHANGED <<members, joined, phase, gen>>
        /\ \A d \in Consumers \ {c} : proc'[d] = proc[d] /\ session'[d] = session[d]
        /\ session'[c] = 0
    BY <1>3 DEF ReleaseSession, Crash, EndSession, TypeOK
  <2>. QED
    BY <2>1 DEF MemberInv
<1>4. ASSUME NEW c \in Consumers, JoinGroup(c) PROVE MemberInv'
  <2>1. /\ UNCHANGED <<gen, proc, session>> /\ session[c] = 0 /\ phase' = "rebalancing"
        /\ members' = members \cup {c} /\ joined' = joined \cup {c}
    BY <1>4 DEF JoinGroup, groupFrame
  <2>. QED
    BY <2>1 DEF MemberInv
<1>5. ASSUME NEW c \in Consumers, SessionTimeout(c) \/ RebalanceTimeout(c) PROVE MemberInv'
  <2>1. /\ UNCHANGED <<gen, proc, session>> /\ phase' = "rebalancing"
        /\ members' \subseteq members /\ joined' \subseteq joined
    BY <1>5 DEF SessionTimeout, RebalanceTimeout, Evicted, groupFrame
  <2>. QED
    BY <2>1 DEF MemberInv
<1>6. ASSUME NEW c \in Consumers, StartSession(c) PROVE MemberInv'
  <2>1. /\ UNCHANGED <<members, joined, phase, gen, proc>>
        /\ proc[c] = "running" /\ joined = {} /\ session'[c] = gen
        /\ \A d \in Consumers \ {c} : session'[d] = session[d]
    BY <1>6 DEF StartSession, TypeOK, MemberInv
  <2>. QED
    BY <2>1 DEF MemberInv
<1>7. ASSUME CompleteRebalance PROVE MemberInv'
  <2>1. /\ UNCHANGED <<members, proc, session>> /\ joined = members /\ joined' = {}
    BY <1>7 DEF CompleteRebalance, groupFrame
  <2>. QED
    BY <2>1 DEF MemberInv
<1>8. CASE (\E p \in Partitions, r \in Arrivals : Arrive(p, r)) \/ UNCHANGED vars
  BY <1>8 DEF Arrive, MemberInv
<1>. QED
  BY <1>1, <1>2, <1>3, <1>4, <1>5, <1>6, <1>7, <1>8 DEF Next, Process, Coordinate

-----------------------------------------------------------------------------
(* The budget of a record: the copies it has, one for each evicted replica    *)
(* that still has it in a claim, and one if the group has it before it.       *)
Stale(p, i) ==
  {c \in Consumers : c \notin members /\ p \in claims[c] /\ Done(c, p) < i}

Ahead(p, i) ==
  committed[p] < i /\ \A c \in members : p \in claims[c] => Done(c, p) < i

Budget(p, i) ==
  sent[p][i] + Cardinality(Stale(p, i)) + (IF Ahead(p, i) THEN 1 ELSE 0)

Failures == faults.crashes + faults.timeouts

BudgetInv == \A p \in Partitions, i \in Offsets : Budget(p, i) <= 1 + Failures

(* The faults are counted. *)
LEMMA FaultsCounted ==
  TypeOK => faults.crashes \in Nat /\ faults.timeouts \in Nat /\ faults.errors \in Nat
<1>1. ASSUME faults \in Faults
      PROVE  faults.crashes \in Nat /\ faults.timeouts \in Nat /\ faults.errors \in Nat
  BY <1>1, BoundsType DEF Faults
<1>2. TypeOK => faults \in Faults
  BY DEF TypeOK
<1>. QED
  BY <1>1, <1>2

(* The parts of a budget are natural numbers. *)
LEMMA BudgetType ==
  ASSUME TypeOK, NEW p \in Partitions, NEW i \in Offsets
  PROVE  /\ sent[p][i] \in Nat /\ Failures \in Nat
         /\ IsFiniteSet(Stale(p, i)) /\ Cardinality(Stale(p, i)) \in Nat
<1>1. Stale(p, i) \in SUBSET Consumers /\ IsFiniteSet(Consumers)
  BY GroupAssumption DEF Stale
<1>2. IsFiniteSet(Stale(p, i)) /\ Cardinality(Stale(p, i)) \in Nat
  BY <1>1, FS_Subset, FS_CardinalityType
<1>3. sent[p][i] \in Nat
  BY DEF TypeOK
<1>4. faults.crashes \in Nat /\ faults.timeouts \in Nat
  BY FaultsCounted
<1>5. Failures \in Nat
  BY <1>4 DEF Failures
<1>. QED
  BY <1>2, <1>3, <1>5

(* Nothing was sent initially, and every record is before the group. *)
LEMMA BudgetInit == Init => BudgetInv
<1> SUFFICES ASSUME Init, NEW p \in Partitions, NEW i \in Offsets
             PROVE  Budget(p, i) <= 1 + Failures
  BY DEF BudgetInv
<1>1. Stale(p, i) = {} /\ sent[p][i] = 0 /\ Failures = 0
  BY DEF Init, Stale, Failures
<1>2. Cardinality(Stale(p, i)) = 0
  BY <1>1, FS_EmptySet
<1>. QED
  BY <1>1, <1>2 DEF Budget

(* A step that sends nothing and opens no new way to send keeps the budget. *)
LEMMA QuietBudget ==
  ASSUME TypeOK, TypeOK', NEW p \in Partitions, NEW i \in Offsets,
         Budget(p, i) <= 1 + Failures, sent'[p][i] = sent[p][i], Failures' >= Failures,
         Stale(p, i)' \subseteq Stale(p, i), Ahead(p, i)' => Ahead(p, i)
  PROVE  Budget(p, i)' <= 1 + Failures'
<1>1. Cardinality(Stale(p, i)') <= Cardinality(Stale(p, i))
  BY BudgetType, FS_Subset
<1>2. /\ sent[p][i] \in Nat /\ Failures \in Nat /\ Failures' \in Nat
      /\ Cardinality(Stale(p, i)) \in Nat /\ Cardinality(Stale(p, i)') \in Nat
  <2>1. sent[p][i] \in Nat /\ Failures \in Nat /\ Cardinality(Stale(p, i)) \in Nat
    BY BudgetType
  <2>2. (IsFiniteSet(Stale(p, i)) /\ Cardinality(Stale(p, i)) \in Nat)' /\ Failures' \in Nat
    <3>1. Stale(p, i)' \in SUBSET Stale(p, i) /\ IsFiniteSet(Stale(p, i))
      BY BudgetType
    <3>2. IsFiniteSet(Stale(p, i)') /\ Cardinality(Stale(p, i)') \in Nat
      BY <3>1, FS_Subset, FS_CardinalityType
    <3>3. Failures' \in Nat
      <4>1. faults' \in Faults
        BY DEF TypeOK
      <4>2. faults'.crashes \in Nat /\ faults'.timeouts \in Nat
        BY <4>1, BoundsType DEF Faults
      <4>. QED
        BY <4>2 DEF Failures
    <3>. QED
      BY <3>2, <3>3
  <2>. QED
    BY <2>1, <2>2
<1>. QED
  BY <1>1, <1>2 DEF Budget

(* A failure may put the group before the record again, or leave an evicted   *)
(* replica with it that was ahead of it; it pays for either.                  *)
LEMMA FailureBudget ==
  ASSUME TypeOK, TypeOK', NEW p \in Partitions, NEW i \in Offsets,
         Budget(p, i) <= 1 + Failures, sent'[p][i] = sent[p][i], Failures' = Failures + 1,
         NEW c \in Consumers, Stale(p, i)' \subseteq Stale(p, i) \cup {c},
         Stale(p, i)' \subseteq Stale(p, i) \/ Ahead(p, i)
  PROVE  Budget(p, i)' <= 1 + Failures'
<1>1. /\ sent[p][i] \in Nat /\ Failures \in Nat
      /\ IsFiniteSet(Stale(p, i)) /\ Cardinality(Stale(p, i)) \in Nat
  BY BudgetType
<1>2. /\ IsFiniteSet(Stale(p, i) \cup {c})
      /\ Cardinality(Stale(p, i) \cup {c}) \in {Cardinality(Stale(p, i)), Cardinality(Stale(p, i)) + 1}
  BY <1>1, FS_AddElement
<1>3. /\ Cardinality(Stale(p, i)') <= Cardinality(Stale(p, i)) + 1
      /\ Cardinality(Stale(p, i)') \in Nat
      /\ Stale(p, i)' \subseteq Stale(p, i) =>
           Cardinality(Stale(p, i)') <= Cardinality(Stale(p, i))
  <2>1. Stale(p, i)' \in SUBSET (Stale(p, i) \cup {c})
    OBVIOUS
  <2>2. /\ IsFiniteSet(Stale(p, i)')
        /\ Cardinality(Stale(p, i)') <= Cardinality(Stale(p, i) \cup {c})
    BY <1>2, <2>1, FS_Subset
  <2>3. Cardinality(Stale(p, i)') \in Nat
    BY <2>2, FS_CardinalityType
  <2>4. Stale(p, i)' \subseteq Stale(p, i) =>
          Cardinality(Stale(p, i)') <= Cardinality(Stale(p, i))
    BY <1>1, FS_Subset
  <2>. QED
    BY <1>1, <1>2, <2>2, <2>3, <2>4
<1>. QED
  BY <1>1, <1>3 DEF Budget

(* A copy that is sent was in the budget: the sender was a replica that had   *)
(* been evicted, or it took the group past the record.                        *)
LEMMA SendBudget ==
  ASSUME TypeOK, TypeOK', NEW p \in Partitions, NEW i \in Offsets,
         Budget(p, i) <= 1 + Failures, sent'[p][i] = sent[p][i] + 1, Failures' = Failures,
         Stale(p, i)' \subseteq Stale(p, i), Ahead(p, i)' => Ahead(p, i),
         \/ Ahead(p, i) /\ ~Ahead(p, i)'
         \/ \E c \in Consumers : c \in Stale(p, i) /\ c \notin Stale(p, i)'
  PROVE  Budget(p, i)' <= 1 + Failures'
<1>1. /\ sent[p][i] \in Nat /\ Failures \in Nat
      /\ IsFiniteSet(Stale(p, i)) /\ Cardinality(Stale(p, i)) \in Nat
  BY BudgetType
<1>2. /\ Cardinality(Stale(p, i)') <= Cardinality(Stale(p, i))
      /\ Cardinality(Stale(p, i)') \in Nat
      /\ Stale(p, i) # Stale(p, i)' =>
           Cardinality(Stale(p, i)') # Cardinality(Stale(p, i))
  <2>1. Stale(p, i)' \in SUBSET Stale(p, i)
    OBVIOUS
  <2>2. /\ IsFiniteSet(Stale(p, i)')
        /\ Cardinality(Stale(p, i)') <= Cardinality(Stale(p, i))
        /\ Cardinality(Stale(p, i)) = Cardinality(Stale(p, i)') => Stale(p, i) = Stale(p, i)'
    BY <1>1, <2>1, FS_Subset
  <2>3. Cardinality(Stale(p, i)') \in Nat
    BY <2>2, FS_CardinalityType
  <2>. QED
    BY <2>2, <2>3
<1>3. CASE Ahead(p, i) /\ ~Ahead(p, i)'
  BY <1>1, <1>2, <1>3 DEF Budget
<1>4. CASE \E c \in Consumers : c \in Stale(p, i) /\ c \notin Stale(p, i)'
  <2>1. Cardinality(Stale(p, i)') + 1 <= Cardinality(Stale(p, i))
    BY <1>1, <1>2, <1>4
  <2>. QED
    BY <1>1, <1>2, <2>1 DEF Budget
<1>. QED
  BY <1>3, <1>4

-----------------------------------------------------------------------------
(* The steps. *)

(* A step that leaves the claims, the members and the commits alone is quiet. *)
LEMMA FrameBudget ==
  ASSUME TypeOK, TypeOK', BudgetInv,
         UNCHANGED <<sent, committed, members, claims, next, at>>,
         Failures' = Failures
  PROVE  BudgetInv'
<1> SUFFICES ASSUME NEW p \in Partitions, NEW i \in Offsets
             PROVE  Budget(p, i)' <= 1 + Failures'
  BY DEF BudgetInv
<1>1. Stale(p, i)' = Stale(p, i) /\ (Ahead(p, i)' <=> Ahead(p, i))
  BY DEF Stale, Ahead, Done
<1>. QED
  BY <1>1 DEF BudgetInv, Budget

(* ConsumeClaim sends a record only before its claim is done with it. *)
LEMMA ConsumeBudget ==
  ASSUME TypeOK, TypeOK', RangeInv, FenceInv, MemberInv, BudgetInv,
         NEW c \in Consumers, NEW p \in Partitions, ConsumeClaim(c, p)
  PROVE  BudgetInv'
<1>1. /\ HasMessage(c, p) /\ p \in claims[c]
      /\ UNCHANGED <<committed, members, claims>>
  BY DEF ConsumeClaim, SkipMalformed, GiveUp, StartBackoff, Republish, RepublishFails,
         Mark, claimFrame, HasMessage
<1>2. Failures' = Failures
  <2>1. \/ faults' = faults \/ faults' = [faults EXCEPT !.errors = @ + 1]
    BY DEF ConsumeClaim, SkipMalformed, GiveUp, StartBackoff, Republish, RepublishFails, Mark
  <2>. QED
    BY <2>1 DEF Failures, TypeOK, Faults
<1>3. next[c][p] \in Nat /\ next[c][p] + 1 \in Offsets
  BY <1>1, CurrentRange
<1>4. \A d \in Consumers, q \in Partitions :
        Done(d, q) \in Nat /\ Done(d, q)' \in Nat /\ Done(d, q)' >= Done(d, q)
  <2>1. \A d \in Consumers, q \in Partitions : Done(d, q) \in Nat
    BY DoneType
  <2>. QED
    BY <1>3, <2>1, DoneMoves
<1> SUFFICES ASSUME NEW q \in Partitions, NEW i \in Offsets
             PROVE  Budget(q, i)' <= 1 + Failures'
  BY DEF BudgetInv
<1>5. i \in Nat /\ committed[q] \in Nat /\ \A d \in members : d \in Consumers
  BY DEF Offsets, TypeOK, Positions
<1>6. Stale(q, i)' \subseteq Stale(q, i) /\ (Ahead(q, i)' => Ahead(q, i))
  <2>1. ASSUME NEW d \in Consumers, Done(d, q)' < i PROVE Done(d, q) < i
    BY <1>4, <1>5, <2>1
  <2>2. Stale(q, i)' \subseteq Stale(q, i)
    BY <1>1, <2>1 DEF Stale
  <2>3. Ahead(q, i)' => Ahead(q, i)
    BY <1>1, <1>5, <2>1 DEF Ahead
  <2>. QED
    BY <2>2, <2>3
<1>7. CASE sent'[q][i] = sent[q][i]
  <2>1. Failures' >= Failures
    BY <1>2, BudgetType
  <2>. QED
    BY <1>6, <1>7, <2>1, QuietBudget DEF BudgetInv
<1>8. CASE sent'[q][i] # sent[q][i]
  <2>1. /\ Republish(c, p) \/ RepublishFails(c, p)
        /\ sent' = [sent EXCEPT ![p][next[c][p] + 1] = @ + 1]
    BY <1>8 DEF ConsumeClaim, SkipMalformed, GiveUp, StartBackoff, Republish,
                RepublishFails, Mark
  <2>2. q = p /\ i = next[c][p] + 1 /\ sent'[q][i] = sent[q][i] + 1
    BY <1>3, <1>8, <2>1, SentMore
  <2>3. Done(c, p) = next[c][p] /\ Done(c, p)' = next[c][p] + 1
    <3>1. at[c][p] = "backoff" /\ at' = [at EXCEPT ![c][p] = "mark"] /\ next' = next
      BY <2>1 DEF Republish, RepublishFails
    <3>2. at'[c][p] = "mark"
      BY <3>1 DEF TypeOK
    <3>. QED
      BY <3>1, <3>2 DEF Done
  <2>4. Done(c, q) < i /\ ~(Done(c, q)' < i)
    BY <1>3, <2>2, <2>3
  <2>5. CASE c \in members
    <3>1. session[c] # 0
      BY <1>1 DEF FenceInv
    <3>2. Accepted(c)
      BY <2>5, <3>1 DEF MemberInv, Accepted
    <3>3. owner[p] = c /\ committed[p] <= marked[c][p] /\ marked[c][p] = next[c][p]
      BY <1>1, <3>2 DEF FenceInv, RangeInv
    <3>4. committed[q] < i
      BY <1>3, <1>5, <2>2, <3>3
    <3>5. ASSUME NEW d \in members, q \in claims[d] PROVE Done(d, q) < i
      <4>1. d \in Consumers /\ session[d] # 0
        BY <1>5, <3>5 DEF FenceInv
      <4>2. Accepted(d)
        BY <4>1 DEF MemberInv, Accepted
      <4>3. d = c
        BY <2>2, <3>3, <3>5, <4>1, <4>2 DEF FenceInv
      <4>. QED
        BY <2>4, <4>3
    <3>6. Ahead(q, i) /\ ~Ahead(q, i)'
      BY <1>1, <2>2, <2>4, <2>5, <3>4, <3>5 DEF Ahead
    <3>. QED
      BY <1>2, <1>6, <2>2, <3>6, SendBudget DEF BudgetInv
  <2>6. CASE c \notin members
    <3>1. c \in Stale(q, i) /\ c \notin Stale(q, i)'
      BY <1>1, <2>2, <2>4, <2>6 DEF Stale
    <3>. QED
      BY <1>2, <1>6, <2>2, <3>1, SendBudget DEF BudgetInv
  <2>. QED
    BY <2>5, <2>6
<1>. QED
  BY <1>7, <1>8

(* What the end of a session leaves of the claims. *)
LEMMA EndClaims ==
  ASSUME TypeOK, NEW c \in Consumers, EndSession(c)
  PROVE  /\ claims'[c] = {}
         /\ \A d \in Consumers \ {c}, q \in Partitions :
              claims'[d] = claims[d] /\ Done(d, q)' = Done(d, q)
<1>1. claims'[c] = {} /\ \A d \in Consumers \ {c} : claims'[d] = claims[d]
  BY DEF EndSession, TypeOK
<1>2. \A d \in Consumers \ {c} : next'[d] = next[d] /\ at'[d] = at[d]
  BY DEF EndSession, TypeOK, PerClaim
<1>. QED
  BY <1>1, <1>2 DEF Done

(* A crash is paid for; an orderly end commits what the claims have done. *)
LEMMA EndBudget ==
  ASSUME TypeOK, TypeOK', RangeInv, FenceInv, MemberInv, BudgetInv,
         NEW c \in Consumers, ReleaseSession(c) \/ Crash(c)
  PROVE  BudgetInv'
<1> SUFFICES ASSUME NEW q \in Partitions, NEW i \in Offsets
             PROVE  Budget(q, i)' <= 1 + Failures'
  BY DEF BudgetInv
<1>1. EndSession(c) /\ UNCHANGED <<sent, members>>
  BY DEF ReleaseSession, Crash
<1>2. Stale(q, i)' \subseteq Stale(q, i)
  <2>1. ASSUME NEW d \in Consumers, d \notin members, q \in claims'[d], Done(d, q)' < i
        PROVE  d \in Stale(q, i)
    BY <1>1, <2>1, EndClaims DEF Stale
  <2>. QED
    BY <1>1, <2>1 DEF Stale
<1>3. CASE Crash(c)
  <2>1. Failures' = Failures + 1
    BY <1>3 DEF Crash, Failures, TypeOK, Faults
  <2>. QED
    BY <1>1, <1>2, <2>1, FailureBudget DEF BudgetInv
<1>4. CASE ReleaseSession(c)
  <2>1. faults' = faults /\ committed' = AfterCommit(c) /\ session[c] # 0 /\ Drained(c)
    BY <1>4 DEF ReleaseSession
  <2>2. AfterCommit(c)[q] >= committed[q] /\ AfterCommit(c)[q] \in Nat
        /\ committed[q] \in Nat /\ i \in Nat
    <3>1. AfterCommit(c) \in Positions /\ committed \in Positions
      BY CommitRange DEF TypeOK
    <3>2. AfterCommit(c)[q] >= committed[q]
      BY CommitFence
    <3>. QED
      BY <3>1, <3>2 DEF Positions, Offsets
  <2>3. ASSUME Ahead(q, i)', NEW d \in members, q \in claims[d] PROVE Done(d, q) < i
    <3>1. d \in Consumers
      BY DEF TypeOK
    <3>2. CASE d = c
      <4>1. Accepted(c)
        BY <2>1, <2>3, <3>2 DEF MemberInv, Accepted
      <4>2. AfterCommit(c)[q] = marked[c][q] /\ marked[c][q] = next[c][q]
        BY <2>3, <3>2, <4>1 DEF AfterCommit, RangeInv
      <4>3. Done(c, q) = next[c][q]
        BY <2>1, <2>3, <3>2 DEF Drained, Done
      <4>. QED
        BY <2>1, <2>3, <3>2, <4>2, <4>3 DEF Ahead
    <3>3. CASE d # c
      BY <1>1, <2>3, <3>1, <3>3, EndClaims DEF Ahead
    <3>. QED
      BY <3>2, <3>3
  <2>4. Ahead(q, i)' => Ahead(q, i)
    BY <2>1, <2>2, <2>3 DEF Ahead
  <2>5. Failures' >= Failures
    BY <2>1, BudgetType DEF Failures
  <2>. QED
    BY <1>1, <1>2, <2>4, <2>5, QuietBudget DEF BudgetInv
<1>. QED
  BY <1>3, <1>4

(* Every step of a replica stays within the budgets. *)
LEMMA ProcessBudget ==
  ASSUME TypeOK, TypeOK', RangeInv, FenceInv, MemberInv, BudgetInv,
         NEW c \in Consumers, Process(c)
  PROVE  BudgetInv'
<1>1. CASE \E p \in Partitions : ConsumeClaim(c, p)
  BY <1>1, ConsumeBudget
<1>2. CASE ReleaseSession(c) \/ Crash(c)
  BY <1>2, EndBudget
<1>3. CASE AutoCommit(c)
  <2> SUFFICES ASSUME NEW q \in Partitions, NEW i \in Offsets
               PROVE  Budget(q, i)' <= 1 + Failures'
    BY DEF BudgetInv
  <2>1. /\ UNCHANGED <<sent, members, claims, next, at, faults>>
        /\ committed' = AfterCommit(c)
    BY <1>3 DEF AutoCommit
  <2>2. AfterCommit(c)[q] >= committed[q] /\ AfterCommit(c)[q] \in Nat
        /\ committed[q] \in Nat /\ i \in Nat
    <3>1. AfterCommit(c) \in Positions /\ committed \in Positions
      BY CommitRange DEF TypeOK
    <3>2. AfterCommit(c)[q] >= committed[q]
      BY CommitFence
    <3>. QED
      BY <3>1, <3>2 DEF Positions, Offsets
  <2>3. Stale(q, i)' = Stale(q, i) /\ (Ahead(q, i)' => Ahead(q, i))
    BY <2>1, <2>2 DEF Stale, Ahead, Done
  <2>4. Failures' >= Failures
    BY <2>1, BudgetType DEF Failures
  <2>. QED
    BY <2>1, <2>3, <2>4, QuietBudget DEF BudgetInv
<1>4. CASE \/ \E p \in Partitions : Fetch(c, p)
           \/ CancelSession(c) \/ Start(c) \/ Terminate(c) \/ Exit(c)
  <2>1. /\ UNCHANGED <<sent, committed, members, claims, next, at>>
        /\ faults' = faults \/ faults' = [faults EXCEPT !.stops = @ + 1]
    BY <1>4 DEF Fetch, claimFrame, CancelSession, Start, Terminate, Exit
  <2>2. Failures' = Failures
    BY <2>1 DEF Failures, TypeOK, Faults
  <2>. QED
    BY <2>1, <2>2, FrameBudget
<1>. QED
  BY <1>1, <1>2, <1>3, <1>4 DEF Process

(* Every step of the coordinator does: a member that joins, leaves or starts  *)
(* without a session has no claims, and an eviction from a session is paid    *)
(* for.                                                                       *)
LEMMA CoordinateBudget ==
  ASSUME TypeOK, TypeOK', RangeInv, FenceInv, MemberInv, BudgetInv,
         (\E c \in Consumers : Coordinate(c)) \/ CompleteRebalance
  PROVE  BudgetInv'
<1>0. members \subseteq Consumers
  BY DEF TypeOK
<1>1. ASSUME NEW c \in Consumers, JoinGroup(c) \/ SessionTimeout(c) PROVE BudgetInv'
  <2> SUFFICES ASSUME NEW q \in Partitions, NEW i \in Offsets
               PROVE  Budget(q, i)' <= 1 + Failures'
    BY DEF BudgetInv
  <2>1. /\ UNCHANGED <<sent, committed, claims, next, at, faults>>
        /\ members \ {c} \subseteq members' /\ members' \subseteq members \cup {c}
        /\ session[c] = 0
    BY <1>1 DEF JoinGroup, SessionTimeout, Evicted, groupFrame, MemberInv
  <2>2. claims[c] = {}
    BY <2>1 DEF FenceInv
  <2>3. Stale(q, i)' = Stale(q, i) /\ (Ahead(q, i)' <=> Ahead(q, i))
    <3>1. \A d \in Consumers : Done(d, q)' = Done(d, q)
      BY <2>1 DEF Done
    <3>2. Stale(q, i)' = Stale(q, i)
      BY <2>1, <2>2, <3>1 DEF Stale
    <3>3. Ahead(q, i)' <=> Ahead(q, i)
      BY <1>0, <2>1, <2>2, <3>1 DEF Ahead
    <3>. QED
      BY <3>2, <3>3
  <2>4. Failures' >= Failures
    BY <2>1, BudgetType DEF Failures
  <2>. QED
    BY <2>1, <2>3, <2>4, QuietBudget DEF BudgetInv
<1>2. ASSUME NEW c \in Consumers, RebalanceTimeout(c) PROVE BudgetInv'
  <2> SUFFICES ASSUME NEW q \in Partitions, NEW i \in Offsets
               PROVE  Budget(q, i)' <= 1 + Failures'
    BY DEF BudgetInv
  <2>1. /\ UNCHANGED <<sent, committed, claims, next, at>>
        /\ members' = members \ {c} /\ c \in members /\ session[c] # 0
        /\ faults' = [faults EXCEPT !.timeouts = @ + 1]
    BY <1>2 DEF RebalanceTimeout, Evicted, groupFrame
  <2>2. Failures' = Failures + 1
    BY <2>1 DEF Failures, TypeOK, Faults
  <2>3. \A d \in Consumers : Done(d, q)' = Done(d, q)
    BY <2>1 DEF Done
  <2>4. Stale(q, i)' \subseteq Stale(q, i) \cup {c}
    BY <2>1, <2>3 DEF Stale
  <2>5. ASSUME c \in Stale(q, i)' PROVE Ahead(q, i)
    <3>1. q \in claims[c] /\ Done(c, q) < i
      BY <2>1, <2>3, <2>5 DEF Stale
    <3>2. Accepted(c)
      BY <2>1 DEF MemberInv, Accepted
    <3>3. owner[q] = c /\ committed[q] <= marked[c][q] /\ marked[c][q] = next[c][q]
      BY <3>1, <3>2 DEF FenceInv, RangeInv
    <3>4. committed[q] < i
      BY <3>1, <3>3, DoneType DEF Offsets
    <3>5. ASSUME NEW d \in members, q \in claims[d] PROVE Done(d, q) < i
      <4>1. d \in Consumers /\ session[d] # 0
        BY <1>0, <3>5 DEF FenceInv
      <4>2. Accepted(d)
        BY <4>1 DEF MemberInv, Accepted
      <4>3. d = c
        BY <3>3, <3>5, <4>1, <4>2 DEF FenceInv
      <4>. QED
        BY <3>1, <4>3
    <3>. QED
      BY <3>4, <3>5 DEF Ahead
  <2>6. Stale(q, i)' \subseteq Stale(q, i) \/ Ahead(q, i)
    BY <2>4, <2>5
  <2>. QED
    BY <2>1, <2>2, <2>4, <2>6, FailureBudget DEF BudgetInv
<1>3. ASSUME NEW c \in Consumers, StartSession(c) PROVE BudgetInv'
  <2> SUFFICES ASSUME NEW q \in Partitions, NEW i \in Offsets
               PROVE  Budget(q, i)' <= 1 + Failures'
    BY DEF BudgetInv
  <2>1. /\ UNCHANGED <<sent, committed, members, at, faults>>
        /\ c \in members /\ session[c] = 0
        /\ \A d \in Consumers \ {c} : claims'[d] = claims[d] /\ next'[d] = next[d]
    BY <1>3 DEF StartSession, TypeOK, PerClaim
  <2>2. claims[c] = {}
    BY <2>1 DEF FenceInv
  <2>3. \A d \in Consumers \ {c} : Done(d, q)' = Done(d, q)
    BY <2>1 DEF Done
  <2>4. Stale(q, i)' \subseteq Stale(q, i)
    BY <2>1, <2>3 DEF Stale
  <2>5. Ahead(q, i)' => Ahead(q, i)
    BY <1>0, <2>1, <2>2, <2>3 DEF Ahead
  <2>6. Failures' >= Failures
    BY <2>1, BudgetType DEF Failures
  <2>. QED
    BY <2>1, <2>4, <2>5, <2>6, QuietBudget DEF BudgetInv
<1>4. CASE CompleteRebalance
  <2>1. UNCHANGED <<sent, committed, members, claims, next, at, faults>>
    BY <1>4 DEF CompleteRebalance, groupFrame
  <2>. QED
    BY <2>1, FrameBudget DEF Failures
<1>. QED
  BY <1>1, <1>2, <1>3, <1>4 DEF Coordinate

(* Every step stays within the budgets. *)
LEMMA BudgetStep ==
  TypeOK /\ RangeInv /\ FenceInv /\ MemberInv /\ BudgetInv /\ [Next]_vars => BudgetInv'
<1> SUFFICES ASSUME TypeOK, RangeInv, FenceInv, MemberInv, BudgetInv, [Next]_vars
             PROVE  BudgetInv'
  OBVIOUS
<1>0. TypeOK'
  BY TypeStep
<1>1. CASE (\E p \in Partitions, r \in Arrivals : Arrive(p, r)) \/ UNCHANGED vars
  <2>1. UNCHANGED <<sent, committed, members, claims, next, at, faults>>
    BY <1>1 DEF Arrive
  <2>. QED
    BY <1>0, <2>1, FrameBudget DEF Failures
<1>. QED
  BY <1>0, <1>1, ProcessBudget, CoordinateBudget DEF Next

-----------------------------------------------------------------------------
(* A record is republished at most once more per crash or eviction: a failure *)
(* repeats what was not committed, a rebalance and a send error repeat        *)
(* nothing.                                                                   *)
THEOREM GroupBoundsDuplicates == Spec => []DuplicatesBounded
<1>1. TypeOK /\ BudgetInv => DuplicatesBounded
  <2> SUFFICES ASSUME TypeOK, BudgetInv, NEW p \in Partitions, NEW i \in Offsets
               PROVE  sent[p][i] <= 1 + faults.crashes + faults.timeouts
    BY DEF DuplicatesBounded
  <2>1. /\ sent[p][i] \in Nat /\ Cardinality(Stale(p, i)) \in Nat
        /\ faults.crashes \in Nat /\ faults.timeouts \in Nat
    BY BudgetType, FaultsCounted
  <2>. QED
    BY <2>1 DEF BudgetInv, Budget, Failures
<1>. QED
  BY <1>1, TypeInit, TypeStep, FenceInit, FenceStep, MemberInit, MemberStep,
     BudgetInit, BudgetStep, PTL DEF Spec

(* Without a crash, an eviction or a send error a record is republished once, *)
(* through any number of rebalances and orderly stops.                        *)
THEOREM GroupRepublishesOnce == Spec => []RepublishedOnceWithoutFailure
<1>1. TypeOK /\ DuplicatesBounded => RepublishedOnceWithoutFailure
  <2>1. TypeOK => /\ faults.crashes \in Nat /\ faults.timeouts \in Nat
                  /\ faults.errors \in Nat
                  /\ \A p \in Partitions, i \in Offsets : sent[p][i] \in Nat
    BY FaultsCounted, BudgetType
  <2>. QED
    BY <2>1 DEF DuplicatesBounded, RepublishedOnceWithoutFailure
<1>. QED
  BY <1>1, GroupTypeCorrect, GroupBoundsDuplicates, PTL
=============================================================================
