------------------------ MODULE OrderEventJob_proofs ------------------------
(* Theorems of OrderEventJob, for every number of partitions, subtasks,       *)
(* users, orders and failures, and every window size and tolerance.           *)
EXTENDS OrderEventJob, FiniteSetTheorems, TLAPS

USE DEF vars, sourceVars, sinkVars, chkVars, envVars

(* The initial and the restored values of the job have their types. *)
LEMMA CleanStateType ==
  /\ NoPos \in Positions /\ NoWindows \in Counters
  /\ NoCheckpoint \in Checkpoints
BY DEF NoPos, NoWindows, NoCheckpoint, Positions, Counters, Checkpoints

(* Every record on the topic is an order the data assumption describes, and   *)
(* the window of its timestamp is one of WindowStarts.                        *)
LEMMA PolledType ==
  ASSUME TypeOK, NEW p \in Partitions, pos[p] < Len(log[p])
  PROVE  /\ Polled(p) \in Orders /\ Polled(p) \in OrderEvent
         /\ Polled(p).timestamp \in Times
         /\ WindowStart(Polled(p).timestamp) \in WindowStarts
<1>1. pos[p] + 1 \in 1..Len(log[p])
  BY DEF TypeOK, Positions
<1>2. Polled(p) \in Orders
  BY <1>1 DEF TypeOK, Polled
<1>3. Polled(p) \in OrderEvent
  BY <1>2, DataAssumption
<1>4. Polled(p).timestamp \in Times
  BY <1>3 DEF OrderEvent
<1>. QED
  BY <1>2, <1>3, <1>4 DEF WindowStarts

(* Timestamps, and the initial one, are integers. *)
LEMMA TimestampType == \A t \in Times \cup {NoTimestamp} : t \in Int /\ t >= -1
<1>1. \A t \in Times : t \in Nat
  BY DataAssumption
<1>2. \A t \in Times : t \in Int /\ t >= -1
  BY <1>1
<1>3. NoTimestamp \in Int /\ NoTimestamp >= -1
  BY DEF NoTimestamp
<1>. QED
  BY <1>2, <1>3

(* The job's variables have their types initially. *)
LEMMA TypeInit == Init => TypeOK
BY CleanStateType, BoundsAssumption, PartitionsAssumption, TimeAssumption
   DEF Init, TypeOK, NoTimestamp, MinWatermark, WatermarkOf

(* Reading one order keeps the types. *)
LEMMA TypeRead == TypeOK /\ (\E p \in Partitions : Read(p)) => TypeOK'
<1>. SUFFICES ASSUME TypeOK, NEW p \in Partitions, Read(p) PROVE TypeOK'
  OBVIOUS
<1>1. Poll(p)
  BY DEF Read, RoutePoison, Discard, Aggregate
<1>2. pos[p] < Len(log[p])
  BY <1>1 DEF Poll
<1>3. pos' \in Positions
  BY <1>1 DEF Poll, TypeOK, Positions
<1>4. maxTs' \in [Partitions -> Times \cup {NoTimestamp}]
  BY <1>1, <1>2, PolledType DEF Poll, TypeOK, Larger
<1>5. dlqBuf' \subseteq Coordinates /\ windows' \in Counters
  <2>1. CASE RoutePoison(p)
    <3>1. <<p, pos[p] + 1>> \in Coordinates
      BY DEF TypeOK, Positions, Coordinates
    <3>. QED
      BY <2>1, <3>1 DEF RoutePoison, TypeOK
  <2>2. CASE Discard(p)
    BY <2>2 DEF Discard, TypeOK
  <2>3. CASE Aggregate(p)
    <3>1. Polled(p).userId \in Users
      BY <1>2, <2>3, PolledType DEF Aggregate, isPoisonPill, OrderEvent
    <3>. QED
      BY <1>2, <2>3, <3>1, PolledType DEF Aggregate, TypeOK, Counters
  <2>. QED
    BY <2>1, <2>2, <2>3 DEF Read
<1>. QED
  BY <1>1, <1>3, <1>4, <1>5 DEF Poll, TypeOK

(* An emission, with the windows it fires, keeps the types. *)
LEMMA TypeEmit == TypeOK /\ (\E r \in Readers : EmitWatermark(r)) => TypeOK'
<1>. SUFFICES ASSUME TypeOK, NEW r \in Readers, EmitWatermark(r) PROVE TypeOK'
  OBVIOUS
<1>1. emitted' \in [Readers -> Int]
  <2>1. PICK p \in Partitions : emitted' = [emitted EXCEPT ![r] = WatermarkOf(maxTs[p])]
    BY DEF EmitWatermark
  <2>2. maxTs[p] \in Times \cup {NoTimestamp}
    BY DEF TypeOK
  <2>3. maxTs[p] \in Int
    BY <2>2, TimestampType
  <2>. QED
    BY <2>1, <2>3, TimeAssumption DEF TypeOK, WatermarkOf
<1>2. windows' \in Counters /\ batch' \in Counters
  BY DEF EmitWatermark, FireWindows, TypeOK, Counters
<1>. QED
  BY <1>1, <1>2 DEF EmitWatermark, TypeOK

(* What the sinks and the checkpoints do keeps the types. *)
LEMMA TypeSinks ==
  /\ TypeOK
  /\ \/ FlushBatch \/ (\E c \in dlqBuf : SendToDlq(c))
     \/ TriggerCheckpoint \/ CompleteCheckpoint \/ AbortCheckpoint
  => TypeOK'
<1>. SUFFICES ASSUME TypeOK PROVE
       /\ FlushBatch => TypeOK'
       /\ (\E c \in dlqBuf : SendToDlq(c)) => TypeOK'
       /\ TriggerCheckpoint => TypeOK'
       /\ CompleteCheckpoint => TypeOK'
       /\ AbortCheckpoint => TypeOK'
  OBVIOUS
<1>1. Upserted \in Counters
  BY DEF Upserted, TypeOK, Counters
<1>2. FlushBatch => TypeOK'
  BY <1>1, CleanStateType DEF FlushBatch, TypeOK
<1>3. (\E c \in dlqBuf : SendToDlq(c)) => TypeOK'
  BY DEF SendToDlq, TypeOK
<1>4. TriggerCheckpoint => TypeOK'
  <2>1. Checkpoint(pos, windows) \in Checkpoints
    BY DEF Checkpoint, Checkpoints, TypeOK
  <2>. QED
    BY <1>1, <2>1, CleanStateType DEF TriggerCheckpoint, TypeOK
<1>5. CompleteCheckpoint => TypeOK'
  BY CleanStateType DEF CompleteCheckpoint, TypeOK
<1>6. AbortCheckpoint => TypeOK'
  BY CleanStateType DEF AbortCheckpoint, TypeOK
<1>. QED
  BY <1>2, <1>3, <1>4, <1>5, <1>6

(* Appends, failures and restarts keep the types. *)
LEMMA TypeEnvironment ==
  /\ TypeOK
  /\ \/ \E e \in Orders : Produce(e)
     \/ JobFails \/ LoseVolume \/ StartAtLatest \/ RestoreCheckpoint
  => TypeOK'
<1>. SUFFICES ASSUME TypeOK PROVE
       /\ (\E e \in Orders : Produce(e)) => TypeOK'
       /\ JobFails => TypeOK'
       /\ LoseVolume => TypeOK'
       /\ StartAtLatest => TypeOK'
       /\ RestoreCheckpoint => TypeOK'
  OBVIOUS
<1>1. (\E e \in Orders : Produce(e)) => TypeOK'
  <2>. SUFFICES ASSUME NEW e \in Orders, Produce(e) PROVE TypeOK'
    OBVIOUS
  <2>1. PartitionOf[e.userId] \in Partitions
    BY DataAssumption DEF OrderEvent
  <2>2. log' \in [Partitions -> Seq(Orders)]
    BY <2>1 DEF Produce, TypeOK
  <2>. QED
    BY <2>2 DEF Produce, TypeOK
<1>2. LoseVolatile => /\ status' \in {"new", "running", "down"}
                      /\ pos' \in Positions /\ windows' \in Counters
                      /\ maxTs' \in [Partitions -> Times \cup {NoTimestamp}]
                      /\ emitted' \in [Readers -> Int]
                      /\ batch' \in Counters /\ dlqBuf' \subseteq Coordinates
                      /\ pending' \in Checkpoints
  BY CleanStateType, TimeAssumption DEF LoseVolatile, NoTimestamp, MinWatermark, WatermarkOf
<1>3. JobFails => TypeOK'
  BY <1>2, BoundsAssumption DEF JobFails, LoseVolatile, TypeOK
<1>4. LoseVolume => TypeOK'
  BY <1>2, CleanStateType, BoundsAssumption DEF LoseVolume, LoseVolatile, TypeOK
<1>5. EndOfLog \in Positions
  BY DEF EndOfLog, Positions, TypeOK
<1>6. StartAtLatest => TypeOK'
  BY <1>5 DEF StartAtLatest, TypeOK
<1>7. RestoreCheckpoint => TypeOK'
  BY DEF RestoreCheckpoint, TypeOK, Checkpoints
<1>. QED
  BY <1>1, <1>3, <1>4, <1>6, <1>7

(* Every step keeps the types. *)
LEMMA TypeStep == TypeOK /\ [Next]_vars => TypeOK'
<1>. SUFFICES ASSUME TypeOK, [Next]_vars PROVE TypeOK'
  OBVIOUS
<1>1. CASE Next
  BY <1>1, TypeRead, TypeEmit, TypeSinks, TypeEnvironment DEF Next
<1>2. CASE UNCHANGED vars
  BY <1>2 DEF TypeOK
<1>. QED
  BY <1>1, <1>2

(* Every variable of the job keeps its type, in every behaviour. *)
THEOREM JobTypeCorrect == Spec => []TypeOK
BY TypeInit, TypeStep, PTL DEF Spec

-----------------------------------------------------------------------------
(* No accumulator behind the watermark.  A restart lowers the watermark below *)
(* every window, so the only thing to know besides is that a job that is not  *)
(* running has not emitted any.                                               *)
WindowInv ==
  /\ status # "running" => emitted = [r \in Readers |-> MinWatermark]
  /\ ClosedWindowsPurged

(* The watermark of a job that has just started closes no window. *)
LEMMA NothingClosedAtStart ==
  ASSUME NEW s \in WindowStarts, emitted = [r \in Readers |-> MinWatermark]
  PROVE  ~Closed(s, emitted)
<1>1. PICK t \in Times : s = WindowStart(t)
  BY DEF WindowStarts
<1>2. t \in Nat /\ t % WindowSize \in 0..(WindowSize - 1)
  BY TimestampType, TimeAssumption, DataAssumption
<1>3. MaxTimestamp(s) >= 0 /\ MaxTimestamp(s) \in Int
  BY <1>1, <1>2, TimeAssumption DEF WindowStart, MaxTimestamp
<1>4. MinWatermark < 0 /\ MinWatermark \in Int
  BY TimeAssumption DEF MinWatermark, WatermarkOf, NoTimestamp
<1>5. PICK r \in Readers : TRUE
  BY ReadersAssumption
<1>6. ~(MaxTimestamp(s) <= emitted[r])
  BY <1>3, <1>4
<1>. QED
  BY <1>6 DEF Closed

(* No window is open initially. *)
LEMMA WindowInit == Init => WindowInv
BY DEF Init, WindowInv, ClosedWindowsPurged

(* Every step keeps the windows behind the watermark empty. *)
LEMMA WindowStep == TypeOK /\ WindowInv /\ [Next]_vars => WindowInv'
<1>. SUFFICES ASSUME TypeOK, WindowInv, [Next]_vars PROVE WindowInv'
  OBVIOUS
<1>1. CASE \E p \in Partitions : Read(p)
  <2>. PICK p \in Partitions : Read(p)
    BY <1>1
  <2>1. Poll(p)
    BY DEF Read, RoutePoison, Discard, Aggregate
  <2>2. CASE Aggregate(p)
    <3>1. pos[p] < Len(log[p])
      BY <2>1 DEF Poll
    <3>2. Polled(p).userId \in Users
      BY <2>2, <3>1, PolledType DEF Aggregate, isPoisonPill, OrderEvent
    <3>3. \A u \in Users, s \in WindowStarts :
            windows'[u][s] = windows[u][s] \/ s = WindowStart(Polled(p).timestamp)
      BY <2>2, <3>1, <3>2, PolledType DEF Aggregate, TypeOK, Counters
    <3>4. ~Closed(WindowStart(Polled(p).timestamp), emitted)
      BY <2>2 DEF Aggregate, Late
    <3>. QED
      BY <2>1, <3>3, <3>4 DEF Poll, WindowInv, ClosedWindowsPurged, Closed
  <2>3. CASE RoutePoison(p) \/ Discard(p)
    BY <2>1, <2>3 DEF RoutePoison, Discard, Poll, WindowInv, ClosedWindowsPurged, Closed
  <2>. QED
    BY <2>2, <2>3 DEF Read
<1>2. CASE \E r \in Readers : EmitWatermark(r)
  <2>1. status = "running" /\ FireWindows(emitted') /\ status' = status
    BY <1>2 DEF EmitWatermark
  <2>2. \A u \in Users, s \in WindowStarts : Closed(s, emitted') => windows'[u][s] = 0
    BY <2>1 DEF FireWindows
  <2>. QED
    BY <2>1, <2>2 DEF WindowInv, ClosedWindowsPurged, Closed
<1>3. CASE JobFails \/ LoseVolume
  BY <1>3 DEF JobFails, LoseVolume, LoseVolatile, WindowInv, ClosedWindowsPurged
<1>4. CASE StartAtLatest \/ RestoreCheckpoint
  <2>1. emitted' = [r \in Readers |-> MinWatermark] /\ emitted' = emitted
    BY <1>4 DEF StartAtLatest, RestoreCheckpoint, WindowInv
  <2>2. \A s \in WindowStarts : ~Closed(s, emitted)
    BY <2>1, NothingClosedAtStart
  <2>. QED
    BY <2>1, <2>2, <1>4
       DEF StartAtLatest, RestoreCheckpoint, WindowInv, ClosedWindowsPurged, Closed
<1>5. CASE \/ \E e \in Orders : Produce(e)
           \/ FlushBatch \/ (\E c \in dlqBuf : SendToDlq(c))
           \/ TriggerCheckpoint \/ CompleteCheckpoint \/ AbortCheckpoint
           \/ UNCHANGED vars
  <2>1. UNCHANGED <<status, emitted, windows>>
    BY <1>5 DEF Produce, FlushBatch, SendToDlq, TriggerCheckpoint, CompleteCheckpoint,
                AbortCheckpoint
  <2>. QED
    BY <2>1 DEF WindowInv, ClosedWindowsPurged, Closed
<1>. QED
  BY <1>1, <1>2, <1>3, <1>4, <1>5 DEF Next

(* A window the watermark has closed keeps no accumulator, so none waits for  *)
(* a timer that has already fired (the lateness test of the window operator   *)
(* and its timers agree on the boundary).                                     *)
THEOREM JobPurgesClosedWindows == Spec => []ClosedWindowsPurged
<1>1. WindowInv => ClosedWindowsPurged
  BY DEF WindowInv
<1>. QED
  BY <1>1, TypeInit, TypeStep, WindowInit, WindowStep, PTL DEF Spec

-----------------------------------------------------------------------------
(* No poison order is lost behind a checkpoint.  What each position covers is *)
(* on the topic, or for the job's own position also in the sink's buffer,     *)
(* which the barrier flushes before the position can become durable.          *)
PoisonIn(n, S) ==
  \A p \in Partitions : \A i \in 1..n[p] :
    start[p] < i /\ isPoisonPill(log[p][i]) => <<p, i>> \in S

Within(n) == \A p \in Partitions : n[p] <= Len(log[p])

PoisonInv ==
  /\ Within(pos) /\ Within(pending.pos) /\ Within(chk.pos)
  /\ status = "running" => PoisonIn(pos, dlq \cup dlqBuf)
  /\ pending.taken => status = "running" /\ PoisonIn(pending.pos, dlq)
  /\ chk.taken => status # "new" /\ PoisonIn(chk.pos, dlq)

(* No position covers a poison order initially. *)
LEMMA PoisonInit == Init => PoisonInv
BY DEF Init, PoisonInv, Within, PoisonIn, NoPos, NoCheckpoint

(* A record that is on the log stays what it is when others are appended.     *)
LEMMA LogAppends ==
  ASSUME TypeOK, NEW e \in Orders, Produce(e)
  PROVE  \A p \in Partitions :
           /\ Len(log'[p]) \in Nat /\ Len(log[p]) <= Len(log'[p])
           /\ \A i \in 1..Len(log[p]) : log'[p][i] = log[p][i]
<1>1. PartitionOf[e.userId] \in Partitions
  BY DataAssumption DEF OrderEvent
<1>. QED
  BY <1>1 DEF Produce, TypeOK

(* Every step keeps the covered poison orders in the sink. *)
LEMMA PoisonStep == TypeOK /\ PoisonInv /\ [Next]_vars => PoisonInv'
<1>. SUFFICES ASSUME TypeOK, PoisonInv, [Next]_vars PROVE PoisonInv'
  OBVIOUS
<1>0. /\ pos \in Positions /\ pending.pos \in Positions /\ chk.pos \in Positions
      /\ start \in Positions
  BY DEF TypeOK, Checkpoints
<1>1. CASE \E e \in Orders : Produce(e)
  <2>. PICK e \in Orders : Produce(e)
    BY <1>1
  <2>1. UNCHANGED <<status, start, pos, pending, chk, dlq, dlqBuf>>
    BY DEF Produce
  <2>2. \A n \in Positions : Within(n) => Within(n)'
    BY LogAppends DEF Within, TypeOK, Positions
  <2>3. ASSUME NEW n \in Positions, NEW S, Within(n), PoisonIn(n, S)
        PROVE  \A p \in Partitions : \A i \in 1..n[p] :
                 start'[p] < i /\ isPoisonPill(log'[p][i]) => <<p, i>> \in S
    <3>. SUFFICES ASSUME NEW p \in Partitions, NEW i \in 1..n[p],
                         start'[p] < i, isPoisonPill(log'[p][i])
                  PROVE  <<p, i>> \in S
      OBVIOUS
    <3>1. i \in 1..Len(log[p])
      BY <2>3 DEF Within, Positions, TypeOK
    <3>2. log'[p][i] = log[p][i]
      BY <3>1, LogAppends
    <3>. QED
      BY <2>1, <2>3, <3>2 DEF PoisonIn
  <2>4. Within(pos)' /\ Within(pending.pos)' /\ Within(chk.pos)'
    BY <1>0, <2>1, <2>2 DEF PoisonInv, Within
  <2>5. status = "running" => PoisonIn(pos, dlq \cup dlqBuf)'
    BY <1>0, <2>1, <2>3 DEF PoisonInv, PoisonIn
  <2>6. pending.taken => PoisonIn(pending.pos, dlq)'
    BY <1>0, <2>1, <2>3 DEF PoisonInv, PoisonIn
  <2>7. chk.taken => PoisonIn(chk.pos, dlq)'
    BY <1>0, <2>1, <2>3 DEF PoisonInv, PoisonIn
  <2>. QED
    BY <2>1, <2>4, <2>5, <2>6, <2>7 DEF PoisonInv
<1>2. CASE \E p \in Partitions : Read(p)
  <2>. PICK p \in Partitions : Read(p)
    BY <1>2
  <2>1. Poll(p)
    BY DEF Read, RoutePoison, Discard, Aggregate
  <2>2. /\ pos' = [pos EXCEPT ![p] = @ + 1] /\ pos[p] < Len(log[p])
        /\ UNCHANGED <<log, status, start, dlq, pending, chk>>
        /\ status = "running"
    BY <2>1 DEF Poll
  <2>3. dlqBuf \subseteq dlqBuf'
    BY DEF Read, RoutePoison, Discard, Aggregate
  <2>4. isPoisonPill(log[p][pos[p] + 1]) => <<p, pos[p] + 1>> \in dlqBuf'
    BY DEF Read, RoutePoison, Discard, Aggregate, Polled
  <2>5. Within(pos')
    BY <1>0, <2>2 DEF PoisonInv, Within, Positions, TypeOK
  <2>6. PoisonIn(pos', dlq \cup dlqBuf')
    <3>. SUFFICES ASSUME NEW q \in Partitions, NEW i \in 1..pos'[q],
                         start[q] < i, isPoisonPill(log[q][i])
                  PROVE  <<q, i>> \in dlq \cup dlqBuf'
      BY DEF PoisonIn
    <3>1. CASE i \in 1..pos[q]
      BY <2>2, <2>3, <3>1 DEF PoisonInv, PoisonIn
    <3>2. CASE i \notin 1..pos[q]
      <4>1. q = p /\ i = pos[p] + 1
        BY <1>0, <2>2, <3>2 DEF Positions
      <4>. QED
        BY <2>4, <4>1
    <3>. QED
      BY <3>1, <3>2
  <2>. QED
    BY <2>2, <2>5, <2>6 DEF PoisonInv, Within, PoisonIn
<1>3. CASE TriggerCheckpoint
  <2>1. /\ pending'.pos = pos /\ dlq' = dlq \cup dlqBuf /\ status = "running"
        /\ UNCHANGED <<log, status, start, pos, chk>>
    BY <1>3 DEF TriggerCheckpoint, Checkpoint
  <2>. QED
    BY <2>1 DEF PoisonInv, Within, PoisonIn
<1>4. CASE CompleteCheckpoint
  <2>1. /\ chk' = pending /\ pending' = NoCheckpoint /\ pending.taken
        /\ UNCHANGED <<log, status, start, pos, dlq, dlqBuf>>
    BY <1>4 DEF CompleteCheckpoint
  <2>. QED
    BY <1>0, <2>1 DEF PoisonInv, Within, PoisonIn, NoCheckpoint, NoPos, TypeOK
<1>5. CASE AbortCheckpoint
  BY <1>5 DEF AbortCheckpoint, PoisonInv, Within, PoisonIn, NoCheckpoint, NoPos, TypeOK
<1>6. CASE JobFails \/ LoseVolume
  BY <1>6 DEF JobFails, LoseVolume, LoseVolatile, PoisonInv, Within, PoisonIn,
              NoCheckpoint, NoPos, TypeOK
<1>7. CASE StartAtLatest
  <2>1. /\ start' = EndOfLog /\ pos' = EndOfLog
        /\ UNCHANGED <<log, pending, chk, dlq, dlqBuf>>
        /\ ~pending.taken /\ ~chk.taken
    BY <1>7 DEF StartAtLatest, PoisonInv
  <2>2. Within(pos')
    BY <2>1 DEF EndOfLog, Within, TypeOK
  <2>3. \A p \in Partitions : \A i \in 1..pos'[p] : ~(start'[p] < i)
    BY <2>1 DEF EndOfLog, TypeOK
  <2>4. PoisonIn(pos, dlq \cup dlqBuf)'
    BY <2>3 DEF PoisonIn
  <2>5. Within(pos)' /\ Within(pending.pos)' /\ Within(chk.pos)'
    BY <2>1, <2>2 DEF PoisonInv, Within
  <2>. QED
    BY <2>1, <2>4, <2>5 DEF PoisonInv
<1>8. CASE RestoreCheckpoint
  <2>1. /\ pos' = chk.pos /\ chk.taken
        /\ UNCHANGED <<log, start, pending, chk, dlq, dlqBuf>>
    BY <1>8 DEF RestoreCheckpoint
  <2>2. ~pending.taken /\ status' = "running"
    BY <1>8 DEF RestoreCheckpoint, PoisonInv
  <2>. QED
    BY <2>1, <2>2 DEF PoisonInv, Within, PoisonIn
<1>9. CASE \E c \in dlqBuf : SendToDlq(c)
  <2>1. /\ dlq \subseteq dlq' /\ dlq \cup dlqBuf \subseteq dlq' \cup dlqBuf'
        /\ UNCHANGED <<log, status, start, pos, pending, chk>>
    BY <1>9 DEF SendToDlq
  <2>. QED
    BY <2>1 DEF PoisonInv, Within, PoisonIn
<1>10. CASE (\E r \in Readers : EmitWatermark(r)) \/ FlushBatch \/ UNCHANGED vars
  <2>1. UNCHANGED <<log, status, start, pos, pending, chk, dlq, dlqBuf>>
    BY <1>10 DEF EmitWatermark, FlushBatch
  <2>. QED
    BY <2>1 DEF PoisonInv, Within, PoisonIn
<1>. QED
  BY <1>1, <1>2, <1>3, <1>4, <1>5, <1>6, <1>7, <1>8, <1>9, <1>10 DEF Next

(* Every poison order behind a completed checkpoint is on order-events-dlq,   *)
(* so no failure from which the job restores can lose one: the at-least-once  *)
(* delivery of the dead-letter sink.                                          *)
THEOREM JobDeliversPoison == Spec => []CheckpointedPoisonInDlq
<1>1. TypeOK /\ PoisonInv => CheckpointedPoisonInDlq
  <2>. SUFFICES ASSUME TypeOK, PoisonInv, chk.taken, NEW c \in Lineage(chk.pos),
                       isPoisonPill(OrderAt(c))
                PROVE  c \in dlq
    BY DEF CheckpointedPoisonInDlq
  <2>1. PICK p \in Partitions : c \in {p} \X (1..chk.pos[p])
    BY DEF Lineage, Upto
  <2>2. c = <<p, c[2]>> /\ c[2] \in 1..chk.pos[p] /\ start[p] < c[2]
    BY <2>1 DEF Lineage, TypeOK, Positions, Checkpoints
  <2>3. isPoisonPill(log[p][c[2]])
    BY <2>2 DEF OrderAt
  <2>. QED
    BY <2>2, <2>3 DEF PoisonInv, PoisonIn
<1>. QED
  BY <1>1, TypeInit, TypeStep, PoisonInit, PoisonStep, PTL DEF Spec

-----------------------------------------------------------------------------
(* No row overstates.  Every counter, wherever it is on its way from the      *)
(* window to the table, is bounded by the orders that the position belonging  *)
(* to it covers, and Kafka never takes an order back.                         *)
CountedOn(l, u, s, n) == {c \in Upto(n) : CountsFor(l[c[1]][c[2]], u, s)}

BoundedBy(w, l, n) ==
  \A u \in Users, s \in WindowStarts : w[u][s] <= Cardinality(CountedOn(l, u, s, n))

Lengths(l) == [p \in Partitions |-> Len(l[p])]

CountInv ==
  /\ BoundedBy(windows, log, pos)
  /\ BoundedBy(pending.windows, log, pending.pos)
  /\ BoundedBy(chk.windows, log, chk.pos)
  /\ BoundedBy(batch, log, Lengths(log))
  /\ BoundedBy(stats, log, Lengths(log))

(* The coordinates up to a position. *)
LEMMA UptoMember ==
  ASSUME NEW n \in Positions, NEW c
  PROVE  c \in Upto(n) <=> \E p \in Partitions : \E i \in 1..n[p] : c = <<p, i>>
BY DEF Upto

(* There are finitely many of them. *)
LEMMA UptoFinite == ASSUME NEW n \in Positions PROVE IsFiniteSet(Upto(n))
<1>. DEFINE T == {{p} \X (1..n[p]) : p \in Partitions}
            f == [p \in Partitions |-> {p} \X (1..n[p])]
<1>1. f \in Surjection(Partitions, T)
  BY DEF Surjection
<1>2. IsFiniteSet(T)
  BY <1>1, PartitionsAssumption, FS_Surjection
<1>3. \A t \in T : IsFiniteSet(t)
  <2>. SUFFICES ASSUME NEW p \in Partitions PROVE IsFiniteSet({p} \X (1..n[p]))
    OBVIOUS
  <2>1. IsFiniteSet({p})
    BY FS_Singleton
  <2>2. n[p] \in Int
    BY DEF Positions
  <2>3. IsFiniteSet(1..n[p])
    BY <2>2, FS_Interval
  <2>. QED
    BY <2>1, <2>3, FS_Product
<1>. QED
  BY <1>2, <1>3, FS_UNION DEF Upto

(* The orders a window has to count are finitely many, and more are counted   *)
(* when a position moves on or an order is appended behind it.                *)
LEMMA CountedFinite ==
  ASSUME NEW l, NEW u, NEW s, NEW n \in Positions
  PROVE  /\ IsFiniteSet(CountedOn(l, u, s, n))
         /\ Cardinality(CountedOn(l, u, s, n)) \in Nat
<1>1. CountedOn(l, u, s, n) \in SUBSET Upto(n)
  BY DEF CountedOn
<1>2. IsFiniteSet(CountedOn(l, u, s, n))
  BY <1>1, UptoFinite, FS_Subset
<1>. QED
  BY <1>2, FS_CardinalityType

(* More is counted when a position moves on or an order is appended. *)
LEMMA CountedGrows ==
  ASSUME NEW l, NEW k, NEW u, NEW s, NEW m \in Positions, NEW n \in Positions,
         \A p \in Partitions : m[p] <= n[p],
         \A p \in Partitions : \A i \in 1..m[p] : k[p][i] = l[p][i]
  PROVE  /\ CountedOn(l, u, s, m) \subseteq CountedOn(k, u, s, n)
         /\ Cardinality(CountedOn(l, u, s, m)) <= Cardinality(CountedOn(k, u, s, n))
<1>1. ASSUME NEW c \in CountedOn(l, u, s, m) PROVE c \in CountedOn(k, u, s, n)
  <2>1. c \in Upto(m) /\ CountsFor(l[c[1]][c[2]], u, s)
    BY DEF CountedOn
  <2>2. PICK p \in Partitions : \E i \in 1..m[p] : c = <<p, i>>
    BY <2>1, UptoMember
  <2>3. PICK i \in 1..m[p] : c = <<p, i>>
    BY <2>2
  <2>4. i \in 1..n[p]
    BY <2>3 DEF Positions
  <2>5. c \in Upto(n)
    BY <2>3, <2>4, UptoMember
  <2>6. k[c[1]][c[2]] = l[c[1]][c[2]]
    BY <2>3
  <2>. QED
    BY <2>1, <2>5, <2>6 DEF CountedOn
<1>2. CountedOn(l, u, s, m) \in SUBSET CountedOn(k, u, s, n)
  BY <1>1
<1>. QED
  BY <1>2, CountedFinite, FS_Subset

(* A bound survives what makes the counted orders more. *)
LEMMA BoundGrows ==
  ASSUME NEW l, NEW k, NEW w \in Counters, NEW m \in Positions, NEW n \in Positions,
         \A p \in Partitions : m[p] <= n[p],
         \A p \in Partitions : \A i \in 1..m[p] : k[p][i] = l[p][i],
         BoundedBy(w, l, m)
  PROVE  BoundedBy(w, k, n)
<1>. SUFFICES ASSUME NEW u \in Users, NEW s \in WindowStarts
              PROVE  w[u][s] <= Cardinality(CountedOn(k, u, s, n))
  BY DEF BoundedBy
<1>1. w[u][s] <= Cardinality(CountedOn(l, u, s, m)) /\ w[u][s] \in Nat
  BY DEF BoundedBy, Counters
<1>2. Cardinality(CountedOn(l, u, s, m)) <= Cardinality(CountedOn(k, u, s, n))
  BY CountedGrows
<1>3. /\ Cardinality(CountedOn(l, u, s, m)) \in Nat
      /\ Cardinality(CountedOn(k, u, s, n)) \in Nat
  BY CountedFinite
<1>. QED
  BY <1>1, <1>2, <1>3

(* Empty counters are bounded by anything. *)
LEMMA NothingBounded ==
  ASSUME NEW l, NEW n \in Positions PROVE BoundedBy(NoWindows, l, n)
<1>1. \A u \in Users, s \in WindowStarts : NoWindows[u][s] = 0
  BY DEF NoWindows
<1>. QED
  BY <1>1, CountedFinite DEF BoundedBy

(* The positions and the counters of the invariant have their types. *)
LEMMA LengthsType ==
  TypeOK => /\ pos \in Positions /\ pending.pos \in Positions /\ chk.pos \in Positions
            /\ pending.windows \in Counters /\ chk.windows \in Counters
            /\ windows \in Counters /\ batch \in Counters /\ stats \in Counters
            /\ Lengths(log) \in Positions
BY DEF TypeOK, Checkpoints, Lengths, Positions

(* Every counter is 0 initially. *)
LEMMA CountInit == Init => CountInv
<1>. SUFFICES ASSUME Init PROVE CountInv
  OBVIOUS
<1>1. TypeOK
  BY TypeInit
<1>. QED
  BY <1>1, LengthsType, NothingBounded DEF Init, CountInv, NoCheckpoint

(* Rows in the buffer or in the table bound each other's upsert. *)
LEMMA UpsertBounded ==
  ASSUME TypeOK, CountInv PROVE BoundedBy(Upserted, log, Lengths(log))
BY DEF CountInv, BoundedBy, Upserted

(* Every step keeps every counter bounded. *)
LEMMA CountStep == TypeOK /\ PoisonInv /\ CountInv /\ [Next]_vars => CountInv'
<1>. SUFFICES ASSUME TypeOK, PoisonInv, CountInv, [Next]_vars PROVE CountInv'
  OBVIOUS
<1>0. /\ TypeOK'
      /\ \A p \in Partitions : Lengths(log)[p] = Len(log[p])
      /\ \A p \in Partitions : /\ pos[p] <= Lengths(log)[p]
                               /\ pending.pos[p] <= Lengths(log)[p]
                               /\ chk.pos[p] <= Lengths(log)[p]
  BY TypeStep DEF PoisonInv, Within, Lengths
<1>1. CASE \E e \in Orders : Produce(e)
  <2>. PICK e \in Orders : Produce(e)
    BY <1>1
  <2>1. UNCHANGED <<pos, pending, chk, windows, batch, stats>>
    BY DEF Produce
  <2>2. \A p \in Partitions :
          /\ Lengths(log)[p] <= Lengths(log')[p]
          /\ \A i \in 1..Len(log[p]) : log'[p][i] = log[p][i]
    BY LogAppends DEF Lengths
  <2>3. Lengths(log') \in Positions
    BY LogAppends DEF Lengths, Positions
  <2>4. ASSUME NEW n \in Positions, NEW w \in Counters,
               \A p \in Partitions : n[p] <= Lengths(log)[p], BoundedBy(w, log, n)
        PROVE  BoundedBy(w, log', n)
    <3>1. \A p \in Partitions : n[p] \in Nat /\ Len(log[p]) \in Nat
      BY DEF Positions, TypeOK
    <3>2. \A p \in Partitions : \A i \in 1..n[p] : log'[p][i] = log[p][i]
      BY <1>0, <2>2, <2>4, <3>1
    <3>3. \A p \in Partitions : n[p] <= n[p]
      BY <3>1
    <3>. QED
      BY <2>4, <3>2, <3>3, BoundGrows
  <2>5. ASSUME NEW w \in Counters, BoundedBy(w, log, Lengths(log))
        PROVE  BoundedBy(w, log', Lengths(log'))
    <3>1. \A p \in Partitions : \A i \in 1..Lengths(log)[p] : log'[p][i] = log[p][i]
      BY <1>0, <2>2
    <3>2. Lengths(log) \in Positions
      BY LengthsType
    <3>3. \A p \in Partitions : Lengths(log)[p] <= Lengths(log')[p]
      BY <2>2
    <3>. QED
      BY <2>3, <2>5, <3>1, <3>2, <3>3, BoundGrows
  <2>. QED
    BY <1>0, <2>1, <2>4, <2>5, LengthsType DEF CountInv
<1>2. CASE \E p \in Partitions : Read(p)
  <2>. PICK p \in Partitions : Read(p)
    BY <1>2
  <2>1. Poll(p)
    BY DEF Read, RoutePoison, Discard, Aggregate
  <2>2. /\ pos' = [pos EXCEPT ![p] = @ + 1] /\ pos[p] < Len(log[p])
        /\ UNCHANGED <<log, pending, chk, batch, stats>>
    BY <2>1 DEF Poll
  <2>3. /\ pos' \in Positions /\ \A q \in Partitions : pos[q] <= pos'[q]
        /\ pos'[p] = pos[p] + 1 /\ pos[p] \in Nat
    BY <2>2, LengthsType DEF Positions
  <2>4. BoundedBy(windows, log, pos')
    BY <2>3, LengthsType, BoundGrows DEF CountInv
  <2>5. CASE Aggregate(p)
    <3>. DEFINE o == Polled(p)
                v == o.userId
                t == WindowStart(o.timestamp)
                c == <<p, pos[p] + 1>>
    <3>1. windows' = [windows EXCEPT ![v][t] = @ + 1] /\ v \in Users /\ t \in WindowStarts
      BY <2>2, <2>5, PolledType DEF Aggregate, isPoisonPill, OrderEvent
    <3>2. \A u \in Users, s \in WindowStarts :
            windows'[u][s] = IF u = v /\ s = t THEN windows[u][s] + 1 ELSE windows[u][s]
      BY <3>1, LengthsType DEF Counters
    <3>3. windows'[v][t] <= Cardinality(CountedOn(log, v, t, pos'))
      <4>. DEFINE S == CountedOn(log, v, t, pos)
      <4>1. log[p][pos[p] + 1] = o
        BY DEF Polled
      <4>2. CountsFor(o, v, t)
        BY <2>5 DEF Aggregate, CountsFor
      <4>3. c \in Upto(pos')
        <5>1. pos[p] + 1 \in 1..pos'[p]
          BY <2>3
        <5>. QED
          BY <2>3, <5>1, UptoMember
      <4>4. c \in CountedOn(log, v, t, pos')
        BY <4>1, <4>2, <4>3 DEF CountedOn
      <4>5. c \notin S
        <5>1. c \notin Upto(pos)
          <6>. SUFFICES ASSUME c \in Upto(pos) PROVE FALSE
            OBVIOUS
          <6>1. PICK q \in Partitions : \E i \in 1..pos[q] : c = <<q, i>>
            BY LengthsType, UptoMember
          <6>2. pos[p] + 1 \in 1..pos[p]
            BY <6>1
          <6>. QED
            BY <2>3, <6>2
        <5>. QED
          BY <5>1 DEF CountedOn
      <4>6. S \subseteq CountedOn(log, v, t, pos')
        BY <2>3, LengthsType, CountedGrows
      <4>7. S \cup {c} \in SUBSET CountedOn(log, v, t, pos')
        BY <4>4, <4>6
      <4>8. Cardinality(S \cup {c}) <= Cardinality(CountedOn(log, v, t, pos'))
        BY <2>3, <4>7, CountedFinite, FS_Subset
      <4>9. IsFiniteSet(S) /\ Cardinality(S) \in Nat
        BY LengthsType, CountedFinite
      <4>10. Cardinality(S \cup {c}) = Cardinality(S) + 1
        BY <4>5, <4>9, FS_AddElement
      <4>11. windows[v][t] <= Cardinality(S) /\ windows[v][t] \in Nat
        BY <3>1, LengthsType DEF CountInv, BoundedBy, Counters
      <4>12. Cardinality(CountedOn(log, v, t, pos')) \in Nat
        BY <2>3, CountedFinite
      <4>. HIDE DEF S, c, v, t
      <4>13. windows'[v][t] = windows[v][t] + 1
        BY <3>1, <3>2
      <4>. QED
        BY <4>8, <4>9, <4>10, <4>11, <4>12, <4>13
    <3>. HIDE DEF v, t
    <3>4. BoundedBy(windows', log, pos')
      BY <2>4, <3>2, <3>3 DEF BoundedBy
    <3>. QED
      BY <2>2, <3>4 DEF CountInv
  <2>6. CASE RoutePoison(p) \/ Discard(p)
    BY <2>2, <2>4, <2>6 DEF RoutePoison, Discard, CountInv
  <2>. QED
    BY <2>5, <2>6 DEF Read
<1>3. BoundedBy(windows, log, Lengths(log))
  BY <1>0, LengthsType, BoundGrows DEF CountInv
<1>4. CASE \E r \in Readers : EmitWatermark(r)
  <2>1. /\ UNCHANGED <<log, pos, pending, chk, stats>>
        /\ FireWindows(emitted')
    BY <1>4 DEF EmitWatermark
  <2>2. \A u \in Users, s \in WindowStarts :
          /\ windows'[u][s] \in {0, windows[u][s]}
          /\ batch'[u][s] \in {batch[u][s], windows[u][s]}
    BY <2>1 DEF FireWindows
  <2>3. BoundedBy(windows', log, pos)
    BY <2>2, LengthsType, CountedFinite DEF CountInv, BoundedBy
  <2>4. BoundedBy(batch', log, Lengths(log))
    BY <1>3, <2>2 DEF CountInv, BoundedBy
  <2>. QED
    BY <2>1, <2>3, <2>4 DEF CountInv
<1>5. CASE FlushBatch
  BY <1>5, UpsertBounded, NothingBounded, LengthsType DEF FlushBatch, CountInv
<1>6. CASE TriggerCheckpoint
  BY <1>6, UpsertBounded, NothingBounded, LengthsType
     DEF TriggerCheckpoint, Checkpoint, CountInv
<1>7. CASE CompleteCheckpoint \/ AbortCheckpoint
  <2>1. BoundedBy(NoCheckpoint.windows, log, NoCheckpoint.pos)
    BY NothingBounded, CleanStateType DEF NoCheckpoint
  <2>. QED
    BY <1>7, <2>1 DEF CompleteCheckpoint, AbortCheckpoint, CountInv
<1>8. CASE JobFails \/ LoseVolume
  <2>1. /\ BoundedBy(NoCheckpoint.windows, log, NoCheckpoint.pos)
        /\ BoundedBy(NoWindows, log, NoPos)
        /\ BoundedBy(NoWindows, log, Lengths(log))
    BY NothingBounded, CleanStateType, LengthsType DEF NoCheckpoint
  <2>. QED
    BY <1>8, <2>1 DEF JobFails, LoseVolume, LoseVolatile, CountInv
<1>9. CASE StartAtLatest
  <2>1. pos' = Lengths(log) /\ UNCHANGED <<log, windows, batch, stats, pending, chk>>
    BY <1>9 DEF StartAtLatest, EndOfLog, Lengths
  <2>. QED
    BY <1>3, <2>1 DEF CountInv
<1>10. CASE RestoreCheckpoint
  BY <1>10 DEF RestoreCheckpoint, CountInv
<1>11. CASE (\E c \in dlqBuf : SendToDlq(c)) \/ UNCHANGED vars
  BY <1>11 DEF SendToDlq, CountInv
<1>. QED
  BY <1>1, <1>2, <1>4, <1>5, <1>6, <1>7, <1>8, <1>9, <1>10, <1>11 DEF Next

(* No row of user_order_stats counts more orders than the topic holds for its *)
(* user and window, whatever is replayed, restarted or written again: the     *)
(* upsert replaces, and windows and positions are restored together.          *)
THEOREM JobNeverOverstates == Spec => []RowNeverOverstates
<1>1. CountInv => RowNeverOverstates
  BY DEF CountInv, BoundedBy, RowNeverOverstates, CountedOn, Counted, OrderAt,
         Lengths, EndOfLog
<1>. QED
  BY <1>1, TypeInit, TypeStep, PoisonInit, PoisonStep, CountInit, CountStep, PTL DEF Spec
=============================================================================
