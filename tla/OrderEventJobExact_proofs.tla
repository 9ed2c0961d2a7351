--------------------- MODULE OrderEventJobExact_proofs ---------------------
(***************************************************************************)
(* What the table says is exact: while the orders of a window are on time  *)
(* and no restart has lost the state, its row holds each of those orders   *)
(* once, and no on-time order is lost between the source and the table:    *)
(* the job implements OrderView.  For any number of partitions, subtasks,  *)
(* users, orders and failures, and any window size and tolerance.          *)
(***************************************************************************)
EXTENDS OrderEventJob_proofs

USE DEF vars, sourceVars, sinkVars, chkVars, envVars

(* Each partition of l has, up to n, an order whose watermark closes s. *)
Passed(l, n, s) ==
  \A p \in Partitions : \E j \in 1..n[p] :
    MaxTimestamp(s) <= WatermarkOf(l[p][j].timestamp)

(* The watermark generators m and the watermarks em follow the orders read. *)
Follows(l, n, m, em) ==
  \A p \in Partitions :
    /\ m[p] = NoTimestamp \/ \E j \in 1..n[p] : m[p] = l[p][j].timestamp
    /\ em[ReaderOf[p]] <= WatermarkOf(m[p])

SourceInv ==
  /\ status # "running" => pos = NoPos /\ windows = NoWindows /\ batch = NoWindows
  /\ Follows(log, pos, maxTs, emitted)

-----------------------------------------------------------------------------
(* Where a window ends, and what is in it. *)
LEMMA WindowEnd ==
  /\ \A s \in WindowStarts : MaxTimestamp(s) \in Nat
  /\ \A t \in Times : t \in Nat /\ t <= MaxTimestamp(WindowStart(t))
<1>1. ASSUME NEW t \in Times
      PROVE  /\ t \in Nat /\ t <= MaxTimestamp(WindowStart(t))
             /\ MaxTimestamp(WindowStart(t)) \in Nat
  <2>1. t \in Nat /\ WindowSize \in Nat \ {0}
    BY DataAssumption, TimeAssumption
  <2>2. t % WindowSize \in 0..(WindowSize - 1)
    BY <2>1
  <2>. QED
    BY <2>1, <2>2 DEF WindowStart, MaxTimestamp
<1>. QED
  BY <1>1 DEF WindowStarts

(* Every record of the log is an order with a timestamp. *)
LEMMA OrderType ==
  ASSUME TypeOK, NEW p \in Partitions, NEW i \in 1..Len(log[p])
  PROVE  log[p][i] \in Orders /\ log[p][i].timestamp \in Times
<1>1. log[p][i] \in Orders
  BY DEF TypeOK
<1>. QED
  BY <1>1, DataAssumption DEF OrderEvent

(* A window the watermark has closed was passed by every partition. *)
LEMMA ClosedIsPassed ==
  ASSUME NEW l, NEW n, NEW m \in [Partitions -> Times \cup {NoTimestamp}],
         NEW em \in [Readers -> Int], Follows(l, n, m, em),
         NEW s \in WindowStarts, Closed(s, em)
  PROVE  Passed(l, n, s)
<1> SUFFICES ASSUME NEW p \in Partitions
             PROVE  \E j \in 1..n[p] : MaxTimestamp(s) <= WatermarkOf(l[p][j].timestamp)
  BY DEF Passed
<1>1. MaxTimestamp(s) \in Nat /\ OutOfOrderness \in Nat
  BY WindowEnd, TimeAssumption
<1>2. ReaderOf[p] \in Readers /\ em[ReaderOf[p]] \in Int
  BY ReadersAssumption
<1>3. MaxTimestamp(s) <= em[ReaderOf[p]]
  BY <1>2 DEF Closed
<1>4. m[p] \in Int /\ em[ReaderOf[p]] <= WatermarkOf(m[p])
  BY TimestampType DEF Follows
<1>5. MaxTimestamp(s) <= WatermarkOf(m[p])
  BY <1>1, <1>2, <1>3, <1>4 DEF WatermarkOf
<1>6. m[p] # NoTimestamp
  BY <1>1, <1>5 DEF WatermarkOf, NoTimestamp
<1>. QED
  BY <1>5, <1>6 DEF Follows

(* An order of a window that an earlier order of its partition has passed is  *)
(* not on time.                                                               *)
LEMMA PassedIsLate ==
  ASSUME NEW t \in Times, NEW v \in Times,
         MaxTimestamp(WindowStart(t)) <= WatermarkOf(v)
  PROVE  ~(v - OutOfOrderness <= t)
<1>1. t \in Nat /\ v \in Nat /\ OutOfOrderness \in Nat
  BY WindowEnd, TimeAssumption
<1>2. t <= MaxTimestamp(WindowStart(t)) /\ MaxTimestamp(WindowStart(t)) \in Nat
  BY WindowEnd DEF WindowStarts
<1>. QED
  BY <1>1, <1>2 DEF WatermarkOf

(* Passing is for good. *)
LEMMA PassedGrows ==
  ASSUME NEW l, NEW k, NEW m \in Positions, NEW n \in Positions, NEW s,
         \A p \in Partitions : m[p] <= n[p] /\ \A i \in 1..m[p] : k[p][i] = l[p][i],
         Passed(l, m, s)
  PROVE  Passed(k, n, s)
<1> SUFFICES ASSUME NEW p \in Partitions
             PROVE  \E j \in 1..n[p] : MaxTimestamp(s) <= WatermarkOf(k[p][j].timestamp)
  BY DEF Passed
<1>1. PICK j \in 1..m[p] : MaxTimestamp(s) <= WatermarkOf(l[p][j].timestamp)
  BY DEF Passed
<1>2. j \in 1..n[p] /\ k[p][j] = l[p][j]
  BY DEF Positions
<1>. QED
  BY <1>1, <1>2

-----------------------------------------------------------------------------
(* The source: SourceInv. *)

(* The source has read nothing. *)
LEMMA SourceInit == Init => SourceInv
<1> SUFFICES ASSUME Init PROVE SourceInv
  OBVIOUS
<1>1. \A p \in Partitions : ReaderOf[p] \in Readers
  BY ReadersAssumption
<1>2. WatermarkOf(NoTimestamp) \in Int
  BY TimeAssumption DEF WatermarkOf, NoTimestamp
<1>. QED
  BY <1>1, <1>2 DEF Init, SourceInv, Follows, MinWatermark

(* Every step keeps the watermarks behind the orders that were read. *)
LEMMA SourceStep == TypeOK /\ PoisonInv /\ SourceInv /\ [Next]_vars => SourceInv'
<1> SUFFICES ASSUME TypeOK, PoisonInv, SourceInv, [Next]_vars PROVE SourceInv'
  OBVIOUS
<1>0. /\ pos \in Positions /\ chk.pos \in Positions
      /\ maxTs \in [Partitions -> Times \cup {NoTimestamp}]
      /\ emitted \in [Readers -> Int]
      /\ \A p \in Partitions : ReaderOf[p] \in Readers
      /\ \A p \in Partitions : pos[p] \in Nat /\ maxTs[p] \in Int /\ emitted[ReaderOf[p]] \in Int
      /\ OutOfOrderness \in Nat
  BY LengthsType, ReadersAssumption, TimestampType, TimeAssumption DEF TypeOK, Positions
<1>1. CASE \E e \in Orders : Produce(e)
  <2>1. PICK e \in Orders : Produce(e)
    BY <1>1
  <2>2. \A p \in Partitions : \A i \in 1..pos[p] : log'[p][i] = log[p][i]
    BY <1>0, <2>1, LogAppends DEF PoisonInv, Within, TypeOK
  <2>3. UNCHANGED <<status, pos, maxTs, emitted, windows, batch>>
    BY <2>1 DEF Produce
  <2>4. Follows(log', pos, maxTs, emitted)
    BY <2>2 DEF SourceInv, Follows
  <2>. QED
    BY <2>3, <2>4 DEF SourceInv, Follows
<1>2. CASE \E p \in Partitions : Read(p)
  <2>1. PICK p \in Partitions : Poll(p)
    BY <1>2 DEF Read, RoutePoison, Discard, Aggregate
  <2>2. /\ pos'[p] = pos[p] + 1 /\ \A q \in Partitions : q # p => pos'[q] = pos[q]
        /\ maxTs'[p] = Larger(maxTs[p], Polled(p).timestamp)
        /\ \A q \in Partitions : q # p => maxTs'[q] = maxTs[q]
        /\ UNCHANGED <<status, log, emitted>> /\ status = "running"
    BY <1>0, <2>1 DEF Poll, TypeOK, Positions
  <2>3. Polled(p).timestamp \in Int
    BY <2>1, PolledType, TimestampType DEF Poll
  <2>4. maxTs'[p] = maxTs[p] \/ maxTs'[p] = log[p][pos[p] + 1].timestamp
    BY <2>2 DEF Larger, Polled
  <2>5. WatermarkOf(maxTs[p]) <= WatermarkOf(maxTs'[p])
    BY <1>0, <2>2, <2>3 DEF Larger, WatermarkOf
  <2>6. emitted[ReaderOf[p]] <= WatermarkOf(maxTs'[p])
    <3>1. emitted[ReaderOf[p]] <= WatermarkOf(maxTs[p])
      BY DEF SourceInv, Follows
    <3>2. WatermarkOf(maxTs[p]) \in Int /\ WatermarkOf(maxTs'[p]) \in Int
      BY <1>0, <2>2, <2>3 DEF Larger, WatermarkOf
    <3>. QED
      BY <1>0, <2>5, <3>1, <3>2
  <2>7. maxTs'[p] = NoTimestamp \/ \E j \in 1..pos'[p] : maxTs'[p] = log[p][j].timestamp
    <3>1. pos[p] + 1 \in 1..pos'[p] /\ 1..pos[p] \subseteq 1..pos'[p]
      BY <1>0, <2>2
    <3>. QED
      BY <2>4, <3>1 DEF SourceInv, Follows
  <2>. QED
    BY <2>2, <2>6, <2>7 DEF SourceInv, Follows
<1>3. CASE \E r \in Readers : EmitWatermark(r)
  <2>1. PICK r \in Readers : EmitWatermark(r)
    BY <1>3
  <2>2. PICK q \in Partitions : Slowest(q, r) /\ emitted' = [emitted EXCEPT ![r] = WatermarkOf(maxTs[q])]
    BY <2>1 DEF EmitWatermark
  <2>3. ASSUME NEW p \in Partitions PROVE emitted'[ReaderOf[p]] <= WatermarkOf(maxTs[p])
    <3>1. CASE ReaderOf[p] = r
      <4>1. maxTs[q] <= maxTs[p]
        BY <2>2, <3>1 DEF Slowest, Splits
      <4>. QED
        BY <1>0, <2>2, <3>1, <4>1 DEF WatermarkOf
    <3>2. CASE ReaderOf[p] # r
      BY <1>0, <2>2, <3>2 DEF SourceInv, Follows
    <3>. QED
      BY <3>1, <3>2
  <2>. QED
    BY <2>1, <2>3 DEF EmitWatermark, SourceInv, Follows
<1>4. CASE JobFails \/ LoseVolume
  <2>1. LoseVolatile
    BY <1>4 DEF JobFails, LoseVolume
  <2>2. WatermarkOf(NoTimestamp) \in Int
    BY <1>0 DEF WatermarkOf, NoTimestamp
  <2>. QED
    BY <1>0, <2>1, <2>2 DEF LoseVolatile, SourceInv, Follows, MinWatermark
<1>5. CASE StartAtLatest \/ RestoreCheckpoint
  <2>1. /\ status' = "running" /\ pos = NoPos /\ UNCHANGED <<log, maxTs, emitted>>
    BY <1>5 DEF StartAtLatest, RestoreCheckpoint, SourceInv
  <2>2. \A p \in Partitions : maxTs[p] = NoTimestamp
    BY <2>1 DEF SourceInv, Follows, NoPos
  <2>. QED
    BY <2>1, <2>2 DEF SourceInv, Follows
<1>6. CASE FlushBatch \/ TriggerCheckpoint
  <2>1. UNCHANGED <<status, log, pos, maxTs, emitted, windows>> /\ batch' = NoWindows
    BY <1>6 DEF FlushBatch, TriggerCheckpoint
  <2>. QED
    BY <2>1 DEF SourceInv, Follows
<1>7. CASE \/ \E c \in dlqBuf : SendToDlq(c)
           \/ CompleteCheckpoint \/ AbortCheckpoint \/ UNCHANGED vars
  <2>1. UNCHANGED <<status, log, pos, maxTs, emitted, windows, batch>>
    BY <1>7 DEF SendToDlq, CompleteCheckpoint, AbortCheckpoint
  <2>. QED
    BY <2>1 DEF SourceInv, Follows
<1>. QED
  BY <1>1, <1>2, <1>3, <1>4, <1>5, <1>6, <1>7 DEF Next

-----------------------------------------------------------------------------
(* The lineage of state: every restart at latest moves its start on, and no   *)
(* position of the lineage is before its start.                               *)
NoEarlier(m, n) == \A p \in Partitions : m[p] <= n[p]

LineageInv ==
  /\ NoEarlier(born, start) /\ NoEarlier(start, Lengths(log))
  /\ status = "new" => stats = NoWindows
  /\ status = "running" => NoEarlier(start, pos)
  /\ pending.taken => NoEarlier(start, pending.pos)
  /\ chk.taken => NoEarlier(start, chk.pos)

(* Before the first submission there is neither a lineage nor a row. *)
LEMMA LineageInit == Init => LineageInv
BY DEF Init, LineageInv, NoEarlier, Lengths, NoPos, NoCheckpoint

(* Every step keeps the positions behind the start of their lineage. *)
LEMMA LineageStep == TypeOK /\ PoisonInv /\ LineageInv /\ [Next]_vars => LineageInv'
<1> SUFFICES ASSUME TypeOK, PoisonInv, LineageInv, [Next]_vars PROVE LineageInv'
  OBVIOUS
<1>0. /\ start \in Positions /\ born \in Positions /\ pos \in Positions
      /\ Lengths(log) \in Positions /\ \A p \in Partitions : Len(log[p]) \in Nat
  BY LengthsType DEF TypeOK
<1>1. CASE \E e \in Orders : Produce(e)
  <2>1. PICK e \in Orders : Produce(e)
    BY <1>1
  <2>2. \A p \in Partitions : Lengths(log)[p] <= Lengths(log')[p] /\ Lengths(log')[p] \in Nat
    BY <2>1, LogAppends DEF Lengths
  <2>3. NoEarlier(start, Lengths(log'))
    BY <1>0, <2>2 DEF LineageInv, NoEarlier, Positions
  <2>4. UNCHANGED <<status, start, born, pos, stats, pending, chk>>
    BY <2>1 DEF Produce
  <2>. QED
    BY <2>3, <2>4 DEF LineageInv
<1>2. CASE \E p \in Partitions : Read(p)
  <2>1. PICK p \in Partitions : Poll(p)
    BY <1>2 DEF Read, RoutePoison, Discard, Aggregate
  <2>2. /\ pos' = [pos EXCEPT ![p] = @ + 1] /\ status = "running"
        /\ UNCHANGED <<log, status, start, born, stats, pending, chk>>
    BY <2>1 DEF Poll
  <2>3. NoEarlier(start, pos')
    BY <1>0, <2>2 DEF LineageInv, NoEarlier, Positions
  <2>. QED
    BY <2>2, <2>3 DEF LineageInv
<1>3. CASE StartAtLatest
  <2>1. /\ start' = Lengths(log) /\ pos' = Lengths(log) /\ status' = "running"
        /\ born' \in {Lengths(log), born} /\ UNCHANGED <<log, stats, pending, chk>>
        /\ ~pending.taken /\ ~chk.taken
    BY <1>3 DEF StartAtLatest, PoisonInv, EndOfLog, Lengths
  <2>2. NoEarlier(Lengths(log), Lengths(log)) /\ NoEarlier(born, Lengths(log))
    BY <1>0 DEF LineageInv, NoEarlier, Positions
  <2>. QED
    BY <2>1, <2>2 DEF LineageInv
<1>4. CASE RestoreCheckpoint
  BY <1>4 DEF RestoreCheckpoint, LineageInv
<1>5. CASE JobFails \/ LoseVolume
  BY <1>5 DEF JobFails, LoseVolume, LoseVolatile, LineageInv, NoCheckpoint
<1>6. CASE \/ (\E r \in Readers : EmitWatermark(r)) \/ (\E c \in dlqBuf : SendToDlq(c))
           \/ FlushBatch
  <2>1. UNCHANGED <<log, status, start, born, pos, pending, chk>> /\ status = "running"
    BY <1>6 DEF EmitWatermark, SendToDlq, FlushBatch
  <2>. QED
    BY <2>1 DEF LineageInv
<1>7. CASE TriggerCheckpoint
  BY <1>7 DEF TriggerCheckpoint, Checkpoint, LineageInv
<1>8. CASE CompleteCheckpoint \/ AbortCheckpoint
  BY <1>8 DEF CompleteCheckpoint, AbortCheckpoint, LineageInv, NoCheckpoint
<1>9. CASE UNCHANGED vars
  BY <1>9 DEF LineageInv
<1>. QED
  BY <1>1, <1>2, <1>3, <1>4, <1>5, <1>6, <1>7, <1>8, <1>9 DEF Next

-----------------------------------------------------------------------------
(* No on-time order is lost.  What each position covers is in a window, or on *)
(* its way to the table, or in the table; only an order that is late for the  *)
(* watermark is dropped, and the order that made it late came before it in    *)
(* its partition, so it was not on time.                                      *)
Punctual(l, p, i, s) ==
  \A j \in 1..(i - 1) : ~(MaxTimestamp(s) <= WatermarkOf(l[p][j].timestamp))

Held(w) == {k \in Users \X WindowStarts : w[k[1]][k[2]] > 0}

Accounted(l, b, n, H) ==
  \A p \in Partitions : \A i \in 1..n[p] : \A u \in Users, s \in WindowStarts :
    b[p] < i /\ CountsFor(l[p][i], u, s) /\ Punctual(l, p, i, s) => <<u, s>> \in H

AccountedInv ==
  /\ status = "running" =>
       Accounted(log, start, pos, Held(windows) \cup Held(batch) \cup Held(stats))
  /\ pending.taken =>
       Accounted(log, start, pending.pos, Held(pending.windows) \cup Held(stats))
  /\ chk.taken => Accounted(log, start, chk.pos, Held(chk.windows) \cup Held(stats))

(* Nothing is held in empty counters. *)
LEMMA NothingHeld == Held(NoWindows) = {}
BY DEF Held, NoWindows

(* An upsert leaves in the table what was in the buffer or in the table. *)
LEMMA HeldUpserted ==
  TypeOK => Held(Upserted) = Held(batch) \cup Held(stats)
BY DEF Held, Upserted, TypeOK, Counters

(* A window that fires moves to the buffer. *)
LEMMA HeldFired ==
  ASSUME NEW ws, TypeOK, FireWindows(ws)
  PROVE  Held(windows) \cup Held(batch) \subseteq Held(windows') \cup Held(batch')
<1> SUFFICES ASSUME NEW u \in Users, NEW s \in WindowStarts,
                    windows[u][s] > 0 \/ batch[u][s] > 0
             PROVE  windows'[u][s] > 0 \/ batch'[u][s] > 0
  BY DEF Held
<1>. QED
  BY DEF FireWindows, TypeOK, Counters

(* An order the job may drop for being late is not on time. *)
LEMMA LateIsNotPunctual ==
  ASSUME TypeOK, NEW p \in Partitions, NEW i \in 1..Len(log[p]),
         NEW n \in Positions, n[p] < i, NEW s, Passed(log, n, s)
  PROVE  ~Punctual(log, p, i, s)
<1>1. PICK j \in 1..n[p] : MaxTimestamp(s) <= WatermarkOf(log[p][j].timestamp)
  BY DEF Passed
<1>2. j \in 1..(i - 1)
  BY DEF TypeOK, Positions
<1>. QED
  BY <1>1, <1>2 DEF Punctual

(* An order within the tolerance is on time for its window.                   *)
LEMMA TolerableIsPunctual ==
  ASSUME TypeOK, NEW p \in Partitions, NEW i \in 1..Len(log[p]), OnTime(<<p, i>>),
         NEW u, NEW s, CountsFor(log[p][i], u, s)
  PROVE  Punctual(log, p, i, s)
<1>. SUFFICES ASSUME NEW j \in 1..(i - 1),
                    MaxTimestamp(s) <= WatermarkOf(log[p][j].timestamp)
             PROVE  FALSE
  BY DEF Punctual
<1>1. j \in 1..Len(log[p]) /\ WindowStart(log[p][i].timestamp) = s
  BY DEF TypeOK, CountsFor
<1>2. ~(log[p][j].timestamp - OutOfOrderness <= log[p][i].timestamp)
  BY <1>1, OrderType, PassedIsLate
<1>. QED
  BY <1>2 DEF OnTime, OrderAt

(* No position covers an order initially. *)
LEMMA AccountedInit == Init => AccountedInv
BY DEF Init, AccountedInv, NoCheckpoint

(* Every step keeps the on-time orders accounted for. *)
LEMMA AccountedStep ==
  TypeOK /\ PoisonInv /\ SourceInv /\ AccountedInv /\ [Next]_vars => AccountedInv'
<1> SUFFICES ASSUME TypeOK, PoisonInv, SourceInv, AccountedInv, [Next]_vars
             PROVE  AccountedInv'
  OBVIOUS
<1>0. /\ pos \in Positions /\ pending.pos \in Positions /\ chk.pos \in Positions
      /\ start \in Positions
  BY DEF TypeOK, Checkpoints
<1>1. CASE \E e \in Orders : Produce(e)
  <2>1. PICK e \in Orders : Produce(e)
    BY <1>1
  <2>2. UNCHANGED <<status, start, pos, windows, batch, stats, pending, chk>>
    BY <2>1 DEF Produce
  <2>3. ASSUME NEW n \in Positions, NEW H, Within(n), Accounted(log, start, n, H)
        PROVE  Accounted(log', start, n, H)
    <3> SUFFICES ASSUME NEW p \in Partitions, NEW i \in 1..n[p], NEW u \in Users,
                        NEW s \in WindowStarts, start[p] < i,
                        CountsFor(log'[p][i], u, s), Punctual(log', p, i, s)
                 PROVE  <<u, s>> \in H
      BY <2>2 DEF Accounted
    <3>1. i \in 1..Len(log[p])
      BY <2>3 DEF Within, Positions, TypeOK
    <3>2. \A j \in 1..i : log'[p][j] = log[p][j]
      BY <2>1, <3>1, LogAppends
    <3>3. Punctual(log, p, i, s)
      BY <3>1, <3>2 DEF Punctual
    <3>. QED
      BY <2>3, <3>1, <3>2, <3>3 DEF Accounted
  <2>. QED
    BY <1>0, <2>2, <2>3 DEF AccountedInv, PoisonInv
<1>2. CASE \E p \in Partitions : Read(p)
  <2>1. PICK p \in Partitions : Read(p)
    BY <1>2
  <2>2. Poll(p)
    BY <2>1 DEF Read, RoutePoison, Discard, Aggregate
  <2>3. /\ pos' = [pos EXCEPT ![p] = @ + 1] /\ pos[p] < Len(log[p])
        /\ UNCHANGED <<log, status, start, batch, stats, pending, chk>>
        /\ status = "running"
    BY <2>2 DEF Poll
  <2>4. Held(windows) \subseteq Held(windows')
    <3>1. CASE Aggregate(p)
      <4>1. Polled(p).userId \in Users /\ WindowStart(Polled(p).timestamp) \in WindowStarts
        BY <2>3, <3>1, PolledType DEF Aggregate, isPoisonPill, OrderEvent
      <4>. QED
        BY <3>1, <4>1 DEF Aggregate, Held, TypeOK, Counters
    <3>2. CASE RoutePoison(p) \/ Discard(p)
      BY <3>2 DEF RoutePoison, Discard
    <3>. QED
      BY <2>1, <3>1, <3>2 DEF Read
  <2>5. ASSUME NEW u \in Users, NEW s \in WindowStarts,
               CountsFor(Polled(p), u, s), Punctual(log, p, pos[p] + 1, s)
        PROVE  <<u, s>> \in Held(windows')
    <3>1. ~RoutePoison(p)
      BY <2>5 DEF CountsFor, RoutePoison
    <3>2. ~Discard(p)
      <4> SUFFICES ASSUME Discard(p) PROVE FALSE
        OBVIOUS
      <4>1. Closed(s, emitted) /\ s = WindowStart(Polled(p).timestamp)
        BY <2>5 DEF CountsFor, Discard, Late
      <4>2. Passed(log, pos, s)
        BY <4>1, ClosedIsPassed DEF SourceInv, TypeOK
      <4>3. pos[p] + 1 \in 1..Len(log[p]) /\ pos[p] < pos[p] + 1
        BY <1>0, <2>3 DEF TypeOK, Positions
      <4>. QED
        BY <1>0, <2>5, <4>1, <4>2, <4>3, LateIsNotPunctual DEF Polled
    <3>3. Aggregate(p)
      BY <2>1, <3>1, <3>2 DEF Read
    <3>4. windows'[u][s] = windows[u][s] + 1 /\ windows[u][s] \in Nat
      BY <2>5, <3>3 DEF Aggregate, CountsFor, TypeOK, Counters
    <3>. QED
      BY <3>4 DEF Held
  <2>6. Accounted(log, start, pos', Held(windows') \cup Held(batch) \cup Held(stats))
    <3> SUFFICES ASSUME NEW q \in Partitions, NEW i \in 1..pos'[q], NEW u \in Users,
                        NEW s \in WindowStarts, start[q] < i,
                        CountsFor(log[q][i], u, s), Punctual(log, q, i, s)
                 PROVE  <<u, s>> \in Held(windows') \cup Held(batch) \cup Held(stats)
      BY DEF Accounted
    <3>1. CASE i \in 1..pos[q]
      BY <2>3, <2>4, <3>1 DEF AccountedInv, Accounted
    <3>2. CASE i \notin 1..pos[q]
      <4>1. q = p /\ i = pos[p] + 1
        BY <1>0, <2>3, <3>2 DEF Positions
      <4>. QED
        BY <2>5, <4>1 DEF Polled
    <3>. QED
      BY <3>1, <3>2
  <2>. QED
    BY <2>3, <2>6 DEF AccountedInv, Accounted
<1>3. CASE \E r \in Readers : EmitWatermark(r)
  <2>1. UNCHANGED <<log, status, start, pos, stats, pending, chk>> /\ FireWindows(emitted')
    BY <1>3 DEF EmitWatermark
  <2>2. Held(windows) \cup Held(batch) \subseteq Held(windows') \cup Held(batch')
    BY <2>1, HeldFired
  <2>. QED
    BY <2>1, <2>2 DEF AccountedInv, Accounted
<1>4. CASE FlushBatch
  <2>1. /\ UNCHANGED <<log, status, start, pos, windows, pending, chk>>
        /\ Held(stats') = Held(batch) \cup Held(stats)
    BY <1>4, HeldUpserted DEF FlushBatch
  <2>. QED
    BY <2>1 DEF AccountedInv, Accounted
<1>5. CASE TriggerCheckpoint
  <2>1. /\ UNCHANGED <<log, status, start, pos, windows, chk>> /\ status = "running"
        /\ Held(stats') = Held(batch) \cup Held(stats)
        /\ pending'.pos = pos /\ pending'.windows = windows
    BY <1>5, HeldUpserted DEF TriggerCheckpoint, Checkpoint
  <2>. QED
    BY <2>1 DEF AccountedInv, Accounted
<1>6. CASE CompleteCheckpoint \/ AbortCheckpoint
  <2>1. UNCHANGED <<log, status, start, pos, windows, batch, stats>>
    BY <1>6 DEF CompleteCheckpoint, AbortCheckpoint
  <2>2. /\ ~pending'.taken
        /\ chk' = chk \/ (pending.taken /\ chk' = pending)
    BY <1>6 DEF CompleteCheckpoint, AbortCheckpoint, NoCheckpoint
  <2>. QED
    BY <2>1, <2>2 DEF AccountedInv, Accounted
<1>7. CASE JobFails \/ LoseVolume
  <2>1. /\ UNCHANGED <<log, start, stats>> /\ status' = "down" /\ ~pending'.taken
        /\ chk' = chk \/ ~chk'.taken
    BY <1>7 DEF JobFails, LoseVolume, LoseVolatile, NoCheckpoint
  <2>. QED
    BY <2>1 DEF AccountedInv, Accounted
<1>8. CASE StartAtLatest
  <2>1. /\ start' = EndOfLog /\ pos' = EndOfLog /\ UNCHANGED <<log, pending, chk>>
        /\ ~pending.taken /\ ~chk.taken
    BY <1>8 DEF StartAtLatest, PoisonInv
  <2>2. \A p \in Partitions : \A i \in 1..pos'[p] : ~(start'[p] < i)
    BY <2>1 DEF EndOfLog, TypeOK
  <2>3. Accounted(log, start, pos, Held(windows) \cup Held(batch) \cup Held(stats))'
    BY <2>2 DEF Accounted
  <2>. QED
    BY <2>1, <2>3 DEF AccountedInv
<1>9. CASE RestoreCheckpoint
  <2>1. /\ pos' = chk.pos /\ windows' = chk.windows /\ chk.taken
        /\ UNCHANGED <<log, start, batch, stats, pending, chk>>
    BY <1>9 DEF RestoreCheckpoint
  <2>. QED
    BY <2>1 DEF AccountedInv, Accounted
<1>10. CASE (\E c \in dlqBuf : SendToDlq(c)) \/ UNCHANGED vars
  <2>1. UNCHANGED <<log, status, start, pos, windows, batch, stats, pending, chk>>
    BY <1>10 DEF SendToDlq
  <2>. QED
    BY <2>1 DEF AccountedInv, Accounted
<1>. QED
  BY <1>1, <1>2, <1>3, <1>4, <1>5, <1>6, <1>7, <1>8, <1>9, <1>10 DEF Next

(* What a member of CountedIn is. *)
LEMMA CountedInMember ==
  ASSUME TypeOK, NEW n \in Positions, Within(n), NEW u, NEW s, NEW c \in CountedIn(u, s, n)
  PROVE  \E p \in Partitions : \E i \in 1..n[p] :
           /\ c = <<p, i>> /\ start[p] < i /\ CountsFor(log[p][i], u, s)
           /\ OnTime(c) => Punctual(log, p, i, s)
<1>1. c \in Upto(n) /\ c[2] > start[c[1]] /\ CountsFor(OrderAt(c), u, s)
  BY DEF CountedIn, Lineage
<1>2. PICK p \in Partitions : \E i \in 1..n[p] : c = <<p, i>>
  BY <1>1, UptoMember
<1>3. PICK i \in 1..n[p] : c = <<p, i>>
  BY <1>2
<1>4. start[p] < i /\ i \in 1..Len(log[p])
  BY <1>1, <1>3 DEF TypeOK, Positions, Within
<1>. QED
  BY <1>1, <1>3, <1>4, TolerableIsPunctual DEF OrderAt

-----------------------------------------------------------------------------
(* What is counted is exact.  A window that is closed has been passed by an   *)
(* order of every partition, so while all orders are on time none of its      *)
(* orders is still to come and its count is final; a window without an        *)
(* accumulator has either closed or counted nothing.                          *)
Since(l, b, u, s, n) == {c \in CountedOn(l, u, s, n) : c[2] > b[c[1]]}

(* No order of the row (u, s) comes late.                                     *)
RowPunctual(l, u, s) ==
  \A p \in Partitions : \A i \in 1..Len(l[p]) :
    CountsFor(l[p][i], u, s) => Punctual(l, p, i, s)

(* No window without an accumulator waits for one. *)
Settled(w, l, b, n) ==
  \A u \in Users, s \in WindowStarts :
    w[u][s] = 0 => Since(l, b, u, s, n) = {} \/ Passed(l, n, s)

(* Every count that is there is exact, if none of its own orders is late.     *)
Exact(w, l, b, n) ==
  \A u \in Users, s \in WindowStarts :
    w[u][s] > 0 /\ RowPunctual(l, u, s) => w[u][s] = Cardinality(Since(l, b, u, s, n))

(* A count that is there is of a window every partition has passed. *)
Final(w, l) ==
  \A u \in Users, s \in WindowStarts : w[u][s] > 0 => Passed(l, Lengths(l), s)

SettledInv ==
  /\ status = "running" => Settled(windows, log, start, pos)
  /\ pending.taken => Settled(pending.windows, log, start, pending.pos)
  /\ chk.taken => Settled(chk.windows, log, start, chk.pos)
  /\ Final(batch, log) /\ Final(stats, log)

ExactInv ==
  /\ status = "running" => Exact(windows, log, start, pos)
  /\ pending.taken => Exact(pending.windows, log, start, pending.pos)
  /\ chk.taken => Exact(chk.windows, log, start, chk.pos)
  /\ Exact(batch, log, start, Lengths(log))
  /\ start = born => Exact(stats, log, start, Lengths(log))

(* The members of Since, and how many they are. *)
LEMMA SinceMember ==
  ASSUME NEW l, NEW b, NEW u, NEW s, NEW n \in Positions, NEW c
  PROVE  c \in Since(l, b, u, s, n) <=>
           \E p \in Partitions : \E i \in 1..n[p] :
             c = <<p, i>> /\ i > b[p] /\ CountsFor(l[p][i], u, s)
<1>1. ASSUME c \in Since(l, b, u, s, n)
      PROVE  \E p \in Partitions : \E i \in 1..n[p] :
               c = <<p, i>> /\ i > b[p] /\ CountsFor(l[p][i], u, s)
  <2>1. c \in Upto(n) /\ CountsFor(l[c[1]][c[2]], u, s) /\ c[2] > b[c[1]]
    BY <1>1 DEF Since, CountedOn
  <2>2. PICK p \in Partitions : \E i \in 1..n[p] : c = <<p, i>>
    BY <2>1, UptoMember
  <2>. QED
    BY <2>1, <2>2
<1>2. ASSUME NEW p \in Partitions, NEW i \in 1..n[p],
             c = <<p, i>> /\ i > b[p] /\ CountsFor(l[p][i], u, s)
      PROVE  c \in Since(l, b, u, s, n)
  <2>1. c \in Upto(n)
    BY <1>2, UptoMember
  <2>. QED
    BY <1>2, <2>1 DEF Since, CountedOn
<1>. QED
  BY <1>1, <1>2

(* They are finitely many. *)
LEMMA SinceFinite ==
  ASSUME NEW l, NEW b, NEW u, NEW s, NEW n \in Positions
  PROVE  /\ IsFiniteSet(Since(l, b, u, s, n))
         /\ Cardinality(Since(l, b, u, s, n)) \in Nat
<1>1. Since(l, b, u, s, n) \in SUBSET CountedOn(l, u, s, n)
  BY DEF Since
<1>. QED
  BY <1>1, CountedFinite, FS_Subset, FS_CardinalityType

(* Only the records up to the position matter. *)
LEMMA SinceStays ==
  ASSUME NEW l, NEW k, NEW b, NEW u, NEW s, NEW n \in Positions,
         \A p \in Partitions : \A i \in 1..n[p] : k[p][i] = l[p][i]
  PROVE  Since(k, b, u, s, n) = Since(l, b, u, s, n)
<1>1. ASSUME NEW c PROVE c \in Since(k, b, u, s, n) <=> c \in Since(l, b, u, s, n)
  <2>1. \A p \in Partitions : \A i \in 1..n[p] :
          (c = <<p, i>> /\ i > b[p] /\ CountsFor(k[p][i], u, s)) <=>
          (c = <<p, i>> /\ i > b[p] /\ CountsFor(l[p][i], u, s))
    OBVIOUS
  <2>2. (\E p \in Partitions : \E i \in 1..n[p] :
            c = <<p, i>> /\ i > b[p] /\ CountsFor(k[p][i], u, s)) <=>
        (\E p \in Partitions : \E i \in 1..n[p] :
            c = <<p, i>> /\ i > b[p] /\ CountsFor(l[p][i], u, s))
    BY <2>1
  <2>. QED
    BY <2>2, SinceMember
<1>. QED
  BY <1>1

(* Once every partition has passed a window whose orders are on time, none of *)
(* them is still to come.                                                     *)
LEMMA PassedIsComplete ==
  ASSUME NEW l \in [Partitions -> Seq(Orders)],
         NEW b, NEW u, NEW s, RowPunctual(l, u, s), NEW m \in Positions, NEW n \in Positions,
         NoEarlier(m, n), NoEarlier(n, Lengths(l)), Passed(l, m, s)
  PROVE  Since(l, b, u, s, n) = Since(l, b, u, s, m)
<1>1. ASSUME NEW c \in Since(l, b, u, s, n) PROVE c \in Since(l, b, u, s, m)
  <2>1. PICK p \in Partitions : \E i \in 1..n[p] :
               c = <<p, i>> /\ i > b[p] /\ CountsFor(l[p][i], u, s)
    BY <1>1, SinceMember
  <2>2. PICK i \in 1..n[p] : c = <<p, i>> /\ i > b[p] /\ CountsFor(l[p][i], u, s)
    BY <2>1
  <2>3. PICK j \in 1..m[p] : MaxTimestamp(s) <= WatermarkOf(l[p][j].timestamp)
    BY DEF Passed
  <2>4. i \in 1..Len(l[p])
    BY DEF NoEarlier, Lengths, Positions
  <2>5. Punctual(l, p, i, s)
    BY <2>2, <2>4 DEF RowPunctual
  <2>8. ~(j \in 1..(i - 1))
    BY <2>3, <2>5 DEF Punctual
  <2>9. i \in 1..m[p]
    BY <2>8 DEF Positions
  <2>. QED
    BY <2>2, <2>9, SinceMember
<1>2. ASSUME NEW c \in Since(l, b, u, s, m) PROVE c \in Since(l, b, u, s, n)
  <2>1. PICK p \in Partitions : \E i \in 1..m[p] :
               c = <<p, i>> /\ i > b[p] /\ CountsFor(l[p][i], u, s)
    BY <1>2, SinceMember
  <2>2. 1..m[p] \subseteq 1..n[p]
    BY DEF NoEarlier, Positions
  <2>. QED
    BY <2>1, <2>2, SinceMember
<1>. QED
  BY <1>1, <1>2

(* Reading an order adds it to what its window has counted, and nothing else. *)
LEMMA SinceReads ==
  ASSUME NEW l, NEW b, NEW u, NEW s, NEW m \in Positions, NEW p \in Partitions,
         NEW n \in Positions, n[p] = m[p] + 1, \A q \in Partitions \ {p} : n[q] = m[q],
         b[p] <= m[p], b[p] \in Nat
  PROVE  /\ <<p, m[p] + 1>> \notin Since(l, b, u, s, m)
         /\ CountsFor(l[p][m[p] + 1], u, s) =>
              Since(l, b, u, s, n) = Since(l, b, u, s, m) \cup {<<p, m[p] + 1>>}
         /\ ~CountsFor(l[p][m[p] + 1], u, s) =>
              Since(l, b, u, s, n) = Since(l, b, u, s, m)
<1>0. /\ m[p] \in Nat /\ n[p] = m[p] + 1 /\ \A q \in Partitions \ {p} : n[q] = m[q]
      /\ 1..n[p] = 1..m[p] \cup {m[p] + 1} /\ m[p] + 1 \notin 1..m[p]
  BY DEF Positions
<1>1. <<p, m[p] + 1>> \notin Since(l, b, u, s, m)
  <2> SUFFICES ASSUME <<p, m[p] + 1>> \in Since(l, b, u, s, m) PROVE FALSE
    OBVIOUS
  <2>1. PICK q \in Partitions : \E i \in 1..m[q] : <<p, m[p] + 1>> = <<q, i>>
    BY SinceMember
  <2>. QED
    BY <1>0, <2>1
<1>2. ASSUME NEW c
      PROVE  c \in Since(l, b, u, s, n) <=>
               \/ c \in Since(l, b, u, s, m)
               \/ c = <<p, m[p] + 1>> /\ CountsFor(l[p][m[p] + 1], u, s)
  <2>1. ASSUME c \in Since(l, b, u, s, n), c \notin Since(l, b, u, s, m)
        PROVE  c = <<p, m[p] + 1>> /\ CountsFor(l[p][m[p] + 1], u, s)
    <3>1. PICK q \in Partitions : \E i \in 1..n[q] :
            c = <<q, i>> /\ i > b[q] /\ CountsFor(l[q][i], u, s)
      BY <2>1, SinceMember
    <3>2. PICK i \in 1..n[q] : c = <<q, i>> /\ i > b[q] /\ CountsFor(l[q][i], u, s)
      BY <3>1
    <3>3. i \notin 1..m[q]
      BY <2>1, <3>2, SinceMember
    <3>4. q = p /\ i = m[p] + 1
      BY <1>0, <3>3
    <3>. QED
      BY <3>2, <3>4
  <2>2. ASSUME c \in Since(l, b, u, s, m) PROVE c \in Since(l, b, u, s, n)
    <3>1. PICK q \in Partitions : \E i \in 1..m[q] :
            c = <<q, i>> /\ i > b[q] /\ CountsFor(l[q][i], u, s)
      BY <2>2, SinceMember
    <3>2. 1..m[q] \subseteq 1..n[q]
      BY <1>0
    <3>. QED
      BY <3>1, <3>2, SinceMember
  <2>3. ASSUME c = <<p, m[p] + 1>>, CountsFor(l[p][m[p] + 1], u, s)
        PROVE  c \in Since(l, b, u, s, n)
    <3>1. m[p] + 1 \in 1..n[p] /\ m[p] + 1 > b[p]
      BY <1>0
    <3>. QED
      BY <2>3, <3>1, SinceMember
  <2>. QED
    BY <2>1, <2>2, <2>3
<1>. QED
  BY <1>1, <1>2

(* Nothing is counted before a lineage has read anything. *)
LEMMA SinceStart ==
  ASSUME NEW l, NEW n \in Positions, NEW u, NEW s PROVE Since(l, n, u, s, n) = {}
<1> SUFFICES ASSUME NEW c \in Since(l, n, u, s, n) PROVE FALSE
  OBVIOUS
<1>1. PICK p \in Partitions : \E i \in 1..n[p] : i > n[p]
  BY SinceMember
<1>. QED
  BY <1>1 DEF Positions

(* Empty counters are exact, and final. *)
LEMMA NothingExact ==
  ASSUME NEW l, NEW b, NEW n
  PROVE  Exact(NoWindows, l, b, n) /\ Final(NoWindows, l)
<1>1. \A u \in Users, s \in WindowStarts : ~(NoWindows[u][s] > 0)
  BY DEF NoWindows
<1>. QED
  BY <1>1 DEF Exact, Final

(* An upsert keeps in the table what the buffer or the table had. *)
LEMMA UpsertedIsEither ==
  \A u \in Users, s \in WindowStarts :
    \/ batch[u][s] > 0 /\ Upserted[u][s] = batch[u][s]
    \/ ~(batch[u][s] > 0) /\ Upserted[u][s] = stats[u][s]
BY DEF Upserted

(* Nothing is read or counted initially. *)
LEMMA ExactInit == Init => SettledInv /\ ExactInv
BY NothingExact DEF Init, SettledInv, ExactInv, NoCheckpoint

(* What a step that appends an order leaves of a position. *)
LEMMA AppendKeeps ==
  ASSUME TypeOK, NEW e \in Orders, Produce(e), NEW n \in Positions, Within(n),
         NEW b, NEW u, NEW s
  PROVE  /\ Since(log', b, u, s, n) = Since(log, b, u, s, n)
         /\ Passed(log, n, s) => Passed(log', n, s)
<1>1. \A p \in Partitions : n[p] <= n[p] /\ \A i \in 1..n[p] : log'[p][i] = log[p][i]
  <2> SUFFICES ASSUME NEW p \in Partitions
               PROVE  n[p] <= n[p] /\ \A i \in 1..n[p] : log'[p][i] = log[p][i]
    OBVIOUS
  <2>1. n[p] \in Nat /\ n[p] <= Len(log[p]) /\ Len(log[p]) \in Nat
    BY DEF Within, Positions, TypeOK
  <2>. QED
    BY <2>1, LogAppends
<1>2. Since(log', b, u, s, n) = Since(log, b, u, s, n)
  BY <1>1, SinceStays
<1>3. Passed(log, n, s) => Passed(log', n, s)
  BY <1>1, PassedGrows
<1>. QED
  BY <1>2, <1>3

(* What every partition has passed early in the log, it has by its end. *)
LEMMA PassedByTheEnd ==
  ASSUME TypeOK, NEW n \in Positions, Within(n), NEW s, Passed(log, n, s)
  PROVE  Passed(log, Lengths(log), s)
<1>1. \A p \in Partitions : n[p] <= Lengths(log)[p] /\ \A i \in 1..n[p] : log[p][i] = log[p][i]
  BY DEF Within, Lengths
<1>. QED
  BY <1>1, LengthsType, PassedGrows

(* Every step keeps the windows settled. *)
LEMMA SettledStep ==
  TypeOK /\ PoisonInv /\ SourceInv /\ SettledInv /\ [Next]_vars => SettledInv'
<1> SUFFICES ASSUME TypeOK, PoisonInv, SourceInv, SettledInv, [Next]_vars
             PROVE  SettledInv'
  OBVIOUS
<1>0. /\ pos \in Positions /\ pending.pos \in Positions /\ chk.pos \in Positions
      /\ start \in Positions /\ Lengths(log) \in Positions /\ Within(Lengths(log))
      /\ Within(pos) /\ Within(pending.pos) /\ Within(chk.pos)
  <2>1. \A p \in Partitions : Lengths(log)[p] <= Len(log[p])
    BY DEF Lengths, TypeOK
  <2>. QED
    BY <2>1, LengthsType DEF TypeOK, PoisonInv, Within
<1>1. CASE \E e \in Orders : Produce(e)
  <2>1. PICK e \in Orders : Produce(e)
    BY <1>1
  <2>2. UNCHANGED <<status, start, pos, windows, batch, stats, pending, chk>>
    BY <2>1 DEF Produce
  <2>3. ASSUME NEW n \in Positions, NEW w, Within(n), Settled(w, log, start, n)
        PROVE  Settled(w, log', start, n)
    BY <2>1, <2>3, AppendKeeps DEF Settled
  <2>4. ASSUME NEW w, Final(w, log) PROVE Final(w, log')
    <3>1. \A p \in Partitions :
            /\ Lengths(log)[p] <= Lengths(log')[p]
            /\ \A i \in 1..Lengths(log)[p] : log'[p][i] = log[p][i]
      BY <2>1, LogAppends DEF Lengths
    <3>2. Lengths(log') \in Positions
      BY <2>1, LogAppends DEF Lengths, Positions
    <3>3. ASSUME NEW s, Passed(log, Lengths(log), s) PROVE Passed(log', Lengths(log'), s)
      <4> DEFINE m == Lengths(log)
                 n == Lengths(log')
      <4>1. /\ m \in Positions /\ n \in Positions /\ Passed(log, m, s)
            /\ \A p \in Partitions : m[p] <= n[p] /\ \A i \in 1..m[p] : log'[p][i] = log[p][i]
        BY <1>0, <3>1, <3>2, <3>3
      <4> HIDE DEF m, n
      <4>2. Passed(log', n, s)
        BY <4>1, PassedGrows
      <4>. QED
        BY <4>2 DEF n
    <3>. QED
      BY <2>4, <3>3 DEF Final
  <2>. QED
    BY <1>0, <2>2, <2>3, <2>4 DEF SettledInv
<1>2. CASE \E p \in Partitions : Read(p)
  <2>1. PICK p \in Partitions : Read(p)
    BY <1>2
  <2>2. Poll(p)
    BY <2>1 DEF Read, RoutePoison, Discard, Aggregate
  <2>3. /\ pos' = [pos EXCEPT ![p] = @ + 1] /\ pos[p] < Len(log[p])
        /\ UNCHANGED <<log, status, start, batch, stats, pending, chk>>
        /\ status = "running"
    BY <2>2 DEF Poll
  <2>4. /\ pos' \in Positions /\ \A q \in Partitions : pos[q] <= pos'[q]
        /\ \A q \in Partitions, i \in Nat :
             i \in 1..pos'[q] => i \in 1..pos[q] \/ (q = p /\ i = pos[p] + 1)
    BY <1>0, <2>3 DEF Positions
  <2>5. ASSUME NEW u \in Users, NEW s \in WindowStarts, windows'[u][s] = 0
        PROVE  Since(log, start, u, s, pos') = {} \/ Passed(log, pos', s)
    <3>1. windows[u][s] = 0 /\ ~(Aggregate(p) /\ CountsFor(Polled(p), u, s))
      <4>1. CASE Aggregate(p)
        <5>1. Polled(p).userId \in Users /\ WindowStart(Polled(p).timestamp) \in WindowStarts
          BY <2>3, <4>1, PolledType DEF Aggregate, isPoisonPill, OrderEvent
        <5>. DEFINE v == Polled(p).userId
                    t == WindowStart(Polled(p).timestamp)
        <5>2. windows' = [windows EXCEPT ![v][t] = windows[v][t] + 1]
          BY <4>1 DEF Aggregate
        <5>3. /\ windows \in [Users -> [WindowStarts -> Nat]]
              /\ v \in Users /\ t \in WindowStarts
          BY <5>1 DEF TypeOK, Counters
        <5>4. CountsFor(Polled(p), u, s) => v = u /\ t = s
          BY DEF CountsFor
        <5>. HIDE DEF v, t
        <5>5. windows'[v][t] = windows[v][t] + 1 /\ windows[v][t] + 1 # 0
          BY <5>2, <5>3
        <5>6. v # u \/ t # s
          BY <2>5, <5>5
        <5>7. windows'[u][s] = windows[u][s]
          BY <5>2, <5>3, <5>6
        <5>. QED
          BY <2>5, <5>4, <5>6, <5>7
      <4>2. CASE RoutePoison(p) \/ Discard(p)
        <5>1. windows' = windows
          BY <4>2 DEF RoutePoison, Discard
        <5>2. ~Aggregate(p)
          BY <4>2 DEF RoutePoison, Discard, Aggregate
        <5>. QED
          BY <2>5, <5>1, <5>2
      <4>. QED
        BY <2>1, <4>1, <4>2 DEF Read
    <3>2. Passed(log, pos, s) => Passed(log, pos', s)
      BY <1>0, <2>4, PassedGrows
    <3>3. CASE CountsFor(Polled(p), u, s)
      <4>1. Closed(s, emitted)
        BY <2>1, <3>1, <3>3 DEF Read, RoutePoison, Discard, Aggregate, CountsFor, Late
      <4>2. Passed(log, pos, s)
        BY <4>1, ClosedIsPassed DEF SourceInv, TypeOK
      <4>. QED
        BY <3>2, <4>2
    <3>4. CASE ~CountsFor(Polled(p), u, s) /\ Since(log, start, u, s, pos) = {}
      <4>1. ASSUME NEW c \in Since(log, start, u, s, pos') PROVE FALSE
        <5>1. PICK q \in Partitions : \E i \in 1..pos'[q] :
                c = <<q, i>> /\ i > start[q] /\ CountsFor(log[q][i], u, s)
          BY <2>4, <4>1, SinceMember
        <5>2. PICK i \in 1..pos'[q] :
                c = <<q, i>> /\ i > start[q] /\ CountsFor(log[q][i], u, s)
          BY <5>1
        <5>3. i \in 1..pos[q]
          BY <2>4, <3>4, <5>2 DEF Polled
        <5>. QED
          BY <1>0, <3>4, <5>2, <5>3, SinceMember
      <4>. QED
        BY <4>1
    <3>5. Since(log, start, u, s, pos) = {} \/ Passed(log, pos, s)
      BY <2>3, <3>1 DEF SettledInv, Settled
    <3>. QED
      BY <3>2, <3>3, <3>4, <3>5
  <2>. QED
    BY <2>3, <2>5 DEF SettledInv, Settled, Final
<1>3. CASE \E r \in Readers : EmitWatermark(r)
  <2>1. /\ UNCHANGED <<log, status, start, pos, maxTs, stats, pending, chk>>
        /\ FireWindows(emitted') /\ status = "running"
    BY <1>3 DEF EmitWatermark
  <2>2. \A s \in WindowStarts : Closed(s, emitted') => Passed(log, pos, s)
    <3>1. /\ Follows(log, pos, maxTs, emitted') /\ emitted' \in [Readers -> Int]
          /\ maxTs \in [Partitions -> Times \cup {NoTimestamp}]
      BY <2>1, SourceStep, TypeStep DEF SourceInv, TypeOK
    <3>. QED
      BY <3>1, ClosedIsPassed
  <2>3. Settled(windows', log, start, pos)
    BY <2>1, <2>2 DEF FireWindows, SettledInv, Settled
  <2>4. Final(batch', log)
    <3> SUFFICES ASSUME NEW u \in Users, NEW s \in WindowStarts, batch'[u][s] > 0
                 PROVE  Passed(log, Lengths(log), s)
      BY DEF Final
    <3>1. batch[u][s] > 0 \/ Closed(s, emitted')
      BY <2>1 DEF FireWindows
    <3>. QED
      BY <1>0, <2>2, <3>1, PassedByTheEnd DEF SettledInv, Final
  <2>. QED
    BY <2>1, <2>3, <2>4 DEF SettledInv, Settled, Final
<1>4. Final(Upserted, log) /\ Final(NoWindows, log)
  <2>1. Final(Upserted, log)
    BY UpsertedIsEither DEF SettledInv, Final
  <2>. QED
    BY <2>1, NothingExact
<1>5. CASE FlushBatch
  <2>1. UNCHANGED <<log, status, start, pos, windows, pending, chk>>
        /\ stats' = Upserted /\ batch' = NoWindows
    BY <1>5 DEF FlushBatch
  <2>. QED
    BY <1>4, <2>1 DEF SettledInv
<1>6. CASE TriggerCheckpoint
  <2>1. /\ UNCHANGED <<log, status, start, pos, windows, chk>> /\ status = "running"
        /\ stats' = Upserted /\ batch' = NoWindows
        /\ pending'.pos = pos /\ pending'.windows = windows
    BY <1>6 DEF TriggerCheckpoint, Checkpoint
  <2>. QED
    BY <1>4, <2>1 DEF SettledInv
<1>7. CASE CompleteCheckpoint \/ AbortCheckpoint
  <2>1. UNCHANGED <<log, status, start, pos, windows, batch, stats>>
    BY <1>7 DEF CompleteCheckpoint, AbortCheckpoint
  <2>2. /\ ~pending'.taken
        /\ chk' = chk \/ (pending.taken /\ chk' = pending)
    BY <1>7 DEF CompleteCheckpoint, AbortCheckpoint, NoCheckpoint
  <2>. QED
    BY <2>1, <2>2 DEF SettledInv
<1>8. CASE JobFails \/ LoseVolume
  <2>1. /\ UNCHANGED <<log, start, stats>> /\ status' = "down" /\ ~pending'.taken
        /\ batch' = NoWindows /\ (chk' = chk \/ ~chk'.taken)
    BY <1>8 DEF JobFails, LoseVolume, LoseVolatile, NoCheckpoint
  <2>. QED
    BY <1>4, <2>1 DEF SettledInv
<1>9. CASE StartAtLatest
  <2>1. /\ start' = Lengths(log) /\ pos' = Lengths(log)
        /\ UNCHANGED <<log, windows, batch, stats, pending, chk>>
        /\ ~pending.taken /\ ~chk.taken
    BY <1>9 DEF StartAtLatest, PoisonInv, EndOfLog, Lengths
  <2>2. \A u, s : Since(log, Lengths(log), u, s, Lengths(log)) = {}
    BY <1>0, SinceStart
  <2>. QED
    BY <2>1, <2>2 DEF SettledInv, Settled
<1>10. CASE RestoreCheckpoint
  <2>1. /\ pos' = chk.pos /\ windows' = chk.windows /\ chk.taken
        /\ UNCHANGED <<log, start, batch, stats, pending, chk>>
    BY <1>10 DEF RestoreCheckpoint
  <2>. QED
    BY <2>1 DEF SettledInv
<1>11. CASE (\E c \in dlqBuf : SendToDlq(c)) \/ UNCHANGED vars
  <2>1. UNCHANGED <<log, status, start, pos, windows, batch, stats, pending, chk>>
    BY <1>11 DEF SendToDlq
  <2>. QED
    BY <2>1 DEF SettledInv
<1>. QED
  BY <1>1, <1>2, <1>3, <1>5, <1>6, <1>7, <1>8, <1>9, <1>10, <1>11 DEF Next

(* A row none of whose orders is late had none before the last one arrived.   *)
LEMMA PunctualStays ==
  ASSUME TypeOK, NEW e \in Orders, Produce(e), NEW u, NEW s, RowPunctual(log', u, s)
  PROVE  RowPunctual(log, u, s)
<1>. SUFFICES ASSUME NEW p \in Partitions, NEW i \in 1..Len(log[p]),
                    CountsFor(log[p][i], u, s), NEW j \in 1..(i - 1)
             PROVE  ~(MaxTimestamp(s) <= WatermarkOf(log[p][j].timestamp))
  BY DEF RowPunctual, Punctual
<1>1. Len(log[p]) \in Nat /\ Len(log'[p]) \in Nat /\ Len(log[p]) <= Len(log'[p])
  BY LogAppends DEF TypeOK
<1>2. i \in 1..Len(log'[p]) /\ j \in 1..Len(log[p])
  BY <1>1
<1>3. log'[p][i] = log[p][i] /\ log'[p][j] = log[p][j]
  BY <1>2, LogAppends
<1>. QED
  BY <1>2, <1>3 DEF RowPunctual, Punctual

(* Reading an order keeps the open windows exact. *)
LEMMA ExactRead ==
  ASSUME TypeOK, PoisonInv, SourceInv, LineageInv, SettledInv, ExactInv,
         NEW p \in Partitions, Read(p)
  PROVE  Exact(windows', log, start, pos')
<1>1. Poll(p)
  BY DEF Read, RoutePoison, Discard, Aggregate
<1>2. /\ pos[p] < Len(log[p]) /\ status = "running"
      /\ pos \in Positions /\ start \in Positions
  BY <1>1 DEF Poll, TypeOK
<1>3. /\ pos' \in Positions /\ pos'[p] = pos[p] + 1
      /\ \A q \in Partitions \ {p} : pos'[q] = pos[q]
      /\ start[p] <= pos[p] /\ start[p] \in Nat /\ pos[p] \in Nat
      /\ pos[p] + 1 \in 1..Len(log[p])
  BY <1>1, <1>2 DEF Poll, Positions, LineageInv, NoEarlier, TypeOK
<1> SUFFICES ASSUME NEW u \in Users, NEW s \in WindowStarts, windows'[u][s] > 0,
                    RowPunctual(log, u, s)
             PROVE  windows'[u][s] = Cardinality(Since(log, start, u, s, pos'))
  BY DEF Exact
<1>4. CountsFor(log[p][pos[p] + 1], u, s) => Punctual(log, p, pos[p] + 1, s)
  BY <1>3 DEF RowPunctual
<1> DEFINE n == pos'
<1>r. /\ <<p, pos[p] + 1>> \notin Since(log, start, u, s, pos)
      /\ CountsFor(log[p][pos[p] + 1], u, s) =>
           Since(log, start, u, s, n) = Since(log, start, u, s, pos) \cup {<<p, pos[p] + 1>>}
      /\ ~CountsFor(log[p][pos[p] + 1], u, s) =>
           Since(log, start, u, s, n) = Since(log, start, u, s, pos)
  <2>1. /\ n \in Positions /\ n[p] = pos[p] + 1
        /\ \A q \in Partitions \ {p} : n[q] = pos[q]
    BY <1>3
  <2> HIDE DEF n
  <2>. QED
    BY <1>2, <1>3, <2>1, SinceReads
<1>5. CASE CountsFor(Polled(p), u, s)
  <2>1. s = WindowStart(log[p][pos[p] + 1].timestamp) /\ ~isPoisonPill(Polled(p))
        /\ Polled(p).status = "PLACED" /\ u = Polled(p).userId
    BY <1>5 DEF CountsFor, Polled
  <2>2. ~Passed(log, pos, s)
    BY <1>2, <1>3, <1>4, <1>5, LateIsNotPunctual DEF Polled
  <2>3. ~Closed(s, emitted)
    BY <2>2, ClosedIsPassed DEF SourceInv, TypeOK
  <2>4. Aggregate(p)
    BY <2>1, <2>3 DEF Read, RoutePoison, Discard, Late, Polled
  <2>5. windows'[u][s] = windows[u][s] + 1 /\ windows[u][s] \in Nat
    BY <2>1, <2>4 DEF Aggregate, Polled, TypeOK, Counters
  <2>6. windows[u][s] = Cardinality(Since(log, start, u, s, pos))
    <3>1. CASE windows[u][s] > 0
      BY <1>2, <3>1 DEF ExactInv, Exact
    <3>2. CASE windows[u][s] = 0
      <4>1. Since(log, start, u, s, pos) = {}
        BY <1>2, <2>2, <3>2 DEF SettledInv, Settled
      <4>. QED
        BY <3>2, <4>1, FS_EmptySet
    <3>. QED
      BY <2>5, <3>1, <3>2
  <2>7. /\ Since(log, start, u, s, pos') = Since(log, start, u, s, pos) \cup {<<p, pos[p] + 1>>}
        /\ <<p, pos[p] + 1>> \notin Since(log, start, u, s, pos)
    BY <1>5, <1>r DEF Polled
  <2>8. IsFiniteSet(Since(log, start, u, s, pos))
    BY <1>2, SinceFinite
  <2>9. Cardinality(Since(log, start, u, s, pos')) = Cardinality(Since(log, start, u, s, pos)) + 1
    BY <2>7, <2>8, FS_AddElement
  <2>. QED
    BY <2>5, <2>6, <2>9
<1>6. CASE ~CountsFor(Polled(p), u, s)
  <2>1. Since(log, start, u, s, pos') = Since(log, start, u, s, pos)
    BY <1>6, <1>r DEF Polled
  <2>2. windows'[u][s] = windows[u][s]
    <3>1. CASE Aggregate(p)
      <4>1. Polled(p).userId \in Users /\ WindowStart(Polled(p).timestamp) \in WindowStarts
        BY <1>2, <3>1, PolledType DEF Aggregate, isPoisonPill, OrderEvent
      <4>2. ~(u = Polled(p).userId /\ s = WindowStart(Polled(p).timestamp))
        BY <1>6, <3>1 DEF Aggregate, CountsFor
      <4>. QED
        BY <3>1, <4>1, <4>2 DEF Aggregate, TypeOK, Counters
    <3>2. CASE RoutePoison(p) \/ Discard(p)
      BY <3>2 DEF RoutePoison, Discard
    <3>. QED
      BY <3>1, <3>2 DEF Read
  <2>. QED
    BY <1>2, <2>1, <2>2 DEF ExactInv, Exact
<1>. QED
  BY <1>5, <1>6

(* A window that fires hands an exact and final count to the JDBC sink. *)
LEMMA ExactFire ==
  ASSUME TypeOK, PoisonInv, SettledInv, ExactInv, status = "running",
         NEW ws, FireWindows(ws),
         \A s \in WindowStarts : Closed(s, ws) => Passed(log, pos, s)
  PROVE  Exact(windows', log, start, pos) /\ Exact(batch', log, start, Lengths(log))
<1>1. /\ pos \in Positions /\ Lengths(log) \in Positions /\ log \in [Partitions -> Seq(Orders)]
      /\ NoEarlier(pos, Lengths(log)) /\ NoEarlier(Lengths(log), Lengths(log))
  BY LengthsType DEF PoisonInv, Within, NoEarlier, Lengths, TypeOK
<1>2. Exact(windows', log, start, pos)
  BY DEF FireWindows, ExactInv, Exact
<1>3. ASSUME NEW u \in Users, NEW s \in WindowStarts, batch'[u][s] > 0,
             RowPunctual(log, u, s)
      PROVE  batch'[u][s] = Cardinality(Since(log, start, u, s, Lengths(log)))
  <2>1. CASE Closed(s, ws) /\ windows[u][s] > 0
    <3>1. batch'[u][s] = windows[u][s]
      BY <2>1 DEF FireWindows
    <3>2. windows[u][s] = Cardinality(Since(log, start, u, s, pos))
      BY <1>3, <2>1 DEF ExactInv, Exact
    <3>3. Since(log, start, u, s, Lengths(log)) = Since(log, start, u, s, pos)
      BY <1>1, <1>3, <2>1, PassedIsComplete
    <3>. QED
      BY <3>1, <3>2, <3>3
  <2>2. CASE ~(Closed(s, ws) /\ windows[u][s] > 0)
    <3>1. batch'[u][s] = batch[u][s]
      BY <2>2 DEF FireWindows
    <3>. QED
      BY <1>3, <3>1 DEF ExactInv, Exact
  <2>. QED
    BY <2>1, <2>2
<1>. QED
  BY <1>2, <1>3 DEF Exact

(* An appended order that is not late is of no window that is over. *)
LEMMA SinceAppended ==
  ASSUME TypeOK, NEW e \in Orders, Produce(e), NEW b, NEW u, NEW s,
         Passed(log, Lengths(log), s), RowPunctual(log', u, s)
  PROVE  /\ RowPunctual(log, u, s)
         /\ Since(log', b, u, s, Lengths(log')) = Since(log, b, u, s, Lengths(log))
<1> DEFINE m == Lengths(log)
           n == Lengths(log')
<1>1. /\ m \in Positions /\ Within(m) /\ n \in Positions
      /\ NoEarlier(m, n) /\ NoEarlier(n, Lengths(log')) /\ log' \in [Partitions -> Seq(Orders)]
  <2>1. TypeOK'
    BY TypeStep DEF Next
  <2>2. \A p \in Partitions : Len(log[p]) <= Len(log'[p]) /\ Len(log[p]) \in Nat /\ Len(log'[p]) \in Nat
    BY LogAppends DEF TypeOK
  <2>. QED
    BY <2>1, <2>2 DEF TypeOK, Lengths, Positions, Within, NoEarlier
<1>2. Passed(log, m, s)
  OBVIOUS
<1> SUFFICES RowPunctual(log, u, s) /\ Since(log', b, u, s, n) = Since(log, b, u, s, m)
  OBVIOUS
<1> HIDE DEF m, n
<1>3. Since(log', b, u, s, m) = Since(log, b, u, s, m) /\ Passed(log', m, s)
  BY <1>1, <1>2, AppendKeeps
<1>4. Since(log', b, u, s, n) = Since(log', b, u, s, m)
  BY <1>1, <1>3, PassedIsComplete
<1>. QED
  BY <1>3, <1>4, PunctualStays

(* So it leaves the final counts exact. *)
LEMMA ExactAppend ==
  ASSUME TypeOK, NEW e \in Orders, Produce(e), NEW w, NEW b,
         Exact(w, log, b, Lengths(log)), Final(w, log)
  PROVE  Exact(w, log', b, Lengths(log'))
BY SinceAppended DEF Exact, Final

(* Every step keeps every count that is there exact. *)
LEMMA ExactStep ==
  /\ TypeOK /\ PoisonInv /\ SourceInv /\ LineageInv /\ SettledInv /\ ExactInv
  /\ [Next]_vars
  => ExactInv'
<1> SUFFICES ASSUME TypeOK, PoisonInv, SourceInv, LineageInv, SettledInv, ExactInv,
                    [Next]_vars
             PROVE  ExactInv'
  OBVIOUS
<1>0. /\ pos \in Positions /\ pending.pos \in Positions /\ chk.pos \in Positions
      /\ start \in Positions /\ born \in Positions /\ Lengths(log) \in Positions
      /\ Within(pos) /\ Within(pending.pos) /\ Within(chk.pos)
  BY LengthsType DEF TypeOK, PoisonInv
<1>1. CASE \E e \in Orders : Produce(e)
  <2>1. PICK e \in Orders : Produce(e)
    BY <1>1
  <2>2. UNCHANGED <<status, start, born, pos, windows, batch, stats, pending, chk>>
    BY <2>1 DEF Produce
  <2>3. \A u, s : RowPunctual(log', u, s) => RowPunctual(log, u, s)
    BY <2>1, PunctualStays
  <2>4. ASSUME NEW n \in Positions, NEW w, Within(n), Exact(w, log, start, n)
        PROVE  Exact(w, log', start, n)
    BY <2>1, <2>3, <2>4, AppendKeeps DEF Exact
  <2>5. Exact(batch, log', start, Lengths(log'))
    BY <2>1, ExactAppend DEF SettledInv, ExactInv
  <2>6. start = born => Exact(stats, log', start, Lengths(log'))
    BY <2>1, ExactAppend DEF SettledInv, ExactInv
  <2>. QED
    BY <1>0, <2>2, <2>4, <2>5, <2>6 DEF ExactInv, PoisonInv
<1>2. CASE \E p \in Partitions : Read(p)
  <2>1. PICK p \in Partitions : Read(p)
    BY <1>2
  <2>2. UNCHANGED <<log, status, start, born, batch, stats, pending, chk>>
    BY <2>1 DEF Read, RoutePoison, Discard, Aggregate, Poll
  <2>3. Exact(windows', log, start, pos')
    BY <2>1, <2>2, ExactRead
  <2>. QED
    BY <2>2, <2>3 DEF ExactInv
<1>3. CASE \E r \in Readers : EmitWatermark(r)
  <2>1. /\ UNCHANGED <<log, status, start, born, pos, maxTs, stats, pending, chk>>
        /\ FireWindows(emitted') /\ status = "running"
    BY <1>3 DEF EmitWatermark
  <2>2. \A s \in WindowStarts : Closed(s, emitted') => Passed(log, pos, s)
    <3>1. /\ Follows(log, pos, maxTs, emitted') /\ emitted' \in [Readers -> Int]
          /\ maxTs \in [Partitions -> Times \cup {NoTimestamp}]
      BY <2>1, SourceStep, TypeStep DEF SourceInv, TypeOK
    <3>. QED
      BY <3>1, ClosedIsPassed
  <2>3. Exact(windows', log, start, pos) /\ Exact(batch', log, start, Lengths(log))
    BY <2>1, <2>2, ExactFire
  <2>. QED
    BY <2>1, <2>3 DEF ExactInv
<1>4. ASSUME log' = log
      PROVE  /\ Exact(NoWindows, log, start, Lengths(log))
             /\ start = born => Exact(Upserted, log, start, Lengths(log))
  <2>1. ASSUME start = born, NEW u \in Users, NEW s \in WindowStarts, Upserted[u][s] > 0,
               RowPunctual(log, u, s)
        PROVE  Upserted[u][s] = Cardinality(Since(log, start, u, s, Lengths(log)))
    BY <1>4, <2>1, UpsertedIsEither DEF ExactInv, Exact
  <2>2. start = born => Exact(Upserted, log, start, Lengths(log))
    BY <2>1 DEF Exact
  <2>. QED
    BY <2>2, NothingExact
<1>5. CASE FlushBatch
  <2>1. /\ UNCHANGED <<log, status, start, born, pos, windows, pending, chk>>
        /\ stats' = Upserted /\ batch' = NoWindows
    BY <1>5 DEF FlushBatch
  <2>. QED
    BY <1>4, <2>1 DEF ExactInv
<1>6. CASE TriggerCheckpoint
  <2>1. /\ UNCHANGED <<log, status, start, born, pos, windows, chk>> /\ status = "running"
        /\ stats' = Upserted /\ batch' = NoWindows
        /\ pending'.pos = pos /\ pending'.windows = windows
    BY <1>6 DEF TriggerCheckpoint, Checkpoint
  <2>. QED
    BY <1>4, <2>1 DEF ExactInv
<1>7. CASE CompleteCheckpoint \/ AbortCheckpoint
  <2>1. UNCHANGED <<log, status, start, born, pos, windows, batch, stats>>
    BY <1>7 DEF CompleteCheckpoint, AbortCheckpoint
  <2>2. /\ ~pending'.taken
        /\ chk' = chk \/ (pending.taken /\ chk' = pending)
    BY <1>7 DEF CompleteCheckpoint, AbortCheckpoint, NoCheckpoint
  <2>. QED
    BY <2>1, <2>2 DEF ExactInv
<1>8. CASE JobFails \/ LoseVolume
  <2>1. /\ UNCHANGED <<log, start, born, stats>> /\ status' = "down" /\ ~pending'.taken
        /\ batch' = NoWindows /\ (chk' = chk \/ ~chk'.taken)
    BY <1>8 DEF JobFails, LoseVolume, LoseVolatile, NoCheckpoint
  <2>. QED
    BY <1>4, <2>1 DEF ExactInv
<1>9. CASE StartAtLatest
  <2>1. /\ start' = Lengths(log) /\ pos' = Lengths(log)
        /\ UNCHANGED <<log, windows, batch, stats, pending, chk>>
        /\ ~pending.taken /\ ~chk.taken /\ status # "running"
        /\ (status = "new" \/ born' = born)
    BY <1>9 DEF StartAtLatest, PoisonInv, EndOfLog, Lengths
  <2>2. windows = NoWindows /\ batch = NoWindows
    BY <2>1 DEF SourceInv
  <2>3. start' = born' => Exact(stats, log, start', Lengths(log))
    <3>1. CASE status = "new"
      BY <3>1, NothingExact DEF LineageInv
    <3>2. CASE born' = born /\ start' = born'
      <4>1. born = Lengths(log)
        BY <2>1, <3>2
      <4>2. \A p \in Partitions : start[p] = born[p]
        BY <1>0, <4>1 DEF LineageInv, NoEarlier, Positions
      <4>3. start = born /\ start' = start
        BY <1>0, <2>1, <4>1, <4>2 DEF Positions
      <4>. QED
        BY <2>1, <4>3 DEF ExactInv
    <3>. QED
      BY <2>1, <3>1, <3>2
  <2>. QED
    BY <2>1, <2>2, <2>3, NothingExact DEF ExactInv
<1>10. CASE RestoreCheckpoint
  <2>1. /\ pos' = chk.pos /\ windows' = chk.windows /\ chk.taken
        /\ UNCHANGED <<log, start, born, batch, stats, pending, chk>>
    BY <1>10 DEF RestoreCheckpoint
  <2>. QED
    BY <2>1 DEF ExactInv
<1>11. CASE (\E c \in dlqBuf : SendToDlq(c)) \/ UNCHANGED vars
  <2>1. UNCHANGED <<log, status, start, born, pos, windows, batch, stats, pending, chk>>
    BY <1>11 DEF SendToDlq
  <2>. QED
    BY <2>1 DEF ExactInv
<1>. QED
  BY <1>1, <1>2, <1>3, <1>5, <1>6, <1>7, <1>8, <1>9, <1>10, <1>11 DEF Next

(* The properties of the job, in the terms of the invariant. *)
LEMMA CountedIsSince ==
  TypeOK => /\ \A u, s : CountedIn(u, s, pos) = Since(log, start, u, s, pos)
            /\ \A u, s : CountedIn(u, s, EndOfLog) = Since(log, start, u, s, Lengths(log))
            /\ \A u, s : RowOnTime(u, s) => RowPunctual(log, u, s)
<1> SUFFICES ASSUME TypeOK PROVE
      /\ \A u, s : CountedIn(u, s, pos) = Since(log, start, u, s, pos)
      /\ \A u, s : CountedIn(u, s, EndOfLog) = Since(log, start, u, s, Lengths(log))
      /\ \A u, s : RowOnTime(u, s) => RowPunctual(log, u, s)
  OBVIOUS
<1>1. EndOfLog = Lengths(log) /\ Lengths(log) \in Positions
  BY LengthsType DEF EndOfLog, Lengths
<1>2. \A n, u, s : CountedIn(u, s, n) = Since(log, start, u, s, n)
  BY DEF CountedIn, Lineage, Since, CountedOn, OrderAt
<1>3. ASSUME NEW u, NEW s, RowOnTime(u, s), NEW p \in Partitions,
             NEW i \in 1..Len(log[p]), CountsFor(log[p][i], u, s)
      PROVE  Punctual(log, p, i, s)
  <2>1. <<p, i>> \in Upto(EndOfLog)
    BY <1>1, UptoMember DEF Lengths
  <2>2. OnTime(<<p, i>>)
    BY <1>3, <2>1 DEF RowOnTime, Counted, OrderAt
  <2>. QED
    BY <1>3, <2>2, TolerableIsPunctual
<1>. QED
  BY <1>1, <1>2, <1>3 DEF RowPunctual

(* While its orders respect the tolerance, an open window holds each of them  *)
(* that was read so far once, across failures and replays from a checkpoint:    *)
(* positions and window state are always cut together.                        *)
THEOREM JobCountsOpenWindowsExactly == Spec => []OpenWindowExactWhenOnTime
<1>1. TypeOK /\ ExactInv => OpenWindowExactWhenOnTime
  BY CountedIsSince DEF ExactInv, Exact, OpenWindowExactWhenOnTime
<1>. QED
  BY <1>1, TypeInit, TypeStep, PoisonInit, PoisonStep, SourceInit, SourceStep,
     LineageInit, LineageStep, ExactInit, SettledStep, ExactStep, PTL DEF Spec

(* While its orders respect the tolerance and no restart has lost the state,  *)
(* whatever happens to other rows, a row of user_order_stats is final and     *)
(* counts each of its window's orders exactly once: exactly-once, in the form *)
(* the job keeps it.                                                          *)
THEOREM JobRowsExact == Spec => []RowExactWhenOnTime
<1>1. TypeOK /\ ExactInv => RowExactWhenOnTime
  BY CountedIsSince DEF ExactInv, Exact, RowExactWhenOnTime
<1>. QED
  BY <1>1, TypeInit, TypeStep, PoisonInit, PoisonStep, SourceInit, SourceStep,
     LineageInit, LineageStep, ExactInit, SettledStep, ExactStep, PTL DEF Spec

-----------------------------------------------------------------------------
(* Without a failure a window fires once.  A row that is in the table or on   *)
(* its way to it belongs to a closed window, and the watermark never goes     *)
(* back, so the window is never open again.                                   *)
FrozenInv ==
  crashes + losses = 0 =>
    /\ status # "down" /\ ~(status = "new" /\ chk.taken)
    /\ \A u \in Users, s \in WindowStarts :
         /\ batch[u][s] > 0 \/ stats[u][s] > 0 => Closed(s, emitted)
         /\ batch[u][s] = 0 \/ stats[u][s] = 0

(* Nothing has fired initially. *)
LEMMA FrozenInit == Init => FrozenInv
BY DEF Init, FrozenInv, NoWindows, NoCheckpoint

(* Every step but a failure keeps the fired windows closed. *)
LEMMA FrozenStep ==
  TypeOK /\ PoisonInv /\ WindowInv /\ FrozenInv /\ [Next]_vars => FrozenInv'
<1> SUFFICES ASSUME TypeOK, PoisonInv, WindowInv, FrozenInv, [Next]_vars,
                    crashes' + losses' = 0
             PROVE  FrozenInv'
  BY DEF FrozenInv
<1>0. crashes \in Nat /\ losses \in Nat /\ batch \in Counters /\ stats \in Counters
  BY BoundsAssumption DEF TypeOK
<1>1. CASE \E r \in Readers : EmitWatermark(r)
  <2>1. PICK r \in Readers : EmitWatermark(r)
    BY <1>1
  <2>2. /\ UNCHANGED <<status, stats, chk, crashes, losses>> /\ FireWindows(emitted')
        /\ status = "running"
        /\ \E v \in Int : v > emitted[r] /\ emitted' = [emitted EXCEPT ![r] = v]
    <3>1. PICK p \in Partitions : /\ WatermarkOf(maxTs[p]) > emitted[r]
                                  /\ emitted' = [emitted EXCEPT ![r] = WatermarkOf(maxTs[p])]
      BY <2>1 DEF EmitWatermark
    <3>2. WatermarkOf(maxTs[p]) \in Int
      BY TimestampType, TimeAssumption DEF TypeOK, WatermarkOf
    <3>. QED
      BY <2>1, <3>1, <3>2 DEF EmitWatermark
  <2>3. ASSUME NEW s \in WindowStarts, Closed(s, emitted) PROVE Closed(s, emitted')
    <3>1. MaxTimestamp(s) \in Nat /\ emitted \in [Readers -> Int]
      BY WindowEnd DEF TypeOK
    <3>. QED
      BY <2>2, <2>3, <3>1 DEF Closed
  <2>4. ASSUME NEW u \in Users, NEW s \in WindowStarts
        PROVE  /\ batch'[u][s] > 0 \/ stats[u][s] > 0 => Closed(s, emitted')
               /\ batch'[u][s] = 0 \/ stats[u][s] = 0
    <3>1. CASE Closed(s, emitted') /\ windows[u][s] > 0
      <4>1. ~Closed(s, emitted)
        BY <2>2, <3>1 DEF WindowInv, ClosedWindowsPurged
      <4>2. stats[u][s] = 0
        BY <1>0, <2>2, <4>1 DEF FrozenInv, Counters
      <4>. QED
        BY <3>1, <4>2
    <3>2. CASE ~(Closed(s, emitted') /\ windows[u][s] > 0)
      <4>1. batch'[u][s] = batch[u][s]
        BY <2>2, <3>2 DEF FireWindows
      <4>. QED
        BY <2>2, <2>3, <4>1 DEF FrozenInv
    <3>. QED
      BY <3>1, <3>2
  <2>. QED
    BY <2>2, <2>4 DEF FrozenInv
<1>2. CASE FlushBatch \/ TriggerCheckpoint
  <2>1. /\ UNCHANGED <<status, emitted, chk, crashes, losses>>
        /\ stats' = Upserted /\ batch' = NoWindows
    BY <1>2 DEF FlushBatch, TriggerCheckpoint
  <2>2. \A u \in Users, s \in WindowStarts :
          /\ NoWindows[u][s] = 0
          /\ Upserted[u][s] > 0 => batch[u][s] > 0 \/ stats[u][s] > 0
    BY DEF NoWindows, Upserted
  <2>. QED
    BY <2>1, <2>2 DEF FrozenInv, Closed
<1>3. CASE JobFails \/ LoseVolume
  BY <1>0, <1>3 DEF JobFails, LoseVolume
<1>4. CASE StartAtLatest \/ RestoreCheckpoint
  <2>1. UNCHANGED <<emitted, batch, stats, chk, crashes, losses>> /\ status' = "running"
    BY <1>4 DEF StartAtLatest, RestoreCheckpoint
  <2>. QED
    BY <2>1 DEF FrozenInv, Closed
<1>5. CASE CompleteCheckpoint \/ AbortCheckpoint
  <2>1. /\ UNCHANGED <<status, emitted, batch, stats, crashes, losses>>
        /\ status = "running"
    BY <1>5 DEF CompleteCheckpoint, AbortCheckpoint, PoisonInv
  <2>. QED
    BY <2>1 DEF FrozenInv, Closed
<1>6. CASE \/ (\E e \in Orders : Produce(e)) \/ (\E p \in Partitions : Read(p))
           \/ (\E c \in dlqBuf : SendToDlq(c)) \/ UNCHANGED vars
  <2>1. UNCHANGED <<status, emitted, batch, stats, chk, crashes, losses>>
    BY <1>6 DEF Produce, Read, RoutePoison, Discard, Aggregate, Poll, SendToDlq
  <2>. QED
    BY <2>1 DEF FrozenInv, Closed
<1>. QED
  BY <1>1, <1>2, <1>3, <1>4, <1>5, <1>6 DEF Next

(* Without a failure a row is written once: however late and out of order the *)
(* orders come, a window whose row is in the table never fires again.         *)
THEOREM JobRowsFrozen == Spec => RowsFrozenWithoutFailure
<1>1. TypeOK /\ TypeOK' /\ WindowInv /\ FrozenInv /\ [Next]_vars =>
        [crashes + losses = 0 =>
           \A u \in Users, s \in WindowStarts :
             stats[u][s] > 0 => stats'[u][s] = stats[u][s] /\ batch'[u][s] = 0]_vars
  <2> SUFFICES ASSUME TypeOK, TypeOK', WindowInv, FrozenInv, Next, crashes + losses = 0,
                      NEW u \in Users, NEW s \in WindowStarts, stats[u][s] > 0
               PROVE  stats'[u][s] = stats[u][s] /\ batch'[u][s] = 0
    OBVIOUS
  <2>1. batch[u][s] = 0 /\ Closed(s, emitted) /\ batch[u][s] \in Nat /\ stats[u][s] \in Nat
    BY DEF FrozenInv, TypeOK, Counters
  <2>2. Upserted[u][s] = stats[u][s] /\ NoWindows[u][s] = 0
    BY <2>1 DEF Upserted, NoWindows
  <2>3. CASE \E r \in Readers : EmitWatermark(r)
    <3>1. stats' = stats /\ FireWindows(emitted') /\ status = "running"
      BY <2>3 DEF EmitWatermark
    <3>2. ~(windows[u][s] > 0)
      BY <2>1, <3>1 DEF WindowInv, ClosedWindowsPurged
    <3>. QED
      BY <2>1, <3>1, <3>2 DEF FireWindows
  <2>4. CASE FlushBatch \/ TriggerCheckpoint
    BY <2>2, <2>4 DEF FlushBatch, TriggerCheckpoint
  <2>5. CASE JobFails \/ LoseVolume
    BY <2>2, <2>5 DEF JobFails, LoseVolume, LoseVolatile
  <2>6. CASE \/ (\E e \in Orders : Produce(e)) \/ (\E p \in Partitions : Read(p))
             \/ (\E c \in dlqBuf : SendToDlq(c))
             \/ CompleteCheckpoint \/ AbortCheckpoint
             \/ StartAtLatest \/ RestoreCheckpoint
    <3>1. UNCHANGED <<batch, stats>>
      BY <2>6 DEF Produce, Read, RoutePoison, Discard, Aggregate, Poll, SendToDlq,
                  CompleteCheckpoint, AbortCheckpoint, StartAtLatest, RestoreCheckpoint
    <3>. QED
      BY <2>1, <3>1
  <2>. QED
    BY <2>3, <2>4, <2>5, <2>6 DEF Next
<1>. QED
  BY <1>1, TypeInit, TypeStep, PoisonInit, PoisonStep, WindowInit, WindowStep,
     FrozenInit, FrozenStep, PTL DEF Spec, RowsFrozenWithoutFailure

-----------------------------------------------------------------------------
(* No on-time order is lost, in numbers.  If none of a row's orders is late,  *)
(* its counts are exact, also those in the table that an earlier lineage      *)
(* left: then the present one has read none of the row's orders.              *)
RecentInv ==
  \A u \in Users, s \in WindowStarts :
    stats[u][s] > 0 /\ RowPunctual(log, u, s) =>
      \/ Since(log, start, u, s, Lengths(log)) = {}
      \/ stats[u][s] = Cardinality(Since(log, start, u, s, Lengths(log)))

(* There is no row initially. *)
LEMMA RecentInit == Init => RecentInv
BY DEF Init, RecentInv, NoWindows

(* Every step keeps the rows exact or of an earlier lineage. *)
LEMMA RecentStep ==
  TypeOK /\ SettledInv /\ ExactInv /\ RecentInv /\ [Next]_vars => RecentInv'
<1> SUFFICES ASSUME TypeOK, SettledInv, ExactInv, RecentInv, [Next]_vars,
                    NEW u \in Users, NEW s \in WindowStarts,
                    stats'[u][s] > 0, RowPunctual(log', u, s)
             PROVE  \/ Since(log', start', u, s, Lengths(log')) = {}
                    \/ stats'[u][s] = Cardinality(Since(log', start', u, s, Lengths(log')))
  BY DEF RecentInv
<1>1. CASE \E e \in Orders : Produce(e)
  <2>1. PICK e \in Orders : Produce(e)
    BY <1>1
  <2>2. stats' = stats /\ start' = start
    BY <2>1 DEF Produce
  <2>3. Passed(log, Lengths(log), s)
    BY <2>2 DEF SettledInv, Final
  <2>4. /\ RowPunctual(log, u, s)
        /\ Since(log', start, u, s, Lengths(log')) = Since(log, start, u, s, Lengths(log))
    BY <2>1, <2>3, SinceAppended
  <2>. QED
    BY <2>2, <2>4 DEF RecentInv
<1>2. CASE FlushBatch \/ TriggerCheckpoint
  <2>1. stats' = Upserted /\ UNCHANGED <<log, start>>
    BY <1>2 DEF FlushBatch, TriggerCheckpoint
  <2>2. CASE batch[u][s] > 0 /\ Upserted[u][s] = batch[u][s]
    BY <2>1, <2>2 DEF ExactInv, Exact
  <2>3. CASE Upserted[u][s] = stats[u][s]
    BY <2>1, <2>3 DEF RecentInv
  <2>. QED
    BY <2>2, <2>3, UpsertedIsEither
<1>3. CASE StartAtLatest
  <2>1. start' = Lengths(log) /\ log' = log
    BY <1>3 DEF StartAtLatest, EndOfLog, Lengths
  <2>. QED
    BY <2>1, LengthsType, SinceStart
<1>4. CASE \/ \E p \in Partitions : Read(p)
           \/ \E r \in Readers : EmitWatermark(r)
           \/ \E c \in dlqBuf : SendToDlq(c)
           \/ CompleteCheckpoint \/ AbortCheckpoint \/ JobFails \/ LoseVolume
           \/ RestoreCheckpoint \/ UNCHANGED vars
  <2>1. UNCHANGED <<log, start, stats>>
    BY <1>4 DEF Read, RoutePoison, Discard, Aggregate, Poll, EmitWatermark, SendToDlq,
         CompleteCheckpoint, AbortCheckpoint, JobFails, LoseVolume, LoseVolatile,
         RestoreCheckpoint
  <2>. QED
    BY <2>1 DEF RecentInv
<1>. QED
  BY <1>1, <1>2, <1>3, <1>4 DEF Next

(* Without a failure the window, the buffer and the table together count at   *)
(* least the orders that came in time for their window: such an order finds   *)
(* it open, and what it adds stays in one of the three.                       *)
Due(l, b, u, s, n) == {c \in Since(l, b, u, s, n) : Punctual(l, c[1], c[2], s)}

DueInv ==
  crashes + losses = 0 =>
    \A u \in Users, s \in WindowStarts :
      /\ status = "running" =>
           windows[u][s] + batch[u][s] + stats[u][s]
             >= Cardinality(Due(log, start, u, s, pos))
      /\ pending.taken =>
           Larger(pending.windows[u][s], stats[u][s])
             >= Cardinality(Due(log, start, u, s, pending.pos))
      /\ chk.taken =>
           Larger(chk.windows[u][s], stats[u][s])
             >= Cardinality(Due(log, start, u, s, chk.pos))

(* They are finitely many. *)
LEMMA DueFinite ==
  ASSUME NEW l, NEW b, NEW u, NEW s, NEW n \in Positions
  PROVE  IsFiniteSet(Due(l, b, u, s, n)) /\ Cardinality(Due(l, b, u, s, n)) \in Nat
<1>1. Due(l, b, u, s, n) \in SUBSET Since(l, b, u, s, n)
  BY DEF Due
<1>. QED
  BY <1>1, SinceFinite, FS_Subset, FS_CardinalityType

(* A step that appends an order leaves those of a position alone. *)
LEMMA DueAppend ==
  ASSUME TypeOK, NEW e \in Orders, Produce(e), NEW n \in Positions, Within(n),
         NEW b, NEW u, NEW s
  PROVE  Due(log', b, u, s, n) = Due(log, b, u, s, n)
<1>1. Since(log', b, u, s, n) = Since(log, b, u, s, n)
  BY AppendKeeps
<1>2. ASSUME NEW c \in Since(log, b, u, s, n)
      PROVE  Punctual(log', c[1], c[2], s) <=> Punctual(log, c[1], c[2], s)
  <2>1. PICK p \in Partitions : \E i \in 1..n[p] : c = <<p, i>>
    BY <1>2, SinceMember
  <2>2. PICK i \in 1..n[p] : c = <<p, i>>
    BY <2>1
  <2>3. i \in 1..Len(log[p])
    BY DEF Within, Positions, TypeOK
  <2>4. \A j \in 1..(i - 1) : log'[p][j] = log[p][j]
    BY <2>3, LogAppends
  <2>. QED
    BY <2>2, <2>4 DEF Punctual
<1>. QED
  BY <1>1, <1>2 DEF Due

(* Reading an order that is in time adds one to what its window has counted. *)
LEMMA DueRead ==
  ASSUME TypeOK, PoisonInv, SourceInv, LineageInv, NEW p \in Partitions, Read(p),
         NEW u \in Users, NEW s \in WindowStarts
  PROVE  /\ windows'[u][s] \in Nat /\ windows[u][s] \in Nat
         /\ Cardinality(Due(log, start, u, s, pos')) \in Nat
         /\ windows'[u][s] - windows[u][s] >=
              Cardinality(Due(log, start, u, s, pos')) - Cardinality(Due(log, start, u, s, pos))
<1>1. Poll(p)
  BY DEF Read, RoutePoison, Discard, Aggregate
<1>2. /\ pos[p] < Len(log[p]) /\ status = "running"
      /\ pos \in Positions /\ start \in Positions
  BY <1>1 DEF Poll, TypeOK
<1>3. /\ pos' \in Positions /\ pos'[p] = pos[p] + 1
      /\ \A q \in Partitions \ {p} : pos'[q] = pos[q]
      /\ start[p] <= pos[p] /\ start[p] \in Nat /\ pos[p] \in Nat
      /\ pos[p] + 1 \in 1..Len(log[p])
  BY <1>1, <1>2 DEF Poll, Positions, LineageInv, NoEarlier, TypeOK
<1> DEFINE n == pos'
           c == <<p, pos[p] + 1>>
<1>4. /\ c \notin Since(log, start, u, s, pos)
      /\ CountsFor(log[p][pos[p] + 1], u, s) =>
           Since(log, start, u, s, n) = Since(log, start, u, s, pos) \cup {c}
      /\ ~CountsFor(log[p][pos[p] + 1], u, s) =>
           Since(log, start, u, s, n) = Since(log, start, u, s, pos)
  <2>1. /\ n \in Positions /\ n[p] = pos[p] + 1
        /\ \A q \in Partitions \ {p} : n[q] = pos[q]
    BY <1>3
  <2> HIDE DEF n
  <2>. QED
    BY <1>2, <1>3, <2>1, SinceReads
<1>5. /\ IsFiniteSet(Due(log, start, u, s, pos))
      /\ Cardinality(Due(log, start, u, s, pos)) \in Nat
  BY <1>2, DueFinite
<1>6. windows[u][s] \in Nat /\ windows'[u][s] \in Nat /\ windows'[u][s] >= windows[u][s]
  <2>1. CASE Aggregate(p)
    <3>1. Polled(p).userId \in Users /\ WindowStart(Polled(p).timestamp) \in WindowStarts
      BY <1>2, <2>1, PolledType DEF Aggregate, isPoisonPill, OrderEvent
    <3>. QED
      BY <2>1, <3>1 DEF Aggregate, TypeOK, Counters
  <2>2. CASE RoutePoison(p) \/ Discard(p)
    BY <2>2 DEF RoutePoison, Discard, TypeOK, Counters
  <2>. QED
    BY <2>1, <2>2 DEF Read
<1>7. CASE CountsFor(Polled(p), u, s) /\ Punctual(log, p, pos[p] + 1, s)
  <2>1. s = WindowStart(Polled(p).timestamp) /\ ~isPoisonPill(Polled(p))
        /\ Polled(p).status = "PLACED" /\ u = Polled(p).userId
    BY <1>7 DEF CountsFor
  <2>2. ~Passed(log, pos, s)
    BY <1>2, <1>3, <1>7, LateIsNotPunctual
  <2>3. ~Closed(s, emitted)
    BY <2>2, ClosedIsPassed DEF SourceInv, TypeOK
  <2>4. Aggregate(p)
    BY <2>1, <2>3 DEF Read, RoutePoison, Discard, Late
  <2>5. windows'[u][s] = windows[u][s] + 1
    BY <2>1, <2>4 DEF Aggregate, TypeOK, Counters
  <2>6. Due(log, start, u, s, n) = Due(log, start, u, s, pos) \cup {c}
    BY <1>4, <1>7 DEF Due, Polled
  <2>7. c \notin Due(log, start, u, s, pos)
    BY <1>4 DEF Due
  <2>8. Cardinality(Due(log, start, u, s, n)) = Cardinality(Due(log, start, u, s, pos)) + 1
    BY <1>5, <2>6, <2>7, FS_AddElement
  <2>. QED
    BY <1>5, <1>6, <2>5, <2>8
<1>8. CASE ~(CountsFor(Polled(p), u, s) /\ Punctual(log, p, pos[p] + 1, s))
  <2>1. Due(log, start, u, s, n) = Due(log, start, u, s, pos)
    BY <1>4, <1>8 DEF Due, Polled
  <2>. QED
    BY <1>5, <1>6, <2>1
<1>. QED
  BY <1>7, <1>8

(* No order is due initially. *)
LEMMA DueInit == Init => DueInv
BY DEF Init, DueInv, NoCheckpoint

(* An upsert shrinks no row while no failure has come. *)
LEMMA UpsertKeeps ==
  ASSUME TypeOK, FrozenInv, crashes + losses = 0, NEW u \in Users, NEW s \in WindowStarts
  PROVE  /\ Upserted[u][s] = batch[u][s] + stats[u][s]
         /\ batch[u][s] \in Nat /\ stats[u][s] \in Nat /\ NoWindows[u][s] = 0
<1>1. batch[u][s] \in Nat /\ stats[u][s] \in Nat
  BY DEF TypeOK, Counters
<1>2. batch[u][s] = 0 \/ stats[u][s] = 0
  BY DEF FrozenInv
<1>3. Upserted[u][s] = IF batch[u][s] > 0 THEN batch[u][s] ELSE stats[u][s]
  BY DEF Upserted
<1>. QED
  BY <1>1, <1>2, <1>3 DEF NoWindows

(* An accumulator excludes rows in the buffer and in the table. *)
LEMMA OpenOrFired ==
  ASSUME TypeOK, WindowInv, FrozenInv, crashes + losses = 0, status = "running",
         NEW u \in Users, NEW s \in WindowStarts
  PROVE  /\ windows[u][s] \in Nat
         /\ windows[u][s] = 0 \/ batch[u][s] + stats[u][s] = 0
<1>1. windows[u][s] \in Nat /\ batch[u][s] \in Nat /\ stats[u][s] \in Nat
  BY DEF TypeOK, Counters
<1>. QED
  BY <1>1 DEF WindowInv, ClosedWindowsPurged, FrozenInv

(* Of two counts one of which is 0, the larger is the sum. *)
LEMMA LargerIsSum ==
  ASSUME NEW a \in Nat, NEW b \in Nat, a = 0 \/ b = 0
  PROVE  Larger(a, b) = a + b
BY DEF Larger

(* Every step keeps the orders that are due counted. *)
LEMMA DueStep ==
  /\ TypeOK /\ PoisonInv /\ SourceInv /\ LineageInv /\ WindowInv /\ FrozenInv /\ DueInv
  /\ [Next]_vars
  => DueInv'
<1> SUFFICES ASSUME TypeOK, PoisonInv, SourceInv, LineageInv, WindowInv, FrozenInv, DueInv,
                    [Next]_vars, crashes' + losses' = 0,
                    NEW u \in Users, NEW s \in WindowStarts
             PROVE  /\ status' = "running" =>
                         windows'[u][s] + batch'[u][s] + stats'[u][s]
                           >= Cardinality(Due(log', start', u, s, pos'))
                    /\ pending'.taken =>
                         Larger(pending'.windows[u][s], stats'[u][s])
                           >= Cardinality(Due(log', start', u, s, pending'.pos))
                    /\ chk'.taken =>
                         Larger(chk'.windows[u][s], stats'[u][s])
                           >= Cardinality(Due(log', start', u, s, chk'.pos))
  BY DEF DueInv
<1>0. /\ crashes \in Nat /\ losses \in Nat
      /\ pos \in Positions /\ pending.pos \in Positions /\ chk.pos \in Positions
      /\ start \in Positions /\ Lengths(log) \in Positions
      /\ Within(pos) /\ Within(pending.pos) /\ Within(chk.pos)
      /\ batch[u][s] \in Nat /\ stats[u][s] \in Nat /\ windows[u][s] \in Nat
      /\ pending.windows[u][s] \in Nat /\ chk.windows[u][s] \in Nat
  BY LengthsType, BoundsAssumption DEF TypeOK, PoisonInv, Counters
<1>c. /\ Cardinality(Due(log, start, u, s, pos)) \in Nat
      /\ Cardinality(Due(log, start, u, s, pending.pos)) \in Nat
      /\ Cardinality(Due(log, start, u, s, chk.pos)) \in Nat
  BY <1>0, DueFinite
<1>1. CASE \E e \in Orders : Produce(e)
  <2>1. PICK e \in Orders : Produce(e)
    BY <1>1
  <2>2. UNCHANGED <<status, start, pos, windows, batch, stats, pending, chk, crashes, losses>>
    BY <2>1 DEF Produce
  <2>3. /\ Due(log', start, u, s, pos) = Due(log, start, u, s, pos)
        /\ Due(log', start, u, s, pending.pos) = Due(log, start, u, s, pending.pos)
        /\ Due(log', start, u, s, chk.pos) = Due(log, start, u, s, chk.pos)
    BY <1>0, <2>1, DueAppend
  <2>. QED
    BY <2>2, <2>3 DEF DueInv
<1>2. CASE \E p \in Partitions : Read(p)
  <2>1. PICK p \in Partitions : Read(p)
    BY <1>2
  <2>2. /\ UNCHANGED <<log, status, start, batch, stats, pending, chk, crashes, losses>>
        /\ status = "running"
    BY <2>1 DEF Read, RoutePoison, Discard, Aggregate, Poll
  <2>3. windows[u][s] + batch[u][s] + stats[u][s] >= Cardinality(Due(log, start, u, s, pos))
    BY <2>2 DEF DueInv
  <2>4. /\ windows'[u][s] \in Nat /\ Cardinality(Due(log, start, u, s, pos')) \in Nat
        /\ windows'[u][s] - windows[u][s] >=
             Cardinality(Due(log, start, u, s, pos')) - Cardinality(Due(log, start, u, s, pos))
    BY <2>1, DueRead
  <2>5. windows'[u][s] + batch[u][s] + stats[u][s] >= Cardinality(Due(log, start, u, s, pos'))
    BY <1>0, <1>c, <2>3, <2>4
  <2>. QED
    BY <2>2, <2>5 DEF DueInv
<1>3. CASE \E r \in Readers : EmitWatermark(r)
  <2>1. /\ UNCHANGED <<log, status, start, pos, stats, pending, chk, crashes, losses>>
        /\ FireWindows(emitted') /\ status = "running"
    BY <1>3 DEF EmitWatermark
  <2>2. windows[u][s] = 0 \/ batch[u][s] = 0
    BY <1>0, <2>1, OpenOrFired
  <2>3. windows'[u][s] + batch'[u][s] = windows[u][s] + batch[u][s]
    BY <1>0, <2>1, <2>2 DEF FireWindows
  <2>4. windows'[u][s] \in Nat /\ batch'[u][s] \in Nat
    BY <1>0, <2>1 DEF FireWindows
  <2>5. windows[u][s] + batch[u][s] + stats[u][s] >= Cardinality(Due(log, start, u, s, pos))
    BY <2>1 DEF DueInv
  <2>6. windows'[u][s] + batch'[u][s] + stats[u][s] >= Cardinality(Due(log, start, u, s, pos))
    BY <1>0, <1>c, <2>3, <2>4, <2>5
  <2>. QED
    BY <2>1, <2>6 DEF DueInv
<1>4. CASE FlushBatch \/ TriggerCheckpoint
  <2>1. /\ UNCHANGED <<log, status, start, pos, windows, chk, crashes, losses>>
        /\ status = "running" /\ stats' = Upserted /\ batch' = NoWindows
        /\ pending' = pending \/ (pending'.pos = pos /\ pending'.windows = windows)
    BY <1>4 DEF FlushBatch, TriggerCheckpoint, Checkpoint
  <2>2. stats'[u][s] = batch[u][s] + stats[u][s] /\ batch'[u][s] = 0
    BY <2>1, UpsertKeeps
  <2>3. windows[u][s] + batch[u][s] + stats[u][s] >= Cardinality(Due(log, start, u, s, pos))
    BY <2>1 DEF DueInv
  <2>4. windows[u][s] = 0 \/ batch[u][s] + stats[u][s] = 0
    BY <2>1, OpenOrFired
  <2>5. Larger(windows[u][s], stats'[u][s]) >= Cardinality(Due(log, start, u, s, pos))
    BY <1>0, <1>c, <2>2, <2>3, <2>4 DEF Larger
  <2>6. windows[u][s] + batch'[u][s] + stats'[u][s] >= Cardinality(Due(log, start, u, s, pos))
    BY <1>0, <1>c, <2>2, <2>3
  <2>7. chk.taken => Larger(chk.windows[u][s], stats'[u][s])
                       >= Cardinality(Due(log, start, u, s, chk.pos))
    <3>1. chk.taken => Larger(chk.windows[u][s], stats[u][s])
                         >= Cardinality(Due(log, start, u, s, chk.pos))
      BY <2>1 DEF DueInv
    <3>. QED
      BY <1>0, <1>c, <2>2, <3>1 DEF Larger
  <2>8. pending.taken => Larger(pending.windows[u][s], stats'[u][s])
                           >= Cardinality(Due(log, start, u, s, pending.pos))
    <3>1. pending.taken => Larger(pending.windows[u][s], stats[u][s])
                             >= Cardinality(Due(log, start, u, s, pending.pos))
      BY <2>1 DEF DueInv
    <3>. QED
      BY <1>0, <1>c, <2>2, <3>1 DEF Larger
  <2>. QED
    BY <2>1, <2>5, <2>6, <2>7, <2>8
<1>5. CASE CompleteCheckpoint \/ AbortCheckpoint
  <2>1. /\ UNCHANGED <<log, status, start, pos, windows, batch, stats, crashes, losses>>
        /\ ~pending'.taken
        /\ chk' = chk \/ (pending.taken /\ chk' = pending)
    BY <1>5 DEF CompleteCheckpoint, AbortCheckpoint, NoCheckpoint
  <2>. QED
    BY <2>1 DEF DueInv
<1>6. CASE StartAtLatest
  <2>1. /\ start' = Lengths(log) /\ pos' = Lengths(log) /\ ~pending.taken /\ ~chk.taken
        /\ UNCHANGED <<log, windows, batch, stats, pending, chk, crashes, losses>>
    BY <1>6 DEF StartAtLatest, PoisonInv, EndOfLog, Lengths
  <2>2. Since(log, Lengths(log), u, s, Lengths(log)) = {}
    BY <1>0, SinceStart
  <2>3. Cardinality(Due(log', start', u, s, pos')) = 0
    BY <2>1, <2>2, FS_EmptySet DEF Due
  <2>. QED
    BY <1>0, <2>1, <2>3
<1>7. CASE JobFails \/ LoseVolume \/ RestoreCheckpoint
  BY <1>0, <1>7 DEF JobFails, LoseVolume, RestoreCheckpoint, FrozenInv
<1>8. CASE (\E c \in dlqBuf : SendToDlq(c)) \/ UNCHANGED vars
  <2>1. UNCHANGED <<log, status, start, pos, windows, batch, stats, pending, chk, crashes, losses>>
    BY <1>8 DEF SendToDlq
  <2>. QED
    BY <2>1 DEF DueInv
<1>. QED
  BY <1>1, <1>2, <1>3, <1>4, <1>5, <1>6, <1>7, <1>8 DEF Next

(* On-time orders are due. *)
LEMMA OnTimeIsDue ==
  ASSUME TypeOK, NEW n \in Positions, Within(n), NEW u, NEW s
  PROVE  /\ OnTimeIn(u, s, n) \subseteq Due(log, start, u, s, n)
         /\ Cardinality(OnTimeIn(u, s, n)) \in Nat
         /\ Cardinality(OnTimeIn(u, s, n)) <= Cardinality(Due(log, start, u, s, n))
         /\ Cardinality(OnTimeIn(u, s, n)) <= Cardinality(Since(log, start, u, s, n))
<1>1. ASSUME NEW c \in OnTimeIn(u, s, n) PROVE c \in Due(log, start, u, s, n)
  <2>1. PICK p \in Partitions : \E i \in 1..n[p] :
          /\ c = <<p, i>> /\ start[p] < i /\ CountsFor(log[p][i], u, s)
          /\ OnTime(c) => Punctual(log, p, i, s)
    BY CountedInMember DEF OnTimeIn
  <2>2. OnTime(c)
    BY DEF OnTimeIn
  <2>3. c \in Since(log, start, u, s, n)
    BY <2>1, SinceMember DEF TypeOK, Positions
  <2>. QED
    BY <2>1, <2>2, <2>3 DEF Due
<1>2. Due(log, start, u, s, n) \subseteq Since(log, start, u, s, n)
  BY DEF Due
<1>3. OnTimeIn(u, s, n) \in SUBSET Due(log, start, u, s, n)
  BY <1>1
<1>4. OnTimeIn(u, s, n) \in SUBSET Since(log, start, u, s, n)
  BY <1>2, <1>3
<1>. QED
  BY <1>3, <1>4, DueFinite, SinceFinite, FS_Subset, FS_CardinalityType

(* Up to a position there are no more orders than up to the end. *)
LEMMA SinceBelow ==
  ASSUME TypeOK, NEW n \in Positions, Within(n), NEW b, NEW u, NEW s
  PROVE  Cardinality(Since(log, b, u, s, n)) <= Cardinality(Since(log, b, u, s, Lengths(log)))
<1>1. \A p \in Partitions : 1..n[p] \subseteq 1..Lengths(log)[p]
  BY DEF Within, Lengths, Positions, TypeOK
<1>2. ASSUME NEW c \in Since(log, b, u, s, n)
      PROVE  c \in Since(log, b, u, s, Lengths(log))
  <2>1. PICK p \in Partitions : \E i \in 1..n[p] :
          c = <<p, i>> /\ i > b[p] /\ CountsFor(log[p][i], u, s)
    BY <1>2, SinceMember
  <2>. QED
    BY <1>1, <2>1, LengthsType, SinceMember
<1>3. Since(log, b, u, s, n) \in SUBSET Since(log, b, u, s, Lengths(log))
  BY <1>2
<1>. QED
  BY <1>3, LengthsType, SinceFinite, FS_Subset

(* A count of a row none of whose orders is late is no smaller than the       *)
(* number of those up to n, wherever it is.                                   *)
LEMMA RowCovers ==
  ASSUME TypeOK, ExactInv, RecentInv, NEW n \in Positions, Within(n),
         NEW u \in Users, NEW s \in WindowStarts, RowOnTime(u, s)
  PROVE  /\ RowPunctual(log, u, s)
         /\ batch[u][s] > 0 => batch[u][s] >= Cardinality(OnTimeIn(u, s, n))
         /\ stats[u][s] > 0 => stats[u][s] >= Cardinality(OnTimeIn(u, s, n))
<1>1. RowPunctual(log, u, s)
  BY CountedIsSince
<1>2. /\ Cardinality(OnTimeIn(u, s, n)) <= Cardinality(Since(log, start, u, s, n))
      /\ Cardinality(Since(log, start, u, s, n))
           <= Cardinality(Since(log, start, u, s, Lengths(log)))
      /\ Cardinality(OnTimeIn(u, s, n)) \in Nat
      /\ Cardinality(Since(log, start, u, s, n)) \in Nat
      /\ Cardinality(Since(log, start, u, s, Lengths(log))) \in Nat
  BY OnTimeIsDue, SinceBelow, SinceFinite, LengthsType
<1>3. batch[u][s] \in Nat /\ stats[u][s] \in Nat
  BY DEF TypeOK, Counters
<1>4. batch[u][s] > 0 => batch[u][s] = Cardinality(Since(log, start, u, s, Lengths(log)))
  BY <1>1 DEF ExactInv, Exact
<1>5. stats[u][s] > 0 =>
        \/ Cardinality(Since(log, start, u, s, Lengths(log))) = 0
        \/ stats[u][s] = Cardinality(Since(log, start, u, s, Lengths(log)))
  BY <1>1, FS_EmptySet DEF RecentInv
<1>. QED
  BY <1>1, <1>2, <1>3, <1>4, <1>5

AllInv ==
  /\ TypeOK /\ PoisonInv /\ WindowInv /\ SourceInv /\ LineageInv /\ AccountedInv
  /\ SettledInv /\ ExactInv /\ FrozenInv /\ RecentInv /\ DueInv

(* The invariants hold together. *)
LEMMA AllInvariant == Spec => []AllInv
<1>1. Init => AllInv
  BY TypeInit, PoisonInit, WindowInit, SourceInit, LineageInit, AccountedInit, ExactInit,
     FrozenInit, RecentInit, DueInit DEF AllInv
<1>2. AllInv /\ [Next]_vars => AllInv'
  BY TypeStep, PoisonStep, WindowStep, SourceStep, LineageStep, AccountedStep, SettledStep,
     ExactStep, FrozenStep, RecentStep, DueStep DEF AllInv
<1>. QED
  BY <1>1, <1>2, PTL DEF Spec

(* No order within the tolerance that the job has read is lost: its window,   *)
(* the JDBC buffer or the table counts at least as many as there were, across *)
(* failures and replays as long as no order of the same row is late; the      *)
(* watermark drops no order that respects the documented tolerance.           *)
THEOREM JobAccountsForOnTimeOrders == Spec => []OnTimeOrderAccounted
<1>1. AllInv => OnTimeOrderAccounted
  <2> SUFFICES ASSUME AllInv, status = "running", NEW u \in Users, NEW s \in WindowStarts
               PROVE  CoversOnTime(Larger(windows[u][s], Larger(batch[u][s], stats[u][s])),
                                   u, s, pos)
    BY DEF OnTimeOrderAccounted
  <2>0. /\ windows[u][s] \in Nat /\ batch[u][s] \in Nat /\ stats[u][s] \in Nat
        /\ TypeOK /\ pos \in Positions /\ Within(pos)
    BY LengthsType DEF AllInv, PoisonInv, Counters
  <2>1. /\ Cardinality(OnTimeIn(u, s, pos)) \in Nat
        /\ Cardinality(OnTimeIn(u, s, pos)) <= Cardinality(Due(log, start, u, s, pos))
        /\ Cardinality(OnTimeIn(u, s, pos)) <= Cardinality(Since(log, start, u, s, pos))
        /\ Cardinality(Due(log, start, u, s, pos)) \in Nat
        /\ Cardinality(Since(log, start, u, s, pos)) \in Nat
    BY <2>0, OnTimeIsDue, DueFinite, SinceFinite
  <2>2. ASSUME OnTimeIn(u, s, pos) # {}
        PROVE  windows[u][s] > 0 \/ batch[u][s] > 0 \/ stats[u][s] > 0
    <3>1. PICK c \in CountedIn(u, s, pos) : OnTime(c)
      BY <2>2 DEF OnTimeIn
    <3>2. PICK p \in Partitions : \E i \in 1..pos[p] :
            /\ c = <<p, i>> /\ start[p] < i /\ CountsFor(log[p][i], u, s)
            /\ OnTime(c) => Punctual(log, p, i, s)
      BY <2>0, CountedInMember
    <3>3. <<u, s>> \in Held(windows) \cup Held(batch) \cup Held(stats)
      BY <3>1, <3>2 DEF AllInv, AccountedInv, Accounted
    <3>. QED
      BY <3>3 DEF Held
  <2>3. ASSUME crashes + losses = 0
        PROVE  Larger(windows[u][s], Larger(batch[u][s], stats[u][s]))
                 >= Cardinality(OnTimeIn(u, s, pos))
    <3>1. windows[u][s] + batch[u][s] + stats[u][s] >= Cardinality(Due(log, start, u, s, pos))
      BY <2>3 DEF AllInv, DueInv
    <3>2. windows[u][s] = 0 \/ batch[u][s] + stats[u][s] = 0
      BY <2>3, OpenOrFired DEF AllInv
    <3>3. batch[u][s] = 0 \/ stats[u][s] = 0
      BY <2>3 DEF AllInv, FrozenInv
    <3>4. Larger(batch[u][s], stats[u][s]) = batch[u][s] + stats[u][s]
      BY <2>0, <3>3, LargerIsSum
    <3>5. Larger(windows[u][s], batch[u][s] + stats[u][s])
            = windows[u][s] + (batch[u][s] + stats[u][s])
      <4>. DEFINE written == batch[u][s] + stats[u][s]
      <4>1. windows[u][s] \in Nat /\ written \in Nat
        BY <2>0
      <4>2. windows[u][s] = 0 \/ written = 0
        BY <3>2
      <4>. HIDE DEF written
      <4>3. Larger(windows[u][s], written) = windows[u][s] + written
        BY <4>1, <4>2, LargerIsSum, Zenon
      <4>. QED
        BY <4>3 DEF written
    <3>. QED
      BY <2>0, <2>1, <3>1, <3>4, <3>5
  <2>4. ASSUME RowOnTime(u, s)
        PROVE  Larger(windows[u][s], Larger(batch[u][s], stats[u][s]))
                 >= Cardinality(OnTimeIn(u, s, pos))
    <3>1. /\ RowPunctual(log, u, s)
          /\ batch[u][s] > 0 => batch[u][s] >= Cardinality(OnTimeIn(u, s, pos))
          /\ stats[u][s] > 0 => stats[u][s] >= Cardinality(OnTimeIn(u, s, pos))
      BY <2>0, <2>4, RowCovers DEF AllInv
    <3>2. windows[u][s] > 0 => windows[u][s] = Cardinality(Since(log, start, u, s, pos))
      BY <3>1 DEF AllInv, ExactInv, Exact
    <3>3. OnTimeIn(u, s, pos) = {} => Cardinality(OnTimeIn(u, s, pos)) = 0
      BY FS_EmptySet
    <3>. QED
      BY <2>0, <2>1, <2>2, <3>1, <3>2, <3>3 DEF Larger
  <2>5. OnTimeIn(u, s, pos) # {} => Larger(windows[u][s], Larger(batch[u][s], stats[u][s])) > 0
    BY <2>0, <2>2 DEF Larger
  <2>. QED
    BY <2>3, <2>4, <2>5 DEF CoversOnTime
<1>. QED
  BY <1>1, AllInvariant, PTL

(* The on-time orders behind a completed checkpoint are all counted by the    *)
(* window that the checkpoint holds or by their row of the table, because the *)
(* JDBC sink flushes before the positions become durable.                     *)
THEOREM JobCheckpointsOnTimeOrders == Spec => []CheckpointedOrdersDurable
<1>1. AllInv => CheckpointedOrdersDurable
  <2> SUFFICES ASSUME AllInv, chk.taken, NEW u \in Users, NEW s \in WindowStarts
               PROVE  CoversOnTime(Larger(chk.windows[u][s], stats[u][s]), u, s, chk.pos)
    BY DEF CheckpointedOrdersDurable
  <2>0. /\ chk.windows[u][s] \in Nat /\ stats[u][s] \in Nat
        /\ TypeOK /\ chk.pos \in Positions /\ Within(chk.pos)
    BY LengthsType DEF AllInv, PoisonInv, Counters
  <2>1. /\ Cardinality(OnTimeIn(u, s, chk.pos)) \in Nat
        /\ Cardinality(OnTimeIn(u, s, chk.pos)) <= Cardinality(Due(log, start, u, s, chk.pos))
        /\ Cardinality(OnTimeIn(u, s, chk.pos)) <= Cardinality(Since(log, start, u, s, chk.pos))
        /\ Cardinality(Due(log, start, u, s, chk.pos)) \in Nat
        /\ Cardinality(Since(log, start, u, s, chk.pos)) \in Nat
    BY <2>0, OnTimeIsDue, DueFinite, SinceFinite
  <2>2. ASSUME OnTimeIn(u, s, chk.pos) # {}
        PROVE  chk.windows[u][s] > 0 \/ stats[u][s] > 0
    <3>1. PICK c \in CountedIn(u, s, chk.pos) : OnTime(c)
      BY <2>2 DEF OnTimeIn
    <3>2. PICK p \in Partitions : \E i \in 1..chk.pos[p] :
            /\ c = <<p, i>> /\ start[p] < i /\ CountsFor(log[p][i], u, s)
            /\ OnTime(c) => Punctual(log, p, i, s)
      BY <2>0, CountedInMember
    <3>3. <<u, s>> \in Held(chk.windows) \cup Held(stats)
      BY <3>1, <3>2 DEF AllInv, AccountedInv, Accounted
    <3>. QED
      BY <3>3 DEF Held
  <2>3. ASSUME crashes + losses = 0
        PROVE  Larger(chk.windows[u][s], stats[u][s]) >= Cardinality(OnTimeIn(u, s, chk.pos))
    <3>1. Larger(chk.windows[u][s], stats[u][s]) >= Cardinality(Due(log, start, u, s, chk.pos))
      BY <2>3 DEF AllInv, DueInv
    <3>. QED
      BY <2>0, <2>1, <3>1 DEF Larger
  <2>4. ASSUME RowOnTime(u, s)
        PROVE  Larger(chk.windows[u][s], stats[u][s]) >= Cardinality(OnTimeIn(u, s, chk.pos))
    <3>1. /\ RowPunctual(log, u, s)
          /\ stats[u][s] > 0 => stats[u][s] >= Cardinality(OnTimeIn(u, s, chk.pos))
      BY <2>0, <2>4, RowCovers DEF AllInv
    <3>2. chk.windows[u][s] > 0 =>
            chk.windows[u][s] = Cardinality(Since(log, start, u, s, chk.pos))
      BY <3>1 DEF AllInv, ExactInv, Exact
    <3>3. OnTimeIn(u, s, chk.pos) = {} => Cardinality(OnTimeIn(u, s, chk.pos)) = 0
      BY FS_EmptySet
    <3>. QED
      BY <2>0, <2>1, <2>2, <3>1, <3>2, <3>3 DEF Larger
  <2>5. OnTimeIn(u, s, chk.pos) # {} => Larger(chk.windows[u][s], stats[u][s]) > 0
    BY <2>0, <2>2 DEF Larger
  <2>. QED
    BY <2>3, <2>4, <2>5 DEF CoversOnTime
<1>. QED
  BY <1>1, AllInvariant, PTL

-----------------------------------------------------------------------------
(* What is in the dead-letter sink, or on its topic, is a poison order that   *)
(* came after the job was first submitted.                                    *)
DeadLetter(c) ==
  /\ c[2] \in 1..Len(log[c[1]]) /\ born[c[1]] < c[2]
  /\ isPoisonPill(log[c[1]][c[2]])

DeadLettersInv ==
  /\ status = "new" => dlq \cup dlqBuf = {} /\ start = born
  /\ \A c \in dlq \cup dlqBuf : DeadLetter(c)

(* There are no dead letters initially.                                       *)
LEMMA DeadLettersInit == Init => DeadLettersInv
BY DEF Init, DeadLettersInv

(* Every step keeps them poison.                                              *)
LEMMA DeadLettersStep ==
  TypeOK /\ LineageInv /\ DeadLettersInv /\ [Next]_vars => DeadLettersInv'
<1>. SUFFICES ASSUME TypeOK, LineageInv, DeadLettersInv, [Next]_vars PROVE DeadLettersInv'
  OBVIOUS
<1>1. CASE \E e \in Orders : Produce(e)
  <2>. PICK e \in Orders : Produce(e)
    BY <1>1
  <2>1. UNCHANGED <<status, start, born, dlq, dlqBuf>>
    BY DEF Produce
  <2>. SUFFICES ASSUME NEW c \in dlq \cup dlqBuf PROVE DeadLetter(c)'
    BY <2>1 DEF DeadLettersInv
  <2>2. c[1] \in Partitions
    BY DEF TypeOK, Coordinates
  <2>3. DeadLetter(c)
    BY DEF DeadLettersInv
  <2>4. /\ Len(log[c[1]]) \in Nat /\ Len(log'[c[1]]) \in Nat
        /\ Len(log[c[1]]) <= Len(log'[c[1]])
        /\ log'[c[1]][c[2]] = log[c[1]][c[2]]
    BY <2>2, <2>3, LogAppends DEF TypeOK, DeadLetter
  <2>. QED
    BY <2>1, <2>3, <2>4 DEF DeadLetter
<1>2. CASE \E p \in Partitions : Read(p)
  <2>. PICK p \in Partitions : Read(p)
    BY <1>2
  <2>1. /\ Poll(p) /\ UNCHANGED <<log, dlq, status, start, born>> /\ pos[p] < Len(log[p])
        /\ status = "running"
    BY DEF Read, RoutePoison, Discard, Aggregate, Poll
  <2>2. \A c \in dlqBuf' : c \in dlqBuf \/ (c = <<p, pos[p] + 1>> /\ isPoisonPill(Polled(p)))
    BY DEF Read, RoutePoison, Discard, Aggregate
  <2>3. pos[p] + 1 \in 1..Len(log[p]) /\ born[p] < pos[p] + 1
    BY <2>1 DEF TypeOK, Positions, LineageInv, NoEarlier
  <2>4. isPoisonPill(Polled(p)) => DeadLetter(<<p, pos[p] + 1>>)
    BY <2>3 DEF DeadLetter, Polled
  <2>5. \A c \in dlq' \cup dlqBuf' : DeadLetter(c)
    BY <2>1, <2>2, <2>4 DEF DeadLettersInv
  <2>. QED
    BY <2>1, <2>5 DEF DeadLettersInv, DeadLetter
<1>3. CASE StartAtLatest
  <2>1. /\ UNCHANGED <<log, dlq, dlqBuf>> /\ status' = "running"
        /\ born' = born \/ dlq \cup dlqBuf = {}
    BY <1>3 DEF StartAtLatest, DeadLettersInv
  <2>. QED
    BY <2>1 DEF DeadLettersInv, DeadLetter
<1>4. CASE ~(\E e \in Orders : Produce(e)) /\ ~(\E p \in Partitions : Read(p)) /\ ~StartAtLatest
  <2>1. /\ dlq' \cup dlqBuf' \subseteq dlq \cup dlqBuf
        /\ UNCHANGED <<log, start, born>> /\ (status' = "new" => status = "new")
    BY <1>4 DEF Next, EmitWatermark, SendToDlq, FlushBatch, TriggerCheckpoint,
         CompleteCheckpoint, AbortCheckpoint, JobFails, LoseVolume, LoseVolatile,
         RestoreCheckpoint
  <2>. QED
    BY <2>1 DEF DeadLettersInv, DeadLetter
<1>. QED
  BY <1>1, <1>2, <1>3, <1>4

-----------------------------------------------------------------------------
(* The job implements OrderView: one lemma per action of the view, and every  *)
(* other step of the job leaves what its readers see alone.                   *)

(* The orders the view looks at, in the terms of the invariants.              *)
LEMMA ViewOrders ==
  ASSUME TypeOK, NEW u \in Users, NEW s \in WindowStarts
  PROVE  /\ <<u, s>> \in Keys
         /\ V!Of(<<u, s>>) = CountedOn(log, u, s, Lengths(log))
         /\ V!Of(<<u, s>>) \cap V!Covered = Since(log, born, u, s, Lengths(log))
         /\ V!InTime(<<u, s>>) => RowPunctual(log, u, s)
         /\ Passed(log, Lengths(log), s) => V!Ended(<<u, s>>)
<1>1. <<u, s>> \in Keys /\ <<u, s>>[1] = u /\ <<u, s>>[2] = s
  BY DEF Keys
<1>2. V!Held = Upto(Lengths(log))
  BY DEF V!Held, Upto, Lengths
<1>3. ASSUME NEW p \in Partitions, NEW i \in 1..Len(log[p])
      PROVE  log[p][i] \in Orders
  BY OrderType
<1>4. \A c \in Upto(Lengths(log)) : log[c[1]][c[2]] \in Orders
  <2>. SUFFICES ASSUME NEW c \in Upto(Lengths(log)) PROVE log[c[1]][c[2]] \in Orders
    OBVIOUS
  <2>1. PICK p \in Partitions : \E i \in 1..Lengths(log)[p] : c = <<p, i>>
    BY LengthsType, UptoMember
  <2>. QED
    BY <1>3, <2>1 DEF Lengths
<1>5. V!Of(<<u, s>>) = CountedOn(log, u, s, Lengths(log))
  BY <1>1, <1>2, <1>4 DEF V!Of, V!At, CountedOn
<1>6. V!Covered = {c \in Upto(Lengths(log)) : c[2] > born[c[1]]}
  BY <1>2 DEF V!Covered
<1>7. V!Of(<<u, s>>) \cap V!Covered = Since(log, born, u, s, Lengths(log))
  BY <1>5, <1>6 DEF Since, CountedOn
<1>8. ASSUME V!InTime(<<u, s>>) PROVE RowPunctual(log, u, s)
  <2>. SUFFICES ASSUME NEW p \in Partitions, NEW i \in 1..Len(log[p]),
                      CountsFor(log[p][i], u, s), NEW j \in 1..(i - 1)
               PROVE  ~(MaxTimestamp(s) <= WatermarkOf(log[p][j].timestamp))
    BY DEF RowPunctual, Punctual
  <2>1. j \in 1..Len(log[p])
    BY DEF TypeOK
  <2>. QED
    BY <1>1, <1>3, <1>8, <2>1 DEF V!InTime
<1>9. ASSUME Passed(log, Lengths(log), s) PROVE V!Ended(<<u, s>>)
  BY <1>1, <1>3, <1>9 DEF V!Ended, Passed, Lengths
<1>. QED
  BY <1>1, <1>5, <1>7, <1>8, <1>9

(* The view counts as the job does.                                           *)
LEMMA SameCardinality == \A S : V!Cardinality(S) = Cardinality(S)
BY DEF V!Cardinality, Cardinality

ViewInv == CountInv /\ LineageInv /\ SettledInv /\ ExactInv /\ FrozenInv /\ DeadLettersInv

(* A row in the JDBC buffer may be written.                                   *)
LEMMA BufferedIsDue ==
  ASSUME TypeOK, ViewInv, NEW u \in Users, NEW s \in WindowStarts, batch[u][s] > 0
  PROVE  V!Due(<<u, s>>, batch[u][s])
<1>1. batch[u][s] \in Nat /\ stats[u][s] \in Nat
  BY DEF TypeOK, Counters
<1>2. V!Ended(<<u, s>>)
  BY ViewOrders DEF ViewInv, SettledInv, Final
<1>3. batch[u][s] \in 1..Cardinality(V!Of(<<u, s>>))
  <2>1. batch[u][s] <= Cardinality(CountedOn(log, u, s, Lengths(log)))
    BY DEF ViewInv, CountInv, BoundedBy
  <2>2. Cardinality(CountedOn(log, u, s, Lengths(log))) \in Nat
    BY LengthsType, CountedFinite, FS_CardinalityType
  <2>. QED
    BY <1>1, <2>1, <2>2, ViewOrders
<1>4. ASSUME start = born, V!InTime(<<u, s>>)
      PROVE  batch[u][s] = Cardinality(V!Of(<<u, s>>) \cap V!Covered)
  <2>1. RowPunctual(log, u, s)
    BY <1>4, ViewOrders
  <2>2. batch[u][s] = Cardinality(Since(log, born, u, s, Lengths(log)))
    BY <1>4, <2>1 DEF ViewInv, ExactInv, Exact
  <2>. QED
    BY <2>2, ViewOrders
<1>5. ~(crashes + losses > 0) => stats[u][s] = 0
  <2>1. ~(crashes + losses > 0) => crashes + losses = 0
    BY BoundsAssumption DEF TypeOK
  <2>. QED
    BY <2>1 DEF ViewInv, FrozenInv
<1>6. [k \in Keys |-> stats[k[1]][k[2]]][<<u, s>>] = stats[u][s]
  BY DEF Keys
<1>. QED
  BY <1>2, <1>3, <1>4, <1>5, <1>6, SameCardinality DEF V!Due

(* The sinks deliver what they buffer.                                        *)
LEMMA ViewDeliver ==
  ASSUME TypeOK, TypeOK', ViewInv, status = "running", stats' \in {stats, Upserted},
         dlq \subseteq dlq', dlq' \subseteq dlq \cup dlqBuf,
         UNCHANGED <<log, status, start, born, crashes, losses>>
  PROVE  V!Deliver
<1> DEFINE table == [k \in Keys |-> stats[k[1]][k[2]]]
<1>1. table' \in [Keys -> Nat]
  BY DEF TypeOK, Counters, Keys
<1>2. ASSUME NEW k \in Keys PROVE table'[k] = table[k] \/ V!Due(k, table'[k])
  <2>1. PICK u \in Users, s \in WindowStarts : k = <<u, s>>
    BY DEF Keys
  <2>2. table[k] = stats[u][s] /\ table'[k] = stats'[u][s]
    BY <2>1
  <2>3. CASE batch[u][s] > 0 /\ stats' = Upserted
    <3>1. stats'[u][s] = batch[u][s]
      BY <2>3 DEF Upserted
    <3>. QED
      BY <2>1, <2>2, <2>3, <3>1, BufferedIsDue
  <2>4. CASE ~(batch[u][s] > 0) \/ stats' = stats
    <3>1. stats'[u][s] = stats[u][s]
      BY <2>4 DEF Upserted
    <3>. QED
      BY <2>2, <3>1
  <2>. QED
    BY <2>3, <2>4
<1>3. ASSUME NEW c \in dlq' \ dlq PROVE c \in V!Covered /\ V!At(c) \in {e \in Orders : isPoisonPill(e)}
  <2>1. c \in dlqBuf /\ DeadLetter(c)
    BY DEF ViewInv, DeadLettersInv
  <2>2. PICK p \in Partitions, i \in Nat \ {0} : c = <<p, i>>
    BY <2>1 DEF TypeOK, Coordinates
  <2>3. i \in 1..Len(log[p]) /\ born[p] < i /\ isPoisonPill(log[p][i])
    BY <2>1, <2>2 DEF DeadLetter
  <2>4. c \in V!Held
    BY <2>2, <2>3 DEF V!Held
  <2>5. born[p] \in Nat
    BY DEF TypeOK, Positions
  <2>6. c \in V!Covered
    BY <2>2, <2>3, <2>4, <2>5 DEF V!Covered
  <2>. QED
    BY <2>2, <2>3, <2>6, OrderType DEF V!At
<1>4. status # "new" /\ status' = status
  OBVIOUS
<1>. QED
  BY <1>1, <1>2, <1>3, <1>4 DEF V!Deliver

(* Every step of the job maps to one of the view.                             *)
LEMMA ViewStep ==
  TypeOK /\ TypeOK' /\ PoisonInv /\ ViewInv /\ [Next]_vars => [V!Next]_V!vars
<1>. SUFFICES ASSUME TypeOK, TypeOK', PoisonInv, ViewInv, [Next]_vars PROVE [V!Next]_V!vars
  OBVIOUS
<1>0. crashes \in Nat /\ losses \in Nat
  BY BoundsAssumption DEF TypeOK
<1>1. CASE \E e \in Orders : Produce(e)
  <2>1. PICK e \in Orders : Produce(e)
    BY <1>1
  <2>2. PartitionOf[e.userId] \in Partitions
    BY DataAssumption DEF OrderEvent
  <2>3. V!Arrive(PartitionOf[e.userId], e)
    BY <2>1 DEF Produce, V!Arrive
  <2>. QED
    BY <2>2, <2>3 DEF V!Next
<1>2. CASE StartAtLatest /\ status = "new"
  <2>1. /\ status' = "running" /\ start' = EndOfLog /\ born' = EndOfLog /\ start = born
        /\ UNCHANGED <<log, stats, dlq, crashes, losses>>
    BY <1>2 DEF StartAtLatest, ViewInv, DeadLettersInv
  <2>2. V!Submit
    BY <1>2, <2>1 DEF V!Submit, EndOfLog
  <2>. QED
    BY <2>2 DEF V!Next
<1>3. CASE StartAtLatest /\ status # "new"
  <2>1. /\ status = "down" /\ status' = "running" /\ start' = Lengths(log)
        /\ UNCHANGED <<log, born, stats, dlq, crashes, losses>>
    BY <1>3 DEF StartAtLatest, EndOfLog, Lengths
  <2>2. crashes + losses > 0
    BY <1>0, <2>1 DEF ViewInv, FrozenInv
  <2>3. CASE start' = born
    <3>1. \A p \in Partitions : start[p] = born[p]
      BY <2>1, <2>3 DEF ViewInv, LineageInv, NoEarlier, TypeOK, Positions
    <3>2. start = born
      BY <3>1 DEF TypeOK, Positions
    <3>. QED
      BY <2>1, <2>3, <3>2 DEF V!vars
  <2>4. CASE start' # born
    <3>1. V!Forget
      BY <2>1, <2>2, <2>4 DEF V!Forget
    <3>. QED
      BY <3>1 DEF V!Next
  <2>. QED
    BY <2>3, <2>4
<1>4. CASE JobFails \/ LoseVolume
  <2>1. /\ status = "running" /\ status' = "down" /\ crashes' + losses' > 0
        /\ UNCHANGED <<log, start, born, stats, dlq>>
    BY <1>0, <1>4 DEF JobFails, LoseVolume, LoseVolatile
  <2>2. V!Fail
    BY <2>1 DEF V!Fail
  <2>. QED
    BY <2>2 DEF V!Next
<1>5. CASE FlushBatch \/ TriggerCheckpoint \/ \E c \in dlqBuf : SendToDlq(c)
  <2>1. /\ status = "running" /\ stats' \in {stats, Upserted}
        /\ dlq \subseteq dlq' /\ dlq' \subseteq dlq \cup dlqBuf
        /\ UNCHANGED <<log, status, start, born, crashes, losses>>
    BY <1>5 DEF FlushBatch, TriggerCheckpoint, SendToDlq
  <2>2. V!Deliver
    BY <2>1, ViewDeliver
  <2>. QED
    BY <2>2 DEF V!Next
<1>6. CASE \/ \E p \in Partitions : Read(p)
           \/ \E r \in Readers : EmitWatermark(r)
           \/ CompleteCheckpoint \/ AbortCheckpoint \/ UNCHANGED vars
  <2>1. UNCHANGED <<log, status, start, born, stats, dlq, crashes, losses>>
    BY <1>6 DEF Read, RoutePoison, Discard, Aggregate, Poll, EmitWatermark,
         CompleteCheckpoint, AbortCheckpoint
  <2>. QED
    BY <2>1 DEF V!vars
<1>7. CASE RestoreCheckpoint
  <2>1. /\ status = "down" /\ status' = "running"
        /\ UNCHANGED <<log, start, born, stats, dlq, crashes, losses>>
    BY <1>7 DEF RestoreCheckpoint
  <2>. QED
    BY <2>1 DEF V!vars
<1>. QED
  BY <1>1, <1>2, <1>3, <1>4, <1>5, <1>6, <1>7 DEF Next

(* Whatever the job reads, buffers, checkpoints, loses and replays, who reads *)
(* its table and its dead-letter topic sees rows appear only when their       *)
(* window is over, exact if none of their own orders was late and no state    *)
(* was lost, never counting an order twice, written once without a failure,   *)
(* and dead letters that are poison and stay.                                 *)
THEOREM JobImplementsView == Spec => ImplementsView
<1>1. Init => V!Init
  BY DEF Init, V!Init, NoPos, NoWindows, Keys
<1>2. Init => ViewInv
  BY CountInit, LineageInit, ExactInit, FrozenInit, DeadLettersInit DEF ViewInv
<1>3. /\ TypeOK /\ PoisonInv /\ WindowInv /\ SourceInv /\ ViewInv /\ [Next]_vars
      => ViewInv' /\ [V!Next]_V!vars
  BY TypeStep, CountStep, LineageStep, SettledStep, ExactStep, FrozenStep, DeadLettersStep,
     ViewStep DEF ViewInv
<1>. QED
  BY <1>1, <1>2, <1>3, TypeInit, TypeStep, PoisonInit, PoisonStep, WindowInit, WindowStep,
     SourceInit, SourceStep, PTL DEF Spec, ImplementsView, V!Spec
=============================================================================
