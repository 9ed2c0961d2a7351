--------------------------- MODULE OrderEventJob ---------------------------
(***************************************************************************)
(* The Flink job of flink-jobs/: a Kafka source over the partitions of     *)
(* order-events with a bounded-out-of-orderness watermark, the validation  *)
(* step with its dead-letter side output, the one-minute tumbling          *)
(* event-time window per user that counts PLACED orders, the JDBC upsert   *)
(* sink and the at-least-once DLQ sink, under periodic checkpoints,        *)
(* failures, and restarts with or without a checkpoint.                    *)
(*                                                                         *)
(* Partition offsets are 1-based, so pos[p] is both the number of orders   *)
(* of p consumed and the offset of the last one.  The accumulator keeps    *)
(* only OrderAccumulator.count: totalAmount is updated by the same         *)
(* statements.  A count of 0 stands for "no accumulator" and "no row".     *)
(***************************************************************************)
EXTENDS Integers, Sequences, FiniteSets

CONSTANTS
  Partitions,      \* partitions of order-events
  Readers,         \* parallel source subtasks
  ReaderOf,        \* the subtask each partition (split) is assigned to
  Users,           \* non-empty user ids
  EmptyId,         \* the id that is null or ""
  OrderIds,        \* non-empty order ids
  Amounts,         \* amounts, integers standing for doubles
  Times,           \* event timestamps
  Orders,          \* the orders that may appear on the topic
  PartitionOf,     \* the partitioner, by user id
  WindowSize,      \* Time.minutes(1)
  OutOfOrderness,  \* MAX_OUT_OF_ORDERNESS
  MaxOrders,       \* bound: orders appended to the topic
  MaxCrashes,      \* bound: job failures
  MaxLosses        \* bound: losses of the checkpoint volume

Statuses == {"PLACED", "SHIPPED", "CANCELLED"}

(* A record of order-events, after the value-only deserializer. *)
OrderEvent == [userId : Users \cup {EmptyId}, orderId : OrderIds \cup {EmptyId},
               amount : Amounts, status : Statuses, timestamp : Times]

ASSUME PartitionsAssumption == IsFiniteSet(Partitions) /\ Partitions # {}
ASSUME ReadersAssumption ==
  /\ IsFiniteSet(Readers) /\ Readers # {}
  /\ ReaderOf \in [Partitions -> Readers]
  /\ \A r \in Readers : \E p \in Partitions : ReaderOf[p] = r
ASSUME UsersAssumption == EmptyId \notin Users
ASSUME DataAssumption ==
  /\ Amounts \subseteq Int /\ Times \subseteq Nat
  /\ Orders \subseteq OrderEvent
  /\ PartitionOf \in [Users \cup {EmptyId} -> Partitions]
ASSUME TimeAssumption == WindowSize \in Nat \ {0} /\ OutOfOrderness \in Nat
ASSUME BoundsAssumption == MaxOrders \in Nat /\ MaxCrashes \in Nat /\ MaxLosses \in Nat

VARIABLES
  log,       \* order-events: the orders of each partition, in offset order
  status,    \* "new" (never submitted), "running" or "down"
  start,     \* offset after which the current lineage of state has read
  born,      \* history: the value of start at the first submission
  pos,       \* source position of each split
  maxTs,     \* BoundedOutOfOrdernessWatermarks.maxTimestamp of each split
  emitted,   \* last watermark each source subtask sent downstream
  windows,   \* window state: orders counted per user and window start
  batch,     \* rows buffered in the JDBC sink (the last one per key wins)
  stats,     \* table user_order_stats: order_count per primary key
  dlqBuf,    \* poison orders buffered in the DLQ sink's producer
  dlq,       \* poison orders on order-events-dlq, by origin
  pending,   \* the checkpoint in flight
  chk,       \* the last completed checkpoint
  crashes,   \* failures so far
  losses     \* checkpoint volumes lost so far

sourceVars == <<pos, maxTs, emitted>>
sinkVars   == <<batch, stats, dlqBuf, dlq>>
chkVars    == <<pending, chk>>
envVars    == <<crashes, losses>>
vars == <<log, status, start, born, sourceVars, windows, sinkVars, chkVars, envVars>>

-----------------------------------------------------------------------------
(* Pure parts of the job. *)

(* Mutant: the boundary taken for negative. *)
isPoisonPill_NotPositive(e) == e.amount <= 0 \/ e.userId = EmptyId \/ e.orderId = EmptyId

isPoisonPill(e) == e.amount < 0 \/ e.userId = EmptyId \/ e.orderId = EmptyId

WindowStart(t) == t - (t % WindowSize)
WindowStarts == {WindowStart(t) : t \in Times}
MaxTimestamp(s) == s + WindowSize - 1

(* An order that the window (u, s) has to count. *)
CountsFor(e, u, s) ==
  /\ ~isPoisonPill(e) /\ e.status = "PLACED"
  /\ e.userId = u /\ WindowStart(e.timestamp) = s

Larger(a, b) == IF a >= b THEN a ELSE b

(* Mutant: watermarks without the tolerance (forMonotonousTimestamps). *)
WatermarkOf_NoTolerance(t) == t - 1

(* The initial maxTimestamp, below every event; its watermark is MinWatermark. *)
NoTimestamp == -1
WatermarkOf(t) == t - OutOfOrderness - 1
MinWatermark == WatermarkOf(NoTimestamp)

(* Mutant: the window operator follows its fastest input. *)
Closed_Fastest(s, ws) == \E r \in Readers : MaxTimestamp(s) <= ws[r]

(* Mutant: windows fire a tick early. *)
Closed_Early(s, ws) == \A r \in Readers : MaxTimestamp(s) - 1 <= ws[r]

(* The watermark of the window operator is the least of its inputs': ws has    *)
(* closed the window at s when every input is at its last timestamp or later.  *)
Closed(s, ws) == \A r \in Readers : MaxTimestamp(s) <= ws[r]

NoWindows == [u \in Users |-> [s \in WindowStarts |-> 0]]
NoPos == [p \in Partitions |-> 0]
EndOfLog == [p \in Partitions |-> Len(log[p])]
NoCheckpoint == [taken |-> FALSE, pos |-> NoPos, windows |-> NoWindows]
Checkpoint(n, w) == [taken |-> TRUE, pos |-> n, windows |-> w]

(* Mutant: order_count = user_order_stats.order_count + EXCLUDED.order_count. *)
Upserted_Adds == [u \in Users |-> [s \in WindowStarts |-> stats[u][s] + batch[u][s]]]

(* The table after the buffered upserts: order_count = EXCLUDED.order_count. *)
Upserted == [u \in Users |-> [s \in WindowStarts |->
               IF batch[u][s] > 0 THEN batch[u][s] ELSE stats[u][s]]]

(* Offsets of the log up to the positions n, as <<partition, offset>>. *)
Upto(n) == UNION {{p} \X (1..n[p]) : p \in Partitions}
OrderAt(c) == log[c[1]][c[2]]
Counted(u, s, n) == {c \in Upto(n) : CountsFor(OrderAt(c), u, s)}

-----------------------------------------------------------------------------
Init ==
  /\ log = [p \in Partitions |-> <<>>]
  /\ status = "new"
  /\ start = NoPos /\ born = NoPos /\ pos = NoPos
  /\ maxTs = [p \in Partitions |-> NoTimestamp]
  /\ emitted = [r \in Readers |-> MinWatermark]
  /\ windows = NoWindows
  /\ batch = NoWindows /\ stats = NoWindows
  /\ dlqBuf = {} /\ dlq = {}
  /\ pending = NoCheckpoint /\ chk = NoCheckpoint
  /\ crashes = 0 /\ losses = 0

(* A producer, or the retry consumer, appends an order to its key's partition. *)
Produce(e) ==
  LET p == PartitionOf[e.userId] IN
  /\ Cardinality(Upto(EndOfLog)) < MaxOrders
  /\ log' = [log EXCEPT ![p] = Append(@, e)]
  /\ UNCHANGED <<status, start, born, sourceVars, windows, sinkVars, chkVars, envVars>>

(* The source reads the next order of p; the watermark generator of the split *)
(* sees its timestamp before the order is validated.                          *)
Polled(p) == log[p][pos[p] + 1]
Poll(p) ==
  /\ status = "running"
  /\ pos[p] < Len(log[p])
  /\ pos' = [pos EXCEPT ![p] = @ + 1]
  /\ maxTs' = [maxTs EXCEPT ![p] = Larger(@, Polled(p).timestamp)]
  /\ UNCHANGED <<log, status, start, born, emitted, batch, stats, dlq, chkVars, envVars>>

(* Mutants: the boundary taken for on time; late orders let in. *)
Late_Boundary(e) == \A r \in Readers : MaxTimestamp(WindowStart(e.timestamp)) < emitted[r]
Late_Never(e) == FALSE

(* WindowOperator.isWindowLate, with no allowed lateness. *)
Late(e) == Closed(WindowStart(e.timestamp), emitted)

(* Mutant: the buffered record carries the wrong offset. *)
RoutePoison_OffByOne(p) ==
  /\ Poll(p)
  /\ isPoisonPill(Polled(p))
  /\ dlqBuf' = dlqBuf \cup {<<p, pos[p]>>}
  /\ UNCHANGED windows

(* ctx.output(DLQ_TAG, event), handed to the DLQ sink's producer. *)
RoutePoison(p) ==
  /\ Poll(p)
  /\ isPoisonPill(Polled(p))
  /\ dlqBuf' = dlqBuf \cup {<<p, pos[p] + 1>>}
  /\ UNCHANGED windows

(* A valid order that is not PLACED stops at the filter; a PLACED one whose   *)
(* window is behind the watermark is dropped by the window operator.          *)
Discard(p) ==
  /\ Poll(p)
  /\ ~isPoisonPill(Polled(p))
  /\ Polled(p).status # "PLACED" \/ Late(Polled(p))
  /\ UNCHANGED <<windows, dlqBuf>>

(* Mutant: each order starts its window's accumulator anew. *)
Aggregate_Resets(p) ==
  LET e == Polled(p) IN
  /\ Poll(p)
  /\ ~isPoisonPill(e) /\ e.status = "PLACED" /\ ~Late(e)
  /\ windows' = [windows EXCEPT ![e.userId][WindowStart(e.timestamp)] = 1]
  /\ UNCHANGED dlqBuf

(* OrderWindowAggregator.add on the accumulator of the order's window. *)
Aggregate(p) ==
  LET e == Polled(p) IN
  /\ Poll(p)
  /\ ~isPoisonPill(e) /\ e.status = "PLACED" /\ ~Late(e)
  /\ windows' = [windows EXCEPT ![e.userId][WindowStart(e.timestamp)] = @ + 1]
  /\ UNCHANGED dlqBuf

(* Mutant: a timer fires only once the watermark is past it. *)
FireWindows_AfterEnd(ws) ==
  LET Past(s) == \A r \in Readers : MaxTimestamp(s) < ws[r] IN
  /\ windows' = [u \in Users |-> [s \in WindowStarts |->
                   IF Past(s) THEN 0 ELSE windows[u][s]]]
  /\ batch' = [u \in Users |-> [s \in WindowStarts |->
                 IF Past(s) /\ windows[u][s] > 0 THEN windows[u][s] ELSE batch[u][s]]]

(* The event-time timers up to the watermark ws: each window they close emits  *)
(* its result to the JDBC sink and is purged.                                  *)
FireWindows(ws) ==
  /\ windows' = [u \in Users |-> [s \in WindowStarts |->
                   IF Closed(s, ws) THEN 0 ELSE windows[u][s]]]
  /\ batch' = [u \in Users |-> [s \in WindowStarts |->
                 IF Closed(s, ws) /\ windows[u][s] > 0 THEN windows[u][s] ELSE batch[u][s]]]

(* The periodic emission of source subtask r: the watermark of its slowest     *)
(* split, sent only when it advances.                                          *)
Splits(r) == {p \in Partitions : ReaderOf[p] = r}
Slowest(p, r) == p \in Splits(r) /\ \A q \in Splits(r) : maxTs[p] <= maxTs[q]
EmitWatermark(r) ==
  /\ status = "running"
  /\ \E p \in Partitions :
       /\ Slowest(p, r)
       /\ WatermarkOf(maxTs[p]) > emitted[r]
       /\ emitted' = [emitted EXCEPT ![r] = WatermarkOf(maxTs[p])]
  /\ FireWindows(emitted')
  /\ UNCHANGED <<log, status, start, born, pos, maxTs, stats, dlqBuf, dlq, chkVars, envVars>>

(* The JDBC sink executes its batch: batch size, interval, or close. *)
FlushBatch ==
  /\ status = "running"
  /\ batch # NoWindows
  /\ stats' = Upserted
  /\ batch' = NoWindows
  /\ UNCHANGED <<log, status, start, born, sourceVars, windows, dlqBuf, dlq, chkVars, envVars>>

(* The DLQ sink's producer gets a record acknowledged, in any order. *)
SendToDlq(c) ==
  /\ status = "running"
  /\ c \in dlqBuf
  /\ dlq' = dlq \cup {c}
  /\ dlqBuf' = dlqBuf \ {c}
  /\ UNCHANGED <<log, status, start, born, sourceVars, windows, batch, stats, chkVars, envVars>>

(* Mutants: a sink does not flush on the barrier (DeliveryGuarantee.NONE; a   *)
(* plain RichSinkFunction).                                                   *)
TriggerCheckpoint_DlqUnflushed ==
  /\ status = "running" /\ ~pending.taken
  /\ pending' = Checkpoint(pos, windows)
  /\ stats' = Upserted /\ batch' = NoWindows
  /\ UNCHANGED <<log, status, start, born, sourceVars, windows, dlq, dlqBuf, chk, envVars>>
TriggerCheckpoint_JdbcUnflushed ==
  /\ status = "running" /\ ~pending.taken
  /\ pending' = Checkpoint(pos, windows)
  /\ dlq' = dlq \cup dlqBuf /\ dlqBuf' = {}
  /\ UNCHANGED <<log, status, start, born, sourceVars, windows, batch, stats, chk, envVars>>

(* The barriers cross the job: positions and windows are cut consistently and *)
(* both sinks flush before they acknowledge.  The watermark is not part of it.*)
TriggerCheckpoint ==
  /\ status = "running" /\ ~pending.taken
  /\ pending' = Checkpoint(pos, windows)
  /\ stats' = Upserted /\ batch' = NoWindows
  /\ dlq' = dlq \cup dlqBuf /\ dlqBuf' = {}
  /\ UNCHANGED <<log, status, start, born, sourceVars, windows, chk, envVars>>

CompleteCheckpoint ==
  /\ pending.taken
  /\ chk' = pending
  /\ pending' = NoCheckpoint
  /\ UNCHANGED <<log, status, start, born, sourceVars, windows, sinkVars, envVars>>

(* A checkpoint that times out or cannot be stored is declined and tolerated. *)
AbortCheckpoint ==
  /\ pending.taken
  /\ pending' = NoCheckpoint
  /\ UNCHANGED <<log, status, start, born, sourceVars, windows, sinkVars, chk, envVars>>

(* What a failure takes with it: the positions, the window state, the         *)
(* watermark generators, both sink buffers and the checkpoint in flight.      *)
LoseVolatile ==
  /\ status' = "down"
  /\ pos' = NoPos /\ windows' = NoWindows
  /\ maxTs' = [p \in Partitions |-> NoTimestamp]
  /\ emitted' = [r \in Readers |-> MinWatermark]
  /\ batch' = NoWindows /\ dlqBuf' = {}
  /\ pending' = NoCheckpoint
  /\ UNCHANGED <<log, start, born, stats, dlq>>

JobFails ==
  /\ status = "running"
  /\ crashes < MaxCrashes
  /\ crashes' = crashes + 1
  /\ LoseVolatile
  /\ UNCHANGED <<chk, losses>>

(* The pod and its checkpoint volume go, or the job is submitted anew. *)
LoseVolume ==
  /\ status = "running" /\ chk.taken
  /\ losses < MaxLosses
  /\ losses' = losses + 1
  /\ LoseVolatile
  /\ chk' = NoCheckpoint
  /\ UNCHANGED crashes

(* OffsetsInitializer.latest(): with no checkpoint the splits start at the end *)
(* of the log, on the first submission and on every restart alike.            *)
StartAtLatest ==
  /\ status = "new" \/ (status = "down" /\ ~chk.taken)
  /\ status' = "running"
  /\ start' = EndOfLog /\ pos' = EndOfLog
  /\ born' = IF status = "new" THEN EndOfLog ELSE born
  /\ UNCHANGED <<log, maxTs, emitted, windows, sinkVars, chkVars, envVars>>

(* Mutants: restored positions are ignored; restored state is ignored. *)
RestoreCheckpoint_AtLatest ==
  /\ status = "down" /\ chk.taken
  /\ status' = "running"
  /\ pos' = EndOfLog /\ windows' = chk.windows
  /\ UNCHANGED <<log, start, born, maxTs, emitted, sinkVars, chkVars, envVars>>
RestoreCheckpoint_NoState ==
  /\ status = "down" /\ chk.taken
  /\ status' = "running"
  /\ pos' = chk.pos
  /\ UNCHANGED <<log, start, born, maxTs, emitted, windows, sinkVars, chkVars, envVars>>

RestoreCheckpoint ==
  /\ status = "down" /\ chk.taken
  /\ status' = "running"
  /\ pos' = chk.pos /\ windows' = chk.windows
  /\ UNCHANGED <<log, start, born, maxTs, emitted, sinkVars, chkVars, envVars>>

Read(p) == RoutePoison(p) \/ Discard(p) \/ Aggregate(p)

Next ==
  \/ \E e \in Orders : Produce(e)
  \/ \E p \in Partitions : Read(p)
  \/ \E r \in Readers : EmitWatermark(r)
  \/ \E c \in dlqBuf : SendToDlq(c)
  \/ FlushBatch
  \/ TriggerCheckpoint \/ CompleteCheckpoint \/ AbortCheckpoint
  \/ JobFails \/ LoseVolume
  \/ StartAtLatest \/ RestoreCheckpoint

Spec == Init /\ [][Next]_vars

(* The source threads, the periodic watermark timer, the sinks' flushing and  *)
(* the job manager's restart strategy keep running; checkpoints and new       *)
(* orders owe nothing.                                                        *)
Fairness ==
  /\ \A p \in Partitions : WF_vars(Read(p))
  /\ \A r \in Readers : WF_vars(EmitWatermark(r))
  /\ WF_vars(\E c \in dlqBuf : SendToDlq(c))
  /\ WF_vars(FlushBatch)
  /\ WF_vars(StartAtLatest \/ RestoreCheckpoint)

FairSpec == Spec /\ Fairness

-----------------------------------------------------------------------------
(* Properties *)

Counters == [Users -> [WindowStarts -> Nat]]
Positions == [Partitions -> Nat]
Coordinates == Partitions \X (Nat \ {0})
Checkpoints == [taken : BOOLEAN, pos : Positions, windows : Counters]

(* Every variable of the job keeps its type. *)
TypeOK ==
  /\ log \in [Partitions -> Seq(Orders)]
  /\ status \in {"new", "running", "down"}
  /\ start \in Positions /\ born \in Positions /\ pos \in Positions
  /\ maxTs \in [Partitions -> Times \cup {NoTimestamp}]
  /\ emitted \in [Readers -> Int]
  /\ windows \in Counters /\ batch \in Counters /\ stats \in Counters
  /\ dlqBuf \subseteq Coordinates /\ dlq \subseteq Coordinates
  /\ pending \in Checkpoints /\ chk \in Checkpoints
  /\ crashes \in 0..MaxCrashes /\ losses \in 0..MaxLosses

(* The documented tolerance: an order at most OutOfOrderness older than every *)
(* order before it in its partition.                                          *)
OnTime(c) == \A j \in 1..(c[2] - 1) :
               log[c[1]][j].timestamp - OutOfOrderness <= OrderAt(c).timestamp
RowOnTime(u, s) == \A c \in Counted(u, s, EndOfLog) : OnTime(c)

(* The offsets up to n that the current lineage of state has read. *)
Lineage(n) == {c \in Upto(n) : c[2] > start[c[1]]}
CountedIn(u, s, n) == {c \in Lineage(n) : CountsFor(OrderAt(c), u, s)}

(* No row ever counts more orders than the topic holds for its user and       *)
(* window: whatever the replays, restarts and re-executed batches, no order   *)
(* is counted twice (OrderEventJob.java:116-120, upsert by replacement).      *)
RowNeverOverstates ==
  \A u \in Users, s \in WindowStarts :
    stats[u][s] <= Cardinality(Counted(u, s, EndOfLog))

(* While the orders of a window respect the 5 s tolerance, whatever those of   *)
(* others do, and no restart has lost the state, its row in the table is      *)
(* final and exact, across failures and replays from a checkpoint: the        *)
(* exactly-once claim, in the only form the job keeps it.                     *)
RowExactWhenOnTime ==
  start = born =>
    \A u \in Users, s \in WindowStarts :
      stats[u][s] > 0 /\ RowOnTime(u, s) => stats[u][s] = Cardinality(CountedIn(u, s, EndOfLog))

(* The same for the state a checkpoint restores: an accumulator that is open  *)
(* holds each of the window's orders read so far exactly once, so positions   *)
(* and window state are always cut together.                                  *)
OpenWindowExactWhenOnTime ==
  status = "running" =>
    \A u \in Users, s \in WindowStarts :
      windows[u][s] > 0 /\ RowOnTime(u, s) => windows[u][s] = Cardinality(CountedIn(u, s, pos))

(* How many orders k must be at the row (u, s) for the on-time orders up to n: *)
(* one for each of them, unless a failure and a late order met at the row      *)
(* (the late order makes the replayed window fire short), and one even then.   *)
OnTimeIn(u, s, n) == {c \in CountedIn(u, s, n) : OnTime(c)}
CoversOnTime(k, u, s, n) ==
  /\ OnTimeIn(u, s, n) # {} => k > 0
  /\ crashes + losses = 0 \/ RowOnTime(u, s) => k >= Cardinality(OnTimeIn(u, s, n))

(* No on-time order that was read disappears: the window, the JDBC buffer or   *)
(* the table counts at least as many orders as those read within the          *)
(* tolerance, whatever late orders do to other rows, across failures and       *)
(* replays (OrderWatermarkStrategy.java; OrderEventJob.java:96-125).           *)
OnTimeOrderAccounted ==
  status = "running" =>
    \A u \in Users, s \in WindowStarts :
      CoversOnTime(Larger(windows[u][s], Larger(batch[u][s], stats[u][s])), u, s, pos)

(* A window that the watermark has closed keeps no accumulator: a late order  *)
(* can never open one that no timer would fire again.                         *)
ClosedWindowsPurged ==
  \A u \in Users, s \in WindowStarts :
    windows[u][s] > 0 /\ status = "running" => ~Closed(s, emitted)

(* Every poison order behind a completed checkpoint is on the DLQ topic: the  *)
(* sink flushed before the positions that skip it became durable              *)
(* (OrderEventJob.java:85-91, AT_LEAST_ONCE).                                 *)
CheckpointedPoisonInDlq ==
  chk.taken => \A c \in Lineage(chk.pos) : isPoisonPill(OrderAt(c)) => c \in dlq

(* The on-time orders behind a completed checkpoint are counted by the window  *)
(* the checkpoint holds or by their row of the table: the JDBC sink flushed    *)
(* before the positions that skip them became durable.                        *)
CheckpointedOrdersDurable ==
  chk.taken =>
    \A u \in Users, s \in WindowStarts :
      CoversOnTime(Larger(chk.windows[u][s], stats[u][s]), u, s, chk.pos)

(* Without a failure a row is written once: however late and out of order the *)
(* orders come, a window whose row is in the table never fires again.         *)
RowsFrozenWithoutFailure ==
  [][crashes + losses = 0 =>
       \A u \in Users, s \in WindowStarts :
         stats[u][s] > 0 => stats'[u][s] = stats[u][s] /\ batch'[u][s] = 0]_vars

(* A poison order the lineage covers reaches the DLQ topic, failures and      *)
(* replays notwithstanding, unless a restart at latest skips it.              *)
PoisonReachesDlq ==
  \A p \in Partitions, i \in 1..MaxOrders :
    (/\ status # "new" /\ start[p] < i /\ i <= Len(log[p])
     /\ isPoisonPill(log[p][i])) ~> (<<p, i>> \in dlq \/ start[p] >= i)

(* A window with orders whose end every partition has passed is written to    *)
(* the table, or the job fails first.                                         *)
ClosableWindowWritten ==
  \A u \in Users, s \in WindowStarts :
    (windows[u][s] > 0 /\ \A p \in Partitions : MaxTimestamp(s) <= WatermarkOf(maxTs[p]))
      ~> (stats[u][s] > 0 \/ status = "down")

(* What readers of the table and of the dead-letter topic see of the job.     *)
Keys == Users \X WindowStarts
V == INSTANCE OrderView WITH
  Rows <- Keys,
  OrdersOf <- [k \in Keys |-> {e \in Orders : CountsFor(e, k[1], k[2])}],
  Enders <- [k \in Keys |-> {e \in Orders : MaxTimestamp(k[2]) <= WatermarkOf(e.timestamp)}],
  Poison <- {e \in Orders : isPoisonPill(e)},
  topic <- log, started <- status # "new", since <- born, intact <- start = born,
  failed <- crashes + losses > 0,
  table <- [k \in Keys |-> stats[k[1]][k[2]]], rejected <- dlq

(* The job implements the view: behind its watermarks, buffers, checkpoints   *)
(* and restarts a row appears only when its window is over everywhere, counts *)
(* no order twice, is exact if none of its own orders was late and no state   *)
(* was lost, is written once unless the job fails, and the dead-letter topic  *)
(* gains poison only (OrderEventJob.java:76-125, OrderWatermarkStrategy).     *)
ImplementsView == V!Spec

(* What the documents say of every run, and a restart breaks: a row only ever *)
(* improves, because the upsert on its primary key is idempotent.             *)
RowsNeverShrink ==
  [][\A u \in Users, s \in WindowStarts : stats'[u][s] >= stats[u][s]]_vars

(* What the documents say: every order produced once the job has started is   *)
(* unread, in flight, or has had its effect.                                  *)
EveryOrderDelivered ==
  status = "running" =>
    \A c \in {d \in Upto(EndOfLog) : d[2] > born[d[1]]} :
      LET e == OrderAt(c) IN
      \/ c[2] > pos[c[1]]
      \/ isPoisonPill(e) /\ c \in dlq \cup dlqBuf
      \/ e.status # "PLACED"
      \/ ~isPoisonPill(e) /\ LET s == WindowStart(e.timestamp) IN
           windows[e.userId][s] + batch[e.userId][s] + stats[e.userId][s] > 0
=============================================================================
