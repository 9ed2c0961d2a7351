# Formal models of the event streaming platform

TLA+ models of the platform's programs, the TLC configurations that check them on
small instances, and theorems about them that TLAPS checks for every value of the
constants. Every definition is translated from the source. `PROJECT.json` gives
the lines each definition stands for.

    tlc -workers 2 -config job_one.cfg MCOrderEventJob.tla     # one run
    tlapm OrderEventJob_proofs.tla                             # the proofs

## 1. The system

Orders flow from Go producers through Kafka into a Flink job, which counts placed
orders per user and minute into PostgreSQL and puts invalid orders on a dead-letter
topic. A Go service publishes those again after a backoff, and a Kafka Connect
transform posts an alert for each of them to Slack. A Next.js dashboard reads
Prometheus, the Flink REST API and PostgreSQL.

    producer ──> order-events ──> Flink job ──> user_order_stats (PostgreSQL)
                   ^                 │
                   │                 └──> order-events-dlq ──> Connect + SMT ──> Slack
                   │                             │
                   └──── retry consumer <────────┘        dashboard <── all of them

| Component | State it keeps | Operations | Interacts through | Hard behaviours |
|---|---|---|---|---|
| Event producer (`producer/`) | workers' position in the send loop, counters, sarama's queue, sequence numbers and epoch | generate, send, retry, count the outcome, stop on a signal | one shared `SyncProducer`, one context, one `WaitGroup` | retries of requests that did arrive, answers after the producer gave up, leader changes, shutdown in mid-send, a zero rate |
| Kafka (`k8s/kafka/`), external | logs, replicas, in-sync sets, groups with generations and offsets | append, replicate, elect, rebalance, commit | requests of all the clients | lost answers, broker failures, evicted members |
| Flink job (`flink-jobs/`) | source positions, split watermarks, window accumulators, sink buffers, checkpoints | read, validate, aggregate, fire, flush, checkpoint, fail, restore | partitions, barriers, JDBC, DLQ topic | replays, late and out-of-order events, subtasks at different speeds, failures between a flush and a checkpoint |
| PostgreSQL table (`scripts/init-postgres.sql`) | one row per user and window | upsert | the job's JDBC sink | the same window written again |
| Retry consumer (`dlq-retry-consumer/`) | per claim: position, buffered records, marks; the process's session | fetch, decode, back off, republish, mark, auto-commit, join, drain, exit | the DLQ topic, the retry topic, the group coordinator | a crash between republish, mark and commit; rebalances while a claim sleeps; eviction while it drains; errors that are only logged |
| Retry loop | the retry count in a header of the record | republish, route again | retry consumer and job | a count that does not survive the trip |
| Slack SMT (`kafka-connect/smt/`) | the task's offsets | transform a record, post to a webhook | the DLQ topic, HTTP | alerts repeated on redelivery, posts that fail or hang |
| Dashboard (`web/`) | a connection pool; the calls of the requests under way; in the browser the page shown and the last response of each route | health, alerts, metrics and analytics routes; polling, navigation, reload; what each page shows | Prometheus, Flink REST, PostgreSQL | answers of one request given at different instants, a second await on stale data, rejections that overtake pending calls, fallback to demo data, a pool that runs out, backends that never answer |
| Alert rules, autoscaling, manifests, load test | parameters | - | Prometheus, Kubernetes | - |

What makes each of them correct:

* *Producer*: what a worker counted as sent is on the topic for good, once; a
  worker's orders are in order; a process that stopped in order left no order with
  an unknown outcome.
* *Job and table*: no row counts an order twice; a row is final and exact while
  orders are on time and the state survives; no on-time order that was read
  disappears from the counts, unless a failure and a late order meet at its row; positions never become durable ahead of rows or dead letters; every
  poison order reaches the dead-letter topic; every window that can close is
  written.
* *Retry consumer*: an offset is committed only after its record was dealt with;
  failures repeat records a bounded number of times; a replica that lost its
  partition cannot commit for it; every record is committed in the end; a replica
  told to stop stops.
* *Loop*: a poison order never drops out unnoticed; retries are limited (they are
  not, see section 6).
* *Dashboard*: what a page shows has a source in a world that the request met, and is
  one look at the world if the world stood still; a card says Healthy, Down or critical
  only for a reason; a firing alert is not lost; simulated data is recognizable (it is
  not, see section 6); a backend that hangs stalls only the routes that ask it.
* *SMT* (not modelled, section 7): an alert for each record.

`PROJECT.json` lists the hazards of this code at their lines, each with the
properties that would catch it.

## 2. The modules

| Module | Models | Lines |
|---|---|---|
| `OrderEventJob` | the Flink job, its checkpoints and restarts, and the table | all of `flink-jobs/src/main/java` |
| `OrderEventJob_proofs` | theorems about it | |
| `OrderEventJobExact_proofs` | theorems about exact counting and on-time orders, and the refinement | |
| `OrderView` | what readers of the table and of the dead-letter topic are promised: the abstract specification that `OrderEventJob` implements | |
| `GeneratedOrders` | the orders and poison pills the producer generates, as input of the job; `EXTENDS OrderEventJob` | `producer/event.go` |
| `GeneratedOrders_proofs` | theorem about it | |
| `DlqRetryConsumer` | the Go service's replicas and their consumer group | `dlq-retry-consumer/*.go` |
| `DlqRetryConsumer_proofs` | theorems about it: its refinement, and how often it republishes a record | |
| `DlqLoop` | the retry consumer composed with the job's dead-letter path | `retry.go`, the two serializers |
| `DlqLoop_proofs` | theorems about the loop | |
| `Relay` | what the consumer group promises, whoever its members are: the abstract specification that `DlqRetryConsumer` implements | |
| `EventProducer` | the producer process and one replicated partition | `producer/*.go`, `kafka-topics.yaml` |
| `EventProducer_proofs` | theorems about it | |
| `DashboardApi` | what calls to the backends may answer and what each route makes of the answers | `web/src/lib`, `web/src/app/api` |
| `DashboardPages` | what the pages show of the responses | `web/src/app`, `web/src/components` |
| `Dashboard` | requests, pool, browser and a changing world; `EXTENDS` the two above | `route.ts` files, `postgres.ts`, `useSWR` |
| `DashboardApi_proofs` | lemmas about sums, groups and top rows of a table | |
| `Dashboard_proofs` | theorems about the dashboard | |
| `MC*` | the small instances TLC checks | |

### OrderEventJob

`log` is the topic: one sequence per partition. `pos` is the source's position,
`maxTs` and `emitted` are the watermark generator of each split and the last
watermark of each source subtask, `windows` the accumulators, `batch` the rows
buffered in the JDBC sink, `stats` the table, `dlqBuf` and `dlq` the dead-letter
sink's producer and the topic (records named by their origin), `pending` and `chk`
the checkpoint in flight and the last complete one.

| Action | Code |
|---|---|
| `RoutePoison`, `Discard`, `Aggregate` (= `Read`) | `ProcessFunction.processElement`, the filter, `OrderWindowAggregator.add`; what the window operator does with a late order |
| `EmitWatermark`, `FireWindows` | `OrderWatermarkStrategy`, the event-time timers, `ProcessWindowFunction` |
| `FlushBatch`, `SendToDlq` | `JdbcSink` with its upsert, `KafkaSink` with AT_LEAST_ONCE |
| `TriggerCheckpoint`, `CompleteCheckpoint`, `AbortCheckpoint` | `enableCheckpointing(30_000)` and its settings |
| `JobFails`, `LoseVolume`, `StartAtLatest`, `RestoreCheckpoint` | failures and restarts, the `emptyDir` checkpoint volume, `OffsetsInitializer.latest()` |

Choices worth knowing:

* Reading an order and its effect downstream are one step. Barriers and watermarks
  travel in band with the records, so the state that a checkpoint cuts and the
  watermark a record meets are those of a run without buffers in between; different
  speeds of the subtasks are kept (`Readers`, `ReaderOf`). For the same reason a
  barrier's crossing of the job, with both sinks' flushes, is one action: a failure
  in the middle of it leaves what `FlushBatch` or `SendToDlq` and then `JobFails`
  leave.
* A JDBC batch is written whole or not at all (the driver sends it as one implicit
  transaction). A batch whose acknowledgement is lost is written, retried or
  replayed, and the upsert replaces: it is `FlushBatch` followed by a failure.
* A restore brings back positions and windows and starts the watermark from the
  bottom, because Flink checkpoints do not contain it.
* A poison order's timestamp moves the watermark: the generator sits at the source,
  ahead of the validation.
* The amount matters only by its sign; `totalAmount` is updated by the statements
  that update `count`, and is left out.
* A record that is not JSON fails the job for ever; no program of the repository
  writes one to `order-events`, and the model has none.
* `ImplementsView` is the refinement: with `topic` = the log, `since` = the start of the
  first submission, `intact` = no restart moved it, `table` = the rows and `rejected` = the
  dead letters, every step of the job is a step of `OrderView` or stutters. `OrderView` has
  no source, watermark, window, buffer or checkpoint, and no timestamp: an order *ends* a
  row if it is so far ahead that nothing behind it is on time for the row. A row may be
  written once every partition holds such an order; its count is exact if none of its own
  orders came behind one in its partition, which is weaker than the documented tolerance.
* `AbortCheckpoint` is not counted. The deployment tolerates a few failed
  checkpoints and then fails the job, which is `JobFails`.

### DlqRetryConsumer

`next`, `upto`, `at` and `marked` are, per replica and claim: records done with,
records buffered in `claim.Messages()`, the point reached in `ConsumeClaim`, and the
offset marked in the session. `session`, `live` and `claims` describe the session,
`members`, `joined`, `phase`, `gen` and `owner` the coordinator. `sent` counts the
copies appended to the retry topic for each record, `closed` the records that ended
in another way.

| Action | Code |
|---|---|
| `SkipMalformed` | `json.Unmarshal` fails: log, mark, continue |
| `GiveUp`, `StartBackoff`, `Republish`, `RepublishFails` | `RetryHandler.Handle`, with each of its early returns |
| `Mark` | `session.MarkMessage` after `Handle`, on every path |
| `Fetch`, `AutoCommit`, `CancelSession`, `ReleaseSession`, `StartSession` | sarama's session, configured in `NewDLQConsumer`; `Run`'s loop |
| `Start`, `Terminate`, `Exit`, `Crash` | `main`, signals, `log.Fatalf`, Kubernetes |
| `JoinGroup`, `CompleteRebalance`, `SessionTimeout`, `RebalanceTimeout` | the coordinator, external |

`ConsumeClaim` never looks at the session's context: when a session ends, the claim
still drains what its channel buffers, sleeping and republishing. That is why
cancelling (`CancelSession`) and ending (`ReleaseSession`) are two actions, and why
a replica may be evicted in between. `main` returns without closing the group, so a
stopped replica stays a member until it is evicted. The length of the backoff is left out: it only delays `Republish`.

`ImplementsRelay` is the refinement: under `arrived` = the length of each partition,
`settled` = the records that were republished or closed (`Dealt`) and `committed` =
the committed offsets, every step of the group is a step of `Relay` or stutters. `Relay`
has no replicas, sessions or channels: a record is settled only after those before it,
and a commit moves forward over settled records.

### DlqLoop

`DlqRetryConsumer` with the job's part of the loop: every copy on the retry topic is
read by the job, found invalid again, and appended to the dead-letter topic without
its headers (`ThroughJob`). `JobReplays` is the at-least-once sink writing a copy
again after a failure. `round` and `root` are history variables.

### EventProducer

`at` is each worker's position in `Run`, `outcome` what `SendMessage` returned for each
order (the counters), `queue` … `nextSeq` sarama's partition producer, `net` the requests
on their way (those the producer has given up, too), `log`, `have`, `leader`, `isr` and
`alive` the replicated partition. The topic has three replicas and
`min.insync.replicas` of 2. `Panic` is a rate of zero: the interval is a division by it.
One partition and one record per request; sarama and the brokers are external and
modelled from how `NewEventProducer` configures them (idempotent, `WaitForAll`,
`Retry.Max` from `MaxRetries`, 10 in `config.go:25`, one open request).

### GeneratedOrders

`generatePoisonPill` and `Ordinary` are the sets of orders that the functions of
`event.go` return, for the ranges of `rand.Intn`. A pill is told from an ordinary order by its id (`ord-bad-...`, or none).
`-1 * float64(0)` is a minus zero, written `-0` and equal to 0 when it is read, so it is 0
here, and a pill that is none (`MinusZero`). The runs of the job use a few of these orders,
chosen by their timestamps.

### DashboardApi, DashboardPages, Dashboard

A *world* is what the backends would answer now: a status for each (in order, error
code, body that is not JSON, refusing, hanging), query results, jobs, table rows.
`DashboardApi` says what each call answers in a world (`promQuery`, `getOverview`,
`pgQuery`, ...), with the functions' own early returns and `try` blocks, and what each
route responds to the answers it collected (`HealthResponses` ... `AnalyticsResponses`),
demo data included. `DashboardPages` has one operator per page and component. Both are
pure; `Dashboard` has the state. What a world may be is `IsWorld`: integer samples, jobs
and alerts with their fields, a finite table keyed by user and window.

| Action | Code |
|---|---|
| `Poll` | `useSWR`'s timer or mount; the route starts the calls of its `Promise.all` |
| `Answer` | one call is answered, in the world of that instant; a query needs a connection |
| `AskCheckpoints` | the second await of `metrics/flink/route.ts` |
| `Show`, `Miss` | the response reaches the browser, early if a call rejected; or it is lost |
| `OrphanDone` | a query whose request is over still holds its connection until it is done |
| `Navigate`, `Reload` | the sidebar's links; a reload |
| `Turn`, `Scrape`, `JobsChange`, `Upsert` | the world moves |

`stage` and `answers` are the request under way on each route and the answers it has so
far, a function of the calls that are answered (`Waiting` are the others); `pool` the
queries in `pg`'s pool in their order, `cache` the browser's data. Alerts of a page are a
set of rows. Two history variables say where
data comes from: `span` collects the worlds a request meets, and each entry of `cache`
keeps its span and whether it is demo data, which the response itself does not say.

Choices worth knowing:

* SWR is modelled from its use: one request per route at a time, the timer starts
  again after a request is over, data survives errors and navigation.
* The sinusoids of the demo data are a wave each, at any phase (`Waves`), since waves
  of different periods meet at any two phases.
* Latencies are tenths of a millisecond and rates thousandths of an event per second.
  Texts, units, colours of series and layout are left out.
* `layout.tsx` reads no request, so Next.js renders it when the image is built:
  `PROMETHEUS_URL` is the build's.

## 3. The runs

Each passing run's bounds are in its `.cfg`; mutants in the modules (definitions with
a suffix, commented *Mutant*) show for every property a plausible bug that breaks it.

| Run | Instance | Question |
|---|---|---|
| `job_one` | 1 partition, 4 orders, 1 failure, loss of the volume | What may the table and the dead-letter topic hold after replays and restarts, and is the job an `OrderView`? |
| `job_live` | 2 partitions on 2 subtasks, 2 users, 3 orders out of 5 kinds, 1 failure | Do different speeds miscount anything? Does every poison order reach the topic and every window that can close the table? |
| `dlq_group` | 2 replicas, 1 partition, 2 records of each kind; a crash, a signal, an eviction, a send error | Is a record committed only when dealt with, how often is it republished, and is the group a `Relay`? |
| `dlq_live` | 2 replicas, 2 partitions, 1 record each, a crash and a signal | Does every record get committed and every replica told to stop, stop? |
| `loop` | 1 replica, 4 records, a crash, a send error, a replay | Does a poison order ever leave the loop unnoticed? |
| `producer` | 2 workers, 2 orders, 3 brokers, 1 retry, 1 broker crash | Is what was sent on the topic, once, in order, and settled at exit? |
| `dash` | one set of routes at a time (health and analytics; Kafka; Flink; alerts and DLQ), 1 move of world, network or user (2 for Flink), pool of 2 | What may the pages show, and does every route show the world in the end? |
| `job_shrink`, `job_skip`, `dlq_lost`, `loop_limit`, `dash_demo` | as above | A statement of the documents that the code does not keep (section 6) |

Why these bounds are enough for the interesting cases to happen:

* *Windows*: two ticks of window and one of tolerance, timestamps 0 to 4. `job_one` draws
  each of its four orders from three: one at 1, counted in window 0; one at 3 of amount minus
  zero, counted, which closes window 0; and a negative pill at 4. So window 0 gets orders in
  time and late ones, window 2 orders in order and, behind the pill, on time out of order.
  Window 2 never closes. `job_live` draws three from five: an order at 0 and one at 3 of one
  user, and in the other partition an order at 1, one at 3 that is not `PLACED`, and a pill
  at 4. Four orders are one to open a window, one to close it, one that is late, and
  one more to be replayed differently.
* *One failure*: after it every state is one that a first run can be in, with an
  older checkpoint; the next failure repeats the pattern. The proved invariants do
  not depend on the number.
* *Two replicas, two records, channel of two*: a claim can sleep on one record with
  another one buffered while its partition goes to the other replica. The
  deployment has one replica, a rolling update two.
* *Three brokers*: the in-sync set can be above, at and below the minimum.
* *One set of routes at a time* (`Followed`): routes share nothing but the pool, and the
  two that use it are followed together. What no followed route asks for stands still.
* *One move*: it can fall before, between and after the answers of a request, so the
  answers of one request come from two worlds in every combination. The Flink route,
  which asks a second time, gets two. The worlds include an outage of two backends and
  a hanging one to start from, so that the move can complete or end it.
* *A pool of two* (5 in the code) and four concurrent queries: it runs out, with the
  queries of abandoned requests ahead of those of the next.
* *Two top users and one window* (20 and 60): the limits cut and do not cut.

Symmetry (replicas; brokers and workers) is used in safety runs only. Deadlock
checking is off where the system stops: a stopped producer process, a consumer
group that has committed its bounded input, a dashboard all of whose backends hang. In the job's runs it stays on: an
unfinished checkpoint can always be taken again.

## 4. Fairness

* `OrderEventJob.Fairness`: the source threads, the periodic watermark timer, the
  sinks' flushing (JDBC batch interval of 1000 ms, the Kafka producer's sender) and
  the restart of a failed job are weakly fair: each is a thread or timer that keeps
  running while there is work. Checkpoints are not: nothing makes them succeed. New
  orders owe nothing.
* `DlqRetryConsumer.Fairness`: claim goroutines, the auto-committer, heartbeats, the
  coordinator's rounds, eviction of dead members, and the restart of a stopped
  replica by Kubernetes are weakly fair; crashes, signals, rebalance timeouts and send
  errors owe nothing and are bounded. `ConsumeClaim` is fair as a whole: a send may
  fail while failures are left.
* `Dashboard.Fairness`: for each route, the timer, the answers of backends that do not
  hang and the arrival of the response are weakly fair together; so are the second await
  and the queries nobody waits for. The world, lost responses and the user owe nothing.
  `RoutesConverge` asks only for routes that stay on the page and whose own backends end
  up answering, whatever hangs elsewhere.
* `EventProducer` has no liveness property, since requests may be lost for ever.

## 5. Proofs

TLAPS proves these for every value of the constants that the modules' assumptions allow.
They are about the topology (finite, non-empty sets of partitions, subtasks with a
partition each, workers and brokers), the ranges of parameters (a positive window, naturals
for timestamps and bounds, waves between -100 and 100 percent) and the data: the empty id
is not a user; the topic holds what the generator makes (`OrdersAssumption`, for
`JobFindsThePills` only); the dead-letter topic may receive a well-formed order without a
header, which is what the job writes back (`LoopAssumption`); the backends of the dashboard
hold values of the types they serve (`WorldsAssumption`), a rejection is no answer
(`ValuesAssumption`), and a query nobody waits for is not named like one
(`OrphanAssumption`). The bounds stay in the modules, and a theorem holds for each value of
them, so for behaviours of any length.

| Theorem | States |
|---|---|
| `JobTypeCorrect` | `OrderEventJob!TypeOK` |
| `JobPurgesClosedWindows` | `ClosedWindowsPurged` |
| `JobDeliversPoison` | `CheckpointedPoisonInDlq` |
| `JobNeverOverstates` | `RowNeverOverstates` |
| `JobAccountsForOnTimeOrders` | `OnTimeOrderAccounted` |
| `JobCheckpointsOnTimeOrders` | `CheckpointedOrdersDurable` |
| `JobCountsOpenWindowsExactly` | `OpenWindowExactWhenOnTime` |
| `JobRowsExact` | `RowExactWhenOnTime` |
| `JobRowsFrozen` | `RowsFrozenWithoutFailure` |
| `JobImplementsView` | `ImplementsView`: the job implements `OrderView` |
| `JobFindsThePills` | `DeadLettersAreThePills` |
| `ProducerTypeCorrect` | `EventProducer!TypeOK` |
| `ProducerKeepsSent` | `SentEventsSurvive` |
| `ProducerNeverRepeats` | `NoEventTwice` |
| `ProducerKeepsOrder` | `WorkerOrder` |
| `ProducerStopsSettled` | `StoppedIsSettled` |
| `GroupTypeCorrect` | `DlqRetryConsumer!TypeOK` |
| `GroupCommitsSettled` | `CommittedIsSettled` |
| `GroupHasOneCommitter` | `OneCommitterPerPartition` |
| `GroupCommitsForward` | `CommittedNeverRegresses` |
| `GroupBoundsDuplicates` | `DuplicatesBounded` |
| `GroupRepublishesOnce` | `RepublishedOnceWithoutFailure` |
| `GroupImplementsRelay` | `ImplementsRelay`: the consumer group implements `Relay` |
| `LoopKeepsGroup` | `LoopSpec` implies the group's own `Spec` |
| `LoopKeepsPoison` | `PoisonStaysInLoop` |
| `DashboardType` | `Dashboard!TypeOK` |
| `DashboardAbandoned` | `AbandonedBounded` |
| `DashboardSourced` | every answer and every response has its source in the worlds its request met |
| `DashboardHealthyIsReal`, `DashboardDownIsReal` | `HealthyIsReal`, `DownIsReal` |
| `DashboardCriticalIsReal` | `CriticalIsReal` |
| `DashboardFiring`, `DashboardAllClear` | `FiringAlertsShown`, `AllClearIsReal` |
| `DashboardJobs`, `DashboardTotals` | `CheckpointsOfRunningJob`, `TotalsOfTheTable` |
| `DashboardSnapshot` | `StillWorldIsSnapshot` |

The inductive invariants, and why each is needed:

* `WindowInv` adds to `ClosedWindowsPurged` that a job that is not running has emitted no
  watermark; otherwise a restored window could already be behind it.
* `PoisonInv`: the property speaks of the last complete checkpoint only. What that one
  covers was covered by the one in flight, and that by the job's own position, whose
  poison orders are on the topic or in the sink's buffer; the barrier empties the
  buffer before the position is recorded. `Within` keeps all three positions inside the
  log, so that records appended later do not count.
* `CountInv` follows each counter on the same way: window state is bounded by the orders
  its position covers, in the job and in both checkpoints, and rows in the buffer and in
  the table by the orders on the topic. The step that counts an order adds a new
  coordinate to a finite set (`CountedFinite`, `CountedGrows`).
* `SourceInv` of the job and `Follows`: each watermark generator stands at an order the
  job has read, and each subtask's watermark is not ahead of its splits'. So a window the
  watermark has closed was passed by an order of every partition (`ClosedIsPassed`), and an
  order of that window that comes later is not on time (`PassedIsLate`). The next two
  invariants rest on this.
* `AccountedInv`, `DueInv` and `RecentInv` give `OnTimeOrderAccounted` and
  `CheckpointedOrdersDurable`, which compare counts. `AccountedInv` is the part that needs no
  condition: where a position covers an on-time order, an open window, the JDBC buffer or the
  table has some count (for the two checkpoints: their windows or the table). `DueInv` has the
  numbers before the first failure: window, buffer and table *together* count the orders
  that found their window open, since what an order adds stays in one of the three.
  `RecentInv` has them after failures, with `SettledInv` and `ExactInv`: if none of a row's
  orders is late its count in the table is exact, or left by an earlier lineage of state whose
  successor has read none of the row's orders. What is left out, a failure and a late order
  at one row, is where `job_shrink` shows a row that loses orders.
* `SettledInv` and `ExactInv` of the job: while the orders of a row are on time its count is
  exact where it is, and final once it has left its window (`PassedIsComplete`), so an upsert
  after a replay writes the same number again. The induction needs less than the tolerance:
  an order is late (`Punctual`) only if one before it in its partition ended its window
  (`TolerableIsPunctual`), and the lateness of one row does not touch another. A window without an accumulator has closed or counted
  nothing, so the next order of it starts at 1. `LineageInv` keeps the positions behind
  the start of the lineage and covers the restart at latest that happens to start where
  the first submission did.
* `DeadLettersInv`: what the dead-letter sink holds is a poison order that came after the
  first submission. For `JobFindsThePills` `PillIsPoison` compares the generator with the
  validation field by field.
* `ViewInv` joins `CountInv`, `LineageInv`, `SettledInv`, `ExactInv`, `FrozenInv` and
  `DeadLettersInv`: they are what makes a row in the JDBC buffer one that `OrderView` may
  write (`BufferedIsDue`). The sinks' steps are its `Deliver`, a failure its `Fail`, a restart
  at latest its `Submit` or `Forget`; every other step leaves what a reader sees alone.
* `FrozenInv`: without a failure a row that is written, or about to be, belongs to a window
  behind the watermark, and no step of a job that never restarts takes the watermark back.
* `NumberInv` and `LogInv` carry the idempotent producer. Every record that is queued, on its
  way (those given up, too) or in the log has an epoch and a sequence number below the
  producer's next; two records of one worker are ordered by these numbers as their
  events are; and the log is in the order of the numbers, which the leader's check
  (`InSequence`) and truncation keep. A request handled late is behind the log, and refused.
  `QueueInv` and `PendingInv` say which record or event each worker waits for: they bound
  the queue by the number of workers and leave no event open when all workers are done.
* `RangeInv` keeps each claim's position, buffer and mark within its partition, which
  `TypeOK` of the retry consumer needs (an offset is at most the bound).
* `FenceInv`: no session is of a later generation than the coordinator's; an accepted one
  has the partitions the coordinator assigned, and none of its marks is behind the
  committed offset.
* `SettledInv` of the retry consumer: what a claim has finished with, and the record it is about to mark, is
  settled. Commits and new sessions only copy positions. With `FenceInv` it also gives
  the refinement: `RelaySettle`, `RelayCommit` and `RelayArrive` are one lemma per action
  of `Relay`, and every other action of the group leaves the abstract state alone.
* `BudgetInv`: the copies of a record, the evicted replicas that still have it before them,
  and one more if the group has it before it, are together at most 1 plus the crashes and
  evictions. A send takes from this budget what it adds to the copies; only a crash or
  an eviction raises it. `MemberInv` says which sessions can still send: those of the
  current generation and those of evicted replicas.
* `SentInv` and `TailInv` of the loop: copies are made of records that exist, and each order has
  a record that was never routed back, since the job appends a new record in the step that
  routes an old one. For that record `CommittedIsSettled` leaves only the cases of the
  property. `LoopStepIsStep` carries the group's invariants into the loop.
* `QueueInv` of the dashboard: the abandoned queries are ahead of those an analytics request
  waits for (`OrphansFirst`), and once one of its own queries was rejected there is room for
  it in the pool besides them (`FewAhead`), because a query is answered only when it has a
  connection. The request that is then over abandons its other two, hence the limit plus one.
  `PoolInv` says that a query is in the pool at most once, and exactly while its
  request waits for it.
* `SourceInv` of the dashboard: what the pages show was made of answers collected one by one
  while the world moved. The invariant says that each answer in hand was given by a world in
  the request's `span` (for the checkpoints, to the job that the answers so far name), and
  that each response in the browser was made of a complete set of such answers, or of a set
  with a rejection in it. All the theorems on pages follow from it and from what one answer
  may be:
  * *Cards*: `CardSource`, `LatencySource`, `RateSource` trace a label or a colour to a probe
    or a sample; `DemoCalm` bounds the simulated waves, at any phases, below the thresholds.
  * *Alerts and jobs*: a firing alert is kept by the route's filter and turned into a row by
    the panel; `FirstRunning` says the job whose checkpoints are asked for is a row of the
    list.
  * *Totals*: the cards sum the users' groups, the chart the windows' groups. `SumByGroup`
    makes each the sum over the table that its query met (`TotalOfTopUsers`,
    `TotalOfWindows`).
  * *Snapshot*: with one world in the span every answer in hand is one the world gives, and
    since answers are unique up to the order of ties among the top users (`OneAnswer`,
    `TopUsersExist`), the response is one of `AtOnce`, the ones cut short by a rejection
    included (`RejectedAlike`).
* Sums and the top rows of a table are defined by recursion over finite sets. The library's
  induction theorems cannot be used (they take an operator), so `DashboardApi_proofs` argues
  by a smallest counterexample: `SmallestSubset` gives, from a finite set with a bad subset,
  one whose own subsets are all good, and each lemma refutes it.

Out of the provers' reach are liveness under fairness and ENABLED. What a sequence's
`RemoveAt` and `\o` do to positions is proved where it is needed
(`Removed`, `RemovedEntries`, `AppendedEntries`).

## 6. Where the documents and the code differ

Each has a run that shows it.

1. `job_shrink`: the watermark is not part of a checkpoint. After a restore the job
   judges lateness anew, a window it had fired fires again with fewer orders, and the
   upsert replaces an exact row (`docs/architecture.md:71`, "idempotent upserts").
2. `job_skip`: without a checkpoint every restart begins at the end of the topic
   (`README.md:136`, "end-to-end exactly-once").
3. `dlq_lost`: a failed `SendMessage` is logged and the record marked
   (`docs/architecture.md:65`).
4. `loop_limit`: the job drops the `retry-count` header, so an order that stays invalid
   is retried for ever and never reported (`README.md:20`).
5. `dash_demo`: the banner that marks simulated metrics depends on `PROMETHEUS_URL`, the
   simulation on each answer; a configured dashboard whose Prometheus fails shows invented
   numbers unmarked (`web/src/app/layout.tsx:41`).

Smaller ones, seen while modelling and without a run:

* One in 500 of the negative pills has the amount minus zero, which is not less than 0: the
  job counts it as a valid order (`docs/architecture.md:39`, "negative amounts").
  `DeadLettersAreThePills` makes the exception explicit.
* Several workers generate for the same user and race to one producer, so a key orders a
  worker's events (`WorkerOrder`) and not a user's (`docs/architecture.md:40`).
* A total outage is shown as four healthy cards; `HealthyIsReal` and `DownIsReal` make
  the exception explicit (`health/route.ts:16`).
* Without active alerts the route answers with a pending demo alert, so the panel's "All
  clear" is never reached once a response arrived (`AllClearIsReal`).
* The alerts route passes Prometheus's alerts on as they are, with `labels`, while
  `alerts-panel.tsx:6-13` expects `name` and `severity`: rows of live alerts on the Overview
  are nameless and never marked critical. `FiringAlertsShown` therefore asks for a row, and
  for its name only on the DLQ page.
* "rows written" on the Overview is the sum of the orders of the top 20 users
  (`page.tsx:53-56`); `TotalsOfTheTable` has as its condition that there are no more users.
* The total of the cards and that of the chart come from two queries: each is the table's at
  a moment of the request (`TotalsOfTheTable`), and they differ by what the sink wrote between.
* "running" on the Flink card is Flink's `jobs-running`, which counts every job that is not
  in a terminal state, a restarting one too: it may exceed the rows that say RUNNING and
  nothing compares the two. `CheckpointsOfRunningJob` is about the rows.
* A reload abandons up to three queries each time, and nothing cancels them: only reloads
  can pile up more of them than the pool's limit plus one (`AbandonedBounded`).

## 7. Not modelled, and the plan

Not modelled:

* *Kafka Connect and the Slack transform.* The transform is stateless: it posts once per
  record it is given, swallows every failure and hands the record on. Whatever could be
  said of repeated or missing alerts depends on the Connect worker, and the connector of
  the repository does not get that far: DLQ keys are raw user ids, which its JSON key
  converter rejects, with an error tolerance of none; and its webhook is an `${env:...}`
  reference with no provider configured. A model would be of a deployment the repository does
  not have. Two of the listed hazards are its.
* Alert rules, Grafana, autoscaling, disruption budgets, Helm values beyond those quoted,
  scripts, and the load test: parameters and stateless programs.
* SASL, TLS, ACLs and secrets; metrics; the length of the backoff; retention of topics;
  transactions, which the code configures nowhere; formatting and layout of the pages.

Model-checked only: the liveness properties (`PoisonReachesDlq`, `ClosableWindowWritten`,
`EveryRecordCommitted`, `TerminationCompletes`, `RoutesConverge`), which need fairness. Every
invariant, action property and refinement that a passing run checks is proved.

What the plan has left:

1. An abstract log that `EventProducer` implements: an event reported as sent is appended once,
   for good, in its worker's order.
2. A tighter bound in `OrderView`: that a row counts only orders that came after the first
   submission, also after a loss of the state.
