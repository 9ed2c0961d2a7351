---------------------------- MODULE DashboardApi ----------------------------
(***************************************************************************)
(* The server side of the dashboard, web/src/lib and web/src/app/api: what *)
(* a call to Prometheus, to the Flink REST API or to PostgreSQL may        *)
(* answer, given the state of the world, and what each route makes of the  *)
(* answers it collected.  No state here: Dashboard.tla makes the calls.    *)
(*                                                                         *)
(* A world is a record: the status of each backend, the results of the     *)
(* Prometheus queries (for a range query, the numbers of points of its     *)
(* series), the Flink jobs and the rows of user_order_stats.               *)
(* Latencies are tenths of a millisecond, DLQ rates thousandths of an      *)
(* event per second, so that their thresholds are integers.                *)
(***************************************************************************)
EXTENDS Integers, Sequences, FiniteSets, FiniteSetsExt, SequencesExt

CONSTANTS
  Gauges,      \* the current values of the Kafka route that are followed
  Ranges,      \* its time series that are followed
  JobGauges,   \* the checkpoint metrics of the Flink route that are followed
  Waves,       \* instants of a sine wave, in percent of its amplitude
  TopUsers,    \* LIMIT of the query for the top users
  Windows,     \* LIMIT of the two queries by window
  Rejected,    \* a promise that was rejected
  Null         \* null in an answer

AllGauges == {"messagesIn", "bytesIn", "bytesOut", "p99Produce", "p99Fetch", "underReplicated",
              "partitionCount", "activeController", "offlinePartitions"}
AllRanges == {"messagesInRange", "bytesInRange", "bytesOutRange", "p99ProduceRange"}

AllJobGauges == {"checkpointDuration", "checkpointsFailed", "checkpointsCompleted"}

(* messagesIn decides whether the Kafka route has data.                       *)
ASSUME ApiAssumption ==
  /\ "messagesIn" \in Gauges /\ Gauges \subseteq AllGauges /\ Ranges \subseteq AllRanges
  /\ JobGauges \subseteq AllJobGauges
  /\ Waves \subseteq -100..100 /\ Waves # {}
  /\ {TopUsers, Windows} \subseteq Nat \ {0}

Backends == {"prometheus", "flink", "postgres"}

(* ok; answers with an error code; answers with a body that is not JSON;      *)
(* refuses connections; accepts them and never answers.                       *)
Statuses == {"ok", "error", "garbled", "down", "hung"}

(* /api/v1/alerts lists the alerts that are pending or firing; the type also  *)
(* has "inactive", which Prometheus lists with the rules only.                *)
Alerts == [labels : [alertname : STRING], state : {"firing", "pending"}]
Jobs == [id : STRING, state : STRING]

(* A rejection is no answer, and null no statistics.                          *)
ASSUME ValuesAssumption ==
  /\ Rejected \notin BOOLEAN \cup Seq(Int) \cup Seq(Alerts)
  /\ Null \notin [job : STRING]

(* What Prometheus is asked besides its health.                               *)
PromQueries == Gauges \cup Ranges \cup JobGauges \cup
  {"perBroker", "durationRange", "eventRate", "messagesTotal", "rateRange", "alerts"}

(* What a backend may hold: results are sequences of samples; a row of the    *)
(* table is found by its user and the start of its window.                    *)
IsResults(results) ==
  /\ PromQueries \subseteq DOMAIN results
  /\ \A c \in PromQueries : results[c] \in IF c = "alerts" THEN Seq(Alerts) ELSE Seq(Int)
IsTable(t) ==
  /\ IsFiniteSet(DOMAIN t) /\ \A k \in DOMAIN t : k[2] \in Int
  /\ \A k \in DOMAIN t : t[k].count \in Int /\ t[k].amount \in Int
IsWorld(w) ==
  /\ DOMAIN w = {"status", "results", "jobs", "table"}
  /\ w.status \in [Backends -> Statuses] /\ w.jobs \in Seq(Jobs)
  /\ IsResults(w.results) /\ IsTable(w.table)

-----------------------------------------------------------------------------
(* lib/prometheus.ts, lib/flink.ts, lib/postgres.ts: a call is answered at    *)
(* one instant, in world w.  Each operator is the set of possible answers.    *)

(* queryInstant, queryRange, getAlerts: an error code is an empty result, a   *)
(* network error or a bad body rejects.                                       *)
promQuery(w, result) ==
  CASE w.status["prometheus"] = "ok"    -> {result}
    [] w.status["prometheus"] = "error" -> {<<>>}
    [] OTHER                            -> {Rejected}

(* checkHealth of Prometheus and Flink looks at the code only.                *)
Responds(w, b) == w.status[b] \in {"ok", "garbled"}
promHealth(w) == {Responds(w, "prometheus")}
flinkHealth(w) == {Responds(w, "flink")}

Running(j) == j.state = "RUNNING"
Count(jobs, s) == Cardinality({i \in DOMAIN jobs : jobs[i].state = s})

(* External: /overview counts the jobs that /jobs/overview lists.  Running are *)
(* all that have not come to an end, those that restart or fail included; one  *)
(* task manager of four slots, which a job in state RUNNING fills.             *)
Terminal == {"FINISHED", "CANCELED", "FAILED"}
Overview(jobs) ==
  [running |-> Cardinality({i \in DOMAIN jobs : jobs[i].state \notin Terminal}),
   failed |-> Count(jobs, "FAILED"),
   slotsTotal |-> 4, slotsAvailable |-> IF Count(jobs, "RUNNING") > 0 THEN 0 ELSE 4]

(* The body is parsed outside the try: it may reject.                         *)
getOverview(w) ==
  CASE w.status["flink"] = "ok"      -> {Overview(w.jobs)}
    [] w.status["flink"] = "garbled" -> {Rejected}
    [] OTHER                         -> {Null}

(* The body is parsed inside the try: never rejects.                          *)
getJobs(w) == IF w.status["flink"] = "ok" THEN {w.jobs} ELSE {<<>>}

(* As getOverview; a job that is gone is a 404.                               *)
getCheckpointStats(w, id) ==
  CASE w.status["flink"] = "ok"      -> IF \E i \in DOMAIN w.jobs : w.jobs[i].id = id
                                        THEN {[job |-> id]} ELSE {Null}
    [] w.status["flink"] = "garbled" -> {Rejected}
    [] OTHER                         -> {Null}

(* The rows of the table, aggregated per user and per window.                 *)
OfUser(t, u) == {k \in DOMAIN t : k[1] = u}
OfWindow(t, x) == {k \in DOMAIN t : k[2] = x}
SumOf(f) == MapThenSumSet(LAMBDA x : f[x], DOMAIN f)
SumOrders(t, keys) == SumOf([k \in keys |-> t[k].count])
SumAmount(t, keys) == SumOf([k \in keys |-> t[k].amount])

UserTotals(t) ==
  {[userId |-> u, orderCount |-> SumOrders(t, OfUser(t, u)),
    totalAmount |-> SumAmount(t, OfUser(t, u))] : u \in {k[1] : k \in DOMAIN t}}

(* ORDER BY total_amount DESC LIMIT: any choice among equal totals.           *)
TopOf(rows) ==
  {S \in SUBSET rows :
     /\ Cardinality(S) = Min({TopUsers, Cardinality(rows)})
     /\ \A r \in S, q \in rows \ S : r.totalAmount >= q.totalAmount}

(* ORDER BY window_start DESC LIMIT.                                          *)
LatestWindows(t) ==
  LET starts == {k[2] : k \in DOMAIN t} IN
  {x \in starts : Cardinality({y \in starts : y > x}) < Windows}

(* Mutant: rows are counted instead of their orders. *)
volumeRows_Rows(t) == {[x \in LatestWindows(t) |-> Cardinality(OfWindow(t, x))]}

topUsersRows(t) == TopOf(UserTotals(t))
revenueRows(t) == {[x \in LatestWindows(t) |-> SumAmount(t, OfWindow(t, x))]}
volumeRows(t) == {[x \in LatestWindows(t) |-> SumOrders(t, OfWindow(t, x))]}

(* query and checkHealth of lib/postgres.ts.                                  *)
pgQuery(w, results) == IF w.status["postgres"] = "ok" THEN results ELSE {Rejected}
pgHealth(w) == {w.status["postgres"] = "ok"}

-----------------------------------------------------------------------------
(* lib/demo-data.ts: the responses the demo generators can make.              *)

(* A sine wave at the instants the instance looks at.                         *)
timeWave(amplitude) == {(amplitude * p) \div 100 : p \in Waves}

(* Waves of different frequency meet at any two instants.                     *)
generateTimeSeries(points) == points

(* Math.max of a bound and a value.                                           *)
AtLeast(low, x) == Max({low, x})

(* Mutant: amplitudes ten times too large. *)
DemoP99_Steep == {AtLeast(5, 30 + x + y) : x \in timeWave(250), y \in timeWave(150)}

(* 3.0 ms and two waves, not below 0.5 ms.                                    *)
DemoP99 == {AtLeast(5, 30 + x + y) : x \in timeWave(25), y \in timeWave(15)}

(* Waves and factors that no page compares with a threshold are left out.     *)
DemoCurrent(p99) ==
  [messagesIn |-> 4800, bytesIn |-> 2409600, bytesOut |-> 1831296, p99Produce |-> p99,
   p99Fetch |-> p99, underReplicated |-> 0, partitionCount |-> 36, activeController |-> 1,
   offlinePartitions |-> 0]

getDemoKafkaMetrics ==
  {[current |-> [g \in Gauges |-> DemoCurrent(p99)[g]],
    series |-> [s \in Ranges |-> generateTimeSeries(60)],
    brokers |-> <<1632, 1552, 1616>>] : p99 \in DemoP99}

getDemoFlinkMetrics ==
  {[overview |-> [running |-> 1, failed |-> 0, slotsTotal |-> 4, slotsAvailable |-> 0],
    jobs |-> <<[id |-> "a1b2c3d4e5f6", state |-> "RUNNING"]>>,
    metrics |-> [g \in JobGauges |-> IF g = "checkpointDuration" THEN 1200
                                    ELSE IF g = "checkpointsFailed" THEN 0 ELSE 4312],
    checkpoints |-> Null,
    series |-> generateTimeSeries(60)]}

getDemoDlqMetrics ==
  {[eventRate |-> AtLeast(0, 20 + x), messagesTotal |-> 23,
    series |-> generateTimeSeries(120), alerts |-> {}] : x \in timeWave(15)}

getDemoAlerts ==
  {[firing |-> {},
    pending |-> {[name |-> "P99LatencyElevated", severity |-> "info", state |-> "pending"]},
    total |-> 6]}

getDemoHealth == {[prometheus |-> TRUE, postgres |-> TRUE, flink |-> TRUE, kafka |-> TRUE]}

DemoUsers ==
  <<<<347, 28419>>, <<289, 24831>>, <<265, 21740>>, <<241, 19632>>, <<218, 17544>>,
    <<195, 15890>>, <<183, 14216>>, <<167, 12983>>, <<152, 11647>>, <<138, 10324>>,
    <<124, 9870>>, <<112, 8541>>>>

getDemoAnalytics ==
  {[topUsers |-> {[userId |-> i, orderCount |-> DemoUsers[i][1], totalAmount |-> DemoUsers[i][2]] :
                  i \in DOMAIN DemoUsers},
    revenueOverTime |-> [i \in 1..60 |-> 2800], volumeOverTime |-> [i \in 1..60 |-> 35]]}

-----------------------------------------------------------------------------
(* app/api: the calls of each route, and what it responds.                    *)

Calls == [health    |-> Backends,
          alerts    |-> {"alerts"},
          kafka     |-> Gauges \cup Ranges \cup {"perBroker"},
          flink     |-> JobGauges \cup {"overview", "jobs", "durationRange"},
          dlq       |-> {"eventRate", "messagesTotal", "rateRange", "alerts"},
          analytics |-> {"topUsers", "revenueOverTime", "volumeOverTime"}]

Routes == DOMAIN Calls

PgCalls == Calls.analytics \cup {"postgres"}
FlinkCalls == {"flink", "overview", "jobs", "checkpoints"}
BackendOf(c) ==
  IF c \in PgCalls THEN "postgres" ELSE IF c \in FlinkCalls THEN "flink" ELSE "prometheus"

(* What call c may answer; the checkpoints are asked for with a job's id.     *)
Answers(w, c) ==
  CASE c = "prometheus"      -> promHealth(w)
    [] c = "flink"           -> flinkHealth(w)
    [] c = "postgres"        -> pgHealth(w)
    [] c = "overview"        -> getOverview(w)
    [] c = "jobs"            -> getJobs(w)
    [] c = "topUsers"        -> pgQuery(w, topUsersRows(w.table))
    [] c = "revenueOverTime" -> pgQuery(w, revenueRows(w.table))
    [] c = "volumeOverTime"  -> pgQuery(w, volumeRows(w.table))
    [] OTHER                 -> promQuery(w, w.results[c])

(* A response carries no mark that it is simulated: demo is a history field.  *)
Demo(bodies) == {[demo |-> TRUE, body |-> b] : b \in bodies}
Live(b) == {[demo |-> FALSE, body |-> b]}

AnyRejected(a) == \E c \in DOMAIN a : a[c] = Rejected

(* The first sample or series of a result, 0 when there is none.              *)
val(v) == IF v = <<>> THEN 0 ELSE v[1]

(* Mutants: demo data as soon as one probe fails; no demo data. *)
AnyLive_All(a) == a.prometheus /\ a.postgres /\ a.flink
AnyLive_Always(a) == TRUE

AnyLive(a) == a.prometheus \/ a.postgres \/ a.flink

(* Kafka has no probe of its own.                                             *)
HealthResponses(a) ==
  IF ~AnyLive(a) THEN Demo(getDemoHealth)
  ELSE Live([prometheus |-> a.prometheus, postgres |-> a.postgres, flink |-> a.flink,
             kafka |-> a.prometheus])

(* Alerts that differ only in their place in the list are told apart nowhere. *)
InState(alerts, s) == {x \in Range(alerts) : x.state = s}

(* Mutant: no alert is an answer like another. *)
AlertsResponses_Empty(a) ==
  IF a.alerts = Rejected THEN Demo(getDemoAlerts)
  ELSE Live([firing |-> InState(a.alerts, "firing"), pending |-> InState(a.alerts, "pending"),
             total |-> Len(a.alerts)])

AlertsResponses(a) ==
  IF a.alerts = Rejected \/ a.alerts = <<>> THEN Demo(getDemoAlerts)
  ELSE Live([firing |-> InState(a.alerts, "firing"), pending |-> InState(a.alerts, "pending"),
             total |-> Len(a.alerts)])

KafkaResponses(a) ==
  IF AnyRejected(a) \/ (a.messagesIn = <<>> /\ a.perBroker = <<>>) THEN Demo(getDemoKafkaMetrics)
  ELSE Live([current |-> [g \in Gauges |-> val(a[g])],
             series |-> [s \in Ranges |-> val(a[s])],
             brokers |-> a.perBroker])

(* Mutant: one of the two alert rules is forgotten. *)
DlqAlert_One(x) == x.labels.alertname = "DLQEventsDetected"

DlqAlert(x) == x.labels.alertname \in {"DLQEventsDetected", "DLQHighRate"}

dlqAlerts(alerts) ==
  {[name |-> x.labels.alertname, state |-> x.state] : x \in {y \in Range(alerts) : DlqAlert(y)}}

DlqResponses(a) ==
  IF AnyRejected(a) \/ (a.eventRate = <<>> /\ a.messagesTotal = <<>>) THEN Demo(getDemoDlqMetrics)
  ELSE Live([eventRate |-> val(a.eventRate), messagesTotal |-> val(a.messagesTotal),
             series |-> val(a.rateRange), alerts |-> dlqAlerts(a.alerts)])

(* The route asks for the checkpoints of a job that runs, the first listed,   *)
(* once the first calls are in.                                               *)
RunningJobs(a) == {i \in DOMAIN a.jobs : Running(a.jobs[i])}
AsksCheckpoints(a) == ~AnyRejected(a) /\ a.overview # Null /\ RunningJobs(a) # {}

(* Mutant: the checkpoints of the first job listed, running or not. *)
CheckpointJob_First(a) == a.jobs[1].id

CheckpointJob(a) ==
  LET first == CHOOSE i \in RunningJobs(a) : \A j \in RunningJobs(a) : i <= j
  IN a.jobs[first].id

FlinkResponses(a) ==
  IF AnyRejected(a) \/ a.overview = Null THEN Demo(getDemoFlinkMetrics)
  ELSE Live([overview |-> a.overview, jobs |-> a.jobs,
             metrics |-> [g \in JobGauges |-> val(a[g])],
             checkpoints |-> IF "checkpoints" \in DOMAIN a THEN a.checkpoints ELSE Null,
             series |-> val(a.durationRange)])

AnalyticsResponses(a) ==
  IF AnyRejected(a) \/ a.topUsers = {} THEN Demo(getDemoAnalytics)
  ELSE Live([topUsers |-> a.topUsers, revenueOverTime |-> a.revenueOverTime,
             volumeOverTime |-> a.volumeOverTime])

Responses(r, a) ==
  CASE r = "health"    -> HealthResponses(a)
    [] r = "alerts"    -> AlertsResponses(a)
    [] r = "kafka"     -> KafkaResponses(a)
    [] r = "dlq"       -> DlqResponses(a)
    [] r = "flink"     -> FlinkResponses(a)
    [] r = "analytics" -> AnalyticsResponses(a)
=============================================================================
