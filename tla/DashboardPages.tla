--------------------------- MODULE DashboardPages ---------------------------
(***************************************************************************)
(* What the pages of web/src/app show of the responses the browser holds.  *)
(* Every operator takes cache, a function from routes to response bodies,  *)
(* Undefined where no response arrived yet.  Titles, units and layout are  *)
(* left out, and so are the order of alerts and the fixed texts            *)
(* ("3 brokers", the boxes of the DLQ pipeline).                           *)
(***************************************************************************)
EXTENDS DashboardApi

CONSTANT Missing  \* a field of what is undefined: still loading

(* SWR's undefined has no fields.                                             *)
Undefined == <<>>

(* data?.f ?? default                                                         *)
Get(data, f, default) == IF f \in DOMAIN data THEN data[f] ELSE default

-----------------------------------------------------------------------------
(* components/                                                                *)

(* Only whether there is something to draw matters.                           *)
TimeSeriesChart(points) == IF points = 0 THEN "No data available" ELSE "chart"
DataTable(rows) == IF Len(rows) = 0 THEN <<"No data available">> ELSE rows

StatusLabel == [healthy |-> "Healthy", down |-> "Down", loading |-> "Loading"]
StatusCard(status, stats) == [label |-> StatusLabel[status], stats |-> stats]

StatusColor == [normal |-> "success", warning |-> "warning", critical |-> "destructive"]
MetricCard(value, status) == [value |-> value, color |-> StatusColor[status]]

(* An alert that Prometheus describes has labels, and no name or severity of  *)
(* its own: the row is nameless and takes the severity of its variant.        *)
AlertRow(alert, variant) ==
  [name |-> IF "name" \in DOMAIN alert THEN alert.name ELSE Missing,
   severity |-> IF "severity" \in DOMAIN alert THEN alert.severity
                ELSE IF variant = "firing" THEN "warning" ELSE "info",
   variant |-> variant]

(* No rows: "All clear - no active alerts".                                   *)
AlertsPanel(firing, pending) ==
  {AlertRow(x, "firing") : x \in firing} \cup {AlertRow(x, "pending") : x \in pending}

AllClear(panel) == panel = {}

Links == {"/", "/kafka", "/flink", "/dlq", "/analytics"}

(* The routes a page polls.                                                   *)
Polls(page) ==
  CASE page = "/"          -> Routes
    [] page = "/kafka"     -> {"kafka"}
    [] page = "/flink"     -> {"flink"}
    [] page = "/dlq"       -> {"dlq"}
    [] page = "/analytics" -> {"analytics"}

-----------------------------------------------------------------------------
(* app/page.tsx                                                               *)

healthStatus(ok) == IF ok = Missing THEN "loading" ELSE IF ok THEN "healthy" ELSE "down"

(* From 10 ms, from 6 ms.                                                     *)
latencyStatus(ms) == IF ms >= 100 THEN "critical" ELSE IF ms >= 60 THEN "warning" ELSE "normal"

(* From 5 events a second, from 1.                                            *)
dlqStatus(rate) == IF rate >= 5000 THEN "critical" ELSE IF rate >= 1000 THEN "warning" ELSE "normal"

TotalOrders(users) == SumOf([u \in users |-> u.orderCount])
TotalRevenue(users) == SumOf([u \in users |-> u.totalAmount])

Gauge(current, g) == IF g \in DOMAIN current THEN current[g] ELSE 0

OverviewPage(cache) ==
  LET health == cache["health"]
      kafka == Get(cache["kafka"], "current", <<>>)
      series == Get(cache["kafka"], "series", <<>>)
      flink == Get(cache["flink"], "overview", [running |-> 0, slotsTotal |-> 0, slotsAvailable |-> 0])
      dlqRate == Get(cache["dlq"], "eventRate", 0)
      Card(b, stats) == StatusCard(healthStatus(Get(health, b, Missing)), stats)
      p99 == Gauge(kafka, "p99Produce")
  IN
  [cards |->
     [kafka    |-> Card("kafka", <<Gauge(kafka, "partitionCount")>>),
      flink    |-> Card("flink", <<flink.running, flink.slotsTotal - flink.slotsAvailable,
                                   flink.slotsTotal>>),
      dlq      |-> Card("kafka", <<dlqRate, Get(cache["dlq"], "messagesTotal", 0)>>),
      postgres |-> Card("postgres", <<TotalOrders(Get(cache["analytics"], "topUsers", {}))>>)],
   metrics |->
     [messagesIn |-> MetricCard(Gauge(kafka, "messagesIn"), "normal"),
      bytesIn    |-> MetricCard(Gauge(kafka, "bytesIn"), "normal"),
      p99        |-> MetricCard(p99, latencyStatus(p99)),
      dlqRate    |-> MetricCard(dlqRate, dlqStatus(dlqRate))],
   charts |->
     [throughput |-> TimeSeriesChart(Gauge(series, "messagesInRange")),
      p99        |-> TimeSeriesChart(Gauge(series, "p99ProduceRange")),
      dlqRate    |-> TimeSeriesChart(Get(cache["dlq"], "series", 0))],
   alerts |-> AlertsPanel(Get(cache["alerts"], "firing", {}), Get(cache["alerts"], "pending", {}))]

-----------------------------------------------------------------------------
(* app/kafka, app/flink, app/dlq and app/analytics/page.tsx                   *)

KafkaPage(cache) ==
  LET current == Get(cache["kafka"], "current", <<>>)
      series == Get(cache["kafka"], "series", <<>>)
      Shown == {"messagesIn", "bytesIn", "bytesOut", "p99Produce", "p99Fetch",
                "partitionCount", "underReplicated", "offlinePartitions"}
  IN
  [metrics |-> [g \in Shown |-> MetricCard(Gauge(current, g), "normal")],
   charts  |-> [s \in {"messagesInRange", "bytesInRange", "bytesOutRange"} |->
                  TimeSeriesChart(Gauge(series, s))],
   brokers |-> DataTable(Get(cache["kafka"], "brokers", <<>>))]

FlinkPage(cache) ==
  LET overview == Get(cache["flink"], "overview", Undefined)
      metrics == Get(cache["flink"], "metrics", <<>>)
  IN
  [running |-> MetricCard(Get(overview, "running", 0), "normal"),
   failed  |-> MetricCard(Get(overview, "failed", 0), "normal"),
   slots   |-> MetricCard(Get(overview, "slotsTotal", 0), "normal"),
   free    |-> MetricCard(Get(overview, "slotsAvailable", 0), "normal"),
   metrics |-> [g \in AllJobGauges |-> MetricCard(Gauge(metrics, g), "normal")],
   chart   |-> TimeSeriesChart(Get(cache["flink"], "series", 0)),
   jobs    |-> DataTable(Get(cache["flink"], "jobs", <<>>)),
   clusterInfo |-> overview # Undefined]

DLQPage(cache) ==
  LET alerts == Get(cache["dlq"], "alerts", {})
      Of(s) == {x \in alerts : x.state = s}
  IN
  [eventRate     |-> MetricCard(Get(cache["dlq"], "eventRate", 0), "normal"),
   messagesTotal |-> MetricCard(Get(cache["dlq"], "messagesTotal", 0), "normal"),
   chart         |-> TimeSeriesChart(Get(cache["dlq"], "series", 0)),
   alerts        |-> AlertsPanel(Of("firing"), Of("pending"))]

(* The charts sum over the windows; the cards over the top users.             *)
AnalyticsPage(cache) ==
  LET topUsers == Get(cache["analytics"], "topUsers", {})
      revenue == Get(cache["analytics"], "revenueOverTime", <<>>)
      volume == Get(cache["analytics"], "volumeOverTime", <<>>)
      orders == TotalOrders(topUsers)
  IN
  [totalRevenue |-> MetricCard(TotalRevenue(topUsers), "normal"),
   totalOrders  |-> MetricCard(orders, "normal"),
   averageOrder |-> MetricCard(IF orders > 0 THEN TotalRevenue(topUsers) \div orders ELSE 0, "normal"),
   revenue      |-> revenue,
   volume       |-> volume,
   topUsers     |-> topUsers]

(* app/layout.tsx, rendered when the image is built: the layout reads no      *)
(* request, so the variable it reads is the build's.                          *)
Banner(prometheusUrl) == IF prometheusUrl = "" THEN "Demo Mode" ELSE ""
=============================================================================
