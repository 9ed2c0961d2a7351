---------------------------- MODULE MCDashboard ----------------------------
(* Small instances of Dashboard.                                              *)
EXTENDS Dashboard

None == [q \in {"messagesIn", "p99Produce", "messagesInRange", "perBroker",
                "checkpointDuration", "durationRange", "eventRate", "messagesTotal", "rateRange",
                "alerts"} |-> <<>>]

Alert(n, s) == [labels |-> [alertname |-> n], state |-> s]

Quiet == [None EXCEPT !.messagesIn = <<5000>>, !.p99Produce = <<40>>, !.messagesInRange = <<60>>,
                      !.perBroker = <<1700>>, !.eventRate = <<10>>, !.messagesTotal = <<3>>]

Trouble == [Quiet EXCEPT !.p99Produce = <<120>>,
                         !.eventRate = <<6000>>, !.rateRange = <<120>>,
                         !.alerts = <<Alert("BrokerDown", "firing"), Alert("DLQHighRate", "firing")>>]

(* The exporter of the gauges is gone; pending alerts.                        *)
Partial == [None EXCEPT !.perBroker = <<1700>>, !.messagesTotal = <<3>>,
                        !.alerts = <<Alert("DLQHighRate", "pending")>>]

MCScrapes == {None, Quiet, Trouble, Partial}

Job(id, s) == [id |-> id, state |-> s]
MCJobLists == {<<Job("j1", "RESTARTING"), Job("j2", "RUNNING")>>, <<Job("j1", "FAILED")>>}
OneJob == <<Job("j1", "RUNNING")>>

Row(u, x, n, a) == [key |-> <<u, x>>, count |-> n, amount |-> a]
MCUpserts == {Row(1, 1, 2, 5), Row(2, 1, 1, 7), Row(2, 2, 1, 3)}

Turned(b, s) == [[x \in Backends |-> "ok"] EXCEPT ![b] = s]
AllOk == [b \in Backends |-> "ok"]

OneRow == [k \in {<<1, 1>>} |-> [count |-> 1, amount |-> 2]]
World(status, results) == [status |-> status, results |-> results, jobs |-> OneJob, table |-> OneRow]

Servers == {"health", "analytics"}
Alerting == {"alerts", "dlq"}
MCFollowed == {Servers, {"kafka"}, {"flink"}, Alerting}

MCInitialWorlds ==
  [f \in MCFollowed |->
     CASE f = Servers   -> {World(AllOk, Quiet), World(Turned("postgres", "hung"), Quiet),
                           World([Turned("flink", "down") EXCEPT !["prometheus"] = "down"], Quiet)}
       [] f = {"kafka"} -> {World(AllOk, Trouble), World(Turned("prometheus", "hung"), Quiet)}
       [] f = {"flink"} -> {World(AllOk, Quiet)}
       [] f = Alerting  -> {World(AllOk, Trouble)}]

(* Two moves where the second await is followed.                              *)
MCMaxMoves == [f \in MCFollowed |-> IF f = {"flink"} THEN 2 ELSE 1]

MCTurns == (Backends \X {"ok", "down", "hung"}) \cup ({"prometheus", "flink"} \X {"error", "garbled"})

MCWaves == {0, 100}

(* One move is enough for the route to fall back.                             *)
DemoFollowed == {{"kafka"}}
DemoInitialWorlds == [f \in DemoFollowed |-> {World(AllOk, Quiet)}]
DemoMaxMoves == [f \in DemoFollowed |-> 1]
=============================================================================
