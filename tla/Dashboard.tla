------------------------------ MODULE Dashboard ------------------------------
(***************************************************************************)
(* The dashboard of web/ at work: one browser that polls the routes of the *)
(* page it shows, the server that collects the answers of the backends for *)
(* each request, the connection pool to PostgreSQL, and a world that       *)
(* changes while requests are under way.  Calls of one Promise.all are     *)
(* answered in any order, each at an instant of its own.                   *)
(*                                                                         *)
(* SWR (external) starts no second request of a route while one is under   *)
(* way, keeps the data it has when a request fails, and keeps the data of  *)
(* pages that were left.  An error is retried, which is another Poll.      *)
(***************************************************************************)
EXTENDS DashboardPages

CONSTANTS
  InitialWorlds, \* worlds the behaviours of an instance start in
  Turns,         \* pairs of a backend and a status it may turn to
  Scrapes,       \* results Prometheus may turn to
  JobLists,      \* lists of jobs Flink may turn to
  Upserts,       \* rows the job's sink may write: key, count and amount
  Followed,      \* bound: sets of routes of which an instance follows one
  PoolMax,       \* max of the pool (5)
  PrometheusUrl, \* PROMETHEUS_URL when the image is built
  Orphan,        \* a query whose request is over
  MaxMoves       \* bound: what the world, the network and the user do in it

ASSUME DashboardAssumption ==
  /\ PoolMax \in Nat \ {0} /\ MaxMoves \in [Followed -> Nat]
  /\ Followed # {} /\ \A f \in Followed : f \subseteq Routes
  /\ \A t \in Turns : t[1] \in Backends /\ t[2] \in Statuses

(* A query whose request is over is none that a request waits for.            *)
ASSUME OrphanAssumption == Orphan \notin Routes \X PgCalls

(* The backends hold what they may hold, whatever they turn to.               *)
ASSUME WorldsAssumption ==
  /\ \A f \in Followed : \A w \in InitialWorlds[f] : IsWorld(w)
  /\ \A results \in Scrapes : IsResults(results)
  /\ JobLists \subseteq Seq(Jobs)
  /\ \A u \in Upserts : u.key[2] \in Int /\ u.count \in Int /\ u.amount \in Int

VARIABLES
  world,    \* what the backends would answer now
  moves,    \* moves so far
  page,     \* the page shown
  followed, \* the routes of this behaviour
  stage,    \* each route's request: "idle", "asked" or "checkpoints"
  answers,  \* the answers to its calls so far
  pool,     \* PostgreSQL queries; the first PoolMax have a connection
  cache,    \* SWR's data: the last response of each route
  span      \* history: the worlds a request met so far

requestVars == <<stage, answers, pool, span>>
vars == <<world, moves, page, followed, requestVars, cache>>

Init ==
  /\ followed \in Followed
  /\ world \in InitialWorlds[followed] /\ moves = 0
  /\ page \in {p \in Links : Polls(p) \cap followed # {}}
  /\ stage = [r \in Routes |-> "idle"]
  /\ answers = [r \in Routes |-> <<>>]
  /\ pool = <<>>
  /\ cache = [r \in Routes |-> Missing]
  /\ span = [r \in Routes |-> {}]

Polled == Polls(page) \cap followed

-----------------------------------------------------------------------------
(* External: the backends, and the sink of OrderEventJob.                     *)

Move ==
  /\ moves < MaxMoves[followed]
  /\ moves' = moves + 1

(* What no followed route asks for stands still: nobody would see it change.  *)
Watched(calls) == \E r \in followed : Calls[r] \cap calls # {}
CallsOf(b) == {c \in UNION {Calls[r] : r \in Routes} : BackendOf(c) = b}

Becomes(w, calls) ==
  /\ Move
  /\ w # world /\ Watched(calls)
  /\ world' = w
  /\ span' = [r \in Routes |-> IF stage[r] = "idle" THEN span[r] ELSE span[r] \cup {w}]
  /\ UNCHANGED <<page, followed, stage, answers, pool, cache>>

Turn(b, s) == Becomes([world EXCEPT !.status[b] = s], CallsOf(b))
Scrape(results) == Becomes([world EXCEPT !.results = results], CallsOf("prometheus") \ Backends)
JobsChange(jobs) == Becomes([world EXCEPT !.jobs = jobs], {"jobs"})

(* INSERT ... ON CONFLICT DO UPDATE.                                          *)
Upsert(u) ==
  Becomes([world EXCEPT !.table =
    [k \in DOMAIN @ \cup {u.key} |->
       IF k = u.key THEN [count |-> u.count, amount |-> u.amount] ELSE @[k]]], {"topUsers"})

-----------------------------------------------------------------------------
(* A request.                                                                 *)

(* The queries of a route, in the order in which it issues them.              *)
PgQueries(r) ==
  CASE r = "health"    -> <<"postgres">>
    [] r = "analytics" -> <<"topUsers", "revenueOverTime", "volumeOverTime">>
    [] OTHER           -> <<>>

InPool(r) == [i \in DOMAIN PgQueries(r) |-> <<r, PgQueries(r)[i]>>]

(* The calls a request has made, and those it waits for.                      *)
Asked(r) ==
  CASE stage[r] = "idle"        -> {}
    [] stage[r] = "asked"       -> Calls[r]
    [] stage[r] = "checkpoints" -> Calls[r] \cup {"checkpoints"}
Waiting(r) == Asked(r) \ DOMAIN answers[r]

(* Mutant: the page asks once and never again. *)
Poll_Once(r) ==
  /\ r \in Polled /\ stage[r] = "idle" /\ cache[r] = Missing
  /\ stage' = [stage EXCEPT ![r] = "asked"]
  /\ pool' = pool \o InPool(r)
  /\ span' = [span EXCEPT ![r] = {world}]
  /\ UNCHANGED <<world, moves, page, followed, answers, cache>>

(* useSWR's timer, or the mount of the page; the route starts its calls.      *)
Poll(r) ==
  /\ r \in Polled /\ stage[r] = "idle"
  /\ stage' = [stage EXCEPT ![r] = "asked"]
  /\ pool' = pool \o InPool(r)
  /\ span' = [span EXCEPT ![r] = {world}]
  /\ UNCHANGED <<world, moves, page, followed, answers, cache>>

Answering(b) == world.status[b] # "hung"

(* Mutant: the pool has no limit. *)
Finish_NoLimit(e) == \E i \in DOMAIN pool : pool[i] = e /\ pool' = RemoveAt(pool, i)

(* A query that has a connection is done and hands it to the next in line.    *)
Finish(e) == \E i \in DOMAIN pool : i <= PoolMax /\ pool[i] = e /\ pool' = RemoveAt(pool, i)

PossibleAnswers(r, c) ==
  IF c = "checkpoints" THEN getCheckpointStats(world, CheckpointJob(answers[r]))
  ELSE Answers(world, c)

Answer(r, c) ==
  /\ c \in Waiting(r)
  /\ Answering(BackendOf(c))
  /\ IF c \in PgCalls THEN Finish(<<r, c>>) ELSE UNCHANGED pool
  /\ \E a \in PossibleAnswers(r, c) :
       answers' = [answers EXCEPT ![r] =
                     [d \in DOMAIN @ \cup {c} |-> IF d = c THEN a ELSE @[d]]]
  /\ UNCHANGED <<world, moves, page, followed, stage, cache, span>>

AllIn(r) == Waiting(r) = {}

(* The Flink route's second await.                                            *)
AskCheckpoints ==
  /\ stage["flink"] = "asked" /\ AllIn("flink") /\ AsksCheckpoints(answers["flink"])
  /\ stage' = [stage EXCEPT !["flink"] = "checkpoints"]
  /\ UNCHANGED <<world, moves, page, followed, answers, pool, cache, span>>

(* Mutant: the checkpoints are not awaited. *)
Ready_NotAwaited(r) == stage[r] # "idle" /\ (AnyRejected(answers[r]) \/ AllIn(r))

(* Promise.all rejects at the first rejection; otherwise it waits for all.    *)
Ready(r) ==
  /\ stage[r] # "idle"
  /\ \/ AnyRejected(answers[r])
     \/ /\ AllIn(r)
        /\ ~(r = "flink" /\ stage[r] = "asked" /\ AsksCheckpoints(answers[r]))

(* The queries of a request that is over still run.                           *)
Abandon(Over) == [i \in DOMAIN pool |-> IF pool[i] # Orphan /\ pool[i][1] \in Over THEN Orphan
                                        ELSE pool[i]]

(* Mutant: what a request has collected is kept for the next one. *)
End_Collects(Over) ==
  /\ stage' = [r \in Routes |-> IF r \in Over THEN "idle" ELSE stage[r]]
  /\ UNCHANGED answers
  /\ span' = [r \in Routes |-> IF r \in Over THEN {} ELSE span[r]]
  /\ pool' = Abandon(Over)

End(Over) ==
  /\ stage' = [r \in Routes |-> IF r \in Over THEN "idle" ELSE stage[r]]
  /\ answers' = [r \in Routes |-> IF r \in Over THEN <<>> ELSE answers[r]]
  /\ span' = [r \in Routes |-> IF r \in Over THEN {} ELSE span[r]]
  /\ pool' = Abandon(Over)

(* The response reaches the browser.                                          *)
Show(r) ==
  /\ Ready(r)
  /\ \E resp \in Responses(r, answers[r]) :
       cache' = [cache EXCEPT ![r] = [demo |-> resp.demo, body |-> resp.body, span |-> span[r]]]
  /\ End({r})
  /\ UNCHANGED <<world, moves, page, followed>>

(* It does not: fetch or r.json() rejects, and SWR keeps what it has.         *)
Miss(r) ==
  /\ Ready(r) /\ Move
  /\ End({r})
  /\ UNCHANGED <<world, page, followed, cache>>

OrphanDone ==
  /\ Answering("postgres")
  /\ Finish(Orphan)
  /\ UNCHANGED <<world, moves, page, followed, stage, answers, cache, span>>

-----------------------------------------------------------------------------
(* The user.                                                                  *)

(* A link of the sidebar: requests go on, data stays.                         *)
Navigate(p) ==
  /\ Move /\ p # page
  /\ page' = p
  /\ UNCHANGED <<world, followed, requestVars, cache>>

(* The browser forgets everything; the server's queries still run.            *)
Reload ==
  /\ Move
  /\ cache' = [r \in Routes |-> Missing]
  /\ End(Routes)
  /\ UNCHANGED <<world, page, followed>>

WorldMoves ==
  \/ \E t \in Turns : Turn(t[1], t[2])
  \/ \E results \in Scrapes : Scrape(results)
  \/ \E jobs \in JobLists : JobsChange(jobs)
  \/ \E u \in Upserts : Upsert(u)

Proceed(r) == Poll(r) \/ (\E c \in Waiting(r) : Answer(r, c)) \/ Show(r)

Next ==
  \/ WorldMoves
  \/ \E r \in Routes : Proceed(r) \/ Miss(r)
  \/ AskCheckpoints
  \/ OrphanDone
  \/ \E p \in Links : Navigate(p)
  \/ Reload

Spec == Init /\ [][Next]_vars

(* A route polls when its timer fires, gets the answers of backends that do   *)
(* not hang, and its response arrives unless it is lost (a bounded number of  *)
(* times): one of these happens while any can.  No fairness for the world.    *)
Fairness ==
  /\ \A r \in Routes : WF_vars(Proceed(r))
  /\ WF_vars(AskCheckpoints)
  /\ WF_vars(OrphanDone)

FairSpec == Spec /\ Fairness
-----------------------------------------------------------------------------
(* What the pages show now, and the worlds the data of a route comes from.    *)
Data == [r \in Routes |-> IF cache[r] = Missing THEN Undefined ELSE cache[r].body]
IsLive(r) == cache[r] # Missing /\ ~cache[r].demo
Worlds(r) == IF cache[r] = Missing THEN {} ELSE cache[r].span

(* The backend is there, as the health probe of the route sees it.            *)
Up(w, b) == IF b = "postgres" THEN w.status[b] = "ok" ELSE Responds(w, b)

(* What a request that is answered all at once, in world w, responds.         *)
AtOnce(w, r) ==
  LET The(c) == CHOOSE a \in Answers(w, c) : TRUE
      base == {[c \in Calls[r] |-> IF c = "topUsers" THEN top ELSE The(c)] :
                 top \in IF r = "analytics" THEN Answers(w, "topUsers") ELSE {Null}}
      second(a) == IF r = "flink" /\ AsksCheckpoints(a)
                   THEN [c \in DOMAIN a \cup {"checkpoints"} |->
                           IF c = "checkpoints"
                           THEN CHOOSE x \in getCheckpointStats(w, CheckpointJob(a)) : TRUE
                           ELSE a[c]]
                   ELSE a
  IN UNION {Responses(r, second(a)) : a \in base}

TypeOK ==
  /\ IsWorld(world) /\ followed \in Followed /\ moves \in 0..MaxMoves[followed] /\ page \in Links
  /\ stage \in [Routes -> {"idle", "asked", "checkpoints"}]
  /\ \A r \in Routes \ {"flink"} : stage[r] # "checkpoints"
  /\ DOMAIN answers = Routes /\ \A r \in Routes : DOMAIN answers[r] \subseteq Asked(r)
  /\ pool \in Seq({Orphan} \cup (Routes \X PgCalls))
  /\ DOMAIN span = Routes
  /\ \A r \in Routes : IsFiniteSet(span[r]) /\ \A w \in span[r] : IsWorld(w)
  /\ DOMAIN cache = Routes
  /\ \A r \in Routes : cache[r] = Missing \/ DOMAIN cache[r] = {"demo", "body", "span"}

(* Unless the user reloads, abandoned queries never pile up past the limit of *)
(* the pool plus one, however often the analytics route fails early: its      *)
(* Promise.all rejects only once a query of its own had a connection, ahead   *)
(* of which fewer than the limit wait; then the other two are abandoned       *)
(* (postgres.ts:13-14, analytics/orders/route.ts:17).                         *)
Abandoned == Cardinality({i \in DOMAIN pool : pool[i] = Orphan})

AbandonedBounded == [][Abandoned' > Abandoned => Reload \/ Abandoned' <= PoolMax + 1]_vars

CardBackend == [kafka |-> "prometheus", dlq |-> "prometheus", flink |-> "flink",
                postgres |-> "postgres"]

(* A status card that says Healthy had its backend up at some moment of the   *)
(* request, unless every probe failed (health/route.ts:16, page.tsx:68-104).  *)
HealthyIsReal ==
  \A c \in DOMAIN CardBackend :
    OverviewPage(Data).cards[c].label = "Healthy" =>
      \/ \E w \in Worlds("health") : Up(w, CardBackend[c])
      \/ \A b \in Backends : \E w \in Worlds("health") : ~Up(w, b)

(* A status card that says Down had its backend down at some moment of the    *)
(* request, and another one up: a total outage never shows.                   *)
DownIsReal ==
  \A c \in DOMAIN CardBackend :
    OverviewPage(Data).cards[c].label = "Down" =>
      /\ \E w \in Worlds("health") : ~Up(w, CardBackend[c])
      /\ \E b \in Backends : \E w \in Worlds("health") : Up(w, b)

(* A latency or DLQ rate shown as critical was measured during the request:   *)
(* simulated data never raises one (demo-data.ts:32-61, page.tsx:13-23).      *)
CriticalIsReal ==
  /\ OverviewPage(Data).metrics.p99.color = "destructive" =>
       \E w \in Worlds("kafka") : latencyStatus(val(w.results["p99Produce"])) = "critical"
  /\ OverviewPage(Data).metrics.dlqRate.color = "destructive" =>
       \E w \in Worlds("dlq") : dlqStatus(val(w.results["eventRate"])) = "critical"

(* An alert that fires during the whole of a request that found Prometheus    *)
(* in order has a row on the Overview: simulated alerts never stand in for    *)
(* it.  On the DLQ page, if it is a DLQ alert and there are DLQ metrics       *)
(* (alerts/route.ts:9-16, dlq/route.ts:20-30).                                *)
Fires(w, x) ==
  /\ w.status["prometheus"] = "ok"
  /\ \E i \in DOMAIN w.results["alerts"] :
       w.results["alerts"][i].labels.alertname = x /\ w.results["alerts"][i].state = "firing"
FiringRows(panel) == {row \in panel : row.variant = "firing"}

FiringAlertsShown ==
  /\ \A x \in {"BrokerDown", "DLQHighRate"} :
       cache["alerts"] # Missing /\ (\A w \in Worlds("alerts") : Fires(w, x)) =>
         FiringRows(OverviewPage(Data).alerts) # {}
  /\ (/\ cache["dlq"] # Missing
      /\ \A w \in Worlds("dlq") :
            Fires(w, "DLQHighRate") /\ w.results["messagesTotal"] # <<>>) =>
       \E row \in FiringRows(DLQPage(Data).alerts) : row.name = "DLQHighRate"

(* Once a response arrived the Overview never reports All clear, and the DLQ  *)
(* page does so only without a DLQ alert at some moment of the request, or    *)
(* with simulated data (alerts/route.ts:10, alerts-panel.tsx:120-124).        *)
AllClearIsReal ==
  /\ AllClear(OverviewPage(Data).alerts) <=> cache["alerts"] = Missing
  /\ (AllClear(DLQPage(Data).alerts) /\ IsLive("dlq")) =>
       \E w \in Worlds("dlq") : ~ Fires(w, "DLQHighRate")

(* Checkpoints shown are those of a row that says RUNNING; and some are shown *)
(* if there is such a row, unless Flink failed during the request or forgot   *)
(* a job of such a row between the two awaits (flink/route.ts:14-33).         *)
CheckpointsOfRunningJob ==
  LET p == FlinkPage(Data)
      checkpoints == Data["flink"].checkpoints
      rows == {p.jobs[i] : i \in {j \in DOMAIN Data["flink"].jobs : Running(p.jobs[j])}}
      Lists(w, id) == \E i \in DOMAIN w.jobs : w.jobs[i].id = id
  IN
  IsLive("flink") =>
    /\ checkpoints # Null => \E row \in rows : row.id = checkpoints.job
    /\ (/\ rows # {}
        /\ \A w \in Worlds("flink") :
             w.status["flink"] = "ok" /\ \A row \in rows : Lists(w, row.id)) =>
         checkpoints # Null

(* The three queries of a request may see three tables.  Each total is that   *)
(* of the table at some moment of the request, while no limit cuts the users  *)
(* or windows: the cards and the chart differ by what the sink wrote          *)
(* meanwhile, and not at all if it wrote nothing                              *)
(* (analytics/orders/route.ts:17-39).                                         *)
OrdersIn(w) == SumOrders(w.table, DOMAIN w.table)

TotalsOfTheTable ==
  LET p == AnalyticsPage(Data) IN
  (/\ IsLive("analytics")
   /\ \A w \in Worlds("analytics") :
        /\ Cardinality({k[1] : k \in DOMAIN w.table}) <= TopUsers
        /\ Cardinality({k[2] : k \in DOMAIN w.table}) <= Windows) =>
    /\ \E w \in Worlds("analytics") : p.totalOrders.value = OrdersIn(w)
    /\ \E w \in Worlds("analytics") : SumOf(p.volume) = OrdersIn(w)

(* A response to a request during which the world stood still is what one     *)
(* look at the world would have given.                                        *)
StillWorldIsSnapshot ==
  \A r \in Routes :
    (cache[r] # Missing /\ Cardinality(Worlds(r)) = 1) =>
      \A w \in Worlds(r) : [demo |-> cache[r].demo, body |-> cache[r].body] \in AtOnce(w, r)

(* Once the world stands still, each route the page polls ends up showing it, *)
(* whatever hangs elsewhere: no route waits on another one, or for ever for a *)
(* connection (postgres.ts:14, prometheus.ts:26).                             *)
Needs(r) == {BackendOf(c) : c \in Calls[r]}
Serves(r) == r \in Polled /\ \A b \in Needs(r) : Answering(b)
ShowsTheWorld(r) ==
  cache[r] # Missing /\ [demo |-> cache[r].demo, body |-> cache[r].body] \in AtOnce(world, r)

RoutesConverge == \A r \in Routes : (<>[]Serves(r)) => <>[]ShowsTheWorld(r)

(* Data on the page that is simulated is shown under the banner that says so  *)
(* (layout.tsx:37-44).                                                        *)
SimulatedIsLabelled ==
  \A r \in Polled :
    cache[r] # Missing /\ cache[r].demo => Banner(PrometheusUrl) = "Demo Mode"
=============================================================================
