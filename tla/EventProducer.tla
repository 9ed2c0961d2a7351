--------------------------- MODULE EventProducer ---------------------------
(***************************************************************************)
(* The Go service of producer/: one process whose worker goroutines        *)
(* generate orders on a ticker and hand them to one shared, idempotent     *)
(* sarama producer with acks=all; its retries, its epoch and its errors;   *)
(* the shutdown on SIGTERM; and the replicated partition it writes to,     *)
(* with an in-sync replica set, crashes of brokers and leader elections.   *)
(*                                                                         *)
(* One partition: the others are alike.  An event is the number of its     *)
(* generation, which orders events as their timestamps do.  A request      *)
(* carries one record.  Followers only ever hold a prefix of the leader's  *)
(* log, so a replica is the length of that prefix.                         *)
(***************************************************************************)
EXTENDS Integers, Sequences, FiniteSets

CONSTANTS
  Workers,      \* worker goroutines
  Rates,        \* values EVENTS_PER_SECOND may parse to
  RetryMax,     \* sc.Producer.Retry.Max
  Brokers,      \* replicas of the partition
  NoLeader,     \* the leader of a partition without one
  MinISR,       \* min.insync.replicas
  MaxEvents,    \* bound: events generated
  MaxCrashes    \* bound: broker crashes

ASSUME WorkersAssumption == IsFiniteSet(Workers) /\ Workers # {} /\ Rates \subseteq Nat
ASSUME BrokersAssumption ==
  /\ IsFiniteSet(Brokers) /\ Brokers # {} /\ NoLeader \notin Brokers
  /\ MinISR \in 1..Cardinality(Brokers)
ASSUME BoundsAssumption == {RetryMax, MaxEvents, MaxCrashes} \subseteq Nat

VARIABLES
  rate,      \* cfg.EventsPerSecond
  proc,      \* "running", "stopping" after cancel(), "stopped" or "crashed"
  at,        \* each worker: "start", "select", "dispatch", "wait" or "done"
  current,   \* the event each worker is sending
  events,    \* history: the worker of every event, in generation order
  outcome,   \* what SendMessage returned of each: "none", "sent" or "error"
  queue,     \* records dispatched to the partition, the head being sent
  inflight,  \* the head's request is out
  tries,     \* retries of the head
  reply,     \* leader's answer: "none", "appended", "retriable" or "fatal"
  epoch,     \* producer epoch
  nextSeq,   \* next sequence number
  net,       \* requests on their way, those given up too
  log,       \* the leader's log
  have,      \* length of the prefix of it that each replica holds
  leader,    \* the leader, or NoLeader
  isr,       \* in-sync replicas
  alive,     \* brokers that are up
  crashes    \* broker crashes so far

workerVars == <<rate, at, current, events, outcome>>
senderVars == <<queue, inflight, tries, reply, epoch, nextSeq>>
brokerVars == <<log, have, leader, isr, alive, crashes>>
vars == <<proc, workerVars, senderVars, net, brokerVars>>

Init ==
  /\ rate \in Rates
  /\ proc = "running"
  /\ at = [w \in Workers |-> "start"] /\ current = [w \in Workers |-> 0]
  /\ events = <<>> /\ outcome = <<>>
  /\ queue = <<>> /\ inflight = FALSE /\ tries = 0 /\ reply = "none"
  /\ epoch = 0 /\ nextSeq = 0
  /\ net = {}
  /\ log = <<>> /\ have = [b \in Brokers |-> 0]
  /\ leader \in Brokers /\ isr = Brokers /\ alive = Brokers /\ crashes = 0

-----------------------------------------------------------------------------
(* The workers and main. *)

Up == proc \in {"running", "stopping"}

(* time.Second / EventsPerSecond, in nanoseconds; NewTicker wants it positive. *)
Interval == 1000000000 \div rate
Ticks == rate > 0 /\ Interval > 0

StartTicker(w) ==
  /\ Up /\ at[w] = "start" /\ Ticks
  /\ at' = [at EXCEPT ![w] = "select"]
  /\ UNCHANGED <<rate, proc, current, events, outcome, senderVars, net, brokerVars>>

(* What the death of the process takes; requests already sent go on. *)
Die ==
  /\ proc' = "crashed"
  /\ queue' = <<>> /\ inflight' = FALSE /\ tries' = 0 /\ reply' = "none"
  /\ UNCHANGED <<workerVars, epoch, nextSeq, net, brokerVars>>

(* A division by zero, or NewTicker of no interval, panics in the goroutine. *)
Panic(w) == Up /\ at[w] = "start" /\ ~Ticks /\ Die

(* The ticker's case of the select: an order is generated, and timestamped. *)
Generate(w) ==
  /\ Up /\ at[w] = "select"
  /\ Len(events) < MaxEvents
  /\ events' = Append(events, w)
  /\ outcome' = Append(outcome, "none")
  /\ current' = [current EXCEPT ![w] = Len(events) + 1]
  /\ at' = [at EXCEPT ![w] = "dispatch"]
  /\ UNCHANGED <<rate, proc, senderVars, net, brokerVars>>

(* SendMessage reaches the partition's producer, which numbers the record. *)
Dispatch(w) ==
  /\ Up /\ at[w] = "dispatch"
  /\ queue' = Append(queue, [event |-> current[w], epoch |-> epoch, seq |-> nextSeq])
  /\ nextSeq' = nextSeq + 1
  /\ at' = [at EXCEPT ![w] = "wait"]
  /\ UNCHANGED <<rate, proc, current, events, outcome, inflight, tries, reply, epoch,
                 net, brokerVars>>

(* The ctx.Done() case of the select. *)
Stop(w) ==
  /\ proc = "stopping" /\ at[w] = "select"
  /\ at' = [at EXCEPT ![w] = "done"]
  /\ UNCHANGED <<rate, proc, current, events, outcome, senderVars, net, brokerVars>>

Signal ==
  /\ proc = "running"
  /\ proc' = "stopping"
  /\ UNCHANGED <<workerVars, senderVars, net, brokerVars>>

(* Mutant: main does not wait for the workers. *)
Exit_NoWait ==
  /\ proc = "stopping"
  /\ proc' = "stopped"
  /\ UNCHANGED <<workerVars, senderVars, net, brokerVars>>

(* wg.Wait() returns, then the deferred Close. *)
Exit ==
  /\ proc = "stopping" /\ \A w \in Workers : at[w] = "done"
  /\ proc' = "stopped"
  /\ UNCHANGED <<workerVars, senderVars, net, brokerVars>>

(* SIGKILL, or the node goes. *)
Crash == Up /\ Die

-----------------------------------------------------------------------------
(* The sarama producer, as NewEventProducer configures it. *)

(* Mutants: without Idempotent; WaitForLocal. *)
Idempotent_Off == FALSE
WaitForAll_Off == FALSE

Idempotent == TRUE
WaitForAll == TRUE

(* Offset i is below the high watermark: every in-sync replica has it. *)
Committed(i) == \A b \in isr : i <= have[b]
Written(e) == \E i \in 1..Len(log) : log[i].event = e /\ Committed(i)

Request == [record |-> Head(queue), try |-> tries]

Send ==
  /\ Up /\ queue # <<>> /\ ~inflight
  /\ net' = net \cup {Request}
  /\ inflight' = TRUE /\ reply' = "none"
  /\ UNCHANGED <<proc, workerVars, queue, tries, epoch, nextSeq, brokerVars>>

(* SendMessage returns r to the worker of the head, which counts it. *)
Settle(r) ==
  LET e == Head(queue).event IN
  /\ outcome' = [outcome EXCEPT ![e] = r]
  /\ at' = [at EXCEPT ![events[e]] = "select"]
  /\ queue' = Tail(queue)
  /\ inflight' = FALSE /\ tries' = 0 /\ reply' = "none"
  /\ UNCHANGED <<rate, proc, current, events, net, brokerVars>>

Succeed ==
  /\ Up /\ inflight /\ reply = "appended"
  /\ WaitForAll => Written(Head(queue).event)
  /\ Settle("sent")
  /\ UNCHANGED <<epoch, nextSeq>>

(* Mutant: one retry too many. *)
Exhausted_OffByOne == tries > RetryMax
Exhausted == tries >= RetryMax

(* No answer, an answer that is lost, or one that may be retried: the same    *)
(* record with the same number is sent again.                                 *)
Retry ==
  /\ Up /\ inflight /\ reply # "fatal" /\ ~Exhausted
  /\ tries' = tries + 1
  /\ inflight' = FALSE /\ reply' = "none"
  /\ UNCHANGED <<proc, workerVars, queue, epoch, nextSeq, net, brokerVars>>

(* SendMessage returns an error; sarama starts a new epoch, since the broker   *)
(* may never see the number.                                                   *)
Fail ==
  /\ Up /\ inflight
  /\ reply = "fatal" \/ Exhausted
  /\ Settle("error")
  /\ epoch' = epoch + 1 /\ nextSeq' = 0

-----------------------------------------------------------------------------
(* The partition. *)

Last == log[Len(log)]
Duplicate(r) == \E i \in 1..Len(log) : log[i].epoch = r.epoch /\ log[i].seq = r.seq
InSequence(r) ==
  \/ log = <<>>
  \/ r.epoch = Last.epoch /\ r.seq = Last.seq + 1
  \/ r.epoch > Last.epoch /\ r.seq = 0

(* What the leader does with a record: the idempotence check applies only to  *)
(* records that carry a sequence number.                                      *)
Verdict(r) ==
  CASE Cardinality(isr) < MinISR -> "retriable"
    [] Idempotent /\ Duplicate(r) -> "duplicate"
    [] Idempotent /\ ~InSequence(r) -> "fatal"
    [] OTHER -> "append"

(* The leader handles a request, the one the producer waits for or one that   *)
(* it has given up since.                                                     *)
Deliver(m) ==
  LET v == Verdict(m.record)
      awaited == inflight /\ m = Request
  IN
  /\ leader # NoLeader
  /\ net' = net \ {m}
  /\ IF v = "append"
     THEN /\ log' = Append(log, m.record)
          /\ have' = [have EXCEPT ![leader] = Len(log) + 1]
     ELSE UNCHANGED <<log, have>>
  /\ reply' = IF ~awaited THEN reply
              ELSE IF v \in {"append", "duplicate"} THEN "appended" ELSE v
  /\ UNCHANGED <<proc, workerVars, queue, inflight, tries, epoch, nextSeq,
                 leader, isr, alive, crashes>>

(* The connection breaks. *)
Lose(m) ==
  /\ net' = net \ {m}
  /\ UNCHANGED <<proc, workerVars, senderVars, brokerVars>>

partitionFrame == <<proc, workerVars, senderVars, net>>

Replicate(b) ==
  /\ leader # NoLeader /\ b \in alive \ {leader} /\ have[b] < Len(log)
  /\ have' = [have EXCEPT ![b] = @ + 1]
  /\ UNCHANGED <<partitionFrame, log, leader, isr, alive, crashes>>

ShrinkIsr(b) ==
  /\ leader # NoLeader /\ b \in isr \ {leader}
  /\ have[b] < Len(log) \/ b \notin alive
  /\ isr' = isr \ {b}
  /\ UNCHANGED <<partitionFrame, log, have, leader, alive, crashes>>

ExpandIsr(b) ==
  /\ leader # NoLeader /\ b \in alive \ isr
  /\ \A i \in 1..Len(log) : Committed(i) => i <= have[b]
  /\ isr' = isr \cup {b}
  /\ UNCHANGED <<partitionFrame, log, have, leader, alive, crashes>>

(* The requests and the answer that the leader had not sent go with it. *)
BrokerCrash(b) ==
  /\ b \in alive /\ crashes < MaxCrashes
  /\ crashes' = crashes + 1
  /\ alive' = alive \ {b}
  /\ IF b = leader THEN leader' = NoLeader /\ net' = {} /\ reply' = "none"
                   ELSE UNCHANGED <<leader, net, reply>>
  /\ UNCHANGED <<proc, workerVars, queue, inflight, tries, epoch, nextSeq, log, have, isr>>

BrokerRestart(b) ==
  /\ b \in Brokers \ alive
  /\ alive' = alive \cup {b}
  /\ UNCHANGED <<partitionFrame, log, have, leader, isr, crashes>>

(* A clean election: an in-sync replica leads, the others truncate to it. *)
Elect(b) ==
  /\ leader = NoLeader /\ b \in isr \cap alive
  /\ leader' = b
  /\ log' = SubSeq(log, 1, have[b])
  /\ have' = [c \in Brokers |-> IF have[c] < have[b] THEN have[c] ELSE have[b]]
  /\ UNCHANGED <<partitionFrame, isr, alive, crashes>>

-----------------------------------------------------------------------------
Worker(w) ==
  \/ StartTicker(w) \/ Panic(w) \/ Generate(w) \/ Dispatch(w) \/ Stop(w)
Answered == Succeed \/ Retry \/ Fail
Broker(b) ==
  \/ Replicate(b) \/ ShrinkIsr(b) \/ ExpandIsr(b)
  \/ BrokerCrash(b) \/ BrokerRestart(b) \/ Elect(b)

Next ==
  \/ \E w \in Workers : Worker(w)
  \/ Signal \/ Exit \/ Crash
  \/ Send \/ Answered
  \/ \E m \in net : Deliver(m) \/ Lose(m)
  \/ \E b \in Brokers : Broker(b)

Spec == Init /\ [][Next]_vars

-----------------------------------------------------------------------------
(* Properties *)

Record == [event : Nat \ {0}, epoch : Nat, seq : Nat]

(* Every variable of the producer and the partition keeps its type. *)
TypeOK ==
  /\ rate \in Rates
  /\ proc \in {"running", "stopping", "stopped", "crashed"}
  /\ at \in [Workers -> {"start", "select", "dispatch", "wait", "done"}]
  /\ current \in [Workers -> 0..Len(events)]
  /\ events \in Seq(Workers)
  /\ outcome \in Seq({"none", "sent", "error"}) /\ Len(outcome) = Len(events)
  /\ queue \in Seq(Record) /\ Len(queue) <= Cardinality(Workers)
  /\ inflight \in BOOLEAN /\ tries \in 0..RetryMax
  /\ reply \in {"none", "appended", "retriable", "fatal"}
  /\ epoch \in Nat /\ nextSeq \in Nat
  /\ net \subseteq [record : Record, try : 0..RetryMax]
  /\ log \in Seq(Record) /\ have \in [Brokers -> 0..Len(log)]
  /\ leader \in Brokers \cup {NoLeader}
  /\ isr \subseteq Brokers /\ alive \subseteq Brokers
  /\ crashes \in 0..MaxCrashes

(* An event a worker counted as sent is committed, and stays so through any   *)
(* crash, election and truncation: acks=all with replication factor 3 loses   *)
(* no data on a broker failure (producer.go:19-20).                           *)
SentEventsSurvive ==
  \A e \in 1..Len(events) : outcome[e] = "sent" => Written(e)

(* No event is on the topic twice, whatever is retried, answered late, or     *)
(* delivered after the producer gave it up (producer.go:19, Idempotent).      *)
NoEventTwice ==
  \A i, j \in 1..Len(log) : log[i].event = log[j].event => i = j

(* A worker's events are on the topic in the order it generated them, although *)
(* a request it was told had failed may be handled after its next one.         *)
WorkerOrder ==
  \A i, j \in 1..Len(log) :
    i < j /\ events[log[i].event] = events[log[j].event]
      => log[i].event < log[j].event

(* A process that stops in order leaves no event whose fate its counters do   *)
(* not know (main.go:42, wg.Wait; producer.go:58-69).                         *)
StoppedIsSettled ==
  proc = "stopped" => \A e \in 1..Len(events) : outcome[e] # "none"

=============================================================================
