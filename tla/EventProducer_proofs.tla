----------------------- MODULE EventProducer_proofs -----------------------
(***************************************************************************)
(* The safety of the producer for any number of workers, brokers, retries, *)
(* events and crashes.  Every record ever handed to sarama carries an      *)
(* epoch and a sequence number that grow with the events of its worker,    *)
(* and the leader's log is in the order of those numbers: from this follow *)
(* that no event is on the topic twice and that none overtakes another of  *)
(* the same worker.                                                        *)
(***************************************************************************)
EXTENDS EventProducer, FiniteSetTheorems, SequenceTheorems, TLAPS

Before(r, s) == r.epoch < s.epoch \/ (r.epoch = s.epoch /\ r.seq < s.seq)

(* Every record that is queued, on its way, or in the log. *)
Records == {queue[i] : i \in 1..Len(queue)} \cup {m.record : m \in net}
             \cup {log[i] : i \in 1..Len(log)}

(* The owner of a queued record waits for that record, and for no other. *)
QueueInv ==
  /\ inflight => queue # <<>>
  /\ \A i \in 1..Len(queue) :
       /\ queue[i].event \in 1..Len(events)
       /\ at[events[queue[i].event]] = "wait"
       /\ current[events[queue[i].event]] = queue[i].event
  /\ \A i, j \in 1..Len(queue) : queue[i].event = queue[j].event => i = j

(* An event without an outcome is the one its worker is busy with. *)
PendingInv ==
  proc # "crashed" =>
    \A e \in 1..Len(events) : outcome[e] = "none" =>
      at[events[e]] \in {"dispatch", "wait"} /\ current[events[e]] = e

Numbered(r) == r.epoch < epoch \/ (r.epoch = epoch /\ r.seq < nextSeq)

(* Two records of one worker are one record, or ordered like their events. *)
Ordered(r, s) ==
  events[r.event] = events[s.event] =>
    \/ r = s
    \/ r.event < s.event /\ Before(r, s)
    \/ s.event < r.event /\ Before(s, r)

(* What a worker is about to dispatch is newer than all it has dispatched. *)
Fresh(w) ==
  /\ current[w] \in 1..Len(events) /\ events[current[w]] = w
  /\ \A r \in Records : events[r.event] = w => r.event < current[w]

NumberInv ==
  /\ \A r \in Records : r.event \in 1..Len(events) /\ Numbered(r)
  /\ \A r, s \in Records : Ordered(r, s)
  /\ \A w \in Workers : at[w] = "dispatch" => Fresh(w)

LogInv == \A i, j \in 1..Len(log) : i < j => Before(log[i], log[j])

IInv == TypeOK /\ QueueInv /\ PendingInv /\ NumberInv /\ LogInv /\ SentEventsSurvive

-----------------------------------------------------------------------------
(* There are n numbers up to n. *)
LEMMA CountTo == ASSUME NEW n \in Nat PROVE Cardinality(1..n) = n
<1>1. 1 \in Int /\ n \in Int
  OBVIOUS
<1>2. Cardinality(1..n) = IF 1 > n THEN 0 ELSE n - 1 + 1
  BY <1>1, FS_Interval, Zenon
<1>. QED
  BY <1>2

(* A queue of records of different workers is no longer than there are        *)
(* workers.                                                                   *)
LEMMA QueueFits ==
  ASSUME NEW q \in Seq(Record), NEW ev \in Seq(Workers),
         \A i \in 1..Len(q) : q[i].event \in 1..Len(ev),
         \A i, j \in 1..Len(q) : ev[q[i].event] = ev[q[j].event] => i = j
  PROVE  Len(q) <= Cardinality(Workers)
<1> DEFINE owner == [i \in 1..Len(q) |-> ev[q[i].event]]
<1>1. Len(q) \in Nat
  BY LenProperties
<1>2. owner \in [1..Len(q) -> Workers]
  BY ElementOfSeq
<1>3. owner \in Injection(1..Len(q), Workers)
  BY <1>2 DEF Injection, IsInjective
<1>4. Cardinality(1..Len(q)) <= Cardinality(Workers)
  BY <1>3, FS_Injection, WorkersAssumption
<1>5. Cardinality(1..Len(q)) = Len(q)
  BY <1>1, CountTo
<1>. QED
  BY <1>4, <1>5

(* The head of the queue, and what is left without it. *)
LEMMA HeadOfQueue ==
  ASSUME TypeOK, queue # <<>>
  PROVE  /\ Len(queue) \in Nat \ {0} /\ 1 \in 1..Len(queue)
         /\ Head(queue) = queue[1] /\ Head(queue) \in Record
         /\ Tail(queue) \in Seq(Record) /\ Len(Tail(queue)) = Len(queue) - 1
         /\ \A i \in 1..Len(Tail(queue)) :
              i + 1 \in 1..Len(queue) /\ Tail(queue)[i] = queue[i + 1]
<1>1. queue \in Seq(Record)
  BY DEF TypeOK
<1>2. Len(queue) \in Nat \ {0}
  BY <1>1, EmptySeq
<1>3. Head(queue) = queue[1]
  BY <1>1
<1>. QED
  BY <1>1, <1>2, <1>3, HeadTailProperties

(* Nothing has happened yet. *)
LEMMA InitHolds == Init => IInv
<1> SUFFICES ASSUME Init PROVE IInv
  OBVIOUS
<1>1. \A S : <<>> \in Seq(S) /\ Len(<<>>) = 0
  BY EmptySeq
<1>2. 0 <= Cardinality(Workers)
  BY FS_CardinalityType, WorkersAssumption
<1>3. RetryMax \in Nat /\ MaxCrashes \in Nat
  BY BoundsAssumption
<1>4. TypeOK
  <2>1. /\ rate \in Rates /\ proc = "running" /\ events = <<>> /\ outcome = <<>>
        /\ at \in [Workers -> {"start", "select", "dispatch", "wait", "done"}]
        /\ current \in [Workers -> 0..Len(events)]
    BY <1>1 DEF Init
  <2>2. /\ queue = <<>> /\ inflight = FALSE /\ tries = 0 /\ reply = "none"
        /\ epoch = 0 /\ nextSeq = 0 /\ net = {}
    BY DEF Init
  <2>3. /\ log = <<>> /\ have \in [Brokers -> 0..Len(log)]
        /\ leader \in Brokers /\ isr = Brokers /\ alive = Brokers /\ crashes = 0
    BY <1>1 DEF Init
  <2>4. events \in Seq(Workers) /\ outcome \in Seq({"none", "sent", "error"})
        /\ queue \in Seq(Record) /\ log \in Seq(Record)
        /\ Len(outcome) = Len(events) /\ Len(queue) <= Cardinality(Workers)
    BY <1>1, <1>2, <2>1, <2>2, <2>3
  <2>5. tries \in 0..RetryMax /\ crashes \in 0..MaxCrashes /\ epoch \in Nat /\ nextSeq \in Nat
    BY <1>3, <2>2, <2>3
  <2>. QED
    BY <2>1, <2>2, <2>3, <2>4, <2>5 DEF TypeOK
<1>5. QueueInv /\ PendingInv /\ LogInv /\ SentEventsSurvive
  BY <1>1 DEF Init, QueueInv, PendingInv, LogInv, SentEventsSurvive
<1>6. NumberInv
  BY <1>1 DEF Init, NumberInv, Records
<1>. QED
  BY <1>4, <1>5, <1>6 DEF IInv

-----------------------------------------------------------------------------
(* What the workers are busy with: TypeOK, QueueInv and PendingInv. *)

WorkInv == TypeOK /\ QueueInv /\ PendingInv

(* A step that moves one worker between two idle places. *)
LEMMA WorkIdle ==
  ASSUME WorkInv, NEW w \in Workers, at[w] \in {"start", "select"},
         NEW place \in {"select", "done"}, at' = [at EXCEPT ![w] = place],
         UNCHANGED <<rate, proc, current, events, outcome, senderVars, net, brokerVars>>
  PROVE  WorkInv'
<1> USE DEF WorkInv, senderVars, brokerVars
<1>1. /\ at' \in [Workers -> {"start", "select", "dispatch", "wait", "done"}]
      /\ \A v \in Workers : v # w => at'[v] = at[v]
  BY DEF TypeOK
<1>2. TypeOK'
  BY <1>1 DEF TypeOK
<1>3. \A i \in 1..Len(events) : events[i] \in Workers
  BY ElementOfSeq DEF TypeOK
<1>4. QueueInv'
  BY <1>1, <1>3 DEF QueueInv
<1>5. PendingInv'
  BY <1>1, <1>3 DEF PendingInv
<1>. QED
  BY <1>2, <1>4, <1>5

(* The process dies: nothing is queued, nobody is owed an outcome. *)
LEMMA WorkDie == ASSUME WorkInv, Die PROVE WorkInv'
<1> USE DEF WorkInv, Die, workerVars, brokerVars
<1>1. queue' \in Seq(Record) /\ Len(queue') = 0
  BY EmptySeq
<1>2. 0 <= Cardinality(Workers)
  BY FS_CardinalityType, WorkersAssumption
<1>3. 0 \in 0..RetryMax
  BY BoundsAssumption
<1>4. TypeOK'
  BY <1>1, <1>2, <1>3 DEF TypeOK
<1>5. QueueInv' /\ PendingInv'
  BY <1>1 DEF QueueInv, PendingInv
<1>. QED
  BY <1>4, <1>5

(* A new event: it has no outcome, and its worker is about to dispatch it. *)
LEMMA WorkGenerate == ASSUME WorkInv, NEW w \in Workers, Generate(w) PROVE WorkInv'
<1> USE DEF WorkInv, Generate, senderVars, brokerVars
<1>1. /\ events \in Seq(Workers) /\ Len(events) \in Nat
      /\ outcome \in Seq({"none", "sent", "error"}) /\ Len(outcome) = Len(events)
  BY LenProperties DEF TypeOK
<1>2. /\ events' \in Seq(Workers) /\ Len(events') = Len(events) + 1
      /\ \A i \in 1..Len(events) : events'[i] = events[i] /\ events[i] \in Workers
      /\ events'[Len(events) + 1] = w
  BY <1>1, AppendProperties, ElementOfSeq
<1>3. /\ outcome' \in Seq({"none", "sent", "error"}) /\ Len(outcome') = Len(outcome) + 1
      /\ \A i \in 1..Len(outcome) : outcome'[i] = outcome[i]
  BY <1>1, AppendProperties
<1>4. /\ at' \in [Workers -> {"start", "select", "dispatch", "wait", "done"}]
      /\ \A v \in Workers : v # w => at'[v] = at[v] /\ current'[v] = current[v]
      /\ at'[w] = "dispatch" /\ current'[w] = Len(events) + 1
      /\ current' \in [Workers -> 0..(Len(events) + 1)]
  BY <1>1 DEF TypeOK
<1>5. TypeOK'
  BY <1>1, <1>2, <1>3, <1>4 DEF TypeOK
<1>6. \A i \in 1..Len(queue) : events[queue[i].event] # w
  BY DEF QueueInv
<1>7. QueueInv'
  BY <1>1, <1>2, <1>4, <1>6 DEF QueueInv
<1>8. PendingInv'
  <2> SUFFICES ASSUME proc # "crashed", NEW e \in 1..(Len(events) + 1), outcome'[e] = "none"
               PROVE  /\ at'[events'[e]] \in {"dispatch", "wait"}
                      /\ current'[events'[e]] = e
    BY <1>2 DEF PendingInv
  <2>1. CASE e = Len(events) + 1
    BY <2>1, <1>2, <1>4
  <2>2. CASE e \in 1..Len(events)
    BY <2>2, <1>1, <1>2, <1>3, <1>4 DEF PendingInv
  <2>. QED
    BY <1>1, <2>1, <2>2
<1>. QED
  BY <1>5, <1>7, <1>8

(* A record joins the queue; its worker waits for it from now on. *)
LEMMA WorkDispatch ==
  ASSUME WorkInv, NEW w \in Workers, Dispatch(w),
         current[w] \in 1..Len(events), events[current[w]] = w
  PROVE  WorkInv'
<1> USE DEF WorkInv, Dispatch, brokerVars
<1> DEFINE r == [event |-> current[w], epoch |-> epoch, seq |-> nextSeq]
<1>1. queue \in Seq(Record) /\ Len(queue) \in Nat /\ Len(events) \in Nat
  BY LenProperties DEF TypeOK
<1>2. r \in Record
  BY DEF TypeOK, Record
<1>3. /\ queue' \in Seq(Record) /\ Len(queue') = Len(queue) + 1
      /\ \A i \in 1..Len(queue) : queue'[i] = queue[i]
      /\ queue'[Len(queue) + 1] = r
  <2>1. queue' = Append(queue, r)
    OBVIOUS
  <2>. HIDE DEF r
  <2>. QED
    BY <1>1, <1>2, <2>1, AppendProperties
<1>4. /\ at' \in [Workers -> {"start", "select", "dispatch", "wait", "done"}]
      /\ \A v \in Workers : v # w => at'[v] = at[v]
      /\ at'[w] = "wait" /\ at[w] = "dispatch"
  BY DEF TypeOK
<1>5. \A i \in 1..Len(queue) : events[queue[i].event] # w
  BY <1>4 DEF QueueInv
<1>6. \A i \in 1..Len(events) : events[i] \in Workers
  BY ElementOfSeq DEF TypeOK
<1>7. QueueInv'
  <2>1. inflight' => queue' # <<>>
    BY <1>1, <1>3, EmptySeq
  <2>2. ASSUME NEW i \in 1..(Len(queue) + 1)
        PROVE  /\ queue'[i].event \in 1..Len(events)
               /\ at'[events[queue'[i].event]] = "wait"
               /\ current[events[queue'[i].event]] = queue'[i].event
    <3>1. CASE i = Len(queue) + 1
      BY <3>1, <1>3, <1>4
    <3>2. CASE i \in 1..Len(queue)
      BY <3>2, <1>3, <1>4, <1>5, <1>6 DEF QueueInv
    <3>. QED
      BY <1>1, <3>1, <3>2
  <2>3. ASSUME NEW i \in 1..(Len(queue) + 1), NEW j \in 1..(Len(queue) + 1),
               queue'[i].event = queue'[j].event
        PROVE  i = j
    <3>1. \A k \in 1..Len(queue) : queue'[k].event # current[w]
      BY <1>3, <1>5
    <3>2. queue'[Len(queue) + 1].event = current[w]
      BY <1>3
    <3>3. CASE i \in 1..Len(queue) /\ j \in 1..Len(queue)
      BY <2>3, <3>3, <1>3 DEF QueueInv
    <3>. QED
      BY <1>1, <2>3, <3>1, <3>2, <3>3
  <2>. QED
    BY <1>3, <2>1, <2>2, <2>3 DEF QueueInv
<1>8. Len(queue') <= Cardinality(Workers)
  <2>1. \A i, j \in 1..Len(queue') :
          events[queue'[i].event] = events[queue'[j].event] => i = j
    BY <1>7 DEF QueueInv
  <2>2. \A i \in 1..Len(queue') : queue'[i].event \in 1..Len(events)
    BY <1>7 DEF QueueInv
  <2>3. events \in Seq(Workers)
    BY DEF TypeOK
  <2>. QED
    BY <1>3, <2>1, <2>2, <2>3, QueueFits
<1>9. TypeOK'
  BY <1>3, <1>4, <1>8 DEF TypeOK
<1>10. PendingInv'
  BY <1>4, <1>6 DEF PendingInv
<1>. QED
  BY <1>7, <1>9, <1>10

(* The head leaves the queue, and the worker that waited for it is told. *)
LEMMA WorkSettle ==
  ASSUME WorkInv, inflight, NEW r \in {"sent", "error"}, Settle(r),
         epoch' \in Nat, nextSeq' \in Nat
  PROVE  /\ WorkInv'
         /\ outcome' = [outcome EXCEPT ![Head(queue).event] = r]
         /\ Head(queue).event \in 1..Len(outcome)
<1> USE DEF WorkInv, Settle, brokerVars
<1> DEFINE e == Head(queue).event
           w == events[e]
<1>1. queue # <<>>
  BY DEF QueueInv
<1>2. /\ Len(queue) \in Nat \ {0} /\ 1 \in 1..Len(queue) /\ Head(queue) = queue[1]
      /\ queue' \in Seq(Record) /\ Len(queue') = Len(queue) - 1
      /\ \A i \in 1..Len(queue') : i + 1 \in 1..Len(queue) /\ queue'[i] = queue[i + 1]
  BY <1>1, HeadOfQueue
<1>3. /\ e \in 1..Len(events) /\ at[w] = "wait" /\ current[w] = e
      /\ Len(outcome) = Len(events) /\ Len(events) \in Nat
  BY <1>2, LenProperties DEF QueueInv, TypeOK
<1>4. \A i \in 1..Len(events) : events[i] \in Workers
  BY ElementOfSeq DEF TypeOK
<1> HIDE DEF e
<1>5. /\ at' \in [Workers -> {"start", "select", "dispatch", "wait", "done"}]
      /\ \A v \in Workers : v # w => at'[v] = at[v]
  BY <1>3, <1>4 DEF TypeOK, e
<1>6. /\ outcome' \in Seq({"none", "sent", "error"}) /\ Len(outcome') = Len(outcome)
      /\ \A j \in 1..Len(outcome) : outcome'[j] = IF j = e THEN r ELSE outcome[j]
  <2>1. outcome \in Seq({"none", "sent", "error"}) /\ r \in {"none", "sent", "error"}
    BY DEF TypeOK
  <2>2. outcome' = [outcome EXCEPT ![e] = r]
    BY DEF e
  <2>3. e \in 1..Len(outcome)
    BY <1>3
  <2> DEFINE O == {"none", "sent", "error"}
  <2>4. outcome \in Seq(O) /\ r \in O
    BY <2>1
  <2> HIDE DEF O
  <2>5. /\ [outcome EXCEPT ![e] = r] \in Seq(O)
        /\ Len([outcome EXCEPT ![e] = r]) = Len(outcome)
        /\ \A j \in 1..Len(outcome) :
             [outcome EXCEPT ![e] = r][j] = IF j = e THEN r ELSE outcome[j]
    BY <2>3, <2>4, ExceptSeq
  <2>. QED
    BY <2>2, <2>5 DEF O
<1>7. TypeOK'
  <2>1. 0 \in 0..RetryMax
    BY BoundsAssumption
  <2>2. Cardinality(Workers) \in Nat
    BY FS_CardinalityType, WorkersAssumption
  <2>3. Len(queue') <= Cardinality(Workers)
    BY <1>2, <2>2 DEF TypeOK
  <2>4. /\ tries' \in 0..RetryMax /\ inflight' \in BOOLEAN
        /\ reply' \in {"none", "appended", "retriable", "fatal"}
    BY <2>1
  <2>5. Len(outcome') = Len(events)
    BY <1>3, <1>6
  <2>. QED
    BY <1>2, <1>5, <1>6, <2>3, <2>4, <2>5 DEF TypeOK
<1>8. QueueInv'
  <2>1. ASSUME NEW i \in 1..Len(queue')
        PROVE  /\ queue'[i].event \in 1..Len(events)
               /\ at'[events[queue'[i].event]] = "wait"
               /\ current[events[queue'[i].event]] = queue'[i].event
    <3>1. i + 1 \in 1..Len(queue) /\ queue'[i] = queue[i + 1] /\ i + 1 # 1
      BY <1>2
    <3>2. queue[i + 1].event # queue[1].event
      BY <1>2, <3>1 DEF QueueInv
    <3>3. /\ queue[i + 1].event \in 1..Len(events)
          /\ at[events[queue[i + 1].event]] = "wait"
          /\ current[events[queue[i + 1].event]] = queue[i + 1].event
      BY <3>1 DEF QueueInv
    <3>4. events[queue[i + 1].event] # w
      BY <1>2, <1>3, <3>2, <3>3 DEF e
    <3>. QED
      BY <1>4, <1>5, <3>1, <3>3, <3>4
  <2>2. ASSUME NEW i \in 1..Len(queue'), NEW j \in 1..Len(queue'),
               queue'[i].event = queue'[j].event
        PROVE  i = j
    <3>1. i + 1 = j + 1
      BY <1>2, <2>2 DEF QueueInv
    <3>. QED
      BY <1>2, <3>1
  <2>. QED
    BY <2>1, <2>2 DEF QueueInv
<1>9. PendingInv'
  <2> SUFFICES ASSUME proc # "crashed", NEW f \in 1..Len(events), outcome'[f] = "none"
               PROVE  at'[events[f]] \in {"dispatch", "wait"} /\ current[events[f]] = f
    BY DEF PendingInv
  <2>1. f # e /\ outcome[f] = "none"
    BY <1>3, <1>6
  <2>2. at[events[f]] \in {"dispatch", "wait"} /\ current[events[f]] = f
    BY <2>1 DEF PendingInv
  <2>3. events[f] # w
    BY <1>3, <2>1, <2>2
  <2>. QED
    BY <1>4, <1>5, <2>2, <2>3
<1>. QED
  BY <1>3, <1>7, <1>8, <1>9 DEF e


(* A step that leaves the workers and the queue alone. *)
LEMMA WorkKept ==
  ASSUME WorkInv, TypeOK', UNCHANGED <<at, current, events, outcome, queue>>,
         inflight' => queue # <<>>, proc = "crashed" => proc' = "crashed"
  PROVE  WorkInv'
BY DEF WorkInv, QueueInv, PendingInv

(* The producer's other steps and those of main. *)
LEMMA WorkSender ==
  ASSUME WorkInv, Send \/ Retry \/ Signal \/ Exit
  PROVE  WorkInv'
<1> USE DEF workerVars, senderVars, brokerVars
<1>1. CASE Send
  <2>1. Request \in [record : Record, try : 0..RetryMax]
    BY <1>1, HeadOfQueue DEF Send, Request, WorkInv, TypeOK
  <2>2. TypeOK'
    BY <1>1, <2>1 DEF Send, WorkInv, TypeOK
  <2>. QED
    BY <1>1, <2>2, WorkKept DEF Send
<1>2. CASE Retry
  <2>1. tries + 1 \in 0..RetryMax
    BY <1>2, BoundsAssumption DEF Retry, Exhausted, WorkInv, TypeOK
  <2>2. TypeOK'
    BY <1>2, <2>1 DEF Retry, WorkInv, TypeOK
  <2>. QED
    BY <1>2, <2>2, WorkKept DEF Retry
<1>3. CASE Signal \/ Exit
  <2>1. TypeOK'
    BY <1>3 DEF Signal, Exit, WorkInv, TypeOK
  <2>2. inflight' => queue # <<>>
    BY <1>3 DEF Signal, Exit, WorkInv, QueueInv
  <2>. QED
    BY <1>3, <2>1, <2>2, WorkKept DEF Signal, Exit
<1>. QED
  BY <1>1, <1>2, <1>3

(* What an appended record does to the log. *)
LEMMA Appended ==
  ASSUME TypeOK, NEW r \in Record, log' = Append(log, r)
  PROVE  /\ log' \in Seq(Record) /\ Len(log) \in Nat /\ Len(log') = Len(log) + 1
         /\ \A i \in 1..Len(log) : log'[i] = log[i]
         /\ log'[Len(log) + 1] = r
BY AppendProperties, LenProperties DEF TypeOK

(* What the truncation of an election does to the log. *)
LEMMA Truncated ==
  ASSUME TypeOK, NEW b \in Brokers, log' = SubSeq(log, 1, have[b])
  PROVE  /\ log' \in Seq(Record) /\ Len(log') = have[b]
         /\ have[b] \in 0..Len(log) /\ Len(log) \in Nat
         /\ \A i \in 1..have[b] : i \in 1..Len(log) /\ log'[i] = log[i]
<1>1. log \in Seq(Record) /\ Len(log) \in Nat /\ have[b] \in 0..Len(log)
  BY LenProperties DEF TypeOK
<1>2. \A i \in 1..have[b] : log[i] \in Record
  BY <1>1, ElementOfSeq
<1>3. 1 \in Int /\ have[b] \in Int
  BY <1>1
<1>4. /\ SubSeq(log, 1, have[b]) \in Seq(Record)
      /\ Len(SubSeq(log, 1, have[b])) = IF 1 <= have[b] THEN have[b] - 1 + 1 ELSE 0
      /\ \A i \in 1..(have[b] - 1 + 1) : SubSeq(log, 1, have[b])[i] = log[1 + i - 1]
  BY <1>2, <1>3, SubSeqProperties
<1>. QED
  BY <1>1, <1>4

(* The steps of the leader, the network and the brokers. *)
LEMMA WorkPartition ==
  ASSUME WorkInv,
         \/ \E m \in net : Deliver(m) \/ Lose(m)
         \/ \E b \in Brokers : Broker(b)
  PROVE  WorkInv'
<1> USE DEF workerVars, senderVars, brokerVars, partitionFrame
<1>1. TypeOK /\ (inflight => queue # <<>>)
  BY DEF WorkInv, QueueInv
<1>2. ASSUME NEW m \in net, Deliver(m) PROVE WorkInv'
  <2>1. m.record \in Record
    BY <1>1 DEF TypeOK
  <2>2. /\ log' \in Seq(Record)
        /\ have' \in [Brokers -> 0..Len(log')]
    <3>1. CASE Verdict(m.record) = "append"
      <4>1. log' = Append(log, m.record) /\ have' = [have EXCEPT ![leader] = Len(log) + 1]
        BY <1>2, <3>1 DEF Deliver
      <4>2. log' \in Seq(Record) /\ Len(log') = Len(log) + 1 /\ Len(log) \in Nat
        BY <1>1, <2>1, <4>1, Appended
      <4>3. have \in [Brokers -> 0..Len(log)]
        BY <1>1 DEF TypeOK
      <4>4. have \in [Brokers -> 0..(Len(log) + 1)] /\ Len(log) + 1 \in 0..(Len(log) + 1)
        BY <4>2, <4>3
      <4>5. have' \in [Brokers -> 0..(Len(log) + 1)]
        BY <4>1, <4>4
      <4>. QED
        BY <4>2, <4>5
    <3>2. CASE Verdict(m.record) # "append"
      BY <1>1, <1>2, <3>2 DEF Deliver, TypeOK
    <3>. QED
      BY <3>1, <3>2
  <2>3. reply' \in {"none", "appended", "retriable", "fatal"}
    <3>1. Verdict(m.record) \in {"retriable", "duplicate", "fatal", "append"}
      BY DEF Verdict
    <3>. QED
      BY <1>1, <1>2, <3>1 DEF Deliver, TypeOK
  <2>4. TypeOK'
    BY <1>1, <1>2, <2>2, <2>3 DEF Deliver, TypeOK
  <2>. QED
    BY <1>1, <1>2, <2>4, WorkKept DEF Deliver
<1>3. ASSUME NEW m \in net, Lose(m) PROVE WorkInv'
  <2>1. TypeOK'
    BY <1>1, <1>3 DEF Lose, TypeOK
  <2>. QED
    BY <1>1, <1>3, <2>1, WorkKept DEF Lose
<1>4. ASSUME NEW b \in Brokers, Elect(b) PROVE WorkInv'
  <2>1. /\ log' \in Seq(Record) /\ Len(log') = have[b] /\ Len(log) \in Nat
        /\ have \in [Brokers -> 0..Len(log)]
    BY <1>1, <1>4, Truncated DEF Elect, TypeOK
  <2>2. have' \in [Brokers -> 0..Len(log')]
    BY <1>4, <2>1 DEF Elect
  <2>3. TypeOK'
    BY <1>1, <1>4, <2>1, <2>2 DEF Elect, TypeOK
  <2>. QED
    BY <1>1, <1>4, <2>3, WorkKept DEF Elect
<1>5. ASSUME NEW b \in Brokers, Replicate(b) PROVE WorkInv'
  <2>1. Len(log) \in Nat
    BY <1>1, LenProperties DEF TypeOK
  <2>2. have' \in [Brokers -> 0..Len(log)]
    BY <1>1, <1>5, <2>1 DEF Replicate, TypeOK
  <2>3. TypeOK'
    BY <1>1, <1>5, <2>2 DEF Replicate, TypeOK
  <2>. QED
    BY <1>1, <1>5, <2>3, WorkKept DEF Replicate
<1>6. ASSUME NEW b \in Brokers, BrokerCrash(b) PROVE WorkInv'
  <2>1. crashes' \in 0..MaxCrashes
    BY <1>1, <1>6, BoundsAssumption DEF BrokerCrash, TypeOK
  <2>2. TypeOK'
    BY <1>1, <1>6, <2>1 DEF BrokerCrash, TypeOK
  <2>. QED
    BY <1>1, <1>6, <2>2, WorkKept DEF BrokerCrash
<1>7. ASSUME NEW b \in Brokers, ShrinkIsr(b) \/ ExpandIsr(b) \/ BrokerRestart(b)
      PROVE  WorkInv'
  <2>1. TypeOK'
    BY <1>1, <1>7 DEF ShrinkIsr, ExpandIsr, BrokerRestart, TypeOK
  <2>. QED
    BY <1>1, <1>7, <2>1, WorkKept DEF ShrinkIsr, ExpandIsr, BrokerRestart
<1>. QED
  BY <1>2, <1>3, <1>4, <1>5, <1>6, <1>7 DEF Broker


-----------------------------------------------------------------------------
(* The numbers: NumberInv. *)

(* Records have the shape of a record. *)
LEMMA RecordsType == ASSUME TypeOK PROVE Records \subseteq Record
<1>1. \A i \in 1..Len(queue) : queue[i] \in Record
  BY ElementOfSeq DEF TypeOK
<1>2. \A i \in 1..Len(log) : log[i] \in Record
  BY ElementOfSeq DEF TypeOK
<1>. QED
  BY <1>1, <1>2 DEF Records, TypeOK

(* A step that makes no record and gives no worker one to dispatch keeps the   *)
(* order, if the producer's numbers do not go back.                            *)
LEMMA NumbersKept ==
  ASSUME NumberInv, Records' \subseteq Records, events' = events, current' = current,
         \A w \in Workers : at'[w] = "dispatch" => at[w] = "dispatch",
         \A r \in Records : Numbered(r)'
  PROVE  NumberInv'
<1>1. \A r \in Records' : r.event \in 1..Len(events') /\ Numbered(r)'
  BY DEF NumberInv
<1>2. \A r, s \in Records' : Ordered(r, s)'
  <2> SUFFICES ASSUME NEW r \in Records, NEW s \in Records PROVE Ordered(r, s)'
    OBVIOUS
  <2>1. Ordered(r, s)
    BY DEF NumberInv
  <2>. QED
    BY <2>1 DEF Ordered
<1>3. \A w \in Workers : at'[w] = "dispatch" => Fresh(w)'
  BY DEF NumberInv, Fresh
<1>. QED
  BY <1>1, <1>2, <1>3 DEF NumberInv

(* A new event is newer than every record there is. *)
LEMMA NumberGenerate ==
  ASSUME TypeOK, NumberInv, NEW w \in Workers, Generate(w)
  PROVE  NumberInv'
<1> USE DEF Generate, senderVars, brokerVars
<1>1. events \in Seq(Workers) /\ Len(events) \in Nat
  BY LenProperties DEF TypeOK
<1>2. /\ Len(events') = Len(events) + 1 /\ events'[Len(events) + 1] = w
      /\ \A i \in 1..Len(events) : events'[i] = events[i]
  BY <1>1, AppendProperties
<1>3. Records' = Records /\ epoch' = epoch /\ nextSeq' = nextSeq
  BY DEF Records
<1>4. \A r \in Records : r.event \in 1..Len(events) /\ events'[r.event] = events[r.event]
  BY <1>2 DEF NumberInv
<1>5. \A r \in Records' : r.event \in 1..Len(events') /\ Numbered(r)'
  BY <1>1, <1>2, <1>3, <1>4 DEF NumberInv, Numbered
<1>6. \A r, s \in Records' : Ordered(r, s)'
  BY <1>3, <1>4 DEF NumberInv, Ordered
<1>7. ASSUME NEW v \in Workers, at'[v] = "dispatch" PROVE Fresh(v)'
  <2>1. CASE v = w
    <3>1. current'[v] = Len(events) + 1
      BY <2>1 DEF TypeOK
    <3>. QED
      BY <1>1, <1>2, <1>3, <1>4, <2>1, <3>1 DEF Fresh
  <2>2. CASE v # w
    <3>1. current'[v] = current[v] /\ at[v] = "dispatch"
      BY <1>7, <2>2 DEF TypeOK
    <3>2. Fresh(v)
      BY <3>1 DEF NumberInv
    <3>. QED
      BY <1>1, <1>2, <1>3, <1>4, <3>1, <3>2 DEF Fresh
  <2>. QED
    BY <2>1, <2>2
<1>. QED
  BY <1>5, <1>6, <1>7 DEF NumberInv

(* A dispatched record takes the next number: it is behind every other. *)
LEMMA NumberDispatch ==
  ASSUME TypeOK, NumberInv, NEW w \in Workers, Dispatch(w)
  PROVE  NumberInv'
<1> USE DEF Dispatch, brokerVars
<1>0. PICK r : r = [event |-> current[w], epoch |-> epoch, seq |-> nextSeq]
  OBVIOUS
<1>1. queue \in Seq(Record) /\ Len(queue) \in Nat /\ epoch \in Nat /\ nextSeq \in Nat
  BY LenProperties DEF TypeOK
<1>2. Fresh(w)
  BY DEF NumberInv
<1>3. r \in Record
  BY <1>0, <1>1, <1>2 DEF TypeOK, Record, Fresh
<1>4. Records' \subseteq Records \cup {r}
  <2>1. queue' = Append(queue, r) /\ net' = net /\ log' = log
    BY <1>0
  <2>2. /\ Len(queue') = Len(queue) + 1 /\ queue'[Len(queue) + 1] = r
        /\ \A i \in 1..Len(queue) : queue'[i] = queue[i]
    BY <1>1, <1>3, <2>1, AppendProperties
  <2>3. \A i \in 1..(Len(queue) + 1) : i \in 1..Len(queue) \/ i = Len(queue) + 1
    BY <1>1
  <2>. QED
    BY <2>1, <2>2, <2>3 DEF Records
<1>5. Records \subseteq Record
  BY RecordsType
<1>6. r.event = current[w] /\ r.epoch = epoch /\ r.seq = nextSeq
  BY <1>0
<1>7. epoch' = epoch /\ nextSeq' = nextSeq + 1 /\ events' = events /\ current' = current
  OBVIOUS
<1>8. \A s \in Records' : s.event \in 1..Len(events') /\ Numbered(s)'
  <2>1. \A s \in Records : s.event \in 1..Len(events) /\ Numbered(s)'
    BY <1>1, <1>5, <1>7 DEF NumberInv, Numbered, Record
  <2>2. r.event \in 1..Len(events) /\ Numbered(r)'
    BY <1>1, <1>2, <1>6, <1>7 DEF Fresh, Numbered
  <2>. QED
    BY <1>4, <1>7, <2>1, <2>2
<1>9. ASSUME NEW s \in Records PROVE Ordered(s, r) /\ Ordered(r, s)
  <2>1. Before(s, r)
    BY <1>6 DEF NumberInv, Numbered, Before
  <2>2. events[s.event] = w => s.event < r.event
    BY <1>2, <1>6 DEF Fresh
  <2>3. events[r.event] = w
    BY <1>2, <1>6 DEF Fresh
  <2>. QED
    BY <2>1, <2>2, <2>3 DEF Ordered
<1>10. \A s, t \in Records' : Ordered(s, t)'
  <2>1. \A s, t \in Records \cup {r} : Ordered(s, t)
    BY <1>9 DEF NumberInv, Ordered
  <2>. QED
    BY <1>4, <1>7, <2>1 DEF Ordered
<1>11. ASSUME NEW v \in Workers, at'[v] = "dispatch" PROVE Fresh(v)'
  <2>1. v # w /\ at[v] = "dispatch"
    BY <1>11 DEF TypeOK
  <2>2. Fresh(v)
    BY <2>1 DEF NumberInv
  <2>3. events[r.event] # v
    BY <1>2, <1>6, <2>1 DEF Fresh
  <2>. QED
    BY <1>4, <1>7, <2>2, <2>3 DEF Fresh
<1>. QED
  BY <1>8, <1>10, <1>11 DEF NumberInv


(* Numbers that do not go back still cover the records. *)
LEMMA NumberedKept ==
  ASSUME TypeOK, NumberInv,
         \/ epoch' = epoch /\ nextSeq' = nextSeq
         \/ epoch' = epoch + 1
  PROVE  \A r \in Records : Numbered(r)'
<1>1. epoch \in Nat /\ nextSeq \in Nat
  BY DEF TypeOK
<1>2. ASSUME NEW r \in Records PROVE Numbered(r)'
  <2>1. r.epoch \in Nat /\ r.seq \in Nat
    BY RecordsType DEF Record
  <2>2. Numbered(r)
    BY DEF NumberInv
  <2>. QED
    BY <1>1, <2>1, <2>2 DEF Numbered
<1>. QED
  BY <1>2

(* The head of the queue is answered for: it may still be on its way. *)
LEMMA NumberSettle ==
  ASSUME WorkInv, NumberInv, inflight, NEW r \in {"sent", "error"}, Settle(r),
         \/ epoch' = epoch /\ nextSeq' = nextSeq
         \/ epoch' = epoch + 1
  PROVE  NumberInv'
<1> USE DEF Settle, brokerVars
<1>1. queue # <<>> /\ TypeOK
  BY DEF WorkInv, QueueInv
<1>2. /\ queue' = Tail(queue)
      /\ \A i \in 1..Len(Tail(queue)) :
           i + 1 \in 1..Len(queue) /\ Tail(queue)[i] = queue[i + 1]
  BY <1>1, HeadOfQueue
<1>3. Records' \subseteq Records
  BY <1>2 DEF Records
<1>4. \A w \in Workers : at'[w] = "dispatch" => at[w] = "dispatch"
  BY <1>1 DEF TypeOK
<1>5. \A s \in Records : Numbered(s)'
  BY <1>1, NumberedKept
<1>. QED
  BY <1>3, <1>4, <1>5, NumbersKept

(* The steps that leave the workers and the numbers alone make no record. *)
LEMMA NumberOther ==
  ASSUME WorkInv, NumberInv,
         \/ \E w \in Workers : StartTicker(w) \/ Stop(w)
         \/ Die \/ Signal \/ Exit \/ Send \/ Retry
         \/ \E m \in net : Deliver(m) \/ Lose(m)
         \/ \E b \in Brokers : Broker(b)
  PROVE  NumberInv'
<1> USE DEF workerVars, senderVars, brokerVars, partitionFrame
<1>1. TypeOK /\ (inflight => queue # <<>>)
  BY DEF WorkInv, QueueInv
<1>2. /\ events' = events /\ current' = current /\ epoch' = epoch /\ nextSeq' = nextSeq
      /\ \A w \in Workers : at'[w] = "dispatch" => at[w] = "dispatch"
  BY <1>1 DEF TypeOK, StartTicker, Stop, Die, Signal, Exit, Send, Retry, Deliver, Lose,
              Broker, Replicate, ShrinkIsr, ExpandIsr, BrokerCrash, BrokerRestart, Elect
<1>3. \A r \in Records : Numbered(r)'
  BY <1>1, <1>2, NumberedKept
<1>4. Records' \subseteq Records
  <2>1. CASE Die
    <3>1. Len(queue') = 0 /\ net' = net /\ log' = log
      BY <2>1, EmptySeq DEF Die
    <3>. QED
      BY <3>1 DEF Records
  <2>2. CASE Send
    <3>1. /\ net' = net \cup {Request} /\ queue' = queue /\ log' = log
          /\ Request.record = queue[1] /\ 1 \in 1..Len(queue)
      BY <1>1, <2>2, HeadOfQueue DEF Send, Request
    <3>. QED
      BY <3>1 DEF Records
  <2>3. ASSUME NEW m \in net, Deliver(m) PROVE Records' \subseteq Records
    <3>1. queue' = queue /\ net' \subseteq net
      BY <2>3 DEF Deliver
    <3>2. CASE log' = log
      BY <3>1, <3>2 DEF Records
    <3>3. CASE log' = Append(log, m.record)
      <4>1. m.record \in Record
        BY <1>1 DEF TypeOK
      <4>2. /\ Len(log) \in Nat /\ Len(log') = Len(log) + 1
            /\ \A i \in 1..Len(log) : log'[i] = log[i]
            /\ log'[Len(log) + 1] = m.record
        BY <1>1, <3>3, <4>1, Appended
      <4>3. \A i \in 1..Len(log') : i \in 1..Len(log) \/ i = Len(log) + 1
        BY <4>2
      <4>. QED
        BY <3>1, <4>2, <4>3 DEF Records
    <3>. QED
      BY <2>3, <3>2, <3>3 DEF Deliver
  <2>4. ASSUME NEW b \in Brokers, Elect(b) PROVE Records' \subseteq Records
    <3>1. /\ queue' = queue /\ net' = net /\ Len(log') = have[b]
          /\ \A i \in 1..have[b] : i \in 1..Len(log) /\ log'[i] = log[i]
      BY <1>1, <2>4, Truncated DEF Elect
    <3>. QED
      BY <3>1 DEF Records
  <2>5. ASSUME queue' = queue, net' \subseteq net, log' = log PROVE Records' \subseteq Records
    BY <2>5 DEF Records
  <2>6. CASE \/ \E w \in Workers : StartTicker(w) \/ Stop(w)
             \/ Signal \/ Exit \/ Retry
             \/ \E m \in net : Lose(m)
    BY <2>5, <2>6 DEF StartTicker, Stop, Signal, Exit, Retry, Lose
  <2>7. CASE \E b \in Brokers : Replicate(b) \/ ShrinkIsr(b) \/ ExpandIsr(b)
                                  \/ BrokerCrash(b) \/ BrokerRestart(b)
    BY <2>5, <2>7 DEF Replicate, ShrinkIsr, ExpandIsr, BrokerCrash, BrokerRestart
  <2>. QED
    BY <2>1, <2>2, <2>3, <2>4, <2>6, <2>7 DEF Broker
<1>. QED
  BY <1>2, <1>3, <1>4, NumbersKept

-----------------------------------------------------------------------------
(* The log: LogInv and SentEventsSurvive. *)

(* The leader appends a record only behind every record it has. *)
LEMMA AppendedInSequence ==
  ASSUME TypeOK, LogInv, NEW m \in net, Verdict(m.record) = "append"
  PROVE  \A i \in 1..Len(log) : Before(log[i], m.record)
<1>1. /\ Len(log) \in Nat /\ m.record \in Record
      /\ \A i \in 1..Len(log) : log[i] \in Record
  BY LenProperties, ElementOfSeq DEF TypeOK
<1>2. InSequence(m.record)
  BY DEF Verdict, Idempotent
<1> SUFFICES ASSUME NEW i \in 1..Len(log) PROVE Before(log[i], m.record)
  OBVIOUS
<1>3. Len(log) \in 1..Len(log) /\ log # <<>>
  BY <1>1, EmptySeq
<1>4. Before(Last, m.record)
  BY <1>1, <1>2, <1>3 DEF InSequence, Before, Last, Record
<1>5. CASE i = Len(log)
  BY <1>4, <1>5 DEF Last
<1>6. CASE i < Len(log)
  <2>1. Before(log[i], Last)
    BY <1>3, <1>6 DEF LogInv, Last
  <2>. QED
    BY <1>1, <1>3, <1>4, <2>1 DEF Before, Last, Record
<1>. QED
  BY <1>1, <1>5, <1>6

(* Appending and truncating keep the log in the order of its numbers. *)
LEMMA LogStep ==
  ASSUME TypeOK, LogInv,
         \/ log' = log
         \/ \E m \in net : Deliver(m)
         \/ \E b \in Brokers : Elect(b)
  PROVE  LogInv'
<1>1. CASE log' = log
  BY <1>1 DEF LogInv
<1>2. ASSUME NEW m \in net, Deliver(m), log' # log PROVE LogInv'
  <2>1. log' = Append(log, m.record) /\ Verdict(m.record) = "append"
    BY <1>2 DEF Deliver
  <2>2. m.record \in Record
    BY DEF TypeOK
  <2>3. /\ Len(log) \in Nat /\ Len(log') = Len(log) + 1
        /\ \A i \in 1..Len(log) : log'[i] = log[i]
        /\ log'[Len(log) + 1] = m.record
    BY <2>1, <2>2, Appended
  <2>4. \A i \in 1..Len(log) : Before(log[i], m.record)
    BY <2>1, AppendedInSequence
  <2>5. ASSUME NEW i \in 1..(Len(log) + 1), NEW j \in 1..(Len(log) + 1), i < j
        PROVE  Before(log'[i], log'[j])
    <3>1. i \in 1..Len(log)
      BY <2>3, <2>5
    <3>2. CASE j = Len(log) + 1
      BY <2>3, <2>4, <3>1, <3>2
    <3>3. CASE j \in 1..Len(log)
      BY <2>3, <2>5, <3>1, <3>3 DEF LogInv
    <3>. QED
      BY <2>3, <3>2, <3>3
  <2>. QED
    BY <2>3, <2>5 DEF LogInv
<1>3. ASSUME NEW b \in Brokers, Elect(b) PROVE LogInv'
  <2>1. /\ Len(log') = have[b]
        /\ \A i \in 1..have[b] : i \in 1..Len(log) /\ log'[i] = log[i]
    BY <1>3, Truncated DEF Elect
  <2>. QED
    BY <2>1 DEF LogInv
<1>. QED
  BY <1>1, <1>2, <1>3


(* What is below the high watermark stays there. *)
LEMMA WrittenStays ==
  ASSUME TypeOK, NEW e,
         \/ UNCHANGED <<log, have, isr>>
         \/ \E m \in net : Deliver(m)
         \/ \E b \in Brokers : Replicate(b) \/ ShrinkIsr(b) \/ ExpandIsr(b) \/ Elect(b),
         Written(e)
  PROVE  Written(e)'
<1>1. PICK i \in 1..Len(log) : log[i].event = e /\ Committed(i)
  BY DEF Written
<1>2. /\ Len(log) \in Nat /\ i \in Nat /\ isr \subseteq Brokers
      /\ \A b \in Brokers : have[b] \in Nat
      /\ \A b \in isr : i <= have[b]
  BY <1>1, LenProperties DEF TypeOK, Committed
<1> USE DEF partitionFrame
<1>3. CASE UNCHANGED <<log, have, isr>>
  BY <1>1, <1>3 DEF Written, Committed
<1>4. ASSUME NEW m \in net, Deliver(m) PROVE Written(e)'
  <2>1. isr' = isr
    BY <1>4 DEF Deliver
  <2>2. CASE UNCHANGED <<log, have>>
    BY <1>1, <2>1, <2>2 DEF Written, Committed
  <2>3. CASE log' = Append(log, m.record) /\ have' = [have EXCEPT ![leader] = Len(log) + 1]
    <3>1. m.record \in Record
      BY DEF TypeOK
    <3>2. Len(log') = Len(log) + 1 /\ log'[i] = log[i]
      BY <1>1, <2>3, <3>1, Appended
    <3>3. \A b \in isr : i <= have'[b]
      BY <1>1, <1>2, <2>3 DEF TypeOK
    <3>. QED
      BY <1>1, <1>2, <2>1, <3>2, <3>3 DEF Written, Committed
  <2>. QED
    BY <1>4, <2>2, <2>3 DEF Deliver
<1>5. ASSUME NEW b \in Brokers, Replicate(b) PROVE Written(e)'
  <2>1. log' = log /\ isr' = isr /\ \A c \in isr : i <= have'[c]
    BY <1>2, <1>5 DEF Replicate, TypeOK
  <2>. QED
    BY <1>1, <2>1 DEF Written, Committed
<1>6. ASSUME NEW b \in Brokers, ShrinkIsr(b) \/ ExpandIsr(b) PROVE Written(e)'
  <2>1. log' = log /\ have' = have /\ \A c \in isr' : i <= have[c]
    BY <1>1, <1>2, <1>6 DEF ShrinkIsr, ExpandIsr
  <2>. QED
    BY <1>1, <2>1 DEF Written, Committed
<1>7. ASSUME NEW b \in Brokers, Elect(b) PROVE Written(e)'
  <2>1. i <= have[b] /\ isr' = isr
    BY <1>2, <1>7 DEF Elect
  <2>2. Len(log') = have[b] /\ \A j \in 1..have[b] : log'[j] = log[j]
    BY <1>7, Truncated DEF Elect
  <2>3. \A c \in isr : i <= have'[c]
    BY <1>2, <1>7, <2>1 DEF Elect
  <2>. QED
    BY <1>1, <1>2, <2>1, <2>2, <2>3 DEF Written, Committed
<1>. QED
  BY <1>3, <1>4, <1>5, <1>6, <1>7

(* No outcome but that of Succeed says "sent", and Succeed sees it written. *)
LEMMA SentStep ==
  ASSUME IInv, Next PROVE SentEventsSurvive'
<1> USE DEF workerVars, senderVars, brokerVars, partitionFrame
<1>1. TypeOK /\ WorkInv
  BY DEF IInv, WorkInv
<1>2. ASSUME NEW e, Written(e) PROVE Written(e)'
  <2>1. \/ UNCHANGED <<log, have, isr>>
        \/ \E m \in net : Deliver(m)
        \/ \E b \in Brokers : Replicate(b) \/ ShrinkIsr(b) \/ ExpandIsr(b) \/ Elect(b)
    BY DEF Next, Worker, StartTicker, Panic, Generate, Dispatch, Stop, Signal, Exit, Crash,
           Die, Send, Answered, Succeed, Retry, Fail, Settle, Lose, Broker, BrokerCrash,
           BrokerRestart
  <2>. QED
    BY <1>1, <1>2, <2>1, WrittenStays
<1>3. ASSUME NEW e \in 1..Len(events)', outcome'[e] = "sent"
      PROVE  \/ e \in 1..Len(events) /\ outcome[e] = "sent"
             \/ Written(e)
  <2>1. CASE UNCHANGED <<events, outcome>>
    BY <1>3, <2>1
  <2>2. ASSUME NEW w \in Workers, Generate(w)
        PROVE  e \in 1..Len(events) /\ outcome[e] = "sent"
    <3>1. /\ events \in Seq(Workers) /\ Len(events) \in Nat
          /\ outcome \in Seq({"none", "sent", "error"}) /\ Len(outcome) = Len(events)
      BY <1>1, LenProperties DEF TypeOK
    <3>2. Len(events') = Len(events) + 1
      BY <2>2, <3>1, AppendProperties DEF Generate
    <3>3. /\ \A j \in 1..Len(outcome) : outcome'[j] = outcome[j]
          /\ outcome'[Len(outcome) + 1] = "none"
      BY <2>2, <3>1, AppendProperties DEF Generate
    <3>. QED
      BY <1>3, <3>1, <3>2, <3>3
  <2>3. CASE Answered /\ inflight /\ ~Retry
    <3>1. PICK r \in {"sent", "error"} : Settle(r) /\ (r = "sent" => Written(Head(queue).event))
      BY <2>3 DEF Answered, Succeed, Fail, WaitForAll
    <3>2. epoch' \in Nat /\ nextSeq' \in Nat
      BY <1>1, <2>3 DEF Answered, Succeed, Fail, TypeOK
    <3>3. /\ outcome' = [outcome EXCEPT ![Head(queue).event] = r]
          /\ Head(queue).event \in 1..Len(outcome)
      BY <1>1, <2>3, <3>1, <3>2, WorkSettle
    <3>4. /\ Len(outcome) = Len(events) /\ events' = events
          /\ outcome \in [1..Len(outcome) -> {"none", "sent", "error"}]
      BY <1>1, <3>1, LenProperties DEF TypeOK, Settle
    <3>. QED
      BY <1>3, <3>1, <3>3, <3>4
  <2>4. Answered /\ ~Retry => inflight
    BY DEF Answered, Succeed, Fail
  <2>5. \/ UNCHANGED <<events, outcome>>
        \/ \E w \in Workers : Generate(w)
        \/ Answered /\ ~Retry
    BY DEF Next, Worker, StartTicker, Panic, Dispatch, Stop, Signal, Exit, Crash, Die,
           Send, Answered, Retry, Deliver, Lose, Broker, Replicate, ShrinkIsr, ExpandIsr,
           BrokerCrash, BrokerRestart, Elect
  <2>. QED
    BY <2>1, <2>2, <2>3, <2>4, <2>5
<1>. QED
  BY <1>2, <1>3 DEF SentEventsSurvive, IInv

-----------------------------------------------------------------------------
(* The steps put together. *)

(* Every step keeps the invariant. *)
LEMMA Invariant == IInv /\ [Next]_vars => IInv'
<1> SUFFICES ASSUME IInv, [Next]_vars PROVE IInv'
  OBVIOUS
<1>1. TypeOK /\ WorkInv /\ NumberInv /\ LogInv
  BY DEF IInv, WorkInv
<1>2. CASE UNCHANGED vars
  <2>1. Records' = Records
    BY <1>2 DEF Records, vars, senderVars, brokerVars
  <2>2. NumberInv'
    BY <1>1, <1>2, <2>1 DEF NumberInv, Fresh, Ordered, Numbered, vars, workerVars, senderVars
  <2>3. TypeOK' /\ QueueInv' /\ PendingInv'
    BY <1>2 DEF IInv, TypeOK, QueueInv, PendingInv, vars, workerVars, senderVars, brokerVars
  <2>4. LogInv' /\ SentEventsSurvive'
    BY <1>2 DEF IInv, LogInv, SentEventsSurvive, Written, Committed, vars, workerVars, brokerVars
  <2>. QED
    BY <2>2, <2>3, <2>4 DEF IInv
<1>3. CASE Next
  <2>1. SentEventsSurvive'
    BY <1>3, SentStep
  <2>2. LogInv'
    <3>1. \/ log' = log
          \/ \E m \in net : Deliver(m)
          \/ \E b \in Brokers : Elect(b)
      BY <1>3 DEF Next, Worker, StartTicker, Panic, Generate, Dispatch, Stop, Signal, Exit,
           Crash, Die, Send, Answered, Succeed, Retry, Fail, Settle, Lose, Broker, Replicate,
           ShrinkIsr, ExpandIsr, BrokerCrash, BrokerRestart, brokerVars, partitionFrame
    <3>. QED
      BY <1>1, <3>1, LogStep
  <2>3. WorkInv' /\ NumberInv'
    <3>1. ASSUME NEW w \in Workers, Generate(w) PROVE WorkInv' /\ NumberInv'
      BY <1>1, <3>1, WorkGenerate, NumberGenerate
    <3>2. ASSUME NEW w \in Workers, Dispatch(w) PROVE WorkInv' /\ NumberInv'
      <4>1. Fresh(w)
        BY <1>1, <3>2 DEF NumberInv, Dispatch
      <4>2. WorkInv'
        BY <1>1, <3>2, <4>1, WorkDispatch DEF Fresh
      <4>. QED
        BY <1>1, <3>2, <4>2, NumberDispatch
    <3>3. ASSUME NEW w \in Workers, StartTicker(w) \/ Stop(w) PROVE WorkInv' /\ NumberInv'
      <4>1. NumberInv'
        BY <1>1, <3>3, NumberOther
      <4>2. CASE StartTicker(w)
        BY <1>1, <4>1, <4>2, WorkIdle DEF StartTicker
      <4>3. CASE Stop(w)
        BY <1>1, <4>1, <4>3, WorkIdle DEF Stop
      <4>. QED
        BY <3>3, <4>2, <4>3
    <3>4. CASE Die
      BY <1>1, <3>4, WorkDie, NumberOther
    <3>5. CASE Signal \/ Exit \/ Send \/ Retry
      BY <1>1, <3>5, WorkSender, NumberOther
    <3>6. CASE Succeed
      <4>1. Settle("sent") /\ inflight /\ epoch' = epoch /\ nextSeq' = nextSeq
        BY <3>6 DEF Succeed
      <4>2. epoch' \in Nat /\ nextSeq' \in Nat
        BY <1>1, <4>1 DEF TypeOK
      <4>. QED
        BY <1>1, <4>1, <4>2, WorkSettle, NumberSettle
    <3>7. CASE Fail
      <4>1. Settle("error") /\ inflight /\ epoch' = epoch + 1 /\ nextSeq' = 0
        BY <3>7 DEF Fail
      <4>2. epoch' \in Nat /\ nextSeq' \in Nat
        BY <1>1, <4>1 DEF TypeOK
      <4>. QED
        BY <1>1, <4>1, <4>2, WorkSettle, NumberSettle
    <3>8. CASE (\E m \in net : Deliver(m) \/ Lose(m)) \/ (\E b \in Brokers : Broker(b))
      BY <1>1, <3>8, WorkPartition, NumberOther
    <3>. QED
      BY <1>3, <3>1, <3>2, <3>3, <3>4, <3>5, <3>6, <3>7, <3>8
         DEF Next, Worker, Panic, Crash, Answered
  <2>. QED
    BY <2>1, <2>2, <2>3 DEF IInv, WorkInv
<1>. QED
  BY <1>2, <1>3

(* The inductive invariant: types, what the workers wait for, the numbers of   *)
(* the records, the order of the log, and what is sent.                        *)
THEOREM ProducerInvariant == Spec => []IInv
<1>1. Init => IInv
  BY InitHolds
<1>2. IInv /\ [Next]_vars => IInv'
  BY Invariant
<1>. QED
  BY <1>1, <1>2, PTL DEF Spec

(* Every variable of the producer and of its partition keeps its type, for any *)
(* number of workers and brokers: no more records wait than there are workers. *)
THEOREM ProducerTypeCorrect == Spec => []TypeOK
<1>1. IInv => TypeOK
  BY DEF IInv
<1>. QED
  BY <1>1, ProducerInvariant, PTL

(* acks=all: whatever brokers crash, lag and are elected, an event reported as *)
(* sent is on every in-sync replica ever after.                                *)
THEOREM ProducerKeepsSent == Spec => []SentEventsSurvive
<1>1. IInv => SentEventsSurvive
  BY DEF IInv
<1>. QED
  BY <1>1, ProducerInvariant, PTL

(* Idempotence: no event is in the log twice, however often and however late   *)
(* its request is handled.                                                     *)
THEOREM ProducerNeverRepeats == Spec => []NoEventTwice
<1>1. IInv => NoEventTwice
  <2> SUFFICES ASSUME IInv, NEW i \in 1..Len(log), NEW j \in 1..Len(log),
                      log[i].event = log[j].event, i < j
               PROVE  FALSE
    <3>1. \A i, j \in 1..Len(log) : i < j \/ j < i \/ i = j
      BY LenProperties DEF IInv, TypeOK
    <3>. QED
      BY <3>1 DEF NoEventTwice
  <2>1. Before(log[i], log[j])
    BY DEF IInv, LogInv
  <2>2. log[i] \in Records /\ log[j] \in Records /\ Records \subseteq Record
    BY RecordsType DEF IInv, Records
  <2>3. Ordered(log[i], log[j])
    BY <2>2 DEF IInv, NumberInv
  <2>. QED
    BY <2>1, <2>2, <2>3 DEF Ordered, Before, Record
<1>. QED
  BY <1>1, ProducerInvariant, PTL

(* A worker's events are in the log in the order it made them, although the    *)
(* producer is shared and requests are given up, retried and handled late.     *)
THEOREM ProducerKeepsOrder == Spec => []WorkerOrder
<1>1. IInv => WorkerOrder
  <2> SUFFICES ASSUME IInv, NEW i \in 1..Len(log), NEW j \in 1..Len(log), i < j,
                      events[log[i].event] = events[log[j].event]
               PROVE  log[i].event < log[j].event
    BY DEF WorkerOrder
  <2>1. Before(log[i], log[j])
    BY DEF IInv, LogInv
  <2>2. log[i] \in Records /\ log[j] \in Records /\ Records \subseteq Record
    BY RecordsType DEF IInv, Records
  <2>3. Ordered(log[i], log[j])
    BY <2>2 DEF IInv, NumberInv
  <2>. QED
    BY <2>1, <2>2, <2>3 DEF Ordered, Before, Record
<1>. QED
  BY <1>1, ProducerInvariant, PTL


(* A process that has stopped has no worker left to settle anything for. *)
StoppedIsDone == proc = "stopped" => \A w \in Workers : at[w] = "done"

(* Only Exit stops the process, and a stopped one does nothing. *)
LEMMA StoppedStays == IInv /\ StoppedIsDone /\ [Next]_vars => StoppedIsDone'
<1> SUFFICES ASSUME IInv, StoppedIsDone, [Next]_vars, proc' = "stopped"
             PROVE  \A w \in Workers : at'[w] = "done"
  BY DEF StoppedIsDone
<1>1. CASE proc = "stopped"
  <2>1. at' = at
    BY <1>1 DEF Next, vars, workerVars, senderVars, partitionFrame, Up, Worker, StartTicker, Panic,
           Generate, Dispatch, Stop, Signal, Exit, Crash, Die, Send, Answered, Succeed,
           Retry, Fail, Deliver, Lose, Broker, Replicate, ShrinkIsr, ExpandIsr, BrokerCrash,
           BrokerRestart, Elect
  <2>. QED
    BY <1>1, <2>1 DEF StoppedIsDone
<1>2. CASE proc # "stopped"
  <2>1. Exit
    BY <1>2 DEF Next, vars, workerVars, senderVars, partitionFrame, Worker, StartTicker, Panic,
           Generate, Dispatch, Stop, Signal, Crash, Die, Send, Answered, Succeed,
           Retry, Fail, Settle, Deliver, Lose, Broker, Replicate, ShrinkIsr, ExpandIsr,
           BrokerCrash, BrokerRestart, Elect
  <2>. QED
    BY <2>1 DEF Exit, workerVars
<1>. QED
  BY <1>1, <1>2

(* An orderly stop leaves no event in doubt: main waits for the workers, and   *)
(* a worker for the outcome of its event.                                      *)
THEOREM ProducerStopsSettled == Spec => []StoppedIsSettled
<1>1. Init => StoppedIsDone
  BY DEF Init, StoppedIsDone
<1>2. IInv /\ StoppedIsDone => StoppedIsSettled
  <2> SUFFICES ASSUME IInv, StoppedIsDone, proc = "stopped",
                      NEW e \in 1..Len(events), outcome[e] = "none"
               PROVE  FALSE
    BY DEF StoppedIsSettled
  <2>1. at[events[e]] \in {"dispatch", "wait"}
    BY DEF IInv, PendingInv
  <2>2. events[e] \in Workers
    BY ElementOfSeq DEF IInv, TypeOK
  <2>. QED
    BY <2>1, <2>2 DEF StoppedIsDone
<1>. QED
  BY <1>1, <1>2, StoppedStays, ProducerInvariant, PTL DEF Spec

=============================================================================
