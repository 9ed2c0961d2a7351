-------------------------- MODULE DlqRetryConsumer --------------------------
(***************************************************************************)
(* The Go service of dlq-retry-consumer/: the replicas of one consumer     *)
(* group over order-events-dlq, each running one ConsumeClaim goroutine    *)
(* per claimed partition, which decodes a record, sleeps the backoff,      *)
(* republishes it to the retry topic (or gives it up) and marks it; the    *)
(* auto-committer of the session; and the group coordinator with its       *)
(* generations, rebalances and evictions, as sarama and Kafka provide them.*)
(*                                                                         *)
(* Offsets are 1-based: next[c][p] is the number of records of p that the  *)
(* claim of c has finished with.                                           *)
(***************************************************************************)
EXTENDS Integers, Sequences, FiniteSets

CONSTANTS
  Partitions,     \* partitions of order-events-dlq
  Consumers,      \* replicas of the service
  NoOne,          \* the owner of an unassigned partition
  MaxRetries,     \* cfg.MaxRetries
  ChannelBuffer,  \* records sarama buffers in claim.Messages()
  Arrivals,       \* the records that may appear on the topic
  MaxRecords,     \* bound: records per partition
  MaxCrashes,     \* bound: crashes of replicas
  MaxStops,       \* bound: SIGTERMs
  MaxTimeouts,    \* bound: live members evicted by the rebalance timeout
  MaxErrors       \* bound: failed SendMessage calls

(* A record: does it decode as JSON, and the retry-count header it carries. *)
NoHeader == -1
Record == [json : BOOLEAN, header : Nat \cup {NoHeader}]

ASSUME GroupAssumption ==
  /\ IsFiniteSet(Partitions) /\ IsFiniteSet(Consumers) /\ NoOne \notin Consumers
ASSUME ConfigAssumption == MaxRetries \in Nat /\ ChannelBuffer \in Nat \ {0}
ASSUME InputAssumption == Arrivals \subseteq Record
ASSUME BoundsAssumption ==
  {MaxRecords, MaxCrashes, MaxStops, MaxTimeouts, MaxErrors} \subseteq Nat

VARIABLES
  dlq,        \* order-events-dlq
  sent,       \* copies of each record appended to the retry topic
  closed,     \* records done with in another way: malformed, given up, failed
  committed,  \* the group's committed offsets
  members,    \* coordinator: members of the group
  joined,     \* coordinator: members that joined the rebalance under way
  phase,      \* coordinator: "stable" or "rebalancing"
  gen,        \* coordinator: generation
  owner,      \* coordinator: assignment of the generation
  proc,       \* each replica: "stopped", "running" or "terminating"
  session,    \* generation of the replica's session, 0 when it has none
  live,       \* the context of that session is not cancelled
  claims,     \* partitions of that session
  next,       \* records of the claim finished with
  upto,       \* records of the claim fetched into claim.Messages()
  at,         \* where ConsumeClaim stands: "range", "backoff" or "mark"
  marked,     \* offsets marked in the session
  faults      \* crashes, stops, timeouts and send errors so far

outVars   == <<sent, closed>>
groupVars == <<members, joined, phase, gen, owner>>
claimVars == <<next, upto, at, marked>>
vars == <<dlq, outVars, committed, groupVars, proc, session, live, claims, claimVars, faults>>

Offsets == 1..MaxRecords
NoClaim == [p \in Partitions |-> 0]

(* extractRetryCount: no header, or one that is no number, counts as 0. *)
extractRetryCount(r) == IF r.header = NoHeader THEN 0 ELSE r.header

Init ==
  /\ dlq = [p \in Partitions |-> <<>>]
  /\ sent = [p \in Partitions |-> [i \in Offsets |-> 0]]
  /\ closed = {}
  /\ committed = NoClaim
  /\ members = {} /\ joined = {} /\ phase = "stable" /\ gen = 0
  /\ owner = [p \in Partitions |-> NoOne]
  /\ proc = [c \in Consumers |-> "stopped"]
  /\ session = [c \in Consumers |-> 0]
  /\ live = [c \in Consumers |-> FALSE]
  /\ claims = [c \in Consumers |-> {}]
  /\ next = [c \in Consumers |-> NoClaim]
  /\ upto = [c \in Consumers |-> NoClaim]
  /\ marked = [c \in Consumers |-> NoClaim]
  /\ at = [c \in Consumers |-> [p \in Partitions |-> "range"]]
  /\ faults = [crashes |-> 0, stops |-> 0, timeouts |-> 0, errors |-> 0]

(* The Flink job appends a poison order to the dead-letter topic. *)
Arrive(p, r) ==
  /\ Len(dlq[p]) < MaxRecords
  /\ dlq' = [dlq EXCEPT ![p] = Append(@, r)]
  /\ UNCHANGED <<outVars, committed, groupVars, proc, session, live, claims, claimVars, faults>>

-----------------------------------------------------------------------------
(* The claim goroutine. *)

claimFrame == <<dlq, committed, groupVars, proc, session, live, claims>>

(* sarama's partition consumer feeds the channel until the session ends. *)
Fetch(c, p) ==
  /\ p \in claims[c] /\ live[c]
  /\ upto[c][p] < Len(dlq[p])
  /\ upto[c][p] - next[c][p] < ChannelBuffer
  /\ upto' = [upto EXCEPT ![c][p] = @ + 1]
  /\ UNCHANGED <<claimFrame, outVars, next, at, marked, faults>>

(* The record that `range claim.Messages()` yields: after the session has     *)
(* ended the closed channel still yields what it buffers.                     *)
HasMessage(c, p) == p \in claims[c] /\ next[c][p] < upto[c][p]
Current(c, p) == dlq[p][next[c][p] + 1]

(* Mutant: the record is named by the position before it. *)
Origin_ZeroBased(c, p) == <<p, next[c][p]>>
Origin(c, p) == <<p, next[c][p] + 1>>

(* Mutant: the message is not marked. *)
MarkMessage_Forgotten(c, p) ==
  /\ next' = [next EXCEPT ![c][p] = @ + 1]
  /\ UNCHANGED marked
MarkMessage(c, p) ==
  /\ next' = [next EXCEPT ![c][p] = @ + 1]
  /\ marked' = [marked EXCEPT ![c][p] = next[c][p] + 1]

(* A record that is not JSON is logged, marked and skipped. *)
SkipMalformed(c, p) ==
  /\ HasMessage(c, p) /\ at[c][p] = "range"
  /\ ~Current(c, p).json
  /\ closed' = closed \cup {Origin(c, p)}
  /\ MarkMessage(c, p)
  /\ UNCHANGED <<claimFrame, sent, upto, at, faults>>

Exhausted(r) == extractRetryCount(r) >= MaxRetries

(* Handle gives the record up; whether Slack hears of it is not looked at. *)
GiveUp(c, p) ==
  /\ HasMessage(c, p) /\ at[c][p] = "range"
  /\ Current(c, p).json /\ Exhausted(Current(c, p))
  /\ closed' = closed \cup {Origin(c, p)}
  /\ at' = [at EXCEPT ![c][p] = "mark"]
  /\ UNCHANGED <<claimFrame, sent, next, upto, marked, faults>>

(* Mutant: the message is marked on receipt, before Handle. *)
StartBackoff_MarksFirst(c, p) ==
  /\ HasMessage(c, p) /\ at[c][p] = "range"
  /\ Current(c, p).json /\ ~Exhausted(Current(c, p))
  /\ at' = [at EXCEPT ![c][p] = "backoff"]
  /\ marked' = [marked EXCEPT ![c][p] = next[c][p] + 1]
  /\ UNCHANGED <<claimFrame, outVars, next, upto, faults>>
StartBackoff(c, p) ==
  /\ HasMessage(c, p) /\ at[c][p] = "range"
  /\ Current(c, p).json /\ ~Exhausted(Current(c, p))
  /\ at' = [at EXCEPT ![c][p] = "backoff"]
  /\ UNCHANGED <<claimFrame, outVars, next, upto, marked, faults>>

(* time.Sleep is over and SendMessage succeeds. *)
Republish(c, p) ==
  /\ HasMessage(c, p) /\ at[c][p] = "backoff"
  /\ sent' = [sent EXCEPT ![p][next[c][p] + 1] = @ + 1]
  /\ at' = [at EXCEPT ![c][p] = "mark"]
  /\ UNCHANGED <<claimFrame, closed, next, upto, marked, faults>>

(* SendMessage returns an error, which is logged; the brokers may have        *)
(* appended the record all the same.                                          *)
RepublishFails(c, p) ==
  /\ HasMessage(c, p) /\ at[c][p] = "backoff"
  /\ faults.errors < MaxErrors
  /\ faults' = [faults EXCEPT !.errors = @ + 1]
  /\ \/ sent' = [sent EXCEPT ![p][next[c][p] + 1] = @ + 1]
     \/ UNCHANGED sent
  /\ closed' = closed \cup {Origin(c, p)}
  /\ at' = [at EXCEPT ![c][p] = "mark"]
  /\ UNCHANGED <<claimFrame, next, upto, marked>>

(* session.MarkMessage after Handle, whatever Handle did. *)
Mark(c, p) ==
  /\ HasMessage(c, p) /\ at[c][p] = "mark"
  /\ MarkMessage(c, p)
  /\ at' = [at EXCEPT ![c][p] = "range"]
  /\ UNCHANGED <<claimFrame, outVars, upto, faults>>

ConsumeClaim(c, p) ==
  \/ SkipMalformed(c, p) \/ GiveUp(c, p) \/ StartBackoff(c, p)
  \/ Republish(c, p) \/ RepublishFails(c, p) \/ Mark(c, p)

-----------------------------------------------------------------------------
(* The session and the process. *)

(* Mutant: commits are not fenced. *)
Accepted_Unfenced(c) == session[c] # 0

(* The coordinator accepts the commits of members of the current generation.  *)
Accepted(c) == c \in members /\ session[c] = gen
AfterCommit(c) ==
  [p \in Partitions |-> IF p \in claims[c] /\ Accepted(c) THEN marked[c][p] ELSE committed[p]]

(* The auto-committer, once a second. *)
AutoCommit(c) ==
  /\ session[c] # 0
  /\ committed # AfterCommit(c)
  /\ committed' = AfterCommit(c)
  /\ UNCHANGED <<dlq, outVars, groupVars, proc, session, live, claims, claimVars, faults>>

(* Mutant: SIGTERM does not reach the session. *)
CancelSession_IgnoresSignal(c) ==
  /\ session[c] # 0 /\ live[c]
  /\ phase = "rebalancing" \/ ~Accepted(c)
  /\ live' = [live EXCEPT ![c] = FALSE]
  /\ UNCHANGED <<dlq, outVars, committed, groupVars, proc, session, claims, claimVars, faults>>

(* A heartbeat reports a rebalance or an eviction, or main cancelled the      *)
(* context on SIGTERM: the session's context is cancelled, no claim stops.    *)
CancelSession(c) ==
  /\ session[c] # 0 /\ live[c]
  /\ phase = "rebalancing" \/ ~Accepted(c) \/ proc[c] = "terminating"
  /\ live' = [live EXCEPT ![c] = FALSE]
  /\ UNCHANGED <<dlq, outVars, committed, groupVars, proc, session, claims, claimVars, faults>>

(* What is left of a replica's session once it has none. *)
EndSession(c) ==
  /\ session' = [session EXCEPT ![c] = 0]
  /\ live' = [live EXCEPT ![c] = FALSE]
  /\ claims' = [claims EXCEPT ![c] = {}]
  /\ next' = [next EXCEPT ![c] = NoClaim]
  /\ upto' = [upto EXCEPT ![c] = NoClaim]
  /\ marked' = [marked EXCEPT ![c] = NoClaim]
  /\ at' = [at EXCEPT ![c] = [p \in Partitions |-> "range"]]

(* Every ConsumeClaim has drained its channel and returned: the session       *)
(* commits what is marked and ends; Run joins again or the process exits.     *)
Drained(c) == \A p \in claims[c] : next[c][p] = upto[c][p] /\ at[c][p] = "range"

(* Mutant: the session ends without its last commit. *)
ReleaseSession_NoCommit(c) ==
  /\ session[c] # 0 /\ ~live[c] /\ Drained(c)
  /\ EndSession(c)
  /\ UNCHANGED <<dlq, outVars, committed, groupVars, proc, faults>>
ReleaseSession(c) ==
  /\ session[c] # 0 /\ ~live[c] /\ Drained(c)
  /\ committed' = AfterCommit(c)
  /\ EndSession(c)
  /\ UNCHANGED <<dlq, outVars, groupVars, proc, faults>>

Start(c) ==
  /\ proc[c] = "stopped" /\ c \notin members
  /\ proc' = [proc EXCEPT ![c] = "running"]
  /\ UNCHANGED <<dlq, outVars, committed, groupVars, session, live, claims, claimVars, faults>>

(* SIGINT or SIGTERM: cancel(). *)
Terminate(c) ==
  /\ proc[c] = "running" /\ faults.stops < MaxStops
  /\ faults' = [faults EXCEPT !.stops = @ + 1]
  /\ proc' = [proc EXCEPT ![c] = "terminating"]
  /\ UNCHANGED <<dlq, outVars, committed, groupVars, session, live, claims, claimVars>>

(* Consume has returned with the context cancelled: Run and main return,      *)
(* without Close, so the replica stays a member until it is evicted.          *)
Exit(c) ==
  /\ proc[c] = "terminating" /\ session[c] = 0
  /\ proc' = [proc EXCEPT ![c] = "stopped"]
  /\ UNCHANGED <<dlq, outVars, committed, groupVars, session, live, claims, claimVars, faults>>

(* A crash, a kill at the end of the grace period, or log.Fatalf. *)
Crash(c) ==
  /\ proc[c] # "stopped" /\ faults.crashes < MaxCrashes
  /\ faults' = [faults EXCEPT !.crashes = @ + 1]
  /\ proc' = [proc EXCEPT ![c] = "stopped"]
  /\ EndSession(c)
  /\ UNCHANGED <<dlq, outVars, committed, groupVars>>

-----------------------------------------------------------------------------
(* The coordinator. *)

groupFrame == <<dlq, outVars, committed, proc, session, live, claims, claimVars>>

JoinGroup(c) ==
  /\ proc[c] = "running" /\ session[c] = 0
  /\ c \notin members \/ (phase = "rebalancing" /\ c \notin joined)
  /\ members' = members \cup {c}
  /\ joined' = joined \cup {c}
  /\ phase' = "rebalancing"
  /\ UNCHANGED <<groupFrame, gen, owner, faults>>

Evicted(c) ==
  /\ members' = members \ {c}
  /\ joined' = joined \ {c}
  /\ phase' = "rebalancing"
  /\ UNCHANGED <<groupFrame, gen, owner>>

(* A stopped process stops heartbeating. *)
SessionTimeout(c) ==
  /\ c \in members /\ proc[c] = "stopped"
  /\ Evicted(c)
  /\ UNCHANGED faults

(* A member whose claims drain longer than the rebalance timeout. *)
RebalanceTimeout(c) ==
  /\ phase = "rebalancing" /\ c \in members \ joined /\ session[c] # 0
  /\ faults.timeouts < MaxTimeouts
  /\ faults' = [faults EXCEPT !.timeouts = @ + 1]
  /\ Evicted(c)

(* All members have joined: the sticky strategy balances the partitions. *)
Load(a, c) == Cardinality({p \in Partitions : a[p] = c})
Balanced(a) == \A c, d \in members : Load(a, c) <= Load(a, d) + 1
CompleteRebalance ==
  /\ phase = "rebalancing" /\ members # {} /\ joined = members
  /\ gen' = gen + 1
  /\ \E a \in [Partitions -> members] : Balanced(a) /\ owner' = a
  /\ phase' = "stable"
  /\ joined' = {}
  /\ UNCHANGED <<groupFrame, members, faults>>

(* Mutant: always at the oldest offset. *)
StartSession_Oldest(c) ==
  /\ proc[c] = "running" /\ session[c] = 0
  /\ phase = "stable" /\ c \in members
  /\ session' = [session EXCEPT ![c] = gen]
  /\ live' = [live EXCEPT ![c] = TRUE]
  /\ claims' = [claims EXCEPT ![c] = {p \in Partitions : owner[p] = c}]
  /\ UNCHANGED <<dlq, outVars, committed, groupVars, proc, claimVars, faults>>

(* Mutant: sarama's default, the newest offset when there is none committed. *)
StartSession_Newest(c) ==
  LET from == [p \in Partitions |-> IF committed[p] = 0 THEN Len(dlq[p]) ELSE committed[p]] IN
  /\ proc[c] = "running" /\ session[c] = 0
  /\ phase = "stable" /\ c \in members
  /\ session' = [session EXCEPT ![c] = gen]
  /\ live' = [live EXCEPT ![c] = TRUE]
  /\ claims' = [claims EXCEPT ![c] = {p \in Partitions : owner[p] = c}]
  /\ next' = [next EXCEPT ![c] = from]
  /\ upto' = [upto EXCEPT ![c] = from]
  /\ marked' = [marked EXCEPT ![c] = from]
  /\ UNCHANGED <<dlq, outVars, committed, groupVars, proc, at, faults>>

(* The member learns its assignment and opens its claims at the committed     *)
(* offsets, or at the oldest one when there is none.                          *)
StartSession(c) ==
  /\ proc[c] = "running" /\ session[c] = 0
  /\ phase = "stable" /\ c \in members
  /\ session' = [session EXCEPT ![c] = gen]
  /\ live' = [live EXCEPT ![c] = TRUE]
  /\ claims' = [claims EXCEPT ![c] = {p \in Partitions : owner[p] = c}]
  /\ next' = [next EXCEPT ![c] = committed]
  /\ upto' = [upto EXCEPT ![c] = committed]
  /\ marked' = [marked EXCEPT ![c] = committed]
  /\ UNCHANGED <<dlq, outVars, committed, groupVars, proc, at, faults>>

-----------------------------------------------------------------------------
Process(c) ==
  \/ \E p \in Partitions : Fetch(c, p) \/ ConsumeClaim(c, p)
  \/ AutoCommit(c) \/ CancelSession(c) \/ ReleaseSession(c)
  \/ Start(c) \/ Terminate(c) \/ Exit(c) \/ Crash(c)
Coordinate(c) ==
  JoinGroup(c) \/ SessionTimeout(c) \/ RebalanceTimeout(c) \/ StartSession(c)

Next ==
  \/ \E p \in Partitions, r \in Arrivals : Arrive(p, r)
  \/ \E c \in Consumers : Process(c) \/ Coordinate(c)
  \/ CompleteRebalance

Spec == Init /\ [][Next]_vars

(* Goroutines, timers and the coordinator keep running, and Kubernetes        *)
(* restarts a stopped replica; crashes, signals, time-outs and send errors    *)
(* owe nothing.                                                               *)
Fairness ==
  /\ \A c \in Consumers :
       /\ \A p \in Partitions : WF_vars(Fetch(c, p)) /\ WF_vars(ConsumeClaim(c, p))
       /\ WF_vars(AutoCommit(c)) /\ WF_vars(CancelSession(c)) /\ WF_vars(ReleaseSession(c))
       /\ WF_vars(Start(c)) /\ WF_vars(Exit(c))
       /\ WF_vars(JoinGroup(c)) /\ WF_vars(SessionTimeout(c)) /\ WF_vars(StartSession(c))
  /\ WF_vars(CompleteRebalance)

FairSpec == Spec /\ Fairness

-----------------------------------------------------------------------------
(* Properties *)

Positions == [Partitions -> Nat]
PerClaim == [Consumers -> Positions]
Faults == [crashes : 0..MaxCrashes, stops : 0..MaxStops,
           timeouts : 0..MaxTimeouts, errors : 0..MaxErrors]

(* Every variable of the group and its replicas keeps its type. *)
TypeOK ==
  /\ dlq \in [Partitions -> Seq(Arrivals)]
  /\ sent \in [Partitions -> [Offsets -> Nat]]
  /\ closed \subseteq Partitions \X Offsets
  /\ committed \in Positions
  /\ members \subseteq Consumers /\ joined \subseteq members
  /\ phase \in {"stable", "rebalancing"}
  /\ gen \in Nat
  /\ owner \in [Partitions -> Consumers \cup {NoOne}]
  /\ proc \in [Consumers -> {"stopped", "running", "terminating"}]
  /\ session \in [Consumers -> Nat]
  /\ live \in [Consumers -> BOOLEAN]
  /\ claims \in [Consumers -> SUBSET Partitions]
  /\ next \in PerClaim /\ upto \in PerClaim /\ marked \in PerClaim
  /\ at \in [Consumers -> [Partitions -> {"range", "backoff", "mark"}]]
  /\ faults \in Faults

Retryable(r) == r.json /\ extractRetryCount(r) < MaxRetries
Settled(p, i) ==
  /\ sent[p][i] > 0 \/ <<p, i>> \in closed
  /\ Retryable(dlq[p][i]) /\ faults.errors = 0 => sent[p][i] > 0

(* An offset is committed only when its record is dealt with: republished if  *)
(* it may be retried, skipped or given up if not.  So a crash, a rebalance or *)
(* an eviction between any two steps of ConsumeClaim repeats a record and     *)
(* never loses one (consumer.go:88-99), while sends succeed.                  *)
CommittedIsSettled ==
  \A p \in Partitions : \A i \in 1..committed[p] : Settled(p, i)

(* The committed offset of a partition never goes back, even when an evicted  *)
(* replica goes on draining its channel next to the new owner.                *)
CommittedNeverRegresses ==
  [][\A p \in Partitions : committed'[p] >= committed[p]]_vars

(* Without a crash, an eviction or a send error a record is republished once, *)
(* through any number of rebalances and orderly stops: the session drains its *)
(* channel and commits before it gives its partitions away.                   *)
RepublishedOnceWithoutFailure ==
  faults.crashes + faults.timeouts + faults.errors = 0 =>
    \A p \in Partitions, i \in Offsets : sent[p][i] <= 1

(* A record is republished at most once more per crash or eviction: a failure *)
(* repeats what was not committed, and a send error repeats nothing.          *)
DuplicatesBounded ==
  \A p \in Partitions, i \in Offsets :
    sent[p][i] <= 1 + faults.crashes + faults.timeouts

(* A replica that still works on a partition another one owns by now cannot   *)
(* commit for it: two accepted sessions never share a partition.              *)
OneCommitterPerPartition ==
  \A c, d \in Consumers :
    c # d /\ Accepted(c) /\ Accepted(d) => claims[c] \cap claims[d] = {}

(* Every record that reaches the topic is dealt with and then committed, with *)
(* finitely many crashes, stops, evictions and send errors.                   *)
EveryRecordCommitted ==
  \A p \in Partitions, i \in Offsets : (i <= Len(dlq[p])) ~> (committed[p] >= i)

(* A replica told to stop ends, although its claims ignore the context and    *)
(* drain the channel first.                                                   *)
TerminationCompletes ==
  \A c \in Consumers : (proc[c] = "terminating") ~> (proc[c] # "terminating")

(* The abstract state: a record is dealt with once a copy of it is on the     *)
(* retry topic, or it was closed in another way.                              *)
Dealt == [p \in Partitions |-> {i \in Offsets : sent[p][i] > 0 \/ <<p, i>> \in closed}]

R == INSTANCE Relay WITH arrived <- [p \in Partitions |-> Len(dlq[p])],
                         settled <- Dealt, committed <- committed

(* The group implements the relay: through crashes, rebalances and evictions  *)
(* records are dealt with in the order of their partition, and no commit      *)
(* passes a record that was not, or is taken back.                            *)
ImplementsRelay == R!Spec

(* What the documents say: an event under the retry limit is republished.     *)
RetryableIsRepublished ==
  \A p \in Partitions : \A i \in 1..committed[p] :
    Retryable(dlq[p][i]) => sent[p][i] > 0
=============================================================================
