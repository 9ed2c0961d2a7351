-------------------------- MODULE Dashboard_proofs --------------------------
(***************************************************************************)
(* Theorems of Dashboard, for any worlds, any moves, any size of the pool  *)
(* and any limits.                                                         *)
(*                                                                         *)
(* The dashboard keeps its types; the pool holds the queries that requests *)
(* wait for, and few that were abandoned.  What the dashboard shows has a  *)
(* source: every answer a request holds was given by a world the request   *)
(* met, and every response in the browser was made of such answers.  From  *)
(* this follow what the properties say of the cards, alerts, jobs and      *)
(* totals, and of requests during which the world stood still.             *)
(***************************************************************************)
EXTENDS Dashboard, DashboardApi_proofs, SequenceTheorems

Queries == Routes \X PgCalls
Entries == {Orphan} \cup Queries

(* Among naturals there is a least one. *)
LEMMA SmallestNat ==
  ASSUME NEW R, R \subseteq Nat, R # {}
  PROVE  \E i \in R : \A j \in R : i <= j
<1>1. PICK n \in R : TRUE
  OBVIOUS
<1> DEFINE Bad == {0..i : i \in {j \in R : j <= n}}
<1>2. n \in Nat /\ 0..n \in Bad /\ Bad \in SUBSET (SUBSET (0..n))
  OBVIOUS
<1>3. IsFiniteSet(0..n)
  BY <1>2, FS_Interval
<1> HIDE DEF Bad
<1> DEFINE S == 0..n
<1>4. PICK T \in Bad : \A U \in Bad : U \subseteq T => U = T
  <2>1. IsFiniteSet(S) /\ Bad \in SUBSET (SUBSET S) /\ Bad # {}
    BY <1>2, <1>3
  <2> HIDE DEF S
  <2> QED BY <2>1, SmallestSubset
<1>5. PICK i \in R : T = 0..i /\ i <= n
  BY <1>4 DEF Bad
<1>6. ASSUME NEW j \in R, j < i PROVE FALSE
  <2>1. i \in Nat /\ j \in Nat
    OBVIOUS
  <2>2. 0..j \in Bad
    BY <1>2, <1>5, <1>6, <2>1 DEF Bad
  <2>3. 0..j \subseteq T /\ i \in T /\ i \notin 0..j
    BY <1>5, <1>6, <2>1
  <2> QED BY <1>4, <2>2, <2>3
<1> QED BY <1>6

-----------------------------------------------------------------------------
(* Types. *)

(* The calls of a request, by its stage. *)
LEMMA AskedBy ==
  ASSUME NEW r
  PROVE  /\ stage[r] = "idle" => Asked(r) = {}
         /\ stage[r] = "asked" => Asked(r) = Calls[r]
         /\ stage[r] = "checkpoints" => Asked(r) = Calls[r] \cup {"checkpoints"}
  BY DEF Asked
LEMMA AskedByNext ==
  ASSUME NEW r
  PROVE  /\ stage'[r] = "idle" => Asked(r)' = {}
         /\ stage'[r] = "asked" => Asked(r)' = Calls[r]
         /\ stage'[r] = "checkpoints" => Asked(r)' = Calls[r] \cup {"checkpoints"}
  BY DEF Asked

(* The queries of a route are calls it makes, each once. *)
LEMMA PoolEntries ==
  ASSUME NEW r \in Routes
  PROVE  /\ InPool(r) \in Seq(Queries)
         /\ \A c \in PgCalls : c \in Calls[r] <=> \E i \in DOMAIN InPool(r) : InPool(r)[i] = <<r, c>>
         /\ \A i, j \in DOMAIN InPool(r) : InPool(r)[i] = InPool(r)[j] => i = j
         /\ \A i \in DOMAIN InPool(r) : \E c \in PgCalls : InPool(r)[i] = <<r, c>>
<1>1. PgCalls = {"topUsers", "revenueOverTime", "volumeOverTime", "postgres"}
  BY DEF PgCalls, Calls
<1>2. CASE r = "health"
  <2>1. PgQueries(r) = <<"postgres">>
    BY <1>2 DEF PgQueries
  <2>2. InPool(r) = <<<<r, "postgres">>>>
    BY <2>1 DEF InPool
  <2>3. Calls[r] = Backends
    BY <1>2 DEF Calls
  <2>4. DOMAIN InPool(r) = {1} /\ InPool(r)[1] = <<r, "postgres">> /\ Len(InPool(r)) = 1
    BY <2>2
  <2>5. "postgres" \in PgCalls /\ <<r, "postgres">> \in Queries
    BY <1>1 DEF Queries
  <2>6. InPool(r) \in Seq(Queries)
    BY <2>2, <2>5
  <2>7. \A c \in PgCalls : c \in Calls[r] <=> c = "postgres"
    BY <1>1, <2>3 DEF Backends
  <2>8. \A c : <<r, "postgres">> = <<r, c>> <=> c = "postgres"
    OBVIOUS
  <2>9. \A c : (\E i \in DOMAIN InPool(r) : InPool(r)[i] = <<r, c>>) <=> c = "postgres"
    BY <2>4, <2>8
  <2>10. \A i, j \in DOMAIN InPool(r) : InPool(r)[i] = InPool(r)[j] => i = j
    BY <2>4
  <2>11. \A i \in DOMAIN InPool(r) : \E c \in PgCalls : InPool(r)[i] = <<r, c>>
    BY <2>4, <2>5
  <2> QED BY <2>6, <2>7, <2>9, <2>10, <2>11
<1>3. CASE r = "analytics"
  <2>1. PgQueries(r) = <<"topUsers", "revenueOverTime", "volumeOverTime">>
    BY <1>3 DEF PgQueries
  <2>2. InPool(r) = <<<<r, "topUsers">>, <<r, "revenueOverTime">>, <<r, "volumeOverTime">>>>
    BY <2>1 DEF InPool
  <2>3. Calls[r] = {"topUsers", "revenueOverTime", "volumeOverTime"}
    BY <1>3 DEF Calls
  <2> DEFINE q(c) == <<r, c>>
  <2>4. /\ DOMAIN InPool(r) = {1, 2, 3} /\ Len(InPool(r)) = 3
        /\ InPool(r)[1] = q("topUsers") /\ InPool(r)[2] = q("revenueOverTime")
        /\ InPool(r)[3] = q("volumeOverTime")
    BY <2>2
  <2>5. \A c, d : q(c) = q(d) <=> c = d
    OBVIOUS
  <2>6. InPool(r) \in Seq(Queries)
    <3>1. \A c \in PgCalls : q(c) \in Queries
      BY DEF Queries
    <3>2. q("topUsers") \in Queries /\ q("revenueOverTime") \in Queries /\ q("volumeOverTime") \in Queries
      BY <1>1, <3>1
    <3> QED BY <2>2, <3>2
  <2> HIDE DEF q
  <2>7. \A c \in PgCalls : c \in Calls[r] <=> \E i \in DOMAIN InPool(r) : InPool(r)[i] = q(c)
    BY <1>1, <2>3, <2>4, <2>5
  <2>8. \A i, j \in DOMAIN InPool(r) : InPool(r)[i] = InPool(r)[j] => i = j
    BY <2>4, <2>5
  <2>9. \A i \in DOMAIN InPool(r) : \E c \in PgCalls : InPool(r)[i] = q(c)
    BY <1>1, <2>4
  <2> QED BY <2>6, <2>7, <2>8, <2>9 DEF q
<1>4. CASE r \in Routes \ {"health", "analytics"}
  <2>1. PgQueries(r) = <<>>
    BY <1>4 DEF PgQueries
  <2>2. InPool(r) = <<>>
    BY <2>1 DEF InPool
  <2>3. \A c \in PgCalls : c \notin Calls[r]
    BY <1>1, <1>4, ApiAssumption DEF Calls, Routes, AllGauges, AllRanges, AllJobGauges
  <2> QED BY <2>2, <2>3
<1> QED BY <1>2, <1>3, <1>4

(* Removing an entry moves those behind it forward. *)
LEMMA Removed ==
  ASSUME NEW T, NEW s \in Seq(T), NEW i \in DOMAIN s
  PROVE  /\ RemoveAt(s, i) \in Seq(T) /\ DOMAIN RemoveAt(s, i) = 1..(Len(s) - 1)
         /\ \A j \in 1..(Len(s) - 1) : RemoveAt(s, i)[j] = IF j < i THEN s[j] ELSE s[j + 1]
<1> DEFINE a == SubSeq(s, 1, i - 1)
           b == SubSeq(s, i + 1, Len(s))
<1>1. i \in 1..Len(s) /\ Len(s) \in Nat /\ i \in Int
  OBVIOUS
<1>2. /\ a \in Seq(T) /\ Len(a) = i - 1
      /\ \A j \in 1..(i - 1) : a[j] = s[j]
  <2>1. \A j \in 1..(i - 1) : s[j] \in T
    BY <1>1
  <2>2. /\ a \in Seq(T) /\ Len(a) = IF 1 <= i - 1 THEN (i - 1) - 1 + 1 ELSE 0
        /\ \A j \in 1..((i - 1) - 1 + 1) : a[j] = s[1 + j - 1]
    BY <1>1, <2>1, SubSeqProperties
  <2> HIDE DEF a
  <2> QED BY <1>1, <2>2
<1>3. /\ b \in Seq(T) /\ Len(b) = Len(s) - i
      /\ \A j \in 1..(Len(s) - i) : b[j] = s[i + j]
  <2>1. \A j \in (i + 1)..Len(s) : s[j] \in T
    BY <1>1
  <2>2. /\ b \in Seq(T) /\ Len(b) = IF i + 1 <= Len(s) THEN Len(s) - (i + 1) + 1 ELSE 0
        /\ \A j \in 1..(Len(s) - (i + 1) + 1) : b[j] = s[(i + 1) + j - 1]
    BY <1>1, <2>1, SubSeqProperties
  <2> HIDE DEF b
  <2> QED BY <1>1, <2>2
<1>4. RemoveAt(s, i) = a \o b
  BY DEF RemoveAt
<1> HIDE DEF a, b
<1>5. /\ a \o b \in Seq(T) /\ Len(a \o b) = Len(a) + Len(b)
      /\ \A j \in 1..(Len(a) + Len(b)) : (a \o b)[j] = IF j <= Len(a) THEN a[j] ELSE b[j - Len(a)]
  BY <1>2, <1>3, ConcatProperties
<1>6. Len(a) + Len(b) = Len(s) - 1
  BY <1>1, <1>2, <1>3
<1>7. \A j \in 1..(Len(s) - 1) : (a \o b)[j] = IF j < i THEN s[j] ELSE s[j + 1]
  <2> SUFFICES ASSUME NEW j \in 1..(Len(s) - 1) PROVE (a \o b)[j] = IF j < i THEN s[j] ELSE s[j + 1]
    OBVIOUS
  <2>1. (a \o b)[j] = IF j <= i - 1 THEN a[j] ELSE b[j - (i - 1)]
    BY <1>2, <1>5, <1>6
  <2>2. CASE j < i
    BY <1>1, <1>2, <2>1, <2>2
  <2>3. CASE ~(j < i)
    <3>1. j - (i - 1) \in 1..(Len(s) - i) /\ i + (j - (i - 1)) = j + 1 /\ ~(j <= i - 1)
      BY <1>1, <2>3
    <3> QED BY <1>3, <2>1, <2>3, <3>1
  <2> QED BY <2>2, <2>3
<1> QED BY <1>1, <1>4, <1>5, <1>6, <1>7

(* Whatever ends leaves the pool a sequence of entries. *)
LEMMA AbandonType ==
  ASSUME pool \in Seq(Entries), NEW Ended
  PROVE  /\ Abandon(Ended) \in Seq(Entries) /\ DOMAIN Abandon(Ended) = DOMAIN pool
         /\ \A i \in DOMAIN pool : Abandon(Ended)[i] =
              IF pool[i] # Orphan /\ pool[i][1] \in Ended THEN Orphan ELSE pool[i]
<1>1. DOMAIN pool = 1..Len(pool) /\ Len(pool) \in Nat /\ \A i \in DOMAIN pool : pool[i] \in Entries
  OBVIOUS
<1>2. \A i \in DOMAIN pool : (IF pool[i] # Orphan /\ pool[i][1] \in Ended THEN Orphan ELSE pool[i]) \in Entries
  BY <1>1 DEF Entries
<1> QED BY <1>1, <1>2 DEF Abandon

(* Whatever a backend turns to, the world is one that it may be. *)
LEMMA WorldTurns ==
  ASSUME IsWorld(world), WorldMoves
  PROVE  \E w, calls : Becomes(w, calls) /\ IsWorld(w)
<1>1. ASSUME NEW t \in Turns, Turn(t[1], t[2]) PROVE \E w, calls : Becomes(w, calls) /\ IsWorld(w)
  <2> DEFINE w == [world EXCEPT !.status[t[1]] = t[2]]
  <2>1. t[1] \in Backends /\ t[2] \in Statuses
    BY DashboardAssumption
  <2>2. /\ DOMAIN w = DOMAIN world /\ w.results = world.results /\ w.jobs = world.jobs
        /\ w.table = world.table /\ w.status = [world.status EXCEPT ![t[1]] = t[2]]
    BY DEF IsWorld
  <2>3. w.status \in [Backends -> Statuses]
    BY <2>1, <2>2 DEF IsWorld
  <2>4. IsWorld(w)
    BY <2>2, <2>3 DEF IsWorld
  <2> QED BY <1>1, <2>4 DEF Turn
<1>2. ASSUME NEW results \in Scrapes, Scrape(results) PROVE \E w, calls : Becomes(w, calls) /\ IsWorld(w)
  <2> DEFINE w == [world EXCEPT !.results = results]
  <2>1. IsResults(results)
    BY WorldsAssumption
  <2>2. /\ DOMAIN w = DOMAIN world /\ w.results = results /\ w.jobs = world.jobs
        /\ w.table = world.table /\ w.status = world.status
    BY DEF IsWorld
  <2>3. IsWorld(w)
    BY <2>1, <2>2 DEF IsWorld
  <2> QED BY <1>2, <2>3 DEF Scrape
<1>3. ASSUME NEW jobs \in JobLists, JobsChange(jobs) PROVE \E w, calls : Becomes(w, calls) /\ IsWorld(w)
  <2> DEFINE w == [world EXCEPT !.jobs = jobs]
  <2>1. jobs \in Seq(Jobs)
    BY WorldsAssumption
  <2>2. /\ DOMAIN w = DOMAIN world /\ w.results = world.results /\ w.jobs = jobs
        /\ w.table = world.table /\ w.status = world.status
    BY DEF IsWorld
  <2>3. IsWorld(w)
    BY <2>1, <2>2 DEF IsWorld
  <2> QED BY <1>3, <2>3 DEF JobsChange
<1>4. ASSUME NEW u \in Upserts, Upsert(u) PROVE \E w, calls : Becomes(w, calls) /\ IsWorld(w)
  <2> DEFINE old == world.table
             t == [k \in DOMAIN old \cup {u.key} |->
                     IF k = u.key THEN [count |-> u.count, amount |-> u.amount] ELSE old[k]]
             w == [world EXCEPT !.table = t]
  <2>1. u.key[2] \in Int /\ u.count \in Int /\ u.amount \in Int
    BY WorldsAssumption
  <2>2. IsTable(old)
    BY DEF IsWorld
  <2>3. IsTable(t)
    <3>1. IsFiniteSet(DOMAIN old \cup {u.key})
      BY <2>2, FS_AddElement DEF IsTable
    <3>2. \A k \in DOMAIN old \cup {u.key} : k[2] \in Int /\ t[k].count \in Int /\ t[k].amount \in Int
      BY <2>1, <2>2 DEF IsTable
    <3> QED BY <3>1, <3>2 DEF IsTable
  <2>4. Becomes(w, {"topUsers"})
    BY <1>4 DEF Upsert
  <2> HIDE DEF t
  <2>5. /\ DOMAIN w = DOMAIN world /\ w.results = world.results /\ w.jobs = world.jobs
        /\ w.table = t /\ w.status = world.status
    BY DEF IsWorld
  <2>6. IsWorld(w)
    BY <2>3, <2>5 DEF IsWorld
  <2> QED BY <2>4, <2>6
<1> QED BY <1>1, <1>2, <1>3, <1>4 DEF WorldMoves

(* The dashboard starts idle and empty. *)
LEMMA TypeInit == Init => TypeOK
<1> SUFFICES ASSUME Init PROVE TypeOK
  OBVIOUS
<1>1. IsWorld(world) /\ followed \in Followed /\ page \in Links
  BY WorldsAssumption DEF Init
<1>2. moves \in 0..MaxMoves[followed]
  BY <1>1, DashboardAssumption DEF Init
<1>3. pool \in Seq(Entries)
  BY DEF Init
<1>4. \A r \in Routes : IsFiniteSet(span[r]) /\ \A w \in span[r] : IsWorld(w)
  BY FS_EmptySet DEF Init
<1>5. /\ stage \in [Routes -> {"idle", "asked", "checkpoints"}]
      /\ \A r \in Routes : stage[r] = "idle" /\ DOMAIN answers[r] = {} /\ cache[r] = Missing
      /\ DOMAIN answers = Routes /\ DOMAIN span = Routes /\ DOMAIN cache = Routes
  BY DEF Init
<1>6. \A r \in Routes : DOMAIN answers[r] \subseteq Asked(r)
  BY <1>5
<1> QED BY <1>1, <1>2, <1>3, <1>4, <1>5, <1>6 DEF TypeOK, Entries, Queries
(* The parts of the type invariant. *)
WorldOK == IsWorld(world) /\ followed \in Followed /\ moves \in 0..MaxMoves[followed] /\ page \in Links
StageOK ==
  /\ stage \in [Routes -> {"idle", "asked", "checkpoints"}]
  /\ \A r \in Routes \ {"flink"} : stage[r] # "checkpoints"
AnswersOK == DOMAIN answers = Routes /\ \A r \in Routes : DOMAIN answers[r] \subseteq Asked(r)
PoolOK == pool \in Seq(Entries)
SpanOK ==
  /\ DOMAIN span = Routes
  /\ \A r \in Routes : IsFiniteSet(span[r]) /\ \A w \in span[r] : IsWorld(w)
CacheOK ==
  /\ DOMAIN cache = Routes
  /\ \A r \in Routes : cache[r] = Missing \/ DOMAIN cache[r] = {"demo", "body", "span"}

LEMMA TypeParts ==
  TypeOK <=> WorldOK /\ StageOK /\ AnswersOK /\ PoolOK /\ SpanOK /\ CacheOK
  BY DEF TypeOK, WorldOK, StageOK, AnswersOK, PoolOK, SpanOK, CacheOK, Entries, Queries
LEMMA TypePartsNext ==
  WorldOK' /\ StageOK' /\ AnswersOK' /\ PoolOK' /\ SpanOK' /\ CacheOK' => TypeOK'
  BY DEF TypeOK, WorldOK, StageOK, AnswersOK, PoolOK, SpanOK, CacheOK, Entries, Queries

(* A move is one of those that are left. *)
LEMMA MovesLeft ==
  ASSUME WorldOK, Move
  PROVE  moves' \in 0..MaxMoves[followed]
<1>1. MaxMoves[followed] \in Nat /\ moves \in 0..MaxMoves[followed]
  BY DashboardAssumption DEF WorldOK
<1> QED BY <1>1 DEF Move

(* What was asked depends on the stage alone. *)
LEMMA SameStageSameCalls ==
  ASSUME NEW r, stage'[r] = stage[r]
  PROVE  Asked(r)' = Asked(r)
  BY DEF Asked

(* The world moves, and the requests under way meet it. *)
LEMMA TypeBecomes ==
  ASSUME TypeOK, NEW w, NEW calls, Becomes(w, calls), IsWorld(w)
  PROVE  TypeOK'
<1>1. WorldOK /\ StageOK /\ AnswersOK /\ PoolOK /\ SpanOK /\ CacheOK
  BY TypeParts
<1>2. WorldOK'
  BY <1>1, MovesLeft DEF Becomes, WorldOK
<1>3. StageOK' /\ PoolOK' /\ CacheOK'
  BY <1>1 DEF Becomes, StageOK, PoolOK, CacheOK
<1>4. AnswersOK'
  BY <1>1, SameStageSameCalls DEF Becomes, AnswersOK
<1>5. SpanOK'
  <2> SUFFICES ASSUME NEW r \in Routes
               PROVE  IsFiniteSet(span'[r]) /\ \A x \in span'[r] : IsWorld(x)
    BY DEF Becomes, SpanOK
  <2>1. span'[r] = span[r] \/ span'[r] = span[r] \cup {w}
    BY DEF Becomes
  <2> QED BY <1>1, <2>1, FS_AddElement DEF SpanOK
<1> QED BY <1>2, <1>3, <1>4, <1>5, TypePartsNext

(* A request starts. *)
LEMMA TypePoll ==
  ASSUME TypeOK, NEW q \in Routes, Poll(q)
  PROVE  TypeOK'
<1>1. WorldOK /\ StageOK /\ AnswersOK /\ PoolOK /\ SpanOK /\ CacheOK
  BY TypeParts
<1>2. WorldOK' /\ StageOK' /\ CacheOK'
  BY <1>1 DEF Poll, WorldOK, StageOK, CacheOK
<1>3. AnswersOK'
  <2> SUFFICES ASSUME NEW r \in Routes PROVE DOMAIN answers[r] \subseteq Asked(r)'
    BY <1>1 DEF AnswersOK, Poll
  <2>1. CASE r = q
    BY <1>1, <2>1, AskedBy DEF Poll, AnswersOK
  <2>2. CASE r # q
    BY <1>1, <2>2, SameStageSameCalls DEF Poll, AnswersOK, StageOK
  <2> QED BY <2>1, <2>2
<1>4. PoolOK'
  <2>1. InPool(q) \in Seq(Entries)
    <3>1. InPool(q) \in Seq(Queries)
      BY PoolEntries
    <3> QED BY <3>1 DEF Entries
  <2> QED BY <1>1, <2>1 DEF Poll, PoolOK
<1>5. SpanOK'
  <2> SUFFICES ASSUME NEW r \in Routes
               PROVE  IsFiniteSet(span'[r]) /\ \A x \in span'[r] : IsWorld(x)
    BY <1>1 DEF Poll, SpanOK
  <2>1. span'[r] = span[r] \/ span'[r] = {world}
    BY <1>1 DEF Poll, SpanOK
  <2> QED BY <1>1, <2>1, FS_Singleton DEF SpanOK, WorldOK
<1> QED BY <1>2, <1>3, <1>4, <1>5, TypePartsNext

(* A query that is done leaves the pool. *)
LEMMA TypeFinish ==
  ASSUME PoolOK, NEW e, Finish(e)
  PROVE  PoolOK'
  BY Removed DEF Finish, PoolOK

(* A call is answered. *)
LEMMA TypeAnswer ==
  ASSUME TypeOK, NEW q \in Routes, NEW c, Answer(q, c)
  PROVE  TypeOK'
<1>1. WorldOK /\ StageOK /\ AnswersOK /\ PoolOK /\ SpanOK /\ CacheOK
  BY TypeParts
<1>2. WorldOK' /\ StageOK' /\ CacheOK' /\ SpanOK'
  BY <1>1 DEF Answer, WorldOK, StageOK, CacheOK, SpanOK
<1>3. AnswersOK'
  <2>1. PICK a : answers' = [answers EXCEPT ![q] =
                               [d \in DOMAIN @ \cup {c} |-> IF d = c THEN a ELSE @[d]]]
    BY DEF Answer
  <2>2. c \in Asked(q) /\ stage' = stage
    BY DEF Answer, Waiting
  <2>3. DOMAIN answers' = Routes
    BY <1>1, <2>1 DEF AnswersOK
  <2> SUFFICES ASSUME NEW r \in Routes PROVE DOMAIN answers'[r] \subseteq Asked(r)'
    BY <2>3 DEF AnswersOK
  <2>4. Asked(r)' = Asked(r)
    BY <2>2, SameStageSameCalls
  <2>5. CASE r = q
    BY <1>1, <2>1, <2>2, <2>4, <2>5 DEF AnswersOK
  <2>6. CASE r # q
    BY <1>1, <2>1, <2>4, <2>6 DEF AnswersOK
  <2> QED BY <2>5, <2>6
<1>4. PoolOK'
  BY <1>1, TypeFinish DEF Answer, PoolOK
<1> QED BY <1>2, <1>3, <1>4, TypePartsNext

(* The Flink route asks for checkpoints. *)
LEMMA TypeAskCheckpoints ==
  ASSUME TypeOK, AskCheckpoints
  PROVE  TypeOK'
<1>1. WorldOK /\ StageOK /\ AnswersOK /\ PoolOK /\ SpanOK /\ CacheOK
  BY TypeParts
<1>2. WorldOK' /\ StageOK' /\ CacheOK' /\ SpanOK' /\ PoolOK'
  BY <1>1 DEF AskCheckpoints, WorldOK, StageOK, CacheOK, SpanOK, PoolOK
<1>3. AnswersOK'
  <2> SUFFICES ASSUME NEW r \in Routes PROVE DOMAIN answers[r] \subseteq Asked(r)'
    BY <1>1 DEF AnswersOK, AskCheckpoints
  <2>1. CASE r = "flink"
    <3>1. Asked(r) = Calls[r] /\ Asked(r)' = Calls[r] \cup {"checkpoints"}
      BY <1>1, <2>1, AskedBy, AskedByNext DEF AskCheckpoints, StageOK
    <3> QED BY <1>1, <3>1 DEF AnswersOK
  <2>2. CASE r # "flink"
    BY <1>1, <2>2, SameStageSameCalls DEF AskCheckpoints, AnswersOK, StageOK
  <2> QED BY <2>1, <2>2
<1> QED BY <1>2, <1>3, TypePartsNext

(* Requests end. *)
LEMMA TypeEnd ==
  ASSUME TypeOK, NEW Over, End(Over)
  PROVE  StageOK' /\ AnswersOK' /\ PoolOK' /\ SpanOK'
<1>1. WorldOK /\ StageOK /\ AnswersOK /\ PoolOK /\ SpanOK /\ CacheOK
  BY TypeParts
<1>2. StageOK'
  BY <1>1 DEF End, StageOK
<1>3. AnswersOK'
  <2> SUFFICES ASSUME NEW r \in Routes PROVE DOMAIN answers'[r] \subseteq Asked(r)'
    BY DEF AnswersOK, End
  <2>1. CASE r \in Over
    BY <2>1 DEF End
  <2>2. CASE r \notin Over
    BY <1>1, <2>2, SameStageSameCalls DEF End, AnswersOK
  <2> QED BY <2>1, <2>2
<1>4. PoolOK'
  BY <1>1, AbandonType DEF End, PoolOK
<1>5. SpanOK'
  BY <1>1, FS_EmptySet DEF End, SpanOK
<1> QED BY <1>2, <1>3, <1>4, <1>5

(* A response arrives, or is lost, or the browser starts anew. *)
LEMMA TypeShow ==
  ASSUME TypeOK, NEW q \in Routes, Show(q)
  PROVE  TypeOK'
<1>1. WorldOK /\ CacheOK
  BY TypeParts
<1>2. WorldOK'
  BY <1>1 DEF Show, WorldOK
<1>3. CacheOK'
  <2>1. PICK resp :
          cache' = [cache EXCEPT ![q] = [demo |-> resp.demo, body |-> resp.body, span |-> span[q]]]
    BY DEF Show
  <2> SUFFICES ASSUME NEW r \in Routes
               PROVE  cache'[r] = Missing \/ DOMAIN cache'[r] = {"demo", "body", "span"}
    BY <1>1, <2>1 DEF CacheOK
  <2>2. cache'[r] = cache[r] \/ cache'[r] = [demo |-> resp.demo, body |-> resp.body, span |-> span[q]]
    BY <1>1, <2>1 DEF CacheOK
  <2> QED BY <1>1, <2>2 DEF CacheOK
<1> QED BY <1>2, <1>3, TypeEnd, TypePartsNext DEF Show
LEMMA TypeMiss ==
  ASSUME TypeOK, NEW q \in Routes, Miss(q)
  PROVE  TypeOK'
<1>1. WorldOK /\ CacheOK
  BY TypeParts
<1>2. WorldOK' /\ CacheOK'
  BY <1>1, MovesLeft DEF Miss, WorldOK, CacheOK
<1> QED BY <1>2, TypeEnd, TypePartsNext DEF Miss
LEMMA TypeReload ==
  ASSUME TypeOK, Reload
  PROVE  TypeOK'
<1>1. WorldOK
  BY TypeParts
<1>2. WorldOK' /\ CacheOK'
  BY <1>1, MovesLeft DEF Reload, WorldOK, CacheOK
<1> QED BY <1>2, TypeEnd, TypePartsNext DEF Reload

(* The other steps: a query whose request is over, a link of the sidebar. *)
LEMMA TypeElsewhere ==
  ASSUME TypeOK, WorldOK', PoolOK', UNCHANGED <<stage, answers, cache, span>>
  PROVE  TypeOK'
<1>1. StageOK /\ AnswersOK /\ SpanOK /\ CacheOK
  BY TypeParts
<1>2. StageOK' /\ SpanOK' /\ CacheOK'
  BY <1>1 DEF StageOK, SpanOK, CacheOK
<1>3. AnswersOK'
  BY <1>1, SameStageSameCalls DEF AnswersOK
<1> QED BY <1>2, <1>3, TypePartsNext

(* Every step keeps the types. *)
LEMMA TypeStep == TypeOK /\ [Next]_vars => TypeOK'
<1> SUFFICES ASSUME TypeOK, [Next]_vars PROVE TypeOK'
  OBVIOUS
<1>1. WorldOK /\ PoolOK
  BY TypeParts
<1>2. CASE WorldMoves
  BY <1>1, <1>2, WorldTurns, TypeBecomes DEF WorldOK
<1>3. ASSUME NEW r \in Routes, Proceed(r) \/ Miss(r) PROVE TypeOK'
  BY <1>3, TypePoll, TypeAnswer, TypeShow, TypeMiss DEF Proceed
<1>4. CASE AskCheckpoints
  BY <1>4, TypeAskCheckpoints
<1>5. CASE OrphanDone
  <2>1. WorldOK' /\ PoolOK'
    BY <1>1, <1>5, TypeFinish DEF OrphanDone, WorldOK
  <2> QED BY <1>5, <2>1, TypeElsewhere DEF OrphanDone
<1>6. ASSUME NEW p \in Links, Navigate(p) PROVE TypeOK'
  <2>1. WorldOK' /\ PoolOK'
    BY <1>1, <1>6, MovesLeft DEF Navigate, requestVars, WorldOK, PoolOK
  <2> QED BY <1>6, <2>1, TypeElsewhere DEF Navigate, requestVars
<1>7. CASE Reload
  BY <1>7, TypeReload
<1>8. CASE UNCHANGED vars
  <2>1. WorldOK' /\ PoolOK'
    BY <1>1, <1>8 DEF vars, requestVars, WorldOK, PoolOK
  <2> QED BY <1>8, <2>1, TypeElsewhere DEF vars, requestVars
<1> QED BY <1>2, <1>3, <1>4, <1>5, <1>6, <1>7, <1>8 DEF Next

(* The dashboard keeps its types, for any worlds and moves: no request holds  *)
(* an answer to a call it did not make, and the worlds a request met are      *)
(* finitely many (flink/route.ts:14-33, postgres.ts:14).                      *)
THEOREM DashboardType == Spec => []TypeOK
  BY TypeInit, TypeStep, PTL DEF Spec
-----------------------------------------------------------------------------
(* The pool. *)

Has(q, x) == \E i \in DOMAIN q : q[i] = x
Once(q, x) == \A i, j \in DOMAIN q : q[i] = x /\ q[j] = x => i = j

(* Removing an entry takes that one away and leaves the others. *)
LEMMA RemovedEntries ==
  ASSUME NEW T, NEW q \in Seq(T), NEW i \in DOMAIN q, NEW x
  PROVE  /\ Once(q, x) => Once(RemoveAt(q, i), x)
         /\ q[i] # x => (Has(RemoveAt(q, i), x) <=> Has(q, x))
         /\ q[i] = x /\ Once(q, x) => ~ Has(RemoveAt(q, i), x)
<1> DEFINE p == RemoveAt(q, i)
           from(j) == IF j < i THEN j ELSE j + 1
<1>1. DOMAIN q = 1..Len(q) /\ Len(q) \in Nat /\ i \in 1..Len(q)
  OBVIOUS
<1>2. DOMAIN p = 1..(Len(q) - 1) /\ \A j \in DOMAIN p : p[j] = q[from(j)]
  <2>1. DOMAIN p = 1..(Len(q) - 1)
    BY Removed
  <2>2. \A j \in 1..(Len(q) - 1) : p[j] = IF j < i THEN q[j] ELSE q[j + 1]
    BY Removed
  <2> QED BY <2>1, <2>2
<1> HIDE DEF p
<1>3. \A j, k \in DOMAIN p : from(j) \in DOMAIN q \ {i} /\ (from(j) = from(k) => j = k)
  BY <1>1, <1>2
<1>4. ASSUME NEW k \in DOMAIN q \ {i} PROVE \E j \in DOMAIN p : from(j) = k
  <2>1. CASE k < i
    BY <1>1, <1>2, <1>4, <2>1
  <2>2. CASE k > i
    <3>1. k - 1 \in DOMAIN p /\ from(k - 1) = k
      BY <1>1, <1>2, <1>4, <2>2
    <3> QED BY <3>1
  <2> QED BY <1>1, <1>4, <2>1, <2>2
<1> HIDE DEF from
<1>5. Once(q, x) => Once(p, x)
  BY <1>2, <1>3 DEF Once
<1>6. q[i] # x => (Has(p, x) <=> Has(q, x))
  <2>1. Has(p, x) => Has(q, x)
    BY <1>2, <1>3 DEF Has
  <2>2. ASSUME q[i] # x, Has(q, x) PROVE Has(p, x)
    <3>1. PICK k \in DOMAIN q : q[k] = x
      BY <2>2 DEF Has
    <3>2. PICK j \in DOMAIN p : from(j) = k
      BY <1>4, <2>2, <3>1
    <3> QED BY <1>2, <3>1, <3>2 DEF Has
  <2> QED BY <2>1, <2>2
<1>7. q[i] = x /\ Once(q, x) => ~ Has(p, x)
  BY <1>2, <1>3 DEF Has, Once
<1> QED BY <1>5, <1>6, <1>7 DEF p

(* Appending keeps what is there. *)
LEMMA AppendedEntries ==
  ASSUME NEW T, NEW p \in Seq(T), NEW q \in Seq(T), NEW x
  PROVE  /\ Has(p \o q, x) <=> Has(p, x) \/ Has(q, x)
         /\ ~ (Has(p, x) /\ Has(q, x)) /\ Once(p, x) /\ Once(q, x) => Once(p \o q, x)
<1> DEFINE o == p \o q
<1>1. /\ DOMAIN p = 1..Len(p) /\ Len(p) \in Nat
      /\ DOMAIN q = 1..Len(q) /\ Len(q) \in Nat
  OBVIOUS
<1>2. /\ DOMAIN o = 1..(Len(p) + Len(q))
      /\ \A j \in DOMAIN o : o[j] = IF j <= Len(p) THEN p[j] ELSE q[j - Len(p)]
  <2>1. /\ o \in Seq(T) /\ Len(o) = Len(p) + Len(q)
        /\ \A j \in 1..(Len(p) + Len(q)) : o[j] = IF j <= Len(p) THEN p[j] ELSE q[j - Len(p)]
    BY ConcatProperties
  <2> HIDE DEF o
  <2> QED BY <2>1
<1> HIDE DEF o
<1>3. ASSUME NEW j \in DOMAIN o
      PROVE  \/ j \in DOMAIN p /\ o[j] = p[j]
             \/ j - Len(p) \in DOMAIN q /\ j > Len(p) /\ o[j] = q[j - Len(p)]
  BY <1>1, <1>2
<1>4. \A j \in DOMAIN p : j \in DOMAIN o /\ o[j] = p[j]
  BY <1>1, <1>2
<1>5. \A j \in DOMAIN q : j + Len(p) \in DOMAIN o /\ o[j + Len(p)] = q[j]
  BY <1>1, <1>2
<1>6. Has(o, x) <=> Has(p, x) \/ Has(q, x)
  BY <1>3, <1>4, <1>5 DEF Has
<1>7. ASSUME ~ (Has(p, x) /\ Has(q, x)), Once(p, x), Once(q, x), NEW i \in DOMAIN o, NEW j \in DOMAIN o,
             o[i] = x, o[j] = x
      PROVE  i = j
  <2>1. CASE Has(p, x)
    BY <1>3, <1>7, <2>1 DEF Has, Once
  <2>2. CASE ~ Has(p, x)
    <3>1. /\ i - Len(p) \in DOMAIN q /\ q[i - Len(p)] = x
          /\ j - Len(p) \in DOMAIN q /\ q[j - Len(p)] = x
      BY <1>3, <1>7, <2>2 DEF Has
    <3>2. i - Len(p) = j - Len(p)
      BY <1>7, <3>1 DEF Once
    <3> QED BY <1>1, <1>2, <3>2
  <2> QED BY <2>1, <2>2
<1> QED BY <1>6, <1>7 DEF o, Once

(* A query that a request waits for is in the pool, once; no other is. *)
PoolInv ==
  \A r \in Routes, c \in PgCalls :
    Once(pool, <<r, c>>) /\ (Has(pool, <<r, c>>) <=> c \in Waiting(r))

(* The queries of the health and the analytics routes; checkpoints are no query. *)
LEMMA NoQuery == "checkpoints" \notin PgCalls
  BY DEF PgCalls, Calls

LEMMA PoolInit == Init => PoolInv
<1> SUFFICES ASSUME Init PROVE PoolInv
  OBVIOUS
<1>1. DOMAIN pool = {}
  BY DEF Init
<1>2. \A r \in Routes : Waiting(r) = {}
  BY AskedBy DEF Init, Waiting
<1> QED BY <1>1, <1>2 DEF PoolInv, Has, Once

(* Nothing happens to queries when the pool and the calls waited for stay. *)
LEMMA PoolStays ==
  ASSUME PoolInv, pool' = pool, \A r \in Routes, c \in PgCalls : (c \in Waiting(r))' <=> c \in Waiting(r)
  PROVE  PoolInv'
  BY DEF PoolInv, Has, Once

(* Steps that leave the requests alone. *)
LEMMA PoolUntouched ==
  ASSUME PoolInv, UNCHANGED <<stage, answers, pool>>
  PROVE  PoolInv'
<1>1. \A r \in Routes : Waiting(r)' = Waiting(r)
  BY SameStageSameCalls DEF Waiting
<1> QED BY <1>1, PoolStays

(* A request starts: its queries join the pool. *)
LEMMA PoolPoll ==
  ASSUME TypeOK, PoolInv, NEW q \in Routes, Poll(q)
  PROVE  PoolInv'
<1>1. WorldOK /\ StageOK /\ AnswersOK /\ PoolOK /\ SpanOK /\ CacheOK
  BY TypeParts
<1>2. /\ pool \in Seq(Entries) /\ InPool(q) \in Seq(Entries)
      /\ \A i \in DOMAIN InPool(q) : \E c \in PgCalls : InPool(q)[i] = <<q, c>>
      /\ \A c \in PgCalls : Has(InPool(q), <<q, c>>) <=> c \in Calls[q]
      /\ \A x : Once(InPool(q), x)
  <2>1. InPool(q) \in Seq(Entries)
    <3>1. InPool(q) \in Seq(Queries)
      BY PoolEntries
    <3> QED BY <3>1 DEF Entries
  <2> QED BY <1>1, <2>1, PoolEntries DEF PoolOK, Has, Once
<1>3. pool' = pool \o InPool(q) /\ stage' = [stage EXCEPT ![q] = "asked"] /\ answers' = answers /\ stage[q] = "idle"
  BY DEF Poll
<1>4. Waiting(q) = {} /\ Waiting(q)' = Calls[q]
  <2>1. DOMAIN answers[q] = {} /\ Asked(q) = {}
    BY <1>1, <1>3, AskedBy DEF AnswersOK
  <2>2. Asked(q)' = Calls[q]
    BY <1>1, <1>3, AskedByNext DEF StageOK
  <2> QED BY <1>3, <2>1, <2>2 DEF Waiting
<1> SUFFICES ASSUME NEW r \in Routes, NEW c \in PgCalls
             PROVE  Once(pool', <<r, c>>) /\ (Has(pool', <<r, c>>) <=> (c \in Waiting(r))')
  BY DEF PoolInv, Once, Has
<1>5. Once(pool, <<r, c>>) /\ (Has(pool, <<r, c>>) <=> c \in Waiting(r))
  BY DEF PoolInv
<1>6. CASE r = q
  <2>1. ~ Has(pool, <<r, c>>) /\ (Has(InPool(q), <<r, c>>) <=> (c \in Waiting(r))')
    BY <1>2, <1>4, <1>5, <1>6
  <2> QED BY <1>2, <1>3, <1>5, <2>1, AppendedEntries
<1>7. CASE r # q
  <2>1. Waiting(r)' = Waiting(r)
    BY <1>1, <1>3, <1>7, SameStageSameCalls DEF Waiting, StageOK
  <2>2. ~ Has(InPool(q), <<r, c>>)
    BY <1>2, <1>7 DEF Has
  <2> QED BY <1>2, <1>3, <1>5, <2>1, <2>2, AppendedEntries
<1> QED BY <1>6, <1>7

(* A call is answered: its query leaves the pool. *)
LEMMA PoolAnswer ==
  ASSUME TypeOK, PoolInv, NEW q \in Routes, NEW d \in Waiting(q), Answer(q, d)
  PROVE  PoolInv'
<1>1. WorldOK /\ StageOK /\ AnswersOK /\ PoolOK /\ SpanOK /\ CacheOK
  BY TypeParts
<1>2. PICK a : answers' = [answers EXCEPT ![q] =
                             [x \in DOMAIN @ \cup {d} |-> IF x = d THEN a ELSE @[x]]]
  BY DEF Answer
<1>3. \A r : Asked(r)' = Asked(r)
  BY SameStageSameCalls DEF Answer
<1>4. Waiting(q)' = Waiting(q) \ {d}
  <2>1. DOMAIN answers'[q] = DOMAIN answers[q] \cup {d}
    BY <1>1, <1>2 DEF AnswersOK
  <2> QED BY <1>3, <2>1 DEF Waiting
<1>5. ASSUME NEW r \in Routes, r # q PROVE Waiting(r)' = Waiting(r)
  BY <1>1, <1>2, <1>3, <1>5 DEF AnswersOK, Waiting
<1>6. CASE d \notin PgCalls
  BY <1>4, <1>5, <1>6, PoolStays DEF Answer
<1>7. CASE d \in PgCalls
  <2>1. PICK i \in DOMAIN pool : pool[i] = <<q, d>> /\ pool' = RemoveAt(pool, i)
    BY <1>7 DEF Answer, Finish
  <2>2. pool \in Seq(Entries)
    BY <1>1 DEF PoolOK
  <2> SUFFICES ASSUME NEW r \in Routes, NEW c \in PgCalls
               PROVE  Once(pool', <<r, c>>) /\ (Has(pool', <<r, c>>) <=> (c \in Waiting(r))')
    BY DEF PoolInv, Once, Has
  <2>3. Once(pool, <<r, c>>) /\ (Has(pool, <<r, c>>) <=> c \in Waiting(r))
    BY DEF PoolInv
  <2>4. CASE r = q /\ c = d
    BY <1>4, <2>1, <2>2, <2>3, <2>4, RemovedEntries
  <2>5. CASE ~ (r = q /\ c = d)
    <3>1. pool[i] # <<r, c>>
      BY <2>1, <2>5
    <3>2. (c \in Waiting(r))' <=> c \in Waiting(r)
      BY <1>4, <1>5, <2>5
    <3> QED BY <2>1, <2>2, <2>3, <3>1, <3>2, RemovedEntries
  <2> QED BY <2>4, <2>5
<1> QED BY <1>6, <1>7

(* The checkpoints are no query. *)
LEMMA PoolAskCheckpoints ==
  ASSUME TypeOK, PoolInv, AskCheckpoints
  PROVE  PoolInv'
<1>1. StageOK
  BY TypeParts
<1>2. ASSUME NEW r \in Routes, NEW c \in PgCalls PROVE (c \in Waiting(r))' <=> c \in Waiting(r)
  <2>1. CASE r = "flink"
    <3>1. Asked(r) = Calls[r] /\ Asked(r)' = Calls[r] \cup {"checkpoints"}
      BY <1>1, <2>1, AskedBy, AskedByNext DEF AskCheckpoints, StageOK
    <3> QED BY <3>1, NoQuery DEF Waiting, AskCheckpoints
  <2>2. CASE r # "flink"
    BY <1>1, <2>2, SameStageSameCalls DEF AskCheckpoints, Waiting, StageOK
  <2> QED BY <2>1, <2>2
<1> QED BY <1>2, PoolStays DEF AskCheckpoints

(* Requests end: their queries are nobody's. *)
LEMMA PoolEnd ==
  ASSUME TypeOK, PoolInv, NEW Over, End(Over)
  PROVE  PoolInv'
<1>1. StageOK /\ AnswersOK /\ PoolOK
  BY TypeParts
<1>2. /\ DOMAIN pool' = DOMAIN pool
      /\ \A i \in DOMAIN pool : pool'[i] = IF pool[i] # Orphan /\ pool[i][1] \in Over THEN Orphan ELSE pool[i]
  BY <1>1, AbandonType DEF End, PoolOK
<1> SUFFICES ASSUME NEW r \in Routes, NEW c \in PgCalls
             PROVE  Once(pool', <<r, c>>) /\ (Has(pool', <<r, c>>) <=> (c \in Waiting(r))')
  BY DEF PoolInv, Once, Has
<1>3. Once(pool, <<r, c>>) /\ (Has(pool, <<r, c>>) <=> c \in Waiting(r))
  BY DEF PoolInv
<1>4. <<r, c>> # Orphan /\ <<r, c>>[1] = r
  BY OrphanAssumption
<1>5. CASE r \in Over
  <2>1. \A i \in DOMAIN pool : pool'[i] # <<r, c>>
    BY <1>2, <1>4, <1>5
  <2>2. Waiting(r)' = {}
    BY <1>5, AskedByNext DEF End, Waiting
  <2> QED BY <1>2, <2>1, <2>2 DEF Has, Once
<1>6. CASE r \notin Over
  <2>1. \A i \in DOMAIN pool : pool'[i] = <<r, c>> <=> pool[i] = <<r, c>>
    BY <1>2, <1>4, <1>6
  <2>2. Waiting(r)' = Waiting(r)
    BY <1>6, SameStageSameCalls DEF End, Waiting
  <2> QED BY <1>2, <1>3, <2>1, <2>2 DEF Has, Once
<1> QED BY <1>5, <1>6

(* A query whose request is over leaves. *)
LEMMA PoolOrphanDone ==
  ASSUME TypeOK, PoolInv, OrphanDone
  PROVE  PoolInv'
<1>1. pool \in Seq(Entries)
  BY TypeParts DEF PoolOK
<1>2. PICK i \in DOMAIN pool : pool[i] = Orphan /\ pool' = RemoveAt(pool, i)
  BY DEF OrphanDone, Finish
<1>3. \A r \in Routes : Waiting(r)' = Waiting(r)
  BY SameStageSameCalls DEF OrphanDone, Waiting
<1> SUFFICES ASSUME NEW r \in Routes, NEW c \in PgCalls
             PROVE  Once(pool', <<r, c>>) /\ (Has(pool', <<r, c>>) <=> (c \in Waiting(r))')
  BY DEF PoolInv, Once, Has
<1>4. Once(pool, <<r, c>>) /\ (Has(pool, <<r, c>>) <=> c \in Waiting(r))
  BY DEF PoolInv
<1>5. pool[i] # <<r, c>>
  BY <1>2, OrphanAssumption
<1> QED BY <1>1, <1>2, <1>3, <1>4, <1>5, RemovedEntries

(* Every step keeps the queries of the requests in the pool. *)
LEMMA PoolStep == TypeOK /\ PoolInv /\ [Next]_vars => PoolInv'
<1> SUFFICES ASSUME TypeOK, PoolInv, [Next]_vars PROVE PoolInv'
  OBVIOUS
<1>1. CASE WorldMoves
  <2>1. PICK w, calls : Becomes(w, calls)
    BY <1>1, WorldTurns, TypeParts DEF WorldOK
  <2> QED BY <2>1, PoolUntouched DEF Becomes
<1>2. ASSUME NEW r \in Routes, Poll(r) PROVE PoolInv'
  BY <1>2, PoolPoll
<1>3. ASSUME NEW r \in Routes, NEW c \in Waiting(r), Answer(r, c) PROVE PoolInv'
  BY <1>3, PoolAnswer
<1>4. ASSUME NEW r \in Routes, Show(r) \/ Miss(r) PROVE PoolInv'
  BY <1>4, PoolEnd DEF Show, Miss
<1>5. CASE AskCheckpoints
  BY <1>5, PoolAskCheckpoints
<1>6. CASE OrphanDone
  BY <1>6, PoolOrphanDone
<1>7. ASSUME NEW p \in Links, Navigate(p) PROVE PoolInv'
  BY <1>7, PoolUntouched DEF Navigate, requestVars
<1>8. CASE Reload
  BY <1>8, PoolEnd DEF Reload
<1>9. CASE UNCHANGED vars
  BY <1>9, PoolUntouched DEF vars, requestVars
<1> QED BY <1>1, <1>2, <1>3, <1>4, <1>5, <1>6, <1>7, <1>8, <1>9 DEF Next, Proceed

(* The pool of every behaviour.                                               *)
LEMMA DashboardPooled == Spec => []PoolInv
  BY PoolInit, PoolStep, DashboardType, PTL DEF Spec
-----------------------------------------------------------------------------
(* Sources. *)

(* The first calls of the Flink route are in, and call for checkpoints. *)
FirstIn(a) ==
  /\ Calls["flink"] \subseteq DOMAIN a /\ \A c \in Calls["flink"] : a[c] # Rejected
  /\ a.overview # Null /\ RunningJobs(a) # {}

(* a holds answers to calls of route r, each given in a world of S. *)
Collected(r, a, S) ==
  /\ DOMAIN a \ {"checkpoints"} \subseteq Calls[r]
  /\ \A c \in DOMAIN a \ {"checkpoints"} : \E w \in S : a[c] \in Answers(w, c)
  /\ "checkpoints" \in DOMAIN a =>
       r = "flink" /\ FirstIn(a) /\ \E w \in S : a.checkpoints \in getCheckpointStats(w, CheckpointJob(a))

(* Nothing more is awaited. *)
Complete(r, a) ==
  \/ AnyRejected(a)
  \/ Calls[r] \subseteq DOMAIN a /\ (r = "flink" => "checkpoints" \in DOMAIN a \/ ~ AsksCheckpoints(a))

(* A function: it has no more to it than its values. *)
Tabulated(a) == a = [c \in DOMAIN a |-> a[c]]
AnswersTabulated == \A r \in Routes : Tabulated(answers[r])

(* Response e of route r, its body made of answers given in worlds of e.span. *)
Sourced(r, e) ==
  \E a : /\ Tabulated(a) /\ Collected(r, a, e.span) /\ Complete(r, a)
         /\ \E resp \in Responses(r, a) : e.demo = resp.demo /\ e.body = resp.body

Known(r) ==
  /\ world \in span[r] /\ Collected(r, answers[r], span[r])
  /\ stage[r] = "checkpoints" => FirstIn(answers[r])
RequestsSourced == \A r \in Routes : stage[r] # "idle" => Known(r)

Founded(r, e) == Sourced(r, e) /\ IsFiniteSet(e.span) /\ \A w \in e.span : IsWorld(w)
CacheSourced == \A r \in Routes : cache[r] # Missing => Founded(r, cache[r])

SourceInv == AnswersTabulated /\ RequestsSourced /\ CacheSourced

(* The checkpoints are asked for in addition to the first calls. *)
LEMMA CheckpointsAreExtra == \A r \in Routes : "checkpoints" \notin Calls[r]
  BY ApiAssumption DEF ApiAssumption, Routes, Calls, Backends, AllGauges, AllRanges, AllJobGauges

(* Nothing was asked and nothing is shown yet. *)
LEMMA SourceInit == Init => SourceInv
  BY DEF Init, SourceInv, RequestsSourced, CacheSourced, AnswersTabulated, Tabulated

(* A request keeps its sources when it meets one more world. *)
LEMMA CollectedGrows ==
  ASSUME NEW r, NEW a, NEW S, NEW T, S \subseteq T, Collected(r, a, S)
  PROVE  Collected(r, a, T)
  BY DEF Collected

(* The world moves. *)
LEMMA SourceBecomes ==
  ASSUME SourceInv, NEW w, NEW calls, Becomes(w, calls)
  PROVE  SourceInv'
<1>1. ASSUME NEW r \in Routes, stage[r] # "idle" PROVE Known(r)'
  <2>1. world' = w /\ span'[r] = span[r] \cup {w} /\ stage' = stage /\ answers' = answers
    BY <1>1 DEF Becomes
  <2>2. Known(r)
    BY <1>1 DEF SourceInv, RequestsSourced
  <2>3. Collected(r, answers[r], span'[r])
    BY <2>1, <2>2, CollectedGrows DEF Known
  <2> QED BY <2>1, <2>2, <2>3 DEF Known
<1>2. stage' = stage /\ cache' = cache /\ answers' = answers
  BY DEF Becomes
<1> QED BY <1>1, <1>2 DEF SourceInv, RequestsSourced, CacheSourced, AnswersTabulated

(* A request starts: nothing is answered. *)
LEMMA SourcePoll ==
  ASSUME TypeOK, SourceInv, NEW q \in Routes, Poll(q)
  PROVE  SourceInv'
<1>1. StageOK /\ AnswersOK /\ SpanOK
  BY TypeParts
<1>2. /\ stage[q] = "idle" /\ stage' = [stage EXCEPT ![q] = "asked"] /\ span' = [span EXCEPT ![q] = {world}]
      /\ world' = world /\ answers' = answers /\ cache' = cache
  BY DEF Poll
<1>3. ASSUME NEW r \in Routes, stage'[r] # "idle" PROVE Known(r)'
  <2>1. CASE r = q
    <3>1. DOMAIN answers[r] = {}
      BY <1>1, <1>2, <2>1, AskedBy DEF AnswersOK
    <3>2. span'[r] = {world} /\ stage'[r] = "asked"
      BY <1>1, <1>2, <2>1 DEF SpanOK, StageOK
    <3> QED BY <1>2, <3>1, <3>2 DEF Known, Collected
  <2>2. CASE r # q
    <3>1. stage'[r] = stage[r] /\ span'[r] = span[r]
      BY <1>1, <1>2, <2>2 DEF SpanOK, StageOK
    <3> QED BY <1>2, <1>3, <3>1 DEF SourceInv, RequestsSourced, Known
  <2> QED BY <2>1, <2>2
<1> QED BY <1>2, <1>3 DEF SourceInv, RequestsSourced, CacheSourced, AnswersTabulated

(* The job of the checkpoints depends on the list of jobs alone. *)
LEMMA SameJobs ==
  ASSUME NEW a, NEW b, a.jobs = b.jobs
  PROVE  RunningJobs(a) = RunningJobs(b) /\ CheckpointJob(a) = CheckpointJob(b)
<1>1. RunningJobs(a) = RunningJobs(b)
  BY DEF RunningJobs
<1> QED BY <1>1, Zenon DEF CheckpointJob

(* A call is answered in the present world, which the request has met. *)
LEMMA SourceAnswer ==
  ASSUME TypeOK, SourceInv, NEW q \in Routes, NEW d \in Waiting(q), Answer(q, d)
  PROVE  SourceInv'
<1>1. StageOK /\ AnswersOK
  BY TypeParts
<1>2. PICK b \in PossibleAnswers(q, d) :
        answers' = [answers EXCEPT ![q] = [x \in DOMAIN @ \cup {d} |-> IF x = d THEN b ELSE @[x]]]
  BY DEF Answer
<1>3. /\ stage' = stage /\ span' = span /\ world' = world /\ cache' = cache
      /\ d \in Asked(q) /\ d \notin DOMAIN answers[q]
  BY DEF Answer, Waiting
<1>4. stage[q] # "idle" /\ Known(q)
  BY <1>3, AskedBy DEF SourceInv, RequestsSourced
<1> DEFINE a == answers[q]
           n == answers'[q]
<1>5. n = [x \in DOMAIN a \cup {d} |-> IF x = d THEN b ELSE a[x]]
  BY <1>1, <1>2 DEF AnswersOK
<1> HIDE DEF n
<1>6. DOMAIN n = DOMAIN a \cup {d} /\ n[d] = b /\ \A x \in DOMAIN a : n[x] = a[x]
  BY <1>3, <1>5
<1>7. Collected(q, n, span[q]) /\ (stage[q] = "checkpoints" => FirstIn(n))
  <2>1. CASE stage[q] = "asked"
    <3>1. d \in Calls[q] /\ DOMAIN a \subseteq Calls[q] /\ d # "checkpoints" /\ "checkpoints" \notin DOMAIN a
      BY <1>1, <1>3, <2>1, AskedBy, CheckpointsAreExtra DEF AnswersOK
    <3>2. b \in Answers(world, d)
      BY <1>2, <3>1 DEF PossibleAnswers
    <3>3. Collected(q, a, span[q]) /\ world \in span[q]
      BY <1>4 DEF Known
    <3> QED BY <1>6, <2>1, <3>1, <3>2, <3>3 DEF Collected
  <2>2. CASE stage[q] = "checkpoints"
    <3>1. q = "flink" /\ FirstIn(a) /\ Collected(q, a, span[q]) /\ world \in span[q]
      BY <1>1, <1>4, <2>2 DEF Known, StageOK
    <3>2. d = "checkpoints"
      BY <1>3, <2>2, <3>1, AskedBy DEF FirstIn
    <3>3. b \in getCheckpointStats(world, CheckpointJob(a))
      BY <1>2, <3>1, <3>2 DEF PossibleAnswers
    <3>4. {"jobs", "overview"} \subseteq DOMAIN a
      BY <3>1 DEF FirstIn, Calls
    <3>5. n.jobs = a.jobs /\ n.overview = a.overview /\ n.checkpoints = b
      BY <1>6, <3>2, <3>4
    <3>6. CheckpointJob(n) = CheckpointJob(a) /\ RunningJobs(n) = RunningJobs(a)
      BY <3>5, SameJobs
    <3>7. FirstIn(n)
      <4>1. \A c \in Calls["flink"] : c \in DOMAIN a /\ n[c] = a[c]
        BY <1>6, <3>1 DEF FirstIn
      <4> QED BY <1>6, <3>1, <3>5, <3>6, <4>1 DEF FirstIn
    <3>8. DOMAIN n \ {"checkpoints"} \subseteq DOMAIN a \ {"checkpoints"}
      BY <1>6, <3>2
    <3> QED BY <1>6, <3>1, <3>2, <3>3, <3>5, <3>6, <3>7, <3>8 DEF Collected
  <2> QED BY <1>1, <1>4, <2>1, <2>2 DEF StageOK
<1>8. ASSUME NEW r \in Routes, stage[r] # "idle" PROVE Known(r)'
  <2>1. CASE r = q
    BY <1>3, <1>4, <1>7, <2>1 DEF Known, n
  <2>2. CASE r # q
    <3>1. answers'[r] = answers[r]
      BY <1>1, <1>2, <2>2 DEF AnswersOK
    <3> QED BY <1>3, <1>8, <3>1 DEF SourceInv, RequestsSourced, Known
  <2> QED BY <2>1, <2>2
<1>9. AnswersTabulated'
  <2> SUFFICES ASSUME NEW r \in Routes PROVE Tabulated(answers'[r])
    BY DEF AnswersTabulated
  <2>1. CASE r = q
    <3>1. Tabulated([x \in DOMAIN a \cup {d} |-> IF x = d THEN b ELSE a[x]])
      BY DEF Tabulated
    <3>2. Tabulated(n)
      BY <1>5, <3>1
    <3> QED BY <2>1, <3>2 DEF n
  <2>2. CASE r # q
    <3>1. answers'[r] = answers[r]
      BY <1>1, <1>2, <2>2 DEF AnswersOK
    <3> QED BY <3>1 DEF SourceInv, AnswersTabulated
  <2> QED BY <2>1, <2>2
<1> QED BY <1>3, <1>8, <1>9 DEF SourceInv, RequestsSourced, CacheSourced

(* The second await keeps the answers of the first calls. *)
LEMMA SourceAskCheckpoints ==
  ASSUME TypeOK, SourceInv, AskCheckpoints
  PROVE  SourceInv'
<1>1. StageOK
  BY TypeParts
<1>2. /\ stage["flink"] = "asked" /\ stage' = [stage EXCEPT !["flink"] = "checkpoints"]
      /\ world' = world /\ answers' = answers /\ span' = span /\ cache' = cache
      /\ AsksCheckpoints(answers["flink"]) /\ Waiting("flink") = {}
  BY DEF AskCheckpoints, AllIn
<1>3. FirstIn(answers["flink"])
  <2>1. Calls["flink"] \subseteq DOMAIN answers["flink"]
    BY <1>2, AskedBy DEF Waiting
  <2> QED BY <1>2, <2>1 DEF AsksCheckpoints, AnyRejected, FirstIn
<1>4. ASSUME NEW r \in Routes, stage'[r] # "idle" PROVE Known(r)'
  <2>1. stage[r] # "idle" /\ (stage'[r] = "checkpoints" => stage[r] = "checkpoints" \/ r = "flink")
    BY <1>1, <1>2, <1>4 DEF StageOK
  <2> QED BY <1>2, <1>3, <2>1 DEF SourceInv, RequestsSourced, Known
<1> QED BY <1>2, <1>4 DEF SourceInv, RequestsSourced, CacheSourced, AnswersTabulated

(* Requests that end leave the others as they are. *)
LEMMA SourceEnd ==
  ASSUME SourceInv, NEW Over, End(Over), world' = world
  PROVE  RequestsSourced' /\ AnswersTabulated'
<1>1. ASSUME NEW r \in Routes, stage'[r] # "idle" PROVE Known(r)'
  <2>1. stage'[r] = stage[r] /\ answers'[r] = answers[r] /\ span'[r] = span[r]
    BY <1>1 DEF End
  <2> QED BY <1>1, <2>1 DEF SourceInv, RequestsSourced, Known
<1>2. AnswersTabulated'
  <2> SUFFICES ASSUME NEW r \in Routes PROVE Tabulated(answers'[r])
    BY DEF AnswersTabulated
  <2>1. answers'[r] = <<>> \/ answers'[r] = answers[r]
    BY DEF End
  <2> QED BY <2>1 DEF SourceInv, AnswersTabulated, Tabulated
<1> QED BY <1>1, <1>2 DEF RequestsSourced

(* A response is made of the answers of its request. *)
LEMMA SourceShow ==
  ASSUME TypeOK, SourceInv, NEW q \in Routes, Show(q)
  PROVE  SourceInv'
<1>1. PICK resp \in Responses(q, answers[q]) :
        cache' = [cache EXCEPT ![q] = [demo |-> resp.demo, body |-> resp.body, span |-> span[q]]]
  BY DEF Show
<1>2. End({q}) /\ world' = world /\ Ready(q)
  BY DEF Show
<1>3. RequestsSourced' /\ AnswersTabulated'
  BY <1>2, SourceEnd
<1>4. ASSUME NEW r \in Routes, cache'[r] # Missing PROVE Founded(r, cache'[r])
  <2>1. CASE r = q
    <3>1. cache'[r] = [demo |-> resp.demo, body |-> resp.body, span |-> span[r]]
      BY <1>1, <2>1, TypeParts DEF CacheOK
    <3>2. cache'[r].demo = resp.demo /\ cache'[r].body = resp.body /\ cache'[r].span = span[r]
      BY <3>1
    <3>3. Known(r)
      BY <1>2, <2>1 DEF Ready, SourceInv, RequestsSourced
    <3>4. Complete(r, answers[r])
      <4>1. CASE AnyRejected(answers[r])
        BY <4>1 DEF Complete
      <4>2. CASE ~ AnyRejected(answers[r])
        <5>1. Waiting(r) = {} /\ ~ (r = "flink" /\ stage[r] = "asked" /\ AsksCheckpoints(answers[r]))
          BY <1>2, <2>1, <4>2 DEF Ready, AllIn
        <5>2. stage[r] \in {"asked", "checkpoints"}
          BY <1>2, <2>1, TypeParts DEF Ready, StageOK
        <5>3. Calls[r] \subseteq DOMAIN answers[r]
          BY <5>1, <5>2, AskedBy DEF Waiting
        <5>4. stage[r] = "checkpoints" => "checkpoints" \in DOMAIN answers[r]
          BY <5>1, AskedBy DEF Waiting
        <5> QED BY <5>1, <5>2, <5>3, <5>4 DEF Complete
      <4> QED BY <4>1, <4>2
    <3>5. IsFiniteSet(span[r]) /\ \A w \in span[r] : IsWorld(w)
      BY TypeParts DEF SpanOK
    <3>6. Tabulated(answers[r])
      BY DEF SourceInv, AnswersTabulated
    <3> QED BY <2>1, <3>2, <3>3, <3>4, <3>5, <3>6 DEF Sourced, Founded, Known
  <2>2. CASE r # q
    <3>1. cache'[r] = cache[r]
      BY <1>1, <2>2, TypeParts DEF CacheOK
    <3> QED BY <1>4, <3>1 DEF SourceInv, CacheSourced
  <2> QED BY <2>1, <2>2
<1> QED BY <1>3, <1>4 DEF SourceInv, CacheSourced

(* A response that is lost changes nothing the browser has; a browser that    *)
(* starts anew has nothing to show.                                           *)
LEMMA SourceMiss ==
  ASSUME SourceInv, NEW q \in Routes, Miss(q)
  PROVE  SourceInv'
<1>1. End({q}) /\ world' = world /\ cache' = cache
  BY DEF Miss
<1> QED BY <1>1, SourceEnd DEF SourceInv, CacheSourced
LEMMA SourceReload ==
  ASSUME SourceInv, Reload
  PROVE  SourceInv'
<1>1. End(Routes) /\ world' = world /\ cache' = [r \in Routes |-> Missing]
  BY DEF Reload
<1>2. CacheSourced'
  BY <1>1 DEF CacheSourced
<1> QED BY <1>1, <1>2, SourceEnd DEF SourceInv

(* Steps of the pool and of the sidebar touch neither answers nor data. *)
LEMMA SourceElsewhere ==
  ASSUME SourceInv, UNCHANGED <<world, stage, answers, cache, span>>
  PROVE  SourceInv'
  BY DEF SourceInv, RequestsSourced, CacheSourced, Known, AnswersTabulated

(* Every step keeps the sources. *)
LEMMA SourceStep == TypeOK /\ SourceInv /\ [Next]_vars => SourceInv'
<1> SUFFICES ASSUME TypeOK, SourceInv, [Next]_vars PROVE SourceInv'
  OBVIOUS
<1>1. CASE WorldMoves
  <2>1. PICK w, calls : Becomes(w, calls)
    BY <1>1, WorldTurns, TypeParts DEF WorldOK
  <2> QED BY <2>1, SourceBecomes
<1>2. ASSUME NEW r \in Routes, Proceed(r) \/ Miss(r) PROVE SourceInv'
  BY <1>2, SourcePoll, SourceAnswer, SourceShow, SourceMiss DEF Proceed
<1>3. CASE AskCheckpoints
  BY <1>3, SourceAskCheckpoints
<1>4. CASE OrphanDone
  BY <1>4, SourceElsewhere DEF OrphanDone
<1>5. ASSUME NEW p \in Links, Navigate(p) PROVE SourceInv'
  BY <1>5, SourceElsewhere DEF Navigate, requestVars
<1>6. CASE Reload
  BY <1>6, SourceReload
<1>7. CASE UNCHANGED vars
  BY <1>7, SourceElsewhere DEF vars, requestVars
<1> QED BY <1>1, <1>2, <1>3, <1>4, <1>5, <1>6, <1>7 DEF Next

(* What the dashboard shows has a source, in every behaviour: the answers of  *)
(* a request come from worlds it met, a response from such answers, and the   *)
(* checkpoints from asking for a job its list says is running                 *)
(* (flink/route.ts:14-33).                                                    *)
THEOREM DashboardSourced == Spec => []SourceInv
  BY SourceInit, SourceStep, DashboardType, PTL DEF Spec
-----------------------------------------------------------------------------
(* Abandoned queries. *)

(* The routes, by name. *)
LEMMA RouteNames == Routes = {"health", "alerts", "kafka", "flink", "dlq", "analytics"}
  BY DEF Routes, Calls

OrphansIn(q) == {i \in DOMAIN q : q[i] = Orphan}
OfAnalytics(e) == e # Orphan /\ e[1] = "analytics"

(* A query of a request under way waits behind all that were abandoned.       *)
OrphansFirst(q) == \A i, j \in DOMAIN q : OfAnalytics(q[i]) /\ q[j] = Orphan => j < i

(* Once a query of the analytics request was rejected, it had a connection:   *)
(* fewer than the limit were ahead of it.                                     *)
FewAhead == AnyRejected(answers["analytics"]) => Abandoned <= PoolMax - 1

QueueInv == OrphansFirst(pool) /\ FewAhead

LEMMA OrphansFinite ==
  ASSUME NEW T, NEW q \in Seq(T)
  PROVE  IsFiniteSet(OrphansIn(q)) /\ Cardinality(OrphansIn(q)) \in Nat
<1>1. OrphansIn(q) \in SUBSET (1..Len(q)) /\ Len(q) \in Nat
  BY DEF OrphansIn
<1>2. IsFiniteSet(1..Len(q))
  BY <1>1, FS_Interval
<1> QED BY <1>1, <1>2, FS_Subset, FS_CardinalityType

LEMMA AbandonedType == TypeOK => Abandoned \in Nat /\ Abandoned = Cardinality(OrphansIn(pool))
  BY OrphansFinite, TypeParts DEF PoolOK, Abandoned, OrphansIn

(* Removing an entry adds no abandoned query and keeps the order. *)
LEMMA RemovedOrphans ==
  ASSUME NEW T, NEW q \in Seq(T), NEW i \in DOMAIN q
  PROVE  /\ Cardinality(OrphansIn(RemoveAt(q, i))) <= Cardinality(OrphansIn(q))
         /\ OrphansFirst(q) => OrphansFirst(RemoveAt(q, i))
         /\ \A k \in OrphansIn(RemoveAt(q, i)) : k \in Nat \ {0} /\ \E j \in OrphansIn(q) : k <= j
<1> DEFINE p == RemoveAt(q, i)
           from(j) == IF j < i THEN j ELSE j + 1
<1>1. DOMAIN q = 1..Len(q) /\ Len(q) \in Nat /\ i \in 1..Len(q)
  OBVIOUS
<1>2. DOMAIN p = 1..(Len(q) - 1) /\ \A j \in DOMAIN p : p[j] = q[from(j)]
  <2>1. DOMAIN p = 1..(Len(q) - 1)
    BY Removed
  <2>2. \A j \in 1..(Len(q) - 1) : p[j] = IF j < i THEN q[j] ELSE q[j + 1]
    BY Removed
  <2> QED BY <2>1, <2>2
<1> HIDE DEF p
<1>3. \A j, k \in DOMAIN p : from(j) \in DOMAIN q /\ (from(j) < from(k) => j < k) /\ j <= from(j)
  BY <1>1, <1>2
<1>4. \A j, k \in DOMAIN p : from(j) = from(k) => j = k
  BY <1>1, <1>2
<1>5. \A j \in DOMAIN p : j \in Nat \ {0}
  BY <1>1, <1>2
<1> DEFINE f == [j \in OrphansIn(p) |-> from(j)]
<1> HIDE DEF from
<1>6. f \in Injection(OrphansIn(p), OrphansIn(q))
  <2>1. \A j \in OrphansIn(p) : from(j) \in OrphansIn(q)
    BY <1>2, <1>3 DEF OrphansIn
  <2>2. f \in [OrphansIn(p) -> OrphansIn(q)]
    BY <2>1
  <2>3. \A j, k \in OrphansIn(p) : f[j] = f[k] => j = k
    BY <1>4 DEF OrphansIn
  <2> HIDE DEF f
  <2> QED BY <2>2, <2>3 DEF Injection, IsInjective
<1>7. Cardinality(OrphansIn(p)) <= Cardinality(OrphansIn(q))
  BY <1>6, OrphansFinite, FS_Injection
<1>8. OrphansFirst(q) => OrphansFirst(p)
  BY <1>2, <1>3 DEF OrphansFirst
<1>9. \A k \in OrphansIn(p) : k \in Nat \ {0} /\ \E j \in OrphansIn(q) : k <= j
  BY <1>2, <1>3, <1>5 DEF OrphansIn
<1> QED BY <1>7, <1>8, <1>9 DEF p

(* Appending the queries of a request abandons none, and they wait behind. *)
LEMMA AppendedOrphans ==
  ASSUME NEW q \in Seq(Entries), NEW p \in Seq(Queries)
  PROVE  /\ OrphansIn(q \o p) = OrphansIn(q)
         /\ OrphansFirst(q) => OrphansFirst(q \o p)
<1> DEFINE o == q \o p
<1>1. /\ DOMAIN q = 1..Len(q) /\ Len(q) \in Nat
      /\ DOMAIN p = 1..Len(p) /\ Len(p) \in Nat
      /\ \A j \in DOMAIN p : p[j] # Orphan
  BY OrphanAssumption DEF Queries
<1>2. /\ DOMAIN o = 1..(Len(q) + Len(p))
      /\ \A j \in DOMAIN o : o[j] = IF j <= Len(q) THEN q[j] ELSE p[j - Len(q)]
  <2>1. p \in Seq(Entries)
    BY DEF Entries
  <2>2. /\ o \in Seq(Entries) /\ Len(o) = Len(q) + Len(p)
        /\ \A j \in 1..(Len(q) + Len(p)) : o[j] = IF j <= Len(q) THEN q[j] ELSE p[j - Len(q)]
    BY <2>1, ConcatProperties
  <2> HIDE DEF o
  <2> QED BY <2>2
<1> HIDE DEF o
<1>3. \A j \in DOMAIN o : o[j] = Orphan => j \in DOMAIN q /\ q[j] = Orphan
  BY <1>1, <1>2
<1>4. \A j \in DOMAIN q : j \in DOMAIN o /\ o[j] = q[j]
  BY <1>1, <1>2
<1>5. OrphansIn(o) = OrphansIn(q)
  BY <1>3, <1>4 DEF OrphansIn
<1>6. ASSUME OrphansFirst(q), NEW i \in DOMAIN o, NEW j \in DOMAIN o, OfAnalytics(o[i]), o[j] = Orphan
      PROVE  j < i
  <2>1. j \in DOMAIN q /\ q[j] = Orphan
    BY <1>3, <1>6
  <2>2. CASE i \in DOMAIN q
    BY <1>4, <1>6, <2>1, <2>2 DEF OrphansFirst
  <2>3. CASE i \notin DOMAIN q
    BY <1>1, <1>2, <2>1, <2>3
  <2> QED BY <2>2, <2>3
<1> QED BY <1>5, <1>6 DEF o, OrphansFirst

LEMMA QueueInit == Init => QueueInv
<1> SUFFICES ASSUME Init PROVE QueueInv
  OBVIOUS
<1>1. DOMAIN pool = {} /\ DOMAIN answers["analytics"] = {}
  BY RouteNames DEF Init
<1> QED BY <1>1 DEF QueueInv, OrphansFirst, FewAhead, AnyRejected

(* What a step does to the queue: it keeps the invariant and abandons queries *)
(* only so far.                                                               *)
Bounded == Abandoned' > Abandoned => Reload \/ Abandoned' <= PoolMax + 1

(* Steps that touch neither the pool nor the answers of the analytics route. *)
LEMMA QueueUntouched ==
  ASSUME TypeOK, QueueInv, pool' = pool, answers'["analytics"] = answers["analytics"]
  PROVE  QueueInv' /\ Bounded
<1>1. Abandoned' = Abandoned /\ Abandoned \in Nat
  BY AbandonedType DEF Abandoned
<1> QED BY <1>1 DEF QueueInv, FewAhead, Bounded

LEMMA QueuePoll ==
  ASSUME TypeOK, QueueInv, NEW q \in Routes, Poll(q)
  PROVE  QueueInv' /\ Bounded
<1>1. pool \in Seq(Entries) /\ InPool(q) \in Seq(Queries)
  BY PoolEntries, TypeParts DEF PoolOK
<1>2. pool' = pool \o InPool(q) /\ answers' = answers
  BY DEF Poll
<1>3. OrphansIn(pool') = OrphansIn(pool) /\ (OrphansFirst(pool) => OrphansFirst(pool'))
  BY <1>1, <1>2, AppendedOrphans
<1>4. Abandoned' = Abandoned /\ Abandoned \in Nat
  BY <1>3, AbandonedType DEF Abandoned, OrphansIn
<1> QED BY <1>2, <1>3, <1>4 DEF QueueInv, FewAhead, Bounded

(* The calls of the analytics route are its queries. *)
LEMMA AnalyticsCalls ==
  /\ Calls["analytics"] = {"topUsers", "revenueOverTime", "volumeOverTime"}
  /\ Calls["analytics"] \subseteq PgCalls
  /\ \A r \in Routes \ {"health", "analytics"} : Calls[r] \cap PgCalls = {}
<1>1. PgCalls = {"topUsers", "revenueOverTime", "volumeOverTime", "postgres"}
  BY DEF PgCalls, Calls
<1>2. Calls["analytics"] = {"topUsers", "revenueOverTime", "volumeOverTime"}
  BY DEF Calls
<1>3. ASSUME NEW r \in Routes \ {"health", "analytics"} PROVE Calls[r] \cap PgCalls = {}
  BY <1>1, <1>3, RouteNames, ApiAssumption DEF Calls, AllGauges, AllRanges, AllJobGauges
<1> QED BY <1>1, <1>2, <1>3

(* The index of a rejected query is at most the limit. *)
LEMMA QueueAnswer ==
  ASSUME TypeOK, QueueInv, NEW q \in Routes, NEW d \in Waiting(q), Answer(q, d)
  PROVE  QueueInv' /\ Bounded
<1>1. StageOK /\ AnswersOK /\ pool \in Seq(Entries)
  BY TypeParts DEF PoolOK
<1>2. "analytics" \in Routes
  BY RouteNames
<1>3. q # "analytics" => answers'["analytics"] = answers["analytics"]
  BY <1>1, <1>2 DEF Answer, AnswersOK
<1>4. CASE d \notin PgCalls
  <2>1. q # "analytics"
    BY <1>1, <1>2, <1>4, AskedBy, AnalyticsCalls DEF Waiting, StageOK
  <2> QED BY <1>3, <1>4, <2>1, QueueUntouched DEF Answer
<1>5. CASE d \in PgCalls
  <2>1. PICK i \in DOMAIN pool : i <= PoolMax /\ pool[i] = <<q, d>> /\ pool' = RemoveAt(pool, i)
    BY <1>5 DEF Answer, Finish
  <2>2. /\ Cardinality(OrphansIn(pool')) <= Cardinality(OrphansIn(pool))
        /\ OrphansFirst(pool) => OrphansFirst(pool')
        /\ \A k \in OrphansIn(pool') : k \in Nat \ {0} /\ \E j \in OrphansIn(pool) : k <= j
    BY <1>1, <2>1, RemovedOrphans
  <2>3. pool' \in Seq(Entries)
    BY <1>1, <2>1, Removed
  <2>4. /\ Abandoned = Cardinality(OrphansIn(pool)) /\ Abandoned \in Nat
        /\ Abandoned' = Cardinality(OrphansIn(pool')) /\ Abandoned' \in Nat
    BY <1>1, <2>3, OrphansFinite DEF Abandoned, OrphansIn
  <2>5. CASE answers'["analytics"] = answers["analytics"]
    <3>1. FewAhead'
      BY <2>2, <2>4, <2>5, DashboardAssumption DEF QueueInv, FewAhead
    <3> QED BY <2>2, <2>4, <3>1 DEF QueueInv, Bounded
  <2>6. CASE q = "analytics"
    <3>0. d \in PgCalls /\ <<q, d>> # Orphan /\ <<q, d>>[1] = q
      BY <1>5, OrphanAssumption
    <3>1. i \in Nat \ {0} /\ PoolMax \in Nat /\ OfAnalytics(pool[i])
      <4>1. i \in 1..Len(pool) /\ PoolMax \in Nat
        BY <1>1, <2>1, DashboardAssumption
      <4>2. OfAnalytics(<<q, d>>)
        BY <2>6, <3>0 DEF OfAnalytics
      <4> QED BY <2>1, <4>1, <4>2
    <3>2. \A j \in OrphansIn(pool) : j < i /\ j \in Nat
      BY <1>1, <2>1, <3>1 DEF QueueInv, OrphansFirst, OrphansIn
    <3>3. OrphansIn(pool) \in SUBSET (1..(i - 1))
      BY <1>1, <3>1, <3>2 DEF OrphansIn
    <3>4. IsFiniteSet(1..(i - 1)) /\ Cardinality(1..(i - 1)) = i - 1
      <4> DEFINE n == i - 1
      <4>1. n \in Nat
        BY <3>1
      <4> HIDE DEF n
      <4>2. IsFiniteSet(1..n) /\ Cardinality(1..n) = IF 1 > n THEN 0 ELSE n - 1 + 1
        BY <4>1, FS_Interval
      <4>3. IsFiniteSet(1..n) /\ Cardinality(1..n) = n
        BY <4>1, <4>2
      <4> QED BY <4>3 DEF n
    <3>5. Abandoned <= i - 1
      <4>1. Cardinality(OrphansIn(pool)) <= Cardinality(1..(i - 1))
        BY <3>3, <3>4, FS_Subset
      <4> QED BY <2>4, <3>4, <4>1
    <3>6. FewAhead'
      BY <2>1, <2>2, <2>4, <3>1, <3>5 DEF FewAhead
    <3> QED BY <2>2, <2>4, <3>6 DEF QueueInv, Bounded
  <2> QED BY <1>3, <2>5, <2>6
<1> QED BY <1>4, <1>5

LEMMA QueueOrphanDone ==
  ASSUME TypeOK, QueueInv, OrphanDone
  PROVE  QueueInv' /\ Bounded
<1>1. pool \in Seq(Entries)
  BY TypeParts DEF PoolOK
<1>2. PICK i \in DOMAIN pool : pool' = RemoveAt(pool, i)
  BY DEF OrphanDone, Finish
<1>3. /\ Cardinality(OrphansIn(pool')) <= Cardinality(OrphansIn(pool))
      /\ OrphansFirst(pool) => OrphansFirst(pool')
  BY <1>1, <1>2, RemovedOrphans
<1>4. pool' \in Seq(Entries)
  BY <1>1, <1>2, Removed
<1>5. /\ Abandoned = Cardinality(OrphansIn(pool)) /\ Abandoned \in Nat
      /\ Abandoned' = Cardinality(OrphansIn(pool')) /\ Abandoned' \in Nat
  BY <1>1, <1>4, OrphansFinite DEF Abandoned, OrphansIn
<1>6. answers' = answers
  BY DEF OrphanDone
<1> QED BY <1>3, <1>5, <1>6, DashboardAssumption DEF QueueInv, FewAhead, Bounded

(* A request that ends with none of its queries in the pool abandons none.    *)
LEMMA QueueEndsEmpty ==
  ASSUME TypeOK, QueueInv, NEW q \in Routes, End({q}), \A c \in PgCalls : ~ Has(pool, <<q, c>>)
  PROVE  QueueInv' /\ Bounded
<1>1. pool \in Seq(Entries) /\ AnswersOK
  BY TypeParts DEF PoolOK
<1>2. /\ pool' \in Seq(Entries) /\ DOMAIN pool' = DOMAIN pool
      /\ \A i \in DOMAIN pool : pool'[i] = IF pool[i] # Orphan /\ pool[i][1] \in {q} THEN Orphan ELSE pool[i]
  BY <1>1, AbandonType DEF End
<1>3. \A i \in DOMAIN pool : pool'[i] = pool[i]
  <2> SUFFICES ASSUME NEW i \in DOMAIN pool, pool[i] # Orphan, pool[i][1] = q PROVE FALSE
    BY <1>2
  <2>1. pool[i] \in Queries
    BY <1>1 DEF Entries
  <2>2. PICK c \in PgCalls : pool[i] = <<q, c>>
    BY <2>1 DEF Queries
  <2> QED BY <2>2 DEF Has
<1>4. OrphansIn(pool') = OrphansIn(pool) /\ OrphansFirst(pool')
  BY <1>2, <1>3 DEF OrphansIn, QueueInv, OrphansFirst
<1>5. Abandoned' = Abandoned /\ Abandoned \in Nat
  BY <1>4, AbandonedType DEF Abandoned, OrphansIn
<1>6. answers'["analytics"] = answers["analytics"] \/ answers'["analytics"] = <<>>
  BY RouteNames DEF End
<1>7. FewAhead'
  BY <1>5, <1>6 DEF QueueInv, FewAhead, AnyRejected
<1> QED BY <1>4, <1>5, <1>7 DEF QueueInv, Bounded

(* The analytics request fails: at most two of its queries are abandoned.     *)
LEMMA QueueEndsRejected ==
  ASSUME TypeOK, PoolInv, QueueInv, End({"analytics"}), AnyRejected(answers["analytics"])
  PROVE  QueueInv' /\ Bounded
<1>1. pool \in Seq(Entries) /\ AnswersOK /\ StageOK /\ "analytics" \in Routes
  BY TypeParts, RouteNames DEF PoolOK
<1>2. /\ pool' \in Seq(Entries) /\ DOMAIN pool' = DOMAIN pool
      /\ \A i \in DOMAIN pool :
           pool'[i] = IF pool[i] # Orphan /\ pool[i][1] \in {"analytics"} THEN Orphan ELSE pool[i]
  BY <1>1, AbandonType DEF End
<1> DEFINE At(c) == {i \in DOMAIN pool : pool[i] = <<"analytics", c>>}
<1>3. ASSUME NEW c \in PgCalls PROVE IsFiniteSet(At(c)) /\ Cardinality(At(c)) <= 1
  <2>1. CASE At(c) = {}
    BY <2>1, FS_EmptySet
  <2>2. CASE At(c) # {}
    <3>1. PICK i \in At(c) : TRUE
      BY <2>2
    <3>2. At(c) = {i}
      BY <1>1, <1>3, <3>1 DEF PoolInv, Once
    <3>3. IsFiniteSet({i}) /\ Cardinality({i}) = 1
      BY FS_Singleton
    <3> HIDE DEF At
    <3>4. IsFiniteSet(At(c)) /\ Cardinality(At(c)) = 1
      BY <3>2, <3>3
    <3> QED BY <3>4
  <2> QED BY <2>1, <2>2
<1>4. PICK b \in DOMAIN answers["analytics"] : TRUE
  BY DEF AnyRejected
<1>5. b \in Calls["analytics"]
  BY <1>1, <1>4, AskedBy DEF AnswersOK, StageOK
<1>6. At(b) = {}
  BY <1>1, <1>4, <1>5, AnalyticsCalls DEF PoolInv, Has, Waiting
<1>7. PICK c, d : Calls["analytics"] = {b, c, d}
  <2> SUFFICES \E c, d : Calls["analytics"] = {b, c, d}
    OBVIOUS
  <2>1. Calls["analytics"] = {"topUsers", "revenueOverTime", "volumeOverTime"}
    BY AnalyticsCalls
  <2>2. CASE b = "topUsers"
    <3>1. Calls["analytics"] = {b, "revenueOverTime", "volumeOverTime"}
      BY <2>1, <2>2
    <3> QED BY <3>1
  <2>3. CASE b = "revenueOverTime"
    <3>1. Calls["analytics"] = {b, "topUsers", "volumeOverTime"}
      BY <2>1, <2>3
    <3> QED BY <3>1
  <2>4. CASE b = "volumeOverTime"
    <3>1. Calls["analytics"] = {b, "topUsers", "revenueOverTime"}
      BY <2>1, <2>4
    <3> QED BY <3>1
  <2> QED BY <1>5, <2>1, <2>2, <2>3, <2>4
<1> HIDE DEF At
<1>8. OrphansIn(pool') \subseteq OrphansIn(pool) \cup (At(c) \cup At(d))
  <2> SUFFICES ASSUME NEW i \in DOMAIN pool, pool[i] # Orphan, pool[i][1] = "analytics"
               PROVE  i \in At(c) \cup At(d)
    BY <1>2 DEF OrphansIn
  <2>1. PICK e \in PgCalls : pool[i] = <<"analytics", e>>
    BY <1>1 DEF Entries, Queries
  <2>2. e \in Waiting("analytics")
    BY <1>1, <2>1 DEF PoolInv, Has
  <2>3. e \in Calls["analytics"]
    BY <1>1, <2>2, AskedBy DEF Waiting, StageOK
  <2>4. i \in At(e)
    BY <2>1 DEF At
  <2> QED BY <1>6, <1>7, <2>3, <2>4
<1>9. {c, d} \subseteq PgCalls
  BY <1>7, AnalyticsCalls
<1>10. /\ IsFiniteSet(At(c)) /\ Cardinality(At(c)) <= 1 /\ Cardinality(At(c)) \in Nat
       /\ IsFiniteSet(At(d)) /\ Cardinality(At(d)) <= 1 /\ Cardinality(At(d)) \in Nat
  BY <1>3, <1>9, FS_CardinalityType
<1>11. IsFiniteSet(At(c) \cup At(d)) /\ Cardinality(At(c) \cup At(d)) <= 2 /\ Cardinality(At(c) \cup At(d)) \in Nat
  <2>1. Cardinality(At(c) \cap At(d)) \in Nat
    <3>1. At(c) \cap At(d) \in SUBSET At(c)
      OBVIOUS
    <3> QED BY <1>10, <3>1, FS_Subset, FS_CardinalityType
  <2>2. /\ IsFiniteSet(At(c) \cup At(d))
        /\ Cardinality(At(c) \cup At(d)) = Cardinality(At(c)) + Cardinality(At(d)) - Cardinality(At(c) \cap At(d))
    BY <1>10, FS_Union
  <2> QED BY <1>10, <2>1, <2>2, FS_CardinalityType
<1> DEFINE old == OrphansIn(pool)
           new == At(c) \cup At(d)
<1>12. IsFiniteSet(old) /\ Cardinality(old) \in Nat
  BY <1>1, OrphansFinite
<1>13. OrphansIn(pool') \in SUBSET (old \cup new)
  BY <1>8
<1>14. IsFiniteSet(new) /\ Cardinality(new) <= 2 /\ Cardinality(new) \in Nat
  BY <1>11
<1> HIDE DEF old, new
<1>15. Cardinality(OrphansIn(pool')) <= Cardinality(old) + 2
  <2>1. old \cap new \in SUBSET old
    OBVIOUS
  <2>2. Cardinality(old \cap new) \in Nat
    BY <1>12, <2>1, FS_Subset, FS_CardinalityType
  <2>3. IsFiniteSet(old \cup new) /\ Cardinality(old \cup new) = Cardinality(old) + Cardinality(new) - Cardinality(old \cap new)
    BY <1>12, <1>14, FS_Union
  <2>4. Cardinality(OrphansIn(pool')) <= Cardinality(old \cup new)
    BY <1>13, <2>3, FS_Subset
  <2>5. Cardinality(OrphansIn(pool')) \in Nat
    BY <1>2, OrphansFinite
  <2> QED BY <1>12, <1>14, <2>2, <2>3, <2>4, <2>5
<1>16. Abandoned = Cardinality(old) /\ Abandoned' = Cardinality(OrphansIn(pool'))
  BY DEF Abandoned, OrphansIn, old
<1>17. Abandoned <= PoolMax - 1 /\ PoolMax \in Nat
  BY DashboardAssumption DEF QueueInv, FewAhead
<1>18. Cardinality(OrphansIn(pool')) \in Nat
  BY <1>2, OrphansFinite
<1>19. Abandoned' <= PoolMax + 1
  BY <1>12, <1>15, <1>16, <1>17, <1>18
<1>20. \A i \in DOMAIN pool' : ~ OfAnalytics(pool'[i])
  BY <1>2 DEF OfAnalytics
<1>21. answers'["analytics"] = <<>>
  BY <1>1 DEF End
<1> QED BY <1>19, <1>20, <1>21 DEF QueueInv, OrphansFirst, FewAhead, AnyRejected, Bounded

(* The health route's probes never reject. *)
LEMMA ProbesAnswer ==
  ASSUME SourceInv, stage["health"] # "idle"
  PROVE  ~ AnyRejected(answers["health"])
<1> DEFINE a == answers["health"]
<1>1. Collected("health", a, span["health"])
  BY RouteNames DEF SourceInv, RequestsSourced, Known
<1>2. Calls["health"] = Backends
  BY DEF Calls
<1> HIDE DEF a
<1>3. ASSUME NEW c \in DOMAIN a PROVE a[c] # Rejected
  <2>1. c # "checkpoints" /\ c \in Backends
    BY <1>1, <1>2 DEF Collected
  <2>2. PICK w : a[c] \in Answers(w, c)
    BY <1>1, <2>1 DEF Collected
  <2>3. /\ Answers(w, "prometheus") = promHealth(w) /\ Answers(w, "flink") = flinkHealth(w)
        /\ Answers(w, "postgres") = pgHealth(w)
    BY DEF Answers
  <2>4. \A v : v \in promHealth(w) \cup flinkHealth(w) \cup pgHealth(w) => v \in BOOLEAN
    <3>1. Responds(w, "prometheus") \in BOOLEAN /\ Responds(w, "flink") \in BOOLEAN
      <4>1. \A b : (w.status[b] \in {"ok", "garbled"}) \in BOOLEAN
        OBVIOUS
      <4> QED BY <4>1 DEF Responds
    <3>2. (w.status["postgres"] = "ok") \in BOOLEAN
      OBVIOUS
    <3> QED BY <3>1, <3>2 DEF promHealth, flinkHealth, pgHealth
  <2>5. a[c] \in BOOLEAN
    BY <2>1, <2>2, <2>3, <2>4 DEF Backends
  <2> QED BY <2>5, ValuesAssumption
<1> QED BY <1>3 DEF a, AnyRejected

(* A response is ready. *)
LEMMA QueueEndsReady ==
  ASSUME TypeOK, PoolInv, SourceInv, QueueInv, NEW q \in Routes, Ready(q), End({q})
  PROVE  QueueInv' /\ Bounded
<1>1. \A c \in PgCalls : Has(pool, <<q, c>>) => c \in Waiting(q)
  BY DEF PoolInv
<1>2. CASE AllIn(q)
  BY <1>1, <1>2, QueueEndsEmpty DEF AllIn
<1>3. CASE AnyRejected(answers[q])
  <2>1. CASE q = "analytics"
    BY <1>3, <2>1, QueueEndsRejected
  <2>2. CASE q = "health"
    BY <1>3, <2>2, ProbesAnswer DEF Ready
  <2>3. CASE q \in Routes \ {"health", "analytics"}
    <3>1. \A c \in Waiting(q) : c \notin PgCalls
      BY <2>3, AskedBy, AnalyticsCalls, NoQuery, TypeParts DEF Waiting, StageOK
    <3> QED BY <1>1, <3>1, QueueEndsEmpty
  <2> QED BY <2>1, <2>2, <2>3
<1> QED BY <1>2, <1>3 DEF Ready

(* The user starts anew. *)
LEMMA QueueReload ==
  ASSUME TypeOK, QueueInv, Reload
  PROVE  QueueInv' /\ Bounded
<1>1. pool \in Seq(Entries) /\ "analytics" \in Routes
  BY TypeParts, RouteNames DEF PoolOK
<1>2. /\ DOMAIN pool' = DOMAIN pool
      /\ \A i \in DOMAIN pool :
           pool'[i] = IF pool[i] # Orphan /\ pool[i][1] \in Routes THEN Orphan ELSE pool[i]
  BY <1>1, AbandonType DEF Reload, End
<1>3. \A i \in DOMAIN pool' : ~ OfAnalytics(pool'[i])
  BY <1>1, <1>2 DEF OfAnalytics
<1>4. answers'["analytics"] = <<>>
  BY <1>1 DEF Reload, End
<1> QED BY <1>3, <1>4 DEF QueueInv, OrphansFirst, FewAhead, AnyRejected, Bounded

LEMMA QueueStep ==
  TypeOK /\ PoolInv /\ SourceInv /\ QueueInv /\ [Next]_vars => QueueInv' /\ Bounded
<1> SUFFICES ASSUME TypeOK, PoolInv, SourceInv, QueueInv, [Next]_vars PROVE QueueInv' /\ Bounded
  OBVIOUS
<1>1. CASE WorldMoves
  <2>1. PICK w, calls : Becomes(w, calls)
    BY <1>1, WorldTurns, TypeParts DEF WorldOK
  <2> QED BY <2>1, QueueUntouched DEF Becomes
<1>2. ASSUME NEW r \in Routes, Poll(r) PROVE QueueInv' /\ Bounded
  BY <1>2, QueuePoll
<1>3. ASSUME NEW r \in Routes, NEW c \in Waiting(r), Answer(r, c) PROVE QueueInv' /\ Bounded
  BY <1>3, QueueAnswer
<1>4. ASSUME NEW r \in Routes, Show(r) \/ Miss(r) PROVE QueueInv' /\ Bounded
  BY <1>4, QueueEndsReady DEF Show, Miss
<1>5. CASE AskCheckpoints
  BY <1>5, QueueUntouched DEF AskCheckpoints
<1>6. CASE OrphanDone
  BY <1>6, QueueOrphanDone
<1>7. ASSUME NEW p \in Links, Navigate(p) PROVE QueueInv' /\ Bounded
  BY <1>7, QueueUntouched DEF Navigate, requestVars
<1>8. CASE Reload
  BY <1>8, QueueReload
<1>9. CASE UNCHANGED vars
  BY <1>9, QueueUntouched DEF vars, requestVars
<1> QED BY <1>1, <1>2, <1>3, <1>4, <1>5, <1>6, <1>7, <1>8, <1>9 DEF Next, Proceed

(* Unless the user reloads, queries are abandoned only up to the limit of the *)
(* pool plus one, for any limit, and however often requests fail, backends    *)
(* hang and the world moves (postgres.ts:13-14, analytics/orders/route.ts:17, *)
(* 60).                                                                       *)
THEOREM DashboardAbandoned == Spec => AbandonedBounded
<1>1. QueueInv /\ TypeOK /\ PoolInv /\ SourceInv /\ [Next]_vars =>
        [Abandoned' > Abandoned => Reload \/ Abandoned' <= PoolMax + 1]_vars
  BY QueueStep DEF Bounded
<1>2. Spec => []QueueInv
  BY QueueInit, QueueStep, DashboardType, DashboardPooled, DashboardSourced, PTL DEF Spec
<1> QED BY <1>1, <1>2, DashboardType, DashboardPooled, DashboardSourced, PTL DEF Spec, AbandonedBounded
-----------------------------------------------------------------------------
(* What a response in the browser was made of. *)
LEMMA Shown ==
  ASSUME SourceInv, NEW r \in Routes, cache[r] # Missing
  PROVE  \E a : /\ Tabulated(a) /\ Collected(r, a, Worlds(r)) /\ Complete(r, a)
                /\ \E resp \in Responses(r, a) : cache[r].demo = resp.demo /\ Data[r] = resp.body
<1>1. Data[r] = cache[r].body /\ Worlds(r) = cache[r].span
  BY DEF Data, Worlds
<1> QED BY <1>1 DEF SourceInv, CacheSourced, Founded, Sourced
LEMMA ShownWorlds ==
  ASSUME SourceInv, NEW r \in Routes
  PROVE  IsFiniteSet(Worlds(r)) /\ \A w \in Worlds(r) : IsWorld(w)
  BY FS_EmptySet DEF SourceInv, CacheSourced, Founded, Worlds

(* What is undefined has no fields. *)
LEMMA NothingShown ==
  ASSUME NEW r \in Routes, cache[r] = Missing
  PROVE  DOMAIN Data[r] = {} /\ \A f, d : Get(Data[r], f, d) = d
<1>1. Data[r] = <<>>
  BY DEF Data, Undefined
<1>2. DOMAIN <<>> = {}
  OBVIOUS
<1> QED BY <1>1, <1>2 DEF Get

(* Demo data is one of the bodies a generator makes. *)
LEMMA DemoBody == \A bodies : \A resp \in Demo(bodies) : resp.demo = TRUE /\ resp.body \in bodies
  BY DEF Demo
LEMMA LiveBody == \A b : \A resp \in Live(b) : resp.demo = FALSE /\ resp.body = b
  BY DEF Live

(* Without a rejection all calls are answered. *)
LEMMA AllAnswered ==
  ASSUME NEW r, NEW a, Complete(r, a), ~ AnyRejected(a)
  PROVE  /\ Calls[r] \subseteq DOMAIN a
         /\ \A c \in Calls[r] : a[c] # Rejected
  BY DEF Complete, AnyRejected

(* The health route is made of three probes, each of a world it met. *)
LEMMA Probes ==
  ASSUME NEW a, NEW S, Collected("health", a, S), Complete("health", a), NEW b \in Backends
  PROVE  \/ a[b] = TRUE /\ \E w \in S : Up(w, b)
         \/ a[b] = FALSE /\ \E w \in S : ~Up(w, b)
<1>1. Calls["health"] = Backends /\ "checkpoints" \notin Backends /\ "checkpoints" \notin DOMAIN a
  BY DEF Calls, Backends, Collected
<1>2. ASSUME NEW c \in DOMAIN a
      PROVE  c \in Backends /\ \E w \in S : (a[c] = TRUE /\ Up(w, c)) \/ (a[c] = FALSE /\ ~Up(w, c))
  <2>0. c \in Backends
    BY <1>1 DEF Collected
  <2>1. PICK w \in S : a[c] \in Answers(w, c)
    BY <1>1 DEF Collected
  <2>2. Answers(w, "prometheus") = {Responds(w, "prometheus")}
    BY DEF Answers, promHealth
  <2>3. Answers(w, "flink") = {Responds(w, "flink")}
    BY DEF Answers, flinkHealth
  <2>4. Answers(w, "postgres") = {w.status["postgres"] = "ok"}
    BY DEF Answers, pgHealth
  <2>5. Answers(w, c) = {Up(w, c)}
    BY <2>0, <2>2, <2>3, <2>4 DEF Backends, Up
  <2>6. a[c] = Up(w, c)
    BY <2>1, <2>5
  <2>7. Up(w, c) \in BOOLEAN
    <3>1. (w.status[c] = "ok") \in BOOLEAN /\ (w.status[c] \in {"ok", "garbled"}) \in BOOLEAN
      OBVIOUS
    <3>2. CASE c = "postgres"
      BY <3>1, <3>2 DEF Up
    <3>3. CASE c # "postgres"
      BY <3>1, <3>3 DEF Up, Responds
    <3> QED BY <3>2, <3>3
  <2> QED BY <2>0, <2>6, <2>7
<1>3. ~ AnyRejected(a)
  BY <1>2, ValuesAssumption DEF AnyRejected
<1>4. b \in DOMAIN a
  BY <1>1, <1>3, AllAnswered
<1> QED BY <1>2, <1>4

(* The field of the health response that decides each card. *)
CardField == [kafka |-> "kafka", flink |-> "flink", dlq |-> "kafka", postgres |-> "postgres"]
CardStatus(c) == healthStatus(Get(Data["health"], CardField[c], Missing))

(* A card's label tells its status. *)
LEMMA CardLabels ==
  ASSUME NEW c \in DOMAIN CardBackend
  PROVE  OverviewPage(Data).cards[c].label = StatusLabel[CardStatus(c)]
<1>1. c \in {"kafka", "flink", "dlq", "postgres"}
  BY DEF CardBackend
<1>2. \A s, stats : StatusCard(s, stats).label = StatusLabel[s]
  BY DEF StatusCard
<1>3. CASE c = "kafka"
  BY <1>2, <1>3 DEF OverviewPage, CardStatus, CardField
<1>4. CASE c = "flink"
  BY <1>2, <1>4 DEF OverviewPage, CardStatus, CardField
<1>5. CASE c = "dlq"
  BY <1>2, <1>5 DEF OverviewPage, CardStatus, CardField
<1>6. CASE c = "postgres"
  BY <1>2, <1>6 DEF OverviewPage, CardStatus, CardField
<1> QED BY <1>1, <1>3, <1>4, <1>5, <1>6

(* What a card's status says of the worlds the health request met. *)
LEMMA CardSource ==
  ASSUME SourceInv, NEW c \in DOMAIN CardBackend
  PROVE  /\ CardStatus(c) \in {"loading", "healthy", "down"}
         /\ CardStatus(c) = "healthy" =>
              \/ \E w \in Worlds("health") : Up(w, CardBackend[c])
              \/ \A b \in Backends : \E w \in Worlds("health") : ~Up(w, b)
         /\ CardStatus(c) = "down" =>
              /\ \E w \in Worlds("health") : ~Up(w, CardBackend[c])
              /\ \E b \in Backends : \E w \in Worlds("health") : Up(w, b)
<1> DEFINE S == Worlds("health")
           body == Data["health"]
<1>0. "health" \in Routes
  BY RouteNames
<1>1. CASE cache["health"] = Missing
  BY <1>0, <1>1, NothingShown DEF CardStatus, healthStatus
<1>2. CASE cache["health"] # Missing
  <2>1. PICK a : /\ Collected("health", a, S) /\ Complete("health", a)
                 /\ \E resp \in Responses("health", a) : body = resp.body
    BY <1>0, <1>2, Shown
  <2>2. \A b \in Backends : \/ a[b] = TRUE /\ \E w \in S : Up(w, b)
                            \/ a[b] = FALSE /\ \E w \in S : ~Up(w, b)
    BY <2>1, Probes
  <2>3. PICK resp \in HealthResponses(a) : body = resp.body
    BY <2>1 DEF Responses
  <2> HIDE DEF S, body
  <2>4. CASE ~ AnyLive(a)
    <3>1. body = [prometheus |-> TRUE, postgres |-> TRUE, flink |-> TRUE, kafka |-> TRUE]
      <4>1. resp \in Demo(getDemoHealth)
        BY <2>3, <2>4 DEF HealthResponses
      <4>2. body \in getDemoHealth
        BY <2>3, <4>1, DemoBody
      <4> QED BY <4>2 DEF getDemoHealth
    <3>2. Get(body, CardField[c], Missing) = TRUE
      BY <3>1 DEF CardField, CardBackend, Get
    <3>3. \A b \in Backends : \E w \in S : ~Up(w, b)
      BY <2>2, <2>4 DEF AnyLive, Backends
    <3> QED BY <3>2, <3>3 DEF healthStatus, CardStatus, S, body
  <2>5. CASE AnyLive(a)
    <3>1. body = [prometheus |-> a.prometheus, postgres |-> a.postgres, flink |-> a.flink,
                  kafka |-> a.prometheus]
      BY <2>3, <2>5, LiveBody DEF HealthResponses
    <3>2. CardBackend[c] \in Backends /\ Get(body, CardField[c], Missing) = a[CardBackend[c]]
      BY <3>1 DEF CardField, CardBackend, Backends, Get
    <3>3. \E b \in Backends : \E w \in S : Up(w, b)
      BY <2>2, <2>5 DEF AnyLive, Backends
    <3> QED BY <2>2, <3>2, <3>3 DEF healthStatus, CardStatus, S, body
  <2> QED BY <2>4, <2>5
<1> QED BY <1>1, <1>2

(* A card that says Healthy tells the truth or there was a total outage, for  *)
(* any number and order of changes of the world (health/route.ts:16).         *)
THEOREM DashboardHealthyIsReal == Spec => []HealthyIsReal
<1>1. SourceInv => HealthyIsReal
  <2> SUFFICES ASSUME SourceInv, NEW c \in DOMAIN CardBackend,
                      OverviewPage(Data).cards[c].label = "Healthy"
               PROVE  \/ \E w \in Worlds("health") : Up(w, CardBackend[c])
                      \/ \A b \in Backends : \E w \in Worlds("health") : ~Up(w, b)
    BY DEF HealthyIsReal
  <2>1. CardStatus(c) = "healthy"
    BY CardLabels, CardSource DEF StatusLabel
  <2> QED BY <2>1, CardSource
<1> QED BY <1>1, DashboardSourced, PTL

(* A card that says Down tells the truth, and something else was up, for any  *)
(* number and order of changes of the world (health/route.ts:16-26).          *)
THEOREM DashboardDownIsReal == Spec => []DownIsReal
<1>1. SourceInv => DownIsReal
  <2> SUFFICES ASSUME SourceInv, NEW c \in DOMAIN CardBackend,
                      OverviewPage(Data).cards[c].label = "Down"
               PROVE  /\ \E w \in Worlds("health") : ~Up(w, CardBackend[c])
                      /\ \E b \in Backends : \E w \in Worlds("health") : Up(w, b)
    BY DEF DownIsReal
  <2>1. CardStatus(c) = "down"
    BY CardLabels, CardSource DEF StatusLabel
  <2> QED BY <2>1, CardSource
<1> QED BY <1>1, DashboardSourced, PTL

-----------------------------------------------------------------------------
(* The waves of the latency and of the rate are no higher than their amplitudes. *)
LEMMA WavesBounded ==
  /\ \A x \in timeWave(25) : x \in -25..25
  /\ \A x \in timeWave(15) : x \in -15..15
<1>1. \A p \in Waves : p \in Int /\ p >= -100 /\ p <= 100
  BY ApiAssumption DEF ApiAssumption
<1>2. \A p \in Int : p >= -100 /\ p <= 100 => (25 * p) \div 100 \in -25..25
  OBVIOUS
<1>3. \A p \in Int : p >= -100 /\ p <= 100 => (15 * p) \div 100 \in -15..15
  OBVIOUS
<1> QED BY <1>1, <1>2, <1>3 DEF timeWave

(* The larger of two integers is one of them. *)
LEMMA AtLeastIsOne ==
  ASSUME NEW m \in Int, NEW n \in Int
  PROVE  AtLeast(m, n) \in {m, n}
<1>1. \E x \in {m, n} : \A y \in {m, n} : x >= y
  <2>1. CASE m >= n
    BY <2>1
  <2>2. CASE n >= m
    BY <2>2
  <2> QED BY <2>1, <2>2
<1> QED BY <1>1 DEF AtLeast, Max

(* Simulated latencies and rates stay below the thresholds. *)
LEMMA DemoCalm ==
  /\ \A p \in DemoP99 : latencyStatus(p) # "critical"
  /\ \A b \in getDemoDlqMetrics : dlqStatus(b.eventRate) # "critical"
<1>1. ASSUME NEW p \in DemoP99 PROVE latencyStatus(p) # "critical"
  <2>1. PICK x \in timeWave(25), y \in timeWave(15) : p = AtLeast(5, 30 + x + y)
    BY DEF DemoP99
  <2>2. x \in -25..25 /\ y \in -15..15
    BY WavesBounded
  <2>3. 30 + x + y \in Int /\ 30 + x + y <= 70
    BY <2>2
  <2>4. p \in {5, 30 + x + y}
    BY <2>1, <2>3, AtLeastIsOne
  <2>5. p \in Int /\ ~(p >= 100)
    BY <2>3, <2>4
  <2> QED BY <2>5 DEF latencyStatus
<1>2. ASSUME NEW b \in getDemoDlqMetrics PROVE dlqStatus(b.eventRate) # "critical"
  <2>1. PICK x \in timeWave(15) :
          b = [eventRate |-> AtLeast(0, 20 + x), messagesTotal |-> 23,
               series |-> generateTimeSeries(120), alerts |-> {}]
    BY Zenon DEF getDemoDlqMetrics
  <2>2. 20 + x \in Int /\ 20 + x <= 35
    BY WavesBounded
  <2>3. b.eventRate \in {0, 20 + x}
    <3>1. b.eventRate = AtLeast(0, 20 + x)
      BY <2>1
    <3> QED BY <3>1, <2>2, AtLeastIsOne
  <2>4. b.eventRate \in Int /\ ~(b.eventRate >= 5000)
    BY <2>2, <2>3
  <2> QED BY <2>4 DEF dlqStatus
<1> QED BY <1>1, <1>2

(* Without a rejection a result is that of a world, or empty. *)
LEMMA Measured ==
  ASSUME NEW r \in Routes, NEW a, NEW S, Collected(r, a, S), Complete(r, a), ~ AnyRejected(a),
         NEW c \in Calls[r], c \in PromQueries
  PROVE  \E w \in S : a[c] = w.results[c] \/ a[c] = <<>>
<1>1. c \in DOMAIN a /\ a[c] # Rejected
  BY AllAnswered
<1>2. c \notin {"checkpoints", "prometheus", "flink", "postgres", "overview", "jobs", "topUsers",
                "revenueOverTime", "volumeOverTime"}
  BY ApiAssumption DEF PromQueries, AllGauges, AllRanges, AllJobGauges
<1>3. PICK w \in S : a[c] \in Answers(w, c)
  BY <1>1, <1>2 DEF Collected
<1>4. Answers(w, c) = promQuery(w, w.results[c])
  BY <1>2 DEF Answers
<1>5. a[c] = w.results[c] \/ a[c] = <<>>
  BY <1>1, <1>3, <1>4 DEF promQuery
<1> QED BY <1>5

(* The metric cards, as functions of the data. *)
P99 == Gauge(Get(Data["kafka"], "current", <<>>), "p99Produce")
DlqRate == Get(Data["dlq"], "eventRate", 0)

(* A card is red only when its value is critical. *)
LEMMA RedCards ==
  /\ OverviewPage(Data).metrics.p99.color = "destructive" => latencyStatus(P99) = "critical"
  /\ OverviewPage(Data).metrics.dlqRate.color = "destructive" => dlqStatus(DlqRate) = "critical"
<1>1. OverviewPage(Data).metrics.p99 = MetricCard(P99, latencyStatus(P99))
  BY DEF OverviewPage, P99
<1>2. OverviewPage(Data).metrics.dlqRate = MetricCard(DlqRate, dlqStatus(DlqRate))
  BY DEF OverviewPage, DlqRate
<1>3. \A v, s : MetricCard(v, s).color = StatusColor[s]
  BY DEF MetricCard
<1>4. \A ms : latencyStatus(ms) \in {"normal", "warning", "critical"}
  BY DEF latencyStatus
<1>5. \A rate : dlqStatus(rate) \in {"normal", "warning", "critical"}
  BY DEF dlqStatus
<1> QED BY <1>1, <1>2, <1>3, <1>4, <1>5 DEF StatusColor

(* No value, no alarm. *)
LEMMA ZeroIsNormal == latencyStatus(0) # "critical" /\ dlqStatus(0) # "critical"
  BY DEF latencyStatus, dlqStatus

(* A critical latency was measured. *)
LEMMA LatencySource ==
  ASSUME SourceInv, latencyStatus(P99) = "critical"
  PROVE  \E w \in Worlds("kafka") : latencyStatus(val(w.results["p99Produce"])) = "critical"
<1> DEFINE S == Worlds("kafka")
           body == Data["kafka"]
<1>0. "kafka" \in Routes
  BY RouteNames
<1>1. cache["kafka"] # Missing
  <2> SUFFICES ASSUME cache["kafka"] = Missing PROVE FALSE
    OBVIOUS
  <2>1. P99 = 0
    <3>1. Get(body, "current", <<>>) = <<>> /\ DOMAIN <<>> = {}
      BY <1>0, NothingShown
    <3> QED BY <3>1 DEF P99, Gauge
  <2> QED BY <2>1, ZeroIsNormal
<1>2. PICK a : /\ Collected("kafka", a, S) /\ Complete("kafka", a)
               /\ \E resp \in Responses("kafka", a) : body = resp.body
  BY <1>0, <1>1, Shown
<1>3. PICK resp \in KafkaResponses(a) : body = resp.body
  BY <1>2 DEF Responses
<1>4. P99 = Gauge(Get(body, "current", <<>>), "p99Produce")
  BY DEF P99
<1> HIDE DEF S, body
<1>5. CASE AnyRejected(a) \/ (a.messagesIn = <<>> /\ a.perBroker = <<>>)
  <2>1. body \in getDemoKafkaMetrics
    BY <1>3, <1>5, DemoBody DEF KafkaResponses
  <2>2. PICK p \in DemoP99 : /\ "current" \in DOMAIN body
                             /\ body.current = [g \in Gauges |-> DemoCurrent(p)[g]]
    BY <2>1 DEF getDemoKafkaMetrics
  <2>3. P99 = p \/ P99 = 0
    BY <1>4, <2>2 DEF Gauge, DemoCurrent, Get
  <2> QED BY <2>3, DemoCalm, ZeroIsNormal
<1>6. CASE ~ (AnyRejected(a) \/ (a.messagesIn = <<>> /\ a.perBroker = <<>>))
  <2>1. "current" \in DOMAIN body /\ body.current = [g \in Gauges |-> val(a[g])]
    BY <1>3, <1>6, LiveBody DEF KafkaResponses
  <2>2. CASE "p99Produce" \in Gauges
    <3>1. P99 = val(a["p99Produce"])
      BY <1>4, <2>1, <2>2 DEF Gauge, Get
    <3>2. "p99Produce" \in Calls["kafka"] /\ "p99Produce" \in PromQueries
      BY <2>2 DEF Calls, PromQueries
    <3>3. PICK w \in S : a["p99Produce"] = w.results["p99Produce"] \/ a["p99Produce"] = <<>>
      BY <1>0, <1>2, <1>6, <3>2, Measured
    <3>4. a["p99Produce"] # <<>>
      BY <3>1, ZeroIsNormal DEF val
    <3> QED BY <3>1, <3>3, <3>4 DEF S
  <2>3. CASE "p99Produce" \notin Gauges
    <3>1. P99 = 0
      BY <1>4, <2>1, <2>3 DEF Gauge, Get
    <3> QED BY <3>1, ZeroIsNormal
  <2> QED BY <2>2, <2>3
<1> QED BY <1>5, <1>6

(* A critical rate was measured. *)
LEMMA RateSource ==
  ASSUME SourceInv, dlqStatus(DlqRate) = "critical"
  PROVE  \E w \in Worlds("dlq") : dlqStatus(val(w.results["eventRate"])) = "critical"
<1> DEFINE S == Worlds("dlq")
           body == Data["dlq"]
<1>0. "dlq" \in Routes
  BY RouteNames
<1>1. cache["dlq"] # Missing
  BY <1>0, NothingShown, ZeroIsNormal DEF DlqRate
<1>2. PICK a : /\ Collected("dlq", a, S) /\ Complete("dlq", a)
               /\ \E resp \in Responses("dlq", a) : body = resp.body
  BY <1>0, <1>1, Shown
<1>3. PICK resp \in DlqResponses(a) : body = resp.body
  BY <1>2 DEF Responses
<1>4. DlqRate = Get(body, "eventRate", 0)
  BY DEF DlqRate
<1> HIDE DEF S, body
<1>5. CASE AnyRejected(a) \/ (a.eventRate = <<>> /\ a.messagesTotal = <<>>)
  <2>1. body \in getDemoDlqMetrics
    BY <1>3, <1>5, DemoBody DEF DlqResponses
  <2>2. "eventRate" \in DOMAIN body
    BY <2>1 DEF getDemoDlqMetrics
  <2> QED BY <1>4, <2>1, <2>2, DemoCalm DEF Get
<1>6. CASE ~ (AnyRejected(a) \/ (a.eventRate = <<>> /\ a.messagesTotal = <<>>))
  <2>1. "eventRate" \in DOMAIN body /\ body.eventRate = val(a["eventRate"])
    BY <1>3, <1>6, LiveBody DEF DlqResponses
  <2>2. "eventRate" \in Calls["dlq"] /\ "eventRate" \in PromQueries
    BY DEF Calls, PromQueries
  <2>3. PICK w \in S : a["eventRate"] = w.results["eventRate"] \/ a["eventRate"] = <<>>
    BY <1>0, <1>2, <1>6, <2>2, Measured
  <2>4. DlqRate = val(a["eventRate"])
    BY <1>4, <2>1 DEF Get
  <2>5. a["eventRate"] # <<>>
    BY <2>4, ZeroIsNormal DEF val
  <2> QED BY <2>3, <2>4, <2>5 DEF S
<1> QED BY <1>5, <1>6

(* A latency or DLQ rate shown as critical was measured while the request was *)
(* under way, for any waves of the simulation (demo-data.ts:33-35, 100-101).  *)
THEOREM DashboardCriticalIsReal == Spec => []CriticalIsReal
<1>1. SourceInv => CriticalIsReal
  BY RedCards, LatencySource, RateSource DEF CriticalIsReal
<1> QED BY <1>1, DashboardSourced, PTL
-----------------------------------------------------------------------------
(* Alerts. *)

(* The calls that Prometheus answers have no other meaning. *)
LEMMA OwnQueries ==
  PromQueries \cap {"checkpoints", "prometheus", "flink", "postgres", "overview", "jobs", "topUsers",
                    "revenueOverTime", "volumeOverTime"} = {}
  BY ApiAssumption DEF PromQueries, AllGauges, AllRanges, AllJobGauges

(* While Prometheus is in order a request gets the results of a world for all *)
(* it asks Prometheus for.                                                    *)
LEMMA ResultsOfWorlds ==
  ASSUME NEW r, NEW a, NEW S, Collected(r, a, S), Complete(r, a), Calls[r] \subseteq PromQueries,
         \A w \in S : IsWorld(w) /\ w.status["prometheus"] = "ok", r # "flink"
  PROVE  /\ ~ AnyRejected(a)
         /\ \A c \in Calls[r] : \E w \in S : a[c] = w.results[c]
<1>1. ASSUME NEW c \in DOMAIN a
      PROVE  a[c] # Rejected /\ \E w \in S : a[c] = w.results[c]
  <2>1. c \in Calls[r] /\ c # "checkpoints" /\ c \in PromQueries
    BY DEF Collected
  <2>2. PICK w \in S : a[c] \in Answers(w, c)
    BY <2>1 DEF Collected
  <2>3. Answers(w, c) = promQuery(w, w.results[c])
    BY <2>1, OwnQueries DEF Answers
  <2>4. a[c] = w.results[c]
    BY <2>2, <2>3 DEF promQuery
  <2>5. w.results[c] \in Seq(Int) \cup Seq(Alerts)
    BY <2>1 DEF IsWorld, IsResults
  <2> QED BY <2>4, <2>5, ValuesAssumption
<1>2. ~ AnyRejected(a)
  BY <1>1 DEF AnyRejected
<1> QED BY <1>1, <1>2, AllAnswered

(* An alert of a list is among those in its state. *)
LEMMA InItsState ==
  ASSUME NEW alerts, NEW i \in DOMAIN alerts
  PROVE  alerts[i] \in InState(alerts, alerts[i].state)
  BY DEF InState, Range

(* What the panels show. *)
LEMMA OverviewAlerts ==
  OverviewPage(Data).alerts =
    AlertsPanel(Get(Data["alerts"], "firing", {}), Get(Data["alerts"], "pending", {}))
  BY DEF OverviewPage
LEMMA DlqPageAlerts ==
  DLQPage(Data).alerts =
    AlertsPanel({x \in Get(Data["dlq"], "alerts", {}) : x.state = "firing"},
                {x \in Get(Data["dlq"], "alerts", {}) : x.state = "pending"})
  BY DEF DLQPage
LEMMA PanelRows ==
  ASSUME NEW F, NEW P
  PROVE  /\ \A x \in F : AlertRow(x, "firing") \in FiringRows(AlertsPanel(F, P))
         /\ F = {} /\ P = {} <=> AllClear(AlertsPanel(F, P))
<1>1. \A x \in F : AlertRow(x, "firing").variant = "firing"
  BY DEF AlertRow
<1> QED BY <1>1 DEF AlertsPanel, FiringRows, AllClear

(* A world in which an alert fires has Prometheus in order. *)
LEMMA FiresInOrder == \A w, x : Fires(w, x) => w.status["prometheus"] = "ok"
  BY DEF Fires

(* What the DLQ route makes of the alerts of a world in which a DLQ alert fires. *)
LEMMA DlqAlertKept ==
  ASSUME NEW w, NEW x \in {"DLQEventsDetected", "DLQHighRate"}, Fires(w, x)
  PROVE  [name |-> x, state |-> "firing"] \in dlqAlerts(w.results["alerts"])
<1> DEFINE alerts == w.results["alerts"]
<1>1. PICK i \in DOMAIN alerts : alerts[i].labels.alertname = x /\ alerts[i].state = "firing"
  BY DEF Fires
<1> HIDE DEF alerts
<1>2. alerts[i] \in Range(alerts) /\ DlqAlert(alerts[i])
  BY <1>1 DEF Range, DlqAlert
<1>3. [name |-> alerts[i].labels.alertname, state |-> alerts[i].state] \in dlqAlerts(alerts)
  BY <1>2 DEF dlqAlerts
<1> QED BY <1>1, <1>3 DEF alerts

(* On the Overview, an alert that fires throughout has a row. *)
LEMMA OverviewShowsFiring ==
  ASSUME SourceInv, NEW x, cache["alerts"] # Missing, \A w \in Worlds("alerts") : Fires(w, x)
  PROVE  FiringRows(OverviewPage(Data).alerts) # {}
<1> DEFINE S == Worlds("alerts")
           body == Data["alerts"]
<1>1. "alerts" \in Routes
  BY RouteNames
<1>2. PICK a : /\ Collected("alerts", a, S) /\ Complete("alerts", a)
               /\ \E resp \in Responses("alerts", a) : body = resp.body
  BY <1>1, Shown
<1>3. Calls["alerts"] = {"alerts"} /\ "alerts" \in PromQueries
  BY DEF Calls, PromQueries
<1>4. ~ AnyRejected(a) /\ \E w \in S : a["alerts"] = w.results["alerts"]
  <2>1. \A w \in S : IsWorld(w) /\ w.status["prometheus"] = "ok"
    BY <1>1, ShownWorlds, FiresInOrder
  <2> QED BY <1>2, <1>3, <2>1, ResultsOfWorlds
<1>5. PICK w \in S : a["alerts"] = w.results["alerts"]
  BY <1>4
<1>6. PICK resp \in AlertsResponses(a) : body = resp.body
  BY <1>2 DEF Responses
<1> HIDE DEF body
<1>7. PICK i \in DOMAIN w.results["alerts"] : w.results["alerts"][i].state = "firing"
  BY DEF Fires
<1>8. "firing" \in DOMAIN body /\ body.firing = InState(a.alerts, "firing")
  <2>1. a.alerts # Rejected
    BY <1>2, <1>3, <1>4, AllAnswered
  <2>2. a.alerts # <<>>
    BY <1>5, <1>7
  <2> QED BY <1>6, <2>1, <2>2, LiveBody DEF AlertsResponses
<1>9. w.results["alerts"][i] \in Get(body, "firing", {})
  BY <1>5, <1>7, <1>8, InItsState DEF Get
<1> QED BY <1>9, OverviewAlerts, PanelRows DEF body

(* On the DLQ page, so has a DLQ alert, if there are DLQ metrics. *)
LEMMA DlqPageShowsFiring ==
  ASSUME SourceInv, cache["dlq"] # Missing, NEW x \in {"DLQEventsDetected", "DLQHighRate"},
         \A w \in Worlds("dlq") : Fires(w, x),
         IsLive("dlq") \/ \A w \in Worlds("dlq") : w.results["messagesTotal"] # <<>>
  PROVE  \E row \in FiringRows(DLQPage(Data).alerts) : row.name = x
<1> DEFINE S == Worlds("dlq")
           body == Data["dlq"]
<1>1. "dlq" \in Routes
  BY RouteNames
<1>2. PICK a : /\ Collected("dlq", a, S) /\ Complete("dlq", a)
               /\ \E resp \in Responses("dlq", a) :
                    cache["dlq"].demo = resp.demo /\ body = resp.body
  BY <1>1, Shown
<1>3. Calls["dlq"] = {"eventRate", "messagesTotal", "rateRange", "alerts"} /\ Calls["dlq"] \subseteq PromQueries
  BY DEF Calls, PromQueries
<1>4. ~ AnyRejected(a) /\ \A c \in Calls["dlq"] : \E w \in S : a[c] = w.results[c]
  <2>1. \A w \in S : IsWorld(w) /\ w.status["prometheus"] = "ok"
    BY <1>1, ShownWorlds, FiresInOrder
  <2> QED BY <1>2, <1>3, <2>1, ResultsOfWorlds
<1>5. PICK w \in S : a.alerts = w.results["alerts"]
  BY <1>3, <1>4
<1>6. PICK resp \in DlqResponses(a) : resp.demo = cache["dlq"].demo /\ body = resp.body
  BY <1>2 DEF Responses
<1>7. ~ (AnyRejected(a) \/ (a.eventRate = <<>> /\ a.messagesTotal = <<>>))
  <2>1. CASE IsLive("dlq")
    <3>1. ~ cache["dlq"].demo
      BY <2>1 DEF IsLive
    <3> QED BY <1>6, <3>1, DemoBody DEF DlqResponses
  <2>2. CASE \A v \in S : v.results["messagesTotal"] # <<>>
    BY <1>3, <1>4, <2>2
  <2> QED BY <2>1, <2>2
<1> HIDE DEF body
<1>8. "alerts" \in DOMAIN body /\ body.alerts = dlqAlerts(a.alerts)
  BY <1>6, <1>7, LiveBody DEF DlqResponses
<1> DEFINE alert == [name |-> x, state |-> "firing"]
<1>9. alert \in {y \in Get(body, "alerts", {}) : y.state = "firing"}
  <2>1. alert \in dlqAlerts(a.alerts)
    BY <1>5, DlqAlertKept
  <2> QED BY <1>8, <2>1 DEF Get
<1>10. AlertRow(alert, "firing") \in FiringRows(DLQPage(Data).alerts)
  BY <1>9, DlqPageAlerts, PanelRows DEF body
<1>11. AlertRow(alert, "firing").name = x
  BY DEF AlertRow
<1> QED BY <1>10, <1>11

(* An alert that fires during the whole of a request that found Prometheus in *)
(* order is on the page, whatever else the world does (alerts/route.ts:9-16,  *)
(* dlq/route.ts:20-30).                                                       *)
THEOREM DashboardFiring == Spec => []FiringAlertsShown
<1>1. SourceInv => FiringAlertsShown
  BY OverviewShowsFiring, DlqPageShowsFiring DEF FiringAlertsShown
<1> QED BY <1>1, DashboardSourced, PTL

(* A response to the alerts route has an alert, simulated or not. *)
LEMMA OverviewNeverClear ==
  ASSUME SourceInv, cache["alerts"] # Missing
  PROVE  ~ AllClear(OverviewPage(Data).alerts)
<1> DEFINE S == Worlds("alerts")
           body == Data["alerts"]
<1>1. "alerts" \in Routes
  BY RouteNames
<1>2. PICK a : /\ Collected("alerts", a, S) /\ Complete("alerts", a)
               /\ \E resp \in Responses("alerts", a) : body = resp.body
  BY <1>1, Shown
<1>3. PICK resp \in AlertsResponses(a) : body = resp.body
  BY <1>2 DEF Responses
<1>4. \A w \in S : IsWorld(w)
  BY <1>1, ShownWorlds
<1> SUFFICES Get(body, "firing", {}) # {} \/ Get(body, "pending", {}) # {}
  BY OverviewAlerts, PanelRows
<1> HIDE DEF body, S
<1>5. CASE a.alerts = Rejected \/ a.alerts = <<>>
  <2>1. body \in getDemoAlerts
    BY <1>3, <1>5, DemoBody DEF AlertsResponses
  <2> DEFINE alert == [name |-> "P99LatencyElevated", severity |-> "info", state |-> "pending"]
  <2>2. "pending" \in DOMAIN body /\ alert \in body.pending
    BY <2>1 DEF getDemoAlerts
  <2> HIDE DEF alert
  <2> QED BY <2>2 DEF Get
<1>6. CASE ~ (a.alerts = Rejected \/ a.alerts = <<>>)
  <2>1. /\ {"firing", "pending"} \subseteq DOMAIN body
        /\ body.firing = InState(a.alerts, "firing") /\ body.pending = InState(a.alerts, "pending")
    BY <1>3, <1>6, LiveBody DEF AlertsResponses
  <2>2. Calls["alerts"] = {"alerts"} /\ "alerts" \in PromQueries
    BY DEF Calls, PromQueries
  <2>3. ~ AnyRejected(a)
    BY <1>2, <1>6, <2>2 DEF AnyRejected, Collected
  <2>4. PICK w \in S : a["alerts"] = w.results["alerts"]
    BY <1>1, <1>2, <1>6, <2>2, <2>3, Measured
  <2>5. a.alerts \in Seq(Alerts) /\ a.alerts # <<>>
    BY <1>4, <1>6, <2>2, <2>4 DEF IsWorld, IsResults
  <2>6. 1 \in DOMAIN a.alerts /\ a.alerts[1] \in Alerts
    BY <2>5
  <2>7. a.alerts[1].state \in {"firing", "pending"}
    BY <2>6 DEF Alerts
  <2>8. a.alerts[1] \in InState(a.alerts, a.alerts[1].state)
    BY <2>6, InItsState
  <2>9. InState(a.alerts, "firing") # {} \/ InState(a.alerts, "pending") # {}
    BY <2>7, <2>8
  <2>10. /\ Get(body, "firing", {}) = InState(a.alerts, "firing")
         /\ Get(body, "pending", {}) = InState(a.alerts, "pending")
    BY <2>1 DEF Get
  <2> QED BY <2>9, <2>10
<1> QED BY <1>5, <1>6

(* The Overview reports All clear only before its first response, and the DLQ *)
(* page only without a DLQ alert or with simulated data, for any worlds       *)
(* (alerts/route.ts:10, alerts-panel.tsx:120-124).                            *)
THEOREM DashboardAllClear == Spec => []AllClearIsReal
<1>1. ASSUME SourceInv PROVE AllClearIsReal
  <2>1. ASSUME cache["alerts"] = Missing PROVE AllClear(OverviewPage(Data).alerts)
    <3>1. Get(Data["alerts"], "firing", {}) = {} /\ Get(Data["alerts"], "pending", {}) = {}
      BY <2>1, RouteNames, NothingShown
    <3> QED BY <3>1, OverviewAlerts, PanelRows
  <2>2. ASSUME AllClear(DLQPage(Data).alerts), IsLive("dlq"),
               \A w \in Worlds("dlq") : Fires(w, "DLQHighRate")
        PROVE  FALSE
    <3>1. FiringRows(DLQPage(Data).alerts) # {}
      BY <1>1, <2>2, DlqPageShowsFiring DEF IsLive
    <3> QED BY <2>2, <3>1 DEF FiringRows, AllClear
  <2> QED BY <1>1, <2>1, <2>2, OverviewNeverClear DEF AllClearIsReal
<1>2. SourceInv => AllClearIsReal
  BY <1>1
<1> QED BY <1>2, DashboardSourced, PTL
-----------------------------------------------------------------------------
(* Jobs. *)

(* The list of the jobs, as a world has it. *)
LEMMA JobsOfWorld ==
  ASSUME NEW w, IsWorld(w), NEW v \in getJobs(w)
  PROVE  v \in Seq(Jobs) /\ (w.status["flink"] = "ok" => v = w.jobs)
<1>1. <<>> \in Seq(Jobs) /\ w.jobs \in Seq(Jobs)
  BY DEF IsWorld
<1> QED BY <1>1 DEF getJobs

(* What a live response of the Flink route was made of. *)
LEMMA FlinkShown ==
  ASSUME SourceInv, IsLive("flink")
  PROVE  \E a :
    /\ Collected("flink", a, Worlds("flink")) /\ Complete("flink", a) /\ ~ AnyRejected(a) /\ a.overview # Null
    /\ Data["flink"] = [overview |-> a.overview, jobs |-> a.jobs,
                        metrics |-> [g \in JobGauges |-> val(a[g])],
                        checkpoints |-> IF "checkpoints" \in DOMAIN a THEN a.checkpoints ELSE Null,
                        series |-> val(a.durationRange)]
<1>1. "flink" \in Routes /\ cache["flink"] # Missing /\ ~ cache["flink"].demo
  BY RouteNames DEF IsLive
<1>2. PICK a : /\ Collected("flink", a, Worlds("flink")) /\ Complete("flink", a)
               /\ \E resp \in Responses("flink", a) :
                    cache["flink"].demo = resp.demo /\ Data["flink"] = resp.body
  BY <1>1, Shown
<1>3. PICK resp \in FlinkResponses(a) : cache["flink"].demo = resp.demo /\ Data["flink"] = resp.body
  BY <1>2 DEF Responses
<1>4. ~ (AnyRejected(a) \/ a.overview = Null)
  BY <1>1, <1>3, DemoBody DEF FlinkResponses
<1>5. Data["flink"] = [overview |-> a.overview, jobs |-> a.jobs,
                       metrics |-> [g \in JobGauges |-> val(a[g])],
                       checkpoints |-> IF "checkpoints" \in DOMAIN a THEN a.checkpoints ELSE Null,
                       series |-> val(a.durationRange)]
  BY <1>3, <1>4, LiveBody DEF FlinkResponses
<1> QED BY <1>2, <1>4, <1>5

(* The rows of the job table are the jobs, or the word that there are none. *)
LEMMA JobRows ==
  ASSUME NEW jobs \in Seq(Jobs), NEW i \in DOMAIN jobs
  PROVE  DataTable(jobs) = jobs
<1>1. Len(jobs) # 0
  OBVIOUS
<1> QED BY <1>1 DEF DataTable

(* Among the jobs that run there is a first one. *)
LEMMA FirstRunning ==
  ASSUME NEW a, a.jobs \in Seq(Jobs), RunningJobs(a) # {}
  PROVE  \E i \in DOMAIN a.jobs : Running(a.jobs[i]) /\ CheckpointJob(a) = a.jobs[i].id
<1> DEFINE R == RunningJobs(a)
           IsFirst(i) == i \in R /\ \A j \in R : i <= j
           first == CHOOSE i \in R : \A j \in R : i <= j
<1>1. R \subseteq Nat /\ \A i \in R : i \in DOMAIN a.jobs /\ Running(a.jobs[i])
  BY DEF RunningJobs
<1>2. CheckpointJob(a) = a.jobs[first].id
  BY DEF CheckpointJob
<1> HIDE DEF R
<1>3. \E i \in R : \A j \in R : i <= j
  BY <1>1, SmallestNat DEF R
<1>4. first \in R
  BY <1>3
<1> HIDE DEF first
<1> QED BY <1>1, <1>2, <1>4

(* The checkpoints shown are those of a row that says RUNNING. *)
LEMMA CheckpointsOfRow ==
  ASSUME SourceInv, IsLive("flink"), Data["flink"].checkpoints # Null
  PROVE  \E i \in DOMAIN Data["flink"].jobs :
           /\ Running(FlinkPage(Data).jobs[i])
           /\ FlinkPage(Data).jobs[i].id = Data["flink"].checkpoints.job
<1> DEFINE S == Worlds("flink")
           body == Data["flink"]
<1>1. PICK a :
        /\ Collected("flink", a, S) /\ Complete("flink", a) /\ ~ AnyRejected(a) /\ a.overview # Null
        /\ body = [overview |-> a.overview, jobs |-> a.jobs,
                   metrics |-> [g \in JobGauges |-> val(a[g])],
                   checkpoints |-> IF "checkpoints" \in DOMAIN a THEN a.checkpoints ELSE Null,
                   series |-> val(a.durationRange)]
  BY FlinkShown
<1>2. \A w \in S : IsWorld(w)
  BY RouteNames, ShownWorlds
<1>3. "jobs" \in DOMAIN body /\ body.jobs = a.jobs /\ "checkpoints" \in DOMAIN a /\ body.checkpoints = a.checkpoints
      /\ a.checkpoints # Null
  BY <1>1
<1>4. FlinkPage(Data).jobs = DataTable(Get(body, "jobs", <<>>))
  BY DEF FlinkPage
<1> HIDE DEF body
<1>5. a.jobs \in Seq(Jobs)
  <2>1. "jobs" \in DOMAIN a
    BY <1>1, AllAnswered DEF Calls
  <2>2. PICK w \in S : a["jobs"] \in Answers(w, "jobs")
    BY <1>1, <2>1 DEF Collected
  <2>3. Answers(w, "jobs") = getJobs(w)
    BY DEF Answers
  <2> QED BY <1>2, <2>2, <2>3, JobsOfWorld
<1>6. a.checkpoints = [job |-> CheckpointJob(a)] /\ RunningJobs(a) # {}
  <2>1. PICK w \in S : a.checkpoints \in getCheckpointStats(w, CheckpointJob(a))
    BY <1>1, <1>3 DEF Collected
  <2>2. a.checkpoints # Rejected
    BY <1>1, <1>3 DEF AnyRejected
  <2>3. RunningJobs(a) # {}
    BY <1>1, <1>3 DEF Collected, FirstIn
  <2> QED BY <1>3, <2>1, <2>2, <2>3 DEF getCheckpointStats
<1>7. PICK i \in DOMAIN a.jobs : Running(a.jobs[i]) /\ CheckpointJob(a) = a.jobs[i].id
  BY <1>5, <1>6, FirstRunning
<1>8. FlinkPage(Data).jobs = a.jobs
  <2>1. Get(body, "jobs", <<>>) = a.jobs
    BY <1>3 DEF Get
  <2> QED BY <1>4, <1>5, <1>7, <2>1, JobRows
<1>9. body.checkpoints.job = CheckpointJob(a)
  BY <1>3, <1>6
<1> QED BY <1>3, <1>7, <1>8, <1>9 DEF body

(* The rows that say RUNNING, and the jobs that Flink knows. *)
RunningRows ==
  {FlinkPage(Data).jobs[i] : i \in {j \in DOMAIN Data["flink"].jobs : Running(FlinkPage(Data).jobs[j])}}
Listed(w, id) == \E i \in DOMAIN w.jobs : w.jobs[i].id = id

(* Checkpoints are shown if a row says RUNNING and Flink keeps listing its job. *)
LEMMA CheckpointsShown ==
  ASSUME SourceInv, IsLive("flink"), RunningRows # {},
         \A w \in Worlds("flink") : w.status["flink"] = "ok" /\ \A row \in RunningRows : Listed(w, row.id)
  PROVE  Data["flink"].checkpoints # Null
<1> DEFINE S == Worlds("flink")
           body == Data["flink"]
<1>1. PICK a :
        /\ Collected("flink", a, S) /\ Complete("flink", a) /\ ~ AnyRejected(a) /\ a.overview # Null
        /\ body = [overview |-> a.overview, jobs |-> a.jobs,
                   metrics |-> [g \in JobGauges |-> val(a[g])],
                   checkpoints |-> IF "checkpoints" \in DOMAIN a THEN a.checkpoints ELSE Null,
                   series |-> val(a.durationRange)]
  BY FlinkShown
<1>2. \A w \in S : IsWorld(w)
  BY RouteNames, ShownWorlds
<1>3. /\ "jobs" \in DOMAIN body /\ body.jobs = a.jobs
      /\ body.checkpoints = IF "checkpoints" \in DOMAIN a THEN a.checkpoints ELSE Null
  BY <1>1
<1>4. FlinkPage(Data).jobs = DataTable(Get(body, "jobs", <<>>))
  BY DEF FlinkPage
<1>5. PICK k \in DOMAIN body.jobs : Running(FlinkPage(Data).jobs[k])
  BY DEF RunningRows
<1> HIDE DEF body
<1>6. a.jobs \in Seq(Jobs)
  <2>1. "jobs" \in DOMAIN a
    BY <1>1, AllAnswered DEF Calls
  <2>2. PICK w \in S : a["jobs"] \in Answers(w, "jobs")
    BY <1>1, <2>1 DEF Collected
  <2>3. Answers(w, "jobs") = getJobs(w)
    BY DEF Answers
  <2> QED BY <1>2, <2>2, <2>3, JobsOfWorld
<1>7. FlinkPage(Data).jobs = a.jobs
  <2>1. Get(body, "jobs", <<>>) = a.jobs
    BY <1>3 DEF Get
  <2> QED BY <1>3, <1>4, <1>5, <1>6, <2>1, JobRows
<1>8. RunningJobs(a) # {}
  BY <1>3, <1>5, <1>7 DEF RunningJobs
<1>9. "checkpoints" \in DOMAIN a
  BY <1>1, <1>8 DEF Complete, AsksCheckpoints
<1>10. PICK i \in DOMAIN a.jobs : Running(a.jobs[i]) /\ CheckpointJob(a) = a.jobs[i].id
  BY <1>6, <1>8, FirstRunning
<1>11. a.jobs[i] \in RunningRows
  BY <1>3, <1>7, <1>10 DEF RunningRows, body
<1>12. PICK w \in S : a.checkpoints \in getCheckpointStats(w, CheckpointJob(a))
  BY <1>1, <1>9 DEF Collected
<1>13. w.status["flink"] = "ok" /\ Listed(w, CheckpointJob(a))
  BY <1>10, <1>11
<1>14. a.checkpoints = [job |-> CheckpointJob(a)]
  BY <1>12, <1>13 DEF getCheckpointStats, Listed
<1>15. CheckpointJob(a) \in STRING
  <2>1. a.jobs[i] \in Jobs
    BY <1>6, <1>10
  <2> QED BY <1>10, <2>1 DEF Jobs
<1>16. a.checkpoints # Null
  BY <1>14, <1>15, ValuesAssumption
<1> QED BY <1>3, <1>9, <1>16 DEF body

(* Checkpoints shown are those of a row that says RUNNING, and some are shown *)
(* if there is such a row, unless Flink failed or forgot the job meanwhile,   *)
(* for any lists of jobs and changes (flink/route.ts:14-33).                  *)
THEOREM DashboardJobs == Spec => []CheckpointsOfRunningJob
<1>1. ASSUME SourceInv PROVE CheckpointsOfRunningJob
  <2> SUFFICES ASSUME IsLive("flink")
               PROVE  /\ Data["flink"].checkpoints # Null =>
                           \E row \in RunningRows : row.id = Data["flink"].checkpoints.job
                      /\ (/\ RunningRows # {}
                          /\ \A w \in Worlds("flink") :
                               w.status["flink"] = "ok" /\ \A row \in RunningRows : Listed(w, row.id)) =>
                           Data["flink"].checkpoints # Null
    BY DEF CheckpointsOfRunningJob, RunningRows, Listed
  <2>1. Data["flink"].checkpoints # Null =>
          \E row \in RunningRows : row.id = Data["flink"].checkpoints.job
    BY <1>1, CheckpointsOfRow DEF RunningRows
  <2> QED BY <1>1, <2>1, CheckpointsShown
<1>2. SourceInv => CheckpointsOfRunningJob
  BY <1>1
<1> QED BY <1>2, DashboardSourced, PTL

-----------------------------------------------------------------------------
(* Totals. *)

(* The answers to the queries for the totals, as a table has them. *)
LEMMA RowsOfWorld ==
  ASSUME NEW w, NEW v, v # Rejected
  PROVE  /\ v \in Answers(w, "topUsers") => v \in topUsersRows(w.table)
         /\ v \in Answers(w, "volumeOverTime") =>
              v = [x \in LatestWindows(w.table) |-> SumOrders(w.table, OfWindow(w.table, x))]
<1>1. /\ Answers(w, "topUsers") = pgQuery(w, topUsersRows(w.table))
      /\ Answers(w, "volumeOverTime") = pgQuery(w, volumeRows(w.table))
  BY DEF Answers
<1>2. \A rows : v \in pgQuery(w, rows) => v \in rows
  BY DEF pgQuery
<1> QED BY <1>1, <1>2 DEF volumeRows

(* Each order total of the Analytics page is that of the table at some moment *)
(* of the request, for tables of any size, unless a limit cut the rows        *)
(* (analytics/orders/route.ts:17-39).                                         *)
THEOREM DashboardTotals == Spec => []TotalsOfTheTable
<1>1. ASSUME SourceInv PROVE TotalsOfTheTable
  <2> DEFINE S == Worlds("analytics")
             body == Data["analytics"]
  <2> SUFFICES ASSUME IsLive("analytics"),
                      \A w \in S : /\ Cardinality({k[1] : k \in DOMAIN w.table}) <= TopUsers
                                    /\ Cardinality({k[2] : k \in DOMAIN w.table}) <= Windows
               PROVE  /\ \E w \in S : AnalyticsPage(Data).totalOrders.value = OrdersIn(w)
                      /\ \E w \in S : SumOf(AnalyticsPage(Data).volume) = OrdersIn(w)
    BY DEF TotalsOfTheTable
  <2>1. "analytics" \in Routes /\ cache["analytics"] # Missing /\ ~ cache["analytics"].demo
    BY RouteNames DEF IsLive
  <2>2. PICK a : /\ Collected("analytics", a, S) /\ Complete("analytics", a)
                 /\ \E resp \in Responses("analytics", a) :
                      cache["analytics"].demo = resp.demo /\ body = resp.body
    BY <1>1, <2>1, Shown
  <2>3. PICK resp \in AnalyticsResponses(a) : cache["analytics"].demo = resp.demo /\ body = resp.body
    BY <2>2 DEF Responses
  <2>4. ~ (AnyRejected(a) \/ a.topUsers = {})
    BY <2>1, <2>3, DemoBody DEF AnalyticsResponses
  <2>5. /\ AnalyticsPage(Data).totalOrders = MetricCard(TotalOrders(Get(body, "topUsers", {})), "normal")
        /\ AnalyticsPage(Data).volume = Get(body, "volumeOverTime", <<>>)
    BY DEF AnalyticsPage
  <2>6. \A w \in S : /\ IsTable(w.table) /\ Cardinality(UsersOf(w.table)) <= TopUsers
                      /\ Cardinality(StartsOf(w.table)) <= Windows
    BY <1>1, <2>1, ShownWorlds DEF IsWorld, UsersOf, StartsOf
  <2> HIDE DEF body
  <2>7. body = [topUsers |-> a.topUsers, revenueOverTime |-> a.revenueOverTime,
                volumeOverTime |-> a.volumeOverTime]
    BY <2>3, <2>4, LiveBody DEF AnalyticsResponses
  <2>8. {"topUsers", "volumeOverTime"} \subseteq DOMAIN a /\ a.topUsers # Rejected /\ a.volumeOverTime # Rejected
    BY <2>2, <2>4, AllAnswered DEF Calls
  <2>9. Get(body, "topUsers", {}) = a.topUsers /\ Get(body, "volumeOverTime", <<>>) = a.volumeOverTime
    BY <2>7 DEF Get
  <2>10. \E w \in S : AnalyticsPage(Data).totalOrders.value = OrdersIn(w)
    <3>1. PICK w \in S : a["topUsers"] \in Answers(w, "topUsers")
      BY <2>2, <2>8 DEF Collected
    <3>2. a.topUsers \in topUsersRows(w.table)
      BY <2>8, <3>1, RowsOfWorld
    <3>3. SumOf([r \in a.topUsers |-> r.orderCount]) = OrdersIn(w)
      BY <2>6, <3>2, TotalOfTopUsers DEF OrdersIn
    <3>4. AnalyticsPage(Data).totalOrders.value = TotalOrders(a.topUsers)
      BY <2>5, <2>9 DEF MetricCard
    <3> QED BY <3>3, <3>4 DEF TotalOrders
  <2>11. \E w \in S : SumOf(AnalyticsPage(Data).volume) = OrdersIn(w)
    <3>1. PICK w \in S : a["volumeOverTime"] \in Answers(w, "volumeOverTime")
      BY <2>2, <2>8 DEF Collected
    <3>2. a.volumeOverTime = [x \in LatestWindows(w.table) |-> SumOrders(w.table, OfWindow(w.table, x))]
      BY <2>8, <3>1, RowsOfWorld
    <3>3. SumOf(a.volumeOverTime) = OrdersIn(w)
      BY <2>6, <3>2, TotalOfWindows DEF OrdersIn
    <3> QED BY <2>5, <2>9, <3>3
  <2> QED BY <2>10, <2>11
<1>2. SourceInv => TotalsOfTheTable
  BY <1>1
<1> QED BY <1>2, DashboardSourced, PTL

-----------------------------------------------------------------------------
(* One look at the world. *)

(* The answers to a request that is answered all at once, and then also to    *)
(* its second await.                                                          *)
The(w, c) == CHOOSE a \in Answers(w, c) : TRUE
FirstAnswers(w, r, top) == [c \in Calls[r] |-> IF c = "topUsers" THEN top ELSE The(w, c)]
Tops(w, r) == IF r = "analytics" THEN Answers(w, "topUsers") ELSE {Null}
AllAnswers(w, r, a) ==
  IF r = "flink" /\ AsksCheckpoints(a)
  THEN [c \in DOMAIN a \cup {"checkpoints"} |->
          IF c = "checkpoints" THEN CHOOSE x \in getCheckpointStats(w, CheckpointJob(a)) : TRUE ELSE a[c]]
  ELSE a

LEMMA AtOnceHas ==
  ASSUME NEW w, NEW r, NEW top \in Tops(w, r)
  PROVE  Responses(r, AllAnswers(w, r, FirstAnswers(w, r, top))) \subseteq AtOnce(w, r)
<1>1. AtOnce(w, r) = UNION {Responses(r, AllAnswers(w, r, a)) : a \in {FirstAnswers(w, r, x) : x \in Tops(w, r)}}
  BY DEF AtOnce, AllAnswers, FirstAnswers, Tops, The
<1> QED BY <1>1

(* Only the top users have more than one answer, in one world. *)
LEMMA OneAnswer ==
  ASSUME NEW w, NEW c, c # "topUsers"
  PROVE  \E v : Answers(w, c) = {v}
<1>1. \A results : \E v : promQuery(w, results) = {v}
  BY DEF promQuery
<1>2. \A v : \E u : pgQuery(w, {v}) = {u}
  BY DEF pgQuery
<1>3. (\E v : revenueRows(w.table) = {v}) /\ (\E v : volumeRows(w.table) = {v})
  BY DEF revenueRows, volumeRows
<1>4. (\E v : pgQuery(w, revenueRows(w.table)) = {v}) /\ (\E v : pgQuery(w, volumeRows(w.table)) = {v})
  BY <1>2, <1>3
<1>5. (\E v : promHealth(w) = {v}) /\ (\E v : flinkHealth(w) = {v}) /\ (\E v : pgHealth(w) = {v})
  BY DEF promHealth, flinkHealth, pgHealth
<1>6. \E v : getOverview(w) = {v}
  BY DEF getOverview
<1>7. \E v : getJobs(w) = {v}
  BY DEF getJobs
<1>8. /\ Answers(w, "prometheus") = promHealth(w) /\ Answers(w, "flink") = flinkHealth(w)
      /\ Answers(w, "postgres") = pgHealth(w)
      /\ Answers(w, "overview") = getOverview(w) /\ Answers(w, "jobs") = getJobs(w)
      /\ Answers(w, "revenueOverTime") = pgQuery(w, revenueRows(w.table))
      /\ Answers(w, "volumeOverTime") = pgQuery(w, volumeRows(w.table))
  BY DEF Answers
<1>9. CASE c \in {"prometheus", "flink", "postgres", "overview", "jobs", "revenueOverTime", "volumeOverTime"}
  BY <1>4, <1>5, <1>6, <1>7, <1>8, <1>9
<1>10. CASE c \notin {"prometheus", "flink", "postgres", "overview", "jobs", "revenueOverTime", "volumeOverTime"}
  <2>1. Answers(w, c) = promQuery(w, w.results[c])
    BY <1>10 DEF Answers
  <2> QED BY <1>1, <2>1
<1> QED BY <1>9, <1>10
LEMMA OneCheckpointAnswer ==
  ASSUME NEW w, NEW id
  PROVE  \E v : getCheckpointStats(w, id) = {v}
  BY DEF getCheckpointStats

(* There are top users to answer with, or the query is rejected. *)
LEMMA TopsExist ==
  ASSUME NEW w, IsWorld(w), NEW r
  PROVE  Tops(w, r) # {}
<1>1. topUsersRows(w.table) # {}
  BY TopUsersExist DEF IsWorld
<1>2. Answers(w, "topUsers") = pgQuery(w, topUsersRows(w.table))
  BY DEF Answers
<1> QED BY <1>1, <1>2 DEF pgQuery, Tops

(* The route that asks for the top users. *)
LEMMA TopUsersAsked ==
  ASSUME NEW r \in Routes, "topUsers" \in Calls[r]
  PROVE  r = "analytics"
<1>1. "topUsers" \notin Backends /\ "topUsers" \notin AllGauges /\ "topUsers" \notin AllRanges
      /\ "topUsers" \notin AllJobGauges
  BY DEF Backends, AllGauges, AllRanges, AllJobGauges
<1> QED BY <1>1, ApiAssumption, RouteNames DEF Calls

(* Once a call was rejected, a route responds alike whatever the others were. *)
LEMMA RejectedAlike ==
  ASSUME NEW r \in Routes, NEW a, NEW b, DOMAIN a \subseteq Calls[r], Calls[r] \subseteq DOMAIN b,
         \A c \in DOMAIN a : a[c] = b[c], AnyRejected(a), r # "health"
  PROVE  Responses(r, a) = Responses(r, b)
<1>1. PICK c \in DOMAIN a : a[c] = Rejected
  BY DEF AnyRejected
<1>2. AnyRejected(b)
  BY <1>1 DEF AnyRejected
<1>3. CASE r = "alerts"
  <2>1. c = "alerts" /\ a.alerts = Rejected /\ b.alerts = Rejected
    BY <1>1, <1>3 DEF Calls
  <2> QED BY <1>3, <2>1 DEF Responses, AlertsResponses
<1>4. CASE r = "kafka"
  BY <1>2, <1>4 DEF Responses, KafkaResponses
<1>5. CASE r = "dlq"
  BY <1>2, <1>5 DEF Responses, DlqResponses
<1>6. CASE r = "flink"
  BY <1>2, <1>6 DEF Responses, FlinkResponses
<1>7. CASE r = "analytics"
  BY <1>2, <1>7 DEF Responses, AnalyticsResponses
<1> QED BY <1>3, <1>4, <1>5, <1>6, <1>7, RouteNames

(* A response has two parts. *)
LEMMA TwoParts ==
  ASSUME NEW r \in Routes, NEW a, NEW resp \in Responses(r, a)
  PROVE  resp = [demo |-> resp.demo, body |-> resp.body]
<1>1. \A bodies : \A x \in Demo(bodies) : x = [demo |-> x.demo, body |-> x.body]
  BY DEF Demo
<1>2. \A b : \A x \in Live(b) : x = [demo |-> x.demo, body |-> x.body]
  BY DEF Live
<1>3. (\E bodies : resp \in Demo(bodies)) \/ (\E b : resp \in Live(b))
  <2>1. CASE r = "health"
    BY <2>1 DEF Responses, HealthResponses
  <2>2. CASE r = "alerts"
    BY <2>2 DEF Responses, AlertsResponses
  <2>3. CASE r = "kafka"
    BY <2>3 DEF Responses, KafkaResponses
  <2>4. CASE r = "dlq"
    BY <2>4 DEF Responses, DlqResponses
  <2>5. CASE r = "flink"
    BY <2>5 DEF Responses, FlinkResponses
  <2>6. CASE r = "analytics"
    BY <2>6 DEF Responses, AnalyticsResponses
  <2> QED BY <2>1, <2>2, <2>3, <2>4, <2>5, <2>6, RouteNames
<1> QED BY <1>1, <1>2, <1>3

(* What was collected while the world stood still is what one look gives. *)
LEMMA CollectedAtOnce ==
  ASSUME NEW r \in Routes, NEW w, IsWorld(w), NEW a, Tabulated(a), Collected(r, a, {w}), Complete(r, a)
  PROVE  Responses(r, a) \subseteq AtOnce(w, r)
<1>1. PICK top \in Tops(w, r) : r = "analytics" /\ "topUsers" \in DOMAIN a => top = a["topUsers"]
  <2>1. CASE r = "analytics" /\ "topUsers" \in DOMAIN a
    <3>1. a["topUsers"] \in Answers(w, "topUsers")
      BY <2>1 DEF Collected
    <3> QED BY <2>1, <3>1 DEF Tops
  <2>2. CASE ~ (r = "analytics" /\ "topUsers" \in DOMAIN a)
    BY <2>2, TopsExist
  <2> QED BY <2>1, <2>2
<1> DEFINE f == FirstAnswers(w, r, top)
<1>2. DOMAIN f = Calls[r] /\ \A c \in Calls[r] : f[c] = IF c = "topUsers" THEN top ELSE The(w, c)
  BY DEF FirstAnswers
<1>3. Tabulated(f)
  BY DEF FirstAnswers, Tabulated
<1> HIDE DEF f
<1>4. ASSUME NEW c \in DOMAIN a, c # "checkpoints" PROVE c \in Calls[r] /\ f[c] = a[c]
  <2>1. c \in Calls[r] /\ a[c] \in Answers(w, c)
    BY <1>4 DEF Collected
  <2>2. CASE c = "topUsers"
    BY <1>1, <1>2, <2>1, <2>2, TopUsersAsked
  <2>3. CASE c # "topUsers"
    <3>1. The(w, c) = a[c]
      BY <2>1, <2>3, OneAnswer DEF The
    <3> QED BY <1>2, <2>1, <2>3, <3>1
  <2> QED BY <2>2, <2>3
<1>5. Responses(r, AllAnswers(w, r, f)) \subseteq AtOnce(w, r)
  BY <1>1, AtOnceHas DEF f
<1>6. CASE "checkpoints" \in DOMAIN a
  <2>1. r = "flink" /\ FirstIn(a) /\ a.checkpoints \in getCheckpointStats(w, CheckpointJob(a))
    BY <1>6 DEF Collected
  <2>2. \A c \in Calls[r] : f[c] = a[c] /\ c \in DOMAIN a /\ c # "checkpoints"
    BY <1>4, <2>1, CheckpointsAreExtra DEF FirstIn
  <2>3. f.jobs = a.jobs /\ f.overview = a.overview
    BY <2>1, <2>2 DEF Calls
  <2>4. RunningJobs(f) = RunningJobs(a) /\ CheckpointJob(f) = CheckpointJob(a)
    BY <2>3, SameJobs
  <2>5. AsksCheckpoints(f)
    BY <1>2, <2>1, <2>2, <2>3, <2>4 DEF AsksCheckpoints, AnyRejected, FirstIn
  <2> DEFINE all == AllAnswers(w, r, f)
  <2>6. all = [c \in DOMAIN f \cup {"checkpoints"} |->
                 IF c = "checkpoints" THEN CHOOSE x \in getCheckpointStats(w, CheckpointJob(f)) : TRUE
                 ELSE f[c]]
    BY <2>1, <2>5 DEF AllAnswers
  <2> HIDE DEF all
  <2>7. DOMAIN a = DOMAIN f \cup {"checkpoints"}
    BY <1>2, <1>4, <1>6, <2>2
  <2>8. \A c \in DOMAIN a : all[c] = a[c]
    <3>1. (CHOOSE x \in getCheckpointStats(w, CheckpointJob(f)) : TRUE) = a.checkpoints
      BY <2>1, <2>4, OneCheckpointAnswer
    <3>2. all["checkpoints"] = a.checkpoints
      BY <2>6, <3>1
    <3>3. ASSUME NEW c \in DOMAIN a, c # "checkpoints" PROVE all[c] = a[c]
      BY <1>4, <2>6, <2>7, <3>3
    <3> QED BY <3>2, <3>3
  <2>9. all = a
    <3>1. all = [c \in DOMAIN a |-> a[c]]
      BY <2>6, <2>7, <2>8
    <3> QED BY <3>1 DEF Tabulated
  <2> QED BY <1>5, <2>9 DEF all
<1>7. CASE "checkpoints" \notin DOMAIN a /\ AnyRejected(a)
  <2>1. DOMAIN a \subseteq Calls[r] /\ \A c \in DOMAIN a : a[c] = f[c]
    BY <1>4, <1>7
  <2>2. r # "health"
    <3> SUFFICES ASSUME r = "health" PROVE FALSE
      OBVIOUS
    <3>1. Calls[r] = Backends
      BY DEF Calls
    <3>2. \A b \in Backends : a[b] \in BOOLEAN
      BY Probes
    <3> QED BY <1>7, <2>1, <3>1, <3>2, ValuesAssumption DEF AnyRejected
  <2>3. Responses(r, a) = Responses(r, f)
    BY <1>2, <1>7, <2>1, <2>2, RejectedAlike
  <2>4. AllAnswers(w, r, f) = f
    <3>1. AnyRejected(f)
      BY <1>2, <1>7, <2>1 DEF AnyRejected
    <3> QED BY <3>1 DEF AllAnswers, AsksCheckpoints
  <2> QED BY <1>5, <2>3, <2>4
<1>8. CASE "checkpoints" \notin DOMAIN a /\ ~ AnyRejected(a)
  <2>1. DOMAIN a = Calls[r]
    BY <1>4, <1>8, AllAnswered
  <2>2. a = f
    <3>1. [c \in Calls[r] |-> a[c]] = [c \in Calls[r] |-> f[c]]
      BY <1>4, <1>8, <2>1
    <3> QED BY <1>2, <1>3, <2>1, <3>1 DEF Tabulated
  <2>3. AllAnswers(w, r, f) = f
    BY <1>8, <2>2 DEF AllAnswers, Complete
  <2> QED BY <1>5, <2>2, <2>3
<1> QED BY <1>6, <1>7, <1>8

(* A response to a request during which the world stood still is one that a   *)
(* single look at the world would have given, in whatever order its calls     *)
(* were answered and wherever it stopped (flink/route.ts:14-33,               *)
(* analytics/orders/route.ts:17-60).                                          *)
THEOREM DashboardSnapshot == Spec => []StillWorldIsSnapshot
<1>1. ASSUME SourceInv PROVE StillWorldIsSnapshot
  <2> SUFFICES ASSUME NEW r \in Routes, cache[r] # Missing, Cardinality(Worlds(r)) = 1, NEW w \in Worlds(r)
               PROVE  [demo |-> cache[r].demo, body |-> cache[r].body] \in AtOnce(w, r)
    BY DEF StillWorldIsSnapshot
  <2>1. IsFiniteSet(Worlds(r)) /\ IsWorld(w)
    BY <1>1, ShownWorlds
  <2>2. Worlds(r) = {w}
    BY <2>1, FS_Singleton
  <2>3. PICK a : /\ Tabulated(a) /\ Collected(r, a, Worlds(r)) /\ Complete(r, a)
                 /\ \E resp \in Responses(r, a) : cache[r].demo = resp.demo /\ Data[r] = resp.body
    BY <1>1, Shown
  <2>4. PICK resp \in Responses(r, a) : cache[r].demo = resp.demo /\ cache[r].body = resp.body
    BY <2>3 DEF Data
  <2>5. resp = [demo |-> cache[r].demo, body |-> cache[r].body]
    BY <2>4, TwoParts
  <2>6. Responses(r, a) \subseteq AtOnce(w, r)
    BY <2>1, <2>2, <2>3, CollectedAtOnce
  <2> QED BY <2>4, <2>5, <2>6
<1>2. SourceInv => StillWorldIsSnapshot
  BY <1>1
<1> QED BY <1>2, DashboardSourced, PTL
=============================================================================
