------------------------- MODULE DashboardApi_proofs -------------------------
(***************************************************************************)
(* What the queries of the analytics route return, for every table: sums   *)
(* that do not depend on the order of summation, that agree however the    *)
(* rows are grouped, and a LIMIT that always has a choice of rows.         *)
(*                                                                         *)
(* The proofs by induction over a finite set take a smallest               *)
(* counterexample, which exists because the subsets of a finite set are    *)
(* well-founded under inclusion.                                           *)
(***************************************************************************)
EXTENDS DashboardApi, FiniteSetTheorems, WellFoundedInduction, TLAPS

(* Among the subsets of a finite set that are bad one is smallest.            *)
LEMMA SmallestSubset ==
  ASSUME NEW S, IsFiniteSet(S), NEW Bad \in SUBSET (SUBSET S), Bad # {}
  PROVE  \E T \in Bad : \A U \in Bad : U \subseteq T => U = T
<1> DEFINE R == StrictSubsetOrdering(S)
<1>1. IsWellFoundedOn(R, SUBSET S)
  BY FS_StrictSubsetOrderingWellFounded, FS_FiniteSubsetsOfFinite
<1>2. Bad \subseteq SUBSET S
  OBVIOUS
<1> HIDE DEF R
<1>3. PICK T \in Bad : \A U \in Bad : ~ (<<U, T>> \in R)
  BY <1>1, <1>2, WFMin
<1>4. \A U \in Bad : U \subseteq T => U = T
  BY <1>2, <1>3 DEF R, StrictSubsetOrdering
<1> QED BY <1>3, <1>4

-----------------------------------------------------------------------------
(* SumOf computes its sum by recursion over the subsets of the domain, taking *)
(* away one element at a time.                                                *)
AnyOf(x) == CHOOSE y \in x : TRUE
IsPartial(f, D, g) ==
  g = [x \in SUBSET D |-> IF x = {} THEN 0 ELSE f[AnyOf(x)] + g[x \ {AnyOf(x)}]]
PartialSums(f) == CHOOSE g : IsPartial(f, DOMAIN f, g)

LEMMA AnyOfMember == \A x : x # {} => AnyOf(x) \in x
  BY DEF AnyOf

LEMMA SumIsPartial == ASSUME NEW f PROVE SumOf(f) = PartialSums(f)[DOMAIN f]
  BY DEF SumOf, MapThenSumSet, MapThenFoldSet, PartialSums, IsPartial, AnyOf

(* One step of the recursion. *)
LEMMA PartialStep ==
  ASSUME NEW f, NEW D, NEW g, IsPartial(f, D, g), NEW x \in SUBSET D
  PROVE  g[x] = IF x = {} THEN 0 ELSE f[AnyOf(x)] + g[x \ {AnyOf(x)}]
  BY Zenon DEF IsPartial

(* Two recursions agree where both are defined. *)
LEMMA PartialUnique ==
  ASSUME NEW f, NEW D, IsFiniteSet(D), NEW E, NEW g, NEW h,
         IsPartial(f, D, g), IsPartial(f, E, h), NEW x \in SUBSET D, x \in SUBSET E
  PROVE  g[x] = h[x]
<1> DEFINE Bad == {T \in SUBSET x : g[T] # h[T]}
<1> SUFFICES ASSUME Bad # {} PROVE FALSE
  OBVIOUS
<1>1. IsFiniteSet(x) /\ Bad \in SUBSET (SUBSET x)
  BY FS_Subset
<1>2. PICK T \in Bad : \A U \in Bad : U \subseteq T => U = T
  <2> HIDE DEF Bad
  <2> QED BY <1>1, SmallestSubset
<1>3. T \in SUBSET D /\ T \in SUBSET E
  OBVIOUS
<1>4. T # {}
  BY <1>3, PartialStep
<1>5. AnyOf(T) \in T /\ T \ {AnyOf(T)} # T
  BY <1>4, AnyOfMember
<1>6. T \ {AnyOf(T)} \notin Bad
  BY <1>2, <1>5
<1>7. g[T \ {AnyOf(T)}] = h[T \ {AnyOf(T)}]
  BY <1>6
<1>8. g[T] = f[AnyOf(T)] + g[T \ {AnyOf(T)}] /\ h[T] = f[AnyOf(T)] + h[T \ {AnyOf(T)}]
  BY <1>3, <1>4, PartialStep
<1> QED BY <1>2, <1>7, <1>8

(* The recursion is defined on every finite domain. *)
LEMMA PartialExists ==
  ASSUME NEW f, NEW D, IsFiniteSet(D)
  PROVE  \E g : IsPartial(f, D, g)
<1> DEFINE Bad == {T \in SUBSET D : \A g : ~ IsPartial(f, T, g)}
<1> SUFFICES ASSUME Bad # {} PROVE FALSE
  <2>1. ASSUME Bad = {} PROVE \E g : IsPartial(f, D, g)
    <3>1. D \notin Bad /\ D \in SUBSET D
      BY <2>1
    <3> QED BY <3>1
  <2> QED BY <2>1
<1>1. PICK T \in Bad : \A U \in Bad : U \subseteq T => U = T
  <2>1. Bad \in SUBSET (SUBSET D)
    OBVIOUS
  <2> HIDE DEF Bad
  <2> QED BY <2>1, SmallestSubset
<1> DEFINE G(U) == CHOOSE g : IsPartial(f, U, g)
           Value(x) == IF x = {} THEN 0 ELSE f[AnyOf(x)] + G(x \ {AnyOf(x)})[x \ {AnyOf(x)}]
           g == [x \in SUBSET T |-> Value(x)]
<1>2. ASSUME NEW U \in SUBSET T, U # T PROVE IsPartial(f, U, G(U))
  <2>1. U \notin Bad
    BY <1>1, <1>2
  <2>2. \E h : IsPartial(f, U, h)
    BY <2>1
  <2> QED BY <2>2, Zenon
<1> HIDE DEF G
<1>3. ASSUME NEW x \in SUBSET T, x # {} PROVE g[x \ {AnyOf(x)}] = G(x \ {AnyOf(x)})[x \ {AnyOf(x)}]
  <2> DEFINE y == x \ {AnyOf(x)}
  <2>1. AnyOf(x) \in x
    BY <1>3, AnyOfMember
  <2>2. y \in SUBSET T /\ y # T
    BY <2>1
  <2>3. IsPartial(f, y, G(y))
    BY <1>2, <2>2
  <2> HIDE DEF y
  <2>4. g[y] = Value(y)
    BY <2>2
  <2>5. G(y)[y] = IF y = {} THEN 0 ELSE f[AnyOf(y)] + G(y)[y \ {AnyOf(y)}]
    BY <2>3, PartialStep
  <2>6. ASSUME y = {} PROVE g[y] = G(y)[y]
    BY <2>4, <2>5, <2>6
  <2>7. ASSUME y # {} PROVE g[y] = G(y)[y]
    <3> DEFINE z == y \ {AnyOf(y)}
    <3>1. AnyOf(y) \in y
      BY <2>7, AnyOfMember
    <3>2. z \in SUBSET T /\ z # T /\ z \in SUBSET y
      BY <2>2, <3>1
    <3>3. IsPartial(f, z, G(z))
      BY <1>2, <3>2
    <3>4. IsFiniteSet(z)
      BY <3>2, <2>2, FS_Subset
    <3>5. G(z)[z] = G(y)[z]
      BY <2>3, <3>2, <3>3, <3>4, PartialUnique
    <3>6. G(y)[y] = f[AnyOf(y)] + G(y)[z]
      BY <2>5, <2>7
    <3>7. g[y] = f[AnyOf(y)] + G(z)[z]
      BY <2>4, <2>7
    <3> QED BY <3>5, <3>6, <3>7
  <2>8. g[y] = G(y)[y]
    BY <2>6, <2>7
  <2> QED BY <2>8 DEF y
<1>4. ASSUME NEW x \in SUBSET T
      PROVE  g[x] = IF x = {} THEN 0 ELSE f[AnyOf(x)] + g[x \ {AnyOf(x)}]
  BY <1>3
<1>5. g = [x \in SUBSET T |-> g[x]]
  OBVIOUS
<1> HIDE DEF g
<1>6. IsPartial(f, T, g)
  BY <1>4, <1>5 DEF IsPartial
<1> QED BY <1>1, <1>6

-----------------------------------------------------------------------------
(* The sum of f over a part of its domain.                                    *)
Summable(f) == IsFiniteSet(DOMAIN f) /\ \A x \in DOMAIN f : f[x] \in Int
SumOver(f, x) == PartialSums(f)[x]

(* The sum of nothing is 0; the sum of something is taken element by element. *)
LEMMA OverStep ==
  ASSUME NEW f, Summable(f)
  PROVE  /\ SumOver(f, {}) = 0
         /\ \A x \in SUBSET DOMAIN f :
              x # {} => AnyOf(x) \in x /\ SumOver(f, x) = f[AnyOf(x)] + SumOver(f, x \ {AnyOf(x)})
<1> DEFINE D == DOMAIN f
           g == PartialSums(f)
<1>1. \E h : IsPartial(f, D, h)
  BY PartialExists DEF Summable
<1>2. IsPartial(f, D, g)
  BY <1>1, Zenon DEF PartialSums
<1> HIDE DEF g
<1>3. ASSUME NEW x \in SUBSET D
      PROVE  g[x] = IF x = {} THEN 0 ELSE f[AnyOf(x)] + g[x \ {AnyOf(x)}]
  <2> HIDE DEF D
  <2> QED BY <1>2, PartialStep
<1>4. \A x : SumOver(f, x) = g[x]
  BY DEF SumOver, g
<1> QED BY <1>3, <1>4, AnyOfMember

(* Sums are integers. *)
LEMMA OverInt ==
  ASSUME NEW f, Summable(f), NEW x \in SUBSET DOMAIN f
  PROVE  SumOver(f, x) \in Int
<1> DEFINE Bad == {T \in SUBSET x : SumOver(f, T) \notin Int}
<1> SUFFICES ASSUME Bad # {} PROVE FALSE
  OBVIOUS
<1>1. IsFiniteSet(x) /\ Bad \in SUBSET (SUBSET x)
  BY FS_Subset DEF Summable
<1>2. PICK T \in Bad : \A U \in Bad : U \subseteq T => U = T
  <2> HIDE DEF Bad
  <2> QED BY <1>1, SmallestSubset
<1>3. T \in SUBSET DOMAIN f /\ T # {}
  <2>1. SumOver(f, {}) \in Int
    BY OverStep
  <2> QED BY <2>1
<1>4. AnyOf(T) \in T /\ SumOver(f, T) = f[AnyOf(T)] + SumOver(f, T \ {AnyOf(T)})
  BY <1>3, OverStep
<1>5. SumOver(f, T \ {AnyOf(T)}) \in Int
  BY <1>2, <1>4
<1>6. f[AnyOf(T)] \in Int
  BY <1>3, <1>4 DEF Summable
<1> QED BY <1>4, <1>5, <1>6

(* The element taken away first does not matter. *)
LEMMA OverAny ==
  ASSUME NEW f, Summable(f), NEW x \in SUBSET DOMAIN f, NEW y \in x
  PROVE  SumOver(f, x) = f[y] + SumOver(f, x \ {y})
<1> DEFINE Bad == {T \in SUBSET x : \E z \in T : SumOver(f, T) # f[z] + SumOver(f, T \ {z})}
<1> SUFFICES ASSUME Bad # {} PROVE FALSE
  OBVIOUS
<1>1. IsFiniteSet(x) /\ Bad \in SUBSET (SUBSET x)
  BY FS_Subset DEF Summable
<1>2. PICK T \in Bad : \A U \in Bad : U \subseteq T => U = T
  <2> HIDE DEF Bad
  <2> QED BY <1>1, SmallestSubset
<1>3. PICK z \in T : SumOver(f, T) # f[z] + SumOver(f, T \ {z})
  OBVIOUS
<1> DEFINE c == AnyOf(T)
<1>4. T \in SUBSET DOMAIN f /\ T # {}
  OBVIOUS
<1>5. c \in T /\ SumOver(f, T) = f[c] + SumOver(f, T \ {c})
  BY <1>4, OverStep
<1>6. c # z
  BY <1>3, <1>5
<1> HIDE DEF c
<1>7. SumOver(f, T \ {c}) = f[z] + SumOver(f, (T \ {c}) \ {z})
  <2>1. T \ {c} \notin Bad
    BY <1>2, <1>5
  <2> QED BY <2>1, <1>6
<1>8. SumOver(f, T \ {z}) = f[c] + SumOver(f, (T \ {z}) \ {c})
  <2>1. T \ {z} \notin Bad
    BY <1>2
  <2> QED BY <2>1, <1>5, <1>6
<1>9. (T \ {c}) \ {z} = (T \ {z}) \ {c}
  OBVIOUS
<1> HIDE DEF Bad
<1> DEFINE rest == SumOver(f, (T \ {z}) \ {c})
<1>10. f[c] \in Int /\ f[z] \in Int /\ rest \in Int
  <2>1. (T \ {z}) \ {c} \in SUBSET DOMAIN f
    BY <1>4
  <2> QED BY <1>4, <1>5, <2>1, OverInt DEF Summable
<1>11. SumOver(f, T) = f[c] + (f[z] + rest)
  BY <1>5, <1>7, <1>9
<1>12. SumOver(f, T \ {z}) = f[c] + rest
  BY <1>8
<1> HIDE DEF rest
<1>13. f[c] + (f[z] + rest) = f[z] + (f[c] + rest)
  BY <1>10
<1> QED BY <1>3, <1>11, <1>12, <1>13

(* Equal values have equal sums. *)
LEMMA OverAgree ==
  ASSUME NEW f, Summable(f), NEW g, Summable(g), NEW x \in SUBSET DOMAIN f,
         x \in SUBSET DOMAIN g, \A y \in x : f[y] = g[y]
  PROVE  SumOver(f, x) = SumOver(g, x)
<1> DEFINE Bad == {T \in SUBSET x : SumOver(f, T) # SumOver(g, T)}
<1> SUFFICES ASSUME Bad # {} PROVE FALSE
  OBVIOUS
<1>1. IsFiniteSet(x) /\ Bad \in SUBSET (SUBSET x)
  BY FS_Subset DEF Summable
<1>2. PICK T \in Bad : \A U \in Bad : U \subseteq T => U = T
  <2> HIDE DEF Bad
  <2> QED BY <1>1, SmallestSubset
<1>3. T # {}
  BY OverStep
<1>4. PICK y \in T : TRUE
  BY <1>3
<1>5. SumOver(f, T) = f[y] + SumOver(f, T \ {y})
  BY OverAny
<1>6. SumOver(g, T) = g[y] + SumOver(g, T \ {y})
  BY OverAny
<1>7. SumOver(f, T \ {y}) = SumOver(g, T \ {y})
  BY <1>2
<1> QED BY <1>5, <1>6, <1>7

(* The sum of a function restricted to a part of its domain is the sum over   *)
(* that part.                                                                 *)
LEMMA SumRestricted ==
  ASSUME NEW f, Summable(f), NEW x \in SUBSET DOMAIN f
  PROVE  SumOf([k \in x |-> f[k]]) = SumOver(f, x)
<1> DEFINE g == [k \in x |-> f[k]]
<1>1. DOMAIN g = x /\ \A k \in x : g[k] = f[k]
  OBVIOUS
<1>2. IsFiniteSet(x)
  BY FS_Subset DEF Summable
<1> HIDE DEF g
<1>3. Summable(g)
  BY <1>1, <1>2 DEF Summable
<1>4. SumOf(g) = SumOver(g, x)
  BY <1>1, SumIsPartial DEF SumOver
<1>5. SumOver(g, x) = SumOver(f, x)
  BY <1>1, <1>3, OverAgree
<1> QED BY <1>4, <1>5 DEF g

(* Nothing but zeros. *)
LEMMA OverZeros ==
  ASSUME NEW f, Summable(f), NEW x \in SUBSET DOMAIN f, \A y \in x : f[y] = 0
  PROVE  SumOver(f, x) = 0
<1> DEFINE Bad == {T \in SUBSET x : SumOver(f, T) # 0}
<1> SUFFICES ASSUME Bad # {} PROVE FALSE
  OBVIOUS
<1>1. IsFiniteSet(x) /\ Bad \in SUBSET (SUBSET x)
  BY FS_Subset DEF Summable
<1>2. PICK T \in Bad : \A U \in Bad : U \subseteq T => U = T
  <2> HIDE DEF Bad
  <2> QED BY <1>1, SmallestSubset
<1>3. T \in SUBSET DOMAIN f /\ T # {}
  BY OverStep
<1>4. AnyOf(T) \in T /\ SumOver(f, T) = f[AnyOf(T)] + SumOver(f, T \ {AnyOf(T)})
  BY <1>3, OverStep
<1>5. SumOver(f, T \ {AnyOf(T)}) = 0
  BY <1>2, <1>4
<1> QED BY <1>4, <1>5

(* Grouping the elements, by any function h of them, leaves the sum as it is. *)
LEMMA SumByGroup ==
  ASSUME NEW f, Summable(f), NEW V, IsFiniteSet(V), NEW h,
         \A k \in DOMAIN f : h[k] \in V
  PROVE  SumOf([v \in V |-> SumOver(f, {k \in DOMAIN f : h[k] = v})]) = SumOver(f, DOMAIN f)
<1> DEFINE Group(T, v) == {k \in T : h[k] = v}
           Totals(T) == [v \in V |-> SumOver(f, Group(T, v))]
           D == DOMAIN f
           Bad == {T \in SUBSET D : SumOver(Totals(T), V) # SumOver(f, T)}
<1>0. ASSUME NEW T \in SUBSET D PROVE Summable(Totals(T)) /\ DOMAIN Totals(T) = V
  <2>1. \A v \in V : Group(T, v) \in SUBSET DOMAIN f
    OBVIOUS
  <2>2. \A v \in V : SumOver(f, Group(T, v)) \in Int
    BY <2>1, OverInt
  <2> QED BY <2>2 DEF Summable
<1>1. Bad = {}
  <2> SUFFICES ASSUME Bad # {} PROVE FALSE
    OBVIOUS
  <2>1. IsFiniteSet(D) /\ Bad \in SUBSET (SUBSET D)
    BY DEF Summable
  <2>2. PICK T \in Bad : \A U \in Bad : U \subseteq T => U = T
    <3> HIDE DEF Bad, D
    <3> QED BY <2>1, SmallestSubset
  <2>3. T \in SUBSET D /\ SumOver(Totals(T), V) # SumOver(f, T)
    OBVIOUS
  <2>4. ASSUME T = {} PROVE FALSE
    <3>1. \A v \in V : Totals(T)[v] = 0
      <4>1. \A v \in V : Group(T, v) = {}
        BY <2>4
      <4> QED BY <4>1, OverStep
    <3>2. SumOver(Totals(T), V) = 0
      <4> HIDE DEF Totals
      <4> QED BY <1>0, <2>3, <3>1, OverZeros
    <3> QED BY <2>3, <2>4, <3>2, OverStep
  <2>5. PICK y \in T : TRUE
    BY <2>4
  <2> DEFINE U == T \ {y}
             v == h[y]
  <2>6. v \in V /\ U \in SUBSET D /\ U \notin Bad
    BY <2>2, <2>3
  <2>7. SumOver(Totals(U), V) = SumOver(f, U)
    BY <2>6
  <2>8. SumOver(f, T) = f[y] + SumOver(f, U)
    BY <2>3, OverAny
  <2>9. Totals(T)[v] = f[y] + Totals(U)[v]
    <3>1. y \in Group(T, v) /\ Group(T, v) \ {y} = Group(U, v) /\ Group(T, v) \in SUBSET DOMAIN f
      BY <2>3
    <3>2. SumOver(f, Group(T, v)) = f[y] + SumOver(f, Group(U, v))
      <4> HIDE DEF Group, Totals, U, v, D, Bad
      <4> QED BY <3>1, OverAny
    <3> QED BY <3>2, <2>6
  <2>10. \A w \in V \ {v} : Totals(T)[w] = Totals(U)[w]
    <3>1. \A w \in V \ {v} : Group(T, w) = Group(U, w)
      OBVIOUS
    <3> QED BY <3>1
  <2>11. /\ Summable(Totals(T)) /\ DOMAIN Totals(T) = V
         /\ Summable(Totals(U)) /\ DOMAIN Totals(U) = V
    BY <1>0, <2>3, <2>6
  <2> HIDE DEF Totals, U, v, D, Bad, Group
  <2>12. SumOver(Totals(T), V) = Totals(T)[v] + SumOver(Totals(T), V \ {v})
    BY <2>6, <2>11, OverAny
  <2>13. SumOver(Totals(U), V) = Totals(U)[v] + SumOver(Totals(U), V \ {v})
    BY <2>6, <2>11, OverAny
  <2>14. SumOver(Totals(T), V \ {v}) = SumOver(Totals(U), V \ {v})
    BY <2>10, <2>11, OverAgree
  <2>15. /\ Totals(U)[v] \in Int /\ SumOver(Totals(U), V \ {v}) \in Int /\ f[y] \in Int
    BY <2>3, <2>6, <2>11, OverInt DEF Summable, D
  <2> QED BY <2>3, <2>7, <2>8, <2>9, <2>12, <2>13, <2>14, <2>15
<1>2. SumOver(Totals(D), V) = SumOver(f, D)
  BY <1>1
<1>3. SumOf(Totals(D)) = SumOver(Totals(D), V)
  <2>1. DOMAIN Totals(D) = V
    OBVIOUS
  <2> HIDE DEF Totals
  <2> QED BY <2>1, SumIsPartial DEF SumOver
<1> QED BY <1>2, <1>3

-----------------------------------------------------------------------------
(* A function takes no more values on a finite set than the set has elements. *)
LEMMA ImageFinite ==
  ASSUME NEW S, IsFiniteSet(S), NEW f
  PROVE  /\ IsFiniteSet({f[x] : x \in S})
         /\ Cardinality({f[x] : x \in S}) <= Cardinality(S)
<1> DEFINE T == {f[x] : x \in S}
           g == [x \in S |-> f[x]]
<1>1. g \in Surjection(S, T)
  BY DEF Surjection
<1> HIDE DEF g, T
<1> QED BY <1>1, FS_Surjection DEF T

(* Two elements of the set are two. *)
LEMMA MinOfTwo ==
  ASSUME NEW m \in Int, NEW n \in Int
  PROVE  Min({m, n}) \in {m, n} /\ Min({m, n}) <= m /\ Min({m, n}) <= n
<1>1. \E x \in {m, n} : \A y \in {m, n} : x <= y
  <2>1. CASE m <= n
    BY <2>1
  <2>2. CASE n <= m
    BY <2>2
  <2> QED BY <2>1, <2>2
<1> QED BY <1>1 DEF Min

(* Among finitely many rows one has the highest total. *)
LEMMA HighestRow ==
  ASSUME NEW Q, IsFiniteSet(Q), Q # {}, \A q \in Q : q.totalAmount \in Int
  PROVE  \E m \in Q : \A q \in Q : m.totalAmount >= q.totalAmount
<1> DEFINE Above(m) == {q \in Q : q.totalAmount > m.totalAmount}
           Bad == {T \in SUBSET Q : \E m \in Q : T = Above(m)}
<1>1. Bad \in SUBSET (SUBSET Q) /\ Bad # {}
  OBVIOUS
<1>2. PICK T \in Bad : \A U \in Bad : U \subseteq T => U = T
  <2> HIDE DEF Bad
  <2> QED BY <1>1, SmallestSubset
<1>3. PICK m \in Q : T = Above(m)
  OBVIOUS
<1>4. ASSUME NEW n \in Above(m) PROVE FALSE
  <2>1. n \in Q /\ n.totalAmount > m.totalAmount
    OBVIOUS
  <2>2. Above(n) \in Bad
    BY <2>1
  <2>3. Above(n) \subseteq T
    BY <1>3, <2>1
  <2>4. n \notin Above(n)
    BY <2>1
  <2> HIDE DEF Bad
  <2> QED BY <1>2, <1>3, <2>2, <2>3, <2>4
<1> QED BY <1>4

(* The query for the top users has an answer whatever the totals are: LIMIT   *)
(* leaves a choice among equal totals and never an empty one.                 *)
LEMMA TopOfExists ==
  ASSUME NEW rows, IsFiniteSet(rows), \A r \in rows : r.totalAmount \in Int
  PROVE  TopOf(rows) # {}
<1> DEFINE N == Min({TopUsers, Cardinality(rows)})
           Top(T) == \A r \in rows \ T, q \in T : r.totalAmount >= q.totalAmount
           Good == {T \in SUBSET rows : Cardinality(rows \ T) <= N /\ Top(T)}
<1>1. TopUsers \in Nat /\ Cardinality(rows) \in Nat
  BY ApiAssumption, FS_CardinalityType
<1>2. N \in Nat /\ N <= Cardinality(rows)
  <2>1. TopUsers \in Int /\ Cardinality(rows) \in Int
    BY <1>1
  <2>2. N \in {TopUsers, Cardinality(rows)} /\ N <= Cardinality(rows)
    <3> HIDE DEF Top, Good
    <3> QED BY <2>1, MinOfTwo
  <2> QED BY <1>1, <2>2
<1> HIDE DEF N
<1>3. rows \in Good
  <2>1. rows \ rows = {}
    OBVIOUS
  <2>2. Cardinality(rows \ rows) <= N
    BY <1>2, <2>1, FS_EmptySet
  <2> QED BY <2>1, <2>2
<1>4. Good \in SUBSET (SUBSET rows)
  OBVIOUS
<1>5. PICK T \in Good : \A U \in Good : U \subseteq T => U = T
  <2> HIDE DEF Good
  <2> QED BY <1>3, <1>4, SmallestSubset
<1> DEFINE S == rows \ T
<1>6. T \in SUBSET rows /\ Top(T) /\ Cardinality(S) <= N
  OBVIOUS
<1>7. IsFiniteSet(S) /\ Cardinality(S) \in Nat /\ IsFiniteSet(T)
  BY <1>6, FS_Subset, FS_CardinalityType
<1>8. Cardinality(S) = N
  <2> SUFFICES ASSUME Cardinality(S) < N PROVE FALSE
    BY <1>2, <1>6, <1>7
  <2>1. T # {}
    <3> SUFFICES ASSUME T = {} PROVE FALSE
      OBVIOUS
    <3>1. S = rows
      OBVIOUS
    <3> HIDE DEF S
    <3> QED BY <1>1, <1>2, <3>1
  <2>2. PICK m \in T : \A q \in T : m.totalAmount >= q.totalAmount
    BY <1>6, <1>7, <2>1, HighestRow
  <2> DEFINE U == T \ {m}
  <2>3. rows \ U = S \cup {m} /\ m \notin S
    BY <1>6
  <2>4. Cardinality(rows \ U) <= N
    <3> HIDE DEF S, U, Good, Top
    <3>1. Cardinality(S \cup {m}) = Cardinality(S) + 1
      BY <1>7, <2>3, FS_AddElement
    <3> QED BY <1>2, <1>7, <2>3, <3>1
  <2>5. Top(U)
    <3> SUFFICES ASSUME NEW r \in rows \ U, NEW q \in U PROVE r.totalAmount >= q.totalAmount
      OBVIOUS
    <3>1. r \in S \/ r = m
      BY <2>3
    <3> QED BY <1>6, <2>2, <3>1
  <2>6. U \in Good /\ U \subseteq T /\ U # T
    BY <1>6, <2>4, <2>5
  <2> HIDE DEF Good, U
  <2> QED BY <1>5, <2>6
<1>9. S \in SUBSET rows /\ \A r \in S, q \in rows \ S : r.totalAmount >= q.totalAmount
  <2>1. rows \ S = T
    BY <1>6
  <2> QED BY <1>6, <2>1
<1> QED BY <1>8, <1>9 DEF TopOf, N

-----------------------------------------------------------------------------
(* The columns of the table, and what SUM makes of some of their rows.        *)
Counts(t) == [k \in DOMAIN t |-> t[k].count]
Amounts(t) == [k \in DOMAIN t |-> t[k].amount]

LEMMA ColumnsSummable ==
  ASSUME NEW t, IsTable(t)
  PROVE  /\ Summable(Counts(t)) /\ DOMAIN Counts(t) = DOMAIN t
         /\ Summable(Amounts(t)) /\ DOMAIN Amounts(t) = DOMAIN t
  BY DEF IsTable, Summable, Counts, Amounts

LEMMA SumIsOver ==
  ASSUME NEW t, IsTable(t), NEW keys \in SUBSET DOMAIN t
  PROVE  /\ SumOrders(t, keys) = SumOver(Counts(t), keys) /\ SumOrders(t, keys) \in Int
         /\ SumAmount(t, keys) = SumOver(Amounts(t), keys) /\ SumAmount(t, keys) \in Int
<1>1. [k \in keys |-> t[k].count] = [k \in keys |-> Counts(t)[k]]
  BY DEF Counts
<1>2. [k \in keys |-> t[k].amount] = [k \in keys |-> Amounts(t)[k]]
  BY DEF Amounts
<1>3. SumOf([k \in keys |-> Counts(t)[k]]) = SumOver(Counts(t), keys)
  BY ColumnsSummable, SumRestricted
<1>4. SumOf([k \in keys |-> Amounts(t)[k]]) = SumOver(Amounts(t), keys)
  BY ColumnsSummable, SumRestricted
<1>5. SumOver(Counts(t), keys) \in Int /\ SumOver(Amounts(t), keys) \in Int
  BY ColumnsSummable, OverInt
<1> QED BY <1>1, <1>2, <1>3, <1>4, <1>5 DEF SumOrders, SumAmount

(* GROUP BY leaves the sum over the whole table as it is, whichever column it *)
(* groups by.                                                                 *)
UsersOf(t) == {k[1] : k \in DOMAIN t}
StartsOf(t) == {k[2] : k \in DOMAIN t}

LEMMA KeysFinite ==
  ASSUME NEW t, IsTable(t)
  PROVE  IsFiniteSet(UsersOf(t)) /\ IsFiniteSet(StartsOf(t)) /\ StartsOf(t) \in SUBSET Int
<1> DEFINE first == [k \in DOMAIN t |-> k[1]]
           second == [k \in DOMAIN t |-> k[2]]
<1>1. UsersOf(t) = {first[k] : k \in DOMAIN t} /\ StartsOf(t) = {second[k] : k \in DOMAIN t}
  BY DEF UsersOf, StartsOf
<1>2. IsFiniteSet(DOMAIN t)
  BY DEF IsTable
<1> HIDE DEF first, second
<1>3. IsFiniteSet(UsersOf(t)) /\ IsFiniteSet(StartsOf(t))
  BY <1>1, <1>2, ImageFinite
<1>4. StartsOf(t) \in SUBSET Int
  BY DEF StartsOf, IsTable
<1> QED BY <1>3, <1>4

LEMMA GroupedSums ==
  ASSUME NEW t, IsTable(t)
  PROVE  /\ SumOf([u \in UsersOf(t) |-> SumOrders(t, OfUser(t, u))]) = SumOver(Counts(t), DOMAIN t)
         /\ SumOf([x \in StartsOf(t) |-> SumOrders(t, OfWindow(t, x))]) = SumOver(Counts(t), DOMAIN t)
<1> DEFINE f == Counts(t)
           first == [k \in DOMAIN t |-> k[1]]
           second == [k \in DOMAIN t |-> k[2]]
<1>1. Summable(f) /\ DOMAIN f = DOMAIN t
  BY ColumnsSummable
<1> HIDE DEF f
<1>2. \A u : {k \in DOMAIN f : first[k] = u} = OfUser(t, u)
  BY <1>1 DEF OfUser
<1>3. \A x : {k \in DOMAIN f : second[k] = x} = OfWindow(t, x)
  BY <1>1 DEF OfWindow
<1>4. /\ \A k \in DOMAIN f : first[k] \in UsersOf(t)
      /\ \A k \in DOMAIN f : second[k] \in StartsOf(t)
  BY <1>1 DEF UsersOf, StartsOf
<1>5. /\ \A u : OfUser(t, u) \in SUBSET DOMAIN t
      /\ \A x : OfWindow(t, x) \in SUBSET DOMAIN t
  BY DEF OfUser, OfWindow
<1> HIDE DEF first, second
<1>6. SumOf([u \in UsersOf(t) |-> SumOver(f, {k \in DOMAIN f : first[k] = u})]) = SumOver(f, DOMAIN f)
  BY <1>1, <1>4, KeysFinite, SumByGroup
<1>7. SumOf([x \in StartsOf(t) |-> SumOver(f, {k \in DOMAIN f : second[k] = x})]) = SumOver(f, DOMAIN f)
  BY <1>1, <1>4, KeysFinite, SumByGroup
<1>8. \A u : SumOver(f, {k \in DOMAIN f : first[k] = u}) = SumOrders(t, OfUser(t, u))
  BY <1>2, <1>5, SumIsOver DEF f
<1>9. \A x : SumOver(f, {k \in DOMAIN f : second[k] = x}) = SumOrders(t, OfWindow(t, x))
  BY <1>3, <1>5, SumIsOver DEF f
<1>10. [u \in UsersOf(t) |-> SumOver(f, {k \in DOMAIN f : first[k] = u})]
         = [u \in UsersOf(t) |-> SumOrders(t, OfUser(t, u))]
  BY <1>8
<1>11. [x \in StartsOf(t) |-> SumOver(f, {k \in DOMAIN f : second[k] = x})]
         = [x \in StartsOf(t) |-> SumOrders(t, OfWindow(t, x))]
  BY <1>9
<1> QED BY <1>1, <1>6, <1>7, <1>10, <1>11 DEF f

(* The row of a user in the answer to the query for the top users.            *)
UserRow(t, u) ==
  [userId |-> u, orderCount |-> SumOrders(t, OfUser(t, u)), totalAmount |-> SumAmount(t, OfUser(t, u))]

LEMMA UserRows ==
  ASSUME NEW t, IsTable(t)
  PROVE  /\ UserTotals(t) = {UserRow(t, u) : u \in UsersOf(t)}
         /\ IsFiniteSet(UserTotals(t)) /\ Cardinality(UserTotals(t)) <= Cardinality(UsersOf(t))
         /\ \A r \in UserTotals(t) : r.orderCount \in Int /\ r.totalAmount \in Int
<1> DEFINE row == [u \in UsersOf(t) |-> UserRow(t, u)]
<1>1. UserTotals(t) = {UserRow(t, u) : u \in UsersOf(t)}
  BY DEF UserTotals, UserRow, UsersOf
<1>2. UserTotals(t) = {row[u] : u \in UsersOf(t)}
  BY <1>1
<1> HIDE DEF row
<1>3. IsFiniteSet(UserTotals(t)) /\ Cardinality(UserTotals(t)) <= Cardinality(UsersOf(t))
  BY <1>2, KeysFinite, ImageFinite
<1>4. ASSUME NEW u \in UsersOf(t)
      PROVE  UserRow(t, u).orderCount \in Int /\ UserRow(t, u).totalAmount \in Int
  <2>1. OfUser(t, u) \in SUBSET DOMAIN t
    BY DEF OfUser
  <2> QED BY <2>1, SumIsOver DEF UserRow
<1> QED BY <1>1, <1>3, <1>4

(* The top users are never unanswered. *)
LEMMA TopUsersExist ==
  ASSUME NEW t, IsTable(t)
  PROVE  topUsersRows(t) # {}
  BY UserRows, TopOfExists DEF topUsersRows

(* With no more users than the limit the totals of all users are answered.    *)
LEMMA AllUsersAnswered ==
  ASSUME NEW t, IsTable(t), Cardinality(UsersOf(t)) <= TopUsers,
         NEW S \in topUsersRows(t)
  PROVE  S = UserTotals(t)
<1> DEFINE R == UserTotals(t)
<1>1. IsFiniteSet(R) /\ Cardinality(R) <= Cardinality(UsersOf(t))
  BY UserRows
<1>2. Cardinality(R) \in Nat /\ Cardinality(UsersOf(t)) \in Nat /\ TopUsers \in Nat
  BY <1>1, KeysFinite, FS_CardinalityType, ApiAssumption
<1>3. S \in SUBSET R /\ Cardinality(S) = Min({TopUsers, Cardinality(R)})
  BY DEF topUsersRows, TopOf
<1> HIDE DEF R
<1>4. /\ Min({TopUsers, Cardinality(R)}) \in {TopUsers, Cardinality(R)}
      /\ Min({TopUsers, Cardinality(R)}) <= Cardinality(R)
  <2>1. TopUsers \in Int /\ Cardinality(R) \in Int
    BY <1>2
  <2> QED BY <2>1, MinOfTwo
<1>5. Cardinality(S) = Cardinality(R)
  BY <1>1, <1>2, <1>3, <1>4
<1> QED BY <1>1, <1>3, <1>5, FS_Subset DEF R

(* With no more windows than the limit all of them are answered. *)
LEMMA AllWindowsAnswered ==
  ASSUME NEW t, IsTable(t), Cardinality(StartsOf(t)) <= Windows
  PROVE  LatestWindows(t) = StartsOf(t)
<1> DEFINE W == StartsOf(t)
<1>1. IsFiniteSet(W) /\ W \in SUBSET Int /\ Cardinality(W) \in Nat /\ Windows \in Nat
  BY KeysFinite, FS_CardinalityType, ApiAssumption
<1>2. Cardinality(W) <= Windows
  OBVIOUS
<1>3. LatestWindows(t) = {x \in W : Cardinality({y \in W : y > x}) < Windows}
  BY DEF LatestWindows, StartsOf
<1> HIDE DEF W
<1>4. ASSUME NEW x \in W PROVE Cardinality({y \in W : y > x}) < Windows
  <2> DEFINE Later == {y \in W : y > x}
  <2>1. Later \in SUBSET (W \ {x})
    BY <1>1
  <2>2. IsFiniteSet(W \ {x}) /\ Cardinality(W \ {x}) = Cardinality(W) - 1
    BY <1>1, FS_RemoveElement
  <2> HIDE DEF Later
  <2>3. Cardinality(Later) <= Cardinality(W \ {x}) /\ Cardinality(Later) \in Nat
    BY <2>1, <2>2, FS_Subset, FS_CardinalityType
  <2>4. Cardinality(Later) < Windows
    BY <1>1, <1>2, <2>2, <2>3
  <2> QED BY <2>4 DEF Later
<1> QED BY <1>3, <1>4 DEF W

(* The order total of the users is that of the table.                         *)
LEMMA TotalOfTopUsers ==
  ASSUME NEW t, IsTable(t), Cardinality(UsersOf(t)) <= TopUsers, NEW S \in topUsersRows(t)
  PROVE  SumOf([r \in S |-> r.orderCount]) = SumOrders(t, DOMAIN t)
<1> DEFINE R == UserTotals(t)
           U == UsersOf(t)
           g == [r \in R |-> r.orderCount]
           who == [r \in R |-> r.userId]
           mine(u) == {r \in DOMAIN g : who[r] = u}
<1>1. S = R
  BY AllUsersAnswered
<1>2. R = {UserRow(t, u) : u \in U} /\ IsFiniteSet(R) /\ IsFiniteSet(U)
      /\ \A r \in R : r.orderCount \in Int
  BY UserRows, KeysFinite
<1>3. Summable(g) /\ DOMAIN g = R
  BY <1>2 DEF Summable
<1>4. \A u \in U : /\ UserRow(t, u) \in R /\ who[UserRow(t, u)] = u
                   /\ g[UserRow(t, u)] = SumOrders(t, OfUser(t, u))
  <2> HIDE DEF R
  <2>1. \A u \in U : UserRow(t, u) \in R
    BY <1>2
  <2> QED BY <2>1 DEF UserRow
<1>5. \A u \in U : mine(u) = {UserRow(t, u)}
  <2> SUFFICES ASSUME NEW u \in U, NEW r \in R, who[r] = u PROVE r = UserRow(t, u)
    BY <1>3, <1>4
  <2>1. PICK v \in U : r = UserRow(t, v)
    BY <1>2
  <2> QED BY <1>4, <2>1
<1>6. \A r \in DOMAIN g : who[r] \in U
  BY <1>2, <1>3, <1>4
<1> HIDE DEF R, U, g, who
<1>7. SumOf([u \in U |-> SumOver(g, mine(u))]) = SumOver(g, DOMAIN g)
  BY <1>2, <1>3, <1>6, SumByGroup
<1>8. ASSUME NEW u \in U PROVE SumOver(g, mine(u)) = SumOrders(t, OfUser(t, u))
  <2> DEFINE row == UserRow(t, u)
  <2>1. row \in R /\ g[row] = SumOrders(t, OfUser(t, u)) /\ mine(u) = {row}
    BY <1>4, <1>5
  <2> HIDE DEF row, mine
  <2>2. SumOver(g, {row}) = g[row] + SumOver(g, {row} \ {row})
    BY <1>3, <2>1, OverAny
  <2>3. SumOver(g, {row} \ {row}) = 0
    <3>1. {row} \ {row} = {}
      OBVIOUS
    <3> QED BY <1>3, <3>1, OverStep
  <2>4. g[row] \in Int
    BY <1>3, <2>1 DEF Summable
  <2> QED BY <2>1, <2>2, <2>3, <2>4
<1>9. [u \in U |-> SumOver(g, mine(u))] = [u \in U |-> SumOrders(t, OfUser(t, u))]
  BY <1>8
<1>10. SumOf(g) = SumOver(g, DOMAIN g)
  BY SumIsPartial DEF SumOver
<1>11. SumOf(g) = SumOf([u \in UsersOf(t) |-> SumOrders(t, OfUser(t, u))])
  BY <1>7, <1>9, <1>10 DEF U
<1>12. SumOrders(t, DOMAIN t) = SumOver(Counts(t), DOMAIN t)
  BY SumIsOver
<1> QED BY <1>1, <1>11, <1>12, GroupedSums DEF g, R

(* So is that of the windows.                                                 *)
LEMMA TotalOfWindows ==
  ASSUME NEW t, IsTable(t), Cardinality(StartsOf(t)) <= Windows
  PROVE  SumOf([x \in LatestWindows(t) |-> SumOrders(t, OfWindow(t, x))]) = SumOrders(t, DOMAIN t)
<1>1. LatestWindows(t) = StartsOf(t)
  BY AllWindowsAnswered
<1>2. SumOrders(t, DOMAIN t) = SumOver(Counts(t), DOMAIN t)
  BY SumIsOver
<1> QED BY <1>1, <1>2, GroupedSums
=============================================================================
