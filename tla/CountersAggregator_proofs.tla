------------------------ MODULE CountersAggregator_proofs -----------------------
(***************************************************************************)
(* Proofs about CountersAggregator, for every number of servers, keys and  *)
(* counter rows: types, the conservation of what was counted, and that     *)
(* GetCounter misses nothing of a counter that only grows.                 *)
(***************************************************************************)
EXTENDS CountersAggregator, FiniteSetTheorems, WellFoundedInduction, TLAPS

--------------------------------------------------------------------------------
(* Induction over the subsets of a finite set, with the property as a set      *)

LEMMA SubsetInduction ==
  ASSUME NEW S, IsFiniteSet(S), NEW P,
         \A T \in SUBSET S : (\A U \in SUBSET T : U # T => U \in P) => T \in P
  PROVE  SUBSET S \subseteq P
<1> DEFINE Bad == (SUBSET S) \ P
<1> DEFINE R == StrictSubsetOrdering(S)
<1> DEFINE D == FiniteSubsetsOf(S)
<1> SUFFICES ASSUME Bad # {}
             PROVE  FALSE
  OBVIOUS
<1>1. IsWellFoundedOn(R, D)
  BY FS_StrictSubsetOrderingWellFounded
<1>2. Bad \subseteq D
  BY FS_Subset DEF FiniteSubsetsOf
<1>3. \E T \in Bad : \A U \in Bad : ~(<<U, T>> \in R)
  <2>1. Bad # {}
    OBVIOUS
  <2> HIDE DEF Bad, R, D
  <2> QED
    BY <1>1, <1>2, <2>1, WFMin
<1>4. PICK T \in Bad : \A U \in Bad : ~(<<U, T>> \in R)
  BY <1>3
<1>5. \A U \in SUBSET T : U # T => U \in P
  BY <1>4 DEF StrictSubsetOrdering
<1> QED
  BY <1>4, <1>5

--------------------------------------------------------------------------------
(* Sums                                                                        *)

Some(S) == CHOOSE x \in S : TRUE

\* The recursion that SumFunctionOnSet is defined by.
SumsUp(f, g, S) ==
  g = [T \in SUBSET S |-> IF T = {} THEN 0 ELSE f[Some(T)] + g[T \ {Some(T)}]]

LEMMA SumIsFold ==
  ASSUME NEW f, NEW S
  PROVE  SumFunctionOnSet(f, S) = (CHOOSE g : SumsUp(f, g, S))[S]
BY DEF SumFunctionOnSet, FoldFunctionOnSet, MapThenFoldSet, SumsUp, Some

\* A function on subsets that sums up is the only one, and sums up on smaller sets.
LEMMA SumsAgree ==
  ASSUME NEW f, NEW S, IsFiniteSet(S), NEW T \in SUBSET S,
         NEW g, SumsUp(f, g, S), NEW h, SumsUp(f, h, T)
  PROVE  \A U \in SUBSET T : g[U] = h[U]
<1> DEFINE P == {U \in SUBSET T : g[U] = h[U]}
<1>1. ASSUME NEW U \in SUBSET T, \A V \in SUBSET U : V # U => V \in P
      PROVE  U \in P
  <2>1. CASE U = {}
    BY <2>1 DEF SumsUp
  <2>2. CASE U # {}
    <3>1. Some(U) \in U
      BY <2>2 DEF Some
    <3> DEFINE V == U \ {Some(U)}
    <3>2. g[V] = h[V]
      BY <1>1, <3>1
    <3>3. g[U] = f[Some(U)] + g[V] /\ h[U] = f[Some(U)] + h[V]
      BY <2>2 DEF SumsUp
    <3> QED
      BY <3>2, <3>3
  <2> QED
    BY <2>1, <2>2
<1>2. IsFiniteSet(T)
  BY FS_Subset
<1>3. SUBSET T \subseteq P
  <2> HIDE DEF P
  <2> QED
    BY <1>1, <1>2, SubsetInduction
<1> QED
  BY <1>3

\* Such a function exists: the definition is well founded.
LEMMA SumsExist ==
  ASSUME NEW f, NEW S, IsFiniteSet(S)
  PROVE  \E g : SumsUp(f, g, S)
<1> DEFINE P == {T \in SUBSET S : \E g : SumsUp(f, g, T)}
<1>1. ASSUME NEW T \in SUBSET S, \A U \in SUBSET T : U # T => U \in P
      PROVE  T \in P
  <2> DEFINE v(U) == (CHOOSE g : SumsUp(f, g, U))[U]
  <2> DEFINE step(U) == IF U = {} THEN 0 ELSE f[Some(U)] + v(U \ {Some(U)})
  <2> DEFINE w == [U \in SUBSET T |-> step(U)]
  <2>1. ASSUME NEW U \in SUBSET T, U # T
        PROVE  v(U) = step(U)
    <3> DEFINE g == CHOOSE g : SumsUp(f, g, U)
    <3>1. SumsUp(f, g, U)
      BY <1>1, <2>1
    <3>2. CASE U = {}
      BY <3>1, <3>2 DEF SumsUp
    <3>3. CASE U # {}
      <4> DEFINE V == U \ {Some(U)}
      <4> DEFINE h == CHOOSE h : SumsUp(f, h, V)
      <4>1. V \in SUBSET U /\ V # U /\ V \in SUBSET T /\ V # T
        BY <3>3, <2>1 DEF Some
      <4>2. SumsUp(f, h, V)
        BY <1>1, <4>1
      <4>3. IsFiniteSet(U)
        BY FS_Subset
      <4>4. g[V] = h[V]
        <5>1. V \in SUBSET V
          OBVIOUS
        <5> HIDE DEF g, h, V
        <5> QED
          BY <3>1, <4>1, <4>2, <4>3, <5>1, SumsAgree
      <4>5. g[U] = f[Some(U)] + g[V]
        BY <3>1, <3>3 DEF SumsUp
      <4> QED
        BY <3>3, <4>4, <4>5
    <3> QED
      BY <3>2, <3>3
  <2>2. ASSUME NEW U \in SUBSET T, U # {}
        PROVE  w[U] = f[Some(U)] + w[U \ {Some(U)}]
    <3>1. /\ U \ {Some(U)} \in SUBSET T /\ U \ {Some(U)} # T
      BY <2>2 DEF Some
    <3>2. v(U \ {Some(U)}) = step(U \ {Some(U)})
      BY <2>1, <3>1
    <3> HIDE DEF v
    <3> QED
      BY <2>2, <3>1, <3>2
  <2>3. SumsUp(f, w, T)
    <3>1. w[{}] = 0
      OBVIOUS
    <3>2. ASSUME NEW U \in SUBSET T
          PROVE  w[U] = IF U = {} THEN 0 ELSE f[Some(U)] + w[U \ {Some(U)}]
      <4> HIDE DEF w
      <4> QED
        BY <2>2, <3>1
    <3>3. w = [U \in SUBSET T |-> w[U]]
      OBVIOUS
    <3> HIDE DEF w
    <3> QED
      BY <3>2, <3>3 DEF SumsUp
  <2> QED
    BY <2>3
<1>2. SUBSET S \subseteq P
  <2> HIDE DEF P
  <2> QED
    BY <1>1, SubsetInduction
<1> QED
  BY <1>2

\* The sum of a finite set, element by element.
LEMMA SumStep ==
  ASSUME NEW f, NEW S, IsFiniteSet(S)
  PROVE  /\ S = {} => SumFunctionOnSet(f, S) = 0
         /\ S # {} => SumFunctionOnSet(f, S) = f[Some(S)] + SumFunctionOnSet(f, S \ {Some(S)})
<1> DEFINE g == CHOOSE g : SumsUp(f, g, S)
<1>1. SumsUp(f, g, S)
  BY SumsExist
<1>2. SumFunctionOnSet(f, S) = g[S]
  BY SumIsFold
<1>3. CASE S = {}
  BY <1>1, <1>2, <1>3 DEF SumsUp
<1>4. CASE S # {}
  <2> DEFINE T == S \ {Some(S)}
  <2> DEFINE h == CHOOSE h : SumsUp(f, h, T)
  <2>1. T \in SUBSET S /\ T \in SUBSET T /\ IsFiniteSet(T)
    BY FS_Subset
  <2>2. SumsUp(f, h, T)
    BY <2>1, SumsExist
  <2>3. SumFunctionOnSet(f, T) = h[T]
    BY SumIsFold
  <2>4. g[S] = f[Some(S)] + g[T]
    BY <1>1, <1>4 DEF SumsUp
  <2>5. g[T] = h[T]
    <3> HIDE DEF g, h, T
    <3> QED
      BY <1>1, <2>1, <2>2, SumsAgree
  <2> QED
    BY <1>2, <1>4, <2>3, <2>4, <2>5
<1> QED
  BY <1>3, <1>4

LEMMA SumType ==
  ASSUME NEW S, IsFiniteSet(S), NEW f, \A x \in S : f[x] \in Int
  PROVE  /\ SumFunctionOnSet(f, S) \in Int
         /\ (\A x \in S : f[x] >= 0) => SumFunctionOnSet(f, S) >= 0
<1> DEFINE P == {T \in SUBSET S : /\ SumFunctionOnSet(f, T) \in Int
                                  /\ (\A x \in T : f[x] >= 0) => SumFunctionOnSet(f, T) >= 0}
<1>1. ASSUME NEW T \in SUBSET S, \A U \in SUBSET T : U # T => U \in P
      PROVE  T \in P
  <2>1. IsFiniteSet(T)
    BY FS_Subset
  <2>2. CASE T = {}
    <3>1. SumFunctionOnSet(f, T) = 0
      BY <2>1, <2>2, SumStep
    <3> QED
      BY <3>1
  <2>3. CASE T # {}
    <3>1. Some(T) \in T
      BY <2>3 DEF Some
    <3>2. T \ {Some(T)} \in P
      BY <1>1, <3>1
    <3>3. SumFunctionOnSet(f, T) = f[Some(T)] + SumFunctionOnSet(f, T \ {Some(T)})
      BY <2>1, <2>3, SumStep
    <3> QED
      BY <3>1, <3>2, <3>3
  <2> QED
    BY <2>2, <2>3
<1>2. SUBSET S \subseteq P
  <2> HIDE DEF P
  <2> QED
    BY <1>1, SubsetInduction
<1> QED
  BY <1>2

\* The sum does not depend on the order in which elements are taken.
LEMMA SumRemove ==
  ASSUME NEW S, IsFiniteSet(S), NEW f, \A x \in S : f[x] \in Int, NEW y \in S
  PROVE  SumFunctionOnSet(f, S) = f[y] + SumFunctionOnSet(f, S \ {y})
<1> DEFINE sum(T) == SumFunctionOnSet(f, T)
<1> DEFINE P == {T \in SUBSET S : \A x \in T : sum(T) = f[x] + sum(T \ {x})}
<1>1. ASSUME NEW T \in SUBSET S, \A U \in SUBSET T : U # T => U \in P,
             NEW x \in T
      PROVE  sum(T) = f[x] + sum(T \ {x})
  <2> DEFINE z == Some(T)
  <2>1. z \in T /\ IsFiniteSet(T) /\ f[x] \in Int /\ f[z] \in Int
    BY FS_Subset DEF Some
  <2>2. sum(T) = f[z] + sum(T \ {z})
    BY <2>1, SumStep
  <2>3. CASE x # z
    <3> DEFINE U == (T \ {z}) \ {x}
    <3>1. sum(T \ {z}) = f[x] + sum(U)
      BY <1>1, <2>1, <2>3
    <3>2. sum(T \ {x}) = f[z] + sum((T \ {x}) \ {z})
      BY <1>1, <2>1, <2>3
    <3>3. (T \ {x}) \ {z} = U
      OBVIOUS
    <3>4. IsFiniteSet(U) /\ \A i \in U : f[i] \in Int
      <4>1. U \subseteq T
        OBVIOUS
      <4> QED
        BY <2>1, <4>1, FS_Subset
    <3>5. sum(U) \in Int
      BY <3>4, SumType
    <3>6. sum((T \ {x}) \ {z}) = sum(U)
      BY <3>3
    <3> DEFINE a == sum(T)
    <3> DEFINE b == sum(T \ {x})
    <3> DEFINE c == sum(T \ {z})
    <3> DEFINE d == sum(U)
    <3>7. a = f[z] + c /\ c = f[x] + d /\ b = f[z] + d /\ d \in Int
      BY <2>2, <3>1, <3>2, <3>5, <3>6
    <3> HIDE DEF z, a, b, c, d
    <3>8. a = f[x] + b
      BY <2>1, <3>7
    <3> QED
      BY <3>8 DEF a, b
  <2> QED
    BY <2>2, <2>3
<1>2. SUBSET S \subseteq P
  <2>1. ASSUME NEW T \in SUBSET S, \A U \in SUBSET T : U # T => U \in P
        PROVE  T \in P
    BY <1>1, <2>1
  <2> HIDE DEF P
  <2> QED
    BY <2>1, SubsetInduction
<1> QED
  BY <1>2

\* The sum of a set is that of a part of it and that of the rest.
LEMMA SumSplit ==
  ASSUME NEW S, IsFiniteSet(S), NEW f, \A x \in S : f[x] \in Int, NEW A \in SUBSET S
  PROVE  SumFunctionOnSet(f, S) = SumFunctionOnSet(f, A) + SumFunctionOnSet(f, S \ A)
<1> DEFINE sum(T) == SumFunctionOnSet(f, T)
<1> DEFINE P == {T \in SUBSET S : sum(S) = sum(T) + sum(S \ T)}
<1>0. \A T \in SUBSET S : IsFiniteSet(T) /\ sum(T) \in Int
  <2>1. ASSUME NEW T \in SUBSET S
        PROVE  IsFiniteSet(T) /\ sum(T) \in Int
    <3>1. IsFiniteSet(T) /\ \A x \in T : f[x] \in Int
      BY FS_Subset
    <3> QED
      BY <3>1, SumType
  <2> QED
    BY <2>1
<1>1. ASSUME NEW T \in SUBSET S, \A U \in SUBSET T : U # T => U \in P
      PROVE  T \in P
  <2>1. CASE T = {}
    <3>1. sum(T) = 0 /\ S \ T = S
      BY <1>0, <2>1, SumStep
    <3>2. sum(S) \in Int
      BY <1>0
    <3> QED
      BY <3>1, <3>2
  <2>2. CASE T # {}
    <3>1. PICK x \in T : TRUE
      BY <2>2
    <3> DEFINE U == T \ {x}
    <3>2. sum(S) = sum(U) + sum(S \ U)
      BY <1>1
    <3>3. sum(T) = f[x] + sum(U)
      <4>1. \A i \in T : f[i] \in Int
        OBVIOUS
      <4> QED
        BY <1>0, <4>1, SumRemove
    <3>4. sum(S \ U) = f[x] + sum(S \ T)
      <4>1. x \in S \ U /\ (S \ U) \ {x} = S \ T /\ \A i \in S \ U : f[i] \in Int
        BY <3>1
      <4> QED
        BY <1>0, <4>1, SumRemove
    <3>5. f[x] \in Int /\ sum(U) \in Int /\ sum(S \ T) \in Int /\ sum(S \ U) \in Int
      BY <1>0
    <3> HIDE DEF U
    <3>6. sum(S) = sum(T) + sum(S \ T)
      <4> HIDE DEF sum
      <4> QED
        BY <3>2, <3>3, <3>4, <3>5
    <3> QED
      BY <3>6
  <2> QED
    BY <2>1, <2>2
<1>2. SUBSET S \subseteq P
  <2> HIDE DEF P
  <2> QED
    BY <1>1, SubsetInduction
<1> QED
  BY <1>2

--------------------------------------------------------------------------------
(* Extremes                                                                    *)

LEMMA MaxInRange ==
  ASSUME NEW m \in Int, NEW S, S # {}, \A x \in S : x \in Int /\ x <= m
  PROVE  Max(S) \in S
<1> DEFINE D == {m - x : x \in S}
<1> DEFINE R == OpToRel(<, Nat)
<1>1. D \subseteq Nat /\ D # {}
  OBVIOUS
<1>2. IsWellFoundedOn(R, Nat)
  BY NatLessThanWellFounded
<1>3. \E d \in D : \A e \in D : ~(<<e, d>> \in R)
  <2> HIDE DEF D, R
  <2> QED
    BY <1>1, <1>2, WFMin
<1>4. PICK x \in S : \A y \in S : ~(<<m - y, m - x>> \in R)
  BY <1>3
<1>5. ASSUME NEW y \in S
      PROVE  x >= y
  <2>1. m - y \in Nat /\ m - x \in Nat /\ x \in Int /\ y \in Int
    OBVIOUS
  <2>2. ~(m - y < m - x)
    BY <1>4, <2>1 DEF OpToRel
  <2> QED
    BY <2>1, <2>2
<1> QED
  BY <1>5 DEF Max

LEMMA MinOfTwo ==
  ASSUME NEW a \in Int, NEW b \in Int
  PROVE  Min({a, b}) <= a /\ Min({a, b}) \in {a, b}
<1>1. \E x \in {a, b} : \A y \in {a, b} : x <= y
  <2>1. CASE a <= b
    BY <2>1
  <2>2. CASE b <= a
    BY <2>2
  <2> QED
    BY <2>1, <2>2
<1> QED
  BY <1>1 DEF Min

--------------------------------------------------------------------------------
(* The inductive invariant                                                     *)

AggregatedRow == [present : {TRUE}, value : Int, ttl : Ttl] \cup {Absent}

\* The rows that a transaction has read are in the table for as long as nothing
\* it read has changed.
BatchIsLive == \A a \in Aggregators : pc[a] = "merging" /\ a \notin stale => batch[a] \subseteq Live

AggregatorInv ==
  /\ TypeOK
  /\ \A a \in Aggregators : Cardinality(batch[a]) <= BatchSize
  /\ BatchIsLive
  /\ Conservation

LEMMA SumFacts ==
  ASSUME NEW S \in SUBSET Rows
  PROVE  /\ IsFiniteSet(S) /\ Cardinality(S) \in Nat
         /\ Sum(S) \in Int
         /\ (\A x \in S : ValueOf[x] >= 0) => Sum(S) >= 0
         /\ S = {} => Sum(S) = 0
         /\ \A x \in S : Sum(S) = ValueOf[x] + Sum(S \ {x})
         /\ \A A \in SUBSET S : Sum(S) = Sum(A) + Sum(S \ A)
<1>1. IsFiniteSet(S) /\ Cardinality(S) \in Nat
  BY RowAssumption, FS_Subset, FS_CardinalityType
<1>2. \A x \in S : ValueOf[x] \in Int
  BY RowAssumption
<1> QED
  BY <1>1, <1>2, SumType, SumStep, SumRemove, SumSplit DEF Sum

LEMMA AggregatedRowFacts ==
  ASSUME NEW r \in AggregatedRow
  PROVE  /\ r.value \in Int /\ r.ttl \in Ttl /\ r.present \in BOOLEAN
         /\ ~r.present => r.value = 0
<1>1. CASE r = Absent
  <2>1. Never \in Ttl
    BY BatchAssumption DEF Ttl, Never
  <2> QED
    BY <1>1, <2>1 DEF Absent
<1>2. CASE r \in [present : {TRUE}, value : Int, ttl : Ttl]
  BY <1>2
<1> QED
  BY <1>1, <1>2 DEF AggregatedRow

LEMMA UpsertType ==
  ASSUME AggregatorInv, NEW r \in AggregatedRow, NEW G \in SUBSET Rows
  PROVE  Upsert(r, G) \in AggregatedRow /\ Upsert(r, G).value = r.value + Sum(G)
<1> DEFINE T == {r.ttl} \cup {rowTtl[x] : x \in G}
<1>1. T # {} /\ \A t \in T : t \in Ttl /\ t \in Int /\ t <= MaxTtl
  BY AggregatedRowFacts, BatchAssumption DEF AggregatorInv, TypeOK, Ttl, Never
<1>2. Max(T) \in T
  <2>1. MaxTtl \in Int
    BY BatchAssumption
  <2> HIDE DEF T
  <2> QED
    BY <1>1, <2>1, MaxInRange
<1>3. Max(T) \in Ttl
  BY <1>1, <1>2
<1>4. r.value + Sum(G) \in Int
  BY AggregatedRowFacts, SumFacts
<1> QED
  BY <1>3, <1>4 DEF Upsert, AggregatedRow

LEMMA AggregatorInit == Init => AggregatorInv
<1> SUFFICES ASSUME Init PROVE AggregatorInv
  OBVIOUS
<1>1. Never \in Ttl /\ 0 \in 0 .. BatchSize /\ BatchSize \in Nat
  BY BatchAssumption DEF Ttl, Never
<1>2. TypeOK
  BY <1>1 DEF Init, TypeOK
<1>3. \A a \in Aggregators : batch[a] = {} /\ pc[a] = "idle"
  BY DEF Init
<1>4. \A a \in Aggregators : Cardinality(batch[a]) <= BatchSize
  BY <1>1, <1>3, FS_EmptySet
<1>5. Conservation
  <2>1. ASSUME NEW k \in Keys
        PROVE  Total(k) + expired[k] = Sum({row \in RowsOf(k) : status[row] # "new"})
    <3>1. /\ RowsOf(k) \cap Live = {} /\ {row \in RowsOf(k) : status[row] # "new"} = {}
          /\ aggregated[k].value = 0 /\ expired[k] = 0
      BY DEF Init, Live, RowsOf, Absent
    <3>2. Sum({}) = 0
      BY SumFacts
    <3> QED
      BY <3>1, <3>2 DEF Total
  <2> QED
    BY <2>1 DEF Conservation
<1> QED
  BY <1>2, <1>3, <1>4, <1>5 DEF AggregatorInv, BatchIsLive

--------------------------------------------------------------------------------
(* Steps                                                                       *)

\* Conservation speaks only of the rows' states and of the values, not of expiries.
LEMMA ConservationKept ==
  ASSUME Conservation, status' = status, expired' = expired,
         \A k \in Keys : aggregated'[k].value = aggregated[k].value
  PROVE  Conservation'
BY DEF Conservation, Total, Live, RowsOf

LEMMA InsertInvariant ==
  ASSUME AggregatorInv, NEW row \in Rows, InsertCounter(row)
  PROVE  AggregatorInv'
<1>1. TypeOK /\ status[row] = "new" /\ status' = [status EXCEPT ![row] = "live"]
  BY DEF AggregatorInv, InsertCounter
<1>2. TypeOK'
  <2>1. TtlOf[row] \in Ttl
    BY RowAssumption, BatchAssumption DEF Ttl, Never
  <2> QED
    BY <1>1, <2>1 DEF TypeOK, InsertCounter, aggregatorVars
<1>3. Live' = Live \cup {row} /\ row \notin Live
  BY <1>1 DEF TypeOK, Live
<1>4. Conservation'
  <2>1. ASSUME NEW k \in Keys
        PROVE  (Total(k) + expired[k] = Sum({r \in RowsOf(k) : status[r] # "new"}))'
    <3> DEFINE L == RowsOf(k) \cap Live
    <3> DEFINE C == {r \in RowsOf(k) : status[r] # "new"}
    <3>1. /\ Sum(L) + aggregated[k].value + expired[k] = Sum(C)
          /\ aggregated[k].value \in Int /\ expired[k] \in Int
      BY <1>1, AggregatedRowFacts DEF AggregatorInv, Conservation, Total, TypeOK, AggregatedRow
    <3>2. UNCHANGED <<aggregated, expired>>
      BY DEF InsertCounter
    <3>3. CASE KeyOf[row] = k
      <4>1. /\ L' = L \cup {row} /\ row \notin L /\ C' = C \cup {row} /\ row \notin C
            /\ L' \in SUBSET Rows /\ C' \in SUBSET Rows
        BY <1>1, <1>3, <3>3 DEF RowsOf, TypeOK, Live
      <4>2. L' \ {row} = L /\ C' \ {row} = C /\ L \in SUBSET Rows /\ C \in SUBSET Rows
        BY <4>1
      <4>3. Sum(L') = ValueOf[row] + Sum(L) /\ Sum(C') = ValueOf[row] + Sum(C)
        <5>1. ASSUME NEW S \in SUBSET Rows, row \in S
              PROVE  Sum(S) = ValueOf[row] + Sum(S \ {row})
          BY <5>1, SumFacts
        <5>2. row \in L' /\ row \in C'
          BY <4>1
        <5> HIDE DEF L, C
        <5> QED
          BY <4>1, <4>2, <5>1, <5>2
      <4>4. Sum(L) \in Int /\ Sum(C) \in Int /\ ValueOf[row] \in Int
        BY <4>2, SumFacts, RowAssumption
      <4>5. Total(k)' = Sum(L') + aggregated'[k].value
        BY DEF Total, RowsOf
      <4>6. Sum(L') + aggregated'[k].value + expired'[k] = Sum(C')
        <5> HIDE DEF L, C
        <5> QED
          BY <3>1, <3>2, <4>3, <4>4
      <4> QED
        BY <4>5, <4>6 DEF RowsOf
    <3>4. CASE KeyOf[row] # k
      <4>1. L' = L /\ C' = C
        BY <1>1, <1>3, <3>4 DEF RowsOf, TypeOK
      <4>2. Total(k)' = Sum(L') + aggregated'[k].value
        BY DEF Total, RowsOf
      <4>3. Sum(L') + aggregated'[k].value + expired'[k] = Sum(C')
        <5> HIDE DEF L, C
        <5> QED
          BY <3>1, <3>2, <4>1
      <4> QED
        BY <4>2, <4>3 DEF RowsOf
    <3> QED
      BY <3>3, <3>4
  <2> QED
    BY <2>1 DEF Conservation
<1> QED
  BY <1>2, <1>3, <1>4 DEF AggregatorInv, BatchIsLive, InsertCounter, aggregatorVars

LEMMA MergeFacts ==
  ASSUME AggregatorInv, NEW a \in Aggregators, Merge(a)
  PROVE  /\ status' \in [Rows -> {"new", "live", "gone"}]
         /\ aggregated' \in [Keys -> AggregatedRow]
         /\ batch[a] \in SUBSET Rows /\ batch[a] \subseteq Live /\ Live' = Live \ batch[a]
         /\ \A k \in Keys : /\ aggregated'[k].value = aggregated[k].value + Sum(batch[a] \cap RowsOf(k))
                            /\ RowsOf(k) \cap Live' = (RowsOf(k) \cap Live) \ (batch[a] \cap RowsOf(k))
                            /\ Total(k)' = Total(k)
         /\ \A b \in Aggregators \ {a} : pc[b] = "merging" /\ b \notin stale' =>
              batch[b] \cap batch[a] = {}
<1> DEFINE B == batch[a]
<1>1. /\ TypeOK /\ B \in SUBSET Rows /\ B \subseteq Live
      /\ aggregated \in [Keys -> AggregatedRow]
  BY DEF AggregatorInv, BatchIsLive, Merge, TypeOK, AggregatedRow
<1>2. status' = [row \in Rows |-> IF row \in B THEN "gone" ELSE status[row]]
  BY DEF Merge
<1>3. status' \in [Rows -> {"new", "live", "gone"}]
  BY <1>1, <1>2 DEF TypeOK
<1>4. Live' = Live \ B
  BY <1>1, <1>2 DEF Live
<1>5. aggregated' = [k \in Keys |-> IF k \in KeysIn(B)
                                      THEN Upsert(aggregated[k], B \cap RowsOf(k))
                                      ELSE aggregated[k]]
  BY DEF Merge
<1>6. ASSUME NEW k \in Keys
      PROVE  /\ aggregated'[k] \in AggregatedRow
             /\ aggregated'[k].value = aggregated[k].value + Sum(B \cap RowsOf(k))
  <2>1. B \cap RowsOf(k) \in SUBSET Rows /\ aggregated[k] \in AggregatedRow
    BY <1>1
  <2>2. CASE k \in KeysIn(B)
    BY <1>5, <2>1, <2>2, UpsertType
  <2>3. CASE k \notin KeysIn(B)
    <3>1. B \cap RowsOf(k) = {}
      BY <2>3 DEF KeysIn, RowsOf
    <3>2. Sum(B \cap RowsOf(k)) = 0 /\ aggregated[k].value \in Int
      BY <2>1, <3>1, SumFacts, AggregatedRowFacts
    <3>3. aggregated'[k] = aggregated[k]
      BY <1>5, <2>3
    <3> HIDE DEF B
    <3> QED
      BY <2>1, <3>2, <3>3
  <2> QED
    BY <2>2, <2>3
<1>7. aggregated' \in [Keys -> AggregatedRow]
  BY <1>5, <1>6
<1>8. ASSUME NEW k \in Keys
      PROVE  /\ RowsOf(k) \cap Live' = (RowsOf(k) \cap Live) \ (B \cap RowsOf(k))
             /\ Total(k)' = Total(k)
  <2> DEFINE L == RowsOf(k) \cap Live
  <2> DEFINE G == B \cap RowsOf(k)
  <2>1. L \in SUBSET Rows /\ G \in SUBSET L /\ L \ G \in SUBSET Rows /\ G \in SUBSET Rows
    BY <1>1 DEF Live
  <2>2. RowsOf(k) \cap Live' = L \ G
    BY <1>4
  <2>3. Sum(L) = Sum(G) + Sum(L \ G)
    BY <2>1, SumFacts
  <2>4. Sum(G) \in Int /\ Sum(L \ G) \in Int /\ aggregated[k].value \in Int
    BY <1>1, <2>1, SumFacts, AggregatedRowFacts
  <2>5. Total(k)' = Sum(L \ G) + aggregated'[k].value
    BY <2>2 DEF Total, RowsOf
  <2>6. Total(k) = Sum(L) + aggregated[k].value
    BY DEF Total
  <2>7. aggregated'[k].value = aggregated[k].value + Sum(G)
    BY <1>6
  <2>8. Total(k)' = Total(k)
    <3> HIDE DEF L, G
    <3> QED
      BY <2>3, <2>4, <2>5, <2>6, <2>7
  <2> QED
    BY <2>2, <2>8
<1>9. ASSUME NEW b \in Aggregators \ {a}, pc[b] = "merging", b \notin stale'
      PROVE  batch[b] \cap B = {}
  <2>1. stale' = stale \cup (Readers(KeysIn(B)) \ {a})
    BY DEF Merge
  <2>2. KeysIn(batch[b]) \cap KeysIn(B) = {}
    BY <1>9, <2>1 DEF Readers
  <2> QED
    BY <2>2 DEF KeysIn
<1> QED
  BY <1>1, <1>3, <1>4, <1>6, <1>7, <1>8, <1>9

LEMMA MergeInvariant ==
  ASSUME AggregatorInv, NEW a \in Aggregators, CommitBatch(a) \/ CommitInDoubt(a)
  PROVE  AggregatorInv'
<1>1. Merge(a) /\ TypeOK /\ BatchSize \in Nat
  BY BatchAssumption DEF CommitBatch, CommitInDoubt, AggregatorInv
<1>2. /\ status' \in [Rows -> {"new", "live", "gone"}]
      /\ aggregated' \in [Keys -> AggregatedRow]
      /\ batch[a] \in SUBSET Rows /\ batch[a] \subseteq Live /\ Live' = Live \ batch[a]
      /\ \A k \in Keys : Total(k)' = Total(k)
      /\ \A b \in Aggregators \ {a} : pc[b] = "merging" /\ b \notin stale' =>
           batch[b] \cap batch[a] = {}
  BY <1>1, MergeFacts
<1>3. /\ batch' = [batch EXCEPT ![a] = {}] /\ UNCHANGED <<rowTtl, idList, expired, reader>>
      /\ stale' = stale \cup (Readers(KeysIn(batch[a])) \ {a})
  BY <1>1 DEF Merge
<1>4. /\ pc' \in [Aggregators -> {"idle", "reading", "merging", "counted", "waiting"}]
      /\ pc'[a] # "merging" /\ \A b \in Aggregators \ {a} : pc'[b] = pc[b]
  BY <1>1 DEF CommitBatch, CommitInDoubt, Goto, TypeOK
<1>5. removed' \in [Aggregators -> 0 .. BatchSize]
  <2>1. Cardinality(batch[a]) \in 0 .. BatchSize /\ 0 \in 0 .. BatchSize
    BY <1>1, <1>2, SumFacts DEF AggregatorInv
  <2> QED
    BY <1>1, <2>1 DEF CommitBatch, CommitInDoubt, TypeOK
<1>6. TypeOK'
  BY <1>1, <1>2, <1>3, <1>4, <1>5 DEF TypeOK, Readers, AggregatedRow
<1>7. \A b \in Aggregators : Cardinality(batch'[b]) <= BatchSize
  BY <1>1, <1>3, FS_EmptySet DEF AggregatorInv, TypeOK
<1>8. BatchIsLive'
  <2>1. ASSUME NEW b \in Aggregators, pc'[b] = "merging", b \notin stale'
        PROVE  batch'[b] \subseteq Live'
    <3>1. b # a /\ pc[b] = "merging" /\ b \notin stale /\ batch'[b] = batch[b]
      BY <1>1, <1>3, <1>4, <2>1 DEF TypeOK
    <3>2. batch[b] \subseteq Live /\ batch[b] \cap batch[a] = {}
      BY <1>2, <2>1, <3>1 DEF AggregatorInv, BatchIsLive
    <3> QED
      BY <1>2, <3>1, <3>2
  <2> QED
    BY <2>1 DEF BatchIsLive
<1>9. Conservation'
  <2>1. ASSUME NEW k \in Keys
        PROVE  (Total(k) + expired[k] = Sum({r \in RowsOf(k) : status[r] # "new"}))'
    <3>1. {r \in RowsOf(k) : status'[r] # "new"} = {r \in RowsOf(k) : status[r] # "new"}
      BY <1>1, <1>2 DEF Merge, Live, RowsOf
    <3>2. Total(k) + expired[k] = Sum({r \in RowsOf(k) : status[r] # "new"})
      BY DEF AggregatorInv, Conservation
    <3> QED
      BY <1>2, <1>3, <3>1, <3>2 DEF RowsOf
  <2> QED
    BY <2>1 DEF Conservation
<1> QED
  BY <1>6, <1>7, <1>8, <1>9 DEF AggregatorInv

\* The other steps of an aggregator write no table.
LEMMA AggregatorInvariant ==
  ASSUME AggregatorInv, NEW a \in Aggregators, AggregatorStep(a)
  PROVE  AggregatorInv'
<1>1. TypeOK /\ BatchSize \in Nat /\ Conservation /\ BatchIsLive
  BY BatchAssumption DEF AggregatorInv
<1>0. 0 \in 0 .. BatchSize
  BY BatchAssumption
<1>2. CASE CommitBatch(a) \/ CommitInDoubt(a)
  BY <1>2, MergeInvariant
<1>3. CASE Start(a) \/ ReadNothing(a) \/ Continue(a) \/ Finish(a)
  <2>1. TypeOK'
    BY <1>0, <1>1, <1>3 DEF TypeOK, Start, ReadNothing, Continue, Finish, Goto
  <2>2. /\ UNCHANGED <<status, aggregated, batch, stale, expired>>
        /\ \A b \in Aggregators : pc'[b] = "merging" => pc[b] = "merging"
    BY <1>1, <1>3 DEF TypeOK, Start, ReadNothing, Continue, Finish, Goto
  <2>3. Conservation'
    BY <1>1, <2>2, ConservationKept
  <2> QED
    BY <1>1, <2>1, <2>2, <2>3 DEF AggregatorInv, BatchIsLive, Live
<1>4. CASE ReadBatch(a)
  <2> DEFINE m == Min({BatchSize, Cardinality(Live)})
  <2>1. PICK B \in kSubset(m, Live) : batch' = [batch EXCEPT ![a] = B]
    BY <1>4 DEF ReadBatch
  <2>2. /\ pc' = [pc EXCEPT ![a] = "merging"]
        /\ UNCHANGED <<status, rowTtl, aggregated, removed, stale, idList, expired, reader>>
    BY <1>4 DEF ReadBatch, Goto
  <2>3. B \subseteq Live /\ Cardinality(B) = m /\ Live \in SUBSET Rows
    BY <2>1 DEF kSubset, Live
  <2>4. m <= BatchSize
    <3>1. Cardinality(Live) \in Int
      BY <2>3, SumFacts
    <3> QED
      BY <1>1, <3>1, MinOfTwo
  <2>5. TypeOK'
    BY <1>1, <2>1, <2>2, <2>3 DEF TypeOK
  <2>6. Conservation'
    BY <1>1, <2>2, ConservationKept
  <2>7. Live' = Live
    BY <2>2 DEF Live
  <2> HIDE DEF m
  <2>8. \A b \in Aggregators : Cardinality(batch'[b]) <= BatchSize
    BY <1>1, <2>1, <2>3, <2>4 DEF AggregatorInv, TypeOK
  <2>9. BatchIsLive'
    BY <1>1, <2>1, <2>2, <2>3, <2>7 DEF BatchIsLive, TypeOK
  <2> QED
    BY <2>5, <2>6, <2>8, <2>9 DEF AggregatorInv
<1>5. CASE Stop(a)
  <2>1. TypeOK'
    BY <1>0, <1>1, <1>5 DEF TypeOK, Stop, Goto
  <2>2. Conservation'
    BY <1>1, <1>5, ConservationKept DEF Stop
  <2>3. \A b \in Aggregators : Cardinality(batch'[b]) <= BatchSize
    BY <1>1, <1>5, FS_EmptySet DEF AggregatorInv, TypeOK, Stop
  <2>4. BatchIsLive'
    BY <1>1, <1>5 DEF BatchIsLive, Live, Stop, Goto, TypeOK
  <2> QED
    BY <2>1, <2>2, <2>3, <2>4 DEF AggregatorInv
<1> QED
  BY <1>2, <1>3, <1>4, <1>5 DEF AggregatorStep

\* What the sweep deletes is what it adds to the history.
LEMMA SweepInvariant ==
  ASSUME AggregatorInv, SweepSelect \/ SweepDelete
  PROVE  AggregatorInv'
<1>1. TypeOK /\ BatchIsLive /\ Conservation /\ aggregated \in [Keys -> AggregatedRow]
  BY DEF AggregatorInv, TypeOK, AggregatedRow
<1>2. CASE SweepSelect
  <2>1. TypeOK'
    BY <1>1, <1>2 DEF TypeOK, SweepSelect, aggregatorVars
  <2>2. Conservation'
    BY <1>1, <1>2, ConservationKept DEF SweepSelect
  <2> QED
    BY <1>2, <2>1, <2>2 DEF AggregatorInv, BatchIsLive, Live, SweepSelect, aggregatorVars
<1>3. CASE SweepDelete
  <2>1. /\ aggregated' = [k \in Keys |-> IF k \in idList THEN Absent ELSE aggregated[k]]
        /\ expired' = [k \in Keys |-> IF k \in idList THEN expired[k] + aggregated[k].value
                                                      ELSE expired[k]]
        /\ stale' = stale \cup Readers(idList) /\ idList' = {}
        /\ UNCHANGED <<status, rowTtl, pc, batch, removed, reader>>
    BY <1>3 DEF SweepDelete, aggregatorVars
  <2>2. \A k \in Keys : aggregated[k].value \in Int
    BY <1>1, AggregatedRowFacts
  <2>3. TypeOK'
    <3>0. Absent \in AggregatedRow
      BY DEF AggregatedRow
    <3>1. aggregated' \in [Keys -> AggregatedRow] /\ expired' \in [Keys -> Int]
      BY <1>1, <2>1, <2>2, <3>0 DEF TypeOK
    <3> QED
      BY <1>1, <2>1, <3>1 DEF TypeOK, Readers, AggregatedRow
  <2>4. Conservation'
    <3>1. ASSUME NEW k \in Keys
          PROVE  (Total(k) + expired[k] = Sum({r \in RowsOf(k) : status[r] # "new"}))'
      <4> DEFINE L == RowsOf(k) \cap Live
      <4>1. Sum(L) + aggregated[k].value + expired[k] = Sum({r \in RowsOf(k) : status[r] # "new"})
        BY <1>1 DEF Conservation, Total
      <4>2. Sum(L) \in Int /\ aggregated[k].value \in Int /\ expired[k] \in Int
        BY <1>1, <2>2, SumFacts DEF TypeOK, Live
      <4>3. aggregated'[k].value + expired'[k] = aggregated[k].value + expired[k]
             /\ aggregated'[k].value \in Int /\ expired'[k] \in Int
        BY <2>1, <4>2 DEF Absent
      <4>4. Total(k)' = Sum(L) + aggregated'[k].value
        BY <2>1 DEF Total, Live, RowsOf
      <4>5. Total(k)' + expired'[k] = Sum({r \in RowsOf(k) : status[r] # "new"})
        <5> HIDE DEF L
        <5> QED
          BY <4>1, <4>2, <4>3, <4>4
      <4> QED
        BY <2>1, <4>5 DEF RowsOf
    <3> QED
      BY <3>1 DEF Conservation
  <2> QED
    BY <2>1, <2>3, <2>4 DEF AggregatorInv, BatchIsLive, Live
<1> QED
  BY <1>2, <1>3

LEMMA OlderKeeps ==
  /\ \A t \in Ttl : Older(t) \in Ttl
  /\ \A r \in AggregatedRow : [r EXCEPT !.ttl = Older(@)] \in AggregatedRow
<1>1. \A t \in Ttl : Older(t) \in Ttl
  BY BatchAssumption DEF Older, Ttl, Never
<1>2. Older(Never) = Never
  BY DEF Older, Never
<1>3. \A r \in [present : {TRUE}, value : Int, ttl : Ttl] :
        [r EXCEPT !.ttl = Older(@)] \in [present : {TRUE}, value : Int, ttl : Ttl]
  BY <1>1
<1>4. [Absent EXCEPT !.ttl = Older(@)] = Absent
  <2>0. Absent \in [present : {FALSE}, value : {0}, ttl : {Never}]
    BY DEF Absent
  <2>1. \A r \in [present : {FALSE}, value : {0}, ttl : {Never}] :
          [r EXCEPT !.ttl = Never] = r
    OBVIOUS
  <2>2. Absent.ttl = Never
    BY DEF Absent
  <2> QED
    BY <1>2, <2>0, <2>1, <2>2
<1> QED
  BY <1>1, <1>3, <1>4 DEF AggregatedRow

LEMMA TickInvariant ==
  ASSUME AggregatorInv, Tick
  PROVE  AggregatorInv'
<1>1. TypeOK /\ Conservation /\ aggregated \in [Keys -> AggregatedRow]
  BY DEF AggregatorInv, TypeOK, AggregatedRow
<1>2. /\ rowTtl' \in [Rows -> Ttl] /\ aggregated' \in [Keys -> AggregatedRow]
      /\ \A k \in Keys : aggregated'[k].value = aggregated[k].value
  <2>1. ASSUME NEW k \in Keys
        PROVE  /\ aggregated'[k] \in AggregatedRow
               /\ aggregated'[k].value = aggregated[k].value
    <3>1. aggregated[k] \in AggregatedRow /\ aggregated'[k] = [aggregated[k] EXCEPT !.ttl = Older(@)]
      BY <1>1 DEF Tick
    <3>2. aggregated'[k].value = aggregated[k].value
      BY <3>1 DEF AggregatedRow, Absent
    <3> QED
      BY <3>1, <3>2, OlderKeeps
  <2>2. aggregated' = [k \in Keys |-> aggregated'[k]]
    BY DEF Tick
  <2> QED
    BY <1>1, <2>1, <2>2, OlderKeeps DEF Tick, TypeOK
<1>3. TypeOK'
  BY <1>1, <1>2 DEF TypeOK, Tick, aggregatorVars, AggregatedRow
<1>4. Conservation'
  BY <1>1, <1>2, ConservationKept DEF Tick
<1> QED
  BY <1>3, <1>4 DEF AggregatorInv, BatchIsLive, Live, Tick, aggregatorVars

LEMMA GetCounterInvariant ==
  ASSUME AggregatorInv, GetCounterStep
  PROVE  AggregatorInv'
<1>1. UNCHANGED <<status, rowTtl, aggregated, pc, batch, removed, stale, idList, expired>>
  BY DEF GetCounterStep, AnyCounter, SumCounter, SumThrows, AnyAggregated, SumAggregated,
         EndCall, aggregatorVars
<1>2. Conservation'
  BY <1>1, ConservationKept DEF AggregatorInv
<1> QED
  BY <1>1, <1>2 DEF AggregatorInv, TypeOK, BatchIsLive, Live

LEMMA AggregatorInductive == AggregatorInv /\ [Next]_vars => AggregatorInv'
<1> SUFFICES ASSUME AggregatorInv, [Next]_vars PROVE AggregatorInv'
  OBVIOUS
<1>1. CASE Next
  BY <1>1, InsertInvariant, AggregatorInvariant, SweepInvariant, GetCounterInvariant,
     TickInvariant DEF Next
<1>2. CASE UNCHANGED vars
  <2>1. Conservation'
    BY <1>2, ConservationKept DEF AggregatorInv, vars
  <2> QED
    BY <1>2, <2>1 DEF vars, AggregatorInv, TypeOK, BatchIsLive, Live
<1> QED
  BY <1>1, <1>2

LEMMA AggregatorInvariantHolds == Spec => []AggregatorInv
BY AggregatorInit, AggregatorInductive, PTL DEF Spec

\* The tables, the aggregators and the sweep keep their types; removedCount is at
\* most a batch.
THEOREM TypeCorrect == Spec => []TypeOK
<1>1. AggregatorInv => TypeOK
  BY DEF AggregatorInv
<1> QED
  BY <1>1, AggregatorInvariantHolds, PTL

\* For any number of servers that aggregate without a lock, any batch size and any
\* expiries: nothing is counted twice and nothing dropped.
THEOREM NothingLost == Spec => []Conservation
<1>1. AggregatorInv => Conservation
  BY DEF AggregatorInv
<1> QED
  BY <1>1, AggregatorInvariantHolds, PTL

--------------------------------------------------------------------------------
(* GetCounter                                                                  *)

\* The counters that are read only grow, and do not expire.
Growing == \A row \in Rows : KeyOf[row] \in ReadKeys => ValueOf[row] = 1 /\ TtlOf[row] = Never

ReadRows == [at    : {"idle", "counters", "aggregates", "aggregated", "returned"},
             key   : Keys \cup {NoCall.key},
             sum   : Int,
             least : Int]

\* The keys that are read expire in neither table, and no sweep has selected them.
Persistent ==
  /\ \A row \in Rows : KeyOf[row] \in ReadKeys => rowTtl[row] = Never
  /\ \A k \in ReadKeys : aggregated[k].ttl = Never /\ k \notin idList

\* What a call has added up, with the table it has still to read, is no less than
\* the value at its start.
Reading(r) ==
  /\ r.at # "idle" => r.key \in ReadKeys
  /\ r.at = "counters" => r.sum = 0 /\ r.least <= Total(r.key)
  /\ r.at \in {"aggregates", "aggregated"} => r.least <= r.sum + aggregated[r.key].value
  /\ r.at = "returned" => r.least <= r.sum

ReaderInv == reader \in ReadRows /\ Persistent /\ Reading(reader)

LEMMA ReaderInit == Init => ReaderInv
<1> SUFFICES ASSUME Init PROVE ReaderInv
  OBVIOUS
<1>1. NoCall \in ReadRows /\ NoCall.at = "idle"
  <2>1. NoCall.key = CHOOSE k \in Keys : TRUE
    BY DEF NoCall
  <2> DEFINE c == CHOOSE k \in Keys : TRUE
  <2>2. NoCall = [at |-> "idle", key |-> c, sum |-> 0, least |-> 0]
    BY DEF NoCall
  <2> HIDE DEF c
  <2> QED
    BY <2>1, <2>2 DEF ReadRows, c
<1>2. Persistent
  BY FlagAssumption DEF Init, Persistent, Absent
<1> QED
  BY <1>1, <1>2 DEF Init, ReaderInv, Reading

LEMMA TotalType ==
  ASSUME TypeOK, NEW k \in Keys
  PROVE  /\ Total(k) \in Int /\ aggregated[k].value \in Int
         /\ RowsOf(k) \cap Live \in SUBSET Rows /\ Sum(RowsOf(k) \cap Live) \in Int
         /\ (RowsOf(k) \cap Live = {} => Total(k) = aggregated[k].value)
         /\ (~aggregated[k].present => aggregated[k].value = 0)
<1>1. RowsOf(k) \cap Live \in SUBSET Rows
  BY DEF Live
<1>2. aggregated[k] \in AggregatedRow
  BY DEF TypeOK, AggregatedRow
<1>3. Sum(RowsOf(k) \cap Live) \in Int /\ (RowsOf(k) \cap Live = {} => Sum(RowsOf(k) \cap Live) = 0)
  BY <1>1, SumFacts
<1> QED
  BY <1>1, <1>2, <1>3, AggregatedRowFacts DEF Total

\* Steps other than the reader's: no counter that is read goes down, in either table
\* or in both together.
Grows ==
  \A k \in ReadKeys : Total(k)' >= Total(k) /\ aggregated'[k].value >= aggregated[k].value

LEMMA GrowsKeeps ==
  ASSUME AggregatorInv, TypeOK', ReaderInv, Grows, Persistent', reader' = reader
  PROVE  ReaderInv'
<1>1. \A k \in ReadKeys : /\ Total(k) \in Int /\ aggregated[k].value \in Int
  BY TotalType, FlagAssumption DEF AggregatorInv
<1>2. \A k \in ReadKeys : Total(k)' \in Int /\ aggregated'[k].value \in Int
  <2>1. ASSUME NEW k \in Keys
        PROVE  Total(k)' \in Int /\ aggregated'[k].value \in Int
    <3>1. RowsOf(k) \cap Live' \in SUBSET Rows /\ aggregated'[k] \in AggregatedRow
      BY DEF Live, TypeOK, AggregatedRow
    <3> QED
      BY <3>1, SumFacts, AggregatedRowFacts DEF Total, RowsOf
  <2> QED
    BY <2>1, FlagAssumption
<1> DEFINE r == reader
<1>3. reader.sum \in Int /\ reader.least \in Int /\ Reading(reader)
  BY DEF ReaderInv, ReadRows
<1>4. CASE reader.at \notin {"counters", "aggregates", "aggregated"}
  <2>1. Reading(reader)'
    BY <1>3, <1>4 DEF Reading
  <2> QED
    BY <2>1 DEF ReaderInv
<1>5. CASE reader.at \in {"counters", "aggregates", "aggregated"}
  <2> DEFINE k == reader.key
  <2>1. k \in ReadKeys
    BY <1>3, <1>5 DEF Reading
  <2>2. /\ Total(k)' >= Total(k) /\ aggregated'[k].value >= aggregated[k].value
        /\ Total(k)' \in Int /\ Total(k) \in Int
        /\ aggregated'[k].value \in Int /\ aggregated[k].value \in Int
    BY <1>1, <1>2, <2>1 DEF Grows
  <2>3. reader.at = "counters" => reader.sum = 0 /\ reader.least <= Total(k)'
    BY <1>3, <2>2 DEF Reading
  <2>4. reader.at \in {"aggregates", "aggregated"} => reader.least <= reader.sum + aggregated'[k].value
    BY <1>3, <2>2 DEF Reading
  <2>5. Total(reader.key)' = Total(k)'
    OBVIOUS
  <2>6. Reading(reader)'
    BY <1>5, <2>1, <2>3, <2>4, <2>5 DEF Reading
  <2> QED
    BY <2>6 DEF ReaderInv
<1> QED
  BY <1>4, <1>5

LEMMA OthersGrow ==
  ASSUME Growing, AggregatorInv, ReaderInv,
         \/ \E row \in Rows : InsertCounter(row)
         \/ \E a \in Aggregators : AggregatorStep(a)
         \/ SweepSelect \/ SweepDelete \/ Tick
  PROVE  Grows /\ Persistent' /\ reader' = reader
<1>1. /\ TypeOK /\ Persistent /\ ReadKeys \subseteq Keys
      /\ aggregated \in [Keys -> AggregatedRow]
  BY FlagAssumption DEF AggregatorInv, ReaderInv, TypeOK, AggregatedRow
<1>2. \A k \in ReadKeys : Total(k) \in Int /\ aggregated[k].value \in Int
  BY <1>1, TotalType
\* A step that leaves the rows' states and the values alone.
<1>3. ASSUME status' = status, \A k \in ReadKeys : aggregated'[k].value = aggregated[k].value
      PROVE  Grows
  BY <1>1, <1>2, <1>3 DEF Grows, Total, Live, RowsOf
<1>4. ASSUME NEW row \in Rows, InsertCounter(row)
      PROVE  Grows /\ Persistent' /\ reader' = reader
  <2>1. /\ status[row] = "new" /\ status' = [status EXCEPT ![row] = "live"]
        /\ rowTtl' = [rowTtl EXCEPT ![row] = TtlOf[row]]
        /\ UNCHANGED <<aggregated, idList, reader>>
    BY <1>4 DEF InsertCounter
  <2>2. Persistent'
    BY <1>1, <2>1 DEF Persistent, Growing, TypeOK
  <2>3. ASSUME NEW k \in ReadKeys
        PROVE  Total(k)' >= Total(k)
    <3> DEFINE L == RowsOf(k) \cap Live
    <3>1. L \in SUBSET Rows /\ L' \in SUBSET Rows
      BY DEF Live
    <3>2. Total(k)' = Sum(L') + aggregated[k].value /\ Total(k) = Sum(L) + aggregated[k].value
      BY <2>1 DEF Total, RowsOf
    <3>3. CASE KeyOf[row] = k
      <4>1. row \in L' /\ L' \ {row} = L /\ ValueOf[row] = 1
        BY <1>1, <2>1, <3>3 DEF Live, RowsOf, TypeOK, Growing
      <4>2. Sum(L') = 1 + Sum(L)
        <5>1. ASSUME NEW S \in SUBSET Rows, row \in S
              PROVE  Sum(S) = ValueOf[row] + Sum(S \ {row})
          BY <5>1, SumFacts
        <5> HIDE DEF L
        <5> QED
          BY <3>1, <4>1, <5>1
      <4>3. Sum(L) \in Int /\ aggregated[k].value \in Int
        BY <1>2, <3>1, SumFacts
      <4> HIDE DEF L
      <4> QED
        BY <3>2, <4>2, <4>3
    <3>4. CASE KeyOf[row] # k
      <4>1. L' = L
        BY <1>1, <2>1, <3>4 DEF Live, RowsOf, TypeOK
      <4>2. Sum(L) \in Int /\ aggregated[k].value \in Int
        BY <1>2, <3>1, SumFacts
      <4> HIDE DEF L
      <4> QED
        BY <3>2, <4>1, <4>2
    <3> QED
      BY <3>3, <3>4
  <2>4. Grows
    BY <1>2, <2>1, <2>3 DEF Grows
  <2> QED
    BY <2>1, <2>2, <2>4
<1>5. ASSUME NEW a \in Aggregators, CommitBatch(a) \/ CommitInDoubt(a)
      PROVE  Grows /\ Persistent' /\ reader' = reader
  <2> DEFINE B == batch[a]
  <2>1. Merge(a)
    BY <1>5 DEF CommitBatch, CommitInDoubt
  <2>2. /\ B \in SUBSET Rows
        /\ \A k \in Keys : /\ aggregated'[k].value = aggregated[k].value + Sum(B \cap RowsOf(k))
                           /\ Total(k)' = Total(k)
    BY <2>1, MergeFacts
  <2>3. /\ aggregated' = [k \in Keys |-> IF k \in KeysIn(B)
                                           THEN Upsert(aggregated[k], B \cap RowsOf(k))
                                           ELSE aggregated[k]]
        /\ UNCHANGED <<rowTtl, idList, expired, reader>>
    BY <2>1 DEF Merge
  <2>4. ASSUME NEW k \in ReadKeys
        PROVE  aggregated'[k].value >= aggregated[k].value /\ aggregated'[k].ttl = Never
    <3> DEFINE G == B \cap RowsOf(k)
    <3>1. /\ G \in SUBSET Rows /\ k \in Keys /\ aggregated[k].value \in Int
          /\ \A x \in G : ValueOf[x] >= 0 /\ rowTtl[x] = Never
      BY <1>1, <1>2, <2>2 DEF Growing, RowsOf, Persistent
    <3>2. Sum(G) >= 0 /\ Sum(G) \in Int
      BY <3>1, SumFacts
    <3>3. aggregated'[k].value >= aggregated[k].value
      <4> HIDE DEF G
      <4>1. aggregated'[k].value = aggregated[k].value + Sum(G)
        BY <2>2, <3>1 DEF G
      <4> QED
        BY <3>1, <3>2, <4>1
    <3>4. Upsert(aggregated[k], G).ttl = Never
      <4>1. {aggregated[k].ttl} \cup {rowTtl[x] : x \in G} = {Never}
        BY <1>1, <3>1 DEF Persistent
      <4>2. Max({Never}) = Never
        BY MaxInRange DEF Never
      <4> QED
        BY <4>1, <4>2 DEF Upsert
    <3>5. aggregated'[k].ttl = Never
      BY <1>1, <2>3, <3>1, <3>4 DEF Persistent
    <3> QED
      BY <3>3, <3>5
  <2>5. ASSUME NEW k \in ReadKeys
        PROVE  Total(k)' >= Total(k)
    <3>1. Total(k)' = Total(k) /\ Total(k) \in Int
      BY <1>1, <1>2, <2>2
    <3> DEFINE t == Total(k)
    <3>2. t >= t
      <4>1. t \in Int
        BY <3>1
      <4> HIDE DEF t
      <4> QED
        BY <4>1
    <3> QED
      BY <3>1, <3>2
  <2> QED
    BY <1>1, <2>3, <2>4, <2>5 DEF Grows, Persistent
<1>6. ASSUME NEW a \in Aggregators, AggregatorStep(a), ~(CommitBatch(a) \/ CommitInDoubt(a))
      PROVE  Grows /\ Persistent' /\ reader' = reader
  <2>1. UNCHANGED <<status, rowTtl, aggregated, idList, reader>>
    BY <1>6 DEF AggregatorStep, Start, ReadBatch, ReadNothing, Continue, Finish, Stop
  <2> QED
    BY <1>1, <1>3, <2>1 DEF Persistent
<1>7. CASE SweepSelect
  <2>1. UNCHANGED <<status, rowTtl, aggregated, reader>>
    BY <1>7 DEF SweepSelect
  <2>2. \A k \in ReadKeys : k \notin idList'
    BY <1>1, <1>7 DEF SweepSelect, Over, Persistent, Never
  <2> QED
    BY <1>1, <1>3, <2>1, <2>2 DEF Persistent
<1>8. CASE SweepDelete
  <2>1. \A k \in ReadKeys : aggregated'[k] = aggregated[k]
    BY <1>1, <1>8 DEF SweepDelete, Persistent
  <2>2. UNCHANGED <<status, rowTtl, reader>> /\ idList' = {}
    BY <1>8 DEF SweepDelete
  <2> QED
    BY <1>1, <1>3, <2>1, <2>2 DEF Persistent
<1>9. CASE Tick
  <2>1. UNCHANGED <<status, idList, reader>>
    BY <1>9 DEF Tick
  <2>2. \A t : t = Never => Older(t) = Never
    BY DEF Older, Never
  <2>3. ASSUME NEW k \in ReadKeys
        PROVE  aggregated'[k].value = aggregated[k].value /\ aggregated'[k].ttl = Never
    <3>1. /\ aggregated[k] \in AggregatedRow /\ aggregated[k].ttl = Never
          /\ aggregated'[k] = [aggregated[k] EXCEPT !.ttl = Older(aggregated[k].ttl)]
      BY <1>1, <1>9 DEF Tick, Persistent
    <3>2. Older(aggregated[k].ttl) = Never
      BY <2>2, <3>1
    <3> QED
      BY <3>1, <3>2 DEF AggregatedRow, Absent
  <2>4. \A row \in Rows : KeyOf[row] \in ReadKeys => rowTtl'[row] = Never
    BY <1>1, <1>9, <2>2 DEF Tick, Persistent
  <2> QED
    BY <1>1, <1>3, <2>1, <2>3, <2>4 DEF Persistent
<1> QED
  BY <1>4, <1>5, <1>6, <1>7, <1>8, <1>9

LEMMA ReaderSteps ==
  ASSUME AggregatorInv, ReaderInv, GetCounterStep
  PROVE  ReaderInv'
<1>1. /\ TypeOK /\ Persistent /\ ReadKeys \subseteq Keys /\ reader \in ReadRows /\ Reading(reader)
      /\ reader.sum \in Int /\ reader.least \in Int
  BY FlagAssumption DEF AggregatorInv, ReaderInv, ReadRows
<1>2. UNCHANGED <<status, rowTtl, aggregated, idList>>
  BY DEF GetCounterStep, AnyCounter, SumCounter, SumThrows, AnyAggregated, SumAggregated, EndCall
<1>3. Persistent' /\ \A k : Total(k)' = Total(k)
  BY <1>1, <1>2 DEF Persistent, Total, Live, RowsOf
<1>4. ASSUME reader' \in ReadRows, Reading(reader')
      PROVE  ReaderInv'
  BY <1>2, <1>3, <1>4 DEF ReaderInv, Reading
<1>5. CASE reader' = NoCall
  <2>1. NoCall \in ReadRows /\ NoCall.at = "idle"
    <3> DEFINE c == CHOOSE k \in Keys : TRUE
    <3>1. NoCall = [at |-> "idle", key |-> c, sum |-> 0, least |-> 0]
      BY DEF NoCall
    <3> HIDE DEF c
    <3> QED
      BY <3>1 DEF ReadRows
  <2> QED
    BY <1>4, <1>5, <2>1 DEF Reading
<1>6. ASSUME NEW k \in ReadKeys, AnyCounter(k)
      PROVE  ReaderInv'
  <2> DEFINE at == IF RowsOf(k) \cap Live # {} THEN "counters" ELSE "aggregates"
  <2> DEFINE total == Total(k)
  <2>1. reader' = [at |-> at, key |-> k, sum |-> 0, least |-> total]
    BY <1>6 DEF AnyCounter
  <2>2. /\ total \in Int /\ aggregated[k].value \in Int /\ k \in Keys
        /\ at \in {"counters", "aggregates"}
        /\ at = "aggregates" => total = aggregated[k].value
    BY <1>1, TotalType
  <2>3. total = Total(k)
    OBVIOUS
  <2> HIDE DEF at, total
  <2>4. reader' \in ReadRows
    BY <2>1, <2>2 DEF ReadRows
  <2>5. /\ reader'.at = at /\ reader'.key = k /\ reader'.sum = 0 /\ reader'.least = total
    BY <2>1
  <2>6. Reading(reader')
    BY <2>2, <2>3, <2>5 DEF Reading
  <2> QED
    BY <1>4, <2>4, <2>6
\* A step within a call, of which only `at' and `sum' change.
<1>7. ASSUME NEW at \in {"aggregates", "aggregated", "returned"}, NEW sum \in Int,
             reader.at # "idle",
             reader' = [reader EXCEPT !.at = at, !.sum = sum],
             at # "returned" => reader.least <= sum + aggregated[reader.key].value,
             at = "returned" => reader.least <= sum
      PROVE  ReaderInv'
  <2>1. /\ reader' \in ReadRows /\ reader'.at = at /\ reader'.sum = sum
        /\ reader'.key = reader.key /\ reader'.least = reader.least
    BY <1>1, <1>7 DEF ReadRows
  <2>2. reader.key \in ReadKeys
    BY <1>1, <1>7 DEF Reading
  <2>3. Reading(reader')
    BY <1>7, <2>1, <2>2 DEF Reading
  <2> QED
    BY <1>4, <2>1, <2>3
<1>8. CASE SumCounter
  <2> DEFINE k == reader.key
  <2> DEFINE sum == Sum(RowsOf(reader.key) \cap Live)
  <2>1. reader.at = "counters" /\ reader' = [reader EXCEPT !.at = "aggregates", !.sum = sum]
    BY <1>8 DEF SumCounter
  <2>2. k \in Keys /\ reader.least <= Total(k)
    BY <1>1, <2>1 DEF Reading
  <2>3. sum \in Int /\ Total(k) = sum + aggregated[k].value
    BY <2>2, <1>1, TotalType DEF Total
  <2> HIDE DEF sum
  <2> QED
    BY <1>7, <2>1, <2>2, <2>3
<1>9. CASE AnyAggregated
  <2> DEFINE at == IF aggregated[reader.key].present THEN "aggregated" ELSE "returned"
  <2>1. reader.at = "aggregates" /\ reader' = [reader EXCEPT !.at = at]
    BY <1>9 DEF AnyAggregated
  <2>2. reader' = [reader EXCEPT !.at = at, !.sum = reader.sum]
    BY <1>1, <2>1 DEF ReadRows
  <2>3. reader.key \in Keys /\ reader.least <= reader.sum + aggregated[reader.key].value
    BY <1>1, <2>1 DEF Reading
  <2>4. at = "returned" => aggregated[reader.key].value = 0
    BY <1>1, <2>3, TotalType
  <2>5. at \in {"aggregates", "aggregated", "returned"}
    OBVIOUS
  <2>6. at = "returned" => reader.least <= reader.sum
    BY <1>1, <2>3, <2>4
  <2> HIDE DEF at
  <2> QED
    BY <1>1, <1>7, <2>1, <2>2, <2>3, <2>5, <2>6
<1>10. CASE SumAggregated
  <2> DEFINE sum == reader.sum + aggregated[reader.key].value
  <2>1. reader.at = "aggregated" /\ reader' = [reader EXCEPT !.at = "returned", !.sum = sum]
    BY <1>10 DEF SumAggregated
  <2>2. reader.key \in Keys /\ reader.least <= sum
    BY <1>1, <2>1 DEF Reading
  <2>3. sum \in Int
    <3>1. aggregated[reader.key].value \in Int
      BY <1>1, <2>2, TotalType
    <3> QED
      BY <1>1, <3>1
  <2> HIDE DEF sum
  <2> QED
    BY <1>7, <2>1, <2>2, <2>3
<1> QED
  BY <1>5, <1>6, <1>8, <1>9, <1>10 DEF GetCounterStep, SumThrows, EndCall

\* GetCounter, which takes no lock and reads the tables one after the other, returns
\* no less than the counter's value at its start, when the counters that are read
\* only grow and do not expire.
THEOREM GetCounterMissesNothing ==
  ASSUME Growing
  PROVE  Spec => []NothingMissed
<1>1. AggregatorInv /\ ReaderInv /\ [Next]_vars => ReaderInv'
  <2> SUFFICES ASSUME AggregatorInv, ReaderInv, [Next]_vars PROVE ReaderInv'
    OBVIOUS
  <2>1. TypeOK'
    BY AggregatorInductive DEF AggregatorInv
  <2>2. CASE GetCounterStep
    BY <2>2, ReaderSteps
  <2>3. CASE Next /\ ~GetCounterStep
    <3>1. Grows /\ Persistent' /\ reader' = reader
      BY <2>3, OthersGrow DEF Next
    <3> QED
      BY <2>1, <3>1, GrowsKeeps
  <2>4. CASE UNCHANGED vars
    BY <2>4 DEF vars, ReaderInv, Persistent, Reading, Total, Live, RowsOf
  <2> QED
    BY <2>2, <2>3, <2>4
<1>2. ReaderInv => NothingMissed
  <2> SUFFICES ASSUME ReaderInv, reader.at = "returned" PROVE reader.sum >= reader.least
    BY DEF NothingMissed
  <2> QED
    BY DEF ReaderInv, Reading, ReadRows
<1> QED
  BY <1>1, <1>2, ReaderInit, AggregatorInvariantHolds, PTL DEF Spec
================================================================================
