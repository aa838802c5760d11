--------------------------- MODULE Collections_proofs ---------------------------
(***************************************************************************)
(* Proofs about Collections, for every number of clients, keys, names and  *)
(* rows: types and identities, one row for each element of a set and each  *)
(* field of a hash, what a trim keeps of a list, and which rows the sweep  *)
(* spares, at any isolation level and at Serializable.                     *)
(***************************************************************************)
EXTENDS Collections, FiniteSetTheorems, TLAPS

--------------------------------------------------------------------------------
(* The inductive invariant                                                     *)

\* The unique indexes take these two rows for the same.
SameName(r, s) ==
  Unique(r.kind) /\ r.kind = s.kind /\ r.key = s.key /\ r.name = s.name

\* A client that has begun an upsert names a row of a set or a hash, and one that has
\* begun a trim has read identities.
Upserts == [op : {"upsert"}, kind : Kinds, key : Keys, name : Names,
            found : SUBSET [id : 1 .. MaxId, ttl : Ttl]]

Command(u) ==
  /\ u.op \in {"none", "upsert", "trim"}
  /\ u.op = "upsert" => u \in Upserts /\ Unique(u.kind)
  /\ u.op = "trim" => u.found \subseteq 1 .. MaxId /\ u.from \in Nat /\ u.to \in Nat

\* The row may have an expiry that is over.
MayBeOver(r) == r.due \/ r.restored

\* What the sweep has selected was over, and a row stays due or restored.
CollectionsInv ==
  /\ rows \subseteq Row
  /\ lastId \in 0 .. MaxId
  /\ \A r \in rows : /\ r.id <= lastId /\ (Over(r) => MayBeOver(r))
                     /\ (r.id \in idList => MayBeOver(r))
  /\ \A r, s \in rows : r.id = s.id \/ SameName(r, s) => r = s
  /\ DOMAIN doing = Clients /\ doing = [c \in Clients |-> doing[c]]
  /\ \A c \in Clients : Command(doing[c])
  /\ idList \subseteq 1 .. lastId

--------------------------------------------------------------------------------
(* Rows                                                                        *)

LEMMA BoundTyping == MaxId \in Nat /\ MaxTtl \in Nat /\ Never = -2 /\ 0 .. MaxId \subseteq Nat
BY BoundAssumption DEF Never

LEMMA NewRowType ==
  ASSUME NEW kind \in Kinds, NEW k \in Keys, NEW n \in Names, NEW id \in 1 .. MaxId
  PROVE  LET r == NewRow(kind, k, n, id) IN
           /\ r \in Row /\ ~Over(r)
           /\ r.id = id /\ r.kind = kind /\ r.key = k /\ r.name = n
BY BoundTyping DEF NewRow, Row, Ttl, Over

\* The positions of a range of items are the numbers up to how many names there are.
LEMMA ItemsInjective ==
  ASSUME NEW items \in SetToSeqs(Names)
  PROVE  /\ Cardinality(Names) \in Nat
         /\ DOMAIN items = 1 .. Cardinality(Names)
         /\ \A i \in DOMAIN items : items[i] \in Names
         /\ \A i, j \in DOMAIN items : items[i] = items[j] => i = j
<1>1. Cardinality(Names) \in Nat
  BY NameAssumption, FS_CardinalityType
<1> QED
  BY <1>1 DEF SetToSeqs

LEMMA CollectionsInit == Init => CollectionsInv
BY BoundTyping DEF Init, CollectionsInv, Command, Idle

--------------------------------------------------------------------------------
(* Sorting by identity                                                         *)

\* An identity's position is the number of those up to it, and no two have the same.
LEMMA SortingExists ==
  ASSUME NEW S, S \subseteq Nat, IsFiniteSet(S)
  PROVE  \E list \in SetToSeqs(S) : \A i, j \in DOMAIN list : i < j => list[i] < list[j]
<1> DEFINE n == Cardinality(S)
<1> DEFINE UpTo(r) == {s \in S : s <= r}
<1> DEFINE rank == [r \in S |-> Cardinality(UpTo(r))]
<1>1. n \in Nat /\ \A r \in S : r \in Nat
  BY FS_CardinalityType
<1>2. ASSUME NEW r \in S
      PROVE  /\ IsFiniteSet(UpTo(r)) /\ UpTo(r) \subseteq S
             /\ rank[r] = Cardinality(UpTo(r)) /\ rank[r] \in 1 .. n
  <2>1. UpTo(r) \in SUBSET S /\ r \in UpTo(r)
    BY <1>1
  <2>2. IsFiniteSet(UpTo(r)) /\ Cardinality(UpTo(r)) <= n
    BY <2>1, FS_Subset
  <2>3. Cardinality(UpTo(r)) \in Nat /\ Cardinality(UpTo(r)) # 0
    BY <2>1, <2>2, FS_CardinalityType, FS_EmptySet
  <2> QED
    BY <1>1, <2>1, <2>2, <2>3
<1>3. ASSUME NEW r \in S, NEW s \in S, r < s
      PROVE  rank[r] < rank[s]
  <2>1. UpTo(r) \subseteq UpTo(s) /\ s \in UpTo(s) /\ s \notin UpTo(r)
    <3>1. r \in Nat /\ s \in Nat
      BY <1>1
    <3>2. \A x \in S : x <= r => x <= s
      BY <1>1, <1>3, <3>1
    <3>3. s <= s /\ ~(s <= r)
      BY <1>3, <3>1
    <3> QED
      BY <3>2, <3>3
  <2>2. Cardinality(UpTo(r)) <= Cardinality(UpTo(s)) /\ Cardinality(UpTo(r)) # Cardinality(UpTo(s))
    BY <1>2, <2>1, FS_Subset
  <2> QED
    BY <1>2, <2>2
<1>4. \A i \in 1 .. n : \E r \in S : rank[r] = i
  <2>1. rank \in [S -> 1 .. n]
    <3>1. \A r \in S : Cardinality(UpTo(r)) \in 1 .. n
      BY <1>2
    <3> QED
      BY <3>1
  <2> HIDE DEF rank
  <2>2. \A r, s \in S : rank[r] = rank[s] => r = s
    <3> SUFFICES ASSUME NEW r \in S, NEW s \in S, rank[r] = rank[s], r # s PROVE FALSE
      OBVIOUS
    <3>1. r < s \/ s < r
      BY <1>1
    <3>2. rank[r] \in Nat /\ rank[s] \in Nat
      BY <1>1, <2>1
    <3> QED
      BY <1>3, <3>1, <3>2
  <2>3. rank \in Injection(S, 1 .. n)
    BY <2>1, <2>2 DEF Injection, IsInjective
  <2>4. IsFiniteSet(1 .. n) /\ Cardinality(1 .. n) = n
    BY <1>1, FS_Interval
  <2>5. rank \in Surjection(S, 1 .. n)
    BY <2>3, <2>4, FS_Injection
  <2> QED
    BY <2>5 DEF Surjection
<1> HIDE DEF rank
<1> DEFINE list == [i \in 1 .. n |-> CHOOSE r \in S : rank[r] = i]
<1>5. \A i \in 1 .. n : list[i] \in S /\ rank[list[i]] = i
  BY <1>4
<1>6. list \in [1 .. n -> S] /\ DOMAIN list = 1 .. n
  BY <1>5
<1> HIDE DEF list
<1>7. \A i, j \in 1 .. n : i # j => list[i] # list[j]
  BY <1>5
<1>8. \A i, j \in 1 .. n : i < j => list[i] < list[j]
  <2> SUFFICES ASSUME NEW i \in 1 .. n, NEW j \in 1 .. n, i < j
               PROVE  list[i] < list[j]
    OBVIOUS
  <2>1. list[i] \in S /\ list[j] \in S /\ rank[list[i]] = i /\ rank[list[j]] = j
    BY <1>5
  <2>2. ~(list[j] < list[i]) /\ list[i] # list[j]
    <3>1. list[j] < list[i] => j < i
      BY <1>3, <2>1
    <3> QED
      BY <1>1, <1>7, <2>1, <3>1
  <2>3. list[i] \in Nat /\ list[j] \in Nat
    BY <1>1, <2>1
  <2> QED
    BY <2>2, <2>3
<1>9. list \in SetToSeqs(S)
  BY <1>6, <1>7 DEF SetToSeqs
<1> QED
  BY <1>6, <1>8, <1>9

\* ById lists a set once, and as many of its members are smaller as stand before.
LEMMA ByIdSorts ==
  ASSUME NEW S, S \subseteq Nat, IsFiniteSet(S)
  PROVE  LET list == ById(S) IN
           /\ \A i \in DOMAIN list : /\ i \in Nat /\ list[i] \in S
                                     /\ Cardinality({s \in S : s < list[i]}) = i - 1
           /\ \A s \in S : \E i \in DOMAIN list : list[i] = s
<1> DEFINE n == Cardinality(S)
<1> DEFINE list == ById(S)
<1>1. n \in Nat /\ \A r \in S : r \in Nat
  BY FS_CardinalityType
<1>2. list \in SetToSeqs(S) /\ \A i, j \in DOMAIN list : i < j => list[i] < list[j]
  BY SortingExists DEF ById
<1> HIDE DEF list
<1>3. /\ list \in [1 .. n -> S] /\ DOMAIN list = 1 .. n
      /\ \A i, j \in 1 .. n : list[i] = list[j] => i = j
  BY <1>2 DEF SetToSeqs
<1>4. \A s \in S : \E i \in 1 .. n : list[i] = s
  <2>1. list \in Injection(1 .. n, S)
    BY <1>3 DEF Injection, IsInjective
  <2>2. Cardinality(1 .. n) = n
    BY <1>1, FS_Interval
  <2>3. list \in Surjection(1 .. n, S)
    BY <1>1, <2>1, <2>2, FS_Injection
  <2> QED
    BY <2>3 DEF Surjection
<1>5. ASSUME NEW i \in 1 .. n
      PROVE  Cardinality({s \in S : s < list[i]}) = i - 1
  <2> DEFINE before == [j \in 1 .. i - 1 |-> list[j]]
  <2> DEFINE Smaller == {s \in S : s < list[i]}
  <2>1. i - 1 \in Nat /\ \A j \in 1 .. i - 1 : j \in 1 .. n /\ j < i
    BY <1>1, <1>5
  <2>2. ASSUME NEW s \in Smaller
        PROVE  \E j \in 1 .. i - 1 : list[j] = s
    <3>1. PICK j \in 1 .. n : list[j] = s
      BY <1>4
    <3>2. ~(i < j) /\ i # j
      <4>1. list[j] < list[i] /\ list[j] \in Nat /\ list[i] \in Nat
        BY <1>1, <1>3, <3>1
      <4>2. ~(list[i] < list[j]) /\ list[i] # list[j]
        BY <4>1
      <4> QED
        BY <1>2, <1>3, <4>2
    <3> QED
      BY <1>1, <3>1, <3>2
  <2>3. before \in Bijection(1 .. i - 1, Smaller)
    <3>1. \A j \in 1 .. i - 1 : before[j] = list[j] /\ list[j] \in Smaller
      BY <1>2, <1>3, <2>1
    <3>2. \A j, k \in 1 .. i - 1 : before[j] = before[k] => j = k
      BY <1>3, <2>1, <3>1
    <3>3. before \in [1 .. i - 1 -> Smaller]
      BY <3>1
    <3> HIDE DEF before, Smaller
    <3> QED
      BY <2>2, <3>1, <3>2, <3>3 DEF Bijection, Injection, Surjection, IsInjective
  <2>4. IsFiniteSet(1 .. i - 1) /\ Cardinality(1 .. i - 1) = i - 1
    BY <2>1, FS_Interval
  <2> QED
    BY <2>3, <2>4, FS_Bijection DEF ExistsBijection
<1> QED
  BY <1>3, <1>4, <1>5 DEF list

\* Outside are those with fewer than `from' or more than `to' older ones.
LEMMA OutsideCounts ==
  ASSUME NEW S, S \subseteq 1 .. MaxId, NEW from \in Nat, NEW to \in Nat
  PROVE  \A s : s \in Outside(S, from, to)
                 <=> s \in S /\ Cardinality({x \in S : x < s}) \notin from .. to
<1> DEFINE list == ById(S)
<1>1. S \subseteq Nat /\ IsFiniteSet(S)
  <2>1. IsFiniteSet(1 .. MaxId) /\ S \in SUBSET (1 .. MaxId) /\ MaxId \in Nat
    BY BoundTyping, FS_Interval
  <2>2. IsFiniteSet(S)
    BY <2>1, FS_Subset
  <2> QED
    BY <2>1, <2>2
<1>2. /\ \A i \in DOMAIN list : /\ i \in Nat /\ list[i] \in S
                                 /\ Cardinality({s \in S : s < list[i]}) = i - 1
      /\ \A s \in S : \E i \in DOMAIN list : list[i] = s
  BY <1>1, ByIdSorts
<1> HIDE DEF list
<1>3. ASSUME NEW i \in Nat
      PROVE  (i - 1 < from \/ i - 1 > to) <=> i - 1 \notin from .. to
  OBVIOUS
<1>4. Outside(S, from, to) = {list[i] : i \in {j \in DOMAIN list : j - 1 < from \/ j - 1 > to}}
  BY DEF Outside, list
<1>5. ASSUME NEW i \in DOMAIN list
      PROVE  (i - 1 < from \/ i - 1 > to)
               <=> Cardinality({x \in S : x < list[i]}) \notin from .. to
  BY <1>2, <1>3
<1>6. \A s \in Outside(S, from, to) : s \in S /\ Cardinality({x \in S : x < s}) \notin from .. to
  BY <1>2, <1>4, <1>5
<1>7. ASSUME NEW s \in S, Cardinality({x \in S : x < s}) \notin from .. to
      PROVE  s \in Outside(S, from, to)
  <2>1. PICK i \in DOMAIN list : list[i] = s
    BY <1>2
  <2> QED
    BY <1>4, <1>5, <1>7, <2>1
<1> QED
  BY <1>6, <1>7

--------------------------------------------------------------------------------
(* Steps                                                                       *)

LEMMA ClientInvariant ==
  ASSUME CollectionsInv, NEW c \in Clients, ClientStep(c)
  PROVE  CollectionsInv' /\ idList' = idList
<1>1. /\ rows \subseteq Row /\ lastId \in 0 .. MaxId /\ lastId \in Nat
      /\ \A r \in rows : /\ r.id \in 1 .. MaxId /\ r.id \in Nat /\ r.id <= lastId
                         /\ r.kind \in Kinds
                         /\ (Over(r) => MayBeOver(r)) /\ (r.id \in idList => MayBeOver(r))
      /\ \A r, s \in rows : r.id = s.id \/ SameName(r, s) => r = s
      /\ \A b \in Clients : Command(doing[b])
      /\ idList \subseteq 1 .. lastId
  BY BoundTyping DEF CollectionsInv, Row
<1>2. Command(Idle)
  BY DEF Command, Idle
\* Rows are added, with new identities and to places the unique indexes leave free.
<1>3. ASSUME NEW N, rows' = rows \cup N, N \subseteq Row,
             lastId' \in 0 .. MaxId, lastId <= lastId', idList' = idList,
             \A r \in N : lastId < r.id /\ r.id <= lastId' /\ ~Over(r),
             \A r, s \in N : r.id = s.id \/ SameName(r, s) => r = s,
             \A r \in rows, s \in N : ~SameName(r, s)
      PROVE  /\ rows' \subseteq Row /\ lastId' \in 0 .. MaxId
             /\ \A r \in rows' : /\ r.id <= lastId' /\ (Over(r) => MayBeOver(r))
                                 /\ (r.id \in idList' => MayBeOver(r))
             /\ \A r, s \in rows' : r.id = s.id \/ SameName(r, s) => r = s
             /\ idList' \subseteq 1 .. lastId'
  <2>1. \A r \in N : r.id \in Nat /\ r.id \notin idList /\ \A s \in rows : s.id # r.id
    <3>1. \A r \in N : r.id \in 1 .. MaxId
      BY <1>3 DEF Row
    <3> QED
      BY <3>1, <1>1, <1>3
  <2>2. \A r \in rows, s \in N : ~SameName(r, s) /\ ~SameName(s, r)
    BY <1>3 DEF SameName
  <2>3. lastId' \in Nat /\ \A r \in rows : r.id <= lastId'
    BY <1>1, <1>3, BoundTyping
  <2>4. idList' \subseteq 1 .. lastId'
    BY <1>1, <1>3, <2>3
  <2> QED
    BY <1>1, <1>3, <2>1, <2>2, <2>3, <2>4
\* Rows go, or keep all but their expiry.
<1>4. ASSUME NEW f, rows' \subseteq {f[r] : r \in rows},
             \A r \in rows : /\ f[r] \in Row /\ f[r].id = r.id /\ f[r].kind = r.kind
                             /\ f[r].key = r.key /\ f[r].name = r.name
                             /\ (MayBeOver(r) => MayBeOver(f[r]))
                             /\ (Over(f[r]) => MayBeOver(f[r])),
             lastId' = lastId, idList' = idList
      PROVE  /\ rows' \subseteq Row /\ lastId' \in 0 .. MaxId
             /\ \A r \in rows' : /\ r.id <= lastId' /\ (Over(r) => MayBeOver(r))
                                 /\ (r.id \in idList' => MayBeOver(r))
             /\ \A r, s \in rows' : r.id = s.id \/ SameName(r, s) => r = s
             /\ idList' \subseteq 1 .. lastId'
  <2>1. \A r, s \in rows : SameName(f[r], f[s]) => SameName(r, s)
    BY <1>4 DEF SameName
  <2> QED
    BY <1>1, <1>4, <2>1
<1>5. ASSUME rows' \subseteq rows, lastId' = lastId, idList' = idList
      PROVE  /\ rows' \subseteq Row /\ lastId' \in 0 .. MaxId
             /\ \A r \in rows' : /\ r.id <= lastId' /\ (Over(r) => MayBeOver(r))
                                 /\ (r.id \in idList' => MayBeOver(r))
             /\ \A r, s \in rows' : r.id = s.id \/ SameName(r, s) => r = s
             /\ idList' \subseteq 1 .. lastId'
  BY <1>1, <1>5
<1>6. ASSUME NEW kind \in Kinds, NEW k \in Keys, NEW n \in Names, Insert(kind, k, n),
             Unique(kind) => Named(kind, k, n) = {}, idList' = idList
      PROVE  /\ rows' \subseteq Row /\ lastId' \in 0 .. MaxId
             /\ \A r \in rows' : /\ r.id <= lastId' /\ (Over(r) => MayBeOver(r))
                                 /\ (r.id \in idList' => MayBeOver(r))
             /\ \A r, s \in rows' : r.id = s.id \/ SameName(r, s) => r = s
             /\ idList' \subseteq 1 .. lastId'
  <2> DEFINE new == NewRow(kind, k, n, lastId')
  <2>1. lastId' = lastId + 1 /\ lastId' \in 1 .. MaxId /\ rows' = rows \cup {new}
    BY <1>1, <1>6, BoundTyping DEF Insert
  <2>2. /\ new \in Row /\ ~Over(new) /\ new.id = lastId'
        /\ new.kind = kind /\ new.key = k /\ new.name = n
    BY <2>1, NewRowType
  <2>3. \A r \in rows : ~SameName(r, new)
    BY <1>6, <2>2 DEF SameName, Named, OfKey
  <2> HIDE DEF new
  <2> DEFINE N == {new}
  <2>4. lastId' \in 0 .. MaxId /\ lastId <= lastId' /\ lastId < lastId' /\ lastId' <= lastId'
    BY <1>1, <2>1, BoundTyping
  <2>5. /\ N \subseteq Row
        /\ \A r \in N : lastId < r.id /\ r.id <= lastId' /\ ~Over(r)
        /\ \A r, s \in N : r.id = s.id \/ SameName(r, s) => r = s
        /\ \A r \in rows, s \in N : ~SameName(r, s)
    BY <2>2, <2>3, <2>4
  <2>6. rows' = rows \cup N
    BY <2>1
  <2> HIDE DEF N
  <2> QED
    BY <1>3, <1>6, <2>4, <2>5, <2>6
\* The command that client c is at.
<1>7. ASSUME NEW u, Command(u), doing' = [doing EXCEPT ![c] = u]
      PROVE  /\ DOMAIN doing' = Clients /\ doing' = [b \in Clients |-> doing'[b]]
             /\ \A b \in Clients : Command(doing'[b])
  BY <1>1, <1>7 DEF CollectionsInv
<1>8. ASSUME NEW k \in Keys, NEW kind \in Kinds, NEW n \in Names, UpsertReads(c, kind, k, n)
      PROVE  CollectionsInv' /\ idList' = idList
  <2> DEFINE u == [op |-> "upsert", kind |-> kind, key |-> k, name |-> n,
                   found |-> Seen(Named(kind, k, n))]
  <2>1. doing' = [doing EXCEPT ![c] = u] /\ UNCHANGED <<rows, lastId, idList>> /\ Unique(kind)
    BY <1>8 DEF UpsertReads, Begin
  <2>2. Command(u)
    <3>1. \A r \in Named(kind, k, n) : r.id \in 1 .. MaxId /\ r.ttl \in Ttl
      BY <1>1 DEF Named, OfKey, Row
    <3>2. Seen(Named(kind, k, n)) \subseteq [id : 1 .. MaxId, ttl : Ttl]
      BY <3>1 DEF Seen
    <3> QED
      BY <2>1, <3>2 DEF Command, Upserts
  <2> HIDE DEF u
  <2> QED
    BY <1>5, <1>7, <2>1, <2>2 DEF CollectionsInv
<1>9. ASSUME UpsertWrites(c)
      PROVE  CollectionsInv' /\ idList' = idList
  <2> DEFINE u == doing[c]
  <2>1. u.op = "upsert" /\ doing' = [doing EXCEPT ![c] = Idle] /\ idList' = idList
    BY <1>9 DEF UpsertWrites, End
  <2>2. /\ u.kind \in Kinds /\ u.key \in Keys /\ u.name \in Names
        /\ \A e \in u.found : e.ttl \in Ttl
    BY <1>1, <2>1 DEF Command, Upserts
  <2>3. CASE Named(u.kind, u.key, u.name) = {} /\ Insert(u.kind, u.key, u.name)
    BY <1>2, <1>6, <1>7, <2>1, <2>2, <2>3 DEF CollectionsInv
  <2>4. ASSUME NEW read \in u.found, NEW r \in rows,
               rows' = (rows \ {r}) \cup {Updated(r, read)}, UNCHANGED lastId
        PROVE  CollectionsInv' /\ idList' = idList
    <3> DEFINE f == [s \in rows |-> IF s = r THEN Updated(r, read) ELSE s]
    <3>1. read.ttl \in Ttl /\ r \in Row
      BY <1>1, <2>2
    <3>2. LET w == Updated(r, read) IN
            /\ w \in Row /\ w.id = r.id /\ w.kind = r.kind
            /\ w.key = r.key /\ w.name = r.name
            /\ w.ttl = read.ttl /\ w.due = r.due
            /\ (w.restored <=> r.restored \/ r.ttl # read.ttl)
      BY <3>1 DEF Updated, Row
    <3>3. MayBeOver(r) => MayBeOver(Updated(r, read))
      BY <3>2 DEF MayBeOver
    <3>4. Over(Updated(r, read)) => MayBeOver(Updated(r, read))
      BY <1>1, <3>2 DEF MayBeOver, Over
    <3>5. ASSUME NEW s \in rows
          PROVE  /\ f[s] \in Row /\ f[s].id = s.id /\ f[s].kind = s.kind
                 /\ f[s].key = s.key /\ f[s].name = s.name
                 /\ (MayBeOver(s) => MayBeOver(f[s])) /\ (Over(f[s]) => MayBeOver(f[s]))
      BY <1>1, <3>2, <3>3, <3>4
    <3>6. rows' \subseteq {f[s] : s \in rows} /\ lastId' = lastId /\ idList' = idList
      BY <2>1, <2>4
    <3> HIDE DEF f
    <3> QED
      BY <1>2, <1>4, <1>7, <2>1, <3>5, <3>6 DEF CollectionsInv
  <2> QED
    BY <1>9, <2>3, <2>4 DEF UpsertWrites
<1>10. ASSUME Fails(c)
       PROVE  CollectionsInv' /\ idList' = idList
  BY <1>2, <1>5, <1>7, <1>10 DEF Fails, End, CollectionsInv
<1>11. ASSUME NEW k \in Keys, AddRangeToSet(c, k)
       PROVE  CollectionsInv' /\ idList' = idList
  <2> DEFINE m == Cardinality(Names)
  <2>1. PICK items \in SetToSeqs(Names) :
          rows' = rows \cup {NewRow("set", k, items[i], lastId + i) : i \in DOMAIN items}
    BY <1>11 DEF AddRangeToSet
  <2> DEFINE N == {NewRow("set", k, items[i], lastId + i) : i \in DOMAIN items}
  <2>2. /\ OfKey("set", k) = {} /\ lastId' = lastId + m /\ lastId + m <= MaxId
        /\ "set" \in Kinds /\ doing' = doing /\ idList' = idList
    BY <1>11 DEF AddRangeToSet, Alone
  <2>3. /\ m \in Nat /\ DOMAIN items = 1 .. m
        /\ \A i \in DOMAIN items : items[i] \in Names
        /\ \A i, j \in DOMAIN items : items[i] = items[j] => i = j
    BY ItemsInjective
  <2>4. \A i \in DOMAIN items : LET r == NewRow("set", k, items[i], lastId + i) IN
          /\ r \in Row /\ ~Over(r)
          /\ r.id = lastId + i /\ r.kind = "set" /\ r.key = k /\ r.name = items[i]
    <3>1. \A i \in DOMAIN items : lastId + i \in 1 .. MaxId
      BY <1>1, <2>2, <2>3, BoundTyping
    <3> QED
      BY <2>2, <2>3, <3>1, NewRowType
  <2>5. lastId' \in 0 .. MaxId /\ lastId <= lastId'
    BY <1>1, <2>2, <2>3, BoundTyping
  <2>6. \A r \in N : r \in Row /\ lastId < r.id /\ r.id <= lastId' /\ ~Over(r)
    BY <1>1, <2>2, <2>3, <2>4
  <2>7. \A r, s \in N : r.id = s.id \/ SameName(r, s) => r = s
    <3>1. ASSUME NEW i \in DOMAIN items, NEW j \in DOMAIN items, i # j
          PROVE  items[i] # items[j] /\ lastId + i # lastId + j
      BY <1>1, <2>3, <3>1
    <3> QED
      BY <2>4, <3>1 DEF SameName
  <2>8. \A r \in rows, s \in N : ~SameName(r, s)
    BY <2>2, <2>4 DEF SameName, OfKey
  <2>9. rows' = rows \cup N /\ N \subseteq Row
    BY <2>1, <2>6
  <2> HIDE DEF N, m
  <2>10. /\ rows' \subseteq Row /\ lastId' \in 0 .. MaxId
         /\ \A r \in rows' : /\ r.id <= lastId' /\ (Over(r) => MayBeOver(r))
                             /\ (r.id \in idList' => MayBeOver(r))
         /\ \A r, s \in rows' : r.id = s.id \/ SameName(r, s) => r = s
         /\ idList' \subseteq 1 .. lastId'
    BY <1>3, <2>2, <2>5, <2>6, <2>7, <2>8, <2>9
  <2> QED
    BY <2>2, <2>10 DEF CollectionsInv
<1>12. ASSUME NEW k \in Keys, NEW n \in Names, InsertToList(c, k, n)
       PROVE  CollectionsInv' /\ idList' = idList
  <2>1. /\ Insert("list", k, n) /\ "list" \in Kinds /\ ~Unique("list")
        /\ doing' = doing /\ idList' = idList
    BY <1>12 DEF InsertToList, Alone, Unique
  <2> QED
    BY <1>6, <2>1 DEF CollectionsInv
<1>13. ASSUME NEW k \in Keys, NEW kind \in Kinds,
              DeleteByKey(c, kind, k) \/ \E n \in Names : DeleteByKeyValue(c, kind, k, n)
       PROVE  CollectionsInv' /\ idList' = idList
  <2>1. rows' \subseteq rows /\ UNCHANGED <<lastId, doing, idList>>
    BY <1>13 DEF DeleteByKey, DeleteByKeyValue, Alone
  <2> QED
    BY <1>5, <2>1 DEF CollectionsInv
<1>14. ASSUME NEW k \in Keys, NEW kind \in Kinds,
              NEW ttl \in {Never} \cup 0 .. MaxTtl, SetExpireAt(c, kind, k, ttl)
       PROVE  CollectionsInv' /\ idList' = idList
  <2> DEFINE f == [r \in rows |-> IF r \in OfKey(kind, k) THEN [r EXCEPT !.ttl = ttl] ELSE r]
  <2>1. rows' = {f[r] : r \in rows} /\ UNCHANGED <<lastId, doing, idList>>
    BY <1>14 DEF SetExpireAt, Alone
  <2>2. ttl \in Ttl /\ ttl # -1
    BY BoundTyping DEF Ttl
  <2>3. ASSUME NEW r \in rows
        PROVE  /\ f[r] \in Row /\ f[r].id = r.id /\ f[r].kind = r.kind
               /\ f[r].key = r.key /\ f[r].name = r.name
               /\ (MayBeOver(r) => MayBeOver(f[r])) /\ (Over(f[r]) => MayBeOver(f[r]))
    BY <1>1, <2>2 DEF Row, Over, MayBeOver
  <2> HIDE DEF f
  <2>4. rows' \subseteq {f[r] : r \in rows} /\ lastId' = lastId /\ idList' = idList
    BY <2>1
  <2> QED
    BY <1>4, <2>1, <2>3, <2>4 DEF CollectionsInv
<1>15. ASSUME NEW k \in Keys, NEW from \in 0 .. 1, NEW to \in 0 .. 1, TrimReads(c, k, from, to)
       PROVE  CollectionsInv' /\ idList' = idList
  <2> DEFINE u == [op |-> "trim", key |-> k, from |-> from, to |-> to,
                   found |-> Ids(OfKey("list", k))]
  <2>1. doing' = [doing EXCEPT ![c] = u] /\ UNCHANGED <<rows, lastId, idList>>
    BY <1>15 DEF TrimReads, Begin
  <2>2. Command(u)
    <3>1. Ids(OfKey("list", k)) \subseteq 1 .. MaxId
      BY <1>1 DEF Ids, OfKey
    <3> QED
      BY <3>1 DEF Command
  <2> HIDE DEF u
  <2> QED
    BY <1>5, <1>7, <2>1, <2>2 DEF CollectionsInv
<1>16. ASSUME TrimDeletes(c)
       PROVE  CollectionsInv' /\ idList' = idList
  <2>1. rows' \subseteq rows /\ lastId' = lastId /\ idList' = idList
    BY <1>16 DEF TrimDeletes, End
  <2> QED
    BY <1>2, <1>5, <1>7, <1>16, <2>1 DEF TrimDeletes, End, CollectionsInv
<1> QED
  BY <1>8, <1>9, <1>10, <1>11, <1>12, <1>13, <1>14, <1>15, <1>16 DEF ClientStep

LEMMA SweepInvariant ==
  ASSUME CollectionsInv, (\E kind \in Kinds : SweepSelect(kind)) \/ SweepDelete
  PROVE  CollectionsInv'
<1>1. CASE SweepDelete
  BY <1>1 DEF SweepDelete, CollectionsInv
<1>2. ASSUME NEW kind \in Kinds, SweepSelect(kind)
      PROVE  CollectionsInv'
  <2> DEFINE R == {r \in rows : r.kind = kind /\ Over(r)}
  <2>1. PICK B \in kSubset(Min({BatchSize, Cardinality(R)}), R) : idList' = Ids(B)
    BY <1>2 DEF SweepSelect
  <2>2. B \subseteq R /\ UNCHANGED <<rows, lastId, doing>>
    BY <1>2 DEF kSubset, SweepSelect
  <2>3. \A r \in rows : r.id \in idList' => MayBeOver(r)
    BY <2>1, <2>2 DEF CollectionsInv, Ids
  <2>4. idList' \subseteq 1 .. lastId
    <3>1. \A r \in rows : r.id \in 1 .. MaxId /\ r.id <= lastId
      BY DEF CollectionsInv, Row
    <3> QED
      BY <2>1, <2>2, <3>1, BoundTyping DEF Ids, CollectionsInv
  <2> QED
    BY <2>2, <2>3, <2>4 DEF CollectionsInv
<1> QED
  BY <1>1, <1>2

LEMMA TickInvariant ==
  ASSUME CollectionsInv, Tick
  PROVE  CollectionsInv'
<1>1. /\ rows' = {Older(r) : r \in rows} /\ UNCHANGED <<lastId, idList>>
      /\ doing' = [c \in Clients |-> OlderRead(doing[c])]
  BY DEF Tick
<1>2. ASSUME NEW ttl \in Ttl
      PROVE  Left(ttl) \in Ttl /\ (Left(ttl) = -1 => ttl = -1 \/ ttl = 0)
  BY BoundTyping DEF Ttl, Left
<1>3. ASSUME NEW r \in rows
      PROVE  /\ Older(r) \in Row /\ Older(r).id = r.id /\ Older(r).kind = r.kind
             /\ Older(r).key = r.key /\ Older(r).name = r.name
             /\ (MayBeOver(r) => MayBeOver(Older(r)))
             /\ (Over(Older(r)) => MayBeOver(Older(r)))
  <2>1. r \in Row /\ r.ttl \in Ttl /\ (Over(r) => MayBeOver(r))
    BY DEF CollectionsInv, Row
  <2>2. LET w == Older(r) IN
          /\ w \in Row /\ w.id = r.id /\ w.kind = r.kind
          /\ w.key = r.key /\ w.name = r.name
          /\ w.ttl = Left(r.ttl) /\ (w.due <=> r.due \/ r.ttl = 0)
          /\ (w.restored <=> r.restored)
    BY <1>2, <2>1 DEF Older, Row
  <2> QED
    BY <1>2, <2>1, <2>2 DEF Over, MayBeOver
<1>4. \A r, s \in rows : SameName(Older(r), Older(s)) => SameName(r, s)
  BY <1>3 DEF SameName
<1>5. ASSUME NEW c \in Clients
      PROVE  Command(OlderRead(doing[c]))
  <2> DEFINE u == doing[c]
  <2>1. Command(u)
    BY DEF CollectionsInv
  <2>2. CASE u.op = "upsert"
    <3> DEFINE aged == {[e EXCEPT !.ttl = Left(@)] : e \in u.found}
    <3> DEFINE w == [u EXCEPT !.found = aged]
    <3>1. OlderRead(u) = w
      BY <2>2 DEF OlderRead
    <3>2. u \in Upserts /\ Unique(u.kind)
      BY <2>1, <2>2 DEF Command
    <3>3. \A e \in u.found : [e EXCEPT !.ttl = Left(@)] \in [id : 1 .. MaxId, ttl : Ttl]
      BY <1>2, <3>2 DEF Upserts
    <3>4. aged \subseteq [id : 1 .. MaxId, ttl : Ttl]
      BY <3>3
    <3> HIDE DEF aged
    <3>5. w \in Upserts /\ w.op = u.op /\ w.kind = u.kind
      BY <3>2, <3>4 DEF Upserts
    <3> HIDE DEF w
    <3> QED
      BY <2>2, <3>1, <3>2, <3>5 DEF Command
  <2>3. CASE u.op # "upsert"
    BY <2>1, <2>3 DEF OlderRead
  <2> QED
    BY <2>2, <2>3
<1> QED
  BY <1>1, <1>3, <1>4, <1>5 DEF CollectionsInv

--------------------------------------------------------------------------------
(* The invariant, and what follows from it                                     *)

LEMMA CollectionsInvariant == Spec => []CollectionsInv
<1>1. CollectionsInv /\ [Next]_vars => CollectionsInv'
  <2> SUFFICES ASSUME CollectionsInv, [Next]_vars PROVE CollectionsInv'
    OBVIOUS
  <2>1. CASE Next
    BY <2>1, ClientInvariant, SweepInvariant, TickInvariant DEF Next
  <2>2. CASE UNCHANGED vars
    BY <2>2 DEF vars, CollectionsInv
  <2> QED
    BY <2>1, <2>2
<1> QED
  BY <1>1, CollectionsInit, PTL DEF Spec

\* The tables keep their type, an identity is given once, and no expiry is over that
\* has not run down.
THEOREM TypeCorrect == Spec => []TypeOK
<1>1. CollectionsInv => TypeOK
  BY DEF CollectionsInv, TypeOK, Command, MayBeOver
<1> QED
  BY <1>1, CollectionsInvariant, PTL

\* However upserts, ranges, deletes and the sweep interleave, a set has one row for an
\* element and a hash one for a field.
THEOREM OneRowForEachName == Spec => []OneRowPerName
<1>1. CollectionsInv => OneRowPerName
  BY DEF CollectionsInv, OneRowPerName, SameName
<1> QED
  BY <1>1, CollectionsInvariant, PTL

\* A trim of a list of any length deletes, of the elements it read, exactly those
\* with fewer than from or more than to older ones, and no other row, whatever is
\* added and removed while it runs.
THEOREM TrimKeepsItsRange == Spec => TrimKeepsRange
<1> DEFINE Kept(c) ==
      LET t == doing[c]
          Inside(id) == Cardinality({s \in t.found : s < id}) \in t.from .. t.to
      IN  t.op = "trim" /\ doing'[c] = Idle /\ rows' # rows =>
            rows' = {r \in rows : r.id \in t.found => Inside(r.id)}
<1>1. ASSUME CollectionsInv, Next, NEW c \in Clients
      PROVE  Kept(c)
  <2> SUFFICES ASSUME doing[c].op = "trim", doing'[c] = Idle, rows' # rows
               PROVE  rows' = {r \in rows : r.id \in doing[c].found =>
                                 Cardinality({s \in doing[c].found : s < r.id})
                                   \in doing[c].from .. doing[c].to}
    OBVIOUS
  <2>1. doing[c] # Idle /\ doing'[c] # doing[c]
    BY DEF Idle
  <2>2. ~Tick /\ ~SweepDelete /\ \A kind \in Kinds : ~SweepSelect(kind)
    BY <2>1 DEF Tick, OlderRead, SweepDelete, SweepSelect
  <2>3. PICK b \in Clients : ClientStep(b)
    BY <1>1, <2>2 DEF Next
  <2>4. \/ doing' = doing
        \/ doing[b] = Idle /\ \A d \in Clients \ {b} : doing'[d] = doing[d]
        \/ UpsertWrites(b) \/ Fails(b) \/ TrimDeletes(b)
    BY <1>1, <2>3 DEF CollectionsInv, ClientStep, UpsertReads, Begin, AddRangeToSet, InsertToList,
                      DeleteByKeyValue, DeleteByKey, SetExpireAt, Alone, TrimReads
  <2>5. UpsertWrites(b) \/ Fails(b) \/ TrimDeletes(b)
    BY <2>1, <2>4
  <2>6. doing' = [doing EXCEPT ![b] = Idle]
    BY <2>5 DEF UpsertWrites, Fails, TrimDeletes, End
  <2>7. b = c
    BY <1>1, <2>1, <2>6 DEF CollectionsInv
  <2>8. TrimDeletes(c)
    BY <2>5, <2>7 DEF UpsertWrites, Fails
  <2> DEFINE found == doing[c].found
  <2> DEFINE from == doing[c].from
  <2> DEFINE to == doing[c].to
  <2>9. rows' = {r \in rows : r.id \notin Outside(found, from, to)}
    BY <2>8 DEF TrimDeletes
  <2>10. found \subseteq 1 .. MaxId /\ from \in Nat /\ to \in Nat
    BY <1>1 DEF CollectionsInv, Command
  <2> HIDE DEF found, from, to
  <2>11. \A s : s \in Outside(found, from, to)
                <=> s \in found /\ Cardinality({x \in found : x < s}) \notin from .. to
    BY <2>10, OutsideCounts, ZenonT(30)
  <2> QED
    BY <2>9, <2>11 DEF found, from, to
<1>2. ASSUME CollectionsInv, [Next]_vars
      PROVE  [\A c \in Clients : Kept(c)]_vars
  BY <1>1, <1>2
<1> QED
  BY <1>2, CollectionsInvariant, PTL DEF Spec, TrimKeepsRange

\* The sweep deletes no row that was never due and was given back no old expiry,
\* whatever came between its select and its delete.
THEOREM SweepSparesNewRows == Spec => SweepSparesNew
<1> DEFINE Spared == idList # {} /\ idList' = {} => \A r \in rows \ rows' : r.due \/ r.restored
<1>1. ASSUME CollectionsInv, Next
      PROVE  Spared
  <2>1. CASE SweepDelete
    BY <1>1, <2>1 DEF SweepDelete, CollectionsInv, MayBeOver
  <2>2. CASE \E c \in Clients : ClientStep(c)
    BY <1>1, <2>2, ClientInvariant
  <2> QED
    BY <1>1, <2>1, <2>2 DEF Next, SweepSelect, Tick
<1>2. ASSUME CollectionsInv, [Next]_vars
      PROVE  [Spared]_vars
  BY <1>1, <1>2
<1> QED
  BY <1>2, CollectionsInvariant, PTL DEF Spec, SweepSparesNew

\* An upsert that commits only if what it read is still so gives back no old expiry.
Unrestored == \A r \in rows : ~r.restored

LEMMA SerializableRestoresNothing ==
  ASSUME CollectionsInv, Serializable, Unrestored, [Next]_vars
  PROVE  Unrestored'
<1>1. rows \subseteq Row /\ \A r, s \in rows : r.id = s.id => r = s
  BY DEF CollectionsInv
<1>2. \A kind, k, n, id : ~NewRow(kind, k, n, id).restored
  BY DEF NewRow
<1>3. ASSUME NEW c \in Clients, ClientStep(c)
      PROVE  Unrestored'
  <2>1. CASE UpsertWrites(c)
    <3> DEFINE u == doing[c]
    <3> DEFINE Present == Named(u.kind, u.key, u.name)
    <3>1. CASE Insert(u.kind, u.key, u.name)
      BY <1>2, <3>1 DEF Insert, Unrestored
    <3>2. ASSUME NEW read \in u.found, NEW r \in rows, r.id = read.id,
                 rows' = (rows \ {r}) \cup {Updated(r, read)}
          PROVE  Unrestored'
      <4>1. read \in Seen(Present)
        BY <2>1, <3>2 DEF UpsertWrites, MayCommit
      <4>2. PICK p \in Present : read = [id |-> p.id, ttl |-> p.ttl]
        BY <4>1 DEF Seen
      <4>3. p \in rows /\ p.id = r.id /\ p.ttl = read.ttl
        BY <3>2, <4>2 DEF Named, OfKey
      <4>4. r.ttl = read.ttl /\ r \in Row
        BY <1>1, <4>3
      <4>5. ~Updated(r, read).restored
        BY <4>4 DEF Updated, Row, Unrestored
      <4> QED
        BY <3>2, <4>5 DEF Unrestored
    <3> QED
      BY <2>1, <3>1, <3>2 DEF UpsertWrites
  <2>2. ASSUME NEW k \in Keys, AddRangeToSet(c, k)
        PROVE  Unrestored'
    BY <1>2, <2>2 DEF AddRangeToSet, Unrestored
  <2>3. ASSUME NEW k \in Keys, NEW n \in Names, InsertToList(c, k, n)
        PROVE  Unrestored'
    BY <1>2, <2>3 DEF InsertToList, Insert, Unrestored
  <2>4. ASSUME NEW k \in Keys, NEW kind \in Kinds, NEW ttl, SetExpireAt(c, kind, k, ttl)
        PROVE  Unrestored'
    <3>1. \A r \in rows : [r EXCEPT !.ttl = ttl].restored = r.restored
      BY <1>1 DEF Row
    <3> QED
      BY <2>4, <3>1 DEF SetExpireAt, Unrestored
  <2>5. CASE rows' \subseteq rows
    BY <2>5 DEF Unrestored
  <2> QED
    BY <1>3, <2>1, <2>2, <2>3, <2>4, <2>5
      DEF ClientStep, UpsertReads, Begin, Fails, TrimReads, TrimDeletes,
          DeleteByKeyValue, DeleteByKey
<1>4. CASE Tick
  <2>1. \A r \in rows : Older(r).restored = r.restored
    BY <1>1 DEF Older, Row
  <2> QED
    BY <1>4, <2>1 DEF Tick, Unrestored
<1>5. CASE rows' \subseteq rows
  BY <1>5 DEF Unrestored
<1>6. CASE \E c \in Clients : ClientStep(c)
  BY <1>3, <1>6 DEF ClientStep
<1>7. CASE (\E kind \in Kinds : SweepSelect(kind)) \/ SweepDelete \/ UNCHANGED vars
  BY <1>5, <1>7 DEF vars, SweepSelect, SweepDelete
<1> QED
  BY <1>4, <1>6, <1>7 DEF Next

\* At Serializable the sweep deletes only rows whose own expiry has run down.
THEOREM SerializableSweepSpares ==
  ASSUME Serializable
  PROVE  Spec => [][idList # {} /\ idList' = {} => \A r \in rows \ rows' : r.due]_vars
<1>1. Init => Unrestored
  BY DEF Init, Unrestored
<1>2. Spec => []Unrestored
  <2>1. CollectionsInv /\ Unrestored /\ [Next]_vars => Unrestored'
    BY SerializableRestoresNothing
  <2> QED
    BY <1>1, <2>1, CollectionsInvariant, PTL DEF Spec
<1>3. ASSUME Unrestored,
             [idList # {} /\ idList' = {} => \A r \in rows \ rows' : r.due \/ r.restored]_vars
      PROVE  [idList # {} /\ idList' = {} => \A r \in rows \ rows' : r.due]_vars
  BY <1>3 DEF Unrestored
<1> QED
  BY <1>2, <1>3, SweepSparesNewRows, PTL DEF SweepSparesNew
================================================================================
