--------------------------- MODULE JobLifecycle_proofs --------------------------
(***************************************************************************)
(* Proofs about JobLifecycle, for every number of jobs and clients: types, *)
(* an enqueued job has its queue row, the state a job shows is in its      *)
(* history, and the sweep deletes only jobs whose expiry is over.          *)
(***************************************************************************)
EXTENDS JobLifecycle, TLAPS

--------------------------------------------------------------------------------
(* The inductive invariant                                                     *)

\* The database is a record of tables.
DB == [status  : [Jobs -> {"new", "live", "gone"}],
       ttl     : [Jobs -> Never .. JobTtl],
       name    : [Jobs -> Names],
       current : [Jobs -> 0 .. MaxRows],
       last    : [Jobs -> 0 .. MaxRows],
       queue   : SUBSET Ids,
       params  : SUBSET Ids,
       states  : SUBSET Ids,
       nulls   : SUBSET Jobs]

\* A row, or a job's own id, of a job that has been created, with a number in use.
Known(d, r) == d.status[r[1]] # "new" /\ r[2] <= d.last[r[1]]

Numbered(d) ==
  /\ \A j \in Jobs : d.current[j] <= d.last[j]
  /\ \A j \in Jobs : d.status[j] = "new" => d.name[j] = "" /\ d.current[j] = 0
  /\ \A r \in d.queue \cup d.params \cup d.states : Known(d, r)

\* A job that is enqueued does not expire, and has the queue row of that state.
Queued(d, j) ==
  Live(d, j) /\ d.name[j] = "Enqueued" =>
    d.ttl[j] = Never /\ <<j, d.current[j]>> \in d.queue

InHistory(d, j) ==
  Live(d, j) =>
    /\ \A n \in 0 .. MaxRows : <<j, n>> \in d.states => n <= d.current[j]
    /\ d.current[j] # 0 /\ d.ttl[j] # -1 => <<j, d.current[j]>> \in d.states

DbInv(d) == Numbered(d) /\ \A j \in Jobs : Queued(d, j) /\ InHistory(d, j)

\* What client c holds is known; and when it is about to remove a row, that is not
\* the row of the present state of an enqueued job.
ClientInv(d, p, r) ==
  /\ p # "idle" => r \in Ids /\ Known(d, r)
  /\ p = "performed" /\ Live(d, r[1]) /\ d.name[r[1]] = "Enqueued" => r[2] # d.current[r[1]]

\* A row the sweep has selected; its job may have changed since.
Selected(d, s, r) ==
  /\ Known(d, r)
  /\ Live(d, r[1]) =>
       /\ s = "queue" /\ d.name[r[1]] = "Enqueued" => r[2] # d.current[r[1]]
       /\ s = "states" /\ d.ttl[r[1]] # -1 => r[2] # d.current[r[1]]
       /\ s = "jobs" /\ d.ttl[r[1]] # -1 => d.current[r[1]] # 0

LifecycleInv ==
  /\ db \in DB
  /\ pc \in [Clients -> {"idle", "changing", "fetched", "performed"}]
  /\ row \in [Clients -> Ids \cup {NoRow}]
  /\ stage \in Children \cup {"jobs"}
  /\ idList \subseteq Ids
  /\ DbInv(db)
  /\ \A c \in Clients : ClientInv(db, pc[c], row[c])
  /\ \A r \in idList : Selected(db, stage, r)

--------------------------------------------------------------------------------
(* Transactions                                                                *)

\* t is d with job j moved to state `name' under number n, and with rows for j.
Moved(d, t, j, name, ttl, n, Q, S) ==
  /\ t.status  = d.status
  /\ t.ttl     = [d.ttl EXCEPT ![j] = ttl]
  /\ t.name    = [d.name EXCEPT ![j] = name]
  /\ t.current = [d.current EXCEPT ![j] = n]
  /\ t.last    = [d.last EXCEPT ![j] = n]
  /\ t.queue   = d.queue \cup Q
  /\ t.params  = d.params
  /\ t.states  = d.states \cup S

\* What holds of every transaction about job j: no other job changes; j changes only
\* while it is there, and then it shows a state row with a new number; no row goes.
Changes(d, t, j) ==
  /\ t.status = d.status
  /\ \A i \in Jobs : d.last[i] <= t.last[i]
  /\ \A i \in Jobs : i # j \/ ~Live(d, j) =>
       t.name[i] = d.name[i] /\ t.current[i] = d.current[i] /\ t.ttl[i] = d.ttl[i]
  /\ Live(d, j) => t.current[j] > d.last[j]

LEMMA BoundTyping == MaxRows \in Nat /\ JobTtl \in Nat /\ Never = -2
BY BoundAssumption DEF Never

\* The tables of a database, and the rows in them.
LEMMA DbTyping ==
  ASSUME NEW d \in DB
  PROVE  /\ d.status \in [Jobs -> {"new", "live", "gone"}]
         /\ d.ttl \in [Jobs -> Never .. JobTtl]
         /\ \A j \in Jobs : d.current[j] \in Nat /\ d.last[j] \in Nat
         /\ \A r \in d.queue \cup d.params \cup d.states :
              r \in Ids /\ r = <<r[1], r[2]>> /\ r[1] \in Jobs /\ r[2] \in 0 .. MaxRows /\ r[2] \in Nat
<1>1. 0 .. MaxRows \subseteq Nat
  BY BoundTyping
<1>2. /\ d.current \in [Jobs -> 0 .. MaxRows] /\ d.last \in [Jobs -> 0 .. MaxRows]
      /\ d.queue \subseteq Ids /\ d.params \subseteq Ids /\ d.states \subseteq Ids
  BY DEF DB
<1> QED
  BY <1>1, <1>2 DEF DB, Ids

\* The numbers of a transaction that moves a live job fit the invariant.
LEMMA MovedKeeps ==
  ASSUME NEW d \in DB, DbInv(d), NEW t \in DB, NEW j \in Jobs, Live(d, j),
         NEW n \in 0 .. MaxRows, d.last[j] < n,
         NEW name \in Names, NEW ttl \in Never .. JobTtl,
         NEW Q \in SUBSET Ids, NEW S \in SUBSET Ids,
         \A r \in Q \cup S : r[1] = j /\ r[2] <= n,
         <<j, n>> \in S,
         name = "Enqueued" => ttl = Never /\ <<j, n>> \in Q,
         Moved(d, t, j, name, ttl, n, Q, S)
  PROVE  DbInv(t) /\ Changes(d, t, j)
<1>1. \A i \in Jobs : /\ i # j => /\ t.ttl[i] = d.ttl[i] /\ t.name[i] = d.name[i]
                                  /\ t.current[i] = d.current[i] /\ t.last[i] = d.last[i]
                      /\ Live(t, i) <=> Live(d, i)
  BY DEF Moved, DB, Live
<1>2. t.ttl[j] = ttl /\ t.name[j] = name /\ t.current[j] = n /\ t.last[j] = n
  BY DEF Moved, DB
<1>3. \A i \in Jobs : d.last[i] \in Nat /\ d.current[i] \in Nat /\ d.current[i] <= d.last[i]
  BY DbTyping DEF DbInv, Numbered
<1>4. Numbered(t)
  <2>1. \A i \in Jobs : t.current[i] <= t.last[i]
    BY <1>1, <1>2, <1>3
  <2>2. \A i \in Jobs : t.status[i] = "new" => t.name[i] = "" /\ t.current[i] = 0
    BY <1>1, <1>2 DEF Moved, Live, DbInv, Numbered
  <2>3. ASSUME NEW r \in t.queue \cup t.params \cup t.states
        PROVE  Known(t, r)
    <3>1. CASE r \in Q \cup S
      BY <3>1, <1>2 DEF Known, Moved, Live
    <3>2. CASE r \in d.queue \cup d.params \cup d.states
      <4>1. r[1] \in Jobs /\ r[2] \in Nat /\ Known(d, r)
        BY <3>2, DbTyping DEF DbInv, Numbered
      <4> QED
        BY <4>1, <1>1, <1>2, <1>3 DEF Known, Moved
    <3> QED
      BY <2>3, <3>1, <3>2 DEF Moved
  <2> QED
    BY <2>1, <2>2, <2>3 DEF Numbered
<1>5. ASSUME NEW i \in Jobs
      PROVE  Queued(t, i)
  BY <1>1, <1>2 DEF Queued, Moved, DbInv
<1>6. ASSUME NEW i \in Jobs
      PROVE  InHistory(t, i)
  <2>1. CASE i = j
    <3>1. ASSUME NEW m \in 0 .. MaxRows, <<j, m>> \in t.states
          PROVE  m <= n
      <4>1. CASE <<j, m>> \in S
        <5>1. <<j, m>>[2] <= n
          BY <4>1
        <5> QED
          BY <5>1
      <4>2. CASE <<j, m>> \in d.states
        <5>1. InHistory(d, j)
          BY DEF DbInv
        <5>2. m <= d.current[j]
          BY <4>2, <5>1 DEF InHistory
        <5>3. m \in Nat
          BY BoundTyping
        <5> QED
          BY <5>2, <5>3, <1>3
      <4> QED
        BY <3>1, <4>1, <4>2 DEF Moved
    <3> QED
      BY <2>1, <3>1, <1>2 DEF InHistory, Moved
  <2>2. CASE i # j
    <3>1. ASSUME NEW m
          PROVE  <<i, m>> \in S => FALSE
      <4>1. <<i, m>>[1] = i
        OBVIOUS
      <4> QED
        BY <4>1, <2>2
    <3> QED
      BY <2>2, <3>1, <1>1 DEF InHistory, Moved, DbInv
  <2> QED
    BY <2>1, <2>2
<1>7. Changes(d, t, j)
  BY <1>1, <1>2, <1>3 DEF Changes, Moved
<1> QED
  BY <1>4, <1>5, <1>6, <1>7 DEF DbInv

\* Every transaction that Hangfire builds keeps the invariant of the database.
LEMMA TransactionKeeps ==
  ASSUME NEW d \in DB, DbInv(d), NEW j \in Jobs, d.last[j] + 2 <= MaxRows,
         NEW t \in Transactions(d, j)
  PROVE  t \in DB /\ DbInv(t) /\ Changes(d, t, j)
<1> DEFINE a == d.last[j] + 1
<1> DEFINE b == d.last[j] + 2
<1>1. d.last[j] \in Nat /\ a \in 0 .. MaxRows /\ b \in 0 .. MaxRows
  BY BoundTyping DEF DB
<1>2. /\ <<j, a>> \in Ids /\ <<j, b>> \in Ids
      /\ Never \in Never .. JobTtl /\ JobTtl \in Never .. JobTtl
      /\ {"Enqueued", "Scheduled", "Succeeded"} \subseteq Names
  BY <1>1, BoundTyping DEF Ids, Names
<1>3. CASE ~Live(d, j)
  <2>1. t = d \/ t = [d EXCEPT !.nulls = @ \cup {j}]
    BY <1>3 DEF Transactions, Enqueueing, Finishing, AddToQueue, PersistJob, ExpireJob,
                SetExpireAt, SetJobState, Live
  <2>2. t \in DB
    BY <2>1 DEF DB
  <2>3. /\ t.status = d.status /\ t.ttl = d.ttl /\ t.name = d.name /\ t.current = d.current
        /\ t.last = d.last /\ t.queue = d.queue /\ t.params = d.params /\ t.states = d.states
    BY <2>1 DEF DB
  <2>4. \A i \in Jobs : d.last[i] <= t.last[i]
    BY <2>3, BoundTyping DEF DB
  <2>5. DbInv(t)
    BY <2>3 DEF DbInv, Numbered, Known, Queued, InHistory, Live
  <2> QED
    BY <1>3, <2>2, <2>3, <2>4, <2>5 DEF Changes
<1>4. CASE Live(d, j)
  <2>1. CASE t = Enqueueing(d, j)
    <3>1. t \in DB /\ Moved(d, t, j, "Enqueued", Never, a, {<<j, a>>}, {<<j, a>>})
      <4> DEFINE x == SetJobState(d, j, "Enqueued")
      <4> DEFINE y == PersistJob(x, j)
      <4>1. /\ x \in DB /\ Live(x, j)
            /\ Moved(d, x, j, "Enqueued", d.ttl[j], a, {}, {<<j, a>>})
        BY <1>1, <1>2, <1>4 DEF SetJobState, AddJobState, Live, DB, Moved
      <4>2. y = [x EXCEPT !.ttl[j] = Never]
        BY <4>1 DEF PersistJob, SetExpireAt
      <4> HIDE DEF x
      <4>3. /\ y \in DB /\ Live(y, j)
            /\ Moved(d, y, j, "Enqueued", Never, a, {}, {<<j, a>>})
        BY SMTT(30), <4>1, <4>2, <1>2 DEF Live, DB, Moved
      <4>4. t = [y EXCEPT !.queue = @ \cup {<<j, y.last[j]>>}]
        BY <2>1, <4>3 DEF Enqueueing, AddToQueue, x
      <4>5. y.last[j] = a
        BY <4>3 DEF Moved, DB
      <4> HIDE DEF y
      <4> QED
        BY <4>3, <4>4, <4>5, <1>2 DEF DB, Moved
    <3>2. /\ {<<j, a>>} \in SUBSET Ids
          /\ \A r \in {<<j, a>>} \cup {<<j, a>>} : r[1] = j /\ r[2] <= a
          /\ d.last[j] < a
      BY <1>1, <1>2
    <3> QED
      BY <1>1, <1>2, <1>4, <3>1, <3>2, MovedKeeps
  <2>2. CASE t = Finishing(d, j)
    <3>1. t \in DB /\ Moved(d, t, j, "Succeeded", JobTtl, a, {}, {<<j, a>>})
      <4> DEFINE x == SetJobState(d, j, "Succeeded")
      <4>1. /\ x \in DB /\ Live(x, j)
            /\ Moved(d, x, j, "Succeeded", d.ttl[j], a, {}, {<<j, a>>})
        BY <1>1, <1>2, <1>4 DEF SetJobState, AddJobState, Live, DB, Moved
      <4>2. t = [x EXCEPT !.ttl[j] = JobTtl]
        BY <2>2, <4>1 DEF Finishing, ExpireJob, SetExpireAt
      <4> HIDE DEF x
      <4> QED
        BY <4>1, <4>2, <1>2 DEF DB, Moved
    <3>2. /\ {<<j, a>>} \in SUBSET Ids
          /\ \A r \in {} \cup {<<j, a>>} : r[1] = j /\ r[2] <= a
          /\ d.last[j] < a
      BY <1>1, <1>2
    <3> QED
      BY ZenonT(60), <1>1, <1>2, <1>4, <3>1, <3>2, MovedKeeps
  <2>3. CASE t = Retrying(d, j)
    <3>1. t \in DB /\ Moved(d, t, j, "Scheduled", Never, b, {}, {<<j, a>>, <<j, b>>})
      <4> DEFINE w == AddJobState(d, j)
      <4> DEFINE x == SetJobState(w, j, "Scheduled")
      <4>1. /\ w \in DB /\ Live(w, j) /\ w.last[j] = a
            /\ w.status = d.status /\ w.ttl = d.ttl /\ w.name = d.name
            /\ w.current = d.current /\ w.last = [d.last EXCEPT ![j] = a]
            /\ w.queue = d.queue /\ w.params = d.params /\ w.states = d.states \cup {<<j, a>>}
        BY <1>1, <1>2, <1>4 DEF AddJobState, Live, DB
      <4> HIDE DEF w
      <4>2. /\ x \in DB /\ Live(x, j)
            /\ Moved(d, x, j, "Scheduled", d.ttl[j], b, {}, {<<j, a>>, <<j, b>>})
        BY <1>1, <1>2, <4>1 DEF SetJobState, AddJobState, Live, DB, Moved
      <4>3. t = [x EXCEPT !.ttl[j] = Never]
        BY <2>3, <4>2 DEF Retrying, PersistJob, SetExpireAt, w
      <4> HIDE DEF x
      <4> QED
        BY <4>2, <4>3, <1>2 DEF DB, Moved
    <3>2. /\ {<<j, a>>, <<j, b>>} \in SUBSET Ids
          /\ \A r \in {} \cup {<<j, a>>, <<j, b>>} : r[1] = j /\ r[2] <= b
          /\ d.last[j] < b
      BY <1>1, <1>2
    <3> QED
      BY <1>1, <1>2, <1>4, <3>1, <3>2, MovedKeeps
  <2> QED
    BY <2>1, <2>2, <2>3 DEF Transactions
<1> QED
  BY <1>3, <1>4

\* A transaction disturbs neither a client nor the sweep: the state row that a job
\* shows after it has a number that none of them holds.
LEMMA ChangesKeep ==
  ASSUME NEW d \in DB, DbInv(d), NEW t \in DB, NEW j \in Jobs, Changes(d, t, j)
  PROVE  /\ \A p, r : ClientInv(d, p, r) => ClientInv(t, p, r)
         /\ \A p, r : r \in Ids /\ Known(d, r) /\ r[1] = j /\ Live(d, j) => ClientInv(t, p, r)
         /\ \A s : \A r \in Ids : Selected(d, s, r) => Selected(t, s, r)
<1>1. /\ t.status = d.status
      /\ \A i \in Jobs : /\ d.last[i] \in Nat /\ t.last[i] \in Nat /\ d.last[i] <= t.last[i]
                         /\ t.current[i] \in Nat
  BY DbTyping DEF Changes
<1>2. \A r \in Ids : r[1] \in Jobs /\ r[2] \in Nat
  BY BoundTyping DEF Ids
<1>3. \A r \in Ids : Known(d, r) => Known(t, r)
  BY <1>1, <1>2 DEF Known
<1>4. \A r \in Ids : Known(d, r) /\ r[1] = j /\ Live(d, j) =>
        r[2] # t.current[r[1]] /\ t.current[r[1]] # 0
  BY <1>1, <1>2 DEF Known, Changes
<1>5. \A r \in Ids : r[1] # j \/ ~Live(d, j) =>
        /\ t.name[r[1]] = d.name[r[1]] /\ t.current[r[1]] = d.current[r[1]]
        /\ t.ttl[r[1]] = d.ttl[r[1]]
  BY <1>2 DEF Changes
<1>6. \A i : Live(t, i) <=> Live(d, i)
  BY <1>1 DEF Live
<1>7. ASSUME NEW p, NEW r, ClientInv(d, p, r)
      PROVE  ClientInv(t, p, r)
  <2>1. CASE p = "idle"
    BY <2>1 DEF ClientInv
  <2>2. CASE p # "idle"
    BY <2>2, <1>7, <1>3, <1>4, <1>5, <1>6 DEF ClientInv
  <2> QED
    BY <2>1, <2>2
<1>8. ASSUME NEW p, NEW r \in Ids, Known(d, r), r[1] = j, Live(d, j)
      PROVE  ClientInv(t, p, r)
  BY <1>8, <1>3, <1>4 DEF ClientInv
<1>9. ASSUME NEW s, NEW r \in Ids, Selected(d, s, r)
      PROVE  Selected(t, s, r)
  BY <1>9, <1>3, <1>4, <1>5, <1>6 DEF Selected
<1> QED
  BY <1>7, <1>8, <1>9

--------------------------------------------------------------------------------
(* Steps of the clients                                                        *)

LEMMA LifecycleInit == Init => LifecycleInv
<1> SUFFICES ASSUME Init PROVE LifecycleInv
  OBVIOUS
<1>1. 0 \in 0 .. MaxRows /\ Never \in Never .. JobTtl /\ "" \in Names
  BY BoundTyping DEF Names
<1>2. db \in DB
  BY <1>1 DEF Init, DB
<1>3. /\ \A j \in Jobs : /\ db.status[j] = "new" /\ db.name[j] = ""
                         /\ db.current[j] = 0 /\ db.last[j] = 0
      /\ db.queue = {} /\ db.params = {} /\ db.states = {}
  BY DEF Init
<1>4. Numbered(db)
  <2>1. \A r : r \notin db.queue \cup db.params \cup db.states
    BY <1>3
  <2>2. ASSUME NEW j \in Jobs
        PROVE  db.current[j] <= db.last[j]
    <3>1. db.current[j] = 0 /\ db.last[j] = 0
      BY <1>3
    <3> QED
      BY <3>1
  <2> QED
    BY <1>3, <2>1, <2>2 DEF Numbered
<1>5. \A j \in Jobs : Queued(db, j) /\ InHistory(db, j)
  BY <1>3 DEF Queued, InHistory, Live
<1> QED
  BY <1>2, <1>4, <1>5 DEF Init, LifecycleInv, DbInv, ClientInv, Children

LEMMA ClientInvariant ==
  ASSUME LifecycleInv, NEW c \in Clients, ClientStep(c)
  PROVE  LifecycleInv'
<1>1. /\ db \in DB /\ DbInv(db)
      /\ pc \in [Clients -> {"idle", "changing", "fetched", "performed"}]
      /\ row \in [Clients -> Ids \cup {NoRow}]
      /\ \A b \in Clients : ClientInv(db, pc[b], row[b])
      /\ \A i \in idList : i \in Ids /\ Selected(db, stage, i)
  BY DEF LifecycleInv
<1>2. /\ \A r \in Ids : r[1] \in Jobs
      /\ NoRow \in Ids \cup {NoRow}
      /\ \A d, p, r : p = "idle" => ClientInv(d, p, r)
  BY DEF Ids, ClientInv
<1>0. ASSUME NEW p \in {"idle", "changing", "fetched", "performed"},
             NEW r \in Ids \cup {NoRow},
             pc' = [pc EXCEPT ![c] = p] /\ row' = [row EXCEPT ![c] = r],
             ClientInv(db', p, r) /\ \A b \in Clients : ClientInv(db', pc[b], row[b]),
             db' \in DB /\ DbInv(db') /\ \A i \in idList : Selected(db', stage, i),
             UNCHANGED <<stage, idList>>
      PROVE  LifecycleInv'
  <2>1. \A b \in Clients : ClientInv(db', pc'[b], row'[b])
    BY <1>0, <1>1
  <2> QED
    BY <2>1, <1>0 DEF LifecycleInv
<1>3. ASSUME NEW j \in Jobs, GetJobData(c, j)
      PROVE  LifecycleInv'
  <2>1. <<j, 0>> \in Ids /\ Known(db, <<j, 0>>)
    BY <1>1, <1>3, BoundTyping, DbTyping DEF GetJobData, Live, Known, Ids
  <2>2. ClientInv(db, "changing", <<j, 0>>)
    BY <2>1 DEF ClientInv
  <2> QED
    BY <1>1, <1>3, <2>1, <2>2, <1>0 DEF GetJobData, Goto
<1>4. ASSUME pc[c] = "changing", Change(c, Transactions(db, row[c][1]))
      PROVE  /\ db' \in DB /\ DbInv(db') /\ UNCHANGED <<stage, idList>>
             /\ \A b \in Clients : ClientInv(db', pc[b], row[b])
             /\ \A i \in idList : Selected(db', stage, i)
  <2>1. row[c] \in Ids /\ row[c][1] \in Jobs
    BY <1>1, <1>2, <1>4 DEF ClientInv
  <2>2. db' \in DB /\ DbInv(db') /\ Changes(db, db', row[c][1])
    BY <1>1, <1>4, <2>1, TransactionKeeps DEF Change
  <2>3. UNCHANGED <<stage, idList>>
    BY <1>4 DEF Change
  <2> QED
    BY <1>1, <2>1, <2>2, <2>3, ChangesKeep
<1>5. CASE Commit(c)
  BY <1>0, <1>2, <1>4, <1>5 DEF Commit, Goto
<1>6. CASE CommitInDoubt(c)
  <2>1. pc[c] = "changing" /\ Change(c, Transactions(db, row[c][1]))
    BY <1>6 DEF CommitInDoubt
  <2>2. UNCHANGED <<pc, row>>
    BY <1>6 DEF CommitInDoubt
  <2> QED
    BY <1>1, <1>4, <2>1, <2>2 DEF LifecycleInv
<1>7. ASSUME NEW r \in db.queue, FetchNextJob(c, r)
      PROVE  LifecycleInv'
  <2>1. r \in Ids /\ Known(db, r)
    BY <1>1, DbTyping DEF DbInv, Numbered
  <2>2. ClientInv(db, "fetched", r)
    BY <2>1 DEF ClientInv
  <2> QED
    BY <1>1, <1>7, <2>1, <2>2, <1>0 DEF FetchNextJob, Goto
<1>8. CASE Perform(c)
  <2> DEFINE j == row[c][1]
  <2>1. row[c] \in Ids /\ j \in Jobs /\ Known(db, row[c])
    BY <1>1, <1>2, <1>8 DEF ClientInv, Perform
  <2>2. /\ pc' = [pc EXCEPT ![c] = "performed"] /\ row' = [row EXCEPT ![c] = row[c]]
        /\ UNCHANGED <<stage, idList>>
    BY <1>1, <1>8 DEF Perform, Goto, Change
  <2>3. CASE Live(db, j) /\ db.name[j] = "Enqueued"
    <3>1. db.last[j] + 2 <= MaxRows /\ db' \in Transactions(db, j)
      BY <1>8, <2>3 DEF Perform, Change, Transactions
    <3>2. db' \in DB /\ DbInv(db') /\ Changes(db, db', j)
      BY <1>1, <2>1, <3>1, TransactionKeeps
    <3>3. /\ \A b \in Clients : ClientInv(db', pc[b], row[b])
          /\ \A i \in idList : Selected(db', stage, i)
          /\ ClientInv(db', "performed", row[c])
      BY <1>1, <2>1, <2>3, <3>2, ChangesKeep
    <3> QED
      BY <2>1, <2>2, <3>2, <3>3, <1>0
  <2>4. CASE ~(Live(db, j) /\ db.name[j] = "Enqueued")
    <3>1. db' = db
      BY <1>8, <2>4 DEF Perform
    <3>2. ClientInv(db, "performed", row[c])
      BY <2>1, <2>4 DEF ClientInv
    <3> QED
      BY <1>1, <2>1, <2>2, <3>1, <3>2, <1>0
  <2> QED
    BY <2>3, <2>4
<1>9. CASE RemoveFromQueue(c)
  <2>1. row[c] \in Ids /\ ClientInv(db, "performed", row[c])
    BY <1>1, <1>9 DEF ClientInv, RemoveFromQueue
  <2>2. db' = [db EXCEPT !.queue = @ \ {row[c]}]
    BY <1>9 DEF RemoveFromQueue
  <2>3. /\ db' \in DB /\ db'.status = db.status /\ db'.ttl = db.ttl /\ db'.name = db.name
        /\ db'.current = db.current /\ db'.last = db.last
        /\ db'.queue = db.queue \ {row[c]} /\ db'.params = db.params /\ db'.states = db.states
    BY <1>1, <2>2 DEF DB
  <2>4. ASSUME NEW j \in Jobs
        PROVE  Queued(db', j)
    <3>1. row[c] = <<j, db.current[j]>> => row[c][1] = j /\ row[c][2] = db.current[j]
      OBVIOUS
    <3> QED
      BY <1>1, <2>1, <2>3, <3>1 DEF DbInv, Queued, ClientInv, Live
  <2>5. DbInv(db')
    BY <1>1, <2>3, <2>4 DEF DbInv, Numbered, Known, InHistory, Live
  <2>6. /\ \A p, r : ClientInv(db, p, r) => ClientInv(db', p, r)
        /\ \A s, r : Selected(db, s, r) => Selected(db', s, r)
    BY <2>3 DEF ClientInv, Selected, Known, Live
  <2> QED
    BY <1>1, <1>2, <1>9, <2>3, <2>5, <2>6, <1>0 DEF RemoveFromQueue, Goto
<1>10. CASE Abandon(c)
  BY <1>1, <1>2, <1>10, <1>0 DEF Abandon, Goto
<1> QED
  BY <1>3, <1>5, <1>6, <1>7, <1>8, <1>9, <1>10 DEF ClientStep

--------------------------------------------------------------------------------
(* Steps of callers that change no state, of the sweep, and of time            *)

\* A database that differs from d in no column that the invariant of a client or
\* of the sweep reads, but for numbers in use that may have grown.
Same(d, t) ==
  /\ t.status = d.status /\ t.name = d.name /\ t.current = d.current
  /\ \A j \in Jobs : d.last[j] <= t.last[j]
  /\ \A j \in Jobs : t.ttl[j] # d.ttl[j] => d.ttl[j] # -1

LEMMA SameKeeps ==
  ASSUME NEW d \in DB, NEW t \in DB, Same(d, t)
  PROVE  /\ \A p, r : ClientInv(d, p, r) => ClientInv(t, p, r)
         /\ \A s : \A r \in Ids : Selected(d, s, r) => Selected(t, s, r)
<1>1. \A r \in Ids : r[1] \in Jobs /\ r[2] \in Nat
  BY BoundTyping DEF Ids
<1>2. \A r \in Ids : Known(d, r) => Known(t, r)
  <2>1. \A j \in Jobs : d.last[j] \in Nat /\ t.last[j] \in Nat
    BY DbTyping
  <2> QED
    BY <2>1, <1>1 DEF Known, Same
<1>3. ASSUME NEW s, NEW r \in Ids, Selected(d, s, r)
      PROVE  Selected(t, s, r)
  BY <1>1, <1>2, <1>3 DEF Selected, Same, Live
<1> QED
  BY <1>2, <1>3 DEF ClientInv, Same, Live

LEMMA JobInvariant ==
  ASSUME LifecycleInv, NEW j \in Jobs, CreateExpiredJob(j) \/ SetJobParameter(j)
  PROVE  LifecycleInv'
<1>1. /\ db \in DB /\ DbInv(db)
      /\ \A b \in Clients : ClientInv(db, pc[b], row[b])
      /\ \A i \in idList : i \in Ids /\ Selected(db, stage, i)
  BY DEF LifecycleInv
<1>2. UNCHANGED <<pc, row, stage, idList>>
  BY DEF CreateExpiredJob, SetJobParameter
<1>3. CASE CreateExpiredJob(j)
  <2>1. JobTtl \in Never .. JobTtl /\ <<j, 0>> \in Ids /\ JobTtl # -1
    BY BoundTyping DEF Ids
  <2>2. /\ db.status[j] = "new"
        /\ db' = [db EXCEPT !.status[j] = "live", !.ttl[j] = JobTtl,
                            !.params = @ \cup {<<j, 0>>}]
    BY <1>3 DEF CreateExpiredJob
  <2>3. /\ db' \in DB
        /\ db'.status = [db.status EXCEPT ![j] = "live"]
        /\ db'.ttl = [db.ttl EXCEPT ![j] = JobTtl]
        /\ db'.name = db.name /\ db'.current = db.current /\ db'.last = db.last
        /\ db'.queue = db.queue /\ db'.states = db.states
        /\ db'.params = db.params \cup {<<j, 0>>}
    BY <1>1, <2>1, <2>2 DEF DB
  <2>4. /\ db'.status[j] = "live" /\ db'.ttl[j] = JobTtl
        /\ \A i \in Jobs : i # j => db'.status[i] = db.status[i] /\ db'.ttl[i] = db.ttl[i]
    BY <1>1, <2>3 DEF DB
  <2>5. \A r \in Ids : Known(db, r) => r[1] # j /\ Known(db', r)
    <3>1. \A r \in Ids : r[1] \in Jobs
      BY DEF Ids
    <3> QED
      BY <2>2, <2>3, <2>4, <3>1 DEF Known
  <2>6. Numbered(db')
    <3>1. Known(db', <<j, 0>>)
      BY <1>1, <2>3, <2>4, DbTyping DEF Known
    <3>2. \A r \in db'.queue \cup db'.params \cup db'.states : Known(db', r)
      BY <1>1, <2>3, <2>5, <3>1, DbTyping DEF DbInv, Numbered
    <3> QED
      BY <1>1, <2>2, <2>3, <2>4, <3>2 DEF DbInv, Numbered
  <2>7. ASSUME NEW i \in Jobs
        PROVE  Queued(db', i) /\ InHistory(db', i)
    <3>1. CASE i # j
      BY <1>1, <2>3, <2>4, <3>1 DEF DbInv, Queued, InHistory, Live
    <3>2. CASE i = j
      <4>1. db.name[j] = "" /\ db.current[j] = 0
        BY <1>1, <2>2 DEF DbInv, Numbered
      <4>2. \A n : <<j, n>> \notin db.states
        <5>1. ASSUME NEW n, <<j, n>> \in db.states
              PROVE  FALSE
          <6>1. Known(db, <<j, n>>)
            BY <1>1, <5>1 DEF DbInv, Numbered
          <6> QED
            BY <2>2, <6>1 DEF Known
        <5> QED
          BY <5>1
      <4> QED
        BY <2>3, <3>2, <4>1, <4>2 DEF Queued, InHistory
    <3> QED
      BY <3>1, <3>2
  <2>8. \A b \in Clients : ClientInv(db', pc[b], row[b])
    <3>1. ASSUME NEW b \in Clients
          PROVE  ClientInv(db', pc[b], row[b])
      <4>1. CASE pc[b] = "idle"
        BY <4>1 DEF ClientInv
      <4>2. CASE pc[b] # "idle"
        <5>1. row[b] \in Ids /\ row[b][1] \in Jobs /\ Known(db', row[b]) /\ row[b][1] # j
          BY <1>1, <2>5, <4>2 DEF ClientInv, Ids
        <5> QED
          BY <1>1, <2>3, <2>4, <5>1 DEF ClientInv, Live
      <4> QED
        BY <4>1, <4>2
    <3> QED
      BY <3>1
  <2>9. ASSUME NEW i \in idList
        PROVE  Selected(db', stage, i)
    <3>1. i \in Ids /\ i[1] \in Jobs /\ Known(db', i) /\ i[1] # j
      BY <1>1, <2>5 DEF Selected, Ids
    <3> QED
      BY <1>1, <2>3, <2>4, <3>1 DEF Selected, Live
  <2> QED
    BY <1>2, <2>3, <2>6, <2>7, <2>8, <2>9 DEF LifecycleInv, DbInv
<1>4. CASE SetJobParameter(j)
  <2> DEFINE n == db.last[j] + 1
  <2>1. n \in 0 .. MaxRows /\ <<j, n>> \in Ids /\ Live(db, j)
    BY <1>1, <1>4, BoundTyping, DbTyping DEF SetJobParameter, Ids
  <2>2. db' = [db EXCEPT !.last[j] = n, !.params = @ \cup {<<j, n>>}]
    BY <1>1, <1>4 DEF SetJobParameter, DB
  <2>3. /\ db' \in DB /\ db'.last = [db.last EXCEPT ![j] = n]
        /\ db'.status = db.status /\ db'.ttl = db.ttl /\ db'.name = db.name
        /\ db'.current = db.current /\ db'.queue = db.queue /\ db'.states = db.states
        /\ db'.params = db.params \cup {<<j, n>>}
    BY <1>1, <2>1, <2>2 DEF DB
  <2>4. /\ db'.last[j] = n
        /\ \A i \in Jobs : i # j => db'.last[i] = db.last[i]
        /\ \A i \in Jobs : db.last[i] \in Nat /\ db.current[i] \in Nat /\ db.last[i] <= db'.last[i]
    BY <1>1, <2>3, DbTyping DEF DB
  <2>5. Same(db, db')
    BY <2>3, <2>4 DEF Same
  <2>6. Numbered(db')
    <3>1. Known(db', <<j, n>>)
      BY <2>1, <2>3, <2>4 DEF Known, Live
    <3>2. ASSUME NEW r \in db.queue \cup db.params \cup db.states
          PROVE  Known(db', r)
      <4>1. Known(db, r) /\ r[1] \in Jobs /\ r[2] \in Nat
        BY <1>1, DbTyping DEF DbInv, Numbered
      <4>2. db.last[r[1]] \in Nat /\ db'.last[r[1]] \in Nat /\ db.last[r[1]] <= db'.last[r[1]]
        BY <1>1, <2>3, <2>4, <4>1, DbTyping
      <4> QED
        BY <2>3, <4>1, <4>2 DEF Known
    <3>3. ASSUME NEW i \in Jobs
          PROVE  db'.current[i] <= db'.last[i]
      <4>1. db.current[i] <= db.last[i]
        BY <1>1 DEF DbInv, Numbered
      <4>2. db'.last[i] \in Nat /\ db'.current[i] = db.current[i]
        BY <2>3, DbTyping
      <4> QED
        BY <4>1, <4>2, <2>4
    <3> QED
      BY <1>1, <2>3, <3>1, <3>2, <3>3 DEF DbInv, Numbered
  <2>7. \A i \in Jobs : Queued(db', i) /\ InHistory(db', i)
    BY <1>1, <2>3 DEF DbInv, Queued, InHistory, Live
  <2> QED
    BY <1>1, <1>2, <2>3, <2>5, <2>6, <2>7, SameKeeps DEF LifecycleInv, DbInv
<1> QED
  BY <1>3, <1>4

\* What the sweep selects in a table is known, and is not the row it must keep.
LEMMA DueIsSelected ==
  ASSUME LifecycleInv, NEW r \in Due
  PROVE  r \in Ids /\ Selected(db, stage, r)
<1>1. db \in DB /\ DbInv(db) /\ stage \in Children \cup {"jobs"}
  BY DEF LifecycleInv
<1>2. CASE stage = "jobs"
  <2>1. PICK j \in Jobs : Over(db, j) /\ r = <<j, 0>>
    BY <1>2 DEF Due
  <2>2. r \in Ids /\ r[1] = j /\ r[2] = 0
    BY <2>1, BoundTyping DEF Ids
  <2>3. 0 <= db.last[j]
    BY <1>1, DbTyping
  <2> QED
    BY <1>2, <2>1, <2>2, <2>3 DEF Selected, Known, Over, Live
<1>3. CASE stage \in Children
  <2>1. r \in db.queue \cup db.params \cup db.states
    BY <1>3 DEF Due, Children
  <2>2. /\ r \in Ids /\ r = <<r[1], r[2]>> /\ r[1] \in Jobs /\ Known(db, r)
    BY <1>1, <2>1, DbTyping DEF DbInv, Numbered
  <2>3. Over(db, r[1])
    BY <1>3 DEF Due, Children
  <2>4. db.name[r[1]] # "Enqueued"
    <3>1. Queued(db, r[1]) /\ Never # -1
      BY <1>1, <2>2, BoundTyping DEF DbInv
    <3> QED
      BY <2>3, <3>1 DEF Queued, Over
  <2> QED
    BY <1>3, <2>2, <2>3, <2>4 DEF Selected, Over, Children
<1> QED
  BY <1>1, <1>2, <1>3

LEMMA SweepInvariant ==
  ASSUME LifecycleInv, SweepSelect \/ SweepNothing \/ SweepDelete \/ SweepFails
  PROVE  LifecycleInv'
<1>1. /\ db \in DB /\ DbInv(db) /\ stage \in Children \cup {"jobs"}
      /\ \A b \in Clients : ClientInv(db, pc[b], row[b])
      /\ \A i \in idList : i \in Ids /\ Selected(db, stage, i)
  BY DEF LifecycleInv
<1>2. UNCHANGED <<pc, row>> /\ After(stage) \in Children \cup {"jobs"}
  BY <1>1 DEF SweepSelect, SweepNothing, SweepDelete, SweepFails, After, Children
<1>0. ASSUME db' \in DB, DbInv(db'), stage' \in Children \cup {"jobs"}, idList' = {},
             \A b \in Clients : ClientInv(db', pc[b], row[b])
      PROVE  LifecycleInv'
  BY <1>0, <1>2 DEF LifecycleInv
<1>3. CASE SweepSelect
  <2>1. idList' \subseteq Due
    BY <1>3 DEF SweepSelect, kSubset
  <2>2. \A i \in idList' : i \in Ids /\ Selected(db, stage, i)
    BY <2>1, DueIsSelected
  <2> QED
    BY <1>1, <1>2, <1>3, <2>2 DEF SweepSelect, LifecycleInv
<1>4. CASE SweepNothing \/ SweepFails
  BY <1>1, <1>2, <1>0, <1>4 DEF SweepNothing, SweepFails, Children
<1>5. ASSUME DeleteJobs, SweepDelete
      PROVE  LifecycleInv'
  <2>1. /\ db'.status = [j \in Jobs |-> IF <<j, 0>> \in idList THEN "gone" ELSE db.status[j]]
        /\ db'.ttl = [j \in Jobs |-> IF <<j, 0>> \in idList THEN Never ELSE db.ttl[j]]
        /\ db'.name = db.name /\ db'.current = db.current /\ db'.last = db.last
        /\ db'.queue = db.queue /\ db'.params = db.params /\ db'.states = db.states
        /\ db'.nulls = db.nulls
        /\ db' = [db EXCEPT !.status = db'.status, !.ttl = db'.ttl]
    BY <1>1, <1>5 DEF DeleteJobs, DB
  <2>2. /\ db'.status \in [Jobs -> {"new", "live", "gone"}]
        /\ db'.ttl \in [Jobs -> Never .. JobTtl]
    BY <1>1, <2>1, BoundTyping, DbTyping
  <2>3. db' \in DB
    BY <1>1, <2>1, <2>2 DEF DB
  <2>4. \A j \in Jobs : Live(db', j) => Live(db, j) /\ db'.ttl[j] = db.ttl[j]
    BY <2>1 DEF Live
  <2>5. \A j \in Jobs : db'.status[j] = "new" <=> db.status[j] = "new"
    <3>1. ASSUME NEW j \in Jobs, <<j, 0>> \in idList
          PROVE  db.status[j] # "new"
      BY <1>1, <3>1 DEF Selected, Known
    <3> QED
      BY <2>1, <3>1
  <2>6. \A r \in Ids : Known(db, r) => Known(db', r)
    BY <2>1, <2>5 DEF Known, Ids
  <2>7. Numbered(db')
    BY <1>1, <2>1, <2>5, <2>6, DbTyping DEF DbInv, Numbered
  <2>8. \A j \in Jobs : Queued(db', j) /\ InHistory(db', j)
    BY <1>1, <2>1, <2>4 DEF DbInv, Queued, InHistory
  <2>9. ASSUME NEW b \in Clients
        PROVE  ClientInv(db', pc[b], row[b])
    <3>1. CASE pc[b] = "idle"
      BY <3>1 DEF ClientInv
    <3>2. CASE pc[b] # "idle"
      <4>1. row[b] \in Ids /\ row[b][1] \in Jobs
        BY <1>1, <3>2 DEF ClientInv, Ids
      <4> QED
        BY ZenonT(60), <1>1, <2>1, <2>4, <2>6, <4>1 DEF ClientInv
    <3> QED
      BY <3>1, <3>2
  <2> QED
    BY <1>2, <1>5, <2>3, <2>7, <2>8, <2>9, <1>0 DEF SweepDelete, DbInv
<1>6. ASSUME NEW T \in Children, DeleteChildren(T), SweepDelete
      PROVE  LifecycleInv'
  <2>1. /\ db' \in DB /\ db'.status = db.status /\ db'.ttl = db.ttl /\ db'.name = db.name
        /\ db'.current = db.current /\ db'.last = db.last
        /\ db'.queue = IF stage = "queue" THEN db.queue \ idList ELSE db.queue
        /\ db'.params = IF stage = "params" THEN db.params \ idList ELSE db.params
        /\ db'.states = IF stage = "states" THEN db.states \ idList ELSE db.states
    <3>1. CASE T = "queue"
      <4>1. db' = [db EXCEPT !.queue = @ \ idList] /\ stage = "queue"
        BY <1>6, <3>1 DEF DeleteChildren
      <4> QED
        BY <1>1, <4>1 DEF DB
    <3>2. CASE T = "params"
      <4>1. db' = [db EXCEPT !.params = @ \ idList] /\ stage = "params"
        BY <1>6, <3>2 DEF DeleteChildren
      <4> QED
        BY <1>1, <4>1 DEF DB
    <3>3. CASE T = "states"
      <4>1. db' = [db EXCEPT !.states = @ \ idList] /\ stage = "states"
        BY <1>6, <3>3 DEF DeleteChildren
      <4> QED
        BY <1>1, <4>1 DEF DB
    <3> QED
      BY <3>1, <3>2, <3>3 DEF Children
  <2>2. Numbered(db')
    BY <1>1, <2>1 DEF DbInv, Numbered, Known
  <2>3. \A j, n : <<j, n>>[1] = j /\ <<j, n>>[2] = n
    OBVIOUS
  <2>4. ASSUME NEW j \in Jobs
        PROVE  Queued(db', j)
    <3>1. Live(db, j) /\ db.name[j] = "Enqueued" /\ stage = "queue"
            => <<j, db.current[j]>> \notin idList
      BY <1>1, <2>3 DEF Selected
    <3> QED
      BY <1>1, <2>1, <3>1 DEF DbInv, Queued, Live
  <2>5. ASSUME NEW j \in Jobs
        PROVE  InHistory(db', j)
    <3>1. Live(db, j) /\ db.ttl[j] # -1 /\ stage = "states"
            => <<j, db.current[j]>> \notin idList
      BY <1>1, <2>3 DEF Selected
    <3>2. InHistory(db, j) /\ db'.states \subseteq db.states
      BY <1>1, <2>1 DEF DbInv
    <3> QED
      BY <2>1, <3>1, <3>2 DEF InHistory, Live
  <2>6. \A p, r : ClientInv(db, p, r) => ClientInv(db', p, r)
    BY <2>1 DEF ClientInv, Known, Live
  <2> QED
    BY <1>1, <1>2, <1>6, <2>1, <2>2, <2>4, <2>5, <2>6, <1>0 DEF SweepDelete, DbInv
<1>7. CASE SweepDelete
  BY <1>5, <1>6, <1>7 DEF SweepDelete
<1> QED
  BY <1>3, <1>4, <1>7

LEMMA TickInvariant ==
  ASSUME LifecycleInv, Tick
  PROVE  LifecycleInv'
<1>1. db \in DB /\ DbInv(db) /\ UNCHANGED <<pc, row, stage, idList>>
  BY DEF LifecycleInv, Tick
<1>2. /\ db'.ttl = [j \in Jobs |-> IF db.ttl[j] >= 0 THEN db.ttl[j] - 1 ELSE db.ttl[j]]
      /\ db'.status = db.status /\ db'.name = db.name
      /\ db'.current = db.current /\ db'.last = db.last
      /\ db'.queue = db.queue /\ db'.params = db.params /\ db'.states = db.states
      /\ db' = [db EXCEPT !.ttl = db'.ttl]
  BY <1>1 DEF Tick, DB
<1>3. db'.ttl \in [Jobs -> Never .. JobTtl]
  BY <1>1, <1>2, BoundTyping, DbTyping
<1>4. db' \in DB
  BY <1>1, <1>2, <1>3 DEF DB
<1>5. \A j \in Jobs : /\ db.ttl[j] = Never => db'.ttl[j] = Never
                      /\ db.ttl[j] = -1 => db'.ttl[j] = -1
  BY <1>1, <1>2, BoundTyping
<1>6. \A j \in Jobs : db.last[j] <= db'.last[j]
  BY <1>1, <1>2, DbTyping
<1>7. Same(db, db')
  BY <1>2, <1>5, <1>6 DEF Same
<1>8. Numbered(db')
  BY <1>1, <1>2 DEF DbInv, Numbered, Known
<1>9. \A j \in Jobs : Queued(db', j) /\ InHistory(db', j)
  BY <1>1, <1>2, <1>5 DEF DbInv, Queued, InHistory, Live
<1> QED
  BY <1>1, <1>4, <1>7, <1>8, <1>9, SameKeeps DEF LifecycleInv, DbInv

--------------------------------------------------------------------------------
(* The invariant, and what follows from it                                     *)

LEMMA LifecycleInvariant == Spec => []LifecycleInv
<1>1. LifecycleInv /\ [Next]_vars => LifecycleInv'
  <2> SUFFICES ASSUME LifecycleInv, [Next]_vars PROVE LifecycleInv'
    OBVIOUS
  <2>1. CASE Next
    BY <2>1, ClientInvariant, JobInvariant, SweepInvariant, TickInvariant DEF Next
  <2>2. CASE UNCHANGED vars
    BY <2>2 DEF vars, LifecycleInv, ClientInv, Selected
  <2> QED
    BY <2>1, <2>2
<1> QED
  BY <1>1, LifecycleInit, PTL DEF Spec

\* The tables, the clients and the sweep keep their types, whatever the order of
\* transactions, removals and deletes.
THEOREM TypeCorrect == Spec => []TypeOK
<1>1. LifecycleInv => TypeOK
  BY DEF LifecycleInv, TypeOK, DB, Children
<1> QED
  BY <1>1, LifecycleInvariant, PTL

\* A job whose state is Enqueued has the queue row that came with that state, for
\* any number of workers that remove rows and any batch of the sweep.
THEOREM EnqueuedJobsAreQueued == Spec => []EnqueuedIsQueued
<1>1. LifecycleInv => EnqueuedIsQueued
  BY DEF LifecycleInv, DbInv, Queued, EnqueuedIsQueued
<1> QED
  BY <1>1, LifecycleInvariant, PTL

\* The state a job shows is its newest, and its row is in the history until the
\* job's expiry is over.
THEOREM CurrentStateInHistory == Spec => []CurrentInHistory
<1>1. LifecycleInv => CurrentInHistory
  BY DEF LifecycleInv, DbInv, InHistory, CurrentInHistory
<1> QED
  BY <1>1, LifecycleInvariant, PTL

\* The sweep deletes a job only while its expiry is over: one that was extended
\* after the select shows a state row, and the foreign key refuses the delete.
THEOREM SweepDeletesOnlyExpired == Spec => SweepsOnlyExpired
<1> DEFINE Kept == \A j \in Jobs : Live(db, j) /\ ~Live(db', j) => Over(db, j)
<1>1. ASSUME LifecycleInv, Next
      PROVE  Kept
  <2>1. db \in DB /\ DbInv(db) /\ \A i \in idList : i \in Ids /\ Selected(db, stage, i)
    BY <1>1 DEF LifecycleInv
  <2>2. CASE db'.status = db.status
    BY <2>2 DEF Live
  <2>3. ASSUME NEW j \in Jobs, CreateExpiredJob(j) \/ SetJobParameter(j)
        PROVE  Kept
    <3>1. db'.status \in {db.status, [db.status EXCEPT ![j] = "live"]}
      BY <2>1, <2>3 DEF CreateExpiredJob, SetJobParameter, DB
    <3> QED
      BY <2>1, <3>1 DEF Live, DB
  <2>4. ASSUME NEW c \in Clients, ClientStep(c)
        PROVE  db'.status = db.status
    <3>1. ASSUME pc[c] # "idle", Change(c, Transactions(db, row[c][1]))
          PROVE  db'.status = db.status
      <4>1. row[c] \in Ids /\ row[c][1] \in Jobs
        BY <1>1, <3>1 DEF LifecycleInv, ClientInv, Ids
      <4> QED
        BY <2>1, <3>1, <4>1, TransactionKeeps DEF Change, Changes
    <3>2. CASE Perform(c)
      <4>1. \/ db' = db
            \/ Change(c, Transactions(db, row[c][1]))
        BY <3>2 DEF Perform, Change, Transactions
      <4> QED
        BY <3>1, <3>2, <4>1 DEF Perform
    <3>3. CASE RemoveFromQueue(c)
      BY <2>1, <3>3 DEF RemoveFromQueue, DB
    <3> QED
      BY <2>4, <3>1, <3>2, <3>3
      DEF ClientStep, GetJobData, Commit, CommitInDoubt, FetchNextJob, Abandon
  <2>5. CASE SweepDelete
    <3>1. ASSUME NEW T \in Children, DeleteChildren(T)
          PROVE  db'.status = db.status
      BY <2>1, <3>1 DEF DeleteChildren, DB, Children
    <3>2. CASE DeleteJobs
      <4>1. ASSUME NEW j \in Jobs, Live(db, j), ~Live(db', j)
            PROVE  Over(db, j)
        <5>1. <<j, 0>> \in idList
          BY <2>1, <3>2, <4>1 DEF DeleteJobs, DB, Live
        <5>2. /\ <<j, 0>>[1] = j /\ Selected(db, "jobs", <<j, 0>>)
              /\ ~Referenced(<<j, 0>>[1])
          BY <2>1, <3>2, <5>1 DEF DeleteJobs
        <5>3. db.ttl[j] # -1 => db.current[j] # 0
          BY <4>1, <5>2 DEF Selected
        <5>4. db.ttl[j] # -1 /\ db.current[j] # 0 => <<j, db.current[j]>> \in db.states
          BY <2>1, <4>1 DEF DbInv, InHistory
        <5>5. db.current[j] \in 0 .. MaxRows
          BY <2>1 DEF DB
        <5>6. <<j, db.current[j]>> \notin db.states
          BY <5>2, <5>5 DEF Referenced, Children
        <5> QED
          BY <4>1, <5>3, <5>4, <5>6 DEF Over
      <4> QED
        BY <4>1
    <3> QED
      BY <2>2, <2>5, <3>1, <3>2 DEF SweepDelete
  <2>6. CASE SweepSelect \/ SweepNothing \/ SweepFails
    BY <2>6 DEF SweepSelect, SweepNothing, SweepFails
  <2>7. CASE Tick
    BY <2>1, <2>7 DEF Tick, DB, Live
  <2> QED
    BY <1>1, <2>2, <2>3, <2>4, <2>5, <2>6, <2>7 DEF Next
<1>2. ASSUME LifecycleInv, [Next]_vars
      PROVE  [Kept]_vars
  BY <1>1, <1>2
<1> QED
  BY <1>2, LifecycleInvariant, PTL DEF Spec, SweepsOnlyExpired
================================================================================
