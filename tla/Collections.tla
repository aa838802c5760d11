------------------------------- MODULE Collections ------------------------------
(***************************************************************************)
(* Sets, hashes and lists: the commands of                                 *)
(* FluentNHibernateWriteOnlyTransaction.cs that write their rows, and the  *)
(* sweep of expired rows in ExpirationManager.cs.                          *)
(*                                                                         *)
(* The three tables are one set of rows.  A row's `name' is the value in a *)
(* set or list and the field in a hash; scores and the values of fields    *)
(* are left out, as nothing here depends on them.  `ttl' is ExpireAt, from *)
(* now: Never is null, -1 is over.                                         *)
(*                                                                         *)
(* A command that reads and then writes is two steps with anything in      *)
(* between.  At Serializable, the default of the options, it commits only  *)
(* if what it read is still so; the options take other levels, and at read *)
(* committed only the unique indexes and the row counts NHibernate checks  *)
(* make it fail.  A command that is one statement is one step.             *)
(***************************************************************************)
EXTENDS Integers, FiniteSetsExt, SequencesExt

CONSTANTS
  Clients,   \* threads that commit transactions
  Kinds,     \* the tables: "set", "hash", "list"
  Keys, Names,
  MaxId,     \* rows that will ever be inserted (the bound)
  MaxTtl,    \* expireIn, at most
  BatchSize, \* NumberOfRecordsInSinglePass
  Serializable  \* TransactionIsolationLevel is Serializable; else read committed

Never == -2

ASSUME KindAssumption  == Kinds \subseteq {"set", "hash", "list"}
ASSUME NameAssumption  == IsFiniteSet(Names)   \* AddRangeToSet's items
ASSUME BoundAssumption == MaxId \in Nat /\ MaxTtl \in Nat /\ BatchSize \in Nat \ {0}
ASSUME LevelAssumption == Serializable \in BOOLEAN

VARIABLES
  rows,    \* the tables
  lastId,  \* the identity column
  doing,   \* the command each client has begun
  idList   \* ids the ExpirationManager selected to delete

vars == <<rows, lastId, doing, idList>>

--------------------------------------------------------------------------------

Ttl == Never .. MaxTtl
\* Ghosts: `due', the row's expiry has run down at some time; `restored', an upsert
\* has put back an expiry that had been replaced since it read the row.
Row == [id : 1 .. MaxId, kind : Kinds, key : Keys, name : Names, ttl : Ttl,
        due : BOOLEAN, restored : BOOLEAN]

Idle == [op |-> "none"]

\* Rows of a key, by a test of the code's Where.
OfKey(kind, k)     == {r \in rows : r.kind = kind /\ r.key = k}
Named(kind, k, n)  == {r \in OfKey(kind, k) : r.name = n}
Ids(R)             == {r.id : r \in R}
ById(S)            == CHOOSE list \in SetToSeqs(S) :
                        \A i, j \in DOMAIN list : i < j => list[i] < list[j]
Seen(R)            == {[id |-> r.id, ttl |-> r.ttl] : r \in R}

\* Sets have a unique index on key and value, hashes on key and field.
Unique(kind)   == kind \in {"set", "hash"} \cap Kinds

NewRow(kind, k, n, id) ==
  [id |-> id, kind |-> kind, key |-> k, name |-> n, ttl |-> Never,
   due |-> FALSE, restored |-> FALSE]

Init ==
  /\ rows   = {}
  /\ lastId = 0
  /\ doing  = [c \in Clients |-> Idle]
  /\ idList = {}

\* A command in one step, by a client that has begun no other.
Alone(c) == doing[c] = Idle /\ UNCHANGED <<doing, idList>>
Begin(c, command) ==
  /\ doing[c] = Idle
  /\ doing' = [doing EXCEPT ![c] = command]
  /\ UNCHANGED <<rows, lastId, idList>>
End(c)   == doing' = [doing EXCEPT ![c] = Idle] /\ UNCHANGED idList

\* The commit of a command that has read R; what it read is now Present.
MayCommit(R, Present) == Serializable => R = Present

Insert(kind, k, n) ==
  /\ lastId < MaxId
  /\ lastId' = lastId + 1
  /\ rows' = rows \cup {NewRow(kind, k, n, lastId')}

--------------------------------------------------------------------------------
(* AddToSet and SetRangeInHash: UpsertEntity *)

\* SingleOrDefault finds the row, or none.
UpsertReads(c, kind, k, n) ==
  /\ Unique(kind)
  /\ Begin(c, [op |-> "upsert", kind |-> kind, key |-> k, name |-> n,
               found |-> Seen(Named(kind, k, n))])

\* Mutant of UpsertWrites: the table has no unique index.
UpsertInsertsAnyway(c) ==
  LET u == doing[c] IN
  /\ u.op = "upsert"
  /\ IF u.found = {}
       THEN Insert(u.kind, u.key, u.name)
       ELSE Ids(u.found) \subseteq Ids(rows) /\ UNCHANGED <<rows, lastId>>
  /\ End(c)

\* Update of a stateless session writes every column, ExpireAt as it was read.
Updated(r, read) ==
  [r EXCEPT !.ttl = read.ttl, !.restored = @ \/ r.ttl # read.ttl]

\* An insert the index admits, or an update of the row that was found.  A new row
\* has no expiry, whatever that of its key.
UpsertWrites(c) ==
  LET u == doing[c] IN
  /\ u.op = "upsert"
  /\ MayCommit(u.found, Seen(Named(u.kind, u.key, u.name)))
  /\ \/ /\ u.found = {}
        /\ Named(u.kind, u.key, u.name) = {}
        /\ Insert(u.kind, u.key, u.name)
     \/ \E read \in u.found, r \in rows :
          /\ r.id = read.id
          /\ rows' = (rows \ {r}) \cup {Updated(r, read)}
          /\ UNCHANGED lastId
  /\ End(c)

\* A violated index, an update that finds no row, or any other failure.
Fails(c) ==
  /\ doing[c] # Idle
  /\ End(c)
  /\ UNCHANGED <<rows, lastId>>

--------------------------------------------------------------------------------
(* Commands of one statement *)

\* AddRangeToSet: plain inserts of all items, or of none when one is there.
AddRangeToSet(c, k) ==
  /\ Alone(c)
  /\ "set" \in Kinds
  /\ OfKey("set", k) = {}
  /\ lastId + Cardinality(Names) <= MaxId
  /\ lastId' = lastId + Cardinality(Names)
  /\ \E items \in SetToSeqs(Names) :
       rows' = rows \cup {NewRow("set", k, items[i], lastId + i) : i \in DOMAIN items}

InsertToList(c, k, n) ==
  /\ Alone(c)
  /\ "list" \in Kinds
  /\ Insert("list", k, n)

\* RemoveFromSet, RemoveFromList
DeleteByKeyValue(c, kind, k, n) ==
  /\ Alone(c)
  /\ kind # "hash"
  /\ rows' = rows \ Named(kind, k, n)
  /\ UNCHANGED lastId

\* RemoveSet, RemoveHash
DeleteByKey(c, kind, k) ==
  /\ Alone(c)
  /\ Unique(kind)
  /\ rows' = rows \ OfKey(kind, k)
  /\ UNCHANGED lastId

\* Mutant of SetExpireAt: ExpireAt is UtcNow less expireIn.
SetExpireAtBefore(c, kind, k, ttl) ==
  /\ Alone(c)
  /\ rows' = {IF r \in OfKey(kind, k) THEN [r EXCEPT !.ttl = IF ttl = Never THEN ttl ELSE -1]
                                       ELSE r : r \in rows}
  /\ UNCHANGED lastId

\* ExpireSet, ExpireHash, ExpireList; and PersistSet, PersistHash, PersistList, with
\* Never: all rows there are of the key.
SetExpireAt(c, kind, k, ttl) ==
  /\ Alone(c)
  /\ rows' = {IF r \in OfKey(kind, k) THEN [r EXCEPT !.ttl = ttl] ELSE r : r \in rows}
  /\ UNCHANGED lastId

--------------------------------------------------------------------------------
(* TrimList: positions count from the oldest element *)

\* Ids of the elements at indexes below `from' or above `to'.
Outside(S, from, to) ==
  LET list == ById(S) IN
  {list[i] : i \in {j \in DOMAIN list : j - 1 < from \/ j - 1 > to}}

TrimReads(c, k, from, to) ==
  /\ "list" \in Kinds
  /\ Begin(c, [op |-> "trim", key |-> k, from |-> from, to |-> to,
               found |-> Ids(OfKey("list", k))])

\* Mutant of TrimDeletes: counts the positions again when it deletes.
TrimRecounts(c) ==
  LET t == doing[c] IN
  /\ t.op = "trim"
  /\ rows' = {r \in rows : r.id \notin Outside(Ids(OfKey("list", t.key)), t.from, t.to)}
  /\ End(c)
  /\ UNCHANGED lastId

\* DeleteByInt32Id of those outside when the list was read; it does not mind that
\* some are gone.
TrimDeletes(c) ==
  LET t == doing[c] IN
  /\ t.op = "trim"
  /\ MayCommit(t.found, Ids(OfKey("list", t.key)))
  /\ rows' = {r \in rows : r.id \notin Outside(t.found, t.from, t.to)}
  /\ End(c)
  /\ UNCHANGED lastId

--------------------------------------------------------------------------------
(* ExpirationManager.DeleteExpirableEntity: select a batch, delete it by id *)

Over(r) == r.ttl = -1

SweepSelect(kind) ==
  LET R == {r \in rows : r.kind = kind /\ Over(r)} IN
  /\ idList = {}
  /\ R # {}
  /\ \E B \in kSubset(Min({BatchSize, Cardinality(R)}), R) : idList' = Ids(B)
  /\ UNCHANGED <<rows, lastId, doing>>

\* Mutant of SweepDelete: deletes by key, the rows added since included.
SweepDeletesKeys ==
  LET K == {<<r.kind, r.key>> : r \in {s \in rows : s.id \in idList}} IN
  /\ idList # {}
  /\ rows' = {r \in rows : <<r.kind, r.key>> \notin K}
  /\ idList' = {}
  /\ UNCHANGED <<lastId, doing>>

\* Rows that have been extended or persisted meanwhile are deleted too.
SweepDelete ==
  /\ idList # {}
  /\ rows' = {r \in rows : r.id \notin idList}
  /\ idList' = {}
  /\ UNCHANGED <<lastId, doing>>

Left(ttl) == IF ttl >= 0 THEN ttl - 1 ELSE ttl
Older(r)  == [r EXCEPT !.ttl = Left(@), !.due = @ \/ r.ttl = 0]

\* An ExpireAt that an upsert has read is an instant, too.
OlderRead(u) ==
  IF u.op = "upsert" THEN [u EXCEPT !.found = {[e EXCEPT !.ttl = Left(@)] : e \in @}] ELSE u

Tick ==
  /\ rows' = {Older(r) : r \in rows}
  /\ doing' = [c \in Clients |-> OlderRead(doing[c])]
  /\ UNCHANGED <<lastId, idList>>

--------------------------------------------------------------------------------

ClientStep(c) == \E k \in Keys :
  \/ \E kind \in Kinds : \E n \in Names : UpsertReads(c, kind, k, n)
  \/ UpsertWrites(c) \/ Fails(c)
  \/ AddRangeToSet(c, k)
  \/ \E n \in Names : InsertToList(c, k, n)
  \/ \E kind \in Kinds :
       \/ \E n \in Names : DeleteByKeyValue(c, kind, k, n)
       \/ DeleteByKey(c, kind, k)
       \/ \E ttl \in {Never} \cup 0 .. MaxTtl : SetExpireAt(c, kind, k, ttl)
  \/ \E from, to \in 0 .. 1 : TrimReads(c, k, from, to)
  \/ TrimDeletes(c)

Next ==
  \/ \E c \in Clients : ClientStep(c)
  \/ \E kind \in Kinds : SweepSelect(kind)
  \/ SweepDelete
  \/ Tick

Spec == Init /\ [][Next]_vars

--------------------------------------------------------------------------------
(* Properties *)

\* Every variable has its type; no two rows share an id; and no row's expiry is
\* over before time has passed.
TypeOK ==
  /\ rows \subseteq Row
  /\ lastId \in 0 .. MaxId
  /\ \A r \in rows : /\ r.id <= lastId /\ \A s \in rows : r.id = s.id => r = s
                     /\ Over(r) => r.due \/ r.restored
  /\ \A c \in Clients : doing[c].op \in {"none", "upsert", "trim"}
  /\ idList \subseteq 1 .. lastId

\* Racing upserts leave one row for each element of a set and each field of a
\* hash, at any isolation level and with AddRangeToSet in between:
\* SingleOrDefault would throw, for ever after, on a second one.
OneRowPerName ==
  \A r, s \in rows :
    Unique(r.kind) /\ <<r.kind, r.key, r.name>> = <<s.kind, s.key, s.name>> => r = s

\* A trim leaves of the elements it read those with from to to older ones, and
\* everything else: what was added to the list while it ran is spared, and what
\* others removed meanwhile moves no element into or out of its range.
TrimKeepsRange ==
  [][\A c \in Clients :
       LET t == doing[c]
           Inside(id) == Cardinality({s \in t.found : s < id}) \in t.from .. t.to
       IN  t.op = "trim" /\ doing'[c] = Idle /\ rows' # rows =>
             rows' = {r \in rows : r.id \in t.found => Inside(r.id)}]_vars

\* The sweep deletes only rows whose own expiry has run down, or to which an upsert
\* gave back an old one: not those added to an expiring key since, nor one that was
\* removed and added again in between.  (It does delete a row that was persisted
\* between its two statements.)
SweepSparesNew ==
  [][idList # {} /\ idList' = {} => \A r \in rows \ rows' : r.due \/ r.restored]_vars
================================================================================
