--------------------------- MODULE CountersAggregator --------------------------
(***************************************************************************)
(* Counters.  A write-only transaction inserts a _Counter row for every    *)
(* increment; CountersAggregator.cs folds batches of them into one         *)
(* _AggregatedCounter row per key, in every server and under no lock;      *)
(* ExpirationManager.cs deletes expired _AggregatedCounter rows; GetCounter*)
(* adds up both tables.                                                    *)
(*                                                                         *)
(* An expiry is kept relative to now, in ticks, cut off at -1, which is    *)
(* over; Never (-2, below every other value, as MaxOfDateTimes treats      *)
(* null) is a null ExpireAt.  Transactions read in one step and commit in  *)
(* a later one, unless what they read has changed (Serializable, the       *)
(* default); a statement outside a transaction is one step.                *)
(***************************************************************************)
EXTENDS Integers, FiniteSetsExt, Functions

CONSTANTS
  Aggregators,  \* servers, each with a CountersAggregator
  Keys,         \* counter names
  Rows,         \* the _Counter rows that will ever be inserted (the bound)
  KeyOf,        \* Rows -> Keys
  ValueOf,      \* Rows -> {1, -1}
  TtlOf,        \* Rows -> {Never} \cup 0 .. MaxTtl: expireIn
  MaxTtl,
  BatchSize,    \* NumberOfRecordsInSinglePass
  Sweeping,     \* TRUE: the ExpirationManager runs
  ReadKeys      \* the keys GetCounter is called for

Never == -2

ASSUME BatchAssumption == BatchSize \in Nat \ {0} /\ MaxTtl \in Nat
ASSUME RowAssumption   == /\ IsFiniteSet(Rows)
                          /\ KeyOf \in [Rows -> Keys]
                          /\ ValueOf \in [Rows -> {1, -1}]
                          /\ TtlOf \in [Rows -> {Never} \cup 0 .. MaxTtl]
ASSUME FlagAssumption  == Sweeping \in BOOLEAN /\ ReadKeys \subseteq Keys

VARIABLES
  status,      \* each _Counter row: "new", "live" in the table, "gone"
  rowTtl,      \* its ExpireAt
  aggregated,  \* the _AggregatedCounter table: key -> row, or Absent
  pc,          \* where each aggregator is
  batch,       \* `counters', the rows its transaction has read
  removed,     \* removedCount
  stale,       \* aggregators whose transaction read something that changed
  idList,      \* keys of the rows the ExpirationManager selected to delete
  expired,     \* history: what expired from each key
  reader       \* the call of GetCounter in progress

vars == <<status, rowTtl, aggregated, pc, batch, removed, stale, idList, expired, reader>>

aggregatorVars == <<pc, batch, removed>>

--------------------------------------------------------------------------------

Ttl    == Never .. MaxTtl
Absent == [present |-> FALSE, value |-> 0, ttl |-> Never]
Over(ttl) == ttl = -1

Sum(S) == SumFunctionOnSet(ValueOf, S)

Live        == {row \in Rows : status[row] = "live"}
RowsOf(k)   == {row \in Rows : KeyOf[row] = k}
KeysIn(B)   == {KeyOf[row] : row \in B}

\* The value of a counter, as if every increment and expiry were instant.
Total(k) == Sum(RowsOf(k) \cap Live) + aggregated[k].value

\* The aggregators whose open transaction has read the row of a key in K.
Readers(K) == {a \in Aggregators : pc[a] = "merging" /\ KeysIn(batch[a]) \cap K # {}}

NoCall == [at |-> "idle", key |-> CHOOSE k \in Keys : TRUE, sum |-> 0, least |-> 0]

Init ==
  /\ status     = [row \in Rows |-> "new"]
  /\ rowTtl     = [row \in Rows |-> Never]
  /\ aggregated = [k \in Keys |-> Absent]
  /\ pc         = [a \in Aggregators |-> "idle"]
  /\ batch      = [a \in Aggregators |-> {}]
  /\ removed    = [a \in Aggregators |-> 0]
  /\ stale      = {}
  /\ idList     = {}
  /\ expired    = [k \in Keys |-> 0]
  /\ reader     = NoCall

--------------------------------------------------------------------------------
(* IncrementCounter, DecrementCounter: one insert, in a commit *)

InsertCounter(row) ==
  /\ status[row] = "new"
  /\ status' = [status EXCEPT ![row] = "live"]
  /\ rowTtl' = [rowTtl EXCEPT ![row] = TtlOf[row]]
  /\ UNCHANGED <<aggregated, aggregatorVars, stale, idList, expired, reader>>

--------------------------------------------------------------------------------
(* CountersAggregator.Execute *)

Goto(a, where) == pc' = [pc EXCEPT ![a] = where]

Start(a) ==
  /\ pc[a] \in {"idle", "waiting"}
  /\ Goto(a, "reading")
  /\ removed' = [removed EXCEPT ![a] = 0]
  /\ UNCHANGED <<status, rowTtl, aggregated, batch, stale, idList, expired, reader>>

\* Mutant of ReadBatch: merges full batches only.
ReadFullBatch(a) ==
  /\ pc[a] = "reading"
  /\ \E B \in kSubset(BatchSize, Live) : batch' = [batch EXCEPT ![a] = B]
  /\ Goto(a, "merging")
  /\ UNCHANGED <<status, rowTtl, aggregated, removed, stale, idList, expired, reader>>

\* Take(BatchSize) has no ordering: any rows may come.
ReadBatch(a) ==
  /\ pc[a] = "reading"
  /\ Live # {}
  /\ \E B \in kSubset(Min({BatchSize, Cardinality(Live)}), Live) :
       batch' = [batch EXCEPT ![a] = B]
  /\ Goto(a, "merging")
  /\ UNCHANGED <<status, rowTtl, aggregated, removed, stale, idList, expired, reader>>

\* No rows: the transaction does nothing, and removedCount keeps its value.
ReadNothing(a) ==
  /\ pc[a] = "reading"
  /\ Live = {}
  /\ Goto(a, "counted")
  /\ UNCHANGED <<status, rowTtl, aggregated, batch, removed, stale, idList, expired, reader>>

\* The upsert of one aggregated row from the rows G of its key.
Upsert(row, G) ==
  [present |-> TRUE,
   value   |-> row.value + Sum(G),
   ttl     |-> Max({row.ttl} \cup {rowTtl[r] : r \in G})]

\* Mutant of Merge: commits whatever has changed since the read.
MergeAnyway(a) ==
  LET B == batch[a] IN
  /\ pc[a] = "merging"
  /\ aggregated' = [k \in Keys |-> IF k \in KeysIn(B)
                                     THEN Upsert(aggregated[k], B \cap RowsOf(k))
                                     ELSE aggregated[k]]
  /\ status' = [row \in Rows |-> IF row \in B THEN "gone" ELSE status[row]]
  /\ stale' = stale \cup (Readers(KeysIn(B)) \ {a})
  /\ batch' = [batch EXCEPT ![a] = {}]
  /\ UNCHANGED <<rowTtl, idList, expired, reader>>

\* Upserts, deletes and commit.
Merge(a) ==
  LET B == batch[a] IN
  /\ pc[a] = "merging"
  /\ a \notin stale
  /\ aggregated' = [k \in Keys |-> IF k \in KeysIn(B)
                                     THEN Upsert(aggregated[k], B \cap RowsOf(k))
                                     ELSE aggregated[k]]
  /\ status' = [row \in Rows |-> IF row \in B THEN "gone" ELSE status[row]]
  /\ stale' = stale \cup (Readers(KeysIn(B)) \ {a})
  /\ batch' = [batch EXCEPT ![a] = {}]
  /\ UNCHANGED <<rowTtl, idList, expired, reader>>

\* Mutant of CommitBatch: removedCount adds up over the batches.
CommitBatchAddingUp(a) ==
  /\ Merge(a)
  /\ removed' = [removed EXCEPT ![a] = @ + Cardinality(batch[a])]
  /\ Goto(a, "counted")

CommitBatch(a) ==
  /\ Merge(a)
  /\ removed' = [removed EXCEPT ![a] = Cardinality(batch[a])]
  /\ Goto(a, "counted")

\* Committed, but reported as in doubt: the exception ends Execute.
CommitInDoubt(a) ==
  /\ Merge(a)
  /\ Goto(a, "idle")
  /\ removed' = [removed EXCEPT ![a] = 0]

\* A full batch means there may be more: pause and go round again ...
Continue(a) ==
  /\ pc[a] = "counted"
  /\ removed[a] >= BatchSize
  /\ Goto(a, "reading")
  /\ UNCHANGED <<status, rowTtl, aggregated, batch, removed, stale, idList, expired, reader>>

\* ... otherwise wait for CountersAggregateInterval.
Finish(a) ==
  /\ pc[a] = "counted"
  /\ removed[a] < BatchSize
  /\ Goto(a, "waiting")
  /\ UNCHANGED <<status, rowTtl, aggregated, batch, removed, stale, idList, expired, reader>>

\* Execute ends early: the transaction fails, the token is cancelled during the
\* pause, or the process dies.  An open transaction rolls back.
Stop(a) ==
  /\ pc[a] # "idle"
  /\ Goto(a, "idle")
  /\ batch' = [batch EXCEPT ![a] = {}]
  /\ removed' = [removed EXCEPT ![a] = 0]
  /\ stale' = stale \ {a}
  /\ UNCHANGED <<status, rowTtl, aggregated, idList, expired, reader>>

--------------------------------------------------------------------------------
(* ExpirationManager.DeleteAggregatedCounterItems: two statements, outside a *)
(* transaction; only it deletes these rows, so that a key names its row.     *)

SweepSelect ==
  /\ Sweeping
  /\ idList = {}
  /\ idList' = {k \in Keys : Over(aggregated[k].ttl)}
  /\ idList' # {}
  /\ UNCHANGED <<status, rowTtl, aggregated, aggregatorVars, stale, expired, reader>>

SweepDelete ==
  /\ idList # {}
  /\ aggregated' = [k \in Keys |-> IF k \in idList THEN Absent ELSE aggregated[k]]
  /\ expired' = [k \in Keys |-> IF k \in idList THEN expired[k] + aggregated[k].value
                                                ELSE expired[k]]
  /\ stale' = stale \cup Readers(idList)
  /\ idList' = {}
  /\ UNCHANGED <<status, rowTtl, aggregatorVars, reader>>

--------------------------------------------------------------------------------
(* GetCounter: four statements, outside a transaction. *)

\* Any over the _Counter rows; the call remembers the value at its start.
AnyCounter(k) ==
  /\ reader.at = "idle"
  /\ reader' = [at    |-> IF RowsOf(k) \cap Live # {} THEN "counters" ELSE "aggregates",
                key   |-> k, sum |-> 0, least |-> Total(k)]
  /\ UNCHANGED <<status, rowTtl, aggregated, aggregatorVars, stale, idList, expired>>

SumCounter ==
  /\ reader.at = "counters"
  /\ RowsOf(reader.key) \cap Live # {}
  /\ reader' = [reader EXCEPT !.at = "aggregates",
                              !.sum = Sum(RowsOf(reader.key) \cap Live)]
  /\ UNCHANGED <<status, rowTtl, aggregated, aggregatorVars, stale, idList, expired>>

\* The rows Any saw are gone when Sum runs: a null sum, and an exception.
SumThrows ==
  /\ \/ reader.at = "counters" /\ RowsOf(reader.key) \cap Live = {}
     \/ reader.at = "aggregated" /\ ~aggregated[reader.key].present
  /\ reader' = NoCall
  /\ UNCHANGED <<status, rowTtl, aggregated, aggregatorVars, stale, idList, expired>>

AnyAggregated ==
  /\ reader.at = "aggregates"
  /\ reader' = [reader EXCEPT !.at = IF aggregated[reader.key].present
                                       THEN "aggregated" ELSE "returned"]
  /\ UNCHANGED <<status, rowTtl, aggregated, aggregatorVars, stale, idList, expired>>

SumAggregated ==
  /\ reader.at = "aggregated"
  /\ aggregated[reader.key].present
  /\ reader' = [reader EXCEPT !.at = "returned",
                              !.sum = @ + aggregated[reader.key].value]
  /\ UNCHANGED <<status, rowTtl, aggregated, aggregatorVars, stale, idList, expired>>

EndCall ==
  /\ reader.at = "returned"
  /\ reader' = NoCall
  /\ UNCHANGED <<status, rowTtl, aggregated, aggregatorVars, stale, idList, expired>>

\* Mutant of GetCounterStep: reads the aggregated table before the counter rows.
GetCounterBackwards ==
  /\ \/ \E k \in ReadKeys :
          /\ reader.at = "idle"
          /\ reader' = [at |-> "aggregates", key |-> k, sum |-> 0, least |-> Total(k)]
     \/ /\ reader.at = "aggregates"
        /\ reader' = [reader EXCEPT !.at = "counters", !.sum = aggregated[reader.key].value]
     \/ /\ reader.at = "counters"
        /\ reader' = [reader EXCEPT !.at = "returned",
                                    !.sum = @ + Sum(RowsOf(reader.key) \cap Live)]
     \/ /\ reader.at = "returned"
        /\ reader' = NoCall
  /\ UNCHANGED <<status, rowTtl, aggregated, aggregatorVars, stale, idList, expired>>

GetCounterStep ==
  \/ \E k \in ReadKeys : AnyCounter(k)
  \/ SumCounter \/ SumThrows \/ AnyAggregated \/ SumAggregated \/ EndCall

--------------------------------------------------------------------------------

Older(ttl) == IF ttl >= 0 THEN ttl - 1 ELSE ttl

Tick ==
  /\ rowTtl'     = [row \in Rows |-> Older(rowTtl[row])]
  /\ aggregated' = [k \in Keys |-> [aggregated[k] EXCEPT !.ttl = Older(@)]]
  /\ UNCHANGED <<status, aggregatorVars, stale, idList, expired, reader>>

AggregatorStep(a) ==
  \/ Start(a) \/ ReadBatch(a) \/ ReadNothing(a)
  \/ CommitBatch(a) \/ CommitInDoubt(a)
  \/ Continue(a) \/ Finish(a) \/ Stop(a)

Next ==
  \/ \E row \in Rows : InsertCounter(row)
  \/ \E a \in Aggregators : AggregatorStep(a)
  \/ SweepSelect \/ SweepDelete
  \/ GetCounterStep
  \/ Tick

Spec == Init /\ [][Next]_vars

\* The aggregators run again and again, and a batch with a given row does not
\* fail at its commit every time it is tried.  Stop may happen at any moment,
\* but need not.
Fairness ==
  /\ \A a \in Aggregators :
       /\ WF_vars(Start(a))
       /\ SF_vars(ReadBatch(a) \/ ReadNothing(a))
       /\ WF_vars(pc[a] = "merging" /\ (CommitBatch(a) \/ Stop(a)))
       /\ WF_vars(Continue(a) \/ Finish(a))
  /\ \A row \in Rows : SF_vars(\E a \in Aggregators : row \in batch[a] /\ CommitBatch(a))

LiveSpec == Spec /\ Fairness

--------------------------------------------------------------------------------
(* Properties *)

\* Every variable has its type.
TypeOK ==
  /\ status \in [Rows -> {"new", "live", "gone"}]
  /\ rowTtl \in [Rows -> Ttl]
  /\ aggregated \in [Keys -> [present : {TRUE}, value : Int, ttl : Ttl] \cup {Absent}]
  /\ pc \in [Aggregators -> {"idle", "reading", "merging", "counted", "waiting"}]
  /\ batch \in [Aggregators -> SUBSET Rows]
  /\ removed \in [Aggregators -> 0 .. BatchSize]
  /\ stale \subseteq Aggregators
  /\ idList \subseteq Keys
  /\ expired \in [Keys -> Int]

\* Nothing is counted twice and nothing is dropped: with several servers
\* aggregating at once, without a lock, and with rows expiring, the two tables
\* and what has expired always add up to what was counted.
Conservation ==
  \A k \in Keys :
    Total(k) + expired[k] = Sum({row \in RowsOf(k) : status[row] # "new"})

\* GetCounter never misses a count that was there when it was called, although
\* rows move between the two tables while it reads them: it reads them in the
\* direction rows move.  (Counters that only grow, and do not expire.)
NothingMissed == reader.at = "returned" => reader.sum >= reader.least

\* Every counter row is eventually folded into the aggregated table.
AllAggregated ==
  \A row \in Rows : status[row] = "live" ~> status[row] = "gone"
================================================================================
