------------------------------ MODULE JobLifecycle -----------------------------
(***************************************************************************)
(* Jobs and the rows that hang off them: FluentNHibernateJobStorage-       *)
(* Connection.cs creates a job that expires, write-only transactions       *)
(* change its state, extend its life and queue it, and DeleteJobItems of   *)
(* ExpirationManager.cs deletes expired jobs, statement by statement and   *)
(* outside any transaction.                                                *)
(*                                                                         *)
(* The database is one record, `db'.  A command of a write-only            *)
(* transaction is an operator from databases to databases; Commit runs a   *)
(* queue of them in one Serializable transaction, which is one step.       *)
(* Foreign keys are enforced, as the mappings declare them.                *)
(*                                                                         *)
(* A child row is a pair <<j, n>>, of its job and a number that grows with *)
(* the identity column.  An expiry is kept relative to now, cut off at -1, *)
(* which is over; Never is null.                                           *)
(***************************************************************************)
EXTENDS Integers, FiniteSetsExt

CONSTANTS
  Jobs,        \* the jobs that will ever be created
  Clients,     \* threads that change states: callers and workers
  MaxRows,     \* bound on the numbers of a job's child rows
  JobTtl,      \* expireIn of CreateExpiredJob and ExpireJob
  BatchSize    \* NumberOfRecordsInSinglePass

ASSUME BoundAssumption == MaxRows \in Nat /\ JobTtl \in Nat /\ BatchSize \in Nat \ {0}

VARIABLES
  db,          \* the tables
  pc,          \* where each client is
  row,         \* <<j, 0>>: the job a client changes; else the queue row it fetched
  stage,       \* the table DeleteJobItems is at
  idList       \* the ids it has selected there and not deleted yet

vars == <<db, pc, row, stage, idList>>

--------------------------------------------------------------------------------

Never == -2
Children == {"queue", "params", "states"}
Names    == {"", "Enqueued", "Scheduled", "Succeeded"}

Ids    == Jobs \X (0 .. MaxRows)
NoRow  == <<>>

Live(d, j)   == d.status[j] = "live"
Over(d, j)   == Live(d, j) /\ d.ttl[j] = -1

Init ==
  /\ db = [status  |-> [j \in Jobs |-> "new"],
           ttl     |-> [j \in Jobs |-> Never],   \* ExpireAt
           name    |-> [j \in Jobs |-> ""],      \* StateName
           current |-> [j \in Jobs |-> 0],       \* the row that came with it
           last    |-> [j \in Jobs |-> 0],       \* highest number in use
           queue   |-> {}, params |-> {}, states |-> {},
           nulls   |-> {}]                       \* queue rows with a null Job
  /\ pc     = [c \in Clients |-> "idle"]
  /\ row    = [c \in Clients |-> NoRow]
  /\ stage  = "queue"
  /\ idList = {}

--------------------------------------------------------------------------------
(* The commands of FluentNHibernateWriteOnlyTransaction *)

\* An update by id changes nothing when the job is gone.
SetExpireAt(d, j, ttl) == IF Live(d, j) THEN [d EXCEPT !.ttl[j] = ttl] ELSE d

\* Mutant of ExpireJob: counts from the expiry the job has.
ExpireLater(d, j) == SetExpireAt(d, j, Max({d.ttl[j], 0}) + JobTtl)

ExpireJob(d, j) == SetExpireAt(d, j, JobTtl)
PersistJob(d, j) == SetExpireAt(d, j, Never)

\* Inserts a state row; the foreign key needs the job (see Transactions).
AddJobState(d, j) ==
  [d EXCEPT !.last[j] = @ + 1, !.states = @ \cup {<<j, d.last[j] + 1>>}]

\* Mutant of SetJobState: updates the job without a row of its history.
SetStateOnly(d, j, name) ==
  IF Live(d, j)
    THEN [d EXCEPT !.last[j] = @ + 1, !.name[j] = name, !.current[j] = d.last[j] + 1]
    ELSE d

\* Nothing when the job is gone.
SetJobState(d, j, name) ==
  IF Live(d, j)
    THEN [AddJobState(d, j) EXCEPT !.name[j] = name, !.current[j] = d.last[j] + 1]
    ELSE d

\* Enqueue looks the job up, and queues a row without one when it is gone.
AddToQueue(d, j) ==
  IF Live(d, j)
    THEN [d EXCEPT !.queue = @ \cup {<<j, d.last[j]>>}]
    ELSE [d EXCEPT !.nulls = @ \cup {j}]

--------------------------------------------------------------------------------
(* The transactions Hangfire builds of them, when it changes a job's state *)

Enqueueing(d, j) == AddToQueue(PersistJob(SetJobState(d, j, "Enqueued"), j), j)
Retrying(d, j)   == PersistJob(SetJobState(AddJobState(d, j), j, "Scheduled"), j)
Finishing(d, j)  == ExpireJob(SetJobState(d, j, "Succeeded"), j)

Transactions(d, j) ==
  {Enqueueing(d, j), Finishing(d, j)} \cup (IF Live(d, j) THEN {Retrying(d, j)} ELSE {})

Goto(c, where) == pc' = [pc EXCEPT ![c] = where]

CreateExpiredJob(j) ==
  /\ db.status[j] = "new"
  /\ db' = [db EXCEPT !.status[j] = "live", !.ttl[j] = JobTtl,
                      !.params = @ \cup {<<j, 0>>}]
  /\ UNCHANGED <<pc, row, stage, idList>>

\* Upsert: a new row only where there is none, and only for a job that is there.
SetJobParameter(j) ==
  /\ Live(db, j)
  /\ ~\E n \in 0 .. MaxRows : <<j, n>> \in db.params
  /\ db.last[j] < MaxRows
  /\ db' = [db EXCEPT !.last[j] = @ + 1, !.params = @ \cup {<<j, db.last[j] + 1>>}]
  /\ UNCHANGED <<pc, row, stage, idList>>

\* A caller finds the job, in GetJobData, before it changes its state.
GetJobData(c, j) ==
  /\ pc[c] = "idle"
  /\ Live(db, j)
  /\ Goto(c, "changing")
  /\ row' = [row EXCEPT ![c] = <<j, 0>>]
  /\ UNCHANGED <<db, stage, idList>>

\* Helper: the database takes client c's transaction; it leaves a number free
\* for each state row the transaction may add.
Change(c, tables) ==
  /\ db.last[row[c][1]] + 2 <= MaxRows
  /\ db' \in tables
  /\ UNCHANGED <<stage, idList>>

Commit(c) ==
  /\ pc[c] = "changing"
  /\ Change(c, Transactions(db, row[c][1]))
  /\ Goto(c, "idle")
  /\ row' = [row EXCEPT ![c] = NoRow]

\* Committed but reported as failed: the caller commits the same again.
CommitInDoubt(c) ==
  /\ pc[c] = "changing"
  /\ Change(c, Transactions(db, row[c][1]))
  /\ UNCHANGED <<pc, row>>

\* A worker has fetched a row; that two may have it is JobQueue's concern.
FetchNextJob(c, r) ==
  /\ pc[c] = "idle"
  /\ Goto(c, "fetched")
  /\ row' = [row EXCEPT ![c] = r]
  /\ UNCHANGED <<db, stage, idList>>

\* It performs the job if the job still waits to be, and finishes it; otherwise
\* it has nothing to do but remove the row.
Perform(c) ==
  LET j == row[c][1] IN
  /\ pc[c] = "fetched"
  /\ IF Live(db, j) /\ db.name[j] = "Enqueued"
       THEN Change(c, {Finishing(db, j)})
       ELSE UNCHANGED <<db, stage, idList>>
  /\ Goto(c, "performed")
  /\ UNCHANGED row

\* Mutant of RemoveFromQueue: deletes by job, not by id.
RemoveAllOf(c) ==
  /\ pc[c] = "performed"
  /\ db' = [db EXCEPT !.queue = {r \in @ : r[1] # row[c][1]}]
  /\ Goto(c, "idle")
  /\ row' = [row EXCEPT ![c] = NoRow]
  /\ UNCHANGED <<stage, idList>>

RemoveFromQueue(c) ==
  /\ pc[c] = "performed"
  /\ db' = [db EXCEPT !.queue = @ \ {row[c]}]
  /\ Goto(c, "idle")
  /\ row' = [row EXCEPT ![c] = NoRow]
  /\ UNCHANGED <<stage, idList>>

\* A transaction fails, or the process dies: whatever is committed stays.
Abandon(c) ==
  /\ pc[c] # "idle"
  /\ Goto(c, "idle")
  /\ row' = [row EXCEPT ![c] = NoRow]
  /\ UNCHANGED <<db, stage, idList>>

--------------------------------------------------------------------------------
(* ExpirationManager.DeleteJobItems: a select and a delete for each table *)

\* Mutant of After: jobs before the rows that refer to them.
JobsFirst(s) == CASE s = "queue" -> "jobs" [] s = "jobs" -> "params"
                  [] s = "params" -> "states" [] s = "states" -> "queue"

After(s) == CASE s = "queue" -> "params" [] s = "params" -> "states"
              [] s = "states" -> "jobs" [] s = "jobs" -> "queue"

Due == IF stage = "jobs" THEN {<<j, 0>> : j \in {i \in Jobs : Over(db, i)}}
                         ELSE {r \in db[stage] : Over(db, r[1])}

SweepSelect ==
  /\ idList = {}
  /\ Due # {}
  /\ idList' \in kSubset(Min({BatchSize, Cardinality(Due)}), Due)
  /\ UNCHANGED <<db, pc, row, stage>>

SweepNothing ==
  /\ idList = {}
  /\ Due = {}
  /\ stage' = After(stage)
  /\ UNCHANGED <<db, pc, row, idList>>

\* Helper: the foreign keys of the three child tables.
Referenced(j) == \E T \in Children : \E n \in 0 .. MaxRows : <<j, n>> \in db[T]

\* Mutant of DeleteChildren: deletes by job, not by id.
DeleteChildrenOf(T) ==
  /\ stage = T
  /\ db' = [db EXCEPT ![T] = {r \in @ : ~\E s \in idList : s[1] = r[1]}]

DeleteChildren(T) ==
  /\ stage = T
  /\ db' = [db EXCEPT ![T] = @ \ idList]

DeleteJobs ==
  /\ stage = "jobs"
  /\ \A r \in idList : ~Referenced(r[1])
  /\ db' = [db EXCEPT !.status = [j \in Jobs |-> IF <<j, 0>> \in idList
                                                   THEN "gone" ELSE @[j]],
                      !.ttl    = [j \in Jobs |-> IF <<j, 0>> \in idList
                                                   THEN Never ELSE @[j]]]

SweepDelete ==
  /\ idList # {}
  /\ DeleteJobs \/ \E T \in Children : DeleteChildren(T)
  /\ idList' = {}
  /\ stage' = After(stage)
  /\ UNCHANGED <<pc, row>>

\* A foreign key refuses the delete of the jobs, or any statement fails, or the
\* process dies: the pass is over.
SweepFails ==
  /\ idList # {}
  /\ idList' = {}
  /\ stage' = "queue"
  /\ UNCHANGED <<db, pc, row>>

Tick ==
  /\ db' = [db EXCEPT !.ttl = [j \in Jobs |-> IF @[j] >= 0 THEN @[j] - 1 ELSE @[j]]]
  /\ UNCHANGED <<pc, row, stage, idList>>

--------------------------------------------------------------------------------

ClientStep(c) ==
  \/ \E j \in Jobs : GetJobData(c, j)
  \/ Commit(c) \/ CommitInDoubt(c)
  \/ \E r \in db.queue : FetchNextJob(c, r)
  \/ Perform(c) \/ RemoveFromQueue(c)
  \/ Abandon(c)

Next ==
  \/ \E j \in Jobs : CreateExpiredJob(j) \/ SetJobParameter(j)
  \/ \E c \in Clients : ClientStep(c)
  \/ SweepSelect \/ SweepNothing \/ SweepDelete \/ SweepFails
  \/ Tick

Spec == Init /\ [][Next]_vars

\* The ExpirationManager runs again and again, and no delete of it fails for
\* ever.  Nobody has to change a job.
Fairness ==
  /\ WF_vars(Tick)
  /\ WF_vars(SweepNothing)
  /\ WF_vars(SweepSelect)
  /\ WF_vars(SweepDelete \/ SweepFails)
  /\ \A r \in Ids : SF_vars(r \in idList /\ SweepDelete)

LiveSpec == Spec /\ Fairness

--------------------------------------------------------------------------------
(* Properties *)

\* Every variable has its type.
TypeOK ==
  /\ db.status  \in [Jobs -> {"new", "live", "gone"}]
  /\ db.ttl     \in [Jobs -> Never .. JobTtl]
  /\ db.name    \in [Jobs -> Names]
  /\ db.current \in [Jobs -> 0 .. MaxRows]
  /\ db.last    \in [Jobs -> 0 .. MaxRows]
  /\ db.nulls   \subseteq Jobs
  /\ \A T \in Children : db[T] \subseteq Ids
  /\ pc     \in [Clients -> {"idle", "changing", "fetched", "performed"}]
  /\ row    \in [Clients -> Ids \cup {NoRow}]
  /\ stage  \in Children \cup {"jobs"}
  /\ idList \subseteq Ids

\* The sweep deletes no job whose life was extended after the select: a state
\* change leaves a new state row, to which the foreign key holds.
SweepsOnlyExpired ==
  [][\A j \in Jobs : Live(db, j) /\ ~Live(db', j) => Over(db, j)]_vars

\* A job whose state is Enqueued has the queue row that came with that state,
\* although workers remove rows and the sweep deletes those of expired jobs.
EnqueuedIsQueued ==
  \A j \in Jobs :
    Live(db, j) /\ db.name[j] = "Enqueued" => <<j, db.current[j]>> \in db.queue

\* The state a job shows is its newest, and in its history unless the job has
\* expired since it was set.
CurrentInHistory ==
  \A j \in Jobs : Live(db, j) =>
    /\ \A n \in 0 .. MaxRows : <<j, n>> \in db.states => n <= db.current[j]
    /\ db.current[j] # 0 /\ db.ttl[j] # -1 => <<j, db.current[j]>> \in db.states

\* An expired job is eventually deleted with all its rows, or its life extended.
ExpiredIsSwept == \A j \in Jobs : Over(db, j) ~> ~Over(db, j)
================================================================================
