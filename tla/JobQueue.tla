-------------------------------- MODULE JobQueue -------------------------------
(***************************************************************************)
(* The job queue: FluentNHibernateJobQueue.cs hands rows of the _JobQueue  *)
(* table to workers, FluentNHibernateFetchedJob.cs gives them back.        *)
(*                                                                         *)
(* A row that is fetched stays in the table; FetchedAt hides it from other *)
(* workers until InvisibilityTimeout has passed, which is all that recovers*)
(* the jobs of a worker that dies.  Dequeue reads and marks a row in one   *)
(* transaction, under the distributed lock "JobQueue".                     *)
(*                                                                         *)
(* Time.  age[i] is how long ago FetchedAt of row i was, cut off at the    *)
(* first age Dequeue treats as over, Invisibility + 1; -1 is a null        *)
(* FetchedAt.  fetchAge[w] is the same for the jobQueueFetchedAt that      *)
(* worker w took: what it writes, then how long it has had the job.        *)
(*                                                                         *)
(* The distributed lock is the abstract one of ExclusiveLock, which        *)
(* DistributedLock is checked to implement while leases are kept.          *)
(***************************************************************************)
EXTENDS Integers

CONSTANTS
  Workers,       \* threads that call Dequeue
  Items,         \* rows of the job queue, each a job of its own
  Queues,        \* queue names
  QueueOf,       \* Items -> Queues, the row's Queue
  Listens,       \* Workers -> SUBSET Queues, the `queues' a worker passes
  Invisibility,  \* Options.InvisibilityTimeout
  LockReliable,  \* TRUE: the lock's lease never ends inside Dequeue
  Serializable,  \* TRUE: the default isolation level, FALSE: read committed
  Prompt,        \* TRUE: no job runs longer than Invisibility
  None

ASSUME InvisibilityAssumption == Invisibility \in Nat
ASSUME QueueAssumption == /\ QueueOf \in [Items -> Queues]
                          /\ Listens \in [Workers -> SUBSET Queues]
ASSUME NoneAssumption  == None \notin Workers \cup Items

VARIABLES
  status,    \* "new": not enqueued yet, "queued": in the table, "gone": deleted
  age,       \* FetchedAt of each row, as its age
  holder,    \* the holder of the distributed lock
  pc,        \* where each worker is
  job,       \* the row each worker has read, or fetched, or None
  fetchAge,  \* the age of each worker's jobQueueFetchedAt
  stale,     \* workers whose transaction read a row that has changed since
  doubtful   \* rows that a Requeue gave back although it was reported as
             \* failed, until nobody has them in hand (read by properties only)

vars == <<status, age, holder, pc, job, fetchAge, stale, doubtful>>

JobQueueLock == "JobQueue"

Lock == INSTANCE ExclusiveLock WITH Clients <- Workers, Resources <- {JobQueueLock}

--------------------------------------------------------------------------------

\* Inside the `using' of the lock, and owning a fetched job.
InLock == {"locked", "fetching", "fetched", "empty"}
Owning == {"fetched", "working", "failed", "disposing"}

Owns(w, i) == pc[w] \in Owning /\ job[w] = i

\* Mutants of Fetchable: FetchedAt <= cutoff; FetchedAt == null only.
FetchableEarly(i)   == age[i] = -1 \/ age[i] >= Invisibility
FetchableOnlyNew(i) == age[i] = -1

\* FetchedAt == null || FetchedAt < cutoff
Fetchable(i) == age[i] = -1 \/ age[i] > Invisibility

Goto(w, where) == pc' = [pc EXCEPT ![w] = where]

\* Worker w has no row in its hands any more.
Drop(w) ==
  /\ job' = [job EXCEPT ![w] = None]
  /\ fetchAge' = [fetchAge EXCEPT ![w] = 0]
  /\ doubtful' = {i \in doubtful : \E v \in Workers \ {w} : Owns(v, i)}

\* Every change of a row disturbs the transactions that have read it.
Disturb(i, w) ==
  stale' = stale \cup {v \in Workers \ {w} : pc[v] = "fetching" /\ job[v] = i}

Init ==
  /\ status   = [i \in Items |-> "new"]
  /\ age      = [i \in Items |-> -1]
  /\ Lock!Init
  /\ pc       = [w \in Workers |-> "idle"]
  /\ job      = [w \in Workers |-> None]
  /\ fetchAge = [w \in Workers |-> 0]
  /\ stale    = {}
  /\ doubtful = {}

--------------------------------------------------------------------------------
(* Enqueue, part of the commit of a write-only transaction *)

Enqueue(i) ==
  /\ status[i] = "new"
  /\ status' = [status EXCEPT ![i] = "queued"]
  /\ UNCHANGED <<age, holder, pc, job, fetchAge, stale, doubtful>>

--------------------------------------------------------------------------------
(* Dequeue *)

\* Waiting for the lock, and DistributedLockTimeoutException, leave a worker
\* idle: it polls again.
AcquireLock(w) ==
  /\ pc[w] = "idle"
  /\ Lock!Grant(w, JobQueueLock)
  /\ Goto(w, "locked")
  /\ UNCHANGED <<status, age, job, fetchAge, stale, doubtful>>

\* FirstOrDefault has no ordering: any row that matches may come first.
ReadRow(w, i) ==
  /\ pc[w] = "locked"
  /\ status[i] = "queued"
  /\ Fetchable(i)
  /\ QueueOf[i] \in Listens[w]
  /\ job' = [job EXCEPT ![w] = i]
  /\ fetchAge' = [fetchAge EXCEPT ![w] = 0]
  /\ Goto(w, "fetching")
  /\ UNCHANGED <<status, age, holder, stale, doubtful>>

ReadNothing(w) ==
  /\ pc[w] = "locked"
  /\ \A i \in Items : ~(status[i] = "queued" /\ Fetchable(i) /\ QueueOf[i] \in Listens[w])
  /\ Goto(w, "empty")
  /\ UNCHANGED <<status, age, holder, job, fetchAge, stale, doubtful>>

\* Mutants of StoreFetch: commits whatever has changed since the read; writes a
\* local time that is ahead of UtcNow.
StoreFetchAnyway(w) ==
  /\ pc[w] = "fetching"
  /\ status[job[w]] = "queued"
  /\ age' = [age EXCEPT ![job[w]] = fetchAge[w]]
  /\ stale' = (stale \ {w}) \cup
                {v \in Workers \ {w} : pc[v] = "fetching" /\ job[v] = job[w]}

StoreLocalTime(w) ==
  /\ pc[w] = "fetching"
  /\ Serializable => w \notin stale
  /\ status[job[w]] = "queued"
  /\ age' = [age EXCEPT ![job[w]] = fetchAge[w] - Invisibility - 1]
  /\ stale' = (stale \ {w}) \cup
                {v \in Workers \ {w} : pc[v] = "fetching" /\ job[v] = job[w]}

\* The update commits: the row must still be there (NHibernate checks the row
\* count), and be unchanged if transactions are serializable.
StoreFetch(w) ==
  /\ pc[w] = "fetching"
  /\ Serializable => w \notin stale
  /\ status[job[w]] = "queued"
  /\ age' = [age EXCEPT ![job[w]] = fetchAge[w]]
  /\ stale' = (stale \ {w}) \cup
                {v \in Workers \ {w} : pc[v] = "fetching" /\ job[v] = job[w]}

CommitFetch(w) ==
  /\ StoreFetch(w)
  /\ Goto(w, "fetched")
  /\ UNCHANGED <<status, holder, job, fetchAge, doubtful>>

\* Committed but reported as failed: nobody learns of the job.
CommitInDoubt(w) ==
  /\ StoreFetch(w)
  /\ Goto(w, "empty")
  /\ Drop(w)
  /\ UNCHANGED <<status, holder>>

\* Rolled back, with the exception swallowed (null) or thrown through `using'.
AbortFetch(w) ==
  /\ pc[w] \in {"locked", "fetching"}
  /\ Goto(w, "empty")
  /\ Drop(w)
  /\ stale' = stale \ {w}
  /\ UNCHANGED <<status, age, holder>>

\* The lock row this worker's Dispose leaves behind: deleted, or, when the
\* delete fails, still there.  A late Dispose may delete the row of the next
\* holder, which re-used its id (see DistributedLock).
DisposeLock ==
  \/ Lock!Free({JobQueueLock})
  \/ UNCHANGED holder

Unlock(w) ==
  /\ pc[w] \in {"fetched", "empty"}
  /\ DisposeLock
  /\ Goto(w, IF job[w] = None THEN "idle" ELSE "working")
  /\ UNCHANGED <<status, age, job, fetchAge, stale, doubtful>>

\* Dispose throws at the end of `using': Dequeue fails after the fetch has been
\* committed, and the fetched job is dropped without a requeue.
UnlockThrows(w) ==
  /\ pc[w] \in {"fetched", "empty"}
  /\ UNCHANGED holder
  /\ Goto(w, "idle")
  /\ Drop(w)
  /\ UNCHANGED <<status, age, stale>>

\* The lease of the lock row runs out.
LapseLock ==
  /\ LockReliable => \A w \in Workers : holder[JobQueueLock] = w => pc[w] \notin InLock
  /\ Lock!Free({JobQueueLock})
  /\ UNCHANGED <<status, age, pc, job, fetchAge, stale, doubtful>>

--------------------------------------------------------------------------------
(* The fetched job: Hangfire's worker performs the job, calls RemoveFromQueue *)
(* when that succeeded or Requeue when something failed, and disposes of the  *)
(* fetched job in any case.                                                   *)

\* Deleted by row id alone: FetchToken is written but never compared.
DeleteRow(w) ==
  /\ status' = [status EXCEPT ![job[w]] = "gone"]
  /\ age'    = [age EXCEPT ![job[w]] = -1]
  /\ Disturb(job[w], w)

\* FetchedAt is cleared by row id alone, whoever has fetched the row meanwhile.
ClearFetchedAt(w) ==
  /\ age' = [age EXCEPT ![job[w]] = -1]
  /\ Disturb(job[w], w)

\* The fetched job is disposed of, with nothing left for Dispose to do.
Release(w) ==
  /\ Goto(w, "idle")
  /\ Drop(w)

\* What went wrong is answered by Requeue(), or left to Dispose.
GiveUp(w) == \E where \in {"failed", "disposing"} : Goto(w, where)

\* _removedFromQueue is set: Dispose requeues nothing.
RemoveFromQueue(w) ==
  /\ pc[w] = "working"
  /\ DeleteRow(w)
  /\ Release(w)
  /\ UNCHANGED holder

\* The job fails, or RemoveFromQueue does: _removedFromQueue stays false.
Fail(w) ==
  /\ pc[w] = "working"
  /\ GiveUp(w)
  /\ UNCHANGED <<status, age, holder, job, fetchAge, stale, doubtful>>

\* RemoveFromQueue deletes the row and then reports a failure.
RemoveInDoubt(w) ==
  /\ pc[w] = "working"
  /\ DeleteRow(w)
  /\ GiveUp(w)
  /\ UNCHANGED <<holder, job, fetchAge, doubtful>>

\* Mutant of Requeue: _requeued is not set.
RequeueUnmarked(w) ==
  /\ pc[w] = "failed"
  /\ ClearFetchedAt(w)
  /\ Goto(w, "disposing")
  /\ UNCHANGED <<status, holder, job, fetchAge, doubtful>>

\* _requeued is set: Dispose requeues nothing.
Requeue(w) ==
  /\ pc[w] = "failed"
  /\ ClearFetchedAt(w)
  /\ Release(w)
  /\ UNCHANGED <<status, holder>>

RequeueFails(w) ==
  /\ pc[w] = "failed"
  /\ Goto(w, "disposing")
  /\ UNCHANGED <<status, age, holder, job, fetchAge, stale, doubtful>>

\* The row is requeued and then a failure reported: _requeued stays false.
RequeueInDoubt(w) ==
  /\ pc[w] = "failed"
  /\ ClearFetchedAt(w)
  /\ Goto(w, "disposing")
  /\ doubtful' = doubtful \cup {job[w]}
  /\ UNCHANGED <<status, holder, job, fetchAge>>

\* Dispose of a job neither removed nor requeued, as far as the flags know.
Dispose(w) ==
  /\ pc[w] = "disposing"
  /\ ClearFetchedAt(w)
  /\ Release(w)
  /\ UNCHANGED <<status, holder>>

DisposeFails(w) ==
  /\ pc[w] = "disposing"
  /\ Release(w)
  /\ UNCHANGED <<status, age, holder, stale>>

--------------------------------------------------------------------------------
(* Time and crashes *)

Older(n) == IF n \in 0 .. Invisibility THEN n + 1 ELSE n

Tick ==
  /\ Prompt => \A w \in Workers :
                 pc[w] \in Owning \cup {"fetching"} => fetchAge[w] < Invisibility
  /\ age'      = [i \in Items |-> Older(age[i])]
  /\ fetchAge' = [w \in Workers |-> IF job[w] = None THEN fetchAge[w]
                                                      ELSE Older(fetchAge[w])]
  /\ UNCHANGED <<status, holder, pc, job, stale, doubtful>>

\* The worker's process dies; the rows it wrote stay, the lock's included.
Crash(w) ==
  /\ Release(w)
  /\ stale' = stale \ {w}
  /\ UNCHANGED <<status, age, holder>>

--------------------------------------------------------------------------------

DequeueStep(w) ==
  \/ AcquireLock(w)
  \/ ReadNothing(w) \/ \E i \in Items : ReadRow(w, i)
  \/ CommitFetch(w) \/ CommitInDoubt(w) \/ AbortFetch(w)
  \/ Unlock(w) \/ UnlockThrows(w)

FetchedJobStep(w) ==
  \/ RemoveFromQueue(w) \/ RemoveInDoubt(w) \/ Fail(w)
  \/ Requeue(w) \/ RequeueFails(w) \/ RequeueInDoubt(w)
  \/ Dispose(w) \/ DisposeFails(w)

Next ==
  \/ \E i \in Items : Enqueue(i)
  \/ \E w \in Workers : DequeueStep(w) \/ FetchedJobStep(w) \/ Crash(w)
  \/ LapseLock
  \/ Tick

Spec == Init /\ [][Next]_vars

\* Time passes, leases end and workers keep calling Dequeue.  A worker may
\* crash and a statement may fail any number of times, but no step of the way
\* of an item through the queue fails for ever (the SF of that step).
Fairness ==
  /\ WF_vars(Tick)
  /\ WF_vars(LapseLock)
  /\ \A w \in Workers :
       /\ SF_vars(AcquireLock(w))
       /\ SF_vars(ReadNothing(w) \/ \E i \in Items : ReadRow(w, i))
       /\ WF_vars(Unlock(w))
       /\ WF_vars(CommitFetch(w) \/ AbortFetch(w))
       /\ WF_vars(RemoveFromQueue(w) \/ Fail(w))
       /\ WF_vars(Requeue(w) \/ RequeueFails(w))
       /\ WF_vars(Dispose(w) \/ DisposeFails(w))
  /\ \A i \in Items :
       /\ SF_vars(\E w \in Workers : job[w] = i /\ CommitFetch(w))
       /\ SF_vars(\E w \in Workers : job[w] = i /\ Unlock(w))
       /\ SF_vars(\E w \in Workers : job[w] = i /\ RemoveFromQueue(w))

LiveSpec == Spec /\ Fairness

--------------------------------------------------------------------------------
(* Properties *)

\* Every variable has its type.
TypeOK ==
  /\ status   \in [Items -> {"new", "queued", "gone"}]
  /\ age      \in [Items -> -1 .. Invisibility + 1]
  /\ holder   \in [{JobQueueLock} -> Workers \cup {None}]
  /\ pc       \in [Workers -> InLock \cup Owning \cup {"idle"}]
  /\ job      \in [Workers -> Items \cup {None}]
  /\ fetchAge \in [Workers -> 0 .. Invisibility + 1]
  /\ stale    \subseteq Workers
  /\ doubtful \subseteq Items

\* A fetch never takes effect on a row another fetch has marked less than
\* InvisibilityTimeout before, although Dequeue tests FetchedAt at its read and
\* the row may change before its commit.  The lock alone ensures it, and so
\* does the isolation level alone.
NoEarlyRefetch ==
  [][\A w \in Workers :
       pc[w] = "fetching" /\ pc'[w] = "fetched" => Fetchable(job[w])]_vars

\* One job is never in the hands of two workers, as long as jobs finish within
\* InvisibilityTimeout.  The one exception is a row that a Requeue gave back and
\* reported as failed: Dispose requeues it once more, perhaps out of the hands of
\* the worker that has fetched it meanwhile.
ExclusiveFetch ==
  \A v, w \in Workers : \A i \in Items \ doubtful : Owns(v, i) /\ Owns(w, i) => v = w

\* Two workers never have one job while each has had it for no longer than
\* InvisibilityTimeout ("How long a job can run before Hangfire tries to
\* re-queue it"), whatever other workers do, unless a Requeue is in doubt.
InTimeExclusion ==
  \A v, w \in Workers : \A i \in Items \ doubtful :
    /\ Owns(v, i) /\ fetchAge[v] <= Invisibility
    /\ Owns(w, i) /\ fetchAge[w] <= Invisibility
    => v = w

\* The row of a job keeps the FetchedAt its worker wrote until that worker is
\* done with it, as long as jobs finish within InvisibilityTimeout: nobody
\* requeues, refetches or deletes a row in another worker's hands, with the
\* exception of ExclusiveFetch.
KeptWhileWorking ==
  \A w \in Workers : \A i \in Items \ doubtful :
    pc[w] \in {"fetched", "working"} /\ job[w] = i
      => status[i] = "queued" /\ age[i] = fetchAge[w]

\* Every enqueued job whose queue has listeners is eventually performed and
\* removed, whatever crashes and failed statements occur on the way.
EventuallyRemoved ==
  \A i \in Items : status[i] = "queued" ~> status[i] = "gone"

--------------------------------------------------------------------------------
(* The inductive invariants behind NoEarlyRefetch and ExclusiveFetch, proved   *)
(* in JobQueue_proofs.                                                         *)

\* A worker has a job in its hands exactly from its read to its last word on it.
JobInHand ==
  \A w \in Workers :
    job[w] # None <=> pc[w] \in Owning \cup {"fetching"}

\* A lock that can be relied on is held by whoever is inside Dequeue.
LockHeld ==
  LockReliable => \A w \in Workers : pc[w] \in InLock => holder[JobQueueLock] = w

\* A row outside the table carries no FetchedAt.
NotQueuedUnfetched == \A i \in Items : status[i] # "queued" => age[i] = -1

\* What a worker that may commit has read is still true.
ReadStillHolds ==
  \A w \in Workers :
    pc[w] = "fetching" /\ (Serializable => w \notin stale) => Fetchable(job[w])

\* Enough to prove NoEarlyRefetch when LockReliable or Serializable.
FetchInv ==
  /\ TypeOK
  /\ JobInHand
  /\ LockHeld
  /\ NotQueuedUnfetched
  /\ ReadStillHolds

\* The row of an owned job, while it is in the table, shows the owner's fetch,
\* and that fetch is not over, unless the row is in doubt.
OwnerRow ==
  \A w \in Workers :
    /\ pc[w] = "fetching" => fetchAge[w] <= Invisibility
    /\ pc[w] \in Owning /\ job[w] \notin doubtful =>
         /\ status[job[w]] # "new"
         /\ pc[w] \in {"fetched", "working"} => status[job[w]] = "queued"
         /\ status[job[w]] = "queued" =>
              age[job[w]] = fetchAge[w] /\ fetchAge[w] <= Invisibility

\* Enough to prove ExclusiveFetch when, in addition, Prompt.
OwnInv == FetchInv /\ OwnerRow /\ ExclusiveFetch
================================================================================
