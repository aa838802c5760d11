---------------------------- MODULE DistributedLock ----------------------------
(***************************************************************************)
(* The database lock of FluentNHibernateDistributedLock.cs: one row of the *)
(* _DistributedLock table per locked resource, carrying the instant at     *)
(* which its lease runs out.  A client is one lock object; clients of one  *)
(* process share the static Mutex.                                         *)
(*                                                                         *)
(* Time.  Every instant is kept relative to now, in ticks of               *)
(* DistributedLockPollInterval: a row's `ttl' is ExpireAtAsLong - UtcNow,  *)
(* cut off at -1 because the code only tests whether it is negative.       *)
(*                                                                         *)
(* Transactions.  UseStatelessSessionInTransaction opens a Serializable    *)
(* TransactionScope (the default isolation level): a transaction reads in  *)
(* one step and commits in a later one, and cannot commit when the row it  *)
(* read has been changed since (the client is in `stale').  A statement    *)
(* outside a transaction is one step.                                      *)
(***************************************************************************)
EXTENDS Integers

CONSTANTS
  Clients,      \* lock objects
  Processes,    \* server processes, each with its own static Mutex
  ProcOf,       \* the process of each client
  Resources,    \* resource names
  Ids,          \* values of the identity column
  Lease,        \* _timeout, the length of the lease
  WaitTimeout,  \* Options.DistributedLockWaitTimeout
  Prompt,       \* TRUE: nobody commits or keeps a lock past its lease
  Sweeping,     \* TRUE: the ExpirationManager runs
  None          \* no id, no client, no row

ASSUME ProcAssumption  == ProcOf \in [Clients -> Processes]
ASSUME LeaseAssumption == Lease \in Nat /\ WaitTimeout \in Nat
ASSUME FlagAssumption  == Prompt \in BOOLEAN /\ Sweeping \in BOOLEAN
ASSUME NoneAssumption  == None \notin Ids \cup Clients

VARIABLES
  locks,        \* the table, by its unique Resource column
  mutex,        \* the client that owns each process's Mutex
  pc,           \* where each client is
  resource,     \* _resource
  lockId,       \* _lockId
  expireAt,     \* the expiry a client writes or has written, relative to now
  waited,       \* started.Elapsed
  stale,        \* clients whose transaction read a row that has changed
  idList        \* ids the ExpirationManager selected and has not deleted yet

vars == <<locks, mutex, pc, resource, lockId, expireAt, waited, stale, idList>>

--------------------------------------------------------------------------------

Row    == [id : Ids, ttl : -1 .. Lease]
NoRow  == [id |-> None, ttl |-> -1]

\* Positions of a client that is inside Acquire, and of one that was granted
\* the lock and has not given it back.
Acquiring == {"entering", "reading", "writing", "checking", "sleeping"}
Holding   == {"holding", "releasing", "deleting"}
InMutex   == {"reading", "writing", "deleting"}

\* Mutant of Expired: ExpireAtAsLong <= utcNow.
ExpiredEarly(row) == row.ttl <= 0
Expired(row) == row.ttl < 0
Present(r)   == locks[r] # NoRow

\* An identity value no row, lock object or pending delete refers to.
FreshIds == Ids \ (   {locks[r].id : r \in Resources}
                   \cup {lockId[c] : c \in Clients}
                   \cup idList)

\* The open transactions that have read the row of a resource in R.
Readers(R) == {c \in Clients : pc[c] = "writing" /\ resource[c] \in R}

Holds(c, r) == pc[c] \in Holding /\ resource[c] = r

Init ==
  /\ locks    = [r \in Resources |-> NoRow]
  /\ mutex    = [p \in Processes |-> None]
  /\ pc       = [c \in Clients |-> "idle"]
  /\ resource \in [Clients -> Resources]
  /\ lockId   = [c \in Clients |-> None]
  /\ expireAt = [c \in Clients |-> -1]
  /\ waited   = [c \in Clients |-> 0]
  /\ stale    = {}
  /\ idList   = {}

--------------------------------------------------------------------------------
(* Acquire *)

\* Helpers: client c moves to a position; c leaves its process's Mutex.
Goto(c, where) == pc' = [pc EXCEPT ![c] = where]
ExitMutex(c)   == mutex' = [mutex EXCEPT ![ProcOf[c]] = None]

\* The lock object is garbage: Acquire threw, or Dispose is over.
Forget(c) ==
  /\ lockId'   = [lockId EXCEPT ![c] = None]
  /\ expireAt' = [expireAt EXCEPT ![c] = -1]
  /\ waited'   = [waited EXCEPT ![c] = 0]

BeginAcquire(c, r) ==
  /\ pc[c] = "idle"
  /\ resource' = [resource EXCEPT ![c] = r]
  /\ Goto(c, "entering")
  /\ UNCHANGED <<locks, mutex, lockId, expireAt, waited, stale, idList>>

\* Monitor.TryEnter succeeds.
EnterMutex(c) ==
  /\ pc[c] = "entering"
  /\ mutex[ProcOf[c]] = None
  /\ mutex' = [mutex EXCEPT ![ProcOf[c]] = c]
  /\ Goto(c, "reading")
  /\ UNCHANGED <<locks, resource, lockId, expireAt, waited, stale, idList>>

\* Monitor.TryEnter gives up after QueuePollInterval: not acquired.
MutexTimeout(c) ==
  /\ pc[c] = "entering"
  /\ mutex[ProcOf[c]] # None
  /\ Goto(c, "checking")
  /\ UNCHANGED <<locks, mutex, resource, lockId, expireAt, waited, stale, idList>>

\* TryAcquireWithEntity finds a row whose lease runs: not acquired.
RowTaken(c) ==
  /\ pc[c] = "reading"
  /\ Present(resource[c])
  /\ ~Expired(locks[resource[c]])
  /\ ExitMutex(c)
  /\ Goto(c, "checking")
  /\ UNCHANGED <<locks, resource, lockId, expireAt, waited, stale, idList>>

\* Mutant of WriteRow: takes over the row without testing its expiry.
WriteRowUntested(c, id) ==
  /\ pc[c] = "reading"
  /\ IF Present(resource[c]) THEN id = locks[resource[c]].id ELSE id \in FreshIds
  /\ lockId'   = [lockId EXCEPT ![c] = id]
  /\ expireAt' = [expireAt EXCEPT ![c] = Lease]
  /\ Goto(c, "writing")
  /\ UNCHANGED <<locks, mutex, resource, waited, stale, idList>>

\* It inserts a new row, or re-uses an expired one under the same id.  Both
\* set _lockId and compute the expiry here, before the transaction commits.
WriteRow(c, id) ==
  /\ pc[c] = "reading"
  /\ IF Present(resource[c])
       THEN Expired(locks[resource[c]]) /\ id = locks[resource[c]].id
       ELSE id \in FreshIds
  /\ lockId'   = [lockId EXCEPT ![c] = id]
  /\ expireAt' = [expireAt EXCEPT ![c] = Lease]
  /\ Goto(c, "writing")
  /\ UNCHANGED <<locks, mutex, resource, waited, stale, idList>>

\* Mutants of StoreRow: commits whatever has changed since the read; adds the
\* timeout to an expiry that has it already.
StoreRowAnyway(c) ==
  /\ pc[c] = "writing"
  /\ locks' = [locks EXCEPT ![resource[c]] =
                              [id |-> lockId[c], ttl |-> expireAt[c]]]
  /\ stale' = stale \cup (Readers({resource[c]}) \ {c})
  /\ ExitMutex(c)

StoreRowTwiceTheLease(c) ==
  /\ pc[c] = "writing"
  /\ c \notin stale
  /\ locks' = [locks EXCEPT ![resource[c]] =
                              [id |-> lockId[c], ttl |-> expireAt[c] + Lease]]
  /\ stale' = stale \cup (Readers({resource[c]}) \ {c})
  /\ ExitMutex(c)

\* The row a transaction writes reaches the table.
StoreRow(c) ==
  /\ pc[c] = "writing"
  /\ c \notin stale
  /\ locks' = [locks EXCEPT ![resource[c]] =
                              [id |-> lockId[c], ttl |-> expireAt[c]]]
  /\ stale' = stale \cup (Readers({resource[c]}) \ {c})
  /\ ExitMutex(c)

CommitGrant(c) ==
  /\ StoreRow(c)
  /\ Goto(c, "holding")
  /\ waited' = [waited EXCEPT ![c] = 0]
  /\ UNCHANGED <<resource, lockId, expireAt, idList>>

\* The row is committed but Complete reports the outcome as in doubt: the
\* System.Transactions exception is not one WrapForTransaction swallows.
CommitInDoubt(c) ==
  /\ StoreRow(c)
  /\ Goto(c, "idle")
  /\ Forget(c)
  /\ UNCHANGED <<resource, idList>>

\* Mutant of RollBack: no `finally' around Monitor.Exit.
RollBackInMutex(c) ==
  /\ pc[c] \in {"reading", "writing"}
  /\ stale' = stale \ {c}
  /\ UNCHANGED <<locks, mutex, resource, idList>>

\* The transaction rolls back and the Mutex is left.
RollBack(c) ==
  /\ pc[c] \in {"reading", "writing"}
  /\ ExitMutex(c)
  /\ stale' = stale \ {c}
  /\ UNCHANGED <<locks, resource, idList>>

\* A deadlock: WrapForDeadlock runs the whole attempt again.
AbortDeadlock(c) ==
  /\ RollBack(c)
  /\ Goto(c, "entering")
  /\ expireAt' = [expireAt EXCEPT ![c] = -1]
  /\ UNCHANGED <<lockId, waited>>

\* An exception WrapForTransaction turns into "not acquired".
AbortSwallowed(c) ==
  /\ RollBack(c)
  /\ Goto(c, "checking")
  /\ expireAt' = [expireAt EXCEPT ![c] = -1]
  /\ UNCHANGED <<lockId, waited>>

\* Any other exception leaves Acquire.
AbortThrown(c) ==
  /\ RollBack(c)
  /\ Goto(c, "idle")
  /\ Forget(c)

\* Not acquired: DistributedLockTimeoutException when the wait is over ...
ThrowTimeout(c) ==
  /\ pc[c] = "checking"
  /\ waited[c] > WaitTimeout
  /\ Goto(c, "idle")
  /\ Forget(c)
  /\ UNCHANGED <<locks, mutex, resource, stale, idList>>

\* Mutant of Sleep: the stopwatch starts again with every attempt.
SleepRestarting(c) ==
  /\ pc[c] = "checking"
  /\ waited[c] <= WaitTimeout
  /\ Goto(c, "sleeping")
  /\ waited' = [waited EXCEPT ![c] = 0]
  /\ UNCHANGED <<locks, mutex, resource, lockId, expireAt, stale, idList>>

\* ... otherwise sleep for a poll interval; Tick wakes the client.
Sleep(c) ==
  /\ pc[c] = "checking"
  /\ waited[c] <= WaitTimeout
  /\ Goto(c, "sleeping")
  /\ UNCHANGED <<locks, mutex, resource, lockId, expireAt, waited, stale, idList>>

\* PollForCancellation throws when the caller's token is cancelled.
Cancel(c) ==
  /\ pc[c] = "sleeping"
  /\ Goto(c, "idle")
  /\ Forget(c)
  /\ UNCHANGED <<locks, mutex, resource, stale, idList>>

--------------------------------------------------------------------------------
(* Release *)

Dispose(c) ==
  /\ pc[c] = "holding"
  /\ Goto(c, "releasing")
  /\ UNCHANGED <<locks, mutex, resource, lockId, expireAt, waited, stale, idList>>

\* lock (Mutex): no timeout here.
ReleaseEnter(c) ==
  /\ pc[c] = "releasing"
  /\ mutex[ProcOf[c]] = None
  /\ mutex' = [mutex EXCEPT ![ProcOf[c]] = c]
  /\ Goto(c, "deleting")
  /\ UNCHANGED <<locks, resource, lockId, expireAt, waited, stale, idList>>

\* Delete the rows with an id in D, whoever wrote them last.
DeleteRows(D) ==
  /\ locks' = [r \in Resources |-> IF locks[r].id \in D THEN NoRow ELSE locks[r]]
  /\ stale' = stale \cup Readers({r \in Resources : locks[r].id \in D})

ReleaseDelete(c) ==
  /\ pc[c] = "deleting"
  /\ DeleteRows({lockId[c]})
  /\ ExitMutex(c)
  /\ Goto(c, "idle")
  /\ Forget(c)
  /\ UNCHANGED <<resource, idList>>

ReleaseDeadlock(c) ==
  /\ pc[c] = "deleting"
  /\ ExitMutex(c)
  /\ Goto(c, "releasing")
  /\ UNCHANGED <<locks, resource, lockId, expireAt, waited, stale, idList>>

\* Any other failure, swallowed or thrown: the row stays until its lease ends.
ReleaseFails(c) ==
  /\ pc[c] = "deleting"
  /\ ExitMutex(c)
  /\ Goto(c, "idle")
  /\ Forget(c)
  /\ UNCHANGED <<locks, resource, stale, idList>>

--------------------------------------------------------------------------------
(* The ExpirationManager: two statements, no transaction around them. *)

SweepSelect ==
  /\ Sweeping
  /\ idList = {}
  /\ idList' = {locks[r].id : r \in {s \in Resources : Present(s) /\ Expired(locks[s])}}
  /\ idList' # {}
  /\ UNCHANGED <<locks, mutex, pc, resource, lockId, expireAt, waited, stale>>

SweepDelete ==
  /\ idList # {}
  /\ DeleteRows(idList)
  /\ idList' = {}
  /\ UNCHANGED <<mutex, pc, resource, lockId, expireAt, waited>>

--------------------------------------------------------------------------------
(* Time and crashes *)

Minus1(n) == IF n < 0 THEN n ELSE n - 1

\* One poll interval passes.  A client waits no longer than the first value
\* Initialize tells from a shorter one, WaitTimeout + 1.
Tick ==
  /\ Prompt => \A c \in Clients :
                 pc[c] \in Holding \cup {"writing"} => expireAt[c] > 0
  /\ locks'    = [r \in Resources |-> [locks[r] EXCEPT !.ttl = Minus1(@)]]
  /\ expireAt' = [c \in Clients |-> Minus1(expireAt[c])]
  /\ waited'   = [c \in Clients |-> IF pc[c] \in Acquiring /\ waited[c] <= WaitTimeout
                                      THEN waited[c] + 1 ELSE waited[c]]
  /\ pc'       = [c \in Clients |-> IF pc[c] = "sleeping" THEN "entering" ELSE pc[c]]
  /\ UNCHANGED <<mutex, resource, lockId, stale, idList>>

\* A process dies: its open transactions roll back, its rows stay.
Crash(p) ==
  LET Dead == {c \in Clients : ProcOf[c] = p} IN
  /\ pc'       = [c \in Clients |-> IF c \in Dead THEN "idle" ELSE pc[c]]
  /\ lockId'   = [c \in Clients |-> IF c \in Dead THEN None ELSE lockId[c]]
  /\ expireAt' = [c \in Clients |-> IF c \in Dead THEN -1 ELSE expireAt[c]]
  /\ waited'   = [c \in Clients |-> IF c \in Dead THEN 0 ELSE waited[c]]
  /\ mutex'    = [mutex EXCEPT ![p] = None]
  /\ stale'    = stale \ Dead
  /\ idList'   \in {idList, {}}
  /\ UNCHANGED <<locks, resource>>

--------------------------------------------------------------------------------

AcquireStep(c) ==
  \/ \E r \in Resources : BeginAcquire(c, r)
  \/ EnterMutex(c) \/ MutexTimeout(c)
  \/ RowTaken(c) \/ \E id \in Ids : WriteRow(c, id)
  \/ CommitGrant(c) \/ CommitInDoubt(c)
  \/ AbortDeadlock(c) \/ AbortSwallowed(c) \/ AbortThrown(c)
  \/ ThrowTimeout(c) \/ Sleep(c) \/ Cancel(c)

ReleaseStep(c) ==
  \/ Dispose(c) \/ ReleaseEnter(c)
  \/ ReleaseDelete(c) \/ ReleaseDeadlock(c) \/ ReleaseFails(c)

Next ==
  \/ \E c \in Clients : AcquireStep(c) \/ ReleaseStep(c)
  \/ SweepSelect \/ SweepDelete
  \/ \E p \in Processes : Crash(p)
  \/ Tick

Spec == Init /\ [][Next]_vars

\* Time passes and a client takes its next step once it can.  Strong fairness
\* where another client can get in between: a Mutex is not withheld from one
\* thread for ever (SF of ReleaseEnter), and the database does not choose the
\* same client as its deadlock victim for ever, although it may any number of
\* times.  Holders need not dispose of their locks, nobody needs to crash.
Fairness ==
  /\ WF_vars(Tick)
  /\ \A c \in Clients :
       /\ WF_vars(EnterMutex(c) \/ MutexTimeout(c))
       /\ SF_vars(RowTaken(c) \/ \E id \in Ids : WriteRow(c, id))
       /\ SF_vars(CommitGrant(c) \/ AbortSwallowed(c) \/ AbortThrown(c))
       /\ WF_vars(ThrowTimeout(c) \/ Sleep(c))
       /\ SF_vars(ReleaseEnter(c))
       /\ SF_vars(ReleaseDelete(c) \/ ReleaseFails(c))

LiveSpec == Spec /\ Fairness

--------------------------------------------------------------------------------
(* Properties *)

\* Every variable has its type.
TypeOK ==
  /\ locks    \in [Resources -> Row \cup {NoRow}]
  /\ mutex    \in [Processes -> Clients \cup {None}]
  /\ pc       \in [Clients -> Acquiring \cup Holding \cup {"idle"}]
  /\ resource \in [Clients -> Resources]
  /\ lockId   \in [Clients -> Ids \cup {None}]
  /\ expireAt \in [Clients -> -1 .. Lease]
  /\ waited   \in [Clients -> 0 .. WaitTimeout + 1]
  /\ stale    \subseteq Clients
  /\ idList   \subseteq Ids

\* Two clients are never granted the same resource at once.  It needs clients
\* that keep to their lease (Prompt) and no ExpirationManager: the run that
\* refutes LeaseExclusion shows what becomes of it without Prompt.
MutualExclusion ==
  \A c, d \in Clients : \A r \in Resources :
    Holds(c, r) /\ Holds(d, r) => c = d

\* Even among clients that overrun, no two hold one resource while the leases
\* of both are running.  AcquireDistributedLock is documented and tested as an
\* exclusive lock for the length of its lease.
LeaseExclusion ==
  \A c, d \in Clients : \A r \in Resources :
    /\ Holds(c, r) /\ expireAt[c] >= 0
    /\ Holds(d, r) /\ expireAt[d] >= 0
    => c = d

\* A grant takes effect only over a missing row or one whose lease is over at
\* the commit, although TryAcquireWithEntity tested it earlier, at the read.
GrantOverLapsedRow ==
  [][\A c \in Clients, r \in Resources :
       ~Holds(c, r) /\ Holds(c, r)' => Expired(locks[r])]_vars

\* A Mutex has an owner exactly while that client is inside it: it is left on
\* every path out of TryMutex and Release, those of exceptions included.
MutexOwned ==
  /\ \A c \in Clients : pc[c] \in InMutex => mutex[ProcOf[c]] = c
  /\ \A p \in Processes :
       mutex[p] # None => pc[mutex[p]] \in InMutex /\ ProcOf[mutex[p]] = p

\* Every call comes back: Acquire with the lock or with an exception, and Dispose.
CallsEnd ==
  \A c \in Clients : /\ pc[c] \in Acquiring ~> pc[c] \notin Acquiring
                     /\ pc[c] = "releasing" ~> pc[c] = "idle"

--------------------------------------------------------------------------------
(* The abstract lock this implements when clients keep to their leases. *)

Owner(r) == IF \E c \in Clients : Holds(c, r)
              THEN CHOOSE c \in Clients : Holds(c, r)
              ELSE None

Abstract == INSTANCE ExclusiveLock WITH holder <- [r \in Resources |-> Owner(r)]

ImplementsExclusiveLock == Abstract!Spec

--------------------------------------------------------------------------------
(* The inductive invariant behind MutualExclusion, when Prompt and not       *)
(* Sweeping; DistributedLock_proofs proves it.                               *)

\* No two rows share an id.
RowsApart ==
  \A r, s \in Resources : Present(r) /\ locks[r].id = locks[s].id => r = s

\* A holder's row is in the table, as the holder wrote it, its lease running.
HolderRow ==
  \A c \in Clients : pc[c] \in Holding =>
    /\ lockId[c] \in Ids
    /\ expireAt[c] >= 0
    /\ locks[resource[c]] = [id |-> lockId[c], ttl |-> expireAt[c]]

\* A writer that may still commit does so over its own resource's expired row,
\* or adds a row with an id that no row has.
WriterRow ==
  \A c \in Clients : pc[c] = "writing" =>
    /\ lockId[c] \in Ids
    /\ expireAt[c] >= 0
    /\ c \notin stale =>
         \/ Expired(locks[resource[c]]) /\ locks[resource[c]].id = lockId[c]
         \/ ~Present(resource[c]) /\ \A r \in Resources : locks[r].id # lockId[c]

\* Two such writers on different resources write different ids.
WritersApart ==
  \A c, d \in Clients :
    /\ pc[c] = "writing" /\ c \notin stale
    /\ pc[d] = "writing" /\ d \notin stale
    /\ resource[c] # resource[d]
    => lockId[c] # lockId[d]

\* The inductive invariant: what keeps two clients from holding one resource
\* is that the only holder's row stays in the table, unexpired, under an id
\* that no other client can write or delete.
LockInv ==
  /\ TypeOK
  /\ idList = {}
  /\ RowsApart
  /\ HolderRow
  /\ WriterRow
  /\ WritersApart
  /\ MutualExclusion
================================================================================
