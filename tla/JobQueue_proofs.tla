---------------------------- MODULE JobQueue_proofs ----------------------------
(* Proofs about JobQueue: that no fetch cuts another one's invisibility time  *)
(* short, and that no job is in the hands of two workers that keep to it.     *)
EXTENDS JobQueue, TLAPS

LEMMA OlderTyping ==
  ASSUME NEW n \in -1 .. Invisibility + 1
  PROVE  /\ Older(n) \in -1 .. Invisibility + 1
         /\ n >= 0 => Older(n) >= 0
         /\ n = -1 => Older(n) = -1
         /\ n > Invisibility => Older(n) > Invisibility
         /\ n >= 0 /\ n < Invisibility => Older(n) = n + 1
BY InvisibilityAssumption DEF Older

--------------------------------------------------------------------------------
(* Type correctness, which needs neither the lock nor the isolation level. *)

\* A write to a table keeps its type, even at a row that is not there.
LEMMA WriteTyping ==
  ASSUME NEW S, NEW T, NEW f \in [S -> T], NEW x, NEW v \in T
  PROVE  [f EXCEPT ![x] = v] \in [S -> T]
OBVIOUS

\* Who has a row in hand does not depend on the tables.
LEMMA HandNext ==
  ASSUME TypeOK, JobInHand, [Next]_vars
  PROVE  JobInHand'
<1> USE NoneAssumption DEF TypeOK, JobInHand, InLock, Owning, Goto, Drop, Release
<1>1. ASSUME NEW w \in Workers, DequeueStep(w) PROVE JobInHand'
  <2>1. CASE AcquireLock(w) \/ ReadNothing(w) \/ AbortFetch(w)
    BY <2>1 DEF AcquireLock, ReadNothing, AbortFetch
  <2>2. ASSUME NEW i \in Items, ReadRow(w, i) PROVE JobInHand'
    BY <2>2 DEF ReadRow
  <2>3. CASE CommitFetch(w) \/ CommitInDoubt(w)
    BY <2>3 DEF CommitFetch, CommitInDoubt, StoreFetch
  <2>4. CASE Unlock(w) \/ UnlockThrows(w)
    BY <2>4 DEF Unlock, UnlockThrows
  <2> QED
    BY <1>1, <2>1, <2>2, <2>3, <2>4 DEF DequeueStep
<1>2. ASSUME NEW w \in Workers, FetchedJobStep(w) \/ Crash(w) PROVE JobInHand'
  <2>1. CASE RemoveFromQueue(w) \/ RemoveInDoubt(w) \/ Fail(w)
    BY <2>1 DEF RemoveFromQueue, RemoveInDoubt, Fail, GiveUp
  <2>2. CASE Requeue(w) \/ RequeueFails(w) \/ RequeueInDoubt(w)
    BY <2>2 DEF Requeue, RequeueFails, RequeueInDoubt
  <2>3. CASE Dispose(w) \/ DisposeFails(w) \/ Crash(w)
    BY <2>3 DEF Dispose, DisposeFails, Crash
  <2> QED
    BY <1>2, <2>1, <2>2, <2>3 DEF FetchedJobStep
<1>3. CASE UNCHANGED <<pc, job>>
  BY <1>3
<1> QED
  BY <1>1, <1>2, <1>3 DEF Next, Enqueue, LapseLock, Tick, vars

LEMMA TypeNext == TypeOK /\ JobInHand /\ [Next]_vars => TypeOK'
<1> SUFFICES ASSUME TypeOK, JobInHand, [Next]_vars PROVE TypeOK'
  OBVIOUS
<1> USE InvisibilityAssumption DEF TypeOK, InLock, Owning, Goto, Drop
<1>1. ASSUME NEW w \in Workers, DequeueStep(w) PROVE TypeOK'
  <2>1. CASE AcquireLock(w)
    BY <2>1 DEF AcquireLock, Lock!Grant
  <2>2. CASE ReadNothing(w)
    BY <2>2 DEF ReadNothing
  <2>3. ASSUME NEW i \in Items, ReadRow(w, i) PROVE TypeOK'
    BY <2>3 DEF ReadRow
  <2>4. ASSUME StoreFetch(w)
        PROVE  /\ age' \in [Items -> -1 .. Invisibility + 1]
               /\ stale' \subseteq Workers
    <3>1. fetchAge[w] \in -1 .. Invisibility + 1
      OBVIOUS
    <3> QED
      BY ONLY <2>4, <3>1, WriteTyping, TypeOK DEF StoreFetch, TypeOK
  <2>5. CASE CommitFetch(w) \/ CommitInDoubt(w)
    BY <2>4, <2>5 DEF CommitFetch, CommitInDoubt
  <2>6. CASE AbortFetch(w)
    BY <2>6 DEF AbortFetch
  <2>7. CASE Unlock(w)
    BY <2>7 DEF Unlock, DisposeLock, Lock!Free
  <2>8. CASE UnlockThrows(w)
    BY <2>8 DEF UnlockThrows
  <2> QED
    BY <1>1, <2>1, <2>2, <2>3, <2>5, <2>6, <2>7, <2>8 DEF DequeueStep
<1>2. ASSUME NEW w \in Workers, FetchedJobStep(w) \/ Crash(w) PROVE TypeOK'
  <2> USE DEF Release
  <2>1. ASSUME DeleteRow(w)
        PROVE  /\ status' \in [Items -> {"new", "queued", "gone"}]
               /\ age' \in [Items -> -1 .. Invisibility + 1]
               /\ stale' \subseteq Workers
    <3>1. -1 \in -1 .. Invisibility + 1
      OBVIOUS
    <3> QED
      BY ONLY <2>1, <3>1, WriteTyping, TypeOK DEF DeleteRow, Disturb, TypeOK
  <2>2. CASE RemoveFromQueue(w) \/ RemoveInDoubt(w)
    BY <2>1, <2>2 DEF RemoveFromQueue, RemoveInDoubt, GiveUp
  <2>3. CASE Fail(w)
    BY <2>3 DEF Fail, GiveUp
  <2>4. ASSUME ClearFetchedAt(w)
        PROVE  /\ age' \in [Items -> -1 .. Invisibility + 1]
               /\ stale' \subseteq Workers
    <3>1. -1 \in -1 .. Invisibility + 1
      OBVIOUS
    <3> QED
      BY ONLY <2>4, <3>1, WriteTyping, TypeOK DEF ClearFetchedAt, Disturb, TypeOK
  <2>5. CASE Requeue(w) \/ Dispose(w)
    BY <2>4, <2>5 DEF Requeue, Dispose
  <2>6. CASE RequeueInDoubt(w)
    <3>1. job[w] \in Items
      BY <2>6 DEF RequeueInDoubt, JobInHand
    <3> QED
      BY <2>4, <2>6, <3>1 DEF RequeueInDoubt
  <2>7. CASE RequeueFails(w) \/ DisposeFails(w)
    BY <2>7 DEF RequeueFails, DisposeFails
  <2>8. CASE Crash(w)
    BY <2>8 DEF Crash
  <2> QED
    BY <1>2, <2>2, <2>3, <2>5, <2>6, <2>7, <2>8 DEF FetchedJobStep
<1>3. ASSUME NEW i \in Items, Enqueue(i) PROVE TypeOK'
  BY <1>3 DEF Enqueue
<1>4. CASE LapseLock
  BY <1>4 DEF LapseLock, Lock!Free
<1>5. CASE Tick
  <2>1. age' \in [Items -> -1 .. Invisibility + 1]
    BY <1>5, OlderTyping DEF Tick
  <2>2. \A w \in Workers : Older(fetchAge[w]) \in 0 .. Invisibility + 1
    BY OlderTyping
  <2>3. fetchAge' \in [Workers -> 0 .. Invisibility + 1]
    BY <1>5, <2>2 DEF Tick
  <2> QED
    BY <1>5, <2>1, <2>3 DEF Tick
<1>6. CASE UNCHANGED vars
  BY <1>6 DEF vars
<1> QED
  BY <1>1, <1>2, <1>3, <1>4, <1>5, <1>6 DEF Next

\* Every variable of the queue keeps its type, whatever the lock and the
\* isolation level do.
THEOREM QueueTypeCorrect == Spec => []TypeOK
<1>1. Init => TypeOK /\ JobInHand
  BY InvisibilityAssumption, NoneAssumption
  DEF Init, Lock!Init, TypeOK, JobInHand, InLock, Owning
<1> QED
  BY <1>1, TypeNext, HandNext, PTL DEF Spec

--------------------------------------------------------------------------------
(* FetchInv *)

LEMMA FetchInvInit == Init => FetchInv
BY InvisibilityAssumption, NoneAssumption
DEF Init, Lock!Init, FetchInv, TypeOK, JobInHand, LockHeld, NotQueuedUnfetched,
    ReadStillHolds, InLock, Owning, JobQueueLock

\* The steps that take or give back the lock, or read.
LEMMA FetchInvAcquireLock ==
  ASSUME FetchInv, NEW w \in Workers, AcquireLock(w)
  PROVE  FetchInv'
<1> USE NoneAssumption DEF FetchInv, TypeOK, AcquireLock, Goto, Lock!Grant, InLock, Owning
<1>1. TypeOK'
  OBVIOUS
<1>2. JobInHand'
  BY DEF JobInHand
<1>3. LockHeld'
  BY DEF LockHeld, JobQueueLock
<1>4. NotQueuedUnfetched'
  BY DEF NotQueuedUnfetched
<1>5. ReadStillHolds'
  BY DEF ReadStillHolds, Fetchable
<1> QED
  BY <1>1, <1>2, <1>3, <1>4, <1>5

LEMMA FetchInvReadRow ==
  ASSUME FetchInv, NEW w \in Workers, NEW i \in Items, ReadRow(w, i)
  PROVE  FetchInv'
<1> USE NoneAssumption, InvisibilityAssumption
    DEF FetchInv, TypeOK, ReadRow, Goto, InLock, Owning
<1>1. TypeOK'
  OBVIOUS
<1>2. JobInHand'
  BY DEF JobInHand
<1>3. LockHeld'
  BY DEF LockHeld
<1>4. NotQueuedUnfetched'
  BY DEF NotQueuedUnfetched
<1>5. ReadStillHolds'
  BY DEF ReadStillHolds, Fetchable
<1> QED
  BY <1>1, <1>2, <1>3, <1>4, <1>5

\* A commit: whoever else has read the row may not commit any more.
LEMMA FetchInvStoreFetch ==
  ASSUME LockReliable \/ Serializable,
         FetchInv, NEW w \in Workers, CommitFetch(w) \/ CommitInDoubt(w)
  PROVE  FetchInv'
<1> USE NoneAssumption, InvisibilityAssumption
    DEF FetchInv, TypeOK, Goto, InLock, Owning, Drop
<1>1. StoreFetch(w) /\ job[w] \in Items
  BY DEF CommitFetch, CommitInDoubt, StoreFetch, JobInHand
<1>2. TypeOK'
  BY <1>1 DEF CommitFetch, CommitInDoubt, StoreFetch
<1>3. JobInHand'
  BY DEF CommitFetch, CommitInDoubt, StoreFetch, JobInHand
<1>4. LockHeld'
  BY DEF CommitFetch, CommitInDoubt, StoreFetch, LockHeld
<1>5. NotQueuedUnfetched'
  BY <1>1 DEF CommitFetch, CommitInDoubt, StoreFetch, NotQueuedUnfetched
<1>6. ReadStillHolds'
  <2> SUFFICES ASSUME NEW v \in Workers, pc'[v] = "fetching", Serializable => v \notin stale'
               PROVE  Fetchable(job[v])'
    BY DEF ReadStillHolds, Fetchable
  <2>1. v # w /\ pc[v] = "fetching" /\ job'[v] = job[v]
    BY DEF CommitFetch, CommitInDoubt
  <2>2. job[v] # job[w]
    <3>1. CASE Serializable
      BY <1>1, <2>1, <3>1 DEF StoreFetch
    <3>2. CASE LockReliable
      BY <1>1, <2>1, <3>2 DEF LockHeld, StoreFetch
    <3> QED
      BY <3>1, <3>2
  <2>3. Serializable => v \notin stale
    BY <1>1, <2>1 DEF StoreFetch
  <2> QED
    BY <1>1, <2>1, <2>2, <2>3 DEF StoreFetch, ReadStillHolds, Fetchable, JobInHand
<1> QED
  BY <1>2, <1>3, <1>4, <1>5, <1>6

\* Leaving the lock, in any way, and the end of its lease.
LEMMA FetchInvUnlock ==
  ASSUME FetchInv, NEW w \in Workers, Unlock(w) \/ UnlockThrows(w)
  PROVE  FetchInv'
<1> USE NoneAssumption, InvisibilityAssumption
    DEF FetchInv, TypeOK, Goto, InLock, Owning, Drop, Unlock, UnlockThrows,
        DisposeLock, Lock!Free
<1>1. TypeOK'
  BY DEF JobInHand, JobQueueLock
<1>2. JobInHand'
  BY DEF JobInHand
<1>3. LockHeld'
  BY DEF LockHeld, JobInHand, JobQueueLock
<1>4. NotQueuedUnfetched'
  BY DEF NotQueuedUnfetched
<1>5. ReadStillHolds'
  BY DEF ReadStillHolds, Fetchable
<1> QED
  BY <1>1, <1>2, <1>3, <1>4, <1>5

LEMMA FetchInvLapseLock ==
  ASSUME FetchInv, LapseLock
  PROVE  FetchInv'
<1> USE NoneAssumption DEF FetchInv, TypeOK, LapseLock, Lock!Free, InLock
<1>1. TypeOK'
  BY DEF JobQueueLock
<1>2. LockHeld'
  BY DEF LockHeld, JobQueueLock
<1>3. JobInHand' /\ NotQueuedUnfetched' /\ ReadStillHolds'
  BY DEF JobInHand, NotQueuedUnfetched, ReadStillHolds, Fetchable
<1> QED
  BY <1>1, <1>2, <1>3

\* The steps of Dequeue and of a fetched job that change no row.
LEMMA FetchInvNoRow ==
  ASSUME FetchInv, NEW w \in Workers,
         \/ ReadNothing(w) \/ AbortFetch(w) \/ Fail(w)
         \/ RequeueFails(w) \/ DisposeFails(w) \/ Crash(w)
  PROVE  FetchInv'
<1> USE NoneAssumption, InvisibilityAssumption
    DEF FetchInv, TypeOK, Goto, InLock, Owning, Drop, Release,
        ReadNothing, AbortFetch, Fail, GiveUp, RequeueFails, DisposeFails, Crash
<1>1. TypeOK'
  OBVIOUS
<1>2. JobInHand'
  BY DEF JobInHand
<1>3. LockHeld'
  BY DEF LockHeld
<1>4. NotQueuedUnfetched'
  BY DEF NotQueuedUnfetched
<1>5. ReadStillHolds'
  BY DEF ReadStillHolds, Fetchable
<1> QED
  BY <1>1, <1>2, <1>3, <1>4, <1>5

\* The steps of a fetched job that change its row leave a null FetchedAt.
LEMMA FetchInvRow ==
  ASSUME FetchInv, NEW w \in Workers,
         \/ RemoveFromQueue(w) \/ RemoveInDoubt(w)
         \/ Requeue(w) \/ RequeueInDoubt(w) \/ Dispose(w)
  PROVE  FetchInv'
<1> USE NoneAssumption, InvisibilityAssumption
    DEF FetchInv, TypeOK, Goto, InLock, Owning, Drop, Release, GiveUp, DeleteRow,
        ClearFetchedAt, Disturb,
        RemoveFromQueue, RemoveInDoubt, Requeue, RequeueInDoubt, Dispose
<1>1. job[w] \in Items
  BY DEF JobInHand
<1>2. TypeOK'
  BY <1>1
<1>3. JobInHand'
  BY DEF JobInHand
<1>4. LockHeld'
  BY DEF LockHeld
<1>5. NotQueuedUnfetched'
  BY <1>1 DEF NotQueuedUnfetched
<1>6. ReadStillHolds'
  <2> SUFFICES ASSUME NEW v \in Workers, pc'[v] = "fetching", Serializable => v \notin stale'
               PROVE  age'[job'[v]] = -1 \/ age'[job'[v]] > Invisibility
    BY DEF ReadStillHolds, Fetchable
  <2>1. /\ v # w /\ pc[v] = "fetching" /\ job'[v] = job[v]
        /\ Serializable => v \notin stale
    OBVIOUS
  <2>2. job[v] \in Items /\ Fetchable(job[v])
    BY <2>1 DEF ReadStillHolds, JobInHand
  <2>3. age' = [age EXCEPT ![job[w]] = -1]
    OBVIOUS
  <2> QED
    BY <1>1, <2>1, <2>2, <2>3 DEF Fetchable
<1> QED
  BY <1>2, <1>3, <1>4, <1>5, <1>6

LEMMA FetchInvEnqueue ==
  ASSUME FetchInv, NEW i \in Items, Enqueue(i)
  PROVE  FetchInv'
BY DEF FetchInv, TypeOK, Enqueue, JobInHand, LockHeld, NotQueuedUnfetched,
       ReadStillHolds, Fetchable, InLock, Owning

LEMMA FetchInvTick ==
  ASSUME FetchInv, Tick
  PROVE  FetchInv'
<1> USE InvisibilityAssumption DEF FetchInv, TypeOK, Tick
<1>1. TypeOK'
  <2>1. age' \in [Items -> -1 .. Invisibility + 1]
    BY OlderTyping
  <2>2. fetchAge' \in [Workers -> 0 .. Invisibility + 1]
    BY OlderTyping
  <2> QED
    BY <2>1, <2>2
<1>2. NotQueuedUnfetched'
  BY OlderTyping DEF NotQueuedUnfetched
<1>3. ReadStillHolds'
  <2>1. \A i \in Items : Fetchable(i) => age'[i] = -1 \/ age'[i] > Invisibility
    BY OlderTyping DEF Fetchable
  <2> QED
    BY <2>1, NoneAssumption DEF ReadStillHolds, JobInHand, Fetchable
<1>4. JobInHand' /\ LockHeld'
  BY DEF JobInHand, LockHeld
<1> QED
  BY <1>1, <1>2, <1>3, <1>4

LEMMA FetchInvNext ==
  ASSUME LockReliable \/ Serializable
  PROVE  FetchInv /\ [Next]_vars => FetchInv'
<1> SUFFICES ASSUME FetchInv, [Next]_vars PROVE FetchInv'
  OBVIOUS
<1>1. ASSUME NEW w \in Workers, DequeueStep(w) PROVE FetchInv'
  BY <1>1, FetchInvAcquireLock, FetchInvReadRow, FetchInvStoreFetch, FetchInvUnlock, FetchInvNoRow
  DEF DequeueStep
<1>2. ASSUME NEW w \in Workers, FetchedJobStep(w) PROVE FetchInv'
  BY <1>2, FetchInvNoRow, FetchInvRow DEF FetchedJobStep
<1>3. ASSUME NEW w \in Workers, Crash(w) PROVE FetchInv'
  BY <1>3, FetchInvNoRow
<1>4. CASE UNCHANGED vars
  BY <1>4 DEF vars, FetchInv, TypeOK, JobInHand, LockHeld, NotQueuedUnfetched,
              ReadStillHolds, Fetchable
<1> QED
  BY <1>1, <1>2, <1>3, <1>4, FetchInvEnqueue, FetchInvTick, FetchInvLapseLock DEF Next

\* Whichever of the two protects Dequeue, the distributed lock or serializable
\* transactions, a fetch takes effect only on a row that is due when it
\* commits: for any number of workers and rows, and any InvisibilityTimeout.
THEOREM NoEarlyRefetchHolds ==
  ASSUME LockReliable \/ Serializable
  PROVE  Spec => NoEarlyRefetch
<1>1. FetchInv /\ [Next]_vars =>
        [\A w \in Workers :
           pc[w] = "fetching" /\ pc'[w] = "fetched" => Fetchable(job[w])]_vars
  <2> SUFFICES ASSUME FetchInv, Next, NEW w \in Workers,
                      pc[w] = "fetching", pc'[w] = "fetched"
               PROVE  Fetchable(job[w])
    OBVIOUS
  <2>1. CommitFetch(w)
    BY DEF FetchInv, TypeOK, Next, DequeueStep, FetchedJobStep, Goto, Release, Drop,
           Enqueue, AcquireLock, ReadRow, ReadNothing, CommitFetch, CommitInDoubt,
           AbortFetch, Unlock, UnlockThrows, LapseLock, RemoveFromQueue, Fail,
           RemoveInDoubt, Requeue, RequeueFails, RequeueInDoubt, Dispose,
           DisposeFails, GiveUp, Tick, Crash
  <2> QED
    BY <2>1 DEF CommitFetch, StoreFetch, FetchInv, ReadStillHolds
<1> QED
  BY FetchInvInit, FetchInvNext, <1>1, PTL DEF Spec, NoEarlyRefetch

--------------------------------------------------------------------------------
(* OwnInv: exclusive ownership among workers that keep to InvisibilityTimeout. *)

LEMMA OwnInvInit == Init => OwnInv
<1>1. Init => FetchInv
  BY FetchInvInit
<1> QED
  BY <1>1 DEF OwnInv, Init, OwnerRow, ExclusiveFetch, Owns, Owning

\* A row that is in doubt no more is in nobody's hands.
OnlyUnowned ==
  \A i \in doubtful \ doubtful' : \A w \in Workers : ~(pc'[w] \in Owning /\ job'[w] = i)

\* Every step that drops a row obeys it.
LEMMA DropUnowned ==
  ASSUME TypeOK, NEW w \in Workers, Drop(w),
         pc'[w] \notin Owning, \A v \in Workers \ {w} : pc'[v] = pc[v]
  PROVE  OnlyUnowned
BY DEF Drop, OnlyUnowned, Owns, TypeOK

\* A step that changes no row and gives no worker a job keeps OwnInv.
LEMMA OwnInvFrame ==
  ASSUME OwnInv, FetchInv',
         UNCHANGED <<status, age>>,
         \A w \in Workers :
           /\ pc'[w] \in Owning =>
                /\ pc[w] \in Owning
                /\ pc'[w] \in {"fetched", "working"} => pc[w] \in {"fetched", "working"}
                /\ job'[w] = job[w] /\ fetchAge'[w] = fetchAge[w]
           /\ pc'[w] = "fetching" =>
                pc[w] = "fetching" /\ fetchAge'[w] = fetchAge[w],
         OnlyUnowned
  PROVE  OwnInv'
<1>1. OwnerRow'
  BY DEF OwnInv, OwnerRow, Owning, OnlyUnowned
<1>2. ExclusiveFetch'
  BY DEF OwnInv, ExclusiveFetch, Owns, Owning, OnlyUnowned
<1> QED
  BY <1>1, <1>2 DEF OwnInv

\* A row that may be fetched is in nobody's hands.
LEMMA FetchableUnowned ==
  ASSUME OwnInv, NEW v \in Workers, NEW i \in Items \ doubtful,
         status[i] = "queued", Fetchable(i)
  PROVE  ~Owns(v, i)
<1> SUFFICES ASSUME Owns(v, i) PROVE FALSE
  OBVIOUS
<1>1. age[i] = fetchAge[v] /\ fetchAge[v] <= Invisibility
  BY DEF OwnInv, OwnerRow, Owns
<1>2. fetchAge[v] \in 0 .. Invisibility + 1
  BY DEF OwnInv, FetchInv, TypeOK
<1> QED
  BY <1>1, <1>2, InvisibilityAssumption DEF Fetchable

LEMMA OwnInvStoreFetch ==
  ASSUME OwnInv, FetchInv', NEW w \in Workers, CommitFetch(w) \/ CommitInDoubt(w)
  PROVE  OwnInv'
<1> USE DEF OwnInv, FetchInv, TypeOK
<1>1. StoreFetch(w) /\ pc[w] = "fetching" /\ job[w] \in Items
  BY NoneAssumption DEF CommitFetch, CommitInDoubt, StoreFetch, JobInHand
<1>2. status[job[w]] = "queued" /\ Fetchable(job[w])
  BY <1>1 DEF StoreFetch, ReadStillHolds
<1>3. job[w] \notin doubtful => \A v \in Workers : ~Owns(v, job[w])
  BY <1>1, <1>2, FetchableUnowned
<1>4. /\ age' = [age EXCEPT ![job[w]] = fetchAge[w]]
      /\ status' = status
      /\ \A v \in Workers \ {w} :
           pc'[v] = pc[v] /\ job'[v] = job[v] /\ fetchAge'[v] = fetchAge[v]
  BY DEF CommitFetch, CommitInDoubt, StoreFetch, Goto, Drop
<1>5. pc'[w] \in Owning \cup {"fetching"} =>
        pc'[w] = "fetched" /\ job'[w] = job[w] /\ fetchAge'[w] = fetchAge[w]
  BY DEF CommitFetch, CommitInDoubt, Goto, Owning
<1>6. fetchAge[w] <= Invisibility
  BY <1>1 DEF OwnerRow
<1>u. OnlyUnowned
  <2>1. CASE CommitFetch(w)
    BY <2>1 DEF CommitFetch, OnlyUnowned
  <2>2. CASE CommitInDoubt(w)
    BY <2>2, <1>4, DropUnowned DEF CommitInDoubt, Goto, Owning
  <2> QED
    BY <2>1, <2>2
<1>7. OwnerRow'
  <2> SUFFICES ASSUME NEW v \in Workers
               PROVE  /\ pc'[v] = "fetching" => fetchAge'[v] <= Invisibility
                      /\ pc'[v] \in Owning /\ job'[v] \notin doubtful' =>
                           /\ status'[job'[v]] # "new"
                           /\ pc'[v] \in {"fetched", "working"} => status'[job'[v]] = "queued"
                           /\ status'[job'[v]] = "queued" =>
                                age'[job'[v]] = fetchAge'[v] /\ fetchAge'[v] <= Invisibility
    BY DEF OwnerRow, Owning
  <2>1. CASE v = w
    BY <1>1, <1>2, <1>4, <1>5, <1>6, <2>1 DEF Owning
  <2>2. CASE v # w
    <3>1. pc'[v] \in Owning /\ job'[v] \notin doubtful' =>
            job[v] \notin doubtful /\ job[v] # job[w]
      BY <1>1, <1>3, <1>4, <1>u, <2>2 DEF Owns, OnlyUnowned
    <3> QED
      BY <1>1, <1>4, <2>2, <3>1 DEF OwnerRow
  <2> QED
    BY <2>1, <2>2
<1>8. ExclusiveFetch'
  <2> SUFFICES ASSUME NEW u \in Workers, NEW v \in Workers, NEW i \in Items \ doubtful',
                      pc'[u] \in Owning, job'[u] = i, pc'[v] \in Owning, job'[v] = i
               PROVE  u = v
    BY DEF ExclusiveFetch, Owns, Owning
  <2>0. i \notin doubtful
    BY <1>u DEF OnlyUnowned
  <2>1. CASE u # w /\ v # w
    BY <1>4, <2>0, <2>1 DEF ExclusiveFetch, Owns
  <2>2. CASE u = w \/ v = w
    BY <1>3, <1>4, <1>5, <2>0, <2>2 DEF Owns
  <2> QED
    BY <2>1, <2>2
<1> QED
  BY <1>7, <1>8

LEMMA OwnInvReadRow ==
  ASSUME OwnInv, FetchInv', NEW w \in Workers, NEW i \in Items, ReadRow(w, i)
  PROVE  OwnInv'
<1> USE InvisibilityAssumption DEF OwnInv, FetchInv, TypeOK, ReadRow, Goto
<1>1. OwnerRow'
  BY DEF OwnerRow, Owning
<1>2. ExclusiveFetch'
  BY DEF ExclusiveFetch, Owns, Owning
<1> QED
  BY <1>1, <1>2

\* The owner of a job deletes or requeues its row; nobody else has it, unless the
\* row is in doubt or gets into doubt.
LEMMA OwnInvRow ==
  ASSUME OwnInv, FetchInv', NEW w \in Workers,
         \/ RemoveFromQueue(w) \/ RemoveInDoubt(w)
         \/ Requeue(w) \/ RequeueInDoubt(w) \/ Dispose(w)
  PROVE  OwnInv'
<1> USE DEF OwnInv, FetchInv, TypeOK
<1>1. job[w] \in Items /\ Owns(w, job[w])
  BY NoneAssumption
  DEF RemoveFromQueue, RemoveInDoubt, Requeue, RequeueInDoubt, Dispose, JobInHand, Owns, Owning
<1>2. job[w] \notin doubtful => \A v \in Workers \ {w} : ~Owns(v, job[w])
  BY <1>1 DEF ExclusiveFetch
<1>3. \A v \in Workers \ {w} :
        pc'[v] = pc[v] /\ job'[v] = job[v] /\ fetchAge'[v] = fetchAge[v]
  BY DEF RemoveFromQueue, RemoveInDoubt, Requeue, RequeueInDoubt, Dispose, GiveUp, Release,
         Goto, Drop
<1>4. \A i \in Items \ {job[w]} : status'[i] = status[i] /\ age'[i] = age[i]
  BY DEF RemoveFromQueue, RemoveInDoubt, Requeue, RequeueInDoubt, Dispose, DeleteRow,
         ClearFetchedAt
<1>5. \/ pc'[w] = "idle"
      \/ pc'[w] \in {"failed", "disposing"} /\ job'[w] = job[w] /\ status'[job[w]] = "gone"
      \/ pc'[w] = "disposing" /\ job'[w] = job[w] /\ job[w] \in doubtful'
  BY <1>1 DEF RemoveFromQueue, RemoveInDoubt, Requeue, RequeueInDoubt, Dispose, GiveUp,
              Release, Goto, DeleteRow
<1>u. OnlyUnowned
  <2>1. CASE RemoveFromQueue(w) \/ Requeue(w) \/ Dispose(w)
    <3>1. Drop(w) /\ pc'[w] \notin Owning
      BY <2>1 DEF RemoveFromQueue, Requeue, Dispose, Release, Goto, Owning
    <3> QED
      BY <1>3, <3>1, DropUnowned
  <2>2. CASE RemoveInDoubt(w) \/ RequeueInDoubt(w)
    BY <2>2 DEF RemoveInDoubt, RequeueInDoubt, OnlyUnowned
  <2> QED
    BY <2>1, <2>2
<1>6. OwnerRow'
  <2> SUFFICES ASSUME NEW v \in Workers
               PROVE  /\ pc'[v] = "fetching" => fetchAge'[v] <= Invisibility
                      /\ pc'[v] \in Owning /\ job'[v] \notin doubtful' =>
                           /\ status'[job'[v]] # "new"
                           /\ pc'[v] \in {"fetched", "working"} => status'[job'[v]] = "queued"
                           /\ status'[job'[v]] = "queued" =>
                                age'[job'[v]] = fetchAge'[v] /\ fetchAge'[v] <= Invisibility
    BY DEF OwnerRow, Owning
  <2>1. CASE v = w
    BY <1>5, <2>1 DEF Owning
  <2>2. CASE v # w
    <3>1. pc'[v] \in Owning /\ job'[v] \notin doubtful' =>
            job[v] \in Items \ {job[w]} /\ job[v] \notin doubtful
      BY <1>2, <1>3, <1>u, <2>2, NoneAssumption DEF JobInHand, Owns, OnlyUnowned
    <3> QED
      BY <1>3, <1>4, <2>2, <3>1 DEF OwnerRow
  <2> QED
    BY <2>1, <2>2
<1>7. ExclusiveFetch'
  <2> SUFFICES ASSUME NEW u \in Workers, NEW v \in Workers, NEW i \in Items \ doubtful',
                      pc'[u] \in Owning, job'[u] = i, pc'[v] \in Owning, job'[v] = i
               PROVE  u = v
    BY DEF ExclusiveFetch, Owns, Owning
  <2>0. i \notin doubtful
    BY <1>u DEF OnlyUnowned
  <2>1. CASE u # w /\ v # w
    BY <1>3, <2>0, <2>1 DEF ExclusiveFetch, Owns
  <2>2. CASE u = w \/ v = w
    BY <1>2, <1>3, <1>5, <2>0, <2>2 DEF Owns, Owning
  <2> QED
    BY <2>1, <2>2
<1> QED
  BY <1>6, <1>7

LEMMA OwnInvEnqueue ==
  ASSUME OwnInv, FetchInv', NEW i \in Items, Enqueue(i)
  PROVE  OwnInv'
<1> USE DEF OwnInv, FetchInv, TypeOK, Enqueue
<1>1. OwnerRow'
  BY DEF OwnerRow, Owning
<1>2. ExclusiveFetch'
  BY DEF ExclusiveFetch, Owns, Owning
<1> QED
  BY <1>1, <1>2

\* The one action that Prompt restricts.
LEMMA OwnInvTick ==
  ASSUME OwnInv, FetchInv', Prompt, Tick
  PROVE  OwnInv'
<1> USE DEF OwnInv, FetchInv, TypeOK
<1>1. UNCHANGED <<status, pc, job, doubtful>>
  BY DEF Tick
<1>2. \A w \in Workers :
        pc[w] \in Owning \cup {"fetching"} =>
          /\ fetchAge[w] < Invisibility
          /\ fetchAge'[w] = fetchAge[w] + 1
          /\ fetchAge'[w] <= Invisibility
  BY InvisibilityAssumption DEF Tick, JobInHand, Older
<1>3. OwnerRow'
  <2> SUFFICES ASSUME NEW w \in Workers, pc[w] \in Owning, job[w] \notin doubtful,
                      status[job[w]] = "queued"
               PROVE  age'[job[w]] = fetchAge'[w] /\ fetchAge'[w] <= Invisibility
    BY <1>1, <1>2 DEF OwnerRow, Owning
  <2>1. job[w] \in Items /\ age[job[w]] = fetchAge[w]
    BY NoneAssumption DEF JobInHand, OwnerRow
  <2>2. age'[job[w]] = Older(age[job[w]]) /\ fetchAge'[w] = Older(fetchAge[w])
    BY <2>1, NoneAssumption DEF Tick
  <2> QED
    BY <1>2, <2>1, <2>2
<1>4. ExclusiveFetch'
  BY <1>1 DEF ExclusiveFetch, Owns, Owning
<1> QED
  BY <1>3, <1>4

LEMMA OwnInvNext ==
  ASSUME Prompt, LockReliable \/ Serializable
  PROVE  OwnInv /\ [Next]_vars => OwnInv'
<1> SUFFICES ASSUME OwnInv, [Next]_vars PROVE OwnInv'
  OBVIOUS
<1>0. FetchInv /\ FetchInv'
  BY FetchInvNext DEF OwnInv
<1> USE DEF Owning, Goto, Drop, Release
<1>1. ASSUME NEW w \in Workers, DequeueStep(w) PROVE OwnInv'
  <2>1. CASE AcquireLock(w) \/ ReadNothing(w)
    BY <1>0, <2>1, OwnInvFrame
    DEF AcquireLock, ReadNothing, FetchInv, TypeOK, OnlyUnowned
  <2>2. CASE AbortFetch(w) \/ UnlockThrows(w)
    <3>1. OnlyUnowned
      BY <1>0, <2>2, DropUnowned DEF AbortFetch, UnlockThrows, FetchInv, TypeOK
    <3> QED
      BY <1>0, <2>2, <3>1, OwnInvFrame DEF AbortFetch, UnlockThrows, FetchInv, TypeOK
  <2>3. CASE Unlock(w)
    BY <1>0, <2>3, OwnInvFrame DEF Unlock, FetchInv, TypeOK, JobInHand, OnlyUnowned
  <2>4. ASSUME NEW i \in Items, ReadRow(w, i) PROVE OwnInv'
    BY <1>0, <2>4, OwnInvReadRow
  <2>5. CASE CommitFetch(w) \/ CommitInDoubt(w)
    BY <1>0, <2>5, OwnInvStoreFetch
  <2> QED
    BY <1>1, <2>1, <2>2, <2>3, <2>4, <2>5 DEF DequeueStep
<1>2. ASSUME NEW w \in Workers, FetchedJobStep(w) \/ Crash(w) PROVE OwnInv'
  <2>1. CASE Fail(w) \/ RequeueFails(w)
    BY <1>0, <2>1, OwnInvFrame DEF Fail, GiveUp, RequeueFails, FetchInv, TypeOK, OnlyUnowned
  <2>2. CASE DisposeFails(w) \/ Crash(w)
    <3>1. OnlyUnowned
      BY <1>0, <2>2, DropUnowned DEF DisposeFails, Crash, FetchInv, TypeOK
    <3> QED
      BY <1>0, <2>2, <3>1, OwnInvFrame DEF DisposeFails, Crash, FetchInv, TypeOK
  <2>3. CASE \/ RemoveFromQueue(w) \/ RemoveInDoubt(w)
             \/ Requeue(w) \/ RequeueInDoubt(w) \/ Dispose(w)
    BY <1>0, <2>3, OwnInvRow
  <2> QED
    BY <1>2, <2>1, <2>2, <2>3 DEF FetchedJobStep
<1>3. ASSUME NEW i \in Items, Enqueue(i) PROVE OwnInv'
  BY <1>0, <1>3, OwnInvEnqueue
<1>4. CASE LapseLock
  BY <1>0, <1>4, OwnInvFrame DEF LapseLock, OnlyUnowned
<1>5. CASE Tick
  BY <1>0, <1>5, OwnInvTick
<1>6. CASE UNCHANGED vars
  BY <1>0, <1>6, OwnInvFrame DEF vars, OnlyUnowned
<1> QED
  BY <1>1, <1>2, <1>3, <1>4, <1>5, <1>6 DEF Next

\* No job is ever in the hands of two workers while every worker finishes
\* within InvisibilityTimeout, for any number of workers and jobs and any
\* timeout, with crashes, failed and in-doubt statements, and with a lock
\* whose lease ends early if transactions are serializable.  Only a row that was
\* requeued by a Requeue reported as failed may be, until all have let go of it.
THEOREM ExclusiveFetchHolds ==
  ASSUME Prompt, LockReliable \/ Serializable
  PROVE  Spec => []ExclusiveFetch
<1>1. OwnInv => ExclusiveFetch
  BY DEF OwnInv
<1> QED
  BY OwnInvInit, OwnInvNext, <1>1, PTL DEF Spec

\* A row in a worker's hands stays in the table as that worker marked it, while
\* every worker finishes within InvisibilityTimeout and its requeue is not in doubt.
THEOREM KeptWhileWorkingHolds ==
  ASSUME Prompt, LockReliable \/ Serializable
  PROVE  Spec => []KeptWhileWorking
<1>1. OwnInv => KeptWhileWorking
  BY DEF OwnInv, OwnerRow, KeptWhileWorking, Owning
<1> QED
  BY OwnInvInit, OwnInvNext, <1>1, PTL DEF Spec
================================================================================
