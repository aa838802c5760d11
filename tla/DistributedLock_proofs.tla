------------------------- MODULE DistributedLock_proofs ------------------------
(* Proofs about DistributedLock: type correctness, mutual exclusion among     *)
(* clients that keep to their leases, and that it then implements the         *)
(* abstract ExclusiveLock.                                                    *)
EXTENDS DistributedLock, TLAPS

\* The fields of a row.
LEMMA RowTyping ==
  ASSUME NEW row \in Row \cup {NoRow}
  PROVE  /\ row.id \in Ids \cup {None}
         /\ row.ttl \in -1 .. Lease
         /\ row = [id |-> row.id, ttl |-> row.ttl]
         /\ row # NoRow <=> row.id \in Ids
BY LeaseAssumption, NoneAssumption DEF Row, NoRow

\* One tick of an expiry stays in its range; a row's tick keeps its id, and the
\* missing row stays missing.
LEMMA Minus1Typing ==
  ASSUME NEW n \in -1 .. Lease
  PROVE  Minus1(n) \in -1 .. Lease
BY LeaseAssumption DEF Minus1

LEMMA RowTick ==
  ASSUME NEW row \in Row \cup {NoRow}
  PROVE  LET aged == [row EXCEPT !.ttl = Minus1(@)]
         IN  /\ aged \in Row \cup {NoRow}
             /\ aged.id = row.id
             /\ aged.ttl = Minus1(row.ttl)
             /\ aged = NoRow <=> row = NoRow
BY LeaseAssumption, NoneAssumption DEF Row, NoRow, Minus1

--------------------------------------------------------------------------------
(* Type correctness.  A row is written with a client's _lockId, so that TypeOK *)
(* needs to know that a writer has one.                                        *)

TypeInv == TypeOK /\ \A c \in Clients : pc[c] = "writing" => lockId[c] \in Ids

LEMMA TypeInvInit == Init => TypeInv
BY LeaseAssumption DEF Init, TypeInv, TypeOK, Acquiring, Holding

LEMMA TypeInvAcquire ==
  ASSUME TypeInv, NEW c \in Clients, AcquireStep(c)
  PROVE  TypeInv'
<1> USE LeaseAssumption, ProcAssumption
    DEF TypeInv, TypeOK, Acquiring, Holding, Goto, ExitMutex, Forget
<1>1. ASSUME NEW r \in Resources, BeginAcquire(c, r) PROVE TypeInv'
  BY <1>1 DEF BeginAcquire
<1>2. CASE EnterMutex(c)
  BY <1>2 DEF EnterMutex
<1>3. CASE MutexTimeout(c)
  BY <1>3 DEF MutexTimeout
<1>4. CASE RowTaken(c)
  BY <1>4 DEF RowTaken
<1>5. ASSUME NEW id \in Ids, WriteRow(c, id) PROVE TypeInv'
  BY <1>5 DEF WriteRow
<1>6. ASSUME StoreRow(c)
      PROVE  /\ locks' \in [Resources -> Row \cup {NoRow}]
             /\ stale' \subseteq Clients
             /\ mutex' \in [Processes -> Clients \cup {None}]
  <2>1. [id |-> lockId[c], ttl |-> expireAt[c]] \in Row
    BY <1>6 DEF StoreRow, Row
  <2> QED
    BY <1>6, <2>1 DEF StoreRow, Readers
<1>7. CASE CommitGrant(c)
  BY <1>6, <1>7 DEF CommitGrant
<1>8. CASE CommitInDoubt(c)
  BY <1>6, <1>8 DEF CommitInDoubt
<1>9. CASE AbortDeadlock(c)
  BY <1>9 DEF AbortDeadlock, RollBack
<1>10. CASE AbortSwallowed(c)
  BY <1>10 DEF AbortSwallowed, RollBack
<1>11. CASE AbortThrown(c)
  BY <1>11 DEF AbortThrown, RollBack
<1>12. CASE ThrowTimeout(c)
  BY <1>12 DEF ThrowTimeout
<1>13. CASE Sleep(c)
  BY <1>13 DEF Sleep
<1>14. CASE Cancel(c)
  BY <1>14 DEF Cancel
<1> QED
  BY <1>1, <1>2, <1>3, <1>4, <1>5, <1>7, <1>8, <1>9, <1>10, <1>11, <1>12, <1>13, <1>14
  DEF AcquireStep

LEMMA TypeInvRelease ==
  ASSUME TypeInv, NEW c \in Clients, ReleaseStep(c)
  PROVE  TypeInv'
<1> USE LeaseAssumption, ProcAssumption
    DEF TypeInv, TypeOK, Acquiring, Holding, Goto, ExitMutex, Forget
<1>1. CASE Dispose(c)
  BY <1>1 DEF Dispose
<1>2. CASE ReleaseEnter(c)
  BY <1>2 DEF ReleaseEnter
<1>3. CASE ReleaseDelete(c)
  BY <1>3 DEF ReleaseDelete, DeleteRows, Readers
<1>4. CASE ReleaseDeadlock(c)
  BY <1>4 DEF ReleaseDeadlock
<1>5. CASE ReleaseFails(c)
  BY <1>5 DEF ReleaseFails
<1> QED
  BY <1>1, <1>2, <1>3, <1>4, <1>5 DEF ReleaseStep

LEMMA TypeInvNext == TypeInv /\ [Next]_vars => TypeInv'
<1> SUFFICES ASSUME TypeInv, [Next]_vars PROVE TypeInv'
  OBVIOUS
<1> USE LeaseAssumption DEF TypeInv, TypeOK, Acquiring, Holding
<1>1. ASSUME NEW c \in Clients, AcquireStep(c) \/ ReleaseStep(c) PROVE TypeInv'
  BY <1>1, TypeInvAcquire, TypeInvRelease
<1>2. CASE SweepSelect
  <2>1. ASSUME NEW r \in Resources, Present(r) PROVE locks[r].id \in Ids
    BY <2>1, RowTyping DEF Present
  <2> QED
    BY <1>2, <2>1 DEF SweepSelect
<1>3. CASE SweepDelete
  BY <1>3 DEF SweepDelete, DeleteRows, Readers
<1>4. ASSUME NEW p \in Processes, Crash(p) PROVE TypeInv'
  BY <1>4 DEF Crash
<1>5. CASE Tick
  <2>1. locks' \in [Resources -> Row \cup {NoRow}]
    BY <1>5, RowTick DEF Tick
  <2>2. expireAt' \in [Clients -> -1 .. Lease]
    BY <1>5, Minus1Typing DEF Tick
  <2>3. waited' \in [Clients -> 0 .. WaitTimeout + 1]
    BY <1>5 DEF Tick
  <2> QED
    BY <1>5, <2>1, <2>2, <2>3 DEF Tick
<1>6. CASE UNCHANGED vars
  BY <1>6 DEF vars
<1> QED
  BY <1>1, <1>2, <1>3, <1>4, <1>5, <1>6 DEF Next

\* Every reachable state is well typed, however many clients there are and
\* whether or not they keep to their leases.
THEOREM TypeCorrect == Spec => []TypeOK
<1>1. TypeInv => TypeOK
  BY DEF TypeInv
<1> QED
  BY TypeInvInit, TypeInvNext, <1>1, PTL DEF Spec

--------------------------------------------------------------------------------
(* Mutual exclusion, when clients keep to their leases and nothing is swept.   *)
(* One lemma per action that writes the table or the clock; the other actions  *)
(* only narrow the sets of holders and writers.                                *)

LEMMA LockInvInit == Init => LockInv
<1> SUFFICES ASSUME Init PROVE LockInv
  OBVIOUS
<1>1. TypeOK
  BY TypeInvInit DEF TypeInv
<1> QED
  BY <1>1, NoneAssumption
  DEF Init, LockInv, RowsApart, HolderRow, WriterRow, WritersApart,
      MutualExclusion, Holds, Holding, Present

\* A holder's row is in the table and its lease is running.
LEMMA HolderRowPresent ==
  ASSUME TypeOK, HolderRow, NEW c \in Clients, pc[c] \in Holding
  PROVE  /\ lockId[c] \in Ids
         /\ locks[resource[c]].id = lockId[c]
         /\ ~Expired(locks[resource[c]])
         /\ Present(resource[c])
<1>1. /\ lockId[c] \in Ids
      /\ expireAt[c] >= 0
      /\ locks[resource[c]] = [id |-> lockId[c], ttl |-> expireAt[c]]
  BY DEF HolderRow
<1>2. /\ locks[resource[c]].id = lockId[c]
      /\ locks[resource[c]].ttl = expireAt[c]
  BY <1>1
<1>3. NoRow.id = None
  BY DEF NoRow
<1>4. ~Expired(locks[resource[c]])
  BY <1>1, <1>2, LeaseAssumption DEF TypeOK, Expired
<1> QED
  BY <1>1, <1>2, <1>3, <1>4, NoneAssumption DEF Present

\* LockInv holds a writer's id, so that it preserves its type by itself.
LEMMA LockInvTyping ==
  ASSUME LockInv, [Next]_vars
  PROVE  TypeInv /\ TypeOK'
<1>1. TypeInv
  BY DEF LockInv, WriterRow, TypeInv
<1> QED
  BY <1>1, TypeInvNext DEF TypeInv

\* A step that leaves the table, the leases and what clients write alone, lets
\* nobody become a holder or a writer, and revives no stale writer.
LEMMA LockInvFrame ==
  ASSUME LockInv, TypeOK',
         UNCHANGED <<locks, idList>>,
         \A c \in Clients :
           pc'[c] \in Holding \cup {"writing"} =>
             /\ pc[c] \in Holding <=> pc'[c] \in Holding
             /\ pc[c] = "writing" <=> pc'[c] = "writing"
             /\ resource'[c] = resource[c]
             /\ lockId'[c] = lockId[c]
             /\ expireAt'[c] = expireAt[c]
             /\ c \in stale => c \in stale'
  PROVE  LockInv'
<1> USE DEF LockInv
<1>1. RowsApart'
  BY DEF RowsApart, Present
<1>2. HolderRow'
  BY DEF HolderRow, Holding
<1>3. WriterRow'
  BY DEF WriterRow, Present, Expired, Holding
<1>4. WritersApart'
  BY DEF WritersApart, Holding
<1>5. MutualExclusion'
  BY DEF MutualExclusion, Holds
<1> QED
  BY <1>1, <1>2, <1>3, <1>4, <1>5

LEMMA LockInvWriteRow ==
  ASSUME LockInv, TypeOK', NEW c \in Clients, NEW id \in Ids, WriteRow(c, id)
  PROVE  LockInv'
<1> USE LeaseAssumption DEF LockInv, TypeOK, WriteRow, Goto
<1>1. RowsApart'
  BY DEF RowsApart, Present
<1>2. HolderRow'
  BY DEF HolderRow, Holding
<1>3. \/ Expired(locks[resource[c]]) /\ locks[resource[c]].id = id
      \/ ~Present(resource[c]) /\ \A r \in Resources : locks[r].id # id
  BY DEF FreshIds
<1>4. WriterRow'
  BY <1>3 DEF WriterRow, Present, Expired
<1>5. ASSUME NEW d \in Clients, pc[d] = "writing", d \notin stale, resource[d] # resource[c]
      PROVE  lockId[d] # id
  <2>1. CASE Present(resource[c])
    <3>1. locks[resource[c]].id = id
      BY <2>1
    <3>2. locks[resource[d]].id = lockId[d] \/ locks[resource[c]].id # lockId[d]
      BY <1>5 DEF WriterRow
    <3> QED
      BY <1>5, <2>1, <3>1, <3>2 DEF RowsApart
  <2>2. CASE ~Present(resource[c])
    BY <2>2 DEF FreshIds
  <2> QED
    BY <2>1, <2>2
<1>6. WritersApart'
  BY <1>5 DEF WritersApart
<1>7. MutualExclusion'
  BY DEF MutualExclusion, Holds, Holding
<1> QED
  BY <1>1, <1>2, <1>4, <1>6, <1>7

\* The table after a commit: one row, whose resource nobody held.
LEMMA StoreRowTable ==
  ASSUME LockInv, NEW c \in Clients, StoreRow(c)
  PROVE  /\ \A d \in Clients : ~Holds(d, resource[c])
         /\ \A r \in Resources \ {resource[c]} :
              /\ locks'[r] = locks[r]
              /\ locks[r].id # lockId[c]
         /\ locks'[resource[c]] = [id |-> lockId[c], ttl |-> expireAt[c]]
         /\ lockId[c] \in Ids
         /\ expireAt[c] >= 0
         /\ \A d \in Clients \ {c} :
              pc[d] = "writing" /\ resource[d] = resource[c] => d \in stale'
<1> USE DEF LockInv, TypeOK, StoreRow
<1>1. \A d \in Clients : ~Holds(d, resource[c])
  <2> SUFFICES ASSUME NEW d \in Clients, Holds(d, resource[c]) PROVE FALSE
    OBVIOUS
  <2>1. ~Expired(locks[resource[c]]) /\ Present(resource[c])
    BY HolderRowPresent DEF Holds
  <2> QED
    BY <2>1 DEF WriterRow
<1>2. \A r \in Resources \ {resource[c]} : locks[r].id # lockId[c]
  <2> SUFFICES ASSUME NEW r \in Resources \ {resource[c]}, locks[r].id = lockId[c]
               PROVE FALSE
    OBVIOUS
  <2>1. /\ lockId[c] \in Ids
        /\ locks[resource[c]].id = lockId[c]
    BY DEF WriterRow
  <2>2. Present(r)
    BY <2>1, RowTyping DEF Present
  <2> QED
    BY <2>1, <2>2 DEF RowsApart
<1>3. lockId[c] \in Ids /\ expireAt[c] >= 0
  BY DEF WriterRow
<1> QED
  BY <1>1, <1>2, <1>3 DEF Readers

LEMMA LockInvStoreRow ==
  ASSUME LockInv, TypeOK', NEW c \in Clients, CommitGrant(c) \/ CommitInDoubt(c)
  PROVE  LockInv'
<1>0. StoreRow(c)
  BY DEF CommitGrant, CommitInDoubt
<1> USE DEF LockInv, TypeOK, Goto, Forget
<1>1. \A d \in Clients \ {c} :
        pc'[d] = pc[d] /\ lockId'[d] = lockId[d] /\ expireAt'[d] = expireAt[d]
  BY DEF CommitGrant, CommitInDoubt
<1>2. resource' = resource /\ idList' = idList /\ stale \subseteq stale'
  BY DEF CommitGrant, CommitInDoubt, StoreRow
<1>3. pc'[c] \in Holding => pc'[c] = "holding" /\ lockId'[c] = lockId[c] /\ expireAt'[c] = expireAt[c]
  BY DEF CommitGrant, CommitInDoubt, Holding
<1>4. pc'[c] # "writing"
  BY DEF CommitGrant, CommitInDoubt
<1>5. RowsApart'
  <2> SUFFICES ASSUME NEW r \in Resources, NEW s \in Resources,
                      locks'[r] # NoRow, locks'[r].id = locks'[s].id
               PROVE  r = s
    BY DEF RowsApart, Present, NoRow
  <2>1. locks'[resource[c]] = [id |-> lockId[c], ttl |-> expireAt[c]]
    BY <1>0, StoreRowTable
  <2>2. locks'[resource[c]].id = lockId[c]
    BY ONLY <2>1
  <2>3. \A x \in Resources \ {resource[c]} :
          locks'[x] = locks[x] /\ locks'[x].id # lockId[c]
    BY ZenonT(60), <1>0, StoreRowTable
  <2>4. CASE r # resource[c] /\ s # resource[c]
    BY <2>3, <2>4 DEF RowsApart, Present
  <2>5. CASE r = resource[c] \/ s = resource[c]
    BY <2>2, <2>3, <2>5
  <2> QED
    BY <2>4, <2>5
<1>6. HolderRow'
  <2> SUFFICES ASSUME NEW d \in Clients, pc'[d] \in Holding
               PROVE  /\ lockId'[d] \in Ids
                      /\ expireAt'[d] >= 0
                      /\ locks'[resource'[d]] = [id |-> lockId'[d], ttl |-> expireAt'[d]]
    BY DEF HolderRow
  <2>1. CASE d = c
    BY <2>1, <1>0, <1>2, <1>3, StoreRowTable
  <2>2. CASE d # c
    BY ZenonT(60), <2>2, <1>0, <1>1, <1>2, StoreRowTable DEF HolderRow, Holds
  <2> QED
    BY <2>1, <2>2
<1>7. WriterRow'
  <2> SUFFICES ASSUME NEW d \in Clients, pc'[d] = "writing"
               PROVE  /\ lockId'[d] \in Ids
                      /\ expireAt'[d] >= 0
                      /\ d \notin stale' =>
                           \/ Expired(locks'[resource[d]]) /\ locks'[resource[d]].id = lockId[d]
                           \/ locks'[resource[d]] = locks[resource[d]] /\ ~Present(resource[d])
                              /\ \A r \in Resources : locks'[r].id # lockId[d]
    BY <1>1, <1>2, <1>4 DEF WriterRow, Present, Expired
  <2>1. d # c /\ pc[d] = "writing"
    BY <1>1, <1>4
  <2>2. lockId'[d] \in Ids /\ expireAt'[d] >= 0
    BY <1>1, <2>1 DEF WriterRow
  <2>3. ASSUME d \notin stale'
        PROVE  /\ d \notin stale
               /\ resource[d] # resource[c]
               /\ locks'[resource[d]] = locks[resource[d]]
               /\ lockId[d] # lockId[c]
    BY <1>0, <1>2, <2>1, <2>3, StoreRowTable DEF WritersApart, StoreRow
  <2>4. [id |-> lockId[c], ttl |-> expireAt[c]].id = lockId[c]
    OBVIOUS
  <2>5. ASSUME d \notin stale', \A r \in Resources : locks[r].id # lockId[d]
        PROVE  \A r \in Resources : locks'[r].id # lockId[d]
    BY <1>0, <2>3, <2>4, <2>5, StoreRowTable
  <2>6. d \notin stale' =>
          \/ Expired(locks[resource[d]]) /\ locks[resource[d]].id = lockId[d]
          \/ ~Present(resource[d]) /\ \A r \in Resources : locks[r].id # lockId[d]
    BY <2>1, <2>3 DEF WriterRow
  <2> QED
    BY <2>2, <2>3, <2>5, <2>6
<1>8. WritersApart'
  BY <1>1, <1>2, <1>4 DEF WritersApart
<1>9. MutualExclusion'
  <2> SUFFICES ASSUME NEW d \in Clients, NEW e \in Clients, NEW r \in Resources,
                      pc'[d] \in Holding, resource'[d] = r,
                      pc'[e] \in Holding, resource'[e] = r
               PROVE  d = e
    BY DEF MutualExclusion, Holds, Holding
  <2>1. r = resource[d] /\ r = resource[e]
    BY <1>2
  <2>5. \A x \in Clients : pc[x] \in Holding => resource[x] # resource[c]
    BY <1>0, StoreRowTable DEF Holds
  <2>2. CASE d # c /\ e # c
    BY <1>1, <1>2, <2>2 DEF MutualExclusion, Holds
  <2>3. CASE d = c /\ e # c
    BY <1>1, <2>1, <2>3, <2>5
  <2>4. CASE d # c /\ e = c
    BY <1>1, <2>1, <2>4, <2>5
  <2> QED
    BY <2>2, <2>3, <2>4
<1> QED
  BY <1>2, <1>5, <1>6, <1>7, <1>8, <1>9

LEMMA LockInvReleaseDelete ==
  ASSUME LockInv, TypeOK', NEW c \in Clients, ReleaseDelete(c)
  PROVE  LockInv'
<1> USE DEF LockInv, TypeOK, Goto, Forget, ReleaseDelete
<1>1. /\ Holds(c, resource[c])
      /\ lockId[c] \in Ids
      /\ locks[resource[c]].id = lockId[c]
      /\ Present(resource[c])
  BY HolderRowPresent DEF Holds, Holding
<1>2. \A r \in Resources : Present(r) <=> locks[r].id \in Ids
  BY RowTyping DEF Present
<1>3. \A r \in Resources : locks'[r] = IF r = resource[c] THEN NoRow ELSE locks[r]
  BY <1>1, <1>2 DEF DeleteRows, RowsApart
<1>4. \A d \in Clients \ {c} :
        /\ pc'[d] = pc[d] /\ lockId'[d] = lockId[d] /\ expireAt'[d] = expireAt[d]
        /\ pc[d] = "writing" /\ resource[d] = resource[c] => d \in stale'
  BY <1>1 DEF DeleteRows, Readers
<1>5. pc'[c] = "idle" /\ stale \subseteq stale'
  BY DEF DeleteRows
<1>6. RowsApart'
  <2>1. NoRow.id \notin Ids
    BY NoneAssumption DEF NoRow
  <2> QED
    BY <1>2, <1>3, <2>1 DEF RowsApart, Present
<1>7. HolderRow'
  <2> SUFFICES ASSUME NEW d \in Clients, pc'[d] \in Holding
               PROVE  d # c /\ pc[d] \in Holding /\ resource[d] # resource[c]
    BY <1>3, <1>4 DEF HolderRow
  <2> QED
    BY <1>1, <1>4, <1>5 DEF Holding, MutualExclusion, Holds
<1>8. WriterRow'
  <2> SUFFICES ASSUME NEW d \in Clients, pc'[d] = "writing"
               PROVE  /\ d # c /\ pc[d] = "writing"
                      /\ lockId[d] \in Ids
                      /\ expireAt[d] >= 0
                      /\ d \notin stale' =>
                           \/ Expired(locks'[resource[d]]) /\ locks'[resource[d]].id = lockId[d]
                           \/ locks'[resource[d]] = NoRow /\ \A r \in Resources : locks'[r].id # lockId[d]
    BY <1>4 DEF WriterRow, Present, Expired
  <2>1. d # c /\ pc[d] = "writing"
    BY <1>4, <1>5
  <2>2. lockId[d] \in Ids /\ expireAt[d] >= 0
    BY <2>1 DEF WriterRow
  <2>3. ASSUME d \notin stale'
        PROVE  d \notin stale /\ resource[d] # resource[c] /\ locks'[resource[d]] = locks[resource[d]]
    BY <1>3, <1>4, <1>5, <2>1, <2>3
  <2> QED
    BY <1>3, <2>1, <2>2, <2>3, NoneAssumption DEF WriterRow, Present, Expired, NoRow
<1>9. WritersApart'
  BY <1>4, <1>5 DEF WritersApart
<1>10. MutualExclusion'
  BY <1>4, <1>5 DEF MutualExclusion, Holds, Holding
<1> QED
  BY <1>6, <1>7, <1>8, <1>9, <1>10

\* The one action that Prompt restricts.
LEMMA LockInvTick ==
  ASSUME LockInv, TypeOK', Prompt, Tick
  PROVE  LockInv'
<1> USE DEF LockInv, TypeOK
<1>1. \A r \in Resources :
        /\ locks'[r].id = locks[r].id
        /\ locks'[r].ttl = Minus1(locks[r].ttl)
        /\ locks'[r] # NoRow <=> locks[r] # NoRow
  BY RowTick DEF Tick, Present
<1>2. \A c \in Clients :
        /\ pc'[c] \in Holding <=> pc[c] \in Holding
        /\ pc'[c] = "writing" <=> pc[c] = "writing"
        /\ pc[c] \in Holding \cup {"writing"} =>
             expireAt[c] > 0 /\ expireAt'[c] = expireAt[c] - 1 /\ expireAt'[c] >= 0
  BY LeaseAssumption DEF Tick, Holding, Minus1
<1>3. UNCHANGED <<resource, lockId, stale, idList>>
  BY DEF Tick
<1>4. RowsApart'
  <2> SUFFICES ASSUME NEW r \in Resources, NEW s \in Resources,
                      locks'[r] # NoRow, locks'[r].id = locks'[s].id
               PROVE  r = s
    BY DEF RowsApart, Present, NoRow
  <2>1. locks[r] # NoRow /\ locks[r].id = locks[s].id
    BY <1>1
  <2> QED
    BY <2>1 DEF RowsApart, Present
<1>5. HolderRow'
  <2> SUFFICES ASSUME NEW c \in Clients, pc'[c] \in Holding
               PROVE  /\ lockId[c] \in Ids
                      /\ expireAt'[c] >= 0
                      /\ locks'[resource[c]] = [id |-> lockId[c], ttl |-> expireAt'[c]]
    BY <1>3 DEF HolderRow
  <2>1. pc[c] \in Holding
    BY <1>2
  <2>2. locks[resource[c]] = [id |-> lockId[c], ttl |-> expireAt[c]] /\ lockId[c] \in Ids
    BY <2>1 DEF HolderRow
  <2>3. locks'[resource[c]] = [id |-> lockId[c], ttl |-> Minus1(expireAt[c])]
    BY <2>2 DEF Tick
  <2>4. Minus1(expireAt[c]) = expireAt'[c]
    BY DEF Tick
  <2> QED
    BY <1>2, <2>1, <2>2, <2>3, <2>4
<1>6. WriterRow'
  <2>1. \A r \in Resources : Expired(locks[r]) => Expired(locks'[r])
    <3> SUFFICES ASSUME NEW r \in Resources, Expired(locks[r])
                 PROVE  Expired(locks'[r])
      OBVIOUS
    <3>1. locks[r].ttl \in -1 .. Lease /\ locks[r].ttl < 0
      BY RowTyping DEF Expired
    <3>2. locks'[r].ttl = locks[r].ttl
      BY <1>1, <3>1 DEF Minus1
    <3> QED
      BY <3>1, <3>2 DEF Expired
  <2> SUFFICES ASSUME NEW c \in Clients, pc'[c] = "writing"
               PROVE  /\ lockId[c] \in Ids
                      /\ expireAt'[c] >= 0
                      /\ c \notin stale =>
                           \/ Expired(locks'[resource[c]]) /\ locks'[resource[c]].id = lockId[c]
                           \/ locks'[resource[c]] = NoRow /\ \A r \in Resources : locks'[r].id # lockId[c]
    BY <1>3 DEF WriterRow, Present, Expired
  <2>2. pc[c] = "writing" /\ resource[c] \in Resources
    BY <1>2
  <2>3. lockId[c] \in Ids /\ expireAt'[c] >= 0
    BY <1>2, <2>2 DEF WriterRow
  <2>4. CASE Expired(locks[resource[c]]) /\ locks[resource[c]].id = lockId[c]
    BY <1>1, <2>1, <2>2, <2>3, <2>4
  <2>5. CASE ~Present(resource[c]) /\ \A r \in Resources : locks[r].id # lockId[c]
    BY <1>1, <2>2, <2>3, <2>5 DEF Present
  <2> QED
    BY <2>2, <2>3, <2>4, <2>5 DEF WriterRow
<1>7. WritersApart'
  BY <1>2, <1>3 DEF WritersApart
<1>8. MutualExclusion'
  BY <1>2, <1>3 DEF MutualExclusion, Holds
<1> QED
  BY <1>3, <1>4, <1>5, <1>6, <1>7, <1>8

LEMMA LockInvNext ==
  ASSUME Prompt, ~Sweeping
  PROVE  LockInv /\ [Next]_vars => LockInv'
<1> SUFFICES ASSUME LockInv, [Next]_vars PROVE LockInv'
  OBVIOUS
<1>0. TypeOK /\ TypeOK' /\ idList = {}
  BY LockInvTyping DEF LockInv
<1> USE DEF TypeOK, Holding, Goto, Forget, ExitMutex
<1>1. ASSUME NEW c \in Clients, AcquireStep(c) PROVE LockInv'
  <2>1. ASSUME NEW r \in Resources, BeginAcquire(c, r) PROVE LockInv'
    BY <1>0, <2>1, LockInvFrame DEF BeginAcquire
  <2>2. CASE EnterMutex(c)
    BY <1>0, <2>2, LockInvFrame DEF EnterMutex
  <2>3. CASE MutexTimeout(c)
    BY <1>0, <2>3, LockInvFrame DEF MutexTimeout
  <2>4. CASE RowTaken(c)
    BY <1>0, <2>4, LockInvFrame DEF RowTaken
  <2>5. ASSUME NEW id \in Ids, WriteRow(c, id) PROVE LockInv'
    BY <1>0, <2>5, LockInvWriteRow
  <2>6. CASE CommitGrant(c) \/ CommitInDoubt(c)
    BY <1>0, <2>6, LockInvStoreRow
  <2>7. CASE AbortDeadlock(c)
    BY <1>0, <2>7, LockInvFrame DEF AbortDeadlock, RollBack
  <2>8. CASE AbortSwallowed(c)
    BY <1>0, <2>8, LockInvFrame DEF AbortSwallowed, RollBack
  <2>9. CASE AbortThrown(c)
    BY <1>0, <2>9, LockInvFrame DEF AbortThrown, RollBack
  <2>10. CASE ThrowTimeout(c)
    BY <1>0, <2>10, LockInvFrame DEF ThrowTimeout
  <2>11. CASE Sleep(c)
    BY <1>0, <2>11, LockInvFrame DEF Sleep
  <2>12. CASE Cancel(c)
    BY <1>0, <2>12, LockInvFrame DEF Cancel
  <2> QED
    BY <1>1, <2>1, <2>2, <2>3, <2>4, <2>5, <2>6, <2>7, <2>8, <2>9, <2>10, <2>11, <2>12
    DEF AcquireStep
<1>2. ASSUME NEW c \in Clients, ReleaseStep(c) PROVE LockInv'
  <2>1. CASE Dispose(c)
    BY <1>0, <2>1, LockInvFrame DEF Dispose
  <2>2. CASE ReleaseEnter(c)
    BY <1>0, <2>2, LockInvFrame DEF ReleaseEnter
  <2>3. CASE ReleaseDelete(c)
    BY <1>0, <2>3, LockInvReleaseDelete
  <2>4. CASE ReleaseDeadlock(c)
    BY <1>0, <2>4, LockInvFrame DEF ReleaseDeadlock
  <2>5. CASE ReleaseFails(c)
    BY <1>0, <2>5, LockInvFrame DEF ReleaseFails
  <2> QED
    BY <1>2, <2>1, <2>2, <2>3, <2>4, <2>5 DEF ReleaseStep
<1>3. ~SweepSelect /\ ~SweepDelete
  BY <1>0 DEF SweepSelect, SweepDelete
<1>4. ASSUME NEW p \in Processes, Crash(p) PROVE LockInv'
  BY <1>0, <1>4, LockInvFrame DEF Crash
<1>5. CASE Tick
  BY <1>0, <1>5, LockInvTick
<1>6. CASE UNCHANGED vars
  BY <1>0, <1>6, LockInvFrame DEF vars
<1> QED
  BY <1>1, <1>2, <1>3, <1>4, <1>5, <1>6 DEF Next

\* Clients that commit and release within their leases never hold a resource
\* together, as long as no ExpirationManager runs: for any number of clients,
\* processes and resources, any lease, and with crashes, deadlocks, failed and
\* in-doubt commits, and releases that fail.
THEOREM MutualExclusionHolds ==
  ASSUME Prompt, ~Sweeping
  PROVE  Spec => []MutualExclusion
<1>1. LockInv => MutualExclusion
  BY DEF LockInv
<1> QED
  BY LockInvInit, LockInvNext, <1>1, PTL DEF Spec

--------------------------------------------------------------------------------
(* What holds of clients that overrun and while the ExpirationManager runs.    *)

\* The Mutex: MutexOwned is inductive.
LEMMA MutexOwnedNext ==
  ASSUME TypeOK, MutexOwned, [Next]_vars
  PROVE  MutexOwned'
<1> USE ProcAssumption, NoneAssumption
    DEF TypeOK, MutexOwned, InMutex, Goto, ExitMutex
<1>1. ASSUME NEW c \in Clients, AcquireStep(c) PROVE MutexOwned'
  <2>1. CASE EnterMutex(c)
    BY <2>1 DEF EnterMutex
  <2>2. ASSUME NEW r \in Resources, BeginAcquire(c, r) PROVE MutexOwned'
    BY <2>2 DEF BeginAcquire
  <2>3. CASE MutexTimeout(c) \/ ThrowTimeout(c) \/ Sleep(c) \/ Cancel(c)
    BY <2>3 DEF MutexTimeout, ThrowTimeout, Sleep, Cancel
  <2>4. CASE RowTaken(c)
    BY <2>4 DEF RowTaken
  <2>5. ASSUME NEW id \in Ids, WriteRow(c, id) PROVE MutexOwned'
    BY <2>5 DEF WriteRow
  <2>6. CASE CommitGrant(c) \/ CommitInDoubt(c)
    BY <2>6 DEF CommitGrant, CommitInDoubt, StoreRow
  <2>7. CASE AbortDeadlock(c) \/ AbortSwallowed(c) \/ AbortThrown(c)
    BY <2>7 DEF AbortDeadlock, AbortSwallowed, AbortThrown, RollBack
  <2> QED
    BY <1>1, <2>1, <2>2, <2>3, <2>4, <2>5, <2>6, <2>7 DEF AcquireStep
<1>2. ASSUME NEW c \in Clients, ReleaseStep(c) PROVE MutexOwned'
  <2>1. CASE Dispose(c)
    BY <2>1 DEF Dispose
  <2>2. CASE ReleaseEnter(c)
    BY <2>2 DEF ReleaseEnter
  <2>3. CASE ReleaseDelete(c) \/ ReleaseDeadlock(c) \/ ReleaseFails(c)
    BY <2>3 DEF ReleaseDelete, ReleaseDeadlock, ReleaseFails
  <2> QED
    BY <1>2, <2>1, <2>2, <2>3 DEF ReleaseStep
<1>3. CASE SweepSelect \/ SweepDelete \/ UNCHANGED vars
  BY <1>3 DEF SweepSelect, SweepDelete, vars
<1>4. ASSUME NEW p \in Processes, Crash(p) PROVE MutexOwned'
  BY <1>4 DEF Crash
<1>5. CASE Tick
  BY <1>5 DEF Tick
<1> QED
  BY <1>1, <1>2, <1>3, <1>4, <1>5 DEF Next

\* A Mutex has an owner exactly while that client is inside it, whatever fails:
\* no path out of TryMutex or Release keeps it.
THEOREM MutexOwnedHolds == Spec => []MutexOwned
<1>1. Init => MutexOwned
  BY ProcAssumption, NoneAssumption DEF Init, MutexOwned, InMutex
<1> QED
  BY <1>1, TypeCorrect, MutexOwnedNext, PTL DEF Spec

\* A client that may still commit does so over a row that is missing or over.
WriterMayCommit ==
  \A c \in Clients :
    pc[c] = "writing" /\ c \notin stale => Expired(locks[resource[c]])

LEMMA WriterMayCommitRows ==
  ASSUME TypeOK, WriterMayCommit, NEW D, DeleteRows(D), UNCHANGED <<pc, resource>>
  PROVE  WriterMayCommit'
BY DEF TypeOK, WriterMayCommit, DeleteRows, Readers, Expired, NoRow

LEMMA WriterMayCommitNext ==
  ASSUME TypeOK, WriterMayCommit, [Next]_vars
  PROVE  WriterMayCommit'
<1> USE DEF TypeOK, WriterMayCommit, Expired, Goto
<1>1. ASSUME NEW c \in Clients, AcquireStep(c) PROVE WriterMayCommit'
  <2>1. ASSUME NEW r \in Resources, BeginAcquire(c, r) PROVE WriterMayCommit'
    BY <2>1 DEF BeginAcquire
  <2>2. CASE EnterMutex(c) \/ MutexTimeout(c) \/ RowTaken(c)
    BY <2>2 DEF EnterMutex, MutexTimeout, RowTaken
  <2>3. ASSUME NEW id \in Ids, WriteRow(c, id) PROVE WriterMayCommit'
    BY <2>3 DEF WriteRow, Present, NoRow
  <2>4. CASE CommitGrant(c) \/ CommitInDoubt(c)
    BY <2>4 DEF CommitGrant, CommitInDoubt, StoreRow, Readers
  <2>5. CASE AbortDeadlock(c) \/ AbortSwallowed(c) \/ AbortThrown(c)
    BY <2>5 DEF AbortDeadlock, AbortSwallowed, AbortThrown, RollBack
  <2>6. CASE ThrowTimeout(c) \/ Sleep(c) \/ Cancel(c)
    BY <2>6 DEF ThrowTimeout, Sleep, Cancel
  <2> QED
    BY <1>1, <2>1, <2>2, <2>3, <2>4, <2>5, <2>6 DEF AcquireStep
<1>2. ASSUME NEW c \in Clients, ReleaseStep(c) PROVE WriterMayCommit'
  <2>1. CASE ReleaseDelete(c)
    BY <2>1 DEF ReleaseDelete, DeleteRows, Readers, NoRow
  <2>2. CASE Dispose(c) \/ ReleaseEnter(c) \/ ReleaseDeadlock(c) \/ ReleaseFails(c)
    BY <2>2 DEF Dispose, ReleaseEnter, ReleaseDeadlock, ReleaseFails
  <2> QED
    BY <1>2, <2>1, <2>2 DEF ReleaseStep
<1>3. CASE SweepSelect \/ UNCHANGED vars
  BY <1>3 DEF SweepSelect, vars
<1>4. CASE SweepDelete
  BY <1>4, WriterMayCommitRows DEF SweepDelete
<1>5. ASSUME NEW p \in Processes, Crash(p) PROVE WriterMayCommit'
  BY <1>5 DEF Crash
<1>6. CASE Tick
  <2>1. \A r \in Resources : locks'[r].ttl = Minus1(locks[r].ttl)
    BY <1>6, RowTick DEF Tick
  <2>2. ASSUME NEW c \in Clients, pc'[c] = "writing", c \notin stale'
        PROVE  locks'[resource'[c]].ttl < 0
    <3>1. pc[c] = "writing" /\ c \notin stale /\ resource' = resource
      BY <1>6, <2>2 DEF Tick
    <3> QED
      BY <2>1, <3>1 DEF Minus1
  <2> QED
    BY <2>2
<1> QED
  BY <1>1, <1>2, <1>3, <1>4, <1>5, <1>6 DEF Next

\* A grant lands only on a missing row or one whose lease is over, although the
\* row is tested at the read and written at the commit: also among clients that
\* overrun, and while the ExpirationManager deletes rows.
THEOREM GrantOverLapsedRowHolds == Spec => GrantOverLapsedRow
<1>1. Init => WriterMayCommit
  BY DEF Init, WriterMayCommit
<1>2. TypeOK /\ WriterMayCommit /\ [Next]_vars =>
        [\A c \in Clients, r \in Resources :
           ~Holds(c, r) /\ Holds(c, r)' => Expired(locks[r])]_vars
  <2> SUFFICES ASSUME TypeOK, WriterMayCommit, Next, NEW c \in Clients, NEW r \in Resources,
                      ~(pc[c] \in Holding /\ resource[c] = r),
                      pc'[c] \in Holding /\ resource'[c] = r
               PROVE  Expired(locks[r])
    BY DEF Holds
  <2>1. CommitGrant(c)
    BY ZenonT(60) DEF TypeOK, Holding, Goto, Next, AcquireStep, ReleaseStep,
        BeginAcquire, EnterMutex, MutexTimeout, RowTaken, WriteRow,
        CommitInDoubt, StoreRow, AbortDeadlock, AbortSwallowed, AbortThrown, RollBack,
        ThrowTimeout, Sleep, Cancel, CommitGrant,
        Dispose, ReleaseEnter, ReleaseDelete, ReleaseDeadlock, ReleaseFails,
        SweepSelect, SweepDelete, Tick, Crash
  <2> QED
    BY <2>1 DEF CommitGrant, StoreRow, WriterMayCommit
<1> QED
  BY <1>1, <1>2, TypeCorrect, WriterMayCommitNext, PTL DEF Spec, GrantOverLapsedRow

--------------------------------------------------------------------------------
(* The refinement: a grant maps to Grant, a step after which fewer clients     *)
(* hold anything to Free, every other step to a stutter.                       *)

\* Owner as a function of pc and resource, so that it can be used of two states.
HoldsIn(p, res, c, r) == p[c] \in Holding /\ res[c] = r

OwnersIn(p, res) ==
  [r \in Resources |-> IF \E c \in Clients : HoldsIn(p, res, c, r)
                         THEN CHOOSE c \in Clients : HoldsIn(p, res, c, r)
                         ELSE None]

Exclusive(p, res) ==
  \A c, d \in Clients : \A r \in Resources :
    HoldsIn(p, res, c, r) /\ HoldsIn(p, res, d, r) => c = d

Owners == [r \in Resources |-> Owner(r)]

LEMMA OwnersBothStates ==
  /\ Owners = OwnersIn(pc, resource)
  /\ Owners' = OwnersIn(pc', resource')
BY DEF Owners, Owner, OwnersIn, Holds, HoldsIn

\* The owner of a resource is its only holder.
LEMMA OwnerIsHolder ==
  ASSUME NEW p, NEW res, Exclusive(p, res), NEW r \in Resources
  PROVE  /\ \A c \in Clients : HoldsIn(p, res, c, r) => OwnersIn(p, res)[r] = c
         /\ (\A c \in Clients : ~HoldsIn(p, res, c, r)) => OwnersIn(p, res)[r] = None
<1>1. ASSUME NEW c \in Clients, HoldsIn(p, res, c, r) PROVE OwnersIn(p, res)[r] = c
  <2> DEFINE d == CHOOSE e \in Clients : HoldsIn(p, res, e, r)
  <2>1. d \in Clients /\ HoldsIn(p, res, d, r)
    BY <1>1
  <2>2. d = c
    BY <1>1, <2>1 DEF Exclusive
  <2> QED
    BY <1>1, <2>2 DEF OwnersIn
<1>2. ASSUME \A c \in Clients : ~HoldsIn(p, res, c, r) PROVE OwnersIn(p, res)[r] = None
  BY <1>2 DEF OwnersIn
<1> QED
  BY <1>1, <1>2

\* When nobody becomes a holder, the resources that lose theirs are freed.
LEMMA FreedOrSame ==
  ASSUME NEW p, NEW res, NEW p1, NEW res1,
         Exclusive(p, res), Exclusive(p1, res1),
         \A c \in Clients :
           p1[c] \in Holding => p[c] \in Holding /\ res1[c] = res[c]
  PROVE  \/ OwnersIn(p1, res1) = OwnersIn(p, res)
         \/ \E R \in (SUBSET Resources) \ {{}} :
              /\ \A r \in R : OwnersIn(p, res)[r] # None
              /\ OwnersIn(p1, res1) =
                   [r \in Resources |-> IF r \in R THEN None ELSE OwnersIn(p, res)[r]]
<1> DEFINE F == OwnersIn(p, res)
           G == OwnersIn(p1, res1)
           R == {r \in Resources : F[r] # None /\ \A c \in Clients : ~HoldsIn(p1, res1, c, r)}
<1>1. F = [r \in Resources |-> F[r]] /\ G = [r \in Resources |-> G[r]]
  BY DEF OwnersIn
<1>2. ASSUME NEW r \in Resources PROVE G[r] = IF r \in R THEN None ELSE F[r]
  <2>0. \A c \in Clients : HoldsIn(p1, res1, c, r) => HoldsIn(p, res, c, r)
    BY DEF HoldsIn
  <2>1. CASE \E c \in Clients : HoldsIn(p1, res1, c, r)
    <3>1. PICK c \in Clients : HoldsIn(p1, res1, c, r)
      BY <2>1
    <3>2. F[r] = c /\ G[r] = c
      BY <2>0, <3>1, OwnerIsHolder
    <3> QED
      BY <3>1, <3>2
  <2>2. CASE \A c \in Clients : ~HoldsIn(p1, res1, c, r)
    <3>1. G[r] = None
      BY <2>2, OwnerIsHolder
    <3> QED
      BY <2>2, <3>1
  <2> QED
    BY <2>1, <2>2
<1> HIDE DEF F, G
<1>3. CASE R = {}
  <2>1. \A r \in Resources : G[r] = F[r]
    BY <1>2, <1>3
  <2> QED
    BY <1>1, <2>1 DEF F, G
<1>4. CASE R # {}
  <2>1. G = [r \in Resources |-> IF r \in R THEN None ELSE F[r]]
    BY <1>1, <1>2
  <2>2. \A r \in R : F[r] # None
    OBVIOUS
  <2>3. R \in (SUBSET Resources) \ {{}}
    BY <1>4
  <2> HIDE DEF R
  <2> QED
    BY <2>1, <2>2, <2>3 DEF F, G
<1> QED
  BY <1>3, <1>4

LEMMA RefinesNoGrant ==
  ASSUME MutualExclusion, MutualExclusion',
         \A c \in Clients :
           pc'[c] \in Holding => pc[c] \in Holding /\ resource'[c] = resource[c]
  PROVE  Abstract!Next \/ Owners' = Owners
<1>1. Exclusive(pc, resource) /\ Exclusive(pc', resource')
  BY DEF MutualExclusion, Holds, Exclusive, HoldsIn
<1>2. CASE OwnersIn(pc', resource') = OwnersIn(pc, resource)
  BY <1>2, OwnersBothStates
<1>3. ASSUME NEW R \in (SUBSET Resources) \ {{}},
             \A r \in R : Owners[r] # None,
             Owners' = [r \in Resources |-> IF r \in R THEN None ELSE Owners[r]]
      PROVE  Abstract!Next
  <2>1. Abstract!Free(R)
    BY <1>3 DEF Abstract!Free, Owners
  <2> QED
    BY <2>1 DEF Abstract!Next
<1> QED
  BY <1>1, <1>2, <1>3, FreedOrSame, OwnersBothStates

LEMMA RefinesCommitGrant ==
  ASSUME LockInv, LockInv', NEW c \in Clients, CommitGrant(c)
  PROVE  Abstract!Next
<1> DEFINE r == resource[c]
           F == OwnersIn(pc, resource)
           G == OwnersIn(pc', resource')
<1>1. r \in Resources
  BY DEF LockInv, TypeOK
<1>2. \A d \in Clients : ~HoldsIn(pc, resource, d, r)
  BY StoreRowTable DEF CommitGrant, Holds, HoldsIn
<1>3. HoldsIn(pc', resource', c, r)
  BY DEF CommitGrant, Goto, HoldsIn, Holding, LockInv, TypeOK
<1>4. \A s \in Resources \ {r}, d \in Clients :
        HoldsIn(pc', resource', d, s) <=> HoldsIn(pc, resource, d, s)
  BY DEF CommitGrant, StoreRow, Goto, HoldsIn, Holding, LockInv, TypeOK
<1>5. Exclusive(pc, resource) /\ Exclusive(pc', resource')
  BY DEF LockInv, MutualExclusion, Holds, Exclusive, HoldsIn
<1>6. F[r] = None /\ G[r] = c
  BY <1>1, <1>2, <1>3, <1>5, OwnerIsHolder
<1>7. ASSUME NEW s \in Resources \ {r} PROVE G[s] = F[s]
  <2>1. CASE \E d \in Clients : HoldsIn(pc, resource, d, s)
    <3>1. PICK d \in Clients : HoldsIn(pc, resource, d, s)
      BY <2>1
    <3>2. HoldsIn(pc', resource', d, s)
      BY <1>4, <3>1
    <3> QED
      BY <1>5, <3>1, <3>2, OwnerIsHolder
  <2>2. CASE \A d \in Clients : ~HoldsIn(pc, resource, d, s)
    <3>1. \A d \in Clients : ~HoldsIn(pc', resource', d, s)
      BY <1>4, <2>2
    <3> QED
      BY <1>5, <2>2, <3>1, OwnerIsHolder
  <2> QED
    BY <2>1, <2>2
<1>8. G = [F EXCEPT ![r] = c]
  <2>1. /\ F = [s \in Resources |-> F[s]]
        /\ G = [s \in Resources |-> G[s]]
    BY DEF OwnersIn
  <2> HIDE DEF F, G
  <2> QED
    BY <1>1, <1>6, <1>7, <2>1
<1>9. Owners[r] = None /\ Owners' = [Owners EXCEPT ![r] = c]
  BY <1>6, <1>8, OwnersBothStates
<1>10. Abstract!Grant(c, r)
  BY <1>9 DEF Abstract!Grant, Owners
<1> QED
  BY <1>1, <1>10 DEF Abstract!Next

LEMMA RefinesNext ==
  ASSUME LockInv, LockInv', [Next]_vars
  PROVE  Abstract!Next \/ Owners' = Owners
<1>0. TypeOK /\ MutualExclusion /\ MutualExclusion'
  BY DEF LockInv
<1>1. ASSUME NEW c \in Clients, CommitGrant(c) PROVE Abstract!Next
  BY <1>1, RefinesCommitGrant
<1>2. ASSUME \A c \in Clients : ~CommitGrant(c)
      PROVE  \A c \in Clients :
               pc'[c] \in Holding => pc[c] \in Holding /\ resource'[c] = resource[c]
  <2> USE <1>0, <1>2 DEF TypeOK, Holding, Goto
  <2>1. ASSUME NEW c \in Clients, AcquireStep(c)
        PROVE  \A d \in Clients :
                 pc'[d] \in Holding => pc[d] \in Holding /\ resource'[d] = resource[d]
    BY <2>1
    DEF AcquireStep, BeginAcquire, EnterMutex, MutexTimeout, RowTaken, WriteRow,
        CommitInDoubt, StoreRow, AbortDeadlock, AbortSwallowed, AbortThrown, RollBack,
        ThrowTimeout, Sleep, Cancel
  <2>2. ASSUME NEW c \in Clients, ReleaseStep(c)
        PROVE  \A d \in Clients :
                 pc'[d] \in Holding => pc[d] \in Holding /\ resource'[d] = resource[d]
    BY <2>2
    DEF ReleaseStep, Dispose, ReleaseEnter, ReleaseDelete, ReleaseDeadlock, ReleaseFails
  <2>3. CASE SweepSelect \/ SweepDelete \/ UNCHANGED vars
    BY <2>3 DEF SweepSelect, SweepDelete, vars
  <2>4. CASE Tick \/ \E p \in Processes : Crash(p)
    BY <2>4 DEF Tick, Crash
  <2> QED
    BY <2>1, <2>2, <2>3, <2>4 DEF Next
<1> QED
  BY <1>0, <1>1, <1>2, RefinesNoGrant

\* Clients that keep to their leases see an exclusive lock: every behaviour of
\* the rows, the Mutex and the transactions is one of ExclusiveLock.
THEOREM LockImplementsExclusiveLock ==
  ASSUME Prompt, ~Sweeping
  PROVE  Spec => ImplementsExclusiveLock
<1>1. Init => Abstract!Init
  BY DEF Init, Abstract!Init, Owner, Holds, Holding
<1>2. LockInv /\ LockInv' /\ [Next]_vars => [Abstract!Next]_Owners
  BY RefinesNext
<1> QED
  BY LockInvInit, LockInvNext, <1>1, <1>2, PTL
  DEF Spec, ImplementsExclusiveLock, Abstract!Spec, Owners
================================================================================
