----------------------------- MODULE Servers_proofs -----------------------------
(***************************************************************************)
(* Proofs about Servers, for every number of servers, any timeouts and any *)
(* errors of the clocks: types, a punctual server is never removed, and    *)
(* only a server that has been silent is.                                  *)
(***************************************************************************)
EXTENDS Servers, TLAPS

--------------------------------------------------------------------------------
(* Instants *)

\* The constants that bound instants are integers in their order.
LEMMA ConstantTyping ==
  /\ MinError \in Int /\ MaxError \in Int /\ MinError <= 0 /\ 0 <= MaxError
  /\ Timeout \in Nat /\ MaxSilence \in Nat /\ MaxLatency \in Nat
  /\ Skew \in Nat /\ Cap \in Nat /\ MaxLatency < Cap
  /\ MaxLatency <= MaxSilence /\ MaxSilence <= Timeout - Skew
BY ErrorAssumption, SilenceAssumption DEF Skew, Cap

\* A pending instant, and Nothing, are instants; Nothing is not pending.
LEMMA InstantTyping ==
  /\ Pending \subseteq Instant
  /\ Nothing \in Instant
  /\ Nothing \notin Pending
  /\ \A i \in Instant : i.error \in MinError .. MaxError /\ i.age \in 0 .. Cap
BY ConstantTyping DEF Instant, Pending, Nothing

\* RemoveTimedOutServers removes a row only if it is older than the timeout, up
\* to what the two servers' clocks differ by.
LEMMA TimedOutIsOld ==
  ASSUME NEW row \in Instant, NEW i \in Pending, TimedOut(row, i)
  PROVE  row.age > Timeout - Skew
<1>1. /\ row.error \in MinError .. MaxError /\ row.age \in Nat
      /\ i.error \in MinError .. MaxError /\ i.age \in Nat
  BY ConstantTyping DEF Instant, Pending
<1>2. row.error - row.age < i.error - i.age - Timeout
  BY DEF TimedOut, At
<1> QED
  BY <1>1, <1>2, ConstantTyping DEF Skew

\* An instant that a tick makes older.
LEMMA OlderTyping ==
  ASSUME NEW i \in Instant
  PROVE  Older(i) \in Instant /\ Older(i).age <= i.age + 1
<1>1. CASE i.age < Cap
  <2>1. i.age + 1 \in 0 .. Cap
    BY <1>1, InstantTyping, ConstantTyping
  <2> QED
    BY <1>1, <2>1, ConstantTyping DEF Older, Instant
<1>2. CASE ~(i.age < Cap)
  BY <1>2, InstantTyping, ConstantTyping DEF Older
<1> QED
  BY <1>1, <1>2

\* A statement that may still take a tick is still under way after it.
LEMMA OlderPending ==
  ASSUME NEW i \in Pending \cup {Nothing}, UnderWay(i) => i.age < MaxLatency
  PROVE  /\ Older(i) \in Pending \cup {Nothing}
         /\ UnderWay(i) => UnderWay(Older(i))
<1>1. CASE i = Nothing
  <2>1. Older(i) = Nothing
    BY <1>1, ConstantTyping DEF Older, Nothing
  <2> QED
    BY <1>1, <2>1 DEF UnderWay
<1>2. CASE i \in Pending
  <2>1. i \in Instant /\ i # Nothing /\ i.age < MaxLatency
    BY <1>2, InstantTyping DEF UnderWay
  <2>2. Older(i) \in Instant /\ Older(i).age <= i.age + 1
    BY <2>1, OlderTyping
  <2>3. i.age \in Nat /\ Older(i).age \in Nat
    BY <2>1, <2>2, InstantTyping, ConstantTyping
  <2>4. Older(i) \in Pending
    BY <2>1, <2>2, <2>3, ConstantTyping DEF Pending
  <2> QED
    BY <2>4, InstantTyping DEF UnderWay
<1> QED
  BY <1>1, <1>2

--------------------------------------------------------------------------------
(* The inductive invariant: the row of a punctual server that is up is there   *)
(* and its heartbeat is no older than MaxSilence; an announcement under way    *)
(* carries an instant, as the row it writes must not look old.                 *)

Fresh(s) == pc[s] = "up" => s \in known /\ beat[s].age <= MaxSilence

RegistryInv ==
  /\ TypeOK
  /\ \A s \in Servers : pc[s] \in {"inserting", "updating"} => UnderWay(sent[s])
  /\ \A s \in Punctual : Fresh(s)

LEMMA RegistryInit == Init => RegistryInv
<1> SUFFICES ASSUME Init PROVE RegistryInv
  OBVIOUS
<1>1. Nothing \in Instant
  BY InstantTyping
<1>2. TypeOK
  <2>1. ASSUME NEW s \in Servers
        PROVE  offset[s] \in Int /\ Error(s) = 0
    <3>1. clock[s] \in Int
      BY ErrorAssumption DEF Init
    <3>2. offset[s] = -clock[s]
      BY DEF Init
    <3> QED
      BY <3>1, <3>2 DEF Error
  <2>2. offset \in [Servers -> Int]
    <3>1. offset = [s \in Servers |-> offset[s]]
      BY DEF Init
    <3> QED
      BY <2>1, <3>1
  <2> QED
    BY <1>1, <2>1, <2>2, ConstantTyping DEF Init, TypeOK
<1> QED
  BY <1>2, ServerAssumption DEF Init, RegistryInv, Fresh

\* What UtcNow returns, while its error is bounded.
LEMMA UtcNowTyping ==
  ASSUME TypeOK, NEW s \in Servers
  PROVE  UtcNow(s) \in Pending /\ UnderWay(UtcNow(s))
<1>1. UtcNow(s) \in Pending
  BY ConstantTyping DEF UtcNow, Pending, Instant, TypeOK
<1> QED
  BY <1>1, InstantTyping DEF UnderWay

\* An instant under way is recent enough for a punctual server.
LEMMA SentIsRecent ==
  ASSUME TypeOK, NEW s \in Servers, UnderWay(sent[s])
  PROVE  sent[s] \in Instant /\ sent[s].age <= MaxSilence
<1>1. sent[s] \in Pending
  BY DEF TypeOK, UnderWay
<1> QED
  BY <1>1, InstantTyping, ConstantTyping DEF Pending

LEMMA AnnounceStep ==
  ASSUME RegistryInv, NEW s \in Servers,
         AnnounceReads(s) \/ AnnounceCommits(s) \/ AnnounceFails(s)
  PROVE  RegistryInv'
<1> USE ServerAssumption DEF RegistryInv, Goto, Send, Sent
<1>1. CASE AnnounceReads(s)
  <2>1. TypeOK'
    BY <1>1, UtcNowTyping DEF AnnounceReads, TypeOK, Error
  <2> QED
    BY <1>1, <2>1, UtcNowTyping DEF AnnounceReads, TypeOK, Fresh
<1>2. CASE AnnounceCommits(s)
  <2>1. sent[s] \in Instant /\ sent[s].age <= MaxSilence
    BY <1>2, SentIsRecent DEF AnnounceCommits
  <2>2. TypeOK'
    BY <1>2, <2>1 DEF AnnounceCommits, TypeOK, Error
  <2> QED
    BY <1>2, <2>1, <2>2 DEF AnnounceCommits, TypeOK, Fresh
<1>3. CASE AnnounceFails(s)
  <2>1. TypeOK'
    BY <1>3 DEF AnnounceFails, TypeOK, Error
  <2> QED
    BY <1>3, <2>1 DEF AnnounceFails, TypeOK, Fresh
<1> QED
  BY <1>1, <1>2, <1>3

LEMMA HeartbeatStep ==
  ASSUME RegistryInv, NEW s \in Servers,
         HeartbeatStarts(s) \/ HeartbeatLands(s) \/ HeartbeatFails(s)
  PROVE  RegistryInv'
<1> USE ServerAssumption DEF RegistryInv, Goto, Send, Sent
<1>1. CASE HeartbeatStarts(s)
  <2>1. TypeOK'
    BY <1>1, UtcNowTyping DEF HeartbeatStarts, TypeOK, Error
  <2> QED
    BY <1>1, <2>1, UtcNowTyping DEF HeartbeatStarts, TypeOK, Fresh
<1>2. CASE HeartbeatLands(s)
  <2>1. sent[s] \in Instant /\ sent[s].age <= MaxSilence
    BY <1>2, SentIsRecent DEF HeartbeatLands
  <2>2. TypeOK'
    BY <1>2, <2>1 DEF HeartbeatLands, TypeOK, Error
  <2> QED
    BY <1>2, <2>1, <2>2 DEF HeartbeatLands, TypeOK, Fresh
<1>3. CASE HeartbeatFails(s)
  <2>1. TypeOK'
    BY <1>3 DEF HeartbeatFails, TypeOK, Error
  <2> QED
    BY <1>3, <2>1 DEF HeartbeatFails, TypeOK, Fresh
<1> QED
  BY <1>1, <1>2, <1>3

LEMMA HaltStep ==
  ASSUME RegistryInv, NEW s \in Servers, RemoveServer(s) \/ Crash(s)
  PROVE  RegistryInv'
<1> USE ServerAssumption, InstantTyping DEF RegistryInv, Halt, Goto, Sent
<1>1. CASE RemoveServer(s)
  <2>1. TypeOK'
    BY <1>1 DEF RemoveServer, TypeOK, Error
  <2> QED
    BY <1>1, <2>1 DEF RemoveServer, TypeOK, Fresh
<1>2. CASE Crash(s)
  <2>1. TypeOK'
    BY <1>2 DEF Crash, TypeOK, Error
  <2> QED
    BY <1>2, <2>1 DEF Crash, TypeOK, Fresh
<1> QED
  BY <1>1, <1>2

\* RemoveTimedOutServers: the row of a punctual server that is up is too young.
LEMMA WatchStep ==
  ASSUME RegistryInv, NEW v \in Servers,
         WatchStarts(v) \/ RemoveTimedOutServers(v) \/ WatchFails(v)
  PROVE  RegistryInv'
<1> USE ServerAssumption DEF RegistryInv
<1>1. CASE WatchStarts(v)
  <2>1. TypeOK'
    BY <1>1, UtcNowTyping DEF WatchStarts, TypeOK, Error
  <2> QED
    BY <1>1, <2>1 DEF WatchStarts, TypeOK, Fresh
<1>2. CASE RemoveTimedOutServers(v)
  <2>1. cutoff[v] \in Pending
    BY <1>2 DEF RemoveTimedOutServers, TypeOK, UnderWay
  <2>2. TypeOK'
    BY <1>2, InstantTyping DEF RemoveTimedOutServers, TypeOK, Error
  <2>3. ASSUME NEW s \in Punctual, pc[s] = "up" PROVE ~TimedOut(beat[s], cutoff[v])
    <3>1. beat[s] \in Instant /\ beat[s].age <= MaxSilence
      BY <2>3 DEF TypeOK, Fresh
    <3>2. TimedOut(beat[s], cutoff[v]) => beat[s].age > Timeout - Skew
      BY <2>1, <3>1, TimedOutIsOld
    <3>3. beat[s].age \in Nat
      BY <3>1, InstantTyping, ConstantTyping
    <3> QED
      BY <3>1, <3>2, <3>3, ConstantTyping
  <2>4. ASSUME NEW s \in Punctual PROVE Fresh(s)'
    BY <1>2, <2>3 DEF RemoveTimedOutServers, TypeOK, Fresh
  <2> QED
    BY <1>2, <2>2, <2>4 DEF RemoveTimedOutServers
<1>3. CASE WatchFails(v)
  <2>1. TypeOK'
    BY <1>3 DEF WatchFails, TypeOK, Error
  <2> QED
    BY <1>3, <2>1 DEF WatchFails, TypeOK, Fresh
<1> QED
  BY <1>1, <1>2, <1>3

LEMMA ClockStep ==
  ASSUME RegistryInv, NEW s \in Servers, RefreshUtcOFfset(s) \/ Drift(s)
  PROVE  RegistryInv'
<1> USE DEF RegistryInv
<1>1. CASE RefreshUtcOFfset(s)
  <2>1. PICK e \in MinError .. MaxError : offset' = [offset EXCEPT ![s] = UtcOffset(s, e)]
    BY <1>1 DEF RefreshUtcOFfset
  <2>2. e \in Int /\ clock[s] \in Int /\ UtcOffset(s, e) \in Int /\ clock[s] + UtcOffset(s, e) = e
    BY ErrorAssumption DEF TypeOK, UtcOffset
  <2>3. TypeOK'
    BY <1>1, <2>1, <2>2 DEF RefreshUtcOFfset, TypeOK, Error
  <2> QED
    BY <1>1, <2>3, ServerAssumption DEF RefreshUtcOFfset, TypeOK, Fresh
<1>2. CASE Drift(s)
  <2>1. TypeOK'
    BY <1>2 DEF Drift, TypeOK, Error
  <2> QED
    BY <1>2, <2>1, ServerAssumption DEF Drift, TypeOK, Fresh
<1> QED
  BY <1>1, <1>2

LEMMA TickStep ==
  ASSUME RegistryInv, Tick
  PROVE  RegistryInv'
<1> USE ServerAssumption DEF RegistryInv
<1>1. ASSUME NEW s \in Servers
      PROVE  /\ Older(sent[s]) \in Pending \cup {Nothing}
             /\ UnderWay(sent[s]) => UnderWay(Older(sent[s]))
             /\ Older(cutoff[s]) \in Pending \cup {Nothing}
  BY OlderPending DEF TypeOK, Tick
<1>2. ASSUME NEW s \in Servers
      PROVE  Older(beat[s]) \in Instant /\ Older(beat[s]).age <= beat[s].age + 1
  BY OlderTyping DEF TypeOK
<1>3. TypeOK'
  BY <1>1, <1>2 DEF Tick, TypeOK, Error
<1>4. ASSUME NEW s \in Punctual PROVE Fresh(s)'
  <2> SUFFICES ASSUME pc[s] = "up" PROVE s \in known /\ Older(beat[s]).age <= MaxSilence
    BY DEF Tick, TypeOK, Fresh
  <2>1. s \in known /\ beat[s].age < MaxSilence
    BY DEF Tick, Fresh
  <2>2. beat[s].age \in Nat /\ Older(beat[s]).age \in Nat
    BY <1>2, InstantTyping, ConstantTyping DEF TypeOK
  <2> QED
    BY <1>2, <2>1, <2>2, ConstantTyping
<1> QED
  BY <1>1, <1>3, <1>4 DEF Tick, TypeOK

LEMMA RegistryNext == RegistryInv /\ [Next]_vars => RegistryInv'
<1> SUFFICES ASSUME RegistryInv, [Next]_vars PROVE RegistryInv'
  OBVIOUS
<1>1. ASSUME NEW s \in Servers, ServerStep(s) PROVE RegistryInv'
  BY <1>1, AnnounceStep, HeartbeatStep, HaltStep, WatchStep, ClockStep DEF ServerStep
<1>2. CASE Tick
  BY <1>2, TickStep
<1>3. CASE UNCHANGED vars
  BY <1>3 DEF vars, RegistryInv, TypeOK, Fresh, Error
<1> QED
  BY <1>1, <1>2, <1>3 DEF Next

--------------------------------------------------------------------------------
(* Theorems *)

LEMMA RegistryInvariant == Spec => []RegistryInv
BY RegistryInit, RegistryNext, PTL DEF Spec

\* Every variable of the server registry keeps its type, and no server's UtcNow
\* is ever off by more than the bounds of one refresh interval.
THEOREM RegistryTypeCorrect == Spec => []TypeOK
<1>1. RegistryInv => TypeOK
  BY DEF RegistryInv
<1> QED
  BY <1>1, RegistryInvariant, PTL

\* A server whose silences stay below the timeout less the clock skew is in the
\* table for as long as it is up: RemoveTimedOutServers never takes it for dead.
THEOREM PunctualIsKnownHolds == Spec => []PunctualIsKnown
<1>1. RegistryInv => PunctualIsKnown
  BY DEF RegistryInv, Fresh, PunctualIsKnown
<1> QED
  BY <1>1, RegistryInvariant, PTL

\* Whatever server is removed while it is up has been silent for longer than the
\* timeout less the clock skew, punctual or not.
THEOREM OnlySilentRemovedHolds == Spec => OnlySilentRemoved
<1> DEFINE Silent(s) == pc[s] = "up" /\ pc'[s] = "up" /\ s \in known /\ s \notin known'
                          => beat[s].age > Timeout - Skew
<1>1. RegistryInv /\ [Next]_vars => [\A s \in Servers : Silent(s)]_vars
  <2> SUFFICES ASSUME RegistryInv, Next, NEW s \in Servers,
                      pc[s] = "up", pc'[s] = "up", s \in known, s \notin known'
               PROVE  beat[s].age > Timeout - Skew
    OBVIOUS
  <2>1. ASSUME NEW v \in Servers, RemoveTimedOutServers(v) PROVE beat[s].age > Timeout - Skew
    <3>1. cutoff[v] \in Pending /\ beat[s] \in Instant
      BY <2>1 DEF RemoveTimedOutServers, RegistryInv, TypeOK, UnderWay
    <3>2. TimedOut(beat[s], cutoff[v])
      BY <2>1 DEF RemoveTimedOutServers
    <3> QED
      BY <3>1, <3>2, TimedOutIsOld
  <2>2. ASSUME NEW v \in Servers, RemoveServer(v) PROVE FALSE
    BY <2>2 DEF RemoveServer, Halt, Goto, RegistryInv, TypeOK
  <2> QED
    BY <2>1, <2>2
    DEF Next, ServerStep, AnnounceReads, AnnounceCommits, AnnounceFails, HeartbeatStarts,
        HeartbeatLands, HeartbeatFails, Crash, Halt, WatchStarts, WatchFails,
        RefreshUtcOFfset, Drift, Tick
<1> QED
  BY <1>1, RegistryInvariant, PTL DEF Spec, OnlySilentRemoved
================================================================================
