--------------------------------- MODULE Servers --------------------------------
(***************************************************************************)
(* The registry of servers: AnnounceServer, Heartbeat, RemoveServer and    *)
(* RemoveTimedOutServers of FluentNHibernateJobStorageConnection.cs, and   *)
(* the clock they all read, UtcNow of FluentNHibernateJobStorage.cs, which *)
(* ServerTimeSyncManager.cs keeps close to the clock of the database.      *)
(*                                                                         *)
(* Time is that of the database, in ticks.  An instant that some server    *)
(* took from UtcNow is a record: `error` is what its UtcNow was ahead of   *)
(* the database then, `age` how long ago that was.  Every statement takes  *)
(* its instant first and reaches the table in a later step, or never.      *)
(* Hangfire's server, which calls these operations, is external.           *)
(***************************************************************************)
EXTENDS Integers

CONSTANTS
  Servers,     \* server ids
  Watchdogs,   \* the servers that call RemoveTimedOutServers
  Punctual,    \* the servers whose heartbeats come in time: their silence,
  MaxSilence,  \*   from one UtcNow that is stored to the next, is bounded
  MaxLatency,  \* how long a statement is under way
  Timeout,     \* timeOut of RemoveTimedOutServers, Hangfire's ServerTimeout
  Remote,      \* the servers that do not run on the database's machine:
  MaxClock,    \*   how far their DateTime.UtcNow may be ahead of its clock
  MinError, MaxError  \* what UtcNow of a server may be off by, all in all

\* The difference between two servers' UtcNow.
Skew == MaxError - MinError

ASSUME ServerAssumption  == /\ Watchdogs \subseteq Servers /\ Punctual \subseteq Servers
                            /\ Remote \subseteq Servers
ASSUME ErrorAssumption   == /\ MinError \in Int /\ MaxError \in Int
                            /\ MinError <= 0 /\ 0 <= MaxError
                            /\ MaxClock \in Nat
\* A punctual server is never silent for as long as a timeout less the skew.
ASSUME SilenceAssumption == /\ Timeout \in Nat /\ MaxSilence \in Nat /\ MaxLatency \in Nat
                            /\ MaxLatency <= MaxSilence
                            /\ MaxSilence + Skew <= Timeout

VARIABLES
  known,   \* the _Server table, by its key: ids that have a row
  beat,    \* LastHeartbeat of each row
  pc,      \* "down", "inserting" or "updating" its row, or "up"
  sent,    \* the heartbeats under way
  cutoff,  \* what each RemoveTimedOutServers under way took for UtcNow
  clock,   \* DateTime.UtcNow of each server, ahead of the database
  offset   \* _utcOffset

vars == <<known, beat, pc, sent, cutoff, clock, offset>>

--------------------------------------------------------------------------------

\* The first age RemoveTimedOutServers treats like every older one.
Cap == Timeout + Skew + MaxLatency + 1

Instant == [error : MinError .. MaxError, age : 0 .. Cap]
Nothing == [error |-> 0, age |-> Cap]  \* no statement under way, no row
Pending == {i \in Instant : i.age <= MaxLatency}

Error(s) == clock[s] + offset[s]

\* DateTime.UtcNow.Add(_utcOffset)
UtcNow(s) == [error |-> Error(s), age |-> 0]

\* Where an instant is on the database's clock, from now.
At(i) == i.error - i.age

\* Mutant of TimedOut: LastHeartbeat <= UtcNow - timeOut.
TimedOutEarly(row, i) == At(row) <= At(i) - Timeout

\* LastHeartbeat < UtcNow.Subtract(timeOut)
TimedOut(row, i) == At(row) < At(i) - Timeout

Init ==
  /\ known  = {}
  /\ beat   = [s \in Servers |-> Nothing]
  /\ pc     = [s \in Servers |-> "down"]
  /\ sent   = [s \in Servers |-> Nothing]
  /\ cutoff = [s \in Servers |-> Nothing]
  /\ clock  \in {c \in [Servers -> 0 .. MaxClock] : \A s \in Servers \ Remote : c[s] = 0}
  /\ offset = [s \in Servers |-> -clock[s]]

Goto(s, where)  == pc' = [pc EXCEPT ![s] = where]
Send(s)         == sent' = [sent EXCEPT ![s] = UtcNow(s)]
Sent(s)         == sent' = [sent EXCEPT ![s] = Nothing]
UnderWay(i)     == i # Nothing

--------------------------------------------------------------------------------
(* AnnounceServer: a transaction around an upsert *)

\* SingleOrDefault finds the row or not; the changed row carries UtcNow.
AnnounceReads(s) ==
  /\ pc[s] = "down"
  /\ Goto(s, IF s \in known THEN "updating" ELSE "inserting")
  /\ Send(s)
  /\ UNCHANGED <<known, beat, cutoff, clock, offset>>

\* Commit.  Only RemoveTimedOutServers may have changed the row meanwhile: the
\* update of a row that is gone fails.
AnnounceCommits(s) ==
  /\ pc[s] \in {"inserting", "updating"}
  /\ pc[s] = "updating" => s \in known
  /\ known' = known \cup {s}
  /\ beat'  = [beat EXCEPT ![s] = sent[s]]
  /\ Goto(s, "up")
  /\ Sent(s)
  /\ UNCHANGED <<cutoff, clock, offset>>

\* Rolled back; Hangfire announces the server again.
AnnounceFails(s) ==
  /\ pc[s] \in {"inserting", "updating"}
  /\ Goto(s, "down")
  /\ Sent(s)
  /\ UNCHANGED <<known, beat, cutoff, clock, offset>>

--------------------------------------------------------------------------------
(* Heartbeat: one update, by id *)

HeartbeatStarts(s) ==
  /\ pc[s] = "up"
  /\ ~UnderWay(sent[s])
  /\ Send(s)
  /\ UNCHANGED <<known, beat, pc, cutoff, clock, offset>>

\* Mutant of HeartbeatLands: the update has no `where Id = :id`.
HeartbeatLandsEverywhere(s) ==
  /\ pc[s] = "up"
  /\ UnderWay(sent[s])
  /\ beat' = [t \in Servers |-> IF t \in known THEN sent[s] ELSE beat[t]]
  /\ Sent(s)
  /\ UNCHANGED <<known, pc, cutoff, clock, offset>>

\* It updates nothing when the row is gone, and Heartbeat does not look at the
\* number of rows: the server stays unknown.
HeartbeatLands(s) ==
  /\ pc[s] = "up"
  /\ UnderWay(sent[s])
  /\ beat' = [beat EXCEPT ![s] = IF s \in known THEN sent[s] ELSE @]
  /\ Sent(s)
  /\ UNCHANGED <<known, pc, cutoff, clock, offset>>

HeartbeatFails(s) ==
  /\ pc[s] = "up"
  /\ UnderWay(sent[s])
  /\ Sent(s)
  /\ UNCHANGED <<known, beat, pc, cutoff, clock, offset>>

--------------------------------------------------------------------------------
(* RemoveServer, when a server stops; or it dies *)

Halt(s) ==
  /\ pc[s] = "up"
  /\ Goto(s, "down")
  /\ Sent(s)
  /\ cutoff' = [cutoff EXCEPT ![s] = Nothing]
  /\ UNCHANGED <<clock, offset>>

RemoveServer(s) ==
  /\ Halt(s)
  /\ known' = known \ {s}
  /\ beat'  = [beat EXCEPT ![s] = Nothing]

Crash(s) ==
  /\ Halt(s)
  /\ UNCHANGED <<known, beat>>

--------------------------------------------------------------------------------
(* RemoveTimedOutServers: one delete, with a parameter *)

WatchStarts(v) ==
  /\ pc[v] = "up"
  /\ v \in Watchdogs
  /\ ~UnderWay(cutoff[v])
  /\ cutoff' = [cutoff EXCEPT ![v] = UtcNow(v)]
  /\ UNCHANGED <<known, beat, pc, sent, clock, offset>>

RemoveTimedOutServers(v) ==
  LET Out == {s \in known : TimedOut(beat[s], cutoff[v])} IN
  /\ UnderWay(cutoff[v])
  /\ known'  = known \ Out
  /\ beat'   = [s \in Servers |-> IF s \in Out THEN Nothing ELSE beat[s]]
  /\ cutoff' = [cutoff EXCEPT ![v] = Nothing]
  /\ UNCHANGED <<pc, sent, clock, offset>>

WatchFails(v) ==
  /\ UnderWay(cutoff[v])
  /\ cutoff' = [cutoff EXCEPT ![v] = Nothing]
  /\ UNCHANGED <<known, beat, pc, sent, clock, offset>>

--------------------------------------------------------------------------------
(* The clocks *)

\* GetUtcOffset: the database's clock, read by a query, less DateTime.UtcNow; the
\* time of the query goes into it as an error e.
UtcOffset(s, e) == e - clock[s]

\* Mutant of RefreshUtcOFfset: adds the new offset to the old one.
RefreshAddsUp(s) ==
  /\ \E e \in MinError .. MaxError :
       offset' = [offset EXCEPT ![s] = @ + UtcOffset(s, e)]
  /\ UNCHANGED <<known, beat, pc, sent, cutoff, clock>>

\* ServerTimeSyncManager, every DbmsTimeSyncInterval.
RefreshUtcOFfset(s) ==
  /\ \E e \in MinError .. MaxError : offset' = [offset EXCEPT ![s] = UtcOffset(s, e)]
  /\ UNCHANGED <<known, beat, pc, sent, cutoff, clock>>

\* DateTime.UtcNow drifts or is set.  The refreshes keep what that does to UtcNow
\* within MinError .. MaxError, which is what DbmsTimeSyncInterval is for.
Drift(s) ==
  /\ s \in Remote
  /\ \E c \in 0 .. MaxClock :
       /\ c + offset[s] \in MinError .. MaxError
       /\ clock' = [clock EXCEPT ![s] = c]
  /\ UNCHANGED <<known, beat, pc, sent, cutoff, offset>>

Older(i) == IF i.age < Cap THEN [i EXCEPT !.age = @ + 1] ELSE i

\* No statement takes longer than MaxLatency, and no punctual server is silent
\* for longer than MaxSilence.
Tick ==
  /\ \A s \in Servers :
       /\ UnderWay(sent[s]) => sent[s].age < MaxLatency
       /\ UnderWay(cutoff[s]) => cutoff[s].age < MaxLatency
       /\ s \in Punctual /\ s \in known /\ pc[s] = "up" => beat[s].age < MaxSilence
  /\ beat'   = [s \in Servers |-> Older(beat[s])]
  /\ sent'   = [s \in Servers |-> Older(sent[s])]
  /\ cutoff' = [s \in Servers |-> Older(cutoff[s])]
  /\ UNCHANGED <<known, pc, clock, offset>>

--------------------------------------------------------------------------------

ServerStep(s) ==
  \/ AnnounceReads(s) \/ AnnounceCommits(s) \/ AnnounceFails(s)
  \/ HeartbeatStarts(s) \/ HeartbeatLands(s) \/ HeartbeatFails(s)
  \/ RemoveServer(s) \/ Crash(s)
  \/ WatchStarts(s) \/ RemoveTimedOutServers(s) \/ WatchFails(s)
  \/ RefreshUtcOFfset(s) \/ Drift(s)

Next == (\E s \in Servers : ServerStep(s)) \/ Tick

Spec == Init /\ [][Next]_vars

\* Time passes, servers that are up go on beating and watching, and no statement
\* fails every time it is tried.  Nobody has to start, stop or die.
Fairness ==
  /\ WF_vars(Tick)
  /\ \A s \in Servers :
       /\ WF_vars(AnnounceCommits(s) \/ AnnounceFails(s))
       /\ WF_vars(HeartbeatStarts(s))
       /\ SF_vars(HeartbeatLands(s))
       /\ WF_vars(WatchStarts(s))
       /\ SF_vars(RemoveTimedOutServers(s))

LiveSpec == Spec /\ Fairness

--------------------------------------------------------------------------------
(* Properties *)

\* Every variable has its type; the error of UtcNow is bounded.
TypeOK ==
  /\ known  \subseteq Servers
  /\ beat   \in [Servers -> Instant]
  /\ pc     \in [Servers -> {"down", "inserting", "updating", "up"}]
  /\ sent   \in [Servers -> Pending \cup {Nothing}]
  /\ cutoff \in [Servers -> Pending \cup {Nothing}]
  /\ clock  \in [Servers -> 0 .. MaxClock]
  /\ offset \in [Servers -> Int]
  /\ \A s \in Servers : Error(s) \in MinError .. MaxError

\* A punctual server stays in the table from its announcement until it stops,
\* whatever the clocks of the servers that look for timed out ones say, and
\* however long their statements are under way.
PunctualIsKnown == \A s \in Punctual : pc[s] = "up" => s \in known

\* A server that is up is removed by others only after a silence of Timeout, up
\* to the difference of two servers' clocks.
OnlySilentRemoved ==
  [][\A s \in Servers :
       pc[s] = "up" /\ pc'[s] = "up" /\ s \in known /\ s \notin known'
         => beat[s].age > Timeout - Skew]_vars

\* The row of a server that died is removed, or the server comes back, unless
\* the watchdog dies too.
DeadAreRemoved ==
  \A s \in Servers, v \in Watchdogs :
    s \in known /\ pc[s] = "down" ~> s \notin known \/ pc[s] # "down" \/ pc[v] # "up"
================================================================================
