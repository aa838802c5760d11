# Hangfire.FluentNHibernateStorage in TLA+

A formal model of the storage library in `src/Hangfire.FluentNHibernateStorage`,
which keeps the jobs, queues, counters, locks, collections and servers of Hangfire
in a relational database through NHibernate, and of the SignalR client in
`src/Hangfire.FluentNHibernateStorage.WebApplication/wwwroot/js/signalr/src`, by
which the sample web application shows the log of its jobs. The library runs in
many threads of many processes at once; the database, its transactions and its
clock are all they share. The client is one thread of callbacks, timers and
promises. The modules state what these rely on, TLC checks it on small instances,
and TLAPS proves every invariant and every action property, and the safety part of
the refinements, for every size of instance.

| File | What it is |
|---|---|
| `ExclusiveLock.tla` | what a caller of the distributed lock may rely on (abstract) |
| `DistributedLock.tla`, `MCDistributedLock.tla` | the lock as rows of `_DistributedLock`; its instances for TLC |
| `DistributedLock_proofs.tla` | proofs about it, and that it implements `ExclusiveLock` |
| `JobQueue.tla`, `MCJobQueue.tla` | the job queue and fetched jobs, over `ExclusiveLock`; instances |
| `JobQueue_proofs.tla` | proofs about it |
| `CountersAggregator.tla`, `MCCountersAggregator.tla` | counters, their aggregation, expiry and reading; instances |
| `CountersAggregator_proofs.tla` | proofs about it |
| `JobLifecycle.tla`, `MCJobLifecycle.tla` | jobs, their states, parameters and queue rows, and the sweep of expired jobs; instance |
| `JobLifecycle_proofs.tla` | proofs about it |
| `Servers.tla`, `MCServers.tla` | the registry of servers, and a clock per server; instance |
| `Servers_proofs.tla` | proofs about it |
| `Collections.tla`, `MCCollections.tla` | sets, hashes and lists, their trimming, expiry and sweep; instance |
| `Collections_proofs.tla` | proofs about it |
| `Connection.tla` | what a hub connection may rely on of the connection under it (abstract) |
| `HubConnection.tla`, `MCHubConnection.tla` | the SignalR hub connection, over the states of `Connection`; instance |
| `HubConnection_proofs.tla` | proofs about it |
| `HttpConnection.tla`, `MCHttpConnection.tla` | the connection under it with its transports, shown to implement `Connection`; instance |
| `HttpConnection_proofs.tla` | proofs about it, and that it implements the safety part of `Connection` |
| `*.cfg` | one TLC run each, described below |
| `PROJECT.json` | components, runs, mutants, the map from definitions to source lines, findings, hazards, theorems |

To repeat a run: `tlc -config JobQueue_live.cfg MCJobQueue`; to repeat the
proofs: `tlapm JobQueue_proofs.tla`.

## 1. The system

### 1.1 Components

**Distributed lock** (`FluentNHibernateDistributedLock.cs`). State: one row per
locked resource with an identity, the instant its lease ends, and creation data;
per lock object `_lockId` and the lease; per process a static `Mutex`.
Operations: `Acquire` (poll: enter the Mutex, run `TryAcquireWithEntity` in a
transaction, wait, give up after `DistributedLockWaitTimeout`), `Dispose`
(delete the row by id). Users: `Dequeue`, `ExpirationManager`, Hangfire itself
through `AcquireDistributedLock`. Hard: read and commit are apart; a row of a
dead process must be taken over; the take-over re-uses the row's id; deadlocks
retry, other exceptions are swallowed or thrown depending on their type. Correct
when no two clients hold one resource, when every call comes back, and when the
Mutex is never left locked.

**Transactions and error wrappers** (`FluentNHibernateJobStorage.cs`,
`SqlUtil.cs`). No state. `UseStatelessSessionInTransaction` opens a
`TransactionScope` (Serializable unless configured otherwise), runs a function,
flushes and completes; `WrapForTransaction` maps some exceptions to a default
result; `WrapForDeadlock` repeats for ever on a deadlock; `UpsertEntity` reads
and then inserts or updates; `DeleteByInt32Id` deletes a list of ids. Used by
everything. Hard: each failure has its own outcome, and a commit may be in doubt.

**Job queue** (`JobQueue/FluentNHibernateJobQueue.cs`). State: `_JobQueue` rows
with a queue, a job, `FetchedAt` and `FetchToken`. `Enqueue` inserts,
`Dequeue` takes the distributed lock, reads a row whose `FetchedAt` is null or
older than `InvisibilityTimeout`, marks it and returns a fetched job. Hard: the
row is read, tested and written apart, the lock may lapse, and a failing
`Dispose` of the lock loses the fetched job. Correct when no fetch overrides
another within its time and no enqueued job is lost.

**Fetched job** (`JobQueue/FluentNHibernateFetchedJob.cs`). State: the row's id
and two flags, each set only when its statement has come back. `RemoveFromQueue`,
`Requeue`, and `Dispose`, which requeues what neither flag says is done; all by row
id. Hard: the row may be somebody else's by then, and a statement may have taken
effect although it failed. Correct when a job belongs to one worker.

**Counters** (`CountersAggregator.cs`, `InsertCounter` of the write-only
transaction, `GetCounter` of the connection). State: `_Counter` rows, one
`_AggregatedCounter` row per key. Hard: every server runs an aggregator, with no
lock; readers read both tables in separate statements; aggregated rows expire.
Correct when nothing is dropped or counted twice, and every row is aggregated.

**Expiration manager** (`ExpirationManager.cs`). Every 15 minutes unless
`JobExpirationCheckInterval` says otherwise, and under distributed locks, deletes
expired aggregated counters, jobs with all that hangs off them, lists, sets, hashes
and lock rows, in batches: select ids, delete ids.
Hard: select and delete are two statements outside a transaction, and rows may
be extended in between. Correct when only rows that are expired are deleted.

**Write-only transaction** (`FluentNHibernateWriteOnlyTransaction.cs`). State:
a queue of commands that `Commit` runs in one transaction: job expiry and state,
queues, counters, sets, lists, hashes. Hard: a commit may be in doubt, and
commands address rows by natural keys. Correct when a commit is all or nothing,
once, and leaves one row per key.

**Storage connection** (`FluentNHibernateJobStorageConnection.cs`). No state.
Creates jobs and reads jobs, parameters, states, sets, lists, hashes and
counters; registers servers. Hard: most calls are several statements.

**Sets, hashes and lists** (commands of the write-only transaction, reads of the
connection). State: `_Set`, `_Hash` and `_List` rows with a key and an optional
expiry. Hard: an upsert and a trim read in one statement and write in another, and
an upsert writes back every column it has read, the expiry too; the sweep knows
nothing of either. Correct when there is one row per element or field, a trim removes
what was outside its range when it read the list and nothing else, and no row is
swept before its time.

**Server registry** (part of the connection). State: `_Server` rows with a last
heartbeat. `AnnounceServer`, `Heartbeat`, `RemoveServer`,
`RemoveTimedOutServers`. Hard: a server removed while it lives stays unknown, as a
heartbeat updates no row and does not notice. Correct when a server that beats in
time is never removed, and a dead one is.

**Server clock** (`ServerTimeSyncManager.cs`, `UtcNow` of the storage). State:
an offset to the database's clock, refreshed every five minutes. Hard: two
servers never agree exactly. Correct when the disagreement stays below the
timeouts.

**Hub connection** (`HubConnection.ts`, with `Subject.ts`, `Stream.ts`,
`DefaultReconnectPolicy.ts`, `HandshakeProtocol.ts`). State: one of five connection
states, the handshake promise, the timers for the server's silence and for pings,
the reconnect timer, and a callback per invocation. Operations: `start`, `stop`,
`invoke`, `stream`, and what the connection, its messages and the timers call back.
Hard: every `await` lets a close, a stop or a message in, the one between the end of
`_startInternal` and its caller included; the callbacks of the user run inside all
this and may call `start` and `stop`. Correct when it is `Connected` only over a
live connection that has answered the handshake, a stop is final, and no promise and
no call is forgotten.

**HTTP connection and transports** (`HttpConnection.ts`, `WebSocketTransport.ts`,
`ServerSentEventsTransport.ts`, `LongPollingTransport.ts`, `AbortController.ts`).
State: one of four connection states, the promises of `start` and `stop`, the
transport, and a queue of messages to send. Operations: `start` (negotiate, follow
redirects, try one transport after the other), `send`, `stop`. Hard: a stop may come
at any await of a start; a transport may close while it is being stopped; long
polling closes in three steps, any of which may fail; an event source that fails to
connect is not closed and tries again by itself. Correct when no transport is left
behind, every promise settles, and the whole behaves as the hub connection expects
(`Connection`).

The client is a copy of the package `@microsoft/signalr` 6.0.5 that is kept with
the sample, not code of the library; `Pages/Index.cshtml` uses it without a
reconnect policy. It is modelled as it stands in this repository, with a policy
too, as the code offers it.

**Monitoring** (`Monitoring/*.cs`, `JobQueue/*MonitoringApi.cs`). Read-only
queries for the dashboard, and a cache of queue names with a time limit.

**The rest**: cancellation and waiting (`CancellationTokenExtensions.cs`), queue
providers (a dictionary filled at start-up), options and factory (setters),
mapping and conversions (columns), HTTP requests and message formats of the
client (no state between calls), and sample applications.

### 1.2 Interactions

```
 Hangfire worker --Dequeue--> JobQueue --Acquire/Dispose--> DistributedLock
        |                        |                               ^
        +--RemoveFromQueue/Dispose--> FetchedJob                 |
 Hangfire client --Commit--> WriteOnlyTransaction                |
        (Enqueue, counters, states, sets, lists, hashes)         |
 background processes: CountersAggregator   ExpirationManager ---+
                       ServerTimeSyncManager
 all of them --> UseStatelessSessionInTransaction --> the database
```

Components of the library never call each other back; they meet in the tables. So
each module's variables are tables and the local state of the threads, and
composition means sharing a table or putting a component's abstract specification
in its place.

```
 page --start/stop/invoke/stream--> HubConnection --start/send/stop--> HttpConnection
   ^                                    |   ^                               |
   +------ onclose, onreconnecting -----+   +---- onclose, onreceive -------+
                                                     negotiate, transports --> server
```

The client is layers that do call each other back, synchronously: an `onclose` of
the page may start the hub, which starts the connection, from inside the close of
the one before. There `Connection` is the border: `HubConnection` is checked
against everything it allows, and `HttpConnection` is checked to stay within it.

## 2. The modules

### 2.1 What is common to them

*Threads.* A step is a stretch of code between two points where another thread
can be noticed: a database statement, a commit, entering or leaving a Mutex, a
wait. Local variables that are dead are reset, so that equal situations are equal
states.

*Transactions.* `UseStatelessSessionInTransaction` becomes a step that reads and a
later one that commits. A transaction whose reads have been changed by a commit
since is in `stale` and cannot commit, which is what Serializable, the default of
`FluentNHibernateStorageOptions.TransactionIsolationLevel`, gives; it ends in one of
the failures `SqlUtil` distinguishes. The option takes any level: `JobQueue` and
`Collections` have a constant `Serializable` that is FALSE for read committed. A
commit may also take effect and be reported as failed. A statement outside a
transaction is one step.

*Time.* Each instant is kept as its distance from now, and cut off beyond the
last value the code distinguishes, which keeps the state spaces finite: a lease
that is over is -1, a fetch that is due is `Invisibility + 1`. `Tick` lets one
unit pass anywhere. All servers share this clock, except in `Servers`, whose
subject is how `UtcNow` of one server differs from that of another. For the rows
of the other modules, which all carry an instant of one server and are tested
by another, an error of `UtcNow` acts like a shorter or longer lease.

*Callbacks and promises.* In the modules of the client the whole program is one
record, `hub` or `http`. JavaScript runs one task at a time, and a stretch of code
without `await` is an operator from records to records; where the user's code runs
in it, it is one to sets of records, one for each thing that code may do. An action
is a task (an answer of the network, a timer, a call of the page) or the continuation
of an `async` function that is ready. Tasks wait until no continuation is ready
(`Quiet`), which is the rule of the event loop. In `HubConnection` two kinds of step do
not wait, as they may be continuations themselves: `Close`, since a transport may
raise `onclose` when a promise of its own has settled, and the calls of the page,
which a reaction to the promise of an `invoke` may make.

*Ghosts.* Some state is in no code: `expired` in `CountersAggregator` adds up what
has been deleted as expired, `reader.least` remembers the value of a counter when
`GetCounter` was called, `db.current` in `JobLifecycle` which state row is the
job's own, and `due` in `Collections` whether a row's own expiry has ever been
over. Four more mark where the code does go wrong (3.1), so that the properties can say
that nothing else does: `doubtful` in `JobQueue`, the rows a `Requeue` gave back and
reported as failed; `restored` in `Collections`, the rows to which an upsert gave back
an expiry that had been replaced; `lateStop` and `lateClose` of the hub; and `cut` of
the connection, that an event source it had given up has stopped it. No action tests
a ghost.

*Mutants.* An operator whose comment begins "Mutant of" is a plausible mistake in
the operator it precedes. No specification uses it; `PROJECT.json` names, for
each property of each passing run, the mutant that breaks it.

### 2.2 `ExclusiveLock`

Four lines of behaviour: `Grant(c, r)` when `r` is free, `Free(R)` for any set of
held resources. `Free` has no actor because a holder may dispose, die, or have
its lease end.

### 2.3 `DistributedLock`

| Variables | Code |
|---|---|
| `locks` | table `_DistributedLock`, by its unique column `Resource`: `id`, and `ttl` for `ExpireAtAsLong` |
| `mutex` | `static readonly object Mutex`, one per process |
| `resource`, `lockId`, `expireAt` | fields of the lock object |
| `waited` | the stopwatch of `Initialize` |
| `stale` | read sets of open transactions |
| `idList` | local of `DeleteDistributedLockItems` |
| `pc` | `entering` (at `Monitor.TryEnter`), `reading`, `writing` (row tested, not committed), `checking` (not acquired), `sleeping`, `holding`, `releasing`, `deleting` |

| Actions | Code |
|---|---|
| `BeginAcquire` | `Acquire` |
| `EnterMutex`, `MutexTimeout` | `TryMutex` |
| `RowTaken`, `WriteRow` | the branches of `TryAcquireWithEntity`; `_lockId` is set before the commit, and survives a rollback |
| `CommitGrant`, `CommitInDoubt` | the end of the transaction |
| `AbortDeadlock`, `AbortSwallowed`, `AbortThrown` | the three ways an exception is treated: `WrapForDeadlock` repeats, `WrapForTransaction` makes it "not acquired", anything else leaves `Acquire` |
| `ThrowTimeout`, `Sleep`, `Cancel` | the tail of the loop of `Initialize` |
| `Dispose`, `ReleaseEnter`, `ReleaseDelete`, `ReleaseDeadlock`, `ReleaseFails` | `Dispose`, `Release` |
| `SweepSelect`, `SweepDelete` | `DeleteDistributedLockItems` |
| `Tick`, `Crash` | time, death of a process |

### 2.4 `JobQueue`

It composes with the lock through `INSTANCE ExclusiveLock`: the lock "JobQueue"
is a variable `holder` changed by `Lock!Grant` and `Lock!Free`. `LapseLock` lets
its lease end at any time, inside `Dequeue` too unless `LockReliable`.

| Variables | Code |
|---|---|
| `status`, `age` | table `_JobQueue`: whether the row is there, and `FetchedAt` |
| `holder` | the lock |
| `job`, `fetchAge` | `jobQueue` and `jobQueueFetchedAt` of `Dequeue`, then the fetched job |
| `pc` | `locked`, `fetching` (row read), `fetched` or `empty` (before the end of `using`), `working`, `failed` (`Requeue` is next), `disposing` (`Dispose` is) |
| `doubtful` | ghost, see 2.1 |

Actions: `Enqueue`; `AcquireLock`, `ReadRow`, `ReadNothing`, `CommitFetch`,
`CommitInDoubt`, `AbortFetch`, `Unlock`, `UnlockThrows` are `Dequeue`;
`RemoveFromQueue`, `RemoveInDoubt`, `Requeue`, `RequeueFails`, `RequeueInDoubt`,
`Dispose`, `DisposeFails` are the fetched job. A worker whose job or whose
`RemoveFromQueue` failed calls `Requeue` or leaves it to `Dispose`, which it calls in any
case (`GiveUp`; it, `Fail` and `Crash` stand for code of Hangfire, not of this
library). Where `Dispose` finds its flags set it does nothing, and the step that set
them ends the fetched job.

### 2.5 `CountersAggregator`

| Variables | Code |
|---|---|
| `status`, `rowTtl` | table `_Counter` |
| `aggregated` | table `_AggregatedCounter`, by its unique column `Key` |
| `batch`, `removed` | locals of `Execute` |
| `idList` | local of `DeleteExpirableEntity` |
| `reader` | the call of `GetCounter` in progress, with its local `result` |

Actions: `InsertCounter`; `Start`, `ReadBatch`, `ReadNothing`, `CommitBatch`,
`CommitInDoubt`, `Continue`, `Finish`, `Stop` are `Execute`; `SweepSelect`,
`SweepDelete` the expiration manager; `AnyCounter`, `SumCounter`, `SumThrows`,
`AnyAggregated`, `SumAggregated`, `EndCall` are `GetCounter`, a statement each.

### 2.6 `JobLifecycle`

Here the question is not who gets a row but whether the tables stay consistent
with each other, so all of them are in one variable, and a command of a
write-only transaction is an operator from databases to databases. `Commit`
applies the commands of a transaction in one step: its isolation is Serializable,
and a transaction that fails leaves nothing. The transactions are those Hangfire
builds when it changes a job's state (`Transactions`, external); each of them is
chosen against the database as it is when it commits, which may be long after the
caller looked at the job.

| Variables | Code |
|---|---|
| `db.status`, `db.ttl`, `db.name` | table `_Job`: whether the row is there, `ExpireAt`, `StateName` |
| `db.queue`, `db.params`, `db.states` | tables `_JobQueue`, `_JobParameter`, `_JobState`: pairs of a job and a number |
| `db.nulls` | queue rows that `Enqueue` stores with a null `Job` |
| `db.last`, `db.current` | the highest number in use, and that of the state row the job's `StateName` came with (a ghost: the code has no such column) |
| `pc`, `row` | a client between reading a job and changing it, or a worker with a fetched row |
| `stage`, `idList` | the statement `DeleteJobItems` is at, and the ids it selected |

Actions: `CreateExpiredJob`, `SetJobParameter`, `GetJobData`, `FetchNextJob` of the
connection; `Commit`, `CommitInDoubt` of the write-only transaction; `Perform`,
`RemoveFromQueue`, `Abandon` for the worker; `SweepSelect`, `SweepNothing`,
`SweepDelete`, `SweepFails` for the eight statements of `DeleteJobItems`. One pass
deletes one batch of each table, since the function `DeleteJobItems` gives to
`WithLock` returns 0. Its lock keeps it to one server; that is what
`DistributedLock` is about and is taken for granted here.

Foreign keys are enforced, as `_JobParameterMap`, `_JobStateMap` and
`_JobQueueMap` declare them. A database that does not enforce them (SQLite unless
told to) is outside the module.

### 2.7 `Servers`

An instant is kept as two numbers: by how much the `UtcNow` it was taken from was
ahead of the database's clock, and how long ago that was. Each statement takes its
instant first and reaches the table up to `MaxLatency` later, or never.

| Variables | Code |
|---|---|
| `known`, `beat` | table `_Server`: the rows there are, `LastHeartbeat` |
| `pc` | `down`, `inserting` or `updating` (inside `AnnounceServer`), `up` |
| `sent`, `cutoff` | the instant in a heartbeat, and in a `RemoveTimedOutServers`, under way |
| `clock`, `offset` | `DateTime.UtcNow` of each server, and `_utcOffset` |

Actions: `AnnounceReads`, `AnnounceCommits`, `AnnounceFails` are `AnnounceServer`;
`HeartbeatStarts`, `HeartbeatLands`, `HeartbeatFails`; `RemoveServer`, `Crash`;
`WatchStarts`, `RemoveTimedOutServers`, `WatchFails`; `RefreshUtcOFfset` (so
spelled), `Drift`, `Tick`. The servers that call them are Hangfire's.

### 2.8 `Collections`

The three tables are one set of rows, `rows`, as their commands differ in what they
are allowed and in their keys only. `doing` is the command a client has read for
and not yet written, with the ids and expiries it has read; `idList` the ids the sweep
has selected. The constant `Serializable` says whether a command commits only if what
it read is still so; at read committed the unique indexes, and the count of the rows
an update changes, alone make a write fail. The run is at read committed.

Actions: `UpsertReads`, `UpsertWrites` are `AddToSet` and `SetRangeInHash`, which
update a row they have found with its `ExpireAt` as it was then; `AddRangeToSet`,
`InsertToList`; `DeleteByKeyValue` is `RemoveFromSet` and `RemoveFromList`,
`DeleteByKey` is `RemoveSet` and `RemoveHash`; `SetExpireAt` is the three expire and
three persist commands; `TrimReads`, `TrimDeletes` are `TrimList`; `Fails` is
whatever ends a command without effect; `SweepSelect`, `SweepDelete` are
`DeleteExpirableEntity`.

### 2.9 `Connection`, `HubConnection`, `HttpConnection`

`Connection` has one variable with five values: `disconnected`, `connecting`,
`aborting` (stopped while connecting), `connected`, `disconnecting`. It says that
a start which was stopped is refused, that only an open connection closes, once,
and that a start and a stop come to an end.

| Fields of `hub` | Code of `HubConnection.ts` |
|---|---|
| `state`, `started`, `stopErr`, `answered` | `_connectionState`, `_connectionStarted`, `_stopDuringStartError`, `_receivedHandshakeResponse` |
| `owner`, `shake` | whose promise `_handshakeResolver` settles, and how it has settled |
| `at` | where `_startInternal` is, called by `start` or by `_reconnect` |
| `promise`, `stop`, `waiting` | `_startPromise`; each call of `stop()`, and whether it awaits that promise |
| `delayed`, `tries` | `_reconnectDelayHandle`, `previousReconnectAttempts` |
| `timeouts`, `ping` | server timeouts that are running; `_pingServerHandle`, of a timer that runs or has run out |
| `conn` | the `IConnection` |
| `call`, `streams`, `callbacks`, `send` | invocations, `_callbacks`, and the promise of each one's send |
| `lateStop`, `lateClose` | ghosts: a stop, or a close, came when `_startInternal` had returned and its caller had not gone on |

| Actions | Code |
|---|---|
| `Start`, `Stop`, `Call`, `Dispose` | the page: `start()`, `stop()`, `invoke()` and `stream()`, `dispose()` of a subscription |
| `Open`, `Refuse`, `Sent`, `SendFails` | the awaits of `_startInternal` |
| `HandshakeDone` | its end: the test of `_stopDuringStartError`, and the `catch` |
| `Returned`, `Throws` | what `_startWithStateTransitions` or `_reconnect` then does, a continuation later (`Succeeds`, `Fails`) |
| `Receive`, `ReceiveRefusal` | `_processIncomingData`, with what the answered handshake or a refused one does |
| `Close` | `_connectionClosed`, with `_completeClose` and `_reconnect` inside it |
| `ServerTimeout`, `PingFires`, `DelayRunsOut` | the three timers |
| `CallSent`, `CallFails`, `StopReturns` | promises of sends, and of `stop()` |

| Fields of `http` | Code of `HttpConnection.ts` |
|---|---|
| `state`, `started`, `transport`, `queue` | `_connectionState`, `_connectionStarted`, `transport`, `_sendQueue` |
| `start`, `stop`, `resolved` | where `start()` and `stop()` are; whether `_stopPromise` is resolved |
| `slots` | the transports there are: `made`, `opening`, `open`, and for a long poll that is stopped `aborting` and `deleting` |
| `redirects`, `offer`, `tried`, `negotiated` | locals of `_startInternal` and `_createTransport` |
| `of`, `via`, `send`, `stoppedQ` | the queue a send is in, the transport of a queue, the promise of a send, queues that have been stopped |
| `lost` | event sources that failed to connect and are not closed: `retrying`, `open`, `gone` |
| `cut` | ghost: one of these has stopped a connection that was not its own |

| Actions | Code |
|---|---|
| `Start`, `Stop`, `Send` | `start()`, `stop()`, `send()` |
| `Negotiated`, `Redirected`, `NegotiateFails` | `_getNegotiationResponse` settles, in `_startInternal` or in `_createTransport` |
| `SocketOpens`, `SocketFails`, `SourceOpens`, `SourceFails`, `FirstPoll`, `FirstPollEnds` | `connect()` of a socket, an event source or a long poll settles, and `_createTransport` returns (`Connects`) or goes on to the next one (`ConnectFails`) |
| `Opened`, `StoppedInStart` | `start()` after `_startInternal` |
| `SourceLost`, `LostEnds`, `LostOpens`, `LostCloses` | an `EventSource` whose `onerror` came before its `onopen`, and which the browser reconnects: `connect()` rejects, and it gives up, opens, or closes, when it stops whatever connection there is |
| `SocketCloses`, `SourceCloses`, `PollFails` | an open transport closes, by itself or because the hub threw |
| `PollEnds`, `Deleted`, `DeleteFails` | `stop()` of a long poll: the abort, and the DELETE |
| `StopTransport`, `TransportStopped`, `StopReturns` | `_stopInternal`, `stop()` |
| `SendLoop`, `SendSettles` | `_sendLoop` of `TransportSendQueue` |

The locals of `_startInternal` are forgotten when it ends (`Forget`), and a transport
is made only where a slot is free (`Room`).

Three constants admit uses of the client under which the code does go wrong
(3.1): `Overlap` and `StopInOnReconnecting` of the hub, `FirstPollMayEnd` of the
connection. They are FALSE in the runs, so that these show what else can happen. What
goes wrong without any such use, by a close or a stop in the gap after
`_startInternal` and by an event source that was given up, is in the runs, and the
properties name it as their exception.

## 3. What the runs check

| Run | Outcome |
|---|---|
| `DistributedLock_prompt` | With `Prompt` (no one commits or keeps a lock past its lease) and no sweep: `MutualExclusion` and the refinement `ImplementsExclusiveLock`. Three clients, two of them behind one Mutex, two resources. |
| `DistributedLock_overrun` | Without `Prompt`, with the sweep: `GrantOverLapsedRow`, a grant never lands on a running lease at the commit, whatever has happened since the row was tested; `MutexOwned`, no path of exceptions keeps the Mutex. |
| `DistributedLock_live` | `CallsEnd`: every call of `Acquire` and `Dispose` comes back, overruns and crashes included. |
| `DistributedLock_late_release` | refutes `LeaseExclusion`, see finding 1. |
| `JobQueue_live` | Jobs finish within `InvisibilityTimeout`, transactions are Serializable, and the lock may lapse anywhere: `ExclusiveFetch`, `KeptWhileWorking`, both but for rows in doubt, `NoEarlyRefetch`, and `EventuallyRemoved`, no enqueued job is lost. |
| `JobQueue_stale_requeue` | refutes `InTimeExclusion`, see finding 2. |
| `CountersAggregator_sum` | Two aggregators on overlapping batches, commits in doubt, the sweep, a reader: `Conservation`, the tables and what has expired add up to what was counted; `NothingMissed`, `GetCounter` never returns less than the value at its call; `AllAggregated`. |
| `JobLifecycle_sweep` | A job, two clients, the sweep between any two of their steps: `SweepsOnlyExpired`, `EnqueuedIsQueued`, `CurrentInHistory`, `ExpiredIsSwept`. |
| `Servers_registry` | A punctual server and a watchdog whose clocks differ: `PunctualIsKnown`, it is in the table from its announcement until it stops; `OnlySilentRemoved`, who is removed has been silent; `DeadAreRemoved`. |
| `Collections_rows` | Two clients and the sweep: `OneRowPerName`, racing upserts leave one row; `TrimKeepsRange`, a trim removes what was outside its range when it read the list and nothing else, whatever is added and removed before it deletes; `SweepSparesNew`, no row is swept that was never over and was given back no old expiry. |
| `HubConnection_live` | `ConnectedIsShaken`, `StopIsFinal`, `Settles` (the hub never hangs between its resting states), unless a close or a stop came in the gap after `_startInternal`; `TimersFit`, `NoCallForgotten` and `StopReturned` in any case. |
| `HttpConnection_live` | `OwnTransport`, `PromisesSettle`, and the refinement `ImplementsConnection`, liveness included, until an event source that was given up stops a connection that is not its own; `QueueOfTransport` and the promises of sends in any case. |

Some results say why the code works. `Dequeue` is protected twice, by the lock and
by Serializable transactions, and each is enough without the other: the run has an
unreliable lock, and `NoEarlyRefetchHolds` is proved for either. `GetCounter` reads
the two tables in the direction in which rows move between them, which is why it may
count a row twice but never misses one. The sweep, which tests an expiry in one
statement and deletes in another, spares a job that was extended in between only
because every transaction that extends a job also inserts a state row, to which the
foreign key holds; `_AggregatedCounter` and the collections have no such guard. A
trim works from the ids it has read, so that the list may change under it at any
isolation level. A server that beats at least every `Timeout` less the difference of
the clocks is safe from every other server, however late the statements arrive. The
hub has to test `_stopDuringStartError` after the handshake promise, which a close
resolves as well, and tests it one continuation too early (3.1); and its
`_cleanupTimeout` before the first server timeout is needed, since the server's
first message may arrive before the promise of the request's send has settled, and
`_resetTimeoutPeriod` clears nothing.

### 3.1 Findings

1. **A late `Dispose` frees somebody else's lock.** `Release` deletes by
   `_lockId`, and a take-over keeps the id of the row. A client that overruns its
   lease deletes the row of the next holder, and a third client is granted the
   lock while that holder's lease runs. The sweep of lock rows can free a lock
   in the same way: it selects ids of expired rows and deletes them later.
2. **A late `Dispose` of a fetched job requeues somebody else's.** `FetchToken`
   is written and never compared; `Requeue` clears `FetchedAt` by row id.

Seen while modelling, without a run of its own: the wait in `Acquire` is bounded
by `DistributedLockWaitTimeout`, while the `timeout` of `Dequeue`,
`JobQueueDistributedLockTimeout`, is only the lease, although its documentation
says "How long to wait to get a distributed lock for the job queue."
A `Requeue` that takes effect and is reported as failed leaves `_requeued` false
(`FluentNHibernateFetchedJob.cs:64`); another worker fetches the row, and `Dispose`
(line 37) clears its `FetchedAt`, so that a third may fetch it too: two workers have one
job although each has had it for less than `InvisibilityTimeout`. Without the exception
for `doubtful` rows TLC finds `ExclusiveFetch` and `KeptWhileWorking` violated.
`GetCounter` may count a row twice, in `_Counter` and, once it has been moved, in
`_AggregatedCounter`. A job that expires and is persisted again may have lost the
parameters and old states a sweep had already reached; only its current state is
safe (`CurrentInHistory`), and not even that if it expired since it was set.
The sweep deletes by id an aggregated counter that an aggregator has extended
since the select (`ExpirationManager.cs:153`), with its value, and a collection's
rows that have been persisted since; `Conservation` counts the former as expired
and `SweepSparesNew` allows the latter. At read committed an upsert gives a row back the
`ExpireAt` it has read (`SqlUtil.cs:109`, `119-120`), over one that an expire or a
persist has written in between, and the row is swept although its own expiry was
never over: without `restored` TLC finds `SweepSparesNew` violated with `Serializable`
FALSE. `TrimList` counts positions from the oldest element
(`FluentNHibernateWriteOnlyTransaction.cs:272`) and `GetRangeFromList` from the newest
(`FluentNHibernateJobStorageConnection.cs:386`), by reading: `TrimList(k, 0, n)` does
not keep what `GetRangeFromList(k, 0, n)` shows. `removedCount` (`CountersAggregator.cs:79`)
keeps the value of a full batch when the next one is empty, so that the loop goes
on at its short delay until counter rows come in again.

Of the client, in the runs, where the properties name it as their exception:

- The last test of `_startInternal` (`HubConnection.ts:230`) and what its caller does
  when it has returned (`187`, `797`) are two continuations. If the connection closes
  between them, because a message in the frame of the handshake answer asked for it,
  `_connectionClosed` finds the hub `Connecting` and leaves the rest to `_startInternal`,
  which is past its test: the hub becomes `Connected` over a connection that is closed,
  and a later `stop()` leaves it `Disconnecting` for ever, as no `onclose` is to come.
  TLC's traces: `Start`, `Open`, `Sent`, `Receive`, `HandshakeDone`, `Close`, `Returned`,
  and for `Settles` a `Stop`.
- A `stop()` in the same gap, called when the promise of an `invoke` settles, sets
  `Disconnecting`, which the caller overwrites with `Connected`; when the connection then
  closes, a hub with a policy reconnects.
- An `EventSource` that errs before it opens only rejects `connect()`
  (`ServerSentEventsTransport.ts:86-94`) and may open later, when the connection uses
  another transport or is another one. When it closes, its `onclose` stops that
  connection (`HttpConnection.ts:437`) and forgets its transport, which stays open
  with nobody to close it; one that is `Connecting` it makes forget its transport
  (`480`) but not stop, so that it becomes `Connected` without one and its `stop()`,
  which finds nothing to stop, waits for ever. Without `cut` TLC finds `OwnTransport`,
  `PromisesSettle` and `ImplementsConnection` violated.

And in uses the constants admit:

- `start()` from an `onclose` callback while an attempt to reconnect still waits
  for its connection to stop takes over `_handshakeResolver`
  (`HubConnection.ts:202`); with `Overlap` TRUE TLC finds `ConnectedIsShaken`,
  `TimersFit` and `StopIsFinal` violated.
- `stop()` from an `onreconnecting` callback finds no reconnect timer and a
  connection that is stopped (`HubConnection.ts:284-304`) and returns, and `_reconnect`
  leaves (`767-778`); the hub stays `Disconnecting`. `StopInOnReconnecting` TRUE violates
  `Settles`.
- A first long poll answered with 204 raises `onclose` although `connect()` returns
  (`LongPollingTransport.ts:95`); the connection forgets its transport
  (`HttpConnection.ts:480`) and then becomes `Connected` (`287-291`). `FirstPollMayEnd`
  TRUE violates `OwnTransport`.
- `SkipNegotiation` TRUE with an `onclose` callback that starts again violates
  `OwnTransport` as well: the new transport is made at once, and the rest of the
  old stop forgets it. With `RestartOnClose` FALSE the run passes.
- `features.inherentKeepAlive` (long polling) means no server timeout at all
  (`HubConnection.ts:638`): a silent server leaves the handshake waiting for ever,
  and `InherentKeepAlive` TRUE violates `Settles`. The flag is never reset
  (`HttpConnection.ts:283-284`), so that a later connection over WebSockets has
  neither pings nor a timeout.
- `stop()` rejects when the DELETE of a long poll fails and the `onclose` callback
  has started the next connection, as `_stopConnection` then throws out of the `catch`
  (`HttpConnection.ts:213-216`, `491-493`).
- By reading only: a stream whose send is under way when the connection closes
  is told of its end twice, by the close (`HubConnection.ts:844-857`) and by the
  send that fails (`350-354`), although `Stream.ts:18-21` promises no call after
  `error`; `_replaceStreamingParams` steps over the
  argument after one it removes (`HubConnection.ts:947`).

Not among the runs, `Policy` FALSE, `Retries` 0, `Sources` empty, and `Serializable` TRUE
of `Collections` pass with the same properties.

### 3.2 Bounds

- Clients, workers: three. Two race; the third is what a lapsed or freed lock or
  row is granted to. Two in the runs of liveness and in `JobQueue_live`, where a
  row that is lost is one that a second worker fetches and each one's progress
  against one other is the question. Aggregators: two, any race of which is
  between a pair.
- `Ids`: four, or three with two clients. A fresh id is needed only for a resource
  whose row is absent, and the rows and lock objects of three clients leave one: a
  fifth id adds no state to `DistributedLock_prompt`. `LockSymmetry` because ids,
  and resources, differ in nothing. Resources: two where the invariant relates rows
  of different resources.
- `Lease`, `WaitTimeout`, `Invisibility`, `MaxTtl`: 0 or 1. The code compares
  them with a clock only; one unit separates "before", "exactly at" and "after".
- Items: two, in two queues of which one worker does not listen to the second.
- Counter rows: three of two keys with a batch of two, so that there are full and
  partial batches and overlapping ones, one row that counts down and
  expires. Rows are inserted once: the only unbounded counter there, and the bound
  is `Rows`.
- `JobLifecycle`: one job, as jobs meet in no statement but the batches of the
  sweep, and a batch of one is enough to leave some rows of a job for the next
  pass; two clients, a caller and a worker or two workers. `MaxRows` is 4: it
  bounds the identity of child rows, and leaves room for two changes of state and
  a parameter, or for three changes.
- `Servers`: one punctual server and one watchdog whose clock may be off, as
  each removal is between such a pair; the constants sit exactly at the bound
  `MaxSilence + Skew <= Timeout`, where an off-by-one shows.
- `Collections`: one key, two names and three rows, so that a list has an inside and
  two ends, and a row of a set can be removed and added again. `MaxId` bounds the
  identity. The expiry is 0 when set: it is over after a tick. Sets and lists: a hash
  differs from a set only in lacking some of the commands. Symmetry of the
  clients and names, as there is no liveness in that run.
- `HubConnection`: one invocation (invocations meet only where all are cancelled),
  one pending `stop()`, a policy that gives two delays, so that an attempt fails and
  another follows. `tries` and `Calls` are the only counters. The page starts again
  when the last `start()` has settled, unless `Overlap`.
- `HttpConnection`: two slots for transports, one more than there ever should be,
  and nothing is followed that would need a third (`Room`), which only transports
  forgotten for the sake of a lost event source can bring about; one such source, as
  the harm is done when one has stopped a connection; one `stop()` at a time, as a
  second shares the promise of the first; two sends, so that one is in the queue
  behind another; three lists of transports a server may offer; `MaxRedirects` 2
  where the code has 100.

### 3.3 Fairness

- `Tick`, `LapseLock`: time passes.
- Weak fairness of a thread's own next step: the scheduler runs every thread.
- Strong fairness of `ReleaseEnter`: `lock` does not pass one thread over for
  ever. `Monitor.TryEnter` needs none: it gives up by itself.
- Strong fairness of the steps of a transaction: the database does not make the
  same client the victim of every deadlock, and a statement that is tried again
  and again does not fail each time. Without this nothing could be promised:
  `WrapForDeadlock` has no limit. It is stated for the outcome of an attempt,
  success or a failure that ends it, and for the success only of the steps an
  item or a counter row cannot do without.
- `JobLifecycle`: the expiration manager runs again and again, and strong fairness
  of the delete of each row: no statement fails every time it is tried. Clients
  owe nothing.
- `Servers`: weak fairness of `Tick` and of a server that is up to start its next
  heartbeat and its next look for others, as Hangfire's loops do; strong fairness
  of the statements: none fails every time.
- `HubConnection`, `HttpConnection`: weak fairness of continuations and strong
  fairness of tasks, since the event loop takes each in turn however many others
  the page queues. It covers what the platform owes: a request is answered or
  times out, a timer runs out, a connection that was stopped closes. The page has
  to call nothing, the server to say nothing, and no open connection to close. In
  `HttpConnection` it is stated for each slot, since each has a request of its own, and
  for the sends; an event source that was given up owes nothing.
- Nobody has to crash, fail, overrun or dispose of a lock.

## 4. What is proved

All proofs hold for every value of the constants that satisfies the named
assumptions of the modules: constants have the right types; `None` is none of
the ids, clients, workers or items; the counter rows and the names of a range are
finitely many; there is room for one transport; and in `Servers`
`SilenceAssumption` holds: a punctual server's silence and the difference of two
clocks fit into the timeout. In particular they hold for any number of clients,
servers, jobs, rows, calls and sends, and any bound of section 3.2.

| Theorem | Assumes besides | Says |
|---|---|---|
| `TypeCorrect`, `QueueTypeCorrect` | | `[]TypeOK` of `DistributedLock`, `JobQueue` |
| `MutexOwnedHolds` | | `[]MutexOwned` |
| `GrantOverLapsedRowHolds` | | `GrantOverLapsedRow` |
| `MutualExclusionHolds` | `Prompt`, `~Sweeping` | `[]MutualExclusion` |
| `LockImplementsExclusiveLock` | `Prompt`, `~Sweeping` | `ImplementsExclusiveLock` |
| `NoEarlyRefetchHolds` | `LockReliable \/ Serializable` | `NoEarlyRefetch` |
| `ExclusiveFetchHolds`, `KeptWhileWorkingHolds` | the same, `Prompt` | `[]ExclusiveFetch`, `[]KeptWhileWorking`, which except rows in doubt |
| `NothingLost` | | `[]Conservation` |
| `GetCounterMissesNothing` | `Growing` | `[]NothingMissed` |
| `EnqueuedJobsAreQueued`, `CurrentStateInHistory` | | `[]EnqueuedIsQueued`, `[]CurrentInHistory` |
| `SweepDeletesOnlyExpired` | | `SweepsOnlyExpired` |
| `RegistryTypeCorrect` | | `[]TypeOK` of `Servers` |
| `PunctualIsKnownHolds` | | `[]PunctualIsKnown` |
| `OnlySilentRemovedHolds` | | `OnlySilentRemoved` |
| `OneRowForEachName` | | `[]OneRowPerName` |
| `TrimKeepsItsRange` | | `TrimKeepsRange` |
| `SweepSparesNewRows` | | `SweepSparesNew`, which excepts rows given an old expiry |
| `SerializableSweepSpares` | `Serializable` | the same without the exception |
| `NoneForgotten` | | `[]NoCallForgotten` |
| `TimersFitConnection` | `~Overlap` | `[]TimersFit` |
| `ConnectedHasShaken` | `~Overlap` | `[]ConnectedIsShaken`, which excepts a close in the gap |
| `StopHolds` | `~Overlap` | `StopIsFinal`, which excepts a stop in the gap |
| `QueueIsOfTransport` | | `[]QueueOfTransport` |
| `OneTransport` | | beside event sources that were given up, at most one transport is alive, until one of those cuts a connection |
| `NoStrayTransport` | `~Forgets` | the second half of `OwnTransport` |
| `OnlyItsOwnTransport` | `~Forgets`, `~FirstPollMayEnd` | `[]OwnTransport`, which says "until" as well |
| `ImplementsContract` | | `Spec => Contract!Spec`, the safety part of `ImplementsConnection`; a connection that was cut counts as closed |
| `TypeCorrect` of the other proof modules | | `[]TypeOK` of `CountersAggregator`, `JobLifecycle`, `Collections`, `HubConnection`, `HttpConnection` |

The assumptions are not for convenience: TLC finds each conclusion violated when
its assumption or its exception is dropped. Findings 1 and 2 are what happens without `Prompt`, the
sweep breaks mutual exclusion as finding 1 says, and 3.1 tells what `Overlap`,
`FirstPollMayEnd` and `Forgets` (a restart without negotiation, `SkipNegotiation`
and `RestartOnClose`) do. `Growing` says that the counters somebody reads count up and do
not expire: a counter that counts down may well return less than it was.

**Types.** `TypeOK` of the lock is not inductive: a commit writes `lockId` into
the table, so that it has to be an id. `TypeInv` adds that a writer has one.

**Mutual exclusion.** Two holders of one resource would each have stored a row
under the same key, so the invariant ties holders to rows. `LockInv` says: no two
rows share an id (`RowsApart`, or a `Dispose` would delete another's row); a
holder's row is in the table as it wrote it, its lease running (`HolderRow`);
a writer whose reads are still true is about to write over a lapsed row under
that row's id, or a new one under an id no row has (`WriterRow`), and two of
these write different ids (`WritersApart`). A grant then lands on a row that is
no holder's; a release deletes the releaser's row alone; and `Tick` cannot end
a holder's lease because of `Prompt`. `MutualExclusion` itself is the last
conjunct.

**Refinement.** The abstract `holder` of a resource is the client that `Holds` it.
`CommitGrant` is `Grant`: before it nobody holds the resource, as any holder's row
would not be lapsed. `ReleaseDelete`, `ReleaseFails` and `Crash` are `Free` of
what their clients held, or stutters. In every other step the holders are the
same. `OwnerIsHolder` turns the `CHOOSE` of the mapping into the one holder that
`MutualExclusion` leaves.

**Fetches.** `FetchInv`: what a worker that may commit has read is still true. If
transactions are serializable, a worker whose row is changed becomes stale; if
the lock is reliable, `LockHeld` makes it the only one inside `Dequeue`, and
the others can only requeue or remove the row, after which it is fetchable or
gone. `OwnInv` adds that the row of an owned job shows the owner's own fetch,
which is not over (`OwnerRow`), so that no fetch of another worker can land on it
and no other worker has it to requeue. A `Requeue` in doubt breaks this chain: the worker
still has the row, which is fetchable. `doubtful` excepts such rows until the last worker
that has one in hand lets go of it, and the conjuncts of `OwnInv` hold of every other
row.

**Servers.** `RegistryInv` is `TypeOK`, that an announcement under way carries an
instant, and `Fresh` for each punctual server: while it is up its row is there and
was written from an instant that is no older than `MaxSilence`. What is under way
is at most `MaxLatency` old (in `TypeOK`), so a heartbeat or an announcement that
lands leaves a fresh row. A cutoff is off by at most the error of one clock, and an
old one asks for less; by `SilenceAssumption` none times a fresh row out.

**Counters.** `Conservation` is about sums over sets of rows. It needs that a batch
that is about to commit is still in the table (`BatchIsLive`), or the commit would
add rows that another aggregator has moved already: that is what `Serializable`
gives, and with it and `TypeOK`, `AggregatorInv` is inductive. The sums are the fold
of the community modules. That a sum splits over a set and its complement, and
does not depend on the order of the fold, is an induction over finite sets; since
the library's induction takes an operator as parameter, it is done on a set, the
set of subsets for which the claim holds (`SubsetInduction`), by the well-founded
order of the cardinalities. `ReaderInv` adds to it what a call of `GetCounter` has
added up together with what it has still to read: never less than at its start, since
a row only moves from the table read first to the one read second.

**Jobs.** `LifecycleInv` numbers the rows: every child row is at most as new as the
database's last number, and the current state of a job is the newest of its own. A
worker about to remove a queue row does not hold the row of the present Enqueued state
(`ClientInv`), as it performed the job in between and that changed its state; and a
row the sweep has selected is not the current state's row if the job has been
persisted or enqueued since (`Selected`). The last conjunct of `Selected` is why the
sweep spares a job: one that was extended after it was selected shows a state row, and
the foreign key refuses the delete.

**Collections.** `CollectionsInv` says that identities are given once and no two rows of
a set or hash have the same name. An upsert keeps in `doing` only what it has read of
its row; what saves it from a second row is the unique index at the insert. It may give
the row an expiry that is over by now, so that `TypeOK` and the sweep have to tell rows
that were `due` from rows that were `restored`: rows that are selected are one or the
other, and remain so. At Serializable what was read is what is there, and no row
is ever `restored` (`Unrestored`). For `TrimKeepsRange` the order of the ids matters
little and the existence of one a great deal: `ById` is chosen, so that one has to show that rows
can be sorted (`SortingExists`: the number of rows up to a row is an injection into
`1 .. n`, hence a bijection, and its inverse is the list). The index of a row in
that list is then the number of older ones, by which the property speaks of the range
without a list.

**The hub.** None of the four properties of `HubConnection` is inductive, and none can
be strengthened alone: whether the handshake was answered depends on where
`_startInternal` is, that on the connection, and that on who may start. `HubInv` has a part for
each: `RunInv` ties the state to the two callers of `_startInternal`, of which one
runs at a time and owns the handshake; `ConnInv` the await it is at to the connection;
`ShakeInv` says that a handshake promise that is settled was answered or has an error
set that will be thrown; `TimerInv` when a timer may be left; `CallInv` that
an open call has a callback and somebody to end it. The user's callbacks run
inside a step, before it is over: `Core` is what holds there, and `Leads` what
they may do. A close in the gap after `_startInternal` leaves a hub that has
lost its connection and does not know it: `Dead` says that nothing but the return of
`_startInternal` and the user's calls happens to it from then on, and the invariant is
`HubOrDead`. A stop in the gap leaves
`HubInv` intact, as its close is still to come and finds the hub `Connected`. With
`Overlap` two callers run, and only the types and `CallInv`
remain: this is `Sound`, which is inductive by itself and needs no assumption.

**The connection.** The invariant is `Weak /\ (cut \/ HttpInv)`. `Weak` holds of
every connection, cut or not: the types, that a queue sends by the present
transport, that one transport at most is opening and it is the one `start()` waits
for. `HttpInv` says that at most one transport is alive, and that it is the
connection's own (`Own`); it ties the status of the transport that is alive to where
`start()` and `stop()` are and to the state (`StartInv`, `StopInv`); a queue exists
only while the connection is open, and sends by its transport (`QueueInv`). There
are two exceptions. `Bare`: a first poll that ended has left a Connected connection
without a transport. `Forgets`: the `stop()` under which a connection was started
anew goes on to forget a transport, and it is the new one. The invariant therefore
speaks of the transport that is alive and not of the field `transport`, so that
types, the queue and the contract hold in that use as well. Event sources that were
given up are in no slot, and a close of theirs falls under neither: it sets `cut`
unless the connection is `Disconnected`, which has no transport to lose. The same lemmas show that each step is `Allowed` by `Connection`;
`ImplementsContract` turns that into steps of it.

Each "step preserves" lemma has one case per action. `LockInvFrame` and its kin
dispose of the actions that only narrow the sets of holders and writers.

## 5. Only model-checked, and not modelled

Model-checked only: the liveness properties, which need fairness and `ENABLED`,
outside what the prover handles: `CallsEnd`, `EventuallyRemoved`, `AllAggregated`,
`ExpiredIsSwept`, `DeadAreRemoved`, `Settles`, `StopReturned`, `PromisesSettle`, and of
`ImplementsConnection` what `Connection` promises under fairness. Everything else a
passing run checks is proved as well. The runs are instances of what is proved, and show
besides that the hazards occur there: each mutant of section 2.1 breaks its property.

Not modelled, and why: the texts of queries, mappings and conversions (stateless);
options (constants of the modules); logging; the providers (fixed at start-up); the
dashboard's queries and the cache of queue names (they change nothing); the sample
applications other than the SignalR client. The clock is shared but in `Servers`,
see 2.1. `JobQueue` gives each row a job, and `JobLifecycle` only records the rows
without one, see the plan. A batch of `DeleteByInt32Id` is one step although it runs
a statement per 250 ids, because no instance has so many. A transaction of several
commands on collections is not composed: each commits by itself, which admits more
interleavings, not fewer. Of the client: streams from the page to the server and
`send()` without an answer (the first adds sends, the second is an `invoke` nobody
waits for); the text of messages, URLs, tokens and headers; the HTTP requests behind
a transport, each of which is answered or fails; a transport object the user
supplies; received messages in `HttpConnection`, which only hands them on, those of
an event source that was given up included; and the builder, loggers and error
classes, which keep no state.

## 6. Plan

Done, in this order: `DistributedLock` over `ExclusiveLock`, `JobQueue` over
`ExclusiveLock`, both with proofs; `CountersAggregator`; `JobLifecycle`; `Servers`,
with proofs; `Collections`; `Connection`, `HubConnection`, `HttpConnection`; the
proofs about the last four and about `CountersAggregator` and `JobLifecycle`.

What is left:

1. A row of `JobQueue` without a job, whose `Dequeue` throws: does it block its
   queue?
2. A hub whose connection changes between transports that keep themselves alive
   and those that do not; streams from the page to the server.
3. To prove: that `DistributedLock` serves `JobQueue` as it stands, by instantiating the
   one in the other, so that `LockReliable` becomes a consequence of the lock's
   `Prompt`; and that a hub over `HttpConnection` sees what one over `Connection` sees.

To keep the number of runs small, a new module brings one passing run, and makes
room by merging runs that differ in bounds only.
