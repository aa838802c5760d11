----------------------------- MODULE HubConnection -----------------------------
(***************************************************************************)
(* The hub connection of the SignalR client the sample web application     *)
(* ships (HubConnection.ts): start, handshake, keep-alive, automatic       *)
(* reconnection, stop, and the invocations that wait for the server.       *)
(*                                                                         *)
(* JavaScript runs one task at a time.  The whole client is one record,    *)
(* `hub'; code that runs without awaiting is an operator from records to   *)
(* records, or to sets of records where it calls back the user; an action  *)
(* is a task, or the continuation of an async function up to its next      *)
(* await.  Answers of the network and timers are tasks and wait until every*)
(* continuation that is ready has run (Quiet).  The close of the connection*)
(* and the user's calls do not: a transport may raise the one, and a       *)
(* reaction to a promise make the other, from a continuation.  So either   *)
(* may come between the last check of _startInternal and what its caller   *)
(* does when it has returned.                                              *)
(*                                                                         *)
(* The underlying IConnection is the module Connection, whose states       *)
(* hub.conn goes through.                                                  *)
(***************************************************************************)
EXTENDS Integers, FiniteSets

CONSTANTS
  Calls,        \* the calls of invoke() or stream() that will ever be made
  Stoppers,     \* calls of stop() that may wait at one time
  Policy,       \* is there a reconnect policy?
  Retries,      \* how many delays it gives before null
  InherentKeepAlive, \* features.inherentKeepAlive: long polling keeps itself alive
  Overlap,      \* may the user start again while an attempt to reconnect is left?
  StopInOnReconnecting  \* may an onreconnecting callback call stop()?

ASSUME HubAssumption ==
  /\ Retries \in Nat
  /\ {Policy, InherentKeepAlive, Overlap, StopInOnReconnecting} \subseteq BOOLEAN

VARIABLE hub

--------------------------------------------------------------------------------

States  == {"Disconnected", "Connecting", "Connected", "Disconnecting", "Reconnecting"}
Callers == {"start", "reconnect"}          \* who runs _startInternal

Init ==
  hub = [state    |-> "Disconnected",
         started  |-> FALSE,               \* _connectionStarted
         stopErr  |-> FALSE,               \* is _stopDuringStartError set?
         answered |-> FALSE,               \* _receivedHandshakeResponse
         owner    |-> "start",             \* whose promise _handshakeResolver settles
         shake    |-> [c \in Callers |-> "pending"],
         at       |-> [c \in Callers |-> "idle"],   \* where _startInternal is
         promise  |-> FALSE,               \* is _startPromise unsettled?
         stop     |-> [p \in Stoppers |-> "idle"],
         waiting  |-> {},                  \* stops whose startPromise is unsettled
         delayed  |-> FALSE,               \* _reconnectDelayHandle
         tries    |-> 0,                   \* previousReconnectAttempts
         timeouts |-> 0,                   \* server timeouts that are running
         ping     |-> "none",              \* _pingServerHandle
         conn     |-> "disconnected",      \* the IConnection
         call     |-> [i \in Calls |-> "new"],
         streams  |-> {},                  \* which of them are streams
         callbacks |-> {},                 \* keys of _callbacks
         send     |-> [i \in Calls |-> "none"],  \* is its send unsettled, or refused?
         lateStop  |-> FALSE,              \* ghosts: a stop, a close, came after the
         lateClose |-> FALSE]              \* last check of _startInternal

--------------------------------------------------------------------------------
(* Timers *)

CleanupTimeout(h) == [h EXCEPT !.timeouts = IF @ = 0 THEN 0 ELSE @ - 1]
CleanupPing(h)    == [h EXCEPT !.ping = "none"]
CleanupBoth(h)    == CleanupPing(CleanupTimeout(h))

ResetKeepAlive(h) == IF InherentKeepAlive THEN h ELSE CleanupPing(h)

\* Starts a timeout without clearing one, and a ping timer if there is no handle,
\* not even the handle of a timer that ran out.
ResetTimeout(h) ==
  IF InherentKeepAlive THEN h
  ELSE [h EXCEPT !.timeouts = @ + 1, !.ping = IF @ = "none" THEN "running" ELSE @]

--------------------------------------------------------------------------------
(* The underlying connection, and what runs when its promises settle *)

\* connection.stop(): takes effect at once, completes with the close.
ConnStop(h) ==
  [h EXCEPT !.conn = CASE @ = "connecting" -> "aborting"
                       [] @ = "connected"  -> "disconnecting"
                       [] OTHER            -> @]

Stopped(h) == h.conn = "disconnected"

\* The connection is gone: whoever awaits connection.stop() may continue.
Gone(h) ==
  [h EXCEPT !.conn = "disconnected",
            !.at   = [c \in Callers |-> IF @[c] = "stopping" THEN "stopped" ELSE @[c]],
            !.stop = [p \in Stoppers |-> IF @[p] = "closing" THEN "closed" ELSE @[p]]]

\* The start promise settles.
StartSettled(h) == [h EXCEPT !.promise = FALSE, !.waiting = {}]

--------------------------------------------------------------------------------
(* Invocations *)

\* A subscriber or promise hears of the end; a disposed stream has no subscriber.
End(h, I) ==
  [h EXCEPT !.call = [i \in Calls |-> IF i \in I /\ @[i] = "open" THEN "ended" ELSE @[i]]]

\* A callback hears of an item or of the completion; invoke() expects no item.
Callback(h, i, completes) == IF completes \/ i \notin h.streams THEN End(h, {i}) ELSE h

Forget(h, i) == [h EXCEPT !.callbacks = @ \ {i}]

\* Mutant of CancelCallbacks: forgets to call them.
DropCallbacks(h) == [h EXCEPT !.callbacks = {}]

CancelCallbacks(h) == [End(h, h.callbacks) EXCEPT !.callbacks = {}]

--------------------------------------------------------------------------------
(* start(), stop() and close, up to their first await *)

StartInternal(h, c) ==
  [h EXCEPT !.stopErr = FALSE, !.answered = FALSE,
            !.owner = c, !.shake[c] = "pending",
            !.at[c] = IF Stopped(h) THEN "connecting" ELSE "refused",
            !.conn  = IF Stopped(h) THEN "connecting" ELSE @]

\* A start() that is refused replaces _startPromise all the same.
StartCall(h) ==
  IF h.state = "Disconnected"
    THEN StartInternal([h EXCEPT !.state = "Connecting", !.promise = TRUE], "start")
    ELSE [h EXCEPT !.promise = FALSE]

MayStart(h) ==
  /\ h.at["start"] = "idle"
  /\ Overlap \/ h.at["reconnect"] = "idle"

\* _startInternal has returned, and its caller has yet to continue.
Returning(h) == \E c \in Callers : h.at[c] = "returning"

\* An onclose callback may start again.
CompleteClose(h) ==
  LET closed == [h EXCEPT !.state = "Disconnected", !.started = FALSE]
  IN  IF ~h.started THEN {h}
      ELSE {closed} \cup {StartCall(x) : x \in {y \in {closed} : MayStart(y)}}

StopInternal(h) ==
  IF h.state \in {"Disconnected", "Disconnecting"} THEN {h}
  ELSE IF h.delayed
    THEN CompleteClose([h EXCEPT !.state = "Disconnecting", !.delayed = FALSE])
    ELSE {ConnStop(CleanupBoth([h EXCEPT !.state = "Disconnecting", !.stopErr = TRUE,
                                         !.lateStop = @ \/ Returning(h)]))}

\* stop() captures the start promise before anything else; its own promise is
\* settled already when there is nothing to close.
StopCall(h, p) ==
  {[x EXCEPT !.stop[p] = IF Stopped(h) \/ h.state = "Disconnected" THEN "closed" ELSE "closing",
             !.waiting = IF h.promise /\ x.promise THEN @ \cup {p} ELSE @] :
     x \in StopInternal(h)}

\* The user's code runs, and may call stop().
UserMayStop(h) == {h} \cup UNION {StopCall(h, p) : p \in {q \in Stoppers : h.stop[q] = "idle"}}

\* Does the policy give another delay, after so many attempts?
NextRetryDelay(previousRetryCount) == previousRetryCount < Retries

\* _reconnect up to its first await; it leaves when a callback has stopped the hub.
Reconnect(h) ==
  LET waits == [h EXCEPT !.state = "Reconnecting", !.tries = 1]
  IN  IF ~NextRetryDelay(0) THEN CompleteClose(h)
      ELSE {IF x.state = "Reconnecting" THEN [x EXCEPT !.delayed = TRUE] ELSE x :
              x \in IF StopInOnReconnecting THEN UserMayStop(waits) ELSE {waits}}

\* Mutant of ConnectionClosed: leaves the handshake promise pending.
ClosedQuietly(h) ==
  LET x == CleanupBoth(CancelCallbacks([h EXCEPT !.stopErr = TRUE]))
  IN  CASE x.state = "Disconnecting"        -> CompleteClose(x)
        [] x.state = "Connected" /\ Policy  -> Reconnect(x)
        [] x.state = "Connected" /\ ~Policy -> CompleteClose(x)
        [] OTHER                            -> {x}

ConnectionClosed(h) ==
  LET x == CleanupBoth(CancelCallbacks(
             [h EXCEPT !.stopErr = TRUE,
                       !.shake[h.owner] = IF @ = "pending" THEN "resolved" ELSE @]))
  IN  CASE x.state = "Disconnecting"        -> CompleteClose(x)
        [] x.state = "Connected" /\ Policy  -> Reconnect(x)
        [] x.state = "Connected" /\ ~Policy -> CompleteClose(x)
        [] OTHER                            -> {x}

--------------------------------------------------------------------------------
(* Messages *)

Messages == [type : {"none", "ping", "invocation", "asking", "close", "closeReconnect"}]
              \cup [type : {"item", "completion"}, id : Calls]

\* The user's methods run, and asking for a result stops the hub after them.
InvokeClientMethod(h, asking) ==
  IF asking THEN UNION {StopInternal(x) : x \in UserMayStop(h)} ELSE UserMayStop(h)

Process(h, m) ==
  CASE m.type \in {"invocation", "asking"} -> InvokeClientMethod(h, m.type = "asking")
    [] m.type = "close"          -> StopInternal(h)
    [] m.type = "closeReconnect" -> {ConnStop(h)}
    [] m.type = "item" /\ m.id \in h.callbacks -> {Callback(h, m.id, FALSE)}
    [] m.type = "completion" /\ m.id \in h.callbacks ->
         {Forget(Callback(h, m.id, TRUE), m.id)}
    [] OTHER -> {h}

HandshakeAnswered(h) ==
  [h EXCEPT !.answered = TRUE, !.shake[h.owner] = IF @ = "pending" THEN "resolved" ELSE @]

\* A bad answer rejects the promise and throws, past the reset of the timer.
HandshakeRefused(h) ==
  CleanupTimeout([h EXCEPT !.shake[h.owner] = IF @ = "pending" THEN "rejected" ELSE @])

\* The answer to the handshake may bring a message with it.
Received(h, m) ==
  LET clean == CleanupTimeout(h)
      open  == IF h.answered THEN clean ELSE HandshakeAnswered(clean)
  IN  {ResetTimeout(x) : x \in Process(open, m)}

--------------------------------------------------------------------------------
(* Continuations of _startInternal and of its callers *)

Goto(h, c, where) == [h EXCEPT !.at[c] = where]

\* Mutant of Fails: the loop never gives up.
KeepsTrying(h, c) ==
  IF c = "start" THEN {StartSettled([Goto(h, c, "idle") EXCEPT !.state = "Disconnected"])}
  ELSE CASE h.state = "Disconnecting" -> CompleteClose(Goto(h, c, "idle"))
         [] h.state = "Reconnecting"  -> {[Goto(h, c, "idle") EXCEPT !.delayed = TRUE]}
         [] OTHER -> {Goto(h, c, "idle")}

\* _startInternal has thrown: start() rejects, _reconnect retries or gives up.
Fails(h, c) ==
  LET x == Goto(h, c, "idle")
  IN  CASE c = "start" -> {StartSettled([x EXCEPT !.state = "Disconnected"])}
        [] c = "reconnect" /\ x.state = "Disconnecting" -> CompleteClose(x)
        [] c = "reconnect" /\ x.state = "Reconnecting" /\ NextRetryDelay(x.tries) ->
             {[x EXCEPT !.tries = @ + 1, !.delayed = TRUE]}
        [] c = "reconnect" /\ x.state = "Reconnecting" /\ ~NextRetryDelay(x.tries) -> CompleteClose(x)
        [] OTHER -> {x}

\* The caller goes on after _startInternal has returned, and tests nothing.
Succeeds(h, c) ==
  LET x == [Goto(h, c, "idle") EXCEPT !.state = "Connected", !.lateStop = FALSE]
  IN  IF c = "start" THEN StartSettled([x EXCEPT !.started = TRUE]) ELSE x

\* Its catch: stop the connection, and throw when it has stopped.
StopAndThrow(h, c) ==
  ConnStop(CleanupBoth(Goto(h, c, IF Stopped(h) THEN "stopped" ELSE "stopping")))

Ready(h, c) == \/ h.at[c] \in {"refused", "stopped", "returning"}
               \/ h.at[c] = "handshaking" /\ h.shake[c] # "pending"
ReadyStop(h, p) == h.stop[p] = "closed" /\ p \notin h.waiting

Quiet == /\ ~\E c \in Callers : Ready(hub, c)
         /\ ~\E p \in Stoppers : ReadyStop(hub, p)
         /\ ~\E i \in Calls : hub.send[i] = "refused"

Throws(c) ==
  /\ hub.at[c] \in {"refused", "stopped"}
  /\ hub' \in Fails(hub, c)

\* Mutant of HandshakeDone: relies on the promise alone.
TrustsPromise(c) ==
  /\ hub.at[c] = "handshaking" /\ hub.shake[c] # "pending"
  /\ hub' = IF hub.shake[c] = "rejected" THEN StopAndThrow(hub, c)
                                         ELSE Goto(hub, c, "returning")

HandshakeDone(c) ==
  /\ hub.at[c] = "handshaking" /\ hub.shake[c] # "pending"
  /\ hub' = IF hub.shake[c] = "rejected" \/ hub.stopErr
              THEN StopAndThrow(hub, c) ELSE Goto(hub, c, "returning")

Returned(c) ==
  /\ hub.at[c] = "returning"
  /\ hub' = Succeeds(hub, c)

\* stop() awaits more promises in turn than a start or a reconnect that fails.
StopReturns(p) ==
  /\ ReadyStop(hub, p) /\ ~\E c \in Callers : Ready(hub, c)
  /\ hub' = [hub EXCEPT !.stop[p] = "idle"]

--------------------------------------------------------------------------------
(* Tasks: the network *)

\* connection.start() resolves and the handshake request is sent.
Open(c) ==
  /\ Quiet /\ hub.conn = "connecting" /\ hub.at[c] = "connecting"
  /\ hub' = ResetKeepAlive(Goto([hub EXCEPT !.conn = "connected"], c, "sending"))

\* connection.start() rejects, which it always does when it was stopped.
Refuse(c) ==
  /\ Quiet /\ hub.conn \in {"connecting", "aborting"} /\ hub.at[c] = "connecting"
  /\ hub' = Gone(Goto(hub, c, "refused"))

\* Mutant of Sent: no defence against a message that came first.
SentWithoutCleanup(c) ==
  /\ Quiet /\ hub.at[c] = "sending"
  /\ hub' = ResetKeepAlive(ResetTimeout(Goto(hub, c, "handshaking")))

Sent(c) ==
  /\ Quiet /\ hub.at[c] = "sending"
  /\ hub' = ResetKeepAlive(ResetTimeout(CleanupTimeout(Goto(hub, c, "handshaking"))))

SendFails(c) ==
  /\ Quiet /\ hub.at[c] = "sending"
  /\ hub' = StopAndThrow(hub, c)

\* The connection closes, by itself or because it was stopped.
Close ==
  /\ hub.conn \in {"connected", "disconnecting"}
  /\ hub' \in ConnectionClosed([Gone(hub) EXCEPT !.lateClose = @ \/ Returning(hub)])

\* The server answers the handshake request of this connection first.
Receive(m) ==
  /\ Quiet /\ hub.conn \in {"connected", "disconnecting"}
  /\ hub.answered \/ hub.at[hub.owner] \in {"sending", "handshaking", "stopping"}
  /\ ~hub.answered \/ m.type # "none"
  /\ hub' \in Received(hub, m)

ReceiveRefusal ==
  /\ Quiet /\ hub.conn \in {"connected", "disconnecting"} /\ ~hub.answered
  /\ hub.at[hub.owner] \in {"sending", "handshaking", "stopping"}
  /\ hub' = HandshakeRefused(hub)

--------------------------------------------------------------------------------
(* Tasks: timers *)

ServerTimeout ==
  /\ Quiet /\ hub.timeouts > 0
  /\ hub' = ConnStop([hub EXCEPT !.timeouts = @ - 1])

\* Mutant of PingFires: sends the ping past _sendMessage.
PingPastSend ==
  /\ Quiet /\ hub.ping = "running"
  /\ hub' = [hub EXCEPT !.ping = "over"]

PingFires ==
  /\ Quiet /\ hub.ping = "running"
  /\ hub' = IF hub.state = "Connected" THEN ResetKeepAlive(hub)
                                       ELSE [hub EXCEPT !.ping = "over"]

DelayRunsOut ==
  /\ Quiet /\ hub.delayed
  /\ hub' = IF hub.state = "Reconnecting"
              THEN StartInternal([hub EXCEPT !.delayed = FALSE], "reconnect")
              ELSE [hub EXCEPT !.delayed = FALSE]

--------------------------------------------------------------------------------
(* The user's calls *)

Start ==
  /\ hub.state = "Disconnected" => MayStart(hub)
  /\ hub' = StartCall(hub)

Stop(p) ==
  /\ hub.stop[p] = "idle"
  /\ hub' \in StopCall(hub, p)

\* invoke() and stream(): in any state; the send is refused without a connection.
Call(i, kind) ==
  /\ hub.call[i] = "new"
  /\ hub' = ResetKeepAlive([hub EXCEPT !.call[i] = "open", !.callbacks = @ \cup {i},
       !.streams = IF kind = "stream" THEN @ \cup {i} ELSE @,
       !.send[i] = IF hub.conn = "connected" THEN "going" ELSE "refused"])

CallSent(i) ==
  /\ hub.send[i] = "going"
  /\ hub' = [hub EXCEPT !.send[i] = "none"]

CallFails(i) ==
  /\ hub.send[i] # "none"
  /\ hub' = Forget([End(hub, {i}) EXCEPT !.send[i] = "none"], i)

\* The last subscriber disposes of its subscription, which cancels the stream.
Dispose(i) ==
  /\ hub.call[i] = "open" /\ i \in hub.streams
  /\ hub' = Forget([hub EXCEPT !.call[i] = "disposed"], i)

--------------------------------------------------------------------------------

Continuation == \/ \E c \in Callers : Throws(c) \/ HandshakeDone(c) \/ Returned(c)
                \/ \E p \in Stoppers : StopReturns(p)

Next ==
  \/ Continuation
  \/ \E c \in Callers : Open(c) \/ Refuse(c) \/ Sent(c) \/ SendFails(c)
  \/ Close \/ ReceiveRefusal
  \/ \E m \in Messages : Receive(m)
  \/ ServerTimeout \/ PingFires \/ DelayRunsOut
  \/ Start
  \/ \E p \in Stoppers : Stop(p)
  \/ \E i \in Calls, kind \in {"invoke", "stream"} : Call(i, kind)
  \/ \E i \in Calls : CallSent(i) \/ CallFails(i) \/ Dispose(i)

Spec == Init /\ [][Next]_hub

\* What is ready runs; the network settles what it was asked, and timers run
\* out: strong fairness for tasks, which the event loop takes in turn however
\* many others the user queues.  Nobody has to call anything, no message has to
\* come, and no connection has to close unless it was stopped.
Fairness ==
  /\ WF_hub(Continuation)
  /\ WF_hub(hub.conn = "disconnecting" /\ Close)
  /\ \A c \in Callers : SF_hub(Open(c) \/ Refuse(c)) /\ SF_hub(Sent(c) \/ SendFails(c))
  /\ SF_hub(ServerTimeout) /\ SF_hub(DelayRunsOut)
  /\ \A i \in Calls : WF_hub(CallSent(i) \/ CallFails(i))

LiveSpec == Spec /\ Fairness

--------------------------------------------------------------------------------
(* Properties *)

\* Every field has its type.
TypeOK ==
  /\ hub.state \in States
  /\ {hub.started, hub.stopErr, hub.answered, hub.promise, hub.delayed,
      hub.lateStop, hub.lateClose} \subseteq BOOLEAN
  /\ hub.owner \in Callers
  /\ hub.shake \in [Callers -> {"pending", "resolved", "rejected"}]
  /\ hub.at \in [Callers -> {"idle", "connecting", "refused", "sending", "handshaking",
                             "returning", "stopping", "stopped"}]
  /\ hub.stop \in [Stoppers -> {"idle", "closing", "closed"}]
  /\ hub.waiting \subseteq Stoppers
  /\ hub.tries \in 0 .. Retries
  /\ hub.timeouts \in 0 .. 1
  /\ hub.ping \in {"none", "running", "over"}
  /\ hub.conn \in {"disconnected", "connecting", "aborting", "connected", "disconnecting"}
  /\ hub.call \in [Calls -> {"new", "open", "ended", "disposed"}]
  /\ hub.callbacks \subseteq Calls
  /\ hub.send \in [Calls -> {"none", "going", "refused"}]
  /\ hub.streams \subseteq Calls

\* Connected means that this very connection has answered the handshake and
\* nobody has been told that it closed, unless the close came after the last check
\* of _startInternal and before its caller went on.
ConnectedIsShaken ==
  hub.state = "Connected" /\ ~hub.lateClose =>
    /\ hub.answered
    /\ hub.conn \in {"connected", "disconnecting"}

\* Timers fit the connection.  Without one, none runs: no server timeout of an old
\* connection stops a new one.  And a connected hub can always start the ping
\* timer again: its handle is not that of a timer that ran out.
TimersFit ==
  /\ hub.conn \in {"disconnected", "connecting"} /\ (\A c \in Callers : ~Ready(hub, c))
         /\ (\A c \in Callers : hub.at[c] # "sending") =>
       hub.timeouts = 0 /\ hub.ping = "none"
  /\ hub.state = "Connected" => hub.ping # "over"

\* A call is waiting only while it has a callback or its send is unsettled; and
\* none waits for a connection that is gone.
NoCallForgotten ==
  \A i \in Calls : hub.call[i] = "open" =>
    /\ i \in hub.callbacks \/ hub.send[i] # "none"
    /\ hub.conn = "disconnected" => hub.send[i] # "none"

\* A stop is final, unless it came in that gap: a hub that is stopping is not
\* Connected nor Reconnecting next.
StopIsFinal ==
  [][hub.state = "Disconnecting" /\ ~hub.lateStop =>
       hub'.state \notin {"Connected", "Reconnecting"}]_hub

\* The hub does not hang between two of its resting states, however silent the
\* server is, unless it missed the close of its connection in that gap.
Settles == hub.state \in {"Connecting", "Reconnecting", "Disconnecting"}
             ~> hub.state \in {"Connected", "Disconnected"} \/ hub.lateClose

\* Every stop() returns.
StopReturned == \A p \in Stoppers : hub.stop[p] # "idle" ~> hub.stop[p] = "idle"
================================================================================
