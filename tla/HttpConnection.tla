----------------------------- MODULE HttpConnection ----------------------------
(***************************************************************************)
(* The connection under a hub connection (HttpConnection.ts): negotiation, *)
(* the choice of a transport with fallback, the three transports, the send *)
(* queue, and a stop that may come at any time.                            *)
(*                                                                         *)
(* As in HubConnection, one record holds the program, code that does not   *)
(* await is an operator on it, and an action is a task or a continuation;  *)
(* tasks wait until no continuation is ready.  Messages that arrive are    *)
(* HubConnection's concern: here a transport opens and closes.             *)
(*                                                                         *)
(* A transport lives in a slot.  Its status is "opening" while connect()   *)
(* is pending and "open" from then on; a long poll that is stopped is      *)
(* "aborting" until its poll ends, then "deleting".                        *)
(*                                                                         *)
(* A transport whose connect() rejects is done with, but for an event      *)
(* source: nobody closes that one, and it tries again by itself.  It leaves*)
(* its slot for one of the Sources, may open there, and when it closes it  *)
(* stops whatever connection there is.  What that leaves behind is a       *)
(* transport that is nobody's, so that the slots may run out: that is where*)
(* the module stops following (Room).                                      *)
(***************************************************************************)
EXTENDS Integers, Sequences, FiniteSetsExt

CONSTANTS
  Offers,            \* the lists of transports a server may offer
  Supported,         \* the transports the browser has and the user allows
  Slots,             \* room for transports: 1 .. how many may be alive
  Sources,           \* the event sources that will ever fail to connect and try again
  MaxRedirects,      \* MAX_REDIRECTS
  Sends,             \* the calls of send() that will ever be made
  SkipNegotiation,   \* options.skipNegotiation, with WebSockets
  RestartOnClose,    \* may the onclose callback start again?
  FirstPollMayEnd    \* may the server end the connection with the first poll,
                     \* when nobody has stopped it?

ASSUME HttpAssumption ==
  /\ MaxRedirects \in Nat \ {0}
  /\ Supported \subseteq {"ws", "sse", "lp"}
  /\ Offers \subseteq Seq({"ws", "sse", "lp"})
  /\ Slots # {} /\ Slots \subseteq Nat \ {0}
  /\ {SkipNegotiation, RestartOnClose, FirstPollMayEnd} \subseteq BOOLEAN

VARIABLE http

--------------------------------------------------------------------------------

NoSlot == 0
NoSend == "none"
Free   == [kind |-> "ws", status |-> "free"]

Init ==
  http = [state     |-> "Disconnected",
          started   |-> FALSE,          \* _connectionStarted
          start     |-> "idle",         \* where start() and _startInternal are
          stop      |-> "idle",         \* where stop() and _stopInternal are
          resolved  |-> TRUE,           \* is _stopPromise resolved?
          transport |-> NoSlot,
          slots     |-> [t \in Slots |-> Free],
          lost      |-> [s \in Sources |-> "none"],
          cut       |-> FALSE,          \* ghost: has one of these stopped a connection?
          redirects |-> 0,
          offer     |-> <<>>,           \* availableTransports
          tried     |-> 0,              \* how many of them have been tried
          negotiated |-> FALSE,         \* is `negotiate' defined?
          queue     |-> NoSend,         \* _sendQueue: the send that created it
          stoppedQ  |-> {},             \* queues with _executing = false
          of        |-> [m \in Sends |-> NoSend],   \* the queue a send is in
          via       |-> [m \in Sends |-> NoSlot],   \* the transport of a queue
          send      |-> [m \in Sends |-> "new"]]

Alive(h, t) == h.slots[t].status # "free"

Room(h) == \E t \in Slots : ~Alive(h, t)

Become(h, t, status) == [h EXCEPT !.slots[t].status = status]
Dead(h, t)           == [h EXCEPT !.slots[t] = Free]

--------------------------------------------------------------------------------
(* TransportSendQueue *)

In(h, q, status) == {m \in Sends : h.of[m] = q /\ h.send[m] = status}

Mark(h, S, status) == [h EXCEPT !.send = [m \in Sends |-> IF m \in S THEN status ELSE @[m]]]

\* send(): refused unless connected; else buffered in the queue, which the first
\* one creates.
Enqueue(h, m) ==
  IF h.state # "Connected" THEN Mark(h, {m}, "failed")
  ELSE LET q == IF h.queue = NoSend THEN m ELSE h.queue
       IN  [h EXCEPT !.queue = q, !.of[m] = q, !.send[m] = "buffered",
                     !.via[m] = IF h.queue = NoSend THEN h.transport ELSE @]

Queues(h) == {h.of[m] : m \in Sends} \ {NoSend}

\* The loop continues: with all that is buffered, or with the end of it.
LoopReady(h, q) == In(h, q, "flying") = {} /\ In(h, q, "buffered") # {}

\* Mutant of SendLoop: leaves its loop without rejecting what came last.
LoopJustEnds(q) ==
  /\ LoopReady(http, q) /\ q \notin http.stoppedQ
  /\ http' = Mark(http, In(http, q, "buffered"), "flying")

SendLoop(q) ==
  /\ LoopReady(http, q)
  /\ http' = Mark(http, In(http, q, "buffered"),
                  IF q \in http.stoppedQ THEN "failed" ELSE "flying")

\* Mutant of StopQueue: keeps the stopped queue.
QueueKept(h) == [h EXCEPT !.stoppedQ = @ \cup ({h.queue} \ {NoSend})]

StopQueue(h) ==
  IF h.queue = NoSend THEN h
  ELSE [h EXCEPT !.stoppedQ = @ \cup {h.queue}, !.queue = NoSend]

--------------------------------------------------------------------------------
(* start() and the choice of a transport *)

Starting == {"negotiate", "renegotiate", "connect"}

\* What _startInternal keeps in variables of its own.
Forget(h) ==
  [h EXCEPT !.redirects = 0, !.offer = <<>>, !.tried = 0, !.negotiated = FALSE]

\* _startInternal throws, and so does start().
StartFails(h) ==
  [Forget(h) EXCEPT !.state = "Disconnected", !.transport = NoSlot, !.resolved = TRUE,
                    !.start = "idle"]

\* A transport is made and, when there is a connection token, connects.
Construct(h, kind) ==
  LET t == Min({s \in Slots : ~Alive(h, s)})
  IN  [h EXCEPT !.transport = t,
                !.slots[t]  = [kind |-> kind, status |-> IF h.negotiated THEN "opening" ELSE "made"],
                !.start     = IF h.negotiated THEN "connect" ELSE "renegotiate"]

\* A transport that was never connected is dropped.
Unmade(h) ==
  [h EXCEPT !.slots = [t \in Slots |-> IF @[t].status = "made" THEN Free ELSE @[t]]]

LeftToTry(h) == {i \in h.tried + 1 .. Len(h.offer) : h.offer[i] \in Supported}

TryNext(h) ==
  IF LeftToTry(h) = {} THEN StartFails(h)
  ELSE LET i == Min(LeftToTry(h)) IN Construct([h EXCEPT !.tried = i], h.offer[i])

\* On to the next transport, unless stop() was called.
TransportFails(h) ==
  IF h.state = "Connecting" /\ ~SkipNegotiation
    THEN TryNext([h EXCEPT !.negotiated = FALSE]) ELSE StartFails(h)

StartCall(h) ==
  LET x == [h EXCEPT !.state = "Connecting", !.negotiated = SkipNegotiation]
  IN  IF SkipNegotiation THEN Construct(x, "ws") ELSE [x EXCEPT !.start = "negotiate"]

--------------------------------------------------------------------------------
(* _stopConnection: a transport has closed *)

CloseAndTell(h) ==
  LET x == StopQueue([h EXCEPT !.state = "Disconnected", !.started = FALSE,
                               !.resolved = IF h.state = "Disconnecting" THEN TRUE ELSE @])
  IN  {x} \cup (IF h.started /\ RestartOnClose /\ x.start = "idle" THEN {StartCall(x)} ELSE {})

\* While connecting it throws, once the transport is forgotten.
StopConnection(h) ==
  LET x == [h EXCEPT !.transport = NoSlot]
  IN  IF x.state \in {"Disconnected", "Connecting"} THEN {x} ELSE CloseAndTell(x)

--------------------------------------------------------------------------------
(* Continuations *)

\* stop() at its first await waits for _startInternal only.
ReadyStart(h) == \/ h.start = "opened"
                 \/ h.start = "stopping" /\ h.resolved
ReadyStop(h)  == \/ h.stop = "start" /\ h.start \notin Starting
                 \/ h.stop = "after"
                 \/ h.stop = "promise" /\ h.resolved

Quiet == ~ReadyStart(http) /\ ~ReadyStop(http) /\ ~\E q \in Queues(http) : LoopReady(http, q)

\* start() after _startInternal: a stop may have come, or the transport closed.
Opened ==
  /\ http.start = "opened"
  /\ http' = CASE http.state = "Disconnecting" -> [http EXCEPT !.start = "stopping"]
               [] http.state = "Connected"     -> [http EXCEPT !.start = "idle", !.started = TRUE]
               [] OTHER                        -> [http EXCEPT !.start = "idle"]

\* "Failed to start the HttpConnection before stop() was called."
StoppedInStart ==
  /\ http.start = "stopping" /\ http.resolved
  /\ http' = [http EXCEPT !.start = "idle"]

\* Ends the poll under way: its request is aborted and the loop does not go on.
Abort(h, t) == Become(h, t, "aborting")

\* Mutant of StopTransport: neither awaits _startInternal nor stops the transport.
StopUnawaited ==
  /\ http.stop = "start"
  /\ http' = [http EXCEPT !.stop = "after"]

\* transport.stop(), up to its first await; WebSockets and EventSources close at once.
StopTransport ==
  /\ http.stop = "start" /\ http.start \notin Starting
  /\ LET t == http.transport IN
     CASE t = NoSlot -> http' = [http EXCEPT !.stop = "promise"]
       [] t # NoSlot /\ http.slots[t].kind = "lp" ->
            http' = Abort([http EXCEPT !.stop = "transport"], t)
       [] t # NoSlot /\ http.slots[t].kind # "lp" ->
            http' \in StopConnection(Dead([http EXCEPT !.stop = "after"], t))

TransportStopped ==
  /\ http.stop = "after"
  /\ http' = [http EXCEPT !.stop = "promise", !.transport = NoSlot]

StopReturns ==
  /\ http.stop = "promise" /\ http.resolved
  /\ http' = [http EXCEPT !.stop = "idle"]

--------------------------------------------------------------------------------
(* Tasks: answers of the server *)

\* A first negotiation; a second keeps the list of the first, and throws when the
\* transport it was for has been forgotten.
Negotiated(offer) ==
  /\ Quiet /\ http.start \in {"negotiate", "renegotiate"}
  /\ http.start = "negotiate" => Room(http)
  /\ http' = CASE http.start = "negotiate" /\ http.state # "Connecting" -> StartFails(http)
               [] http.start = "negotiate" /\ http.state = "Connecting" ->
                    TryNext([http EXCEPT !.offer = offer, !.negotiated = TRUE])
               [] http.start = "renegotiate" /\ http.transport = NoSlot ->
                    TransportFails(Unmade(http))
               [] http.start = "renegotiate" /\ http.transport # NoSlot ->
                    Become([http EXCEPT !.negotiated = TRUE, !.start = "connect"],
                           http.transport, "opening")

\* Mutant of Redirected: one redirect too many.
RedirectedForEver ==
  /\ Quiet /\ http.start = "negotiate"
  /\ http' = IF http.state = "Connecting" /\ http.redirects < MaxRedirects
               THEN [http EXCEPT !.redirects = @ + 1] ELSE StartFails(http)

Redirected ==
  /\ Quiet /\ http.start = "negotiate"
  /\ http' = IF http.state = "Connecting" /\ http.redirects + 1 < MaxRedirects
               THEN [http EXCEPT !.redirects = @ + 1] ELSE StartFails(http)

NegotiateFails ==
  /\ Quiet /\ http.start \in {"negotiate", "renegotiate"}
  /\ http' = StartFails(Unmade(http))

\* _startInternal returns.
Returned(h) == [Forget(h) EXCEPT !.start = "opened",
                                 !.state = IF @ = "Connecting" THEN "Connected" ELSE @]

Connects(t) == http' = Returned(Become(http, t, "open"))

ConnectFails(t) == http' = TransportFails(Dead(http, t))

Closes(t) == http' \in StopConnection(Dead(http, t))

Awaits(t, kind, status) == Quiet /\ http.slots[t] = [kind |-> kind, status |-> status]

\* A socket says nothing of its close before it was open.
SocketOpens(t)  == Awaits(t, "ws", "opening") /\ Connects(t)
SocketFails(t)  == Awaits(t, "ws", "opening") /\ ConnectFails(t)
SocketCloses(t) == Awaits(t, "ws", "open") /\ Closes(t)

\* An open event source that errs is closed, whether it would reconnect or not.
SourceOpens(t)  == Awaits(t, "sse", "opening") /\ Connects(t)
SourceCloses(t) == Awaits(t, "sse", "open") /\ Closes(t)

\* One that errs before is done with if the server refused it, and else tries again.
SourceFails(t) == Awaits(t, "sse", "opening") /\ ConnectFails(t)

SourceLost(t, s) ==
  /\ Awaits(t, "sse", "opening") /\ http.lost[s] = "none"
  /\ http' = TransportFails(Dead([http EXCEPT !.lost[s] = "retrying"], t))

LostEnds(s) ==
  /\ Quiet /\ http.lost[s] = "retrying"
  /\ http' = [http EXCEPT !.lost[s] = "gone"]

LostOpens(s) ==
  /\ Quiet /\ http.lost[s] = "retrying"
  /\ http' = [http EXCEPT !.lost[s] = "open"]

LostCloses(s) ==
  /\ Quiet /\ http.lost[s] = "open" /\ Room(http)
  /\ http' \in StopConnection([http EXCEPT !.lost[s] = "gone",
                                           !.cut = @ \/ http.state # "Disconnected"])

\* The first poll connects if it is answered, and throws if it is not.
FirstPoll(t) == Awaits(t, "lp", "opening") /\ (Connects(t) \/ ConnectFails(t))

\* The first poll brings 204: connect() returns, and the transport has closed.
FirstPollEnds(t) ==
  /\ FirstPollMayEnd \/ http.state = "Disconnecting"
  /\ Awaits(t, "lp", "opening")
  /\ http' \in {Returned(x) : x \in StopConnection(Dead(http, t))}

\* A poll fails, ends with 204, or brings a message on which the hub throws.
PollFails(t) == Awaits(t, "lp", "open") /\ Closes(t)

PollEnds(t) ==
  /\ Awaits(t, "lp", "aborting")
  /\ http' = Become(http, t, "deleting")

\* _stopConnection has thrown, and stop() rejects.
StopRejects(h) == [h EXCEPT !.stop = "idle", !.transport = NoSlot]

\* The DELETE is answered or not: the transport closes either way, and when it
\* was not, or when the close throws, _stopConnection is called once more.
Deleted(t) ==
  /\ Awaits(t, "lp", "deleting")
  /\ http' \in IF http.state = "Connecting" THEN {StopRejects(Dead(http, t))}
                 ELSE StopConnection(Dead([http EXCEPT !.stop = "after"], t))

\* Mutant of DeleteFails: the transport does not say that it has closed.
DeleteFailsQuietly(t) ==
  /\ Awaits(t, "lp", "deleting")
  /\ http' = Dead([http EXCEPT !.stop = "after"], t)

\* The second call throws when the first one has started anew.
DeleteFails(t) ==
  /\ Awaits(t, "lp", "deleting")
  /\ http' \in {IF x.state = "Connecting" THEN StopRejects(x) ELSE x :
                  x \in StopConnection(Dead([http EXCEPT !.stop = "after"], t))}

\* A queue created without a transport has nothing to send with.
CanSend(q) == http.via[q] # NoSlot

\* transport.send() settles: the socket took the data or the request was answered.
SendSettles(q, outcome) ==
  /\ Quiet /\ In(http, q, "flying") # {}
  /\ outcome = "sent" => CanSend(q)
  /\ http' = Mark(http, In(http, q, "flying"), outcome)

--------------------------------------------------------------------------------
(* Tasks: the hub's calls *)

\* The hub starts again when the last start() has settled.
Start ==
  /\ Quiet /\ http.state = "Disconnected" /\ http.start = "idle" /\ Room(http)
  /\ http' = StartCall(http)

\* A second stop() shares the promise of the first.
Stop ==
  /\ Quiet /\ http.state \in {"Connecting", "Connected"} /\ http.stop = "idle"
  /\ http' = [http EXCEPT !.state = "Disconnecting", !.resolved = FALSE, !.stop = "start"]

Send(m) ==
  /\ Quiet /\ http.send[m] = "new"
  /\ http' = Enqueue(http, m)

--------------------------------------------------------------------------------

Continuation == \/ Opened \/ StoppedInStart
                \/ StopTransport \/ TransportStopped \/ StopReturns
                \/ \E q \in Queues(http) : SendLoop(q)

\* connect() settles.
ConnectEnds(t) == \/ SocketOpens(t) \/ SocketFails(t)
                  \/ SourceOpens(t) \/ SourceFails(t) \/ \E s \in Sources : SourceLost(t, s)
                  \/ FirstPoll(t) \/ FirstPollEnds(t)

Negotiation == (\E o \in Offers : Negotiated(o)) \/ NegotiateFails

Next ==
  \/ Continuation
  \/ Negotiation \/ Redirected
  \/ \E t \in Slots : \/ ConnectEnds(t)
                      \/ SocketCloses(t) \/ SourceCloses(t) \/ PollFails(t)
                      \/ PollEnds(t) \/ Deleted(t) \/ DeleteFails(t)
  \/ \E s \in Sources : LostEnds(s) \/ LostOpens(s) \/ LostCloses(s)
  \/ \E q \in Queues(http), outcome \in {"sent", "failed"} : SendSettles(q, outcome)
  \/ Start \/ Stop
  \/ \E m \in Sends : Send(m)

Spec == Init /\ [][Next]_http

\* Every request is answered or times out; the event loop is fair.  No
\* connection has to close by itself, and nobody has to call anything.
Fairness ==
  /\ WF_http(Continuation)
  /\ SF_http(Negotiation \/ Redirected)
  /\ \A t \in Slots : SF_http(ConnectEnds(t) \/ PollEnds(t) \/ Deleted(t) \/ DeleteFails(t))
  /\ SF_http(\E q \in Sends : SendSettles(q, "sent") \/ SendSettles(q, "failed"))

LiveSpec == Spec /\ Fairness

--------------------------------------------------------------------------------
(* Properties *)

\* Every field has its type.
TypeOK ==
  /\ http.state \in {"Disconnected", "Connecting", "Connected", "Disconnecting"}
  /\ {http.started, http.resolved, http.negotiated} \subseteq BOOLEAN
  /\ http.start \in Starting \cup {"idle", "opened", "stopping"}
  /\ http.stop \in {"idle", "start", "transport", "after", "promise"}
  /\ http.transport \in Slots \cup {NoSlot}
  /\ http.slots \in [Slots -> [kind : {"ws", "sse", "lp"},
       status : {"free", "made", "opening", "open", "aborting", "deleting"}]]
  /\ http.lost \in [Sources -> {"none", "retrying", "open", "gone"}]
  /\ http.cut \in BOOLEAN
  /\ http.redirects \in 0 .. MaxRedirects - 1
  /\ http.offer \in Offers \cup {<<>>}
  /\ http.tried \in 0 .. Len(http.offer)
  /\ http.queue \in Sends \cup {NoSend}
  /\ http.stoppedQ \subseteq Sends
  /\ http.of \in [Sends -> Sends \cup {NoSend}]
  /\ http.via \in [Sends -> Slots \cup {NoSlot}]
  /\ http.send \in [Sends -> {"new", "buffered", "flying", "sent", "failed"}]

\* The transport is the connection's own: one that is Connected has it, and it is
\* open; and, the event sources that try again apart, every transport that can still
\* act is this one: none that was given up, or that belongs to an earlier
\* connection, is left behind.  That is so until one of those sources, which nobody
\* has closed, stops a connection that is not its own.
OwnTransport ==
  http.cut \/ /\ http.state = "Connected" =>
                    http.transport # NoSlot /\ http.slots[http.transport].status = "open"
              /\ \A t \in Slots : Alive(http, t) => http.transport = t

\* The queue a send goes to is that of the present transport.
QueueOfTransport ==
  http.queue # NoSend => http.state # "Disconnected" /\ http.via[http.queue] = http.transport

\* No promise is pending for ever: not that of a send, although the connection stops
\* under it, and not that of stop(), unless such a source has taken the transport
\* from it.  (There are finitely many sends, so that they settle all together.)
PromisesSettle ==
  []<>(/\ \A m \in Sends : http.send[m] \notin {"buffered", "flying"}
       /\ (http.stop = "idle" \/ http.cut))

\* What the hub relies on: the connection counts as open from the time start()
\* resolves until the onclose callback.  Nothing more is promised, not even a start,
\* of one that such a source has stopped.
conn ==
  CASE http.cut \/ (~http.started /\ http.start = "idle") -> "disconnected"
    [] ~http.cut /\ http.started /\ http.state = "Connected" -> "connected"
    [] ~http.cut /\ http.started /\ http.state # "Connected" -> "disconnecting"
    [] ~http.cut /\ ~http.started /\ http.start # "idle"
         /\ http.state \in {"Connecting", "Connected"} -> "connecting"
    [] OTHER -> "aborting"

Contract == INSTANCE Connection

\* HttpConnection implements the contract of Connection, its liveness included, up
\* to the time an event source that was given up stops it.
ImplementsConnection == Contract!LiveSpec
================================================================================
