-------------------------- MODULE HttpConnection_proofs -------------------------
(***************************************************************************)
(* Proofs about HttpConnection: types, the connection has no transport but *)
(* its own, a send goes to the queue of the present transport, and every   *)
(* step is one that the contract of Connection allows.  They hold for any  *)
(* offers, slots, sources and sends.                                       *)
(*                                                                         *)
(* An event source that was lost may stop a connection that is not its own *)
(* (http.cut).  Weak is what holds of every connection, HttpInv what holds *)
(* until then.                                                             *)
(***************************************************************************)
EXTENDS HttpConnection, WellFoundedInduction, TLAPS

--------------------------------------------------------------------------------
(* The inductive invariant                                                     *)

Kinds    == {"ws", "sse", "lp"}
Statuses == {"free", "made", "opening", "open", "aborting", "deleting"}

HTTP == [state      : {"Disconnected", "Connecting", "Connected", "Disconnecting"},
         started    : BOOLEAN,
         start      : Starting \cup {"idle", "opened", "stopping"},
         stop       : {"idle", "start", "transport", "after", "promise"},
         resolved   : BOOLEAN,
         transport  : Slots \cup {NoSlot},
         slots      : [Slots -> [kind : Kinds, status :
                        {"free", "made", "opening", "open", "aborting", "deleting"}]],
         lost       : [Sources -> {"none", "retrying", "open", "gone"}],
         cut        : BOOLEAN,
         redirects  : 0 .. MaxRedirects - 1,
         offer      : Offers \cup {<<>>},
         tried      : Nat,
         negotiated : BOOLEAN,
         queue      : Sends \cup {NoSend},
         stoppedQ   : SUBSET Sends,
         of         : [Sends -> Sends \cup {NoSend}],
         via        : [Sends -> Slots \cup {NoSlot}],
         send       : [Sends -> {"new", "buffered", "flying", "sent", "failed"}]]

\* What may happen in a use of the connection that does not negotiate and starts again in
\* its onclose callback: the new transport is made at once, and the rest of the stop of
\* the one before forgets it.
Forgets == SkipNegotiation /\ RestartOnClose

\* Nothing is alive; and the status of what is.
Empty(h) == \A t \in Slots : ~Alive(h, t)

Shown(slots) ==
  IF \A t \in Slots : slots[t].status = "free" THEN "free"
  ELSE slots[CHOOSE t \in Slots : slots[t].status # "free"].status

Status(h) == Shown(h.slots)

\* One transport is alive at most, and it is the connection's unless it was forgotten.
Own(h) ==
  /\ \A s, t \in Slots : Alive(h, s) /\ Alive(h, t) => s = t
  /\ h.transport # NoSlot => Alive(h, h.transport)
  /\ Forgets \/ \A t \in Slots : Alive(h, t) => h.transport = t

\* The first poll ended the connection, and it was never told.
Bare(h) == FirstPollMayEnd /\ Status(h) = "free"

\* What start(), its transport and the connection's state tell of each other.
StartInv(h) ==
  /\ h.start = "negotiate"   => Status(h) = "free"
  /\ h.start = "renegotiate" => Status(h) = "made" /\ h.transport # NoSlot
  /\ h.start = "connect"     => Status(h) = "opening"
  /\ h.start \notin Starting => Status(h) \in {"free", "open", "aborting", "deleting"}
  /\ h.state = "Connecting"   => h.start \in Starting /\ ~h.started
  /\ h.state = "Connected"    => /\ Status(h) = "open" \/ Bare(h)
                                 /\ \/ h.start = "opened" /\ ~h.started
                                    \/ h.start = "idle" /\ h.started
  /\ h.state = "Disconnected" => /\ Status(h) = "free" /\ ~h.started
                                 /\ h.start \notin Starting
  /\ h.state = "Disconnecting" => /\ h.started <=> h.start = "idle"
                                  /\ h.start \notin Starting => Status(h) # "free" \/ Bare(h)

\* What stop() is at, and what it has made of the state and the transport.
StopInv(h) ==
  /\ h.resolved <=> h.state # "Disconnecting"
  /\ h.state = "Disconnecting" =>
       \/ h.stop \in {"start", "transport"}
       \/ h.stop = "promise" /\ h.start \notin Starting /\ h.transport = NoSlot
  /\ h.state = "Connected"     => h.stop = "idle"
  /\ h.stop = "start"     => h.state \in {"Disconnecting", "Disconnected"}
  /\ h.stop = "transport" <=> Status(h) \in {"aborting", "deleting"}
  /\ h.stop = "transport" => h.state = "Disconnecting" /\ h.start \notin Starting
  /\ h.stop = "after"     => \/ h.transport = NoSlot
                             \/ Forgets /\ h.state = "Connecting" /\ h.start = "connect"

\* There is a queue only while the connection is open, and it sends by its transport.
QueueInv(h) == h.queue # NoSend => h.started /\ h.via[h.queue] = h.transport

\* How many offers were tried: none before the first is made, or once start() is over.
TriedInv(h) ==
  /\ h.tried <= Len(h.offer)
  /\ h.start \notin {"renegotiate", "connect"} => h.tried = 0

HttpInv(h) ==
  /\ h \in HTTP
  /\ TriedInv(h)
  /\ Own(h) /\ StartInv(h) /\ StopInv(h) /\ QueueInv(h)

\* What holds whether a lost source has stopped the connection or not: a negotiation for a
\* transport has one, one transport at most is opening, and it is what start() waits for,
\* and only what start() has opened has a queue.
Loose(h) ==
  /\ TriedInv(h)
  /\ h.start = "renegotiate" => \E t \in Slots : h.slots[t].status = "made"
  /\ \A t \in Slots : h.slots[t].status = "opening" =>
       h.start = "connect" /\ \A s \in Slots : h.slots[s].status = "opening" => s = t
  /\ h.started => h.start = "idle" /\ h.state \in {"Connected", "Disconnecting"}
  /\ h.state = "Connected" => h.started \/ h.start = "opened"
  /\ h.queue # NoSend => h.started

Weak(h) ==
  /\ h \in HTTP
  /\ Loose(h)
  /\ h.stop = "after" => h.state \in {"Disconnected", "Connecting"}
  /\ h.queue # NoSend => h.via[h.queue] = h.transport

\* conn, of a connection h that was not cut; and the steps Connection allows it.
Conn(h) ==
  CASE h.started /\ h.state = "Connected" -> "connected"
    [] h.started /\ h.state # "Connected" -> "disconnecting"
    [] ~h.started /\ h.start = "idle"     -> "disconnected"
    [] ~h.started /\ h.start # "idle" /\ h.state \in {"Connecting", "Connected"} -> "connecting"
    [] OTHER -> "aborting"

Allowed(a, b) ==
  \/ a = b
  \/ a = "disconnected" /\ b = "connecting"
  \/ a = "connecting" /\ b \in {"connected", "disconnected", "aborting"}
  \/ a = "aborting" /\ b = "disconnected"
  \/ a = "connected" /\ b \in {"disconnecting", "disconnected", "connecting"}
  \/ a = "disconnecting" /\ b \in {"disconnected", "connecting"}

\* A step to connection y is a good one.
Good(y) == HttpInv(y) /\ Allowed(Conn(http), Conn(y))

--------------------------------------------------------------------------------
(* Slots                                                                       *)

LEMMA ConstantTyping ==
  /\ MaxRedirects \in Nat \ {0} /\ 0 \in 0 .. MaxRedirects - 1
  /\ NoSlot = 0 /\ NoSlot \notin Slots /\ Slots \subseteq Nat /\ Slots # {}
  /\ \A o \in Offers \cup {<<>>} : o \in Seq(Kinds) /\ Len(o) \in Nat
  /\ Len(<<>>) = 0
<1>1. MaxRedirects \in Nat \ {0} /\ 0 \in 0 .. MaxRedirects - 1
  BY HttpAssumption
<1>2. NoSlot = 0 /\ NoSlot \notin Slots /\ Slots \subseteq Nat /\ Slots # {}
  BY HttpAssumption DEF NoSlot
<1>3. <<>> \in Seq(Kinds) /\ Len(<<>>) = 0
  OBVIOUS
<1>4. Offers \cup {<<>>} \subseteq Seq(Kinds)
  BY <1>3, HttpAssumption DEF Kinds
<1> QED
  BY <1>1, <1>2, <1>3, <1>4

LEMMA MinOfNaturals ==
  ASSUME NEW S, S \subseteq Nat, S # {}
  PROVE  Min(S) \in S
<1> DEFINE R == OpToRel(<, Nat)
<1>1. IsWellFoundedOn(R, Nat)
  BY NatLessThanWellFounded
<1>2. \E x \in S : \A y \in S : ~(<<y, x>> \in R)
  <2> HIDE DEF R
  <2> QED
    BY <1>1, WFMin
<1>3. PICK x \in S : \A y \in S : ~(y < x)
  BY <1>2 DEF OpToRel
<1>4. \A y \in S : x <= y
  BY <1>3
<1> QED
  BY <1>4 DEF Min

\* The fields that changes of slots, sources and local variables leave alone.
SameCalls(y, h) ==
  /\ y.state = h.state /\ y.started = h.started /\ y.start = h.start /\ y.stop = h.stop
  /\ y.resolved = h.resolved /\ y.transport = h.transport /\ y.cut = h.cut
  /\ y.offer = h.offer /\ y.tried = h.tried /\ y.negotiated = h.negotiated
  /\ y.queue = h.queue /\ y.via = h.via

LEMMA DeadTyped ==
  ASSUME NEW h \in HTTP, NEW t \in Slots
  PROVE  LET y == Dead(h, t) IN
           /\ y \in HTTP /\ SameCalls(y, h) /\ Room(y)
           /\ y.slots[t] = Free /\ \A s \in Slots : s # t => y.slots[s] = h.slots[s]
<1> DEFINE S == [h.slots EXCEPT ![t] = Free]
<1> DEFINE y == Dead(h, t)
<1>1. S \in [Slots -> [kind : Kinds, status :
                {"free", "made", "opening", "open", "aborting", "deleting"}]]
  BY DEF HTTP, Free, Kinds
<1>2. S[t] = Free /\ \A s \in Slots : s # t => S[s] = h.slots[s]
  BY DEF HTTP
<1>3. y = [h EXCEPT !.slots = S]
  BY DEF Dead
<1> HIDE DEF S
<1>4. y \in HTTP /\ y.slots = S
  BY ZenonT(60), <1>1, <1>3 DEF HTTP
<1>5. SameCalls(y, h)
  BY <1>3 DEF HTTP, SameCalls
<1>6. Room(y)
  BY <1>2, <1>4 DEF Room, Alive, Free
<1> QED
  BY <1>2, <1>4, <1>5, <1>6

LEMMA BecomeTyped ==
  ASSUME NEW h \in HTTP, NEW t \in Slots, NEW status \in Statuses
  PROVE  LET y == Become(h, t, status) IN
           /\ y \in HTTP /\ SameCalls(y, h)
           /\ y.slots[t].status = status /\ \A s \in Slots : s # t => y.slots[s] = h.slots[s]
<1> DEFINE y == Become(h, t, status)
<1> DEFINE r == [h.slots[t] EXCEPT !.status = status]
<1>1. /\ r \in [kind : Kinds, status : {"free", "made", "opening", "open", "aborting", "deleting"}]
      /\ r.status = status
  BY DEF HTTP, Statuses
<1> DEFINE S == [h.slots EXCEPT ![t] = r]
<1>2. y = [h EXCEPT !.slots = S]
  BY DEF Become, HTTP
<1> HIDE DEF r
<1>3. S \in [Slots -> [kind : Kinds, status :
                {"free", "made", "opening", "open", "aborting", "deleting"}]]
  BY <1>1 DEF HTTP
<1>4. S[t] = r /\ \A s \in Slots : s # t => S[s] = h.slots[s]
  BY DEF HTTP
<1> HIDE DEF S
<1>5. y \in HTTP /\ y.slots = S
  BY ZenonT(60), <1>2, <1>3 DEF HTTP
<1>6. SameCalls(y, h)
  BY <1>2 DEF HTTP, SameCalls
<1> QED
  BY <1>1, <1>4, <1>5, <1>6

LEMMA UnmadeTyped ==
  ASSUME NEW h \in HTTP
  PROVE  LET y == Unmade(h) IN
           /\ y \in HTTP /\ SameCalls(y, h)
           /\ \A t \in Slots : y.slots[t] = IF h.slots[t].status = "made" THEN Free ELSE h.slots[t]
<1> DEFINE S == [t \in Slots |-> IF h.slots[t].status = "made" THEN Free ELSE h.slots[t]]
<1> DEFINE y == Unmade(h)
<1>1. Free \in [kind : Kinds, status : {"free", "made", "opening", "open", "aborting", "deleting"}]
  BY DEF Free, Kinds
<1>2. S \in [Slots -> [kind : Kinds, status :
                {"free", "made", "opening", "open", "aborting", "deleting"}]]
  BY <1>1 DEF HTTP
<1>3. y = [h EXCEPT !.slots = S]
  BY DEF Unmade, HTTP
<1>4. \A t \in Slots : S[t] = IF h.slots[t].status = "made" THEN Free ELSE h.slots[t]
  OBVIOUS
<1> HIDE DEF S
<1>5. y \in HTTP /\ y.slots = S
  BY ZenonT(60), <1>2, <1>3 DEF HTTP
<1>6. SameCalls(y, h)
  BY <1>3 DEF HTTP, SameCalls
<1> QED
  BY <1>4, <1>5, <1>6

LEMMA LostTyped ==
  ASSUME NEW h \in HTTP, NEW s \in Sources, NEW status \in {"retrying", "open", "gone"}
  PROVE  LET y == [h EXCEPT !.lost[s] = status] IN
           y \in HTTP /\ SameCalls(y, h) /\ y.slots = h.slots
<1> DEFINE L == [h.lost EXCEPT ![s] = status]
<1> DEFINE y == [h EXCEPT !.lost = L]
<1>1. L \in [Sources -> {"none", "retrying", "open", "gone"}]
  BY DEF HTTP
<1>2. [h EXCEPT !.lost[s] = status] = y
  OBVIOUS
<1> HIDE DEF L
<1>3. y \in HTTP /\ SameCalls(y, h) /\ y.slots = h.slots
  <2>1. y \in HTTP
    BY ZenonT(60), <1>1 DEF HTTP
  <2>2. SameCalls(y, h) /\ y.slots = h.slots
    BY DEF HTTP, SameCalls
  <2> QED
    BY <2>1, <2>2
<1> QED
  BY <1>2, <1>3

\* A source that stops a connection.
LEMMA CutTyped ==
  ASSUME NEW h \in HTTP, NEW s \in Sources
  PROVE  LET y == [h EXCEPT !.lost[s] = "gone", !.cut = @ \/ h.state # "Disconnected"] IN
           /\ y \in HTTP /\ y.cut = (h.cut \/ h.state # "Disconnected") /\ y.slots = h.slots
           /\ y.state = h.state /\ y.started = h.started /\ y.start = h.start
           /\ y.stop = h.stop /\ y.resolved = h.resolved /\ y.transport = h.transport
           /\ y.offer = h.offer /\ y.tried = h.tried /\ y.negotiated = h.negotiated
           /\ y.queue = h.queue /\ y.via = h.via
<1> DEFINE x == [h EXCEPT !.lost[s] = "gone"]
<1> DEFINE cut == h.cut \/ h.state # "Disconnected"
<1> DEFINE y == [x EXCEPT !.cut = cut]
<1>1. x \in HTTP /\ SameCalls(x, h) /\ x.slots = h.slots
  BY LostTyped
<1>2. [h EXCEPT !.lost[s] = "gone", !.cut = @ \/ h.state # "Disconnected"] = y
  BY DEF HTTP
<1>3. cut \in BOOLEAN
  BY DEF HTTP
<1> HIDE DEF x, cut
<1>4. y \in HTTP
  BY ZenonT(60), <1>1, <1>3 DEF HTTP
<1>5. /\ y.cut = cut /\ y.slots = h.slots
      /\ y.state = h.state /\ y.started = h.started /\ y.start = h.start
      /\ y.stop = h.stop /\ y.resolved = h.resolved /\ y.transport = h.transport
      /\ y.offer = h.offer /\ y.tried = h.tried /\ y.negotiated = h.negotiated
      /\ y.queue = h.queue /\ y.via = h.via
  BY <1>1 DEF HTTP, SameCalls
<1> QED
  BY <1>2, <1>4, <1>5 DEF cut

LEMMA ForgetTyped ==
  ASSUME NEW h \in HTTP
  PROVE  LET y == Forget(h) IN
           /\ y \in HTTP /\ y.offer = <<>> /\ y.tried = 0 /\ y.slots = h.slots
           /\ y.state = h.state /\ y.started = h.started /\ y.start = h.start /\ y.stop = h.stop
           /\ y.resolved = h.resolved /\ y.transport = h.transport /\ y.cut = h.cut
           /\ y.queue = h.queue /\ y.via = h.via
<1> DEFINE y == Forget(h)
<1>1. y \in HTTP
  BY ZenonT(60), ConstantTyping DEF Forget, HTTP
<1> QED
  BY <1>1 DEF Forget, HTTP

LEMMA StartFailsTyped ==
  ASSUME NEW h \in HTTP
  PROVE  LET y == StartFails(h) IN
           /\ y \in HTTP /\ y.state = "Disconnected" /\ y.transport = NoSlot
           /\ y.resolved = TRUE /\ y.start = "idle" /\ y.started = h.started
           /\ y.stop = h.stop /\ y.slots = h.slots /\ y.cut = h.cut
           /\ y.tried = 0 /\ y.offer = <<>> /\ y.queue = h.queue
<1> DEFINE f == Forget(h)
<1> DEFINE y == StartFails(h)
<1>1. /\ f \in HTTP /\ f.offer = <<>> /\ f.tried = 0 /\ f.slots = h.slots
      /\ f.started = h.started /\ f.stop = h.stop /\ f.cut = h.cut /\ f.queue = h.queue
  BY ForgetTyped
<1>2. y = [f EXCEPT !.state = "Disconnected", !.transport = NoSlot, !.resolved = TRUE,
                    !.start = "idle"]
  BY DEF StartFails
<1> HIDE DEF f
<1>3. y \in HTTP
  BY ZenonT(60), <1>1, <1>2 DEF HTTP
<1> QED
  BY <1>1, <1>2, <1>3 DEF HTTP

LEMMA ReturnedTyped ==
  ASSUME NEW h \in HTTP
  PROVE  LET y == Returned(h) IN
           /\ y \in HTTP /\ y.state = (IF h.state = "Connecting" THEN "Connected" ELSE h.state)
           /\ y.start = "opened" /\ y.started = h.started /\ y.stop = h.stop
           /\ y.resolved = h.resolved /\ y.transport = h.transport /\ y.cut = h.cut
           /\ y.slots = h.slots /\ y.offer = <<>> /\ y.tried = 0
           /\ y.queue = h.queue /\ y.via = h.via
<1> DEFINE f == Forget(h)
<1> DEFINE y == Returned(h)
<1> DEFINE state == IF h.state = "Connecting" THEN "Connected" ELSE h.state
<1>1. /\ f \in HTTP /\ f.offer = <<>> /\ f.tried = 0 /\ f.slots = h.slots
      /\ f.state = h.state /\ f.started = h.started /\ f.stop = h.stop
      /\ f.resolved = h.resolved /\ f.transport = h.transport /\ f.cut = h.cut
      /\ f.queue = h.queue /\ f.via = h.via
  BY ForgetTyped
<1>2. y = [f EXCEPT !.start = "opened", !.state = state]
  BY <1>1 DEF Returned, HTTP
<1>3. state \in {"Disconnected", "Connecting", "Connected", "Disconnecting"}
  BY DEF HTTP
<1>4. "opened" \in Starting \cup {"idle", "opened", "stopping"}
  OBVIOUS
<1> HIDE DEF f, state
<1> DEFINE g == [f EXCEPT !.start = "opened"]
<1>5. g \in HTTP
  BY ZenonT(60), <1>1, <1>4 DEF HTTP
<1>6. y = [g EXCEPT !.state = state]
  BY <1>1, <1>2 DEF HTTP
<1> HIDE DEF g, y
<1>7. y \in HTTP
  BY ZenonT(60), <1>3, <1>5, <1>6 DEF HTTP
<1> USE DEF y
<1>8. /\ y.state = state /\ y.start = "opened" /\ y.started = h.started /\ y.stop = h.stop
      /\ y.resolved = h.resolved /\ y.transport = h.transport /\ y.cut = h.cut
      /\ y.slots = h.slots /\ y.offer = <<>> /\ y.tried = 0
      /\ y.queue = h.queue /\ y.via = h.via
  BY <1>1, <1>2 DEF HTTP
<1> QED
  BY <1>7, <1>8 DEF state

LEMMA StopQueueTyped ==
  ASSUME NEW h \in HTTP
  PROVE  LET y == StopQueue(h) IN
           /\ y \in HTTP /\ y.queue = NoSend
           /\ y.state = h.state /\ y.started = h.started /\ y.start = h.start /\ y.stop = h.stop
           /\ y.resolved = h.resolved /\ y.transport = h.transport /\ y.cut = h.cut
           /\ y.slots = h.slots /\ y.offer = h.offer /\ y.tried = h.tried
<1> DEFINE y == StopQueue(h)
<1>1. CASE h.queue = NoSend
  BY <1>1 DEF StopQueue
<1>2. CASE h.queue # NoSend
  <2> DEFINE Q == h.stoppedQ \cup {h.queue}
  <2>1. y = [h EXCEPT !.stoppedQ = Q, !.queue = NoSend]
    BY <1>2 DEF StopQueue
  <2>2. Q \in SUBSET Sends
    BY <1>2 DEF HTTP
  <2> HIDE DEF Q
  <2>3. y \in HTTP
    BY ZenonT(60), <2>1, <2>2 DEF HTTP
  <2> QED
    BY <2>1, <2>3 DEF HTTP
<1> QED
  BY <1>1, <1>2

LEMMA StartCallKeepsCut ==
  ASSUME NEW h \in HTTP
  PROVE  StartCall(h).cut = h.cut
BY DEF StartCall, Construct, HTTP

LEMMA StopConnectionKeepsCut ==
  ASSUME NEW h \in HTTP, NEW y \in StopConnection(h)
  PROVE  y.cut = h.cut
<1> DEFINE x == [h EXCEPT !.transport = NoSlot]
<1> DEFINE w == [x EXCEPT !.state = "Disconnected", !.started = FALSE,
                          !.resolved = IF x.state = "Disconnecting" THEN TRUE ELSE @]
<1> DEFINE q == StopQueue(w)
<1>1. x \in HTTP /\ x.cut = h.cut
  <2>1. x \in HTTP
    BY ZenonT(60) DEF HTTP
  <2> QED
    BY <2>1 DEF HTTP
<1>2. y = x \/ y = q \/ y = StartCall(q)
  BY DEF StopConnection, CloseAndTell
<1> HIDE DEF x
<1>3. w \in HTTP /\ w.cut = x.cut
  <2> DEFINE resolved == IF x.state = "Disconnecting" THEN TRUE ELSE x.resolved
  <2>1. resolved \in BOOLEAN
    BY <1>1 DEF HTTP
  <2> DEFINE z == [x EXCEPT !.state = "Disconnected", !.started = FALSE]
  <2>2. z \in HTTP /\ z.cut = x.cut
    <3>1. z \in HTTP
      BY ZenonT(60), <1>1 DEF HTTP
    <3> QED
      BY <1>1, <3>1 DEF HTTP
  <2>3. w = [z EXCEPT !.resolved = resolved]
    BY <1>1 DEF HTTP
  <2> HIDE DEF resolved, z, w
  <2>4. w \in HTTP
    BY ZenonT(60), <2>1, <2>2, <2>3 DEF HTTP
  <2> QED
    BY <2>2, <2>3, <2>4 DEF HTTP
<1> HIDE DEF w
<1>4. q \in HTTP /\ q.cut = w.cut
  BY <1>3, StopQueueTyped
<1> HIDE DEF q
<1>5. StartCall(q).cut = q.cut
  BY <1>4, StartCallKeepsCut
<1> QED
  BY <1>1, <1>2, <1>3, <1>4, <1>5

LEMMA EmptyFacts ==
  ASSUME NEW h, Empty(h)
  PROVE  /\ Status(h) = "free"
         /\ h.transport = NoSlot => Own(h)
BY DEF Empty, Alive, Status, Shown, Own

LEMMA StatusOf ==
  ASSUME NEW h \in HTTP, Own(h), NEW t \in Slots, Alive(h, t)
  PROVE  /\ Status(h) = h.slots[t].status /\ Status(h) # "free"
         /\ h.transport \in {t, NoSlot} /\ (Forgets \/ h.transport = t)
<1> DEFINE u == CHOOSE s \in Slots : h.slots[s].status # "free"
<1>1. u \in Slots /\ h.slots[u].status # "free"
  BY DEF Alive
<1>2. u = t
  BY <1>1 DEF Own, Alive
<1>3. Status(h) = h.slots[u].status
  BY DEF Status, Shown, Alive
<1>4. h.transport \in {t, NoSlot} /\ (Forgets \/ h.transport = t)
  BY DEF Own, HTTP
<1> QED
  BY <1>1, <1>2, <1>3, <1>4

LEMMA StatusFacts ==
  ASSUME NEW h \in HTTP, Own(h)
  PROVE  /\ Status(h) # "free" => \E t \in Slots : Alive(h, t) /\ h.slots[t].status = Status(h)
         /\ Status(h) = "free" => Empty(h) /\ h.transport = NoSlot
         /\ h.transport # NoSlot => h.transport \in Slots /\ Alive(h, h.transport)
<1>1. Status(h) # "free" => \E t \in Slots : Alive(h, t)
  BY DEF Status, Shown, Alive
<1>2. h.transport # NoSlot => h.transport \in Slots /\ Alive(h, h.transport)
  BY DEF Own, HTTP
<1>3. Status(h) = "free" => Empty(h) /\ h.transport = NoSlot
  BY <1>2, StatusOf DEF Empty
<1> QED
  BY <1>1, <1>2, <1>3, StatusOf

\* Connections with the same slots and transport.
LEMMA OwnFrame ==
  ASSUME NEW h, NEW y, y.slots = h.slots, y.transport = h.transport, Own(h)
  PROVE  Own(y) /\ Status(y) = Status(h) /\ (Bare(y) <=> Bare(h))
BY DEF Own, Alive, Status, Bare

LEMMA DeadIsEmpty ==
  ASSUME NEW h \in HTTP, Own(h), NEW t \in Slots, Alive(h, t)
  PROVE  LET y == Dead(h, t) IN
           /\ y \in HTTP /\ Empty(y)
           /\ y.state = h.state /\ y.started = h.started /\ y.start = h.start
           /\ y.stop = h.stop /\ y.resolved = h.resolved /\ y.transport = h.transport
           /\ y.offer = h.offer /\ y.tried = h.tried /\ y.negotiated = h.negotiated
           /\ y.queue = h.queue /\ y.via = h.via
<1> DEFINE y == Dead(h, t)
<1>1. /\ y \in HTTP /\ SameCalls(y, h)
      /\ y.slots[t] = Free /\ \A s \in Slots : s # t => y.slots[s] = h.slots[s]
  BY DeadTyped
<1> HIDE DEF y
<1>2. Empty(y)
  BY <1>1 DEF Empty, Alive, Own, Free
<1> QED
  BY <1>1, <1>2 DEF y, SameCalls

LEMMA BecomeKeepsOwn ==
  ASSUME NEW h \in HTTP, Own(h), NEW t \in Slots, Alive(h, t),
         NEW status \in {"opening", "open", "aborting", "deleting"}
  PROVE  LET y == Become(h, t, status) IN
           /\ y \in HTTP /\ Own(y) /\ Status(y) = status
           /\ y.state = h.state /\ y.started = h.started /\ y.start = h.start
           /\ y.stop = h.stop /\ y.resolved = h.resolved /\ y.transport = h.transport
           /\ y.offer = h.offer /\ y.tried = h.tried /\ y.negotiated = h.negotiated
           /\ y.queue = h.queue /\ y.via = h.via
<1> DEFINE y == Become(h, t, status)
<1>1. /\ y \in HTTP /\ SameCalls(y, h)
      /\ y.slots[t].status = status /\ \A s \in Slots : s # t => y.slots[s] = h.slots[s]
  <2>1. status \in Statuses
    BY DEF Statuses
  <2> QED
    BY ZenonT(30), <2>1, BecomeTyped
<1> HIDE DEF y
<1>2. y.transport = h.transport
  BY <1>1 DEF SameCalls
<1>3. \A s \in Slots : Alive(y, s) <=> s = t
  BY <1>1 DEF Own, Alive
<1>4. Own(y)
  BY <1>2, <1>3, StatusOf DEF Own
<1>5. Alive(y, t)
  BY <1>3
<1>6. Status(y) = status
  BY <1>1, <1>4, <1>5, StatusOf
<1> QED
  BY <1>1, <1>4, <1>6 DEF y, SameCalls

LEMMA UnmadeIsEmpty ==
  ASSUME NEW h \in HTTP, Own(h), Status(h) \in {"free", "made"}
  PROVE  LET y == Unmade(h) IN
           /\ y \in HTTP /\ Empty(y)
           /\ y.started = h.started /\ y.stop = h.stop /\ y.queue = h.queue
<1> DEFINE y == Unmade(h)
<1>1. /\ y \in HTTP /\ y.started = h.started /\ y.stop = h.stop /\ y.queue = h.queue
      /\ \A t \in Slots : y.slots[t] = IF h.slots[t].status = "made" THEN Free ELSE h.slots[t]
  BY UnmadeTyped DEF SameCalls
<1>2. \A t \in Slots : h.slots[t].status \in {"free", "made"}
  BY StatusOf DEF Alive
<1>3. \A t \in Slots : y.slots[t].status = "free"
  <2> HIDE DEF y
  <2> QED
    BY <1>1, <1>2 DEF Free
<1> QED
  BY <1>1, <1>3 DEF Empty, Alive

--------------------------------------------------------------------------------
(* What the operators on connections keep                                      *)

\* A change of other fields than those the invariant reads.
LEMMA FieldsKeep ==
  ASSUME NEW h, HttpInv(h), NEW y \in HTTP,
         y.state = h.state, y.started = h.started, y.start = h.start, y.stop = h.stop,
         y.resolved = h.resolved, y.transport = h.transport, y.slots = h.slots,
         y.offer = h.offer, y.tried = h.tried, y.queue = h.queue, y.via = h.via
  PROVE  HttpInv(y) /\ Conn(y) = Conn(h)
<1>1. Own(y) /\ Status(y) = Status(h) /\ (Bare(y) <=> Bare(h))
  BY OwnFrame DEF HttpInv
<1> QED
  BY <1>1 DEF HttpInv, TriedInv, StartInv, StopInv, QueueInv, Conn

LEMMA StartFailsKeeps ==
  ASSUME NEW h \in HTTP, Empty(h), ~h.started,
         h.stop \in {"idle", "start", "after", "promise"}, h.queue = NoSend
  PROVE  HttpInv(StartFails(h)) /\ Conn(StartFails(h)) = "disconnected"
<1> DEFINE y == StartFails(h)
<1>1. /\ y \in HTTP /\ y.state = "Disconnected" /\ y.transport = NoSlot /\ y.resolved = TRUE
      /\ y.start = "idle" /\ ~y.started /\ y.stop = h.stop /\ y.slots = h.slots
      /\ y.tried = 0 /\ y.offer = <<>> /\ y.queue = NoSend
  BY ZenonT(30), StartFailsTyped
<1>2. Own(y) /\ Status(y) = "free"
  BY <1>1, EmptyFacts DEF Empty, Alive
<1> HIDE DEF y
<1>3. HttpInv(y) /\ Conn(y) = "disconnected"
  BY <1>1, <1>2, ConstantTyping DEF HttpInv, TriedInv, StartInv, StopInv, QueueInv, Conn, Starting
<1> QED
  BY <1>3 DEF y

LEMMA ConstructTyped ==
  ASSUME NEW h \in HTTP, Room(h), NEW kind \in Kinds
  PROVE  LET y == Construct(h, kind) IN
           /\ y \in HTTP
           /\ y.start = (IF h.negotiated THEN "connect" ELSE "renegotiate")
           /\ y.state = h.state /\ y.started = h.started /\ y.resolved = h.resolved
           /\ y.stop = h.stop /\ y.tried = h.tried /\ y.offer = h.offer
           /\ y.queue = h.queue /\ y.cut = h.cut
           /\ \E t \in Slots :
                /\ y.transport = t
                /\ y.slots[t].status = (IF h.negotiated THEN "opening" ELSE "made")
                /\ \A s \in Slots : s # t => y.slots[s] = h.slots[s]
<1> DEFINE y == Construct(h, kind)
<1> DEFINE t == Min({s \in Slots : ~Alive(h, s)})
<1> DEFINE status == IF h.negotiated THEN "opening" ELSE "made"
<1> DEFINE start == IF h.negotiated THEN "connect" ELSE "renegotiate"
<1>1. t \in Slots
  <2> DEFINE S == {s \in Slots : ~Alive(h, s)}
  <2>1. S \subseteq Nat /\ S # {} /\ S \subseteq Slots
    BY ConstantTyping DEF Room
  <2> HIDE DEF S
  <2>2. Min(S) \in S
    BY <2>1, MinOfNaturals
  <2> QED
    BY <2>1, <2>2 DEF S
<1>2. y = [h EXCEPT !.transport = t, !.slots[t] = [kind |-> kind, status |-> status],
                    !.start = start]
  BY DEF Construct
<1> HIDE DEF t
<1> DEFINE S == [h.slots EXCEPT ![t] = [kind |-> kind, status |-> status]]
<1>3. /\ S \in [Slots -> [kind : Kinds, status :
                          {"free", "made", "opening", "open", "aborting", "deleting"}]]
      /\ S[t].status = status /\ \A s \in Slots : s # t => S[s] = h.slots[s]
      /\ start \in Starting
  BY <1>1 DEF HTTP, Starting
<1>4. y = [h EXCEPT !.transport = t, !.slots = S, !.start = start]
  BY <1>2
<1> HIDE DEF S, start
<1> DEFINE z == [h EXCEPT !.transport = t, !.slots = S]
<1>5. z \in HTTP
  BY ZenonT(60), <1>1, <1>3 DEF HTTP
<1>6. y = [z EXCEPT !.start = start]
  BY <1>4
<1> HIDE DEF z
<1>7. ASSUME NEW x \in HTTP, NEW at \in Starting
       PROVE  [x EXCEPT !.start = at] \in HTTP
  BY ZenonT(60) DEF HTTP
<1>8. y \in HTTP
  BY <1>3, <1>5, <1>6, <1>7
<1>9. /\ y \in HTTP /\ y.transport = t /\ y.slots = S /\ y.start = start
      /\ y.state = h.state /\ y.started = h.started /\ y.resolved = h.resolved
      /\ y.stop = h.stop /\ y.tried = h.tried /\ y.offer = h.offer
      /\ y.queue = h.queue /\ y.cut = h.cut
  BY ZenonT(60), <1>4, <1>8 DEF HTTP
<1> HIDE DEF y, status
<1>10. \E u \in Slots :
         /\ y.transport = u /\ y.slots[u].status = status
         /\ \A s \in Slots : s # u => y.slots[s] = h.slots[s]
  BY <1>1, <1>3, <1>9
<1> QED
  BY <1>9, <1>10 DEF y, status, start

LEMMA ConstructKeeps ==
  ASSUME NEW h \in HTTP, Empty(h), h.tried <= Len(h.offer), h.state = "Connecting",
         ~h.started, h.resolved, h.queue = NoSend,
         h.stop \in {"idle", "promise"} \/ (Forgets /\ h.negotiated /\ h.stop = "after"),
         NEW kind \in Kinds
  PROVE  /\ HttpInv(Construct(h, kind)) /\ Conn(Construct(h, kind)) = "connecting"
         /\ Construct(h, kind).stop = h.stop
<1> DEFINE y == Construct(h, kind)
<1> DEFINE status == IF h.negotiated THEN "opening" ELSE "made"
<1>1. Room(h)
  BY ConstantTyping DEF Empty, Room
<1>2. /\ y \in HTTP
      /\ y.start = (IF h.negotiated THEN "connect" ELSE "renegotiate")
      /\ y.state = h.state /\ y.started = h.started /\ y.resolved = h.resolved
      /\ y.stop = h.stop /\ y.tried = h.tried /\ y.offer = h.offer
      /\ y.queue = h.queue /\ y.cut = h.cut
      /\ \E t \in Slots : /\ y.transport = t /\ y.slots[t].status = status
                          /\ \A s \in Slots : s # t => y.slots[s] = h.slots[s]
  BY <1>1, ConstructTyped
<1> HIDE DEF y
<1>3. PICK t \in Slots : /\ y.transport = t /\ y.slots[t].status = status
                        /\ \A s \in Slots : s # t => y.slots[s] = h.slots[s]
  BY <1>2
<1>4. Own(y)
  BY <1>3 DEF Own, Empty, Alive
<1>5. Status(y) = status
  <2>1. Alive(y, t)
    BY <1>3 DEF Alive
  <2> QED
    BY <1>2, <1>3, <1>4, <2>1, StatusOf
<1>6. t # NoSlot
  BY ConstantTyping
<1>7. HttpInv(y) /\ Conn(y) = "connecting" /\ y.stop = h.stop
  BY <1>2, <1>3, <1>4, <1>5, <1>6
  DEF HttpInv, TriedInv, StartInv, StopInv, QueueInv, Conn, Starting
<1> QED
  BY <1>7 DEF y

LEMMA LeftToTryFacts ==
  ASSUME NEW h \in HTTP, LeftToTry(h) # {}
  PROVE  LET i == Min(LeftToTry(h)) IN i \in Nat /\ i <= Len(h.offer) /\ h.offer[i] \in Kinds
<1> DEFINE i == Min(LeftToTry(h))
<1>1. Len(h.offer) \in Nat /\ h.offer \in Seq(Kinds) /\ h.tried \in Nat
  BY ConstantTyping DEF HTTP
<1>2. LeftToTry(h) \subseteq Nat
  BY <1>1 DEF LeftToTry
<1>3. i \in h.tried + 1 .. Len(h.offer)
  BY <1>2, MinOfNaturals DEF LeftToTry
<1> HIDE DEF i
<1>4. i \in Nat /\ i <= Len(h.offer) /\ h.offer[i] \in Kinds
  BY <1>1, <1>3
<1> QED
  BY <1>4 DEF i

LEMMA TryNextKeeps ==
  ASSUME NEW h \in HTTP, Empty(h), h.tried <= Len(h.offer), h.state = "Connecting",
         ~h.started, h.resolved, h.stop \in {"idle", "promise"}, h.queue = NoSend
  PROVE  HttpInv(TryNext(h)) /\ Conn(TryNext(h)) \in {"connecting", "disconnected"}
<1>1. CASE LeftToTry(h) = {}
  BY <1>1, StartFailsKeeps DEF TryNext
<1>2. CASE LeftToTry(h) # {}
  <2> DEFINE i == Min(LeftToTry(h))
  <2> DEFINE x == [h EXCEPT !.tried = i]
  <2>1. i \in Nat /\ i <= Len(h.offer) /\ h.offer[i] \in Kinds
    BY <1>2, LeftToTryFacts
  <2>2. TryNext(h) = Construct(x, h.offer[i])
    BY <1>2 DEF TryNext
  <2> HIDE DEF i
  <2>3. /\ x \in HTTP /\ x.tried = i /\ x.offer = h.offer /\ x.slots = h.slots
        /\ x.state = "Connecting" /\ ~x.started /\ x.resolved /\ x.stop = h.stop
        /\ x.queue = NoSend
    BY <2>1 DEF HTTP
  <2>4. Empty(x)
    BY <2>3 DEF Empty, Alive
  <2> HIDE DEF x
  <2> QED
    BY <2>1, <2>2, <2>3, <2>4, ConstructKeeps
<1> QED
  BY <1>1, <1>2

LEMMA StartCallKeeps ==
  ASSUME NEW h \in HTTP, Empty(h), h.transport = NoSlot, ~h.started, h.resolved,
         h.stop \in {"idle", "after", "promise"}, h.stop = "after" => ~SkipNegotiation \/ RestartOnClose,
         h.queue = NoSend, h.tried = 0
  PROVE  /\ HttpInv(StartCall(h)) /\ Conn(StartCall(h)) = "connecting"
         /\ StartCall(h).stop = h.stop
<1> DEFINE x == [h EXCEPT !.state = "Connecting", !.negotiated = SkipNegotiation]
<1>1. /\ x \in HTTP /\ x.state = "Connecting" /\ x.offer = h.offer /\ x.tried = 0
      /\ x.slots = h.slots /\ x.transport = NoSlot /\ ~x.started /\ x.resolved
      /\ x.stop = h.stop /\ x.queue = NoSend /\ x.negotiated = SkipNegotiation
  <2>1. SkipNegotiation \in BOOLEAN
    BY HttpAssumption
  <2>2. x \in HTTP
    BY ZenonT(150), <2>1 DEF HTTP
  <2> QED
    BY <2>2 DEF HTTP
<1>2. Empty(x) /\ x.tried <= Len(x.offer)
  BY <1>1, ConstantTyping DEF Empty, Alive, HTTP
<1>3. StartCall(h) = IF SkipNegotiation THEN Construct(x, "ws") ELSE [x EXCEPT !.start = "negotiate"]
  BY DEF StartCall
<1> HIDE DEF x
<1>4. CASE SkipNegotiation
  <2>1. "ws" \in Kinds
    BY DEF Kinds
  <2> QED
    BY <1>1, <1>2, <1>3, <1>4, <2>1, ConstructKeeps DEF Forgets
<1>5. CASE ~SkipNegotiation
  <2> DEFINE y == [x EXCEPT !.start = "negotiate"]
  <2>1. /\ y \in HTTP /\ y.start = "negotiate" /\ y.state = "Connecting" /\ y.offer = x.offer
        /\ y.tried = 0 /\ y.slots = x.slots /\ y.transport = NoSlot /\ ~y.started
        /\ y.resolved = TRUE /\ y.stop = h.stop /\ y.queue = NoSend
    BY <1>1 DEF HTTP, Starting
  <2>2. Own(y) /\ Status(y) = "free"
    BY <1>2, <2>1, EmptyFacts DEF Empty, Alive
  <2> HIDE DEF y
  <2>3. HttpInv(y) /\ Conn(y) = "connecting" /\ y.stop = h.stop
    BY <1>1, <1>2, <2>1, <2>2, ConstantTyping
    DEF HttpInv, TriedInv, StartInv, StopInv, QueueInv, Conn, Starting
  <2> QED
    BY <1>3, <1>5, <2>1, <2>3 DEF y
<1> QED
  BY <1>4, <1>5

\* What a transport that has closed leaves behind, and what stop() then finds: the
\* connection is disconnected, or the onclose callback has started it again.
LEMMA CloseAndTellFacts ==
  ASSUME NEW h \in HTTP, Empty(h), h.transport = NoSlot,
         TriedInv(h), h.resolved \/ h.state = "Disconnecting",
         h.started => h.start = "idle" /\ h.stop \in {"idle", "after", "promise"},
         h.stop \in {"idle", "start", "after", "promise"},
         NEW y \in CloseAndTell(h)
  PROVE  \/ /\ y \in HTTP /\ Empty(y) /\ y.state = "Disconnected" /\ y.started = FALSE
            /\ y.resolved = TRUE /\ y.transport = NoSlot /\ y.start = h.start /\ y.stop = h.stop
            /\ y.tried = h.tried /\ y.offer = h.offer /\ y.queue = NoSend
         \/ h.started /\ HttpInv(y) /\ Conn(y) = "connecting" /\ y.stop = h.stop
<1> DEFINE w == [h EXCEPT !.state = "Disconnected", !.started = FALSE, !.resolved = TRUE]
<1> DEFINE x == StopQueue(w)
<1>1. w = [h EXCEPT !.state = "Disconnected", !.started = FALSE,
                    !.resolved = IF h.state = "Disconnecting" THEN TRUE ELSE @]
  BY DEF HTTP
<1>2. /\ w \in HTTP /\ w.state = "Disconnected" /\ w.started = FALSE /\ w.resolved = TRUE
      /\ w.transport = NoSlot /\ w.start = h.start /\ w.stop = h.stop /\ w.slots = h.slots
      /\ w.tried = h.tried /\ w.offer = h.offer
  BY ZenonT(60) DEF HTTP
<1>3. y = x \/ (h.started /\ RestartOnClose /\ y = StartCall(x))
  BY <1>1 DEF CloseAndTell
<1> HIDE DEF w
<1>4. /\ x \in HTTP /\ x.state = "Disconnected" /\ x.started = FALSE /\ x.resolved = TRUE
      /\ x.transport = NoSlot /\ x.start = h.start /\ x.stop = h.stop /\ x.slots = h.slots
      /\ x.tried = h.tried /\ x.offer = h.offer /\ x.queue = NoSend
  BY ZenonT(150), <1>2 DEF StopQueue, HTTP
<1>5. Empty(x)
  BY <1>4 DEF Empty, Alive
<1> HIDE DEF x
<1>6. CASE y = x
  BY <1>4, <1>5, <1>6
<1>7. CASE h.started /\ RestartOnClose /\ y = StartCall(x)
  <2>1. h.tried = 0 /\ x.tried = 0
    BY <1>4, <1>7 DEF TriedInv
  <2> QED
    BY <1>4, <1>5, <1>7, <2>1, StartCallKeeps
<1> QED
  BY <1>3, <1>6, <1>7

\* Sends that come to another status change nothing else.
LEMMA MarkKeeps ==
  ASSUME NEW h, HttpInv(h), NEW S,
         NEW status \in {"new", "buffered", "flying", "sent", "failed"}
  PROVE  HttpInv(Mark(h, S, status)) /\ Conn(Mark(h, S, status)) = Conn(h)
<1> DEFINE y == Mark(h, S, status)
<1>1. h \in HTTP
  BY DEF HttpInv
<1>2. /\ y \in HTTP /\ y.state = h.state /\ y.started = h.started /\ y.start = h.start
      /\ y.stop = h.stop /\ y.resolved = h.resolved /\ y.transport = h.transport
      /\ y.slots = h.slots /\ y.offer = h.offer /\ y.tried = h.tried
      /\ y.queue = h.queue /\ y.via = h.via
  BY <1>1 DEF Mark, HTTP
<1> QED
  BY <1>2, FieldsKeep

\* The connection's transport closes once it is open, stop() being at `stop' by then.
LEMMA ClosesKeep ==
  ASSUME HttpInv(http), NEW t \in Slots, Alive(http, t),
         http.start \notin Starting,
         NEW stop \in {"idle", "start", "after", "promise"}, http.started => stop # "start",
         NEW y \in StopConnection(Dead([http EXCEPT !.stop = stop], t))
  PROVE  Good(y) /\ y.stop = stop
<1> DEFINE h == [http EXCEPT !.stop = stop]
<1> DEFINE d == Dead(h, t)
<1> DEFINE x == [d EXCEPT !.transport = NoSlot]
<1>1. /\ h \in HTTP /\ h.stop = stop /\ h.state = http.state /\ h.started = http.started
      /\ h.start = http.start /\ h.resolved = http.resolved /\ h.slots = http.slots /\ h.offer = http.offer /\ h.tried = http.tried
  BY DEF HttpInv, HTTP
<1>2. Own(h) /\ Alive(h, t)
  BY <1>1, OwnFrame DEF HttpInv, Alive, HTTP
<1> HIDE DEF h
<1>3. /\ d \in HTTP /\ Empty(d) /\ d.state = http.state /\ d.started = http.started
      /\ d.start = http.start /\ d.stop = stop /\ d.resolved = http.resolved
      /\ d.offer = http.offer /\ d.tried = http.tried
  BY <1>1, <1>2, DeadIsEmpty
<1> HIDE DEF d
<1>4. /\ x \in HTTP /\ x.state = http.state /\ x.started = http.started /\ x.slots = d.slots
      /\ x.start = http.start /\ x.stop = stop /\ x.resolved = http.resolved
      /\ x.transport = NoSlot /\ x.offer = http.offer /\ x.tried = http.tried
  BY <1>3 DEF HTTP
<1>5. Empty(x)
  BY <1>3, <1>4 DEF Empty, Alive
<1>6. /\ http.state \in {"Connected", "Disconnecting"} /\ TriedInv(http) /\ TriedInv(x)
      /\ http.started => http.start = "idle"
      /\ http.resolved \/ http.state = "Disconnecting"
      /\ ~http.started => http.start # "idle"
  <2>1. Status(http) # "free"
    BY StatusOf DEF HttpInv
  <2>2. TriedInv(http) /\ TriedInv(x)
    BY <1>4 DEF HttpInv, TriedInv
  <2> HIDE DEF x
  <2> QED
    BY <2>1, <2>2 DEF HttpInv, HTTP, StartInv, StopInv, Starting
<1>7. y \in CloseAndTell(x)
  <2>1. y \in StopConnection(d)
    BY DEF d, h
  <2> QED
    BY <2>1, <1>4, <1>6 DEF StopConnection
<1> HIDE DEF x
<1>8. \/ /\ y \in HTTP /\ Empty(y) /\ y.state = "Disconnected" /\ y.started = FALSE
         /\ y.resolved = TRUE /\ y.transport = NoSlot /\ y.start = http.start /\ y.stop = stop
         /\ y.tried = http.tried /\ y.offer = http.offer /\ y.queue = NoSend
      \/ http.started /\ HttpInv(y) /\ Conn(y) = "connecting" /\ y.stop = stop
  BY <1>4, <1>5, <1>6, <1>7, CloseAndTellFacts
<1>9. CASE http.started /\ HttpInv(y) /\ Conn(y) = "connecting" /\ y.stop = stop
  BY <1>6, <1>9 DEF Good, Allowed, Conn
<1>10. CASE /\ y \in HTTP /\ Empty(y) /\ y.state = "Disconnected" /\ y.started = FALSE
            /\ y.resolved = TRUE /\ y.transport = NoSlot /\ y.start = http.start /\ y.stop = stop
            /\ y.tried = http.tried /\ y.offer = http.offer /\ y.queue = NoSend
  <2>1. Own(y) /\ Status(y) = "free"
    BY <1>10, EmptyFacts
  <2>2. HttpInv(y)
    BY <1>6, <1>10, <2>1 DEF HttpInv, TriedInv, StartInv, StopInv, QueueInv, Starting
  <2>3. Allowed(Conn(http), Conn(y))
    BY <1>6, <1>10 DEF Allowed, Conn
  <2> QED
    BY <1>10, <2>2, <2>3 DEF Good
<1> QED
  BY <1>8, <1>9, <1>10

--------------------------------------------------------------------------------
(* The steps of start() and stop()                                             *)

LEMMA OpenedIsGood ==
  ASSUME HttpInv(http), Opened
  PROVE  Good(http')
<1>1. http \in HTTP
  BY DEF HttpInv
<1>2. /\ http' \in HTTP /\ http'.state = http.state /\ http'.stop = http.stop
      /\ http'.resolved = http.resolved /\ http'.transport = http.transport
      /\ http'.slots = http.slots /\ http'.tried = http.tried /\ http'.offer = http.offer
      /\ http'.queue = http.queue /\ http'.via = http.via
      /\ http.state = "Disconnecting" => http'.start = "stopping" /\ http'.started = http.started
      /\ http.state = "Connected" => http'.start = "idle" /\ http'.started = TRUE
      /\ http.state \notin {"Connected", "Disconnecting"} =>
           http'.start = "idle" /\ http'.started = http.started
  BY ZenonT(60), <1>1 DEF Opened, HTTP, Starting
<1>3. http.start = "opened"
  BY DEF Opened
<1>4. http.state \in {"Disconnected", "Connected", "Disconnecting"} /\ ~http.started
  BY <1>1, <1>3 DEF HttpInv, HTTP, StartInv, Starting
<1>5. Own(http') /\ Status(http') = Status(http) /\ (Bare(http') <=> Bare(http))
  BY <1>2, OwnFrame DEF HttpInv
<1>6. HttpInv(http')
  BY <1>2, <1>3, <1>4, <1>5 DEF HttpInv, TriedInv, StartInv, StopInv, QueueInv, Starting
<1>7. Allowed(Conn(http), Conn(http'))
  BY <1>2, <1>3, <1>4 DEF Allowed, Conn
<1> QED
  BY <1>6, <1>7 DEF Good

LEMMA StoppedInStartIsGood ==
  ASSUME HttpInv(http), StoppedInStart
  PROVE  Good(http')
<1>1. http \in HTTP
  BY DEF HttpInv
<1>2. /\ http' \in HTTP /\ http'.state = http.state /\ http'.stop = http.stop
      /\ http'.resolved = http.resolved /\ http'.transport = http.transport
      /\ http'.slots = http.slots /\ http'.tried = http.tried /\ http'.offer = http.offer
      /\ http'.queue = http.queue /\ http'.via = http.via
      /\ http'.start = "idle" /\ http'.started = http.started
  BY <1>1 DEF StoppedInStart, HTTP
<1>3. http.start = "stopping" /\ http.state = "Disconnected" /\ ~http.started
  BY <1>1 DEF StoppedInStart, HttpInv, HTTP, StartInv, StopInv, Starting
<1>4. Own(http') /\ Status(http') = Status(http) /\ (Bare(http') <=> Bare(http))
  BY <1>2, OwnFrame DEF HttpInv
<1>5. HttpInv(http')
  BY <1>2, <1>3, <1>4 DEF HttpInv, TriedInv, StartInv, StopInv, QueueInv, Starting
<1>6. Allowed(Conn(http), Conn(http'))
  BY <1>2, <1>3 DEF Allowed, Conn
<1> QED
  BY <1>5, <1>6 DEF Good

\* stop() goes on, once it has nothing to stop; where there is none to tell of the end, it
\* goes on to wait for that.
LEMMA StopGoesOn ==
  ASSUME HttpInv(http), http.stop \in {"start", "after", "promise"}, NEW stop \in {"idle", "promise"},
         \/ http.state # "Disconnecting"
         \/ stop = "promise" /\ http.start \notin Starting /\ http.transport = NoSlot,
         http' = [http EXCEPT !.stop = stop]
  PROVE  Good(http')
<1>1. http \in HTTP
  BY DEF HttpInv
<1>2. /\ http' \in HTTP /\ http'.state = http.state /\ http'.stop = stop
      /\ http'.resolved = http.resolved /\ http'.transport = http.transport
      /\ http'.slots = http.slots /\ http'.tried = http.tried /\ http'.offer = http.offer
      /\ http'.queue = http.queue /\ http'.via = http.via
      /\ http'.start = http.start /\ http'.started = http.started
  BY <1>1 DEF HTTP
<1>3. Own(http') /\ Status(http') = Status(http) /\ (Bare(http') <=> Bare(http))
  BY <1>2, OwnFrame DEF HttpInv
<1>4. HttpInv(http')
  BY <1>2, <1>3 DEF HttpInv, TriedInv, StartInv, StopInv, QueueInv, Starting
<1>5. Allowed(Conn(http), Conn(http'))
  BY <1>2 DEF Allowed, Conn
<1> QED
  BY <1>4, <1>5 DEF Good

LEMMA StopTransportIsGood ==
  ASSUME HttpInv(http), StopTransport
  PROVE  Good(http')
<1> DEFINE t == http.transport
<1>1. http \in HTTP /\ http.stop = "start" /\ http.start \notin Starting
  BY DEF HttpInv, StopTransport
<1>2. http.state \in {"Disconnecting", "Disconnected"}
  BY <1>1 DEF HttpInv, StopInv
<1>3. CASE t = NoSlot
  <2>1. http' = [http EXCEPT !.stop = "promise"]
    BY <1>3 DEF StopTransport
  <2> QED
    BY <1>1, <1>3, <2>1, StopGoesOn
<1>4. CASE t # NoSlot
  <2>1. t \in Slots /\ Alive(http, t) /\ Status(http) # "free" /\ http.state = "Disconnecting"
    BY <1>1, <1>2, <1>4, StatusFacts DEF HttpInv, StartInv
  <2>2. CASE http.slots[t].kind = "lp"
    <3> DEFINE h == [http EXCEPT !.stop = "transport"]
    <3>1. http' = Become(h, t, "aborting")
      BY <1>4, <2>2 DEF StopTransport, Abort
    <3>2. /\ h \in HTTP /\ h.stop = "transport" /\ h.state = http.state
          /\ h.started = http.started /\ h.start = http.start /\ h.resolved = http.resolved
          /\ h.transport = t /\ h.slots = http.slots /\ h.offer = http.offer
          /\ h.tried = http.tried /\ h.queue = http.queue /\ h.via = http.via
      BY <1>1 DEF HTTP
    <3>3. Own(h) /\ Alive(h, t)
      BY <2>1, <3>2, OwnFrame DEF HttpInv, Alive
    <3> HIDE DEF h
    <3>4. /\ http' \in HTTP /\ Own(http') /\ Status(http') = "aborting"
          /\ http'.state = http.state /\ http'.started = http.started
          /\ http'.start = http.start /\ http'.stop = "transport"
          /\ http'.resolved = http.resolved /\ http'.transport = t
          /\ http'.offer = http.offer /\ http'.tried = http.tried
          /\ http'.queue = http.queue /\ http'.via = http.via
      BY <2>1, <3>1, <3>2, <3>3, BecomeKeepsOwn
    <3>5. HttpInv(http')
      BY <1>1, <2>1, <3>4 DEF HttpInv, TriedInv, StartInv, StopInv, QueueInv
    <3>6. Conn(http') = Conn(http)
      BY <3>4 DEF Conn
    <3> QED
      BY <3>5, <3>6 DEF Good, Allowed
  <2>3. CASE http.slots[t].kind # "lp"
    <3>1. http' \in StopConnection(Dead([http EXCEPT !.stop = "after"], t))
      BY <1>4, <2>3 DEF StopTransport
    <3>2. \A y \in StopConnection(Dead([http EXCEPT !.stop = "after"], t)) : Good(y)
      BY <1>1, <2>1, ClosesKeep
    <3> QED
      BY <3>1, <3>2
  <2> QED
    BY <2>2, <2>3
<1> QED
  BY <1>3, <1>4

\* stop() forgets the transport; where the connection was started anew by then, it is the
\* new one that is forgotten.
LEMMA ForgetKeeps ==
  ASSUME NEW h, HttpInv(h), h.stop = "after", NEW stop \in {"idle", "promise"}
  PROVE  LET y == [h EXCEPT !.stop = stop, !.transport = NoSlot] IN
           HttpInv(y) /\ Conn(y) = Conn(h)
<1> DEFINE y == [h EXCEPT !.stop = stop, !.transport = NoSlot]
<1>1. h \in HTTP /\ h.state # "Disconnecting"
  BY DEF HttpInv, StopInv
<1>2. /\ y \in HTTP /\ y.state = h.state /\ y.stop = stop /\ y.resolved = h.resolved
      /\ y.transport = NoSlot /\ y.slots = h.slots /\ y.tried = h.tried
      /\ y.offer = h.offer /\ y.queue = h.queue /\ y.via = h.via
      /\ y.start = h.start /\ y.started = h.started
  <2>1. y \in HTTP
    BY ZenonT(60), <1>1 DEF HTTP
  <2> QED
    BY <1>1, <2>1 DEF HTTP
<1> HIDE DEF y
<1>3. ASSUME h.transport = NoSlot
      PROVE  HttpInv(y) /\ Conn(y) = Conn(h)
  <2>1. Own(y) /\ Status(y) = Status(h) /\ (Bare(y) <=> Bare(h))
    BY <1>2, <1>3, OwnFrame DEF HttpInv
  <2> QED
    BY <1>1, <1>2, <1>3, <2>1 DEF HttpInv, TriedInv, StartInv, StopInv, QueueInv, Conn
<1>4. ASSUME h.transport # NoSlot
      PROVE  HttpInv(y) /\ Conn(y) = Conn(h)
  <2>1. Forgets /\ h.state = "Connecting" /\ h.start = "connect" /\ ~h.started
    BY <1>4 DEF HttpInv, StopInv, StartInv
  <2>2. Own(y) /\ Status(y) = Status(h)
    BY <1>2, <2>1 DEF HttpInv, Own, Alive, Status
  <2> QED
    BY <1>1, <1>2, <2>1, <2>2 DEF HttpInv, TriedInv, StartInv, StopInv, QueueInv, Conn, Starting
<1>5. HttpInv(y) /\ Conn(y) = Conn(h)
  BY <1>3, <1>4
<1> QED
  BY <1>5 DEF y

LEMMA StopEndsIsGood ==
  ASSUME HttpInv(http), TransportStopped \/ StopReturns
  PROVE  Good(http')
<1>1. http \in HTTP
  BY DEF HttpInv
<1>2. CASE TransportStopped
  <2>1. http.stop = "after" /\ http' = [http EXCEPT !.stop = "promise", !.transport = NoSlot]
    BY <1>2 DEF TransportStopped
  <2>2. HttpInv(http') /\ Conn(http') = Conn(http)
    BY ZenonT(30), <2>1, ForgetKeeps
  <2> QED
    BY <2>2 DEF Good, Allowed
<1>3. CASE StopReturns
  <2>1. http.stop = "promise" /\ http.state # "Disconnecting"
    BY <1>3 DEF StopReturns, HttpInv, StopInv
  <2>2. http' = [http EXCEPT !.stop = "idle"]
    BY <1>3 DEF StopReturns
  <2> QED
    BY <2>1, <2>2, StopGoesOn
<1> QED
  BY <1>2, <1>3

LEMMA SendsAreGood ==
  ASSUME HttpInv(http),
         (\E q \in Queues(http) : SendLoop(q))
         \/ (\E q \in Queues(http), outcome \in {"sent", "failed"} : SendSettles(q, outcome))
  PROVE  Good(http')
<1>1. ASSUME NEW S, NEW status \in {"flying", "sent", "failed"}, http' = Mark(http, S, status)
      PROVE  Good(http')
  <2>1. HttpInv(Mark(http, S, status)) /\ Conn(Mark(http, S, status)) = Conn(http)
    BY MarkKeeps
  <2> QED
    BY <1>1, <2>1 DEF Good, Allowed
<1>2. ASSUME NEW q \in Queues(http), SendLoop(q)
      PROVE  Good(http')
  <2>1. CASE q \in http.stoppedQ
    BY <1>1, <1>2, <2>1 DEF SendLoop
  <2>2. CASE q \notin http.stoppedQ
    BY <1>1, <1>2, <2>2 DEF SendLoop
  <2> QED
    BY <2>1, <2>2
<1>3. ASSUME NEW q \in Queues(http), NEW outcome \in {"sent", "failed"}, SendSettles(q, outcome)
      PROVE  Good(http')
  BY <1>1, <1>3 DEF SendSettles
<1> QED
  BY <1>2, <1>3

\* One field of the record, with no step in sight.
LEMMA ViaTyped ==
  ASSUME NEW h \in HTTP, NEW via \in [Sends -> Slots \cup {NoSlot}]
  PROVE  [h EXCEPT !.via = via] \in HTTP
BY ZenonT(60) DEF HTTP

\* Send m is buffered in queue q, which was there or is new and sends by the transport.
LEMMA BufferedTyped ==
  ASSUME http \in HTTP, NEW m \in Sends, NEW q \in Sends, NEW slot \in Slots \cup {NoSlot},
         http.queue = NoSend => q = m /\ slot = http.transport,
         http.queue # NoSend => q = http.queue /\ slot = http.via[m] /\ http.via[q] = http.transport,
         http' = [http EXCEPT !.queue = q, !.of[m] = q, !.send[m] = "buffered", !.via[m] = slot]
  PROVE  http' \in HTTP /\ http'.queue = q /\ http'.via[q] = http.transport
<1> DEFINE of   == [http.of EXCEPT ![m] = q]
<1> DEFINE send == [http.send EXCEPT ![m] = "buffered"]
<1> DEFINE via  == [http.via EXCEPT ![m] = slot]
<1>1. /\ of \in [Sends -> Sends \cup {NoSend}] /\ via \in [Sends -> Slots \cup {NoSlot}]
      /\ send \in [Sends -> {"new", "buffered", "flying", "sent", "failed"}]
  BY DEF HTTP
<1>2. via[q] = http.transport
  BY DEF HTTP
<1>3. http' = [http EXCEPT !.queue = q, !.of = of, !.send = send, !.via = via]
  OBVIOUS
<1> HIDE DEF of, send, via
<1> DEFINE z == [http EXCEPT !.queue = q, !.of = of]
<1>4. z \in HTTP
  BY ZenonT(60), <1>1 DEF HTTP
<1>5. http' = [z EXCEPT !.send = send, !.via = via]
  BY <1>3
<1> HIDE DEF z
<1> DEFINE y == [z EXCEPT !.send = send]
<1>6. y \in HTTP
  BY ZenonT(60), <1>1, <1>4 DEF HTTP
<1>7. http' = [y EXCEPT !.via = via]
  BY <1>4, <1>5 DEF HTTP
<1> HIDE DEF y
<1>8. [y EXCEPT !.via = via] \in HTTP
  BY <1>1, <1>6, ViaTyped
<1>9. http' \in HTTP
  BY <1>7, <1>8
<1>10. http'.queue = q /\ http'.via = via
  BY <1>3 DEF HTTP
<1> QED
  BY <1>2, <1>9, <1>10

LEMMA SendIsGood ==
  ASSUME HttpInv(http), NEW m \in Sends, Send(m)
  PROVE  Good(http')
<1>1. http \in HTTP /\ Quiet /\ http' = Enqueue(http, m)
  BY DEF HttpInv, Send
<1>2. CASE http.state # "Connected"
  <2>1. http' = Mark(http, {m}, "failed")
    BY <1>1, <1>2 DEF Enqueue
  <2>2. HttpInv(Mark(http, {m}, "failed")) /\ Conn(Mark(http, {m}, "failed")) = Conn(http)
    BY MarkKeeps
  <2> QED
    BY <2>1, <2>2 DEF Good, Allowed
<1>3. CASE http.state = "Connected"
  <2> DEFINE q == IF http.queue = NoSend THEN m ELSE http.queue
  <2> DEFINE slot == IF http.queue = NoSend THEN http.transport ELSE http.via[m]
  <2>1. q \in Sends /\ slot \in Slots \cup {NoSlot}
    BY <1>1 DEF HTTP
  <2>2. http' = [http EXCEPT !.queue = q, !.of[m] = q, !.send[m] = "buffered", !.via[m] = slot]
    BY <1>1, <1>3 DEF Enqueue
  <2>3. http.started /\ http.start = "idle"
    BY <1>1, <1>3 DEF HttpInv, StartInv, Quiet, ReadyStart
  <2>4. http.queue = NoSend => q = m /\ slot = http.transport
    OBVIOUS
  <2>5. http.queue # NoSend => q = http.queue /\ slot = http.via[m] /\ http.via[q] = http.transport
    BY DEF HttpInv, QueueInv
  <2> HIDE DEF q, slot
  <2>6. http' \in HTTP /\ http'.queue = q /\ http'.via[q] = http.transport
    BY <1>1, <2>1, <2>2, <2>4, <2>5, BufferedTyped
  <2>7. /\ http'.state = http.state /\ http'.started = http.started /\ http'.start = http.start
        /\ http'.stop = http.stop /\ http'.resolved = http.resolved
        /\ http'.transport = http.transport /\ http'.slots = http.slots
        /\ http'.offer = http.offer /\ http'.tried = http.tried
    BY <1>1, <2>2 DEF HTTP
  <2>8. Own(http') /\ Status(http') = Status(http) /\ (Bare(http') <=> Bare(http))
    BY <2>7, OwnFrame DEF HttpInv
  <2>9. HttpInv(http')
    BY <2>3, <2>6, <2>7, <2>8 DEF HttpInv, TriedInv, StartInv, StopInv, QueueInv
  <2>10. Conn(http') = Conn(http)
    BY <2>7 DEF Conn
  <2> QED
    BY <2>9, <2>10 DEF Good, Allowed
<1> QED
  BY <1>2, <1>3

LEMMA StartIsGood ==
  ASSUME HttpInv(http), Start
  PROVE  Good(http')
<1>1. /\ http \in HTTP /\ http.state = "Disconnected" /\ http.start = "idle" /\ Quiet
      /\ http' = StartCall(http)
  BY DEF HttpInv, Start
<1>2. /\ Status(http) = "free" /\ ~http.started /\ http.resolved /\ http.queue = NoSend
      /\ http.stop # "transport"
  BY <1>1 DEF HttpInv, TriedInv, StartInv, StopInv, QueueInv
<1>3. http.stop \in {"idle", "promise"}
  BY <1>1, <1>2 DEF Quiet, ReadyStop, Starting, HTTP
<1>4. Empty(http) /\ http.transport = NoSlot
  BY <1>1, <1>2, StatusFacts DEF HttpInv
<1>5. HttpInv(http') /\ Conn(http') = "connecting"
  <2>1. http.tried = 0
    BY <1>1 DEF HttpInv, TriedInv
  <2> QED
    BY <1>1, <1>2, <1>3, <1>4, <2>1, StartCallKeeps
<1>6. Conn(http) = "disconnected"
  BY <1>1, <1>2 DEF Conn
<1> QED
  BY <1>5, <1>6 DEF Good, Allowed

LEMMA StopIsGood ==
  ASSUME HttpInv(http), Stop
  PROVE  Good(http')
<1>1. /\ http \in HTTP /\ Quiet /\ http.state \in {"Connecting", "Connected"}
      /\ http.stop = "idle"
      /\ http' = [http EXCEPT !.state = "Disconnecting", !.resolved = FALSE, !.stop = "start"]
  BY DEF HttpInv, Stop
<1>2. /\ http' \in HTTP /\ http'.state = "Disconnecting" /\ http'.resolved = FALSE
      /\ http'.stop = "start" /\ http'.start = http.start /\ http'.started = http.started
      /\ http'.transport = http.transport /\ http'.slots = http.slots
      /\ http'.tried = http.tried /\ http'.offer = http.offer /\ http'.queue = http.queue
      /\ http'.via = http.via
  BY <1>1 DEF HTTP
<1>3. \/ http.state = "Connecting" /\ http.start \in Starting /\ ~http.started
      \/ /\ http.state = "Connected" /\ http.start = "idle" /\ http.started
         /\ Status(http) = "open" \/ Bare(http)
  BY <1>1 DEF HttpInv, StartInv, Quiet, ReadyStart
<1>4. Own(http') /\ Status(http') = Status(http) /\ (Bare(http') <=> Bare(http))
  BY <1>2, OwnFrame DEF HttpInv
<1>5. HttpInv(http')
  BY <1>1, <1>2, <1>3, <1>4 DEF HttpInv, TriedInv, StartInv, StopInv, QueueInv, Starting
<1>6. Allowed(Conn(http), Conn(http'))
  BY <1>1, <1>2, <1>3 DEF Allowed, Conn, Starting
<1> QED
  BY <1>5, <1>6 DEF Good

--------------------------------------------------------------------------------
(* The steps of the negotiation                                                *)

\* Whoever starts has no open connection and no queue, and is told of a stop that came;
\* unless it came, stop() has no more to do.
LEMMA WhileStarting ==
  ASSUME HttpInv(http), http.start \in Starting
  PROVE  /\ http \in HTTP /\ ~http.started /\ http.queue = NoSend
         /\ http.state \in {"Connecting", "Disconnecting"}
         /\ http.stop \in {"idle", "start", "after", "promise"}
         /\ http.tried <= Len(http.offer)
         /\ Conn(http) = IF http.state = "Connecting" THEN "connecting" ELSE "aborting"
         /\ http.state = "Connecting" => http.resolved /\ http.stop # "start"
         /\ Quiet => http.stop # "after" /\ ~(http.stop = "promise" /\ http.resolved)
<1>1. http \in HTTP /\ http.tried <= Len(http.offer)
  BY DEF HttpInv, TriedInv
<1>2. http.state \in {"Connecting", "Disconnecting"}
  BY <1>1 DEF HttpInv, HTTP, StartInv, Starting
<1>3. ~http.started
  BY <1>2 DEF HttpInv, StartInv, Starting
<1>4. http.queue = NoSend
  BY <1>3 DEF HttpInv, QueueInv
<1>5. http.stop # "transport"
  BY DEF HttpInv, StopInv
<1>6. http.state = "Connecting" => http.resolved /\ http.stop # "start"
  BY DEF HttpInv, StopInv
<1>7. Quiet => http.stop # "after" /\ ~(http.stop = "promise" /\ http.resolved)
  BY DEF Quiet, ReadyStop
<1>8. Conn(http) = IF http.state = "Connecting" THEN "connecting" ELSE "aborting"
  BY <1>2, <1>3 DEF Conn, Starting
<1> QED
  BY <1>1, <1>2, <1>3, <1>4, <1>5, <1>6, <1>7, <1>8 DEF HTTP

\* start() fails with whatever transport there was.
LEMMA FailsIsGood ==
  ASSUME HttpInv(http), http.start \in Starting, NEW d \in HTTP, Empty(d),
         d.started = http.started, d.stop = http.stop, d.queue = http.queue
  PROVE  Good(StartFails(d))
<1>1. HttpInv(StartFails(d)) /\ Conn(StartFails(d)) = "disconnected"
  BY WhileStarting, StartFailsKeeps
<1>2. Conn(http) \in {"connecting", "aborting"}
  BY WhileStarting
<1> QED
  BY <1>1, <1>2 DEF Good, Allowed

LEMMA FailsWithoutTransport ==
  ASSUME HttpInv(http), http.start = "negotiate"
  PROVE  Good(StartFails(http))
<1>1. http.start \in Starting /\ http \in HTTP
  BY DEF Starting, HttpInv
<1>2. Empty(http)
  BY StatusFacts DEF HttpInv, StartInv
<1> QED
  BY <1>1, <1>2, FailsIsGood

\* The transport has failed: another is tried, or start() fails.
LEMMA TransportFailsIsGood ==
  ASSUME HttpInv(http), http.start \in Starting, Quiet, NEW d \in HTTP, Empty(d),
         d.state = http.state, d.started = http.started, d.stop = http.stop,
         d.resolved = http.resolved, d.offer = http.offer, d.tried = http.tried,
         d.queue = http.queue
  PROVE  Good(TransportFails(d))
<1>1. CASE d.state = "Connecting" /\ ~SkipNegotiation
  <2> DEFINE h == [d EXCEPT !.negotiated = FALSE]
  <2>1. TransportFails(d) = TryNext(h)
    BY <1>1 DEF TransportFails
  <2>2. /\ h \in HTTP /\ h.state = "Connecting" /\ h.started = http.started
        /\ h.stop = http.stop /\ h.resolved = http.resolved /\ h.offer = http.offer
        /\ h.tried = http.tried /\ h.queue = http.queue /\ h.slots = d.slots
    BY ZenonT(60), <1>1 DEF HTTP
  <2>3. Empty(h)
    BY <2>2 DEF Empty, Alive
  <2> HIDE DEF h
  <2>4. HttpInv(TryNext(h)) /\ Conn(TryNext(h)) \in {"connecting", "disconnected"}
    BY <1>1, <2>2, <2>3, WhileStarting, TryNextKeeps
  <2>5. Conn(http) = "connecting"
    BY <1>1, WhileStarting
  <2> QED
    BY <2>1, <2>4, <2>5 DEF Good, Allowed
<1>2. CASE ~(d.state = "Connecting" /\ ~SkipNegotiation)
  BY <1>2, FailsIsGood DEF TransportFails
<1> QED
  BY <1>1, <1>2

LEMMA NegotiatedIsGood ==
  ASSUME HttpInv(http), NEW o \in Offers, Negotiated(o)
  PROVE  Good(http')
<1>1. Quiet /\ http.start \in {"negotiate", "renegotiate"} /\ http.start \in Starting
  BY DEF Negotiated, Starting
<1>2. CASE http.start = "negotiate" /\ http.state # "Connecting"
  BY <1>2, FailsWithoutTransport DEF Negotiated
<1>3. CASE http.start = "negotiate" /\ http.state = "Connecting"
  <2> DEFINE h == [http EXCEPT !.offer = o, !.negotiated = TRUE]
  <2>1. http' = TryNext(h)
    BY <1>3 DEF Negotiated
  <2>2. Status(http) = "free" /\ http.tried = 0
    BY <1>3 DEF HttpInv, StartInv, TriedInv
  <2>3. Empty(http)
    BY <2>2, StatusFacts DEF HttpInv
  <2>4. /\ h \in HTTP /\ h.tried = 0 /\ h.offer = o /\ h.state = "Connecting"
        /\ h.started = http.started /\ h.resolved = http.resolved /\ h.stop = http.stop
        /\ h.queue = http.queue /\ h.slots = http.slots
    BY ZenonT(60), <1>3, <2>2 DEF HttpInv, HTTP
  <2>5. Empty(h)
    BY <2>3, <2>4 DEF Empty, Alive
  <2>6. h.tried <= Len(h.offer)
    BY <2>4, ConstantTyping
  <2> HIDE DEF h
  <2>7. HttpInv(http') /\ Conn(http') \in {"connecting", "disconnected"}
    BY <1>1, <1>3, <2>1, <2>4, <2>5, <2>6, WhileStarting, TryNextKeeps
  <2>8. Conn(http) = "connecting"
    BY <1>1, <1>3, WhileStarting
  <2> QED
    BY <2>7, <2>8 DEF Good, Allowed
<1>4. CASE http.start = "renegotiate"
  <2> DEFINE t == http.transport
  <2> DEFINE h == [http EXCEPT !.negotiated = TRUE, !.start = "connect"]
  <2>1. t # NoSlot /\ t \in Slots /\ Alive(http, t)
    BY <1>4, StatusFacts DEF HttpInv, StartInv
  <2>2. http' = Become(h, t, "opening")
    BY <1>4, <2>1 DEF Negotiated
  <2>3. /\ h \in HTTP /\ h.start = "connect" /\ h.state = http.state /\ h.stop = http.stop
        /\ h.started = http.started /\ h.resolved = http.resolved /\ h.slots = http.slots
        /\ h.transport = t /\ h.offer = http.offer /\ h.tried = http.tried
        /\ h.queue = http.queue /\ h.via = http.via
    BY DEF HttpInv, HTTP, Starting
  <2>4. Own(h) /\ Alive(h, t)
    BY <2>1, <2>3, OwnFrame DEF HttpInv, Alive
  <2> HIDE DEF h
  <2>5. /\ http' \in HTTP /\ Own(http') /\ Status(http') = "opening"
        /\ http'.state = http.state /\ http'.started = http.started
        /\ http'.start = "connect" /\ http'.stop = http.stop
        /\ http'.resolved = http.resolved /\ http'.transport = t
        /\ http'.offer = http.offer /\ http'.tried = http.tried
        /\ http'.queue = http.queue /\ http'.via = http.via
    BY <2>1, <2>2, <2>3, <2>4, BecomeKeepsOwn
  <2>6. HttpInv(http')
    BY <1>1, <1>4, <2>1, <2>5, WhileStarting DEF HttpInv, TriedInv, StartInv, StopInv, QueueInv, Starting
  <2>7. Conn(http') = Conn(http)
    BY <1>4, <2>5 DEF Conn
  <2> QED
    BY <2>6, <2>7 DEF Good, Allowed
<1> QED
  BY <1>1, <1>2, <1>3, <1>4

LEMMA NegotiateFailsIsGood ==
  ASSUME HttpInv(http), NegotiateFails
  PROVE  Good(http')
<1>1. /\ http \in HTTP /\ Own(http) /\ http.start \in Starting
      /\ Status(http) \in {"free", "made"} /\ http' = StartFails(Unmade(http))
  BY DEF HttpInv, StartInv, NegotiateFails, Starting
<1> QED
  BY <1>1, UnmadeIsEmpty, FailsIsGood

LEMMA RedirectedIsGood ==
  ASSUME HttpInv(http), Redirected
  PROVE  Good(http')
<1>1. CASE http.state = "Connecting" /\ http.redirects + 1 < MaxRedirects
  <2>1. http \in HTTP /\ http' = [http EXCEPT !.redirects = http.redirects + 1]
    BY <1>1 DEF HttpInv, Redirected
  <2>2. http.redirects + 1 \in 0 .. MaxRedirects - 1
    BY <1>1, <2>1, ConstantTyping DEF HTTP
  <2>3. /\ http' \in HTTP /\ http'.state = http.state /\ http'.started = http.started
        /\ http'.start = http.start /\ http'.stop = http.stop
        /\ http'.resolved = http.resolved /\ http'.transport = http.transport
        /\ http'.slots = http.slots /\ http'.offer = http.offer /\ http'.tried = http.tried
        /\ http'.queue = http.queue /\ http'.via = http.via
    BY <2>1, <2>2 DEF HTTP
  <2>4. HttpInv(http') /\ Conn(http') = Conn(http)
    BY <2>3, FieldsKeep
  <2> QED
    BY <2>4 DEF Good, Allowed
<1>2. CASE ~(http.state = "Connecting" /\ http.redirects + 1 < MaxRedirects)
  BY <1>2, FailsWithoutTransport DEF Redirected
<1> QED
  BY <1>1, <1>2

--------------------------------------------------------------------------------
(* The steps of a transport                                                    *)

\* Whatever gets an answer is the transport that is alive.
LEMMA AwaitsOwn ==
  ASSUME HttpInv(http), NEW t \in Slots, NEW kind,
         NEW status \in {"made", "opening", "open", "aborting", "deleting"},
         Awaits(t, kind, status)
  PROVE  /\ http \in HTTP /\ Own(http) /\ Alive(http, t) /\ Status(http) = status /\ Quiet
         /\ status = "opening" => http.start = "connect"
         /\ status \in {"open", "aborting", "deleting"} => http.start \notin Starting
<1>1. http \in HTTP /\ Own(http) /\ http.slots[t].status = status /\ Quiet
  BY DEF HttpInv, Awaits
<1>2. Alive(http, t)
  BY <1>1 DEF Alive
<1>3. Status(http) = status
  BY <1>1, <1>2, StatusOf
<1>4. /\ status = "opening" => http.start = "connect"
      /\ status \in {"open", "aborting", "deleting"} => http.start \notin Starting
  BY <1>3 DEF HttpInv, StartInv, Starting
<1> QED
  BY <1>1, <1>2, <1>3, <1>4

LEMMA ConnectsIsGood ==
  ASSUME HttpInv(http), NEW t \in Slots, NEW kind, Awaits(t, kind, "opening"), Connects(t)
  PROVE  Good(http')
<1> DEFINE h == Become(http, t, "open")
<1>1. /\ http \in HTTP /\ Alive(http, t) /\ Status(http) = "opening" /\ Quiet
      /\ http.start = "connect" /\ http.start \in Starting
  BY AwaitsOwn DEF Starting
<1>2. /\ h \in HTTP /\ Own(h) /\ Status(h) = "open" /\ h.state = http.state
      /\ h.started = http.started /\ h.stop = http.stop /\ h.resolved = http.resolved
      /\ h.transport = http.transport /\ h.offer = http.offer /\ h.tried = http.tried
      /\ h.queue = http.queue /\ h.via = http.via
  BY <1>1, BecomeKeepsOwn DEF HttpInv
<1>3. http' = Returned(h)
  BY DEF Connects
<1> HIDE DEF h
<1>4. /\ http' \in HTTP /\ http'.start = "opened" /\ http'.started = http.started
      /\ http'.state = (IF http.state = "Connecting" THEN "Connected" ELSE http.state)
      /\ http'.stop = http.stop /\ http'.resolved = http.resolved
      /\ http'.transport = http.transport
      /\ http'.slots = h.slots /\ http'.offer = <<>> /\ http'.tried = 0
      /\ http'.queue = http.queue /\ http'.via = http.via
  BY <1>2, <1>3, ReturnedTyped
<1>5. Own(http') /\ Status(http') = "open"
  BY <1>2, <1>4, OwnFrame
<1>6. /\ ~http.started /\ http.queue = NoSend /\ http.tried <= Len(http.offer)
      /\ http.state \in {"Connecting", "Disconnecting"}
      /\ http.state = "Connecting" => http.resolved /\ http.stop = "idle"
      /\ http.resolved <=> http.state # "Disconnecting"
      /\ http.state = "Disconnecting" => http.stop = "start"
  BY <1>1, WhileStarting DEF HttpInv, StopInv
<1>7. HttpInv(http')
  <2>1. CASE http.state = "Connecting"
    BY <1>4, <1>5, <1>6, <2>1, ConstantTyping
    DEF HttpInv, TriedInv, StartInv, StopInv, QueueInv, Starting
  <2>2. CASE http.state = "Disconnecting"
    BY <1>1, <1>4, <1>5, <1>6, <2>2, ConstantTyping
    DEF HttpInv, TriedInv, StartInv, StopInv, QueueInv, Starting
  <2> QED
    BY <1>6, <2>1, <2>2
<1>8. Conn(http') = Conn(http)
  BY <1>1, <1>4, <1>6 DEF Conn
<1> QED
  BY <1>7, <1>8 DEF Good, Allowed

LEMMA ConnectFailsIsGood ==
  ASSUME HttpInv(http), NEW t \in Slots, NEW kind, Awaits(t, kind, "opening"), ConnectFails(t)
  PROVE  Good(http')
<1>1. /\ http \in HTTP /\ Own(http) /\ Alive(http, t) /\ Quiet /\ http.start \in Starting
  BY AwaitsOwn DEF Starting
<1> QED
  BY <1>1, DeadIsEmpty, TransportFailsIsGood DEF ConnectFails

\* A source that is lost keeps to itself until it closes.
LEMMA SourceLostIsGood ==
  ASSUME HttpInv(http), NEW t \in Slots, NEW s \in Sources, SourceLost(t, s)
  PROVE  Good(http')
<1> DEFINE h == [http EXCEPT !.lost[s] = "retrying"]
<1>1. /\ http \in HTTP /\ Own(http) /\ Alive(http, t) /\ Quiet /\ http.start \in Starting
  BY AwaitsOwn DEF SourceLost, Starting
<1>2. http' = TransportFails(Dead(h, t))
  BY DEF SourceLost
<1>3. /\ h \in HTTP /\ h.state = http.state /\ h.started = http.started
      /\ h.stop = http.stop /\ h.resolved = http.resolved /\ h.transport = http.transport
      /\ h.slots = http.slots /\ h.offer = http.offer /\ h.tried = http.tried
      /\ h.queue = http.queue
  BY <1>1, LostTyped DEF SameCalls
<1> HIDE DEF h
<1>4. Own(h) /\ Alive(h, t)
  BY <1>1, <1>3, OwnFrame DEF Alive
<1>5. /\ Dead(h, t) \in HTTP /\ Empty(Dead(h, t)) /\ Dead(h, t).state = http.state
      /\ Dead(h, t).started = http.started /\ Dead(h, t).stop = http.stop
      /\ Dead(h, t).resolved = http.resolved /\ Dead(h, t).offer = http.offer
      /\ Dead(h, t).tried = http.tried /\ Dead(h, t).queue = http.queue
  BY <1>3, <1>4, DeadIsEmpty
<1> QED
  BY <1>1, <1>2, <1>5, TransportFailsIsGood

\* Until a lost source stops it, a connection sees nothing of it.
LEMMA LostIsGood ==
  ASSUME HttpInv(http), NEW s \in Sources, LostEnds(s) \/ LostOpens(s) \/ LostCloses(s),
         ~http'.cut
  PROVE  Good(http')
<1>1. http \in HTTP
  BY DEF HttpInv
<1>2. CASE LostEnds(s) \/ LostOpens(s)
  <2>1. PICK status \in {"open", "gone"} : http' = [http EXCEPT !.lost[s] = status]
    BY <1>2 DEF LostEnds, LostOpens
  <2>2. http' \in HTTP /\ SameCalls(http', http) /\ http'.slots = http.slots
    BY ZenonT(30), <1>1, <2>1, LostTyped
  <2>3. HttpInv(http') /\ Conn(http') = Conn(http)
    BY <2>2, FieldsKeep DEF SameCalls
  <2> QED
    BY <2>3 DEF Good, Allowed
<1>3. CASE LostCloses(s)
  <2> DEFINE h == [http EXCEPT !.lost[s] = "gone", !.cut = @ \/ http.state # "Disconnected"]
  <2> DEFINE x == [h EXCEPT !.transport = NoSlot]
  <2>1. http' \in StopConnection(h)
    BY <1>3 DEF LostCloses
  <2>2. /\ h \in HTTP /\ h.cut = (http.cut \/ http.state # "Disconnected")
        /\ h.state = http.state /\ h.started = http.started
        /\ h.start = http.start /\ h.stop = http.stop /\ h.resolved = http.resolved
        /\ h.slots = http.slots /\ h.offer = http.offer /\ h.tried = http.tried
        /\ h.queue = http.queue /\ h.via = http.via /\ h.transport = http.transport
    BY ZenonT(60), <1>1, CutTyped
  <2> HIDE DEF h
  <2>3. http'.cut = h.cut
    BY <2>1, <2>2, StopConnectionKeepsCut
  <2>4. http.state = "Disconnected"
    BY <1>1, <2>2, <2>3 DEF HTTP
  <2>5. http' = x
    BY <2>1, <2>2, <2>4 DEF StopConnection
  <2>6. http.transport = NoSlot
    BY <1>1, <2>4, StatusFacts DEF HttpInv, StartInv
  <2>7. x = h
    BY <2>2, <2>6 DEF HTTP
  <2>8. HttpInv(h) /\ Conn(h) = Conn(http)
    BY <2>2, FieldsKeep
  <2> QED
    BY <2>5, <2>7, <2>8 DEF Good, Allowed
<1> QED
  BY <1>2, <1>3

\* The first poll ends the connection.  One that is being stopped is told; one that is
\* not counts as connected from then on, without a transport.
LEMMA FirstPollEndsIsGood ==
  ASSUME HttpInv(http), NEW t \in Slots, FirstPollEnds(t)
  PROVE  Good(http')
<1> DEFINE d == Dead(http, t)
<1> DEFINE h == [d EXCEPT !.transport = NoSlot]
<1>1. /\ http \in HTTP /\ Alive(http, t) /\ http.start = "connect"
      /\ http.start \in Starting /\ Quiet
      /\ FirstPollMayEnd \/ http.state = "Disconnecting"
  BY AwaitsOwn DEF FirstPollEnds, Starting
<1>2. /\ ~http.started /\ http.tried <= Len(http.offer) /\ http.queue = NoSend
      /\ http.state \in {"Connecting", "Disconnecting"}
  BY <1>1, WhileStarting
<1>3. /\ d \in HTTP /\ Empty(d) /\ d.state = http.state /\ d.started = http.started
      /\ d.start = "connect" /\ d.stop = http.stop /\ d.offer = http.offer
      /\ d.tried = http.tried /\ d.resolved = http.resolved /\ d.queue = http.queue
  BY <1>1, DeadIsEmpty DEF HttpInv
<1>4. PICK x \in StopConnection(d) : http' = Returned(x)
  BY DEF FirstPollEnds
<1> HIDE DEF d
<1>5. /\ h \in HTTP /\ h.state = http.state /\ h.started = http.started
      /\ h.start = "connect" /\ h.stop = http.stop /\ h.offer = http.offer
      /\ h.tried = http.tried /\ h.slots = d.slots /\ h.transport = NoSlot
      /\ h.resolved = http.resolved /\ h.queue = http.queue
  BY ZenonT(60), <1>3 DEF HTTP
<1>6. Empty(h)
  BY <1>3, <1>5 DEF Empty, Alive
<1>7. x \in StopConnection(d) <=> x \in IF http.state = "Connecting" THEN {h} ELSE CloseAndTell(h)
  BY <1>2, <1>5 DEF StopConnection
<1> HIDE DEF h
<1>8. CASE http.state = "Connecting"
  <2>1. /\ http.stop = "idle" /\ http.resolved /\ Conn(http) = "connecting" /\ FirstPollMayEnd
    BY <1>1, <1>8, WhileStarting
  <2>2. http' = Returned(h)
    BY <1>4, <1>7, <1>8
  <2>3. /\ http' \in HTTP /\ http'.state = "Connected" /\ http'.started = http.started
        /\ http'.start = "opened" /\ http'.resolved = http.resolved /\ http'.transport = NoSlot
        /\ http'.stop = http.stop /\ http'.tried = 0 /\ http'.offer = <<>>
        /\ http'.queue = http.queue /\ http'.slots = h.slots
    BY <1>5, <1>8, <2>2, ReturnedTyped
  <2>4. Own(http') /\ Status(http') = "free"
    BY <1>6, <2>3, EmptyFacts DEF Empty, Alive
  <2>5. HttpInv(http') /\ Conn(http') = "connecting"
    BY <1>2, <2>1, <2>3, <2>4, ConstantTyping
    DEF HttpInv, TriedInv, StartInv, StopInv, QueueInv, Bare, Conn, Starting
  <2> QED
    BY <2>1, <2>5 DEF Good, Allowed
<1>9. CASE http.state = "Disconnecting"
  <2>1. http.stop = "start" /\ Conn(http) = "aborting"
    BY <1>1, <1>9, WhileStarting DEF HttpInv, StopInv
  <2>2. /\ x \in HTTP /\ Empty(x) /\ x.state = "Disconnected" /\ x.started = FALSE
        /\ x.resolved = TRUE /\ x.transport = NoSlot /\ x.stop = "start"
        /\ x.queue = NoSend
    <3>1. TriedInv(h)
      BY <1>2, <1>5 DEF TriedInv
    <3> QED
      BY <1>2, <1>4, <1>5, <1>6, <1>7, <1>9, <2>1, <3>1, CloseAndTellFacts
  <2>3. http' = Returned(x)
    BY <1>4
  <2>4. /\ http' \in HTTP /\ http'.state = "Disconnected" /\ http'.started = FALSE
        /\ http'.start = "opened" /\ http'.resolved = TRUE /\ http'.transport = NoSlot
        /\ http'.stop = "start" /\ http'.tried = 0 /\ http'.offer = <<>>
        /\ http'.queue = NoSend /\ http'.slots = x.slots
    BY <2>2, <2>3, ReturnedTyped
  <2>5. Own(http') /\ Status(http') = "free"
    BY <2>2, <2>4, EmptyFacts DEF Empty, Alive
  <2>6. HttpInv(http') /\ Conn(http') = "aborting"
    BY <1>2, <2>4, <2>5, ConstantTyping DEF HttpInv, TriedInv, StartInv, StopInv, QueueInv, Bare, Conn, Starting
  <2> QED
    BY <2>1, <2>6 DEF Good, Allowed
<1> QED
  BY <1>2, <1>8, <1>9

\* An open transport closes by itself.
LEMMA ClosesIsGood ==
  ASSUME HttpInv(http), NEW t \in Slots, NEW kind, Awaits(t, kind, "open"), Closes(t)
  PROVE  Good(http')
<1>1. /\ http \in HTTP /\ Alive(http, t) /\ Status(http) = "open" /\ Quiet
      /\ http.start \notin Starting
  BY AwaitsOwn
<1>2. http.stop \in {"idle", "after", "promise"}
  BY <1>1 DEF HttpInv, StopInv, HTTP, Quiet, ReadyStop
<1> DEFINE stop == http.stop
<1>3. [http EXCEPT !.stop = stop] = http
  BY <1>1 DEF HTTP
<1>4. \A y \in StopConnection(Dead([http EXCEPT !.stop = stop], t)) : Good(y)
  <2> HIDE DEF stop
  <2>1. stop \in {"idle", "start", "after", "promise"} /\ stop # "start"
    BY <1>2 DEF stop
  <2> QED
    BY <1>1, <2>1, ClosesKeep
<1> QED
  BY <1>3, <1>4 DEF Closes

LEMMA PollEndsIsGood ==
  ASSUME HttpInv(http), NEW t \in Slots, PollEnds(t)
  PROVE  Good(http')
<1>1. /\ http \in HTTP /\ Alive(http, t) /\ Status(http) = "aborting"
      /\ http.start \notin Starting /\ http' = Become(http, t, "deleting")
  BY AwaitsOwn DEF PollEnds
<1>2. /\ http' \in HTTP /\ Own(http') /\ Status(http') = "deleting"
      /\ http'.state = http.state /\ http'.started = http.started
      /\ http'.start = http.start /\ http'.stop = http.stop
      /\ http'.resolved = http.resolved /\ http'.transport = http.transport
      /\ http'.offer = http.offer /\ http'.tried = http.tried
      /\ http'.queue = http.queue /\ http'.via = http.via
  BY <1>1, BecomeKeepsOwn DEF HttpInv
<1>3. HttpInv(http')
  BY <1>1, <1>2, ConstantTyping DEF HttpInv, TriedInv, StartInv, StopInv, QueueInv, Starting
<1>4. Conn(http') = Conn(http)
  BY <1>2 DEF Conn
<1> QED
  BY <1>3, <1>4 DEF Good, Allowed

\* The DELETE has ended: the transport closes under stop(), and when the request failed
\* stop() ends with it, although the connection was started anew.
LEMMA DeletedIsGood ==
  ASSUME HttpInv(http), NEW t \in Slots, Deleted(t) \/ DeleteFails(t)
  PROVE  Good(http')
<1>1. /\ http \in HTTP /\ Alive(http, t) /\ Status(http) = "deleting"
      /\ http.start \notin Starting
  BY AwaitsOwn DEF Deleted, DeleteFails
<1>2. \A y \in StopConnection(Dead([http EXCEPT !.stop = "after"], t)) :
        Good(y) /\ y.stop = "after"
  BY <1>1, ClosesKeep
<1>3. PICK x \in StopConnection(Dead([http EXCEPT !.stop = "after"], t)) :
        \/ http' = x
        \/ /\ x.state = "Connecting"
           /\ http' = [x EXCEPT !.stop = "idle", !.transport = NoSlot]
  <2>1. http.state # "Connecting"
    BY <1>1 DEF HttpInv, StartInv
  <2>2. CASE Deleted(t)
    BY <2>1, <2>2 DEF Deleted
  <2>3. CASE DeleteFails(t)
    BY <2>3 DEF DeleteFails, StopRejects
  <2> QED
    BY <2>2, <2>3
<1>4. Good(x) /\ x.stop = "after"
  BY <1>2
<1>5. CASE http' = x
  BY <1>4, <1>5
<1>6. CASE x.state = "Connecting" /\ http' = [x EXCEPT !.stop = "idle", !.transport = NoSlot]
  <2>1. HttpInv(x) /\ x.stop = "after" /\ Allowed(Conn(http), Conn(x))
    BY <1>4 DEF Good
  <2>2. HttpInv(http') /\ Conn(http') = Conn(x)
    BY ZenonT(30), <1>6, <2>1, ForgetKeeps
  <2> QED
    BY <2>1, <2>2 DEF Good
<1> QED
  BY <1>3, <1>5, <1>6

--------------------------------------------------------------------------------
(* A connection that a lost source may have stopped                            *)

LEMMA LooseFrame ==
  ASSUME NEW h, Loose(h), NEW y, y.slots = h.slots, y.start = h.start, y.started = h.started,
         y.state = h.state, y.queue = h.queue, y.tried = h.tried, y.offer = h.offer
  PROVE  Loose(y)
BY DEF Loose, TriedInv

LEMMA WeakFrame ==
  ASSUME NEW h, Weak(h), NEW y \in HTTP, SameCalls(y, h), y.slots = h.slots
  PROVE  Weak(y) /\ y.cut = h.cut
<1>1. Loose(y)
  BY LooseFrame DEF Weak, SameCalls
<1> QED
  BY <1>1 DEF Weak, SameCalls

\* A transport that has ended, unless start() negotiates for it.
LEMMA DeadIsLoose ==
  ASSUME NEW h \in HTTP, Loose(h), NEW t \in Slots,
         h.slots[t].status # "made" \/ h.start # "renegotiate"
  PROVE  Loose(Dead(h, t)) /\ Dead(h, t) \in HTTP /\ Room(Dead(h, t)) /\ SameCalls(Dead(h, t), h)
<1> DEFINE y == Dead(h, t)
<1>1. /\ y \in HTTP /\ SameCalls(y, h) /\ Room(y)
      /\ y.slots[t] = Free /\ \A s \in Slots : s # t => y.slots[s] = h.slots[s]
  BY DeadTyped
<1> HIDE DEF y
<1>2. \A s \in Slots : y.slots[s].status = "opening" => h.slots[s].status = "opening"
  BY <1>1 DEF Free
<1>3. h.start = "renegotiate" => \E s \in Slots : y.slots[s].status = "made"
  BY <1>1 DEF Loose
<1>4. Loose(y)
  BY <1>1, <1>2, <1>3 DEF Loose, TriedInv, SameCalls
<1> QED
  BY <1>1, <1>4 DEF y

\* Once the only transport that was opening is gone, none is.
LEMMA DeadOpensNone ==
  ASSUME NEW h \in HTTP, Loose(h), NEW t \in Slots, h.slots[t].status = "opening"
  PROVE  /\ \A s \in Slots : Dead(h, t).slots[s].status # "opening"
         /\ h.start = "connect" /\ ~h.started /\ h.queue = NoSend
<1> DEFINE y == Dead(h, t)
<1>1. y.slots[t] = Free /\ \A s \in Slots : s # t => y.slots[s] = h.slots[s]
  BY DeadTyped
<1> HIDE DEF y
<1>2. \A s \in Slots : y.slots[s].status # "opening"
  BY <1>1 DEF Loose, Free
<1>3. h.start = "connect" /\ ~h.started /\ h.queue = NoSend
  BY DEF Loose
<1> QED
  BY <1>2, <1>3 DEF y

LEMMA StartFailsIsWeak ==
  ASSUME NEW h \in HTTP, ~h.started, h.queue = NoSend,
         \A t \in Slots : h.slots[t].status # "opening"
  PROVE  Weak(StartFails(h)) /\ StartFails(h).cut = h.cut
<1> DEFINE y == StartFails(h)
<1>1. /\ y \in HTTP /\ y.state = "Disconnected" /\ y.transport = NoSlot
      /\ y.resolved = TRUE /\ y.start = "idle" /\ y.started = h.started
      /\ y.stop = h.stop /\ y.slots = h.slots /\ y.cut = h.cut
      /\ y.tried = 0 /\ y.offer = <<>> /\ y.queue = h.queue
  BY StartFailsTyped
<1> HIDE DEF y
<1>2. Weak(y) /\ y.cut = h.cut
  BY <1>1, ConstantTyping DEF Weak, Loose, TriedInv
<1> QED
  BY <1>2 DEF y

LEMMA ConstructIsWeak ==
  ASSUME NEW h \in HTTP, Room(h), h.tried <= Len(h.offer), ~h.started, h.queue = NoSend,
         h.state = "Connecting", \A t \in Slots : h.slots[t].status # "opening",
         NEW kind \in Kinds
  PROVE  LET y == Construct(h, kind) IN
           Weak(y) /\ y.cut = h.cut /\ y.state = "Connecting" /\ y.stop = h.stop
<1> DEFINE y == Construct(h, kind)
<1> DEFINE status == IF h.negotiated THEN "opening" ELSE "made"
<1>1. /\ y \in HTTP
      /\ y.start = (IF h.negotiated THEN "connect" ELSE "renegotiate")
      /\ y.state = h.state /\ y.started = h.started /\ y.resolved = h.resolved
      /\ y.stop = h.stop /\ y.tried = h.tried /\ y.offer = h.offer
      /\ y.queue = h.queue /\ y.cut = h.cut
      /\ \E t \in Slots : /\ y.transport = t /\ y.slots[t].status = status
                          /\ \A s \in Slots : s # t => y.slots[s] = h.slots[s]
  BY ConstructTyped
<1> HIDE DEF y
<1>2. PICK t \in Slots : /\ y.transport = t /\ y.slots[t].status = status
                         /\ \A s \in Slots : s # t => y.slots[s] = h.slots[s]
  BY <1>1
<1>3. \A s \in Slots : y.slots[s].status = "opening" => s = t /\ y.start = "connect"
  BY <1>1, <1>2
<1>4. y.start = "renegotiate" => y.slots[t].status = "made"
  BY <1>1, <1>2
<1>5. Weak(y) /\ y.cut = h.cut /\ y.state = "Connecting" /\ y.stop = h.stop
  BY <1>1, <1>3, <1>4 DEF Weak, Loose, TriedInv
<1> QED
  BY <1>5 DEF y

LEMMA TryNextIsWeak ==
  ASSUME NEW h \in HTTP, Room(h), h.tried <= Len(h.offer), ~h.started, h.queue = NoSend,
         h.state = "Connecting", \A t \in Slots : h.slots[t].status # "opening"
  PROVE  Weak(TryNext(h)) /\ TryNext(h).cut = h.cut
<1>1. CASE LeftToTry(h) = {}
  BY <1>1, StartFailsIsWeak DEF TryNext
<1>2. CASE LeftToTry(h) # {}
  <2> DEFINE i == Min(LeftToTry(h))
  <2> DEFINE x == [h EXCEPT !.tried = i]
  <2>1. i \in Nat /\ i <= Len(h.offer) /\ h.offer[i] \in Kinds
    BY <1>2, LeftToTryFacts
  <2>2. TryNext(h) = Construct(x, h.offer[i])
    BY <1>2 DEF TryNext
  <2> HIDE DEF i
  <2>3. /\ x \in HTTP /\ x.tried = i /\ x.offer = h.offer /\ x.slots = h.slots
        /\ x.state = "Connecting" /\ ~x.started /\ x.queue = NoSend /\ x.cut = h.cut
    BY ZenonT(60), <2>1 DEF HTTP
  <2>4. Room(x)
    BY <2>3 DEF Room, Alive
  <2> HIDE DEF x
  <2> QED
    BY <2>1, <2>2, <2>3, <2>4, ConstructIsWeak
<1> QED
  BY <1>1, <1>2

LEMMA TransportFailsIsWeak ==
  ASSUME NEW h \in HTTP, Room(h), h.tried <= Len(h.offer), ~h.started, h.queue = NoSend,
         \A t \in Slots : h.slots[t].status # "opening"
  PROVE  Weak(TransportFails(h)) /\ TransportFails(h).cut = h.cut
<1>1. CASE h.state = "Connecting" /\ ~SkipNegotiation
  <2> DEFINE x == [h EXCEPT !.negotiated = FALSE]
  <2>1. /\ x \in HTTP /\ x.state = "Connecting" /\ x.started = h.started /\ x.offer = h.offer
        /\ x.tried = h.tried /\ x.queue = h.queue /\ x.slots = h.slots /\ x.cut = h.cut
    BY ZenonT(60), <1>1 DEF HTTP
  <2>2. TransportFails(h) = TryNext(x)
    BY <1>1 DEF TransportFails
  <2> HIDE DEF x
  <2>3. Room(x)
    BY <2>1 DEF Room, Alive
  <2> QED
    BY <2>1, <2>2, <2>3, TryNextIsWeak
<1>2. CASE ~(h.state = "Connecting" /\ ~SkipNegotiation)
  BY <1>2, StartFailsIsWeak DEF TransportFails
<1> QED
  BY <1>1, <1>2

LEMMA StartCallIsWeak ==
  ASSUME NEW h \in HTTP, Room(h), ~h.started, h.queue = NoSend, h.tried = 0,
         \A t \in Slots : h.slots[t].status # "opening"
  PROVE  LET y == StartCall(h) IN
           Weak(y) /\ y.cut = h.cut /\ y.state = "Connecting" /\ y.stop = h.stop
<1> DEFINE x == [h EXCEPT !.state = "Connecting", !.negotiated = SkipNegotiation]
<1>1. /\ x \in HTTP /\ x.state = "Connecting" /\ x.tried = 0 /\ ~x.started
      /\ x.queue = NoSend /\ x.slots = h.slots /\ x.cut = h.cut /\ x.stop = h.stop
  <2>1. SkipNegotiation \in BOOLEAN
    BY HttpAssumption
  <2>2. x \in HTTP
    BY ZenonT(150), <2>1 DEF HTTP
  <2> QED
    BY <2>2 DEF HTTP
<1>2. Room(x) /\ x.tried <= Len(x.offer)
  BY <1>1, ConstantTyping DEF Room, Alive, HTTP
<1>3. StartCall(h) = IF SkipNegotiation THEN Construct(x, "ws") ELSE [x EXCEPT !.start = "negotiate"]
  BY DEF StartCall
<1> HIDE DEF x
<1>4. CASE SkipNegotiation
  <2>1. "ws" \in Kinds
    BY DEF Kinds
  <2>2. StartCall(h) = Construct(x, "ws")
    BY <1>3, <1>4
  <2> QED
    BY <1>1, <1>2, <2>1, <2>2, ConstructIsWeak
<1>5. CASE ~SkipNegotiation
  <2> DEFINE y == [x EXCEPT !.start = "negotiate"]
  <2>1. /\ y \in HTTP /\ y.start = "negotiate" /\ y.state = "Connecting" /\ y.offer = x.offer
        /\ y.tried = 0 /\ y.slots = x.slots /\ ~y.started /\ y.queue = NoSend
        /\ y.cut = x.cut /\ y.stop = x.stop
    BY <1>1 DEF HTTP, Starting
  <2> HIDE DEF y
  <2>2. Weak(y) /\ y.cut = h.cut /\ y.state = "Connecting" /\ y.stop = h.stop
    BY <1>1, <1>2, <2>1 DEF Weak, Loose, TriedInv
  <2> QED
    BY <1>3, <1>5, <2>2 DEF y
<1> QED
  BY <1>4, <1>5

\* A transport has closed, of this start or of another: no queue is left, and start() goes
\* on as it was, unless the onclose callback starts anew.
LEMMA StopConnectionIsWeak ==
  ASSUME NEW d \in HTTP, Loose(d), Room(d), NEW y \in StopConnection(d)
  PROVE  /\ Weak(y) /\ y.stop = d.stop /\ y.state \in {"Disconnected", "Connecting"}
         /\ d.start # "idle" => y.slots = d.slots
<1> DEFINE x == [d EXCEPT !.transport = NoSlot]
<1> DEFINE w == [x EXCEPT !.state = "Disconnected", !.started = FALSE,
                          !.resolved = IF x.state = "Disconnecting" THEN TRUE ELSE @]
<1> DEFINE q == StopQueue(w)
<1>1. /\ x \in HTTP /\ x.transport = NoSlot /\ x.state = d.state /\ x.started = d.started
      /\ x.start = d.start /\ x.stop = d.stop /\ x.slots = d.slots /\ x.queue = d.queue
      /\ x.tried = d.tried /\ x.offer = d.offer
  <2>1. x \in HTTP
    BY ZenonT(60) DEF HTTP
  <2> QED
    BY <2>1 DEF HTTP
<1>2. Loose(x)
  BY <1>1, LooseFrame
<1>3. \/ x.state \in {"Disconnected", "Connecting"} /\ y = x
      \/ y = q
      \/ x.started /\ q.start = "idle" /\ y = StartCall(q)
  BY DEF StopConnection, CloseAndTell
<1> HIDE DEF x
<1>4. /\ w \in HTTP /\ w.state = "Disconnected" /\ w.started = FALSE /\ w.start = x.start
      /\ w.stop = x.stop /\ w.slots = x.slots /\ w.tried = x.tried /\ w.offer = x.offer
  <2> DEFINE resolved == IF x.state = "Disconnecting" THEN TRUE ELSE x.resolved
  <2>1. resolved \in BOOLEAN
    BY <1>1 DEF HTTP
  <2> DEFINE z == [x EXCEPT !.state = "Disconnected", !.started = FALSE]
  <2>2. /\ z \in HTTP /\ z.state = "Disconnected" /\ z.started = FALSE /\ z.start = x.start
        /\ z.stop = x.stop /\ z.slots = x.slots /\ z.tried = x.tried /\ z.offer = x.offer
    <3>1. z \in HTTP
      BY ZenonT(150), <1>1 DEF HTTP
    <3> QED
      BY <1>1, <3>1 DEF HTTP
  <2>3. w = [z EXCEPT !.resolved = resolved]
    BY <1>1 DEF HTTP
  <2> HIDE DEF resolved, z, w
  <2>4. w \in HTTP
    BY ZenonT(60), <2>1, <2>2, <2>3 DEF HTTP
  <2> QED
    BY <2>2, <2>3, <2>4 DEF HTTP
<1> HIDE DEF w
<1>5. /\ q \in HTTP /\ q.queue = NoSend /\ q.state = "Disconnected" /\ q.started = FALSE
      /\ q.start = d.start /\ q.stop = d.stop /\ q.slots = d.slots
      /\ q.tried = d.tried /\ q.offer = d.offer
  BY <1>1, <1>4, StopQueueTyped
<1> HIDE DEF q
<1>6. CASE x.state \in {"Disconnected", "Connecting"} /\ y = x
  <2>1. x.queue = NoSend
    BY <1>2, <1>6 DEF Loose
  <2> QED
    BY <1>1, <1>2, <1>6, <2>1 DEF Weak
<1>7. CASE y = q
  BY <1>5, <1>7 DEF Loose, Weak, TriedInv
<1>8. CASE x.started /\ q.start = "idle" /\ y = StartCall(q)
  <2>1. q.tried = 0 /\ \A t \in Slots : q.slots[t].status # "opening"
    BY <1>5, <1>8 DEF Loose, TriedInv
  <2>2. Room(q)
    BY <1>5 DEF Room, Alive
  <2>3. Weak(y) /\ y.state = "Connecting" /\ y.stop = q.stop
    BY <1>5, <1>8, <2>1, <2>2, StartCallIsWeak
  <2> QED
    BY <1>5, <1>8, <2>3
<1> QED
  BY <1>3, <1>6, <1>7, <1>8

\* A transport in slot t closes, stop() being at `stop' by then.
LEMMA ClosesAreWeak ==
  ASSUME Weak(http), NEW t \in Slots,
         http.slots[t].status # "made" \/ http.start # "renegotiate",
         NEW stop \in {"idle", "start", "transport", "after", "promise"},
         NEW y \in StopConnection(Dead([http EXCEPT !.stop = stop], t))
  PROVE  /\ Weak(y) /\ y.cut = http.cut /\ y.state \in {"Disconnected", "Connecting"}
         /\ y.stop = stop
<1> DEFINE h == [http EXCEPT !.stop = stop]
<1> DEFINE d == Dead(h, t)
<1>1. /\ h \in HTTP /\ h.stop = stop /\ h.state = http.state /\ h.started = http.started
      /\ h.start = http.start /\ h.slots = http.slots /\ h.queue = http.queue
      /\ h.tried = http.tried /\ h.offer = http.offer /\ h.cut = http.cut
  BY DEF Weak, HTTP
<1>2. Loose(h)
  BY <1>1, LooseFrame DEF Weak
<1>3. y \in StopConnection(d)
  OBVIOUS
<1> HIDE DEF h
<1>4. d \in HTTP /\ Loose(d) /\ Room(d) /\ SameCalls(d, h)
  BY <1>1, <1>2, DeadIsLoose
<1> HIDE DEF d
<1>5. Weak(y) /\ y.stop = d.stop /\ y.state \in {"Disconnected", "Connecting"}
  BY <1>3, <1>4, StopConnectionIsWeak
<1>6. y.cut = d.cut
  BY <1>3, <1>4, StopConnectionKeepsCut
<1> QED
  BY <1>1, <1>4, <1>5, <1>6 DEF SameCalls

\* A step that leaves Weak, and does not stop the connection for a lost source.
Keeps == Weak(http') /\ http'.cut = http.cut

LEMMA StartMovesKeep ==
  ASSUME Weak(http), Opened \/ StoppedInStart
  PROVE  Keeps
<1>1. http \in HTTP
  BY DEF Weak
<1>2. CASE StoppedInStart
  <2>1. /\ http.start = "stopping" /\ http' \in HTTP /\ http'.start = "idle"
        /\ http'.state = http.state /\ http'.started = http.started /\ http'.stop = http.stop
        /\ http'.transport = http.transport /\ http'.slots = http.slots
        /\ http'.tried = http.tried /\ http'.offer = http.offer /\ http'.cut = http.cut
        /\ http'.queue = http.queue /\ http'.via = http.via
    BY <1>1, <1>2 DEF StoppedInStart, HTTP
  <2> QED
    BY <2>1 DEF Keeps, Weak, Loose, TriedInv
<1>3. CASE Opened
  <2>1. /\ http.start = "opened" /\ http' \in HTTP /\ http'.state = http.state
        /\ http'.stop = http.stop /\ http'.transport = http.transport
        /\ http'.slots = http.slots /\ http'.tried = http.tried /\ http'.offer = http.offer
        /\ http'.cut = http.cut /\ http'.queue = http.queue /\ http'.via = http.via
        /\ \/ http'.start = "stopping" /\ http'.started = http.started /\ http.state # "Connected"
           \/ http.state = "Connected" /\ http'.start = "idle" /\ http'.started = TRUE
           \/ http'.start = "idle" /\ http'.started = http.started /\ http.state # "Connected"
    BY ZenonT(60), <1>1, <1>3 DEF Opened, HTTP, Starting
  <2> QED
    BY <2>1 DEF Keeps, Weak, Loose, TriedInv
<1> QED
  BY <1>2, <1>3

LEMMA StopMovesKeep ==
  ASSUME Weak(http), StopTransport \/ TransportStopped \/ StopReturns
  PROVE  Keeps
<1>1. http \in HTTP /\ Loose(http)
  BY DEF Weak
<1>2. ASSUME NEW stop \in {"idle", "promise"}, http' = [http EXCEPT !.stop = stop]
      PROVE  Keeps
  <2>1. /\ http' \in HTTP /\ http'.stop = stop /\ http'.state = http.state
        /\ http'.started = http.started /\ http'.start = http.start
        /\ http'.transport = http.transport /\ http'.slots = http.slots
        /\ http'.tried = http.tried /\ http'.offer = http.offer /\ http'.cut = http.cut
        /\ http'.queue = http.queue /\ http'.via = http.via
    BY <1>1, <1>2 DEF HTTP
  <2>2. Loose(http')
    BY <1>1, <2>1, LooseFrame
  <2> QED
    BY <2>1, <2>2 DEF Keeps, Weak
<1>3. CASE StopReturns
  BY <1>2, <1>3 DEF StopReturns
<1>4. CASE TransportStopped
  <2>1. http.state \in {"Disconnected", "Connecting"} /\ http.queue = NoSend
    BY <1>1, <1>4 DEF TransportStopped, Weak, Loose
  <2>2. http' = [http EXCEPT !.stop = "promise", !.transport = NoSlot]
    BY <1>4 DEF TransportStopped
  <2>3. http' \in HTTP
    BY ZenonT(60), <1>1, <2>2 DEF HTTP
  <2>4. /\ http'.stop = "promise" /\ http'.state = http.state
        /\ http'.started = http.started /\ http'.start = http.start
        /\ http'.slots = http.slots /\ http'.tried = http.tried /\ http'.offer = http.offer
        /\ http'.cut = http.cut /\ http'.queue = http.queue
    BY <1>1, <2>2 DEF HTTP
  <2>5. Loose(http')
    BY <1>1, <2>4, LooseFrame
  <2> QED
    BY <2>1, <2>3, <2>4, <2>5 DEF Keeps, Weak
<1>5. CASE StopTransport
  <2> DEFINE t == http.transport
  <2>1. http.stop = "start" /\ http.start \notin Starting /\ t \in Slots \cup {NoSlot}
    BY <1>1, <1>5 DEF StopTransport, HTTP
  <2>2. CASE t = NoSlot
    <3>1. http' = [http EXCEPT !.stop = "promise"]
      BY <1>5, <2>2 DEF StopTransport
    <3> QED
      BY <1>2, <3>1
  <2>3. CASE t # NoSlot /\ http.slots[t].kind = "lp"
    <3> DEFINE h == [http EXCEPT !.stop = "transport"]
    <3>1. http' = Become(h, t, "aborting")
      BY <1>5, <2>3 DEF StopTransport, Abort
    <3>2. /\ h \in HTTP /\ h.stop = "transport" /\ h.state = http.state
          /\ h.started = http.started /\ h.start = http.start /\ h.slots = http.slots
          /\ h.transport = t /\ h.tried = http.tried /\ h.offer = http.offer
          /\ h.queue = http.queue /\ h.via = http.via /\ h.cut = http.cut
      BY <1>1 DEF HTTP
    <3> HIDE DEF h
    <3>3. /\ http' \in HTTP /\ SameCalls(http', h) /\ http'.slots[t].status = "aborting"
          /\ \A s \in Slots : s # t => http'.slots[s] = h.slots[s]
      <4>1. "aborting" \in Statuses /\ t \in Slots
        BY <2>1, <2>3 DEF Statuses
      <4> QED
        BY ZenonT(30), <3>1, <3>2, <4>1, BecomeTyped
    <3>4. \A s \in Slots : http'.slots[s].status = "opening" => http.slots[s].status = "opening"
      BY <3>2, <3>3
    <3>5. Loose(http')
      BY <1>1, <2>1, <3>2, <3>3, <3>4 DEF Loose, TriedInv, SameCalls, Starting
    <3> QED
      BY <3>2, <3>3, <3>5 DEF Keeps, Weak, SameCalls
  <2>4. CASE t # NoSlot /\ http.slots[t].kind # "lp"
    <3>1. http' \in StopConnection(Dead([http EXCEPT !.stop = "after"], t))
      BY <1>5, <2>4 DEF StopTransport
    <3>2. t \in Slots /\ http.start # "renegotiate"
      BY <2>1, <2>4 DEF Starting
    <3>3. \A y \in StopConnection(Dead([http EXCEPT !.stop = "after"], t)) :
            Weak(y) /\ y.cut = http.cut
      BY <3>2, ClosesAreWeak
    <3> QED
      BY <3>1, <3>3 DEF Keeps
  <2> QED
    BY <2>2, <2>3, <2>4
<1> QED
  BY <1>3, <1>4, <1>5

LEMMA SendMovesKeep ==
  ASSUME Weak(http),
         \/ \E q \in Queues(http) : SendLoop(q)
         \/ \E q \in Queues(http), outcome \in {"sent", "failed"} : SendSettles(q, outcome)
         \/ \E m \in Sends : Send(m)
  PROVE  Keeps
<1>1. http \in HTTP /\ Loose(http)
  BY DEF Weak
<1>2. ASSUME NEW S, NEW status \in {"flying", "sent", "failed"}, http' = Mark(http, S, status)
      PROVE  Keeps
  <2>1. http' \in HTTP /\ SameCalls(http', http) /\ http'.slots = http.slots
    BY <1>1, <1>2 DEF Mark, HTTP, SameCalls
  <2> QED
    BY <2>1, WeakFrame DEF Keeps
<1>3. ASSUME NEW q \in Queues(http), SendLoop(q)
      PROVE  Keeps
  <2>1. CASE q \in http.stoppedQ
    BY <1>2, <1>3, <2>1 DEF SendLoop
  <2>2. CASE q \notin http.stoppedQ
    BY <1>2, <1>3, <2>2 DEF SendLoop
  <2> QED
    BY <2>1, <2>2
<1>4. ASSUME NEW q \in Queues(http), NEW outcome \in {"sent", "failed"}, SendSettles(q, outcome)
      PROVE  Keeps
  BY <1>2, <1>4 DEF SendSettles
<1>5. ASSUME NEW m \in Sends, Send(m)
      PROVE  Keeps
  <2>1. CASE http.state # "Connected"
    BY <1>2, <1>5, <2>1 DEF Send, Enqueue
  <2>2. CASE http.state = "Connected"
    <3> DEFINE q == IF http.queue = NoSend THEN m ELSE http.queue
    <3> DEFINE slot == IF http.queue = NoSend THEN http.transport ELSE http.via[m]
    <3>1. q \in Sends /\ slot \in Slots \cup {NoSlot}
      BY <1>1 DEF HTTP
    <3>2. http' = [http EXCEPT !.queue = q, !.of[m] = q, !.send[m] = "buffered", !.via[m] = slot]
      BY <1>5, <2>2 DEF Send, Enqueue
    <3>3. http.started
      BY <1>1, <1>5, <2>2 DEF Send, Quiet, ReadyStart, Loose
    <3>4. http.queue = NoSend => q = m /\ slot = http.transport
      OBVIOUS
    <3>5. http.queue # NoSend => q = http.queue /\ slot = http.via[m] /\ http.via[q] = http.transport
      BY DEF Weak
    <3> HIDE DEF q, slot
    <3>6. http' \in HTTP /\ http'.queue = q /\ http'.via[q] = http.transport
      BY <1>1, <3>1, <3>2, <3>4, <3>5, BufferedTyped
    <3>7. /\ http'.state = http.state /\ http'.started = http.started
          /\ http'.start = http.start /\ http'.stop = http.stop /\ http'.cut = http.cut
          /\ http'.transport = http.transport /\ http'.slots = http.slots
          /\ http'.offer = http.offer /\ http'.tried = http.tried
      BY <1>1, <3>2 DEF HTTP
    <3>8. Loose(http')
      BY <1>1, <3>3, <3>7 DEF Loose, TriedInv
    <3> QED
      BY <3>6, <3>7, <3>8 DEF Keeps, Weak
  <2> QED
    BY <2>1, <2>2
<1> QED
  BY <1>3, <1>4, <1>5

\* Whoever starts has no open connection and no queue.
LEMMA WeakWhileStarting ==
  ASSUME Weak(http), http.start \in Starting
  PROVE  /\ http \in HTTP /\ Loose(http) /\ ~http.started /\ http.queue = NoSend
         /\ http.tried <= Len(http.offer)
         /\ http.start # "connect" => \A t \in Slots : http.slots[t].status # "opening"
BY DEF Weak, Loose, TriedInv, Starting

LEMMA NegotiationKeeps ==
  ASSUME Weak(http), Negotiation \/ Redirected
  PROVE  Keeps
<1>1. /\ http.start \in {"negotiate", "renegotiate"} /\ http.start \in Starting
      /\ http \in HTTP /\ Loose(http) /\ ~http.started /\ http.queue = NoSend
      /\ http.tried <= Len(http.offer) /\ Quiet
      /\ \A t \in Slots : http.slots[t].status # "opening"
  <2>1. http.start \in {"negotiate", "renegotiate"} /\ http.start \in Starting /\ Quiet
    BY DEF Negotiation, Negotiated, NegotiateFails, Redirected, Starting
  <2> QED
    BY <2>1, WeakWhileStarting
<1>2. ASSUME http' = StartFails(http)
      PROVE  Keeps
  BY <1>1, <1>2, StartFailsIsWeak DEF Keeps
<1> DEFINE u == Unmade(http)
<1>3. /\ u \in HTTP /\ u.started = http.started /\ u.queue = http.queue /\ u.cut = http.cut
      /\ u.offer = http.offer /\ u.tried = http.tried
      /\ \A t \in Slots : u.slots[t] = IF http.slots[t].status = "made" THEN Free ELSE http.slots[t]
  BY <1>1, UnmadeTyped DEF SameCalls
<1> HIDE DEF u
<1>4. \A t \in Slots : u.slots[t].status # "opening"
  BY <1>1, <1>3 DEF Free
<1>5. CASE NegotiateFails
  <2>1. http' = StartFails(u)
    BY <1>5 DEF NegotiateFails, u
  <2> QED
    BY <1>1, <1>3, <1>4, <2>1, StartFailsIsWeak DEF Keeps
<1>6. CASE Redirected
  <2>1. CASE http.state = "Connecting" /\ http.redirects + 1 < MaxRedirects
    <3>1. http' = [http EXCEPT !.redirects = http.redirects + 1]
      BY <1>1, <1>6, <2>1 DEF Redirected
    <3>2. http.redirects + 1 \in 0 .. MaxRedirects - 1
      BY <1>1, <2>1, ConstantTyping DEF HTTP
    <3>3. http' \in HTTP /\ SameCalls(http', http) /\ http'.slots = http.slots
      BY ZenonT(60), <1>1, <3>1, <3>2 DEF HTTP, SameCalls
    <3> QED
      BY <3>3, WeakFrame DEF Keeps
  <2>2. CASE ~(http.state = "Connecting" /\ http.redirects + 1 < MaxRedirects)
    BY <1>2, <1>6, <2>2 DEF Redirected
  <2> QED
    BY <2>1, <2>2
<1>7. ASSUME NEW o \in Offers, Negotiated(o)
      PROVE  Keeps
  <2>1. CASE http.start = "negotiate" /\ http.state # "Connecting"
    BY <1>2, <1>7, <2>1 DEF Negotiated
  <2>2. CASE http.start = "negotiate" /\ http.state = "Connecting"
    <3> DEFINE h == [http EXCEPT !.offer = o, !.negotiated = TRUE]
    <3>1. http' = TryNext(h) /\ Room(http)
      BY <1>7, <2>2 DEF Negotiated
    <3>2. http.tried = 0
      BY <1>1, <2>2 DEF Loose, TriedInv
    <3>3. /\ h \in HTTP /\ h.tried = 0 /\ h.offer = o /\ h.state = "Connecting"
          /\ h.started = http.started /\ h.queue = http.queue /\ h.slots = http.slots
          /\ h.cut = http.cut
      BY ZenonT(60), <1>1, <2>2, <3>2 DEF HTTP
    <3>4. Room(h) /\ h.tried <= Len(h.offer)
      BY <3>1, <3>3, ConstantTyping DEF Room, Alive
    <3> HIDE DEF h
    <3> QED
      BY <1>1, <3>1, <3>3, <3>4, TryNextIsWeak DEF Keeps
  <2>3. CASE http.start = "renegotiate" /\ http.transport = NoSlot
    <3>1. http' = TransportFails(u)
      BY <1>7, <2>3 DEF Negotiated, u
    <3>2. Room(u)
      BY <1>1, <1>3, <2>3 DEF Loose, Room, Alive, Free
    <3> QED
      BY <1>1, <1>3, <1>4, <3>1, <3>2, TransportFailsIsWeak DEF Keeps
  <2>4. CASE http.start = "renegotiate" /\ http.transport # NoSlot
    <3> DEFINE t == http.transport
    <3> DEFINE h == [http EXCEPT !.negotiated = TRUE, !.start = "connect"]
    <3>1. http' = Become(h, t, "opening") /\ t \in Slots
      BY <1>1, <1>7, <2>4 DEF Negotiated, HTTP
    <3>2. /\ h \in HTTP /\ h.start = "connect" /\ h.state = http.state /\ h.stop = http.stop
          /\ h.started = http.started /\ h.slots = http.slots /\ h.cut = http.cut
          /\ h.transport = t /\ h.offer = http.offer /\ h.tried = http.tried
          /\ h.queue = http.queue /\ h.via = http.via
      BY ZenonT(60), <1>1 DEF HTTP, Starting
    <3> HIDE DEF h
    <3>3. /\ http' \in HTTP /\ SameCalls(http', h) /\ http'.slots[t].status = "opening"
          /\ \A s \in Slots : s # t => http'.slots[s] = h.slots[s]
      <4>1. "opening" \in Statuses
        BY DEF Statuses
      <4> QED
        BY ZenonT(30), <3>1, <3>2, <4>1, BecomeTyped
    <3>4. \A s \in Slots : http'.slots[s].status = "opening" => s = t
      BY <1>1, <3>2, <3>3
    <3>5. Loose(http')
      BY <1>1, <3>2, <3>3, <3>4 DEF Loose, TriedInv, SameCalls
    <3>6. http.stop # "after"
      BY <1>1 DEF Quiet, ReadyStop
    <3> QED
      BY <1>1, <3>2, <3>3, <3>5, <3>6 DEF Keeps, Weak, SameCalls
  <2> QED
    BY <1>1, <2>1, <2>2, <2>3, <2>4
<1> QED
  BY <1>5, <1>6, <1>7 DEF Negotiation

\* What holds of a connection whose transport's connect() has settled, once it is gone.
LEMMA ReturnedIsWeak ==
  ASSUME NEW h \in HTTP, ~h.started, h.queue = NoSend, h.stop # "after",
         \A t \in Slots : h.slots[t].status # "opening"
  PROVE  Weak(Returned(h)) /\ Returned(h).cut = h.cut
<1> DEFINE y == Returned(h)
<1>1. /\ y \in HTTP /\ y.start = "opened" /\ y.started = h.started /\ y.stop = h.stop
      /\ y.cut = h.cut /\ y.slots = h.slots /\ y.offer = <<>> /\ y.tried = 0
      /\ y.queue = h.queue
  BY ReturnedTyped
<1> HIDE DEF y
<1>2. Weak(y) /\ y.cut = h.cut
  BY <1>1, ConstantTyping DEF Weak, Loose, TriedInv
<1> QED
  BY <1>2 DEF y

LEMMA ConnectMovesKeep ==
  ASSUME Weak(http), NEW t \in Slots, ConnectEnds(t)
  PROVE  Keeps
<1>1. /\ http \in HTTP /\ Loose(http) /\ http.slots[t].status = "opening"
      /\ http.stop # "after" /\ http.start = "connect" /\ http.tried <= Len(http.offer)
      /\ ~http.started /\ http.queue = NoSend
  <2>1. \E kind \in Kinds : Awaits(t, kind, "opening")
    BY DEF ConnectEnds, SocketOpens, SocketFails, SourceOpens, SourceFails, SourceLost,
           FirstPoll, FirstPollEnds, Kinds
  <2>2. http.slots[t].status = "opening" /\ http.stop # "after"
    BY <2>1 DEF Awaits, Quiet, ReadyStop
  <2> QED
    BY <2>2 DEF Weak, Loose, TriedInv
<1>2. CASE Connects(t)
  <2> DEFINE h == Become(http, t, "open")
  <2>1. /\ h \in HTTP /\ SameCalls(h, http) /\ h.slots[t].status = "open"
        /\ \A s \in Slots : s # t => h.slots[s] = http.slots[s]
    <3>1. "open" \in Statuses
      BY DEF Statuses
    <3> QED
      BY ZenonT(30), <1>1, <3>1, BecomeTyped
  <2>2. http' = Returned(h)
    BY <1>2 DEF Connects
  <2> HIDE DEF h
  <2>3. \A s \in Slots : h.slots[s].status # "opening"
    BY <1>1, <2>1 DEF Loose
  <2> QED
    BY <1>1, <2>1, <2>2, <2>3, ReturnedIsWeak DEF Keeps, SameCalls
<1>3. ASSUME NEW h \in HTTP, Loose(h), h.slots = http.slots, h.start = "connect",
             h.tried = http.tried, h.offer = http.offer, h.cut = http.cut,
             http' = TransportFails(Dead(h, t))
      PROVE  Keeps
  <2> DEFINE d == Dead(h, t)
  <2>1. /\ d \in HTTP /\ Room(d) /\ d.started = h.started /\ d.queue = h.queue
        /\ d.tried = http.tried /\ d.offer = http.offer /\ d.cut = http.cut
    BY <1>1, <1>3, DeadIsLoose DEF SameCalls
  <2>2. /\ \A s \in Slots : d.slots[s].status # "opening"
        /\ ~h.started /\ h.queue = NoSend
    BY <1>1, <1>3, DeadOpensNone
  <2> HIDE DEF d
  <2>3. http' = TransportFails(d)
    BY <1>3 DEF d
  <2> QED
    BY <1>1, <2>1, <2>2, <2>3, TransportFailsIsWeak DEF Keeps
<1>4. CASE ConnectFails(t)
  BY <1>1, <1>3, <1>4 DEF ConnectFails
<1>5. ASSUME NEW s \in Sources, SourceLost(t, s)
      PROVE  Keeps
  <2> DEFINE h == [http EXCEPT !.lost[s] = "retrying"]
  <2>1. h \in HTTP /\ SameCalls(h, http) /\ h.slots = http.slots
    BY <1>1, LostTyped
  <2>2. http' = TransportFails(Dead(h, t))
    BY <1>5 DEF SourceLost
  <2> HIDE DEF h
  <2>3. Loose(h)
    BY <1>1, <2>1, LooseFrame DEF SameCalls
  <2> QED
    BY <1>1, <1>3, <2>1, <2>2, <2>3 DEF SameCalls
<1>6. CASE FirstPollEnds(t)
  <2> DEFINE d == Dead(http, t)
  <2>1. /\ d \in HTTP /\ Loose(d) /\ Room(d) /\ SameCalls(d, http)
        /\ \A s \in Slots : d.slots[s].status # "opening"
    BY <1>1, DeadIsLoose, DeadOpensNone
  <2>2. PICK x \in StopConnection(d) : http' = Returned(x)
    BY <1>6 DEF FirstPollEnds
  <2> HIDE DEF d
  <2>3. Weak(x) /\ x.stop = d.stop /\ x.slots = d.slots /\ x.state \in {"Disconnected", "Connecting"}
    BY <1>1, <2>1, <2>2, StopConnectionIsWeak DEF SameCalls
  <2>4. x.cut = http.cut
    BY <2>1, <2>2, StopConnectionKeepsCut DEF SameCalls
  <2>5. x \in HTTP /\ ~x.started /\ x.queue = NoSend
    BY <2>3 DEF Weak, Loose
  <2> QED
    BY <1>1, <2>1, <2>2, <2>3, <2>4, <2>5, ReturnedIsWeak DEF Keeps, SameCalls
<1> QED
  BY <1>2, <1>4, <1>5, <1>6
  DEF ConnectEnds, SocketOpens, SocketFails, SourceOpens, SourceFails, FirstPoll

\* stop() rejects, while the connection has been started anew.
LEMMA StopRejectsIsWeak ==
  ASSUME NEW h \in HTTP, Loose(h), h.state = "Connecting"
  PROVE  Weak(StopRejects(h)) /\ StopRejects(h).cut = h.cut
<1> DEFINE y == StopRejects(h)
<1>1. y = [h EXCEPT !.stop = "idle", !.transport = NoSlot]
  BY DEF StopRejects
<1>2. y \in HTTP
  BY ZenonT(60), <1>1 DEF HTTP
<1>3. /\ y.stop = "idle" /\ y.state = h.state /\ y.started = h.started /\ y.start = h.start
      /\ y.slots = h.slots /\ y.tried = h.tried /\ y.offer = h.offer
      /\ y.queue = h.queue /\ y.cut = h.cut
  BY <1>1 DEF HTTP
<1> HIDE DEF y
<1>4. Loose(y) /\ y.queue = NoSend
  BY <1>3, LooseFrame DEF Loose
<1>5. Weak(y) /\ y.cut = h.cut
  BY <1>2, <1>3, <1>4 DEF Weak
<1> QED
  BY <1>5 DEF y

LEMMA CloseMovesKeep ==
  ASSUME Weak(http), NEW t \in Slots,
         \/ SocketCloses(t) \/ SourceCloses(t) \/ PollFails(t)
         \/ PollEnds(t) \/ Deleted(t) \/ DeleteFails(t)
  PROVE  Keeps
<1>1. http \in HTTP /\ Loose(http)
  BY DEF Weak
<1>2. CASE SocketCloses(t) \/ SourceCloses(t) \/ PollFails(t)
  <2>1. http.slots[t].status = "open" /\ http' \in StopConnection(Dead(http, t))
    BY <1>2 DEF SocketCloses, SourceCloses, PollFails, Awaits, Closes
  <2> DEFINE stop == http.stop
  <2>2. [http EXCEPT !.stop = stop] = http /\ stop \in {"idle", "start", "transport", "after", "promise"}
    BY <1>1 DEF HTTP
  <2> HIDE DEF stop
  <2>3. \A y \in StopConnection(Dead([http EXCEPT !.stop = stop], t)) : Weak(y) /\ y.cut = http.cut
    BY <2>1, <2>2, ClosesAreWeak
  <2> QED
    BY <2>1, <2>2, <2>3 DEF Keeps
<1>3. CASE PollEnds(t)
  <2>1. http.slots[t].status = "aborting" /\ http' = Become(http, t, "deleting")
    BY <1>3 DEF PollEnds, Awaits
  <2>2. /\ http' \in HTTP /\ SameCalls(http', http) /\ http'.slots[t].status = "deleting"
        /\ \A s \in Slots : s # t => http'.slots[s] = http.slots[s]
    <3>1. "deleting" \in Statuses
      BY DEF Statuses
    <3> QED
      BY ZenonT(30), <1>1, <2>1, <3>1, BecomeTyped
  <2>3. /\ \A s \in Slots : http'.slots[s].status = "opening" => http.slots[s].status = "opening"
        /\ \A s \in Slots : http.slots[s].status = "made" => http'.slots[s].status = "made"
    BY <2>1, <2>2
  <2>4. Loose(http')
    BY <1>1, <2>2, <2>3 DEF Loose, TriedInv, SameCalls
  <2> QED
    BY <2>2, <2>4 DEF Keeps, Weak, SameCalls
<1>4. CASE Deleted(t) \/ DeleteFails(t)
  <2>1. http.slots[t].status = "deleting"
    BY <1>4 DEF Deleted, DeleteFails, Awaits
  <2>2. \A y \in StopConnection(Dead([http EXCEPT !.stop = "after"], t)) :
          Weak(y) /\ y.cut = http.cut
    BY <2>1, ClosesAreWeak
  <2>3. CASE http.state = "Connecting" /\ http' = StopRejects(Dead(http, t))
    <3>1. /\ Dead(http, t) \in HTTP /\ Loose(Dead(http, t))
          /\ Dead(http, t).state = "Connecting" /\ Dead(http, t).cut = http.cut
      BY <1>1, <2>1, <2>3, DeadIsLoose DEF SameCalls
    <3> QED
      BY <2>3, <3>1, StopRejectsIsWeak DEF Keeps
  <2>4. CASE http' \in StopConnection(Dead([http EXCEPT !.stop = "after"], t))
    BY <2>2, <2>4 DEF Keeps
  <2>5. ASSUME NEW x \in StopConnection(Dead([http EXCEPT !.stop = "after"], t)),
               http' = IF x.state = "Connecting" THEN StopRejects(x) ELSE x
        PROVE  Keeps
    <3>1. Weak(x) /\ x.cut = http.cut
      BY <2>2
    <3>2. CASE x.state = "Connecting"
      BY <2>5, <3>1, <3>2, StopRejectsIsWeak DEF Keeps, Weak
    <3>3. CASE x.state # "Connecting"
      BY <2>5, <3>1, <3>3 DEF Keeps
    <3> QED
      BY <3>2, <3>3
  <2>6. CASE Deleted(t)
    BY <2>3, <2>4, <2>6 DEF Deleted
  <2>7. CASE DeleteFails(t)
    BY <2>5, <2>7 DEF DeleteFails
  <2> QED
    BY <1>4, <2>6, <2>7
<1> QED
  BY <1>2, <1>3, <1>4

LEMMA CallsKeep ==
  ASSUME Weak(http), Start \/ Stop
  PROVE  Keeps
<1>1. http \in HTTP /\ Loose(http)
  BY DEF Weak
<1>2. CASE Start
  <2>1. /\ http' = StartCall(http) /\ Room(http) /\ http.state = "Disconnected"
        /\ http.start = "idle"
    BY <1>2 DEF Start
  <2>2. /\ ~http.started /\ http.queue = NoSend /\ http.tried = 0
        /\ \A t \in Slots : http.slots[t].status # "opening"
    BY <1>1, <2>1 DEF Loose, TriedInv
  <2>3. Weak(StartCall(http)) /\ StartCall(http).cut = http.cut
    BY <1>1, <2>1, <2>2, StartCallIsWeak
  <2> QED
    BY <2>1, <2>3 DEF Keeps
<1>3. CASE Stop
  <2>1. /\ http' \in HTTP /\ http'.state = "Disconnecting" /\ http'.stop = "start"
        /\ http'.start = http.start /\ http'.started = http.started /\ http'.cut = http.cut
        /\ http'.transport = http.transport /\ http'.slots = http.slots
        /\ http'.tried = http.tried /\ http'.offer = http.offer /\ http'.queue = http.queue
        /\ http'.via = http.via
    BY <1>1, <1>3 DEF Stop, HTTP
  <2>2. Loose(http')
    BY <1>1, <2>1 DEF Loose, TriedInv
  <2> QED
    BY <2>1, <2>2 DEF Keeps, Weak
<1> QED
  BY <1>2, <1>3

\* A lost source: its connection may be cut from then on, but stays so.
LEMMA LostMovesAreWeak ==
  ASSUME Weak(http), NEW s \in Sources, LostEnds(s) \/ LostOpens(s) \/ LostCloses(s)
  PROVE  Weak(http') /\ (http.cut => http'.cut)
<1>1. http \in HTTP /\ Loose(http)
  BY DEF Weak
<1>2. CASE LostEnds(s) \/ LostOpens(s)
  <2>1. PICK status \in {"open", "gone"} : http' = [http EXCEPT !.lost[s] = status]
    BY <1>2 DEF LostEnds, LostOpens
  <2>2. http' \in HTTP /\ SameCalls(http', http) /\ http'.slots = http.slots
    BY ZenonT(30), <1>1, <2>1, LostTyped
  <2> QED
    BY <2>2, WeakFrame
<1>3. CASE LostCloses(s)
  <2> DEFINE h == [http EXCEPT !.lost[s] = "gone", !.cut = @ \/ http.state # "Disconnected"]
  <2>1. http' \in StopConnection(h) /\ Room(http)
    BY <1>3 DEF LostCloses
  <2>2. /\ h \in HTTP /\ h.cut = (http.cut \/ http.state # "Disconnected")
        /\ h.slots = http.slots /\ h.state = http.state /\ h.started = http.started
        /\ h.start = http.start /\ h.offer = http.offer /\ h.tried = http.tried
        /\ h.queue = http.queue
    BY ZenonT(60), <1>1, CutTyped
  <2> HIDE DEF h
  <2>3. Loose(h) /\ Room(h)
    BY <1>1, <2>1, <2>2, LooseFrame DEF Room, Alive
  <2>4. Weak(http')
    BY <2>1, <2>2, <2>3, StopConnectionIsWeak
  <2>5. http'.cut = h.cut
    BY <2>1, <2>2, StopConnectionKeepsCut
  <2> QED
    BY <2>2, <2>4, <2>5
<1> QED
  BY <1>2, <1>3

--------------------------------------------------------------------------------
(* The theorems                                                                *)

LEMMA InitHttp ==
  ASSUME Init
  PROVE  HttpInv(http)
<1>1. Free \in [kind : Kinds, status : {"free", "made", "opening", "open", "aborting", "deleting"}]
      /\ Free.status = "free"
  BY DEF Free, Kinds
<1>2. [t \in Slots |-> Free] \in [Slots -> [kind : Kinds, status :
                             {"free", "made", "opening", "open", "aborting", "deleting"}]]
  BY <1>1
<1>3. /\ http \in HTTP /\ http.state = "Disconnected" /\ http.started = FALSE
      /\ http.start = "idle" /\ http.stop = "idle" /\ http.resolved = TRUE
      /\ http.transport = NoSlot /\ http.slots = [t \in Slots |-> Free]
      /\ http.tried = 0 /\ http.offer = <<>> /\ http.queue = NoSend
  <2>1. [s \in Sources |-> "none"] \in [Sources -> {"none", "retrying", "open", "gone"}]
    OBVIOUS
  <2> QED
    BY <1>2, <2>1, ConstantTyping DEF Init, HTTP
<1>4. Own(http) /\ Status(http) = "free"
  BY <1>1, <1>3, EmptyFacts DEF Empty, Alive
<1> QED
  BY <1>3, <1>4, ConstantTyping DEF HttpInv, TriedInv, StartInv, StopInv, QueueInv, Starting

LEMMA InitIsWeak ==
  ASSUME Init
  PROVE  Weak(http) /\ ~http.cut
<1>1. /\ http \in HTTP /\ http.start = "idle" /\ ~http.started /\ http.state = "Disconnected"
      /\ http.stop = "idle" /\ http.queue = NoSend /\ http.tried = 0 /\ http.offer = <<>>
      /\ ~http.cut
  BY InitHttp DEF Init, HttpInv
<1>2. http.slots = [t \in Slots |-> Free] /\ Free.status = "free"
  BY DEF Init, Free
<1>3. \A t \in Slots : http.slots[t].status = "free"
  BY <1>2
<1>4. Len(http.offer) = 0 /\ TriedInv(http)
  BY <1>1 DEF TriedInv
<1>5. Loose(http)
  BY <1>1, <1>3, <1>4 DEF Loose
<1> QED
  BY <1>1, <1>5 DEF Weak

\* What only a lost source may do.
Strays == \E s \in Sources : LostEnds(s) \/ LostOpens(s) \/ LostCloses(s)

LEMMA NextIsGood ==
  ASSUME HttpInv(http), Next, Strays => ~http'.cut
  PROVE  Good(http')
<1>1. CASE Continuation
  BY <1>1, OpenedIsGood, StoppedInStartIsGood, StopTransportIsGood, StopEndsIsGood, SendsAreGood
  DEF Continuation
<1>2. CASE Negotiation \/ Redirected
  BY <1>2, NegotiatedIsGood, NegotiateFailsIsGood, RedirectedIsGood DEF Negotiation
<1>3. ASSUME NEW t \in Slots, ConnectEnds(t)
      PROVE  Good(http')
  <2>1. CASE SocketOpens(t) \/ SourceOpens(t)
    BY <2>1, ConnectsIsGood DEF SocketOpens, SourceOpens
  <2>2. CASE SocketFails(t) \/ SourceFails(t)
    BY <2>2, ConnectFailsIsGood DEF SocketFails, SourceFails
  <2>3. CASE FirstPoll(t)
    BY <2>3, ConnectsIsGood, ConnectFailsIsGood DEF FirstPoll
  <2>4. CASE FirstPollEnds(t)
    BY <2>4, FirstPollEndsIsGood
  <2>5. CASE \E s \in Sources : SourceLost(t, s)
    BY <2>5, SourceLostIsGood
  <2> QED
    BY <1>3, <2>1, <2>2, <2>3, <2>4, <2>5 DEF ConnectEnds
<1>4. ASSUME NEW t \in Slots, SocketCloses(t) \/ SourceCloses(t) \/ PollFails(t)
      PROVE  Good(http')
  BY <1>4, ClosesIsGood DEF SocketCloses, SourceCloses, PollFails
<1>5. ASSUME NEW t \in Slots, PollEnds(t) \/ Deleted(t) \/ DeleteFails(t)
      PROVE  Good(http')
  BY <1>5, PollEndsIsGood, DeletedIsGood
<1>6. CASE \E q \in Queues(http), outcome \in {"sent", "failed"} : SendSettles(q, outcome)
  BY <1>6, SendsAreGood
<1>7. CASE Start \/ Stop \/ \E m \in Sends : Send(m)
  BY <1>7, StartIsGood, StopIsGood, SendIsGood
<1>8. CASE Strays
  BY <1>8, LostIsGood DEF Strays
<1> QED
  BY <1>1, <1>2, <1>3, <1>4, <1>5, <1>6, <1>7, <1>8 DEF Next, Strays

LEMMA NextIsWeak ==
  ASSUME Weak(http), Next
  PROVE  Weak(http') /\ (http.cut => http'.cut) /\ (~Strays => http'.cut = http.cut)
<1>1. CASE Strays
  BY <1>1, LostMovesAreWeak DEF Strays
<1>2. CASE ~Strays
  <2>1. ASSUME Continuation PROVE Keeps
    BY <2>1, StartMovesKeep, StopMovesKeep, SendMovesKeep DEF Continuation
  <2>2. ASSUME Negotiation \/ Redirected PROVE Keeps
    BY <2>2, NegotiationKeeps
  <2>3. ASSUME NEW t \in Slots, \/ ConnectEnds(t)
                                \/ SocketCloses(t) \/ SourceCloses(t) \/ PollFails(t)
                                \/ PollEnds(t) \/ Deleted(t) \/ DeleteFails(t)
        PROVE  Keeps
    BY <2>3, ConnectMovesKeep, CloseMovesKeep
  <2>4. ASSUME \/ \E q \in Queues(http), outcome \in {"sent", "failed"} : SendSettles(q, outcome)
               \/ \E m \in Sends : Send(m)
        PROVE  Keeps
    BY <2>4, SendMovesKeep
  <2>5. ASSUME Start \/ Stop PROVE Keeps
    BY <2>5, CallsKeep
  <2>6. Keeps
    BY <1>2, <2>1, <2>2, <2>3, <2>4, <2>5 DEF Next, Strays
  <2> QED
    BY <2>6 DEF Keeps
<1> QED
  BY <1>1, <1>2

\* HttpInv is an invariant until a lost source stops a connection, and Weak is one for ever.
Inv == Weak(http) /\ (http.cut \/ HttpInv(http))

LEMMA StepKeepsInv ==
  ASSUME Inv, [Next]_http
  PROVE  /\ Inv' /\ (http.cut => http'.cut)
         /\ ~http'.cut => Allowed(Conn(http), Conn(http'))
<1>1. CASE Next
  <2>1. /\ Weak(http') /\ (http.cut => http'.cut) /\ (~Strays => http'.cut = http.cut)
    BY <1>1, NextIsWeak DEF Inv
  <2>2. ASSUME ~http'.cut
        PROVE  Good(http')
    BY <1>1, <2>1, <2>2, NextIsGood DEF Inv
  <2> QED
    BY <2>1, <2>2 DEF Inv, Good
<1>2. CASE UNCHANGED http
  BY <1>2 DEF Inv, Allowed
<1> QED
  BY <1>1, <1>2

\* Inv is an invariant.
THEOREM HttpInvariant ==
  Spec => []Inv
<1>1. Init => Inv
  BY InitHttp, InitIsWeak DEF Inv
<1>2. Inv /\ [Next]_http => Inv'
  BY StepKeepsInv
<1> QED
  BY <1>1, <1>2, PTL DEF Spec

\* Every field has its type (HttpConnection.ts:60-87, TransportSendQueue), and a start that
\* negotiates finds its transport, whatever lost sources do.
THEOREM TypeCorrect ==
  Spec => []TypeOK
<1>1. Inv => TypeOK
  <2> SUFFICES ASSUME Inv PROVE TypeOK
    OBVIOUS
  <2>1. http \in HTTP /\ http.tried <= Len(http.offer)
    BY DEF Inv, Weak, Loose, TriedInv
  <2>2. Len(http.offer) \in Nat /\ http.tried \in Nat
    BY <2>1, ConstantTyping DEF HTTP
  <2>3. http.tried \in 0 .. Len(http.offer)
    BY <2>1, <2>2
  <2> QED
    BY <2>1, <2>3 DEF TypeOK, HTTP, Kinds
<1> QED
  BY <1>1, HttpInvariant, PTL

\* However it is used, and until an event source that nobody closed has stopped a
\* connection that is not its own: of the transports that are not given up at most one can
\* still act, and none that belongs to an earlier start is alive beside the present one.
THEOREM OneTransport ==
  Spec => [](http.cut \/ \A s, t \in Slots : Alive(http, s) /\ Alive(http, t) => s = t)
<1>1. Inv => http.cut \/ \A s, t \in Slots : Alive(http, s) /\ Alive(http, t) => s = t
  BY DEF Inv, HttpInv, Own
<1> QED
  BY <1>1, HttpInvariant, PTL

\* And it is the connection's transport, in every order of answers, closes, fallbacks,
\* stops and restarts, unless a stop forgets the transport of the start that came next.
THEOREM NoStrayTransport ==
  ASSUME ~Forgets
  PROVE  Spec => [](http.cut \/ \A t \in Slots : Alive(http, t) => http.transport = t)
<1>1. Inv => http.cut \/ \A t \in Slots : Alive(http, t) => http.transport = t
  BY DEF Inv, HttpInv, Own
<1> QED
  BY <1>1, HttpInvariant, PTL

\* And a connection that says it is Connected has a transport that is open, unless the
\* server ended it with the answer to the first poll, or a lost source stopped it.
THEOREM OnlyItsOwnTransport ==
  ASSUME ~Forgets, ~FirstPollMayEnd
  PROVE  Spec => []OwnTransport
<1>1. Inv => OwnTransport
  <2> SUFFICES ASSUME HttpInv(http) PROVE OwnTransport
    BY DEF Inv, OwnTransport
  <2>1. http \in HTTP /\ Own(http)
    BY DEF HttpInv
  <2>2. \A t \in Slots : Alive(http, t) => http.transport = t
    BY <2>1 DEF Own
  <2>3. http.state = "Connected" => Status(http) = "open"
    BY DEF HttpInv, StartInv, Bare
  <2>4. Status(http) # "free" => \E t \in Slots : Alive(http, t) /\ http.slots[t].status = Status(http)
    BY <2>1, StatusFacts
  <2> QED
    BY <2>2, <2>3, <2>4, ConstantTyping DEF OwnTransport
<1> QED
  BY <1>1, HttpInvariant, PTL

\* send() never buffers in the queue of a transport that is gone, whatever stopped it: a
\* connection, a stop or a lost source.
THEOREM QueueIsOfTransport ==
  Spec => []QueueOfTransport
<1>1. Inv => QueueOfTransport
  BY DEF Inv, Weak, Loose, QueueOfTransport
<1> QED
  BY <1>1, HttpInvariant, PTL

\* The safety part of ImplementsConnection: a start opens or is refused, and is always
\* refused when it was stopped; only an open connection closes, and once.  A connection
\* that a lost source stops is closed with that, and promises nothing more.
THEOREM ImplementsContract ==
  Spec => Contract!Spec
<1>1. conn = IF http.cut THEN "disconnected" ELSE Conn(http)
  BY DEF conn, Conn
<1>2. Init => Contract!Init
  BY <1>1, InitIsWeak DEF Init, Conn, Contract!Init
<1>3. Inv /\ [Next]_http => [Contract!Next]_conn
  <2> SUFFICES ASSUME Inv, [Next]_http
               PROVE  Contract!Next \/ conn' = conn
    OBVIOUS
  <2>1. conn' = IF http'.cut THEN "disconnected" ELSE Conn(http')
    BY DEF conn, Conn
  <2>2. CASE ~http'.cut
    <3>1. ~http.cut /\ Allowed(Conn(http), Conn(http'))
      BY <2>2, StepKeepsInv
    <3>2. Allowed(conn, conn')
      BY <1>1, <2>1, <2>2, <3>1
    <3> QED
      BY <3>2
      DEF Allowed, Contract!Next, Contract!Start, Contract!Open, Contract!Refuse, Contract!Stop,
          Contract!Close, Contract!Restart
  <2>3. CASE http'.cut
    <3>1. conn' = "disconnected"
      BY <2>1, <2>3
    <3>2. conn \in {"disconnected", "connecting", "aborting", "connected", "disconnecting"}
      BY <1>1 DEF Conn
    <3> QED
      BY <3>1, <3>2 DEF Contract!Next, Contract!Refuse, Contract!Close
  <2> QED
    BY <2>2, <2>3
<1> QED
  BY <1>2, <1>3, HttpInvariant, PTL DEF Spec, Contract!Spec
================================================================================
