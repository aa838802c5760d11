-------------------------- MODULE HubConnection_proofs --------------------------
(***************************************************************************)
(* Proofs about HubConnection, for any calls and stops and any policy:     *)
(* types, a connected hub has shaken hands over its present connection,    *)
(* its timers fit that connection, no call is forgotten, a stop is final.  *)
(* Types and calls need nothing else; the rest needs that nobody starts    *)
(* the hub again while an attempt to reconnect is left (~Overlap).         *)
(***************************************************************************)
EXTENDS HubConnection, TLAPS

--------------------------------------------------------------------------------
(* The inductive invariant                                                     *)

Places == {"idle", "connecting", "refused", "sending", "handshaking", "returning",
           "stopping", "stopped"}

HUB == [state     : States,
        started   : BOOLEAN,
        stopErr   : BOOLEAN,
        answered  : BOOLEAN,
        owner     : Callers,
        shake     : [Callers -> {"pending", "resolved", "rejected"}],
        at        : [Callers -> Places],
        promise   : BOOLEAN,
        stop      : [Stoppers -> {"idle", "closing", "closed"}],
        waiting   : SUBSET Stoppers,
        delayed   : BOOLEAN,
        tries     : 0 .. Retries,
        timeouts  : 0 .. 1,
        ping      : {"none", "running", "over"},
        conn      : {"disconnected", "connecting", "aborting", "connected", "disconnecting"},
        call      : [Calls -> {"new", "open", "ended", "disposed"}],
        streams   : SUBSET Calls,
        callbacks : SUBSET Calls,
        send      : [Calls -> {"none", "going", "refused"}],
        lateStop  : BOOLEAN,
        lateClose : BOOLEAN]

\* Where the one _startInternal is that runs, if any.
At(h) == h.at[h.owner]

\* What the state tells of who runs _startInternal.
RunInv(h) ==
  /\ \A c \in Callers : h.at[c] # "idle" => c = h.owner
  /\ h.state \in {"Connected", "Reconnecting"}  => h.started
  /\ h.state \in {"Connecting", "Disconnected"} => ~h.started
  /\ h.state = "Disconnecting" => (h.started <=> h.at["start"] = "idle")
  /\ h.state = "Connecting"    => h.at["start"] # "idle"
  /\ h.at["start"] # "idle"    => h.state \in {"Connecting", "Disconnecting"}
  /\ h.state = "Connected"     => h.at["reconnect"] = "idle"
  /\ h.state = "Disconnected"  => h.conn = "disconnected"
  /\ h.delayed => h.state = "Reconnecting" /\ At(h) = "idle" /\ h.conn = "disconnected"
  /\ h.state = "Disconnecting" /\ At(h) = "returning" => h.lateStop

\* What the connection tells of it.
ConnInv(h) ==
  /\ h.conn \in {"connecting", "aborting"} <=> At(h) = "connecting"
  /\ At(h) \in {"refused", "stopped"} => h.conn = "disconnected"
  /\ At(h) = "stopping" => h.conn = "disconnecting"
  /\ At(h) = "returning" => h.conn \in {"connected", "disconnecting"}

\* A handshake that is over was answered, unless it is bound to be refused for a stop.
ShakeInv(h) ==
  /\ At(h) = "connecting" \/ h.answered => (h.shake[h.owner] = "pending" <=> ~h.answered)
  /\ At(h) # "idle" /\ h.state \in {"Disconnecting", "Disconnected"} => h.stopErr
  /\ At(h) \in {"sending", "handshaking"} =>
       /\ h.conn = "disconnected" => h.stopErr /\ h.shake[h.owner] # "pending"
       /\ h.shake[h.owner] = "resolved" => h.answered \/ h.stopErr
  /\ At(h) = "returning" => h.answered

\* A timer of the server's silence is left only after the send of a handshake request
\* that came too late; a ping waits only where the handshake was answered.
TimerInv(h) ==
  /\ InherentKeepAlive => h.timeouts = 0 /\ h.ping = "none"
  /\ h.conn \in {"disconnected", "connecting", "aborting"} =>
       h.ping = "none" /\ (At(h) = "handshaking" \/ h.timeouts = 0)
  /\ ~h.answered => h.ping = "none"
  /\ h.state = "Connected" \/ At(h) \in {"handshaking", "returning"} => h.ping # "over"

CallInv(h) ==
  \A i \in Calls : h.call[i] = "open" =>
    i \in h.callbacks /\ (h.conn \in {"connected", "disconnecting"} \/ h.send[i] = "refused")

Core(h) == h \in HUB /\ RunInv(h) /\ ConnInv(h) /\ ShakeInv(h) /\ TimerInv(h) /\ CallInv(h)

\* A hub may be told of a close while it is Connected, and no longer after that.
HubInv(h) ==
  /\ Core(h)
  /\ h.state = "Connected" => h.answered /\ h.conn \in {"connected", "disconnecting"}

Up == {"connected", "disconnecting"}

\* What the user's calls and the server's messages lead to, from h.
Leads(h, y) ==
  /\ HubInv(y)
  /\ y.state = h.state \/ y.state \in {"Connecting", "Disconnecting", "Disconnected"}
  /\ h.conn \in Up => y.conn \in Up /\ y.answered = h.answered
                      /\ (h.timeouts = 0 => y.timeouts = 0)

--------------------------------------------------------------------------------
(* What the operators do to the fields                                         *)

SameRun(h, y) ==
  /\ y.state = h.state /\ y.started = h.started /\ y.owner = h.owner
  /\ y.at = h.at /\ y.delayed = h.delayed
  /\ y.lateStop = h.lateStop /\ y.lateClose = h.lateClose

SameShake(h, y) == y.stopErr = h.stopErr /\ y.answered = h.answered /\ y.shake = h.shake

SameTimers(h, y) == y.timeouts = h.timeouts /\ y.ping = h.ping

SameCalls(h, y) == y.call = h.call /\ y.callbacks = h.callbacks /\ y.send = h.send

LEMMA NoTimeouts ==
  ASSUME NEW h \in HUB
  PROVE  LET y == CleanupTimeout(h) IN
           /\ y \in HUB /\ SameRun(h, y) /\ SameShake(h, y) /\ SameCalls(h, y)
           /\ y.conn = h.conn /\ y.timeouts = 0 /\ y.ping = h.ping
<1>1. h.timeouts \in 0 .. 1
  BY DEF HUB
<1>2. CleanupTimeout(h) = [h EXCEPT !.timeouts = 0]
  BY <1>1 DEF CleanupTimeout
<1> QED
  BY <1>2 DEF HUB, SameRun, SameShake, SameCalls

LEMMA NoTimers ==
  ASSUME NEW h \in HUB
  PROVE  LET y == CleanupBoth(h) IN
           /\ y \in HUB /\ SameRun(h, y) /\ SameShake(h, y) /\ SameCalls(h, y)
           /\ y.conn = h.conn /\ y.timeouts = 0 /\ y.ping = "none"
<1> DEFINE x == CleanupTimeout(h)
<1>1. /\ x \in HUB /\ SameRun(h, x) /\ SameShake(h, x) /\ SameCalls(h, x)
      /\ x.conn = h.conn /\ x.timeouts = 0
  BY NoTimeouts
<1>2. CleanupBoth(h) = [x EXCEPT !.ping = "none"]
  BY DEF CleanupBoth, CleanupPing
<1> HIDE DEF x
<1> QED
  BY <1>1, <1>2 DEF HUB, SameRun, SameShake, SameCalls

LEMMA KeepAliveReset ==
  ASSUME NEW h \in HUB
  PROVE  LET y == ResetKeepAlive(h) IN
           /\ y \in HUB /\ SameRun(h, y) /\ SameShake(h, y) /\ SameCalls(h, y)
           /\ y.conn = h.conn /\ y.timeouts = h.timeouts
           /\ y.ping = IF InherentKeepAlive THEN h.ping ELSE "none"
BY DEF ResetKeepAlive, CleanupPing, HUB, SameRun, SameShake, SameCalls

LEMMA TimeoutReset ==
  ASSUME NEW h \in HUB, h.timeouts = 0
  PROVE  LET y == ResetTimeout(h) IN
           /\ y \in HUB /\ SameRun(h, y) /\ SameShake(h, y) /\ SameCalls(h, y)
           /\ y.conn = h.conn /\ y.timeouts = IF InherentKeepAlive THEN 0 ELSE 1
           /\ y.ping = IF ~InherentKeepAlive /\ h.ping = "none" THEN "running" ELSE h.ping
<1>1. CASE InherentKeepAlive
  BY <1>1 DEF ResetTimeout, SameRun, SameShake, SameCalls
<1>2. CASE ~InherentKeepAlive
  <2> DEFINE ping == IF h.ping = "none" THEN "running" ELSE h.ping
  <2>1. ping \in {"none", "running", "over"}
    BY DEF HUB
  <2>2. ResetTimeout(h) = [h EXCEPT !.timeouts = 1, !.ping = ping]
    BY <1>2 DEF ResetTimeout
  <2> HIDE DEF ping
  <2> DEFINE x == [h EXCEPT !.timeouts = 1]
  <2>3. /\ x \in HUB /\ SameRun(h, x) /\ SameShake(h, x) /\ SameCalls(h, x)
        /\ x.conn = h.conn /\ x.timeouts = 1
    BY DEF HUB, SameRun, SameShake, SameCalls
  <2>4. ResetTimeout(h) = [x EXCEPT !.ping = ping]
    BY <2>2
  <2> HIDE DEF x
  <2>5. LET y == ResetTimeout(h) IN
          /\ y \in HUB /\ SameRun(h, y) /\ SameShake(h, y) /\ SameCalls(h, y)
          /\ y.conn = h.conn /\ y.timeouts = 1 /\ y.ping = ping
    BY <2>1, <2>3, <2>4 DEF HUB, SameRun, SameShake, SameCalls
  <2> QED
    BY <1>2, <2>5 DEF ping
<1> QED
  BY <1>1, <1>2

LEMMA ConnStops ==
  ASSUME NEW h \in HUB
  PROVE  LET y == ConnStop(h) IN
           /\ y \in HUB /\ SameRun(h, y) /\ SameShake(h, y) /\ SameTimers(h, y) /\ SameCalls(h, y)
           /\ h.conn = "connecting" => y.conn = "aborting"
           /\ h.conn = "connected" => y.conn = "disconnecting"
           /\ h.conn \notin {"connecting", "connected"} => y.conn = h.conn
<1> DEFINE conn == CASE h.conn = "connecting" -> "aborting"
                     [] h.conn = "connected"  -> "disconnecting"
                     [] OTHER                 -> h.conn
<1>1. conn \in {"disconnected", "connecting", "aborting", "connected", "disconnecting"}
  BY DEF HUB
<1>2. ConnStop(h) = [h EXCEPT !.conn = conn]
  BY DEF ConnStop, HUB
<1> HIDE DEF conn
<1>3. LET y == ConnStop(h) IN
        /\ y \in HUB /\ SameRun(h, y) /\ SameShake(h, y) /\ SameTimers(h, y) /\ SameCalls(h, y)
        /\ y.conn = conn
  BY <1>1, <1>2 DEF HUB, SameRun, SameShake, SameTimers, SameCalls
<1> QED
  BY <1>3 DEF conn

\* One _startInternal goes on to another place.
LEMMA GoesTo ==
  ASSUME NEW h \in HUB, NEW c \in Callers, NEW where \in Places
  PROVE  LET y == Goto(h, c, where) IN
           /\ y \in HUB /\ SameShake(h, y) /\ SameTimers(h, y) /\ SameCalls(h, y)
           /\ y.state = h.state /\ y.started = h.started /\ y.owner = h.owner
           /\ y.delayed = h.delayed /\ y.conn = h.conn
           /\ y.lateStop = h.lateStop /\ y.lateClose = h.lateClose
           /\ y.at = [h.at EXCEPT ![c] = where]
<1> DEFINE at == [h.at EXCEPT ![c] = where]
<1>1. at \in [Callers -> Places]
  BY DEF HUB
<1>2. Goto(h, c, where) = [h EXCEPT !.at = at]
  BY DEF Goto, HUB
<1> HIDE DEF at
<1>3. LET y == Goto(h, c, where) IN
           /\ y \in HUB /\ SameShake(h, y) /\ SameTimers(h, y) /\ SameCalls(h, y)
           /\ y.state = h.state /\ y.started = h.started /\ y.owner = h.owner
           /\ y.delayed = h.delayed /\ y.conn = h.conn
           /\ y.lateStop = h.lateStop /\ y.lateClose = h.lateClose
           /\ y.at = at
  BY <1>1, <1>2 DEF HUB, SameShake, SameTimers, SameCalls
<1> QED
  BY <1>3 DEF at

--------------------------------------------------------------------------------
(* What keeps the invariant                                                    *)

LEMMA LessTimersKeep ==
  ASSUME NEW h, NEW y \in HUB, SameRun(h, y), SameShake(h, y), SameCalls(h, y), y.conn = h.conn,
         y.timeouts \in {0, h.timeouts}, y.ping \in {"none", h.ping}
  PROVE  /\ Core(h) => Core(y)
         /\ HubInv(h) => Leads(h, y)
<1>1. Core(h) => RunInv(y) /\ ConnInv(y) /\ ShakeInv(y)
  BY DEF Core, RunInv, ConnInv, ShakeInv, SameRun, SameShake, At
<1>2. Core(h) => TimerInv(y)
  BY DEF Core, TimerInv, SameRun, SameShake, At
<1>3. Core(h) => CallInv(y)
  BY DEF Core, CallInv, SameCalls
<1>4. Core(h) => Core(y)
  BY <1>1, <1>2, <1>3 DEF Core
<1> QED
  BY <1>4 DEF HubInv, Leads, SameRun, SameShake

LEMMA ConnStopKeeps ==
  ASSUME NEW h, HubInv(h)
  PROVE  Leads(h, ConnStop(h))
<1> DEFINE y == ConnStop(h)
<1>1. h \in HUB
  BY DEF HubInv, Core
<1>2. /\ y \in HUB /\ SameRun(h, y) /\ SameShake(h, y) /\ SameTimers(h, y) /\ SameCalls(h, y)
      /\ h.conn = "connecting" => y.conn = "aborting"
      /\ h.conn = "connected" => y.conn = "disconnecting"
      /\ h.conn \notin {"connecting", "connected"} => y.conn = h.conn
  BY <1>1, ConnStops
<1> HIDE DEF y
<1>3. RunInv(y)
  BY <1>2 DEF HubInv, Core, RunInv, SameRun, At
<1>4. ConnInv(y)
  BY <1>2 DEF HubInv, Core, ConnInv, SameRun, At
<1>5. ShakeInv(y)
  BY <1>2 DEF HubInv, Core, ShakeInv, SameRun, SameShake, At
<1>6. TimerInv(y)
  BY <1>2 DEF HubInv, Core, TimerInv, SameRun, SameShake, SameTimers, At
<1>7. CallInv(y)
  BY <1>2 DEF HubInv, Core, CallInv, SameCalls
<1>8. HubInv(y) /\ y.state = h.state
  BY <1>2, <1>3, <1>4, <1>5, <1>6, <1>7 DEF HubInv, Core, SameRun, SameShake
<1>9. h.conn \in Up => y.conn \in Up /\ y.answered = h.answered /\ y.timeouts = h.timeouts
  BY <1>2 DEF Up, SameShake, SameTimers
<1> QED
  BY <1>8, <1>9 DEF Leads, y

\* A start over a connection that is gone, nobody else running _startInternal.
LEMMA StartInternalKeeps ==
  ASSUME NEW h \in HUB, NEW c \in Callers, CallInv(h),
         h.conn = "disconnected", h.timeouts = 0, h.ping = "none", ~h.delayed,
         \A b \in Callers : h.at[b] = "idle",
         \/ c = "start" /\ h.state = "Connecting" /\ ~h.started
         \/ c = "reconnect" /\ h.state = "Reconnecting" /\ h.started
  PROVE  HubInv(StartInternal(h, c)) /\ StartInternal(h, c).state = h.state
<1> DEFINE y     == StartInternal(h, c)
<1> DEFINE at    == [h.at EXCEPT ![c] = "connecting"]
<1> DEFINE shake == [h.shake EXCEPT ![c] = "pending"]
<1>1. /\ at \in [Callers -> Places] /\ at[c] = "connecting"
      /\ \A b \in Callers : b # c => at[b] = "idle"
      /\ shake \in [Callers -> {"pending", "resolved", "rejected"}] /\ shake[c] = "pending"
  BY DEF HUB, Places
<1>2. y = [h EXCEPT !.stopErr = FALSE, !.answered = FALSE, !.owner = c, !.shake = shake,
                    !.at = at, !.conn = "connecting"]
  BY DEF StartInternal, Stopped
<1> HIDE DEF at, shake
<1> DEFINE x == [h EXCEPT !.stopErr = FALSE, !.answered = FALSE, !.owner = c]
<1>3. /\ x \in HUB /\ x.stopErr = FALSE /\ x.answered = FALSE /\ x.owner = c
      /\ x.state = h.state /\ x.started = h.started /\ x.delayed = h.delayed
      /\ x.timeouts = 0 /\ x.ping = "none" /\ SameCalls(h, x)
  BY ZenonT(60) DEF HUB, SameCalls
<1> HIDE DEF x
<1> DEFINE z == [x EXCEPT !.shake = shake, !.conn = "connecting"]
<1>4. /\ z \in HUB /\ z.stopErr = FALSE /\ z.answered = FALSE /\ z.owner = c
      /\ z.state = h.state /\ z.started = h.started /\ z.delayed = h.delayed
      /\ z.timeouts = 0 /\ z.ping = "none" /\ SameCalls(h, z)
      /\ z.shake = shake /\ z.conn = "connecting"
  BY <1>1, <1>3 DEF HUB, SameCalls
<1>5. y = [z EXCEPT !.at = at]
  BY <1>2 DEF x
<1> HIDE DEF z
<1>6. /\ y \in HUB /\ y.stopErr = FALSE /\ y.answered = FALSE /\ y.owner = c
      /\ y.state = h.state /\ y.started = h.started /\ ~y.delayed
      /\ y.timeouts = 0 /\ y.ping = "none" /\ SameCalls(h, y)
      /\ y.shake = shake /\ y.at = at /\ y.conn = "connecting"
  BY <1>1, <1>4, <1>5 DEF HUB, SameCalls
<1> HIDE DEF y
<1>7. RunInv(y) /\ ConnInv(y) /\ ShakeInv(y) /\ TimerInv(y)
  BY <1>1, <1>6 DEF RunInv, ConnInv, ShakeInv, TimerInv, At, Callers
<1>8. CallInv(y)
  BY <1>6 DEF CallInv, SameCalls
<1> QED
  BY <1>6, <1>7, <1>8 DEF HubInv, Core, y

\* A change of fields the invariant does not read.
LEMMA OthersKeep ==
  ASSUME NEW h, HubInv(h), NEW y \in HUB, SameRun(h, y), SameShake(h, y), SameTimers(h, y),
         SameCalls(h, y), y.conn = h.conn
  PROVE  Leads(h, y)
BY LessTimersKeep DEF SameTimers

LEMMA LeadsOn ==
  ASSUME NEW h, NEW x, NEW y, Leads(h, x), Leads(x, y)
  PROVE  Leads(h, y)
BY DEF Leads

LEMMA StartCallKeeps ==
  ASSUME ~Overlap, NEW h, HubInv(h), h.state = "Disconnected" => MayStart(h)
  PROVE  Leads(h, StartCall(h))
<1>1. h \in HUB
  BY DEF HubInv, Core
<1>2. CASE h.state = "Disconnected"
  <2> DEFINE x == [h EXCEPT !.state = "Connecting", !.promise = TRUE]
  <2>1. /\ x \in HUB /\ x.state = "Connecting" /\ x.started = h.started /\ x.owner = h.owner
        /\ x.at = h.at /\ x.delayed = h.delayed /\ x.conn = h.conn
        /\ SameTimers(h, x) /\ SameCalls(h, x)
    BY <1>1 DEF HUB, States, SameTimers, SameCalls
  <2>2. StartCall(h) = StartInternal(x, "start")
    BY <1>2 DEF StartCall
  <2> HIDE DEF x
  <2>3. \A c \in Callers : x.at[c] = "idle"
    BY <1>2, <2>1 DEF MayStart, Callers
  <2>4. h.conn = "disconnected" /\ ~h.started /\ ~h.delayed
    BY <1>2 DEF HubInv, Core, RunInv
  <2>5. h.timeouts = 0 /\ h.ping = "none"
    <3>1. At(h) = "idle"
      BY <1>1, <2>1, <2>3 DEF At, HUB
    <3> QED
      BY <2>4, <3>1 DEF HubInv, Core, TimerInv
  <2>6. CallInv(x)
    BY <2>1 DEF HubInv, Core, CallInv, SameCalls
  <2>7. HubInv(StartCall(h)) /\ StartCall(h).state = "Connecting"
    BY <2>1, <2>2, <2>3, <2>4, <2>5, <2>6, StartInternalKeeps DEF SameTimers, Callers
  <2> QED
    BY <2>4, <2>7 DEF Leads, Up
<1>3. CASE h.state # "Disconnected"
  <2> DEFINE y == StartCall(h)
  <2>1. y = [h EXCEPT !.promise = FALSE]
    BY <1>3 DEF StartCall
  <2>2. /\ y \in HUB /\ SameRun(h, y) /\ SameShake(h, y) /\ SameTimers(h, y)
        /\ SameCalls(h, y) /\ y.conn = h.conn
    BY <1>1, <2>1 DEF HUB, SameRun, SameShake, SameTimers, SameCalls
  <2> HIDE DEF y
  <2>3. Leads(h, y)
    BY <2>2, OthersKeep
  <2> QED
    BY <2>3 DEF y
<1> QED
  BY <1>2, <1>3

\* A hub that closes is Disconnected, or has been started again by then.
LEMMA CompleteCloseKeeps ==
  ASSUME ~Overlap, NEW h, Core(h), h.conn = "disconnected", ~h.delayed,
         At(h) # "idle" => h.stopErr,
         NEW y \in CompleteClose(h)
  PROVE  /\ HubInv(y)
         /\ y.state = h.state \/ y.state \in {"Connecting", "Disconnecting", "Disconnected"}
         /\ h.started => y.state \in {"Connecting", "Disconnected"}
<1> DEFINE closed == [h EXCEPT !.state = "Disconnected", !.started = FALSE]
<1>1. h \in HUB
  BY DEF Core
<1>2. CASE ~h.started
  <2>1. y = h
    BY <1>2 DEF CompleteClose
  <2> QED
    BY <1>2, <2>1 DEF HubInv, Core, RunInv
<1>3. CASE h.started
  <2>1. y = closed \/ (MayStart(closed) /\ y = StartCall(closed))
    BY <1>3 DEF CompleteClose
  <2>2. /\ closed \in HUB /\ closed.state = "Disconnected" /\ closed.started = FALSE
        /\ closed.owner = h.owner /\ closed.at = h.at /\ closed.delayed = h.delayed
        /\ closed.conn = h.conn
        /\ SameShake(h, closed) /\ SameTimers(h, closed) /\ SameCalls(h, closed)
    BY <1>1 DEF HUB, States, SameShake, SameTimers, SameCalls
  <2> HIDE DEF closed
  <2>3. RunInv(closed)
    <3>1. h.at["start"] = "idle"
      BY <1>1, <1>3 DEF Core, RunInv, HUB, States
    <3> QED
      BY <2>2, <3>1 DEF Core, RunInv
  <2>4. ConnInv(closed)
    BY <2>2 DEF Core, ConnInv, At
  <2>5. ShakeInv(closed)
    BY <2>2 DEF Core, ShakeInv, SameShake, At
  <2>6. TimerInv(closed)
    BY <2>2 DEF Core, TimerInv, SameShake, SameTimers, At
  <2>7. CallInv(closed)
    BY <2>2 DEF Core, CallInv, SameCalls
  <2>8. HubInv(closed)
    BY <2>2, <2>3, <2>4, <2>5, <2>6, <2>7 DEF HubInv, Core
  <2>9. CASE y = closed
    BY <2>2, <2>8, <2>9
  <2>10. CASE MayStart(closed) /\ y = StartCall(closed)
    <3>1. Leads(closed, y)
      BY <2>8, <2>10, StartCallKeeps
    <3>2. y.state = "Connecting"
      BY <2>2, <2>10 DEF StartCall, StartInternal
    <3> QED
      BY <3>1, <3>2 DEF Leads
  <2> QED
    BY <2>1, <2>9, <2>10
<1> QED
  BY <1>2, <1>3

LEMMA StopInternalKeeps ==
  ASSUME ~Overlap, NEW h, HubInv(h), NEW y \in StopInternal(h)
  PROVE  Leads(h, y)
<1>1. h \in HUB
  BY DEF HubInv, Core
<1>2. CASE h.state \in {"Disconnected", "Disconnecting"}
  BY <1>2 DEF StopInternal, Leads
<1>3. CASE h.state \notin {"Disconnected", "Disconnecting"} /\ h.delayed
  <2> DEFINE x == [h EXCEPT !.state = "Disconnecting", !.delayed = FALSE]
  <2>1. y \in CompleteClose(x)
    BY <1>3 DEF StopInternal
  <2>2. /\ x \in HUB /\ x.state = "Disconnecting" /\ x.delayed = FALSE /\ x.started = h.started
        /\ x.owner = h.owner /\ x.at = h.at /\ x.conn = h.conn
        /\ SameShake(h, x) /\ SameTimers(h, x) /\ SameCalls(h, x)
    BY <1>1 DEF HUB, States, SameShake, SameTimers, SameCalls
  <2> HIDE DEF x
  <2>3. h.conn = "disconnected" /\ h.state = "Reconnecting" /\ At(h) = "idle" /\ h.started
    BY <1>3 DEF HubInv, Core, RunInv
  <2>4. At(x) = "idle" /\ h.at["start"] = "idle"
    BY <2>2, <2>3 DEF At, HubInv, Core, RunInv
  <2>5. RunInv(x)
    BY <2>2, <2>3, <2>4 DEF HubInv, Core, RunInv
  <2>6. ConnInv(x) /\ ShakeInv(x)
    BY <2>2, <2>3, <2>4 DEF HubInv, Core, ConnInv, ShakeInv, SameShake
  <2>7. TimerInv(x)
    BY <2>2, <2>3, <2>4 DEF HubInv, Core, TimerInv, SameShake, SameTimers
  <2>8. CallInv(x)
    BY <2>2 DEF HubInv, Core, CallInv, SameCalls
  <2>9. HubInv(y) /\ y.state \in {"Connecting", "Disconnected"}
    BY <2>1, <2>2, <2>3, <2>4, <2>5, <2>6, <2>7, <2>8, CompleteCloseKeeps DEF Core
  <2> QED
    BY <2>3, <2>9 DEF Leads, Up
<1>4. CASE h.state \notin {"Disconnected", "Disconnecting"} /\ ~h.delayed
  <2> DEFINE late == h.lateStop \/ Returning(h)
  <2> DEFINE x == [h EXCEPT !.state = "Disconnecting", !.stopErr = TRUE, !.lateStop = late]
  <2> DEFINE z == CleanupBoth(x)
  <2>0. late \in BOOLEAN /\ (At(h) = "returning" => late)
    BY <1>1 DEF Returning, At, HUB
  <2>1. y = ConnStop(z)
    BY <1>4 DEF StopInternal
  <2> HIDE DEF late
  <2>2. /\ x \in HUB /\ x.state = "Disconnecting" /\ x.stopErr = TRUE /\ x.started = h.started
        /\ x.owner = h.owner /\ x.at = h.at /\ x.delayed = h.delayed /\ x.conn = h.conn
        /\ x.answered = h.answered /\ x.shake = h.shake /\ x.lateStop = late
        /\ SameTimers(h, x) /\ SameCalls(h, x)
    BY <1>1, <2>0 DEF HUB, States, SameTimers, SameCalls
  <2> HIDE DEF x
  <2>3. /\ z \in HUB /\ SameRun(x, z) /\ SameShake(x, z) /\ SameCalls(x, z)
        /\ z.conn = x.conn /\ z.timeouts = 0 /\ z.ping = "none"
    BY <2>2, NoTimers
  <2> HIDE DEF z
  <2>4. /\ z.state = "Disconnecting" /\ z.stopErr = TRUE /\ z.started = h.started
        /\ z.owner = h.owner /\ z.at = h.at /\ z.delayed = h.delayed /\ z.conn = h.conn
        /\ z.answered = h.answered /\ z.shake = h.shake /\ z.lateStop = late /\ SameCalls(h, z)
    BY <2>2, <2>3 DEF SameRun, SameShake, SameCalls
  <2>5. RunInv(z)
    BY <1>1, <1>4, <2>0, <2>4 DEF HubInv, Core, RunInv, HUB, States, At
  <2>6. ConnInv(z) /\ ShakeInv(z)
    BY <2>4 DEF HubInv, Core, ConnInv, ShakeInv, At
  <2>7. TimerInv(z)
    BY <2>3 DEF TimerInv
  <2>8. CallInv(z)
    BY <2>4 DEF HubInv, Core, CallInv, SameCalls
  <2>9. HubInv(z)
    BY <2>3, <2>4, <2>5, <2>6, <2>7, <2>8 DEF HubInv, Core
  <2>10. Leads(h, z)
    BY <2>3, <2>4, <2>9 DEF Leads
  <2> QED
    BY <2>1, <2>9, <2>10, ConnStopKeeps, LeadsOn
<1> QED
  BY <1>2, <1>3, <1>4

LEMMA StopCallKeeps ==
  ASSUME ~Overlap, NEW h, HubInv(h), NEW p \in Stoppers, NEW y \in StopCall(h, p)
  PROVE  Leads(h, y)
<1> DEFINE at == IF Stopped(h) \/ h.state = "Disconnected" THEN "closed" ELSE "closing"
<1>1. PICK x \in StopInternal(h) :
        y = [x EXCEPT !.stop[p] = at, !.waiting = IF h.promise /\ x.promise THEN @ \cup {p} ELSE @]
  BY DEF StopCall
<1>2. Leads(h, x) /\ HubInv(x)
  BY StopInternalKeeps DEF Leads
<1>3. x \in HUB
  BY <1>2 DEF HubInv, Core
<1> DEFINE stop    == [x.stop EXCEPT ![p] = at]
<1> DEFINE waiting == IF h.promise /\ x.promise THEN x.waiting \cup {p} ELSE x.waiting
<1>4. stop \in [Stoppers -> {"idle", "closing", "closed"}] /\ waiting \in SUBSET Stoppers
  BY <1>3 DEF HUB
<1>5. y = [x EXCEPT !.stop = stop, !.waiting = waiting]
  BY <1>1, <1>3 DEF HUB
<1> HIDE DEF stop, waiting
<1>6. /\ y \in HUB /\ SameRun(x, y) /\ SameShake(x, y) /\ SameTimers(x, y)
      /\ SameCalls(x, y) /\ y.conn = x.conn
  BY <1>3, <1>4, <1>5 DEF HUB, SameRun, SameShake, SameTimers, SameCalls
<1>7. Leads(x, y)
  BY <1>2, <1>6, OthersKeep
<1> QED
  BY <1>2, <1>7, LeadsOn

LEMMA UserMayStopKeeps ==
  ASSUME ~Overlap, NEW h, HubInv(h), NEW y \in UserMayStop(h)
  PROVE  Leads(h, y)
<1>1. y = h \/ \E p \in Stoppers : y \in StopCall(h, p)
  BY DEF UserMayStop
<1>2. CASE y = h
  BY <1>2 DEF Leads
<1>3. ASSUME NEW p \in Stoppers, y \in StopCall(h, p)
      PROVE  Leads(h, y)
  BY <1>3, StopCallKeeps
<1> QED
  BY <1>1, <1>2, <1>3

--------------------------------------------------------------------------------
(* Calls                                                                       *)

LEMMA Ends ==
  ASSUME NEW h \in HUB, NEW I
  PROVE  LET y == End(h, I) IN
           /\ y \in HUB /\ SameRun(h, y) /\ SameShake(h, y) /\ SameTimers(h, y)
           /\ y.conn = h.conn /\ y.callbacks = h.callbacks /\ y.send = h.send
           /\ \A i \in Calls : y.call[i] = "open" => h.call[i] = "open" /\ i \notin I
<1> DEFINE call == [i \in Calls |-> IF i \in I /\ h.call[i] = "open" THEN "ended" ELSE h.call[i]]
<1>1. /\ call \in [Calls -> {"new", "open", "ended", "disposed"}]
      /\ \A i \in Calls : call[i] = "open" => h.call[i] = "open" /\ i \notin I
  BY DEF HUB
<1>2. End(h, I) = [h EXCEPT !.call = call]
  BY DEF End, HUB
<1> HIDE DEF call
<1> QED
  BY <1>1, <1>2 DEF HUB, SameRun, SameShake, SameTimers

LEMMA Forgets ==
  ASSUME NEW h \in HUB, NEW i
  PROVE  LET y == Forget(h, i) IN
           /\ y \in HUB /\ SameRun(h, y) /\ SameShake(h, y) /\ SameTimers(h, y)
           /\ y.conn = h.conn /\ y.callbacks = h.callbacks \ {i} /\ y.send = h.send
           /\ y.call = h.call
BY DEF Forget, HUB, SameRun, SameShake, SameTimers

\* Only calls have changed, and none is open that was not, or lost its callback.
LEMMA CallsKeep ==
  ASSUME NEW h, HubInv(h), NEW y \in HUB, SameRun(h, y), SameShake(h, y), SameTimers(h, y),
         y.conn = h.conn, CallInv(y)
  PROVE  Leads(h, y)
<1>1. RunInv(y) /\ ConnInv(y) /\ ShakeInv(y)
  BY DEF HubInv, Core, RunInv, ConnInv, ShakeInv, SameRun, SameShake, At
<1>2. TimerInv(y)
  BY DEF HubInv, Core, TimerInv, SameRun, SameShake, SameTimers, At
<1>3. HubInv(y)
  BY <1>1, <1>2 DEF HubInv, Core, SameRun, SameShake
<1> QED
  BY <1>3 DEF Leads, SameRun, SameShake, SameTimers

LEMMA EndKeeps ==
  ASSUME NEW h, HubInv(h), NEW I
  PROVE  Leads(h, End(h, I))
<1> DEFINE y == End(h, I)
<1>1. h \in HUB
  BY DEF HubInv, Core
<1>2. /\ y \in HUB /\ SameRun(h, y) /\ SameShake(h, y) /\ SameTimers(h, y)
      /\ y.conn = h.conn /\ y.callbacks = h.callbacks /\ y.send = h.send
      /\ \A i \in Calls : y.call[i] = "open" => h.call[i] = "open" /\ i \notin I
  BY <1>1, Ends
<1> HIDE DEF y
<1>3. CallInv(y)
  BY <1>2 DEF HubInv, Core, CallInv
<1>4. Leads(h, y)
  BY <1>2, <1>3, CallsKeep
<1> QED
  BY <1>4 DEF y

\* A call that is no longer open loses its callback.
LEMMA ForgetKeeps ==
  ASSUME NEW h, HubInv(h), NEW i, i \in Calls => h.call[i] # "open"
  PROVE  Leads(h, Forget(h, i))
<1> DEFINE y == Forget(h, i)
<1>1. h \in HUB
  BY DEF HubInv, Core
<1>2. /\ y \in HUB /\ SameRun(h, y) /\ SameShake(h, y) /\ SameTimers(h, y)
      /\ y.conn = h.conn /\ y.callbacks = h.callbacks \ {i} /\ y.send = h.send
      /\ y.call = h.call
  BY <1>1, Forgets
<1> HIDE DEF y
<1>3. CallInv(y)
  BY <1>2 DEF HubInv, Core, CallInv
<1>4. Leads(h, y)
  BY <1>2, <1>3, CallsKeep
<1> QED
  BY <1>4 DEF y

--------------------------------------------------------------------------------
(* Steps                                                                       *)

Good(y) ==
  /\ HubInv(y)
  /\ hub.state = "Disconnecting" /\ ~hub.lateStop => y.state \notin {"Connected", "Reconnecting"}

LEMMA LeadsIsGood ==
  ASSUME NEW y, Leads(hub, y)
  PROVE  Good(y)
BY DEF Leads, Good

LEMMA StoppedAtOnce ==
  ASSUME NEW h \in HUB, h.state \notin {"Disconnected", "Disconnecting"}, ~h.delayed,
         NEW p \in Stoppers, NEW y \in StopCall(h, p)
  PROVE  y.state = "Disconnecting"
<1> DEFINE late == h.lateStop \/ Returning(h)
<1> DEFINE x == [h EXCEPT !.state = "Disconnecting", !.stopErr = TRUE, !.lateStop = late]
<1> DEFINE z == CleanupBoth(x)
<1> DEFINE at == IF Stopped(h) \/ h.state = "Disconnected" THEN "closed" ELSE "closing"
<1>1. PICK w \in StopInternal(h) :
        y = [w EXCEPT !.stop[p] = at, !.waiting = IF h.promise /\ w.promise THEN @ \cup {p} ELSE @]
  BY DEF StopCall
<1>2. w = ConnStop(z)
  BY <1>1 DEF StopInternal
<1>0. late \in BOOLEAN
  BY DEF HUB
<1> HIDE DEF late
<1>3. x \in HUB /\ x.state = "Disconnecting"
  BY <1>0 DEF HUB, States
<1> HIDE DEF x
<1>4. z \in HUB /\ z.state = "Disconnecting"
  BY <1>3, NoTimers DEF SameRun
<1> HIDE DEF z
<1>5. w \in HUB /\ w.state = "Disconnecting"
  BY <1>2, <1>4, ConnStops DEF SameRun
<1> DEFINE stop    == [w.stop EXCEPT ![p] = at]
<1> DEFINE waiting == IF h.promise /\ w.promise THEN w.waiting \cup {p} ELSE w.waiting
<1>6. y = [w EXCEPT !.stop = stop, !.waiting = waiting]
  BY <1>1, <1>5 DEF HUB
<1> HIDE DEF stop, waiting
<1> QED
  BY <1>5, <1>6 DEF HUB

\* A connected hub whose connection is gone waits to reconnect, unless it may not or a
\* callback stops it.
LEMMA ReconnectKeeps ==
  ASSUME ~Overlap, NEW h, Core(h), h.state = "Connected", h.conn = "disconnected",
         NEW y \in Reconnect(h)
  PROVE  HubInv(y)
<1>1. h \in HUB /\ ~h.delayed /\ h.started
  BY DEF Core, RunInv
<1>2. \A c \in Callers : h.at[c] = "idle"
  BY DEF Core, RunInv, Callers
<1>3. At(h) = "idle"
  BY <1>1, <1>2 DEF At, HUB
<1>4. CASE ~NextRetryDelay(0)
  BY <1>1, <1>3, <1>4, CompleteCloseKeeps DEF Reconnect
<1>5. CASE NextRetryDelay(0)
  <2> DEFINE w == [h EXCEPT !.state = "Reconnecting", !.tries = 1]
  <2>1. 1 \in 0 .. Retries
    BY <1>5, HubAssumption DEF NextRetryDelay
  <2>2. /\ w \in HUB /\ w.state = "Reconnecting" /\ w.started = h.started /\ w.owner = h.owner
        /\ w.at = h.at /\ w.delayed = h.delayed /\ w.conn = h.conn
        /\ SameShake(h, w) /\ SameTimers(h, w) /\ SameCalls(h, w)
    BY <1>1, <2>1 DEF HUB, States, SameShake, SameTimers, SameCalls
  <2>3. PICK x \in UserMayStop(w) :
          y = IF x.state = "Reconnecting" THEN [x EXCEPT !.delayed = TRUE] ELSE x
    BY <1>5 DEF Reconnect, UserMayStop
  <2> HIDE DEF w
  <2>4. At(w) = "idle"
    BY <1>3, <2>2 DEF At
  <2>5. RunInv(w) /\ ConnInv(w) /\ ShakeInv(w) /\ TimerInv(w)
    BY <1>1, <1>2, <1>3, <2>2, <2>4
    DEF Core, RunInv, ConnInv, ShakeInv, TimerInv, SameShake, SameTimers, Callers
  <2>6. CallInv(w)
    BY <2>2 DEF Core, CallInv, SameCalls
  <2>7. HubInv(w)
    BY <2>2, <2>5, <2>6 DEF HubInv, Core
  <2>8. CASE x = w
    <3>1. y = [w EXCEPT !.delayed = TRUE]
      BY <2>2, <2>3, <2>8
    <3>2. /\ y \in HUB /\ y.state = "Reconnecting" /\ y.started = w.started
          /\ y.owner = w.owner /\ y.at = w.at /\ y.conn = "disconnected"
          /\ SameShake(w, y) /\ SameTimers(w, y) /\ SameCalls(w, y)
      BY <2>2, <3>1 DEF HUB, SameShake, SameTimers, SameCalls
    <3>3. At(y) = "idle"
      BY <2>4, <3>2 DEF At
    <3>4. RunInv(y) /\ ConnInv(y) /\ ShakeInv(y) /\ TimerInv(y)
      BY <2>2, <2>4, <2>5, <3>2, <3>3
      DEF RunInv, ConnInv, ShakeInv, TimerInv, SameShake, SameTimers
    <3>5. CallInv(y)
      BY <2>2, <2>6, <3>2 DEF CallInv, SameCalls
    <3> QED
      BY <3>2, <3>4, <3>5 DEF HubInv, Core
  <2>9. ASSUME NEW p \in Stoppers, x \in StopCall(w, p)
        PROVE  HubInv(y)
    <3>1. Leads(w, x)
      BY <2>7, <2>9, StopCallKeeps
    <3>2. x.state = "Disconnecting"
      BY <1>1, <2>2, <2>9, StoppedAtOnce
    <3> QED
      BY <2>3, <3>1, <3>2 DEF Leads
  <2> QED
    BY <2>3, <2>8, <2>9 DEF UserMayStop
<1> QED
  BY <1>4, <1>5

LEMMA ConnectionGone ==
  ASSUME NEW h \in HUB
  PROVE  LET y == Gone(h) IN
           /\ y \in HUB /\ SameShake(h, y) /\ SameTimers(h, y) /\ SameCalls(h, y)
           /\ y.state = h.state /\ y.started = h.started /\ y.owner = h.owner
           /\ y.delayed = h.delayed /\ y.conn = "disconnected"
           /\ y.at = [c \in Callers |-> IF h.at[c] = "stopping" THEN "stopped" ELSE h.at[c]]
           /\ y.lateStop = h.lateStop /\ y.lateClose = h.lateClose
<1> DEFINE at   == [c \in Callers |-> IF h.at[c] = "stopping" THEN "stopped" ELSE h.at[c]]
<1> DEFINE stop == [p \in Stoppers |-> IF h.stop[p] = "closing" THEN "closed" ELSE h.stop[p]]
<1>1. at \in [Callers -> Places] /\ stop \in [Stoppers -> {"idle", "closing", "closed"}]
  BY DEF HUB, Places
<1>2. Gone(h) = [h EXCEPT !.conn = "disconnected", !.at = at, !.stop = stop]
  BY DEF Gone, HUB
<1> HIDE DEF at, stop
<1> DEFINE x == [h EXCEPT !.conn = "disconnected", !.at = at]
<1>3. /\ x \in HUB /\ SameShake(h, x) /\ SameTimers(h, x) /\ SameCalls(h, x)
      /\ x.state = h.state /\ x.started = h.started /\ x.owner = h.owner
      /\ x.delayed = h.delayed /\ x.conn = "disconnected" /\ x.at = at
      /\ x.lateStop = h.lateStop /\ x.lateClose = h.lateClose
  BY <1>1 DEF HUB, SameShake, SameTimers, SameCalls
<1>4. Gone(h) = [x EXCEPT !.stop = stop]
  BY <1>2
<1> HIDE DEF x
<1>5. LET y == Gone(h) IN
        /\ y \in HUB /\ SameShake(h, y) /\ SameTimers(h, y) /\ SameCalls(h, y)
        /\ y.state = h.state /\ y.started = h.started /\ y.owner = h.owner
        /\ y.delayed = h.delayed /\ y.conn = "disconnected" /\ y.at = at
        /\ y.lateStop = h.lateStop /\ y.lateClose = h.lateClose
  BY <1>1, <1>3, <1>4 DEF HUB, SameShake, SameTimers, SameCalls
<1> QED
  BY <1>5 DEF at

\* The hub as _connectionClosed finds it, and what that makes of it before it looks at
\* the state.
Told(h) == [Gone(h) EXCEPT !.lateClose = @ \/ Returning(h)]

Leaving(h) ==
  CleanupBoth(CancelCallbacks(
    [Told(h) EXCEPT !.stopErr = TRUE,
                    !.shake[Told(h).owner] = IF @ = "pending" THEN "resolved" ELSE @]))

LEMMA ClosesFrom ==
  ASSUME Close
  PROVE  hub' \in CASE Leaving(hub).state = "Disconnecting"        -> CompleteClose(Leaving(hub))
                     [] Leaving(hub).state = "Connected" /\ Policy  -> Reconnect(Leaving(hub))
                     [] Leaving(hub).state = "Connected" /\ ~Policy -> CompleteClose(Leaving(hub))
                     [] OTHER                                       -> {Leaving(hub)}
BY DEF Close, ConnectionClosed, Leaving, Told

LEMMA ConnectionTold ==
  ASSUME NEW h \in HUB
  PROVE  LET y == Told(h) IN
           /\ y \in HUB /\ SameShake(h, y) /\ SameTimers(h, y) /\ SameCalls(h, y)
           /\ y.state = h.state /\ y.started = h.started /\ y.owner = h.owner
           /\ y.delayed = h.delayed /\ y.conn = "disconnected"
           /\ y.at = [c \in Callers |-> IF h.at[c] = "stopping" THEN "stopped" ELSE h.at[c]]
           /\ y.lateStop = h.lateStop /\ y.lateClose = (h.lateClose \/ Returning(h))
<1> DEFINE x == Gone(h)
<1> DEFINE late == x.lateClose \/ Returning(h)
<1>1. /\ x \in HUB /\ SameShake(h, x) /\ SameTimers(h, x) /\ SameCalls(h, x)
      /\ x.state = h.state /\ x.started = h.started /\ x.owner = h.owner
      /\ x.delayed = h.delayed /\ x.conn = "disconnected"
      /\ x.at = [c \in Callers |-> IF h.at[c] = "stopping" THEN "stopped" ELSE h.at[c]]
      /\ x.lateStop = h.lateStop /\ x.lateClose = h.lateClose
  BY ConnectionGone
<1>2. late \in BOOLEAN
  BY <1>1 DEF HUB
<1>3. Told(h) = [x EXCEPT !.lateClose = late]
  BY DEF Told
<1> HIDE DEF x, late
<1>4. LET y == Told(h) IN
        /\ y \in HUB /\ SameShake(x, y) /\ SameTimers(x, y) /\ SameCalls(x, y)
        /\ y.state = x.state /\ y.started = x.started /\ y.owner = x.owner
        /\ y.delayed = x.delayed /\ y.conn = x.conn /\ y.at = x.at
        /\ y.lateStop = x.lateStop /\ y.lateClose = late
  BY <1>1, <1>2, <1>3 DEF HUB, SameShake, SameTimers, SameCalls
<1> QED
  BY <1>1, <1>4 DEF late, SameShake, SameTimers, SameCalls

LEMMA CloseLeaves ==
  ASSUME hub \in HUB
  PROVE  LET x == Leaving(hub) IN
         /\ x \in HUB /\ x.state = hub.state /\ x.started = hub.started /\ x.owner = hub.owner
         /\ x.delayed = hub.delayed /\ x.conn = "disconnected"
         /\ (\A c \in Callers : x.at[c] = "idle" <=> hub.at[c] = "idle")
         /\ At(x) = IF At(hub) = "stopping" THEN "stopped" ELSE At(hub)
         /\ x.stopErr = TRUE /\ x.shake[x.owner] # "pending" /\ x.timeouts = 0 /\ x.ping = "none"
         /\ \A i \in Calls : x.call[i] = "open" => hub.call[i] = "open" /\ i \notin hub.callbacks
         /\ x.lateStop = hub.lateStop /\ x.lateClose = (hub.lateClose \/ Returning(hub))
<1> DEFINE w == Told(hub)
<1> DEFINE x == Leaving(hub)
<1> DEFINE late == hub.lateClose \/ Returning(hub)
<1> DEFINE o == hub.owner
<1> DEFINE shake == [hub.shake EXCEPT ![o] = IF hub.shake[o] = "pending" THEN "resolved" ELSE hub.shake[o]]
<1> DEFINE s == [w EXCEPT !.stopErr = TRUE, !.shake = shake]
<1> DEFINE e == End(s, s.callbacks)
<1> DEFINE f == [e EXCEPT !.callbacks = {}]
<1>1. hub \in HUB /\ o \in Callers /\ late \in BOOLEAN
  BY DEF HUB
<1>2. /\ w \in HUB /\ SameShake(hub, w) /\ SameTimers(hub, w) /\ SameCalls(hub, w)
      /\ w.state = hub.state /\ w.started = hub.started /\ w.owner = o
      /\ w.delayed = hub.delayed /\ w.conn = "disconnected"
      /\ w.at = [c \in Callers |-> IF hub.at[c] = "stopping" THEN "stopped" ELSE hub.at[c]]
      /\ w.lateStop = hub.lateStop /\ w.lateClose = late
  BY ConnectionTold
<1>3. x = CleanupBoth(CancelCallbacks(s))
  BY <1>2 DEF Leaving, SameShake
<1>4. shake \in [Callers -> {"pending", "resolved", "rejected"}] /\ shake[o] # "pending"
  BY <1>1 DEF HUB
<1> HIDE DEF w, x, late, shake
<1>5. /\ s \in HUB /\ s.stopErr = TRUE /\ s.shake = shake /\ s.answered = w.answered
      /\ SameRun(w, s) /\ SameTimers(w, s) /\ SameCalls(w, s) /\ s.conn = w.conn
  BY <1>2, <1>4 DEF HUB, SameRun, SameTimers, SameCalls
<1> HIDE DEF s
<1>6. /\ e \in HUB /\ SameRun(s, e) /\ SameShake(s, e) /\ e.conn = s.conn
      /\ \A i \in Calls : e.call[i] = "open" => s.call[i] = "open" /\ i \notin s.callbacks
  BY <1>5, Ends
<1>7. CancelCallbacks(s) = f
  BY DEF CancelCallbacks
<1> HIDE DEF e
<1>8. /\ f \in HUB /\ SameRun(e, f) /\ SameShake(e, f) /\ f.conn = e.conn /\ f.call = e.call
  BY <1>6 DEF HUB, SameRun, SameShake
<1> HIDE DEF f
<1>9. /\ x \in HUB /\ SameRun(f, x) /\ SameShake(f, x) /\ SameCalls(f, x) /\ x.conn = f.conn
      /\ x.timeouts = 0 /\ x.ping = "none"
  BY <1>3, <1>7, <1>8, NoTimers
<1>10. /\ x.state = hub.state /\ x.started = hub.started /\ x.owner = o
       /\ x.delayed = hub.delayed /\ x.conn = "disconnected"
       /\ x.at = [c \in Callers |-> IF hub.at[c] = "stopping" THEN "stopped" ELSE hub.at[c]]
       /\ x.stopErr = TRUE /\ x.shake = shake
       /\ x.lateStop = hub.lateStop /\ x.lateClose = late
  BY <1>2, <1>5, <1>6, <1>8, <1>9 DEF SameRun, SameShake
<1>11. \A i \in Calls : x.call[i] = "open" => hub.call[i] = "open" /\ i \notin hub.callbacks
  BY <1>2, <1>5, <1>6, <1>8, <1>9 DEF SameCalls
<1>12. \A c \in Callers : x.at[c] = "idle" <=> hub.at[c] = "idle"
  BY <1>10
<1>13. At(x) = IF At(hub) = "stopping" THEN "stopped" ELSE At(hub)
  BY <1>1, <1>10 DEF At
<1> QED
  BY <1>4, <1>9, <1>10, <1>11, <1>12, <1>13 DEF x, late

\* A start that its own stop was cutting short has been stopped.
LEMMA StoppingStops ==
  \A a, b : /\ a = IF b = "stopping" THEN "stopped" ELSE b
            /\ b \notin {"connecting", "refused", "stopped", "returning"}
            => a \notin {"connecting", "stopping", "returning"}
OBVIOUS

LEMMA CloseFacts ==
  ASSUME HubInv(hub), hub.conn \in Up, ~Returning(hub)
  PROVE  LET x == Leaving(hub) IN
         /\ Core(x) /\ x.state = hub.state /\ x.conn = "disconnected" /\ ~x.delayed /\ x.stopErr
         /\ x.started = hub.started
<1> DEFINE x == Leaving(hub)
<1>1. hub \in HUB
  BY DEF HubInv, Core
<1>2. /\ x \in HUB /\ x.state = hub.state /\ x.started = hub.started /\ x.owner = hub.owner
      /\ x.delayed = hub.delayed /\ x.conn = "disconnected"
      /\ (\A c \in Callers : x.at[c] = "idle" <=> hub.at[c] = "idle")
      /\ At(x) = IF At(hub) = "stopping" THEN "stopped" ELSE At(hub)
      /\ x.stopErr = TRUE /\ x.shake[x.owner] # "pending" /\ x.timeouts = 0 /\ x.ping = "none"
      /\ \A i \in Calls : x.call[i] = "open" => hub.call[i] = "open" /\ i \notin hub.callbacks
  BY <1>1, CloseLeaves
<1> HIDE DEF x
<1>3. hub.state # "Disconnected" /\ ~hub.delayed
  BY DEF HubInv, Core, RunInv, Up
<1>4. At(hub) \notin {"connecting", "refused", "stopped", "returning"}
  BY <1>1 DEF HubInv, Core, ConnInv, Up, Returning, At, HUB
<1>5. At(x) \notin {"connecting", "stopping", "returning"}
  BY Zenon, <1>2, <1>4, StoppingStops
<1>6. RunInv(x)
  BY <1>2, <1>3, <1>5 DEF HubInv, Core, RunInv, Callers
<1>7. ConnInv(x)
  BY <1>2, <1>5 DEF ConnInv
<1>8. ShakeInv(x)
  BY <1>2, <1>5 DEF ShakeInv
<1>9. TimerInv(x)
  BY <1>2 DEF TimerInv
<1>10. CallInv(x)
  BY <1>2 DEF HubInv, Core, CallInv
<1> QED
  BY <1>2, <1>3, <1>6, <1>7, <1>8, <1>9, <1>10 DEF Core, x

LEMMA CloseIsGood ==
  ASSUME ~Overlap, HubInv(hub), Close, ~Returning(hub)
  PROVE  Good(hub')
<1> DEFINE x == Leaving(hub)
<1>1. hub' \in CASE x.state = "Disconnecting"        -> CompleteClose(x)
                 [] x.state = "Connected" /\ Policy  -> Reconnect(x)
                 [] x.state = "Connected" /\ ~Policy -> CompleteClose(x)
                 [] OTHER                            -> {x}
  BY ClosesFrom
<1>2. hub.conn \in Up
  BY DEF Close, Up
<1>3. /\ Core(x) /\ x.state = hub.state /\ x.conn = "disconnected" /\ ~x.delayed /\ x.stopErr
      /\ x.started = hub.started
  BY <1>2, CloseFacts
<1> HIDE DEF x
<1>4. CASE x.state \in {"Disconnecting", "Connected"} /\ hub' \in CompleteClose(x)
  <2>1. /\ HubInv(hub')
        /\ hub'.state = x.state \/ hub'.state \in {"Connecting", "Disconnecting", "Disconnected"}
    BY <1>3, <1>4, CompleteCloseKeeps
  <2> QED
    BY <1>3, <2>1 DEF Good
<1>5. CASE x.state = "Connected" /\ hub' \in Reconnect(x)
  BY <1>3, <1>5, ReconnectKeeps DEF Good
<1>6. CASE x.state \notin {"Disconnecting", "Connected"} /\ hub' = x
  BY <1>3, <1>6 DEF Good, HubInv
<1> QED
  BY <1>1, <1>4, <1>5, <1>6

--------------------------------------------------------------------------------
(* Messages                                                                    *)

LEMMA ProcessKeeps ==
  ASSUME ~Overlap, NEW h, HubInv(h), NEW m \in Messages, NEW y \in Process(h, m)
  PROVE  Leads(h, y)
<1>1. h \in HUB /\ Leads(h, h)
  BY DEF HubInv, Core, Leads
<1>2. CASE m.type = "invocation"
  <2>1. y \in UserMayStop(h)
    BY <1>2 DEF Process, InvokeClientMethod
  <2> QED
    BY <2>1, UserMayStopKeeps
<1>3. CASE m.type = "asking"
  <2>1. PICK x \in UserMayStop(h) : y \in StopInternal(x)
    BY <1>3 DEF Process, InvokeClientMethod
  <2>2. Leads(h, x)
    BY UserMayStopKeeps
  <2>3. Leads(x, y)
    BY <2>1, <2>2, StopInternalKeeps DEF Leads
  <2> QED
    BY <2>2, <2>3, LeadsOn
<1>4. CASE m.type = "close"
  BY <1>4, StopInternalKeeps DEF Process
<1>5. CASE m.type = "closeReconnect"
  <2>1. y = ConnStop(h)
    BY <1>5 DEF Process
  <2> QED
    BY <2>1, ConnStopKeeps
<1>6. CASE m.type = "item"
  <2>1. y = h \/ y = End(h, {m.id})
    BY <1>6 DEF Process, Callback
  <2> QED
    BY <1>1, <2>1, EndKeeps
<1>7. CASE m.type = "completion" /\ m.id \in h.callbacks
  <2> DEFINE x == End(h, {m.id})
  <2>1. y = Forget(x, m.id)
    BY <1>7 DEF Process, Callback
  <2>2. Leads(h, x)
    BY EndKeeps
  <2>3. m.id \in Calls => x.call[m.id] # "open"
    BY <1>1, Ends
  <2> HIDE DEF x
  <2>4. Leads(x, y)
    BY <2>1, <2>2, <2>3, ForgetKeeps DEF Leads
  <2> QED
    BY <2>2, <2>4, LeadsOn
<1>8. CASE m.type \in {"none", "ping"} \/ (m.type = "completion" /\ m.id \notin h.callbacks)
  <2>1. y = h
    BY <1>8 DEF Process
  <2> QED
    BY <1>1, <2>1
<1>9. m.type \in {"none", "ping", "invocation", "asking", "close", "closeReconnect", "item", "completion"}
  BY DEF Messages
<1> QED
  BY <1>2, <1>3, <1>4, <1>5, <1>6, <1>7, <1>8, <1>9

\* The first answer settles the handshake.
LEMMA AnswerKeeps ==
  ASSUME NEW h, HubInv(h), h.conn \in Up, ~h.answered
  PROVE  LET y == HandshakeAnswered(h) IN
           HubInv(y) /\ y.state = h.state /\ y.conn = h.conn /\ y.answered /\ y.timeouts = h.timeouts
<1> DEFINE y == HandshakeAnswered(h)
<1> DEFINE o == h.owner
<1> DEFINE shake == [h.shake EXCEPT ![o] = IF h.shake[o] = "pending" THEN "resolved" ELSE h.shake[o]]
<1>1. h \in HUB /\ o \in Callers
  BY DEF HubInv, Core, HUB
<1>2. shake \in [Callers -> {"pending", "resolved", "rejected"}] /\ shake[o] # "pending"
  BY <1>1 DEF HUB
<1>3. y = [h EXCEPT !.answered = TRUE, !.shake = shake]
  BY <1>1 DEF HandshakeAnswered, HUB
<1> HIDE DEF shake
<1> DEFINE z == [h EXCEPT !.answered = TRUE]
<1>4. /\ z \in HUB /\ SameRun(h, z) /\ SameTimers(h, z) /\ SameCalls(h, z) /\ z.conn = h.conn
      /\ z.stopErr = h.stopErr /\ z.answered = TRUE
  BY <1>1 DEF HUB, SameRun, SameTimers, SameCalls
<1>5. y = [z EXCEPT !.shake = shake]
  BY <1>3
<1> HIDE DEF z
<1>6. /\ y \in HUB /\ SameRun(h, y) /\ SameTimers(h, y) /\ SameCalls(h, y) /\ y.conn = h.conn
      /\ y.stopErr = h.stopErr /\ y.answered = TRUE /\ y.shake = shake
  BY <1>2, <1>4, <1>5 DEF HUB, SameRun, SameTimers, SameCalls
<1> HIDE DEF y
<1>7. RunInv(y) /\ ConnInv(y)
  BY <1>6 DEF HubInv, Core, RunInv, ConnInv, SameRun, At
<1>8. ShakeInv(y)
  BY <1>2, <1>6 DEF HubInv, Core, ShakeInv, SameRun, At, Up
<1>9. TimerInv(y)
  BY <1>6 DEF HubInv, Core, TimerInv, SameRun, SameTimers, At
<1>10. CallInv(y)
  BY <1>6 DEF HubInv, Core, CallInv, SameCalls
<1> QED
  BY <1>6, <1>7, <1>8, <1>9, <1>10 DEF HubInv, Core, SameRun, SameTimers, y

LEMMA ReceiveIsGood ==
  ASSUME ~Overlap, HubInv(hub), NEW m \in Messages, Receive(m)
  PROVE  Good(hub')
<1> DEFINE clean == CleanupTimeout(hub)
<1> DEFINE open  == IF hub.answered THEN clean ELSE HandshakeAnswered(clean)
<1>1. hub \in HUB /\ hub.conn \in Up
  BY DEF HubInv, Core, Receive, Up
<1>2. PICK y \in Process(open, m) : hub' = ResetTimeout(y)
  BY DEF Receive, Received
<1>3. /\ clean \in HUB /\ SameRun(hub, clean) /\ SameShake(hub, clean) /\ SameCalls(hub, clean)
      /\ clean.conn = hub.conn /\ clean.timeouts = 0 /\ clean.ping = hub.ping
  BY <1>1, NoTimeouts
<1> HIDE DEF clean
<1>4. HubInv(clean) /\ clean.answered = hub.answered /\ clean.state = hub.state
  BY <1>3, LessTimersKeep DEF Leads, SameShake, SameRun
<1>5. HubInv(open) /\ open.state = hub.state /\ open.conn \in Up /\ open.answered /\ open.timeouts = 0
  BY <1>1, <1>3, <1>4, AnswerKeeps
<1> HIDE DEF open
<1>6. Leads(open, y)
  BY <1>5, ProcessKeeps
<1>7. HubInv(y) /\ y \in HUB /\ y.conn \in Up /\ y.answered /\ y.timeouts = 0
  BY <1>5, <1>6 DEF Leads, HubInv, Core
<1>8. /\ hub' \in HUB /\ SameRun(y, hub') /\ SameShake(y, hub') /\ SameCalls(y, hub')
      /\ hub'.conn = y.conn /\ hub'.timeouts = IF InherentKeepAlive THEN 0 ELSE 1
      /\ hub'.ping = IF ~InherentKeepAlive /\ y.ping = "none" THEN "running" ELSE y.ping
  BY <1>2, <1>7, TimeoutReset
<1>9. RunInv(hub') /\ ConnInv(hub') /\ ShakeInv(hub')
  BY <1>7, <1>8 DEF HubInv, Core, RunInv, ConnInv, ShakeInv, SameRun, SameShake, At
<1>10. TimerInv(hub')
  BY <1>7, <1>8 DEF HubInv, Core, TimerInv, SameRun, SameShake, At, Up
<1>11. CallInv(hub')
  BY <1>7, <1>8 DEF HubInv, Core, CallInv, SameCalls
<1>12. HubInv(hub') /\ hub'.state = y.state
  BY <1>7, <1>8, <1>9, <1>10, <1>11 DEF HubInv, Core, SameRun, SameShake
<1> QED
  BY <1>5, <1>6, <1>12 DEF Good, Leads

LEMMA ReceiveRefusalIsGood ==
  ASSUME HubInv(hub), ReceiveRefusal
  PROVE  Good(hub')
<1> DEFINE o == hub.owner
<1> DEFINE shake == [hub.shake EXCEPT ![o] = IF hub.shake[o] = "pending" THEN "rejected" ELSE hub.shake[o]]
<1> DEFINE x == [hub EXCEPT !.shake = shake]
<1>1. hub \in HUB /\ o \in Callers /\ hub.conn \in Up /\ ~hub.answered
  BY DEF HubInv, Core, HUB, ReceiveRefusal, Up
<1>2. /\ shake \in [Callers -> {"pending", "resolved", "rejected"}]
      /\ shake[o] # "pending" /\ (shake[o] = "resolved" => hub.shake[o] = "resolved")
  BY <1>1 DEF HUB
<1>3. hub' = CleanupTimeout(x)
  BY <1>1 DEF ReceiveRefusal, HandshakeRefused, HUB
<1> HIDE DEF shake
<1>4. /\ x \in HUB /\ SameRun(hub, x) /\ SameTimers(hub, x) /\ SameCalls(hub, x)
      /\ x.conn = hub.conn /\ x.stopErr = hub.stopErr /\ x.answered = hub.answered
      /\ x.shake = shake
  BY <1>1, <1>2 DEF HUB, SameRun, SameTimers, SameCalls
<1> HIDE DEF x
<1>5. RunInv(x) /\ ConnInv(x)
  BY <1>4 DEF HubInv, Core, RunInv, ConnInv, SameRun, At
<1>6. ShakeInv(x)
  BY <1>1, <1>2, <1>4 DEF HubInv, Core, ConnInv, ShakeInv, SameRun, At, Up
<1>7. TimerInv(x)
  BY <1>4 DEF HubInv, Core, TimerInv, SameRun, SameTimers, At
<1>8. CallInv(x)
  BY <1>4 DEF HubInv, Core, CallInv, SameCalls
<1>9. HubInv(x)
  BY <1>4, <1>5, <1>6, <1>7, <1>8 DEF HubInv, Core, SameRun
<1>10. Leads(x, hub')
  BY <1>3, <1>4, <1>9, NoTimeouts, LessTimersKeep
<1> QED
  BY <1>4, <1>10 DEF Leads, Good, SameRun

--------------------------------------------------------------------------------
(* Start and handshake                                                         *)

\* Who runs _startInternal owns the handshake.
LEMMA Owns ==
  ASSUME HubInv(hub), NEW c \in Callers, hub.at[c] # "idle"
  PROVE  /\ hub \in HUB /\ c = hub.owner /\ At(hub) = hub.at[c]
         /\ \A b \in Callers : b # c => hub.at[b] = "idle"
BY DEF HubInv, Core, RunInv, At

\* The start promise settles: nothing else changes.
LEMMA PromiseSettles ==
  ASSUME NEW h \in HUB
  PROVE  LET y == StartSettled(h) IN
           /\ y \in HUB /\ SameRun(h, y) /\ SameShake(h, y) /\ SameTimers(h, y) /\ SameCalls(h, y)
           /\ y.conn = h.conn
<1> DEFINE x == [h EXCEPT !.promise = FALSE]
<1>1. /\ x \in HUB /\ SameRun(h, x) /\ SameShake(h, x) /\ SameTimers(h, x) /\ SameCalls(h, x)
      /\ x.conn = h.conn
  BY DEF HUB, SameRun, SameShake, SameTimers, SameCalls
<1>2. StartSettled(h) = [x EXCEPT !.waiting = {}]
  BY DEF StartSettled
<1> HIDE DEF x
<1> QED
  BY <1>1, <1>2 DEF HUB, SameRun, SameShake, SameTimers, SameCalls

\* start() fails.
LEMMA StartFailsIsGood ==
  ASSUME HubInv(hub), hub.at["start"] \in {"refused", "stopped"},
         hub' = StartSettled([Goto(hub, "start", "idle") EXCEPT !.state = "Disconnected"])
  PROVE  Good(hub')
<1> DEFINE x == Goto(hub, "start", "idle")
<1>1. /\ hub \in HUB /\ hub.owner = "start" /\ At(hub) = hub.at["start"]
      /\ hub.at["reconnect"] = "idle"
  BY Owns DEF Callers
<1>2. /\ x \in HUB /\ SameShake(hub, x) /\ SameTimers(hub, x) /\ SameCalls(hub, x)
      /\ x.started = hub.started /\ x.owner = hub.owner /\ x.delayed = hub.delayed
      /\ x.conn = hub.conn /\ x.at = [hub.at EXCEPT !["start"] = "idle"]
  BY <1>1, GoesTo DEF Places, Callers
<1> DEFINE z == [x EXCEPT !.state = "Disconnected"]
<1>3. hub' = StartSettled(z)
  OBVIOUS
<1> HIDE DEF x
<1>4. /\ z \in HUB /\ SameShake(hub, z) /\ SameTimers(hub, z) /\ SameCalls(hub, z)
      /\ z.state = "Disconnected" /\ z.started = hub.started /\ z.owner = hub.owner
      /\ z.delayed = hub.delayed /\ z.conn = hub.conn /\ z.at = x.at
  BY <1>2 DEF HUB, States, SameShake, SameTimers, SameCalls
<1> HIDE DEF z
<1>5. /\ hub' \in HUB /\ SameShake(hub, hub') /\ SameTimers(hub, hub') /\ SameCalls(hub, hub')
      /\ hub'.state = "Disconnected" /\ hub'.started = hub.started /\ hub'.owner = hub.owner
      /\ hub'.delayed = hub.delayed /\ hub'.conn = hub.conn /\ hub'.at = x.at
  BY <1>3, <1>4, PromiseSettles DEF SameRun, SameShake, SameTimers, SameCalls
<1>6. hub'.at["start"] = "idle" /\ hub'.at["reconnect"] = "idle" /\ At(hub') = "idle"
  BY <1>1, <1>2, <1>5 DEF HUB, Callers, At
<1>7. hub.conn = "disconnected" /\ ~hub.started /\ ~hub.delayed
  BY <1>1 DEF HubInv, Core, RunInv, ConnInv
<1>8. RunInv(hub')
  BY <1>5, <1>6, <1>7 DEF RunInv, Callers
<1>9. ConnInv(hub') /\ ShakeInv(hub')
  BY <1>5, <1>6, <1>7 DEF HubInv, Core, ConnInv, ShakeInv, SameShake
<1>10. TimerInv(hub')
  BY <1>1, <1>5, <1>6, <1>7 DEF HubInv, Core, TimerInv, SameShake, SameTimers
<1>11. CallInv(hub')
  BY <1>5 DEF HubInv, Core, CallInv, SameCalls
<1> QED
  BY <1>5, <1>8, <1>9, <1>10, <1>11 DEF HubInv, Core, Good

LEMMA ThrowsIsGood ==
  ASSUME ~Overlap, HubInv(hub), NEW c \in Callers, Throws(c)
  PROVE  Good(hub')
<1>1. /\ hub \in HUB /\ hub.owner = c /\ At(hub) = hub.at[c]
      /\ hub.at[c] \in {"refused", "stopped"} /\ hub' \in Fails(hub, c)
      /\ \A b \in Callers : b # c => hub.at[b] = "idle"
  BY Owns DEF Throws
<1>2. CASE c = "start"
  BY <1>1, <1>2, StartFailsIsGood DEF Fails
<1>3. CASE c = "reconnect"
  <2> DEFINE x == Goto(hub, c, "idle")
  <2>1. /\ x \in HUB /\ SameShake(hub, x) /\ SameTimers(hub, x) /\ SameCalls(hub, x)
        /\ x.state = hub.state /\ x.started = hub.started /\ x.owner = hub.owner
        /\ x.delayed = hub.delayed /\ x.conn = hub.conn
        /\ x.at = [hub.at EXCEPT ![c] = "idle"]
    BY ZenonT(60), <1>1, GoesTo DEF Places
  <2>2. \/ /\ hub.state \in {"Disconnecting", "Reconnecting"}
           /\ hub' \in CompleteClose(x)
        \/ /\ hub.state = "Reconnecting" /\ NextRetryDelay(x.tries)
           /\ hub' = [x EXCEPT !.tries = x.tries + 1, !.delayed = TRUE]
        \/ hub' = x
    BY <1>1, <1>3, <2>1 DEF Fails
  <2> HIDE DEF x
  <2>3. /\ hub.conn = "disconnected" /\ ~hub.delayed /\ hub.at["start"] = "idle"
        /\ hub.state \notin {"Connected", "Connecting"}
    BY <1>1, <1>3 DEF HubInv, Core, RunInv, ConnInv, Callers
  <2>4. x.at["start"] = "idle" /\ x.at["reconnect"] = "idle" /\ At(x) = "idle"
    BY <1>1, <1>3, <2>1, <2>3 DEF HUB, Callers, At
  <2>5. RunInv(x)
    BY <1>1, <1>3, <2>1, <2>3, <2>4 DEF HubInv, Core, RunInv, Callers
  <2>6. ConnInv(x) /\ ShakeInv(x)
    BY <2>1, <2>3, <2>4 DEF HubInv, Core, ConnInv, ShakeInv, SameShake
  <2>7. TimerInv(x)
    BY <1>1, <2>1, <2>3, <2>4 DEF HubInv, Core, TimerInv, SameShake, SameTimers
  <2>8. CallInv(x)
    BY <2>1 DEF HubInv, Core, CallInv, SameCalls
  <2>9. HubInv(x)
    BY <2>1, <2>3, <2>5, <2>6, <2>7, <2>8 DEF HubInv, Core
  <2>10. CASE hub.state \in {"Disconnecting", "Reconnecting"} /\ hub' \in CompleteClose(x)
    <3>1. x.started /\ x.conn = "disconnected" /\ ~x.delayed
      BY <2>1, <2>3, <2>10 DEF HubInv, Core, RunInv
    <3>2. HubInv(hub') /\ hub'.state \in {"Connecting", "Disconnected"}
      BY <2>4, <2>9, <2>10, <3>1, CompleteCloseKeeps DEF HubInv
    <3> QED
      BY <3>2 DEF Good
  <2>11. CASE /\ hub.state = "Reconnecting" /\ NextRetryDelay(x.tries)
              /\ hub' = [x EXCEPT !.tries = x.tries + 1, !.delayed = TRUE]
    <3>1. x.tries + 1 \in 0 .. Retries
      BY <2>1, <2>11, HubAssumption DEF NextRetryDelay, HUB
    <3>2. /\ hub' \in HUB /\ SameShake(x, hub') /\ SameTimers(x, hub') /\ SameCalls(x, hub')
          /\ hub'.state = x.state /\ hub'.started = x.started /\ hub'.owner = x.owner
          /\ hub'.conn = x.conn /\ hub'.at = x.at
      BY <2>1, <2>11, <3>1 DEF HUB, SameShake, SameTimers, SameCalls
    <3>3. At(hub') = "idle"
      BY <2>4, <3>2 DEF At
    <3>4. RunInv(hub')
      BY <2>1, <2>3, <2>4, <2>5, <2>11, <3>2, <3>3 DEF RunInv
    <3>5. ConnInv(hub') /\ ShakeInv(hub')
      BY <2>4, <2>6, <3>2, <3>3 DEF ConnInv, ShakeInv, SameShake
    <3>6. TimerInv(hub') /\ CallInv(hub')
      BY <2>4, <2>7, <2>8, <3>2, <3>3 DEF TimerInv, CallInv, SameShake, SameTimers, SameCalls
    <3> QED
      BY <2>1, <2>11, <3>2, <3>4, <3>5, <3>6 DEF HubInv, Core, Good
  <2>12. CASE hub' = x
    BY <2>1, <2>3, <2>9, <2>12 DEF Good
  <2> QED
    BY <2>2, <2>10, <2>11, <2>12
<1> QED
  BY <1>2, <1>3 DEF Callers

\* _startInternal stops the connection, and throws when that has stopped.
LEMMA StopAndThrowIsGood ==
  ASSUME HubInv(hub), NEW c \in Callers, hub.at[c] \in {"sending", "handshaking"},
         hub' = StopAndThrow(hub, c)
  PROVE  Good(hub')
<1> DEFINE where == IF Stopped(hub) THEN "stopped" ELSE "stopping"
<1> DEFINE x == Goto(hub, c, where)
<1> DEFINE z == CleanupBoth(x)
<1>1. /\ hub \in HUB /\ hub.owner = c /\ At(hub) = hub.at[c]
      /\ \A b \in Callers : b # c => hub.at[b] = "idle"
  BY Owns
<1>2. hub' = ConnStop(z)
  BY DEF StopAndThrow
<1>3. where \in Places
  BY DEF Places
<1>4. /\ x \in HUB /\ SameShake(hub, x) /\ SameTimers(hub, x) /\ SameCalls(hub, x)
      /\ x.state = hub.state /\ x.started = hub.started /\ x.owner = hub.owner
      /\ x.delayed = hub.delayed /\ x.conn = hub.conn
      /\ x.at = [hub.at EXCEPT ![c] = where]
  BY <1>1, <1>3, GoesTo
<1> HIDE DEF x
<1>5. /\ z \in HUB /\ SameRun(x, z) /\ SameShake(x, z) /\ SameCalls(x, z)
      /\ z.conn = x.conn /\ z.timeouts = 0 /\ z.ping = "none"
  BY <1>4, NoTimers
<1> HIDE DEF z
<1>6. /\ hub' \in HUB /\ SameRun(z, hub') /\ SameShake(z, hub') /\ SameTimers(z, hub')
      /\ SameCalls(z, hub')
      /\ z.conn = "connecting" => hub'.conn = "aborting"
      /\ z.conn = "connected" => hub'.conn = "disconnecting"
      /\ z.conn \notin {"connecting", "connected"} => hub'.conn = z.conn
  BY <1>2, <1>5, ConnStops
<1>7. /\ hub'.state = hub.state /\ hub'.started = hub.started /\ hub'.owner = c
      /\ hub'.delayed = hub.delayed /\ hub'.at = x.at
      /\ SameShake(hub, hub') /\ SameCalls(hub, hub')
      /\ hub'.timeouts = 0 /\ hub'.ping = "none"
  BY <1>1, <1>4, <1>5, <1>6 DEF SameRun, SameShake, SameTimers, SameCalls
<1>8. hub'.at[c] = where /\ At(hub') = where /\ \A b \in Callers : b # c => hub'.at[b] = hub.at[b]
  BY <1>1, <1>4, <1>7 DEF HUB, At
<1>9. /\ hub.conn \in {"connected", "disconnecting", "disconnected"}
      /\ hub.conn = "disconnected" => hub'.conn = "disconnected" /\ where = "stopped"
      /\ hub.conn # "disconnected" => hub'.conn = "disconnecting" /\ where = "stopping"
  BY <1>1, <1>4, <1>5, <1>6 DEF HubInv, Core, ConnInv, HUB, Stopped
<1> HIDE DEF where
<1>10. \A b \in Callers : hub'.at[b] = "idle" <=> hub.at[b] = "idle"
  BY <1>1, <1>8, <1>9
<1>11. RunInv(hub')
  BY <1>1, <1>7, <1>8, <1>9, <1>10 DEF HubInv, Core, RunInv, Callers
<1>12. ConnInv(hub')
  BY <1>8, <1>9 DEF ConnInv
<1>13. ShakeInv(hub')
  BY <1>1, <1>7, <1>8, <1>9 DEF HubInv, Core, ShakeInv, SameShake
<1>14. TimerInv(hub')
  BY <1>7 DEF TimerInv
<1>15. CallInv(hub')
  BY <1>7, <1>9 DEF HubInv, Core, CallInv, SameCalls
<1>16. hub'.state # "Connected"
  BY <1>1, <1>7 DEF HubInv, Core, RunInv, Callers
<1> QED
  BY <1>6, <1>7, <1>11, <1>12, <1>13, <1>14, <1>15, <1>16 DEF HubInv, Core, Good

\* _startInternal returns: the handshake was answered and nothing has stopped the hub.
LEMMA ReturningIsGood ==
  ASSUME HubInv(hub), NEW c \in Callers, hub.at[c] = "handshaking", hub.shake[c] = "resolved",
         ~hub.stopErr, hub' = Goto(hub, c, "returning")
  PROVE  Good(hub')
<1>1. /\ hub \in HUB /\ hub.owner = c /\ At(hub) = "handshaking"
      /\ \A b \in Callers : b # c => hub.at[b] = "idle"
  BY Owns
<1>2. /\ hub' \in HUB /\ SameShake(hub, hub') /\ SameTimers(hub, hub') /\ SameCalls(hub, hub')
      /\ hub'.state = hub.state /\ hub'.started = hub.started /\ hub'.owner = hub.owner
      /\ hub'.delayed = hub.delayed /\ hub'.conn = hub.conn
      /\ hub'.at = [hub.at EXCEPT ![c] = "returning"]
  BY ZenonT(60), <1>1, GoesTo DEF Places
<1>3. /\ At(hub') = "returning" /\ hub'.at[c] = "returning"
      /\ \A b \in Callers : b # c => hub'.at[b] = "idle"
  BY <1>1, <1>2 DEF HUB, At
<1>4. hub.conn \in Up /\ hub.answered /\ hub.state \notin {"Disconnecting", "Disconnected"}
  BY <1>1 DEF HubInv, Core, ConnInv, ShakeInv, HUB, Up
<1>5. ~hub.delayed /\ hub.state # "Connected"
  BY <1>1 DEF HubInv, Core, RunInv, Callers
<1>6. \A b \in Callers : hub'.at[b] = "idle" <=> hub.at[b] = "idle"
  BY <1>1, <1>3
<1>7. RunInv(hub')
  BY <1>1, <1>2, <1>3, <1>4, <1>5, <1>6 DEF HubInv, Core, RunInv, Callers
<1>8. ConnInv(hub')
  BY <1>2, <1>3, <1>4 DEF ConnInv, Up
<1>9. ShakeInv(hub')
  BY <1>1, <1>2, <1>3, <1>4 DEF HubInv, Core, ShakeInv, SameShake
<1>10. TimerInv(hub')
  BY <1>1, <1>2, <1>3, <1>4 DEF HubInv, Core, TimerInv, SameShake, SameTimers, Up
<1>11. CallInv(hub')
  BY <1>2 DEF HubInv, Core, CallInv, SameCalls
<1> QED
  BY <1>2, <1>4, <1>5, <1>7, <1>8, <1>9, <1>10, <1>11 DEF HubInv, Core, Good

LEMMA HandshakeDoneIsGood ==
  ASSUME HubInv(hub), NEW c \in Callers, HandshakeDone(c)
  PROVE  Good(hub')
<1>1. CASE hub.shake[c] = "rejected" \/ hub.stopErr
  BY <1>1, StopAndThrowIsGood DEF HandshakeDone
<1>2. CASE ~(hub.shake[c] = "rejected" \/ hub.stopErr)
  <2>1. hub.shake[c] \in {"pending", "resolved", "rejected"}
    BY DEF HubInv, Core, HUB
  <2> QED
    BY <1>2, <2>1, ReturningIsGood DEF HandshakeDone
<1> QED
  BY <1>1, <1>2

\* What the caller does when _startInternal has returned.
LEMMA Connects ==
  ASSUME NEW h \in HUB, NEW c \in Callers
  PROVE  LET y == Succeeds(h, c) IN
           /\ y \in HUB /\ SameShake(h, y) /\ SameTimers(h, y) /\ SameCalls(h, y)
           /\ y.state = "Connected" /\ y.owner = h.owner /\ y.delayed = h.delayed
           /\ y.conn = h.conn /\ y.lateClose = h.lateClose
           /\ y.at = [h.at EXCEPT ![c] = "idle"]
           /\ c = "start" => y.started = TRUE
           /\ c # "start" => y.started = h.started
<1> DEFINE x == Goto(h, c, "idle")
<1> DEFINE z == [x EXCEPT !.state = "Connected", !.lateStop = FALSE]
<1> DEFINE s == [z EXCEPT !.started = TRUE]
<1>1. /\ x \in HUB /\ SameShake(h, x) /\ SameTimers(h, x) /\ SameCalls(h, x)
      /\ x.started = h.started /\ x.owner = h.owner /\ x.delayed = h.delayed /\ x.conn = h.conn
      /\ x.lateClose = h.lateClose /\ x.at = [h.at EXCEPT ![c] = "idle"]
  BY ZenonT(60), GoesTo DEF Places
<1>2. /\ c = "start" => Succeeds(h, c) = StartSettled(s)
      /\ c # "start" => Succeeds(h, c) = z
  BY DEF Succeeds
<1> HIDE DEF x
<1>3. /\ z \in HUB /\ SameShake(h, z) /\ SameTimers(h, z) /\ SameCalls(h, z)
      /\ z.state = "Connected" /\ z.started = h.started /\ z.owner = h.owner
      /\ z.delayed = h.delayed /\ z.conn = h.conn /\ z.lateClose = h.lateClose /\ z.at = x.at
  BY ZenonT(60), <1>1 DEF HUB, States, SameShake, SameTimers, SameCalls
<1> HIDE DEF z
<1>4. /\ s \in HUB /\ SameShake(h, s) /\ SameTimers(h, s) /\ SameCalls(h, s)
      /\ s.state = "Connected" /\ s.started = TRUE /\ s.owner = h.owner
      /\ s.delayed = h.delayed /\ s.conn = h.conn /\ s.lateClose = h.lateClose /\ s.at = x.at
  BY <1>3 DEF HUB, SameShake, SameTimers, SameCalls
<1> HIDE DEF s
<1>5. /\ StartSettled(s) \in HUB /\ SameRun(s, StartSettled(s)) /\ SameShake(s, StartSettled(s))
      /\ SameTimers(s, StartSettled(s)) /\ SameCalls(s, StartSettled(s))
      /\ StartSettled(s).conn = s.conn
  BY <1>4, PromiseSettles
<1>6. CASE c = "start"
  BY <1>1, <1>2, <1>4, <1>5, <1>6 DEF SameRun, SameShake, SameTimers, SameCalls
<1>7. CASE c # "start"
  BY <1>1, <1>2, <1>3, <1>7
<1> QED
  BY <1>6, <1>7

\* The hub was not told of a close since, and of a stop only as lateStop says.
LEMMA ReturnedIsGood ==
  ASSUME HubInv(hub), NEW c \in Callers, Returned(c)
  PROVE  Good(hub')
<1>1. /\ hub \in HUB /\ hub.owner = c /\ At(hub) = "returning" /\ hub.at[c] = "returning"
      /\ hub' = Succeeds(hub, c) /\ \A b \in Callers : b # c => hub.at[b] = "idle"
  BY Owns DEF Returned
<1>2. /\ hub' \in HUB /\ SameShake(hub, hub') /\ SameTimers(hub, hub') /\ SameCalls(hub, hub')
      /\ hub'.state = "Connected" /\ hub'.owner = hub.owner /\ hub'.delayed = hub.delayed
      /\ hub'.conn = hub.conn /\ hub'.at = [hub.at EXCEPT ![c] = "idle"]
      /\ c = "start" => hub'.started = TRUE
      /\ c # "start" => hub'.started = hub.started
  BY <1>1, Connects
<1>3. At(hub') = "idle" /\ \A b \in Callers : hub'.at[b] = "idle"
  BY <1>1, <1>2 DEF HUB, At
<1>4. hub.conn \in Up /\ hub.answered /\ ~hub.delayed
  BY <1>1 DEF HubInv, Core, RunInv, ConnInv, ShakeInv, Up
<1>5. hub'.started
  <2>1. CASE c = "start"
    BY <1>2, <2>1
  <2>2. CASE c # "start"
    <3>1. hub.at["start"] = "idle"
      BY <1>1, <2>2 DEF Callers
    <3>2. hub.state \in {"Connected", "Reconnecting", "Disconnecting"}
      BY <1>1, <1>4, <3>1 DEF HubInv, Core, RunInv, HUB, States, Up
    <3> QED
      BY <1>2, <2>2, <3>1, <3>2 DEF HubInv, Core, RunInv
  <2> QED
    BY <2>1, <2>2
<1>6. RunInv(hub')
  BY <1>2, <1>3, <1>4, <1>5 DEF RunInv, Callers
<1>7. ConnInv(hub')
  BY <1>2, <1>3, <1>4 DEF ConnInv, Up
<1>8. ShakeInv(hub')
  BY <1>1, <1>2, <1>3, <1>4 DEF HubInv, Core, ShakeInv, SameShake
<1>9. TimerInv(hub')
  BY <1>1, <1>2, <1>4 DEF HubInv, Core, TimerInv, SameShake, SameTimers, Up
<1>10. CallInv(hub')
  BY <1>2 DEF HubInv, Core, CallInv, SameCalls
<1>11. ~(hub.state = "Disconnecting" /\ ~hub.lateStop)
  BY <1>1 DEF HubInv, Core, RunInv
<1> QED
  BY <1>2, <1>4, <1>6, <1>7, <1>8, <1>9, <1>10, <1>11 DEF HubInv, Core, Good, Up, SameShake

--------------------------------------------------------------------------------
(* The network and the timers                                                  *)

LEMMA OpenIsGood ==
  ASSUME HubInv(hub), NEW c \in Callers, Open(c)
  PROVE  Good(hub')
<1> DEFINE x == [hub EXCEPT !.conn = "connected"]
<1> DEFINE z == Goto(x, c, "sending")
<1>1. /\ hub \in HUB /\ hub.owner = c /\ At(hub) = "connecting" /\ hub.at[c] = "connecting"
      /\ \A b \in Callers : b # c => hub.at[b] = "idle"
      /\ hub.conn = "connecting" /\ hub' = ResetKeepAlive(z)
  BY Owns DEF Open
<1>2. /\ x \in HUB /\ SameRun(hub, x) /\ SameShake(hub, x) /\ SameTimers(hub, x)
      /\ SameCalls(hub, x) /\ x.conn = "connected"
  BY <1>1 DEF HUB, SameRun, SameShake, SameTimers, SameCalls
<1> HIDE DEF x
<1>3. /\ z \in HUB /\ SameShake(x, z) /\ SameTimers(x, z) /\ SameCalls(x, z)
      /\ z.state = x.state /\ z.started = x.started /\ z.owner = x.owner
      /\ z.delayed = x.delayed /\ z.conn = x.conn /\ z.at = [x.at EXCEPT ![c] = "sending"]
  BY <1>2, GoesTo DEF Places
<1> HIDE DEF z
<1>4. /\ hub' \in HUB /\ SameRun(z, hub') /\ SameShake(z, hub') /\ SameCalls(z, hub')
      /\ hub'.conn = z.conn /\ hub'.timeouts = z.timeouts /\ hub'.ping \in {"none", z.ping}
  BY <1>1, <1>3, KeepAliveReset
<1>5. /\ SameShake(hub, hub') /\ SameCalls(hub, hub') /\ hub'.conn = "connected"
      /\ hub'.timeouts = hub.timeouts /\ hub'.ping \in {"none", hub.ping}
      /\ hub'.state = hub.state /\ hub'.started = hub.started /\ hub'.owner = c
      /\ hub'.delayed = hub.delayed /\ hub'.at = [hub.at EXCEPT ![c] = "sending"]
  BY <1>1, <1>2, <1>3, <1>4 DEF SameRun, SameShake, SameTimers, SameCalls
<1>6. At(hub') = "sending" /\ \A b \in Callers : hub'.at[b] = "idle" <=> hub.at[b] = "idle"
  BY <1>1, <1>5 DEF HUB, At
<1>7. RunInv(hub') /\ hub'.state # "Connected"
  BY <1>1, <1>5, <1>6 DEF HubInv, Core, RunInv, Callers
<1>8. ConnInv(hub')
  BY <1>5, <1>6 DEF ConnInv
<1>9. ShakeInv(hub')
  BY <1>1, <1>5, <1>6 DEF HubInv, Core, ShakeInv, SameShake
<1>10. TimerInv(hub')
  BY <1>1, <1>5, <1>6, <1>7 DEF HubInv, Core, TimerInv, SameShake
<1>11. CallInv(hub')
  BY <1>5 DEF HubInv, Core, CallInv, SameCalls
<1> QED
  BY <1>4, <1>5, <1>7, <1>8, <1>9, <1>10, <1>11 DEF HubInv, Core, Good

LEMMA RefuseIsGood ==
  ASSUME HubInv(hub), NEW c \in Callers, Refuse(c)
  PROVE  Good(hub')
<1> DEFINE x == Goto(hub, c, "refused")
<1>1. /\ hub \in HUB /\ hub.owner = c /\ At(hub) = "connecting" /\ hub.at[c] = "connecting"
      /\ \A b \in Callers : b # c => hub.at[b] = "idle"
      /\ hub.conn \in {"connecting", "aborting"} /\ hub' = Gone(x)
  BY Owns DEF Refuse
<1>2. /\ x \in HUB /\ SameShake(hub, x) /\ SameTimers(hub, x) /\ SameCalls(hub, x)
      /\ x.state = hub.state /\ x.started = hub.started /\ x.owner = c
      /\ x.delayed = hub.delayed /\ x.at = [hub.at EXCEPT ![c] = "refused"]
  BY ZenonT(60), <1>1, GoesTo DEF Places
<1> HIDE DEF x
<1>3. /\ hub' \in HUB /\ SameShake(x, hub') /\ SameTimers(x, hub') /\ SameCalls(x, hub')
      /\ hub'.state = x.state /\ hub'.started = x.started /\ hub'.owner = x.owner
      /\ hub'.delayed = x.delayed /\ hub'.conn = "disconnected"
      /\ hub'.at = [b \in Callers |-> IF x.at[b] = "stopping" THEN "stopped" ELSE x.at[b]]
  BY <1>1, <1>2, ConnectionGone
<1>4. /\ SameShake(hub, hub') /\ SameTimers(hub, hub') /\ SameCalls(hub, hub')
      /\ hub'.state = hub.state /\ hub'.started = hub.started /\ hub'.owner = c
      /\ hub'.delayed = hub.delayed
  BY <1>2, <1>3 DEF SameShake, SameTimers, SameCalls
<1>5. At(hub') = "refused" /\ \A b \in Callers : hub'.at[b] = "idle" <=> hub.at[b] = "idle"
  BY <1>1, <1>2, <1>3 DEF HUB, At
<1>6. RunInv(hub') /\ hub'.state # "Connected"
  BY <1>1, <1>3, <1>4, <1>5 DEF HubInv, Core, RunInv, Callers
<1>7. ConnInv(hub') /\ ShakeInv(hub')
  BY <1>1, <1>3, <1>4, <1>5 DEF HubInv, Core, ConnInv, ShakeInv, SameShake
<1>8. TimerInv(hub')
  BY <1>1, <1>3, <1>4, <1>5, <1>6 DEF HubInv, Core, TimerInv, SameShake, SameTimers
<1>9. CallInv(hub')
  BY <1>1, <1>4 DEF HubInv, Core, CallInv, SameCalls
<1> QED
  BY <1>3, <1>4, <1>6, <1>7, <1>8, <1>9 DEF HubInv, Core, Good

\* The timer of the server's silence is cleared before it is set: one runs at most.
LEMMA SentIsGood ==
  ASSUME HubInv(hub), NEW c \in Callers, Sent(c)
  PROVE  Good(hub')
<1> DEFINE x == Goto(hub, c, "handshaking")
<1> DEFINE w == CleanupTimeout(x)
<1> DEFINE v == ResetTimeout(w)
<1>1. /\ hub \in HUB /\ hub.owner = c /\ At(hub) = "sending" /\ hub.at[c] = "sending"
      /\ \A b \in Callers : b # c => hub.at[b] = "idle"
      /\ hub' = ResetKeepAlive(v)
  BY Owns DEF Sent
<1>2. /\ x \in HUB /\ SameShake(hub, x) /\ SameTimers(hub, x) /\ SameCalls(hub, x)
      /\ x.state = hub.state /\ x.started = hub.started /\ x.owner = c
      /\ x.delayed = hub.delayed /\ x.conn = hub.conn
      /\ x.at = [hub.at EXCEPT ![c] = "handshaking"]
  BY ZenonT(60), <1>1, GoesTo DEF Places
<1> HIDE DEF x
<1>3. /\ w \in HUB /\ SameRun(x, w) /\ SameShake(x, w) /\ SameCalls(x, w)
      /\ w.conn = x.conn /\ w.timeouts = 0 /\ w.ping = x.ping
  BY <1>2, NoTimeouts
<1> HIDE DEF w
<1>4. /\ v \in HUB /\ SameRun(w, v) /\ SameShake(w, v) /\ SameCalls(w, v) /\ v.conn = w.conn
      /\ InherentKeepAlive => v.timeouts = 0 /\ v.ping = w.ping
  BY <1>3, TimeoutReset
<1> HIDE DEF v
<1>5. /\ hub' \in HUB /\ SameRun(v, hub') /\ SameShake(v, hub') /\ SameCalls(v, hub')
      /\ hub'.conn = v.conn /\ hub'.timeouts = v.timeouts
      /\ hub'.ping = IF InherentKeepAlive THEN v.ping ELSE "none"
  BY <1>1, <1>4, KeepAliveReset
<1>6. /\ SameShake(hub, hub') /\ SameCalls(hub, hub') /\ hub'.conn = hub.conn
      /\ hub'.state = hub.state /\ hub'.started = hub.started /\ hub'.owner = c
      /\ hub'.delayed = hub.delayed /\ hub'.at = x.at
  BY <1>2, <1>3, <1>4, <1>5 DEF SameRun, SameShake, SameCalls
<1>7. hub'.ping = "none" /\ (InherentKeepAlive => hub'.timeouts = 0)
  BY <1>2, <1>3, <1>4, <1>5 DEF HubInv, Core, TimerInv, SameTimers
<1>8. At(hub') = "handshaking" /\ \A b \in Callers : hub'.at[b] = "idle" <=> hub.at[b] = "idle"
  BY <1>1, <1>2, <1>6 DEF HUB, At
<1>9. RunInv(hub') /\ hub'.state # "Connected"
  BY <1>1, <1>6, <1>8 DEF HubInv, Core, RunInv, Callers
<1>10. ConnInv(hub')
  BY <1>1, <1>6, <1>8 DEF HubInv, Core, ConnInv
<1>11. ShakeInv(hub')
  BY <1>1, <1>6, <1>8 DEF HubInv, Core, ShakeInv, SameShake
<1>12. TimerInv(hub')
  BY <1>7, <1>8 DEF TimerInv
<1>13. CallInv(hub')
  BY <1>6 DEF HubInv, Core, CallInv, SameCalls
<1> QED
  BY <1>5, <1>6, <1>9, <1>10, <1>11, <1>12, <1>13 DEF HubInv, Core, Good

LEMMA ServerTimeoutIsGood ==
  ASSUME HubInv(hub), ServerTimeout
  PROVE  Good(hub')
<1> DEFINE x == [hub EXCEPT !.timeouts = 0]
<1>1. hub \in HUB /\ hub.timeouts \in 0 .. 1
  BY DEF HubInv, Core, HUB
<1>2. hub' = ConnStop(x)
  BY <1>1 DEF ServerTimeout
<1>3. /\ x \in HUB /\ SameRun(hub, x) /\ SameShake(hub, x) /\ SameCalls(hub, x)
      /\ x.conn = hub.conn /\ x.timeouts = 0 /\ x.ping = hub.ping
  BY <1>1 DEF HUB, SameRun, SameShake, SameCalls
<1> HIDE DEF x
<1>4. Leads(hub, x)
  BY <1>3, LessTimersKeep
<1>5. Leads(x, hub')
  BY <1>2, <1>4, ConnStopKeeps DEF Leads
<1> QED
  BY <1>4, <1>5, LeadsOn, LeadsIsGood

\* Only a hub that is stopping or reconnecting finds its ping timer at its end, and its
\* handshake is over by then: the send of a handshake request clears the handle.
LEMMA PingFiresIsGood ==
  ASSUME HubInv(hub), PingFires
  PROVE  Good(hub')
<1>1. hub \in HUB /\ hub.ping = "running"
  BY DEF HubInv, Core, PingFires
<1>2. CASE hub.state = "Connected"
  <2>1. hub' = ResetKeepAlive(hub)
    BY <1>2 DEF PingFires
  <2>2. /\ hub' \in HUB /\ SameRun(hub, hub') /\ SameShake(hub, hub') /\ SameCalls(hub, hub')
        /\ hub'.conn = hub.conn /\ hub'.timeouts = hub.timeouts /\ hub'.ping \in {"none", hub.ping}
    BY <1>1, <2>1, KeepAliveReset
  <2> QED
    BY <2>2, LessTimersKeep, LeadsIsGood
<1>3. CASE hub.state # "Connected"
  <2>1. hub' = [hub EXCEPT !.ping = "over"]
    BY <1>3 DEF PingFires
  <2>2. /\ hub' \in HUB /\ SameRun(hub, hub') /\ SameShake(hub, hub') /\ SameCalls(hub, hub')
        /\ hub'.conn = hub.conn /\ hub'.timeouts = hub.timeouts /\ hub'.ping = "over"
    BY <1>1, <2>1 DEF HUB, SameRun, SameShake, SameCalls
  <2>3. /\ hub.answered /\ ~InherentKeepAlive
        /\ hub.conn \notin {"disconnected", "connecting", "aborting"}
    BY <1>1 DEF HubInv, Core, TimerInv
  <2>4. At(hub) \notin {"handshaking", "returning"}
    <3>1. hub.shake[hub.owner] # "pending"
      BY <2>3 DEF HubInv, Core, ShakeInv
    <3>2. ~Ready(hub, hub.owner)
      BY <1>1 DEF PingFires, Quiet, HUB
    <3> QED
      BY <3>1, <3>2 DEF Ready, At
  <2>5. RunInv(hub') /\ ConnInv(hub') /\ ShakeInv(hub')
    BY <2>2 DEF HubInv, Core, RunInv, ConnInv, ShakeInv, SameRun, SameShake, At
  <2>6. TimerInv(hub')
    BY <1>3, <2>2, <2>3, <2>4 DEF TimerInv, SameRun, SameShake, At
  <2>7. CallInv(hub')
    BY <2>2 DEF HubInv, Core, CallInv, SameCalls
  <2> QED
    BY <1>3, <2>2, <2>5, <2>6, <2>7 DEF HubInv, Core, Good, SameRun
<1> QED
  BY <1>2, <1>3

LEMMA DelayRunsOutIsGood ==
  ASSUME HubInv(hub), DelayRunsOut
  PROVE  Good(hub')
<1> DEFINE x == [hub EXCEPT !.delayed = FALSE]
<1>1. /\ hub \in HUB /\ hub.state = "Reconnecting" /\ At(hub) = "idle" /\ hub.started
      /\ hub.conn = "disconnected"
  BY DEF HubInv, Core, RunInv, DelayRunsOut
<1>2. hub.timeouts = 0 /\ hub.ping = "none" /\ \A c \in Callers : hub.at[c] = "idle"
  BY <1>1 DEF HubInv, Core, RunInv, TimerInv, At
<1>3. /\ x \in HUB /\ x.state = hub.state /\ x.started = hub.started /\ x.at = hub.at
      /\ x.conn = hub.conn /\ SameTimers(hub, x) /\ SameCalls(hub, x) /\ ~x.delayed
  BY <1>1 DEF HUB, SameTimers, SameCalls
<1>4. hub' = StartInternal(x, "reconnect")
  BY <1>1 DEF DelayRunsOut
<1> HIDE DEF x
<1>5. CallInv(x)
  BY <1>3 DEF HubInv, Core, CallInv, SameCalls
<1>6. HubInv(hub')
  BY <1>1, <1>2, <1>3, <1>4, <1>5, StartInternalKeeps DEF SameTimers, Callers
<1> QED
  BY <1>1, <1>6 DEF Good

--------------------------------------------------------------------------------
(* What holds even if the hub is started again during a reconnection           *)

Sound(h) == h \in HUB /\ CallInv(h)

\* From h the hub stays sound, and no timer of the server's silence is started.
Follows(h, y) == Sound(y) /\ (h.timeouts = 0 => y.timeouts = 0)

LEMMA SoundFrame ==
  ASSUME NEW h, Sound(h), NEW y \in HUB, SameCalls(h, y), h.conn \in Up => y.conn \in Up
  PROVE  Sound(y)
BY DEF Sound, CallInv, SameCalls, Up

LEMMA FollowsOn ==
  ASSUME NEW h, NEW x, NEW y, Follows(h, x), Follows(x, y)
  PROVE  Follows(h, y)
BY DEF Follows

LEMMA ConnStopSound ==
  ASSUME NEW h, Sound(h)
  PROVE  Follows(h, ConnStop(h))
<1> DEFINE y == ConnStop(h)
<1>1. /\ y \in HUB /\ SameTimers(h, y) /\ SameCalls(h, y)
      /\ h.conn = "connected" => y.conn = "disconnecting"
      /\ h.conn \notin {"connecting", "connected"} => y.conn = h.conn
  BY ConnStops DEF Sound
<1> HIDE DEF y
<1>2. Sound(y)
  BY <1>1, SoundFrame DEF Up
<1> QED
  BY <1>1, <1>2 DEF Follows, SameTimers, y

LEMMA NoTimersSound ==
  ASSUME NEW h, Sound(h)
  PROVE  Follows(h, CleanupBoth(h))
<1> DEFINE y == CleanupBoth(h)
<1>1. y \in HUB /\ SameCalls(h, y) /\ y.conn = h.conn /\ y.timeouts = 0
  BY NoTimers DEF Sound
<1> HIDE DEF y
<1>2. Sound(y)
  BY <1>1, SoundFrame
<1> QED
  BY <1>1, <1>2 DEF Follows, y

LEMMA GotoSound ==
  ASSUME NEW h, Sound(h), NEW c \in Callers, NEW where \in Places
  PROVE  Follows(h, Goto(h, c, where))
<1> DEFINE y == Goto(h, c, where)
<1>1. y \in HUB /\ SameTimers(h, y) /\ SameCalls(h, y) /\ y.conn = h.conn
  BY GoesTo DEF Sound
<1> HIDE DEF y
<1>2. Sound(y)
  BY <1>1, SoundFrame
<1> QED
  BY <1>1, <1>2 DEF Follows, SameTimers, y

LEMMA StartInternalSound ==
  ASSUME NEW h, Sound(h), NEW c \in Callers
  PROVE  Follows(h, StartInternal(h, c))
<1> DEFINE y     == StartInternal(h, c)
<1> DEFINE at    == [h.at EXCEPT ![c] = IF Stopped(h) THEN "connecting" ELSE "refused"]
<1> DEFINE shake == [h.shake EXCEPT ![c] = "pending"]
<1> DEFINE conn  == IF Stopped(h) THEN "connecting" ELSE h.conn
<1> DEFINE x     == [h EXCEPT !.stopErr = FALSE, !.answered = FALSE, !.owner = c]
<1> DEFINE z     == [x EXCEPT !.shake = shake, !.conn = conn]
<1>1. h \in HUB
  BY DEF Sound
<1>2. /\ at \in [Callers -> Places] /\ shake \in [Callers -> {"pending", "resolved", "rejected"}]
      /\ conn \in {"disconnected", "connecting", "aborting", "connected", "disconnecting"}
      /\ h.conn \in Up => conn = h.conn
  BY <1>1 DEF HUB, Places, Stopped, Up
<1>3. y = [h EXCEPT !.stopErr = FALSE, !.answered = FALSE, !.owner = c, !.shake = shake,
                    !.at = at, !.conn = conn]
  BY DEF StartInternal
<1> HIDE DEF at, shake, conn
<1>4. y = [z EXCEPT !.at = at]
  BY <1>3
<1>5. x \in HUB /\ SameTimers(h, x) /\ SameCalls(h, x)
  BY ZenonT(60), <1>1 DEF HUB, SameTimers, SameCalls
<1> HIDE DEF x
<1>6. z \in HUB /\ SameTimers(h, z) /\ SameCalls(h, z) /\ z.conn = conn
  BY <1>2, <1>5 DEF HUB, SameTimers, SameCalls
<1> HIDE DEF z
<1>7. y \in HUB /\ SameTimers(h, y) /\ SameCalls(h, y) /\ y.conn = conn
  BY <1>2, <1>4, <1>6 DEF HUB, SameTimers, SameCalls
<1> HIDE DEF y
<1>8. Sound(y)
  BY <1>2, <1>7, SoundFrame
<1> QED
  BY <1>7, <1>8 DEF Follows, SameTimers, y

LEMMA StartCallSound ==
  ASSUME NEW h, Sound(h)
  PROVE  Follows(h, StartCall(h))
<1> DEFINE x == [h EXCEPT !.state = "Connecting", !.promise = TRUE]
<1> DEFINE z == [h EXCEPT !.promise = FALSE]
<1>1. StartCall(h) = StartInternal(x, "start") \/ StartCall(h) = z
  BY DEF StartCall
<1>2. x \in HUB /\ SameTimers(h, x) /\ SameCalls(h, x) /\ x.conn = h.conn
  BY DEF Sound, HUB, States, SameTimers, SameCalls
<1>3. z \in HUB /\ SameTimers(h, z) /\ SameCalls(h, z) /\ z.conn = h.conn
  BY DEF Sound, HUB, SameTimers, SameCalls
<1> HIDE DEF x, z
<1>4. Follows(h, x) /\ Follows(h, z)
  BY <1>2, <1>3, SoundFrame DEF Follows, SameTimers
<1>5. Follows(x, StartInternal(x, "start"))
  BY <1>4, StartInternalSound DEF Follows, Callers
<1> QED
  BY <1>1, <1>4, <1>5, FollowsOn

LEMMA CompleteCloseSound ==
  ASSUME NEW h, Sound(h), NEW y \in CompleteClose(h)
  PROVE  Follows(h, y)
<1> DEFINE closed == [h EXCEPT !.state = "Disconnected", !.started = FALSE]
<1>1. y = h \/ y = closed \/ y = StartCall(closed)
  BY DEF CompleteClose
<1>2. closed \in HUB /\ SameTimers(h, closed) /\ SameCalls(h, closed) /\ closed.conn = h.conn
  BY DEF Sound, HUB, States, SameTimers, SameCalls
<1> HIDE DEF closed
<1>3. Follows(h, closed) /\ Follows(h, h)
  BY <1>2, SoundFrame DEF Follows, SameTimers
<1>4. Follows(closed, StartCall(closed))
  BY <1>3, StartCallSound DEF Follows
<1> QED
  BY <1>1, <1>3, <1>4, FollowsOn

LEMMA StopInternalSound ==
  ASSUME NEW h, Sound(h), NEW y \in StopInternal(h)
  PROVE  Follows(h, y)
<1> DEFINE x == [h EXCEPT !.state = "Disconnecting", !.delayed = FALSE]
<1> DEFINE late == h.lateStop \/ Returning(h)
<1> DEFINE z == [h EXCEPT !.state = "Disconnecting", !.stopErr = TRUE, !.lateStop = late]
<1>1. y = h \/ y \in CompleteClose(x) \/ y = ConnStop(CleanupBoth(z))
  BY DEF StopInternal
<1>2. x \in HUB /\ SameTimers(h, x) /\ SameCalls(h, x) /\ x.conn = h.conn
  BY DEF Sound, HUB, States, SameTimers, SameCalls
<1>3. z \in HUB /\ SameTimers(h, z) /\ SameCalls(h, z) /\ z.conn = h.conn
  <2>1. late \in BOOLEAN
    BY DEF Sound, HUB
  <2> HIDE DEF late
  <2> QED
    BY <2>1 DEF Sound, HUB, States, SameTimers, SameCalls
<1> HIDE DEF x, z
<1>4. Follows(h, x) /\ Follows(h, z) /\ Follows(h, h)
  BY <1>2, <1>3, SoundFrame DEF Follows, SameTimers
<1>5. Follows(z, CleanupBoth(z))
  BY <1>4, NoTimersSound DEF Follows
<1>6. Follows(CleanupBoth(z), ConnStop(CleanupBoth(z)))
  BY <1>5, ConnStopSound DEF Follows
<1>7. y \in CompleteClose(x) => Follows(x, y)
  BY <1>4, CompleteCloseSound DEF Follows
<1> QED
  BY <1>1, <1>4, <1>5, <1>6, <1>7, FollowsOn

LEMMA StopCallSound ==
  ASSUME NEW h, Sound(h), NEW p \in Stoppers, NEW y \in StopCall(h, p)
  PROVE  Follows(h, y)
<1> DEFINE at == IF Stopped(h) \/ h.state = "Disconnected" THEN "closed" ELSE "closing"
<1>1. PICK x \in StopInternal(h) :
        y = [x EXCEPT !.stop[p] = at, !.waiting = IF h.promise /\ x.promise THEN @ \cup {p} ELSE @]
  BY DEF StopCall
<1>2. Follows(h, x)
  BY StopInternalSound
<1>3. x \in HUB
  BY <1>2 DEF Follows, Sound
<1> DEFINE stop    == [x.stop EXCEPT ![p] = at]
<1> DEFINE waiting == IF h.promise /\ x.promise THEN x.waiting \cup {p} ELSE x.waiting
<1>4. stop \in [Stoppers -> {"idle", "closing", "closed"}] /\ waiting \in SUBSET Stoppers
  BY <1>3 DEF HUB
<1>5. y = [x EXCEPT !.stop = stop, !.waiting = waiting]
  BY <1>1, <1>3 DEF HUB
<1> HIDE DEF stop, waiting
<1>6. y \in HUB /\ SameTimers(x, y) /\ SameCalls(x, y) /\ y.conn = x.conn
  BY <1>3, <1>4, <1>5 DEF HUB, SameTimers, SameCalls
<1>7. Follows(x, y)
  BY <1>2, <1>6, SoundFrame DEF Follows, SameTimers
<1> QED
  BY <1>2, <1>7, FollowsOn

LEMMA UserMayStopSound ==
  ASSUME NEW h, Sound(h), NEW y \in UserMayStop(h)
  PROVE  Follows(h, y)
<1>1. y = h \/ \E p \in Stoppers : y \in StopCall(h, p)
  BY DEF UserMayStop
<1>2. Follows(h, h)
  BY DEF Follows
<1> QED
  BY <1>1, <1>2, StopCallSound

LEMMA ReconnectSound ==
  ASSUME NEW h, Sound(h), NEW y \in Reconnect(h)
  PROVE  Follows(h, y)
<1>1. CASE ~NextRetryDelay(0)
  BY <1>1, CompleteCloseSound DEF Reconnect
<1>2. CASE NextRetryDelay(0)
  <2> DEFINE w == [h EXCEPT !.state = "Reconnecting", !.tries = 1]
  <2>1. 1 \in 0 .. Retries
    BY <1>2, HubAssumption DEF NextRetryDelay
  <2>2. w \in HUB /\ SameTimers(h, w) /\ SameCalls(h, w) /\ w.conn = h.conn
    BY <2>1 DEF Sound, HUB, States, SameTimers, SameCalls
  <2>3. PICK x \in UserMayStop(w) :
          y = IF x.state = "Reconnecting" THEN [x EXCEPT !.delayed = TRUE] ELSE x
    BY <1>2 DEF Reconnect, UserMayStop
  <2> HIDE DEF w
  <2>4. Follows(h, w)
    BY <2>2, SoundFrame DEF Follows, SameTimers
  <2>5. Follows(w, x)
    BY <2>4, UserMayStopSound DEF Follows
  <2> DEFINE z == [x EXCEPT !.delayed = TRUE]
  <2>6. z \in HUB /\ SameTimers(x, z) /\ SameCalls(x, z) /\ z.conn = x.conn
    BY <2>5 DEF Follows, Sound, HUB, SameTimers, SameCalls
  <2>7. y = x \/ y = z
    BY <2>3
  <2> HIDE DEF z
  <2>8. Follows(x, z)
    BY <2>5, <2>6, SoundFrame DEF Follows, SameTimers
  <2> QED
    BY <2>4, <2>5, <2>7, <2>8, FollowsOn
<1> QED
  BY <1>1, <1>2

LEMMA EndSound ==
  ASSUME NEW h, Sound(h), NEW I
  PROVE  Follows(h, End(h, I))
<1> DEFINE y == End(h, I)
<1>1. /\ y \in HUB /\ SameTimers(h, y) /\ y.conn = h.conn
      /\ y.callbacks = h.callbacks /\ y.send = h.send
      /\ \A i \in Calls : y.call[i] = "open" => h.call[i] = "open" /\ i \notin I
  BY Ends DEF Sound
<1> HIDE DEF y
<1>2. Sound(y)
  BY <1>1 DEF Sound, CallInv
<1> QED
  BY <1>1, <1>2 DEF Follows, SameTimers, y

LEMMA ForgetSound ==
  ASSUME NEW h, Sound(h), NEW i, i \in Calls => h.call[i] # "open"
  PROVE  Follows(h, Forget(h, i))
<1> DEFINE y == Forget(h, i)
<1>1. /\ y \in HUB /\ SameTimers(h, y) /\ y.conn = h.conn
      /\ y.callbacks = h.callbacks \ {i} /\ y.send = h.send /\ y.call = h.call
  BY Forgets DEF Sound
<1> HIDE DEF y
<1>2. Sound(y)
  BY <1>1 DEF Sound, CallInv
<1> QED
  BY <1>1, <1>2 DEF Follows, SameTimers, y

LEMMA ProcessSound ==
  ASSUME NEW h, Sound(h), NEW m \in Messages, NEW y \in Process(h, m)
  PROVE  Follows(h, y)
<1>1. Follows(h, h)
  BY DEF Follows
<1>2. CASE m.type \in {"invocation", "asking"}
  <2>1. y \in UserMayStop(h) \/ \E x \in UserMayStop(h) : y \in StopInternal(x)
    BY <1>2 DEF Process, InvokeClientMethod
  <2>2. ASSUME NEW x \in UserMayStop(h), y \in StopInternal(x) PROVE Follows(h, y)
    <3>1. Follows(h, x)
      BY UserMayStopSound
    <3>2. Follows(x, y)
      BY <2>2, <3>1, StopInternalSound DEF Follows
    <3> QED
      BY <3>1, <3>2, FollowsOn
  <2> QED
    BY <2>1, <2>2, UserMayStopSound
<1>3. CASE m.type = "close"
  BY <1>3, StopInternalSound DEF Process
<1>4. CASE m.type = "closeReconnect"
  BY <1>4, ConnStopSound DEF Process
<1>5. CASE m.type = "item"
  <2>1. y = h \/ y = End(h, {m.id})
    BY <1>5 DEF Process, Callback
  <2> QED
    BY <1>1, <2>1, EndSound
<1>6. CASE m.type = "completion" /\ m.id \in h.callbacks
  <2> DEFINE x == End(h, {m.id})
  <2>1. y = Forget(x, m.id)
    BY <1>6 DEF Process, Callback
  <2>2. Follows(h, x)
    BY EndSound
  <2>3. m.id \in Calls => x.call[m.id] # "open"
    BY Ends DEF Sound
  <2> HIDE DEF x
  <2>4. Follows(x, y)
    BY <2>1, <2>2, <2>3, ForgetSound DEF Follows
  <2> QED
    BY <2>2, <2>4, FollowsOn
<1>7. CASE m.type \in {"none", "ping"} \/ (m.type = "completion" /\ m.id \notin h.callbacks)
  <2>1. y = h
    BY <1>7 DEF Process
  <2> QED
    BY <1>1, <2>1
<1>8. m.type \in {"none", "ping", "invocation", "asking", "close", "closeReconnect", "item", "completion"}
  BY DEF Messages
<1> QED
  BY <1>2, <1>3, <1>4, <1>5, <1>6, <1>7, <1>8

LEMMA CloseSound ==
  ASSUME Sound(hub), Close
  PROVE  Sound(hub')
<1> DEFINE x == Leaving(hub)
<1>1. hub' \in CASE x.state = "Disconnecting"        -> CompleteClose(x)
                 [] x.state = "Connected" /\ Policy  -> Reconnect(x)
                 [] x.state = "Connected" /\ ~Policy -> CompleteClose(x)
                 [] OTHER                            -> {x}
  BY ClosesFrom
<1>2. /\ x \in HUB
      /\ \A i \in Calls : x.call[i] = "open" => hub.call[i] = "open" /\ i \notin hub.callbacks
  BY CloseLeaves DEF Sound
<1> HIDE DEF x
<1>3. hub' \in CompleteClose(x) \/ hub' \in Reconnect(x) \/ hub' = x
  BY <1>1
<1>4. Sound(x)
  BY <1>2 DEF Sound, CallInv
<1> QED
  BY <1>3, <1>4, CompleteCloseSound, ReconnectSound DEF Follows

\* The timer is cleared before it is started: one runs at most.
LEMMA ReceiveSound ==
  ASSUME Sound(hub), NEW m \in Messages, Receive(m)
  PROVE  Sound(hub')
<1> DEFINE clean == CleanupTimeout(hub)
<1> DEFINE o     == hub.owner
<1> DEFINE shake == [hub.shake EXCEPT ![o] = IF hub.shake[o] = "pending" THEN "resolved" ELSE hub.shake[o]]
<1> DEFINE first == [clean EXCEPT !.answered = TRUE, !.shake = shake]
<1> DEFINE open  == IF hub.answered THEN clean ELSE first
<1>1. hub \in HUB /\ o \in Callers
  BY DEF Sound, HUB
<1>2. /\ clean \in HUB /\ SameRun(hub, clean) /\ SameShake(hub, clean) /\ SameCalls(hub, clean)
      /\ clean.conn = hub.conn /\ clean.timeouts = 0
  BY <1>1, NoTimeouts
<1>3. shake \in [Callers -> {"pending", "resolved", "rejected"}]
  BY <1>1 DEF HUB
<1>4. HandshakeAnswered(clean) = first
  BY ZenonT(60), <1>2 DEF HandshakeAnswered, SameRun, SameShake, HUB
<1>5. PICK y \in Process(open, m) : hub' = ResetTimeout(y)
  BY <1>4 DEF Receive, Received
<1> HIDE DEF clean, shake
<1>6. first \in HUB /\ first.timeouts = 0 /\ SameCalls(clean, first) /\ first.conn = clean.conn
  BY ZenonT(60), <1>2, <1>3 DEF HUB, SameCalls
<1> HIDE DEF first
<1>7. open \in HUB /\ open.timeouts = 0 /\ SameCalls(hub, open) /\ open.conn = hub.conn
  BY <1>2, <1>6 DEF SameCalls
<1> HIDE DEF open
<1>8. Follows(open, y)
  BY <1>7, SoundFrame, ProcessSound
<1>9. y \in HUB /\ y.timeouts = 0 /\ Sound(y)
  BY <1>7, <1>8 DEF Follows, Sound
<1>10. hub' \in HUB /\ SameCalls(y, hub') /\ hub'.conn = y.conn
  BY <1>5, <1>9, TimeoutReset
<1> QED
  BY <1>9, <1>10, SoundFrame

LEMMA ReceiveRefusalSound ==
  ASSUME Sound(hub), ReceiveRefusal
  PROVE  Sound(hub')
<1> DEFINE o == hub.owner
<1> DEFINE shake == [hub.shake EXCEPT ![o] = IF hub.shake[o] = "pending" THEN "rejected" ELSE hub.shake[o]]
<1> DEFINE x == [hub EXCEPT !.shake = shake]
<1>1. hub \in HUB /\ o \in Callers
  BY DEF Sound, HUB
<1>2. shake \in [Callers -> {"pending", "resolved", "rejected"}]
  BY <1>1 DEF HUB
<1>3. hub' = CleanupTimeout(x)
  BY <1>1 DEF ReceiveRefusal, HandshakeRefused, HUB
<1> HIDE DEF shake
<1>4. x \in HUB /\ SameCalls(hub, x) /\ x.conn = hub.conn
  BY <1>1, <1>2 DEF HUB, SameCalls
<1> HIDE DEF x
<1>5. hub' \in HUB /\ SameCalls(x, hub') /\ hub'.conn = x.conn
  BY <1>3, <1>4, NoTimeouts
<1> QED
  BY <1>4, <1>5, SoundFrame DEF SameCalls

LEMMA StopAndThrowSound ==
  ASSUME Sound(hub), NEW c \in Callers
  PROVE  Sound(StopAndThrow(hub, c))
<1> DEFINE where == IF Stopped(hub) THEN "stopped" ELSE "stopping"
<1> DEFINE x == Goto(hub, c, where)
<1>1. where \in Places
  BY DEF Places
<1>2. Sound(x)
  BY <1>1, GotoSound DEF Follows
<1>3. Sound(CleanupBoth(x))
  BY <1>2, NoTimersSound DEF Follows
<1> QED
  BY <1>3, ConnStopSound DEF Follows, StopAndThrow

LEMMA SettledSound ==
  ASSUME NEW h, Sound(h)
  PROVE  Sound(StartSettled(h))
BY PromiseSettles, SoundFrame DEF Sound

LEMMA ThrowsSound ==
  ASSUME Sound(hub), NEW c \in Callers, Throws(c)
  PROVE  Sound(hub')
<1> DEFINE x == Goto(hub, c, "idle")
<1> DEFINE z == [x EXCEPT !.state = "Disconnected"]
<1> DEFINE w == [x EXCEPT !.tries = x.tries + 1, !.delayed = TRUE]
<1>1. Sound(x)
  BY GotoSound DEF Follows, Places
<1>2. \/ hub' = StartSettled(z)
      \/ hub' \in CompleteClose(x)
      \/ NextRetryDelay(x.tries) /\ hub' = w
      \/ hub' = x
  BY DEF Throws, Fails
<1> HIDE DEF x
<1>3. z \in HUB /\ SameCalls(x, z) /\ z.conn = x.conn
  BY <1>1 DEF Sound, HUB, States, SameCalls
<1>4. Sound(StartSettled(z))
  BY <1>1, <1>3, SoundFrame, SettledSound
<1>5. ASSUME NextRetryDelay(x.tries) PROVE Sound(w)
  <2>1. x.tries + 1 \in 0 .. Retries
    BY <1>1, <1>5, HubAssumption DEF NextRetryDelay, Sound, HUB
  <2>2. w \in HUB /\ SameCalls(x, w) /\ w.conn = x.conn
    BY <1>1, <2>1 DEF Sound, HUB, SameCalls
  <2> QED
    BY <1>1, <2>2, SoundFrame
<1> QED
  BY <1>1, <1>2, <1>4, <1>5, CompleteCloseSound DEF Follows

LEMMA HandshakeDoneSound ==
  ASSUME Sound(hub), NEW c \in Callers, HandshakeDone(c)
  PROVE  Sound(hub')
<1>1. hub' = StopAndThrow(hub, c) \/ hub' = Goto(hub, c, "returning")
  BY DEF HandshakeDone
<1>2. Sound(Goto(hub, c, "returning"))
  BY GotoSound DEF Follows, Places
<1> QED
  BY <1>1, <1>2, StopAndThrowSound

LEMMA ReturnedSound ==
  ASSUME Sound(hub), NEW c \in Callers, Returned(c)
  PROVE  Sound(hub')
<1> DEFINE x == Goto(hub, c, "idle")
<1> DEFINE z == [x EXCEPT !.state = "Connected", !.lateStop = FALSE]
<1> DEFINE s == [z EXCEPT !.started = TRUE]
<1>1. Sound(x)
  BY GotoSound DEF Follows, Places
<1>2. hub' = z \/ hub' = StartSettled(s)
  BY DEF Returned, Succeeds
<1> HIDE DEF x
<1>3. z \in HUB /\ SameCalls(x, z) /\ z.conn = x.conn
  BY <1>1 DEF Sound, HUB, States, SameCalls
<1> HIDE DEF z
<1>4. s \in HUB /\ SameCalls(z, s) /\ s.conn = z.conn
  BY <1>3 DEF HUB, SameCalls
<1> HIDE DEF s
<1>5. Sound(z) /\ Sound(s)
  BY <1>1, <1>3, <1>4, SoundFrame
<1> QED
  BY <1>2, <1>5, SettledSound

LEMMA OpenSound ==
  ASSUME Sound(hub), NEW c \in Callers, Open(c)
  PROVE  Sound(hub')
<1> DEFINE x == [hub EXCEPT !.conn = "connected"]
<1> DEFINE z == Goto(x, c, "sending")
<1>1. hub' = ResetKeepAlive(z)
  BY DEF Open
<1>2. x \in HUB /\ SameCalls(hub, x) /\ x.conn = "connected"
  BY DEF Sound, HUB, SameCalls
<1> HIDE DEF x
<1>3. Sound(x)
  BY <1>2, SoundFrame DEF Up
<1>4. Sound(z)
  BY <1>3, GotoSound DEF Follows, Places
<1> HIDE DEF z
<1>5. hub' \in HUB /\ SameCalls(z, hub') /\ hub'.conn = z.conn
  BY <1>1, <1>4, KeepAliveReset DEF Sound
<1> QED
  BY <1>4, <1>5, SoundFrame

LEMMA RefuseSound ==
  ASSUME Sound(hub), NEW c \in Callers, Refuse(c)
  PROVE  Sound(hub')
<1> DEFINE x == Goto(hub, c, "refused")
<1>1. hub' = Gone(x) /\ hub.conn \in {"connecting", "aborting"}
  BY DEF Refuse
<1>2. x \in HUB /\ SameCalls(hub, x)
  BY GoesTo DEF Sound, Places
<1> HIDE DEF x
<1>3. hub' \in HUB /\ SameCalls(x, hub')
  BY <1>1, <1>2, ConnectionGone
<1> QED
  BY <1>1, <1>2, <1>3, SoundFrame DEF SameCalls, Up

LEMMA SentSound ==
  ASSUME Sound(hub), NEW c \in Callers, Sent(c)
  PROVE  Sound(hub')
<1> DEFINE x == Goto(hub, c, "handshaking")
<1> DEFINE w == CleanupTimeout(x)
<1> DEFINE v == ResetTimeout(w)
<1>1. hub' = ResetKeepAlive(v)
  BY DEF Sent
<1>2. Sound(x)
  BY GotoSound DEF Follows, Places
<1> HIDE DEF x
<1>3. w \in HUB /\ w.timeouts = 0 /\ SameCalls(x, w) /\ w.conn = x.conn
  BY <1>2, NoTimeouts DEF Sound
<1> HIDE DEF w
<1>4. v \in HUB /\ SameCalls(w, v) /\ v.conn = w.conn
  BY <1>3, TimeoutReset
<1> HIDE DEF v
<1>5. hub' \in HUB /\ SameCalls(v, hub') /\ hub'.conn = v.conn
  BY <1>1, <1>4, KeepAliveReset
<1> QED
  BY <1>2, <1>3, <1>4, <1>5, SoundFrame DEF SameCalls

LEMMA TimersSound ==
  ASSUME Sound(hub), ServerTimeout \/ PingFires \/ DelayRunsOut
  PROVE  Sound(hub')
<1> DEFINE x == [hub EXCEPT !.timeouts = 0]
<1> DEFINE z == [hub EXCEPT !.ping = "over"]
<1> DEFINE w == [hub EXCEPT !.delayed = FALSE]
<1>1. hub \in HUB /\ hub.timeouts \in 0 .. 1
  BY DEF Sound, HUB
<1>2. \/ hub' = ConnStop(x) \/ hub' = ResetKeepAlive(hub) \/ hub' = z \/ hub' = w
      \/ hub' = StartInternal(w, "reconnect")
  BY <1>1 DEF ServerTimeout, PingFires, DelayRunsOut
<1>3. x \in HUB /\ SameCalls(hub, x) /\ x.conn = hub.conn
  BY <1>1 DEF HUB, SameCalls
<1>4. z \in HUB /\ SameCalls(hub, z) /\ z.conn = hub.conn
  BY <1>1 DEF HUB, SameCalls
<1>5. w \in HUB /\ SameCalls(hub, w) /\ w.conn = hub.conn
  BY <1>1 DEF HUB, SameCalls
<1> HIDE DEF x, z, w
<1>6. Sound(x) /\ Sound(z) /\ Sound(w)
  BY <1>3, <1>4, <1>5, SoundFrame
<1>7. Sound(ConnStop(x))
  BY <1>6, ConnStopSound DEF Follows
<1>8. Sound(ResetKeepAlive(hub))
  BY <1>1, KeepAliveReset, SoundFrame
<1>9. Sound(StartInternal(w, "reconnect"))
  BY <1>6, StartInternalSound DEF Follows, Callers
<1> QED
  BY <1>2, <1>6, <1>7, <1>8, <1>9

--------------------------------------------------------------------------------
(* The user's calls                                                            *)

\* Nothing changes but calls, stops and perhaps the handle of the ping timer.
OnlyCalls(h, y) ==
  /\ Sound(y) /\ SameRun(h, y) /\ SameShake(h, y) /\ y.conn = h.conn
  /\ y.timeouts = h.timeouts /\ y.ping \in {"none", h.ping}

LEMMA OnlyCallsIsGood ==
  ASSUME HubInv(hub), OnlyCalls(hub, hub')
  PROVE  Good(hub')
<1>1. RunInv(hub') /\ ConnInv(hub') /\ ShakeInv(hub')
  BY DEF OnlyCalls, HubInv, Core, RunInv, ConnInv, ShakeInv, SameRun, SameShake, At
<1>2. TimerInv(hub')
  BY DEF OnlyCalls, HubInv, Core, TimerInv, SameRun, SameShake, At
<1> QED
  BY <1>1, <1>2 DEF OnlyCalls, Sound, HubInv, Core, Good, SameRun, SameShake

LEMMA StopReturnsCalls ==
  ASSUME Sound(hub), NEW p \in Stoppers, StopReturns(p)
  PROVE  OnlyCalls(hub, hub')
<1> DEFINE stop == [hub.stop EXCEPT ![p] = "idle"]
<1>1. hub \in HUB
  BY DEF Sound
<1>2. stop \in [Stoppers -> {"idle", "closing", "closed"}]
  BY <1>1 DEF HUB
<1>3. hub' = [hub EXCEPT !.stop = stop]
  BY <1>1 DEF StopReturns, HUB
<1> HIDE DEF stop
<1>4. /\ hub' \in HUB /\ SameRun(hub, hub') /\ SameShake(hub, hub') /\ SameTimers(hub, hub')
      /\ SameCalls(hub, hub') /\ hub'.conn = hub.conn
  BY <1>1, <1>2, <1>3 DEF HUB, SameRun, SameShake, SameTimers, SameCalls
<1> QED
  BY <1>4, SoundFrame DEF OnlyCalls, SameTimers

\* A call has a callback from the start, and its send is refused without a connection.
LEMMA CallCalls ==
  ASSUME Sound(hub), NEW i \in Calls, NEW kind, Call(i, kind)
  PROVE  OnlyCalls(hub, hub')
<1> DEFINE call    == [hub.call EXCEPT ![i] = "open"]
<1> DEFINE send    == [hub.send EXCEPT ![i] = IF hub.conn = "connected" THEN "going" ELSE "refused"]
<1> DEFINE streams == IF kind = "stream" THEN hub.streams \cup {i} ELSE hub.streams
<1> DEFINE x == [hub EXCEPT !.streams = streams, !.send = send]
<1> DEFINE z == [x EXCEPT !.call = call, !.callbacks = hub.callbacks \cup {i}]
<1>1. hub \in HUB
  BY DEF Sound
<1>2. /\ call \in [Calls -> {"new", "open", "ended", "disposed"}] /\ streams \subseteq Calls
      /\ send \in [Calls -> {"none", "going", "refused"}]
      /\ \A j \in Calls : j # i => call[j] = hub.call[j] /\ send[j] = hub.send[j]
      /\ send[i] = IF hub.conn = "connected" THEN "going" ELSE "refused"
  BY <1>1 DEF HUB
<1>3. hub' = ResetKeepAlive([hub EXCEPT !.call = call, !.callbacks = hub.callbacks \cup {i},
                                        !.streams = streams, !.send = send])
  BY <1>1 DEF Call, HUB
<1> HIDE DEF call, send, streams
<1>4. hub' = ResetKeepAlive(z)
  BY <1>3
<1>5. /\ x \in HUB /\ SameRun(hub, x) /\ SameShake(hub, x) /\ SameTimers(hub, x)
      /\ x.conn = hub.conn /\ x.send = send
  BY <1>1, <1>2 DEF HUB, SameRun, SameShake, SameTimers
<1> HIDE DEF x
<1>6. hub.callbacks \cup {i} \subseteq Calls
  BY <1>1 DEF HUB
<1>7. /\ z \in HUB /\ SameRun(hub, z) /\ SameShake(hub, z) /\ SameTimers(hub, z)
      /\ z.conn = hub.conn /\ z.send = send /\ z.call = call
      /\ z.callbacks = hub.callbacks \cup {i}
  BY <1>2, <1>5, <1>6 DEF HUB, SameRun, SameShake, SameTimers
<1> HIDE DEF z
<1>8. Sound(z)
  BY <1>2, <1>7 DEF Sound, CallInv
<1>9. /\ hub' \in HUB /\ SameRun(z, hub') /\ SameShake(z, hub') /\ SameCalls(z, hub')
      /\ hub'.conn = z.conn /\ hub'.timeouts = z.timeouts /\ hub'.ping \in {"none", z.ping}
  BY <1>4, <1>7, KeepAliveReset
<1>10. Sound(hub')
  BY <1>8, <1>9, SoundFrame
<1> QED
  BY <1>7, <1>9, <1>10 DEF OnlyCalls, SameRun, SameShake, SameTimers

\* The sends of calls settle.
LEMMA CallSentCalls ==
  ASSUME Sound(hub), NEW i \in Calls, CallSent(i)
  PROVE  OnlyCalls(hub, hub')
<1> DEFINE send == [hub.send EXCEPT ![i] = "none"]
<1>1. hub \in HUB /\ hub.send[i] = "going"
  BY DEF Sound, CallSent
<1>2. /\ send \in [Calls -> {"none", "going", "refused"}]
      /\ \A j \in Calls : j # i => send[j] = hub.send[j]
  BY <1>1 DEF HUB
<1>3. hub' = [hub EXCEPT !.send = send]
  BY <1>1 DEF CallSent, HUB
<1> HIDE DEF send
<1>4. /\ hub' \in HUB /\ SameRun(hub, hub') /\ SameShake(hub, hub') /\ SameTimers(hub, hub')
      /\ hub'.conn = hub.conn /\ hub'.send = send /\ hub'.call = hub.call
      /\ hub'.callbacks = hub.callbacks
  BY <1>1, <1>2, <1>3 DEF HUB, SameRun, SameShake, SameTimers
<1>5. Sound(hub')
  BY <1>1, <1>2, <1>4 DEF Sound, CallInv
<1> QED
  BY <1>4, <1>5 DEF OnlyCalls, SameTimers

LEMMA CallFailsCalls ==
  ASSUME Sound(hub), NEW i \in Calls, CallFails(i)
  PROVE  OnlyCalls(hub, hub')
<1> DEFINE x    == End(hub, {i})
<1> DEFINE send == [hub.send EXCEPT ![i] = "none"]
<1> DEFINE z    == [x EXCEPT !.send = send]
<1>1. hub \in HUB
  BY DEF Sound
<1>2. /\ x \in HUB /\ SameRun(hub, x) /\ SameShake(hub, x) /\ SameTimers(hub, x)
      /\ x.conn = hub.conn /\ x.callbacks = hub.callbacks /\ x.send = hub.send
      /\ \A j \in Calls : x.call[j] = "open" => hub.call[j] = "open" /\ j \notin {i}
  BY <1>1, Ends
<1>3. /\ send \in [Calls -> {"none", "going", "refused"}]
      /\ \A j \in Calls : j # i => send[j] = hub.send[j]
  BY <1>1 DEF HUB
<1>4. hub' = Forget([x EXCEPT !.send[i] = "none"], i)
  BY DEF CallFails
<1> HIDE DEF x
<1>5. hub' = Forget(z, i)
  BY <1>2, <1>4 DEF HUB
<1> HIDE DEF send
<1>6. /\ z \in HUB /\ SameRun(hub, z) /\ SameShake(hub, z) /\ SameTimers(hub, z)
      /\ z.conn = hub.conn /\ z.callbacks = hub.callbacks /\ z.send = send /\ z.call = x.call
  BY <1>2, <1>3 DEF HUB, SameRun, SameShake, SameTimers
<1> HIDE DEF z
<1>7. Sound(z)
  BY <1>2, <1>3, <1>6 DEF Sound, CallInv
<1>8. z.call[i] # "open"
  BY <1>2, <1>6
<1>9. Sound(hub')
  BY <1>5, <1>7, <1>8, ForgetSound DEF Follows
<1>10. /\ SameRun(z, hub') /\ SameShake(z, hub') /\ SameTimers(z, hub') /\ hub'.conn = z.conn
  BY <1>5, <1>6, Forgets
<1> QED
  BY <1>6, <1>9, <1>10 DEF OnlyCalls, SameRun, SameShake, SameTimers

LEMMA DisposeCalls ==
  ASSUME Sound(hub), NEW i \in Calls, Dispose(i)
  PROVE  OnlyCalls(hub, hub')
<1> DEFINE call == [hub.call EXCEPT ![i] = "disposed"]
<1> DEFINE x == [hub EXCEPT !.call = call]
<1>1. hub \in HUB
  BY DEF Sound
<1>2. /\ call \in [Calls -> {"new", "open", "ended", "disposed"}] /\ call[i] = "disposed"
      /\ \A j \in Calls : j # i => call[j] = hub.call[j]
  BY <1>1 DEF HUB
<1>3. hub' = Forget(x, i)
  BY <1>1 DEF Dispose, HUB
<1> HIDE DEF call
<1>4. /\ x \in HUB /\ SameRun(hub, x) /\ SameShake(hub, x) /\ SameTimers(hub, x)
      /\ x.conn = hub.conn /\ x.callbacks = hub.callbacks /\ x.send = hub.send /\ x.call = call
  BY <1>1, <1>2 DEF HUB, SameRun, SameShake, SameTimers
<1> HIDE DEF x
<1>5. Sound(x)
  BY <1>2, <1>4 DEF Sound, CallInv
<1>6. Sound(hub')
  BY <1>2, <1>3, <1>4, <1>5, ForgetSound DEF Follows
<1>7. /\ SameRun(x, hub') /\ SameShake(x, hub') /\ SameTimers(x, hub') /\ hub'.conn = x.conn
  BY <1>3, <1>4, Forgets
<1> QED
  BY <1>4, <1>6, <1>7 DEF OnlyCalls, SameRun, SameShake, SameTimers

\* Every step keeps the hub sound, whoever starts it and whenever.
LEMMA NextIsSound ==
  ASSUME Sound(hub), Next
  PROVE  Sound(hub')
<1>1. CASE Continuation
  <2>1. ASSUME NEW c \in Callers, Throws(c) \/ HandshakeDone(c) \/ Returned(c)
        PROVE  Sound(hub')
    BY <2>1, ThrowsSound, HandshakeDoneSound, ReturnedSound
  <2>2. ASSUME NEW p \in Stoppers, StopReturns(p) PROVE Sound(hub')
    BY <2>2, StopReturnsCalls DEF OnlyCalls
  <2> QED
    BY <1>1, <2>1, <2>2 DEF Continuation
<1>2. ASSUME NEW c \in Callers, Open(c) \/ Refuse(c) \/ Sent(c) \/ SendFails(c)
      PROVE  Sound(hub')
  <2>1. CASE SendFails(c)
    BY <2>1, StopAndThrowSound DEF SendFails
  <2> QED
    BY <1>2, <2>1, OpenSound, RefuseSound, SentSound
<1>3. CASE Close \/ ReceiveRefusal
  BY <1>3, CloseSound, ReceiveRefusalSound
<1>4. ASSUME NEW m \in Messages, Receive(m) PROVE Sound(hub')
  BY <1>4, ReceiveSound
<1>5. CASE ServerTimeout \/ PingFires \/ DelayRunsOut
  BY <1>5, TimersSound
<1>6. CASE Start
  BY <1>6, StartCallSound DEF Start, Follows
<1>7. ASSUME NEW p \in Stoppers, Stop(p) PROVE Sound(hub')
  BY <1>7, StopCallSound DEF Stop, Follows
<1>8. ASSUME NEW i \in Calls, NEW kind \in {"invoke", "stream"}, Call(i, kind)
      PROVE  Sound(hub')
  BY <1>8, CallCalls DEF OnlyCalls
<1>9. ASSUME NEW i \in Calls, CallSent(i) \/ CallFails(i) \/ Dispose(i) PROVE Sound(hub')
  BY <1>9, CallSentCalls, CallFailsCalls, DisposeCalls DEF OnlyCalls
<1> QED
  BY <1>1, <1>2, <1>3, <1>4, <1>5, <1>6, <1>7, <1>8, <1>9 DEF Next

--------------------------------------------------------------------------------
(* A hub that missed the close of its connection                               *)

\* Its connection was gone when _startInternal returned, or is to return: nothing but
\* that return and the user's calls ever happens to it.
Dead(h) ==
  /\ Sound(h) /\ h.lateClose /\ h.conn = "disconnected"
  /\ h.timeouts = 0 /\ h.ping = "none" /\ ~h.delayed
  /\ \A c \in Callers : h.at[c] \in {"idle", "returning"}
  /\ ~Returning(h) => h.state \in {"Connected", "Disconnecting"}
  /\ h.state = "Disconnecting" /\ Returning(h) => h.lateStop

\* A step from a hub that is, or becomes, such a one.
Lost(y) ==
  /\ Dead(y)
  /\ hub.state = "Disconnecting" /\ ~hub.lateStop => y.state \notin {"Connected", "Reconnecting"}

\* The close comes after the last check of _startInternal.
LEMMA LateCloseLoses ==
  ASSUME ~Overlap, HubInv(hub), Close, Returning(hub)
  PROVE  Lost(hub')
<1> DEFINE x == Leaving(hub)
<1> DEFINE closed == [x EXCEPT !.state = "Disconnected", !.started = FALSE]
<1>1. PICK c \in Callers : hub.at[c] = "returning"
  BY DEF Returning
<1>2. /\ hub \in HUB /\ c = hub.owner /\ At(hub) = "returning"
      /\ \A b \in Callers : b # c => hub.at[b] = "idle"
  BY <1>1, Owns
<1>3. hub' \in CASE x.state = "Disconnecting"        -> CompleteClose(x)
                 [] x.state = "Connected" /\ Policy  -> Reconnect(x)
                 [] x.state = "Connected" /\ ~Policy -> CompleteClose(x)
                 [] OTHER                            -> {x}
  BY ClosesFrom
<1>4. /\ x \in HUB /\ x.state = hub.state /\ x.started = hub.started /\ x.owner = hub.owner
      /\ x.delayed = hub.delayed /\ x.conn = "disconnected"
      /\ (\A b \in Callers : x.at[b] = "idle" <=> hub.at[b] = "idle")
      /\ At(x) = "returning" /\ x.timeouts = 0 /\ x.ping = "none"
      /\ x.lateStop = hub.lateStop /\ x.lateClose
      /\ \A i \in Calls : x.call[i] = "open" => hub.call[i] = "open" /\ i \notin hub.callbacks
  BY <1>2, CloseLeaves
<1> HIDE DEF x
<1>5. x.at[c] = "returning" /\ (\A b \in Callers : x.at[b] \in {"idle", "returning"}) /\ Returning(x)
  BY <1>1, <1>2, <1>4 DEF At, Returning
<1>6. x.state # "Connected" /\ ~x.delayed /\ (x.state = "Disconnecting" => x.lateStop)
  BY <1>1, <1>2, <1>4 DEF HubInv, Core, RunInv, Callers
<1>7. Dead(x)
  BY <1>2, <1>4, <1>5, <1>6 DEF Dead, Sound, CallInv, HubInv, Core
<1>8. CASE x.state = "Disconnecting"
  <2>1. hub' = x \/ hub' = closed
    <3>1. closed.at = x.at
      BY <1>4 DEF HUB
    <3>2. ~MayStart(closed)
      BY <1>5, <3>1 DEF MayStart, Callers
    <3> QED
      BY <1>3, <1>8, <3>2 DEF CompleteClose
  <2>2. /\ closed \in HUB /\ closed.state = "Disconnected" /\ closed.conn = x.conn
        /\ closed.timeouts = x.timeouts /\ closed.ping = x.ping /\ closed.delayed = x.delayed
        /\ closed.at = x.at /\ closed.lateClose = x.lateClose /\ SameCalls(x, closed)
    <3>1. closed \in HUB
      BY ZenonT(60), <1>4 DEF HUB, States
    <3>2. SameCalls(x, closed)
      BY <1>4 DEF HUB, SameCalls
    <3> QED
      BY <1>4, <3>1, <3>2 DEF HUB
  <2> HIDE DEF closed
  <2>3. Dead(closed)
    BY <1>5, <1>7, <2>2, SoundFrame DEF Dead, Returning
  <2> QED
    BY <1>7, <1>8, <2>1, <2>2, <2>3 DEF Lost
<1>9. CASE x.state # "Disconnecting"
  BY <1>3, <1>4, <1>6, <1>7, <1>9 DEF Lost
<1> QED
  BY <1>8, <1>9

\* The caller goes on all the same.
LEMMA ReturnedLoses ==
  ASSUME Dead(hub), NEW c \in Callers, Returned(c)
  PROVE  Lost(hub')
<1>1. hub \in HUB /\ hub.at[c] = "returning" /\ hub' = Succeeds(hub, c)
  BY DEF Dead, Sound, Returned
<1>2. /\ hub' \in HUB /\ SameTimers(hub, hub') /\ SameCalls(hub, hub')
      /\ hub'.state = "Connected" /\ hub'.delayed = hub.delayed
      /\ hub'.conn = hub.conn /\ hub'.lateClose = hub.lateClose
      /\ hub'.at = [hub.at EXCEPT ![c] = "idle"]
  BY <1>1, Connects
<1>3. Sound(hub')
  BY <1>2, SoundFrame DEF Dead
<1>4. \A b \in Callers : hub'.at[b] \in {"idle", "returning"}
  BY <1>1, <1>2 DEF Dead, HUB
<1>5. hub.state = "Disconnecting" => hub.lateStop
  BY <1>1 DEF Dead, Returning
<1> QED
  BY <1>2, <1>3, <1>4, <1>5 DEF Dead, Lost, SameTimers

LEMMA OnlyCallsLoses ==
  ASSUME Dead(hub), OnlyCalls(hub, hub')
  PROVE  Lost(hub')
BY DEF OnlyCalls, SameRun, Dead, Lost, Returning

\* stop() finds nothing to stop.
LEMMA StopLoses ==
  ASSUME Dead(hub), NEW p \in Stoppers, Stop(p)
  PROVE  Lost(hub')
<1> DEFINE at   == IF Stopped(hub) \/ hub.state = "Disconnected" THEN "closed" ELSE "closing"
<1> DEFINE late == hub.lateStop \/ Returning(hub)
<1> DEFINE x == [hub EXCEPT !.state = "Disconnecting", !.stopErr = TRUE, !.lateStop = late]
<1> DEFINE z == CleanupBoth(x)
<1>1. hub \in HUB /\ ~hub.delayed
  BY DEF Dead, Sound
<1>2. PICK y \in StopInternal(hub) :
        hub' = [y EXCEPT !.stop[p] = at, !.waiting = IF hub.promise /\ y.promise THEN @ \cup {p} ELSE @]
  BY DEF Stop, StopCall
<1>3. y = hub \/ y = ConnStop(z)
  BY <1>1, <1>2 DEF StopInternal
<1>4. late \in BOOLEAN /\ (Returning(hub) => late)
  BY <1>1 DEF HUB
<1> HIDE DEF late
<1>5. /\ x \in HUB /\ x.state = "Disconnecting" /\ x.lateStop = late /\ x.at = hub.at
      /\ x.delayed = hub.delayed /\ x.conn = hub.conn /\ x.lateClose = hub.lateClose
      /\ SameCalls(hub, x)
  BY <1>1, <1>4 DEF HUB, States, SameCalls
<1> HIDE DEF x
<1>6. /\ z \in HUB /\ SameRun(x, z) /\ SameCalls(x, z) /\ z.conn = x.conn
      /\ z.timeouts = 0 /\ z.ping = "none"
  BY <1>5, NoTimers
<1> HIDE DEF z
<1>7. /\ ConnStop(z) \in HUB /\ SameRun(z, ConnStop(z)) /\ SameTimers(z, ConnStop(z))
      /\ SameCalls(z, ConnStop(z)) /\ ConnStop(z).conn = "disconnected"
  BY <1>5, <1>6, ConnStops DEF Dead
<1>8. Dead(ConnStop(z)) /\ ConnStop(z).state = "Disconnecting"
  <2>1. Sound(ConnStop(z))
    BY <1>5, <1>6, <1>7, SoundFrame DEF Dead, SameCalls, Up
  <2> QED
    BY <1>4, <1>5, <1>6, <1>7, <2>1 DEF Dead, SameRun, SameTimers, Returning
<1>9. Dead(y) /\ y.state \in {hub.state, "Disconnecting"}
  BY <1>3, <1>8
<1>10. Sound(hub')
  BY StopCallSound DEF Stop, Dead, Follows
<1> DEFINE stop    == [y.stop EXCEPT ![p] = at]
<1> DEFINE waiting == IF hub.promise /\ y.promise THEN y.waiting \cup {p} ELSE y.waiting
<1>11. hub' = [y EXCEPT !.stop = stop, !.waiting = waiting]
  BY <1>2, <1>9 DEF Dead, Sound, HUB
<1> HIDE DEF stop, waiting
<1>12. /\ SameRun(y, hub') /\ SameTimers(y, hub') /\ hub'.conn = y.conn
  BY <1>9, <1>11 DEF Dead, Sound, HUB, SameRun, SameTimers
<1> QED
  BY <1>9, <1>10, <1>12 DEF Dead, Lost, SameRun, SameTimers, Returning

\* start() is refused: some promise of its own settles.
LEMMA StartLoses ==
  ASSUME ~Overlap, Dead(hub), Start
  PROVE  Lost(hub')
<1>1. hub.state # "Disconnected"
  BY DEF Start, MayStart, Dead, Returning, Callers
<1>2. hub' = [hub EXCEPT !.promise = FALSE]
  BY <1>1 DEF Start, StartCall
<1>3. SameRun(hub, hub') /\ SameTimers(hub, hub') /\ SameCalls(hub, hub') /\ hub'.conn = hub.conn
  BY <1>2 DEF Dead, Sound, HUB, SameRun, SameTimers, SameCalls
<1>4. Sound(hub')
  BY StartCallSound DEF Start, Dead, Follows
<1> QED
  BY <1>3, <1>4 DEF Dead, Lost, SameRun, SameTimers, Returning

LEMMA NextLoses ==
  ASSUME ~Overlap, Dead(hub), Next
  PROVE  Lost(hub')
<1>0. Sound(hub) /\ \A c \in Callers : hub.at[c] \in {"idle", "returning"}
  BY DEF Dead
<1>1. CASE Continuation
  <2>1. ASSUME NEW c \in Callers, Throws(c) \/ HandshakeDone(c) PROVE FALSE
    BY <1>0, <2>1 DEF Throws, HandshakeDone
  <2>2. ASSUME NEW c \in Callers, Returned(c) PROVE Lost(hub')
    BY <2>2, ReturnedLoses
  <2>3. ASSUME NEW p \in Stoppers, StopReturns(p) PROVE Lost(hub')
    BY <1>0, <2>3, StopReturnsCalls, OnlyCallsLoses
  <2> QED
    BY <1>1, <2>1, <2>2, <2>3 DEF Continuation
<1>2. ASSUME NEW c \in Callers, Open(c) \/ Refuse(c) \/ Sent(c) \/ SendFails(c)
      PROVE  FALSE
  BY <1>0, <1>2 DEF Open, Refuse, Sent, SendFails
<1>3. ~Close /\ ~ReceiveRefusal /\ ~DelayRunsOut /\ ~PingFires
  BY DEF Dead, Close, ReceiveRefusal, DelayRunsOut, PingFires
<1>4. ~ServerTimeout
  BY DEF Dead, ServerTimeout
<1>5. \A m \in Messages : ~Receive(m)
  BY DEF Dead, Receive
<1>6. CASE Start
  BY <1>6, StartLoses
<1>7. ASSUME NEW p \in Stoppers, Stop(p) PROVE Lost(hub')
  BY <1>7, StopLoses
<1>8. ASSUME NEW i \in Calls, NEW kind \in {"invoke", "stream"}, Call(i, kind)
      PROVE  Lost(hub')
  BY <1>0, <1>8, CallCalls, OnlyCallsLoses
<1>9. ASSUME NEW i \in Calls, CallSent(i) \/ CallFails(i) \/ Dispose(i) PROVE Lost(hub')
  BY <1>0, <1>9, CallSentCalls, CallFailsCalls, DisposeCalls, OnlyCallsLoses
<1> QED
  BY <1>1, <1>2, <1>3, <1>4, <1>5, <1>6, <1>7, <1>8, <1>9 DEF Next

--------------------------------------------------------------------------------
(* The theorems                                                                *)

LEMMA InitHub == ASSUME Init PROVE HubInv(hub)
<1>1. hub \in HUB
  BY HubAssumption DEF Init, HUB, States, Callers, Places
<1>2. /\ hub.state = "Disconnected" /\ ~hub.started /\ ~hub.answered /\ ~hub.delayed
      /\ hub.conn = "disconnected" /\ hub.timeouts = 0 /\ hub.ping = "none"
      /\ hub.owner = "start" /\ \A c \in Callers : hub.at[c] = "idle" /\ hub.shake[c] = "pending"
      /\ \A i \in Calls : hub.call[i] = "new"
  BY DEF Init
<1>3. At(hub) = "idle"
  BY <1>2 DEF At, Callers
<1>4. RunInv(hub) /\ ConnInv(hub)
  BY <1>2, <1>3 DEF RunInv, ConnInv, Callers
<1>5. ShakeInv(hub) /\ TimerInv(hub) /\ CallInv(hub)
  BY <1>2, <1>3 DEF ShakeInv, TimerInv, CallInv
<1> QED
  BY <1>1, <1>2, <1>4, <1>5 DEF HubInv, Core

\* Every step keeps the invariant or loses the hub, and none takes a stopping hub back.
LEMMA NextIsGood ==
  ASSUME ~Overlap, HubInv(hub), Next
  PROVE  Good(hub') \/ Lost(hub')
<1>0. Sound(hub)
  BY DEF HubInv, Core, Sound
<1>1. CASE Continuation
  <2>1. ASSUME NEW c \in Callers, Throws(c) PROVE Good(hub')
    BY <2>1, ThrowsIsGood
  <2>2. ASSUME NEW c \in Callers, HandshakeDone(c) PROVE Good(hub')
    BY <2>2, HandshakeDoneIsGood
  <2>3. ASSUME NEW c \in Callers, Returned(c) PROVE Good(hub')
    BY <2>3, ReturnedIsGood
  <2>4. ASSUME NEW p \in Stoppers, StopReturns(p) PROVE Good(hub')
    BY <1>0, <2>4, StopReturnsCalls, OnlyCallsIsGood
  <2> QED
    BY <1>1, <2>1, <2>2, <2>3, <2>4 DEF Continuation
<1>2. ASSUME NEW c \in Callers, Open(c) \/ Refuse(c) \/ Sent(c) \/ SendFails(c)
      PROVE  Good(hub')
  <2>1. CASE SendFails(c)
    BY <2>1, StopAndThrowIsGood DEF SendFails
  <2> QED
    BY <1>2, <2>1, OpenIsGood, RefuseIsGood, SentIsGood
<1>3. CASE Close
  BY <1>3, CloseIsGood, LateCloseLoses
<1>4. CASE ReceiveRefusal
  BY <1>4, ReceiveRefusalIsGood
<1>5. ASSUME NEW m \in Messages, Receive(m) PROVE Good(hub')
  BY <1>5, ReceiveIsGood
<1>6. CASE ServerTimeout
  BY <1>6, ServerTimeoutIsGood
<1>7. CASE PingFires
  BY <1>7, PingFiresIsGood
<1>8. CASE DelayRunsOut
  BY <1>8, DelayRunsOutIsGood
<1>9. CASE Start
  BY <1>9, StartCallKeeps, LeadsIsGood DEF Start
<1>10. ASSUME NEW p \in Stoppers, Stop(p) PROVE Good(hub')
  BY <1>10, StopCallKeeps, LeadsIsGood DEF Stop
<1>11. ASSUME NEW i \in Calls, NEW kind \in {"invoke", "stream"}, Call(i, kind)
       PROVE  Good(hub')
  BY <1>0, <1>11, CallCalls, OnlyCallsIsGood
<1>12. ASSUME NEW i \in Calls, CallSent(i) \/ CallFails(i) \/ Dispose(i) PROVE Good(hub')
  BY <1>0, <1>12, CallSentCalls, CallFailsCalls, DisposeCalls, OnlyCallsIsGood
<1> QED
  BY <1>1, <1>2, <1>3, <1>4, <1>5, <1>6, <1>7, <1>8, <1>9, <1>10, <1>11, <1>12 DEF Next

HubOrDead == HubInv(hub) \/ Dead(hub)

\* One step from either.
LEMMA StepHolds ==
  ASSUME ~Overlap, HubOrDead, [Next]_hub
  PROVE  /\ HubOrDead'
         /\ [hub.state = "Disconnecting" /\ ~hub.lateStop =>
               hub'.state \notin {"Connected", "Reconnecting"}]_hub
<1>1. CASE UNCHANGED hub
  BY ZenonT(60), <1>1 DEF HubOrDead
<1>2. CASE Next /\ HubInv(hub)
  BY <1>2, NextIsGood DEF Good, Lost, HubOrDead
<1>3. CASE Next /\ Dead(hub)
  BY <1>3, NextLoses DEF Lost, HubOrDead
<1> QED
  BY <1>1, <1>2, <1>3 DEF HubOrDead

\* The invariant of the hub holds, unless it is started again during a reconnection.
THEOREM HubInvariant ==
  ASSUME ~Overlap
  PROVE  Spec => []HubOrDead
<1>1. Init => HubOrDead
  BY InitHub DEF HubOrDead
<1>2. HubOrDead /\ [Next]_hub => HubOrDead'
  BY StepHolds
<1> QED
  BY <1>1, <1>2, PTL DEF Spec

LEMMA HubSound == Spec => []Sound(hub)
<1>1. Init => Sound(hub)
  BY InitHub DEF HubInv, Core, Sound
<1>2. Sound(hub) /\ [Next]_hub => Sound(hub)'
  <2>1. Sound(hub) /\ UNCHANGED hub => Sound(hub')
    OBVIOUS
  <2> QED
    BY <2>1, NextIsSound
<1> QED
  BY <1>1, <1>2, PTL DEF Spec

\* Every field of the hub keeps its type; above all, one timer of the server's silence
\* runs at most, and no more delays are taken than the policy gives.
THEOREM TypeCorrect == Spec => []TypeOK
<1>1. Sound(hub) => TypeOK
  BY DEF Sound, HUB, TypeOK, Places
<1> QED
  BY <1>1, HubSound, PTL

\* A Connected hub has had the handshake answered over its present connection, whatever
\* messages, closes and stops came in between (_startInternal, _connectionClosed), but
\* for a close between the last check of _startInternal and the return of its promise.
THEOREM ConnectedHasShaken ==
  ASSUME ~Overlap
  PROVE  Spec => []ConnectedIsShaken
<1>1. HubOrDead => ConnectedIsShaken
  BY DEF HubOrDead, HubInv, Dead, ConnectedIsShaken
<1> QED
  BY <1>1, HubInvariant, PTL

\* No timer of a connection that is gone is left to stop the next one, and a Connected hub
\* can always ping again (_cleanupTimeout, _cleanupPingTimer, _resetTimeoutPeriod).
THEOREM TimersFitConnection ==
  ASSUME ~Overlap
  PROVE  Spec => []TimersFit
<1>1. Dead(hub) => TimersFit
  BY DEF Dead, TimersFit
<1>2. HubInv(hub) => TimersFit
  <2> SUFFICES ASSUME HubInv(hub) PROVE TimersFit
    OBVIOUS
  <2>1. hub \in HUB
    BY DEF HubInv, Core
  <2>2. ASSUME hub.conn \in {"disconnected", "connecting"}, \A c \in Callers : ~Ready(hub, c)
        PROVE  hub.timeouts = 0 /\ hub.ping = "none"
    <3>1. hub.conn = "disconnected" /\ At(hub) = "handshaking" => hub.shake[hub.owner] # "pending"
      BY DEF HubInv, Core, ShakeInv
    <3>2. hub.conn = "connecting" => At(hub) = "connecting"
      BY DEF HubInv, Core, ConnInv
    <3>3. At(hub) # "handshaking"
      BY <2>1, <2>2, <3>1, <3>2 DEF Ready, At, HUB
    <3> QED
      BY <2>2, <3>3 DEF HubInv, Core, TimerInv
  <2> QED
    BY <2>2 DEF HubInv, Core, TimerInv, TimersFit
<1>3. HubOrDead => TimersFit
  BY <1>1, <1>2 DEF HubOrDead
<1> QED
  BY <1>3, HubInvariant, PTL

\* A call that waits still has somebody to end it: a callback that a message or the close
\* will find, or, without a connection, a send that is about to fail (_cancelCallbacks...).
THEOREM NoneForgotten == Spec => []NoCallForgotten
<1>1. Sound(hub) => NoCallForgotten
  BY DEF Sound, CallInv, NoCallForgotten
<1> QED
  BY <1>1, HubSound, PTL

\* A hub that is stopping does not come to be Connected or Reconnecting in one step: a
\* handshake that was answered before the stop is not taken for a success (stop), unless
\* _startInternal had made its last check by then.
THEOREM StopHolds ==
  ASSUME ~Overlap
  PROVE  Spec => StopIsFinal
<1>1. HubOrDead /\ [Next]_hub =>
        [hub.state = "Disconnecting" /\ ~hub.lateStop =>
           hub'.state \notin {"Connected", "Reconnecting"}]_hub
  BY StepHolds
<1> QED
  BY <1>1, HubInvariant, PTL DEF Spec, StopIsFinal
================================================================================
