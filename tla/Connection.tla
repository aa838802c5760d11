------------------------------- MODULE Connection ------------------------------
(***************************************************************************)
(* What a hub connection relies on of its IConnection (IConnection.ts, and *)
(* the comments at HubConnection.ts:243-244 and :301-303): start() opens a *)
(* connection or is refused, and is refused whenever it was stopped; only  *)
(* a connection that has opened closes, and it does so once; stop() lasts  *)
(* until then; and the onclose callback may start the next connection.     *)
(***************************************************************************)
VARIABLE conn

ConnStates == {"disconnected", "connecting", "aborting", "connected", "disconnecting"}

Init == conn = "disconnected"

Start   == conn = "disconnected" /\ conn' = "connecting"
Open    == conn = "connecting" /\ conn' = "connected"
Refuse  == conn \in {"connecting", "aborting"} /\ conn' = "disconnected"
Stop    == \/ conn = "connecting" /\ conn' = "aborting"
           \/ conn = "connected" /\ conn' = "disconnecting"
Close   == conn \in {"connected", "disconnecting"} /\ conn' = "disconnected"
Restart == conn \in {"connected", "disconnecting"} /\ conn' = "connecting"

Next == Start \/ Open \/ Refuse \/ Stop \/ Close \/ Restart

Spec == Init /\ [][Next]_conn

\* A start and a stop come to an end.
LiveSpec ==
  /\ Spec
  /\ WF_conn(Open \/ Refuse)
  /\ WF_conn(conn = "disconnecting" /\ (Close \/ Restart))
================================================================================
