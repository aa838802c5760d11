----------------------------- MODULE ExclusiveLock -----------------------------
(***************************************************************************)
(* What the distributed lock promises to its callers: at any time each     *)
(* resource has at most one holder, it passes from one client to another   *)
(* only through being free, and a client's locks may all be freed at once  *)
(* when its process dies.                                                  *)
(***************************************************************************)
CONSTANTS Clients, Resources, None

VARIABLE holder   \* the client that holds each resource, or None

Init == holder = [r \in Resources |-> None]

Grant(c, r) ==
  /\ holder[r] = None
  /\ holder' = [holder EXCEPT ![r] = c]

\* The holders of the resources in R give them back.
Free(R) ==
  /\ \A r \in R : holder[r] # None
  /\ holder' = [r \in Resources |-> IF r \in R THEN None ELSE holder[r]]

Next ==
  \/ \E c \in Clients, r \in Resources : Grant(c, r)
  \/ \E R \in (SUBSET Resources) \ {{}} : Free(R)

Spec == Init /\ [][Next]_holder
================================================================================
