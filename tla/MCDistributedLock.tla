--------------------------- MODULE MCDistributedLock ---------------------------
(* Small instances of DistributedLock for TLC. *)
EXTENDS DistributedLock, TLC

CONSTANTS c1, c2, c3, p1, p2, r1, r2, i1, i2, i3, i4

\* Two clients share the Mutex of p1, the third is alone in p2.
TwoAndOne == [c \in Clients |-> IF c = c3 THEN p2 ELSE p1]
\* A process per client.
OneEach   == [c \in Clients |-> IF c = c1 THEN p1 ELSE p2]

\* Neither the values of the identity column nor the resources differ in anything.
LockSymmetry == Permutations(Ids) \cup Permutations(Resources)
================================================================================
