------------------------------- MODULE MCJobQueue ------------------------------
(* Small instances of JobQueue for TLC. *)
EXTENDS JobQueue

CONSTANTS w1, w2, w3, i1, i2, q1, q2

\* Item i1 is in q1, i2 in q2.  Every worker listens to q1, w1 to q2 as well,
\* so that some reads must pass a row over.
ItemQueues   == [i \in Items |-> IF i = i2 THEN q2 ELSE q1]
WorkerQueues == [w \in Workers |-> IF w = w1 THEN {q1, q2} ELSE {q1}]
================================================================================
