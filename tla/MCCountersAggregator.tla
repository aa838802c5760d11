-------------------------- MODULE MCCountersAggregator -------------------------
(* A small instance of CountersAggregator for TLC. *)
EXTENDS CountersAggregator

CONSTANTS a1, a2, k1, k2, n1, n2, n3, n4

\* The rows n1 and n2 count k1, n1 down; n3 and n4 count k2.
RowKeys    == [row \in Rows |-> IF row \in {n1, n2} THEN k1 ELSE k2]
Values     == [row \in Rows |-> IF row = n1 THEN -1 ELSE 1]
\* n1 expires; the others never do.
RowTtls    == [row \in Rows |-> IF row = n1 THEN 0 ELSE Never]
================================================================================
