----------------------------- MODULE MCCollections ------------------------------
(* A small instance of Collections for TLC. *)
EXTENDS Collections

CONSTANTS c1, c2, k1, n1, n2

\* Neither the clients nor the names differ in anything.
RowSymmetry == Permutations(Clients) \cup Permutations(Names)
================================================================================
