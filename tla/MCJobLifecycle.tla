----------------------------- MODULE MCJobLifecycle ----------------------------
(* A small instance of JobLifecycle for TLC. *)
EXTENDS JobLifecycle

CONSTANTS j1, c1, c2
================================================================================
