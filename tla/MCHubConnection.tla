---------------------------- MODULE MCHubConnection ----------------------------
(* A small instance of HubConnection for TLC. *)
EXTENDS HubConnection

CONSTANTS i1, p1
================================================================================
