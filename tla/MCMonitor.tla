------------------------------ MODULE MCMonitor ------------------------------
(***************************************************************************)
(* Monitor for TLC: two threads, and all their calls.                      *)
(***************************************************************************)
EXTENDS Monitor

CONSTANTS t1, t2

=============================================================================
