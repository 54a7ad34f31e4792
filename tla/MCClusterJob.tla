---------------------------- MODULE MCClusterJob ----------------------------
(***************************************************************************)
(* ClusterJob for TLC: two hosts, a pool on both and a pool on one.        *)
(***************************************************************************)
EXTENDS ClusterJob

CONSTANTS n1, n2, p1, p2

TwoPools == <<<<p1, n1>>, <<p1, n2>>, <<p2, n2>>>>

=============================================================================
