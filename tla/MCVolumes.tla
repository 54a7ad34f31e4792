------------------------------ MODULE MCVolumes ------------------------------
(***************************************************************************)
(* Volumes for TLC: two nodes, volumes in both pools.                      *)
(***************************************************************************)
EXTENDS Volumes

CONSTANTS n1, n2, local, nfs, clone

OldFiles == {<<nfs, Pool>>, <<local, n1>>}

=============================================================================
