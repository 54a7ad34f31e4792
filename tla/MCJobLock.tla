----------------------------- MODULE MCJobLock -----------------------------
(***************************************************************************)
(* JobLock for TLC: three jobs, so that two race over the file of a dead   *)
(* one, and PIDs enough for them but not enough to be never reused.        *)
(***************************************************************************)
EXTENDS JobLock

=============================================================================
