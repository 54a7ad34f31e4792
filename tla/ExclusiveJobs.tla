---------------------------- MODULE ExclusiveJobs ----------------------------
(***************************************************************************)
(* What the job lock promises (docs/source/ParallelJobs.rst): jobs with VT *)
(* tests run one at a time.  A job that does not get to run is over.       *)
(***************************************************************************)
CONSTANT Job

VARIABLE stage  \* job -> "waiting", "running" or "over"

Init == stage = [j \in Job |-> "waiting"]

Enter(j) ==
  /\ stage[j] = "waiting"
  /\ \A k \in Job : stage[k] # "running"
  /\ stage' = [stage EXCEPT ![j] = "running"]

Leave(j) ==
  /\ stage[j] # "over"
  /\ stage' = [stage EXCEPT ![j] = "over"]

Next == \E j \in Job : Enter(j) \/ Leave(j)

Spec == Init /\ [][Next]_stage

=============================================================================
