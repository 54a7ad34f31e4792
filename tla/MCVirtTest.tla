----------------------------- MODULE MCVirtTest -----------------------------
(* Tests on one host: one leaves its VMs running for the next, one starts   *)
(* from fresh VMs, sets states and kills what it has started, and one wants *)
(* its VM off and the environment cleaned up.                               *)
EXTENDS VirtTest

CONSTANTS a, b, keeper, setter, idler

Keeper ==
  [vms |-> {a, b}, start |-> TRUE, restart |-> FALSE, killBefore |-> FALSE,
   kill |-> FALSE, killOnError |-> TRUE, saves |-> {}, savesOnError |-> {},
   keep |-> TRUE, envCleanup |-> FALSE, screendumps |-> TRUE]

Setter ==
  [vms |-> {a}, start |-> TRUE, restart |-> TRUE, killBefore |-> FALSE,
   kill |-> TRUE, killOnError |-> FALSE, saves |-> {"on", "off"}, savesOnError |-> {},
   keep |-> FALSE, envCleanup |-> FALSE, screendumps |-> FALSE]

Idler ==
  [vms |-> {b}, start |-> FALSE, restart |-> FALSE, killBefore |-> TRUE,
   kill |-> FALSE, killOnError |-> FALSE, saves |-> {}, savesOnError |-> {},
   keep |-> TRUE, envCleanup |-> TRUE, screendumps |-> FALSE]

Tests == [t \in Test |->
  CASE t = keeper -> Keeper [] t = setter -> Setter [] t = idler -> Idler]
=============================================================================
