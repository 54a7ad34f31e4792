---------------------------- MODULE MCTraversal ----------------------------
(***************************************************************************)
(* Instances of Traversal for TLC.  A graph is some of the tests "install" *)
(* (an object root), "setup" (which needs it), and the leaves "a" and "b"  *)
(* (which need "setup"), selected by the flat nodes "fa" and "fb".         *)
(***************************************************************************)
EXTENDS Traversal

CONSTANTS install, setup, a, b, fa, fb, w1, w2, w3

AllParents == [t \in {install, setup, a, b} |->
  CASE t = install -> {} [] t = setup -> {install} [] OTHER -> {setup}]

\* Only the tests of the instance are part of its graph.
ChainParents == [t \in Test |-> AllParents[t] \intersect Test]

\* b needs both a and the setup, which have no setup themselves.
TwoParents == [t \in Test |-> IF t = b THEN {setup, a} ELSE {}]

LeafExpands == [f \in Flat |-> IF f = fa THEN {a} ELSE {b}]

\* The setup itself is selected with a, and is also the setup of b.
SetupAndLeaf == [f \in Flat |-> IF f = fa THEN {setup, a} ELSE {b}]

\* The setup itself is selected by fa and is also the setup of b.
SetupExpands == [f \in Flat |-> IF f = fa THEN {setup} ELSE {b}]

AllCompatible == [f \in Flat |-> Worker]
OthersComposeB == [f \in Flat |-> IF f = fb THEN Worker \ Restricted ELSE Worker]

\* Prefixes as parsed: the first leaf before the second one.
ParsedOrder == [n \in Node |-> IF n \in {b, fb} THEN 1 ELSE 0]

Cluster == [t \in Test |-> "cluster"]
\* Leaves are run by every worker, setup once per swarm.
OwnLeaves == [t \in Test |-> IF t \in {a, b} THEN "own" ELSE "swarm"]

OneHost == [w \in Worker |-> "localhost"]
TwoSwarms == [w \in Worker |-> IF w = w3 THEN "east" ELSE "west"]

OnePool == [w \in Worker |-> "swarm_pool"]
SwarmPools == [w \in Worker |-> <<"swarm_pool", TwoSwarms[w]>>]

Once == [t \in Test |-> 1]
Twice == [t \in Test |-> 2]
TwiceLeaves == [t \in Test |-> IF t \in {a, b} THEN 2 ELSE 1]
NotSet == [t \in Test |-> 0]
OneSetup == [t \in Test |-> IF t = setup THEN 1 ELSE 0]

AnyStatus == [t \in Test |-> Status]
NoStatus == [t \in Test |-> {}]
LeafPass == [t \in Test |-> IF t = a THEN {"PASS"} ELSE {}]
OnFailure == [t \in Test |-> {"FAIL", "WARN"}]

NoReplay == [t \in Test |-> {}]
\* The first worker failed both leaves in the replayed job.
FailedReplay == [t \in Test |->
  IF t \in {a, b} THEN {[name |-> w1, no |-> 0, status |-> "FAIL"]} ELSE {}]

Empty == {{}}
EmptyOrShared == {{}, {Shared}}

\* The instances meet the conditions of the theorem about CleanAfterUse.
ASSUME ConditionsMet == OrderlyCleanup

=============================================================================
