------------------------------- MODULE Volumes -------------------------------
(***************************************************************************)
(* Volumes of a test on the nodes of a cluster: the calls of the resource  *)
(* manager (virttest/vt_resmgr) on file based volumes in a pool of local   *)
(* directories or in an nfs pool, and the backings of the volumes in the   *)
(* agents of the nodes.                                                    *)
(*                                                                         *)
(* A volume is bound to backings on nodes, and allocated, released, cloned *)
(* through one of them.  The test may make the calls in any order.  A call *)
(* that raises keeps what it has done so far.                              *)
(***************************************************************************)
EXTENDS Naturals

CONSTANTS
  Node,       \* nodes that can access both pools
  Volume,     \* volumes of the test, clones included; file names are distinct
  Shared,     \* those in the nfs pool, the others are in local directories
  Leftovers,  \* places of files that an earlier test has left
  MaxFaults   \* bound: lost answers, errors that leave a backing, and dead agents

Pool == "pool"
Place == Node \union {Pool}

ASSUME VolumesAssumption ==
  /\ Shared \subseteq Volume
  /\ Leftovers \subseteq Volume \X Place
  /\ MaxFaults \in Nat

VARIABLES
  phase,      \* volume -> "new", "known" to its pool, "destroyed", or "lost"
  bindings,   \* volume -> nodes of its bindings, at most one binding for a node
  allocated,  \* volume -> what its metadata say
  live,       \* volume -> nodes where the backing of its binding exists
  stray,      \* volume -> nodes with a backing that no binding names
  files,      \* existing files: <<volume, place>>
  owned,      \* history: files that a call has reported to the test
  up,         \* nodes whose agent answers
  faults

vars == <<phase, bindings, allocated, live, stray, files, owned, up, faults>>

\* The place of a volume's file, seen from a node.
File(v, n) == <<v, IF v \in Shared THEN Pool ELSE n>>
Known(v) == phase[v] = "known"
Fault == faults < MaxFaults /\ faults' = faults + 1

Init ==
  /\ phase = [v \in Volume |-> "new"]
  /\ bindings = [v \in Volume |-> {}]
  /\ allocated = [v \in Volume |-> FALSE]
  /\ live = [v \in Volume |-> {}]
  /\ stray = [v \in Volume |-> {}]
  /\ files \in SUBSET Leftovers
  /\ owned = {}
  /\ up = Node
  /\ faults = 0

-----------------------------------------------------------------------------
(* Creation and destruction.                                               *)

\* create_resource_from_params and create_resource_from_source.
Create(v) ==
  /\ phase[v] = "new"
  /\ phase' = [phase EXCEPT ![v] = "known"]
  /\ UNCHANGED <<bindings, allocated, live, stray, files, owned, up, faults>>

\* Mutant of Destroyable: only the bindings are checked.
DestroyableUnbound(v) == bindings[v] = {}

\* Neither allocated nor bound.
Destroyable(v) == ~allocated[v] /\ bindings[v] = {}

Destroy(v) ==
  /\ Known(v) /\ Destroyable(v)
  /\ phase' = [phase EXCEPT ![v] = "destroyed"]
  /\ UNCHANGED <<bindings, allocated, live, stray, files, owned, up, faults>>

-----------------------------------------------------------------------------
(* Bindings.                                                               *)

\* The nodes of the list it is given that a call looks at: the first one for
\* a local volume, all of them for a shared one, in the order of the list.
\* (Without a list it is the nodes that are bound.)
Given(v) == IF v \in Shared THEN (SUBSET Node) \ {{}} ELSE {{n} : n \in Node}

\* Mutant of Needing: a node that has a backing gets another one.
NeedingAny(v, nodes) == nodes

\* The nodes to bind: one for a local volume that has none, all without a
\* backing for a shared one.
Needing(v, nodes) ==
  IF v \in Shared \/ bindings[v] = {} THEN nodes \ bindings[v] ELSE {}

\* _update_binding for new backings.  One that is replaced is not destroyed.
AddBindings(v, nodes) ==
  /\ bindings' = [bindings EXCEPT ![v] = @ \union nodes]
  /\ live' = [live EXCEPT ![v] = @ \union nodes]

\* Mutant of Bind: the bindings are recorded when all nodes have answered.
BindAtEnd(v, nodes) ==
  LET todo == Needing(v, nodes)
  IN  /\ Known(v) /\ todo # {}
      /\ \/ todo \subseteq up /\ AddBindings(v, todo) /\ UNCHANGED stray
         \/ \E done \in SUBSET (todo \intersect up) :
              stray' = [stray EXCEPT ![v] = @ \union done] /\ UNCHANGED <<bindings, live>>
      /\ UNCHANGED <<phase, allocated, files, owned, up, faults>>

\* bind_backings: one node after the other, up to one whose agent answers with
\* an error, or does not answer.  If the answer is lost, or the agent fails once
\* it has stored the backing, the backing stays.
Bind(v, nodes) ==
  LET todo == Needing(v, nodes)
  IN  /\ Known(v) /\ todo # {}
      /\ \E done \in SUBSET (todo \intersect up) :
           LET again == stray[v] \union (done \intersect live[v])
           IN  /\ AddBindings(v, done)
               /\ \/ stray' = [stray EXCEPT ![v] = again] /\ UNCHANGED faults
                  \/ \E n \in (todo \ done) \intersect up :
                       Fault /\ stray' = [stray EXCEPT ![v] = again \union {n}]
      /\ UNCHANGED <<phase, allocated, files, owned, up>>

\* The nodes to unbind, which must be bound.
Releasing(v, nodes) == nodes \intersect bindings[v]

\* unbind_backings: up to a node whose agent does not answer or does not know
\* the backing (it gives no other error), or whose answer is lost.
Unbind(v, nodes) ==
  LET todo == Releasing(v, nodes)
      reached == up \intersect live[v]
  IN  /\ Known(v) /\ todo # {}
      /\ \E done \in SUBSET (todo \intersect reached) :
           LET rest == todo \ done
           IN  /\ bindings' = [bindings EXCEPT ![v] = @ \ done]
               /\ \/ /\ rest = {} \/ ~(rest \subseteq reached)
                     /\ live' = [live EXCEPT ![v] = @ \ done]
                     /\ UNCHANGED faults
                  \/ \E n \in rest \intersect reached :
                       Fault /\ live' = [live EXCEPT ![v] = @ \ (done \union {n})]
      /\ UNCHANGED <<phase, allocated, stray, files, owned, up>>

-----------------------------------------------------------------------------
(* Commands, on a given node or the node of the first binding.             *)

\* The backing of the node is found and its agent answers; otherwise the
\* command raises and nothing changes.
Reached(v, n) == Known(v) /\ n \in bindings[v] \intersect live[v] \intersect up

\* What the backing reports of the file, unless the answer is lost.
Reported(v, n) ==
  \/ /\ allocated' = [allocated EXCEPT ![v] = File(v, n) \in files']
     /\ owned' = owned \union ({File(v, n)} \intersect files')
     /\ UNCHANGED faults
  \/ /\ Fault /\ UNCHANGED allocated
     /\ owned' = owned \union (files' \ files)

\* A file that exists counts as allocated; fallocate may fail and leave none.
Allocate(v, n) ==
  /\ Reached(v, n)
  /\ files' = files \union {File(v, n)}
  /\ Reported(v, n)
  /\ UNCHANGED <<phase, bindings, live, stray, up>>

Release(v, n) ==
  /\ Reached(v, n)
  /\ files' = files \ {File(v, n)}
  /\ owned' = owned \ {File(v, n)}
  /\ \/ allocated' = [allocated EXCEPT ![v] = FALSE] /\ UNCHANGED faults
     \/ Fault /\ UNCHANGED allocated
  /\ UNCHANGED <<phase, bindings, live, stray, up>>

Sync(v, n) ==
  /\ Reached(v, n)
  /\ UNCHANGED files
  /\ Reported(v, n)
  /\ UNCHANGED <<phase, bindings, live, stray, up>>

\* clone: the new volume is bound where the source is, then the file copied on
\* one node, then the pool told of it.  If anything fails in between, an agent
\* that does not bind included, the new object is lost with the bindings it
\* has, and maybe a part of the copy.
Clone(v, w, n) ==
  /\ Known(v) /\ phase[w] = "new" /\ (v \in Shared <=> w \in Shared) /\ bindings[v] # {}
  /\ \/ /\ bindings[v] \subseteq up /\ n \in bindings[v] \intersect live[v] /\ File(v, n) \in files
        /\ phase' = [phase EXCEPT ![w] = "known"]
        /\ bindings' = [bindings EXCEPT ![w] = bindings[v]]
        /\ live' = [live EXCEPT ![w] = bindings[v]]
        /\ files' = files \union {File(w, n)}
        /\ allocated' = [allocated EXCEPT ![w] = TRUE]
        /\ owned' = owned \union {File(w, n)}
        /\ UNCHANGED stray
     \/ /\ \E done \in SUBSET (bindings[v] \intersect up) :
             /\ stray' = [stray EXCEPT ![w] = done]
             /\ \/ UNCHANGED files
                \/ done = bindings[v] /\ n \in done /\ File(v, n) \in files
                   /\ files' = files \union {File(w, n)}
        /\ phase' = [phase EXCEPT ![w] = "lost"]
        /\ UNCHANGED <<bindings, live, allocated, owned>>
  /\ UNCHANGED <<up, faults>>

AgentDies(n) ==
  /\ n \in up /\ Fault
  /\ up' = up \ {n}
  /\ live' = [v \in Volume |-> live[v] \ {n}]
  /\ stray' = [v \in Volume |-> stray[v] \ {n}]
  /\ UNCHANGED <<phase, bindings, allocated, files, owned>>

-----------------------------------------------------------------------------

Next ==
  \/ \E v \in Volume :
       \/ Create(v) \/ Destroy(v)
       \/ \E nodes \in Given(v) : Bind(v, nodes) \/ Unbind(v, nodes)
       \/ \E n \in Node : Allocate(v, n) \/ Release(v, n) \/ Sync(v, n)
       \/ \E w \in Volume, n \in Node : Clone(v, w, n)
  \/ \E n \in Node : AgentDies(n)

Spec == Init /\ [][Next]_vars

-----------------------------------------------------------------------------

TypeOK ==
  /\ phase \in [Volume -> {"new", "known", "destroyed", "lost"}]
  /\ bindings \in [Volume -> SUBSET Node]
  /\ \A v \in Volume \ Shared : \A m, n \in bindings[v] : m = n
  /\ allocated \in [Volume -> BOOLEAN]
  /\ live \in [Volume -> SUBSET Node] /\ stray \in [Volume -> SUBSET Node]
  /\ files \subseteq Volume \X Place /\ owned \subseteq files
  /\ up \subseteq Node
  /\ faults \in 0..MaxFaults

\* However the calls are mixed and wherever an agent's error stops one of them,
\* the bindings that the controller records are the backings that exist in the
\* agents, as long as no error leaves a backing, no answer is lost and no agent
\* dies; only a clone that failed leaves backings that nobody can destroy.
BackingsKnown ==
  faults = 0 => \A v \in Volume :
    /\ live[v] = bindings[v]
    /\ stray[v] # {} => phase[v] = "lost"

\* Without lost answers and dead agents, a shared volume that was destroyed has
\* left no file behind that any call has reported, from whichever of its nodes
\* it was allocated, released or synced.
SharedNothingLeft ==
  faults = 0 => \A v \in Shared : phase[v] = "destroyed" => <<v, Pool>> \notin owned

=============================================================================
