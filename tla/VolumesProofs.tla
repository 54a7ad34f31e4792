---------------------------- MODULE VolumesProofs ----------------------------
(***************************************************************************)
(* Proofs for Volumes, for any nodes, any volumes in either pool, and any  *)
(* sequence of calls.                                                      *)
(*                                                                         *)
(* BackingsKnown is inductive with the types: a call that stops half way   *)
(* has recorded exactly what the agents have done.  For SharedNothingLeft  *)
(* the invariant is OwnedInv: a file of a shared volume that was reported  *)
(* to the test is one whose volume is known and says that it is allocated, *)
(* so the pool refuses to destroy the volume.                              *)
(***************************************************************************)
EXTENDS Volumes, TLAPS

\* A reported file of a shared volume is in the volume's metadata.
OwnedInv ==
  faults = 0 => \A v \in Shared :
    <<v, Pool>> \in owned => phase[v] = "known" /\ allocated[v]

\* The nodes a call looks at are nodes; for a local volume it is one.
LEMMA GivenFacts ==
  ASSUME NEW v \in Volume, NEW nodes \in Given(v)
  PROVE  /\ nodes \subseteq Node
         /\ v \notin Shared => \A m, n \in nodes : m = n
  BY DEF Given

\* A file is one of a volume, at a place.
LEMMA FileFacts ==
  ASSUME NEW v \in Volume, NEW n \in Node
  PROVE  File(v, n) \in Volume \X Place
  BY DEF File, Place

\* bind_backings does some of the nodes in need, and what it may leave behind is
\* a backing on another of these nodes.
LEMMA BindFacts ==
  ASSUME TypeOK, NEW v \in Volume, NEW nodes \in Given(v), Bind(v, nodes)
  PROVE  \E done \in SUBSET (nodes \intersect up), more \in SUBSET Node :
           /\ AddBindings(v, done)
           /\ stray' = [stray EXCEPT ![v] = @ \union (done \intersect live[v]) \union more]
           /\ \/ more = {} /\ UNCHANGED faults
              \/ Fault
           /\ v \notin Shared => bindings[v] = {}
           /\ done \intersect bindings[v] = {}
<1> DEFINE todo == Needing(v, nodes)
<1>1. todo \subseteq nodes /\ todo \intersect bindings[v] = {} /\ todo \subseteq Node
  BY GivenFacts DEF Needing
<1>2. v \notin Shared => bindings[v] = {}
  BY DEF Bind, Needing
<1>3. PICK done \in SUBSET (todo \intersect up) :
        /\ AddBindings(v, done)
        /\ \/ /\ stray' = [stray EXCEPT ![v] = stray[v] \union (done \intersect live[v])]
              /\ UNCHANGED faults
           \/ \E n \in (todo \ done) \intersect up : Fault /\
                stray' = [stray EXCEPT ![v] = stray[v] \union (done \intersect live[v]) \union {n}]
  BY DEF Bind
<1>4. done \in SUBSET (nodes \intersect up) /\ done \intersect bindings[v] = {}
  BY <1>1
<1>5. CASE stray' = [stray EXCEPT ![v] = stray[v] \union (done \intersect live[v])]
           /\ UNCHANGED faults
  <2>1. stray' = [stray EXCEPT ![v] = @ \union (done \intersect live[v]) \union {}]
    BY <1>5
  <2> QED BY <1>2, <1>3, <1>4, <1>5, <2>1
<1>6. ASSUME NEW n \in (todo \ done) \intersect up, Fault,
             stray' = [stray EXCEPT ![v] = stray[v] \union (done \intersect live[v]) \union {n}]
      PROVE  stray' = [stray EXCEPT ![v] = @ \union (done \intersect live[v]) \union {n}]
             /\ {n} \in SUBSET Node /\ Fault
  BY <1>1, <1>6
<1> QED BY <1>2, <1>3, <1>4, <1>5, <1>6

\* unbind_backings takes away as many bindings as backings, but for one more
\* backing when an answer is lost.
LEMMA UnbindFacts ==
  ASSUME TypeOK, NEW v \in Volume, NEW nodes \in Given(v), Unbind(v, nodes)
  PROVE  \E done \in SUBSET Node, more \in SUBSET Node :
           /\ bindings' = [bindings EXCEPT ![v] = @ \ done]
           /\ live' = [live EXCEPT ![v] = @ \ (done \union more)]
           /\ \/ more = {} /\ UNCHANGED faults
              \/ Fault
<1> DEFINE todo == Releasing(v, nodes)
           reached == up \intersect live[v]
<1>1. todo \subseteq Node
  BY GivenFacts DEF Releasing
<1>2. PICK done \in SUBSET (todo \intersect reached) :
        /\ bindings' = [bindings EXCEPT ![v] = @ \ done]
        /\ \/ live' = [live EXCEPT ![v] = @ \ done] /\ UNCHANGED faults
           \/ \E n \in (todo \ done) \intersect reached :
                Fault /\ live' = [live EXCEPT ![v] = @ \ (done \union {n})]
  BY DEF Unbind
<1>3. done \in SUBSET Node
  BY <1>1
<1>4. CASE live' = [live EXCEPT ![v] = @ \ done] /\ UNCHANGED faults
  <2>1. live' = [live EXCEPT ![v] = @ \ (done \union {})]
    BY <1>4
  <2> QED BY <1>2, <1>3, <1>4, <2>1
<1>5. ASSUME NEW n \in (todo \ done) \intersect reached PROVE {n} \in SUBSET Node
  BY <1>1
<1> QED BY <1>2, <1>3, <1>4, <1>5

\* A report says whether the file exists, and is about a file that exists.
LEMMA ReportedFacts ==
  ASSUME TypeOK, NEW v \in Volume, NEW n \in Node, Reported(v, n), files \subseteq files'
  PROVE  allocated' \in [Volume -> BOOLEAN] /\ owned' \subseteq files' /\ faults' \in 0..MaxFaults
<1>1. allocated' \in [Volume -> BOOLEAN]
  <2>1. ASSUME NEW b \in BOOLEAN, allocated' = [allocated EXCEPT ![v] = b]
        PROVE  allocated' \in [Volume -> BOOLEAN]
    BY <2>1 DEF TypeOK
  <2>2. (File(v, n) \in files') \in BOOLEAN
    OBVIOUS
  <2> QED BY <2>1, <2>2, Zenon DEF Reported, TypeOK
<1>2. owned' \subseteq files'
  BY DEF Reported, TypeOK
<1>3. faults' \in 0..MaxFaults
  BY VolumesAssumption DEF Reported, Fault, TypeOK
<1> QED BY <1>1, <1>2, <1>3

\* Every call preserves the types, and a local volume has one binding.
LEMMA TypeStep == TypeOK /\ [Next]_vars => TypeOK'
<1> SUFFICES ASSUME TypeOK, [Next]_vars PROVE TypeOK'
  OBVIOUS
<1>1. CASE UNCHANGED vars
  BY <1>1 DEF vars, TypeOK
<1>2. ASSUME NEW v \in Volume, Create(v) PROVE TypeOK'
  BY <1>2 DEF Create, TypeOK
<1>3. ASSUME NEW v \in Volume, Destroy(v) PROVE TypeOK'
  BY <1>3 DEF Destroy, TypeOK
<1>4. ASSUME NEW v \in Volume, NEW nodes \in Given(v), Bind(v, nodes) PROVE TypeOK'
  <2>1. PICK done \in SUBSET (nodes \intersect up), more \in SUBSET Node :
          /\ AddBindings(v, done)
          /\ stray' = [stray EXCEPT ![v] = @ \union (done \intersect live[v]) \union more]
          /\ UNCHANGED faults \/ Fault
          /\ v \notin Shared => bindings[v] = {}
    BY <1>4, BindFacts
  <2>2. done \subseteq Node /\ (v \notin Shared => \A m, n \in done : m = n)
    BY GivenFacts
  <2>3. /\ bindings' \in [Volume -> SUBSET Node] /\ live' \in [Volume -> SUBSET Node]
        /\ stray' \in [Volume -> SUBSET Node]
    BY <2>1, <2>2 DEF AddBindings, TypeOK
  <2>4. \A u \in Volume \ Shared : \A m, n \in bindings'[u] : m = n
    BY <2>1, <2>2 DEF AddBindings, TypeOK
  <2>5. faults' \in 0..MaxFaults
    BY <2>1, VolumesAssumption DEF Fault, TypeOK
  <2> QED BY <1>4, <2>3, <2>4, <2>5 DEF Bind, TypeOK
<1>5. ASSUME NEW v \in Volume, NEW nodes \in Given(v), Unbind(v, nodes) PROVE TypeOK'
  <2>1. PICK done \in SUBSET Node, more \in SUBSET Node :
          /\ bindings' = [bindings EXCEPT ![v] = @ \ done]
          /\ live' = [live EXCEPT ![v] = @ \ (done \union more)]
          /\ UNCHANGED faults \/ Fault
    BY <1>5, UnbindFacts
  <2>2. /\ bindings' \in [Volume -> SUBSET Node] /\ live' \in [Volume -> SUBSET Node]
        /\ \A u \in Volume \ Shared : \A m, n \in bindings'[u] : m = n
    BY <2>1 DEF TypeOK
  <2>3. faults' \in 0..MaxFaults
    BY <2>1, VolumesAssumption DEF Fault, TypeOK
  <2> QED BY <1>5, <2>2, <2>3 DEF Unbind, TypeOK
<1>6. ASSUME NEW v \in Volume, NEW n \in Node, Allocate(v, n) PROVE TypeOK'
  BY <1>6, FileFacts, ReportedFacts DEF Allocate, TypeOK
<1>7. ASSUME NEW v \in Volume, NEW n \in Node, Release(v, n) PROVE TypeOK'
  <2>1. allocated' \in [Volume -> BOOLEAN]
    BY <1>7, Zenon DEF Release, TypeOK
  <2>2. faults' \in 0..MaxFaults
    BY <1>7, VolumesAssumption DEF Release, Fault, TypeOK
  <2> QED BY <1>7, <2>1, <2>2 DEF Release, TypeOK
<1>8. ASSUME NEW v \in Volume, NEW n \in Node, Sync(v, n) PROVE TypeOK'
  BY <1>8, ReportedFacts DEF Sync, TypeOK
<1>9. ASSUME NEW v \in Volume, NEW w \in Volume, NEW n \in Node, Clone(v, w, n) PROVE TypeOK'
  <2>1. CASE phase' = [phase EXCEPT ![w] = "known"]
    <3>1. /\ bindings' = [bindings EXCEPT ![w] = bindings[v]]
          /\ live' = [live EXCEPT ![w] = bindings[v]]
          /\ files' = files \union {File(w, n)} /\ owned' = owned \union {File(w, n)}
          /\ allocated' = [allocated EXCEPT ![w] = TRUE] /\ UNCHANGED <<stray, up, faults>>
          /\ v \in Shared <=> w \in Shared
      BY <1>9, <2>1 DEF Clone, TypeOK
    <3>2. allocated' \in [Volume -> BOOLEAN]
      BY <3>1, Zenon DEF TypeOK
    <3>3. \A u \in Volume \ Shared : \A k, m \in bindings'[u] : k = m
      BY <3>1 DEF TypeOK
    <3> QED BY <2>1, <3>1, <3>2, <3>3, FileFacts DEF TypeOK
  <2>2. CASE phase' = [phase EXCEPT ![w] = "lost"]
    <3>1. PICK done \in SUBSET (bindings[v] \intersect up) :
            /\ stray' = [stray EXCEPT ![w] = done]
            /\ files' = files \/ files' = files \union {File(w, n)}
            /\ UNCHANGED <<bindings, live, allocated, owned, up, faults>>
      BY <1>9, <2>2 DEF Clone, TypeOK
    <3>2. files' \subseteq Volume \X Place /\ files \subseteq files'
      BY <3>1, FileFacts DEF TypeOK
    <3> QED BY <2>2, <3>1, <3>2 DEF TypeOK
  <2> QED BY <1>9, <2>1, <2>2 DEF Clone
<1>10. ASSUME NEW n \in Node, AgentDies(n) PROVE TypeOK'
  BY <1>10, VolumesAssumption DEF AgentDies, Fault, TypeOK
<1> QED BY <1>1, <1>2, <1>3, <1>4, <1>5, <1>6, <1>7, <1>8, <1>9, <1>10 DEF Next

\* What the controller records is what the agents have done.
LEMMA BackingsStep == TypeOK /\ BackingsKnown /\ [Next]_vars => BackingsKnown'
<1> SUFFICES ASSUME TypeOK, BackingsKnown, [Next]_vars PROVE BackingsKnown'
  OBVIOUS
<1>1. CASE UNCHANGED vars
  BY <1>1 DEF vars, BackingsKnown, Known
<1>2. ASSUME NEW v \in Volume, Create(v) PROVE BackingsKnown'
  BY <1>2 DEF Create, BackingsKnown, Known
<1>3. ASSUME NEW v \in Volume, Destroy(v) PROVE BackingsKnown'
  BY <1>3 DEF Destroy, BackingsKnown, Known
<1>4. ASSUME NEW v \in Volume, NEW nodes \in Given(v), Bind(v, nodes) PROVE BackingsKnown'
  <2> SUFFICES ASSUME faults' = 0, NEW u \in Volume
               PROVE  live'[u] = bindings'[u] /\ (stray'[u] # {} => phase'[u] = "lost")
    BY DEF BackingsKnown
  <2>1. PICK done \in SUBSET (nodes \intersect up), more \in SUBSET Node :
          /\ AddBindings(v, done)
          /\ stray' = [stray EXCEPT ![v] = @ \union (done \intersect live[v]) \union more]
          /\ \/ more = {} /\ UNCHANGED faults
             \/ Fault
          /\ v \notin Shared => bindings[v] = {}
          /\ done \intersect bindings[v] = {}
    BY <1>4, BindFacts, Zenon
  <2>2. more = {} /\ faults = 0
    BY <2>1 DEF Fault, TypeOK
  <2>3. live[v] = bindings[v] /\ stray[v] = {} /\ phase[v] = "known" /\ phase' = phase
    BY <1>4, <2>2 DEF BackingsKnown, Bind, Known
  <2>4. stray' = [stray EXCEPT ![v] = {}]
    BY <2>1, <2>2, <2>3
  <2> QED BY <2>1, <2>2, <2>3, <2>4 DEF AddBindings, BackingsKnown, TypeOK
<1>5. ASSUME NEW v \in Volume, NEW nodes \in Given(v), Unbind(v, nodes) PROVE BackingsKnown'
  <2> SUFFICES ASSUME faults' = 0, NEW u \in Volume
               PROVE  live'[u] = bindings'[u] /\ (stray'[u] # {} => phase'[u] = "lost")
    BY DEF BackingsKnown
  <2>1. PICK done \in SUBSET Node :
          /\ bindings' = [bindings EXCEPT ![v] = @ \ done]
          /\ live' = [live EXCEPT ![v] = @ \ (done \union {})]
          /\ faults = 0
    <3>1. ~Fault
      BY DEF Fault, TypeOK
    <3> QED BY <1>5, <3>1, UnbindFacts
  <2>2. UNCHANGED <<phase, stray>>
    BY <1>5 DEF Unbind
  <2> QED BY <2>1, <2>2 DEF BackingsKnown, TypeOK
<1>6. ASSUME NEW v \in Volume, NEW n \in Node, Allocate(v, n) PROVE BackingsKnown'
  BY <1>6 DEF Allocate, Reported, Fault, TypeOK, BackingsKnown
<1>7. ASSUME NEW v \in Volume, NEW n \in Node, Release(v, n) PROVE BackingsKnown'
  BY <1>7 DEF Release, Fault, TypeOK, BackingsKnown, Known
<1>8. ASSUME NEW v \in Volume, NEW n \in Node, Sync(v, n) PROVE BackingsKnown'
  BY <1>8 DEF Sync, Reported, Fault, TypeOK, BackingsKnown, Known
<1>9. ASSUME NEW v \in Volume, NEW w \in Volume, NEW n \in Node, Clone(v, w, n) PROVE BackingsKnown'
  <2>1. CASE phase' = [phase EXCEPT ![w] = "known"]
    <3>1. /\ bindings' = [bindings EXCEPT ![w] = bindings[v]]
          /\ live' = [live EXCEPT ![w] = bindings[v]]
          /\ phase[w] = "new" /\ UNCHANGED <<stray, faults>>
      BY <1>9, <2>1 DEF Clone, TypeOK
    <3> QED BY <2>1, <3>1 DEF BackingsKnown, TypeOK
  <2>2. CASE phase' = [phase EXCEPT ![w] = "lost"]
    <3>1. /\ \E done \in SUBSET Node : stray' = [stray EXCEPT ![w] = done]
          /\ UNCHANGED <<bindings, live, faults>>
      BY <1>9, <2>2 DEF Clone, TypeOK
    <3> QED BY <2>2, <3>1 DEF BackingsKnown, TypeOK
  <2> QED BY <1>9, <2>1, <2>2 DEF Clone
<1>10. ASSUME NEW n \in Node, AgentDies(n) PROVE BackingsKnown'
  BY <1>10 DEF AgentDies, Fault, TypeOK, BackingsKnown, Known
<1> QED BY <1>1, <1>2, <1>3, <1>4, <1>5, <1>6, <1>7, <1>8, <1>9, <1>10 DEF Next

\* A file is reported with the metadata.
LEMMA OwnedStep == TypeOK /\ OwnedInv /\ [Next]_vars => OwnedInv'
<1> SUFFICES ASSUME TypeOK, OwnedInv, [Next]_vars PROVE OwnedInv'
  OBVIOUS
<1>1. CASE UNCHANGED vars
  BY <1>1 DEF vars, OwnedInv
<1>2. ASSUME NEW v \in Volume, Create(v) PROVE OwnedInv'
  BY <1>2 DEF Create, OwnedInv
<1>3. ASSUME NEW v \in Volume, Destroy(v) PROVE OwnedInv'
  BY <1>3 DEF Destroy, Destroyable, OwnedInv
<1>4. ASSUME NEW v \in Volume, NEW nodes \in Given(v), Bind(v, nodes) PROVE OwnedInv'
  BY <1>4 DEF Bind, Fault, TypeOK, OwnedInv
<1>5. ASSUME NEW v \in Volume, NEW nodes \in Given(v), Unbind(v, nodes) PROVE OwnedInv'
  BY <1>5 DEF Unbind, Fault, TypeOK, OwnedInv
<1>6. ASSUME NEW v \in Volume, NEW n \in Node, Allocate(v, n) PROVE OwnedInv'
  <2> SUFFICES ASSUME faults' = 0, NEW u \in Shared, <<u, Pool>> \in owned'
               PROVE  phase'[u] = "known" /\ allocated'[u]
    BY DEF OwnedInv
  <2>1. /\ allocated' = [allocated EXCEPT ![v] = File(v, n) \in files']
        /\ owned' = owned \union ({File(v, n)} \intersect files')
        /\ faults = 0 /\ phase[v] = "known" /\ phase' = phase /\ files \subseteq files'
    BY <1>6 DEF Allocate, Reported, Reached, Known, Fault, TypeOK
  <2>2. u \in Volume
    BY VolumesAssumption
  <2>3. CASE u = v
    <3>1. File(v, n) \in files'
      BY <2>1, <2>3 DEF File, TypeOK
    <3> QED BY <2>1, <2>2, <2>3, <3>1 DEF TypeOK
  <2>4. CASE u # v
    <3>1. <<u, Pool>> \in owned
      BY <2>1, <2>4 DEF File
    <3> QED BY <2>1, <2>2, <2>4, <3>1 DEF OwnedInv
  <2> QED BY <2>3, <2>4
<1>7. ASSUME NEW v \in Volume, NEW n \in Node, Release(v, n) PROVE OwnedInv'
  BY <1>7 DEF Release, Fault, File, TypeOK, OwnedInv
<1>8. ASSUME NEW v \in Volume, NEW n \in Node, Sync(v, n) PROVE OwnedInv'
  <2> SUFFICES ASSUME faults' = 0, NEW u \in Shared, <<u, Pool>> \in owned'
               PROVE  phase'[u] = "known" /\ allocated'[u]
    BY DEF OwnedInv
  <2>1. /\ allocated' = [allocated EXCEPT ![v] = File(v, n) \in files']
        /\ owned' = owned \union ({File(v, n)} \intersect files')
        /\ faults = 0 /\ phase[v] = "known" /\ phase' = phase /\ files \subseteq files'
    BY <1>8 DEF Sync, Reported, Reached, Known, Fault, TypeOK
  <2>2. u \in Volume
    BY VolumesAssumption
  <2>3. CASE u = v
    <3>1. File(v, n) \in files'
      BY <2>1, <2>3 DEF File, TypeOK
    <3> QED BY <2>1, <2>2, <2>3, <3>1 DEF TypeOK
  <2>4. CASE u # v
    <3>1. <<u, Pool>> \in owned
      BY <2>1, <2>4 DEF File
    <3> QED BY <2>1, <2>2, <2>4, <3>1 DEF OwnedInv
  <2> QED BY <2>3, <2>4
<1>9. ASSUME NEW v \in Volume, NEW w \in Volume, NEW n \in Node, Clone(v, w, n) PROVE OwnedInv'
  BY <1>9 DEF Clone, File, TypeOK, OwnedInv
<1>10. ASSUME NEW n \in Node, AgentDies(n) PROVE OwnedInv'
  BY <1>10 DEF AgentDies, Fault, TypeOK, OwnedInv
<1> QED BY <1>1, <1>2, <1>3, <1>4, <1>5, <1>6, <1>7, <1>8, <1>9, <1>10 DEF Next

\* Types and the one binding of a local volume, for every sequence of calls.
THEOREM TypeCorrect == Spec => []TypeOK
<1>1. Init => TypeOK
  <2>1. Init => allocated \in [Volume -> BOOLEAN]
    BY Zenon DEF Init
  <2> QED BY <2>1, VolumesAssumption DEF Init, TypeOK
<1> QED BY <1>1, TypeStep, PTL DEF Spec

\* Wherever a call is stopped by an agent's error, no backing is lost but those
\* of a clone that fails, as long as there is no fault.
THEOREM BackingsAreKnown == Spec => []BackingsKnown
<1>1. Init => BackingsKnown
  BY DEF Init, BackingsKnown
<1> QED BY <1>1, TypeCorrect, BackingsStep, PTL DEF Spec

\* A destroyed volume of the nfs pool has left no file that a call reported.
THEOREM NothingIsLeft == Spec => []SharedNothingLeft
<1>1. Init => OwnedInv
  BY DEF Init, OwnedInv
<1>2. OwnedInv => SharedNothingLeft
  BY DEF OwnedInv, SharedNothingLeft
<1> QED BY <1>1, <1>2, TypeCorrect, OwnedStep, PTL DEF Spec

==============================================================================
