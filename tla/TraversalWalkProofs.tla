------------------------ MODULE TraversalWalkProofs ------------------------
(***************************************************************************)
(* More about Traversal for every graph: nothing that is selected is left  *)
(* out, a worker's path follows the graph, a setup that is never undone    *)
(* stays in place, tests are tried no more often than allowed, and a state *)
(* is removed only after its use.                                          *)
(***************************************************************************)
EXTENDS TraversalProofs

-----------------------------------------------------------------------------
(* Nothing is forgotten.                                                   *)

\* All tests of a flat node have been traversed.
Covered(f) == \A t \in Expands[f] : finished[t] # {}

\* A child is dropped only by a worker that has traversed it.
Swept ==
  \A m \in Node, t \in Test, w \in Worker : <<t, w>> \in droppedCleanup[m] => w \in finished[t]

\* The traversed tests are closed under setup.
SetupFinished ==
  \A t \in Test : finished[t] # {} => \A p \in Parents[t] : finished[p] # {}

\* A worker passes a flat node that it does not compose only if somebody has been
\* through with all of it (should_parse).
FlatPassed ==
  \A w \in Worker : pc[w] = "after" /\ Here(w) \in Flat /\ w \in Compatible[Here(w)] =>
    w \in unrolled[Here(w)] \/ Covered(Here(w))

\* A flat node is dropped by a worker that could compose it when all is traversed.
FlatDropped ==
  \A f \in Flat, w \in Worker :
    <<f, w>> \in droppedCleanup[Root] /\ w \in Compatible[f] => Covered(f)

\* A worker that is done has dropped every flat node.
DoneInv == \A w \in Worker : pc[w] = "done" => \A f \in Flat : <<f, w>> \in droppedCleanup[Root]

CoverInv == Swept /\ SetupFinished /\ FlatPassed /\ FlatDropped /\ DoneInv

\* A step that neither ends the work of a worker at a node nor drops a child.
LEMMA CoverIdle ==
  ASSUME TypeInv, CoverInv, NEW w \in Worker,
         \A v \in Worker \ {w} : pc'[v] = pc[v] /\ path'[v] = path[v],
         pc'[w] \notin {"after", "done"},
         \A f \in Flat : unrolled[f] \subseteq unrolled'[f],
         UNCHANGED <<droppedCleanup, finished>>
  PROVE  CoverInv'
<1>1. Swept' /\ SetupFinished' /\ FlatDropped'
  BY DEF CoverInv, Swept, SetupFinished, FlatDropped, Covered
<1>2. FlatPassed'
  <2> SUFFICES ASSUME NEW v \in Worker, pc'[v] = "after", Here(v)' \in Flat, v \in Compatible[Here(v)']
               PROVE  (v \in unrolled[Here(v)] \/ Covered(Here(v)))'
    BY DEF FlatPassed
  <2>1. pc[v] = "after" /\ Here(v)' = Here(v)
    BY DEF Here
  <2> QED BY <2>1 DEF CoverInv, FlatPassed, Covered
<1>3. DoneInv'
  BY DEF CoverInv, DoneInv
<1> QED BY <1>1, <1>2, <1>3 DEF CoverInv

\* Steps between the nodes.
LEMMA CoverMoves ==
  ASSUME TypeInv, CoverInv, NEW w \in Worker,
         \/ Resume(w) \/ PickFromRoot(w) \/ Unroll(w) \/ Bounce(w) \/ ClimbToParent(w)
         \/ StartTest(w) \/ PreparationPasses(w) \/ ReturnToChild(w) \/ StepBack(w)
         \/ Postpone(w) \/ DescendToChild(w)
  PROVE  CoverInv'
<1>0. /\ pc \in [Worker -> {"ready", "loop", "pre", "run", "after", "sleep", "done"}]
      /\ path \in [Worker -> Seq(Node)] /\ unrolled \in [Flat -> SUBSET Worker]
  BY DEF TypeInv, TypeOK
<1>1. pc'[w] \notin {"after", "done"}
  BY <1>0 DEF Resume, PickFromRoot, Unroll, Bounce, ClimbToParent, StartTest, PreparationPasses,
     ReturnToChild, StepBack, Postpone, DescendToChild, Yield, Goto, AtNode, Enters, HasLoop
<1>2. UNCHANGED <<droppedCleanup, finished>>
  BY DEF Resume, PickFromRoot, Unroll, Bounce, ClimbToParent, StartTest, PreparationPasses,
     ReturnToChild, StepBack, Postpone, DescendToChild, edgeVars, nodeVars
<1>3. \A v \in Worker \ {w} : pc'[v] = pc[v]
  BY <1>0 DEF Resume, PickFromRoot, Unroll, Bounce, ClimbToParent, StartTest, PreparationPasses,
     ReturnToChild, StepBack, Postpone, DescendToChild, Yield, Goto
<1>4. \A v \in Worker \ {w} : path'[v] = path[v]
  BY <1>0 DEF Resume, PickFromRoot, Unroll, Bounce, ClimbToParent, StartTest, PreparationPasses,
     ReturnToChild, StepBack, Postpone, DescendToChild, walkVars, Push, Pop, BackToRoot
<1>5. \A f \in Flat : unrolled[f] \subseteq unrolled'[f]
  BY <1>0 DEF Resume, PickFromRoot, Unroll, Bounce, ClimbToParent, StartTest, PreparationPasses,
     ReturnToChild, StepBack, Postpone, DescendToChild, graphVars
<1> QED BY <1>1, <1>2, <1>3, <1>4, <1>5, CoverIdle

\* A worker leaves the loop when it has dropped all children of the shared root.
LEMMA CoverFinish ==
  ASSUME TypeInv, CoverInv, NEW w \in Worker, Finish(w)
  PROVE  CoverInv'
<1>0. pc \in [Worker -> {"ready", "loop", "pre", "run", "after", "sleep", "done"}]
  BY DEF TypeInv, TypeOK
<1>1. /\ pc' = [pc EXCEPT ![w] = "done"]
      /\ UNCHANGED <<path, unrolled, droppedCleanup, finished>>
  BY DEF Finish, Yield, graphVars, edgeVars, nodeVars, walkVars
<1>2. \A f \in Flat : <<f, w>> \in droppedCleanup[Root]
  BY DEF Finish, IsCleanupReady, OpenCleanup, CleanupNodes
<1>3. \A v \in Worker : pc'[v] = "after" => pc[v] = "after"
  BY <1>0, <1>1
<1>4. \A v \in Worker : pc'[v] = "done" => pc[v] = "done" \/ v = w
  BY <1>0, <1>1
<1>5. FlatPassed'
  BY <1>1, <1>3 DEF CoverInv, FlatPassed, Covered, Here
<1>6. DoneInv'
  BY <1>1, <1>2, <1>4 DEF CoverInv, DoneInv
<1> QED BY <1>1, <1>5, <1>6 DEF CoverInv, Swept, SetupFinished, FlatDropped, Covered

\* An unrestricted worker that is through with a flat node has traversed all tests
\* of it.
LEMMA ThroughCovers ==
  ASSUME TypeInv, CoverInv, NEW f \in Flat, NEW v \in Worker, v \in unrolled[f],
         v \in Compatible[f], IsCleanupReady(f, v)
  PROVE  Covered(f)
<1> SUFFICES ASSUME NEW t \in Expands[f] PROVE v \in finished[t]
  BY DEF Covered
<1>1. t \in Test /\ f \in Node /\ f # Root
  BY EdgesAssumption, NodesAssumption DEF Node
<1>2. t \in CleanupNodes(f, v)
  BY <1>1 DEF CleanupNodes, Composes
<1>3. <<t, v>> \in droppedCleanup[f]
  BY <1>2 DEF IsCleanupReady, OpenCleanup
<1> QED BY <1>1, <1>3 DEF CoverInv, Swept

\* A worker does not compose a flat node only if somebody is through with it.
LEMMA CoverPass ==
  ASSUME TypeInv, CoverInv, NEW w \in Worker, PassFlat(w)
  PROVE  CoverInv'
<1>0. pc \in [Worker -> {"ready", "loop", "pre", "run", "after", "sleep", "done"}]
  BY DEF TypeInv, TypeOK
<1>1. /\ pc' = [pc EXCEPT ![w] = "after"] /\ ~MustUnroll(w)
      /\ UNCHANGED <<path, unrolled, droppedCleanup, finished>>
  BY DEF PassFlat, Traverses, Enters, Goto, graphVars, edgeVars, nodeVars
<1>2. ASSUME Here(w) \in Flat, w \in Compatible[Here(w)], w \notin unrolled[Here(w)]
      PROVE  Covered(Here(w))
  <2>1. PICK v \in involved[Here(w)] \ Restricted :
          v \in unrolled[Here(w)] /\ IsCleanupReady(Here(w), v)
    BY <1>1, <1>2 DEF MustUnroll, ShouldParse
  <2>2. v \in Worker
    BY <1>2 DEF TypeInv, TypeOK, Node
  <2>3. v \in Compatible[Here(w)]
    BY <1>2, <2>1, <2>2, CompatibilityAssumption
  <2> QED BY <1>2, <2>1, <2>2, <2>3, ThroughCovers
<1>3. \A v \in Worker : v # w => pc'[v] = pc[v]
  BY <1>0, <1>1
<1>4. FlatPassed'
  <2> SUFFICES ASSUME NEW v \in Worker, pc'[v] = "after", Here(v)' \in Flat, v \in Compatible[Here(v)']
               PROVE  (v \in unrolled[Here(v)] \/ Covered(Here(v)))'
    BY DEF FlatPassed
  <2>1. Here(v)' = Here(v)
    BY <1>1 DEF Here
  <2> QED BY <1>1, <1>2, <1>3, <2>1 DEF CoverInv, FlatPassed, Covered
<1>5. DoneInv'
  <2>1. \A v \in Worker : pc'[v] = "done" => pc[v] = "done"
    BY <1>0, <1>1
  <2> QED BY <1>1, <2>1 DEF CoverInv, DoneInv
<1> QED BY <1>1, <1>4, <1>5 DEF CoverInv, Swept, SetupFinished, FlatDropped, Covered

\* A worker that is through with a test has been through its setup before.
LEMMA CoverLeave ==
  ASSUME TypeInv, CoverInv, NEW w \in Worker, NEW t \in Test, t = Here(w),
         \A p \in Parents[t] : w \in finished[p],
         finished' = [finished EXCEPT ![t] = @ \union {w}],
         pc' = [pc EXCEPT ![w] = "after"],
         UNCHANGED <<path, unrolled, droppedCleanup>>
  PROVE  CoverInv'
<1>0. /\ finished \in [Test -> SUBSET Worker]
      /\ pc \in [Worker -> {"ready", "loop", "pre", "run", "after", "sleep", "done"}]
  BY DEF TypeInv, TypeOK
<1>1. \A u \in Test : finished[u] \subseteq finished'[u]
  BY <1>0
<1>2. Parents \in [Test -> SUBSET Test] /\ Expands \in [Flat -> SUBSET Test]
  BY EdgesAssumption
<1>3. Swept'
  BY <1>1 DEF CoverInv, Swept
<1>4. SetupFinished'
  <2> SUFFICES ASSUME NEW u \in Test, finished'[u] # {}, NEW p \in Parents[u]
               PROVE  finished'[p] # {}
    BY DEF SetupFinished
  <2>1. p \in Test
    BY <1>2
  <2>2. CASE u = t
    BY <1>1, <2>1, <2>2
  <2>3. CASE u # t
    <3>1. finished[u] # {}
      BY <1>0, <2>3
    <3> QED BY <1>1, <2>1, <3>1 DEF CoverInv, SetupFinished
  <2> QED BY <2>2, <2>3
<1>5. \A f \in Flat : Covered(f) => Covered(f)'
  BY <1>1, <1>2 DEF Covered
<1>6. \A v \in Worker : pc'[v] = "after" /\ v # w => pc[v] = "after"
  BY <1>0
<1>7. \A v \in Worker : pc'[v] = "done" => pc[v] = "done"
  BY <1>0
<1>8. FlatPassed'
  <2> SUFFICES ASSUME NEW v \in Worker, pc'[v] = "after", Here(v)' \in Flat, v \in Compatible[Here(v)']
               PROVE  (v \in unrolled[Here(v)] \/ Covered(Here(v)))'
    BY DEF FlatPassed
  <2>1. Here(v)' = Here(v) /\ v # w
    BY NodesAssumption DEF Here
  <2> QED BY <1>5, <1>6, <2>1 DEF CoverInv, FlatPassed
<1> QED BY <1>3, <1>4, <1>5, <1>7, <1>8 DEF CoverInv, FlatDropped, DoneInv

\* A worker drops a node when it is through with all of it.
LEMMA CoverReverse ==
  ASSUME TypeInv, TypeInv', SetupInv, CoverInv, NEW w \in Worker, Reverse(w)
  PROVE  CoverInv'
<1> DEFINE n == Here(w)
<1>0. /\ pc \in [Worker -> {"ready", "loop", "pre", "run", "after", "sleep", "done"}]
      /\ path \in [Worker -> Seq(Node)]
      /\ droppedCleanup \in [Node -> SUBSET (Node \X Worker)]
  BY DEF TypeInv, TypeOK
<1>1. /\ pc[w] = "after" /\ pc' = [pc EXCEPT ![w] = "loop"]
      /\ path' = [path EXCEPT ![w] = SubSeq(@, 1, Len(@) - 1)]
      /\ IsCleanupReady(n, w)
      /\ UNCHANGED <<unrolled, finished>>
      /\ droppedCleanup' = [m \in Node |->
           IF m \in SetupNodes(n, w) THEN droppedCleanup[m] \union {<<n, w>>}
           ELSE droppedCleanup[m]]
  BY DEF Reverse, HasLoop, Pop, Goto, graphVars
<1>2. n \in Node
  BY AfterFacts DEF Reverse
<1>3. n \in Test => w \in finished[n]
  BY <1>1 DEF SetupInv, Left
<1>4. n \in Flat /\ w \in Compatible[n] => Covered(n)
  BY <1>1, ThroughCovers DEF CoverInv, FlatPassed
<1> HIDE DEF n
<1>5. \A m \in Node, x \in Node, v \in Worker :
        /\ <<x, v>> \in droppedCleanup[m] => <<x, v>> \in droppedCleanup'[m]
        /\ <<x, v>> \in droppedCleanup'[m] => <<x, v>> \in droppedCleanup[m] \/ (x = n /\ v = w)
  BY <1>0, <1>1
<1>6. Root \in Node /\ Flat \subseteq Node /\ Test \subseteq Node
  BY DEF Node
<1>7. Swept'
  BY <1>1, <1>3, <1>5, <1>6 DEF CoverInv, Swept
<1>8. FlatDropped'
  BY <1>1, <1>4, <1>5, <1>6 DEF CoverInv, FlatDropped, Covered
<1>9. FlatPassed'
  <2> SUFFICES ASSUME NEW v \in Worker, pc'[v] = "after", Here(v)' \in Flat, v \in Compatible[Here(v)']
               PROVE  (v \in unrolled[Here(v)] \/ Covered(Here(v)))'
    BY DEF FlatPassed
  <2>1. v # w /\ pc[v] = "after" /\ Here(v)' = Here(v)
    BY <1>0, <1>1 DEF Here
  <2> QED BY <1>1, <2>1 DEF CoverInv, FlatPassed, Covered
<1>10. DoneInv'
  <2>1. \A v \in Worker : pc'[v] = "done" => pc[v] = "done"
    BY <1>0, <1>1
  <2> QED BY <1>5, <1>6, <2>1 DEF CoverInv, DoneInv
<1> QED BY <1>1, <1>7, <1>8, <1>9, <1>10 DEF CoverInv, SetupFinished

\* Every step keeps the account of what has been traversed.
LEMMA NextCover == TypeInv /\ TypeInv' /\ SetupInv /\ CoverInv /\ [Next]_vars => CoverInv'
<1> SUFFICES ASSUME TypeInv, TypeInv', SetupInv, CoverInv, [Next]_vars PROVE CoverInv'
  OBVIOUS
<1>1. CASE UNCHANGED <<pc, path, unrolled, droppedCleanup, finished>>
  BY <1>1 DEF CoverInv, Swept, SetupFinished, FlatPassed, FlatDropped, DoneInv, Covered, Here
<1>2. CASE UNCHANGED vars \/ EndJob \/ TimeoutJob \/ Over
  BY <1>1, <1>2 DEF vars, EndJob, TimeoutJob, Over, Verdict, graphVars, edgeVars, nodeVars, walkVars
<1>3. ASSUME NEW w \in Worker, ScanError(w) PROVE CoverInv'
  BY <1>1, <1>3 DEF ScanError, graphVars, edgeVars, nodeVars, walkVars
<1>4. ASSUME NEW w \in Worker, SkipTest(w) PROVE CoverInv'
  <2>1. /\ Here(w) \in Test /\ IsSetupReady(Here(w), w)
        /\ finished' = [finished EXCEPT ![Here(w)] = @ \union {w}]
        /\ pc' = [pc EXCEPT ![w] = "after"]
        /\ UNCHANGED <<path, unrolled, droppedCleanup>>
    BY <1>4 DEF SkipTest, Traverses, Goto, graphVars, edgeVars
  <2>2. \A p \in Parents[Here(w)] : p \in SetupNodes(Here(w), w)
    BY <2>1, NodesAssumption DEF SetupNodes
  <2>3. \A p \in Parents[Here(w)] : <<p, w>> \in droppedSetup[Here(w)]
    BY <2>1, <2>2 DEF IsSetupReady, OpenSetup
  <2>4. \A p \in Parents[Here(w)] : w \in finished[p]
    BY <2>1, <2>3, EdgesAssumption DEF SetupInv, Provenance, Node
  <2> QED BY <2>1, <2>4, CoverLeave
<1>5. ASSUME NEW w \in Worker, PreparationFails(w) \/ TestDone(w) \/ ResultLost(w) PROVE CoverInv'
  <2>1. Here(w) \in Test /\ Running(w)
    BY <1>5, AwaitFacts DEF PreparationFails, TestDone, ResultLost
  <2>2. /\ finished' = [finished EXCEPT ![Here(w)] = @ \union {w}]
        /\ pc' = [pc EXCEPT ![w] = "after"]
        /\ UNCHANGED <<path, unrolled, droppedCleanup>>
    BY <1>5 DEF PreparationFails, TestDone, ResultLost, Leave, graphVars, edgeVars, walkVars
  <2>3. \A p \in Parents[Here(w)] : w \in finished[p]
    BY <2>1, EdgesAssumption DEF SetupInv, Provenance, Ready, Node
  <2> QED BY <2>1, <2>2, <2>3, CoverLeave
<1>6. ASSUME NEW w \in Worker, Walk(w) PROVE CoverInv'
  BY <1>3, <1>4, <1>6, CoverMoves, CoverFinish, CoverPass, CoverReverse DEF Walk
<1> QED BY <1>2, <1>5, <1>6, CoverMoves DEF Next, Await

\* Nothing is forgotten: whatever the graph, and whichever workers compose which
\* of it, when all workers are done every test that is selected and can be
\* composed by somebody has been traversed, and so has all of its setup
\* (should_parse, is_cleanup_ready, drop_child).
THEOREM AllTraversed == Spec => []NothingForgotten
<1>1. Init => CoverInv
  <2> SUFFICES ASSUME Init PROVE CoverInv
    OBVIOUS
  <2>1. Swept /\ FlatDropped
    BY DEF Init, Swept, FlatDropped, Node
  <2>2. SetupFinished
    BY DEF Init, SetupFinished
  <2>3. FlatPassed /\ DoneInv
    BY DEF Init, FlatPassed, DoneInv
  <2> QED BY <2>1, <2>2, <2>3 DEF CoverInv
<1>2. CoverInv => NothingForgotten
  <2> SUFFICES ASSUME CoverInv, \A w \in Worker : pc[w] = "done", NEW f \in Flat,
                      NEW w \in Compatible[f], NEW t \in PathsToRoots[f]
               PROVE  finished[t] # {}
    BY DEF NothingForgotten
  <2> DEFINE S == {u \in Test : finished[u] # {}}
  <2>1. Covered(f)
    BY EdgesAssumption DEF CoverInv, DoneInv, FlatDropped
  <2>2. Expands[f] \subseteq S
    BY <2>1, EdgesAssumption DEF Covered
  <2>3. ClosedUnderSetup(S)
    BY EdgesAssumption DEF CoverInv, SetupFinished, ClosedUnderSetup
  <2> QED BY <2>2, <2>3 DEF PathsToRoots
<1>3. Spec => [](TypeInv /\ SetupInv)
  <2>1. Init => SetupInv
    BY DEF Init, SetupInv, Provenance, Left, Ready, Running
  <2> QED BY <2>1, InitTypes, NextTypes, NextSetup, PTL DEF Spec
<1> QED BY <1>1, <1>2, <1>3, NextCover, PTL DEF Spec

-----------------------------------------------------------------------------
(* The path of a worker.                                                   *)

\* Whatever a worker has parsed is parsed with its setup.
ParsedInv ==
  \A w \in Worker :
    /\ parsed[w] \subseteq Test /\ ClosedUnderSetup(parsed[w])
    /\ \A f \in Flat : Composes(f, w) => Expands[f] \subseteq parsed[w]

\* A path goes down to children and then up to parents.
Chain(s, w) ==
  \E k \in 1..Len(s) :
    /\ \A i \in 1..k - 1 : s[i + 1] \in CleanupNodes(s[i], w)
    /\ \A i \in k..Len(s) - 1 : s[i] \in CleanupNodes(s[i + 1], w)

\* A path starts at the shared root, with one of its children that is still open,
\* and its tests are parsed for the worker.
PathOK(w) ==
  /\ path[w][1] = Root /\ Chain(path[w], w)
  /\ \A i \in 1..Len(path[w]) : path[w][i] \in Test => path[w][i] \in parsed[w]
  /\ Len(path[w]) > 1 => path[w][2] \in OpenCleanup(Root, w)

PathInv == \A w \in Worker : PathOK(w)

\* A worker composes a flat node with all the setup of its tests.
LEMMA NextParsed == TypeInv /\ ParsedInv /\ [Next]_vars => ParsedInv'
<1> SUFFICES ASSUME TypeInv, ParsedInv, [Next]_vars PROVE ParsedInv'
  OBVIOUS
<1>1. CASE UNCHANGED graphVars
  BY <1>1 DEF graphVars, ParsedInv, Composes
<1>2. ASSUME NEW w \in Worker, Unroll(w) PROVE ParsedInv'
  <2> DEFINE f == Here(w)
             new == {t \in PathsToRoots[f] : w \in Compatible[f]}
  <2>1. /\ f \in Flat /\ unrolled' = [unrolled EXCEPT ![f] = @ \union {w}]
        /\ parsed' = [parsed EXCEPT ![w] = @ \union new]
        /\ unrolled \in [Flat -> SUBSET Worker] /\ parsed \in [Worker -> SUBSET Test]
    BY <1>2 DEF Unroll, MustUnroll, TypeInv, TypeOK
  <2>2. Expands[f] \subseteq PathsToRoots[f] /\ PathsToRoots[f] \subseteq Test
    BY <2>1, EdgesAssumption DEF PathsToRoots
  <2>3. ClosedUnderSetup(PathsToRoots[f])
    BY <2>1, EdgesAssumption DEF PathsToRoots, ClosedUnderSetup
  <2> HIDE DEF f
  <2>4. ClosedUnderSetup(new) /\ new \subseteq Test
    BY <2>2, <2>3 DEF ClosedUnderSetup
  <2> SUFFICES ASSUME NEW v \in Worker
               PROVE  /\ parsed'[v] \subseteq Test /\ ClosedUnderSetup(parsed'[v])
                      /\ \A g \in Flat : Composes(g, v)' => Expands[g] \subseteq parsed'[v]
    BY DEF ParsedInv
  <2>5. CASE v # w
    <3>1. parsed'[v] = parsed[v] /\ \A g \in Flat : Composes(g, v)' => Composes(g, v)
      BY <2>1, <2>5 DEF Composes
    <3> QED BY <3>1 DEF ParsedInv
  <2>6. CASE v = w
    <3>1. parsed'[w] = parsed[w] \union new
      BY <2>1
    <3>2. \A g \in Flat : Composes(g, w)' => Composes(g, w) \/ (g = f /\ w \in Compatible[f])
      BY <2>1 DEF Composes
    <3>3. w \in Compatible[f] => Expands[f] \subseteq new
      BY <2>2
    <3> QED BY <2>4, <2>6, <3>1, <3>2, <3>3 DEF ParsedInv, ClosedUnderSetup
  <2> QED BY <2>5, <2>6
<1>3. ASSUME NEW w \in Worker, Walk(w), ~Unroll(w) PROVE UNCHANGED graphVars
  BY <1>3 DEF Walk, Finish, PickFromRoot, Bounce, ClimbToParent, ScanError, PassFlat, SkipTest,
     StartTest, ReturnToChild, StepBack, Postpone, Reverse, DescendToChild
<1>4. ASSUME NEW w \in Worker, Resume(w) \/ Await(w) PROVE UNCHANGED graphVars
  BY <1>4 DEF Resume, Await, PreparationFails, PreparationPasses, TestDone, ResultLost
<1>5. CASE UNCHANGED vars \/ EndJob \/ TimeoutJob \/ Over
  BY <1>1, <1>5 DEF vars, EndJob, TimeoutJob, Over, Verdict
<1> QED BY <1>1, <1>2, <1>3, <1>4, <1>5 DEF Next

\* What a child is to its parent, the parent is to the child; only the shared root
\* has flat children, and it is no child itself.
LEMMA ChildEdge ==
  ASSUME TypeInv, ParsedInv, NEW w \in Worker, NEW p \in Node, NEW c \in CleanupNodes(p, w)
  PROVE  /\ p \in SetupNodes(c, w) /\ c \in Node /\ c # Root
         /\ c \in Test => c \in parsed[w]
         /\ c \in Flat => p = Root
         /\ p \in Test => p \in Parents[c]
<1>1. Root \notin Flat \union Test /\ Flat \intersect Test = {}
  BY NodesAssumption
<1>2. parsed[w] \subseteq Test /\ RootChild \subseteq Test
  BY EdgesAssumption DEF ParsedInv, RootChild
<1>3. CASE p = Root
  BY <1>1, <1>2, <1>3 DEF CleanupNodes, SetupNodes, Node
<1>4. CASE p \in Flat
  <2>1. c \in Expands[p] /\ Composes(p, w) /\ c \in Test
    BY <1>1, <1>4, EdgesAssumption DEF CleanupNodes
  <2>2. c \in parsed[w]
    BY <1>4, <2>1 DEF ParsedInv
  <2> QED BY <1>1, <1>4, <2>1, <2>2 DEF SetupNodes, Node
<1>5. CASE p \in Test
  BY <1>1, <1>2, <1>5 DEF CleanupNodes, SetupNodes, Node
<1> QED BY <1>3, <1>4, <1>5 DEF Node

\* The other way round for nodes that the worker has parsed.
LEMMA ParentEdge ==
  ASSUME TypeInv, ParsedInv, NEW w \in Worker, NEW n \in Node, n \in Test => n \in parsed[w],
         NEW p \in SetupNodes(n, w)
  PROVE  /\ n \in CleanupNodes(p, w)
         /\ p \in Test => p \in parsed[w]
<1>1. Root \notin Flat \union Test /\ Flat \intersect Test = {}
  BY NodesAssumption
<1>2. CASE n \in Flat
  BY <1>1, <1>2 DEF SetupNodes, CleanupNodes
<1>3. CASE n \in Test
  <2>1. CASE p \in Parents[n]
    BY <1>1, <1>3, <2>1, EdgesAssumption DEF CleanupNodes, ParsedInv, ClosedUnderSetup
  <2>2. CASE p \in Flat /\ Composes(p, w) /\ n \in Expands[p]
    BY <1>1, <1>3, <2>2 DEF CleanupNodes
  <2>3. CASE p = Root /\ n \in RootChild
    BY <1>1, <1>3, <2>3 DEF CleanupNodes
  <2> QED BY <1>1, <1>3, <2>1, <2>2, <2>3 DEF SetupNodes
<1>4. n # Root
  BY DEF SetupNodes
<1> QED BY <1>2, <1>3, <1>4 DEF Node

\* The graph of a worker only grows.
Grows ==
  /\ \A f \in Flat : unrolled[f] \subseteq unrolled'[f]
  /\ \A w \in Worker : parsed[w] \subseteq parsed'[w]

LEMMA CleanupGrows ==
  ASSUME Grows, NEW n \in Node, NEW w \in Worker
  PROVE  CleanupNodes(n, w) \subseteq CleanupNodes(n, w)'
  BY DEF Grows, CleanupNodes, Composes, Node

\* A path stays in order while the graph grows and the worker drops no child of the
\* shared root.
LEMMA KeptPath ==
  ASSUME TypeInv, Grows, NEW v \in Worker, PathOK(v), path'[v] = path[v],
         \A x \in Node : <<x, v>> \in droppedCleanup'[Root] => <<x, v>> \in droppedCleanup[Root]
  PROVE  PathOK(v)'
<1>1. path[v] \in Seq(Node) /\ Len(path[v]) \in Nat /\ Root \in Node
  BY HereType DEF TypeInv, Node
<1>2. \A n \in Node : CleanupNodes(n, v) \subseteq CleanupNodes(n, v)'
  BY CleanupGrows
<1>3. PICK k \in 1..Len(path[v]) :
        /\ \A i \in 1..k - 1 : path[v][i + 1] \in CleanupNodes(path[v][i], v)
        /\ \A i \in k..Len(path[v]) - 1 : path[v][i] \in CleanupNodes(path[v][i + 1], v)
  BY DEF PathOK, Chain
<1>4. \A i \in 1..Len(path[v]) : path[v][i] \in Node
  BY <1>1
<1>5. \A i \in 1..k - 1 : (path[v][i + 1] \in CleanupNodes(path[v][i], v))'
  BY <1>1, <1>2, <1>3, <1>4
<1>6. \A i \in k..Len(path[v]) - 1 : (path[v][i] \in CleanupNodes(path[v][i + 1], v))'
  BY <1>1, <1>2, <1>3, <1>4
<1>7. Chain(path[v], v)'
  BY <1>3, <1>5, <1>6 DEF Chain
<1>8. (\A i \in 1..Len(path[v]) : path[v][i] \in Test => path[v][i] \in parsed[v])'
  BY DEF PathOK, Grows
<1>9. (Len(path[v]) > 1 => path[v][2] \in OpenCleanup(Root, v))'
  BY <1>1, <1>2, <1>4 DEF PathOK, OpenCleanup
<1> QED BY <1>7, <1>8, <1>9 DEF PathOK

\* A worker that came down to its node came down all the way.
LEMMA CameDown ==
  ASSUME TypeInv, NEW w \in Worker, PathOK(w), Len(path[w]) = 1 \/ ~Upward(w)
  PROVE  \A i \in 1..Len(path[w]) - 1 : path[w][i + 1] \in CleanupNodes(path[w][i], w)
<1>1. path[w] \in Seq(Node) /\ Len(path[w]) \in Nat
  BY HereType DEF TypeInv
<1>2. PICK k \in 1..Len(path[w]) :
        /\ \A i \in 1..k - 1 : path[w][i + 1] \in CleanupNodes(path[w][i], w)
        /\ \A i \in k..Len(path[w]) - 1 : path[w][i] \in CleanupNodes(path[w][i + 1], w)
  BY DEF PathOK, Chain
<1>3. k = Len(path[w])
  <2> SUFFICES ASSUME k < Len(path[w]) PROVE FALSE
    BY <1>1, <1>2
  <2>1. Len(path[w]) - 1 \in k..Len(path[w]) - 1 /\ Len(path[w]) # 1
    BY <1>1, <1>2
  <2>2. path[w][Len(path[w]) - 1] \in CleanupNodes(path[w][Len(path[w]) - 1 + 1], w)
    BY <1>2, <2>1
  <2>3. Len(path[w]) - 1 + 1 = Len(path[w])
    BY <1>1
  <2> QED BY <2>1, <2>2, <2>3 DEF Upward, Here, Prev
<1> QED BY <1>2, <1>3

\* The nodes of a path that are no tests are the shared root and what follows it.
LEMMA DownFacts ==
  ASSUME TypeInv, ParsedInv, NEW w \in Worker, PathOK(w),
         \A i \in 1..Len(path[w]) - 1 : path[w][i + 1] \in CleanupNodes(path[w][i], w)
  PROVE  /\ \A i \in 2..Len(path[w]) : path[w][i] \in Flat \union Test
         /\ \A i \in 3..Len(path[w]) : path[w][i] \in Test
         /\ \A i \in 2..Len(path[w]) - 1 :
              path[w][i] \in Test => path[w][i + 1] \in Test /\ path[w][i] \in Parents[path[w][i + 1]]
<1>1. path[w] \in Seq(Node) /\ Len(path[w]) \in Nat
  BY HereType DEF TypeInv
<1>2. \A i \in 1..Len(path[w]) : path[w][i] \in Node
  BY <1>1
<1>3. \A p \in Node : \A c \in CleanupNodes(p, w) :
        /\ c \in Node /\ c # Root /\ (c \in Flat => p = Root) /\ (p \in Test => p \in Parents[c])
  BY ChildEdge
<1>4. ASSUME NEW i \in 2..Len(path[w]) PROVE path[w][i] \in Flat \union Test
  <2>1. i - 1 \in 1..Len(path[w]) - 1 /\ i - 1 + 1 = i
    BY <1>1
  <2>2. path[w][i] \in CleanupNodes(path[w][i - 1], w)
    BY <2>1
  <2> QED BY <1>1, <1>2, <1>3, <2>1, <2>2 DEF Node
<1>5. ASSUME NEW i \in 3..Len(path[w]) PROVE path[w][i] \in Test
  <2>1. i - 1 \in 1..Len(path[w]) - 1 /\ i - 1 + 1 = i /\ i \in 2..Len(path[w]) /\ i - 1 \in 2..Len(path[w])
    BY <1>1
  <2>2. path[w][i] \in CleanupNodes(path[w][i - 1], w)
    BY <2>1
  <2>3. path[w][i - 1] # Root
    BY <1>4, <2>1, NodesAssumption
  <2> QED BY <1>2, <1>3, <1>4, <2>1, <2>2, <2>3
<1>6. ASSUME NEW i \in 2..Len(path[w]) - 1, path[w][i] \in Test
      PROVE  path[w][i + 1] \in Test /\ path[w][i] \in Parents[path[w][i + 1]]
  <2>1. i \in 1..Len(path[w]) - 1 /\ i + 1 \in 3..Len(path[w]) /\ i \in 1..Len(path[w])
    BY <1>1
  <2> QED BY <1>2, <1>3, <1>5, <1>6, <2>1
<1> QED BY <1>4, <1>5, <1>6

\* No test is its own setup, so a way down does not come back to where it began.
LEMMA NoCycle ==
  ASSUME TypeInv, ParsedInv, NEW w \in Worker, PathOK(w), Len(path[w]) >= 3,
         \A i \in 1..Len(path[w]) - 1 : path[w][i + 1] \in CleanupNodes(path[w][i], w)
  PROVE  path[w][2] # Here(w)
<1> DEFINE last == Len(path[w])
           S == {path[w][i] : i \in 3..last}
<1>1. path[w] \in Seq(Node) /\ last \in Nat
  BY HereType DEF TypeInv
<1>2. /\ \A i \in 3..last : path[w][i] \in Test
      /\ \A i \in 2..last - 1 :
           path[w][i] \in Test => path[w][i + 1] \in Test /\ path[w][i] \in Parents[path[w][i + 1]]
  BY DownFacts
<1> SUFFICES ASSUME path[w][2] = path[w][last] PROVE FALSE
  BY DEF Here
<1>3. path[w][2] \in Test
  <2>1. last \in 3..last
    BY <1>1
  <2> QED BY <1>2, <2>1
<1>4. S \in (SUBSET Test) \ {{}}
  <2>1. S \subseteq Test
    BY <1>2
  <2>2. path[w][last] \in S
    BY <1>1
  <2> QED BY <2>1, <2>2
<1>5. ASSUME NEW t \in S PROVE Parents[t] \intersect S # {}
  <2>1. PICK i \in 3..last : t = path[w][i]
    OBVIOUS
  <2>2. i - 1 \in 2..last - 1 /\ i - 1 + 1 = i /\ last \in 3..last
    BY <1>1
  <2>3. path[w][i - 1] \in Test
    BY <1>1, <1>2, <1>3, <2>2
  <2>4. path[w][i - 1] \in Parents[t]
    BY <1>2, <2>1, <2>2, <2>3
  <2>5. path[w][i - 1] \in S
    <3>1. CASE i = 3
      BY <2>2, <3>1
    <3>2. CASE i # 3
      BY <1>1, <3>2
    <3> QED BY <3>1, <3>2
  <2> QED BY <2>4, <2>5
<1> QED BY <1>4, <1>5, SetupAssumption

\* What a push and a pop do to a path.
LEMMA PushFacts ==
  ASSUME TypeOK, NEW w \in Worker, NEW n \in Node, Push(w, n)
  PROVE  /\ Len(path'[w]) = Len(path[w]) + 1
         /\ \A i \in 1..Len(path[w]) : path'[w][i] = path[w][i]
         /\ path'[w][Len(path[w]) + 1] = n
<1>1. path \in [Worker -> Seq(Node)] /\ path'[w] = Append(path[w], n)
  BY DEF TypeOK, Push
<1>2. path[w] \in Seq(Node)
  BY <1>1
<1> QED BY <1>1, <1>2

LEMMA PopFacts ==
  ASSUME TypeOK, NEW w \in Worker, Len(path[w]) >= 2, Pop(w)
  PROVE  /\ Len(path'[w]) = Len(path[w]) - 1
         /\ \A i \in 1..Len(path[w]) - 1 : path'[w][i] = path[w][i]
<1>1. path \in [Worker -> Seq(Node)] /\ path'[w] = SubSeq(path[w], 1, Len(path[w]) - 1)
  BY DEF TypeOK, Pop
<1>2. path[w] \in Seq(Node)
  BY <1>1
<1> QED BY <1>1, <1>2

\* Going down to an open child.
LEMMA PushDown ==
  ASSUME TypeInv, ParsedInv, NEW w \in Worker, PathOK(w), Len(path[w]) = 1 \/ ~Upward(w),
         NEW c \in OpenCleanup(Here(w), w), Push(w, c), UNCHANGED <<graphVars, droppedCleanup>>
  PROVE  PathOK(w)'
<1> DEFINE last == Len(path[w])
<1>1. path[w] \in Seq(Node) /\ last \in Nat /\ last >= 1 /\ Here(w) \in Node
  BY HereType DEF TypeInv, Shape
<1>2. c \in CleanupNodes(Here(w), w) /\ c \in Node /\ (c \in Test => c \in parsed[w])
  BY <1>1, ChildEdge DEF OpenCleanup
<1>3. /\ Len(path'[w]) = last + 1 /\ path'[w][last + 1] = c
      /\ \A i \in 1..last : path'[w][i] = path[w][i]
  BY <1>2, PushFacts DEF TypeInv
<1>4. \A n : CleanupNodes(n, w)' = CleanupNodes(n, w)
  BY DEF graphVars, CleanupNodes, Composes
<1>5. \A i \in 1..last - 1 : path[w][i + 1] \in CleanupNodes(path[w][i], w)
  BY CameDown
<1>6. \A i \in 1..last : path'[w][i + 1] \in CleanupNodes(path[w][i], w)
  BY <1>1, <1>2, <1>3, <1>5 DEF Here
<1>7. \A i \in 1..last : (path[w][i + 1] \in CleanupNodes(path[w][i], w))'
  BY <1>3, <1>4, <1>6
<1>8. Chain(path[w], w)'
  <2>1. last + 1 \in 1..Len(path'[w])
    BY <1>1, <1>3
  <2>2. /\ \A i \in 1..(last + 1) - 1 : (path[w][i + 1] \in CleanupNodes(path[w][i], w))'
        /\ \A i \in (last + 1)..Len(path'[w]) - 1 : (path[w][i] \in CleanupNodes(path[w][i + 1], w))'
    BY <1>1, <1>3, <1>7
  <2> QED BY <2>1, <2>2 DEF Chain
<1>9. (\A i \in 1..Len(path[w]) : path[w][i] \in Test => path[w][i] \in parsed[w])'
  <2>1. parsed' = parsed
    BY DEF graphVars
  <2>2. ASSUME NEW i \in 1..last + 1, path'[w][i] \in Test PROVE path'[w][i] \in parsed[w]
    <3>1. CASE i = last + 1
      BY <1>2, <1>3, <2>2, <3>1
    <3>2. CASE i \in 1..last
      BY <1>3, <2>2, <3>2 DEF PathOK
    <3> QED BY <1>1, <3>1, <3>2
  <2> QED BY <1>3, <2>1, <2>2
<1>10. path'[w][1] = Root
  BY <1>1, <1>3 DEF PathOK
<1>11. (path[w][2] \in OpenCleanup(Root, w))'
  <2>1. CASE last = 1
    BY <1>3, <1>4, <2>1 DEF PathOK, OpenCleanup, Here
  <2>2. CASE last # 1
    <3>1. last > 1 /\ 2 \in 1..last
      <4> HIDE DEF last
      <4> QED BY <1>1, <2>2
    <3>2. path[w][2] \in OpenCleanup(Root, w) /\ path'[w][2] = path[w][2]
      BY <1>3, <3>1 DEF PathOK
    <3> QED BY <1>4, <3>2 DEF OpenCleanup
  <2> QED BY <2>1, <2>2
<1> QED BY <1>8, <1>9, <1>10, <1>11 DEF PathOK

\* Going up to a parent.
LEMMA PushUp ==
  ASSUME TypeInv, ParsedInv, NEW w \in Worker, PathOK(w), Len(path[w]) > 1,
         NEW p \in SetupNodes(Here(w), w), Push(w, p), UNCHANGED <<graphVars, droppedCleanup>>
  PROVE  PathOK(w)'
<1> DEFINE last == Len(path[w])
<1>1. path[w] \in Seq(Node) /\ last \in Nat /\ last > 1 /\ Here(w) \in Node
  BY HereType DEF TypeInv
<1>2. Here(w) \in Test => Here(w) \in parsed[w]
  BY <1>1 DEF PathOK, Here
<1>3. p \in Node /\ Here(w) \in CleanupNodes(p, w) /\ (p \in Test => p \in parsed[w])
  BY <1>1, <1>2, ParentEdge, NeighbourType DEF TypeInv
<1>4. /\ Len(path'[w]) = last + 1 /\ path'[w][last + 1] = p
      /\ \A i \in 1..last : path'[w][i] = path[w][i]
  BY <1>3, PushFacts DEF TypeInv
<1>5. \A n : CleanupNodes(n, w)' = CleanupNodes(n, w)
  BY DEF graphVars, CleanupNodes, Composes
<1>6. PICK k \in 1..last :
        /\ \A i \in 1..k - 1 : path[w][i + 1] \in CleanupNodes(path[w][i], w)
        /\ \A i \in k..last - 1 : path[w][i] \in CleanupNodes(path[w][i + 1], w)
  BY DEF PathOK, Chain
<1>7. ASSUME NEW i \in 1..k - 1 PROVE (path[w][i + 1] \in CleanupNodes(path[w][i], w))'
  <2>1. i \in 1..last /\ i + 1 \in 1..last
    BY <1>1, <1>6
  <2> QED BY <1>4, <1>5, <1>6, <2>1
<1>8. ASSUME NEW i \in k..last PROVE path[w][i] \in CleanupNodes(path'[w][i + 1], w)
  <2>1. CASE i = last
    BY <1>3, <1>4, <2>1 DEF Here
  <2>2. CASE i # last
    <3>1. i \in k..last - 1 /\ i + 1 \in 1..last
      BY <1>1, <1>6, <2>2
    <3> QED BY <1>4, <1>6, <3>1
  <2> QED BY <2>1, <2>2
<1>9. ASSUME NEW i \in k..last PROVE (path[w][i] \in CleanupNodes(path[w][i + 1], w))'
  <2>1. i \in 1..last
    BY <1>1, <1>6
  <2> QED BY <1>4, <1>5, <1>8, <2>1
<1>10. Chain(path[w], w)'
  <2>1. k \in 1..Len(path'[w]) /\ Len(path'[w]) - 1 = last
    BY <1>1, <1>4, <1>6
  <2> QED BY <1>7, <1>9, <2>1 DEF Chain
<1>11. (\A i \in 1..Len(path[w]) : path[w][i] \in Test => path[w][i] \in parsed[w])'
  <2>1. parsed' = parsed
    BY DEF graphVars
  <2>2. ASSUME NEW i \in 1..last + 1, path'[w][i] \in Test PROVE path'[w][i] \in parsed[w]
    <3>1. CASE i = last + 1
      BY <1>3, <1>4, <2>2, <3>1
    <3>2. CASE i \in 1..last
      BY <1>4, <2>2, <3>2 DEF PathOK
    <3> QED BY <1>1, <3>1, <3>2
  <2> QED BY <1>4, <2>1, <2>2
<1>12. path'[w][1] = Root /\ (path[w][2] \in OpenCleanup(Root, w))'
  <2>1. 1 \in 1..last /\ 2 \in 1..last
    BY <1>1
  <2>2. path'[w][1] = path[w][1] /\ path'[w][2] = path[w][2]
    BY <1>4, <2>1
  <2> QED BY <1>1, <1>5, <2>2 DEF PathOK, OpenCleanup
<1> QED BY <1>10, <1>11, <1>12 DEF PathOK

\* Going back one node, unless that is the last open child of the shared root.
LEMMA PopPath ==
  ASSUME TypeInv, NEW w \in Worker, PathOK(w), Len(path[w]) >= 2, Pop(w), UNCHANGED graphVars,
         Len(path[w]) >= 3 => <<path[w][2], w>> \notin droppedCleanup'[Root]
  PROVE  PathOK(w)'
<1> DEFINE last == Len(path[w])
<1>1. path[w] \in Seq(Node) /\ last \in Nat /\ last >= 2
  BY HereType DEF TypeInv
<1>2. Len(path'[w]) = last - 1 /\ \A i \in 1..last - 1 : path'[w][i] = path[w][i]
  BY PopFacts DEF TypeInv
<1>3. \A n : CleanupNodes(n, w)' = CleanupNodes(n, w)
  BY DEF graphVars, CleanupNodes, Composes
<1>4. PICK k \in 1..last :
        /\ \A i \in 1..k - 1 : path[w][i + 1] \in CleanupNodes(path[w][i], w)
        /\ \A i \in k..last - 1 : path[w][i] \in CleanupNodes(path[w][i + 1], w)
  BY DEF PathOK, Chain
<1>5. PICK j \in 1..last - 1 : j <= k /\ (k <= j \/ j = last - 1)
  <2>1. CASE k <= last - 1
    BY <1>1, <1>4, <2>1
  <2>2. CASE k = last
    <3>1. last - 1 \in 1..last - 1
      BY <1>1
    <3>2. last - 1 <= k
      BY <1>1, <2>2
    <3> QED BY <3>1, <3>2
  <2> QED BY <1>1, <1>4, <2>1, <2>2
<1>6. ASSUME NEW i \in 1..j - 1 PROVE (path[w][i + 1] \in CleanupNodes(path[w][i], w))'
  <2>1. i \in 1..k - 1 /\ i \in 1..last - 1 /\ i + 1 \in 1..last - 1
    BY <1>1, <1>4, <1>5
  <2> QED BY <1>2, <1>3, <1>4, <2>1
<1>7. \A i \in j..Len(path'[w]) - 1 : (path[w][i] \in CleanupNodes(path[w][i + 1], w))'
  <2> SUFFICES ASSUME NEW i \in j..Len(path'[w]) - 1
               PROVE  (path[w][i] \in CleanupNodes(path[w][i + 1], w))'
    OBVIOUS
  <2>1. i \in k..last - 1 /\ i \in 1..last - 1 /\ i + 1 \in 1..last - 1
    BY <1>1, <1>2, <1>4, <1>5
  <2> QED BY <1>2, <1>3, <1>4, <2>1
<1>8. Chain(path[w], w)'
  BY <1>2, <1>5, <1>6, <1>7 DEF Chain
<1>9. (\A i \in 1..Len(path[w]) : path[w][i] \in Test => path[w][i] \in parsed[w])'
  <2>1. parsed' = parsed
    BY DEF graphVars
  <2>2. ASSUME NEW i \in 1..last - 1 PROVE path'[w][i] = path[w][i] /\ i \in 1..last
    BY <1>1, <1>2
  <2> QED BY <1>2, <2>1, <2>2 DEF PathOK
<1>10. path'[w][1] = Root /\ (Len(path[w]) > 1 => path[w][2] \in OpenCleanup(Root, w))'
  <2>1. path'[w][1] = Root
    BY <1>1, <1>2 DEF PathOK
  <2>2. ASSUME last - 1 > 1 PROVE (path[w][2] \in OpenCleanup(Root, w))'
    <3>1. 2 \in 1..last - 1 /\ last >= 3
      BY <1>1, <2>2
    <3>2. path'[w][2] = path[w][2]
      BY <1>2, <3>1
    <3>3. path[w][2] \in OpenCleanup(Root, w)
      BY <1>1 DEF PathOK
    <3> QED BY <1>3, <3>1, <3>2, <3>3 DEF OpenCleanup
  <2> QED BY <1>2, <2>1, <2>2
<1> QED BY <1>8, <1>9, <1>10 DEF PathOK

\* Starting over at the shared root.
LEMMA RootPath ==
  ASSUME NEW w \in Worker, path'[w] = <<Root>>
  PROVE  PathOK(w)'
<1>1. Len(path'[w]) = 1 /\ path'[w][1] = Root
  OBVIOUS
<1>2. Chain(path[w], w)'
  <2>1. 1 \in 1..Len(path'[w]) /\ 1..1 - 1 = {} /\ 1..Len(path'[w]) - 1 = {}
    BY <1>1
  <2> QED BY <2>1 DEF Chain
<1> QED BY <1>1, <1>2, NodesAssumption DEF PathOK

\* Nothing leaves the graph of a worker.
LEMMA NextGrows == TypeInv /\ [Next]_vars => Grows
<1> SUFFICES ASSUME TypeInv, [Next]_vars PROVE Grows
  OBVIOUS
<1>1. CASE UNCHANGED graphVars
  BY <1>1 DEF graphVars, Grows
<1>2. ASSUME NEW w \in Worker, Unroll(w) PROVE Grows
  BY <1>2 DEF Unroll, Grows, TypeInv, TypeOK
<1>3. ASSUME NEW w \in Worker, Walk(w), ~Unroll(w) PROVE UNCHANGED graphVars
  BY <1>3 DEF Walk, Finish, PickFromRoot, Bounce, ClimbToParent, ScanError, PassFlat, SkipTest,
     StartTest, ReturnToChild, StepBack, Postpone, Reverse, DescendToChild
<1>4. ASSUME NEW w \in Worker, Resume(w) \/ Await(w) PROVE UNCHANGED graphVars
  BY <1>4 DEF Resume, Await, PreparationFails, PreparationPasses, TestDone, ResultLost
<1>5. CASE UNCHANGED vars \/ EndJob \/ TimeoutJob \/ Over
  BY <1>1, <1>5 DEF vars, EndJob, TimeoutJob, Over, Verdict
<1> QED BY <1>1, <1>2, <1>3, <1>4, <1>5 DEF Next

\* A worker's step leaves the paths of the others alone.
LEMMA PathStep ==
  ASSUME TypeInv, PathInv, Grows, NEW w \in Worker, PathOK(w)',
         \A v \in Worker \ {w} : path'[v] = path[v],
         \A v \in Worker \ {w}, x \in Node :
           <<x, v>> \in droppedCleanup'[Root] => <<x, v>> \in droppedCleanup[Root]
  PROVE  PathInv'
<1> SUFFICES ASSUME NEW v \in Worker PROVE PathOK(v)'
  BY DEF PathInv
<1>1. CASE v = w
  BY <1>1
<1>2. CASE v # w
  BY <1>2, KeptPath DEF PathInv
<1> QED BY <1>1, <1>2

\* Going on along the path.
LEMMA PathPush ==
  ASSUME TypeInv, ParsedInv, PathInv, Grows, NEW w \in Worker,
         PickFromRoot(w) \/ ClimbToParent(w) \/ DescendToChild(w)
  PROVE  PathInv'
<1>0. PathOK(w) /\ Root \in Node
  BY DEF PathInv, Node
<1>1. UNCHANGED <<graphVars, droppedCleanup>>
  BY DEF PickFromRoot, ClimbToParent, DescendToChild
<1>2. CASE PickFromRoot(w)
  <2>1. Len(path[w]) = 1 /\ Here(w) = Root
    BY <1>0, <1>2 DEF PickFromRoot, PathOK, Here
  <2>2. PICK c \in OpenCleanup(Here(w), w) : Push(w, c)
    BY <1>2, <2>1 DEF PickFromRoot, First
  <2>3. c \in Node
    BY <1>0, <2>1, NeighbourType DEF OpenCleanup, TypeInv
  <2>4. PathOK(w)'
    BY <1>0, <1>1, <2>1, <2>2, PushDown
  <2>5. \A v \in Worker \ {w} : path'[v] = path[v]
    BY <2>2, <2>3, PushStep DEF TypeInv
  <2> QED BY <1>1, <2>4, <2>5, PathStep
<1>3. CASE DescendToChild(w)
  <2>1. Here(w) \in Node /\ ~Upward(w)
    BY <1>3, AfterFacts DEF DescendToChild
  <2>2. PICK c \in OpenCleanup(Here(w), w) : Push(w, c)
    BY <1>3 DEF DescendToChild, First
  <2>3. c \in Node
    BY <2>1, NeighbourType DEF OpenCleanup, TypeInv
  <2>4. PathOK(w)'
    BY <1>0, <1>1, <2>1, <2>2, PushDown
  <2>5. \A v \in Worker \ {w} : path'[v] = path[v]
    BY <2>2, <2>3, PushStep DEF TypeInv
  <2> QED BY <1>1, <2>4, <2>5, PathStep
<1>4. CASE ClimbToParent(w)
  <2>1. Here(w) \in Node /\ Len(path[w]) > 1
    BY <1>4, AtNodeFacts DEF ClimbToParent, Enters, AtNode
  <2>2. PICK p \in SetupNodes(Here(w), w) : Push(w, p)
    BY <1>4 DEF ClimbToParent, First, OpenSetup
  <2>3. p \in Node
    BY <2>1, NeighbourType DEF TypeInv
  <2>4. PathOK(w)'
    BY <1>0, <1>1, <2>1, <2>2, PushUp
  <2>5. \A v \in Worker \ {w} : path'[v] = path[v]
    BY <2>2, <2>3, PushStep DEF TypeInv
  <2> QED BY <1>1, <2>4, <2>5, PathStep
<1> QED BY <1>2, <1>3, <1>4

\* Going back.
LEMMA PathPop ==
  ASSUME TypeInv, ParsedInv, PathInv, Grows, NEW w \in Worker,
         ReturnToChild(w) \/ StepBack(w) \/ Reverse(w)
  PROVE  PathInv'
<1>0. PathOK(w) /\ Root \in Node
  BY DEF PathInv, Node
<1>1. /\ Len(path[w]) >= 2 /\ path[w] \in Seq(Node) /\ Here(w) \in Node
      /\ Pop(w) /\ UNCHANGED graphVars
  BY AfterFacts DEF ReturnToChild, StepBack, Reverse
<1>2. \A v \in Worker \ {w} : path'[v] = path[v]
  BY <1>1, PopStep DEF TypeInv
<1>3. <<path[w][2], w>> \notin droppedCleanup[Root]
  <2>1. Len(path[w]) > 1
    BY <1>1
  <2> QED BY <1>0, <2>1 DEF PathOK, OpenCleanup
<1>4. CASE UNCHANGED droppedCleanup
  BY <1>0, <1>1, <1>2, <1>3, <1>4, PopPath, PathStep
<1>5. CASE Reverse(w)
  <2>1. \A x \in Node, v \in Worker :
          <<x, v>> \in droppedCleanup'[Root]
            => <<x, v>> \in droppedCleanup[Root] \/ (x = Here(w) /\ v = w)
    BY <1>0, <1>5 DEF Reverse, TypeInv, TypeOK
  <2>2. Len(path[w]) >= 3 => path[w][2] # Here(w)
    BY <1>0, <1>5, CameDown, NoCycle DEF Reverse
  <2>3. Len(path[w]) >= 3 => path[w][2] \in Node
    BY <1>1
  <2>4. PathOK(w)'
    BY <1>0, <1>1, <1>3, <2>1, <2>2, <2>3, PopPath
  <2> QED BY <1>2, <2>1, <2>4, PathStep
<1> QED BY <1>4, <1>5 DEF ReturnToChild, StepBack, edgeVars

\* Every step keeps the paths in order.
LEMMA NextPath == TypeInv /\ ParsedInv /\ PathInv /\ [Next]_vars => PathInv'
<1> SUFFICES ASSUME TypeInv, ParsedInv, PathInv, [Next]_vars PROVE PathInv'
  OBVIOUS
<1>0. Grows
  BY NextGrows
<1>1. ASSUME UNCHANGED <<path, droppedCleanup>> PROVE PathInv'
  BY <1>0, <1>1, KeptPath DEF PathInv
<1>2. CASE UNCHANGED vars \/ EndJob \/ TimeoutJob \/ Over
  BY <1>1, <1>2 DEF vars, EndJob, TimeoutJob, Over, Verdict, edgeVars, walkVars
<1>3. ASSUME NEW w \in Worker, Bounce(w) \/ Postpone(w) PROVE PathInv'
  <2>1. UNCHANGED droppedCleanup /\ BackToRoot(w)
    BY <1>3 DEF Bounce, Postpone, edgeVars
  <2>2. path'[w] = <<Root>> /\ \A v \in Worker \ {w} : path'[v] = path[v]
    BY <2>1 DEF BackToRoot, TypeInv, TypeOK
  <2> QED BY <1>0, <2>1, <2>2, RootPath, PathStep
<1>4. ASSUME NEW w \in Worker,
             \/ Resume(w) \/ Await(w) \/ Finish(w) \/ Unroll(w) \/ PassFlat(w) \/ SkipTest(w)
             \/ StartTest(w) \/ ScanError(w)
      PROVE  UNCHANGED <<path, droppedCleanup>>
  BY <1>4 DEF Resume, Await, PreparationFails, PreparationPasses, TestDone, ResultLost, Finish,
     Unroll, PassFlat, SkipTest, StartTest, ScanError, edgeVars, walkVars
<1> QED BY <1>0, <1>1, <1>2, <1>3, <1>4, PathPush, PathPop DEF Next, Walk

\* At first everybody is at the shared root.
LEMMA InitWalk == Init => ParsedInv /\ PathInv
<1>1. Init => ParsedInv
  BY SetupAssumption, EdgesAssumption DEF Init, ParsedInv, Composes
<1>2. Init => PathInv
  <2> SUFFICES ASSUME Init, NEW w \in Worker PROVE PathOK(w)
    BY DEF PathInv
  <2>1. path[w] = <<Root>> /\ Len(path[w]) = 1 /\ path[w][1] = Root
    BY DEF Init
  <2>2. Chain(path[w], w)
    <3>1. 1 \in 1..Len(path[w]) /\ 1..1 - 1 = {} /\ 1..Len(path[w]) - 1 = {}
      BY <2>1
    <3> QED BY <3>1 DEF Chain
  <2> QED BY <2>1, <2>2, NodesAssumption DEF PathOK
<1> QED BY <1>1, <1>2

\* The assertions hold: whatever the graph, and however the workers interleave, a
\* worker leaves its loop with the shared root alone on its path, it comes to a
\* node from a parent or from a child of it, and it runs only tests parsed for it
\* (the assertions and the ValueError of traverse_object_trees).
THEOREM WalkIsSound == Spec => []AssertionsHold
<1>1. TypeInv /\ ParsedInv /\ PathInv => AssertionsHold
  <2> SUFFICES ASSUME TypeInv, ParsedInv, PathInv, NEW w \in Worker
               PROVE  /\ IsCleanupReady(Root, w) => path[w] = <<Root>>
                      /\ Len(path[w]) > 1 => Upward(w) \/ Downward(w)
                      /\ Running(w) => Here(w) \in parsed[w]
    BY DEF AssertionsHold, Enters, AtNode
  <2>1. path[w] \in Seq(Node) /\ Len(path[w]) \in Nat /\ Len(path[w]) >= 1 /\ PathOK(w)
    BY HereType DEF TypeInv, Shape, PathInv
  <2>2. ASSUME IsCleanupReady(Root, w) PROVE path[w] = <<Root>>
    <3>1. ~(Len(path[w]) > 1) /\ path[w][1] = Root
      BY <2>1, <2>2 DEF PathOK, IsCleanupReady
    <3> QED BY <2>1, <3>1
  <2>3. ASSUME Len(path[w]) > 1, ~Upward(w) PROVE Downward(w)
    <3>1. Len(path[w]) - 1 \in 1..Len(path[w]) - 1 /\ Len(path[w]) - 1 + 1 = Len(path[w])
      BY <2>1, <2>3
    <3>2. Here(w) \in CleanupNodes(Prev(w), w)
      BY <2>1, <2>3, <3>1, CameDown DEF Here, Prev
    <3>3. Prev(w) \in Node
      BY <2>1, <2>3, TopType DEF Prev
    <3> QED BY <3>2, <3>3, ChildEdge DEF Downward
  <2>4. ASSUME Running(w) PROVE Here(w) \in parsed[w]
    <3>1. Here(w) \in Test /\ Len(path[w]) \in 1..Len(path[w])
      BY <2>1, <2>4 DEF TypeInv, Shape
    <3> QED BY <2>1, <3>1 DEF PathOK, Here
  <2> QED BY <2>2, <2>3, <2>4
<1> QED BY <1>1, InitTypes, InitWalk, NextTypes, NextParsed, NextPath, PTL DEF Spec

-----------------------------------------------------------------------------
(* Results.                                                                *)

\* Only these steps touch the results of a test.
LEMMA ResultsChange ==
  ASSUME [Next]_vars
  PROVE  \/ UNCHANGED results
         \/ \E w \in Worker : SkipTest(w) \/ StartTest(w) \/ PreparationPasses(w) \/ TestDone(w)
<1>1. ASSUME NEW w \in Worker, Walk(w), ~SkipTest(w), ~StartTest(w) PROVE UNCHANGED results
  BY <1>1 DEF Walk, Finish, PickFromRoot, Unroll, Bounce, ClimbToParent, ScanError, PassFlat,
     ReturnToChild, StepBack, Postpone, Reverse, DescendToChild, nodeVars
<1>2. ASSUME NEW w \in Worker, Resume(w) \/ PreparationFails(w) \/ ResultLost(w)
      PROVE  UNCHANGED results
  BY <1>2 DEF Resume, PreparationFails, ResultLost, nodeVars
<1>3. CASE UNCHANGED vars \/ EndJob \/ TimeoutJob \/ Over
  BY <1>3 DEF vars, EndJob, TimeoutJob, Over, Verdict, nodeVars
<1> QED BY <1>1, <1>2, <1>3 DEF Next, Await

\* Whatever joins a node from a replayed job is an old result.
LEMMA BegunTries ==
  ASSUME NEW t, NEW w
  PROVE  results[t] \subseteq Begun(t, w) /\ \A r \in Begun(t, w) : ~r.old => r \in results[t]
BY DEF Begun, Replayed

\* The results after a test has been skipped, started, prepared or run.
LEMMA ResultFacts ==
  ASSUME TypeInv, NEW w \in Worker, NEW t, t = Here(w)
  PROVE  /\ SkipTest(w) => t \in Test /\ results' = [results EXCEPT ![t] = Begun(t, w)]
         /\ StartTest(w) =>
              /\ t \in Test
              /\ results' = [results EXCEPT ![t] =
                   IF t \in ObjectRoot THEN Begun(t, w)
                   ELSE Begun(t, w) \union {Pending(w, Begun(t, w))}]
         /\ PreparationPasses(w) =>
              /\ t \in Test
              /\ results' = [results EXCEPT ![t] = @ \union {Pending(w, @)}]
         /\ TestDone(w) =>
              /\ t \in Test
              /\ \E q \in results[t], s \in {"PASS", "WARN", "FAIL"} :
                   /\ IsPending(q, w)
                   /\ results' = [results EXCEPT ![t] = (@ \ {q}) \union {[q EXCEPT !.status = s]}]
                   /\ s = "PASS" /\ t \in Stateful => have' = [have EXCEPT ![t] = @ \union {Pool[w]}]
<1>1. SkipTest(w) => t \in Test /\ results' = [results EXCEPT ![t] = Begun(t, w)]
  BY DEF SkipTest
<1>2. StartTest(w) =>
        /\ t \in Test
        /\ results' = [results EXCEPT ![t] =
             IF t \in ObjectRoot THEN Begun(t, w)
             ELSE Begun(t, w) \union {Pending(w, Begun(t, w))}]
  BY DEF StartTest
<1>3. PreparationPasses(w) =>
        t \in Test /\ results' = [results EXCEPT ![t] = @ \union {Pending(w, @)}]
  BY AwaitFacts DEF PreparationPasses
<1>4. ASSUME TestDone(w)
      PROVE  /\ t \in Test
             /\ \E q \in results[t], s \in {"PASS", "WARN", "FAIL"} :
                  /\ IsPending(q, w)
                  /\ results' = [results EXCEPT ![t] = (@ \ {q}) \union {[q EXCEPT !.status = s]}]
                  /\ s = "PASS" /\ t \in Stateful => have' = [have EXCEPT ![t] = @ \union {Pool[w]}]
  BY <1>4, AwaitFacts DEF TestDone
<1> QED BY <1>1, <1>2, <1>3, <1>4

-----------------------------------------------------------------------------
(* Tries.                                                                  *)

\* A worker is registered at the test that it runs, and only there; object roots
\* are the tests with a preparation.
StartedInv ==
  \A w \in Worker :
    /\ \A t \in Test : w \in started[t] <=> Running(w) /\ Here(w) = t
    /\ pc[w] = "pre" => Here(w) \in ObjectRoot

Tries(t) == {r \in results[t] : ~r.old}

\* The tries of workers that have not been through the test are one each, and
\* under way.
TriesInv ==
  \A t \in Test \ ObjectRoot :
    /\ \A r \in Tries(t) : r.name \in finished[t] \union started[t]
    /\ \A q, r \in Tries(t) : q.name = r.name /\ q # r => q.name \in finished[t]

\* Starting a test, preparing it and leaving it keep the register of those who run it.
LEMMA NextStarted == TypeInv /\ StartedInv /\ [Next]_vars => StartedInv'
<1> SUFFICES ASSUME TypeInv, StartedInv, [Next]_vars PROVE StartedInv'
  OBVIOUS
<1>0. /\ pc \in [Worker -> {"ready", "loop", "pre", "run", "after", "sleep", "done"}]
      /\ path \in [Worker -> Seq(Node)] /\ started \in [Test -> SUBSET Worker]
  BY DEF TypeInv, TypeOK
<1>1. CASE UNCHANGED <<pc, path, started>>
  BY <1>1 DEF StartedInv, Running, Here
<1>2. CASE UNCHANGED vars \/ EndJob \/ TimeoutJob \/ Over
  BY <1>1, <1>2 DEF vars, EndJob, TimeoutJob, Over, Verdict, nodeVars, walkVars
<1>3. ASSUME NEW w \in Worker, ~Running(w), pc'[w] \notin {"pre", "run"}, started' = started,
             \A v \in Worker \ {w} : pc'[v] = pc[v] /\ path'[v] = path[v]
      PROVE  StartedInv'
  BY <1>3 DEF StartedInv, Running, Here
<1>4. ASSUME NEW w \in Worker, Resume(w) \/ (Walk(w) /\ ~StartTest(w) /\ ~ScanError(w))
      PROVE  StartedInv'
  <2>1. /\ started' = started /\ ~Running(w)
    BY <1>4 DEF Resume, Walk, Finish, PickFromRoot, Unroll, Bounce, ClimbToParent, PassFlat, SkipTest,
       ReturnToChild, StepBack, Postpone, Reverse, DescendToChild, Traverses, Enters, AtNode, HasLoop,
       Running, nodeVars
  <2>2. pc'[w] \notin {"pre", "run"} /\ \A v \in Worker \ {w} : pc'[v] = pc[v]
    BY <1>0, <1>4, <2>1 DEF Resume, Walk, Finish, PickFromRoot, Unroll, Bounce, ClimbToParent, PassFlat,
       SkipTest, ReturnToChild, StepBack, Postpone, Reverse, DescendToChild, Yield, Goto, Running
  <2>3. \A v \in Worker \ {w} : path'[v] = path[v]
    BY <1>0, <1>4 DEF Resume, Walk, Finish, PickFromRoot, Unroll, Bounce, ClimbToParent, PassFlat,
       SkipTest, ReturnToChild, StepBack, Postpone, Reverse, DescendToChild, walkVars, Push, Pop,
       BackToRoot
  <2> QED BY <1>3, <2>1, <2>2, <2>3
<1>5. ASSUME NEW w \in Worker, StartTest(w) PROVE StartedInv'
  <2>1. /\ Here(w) \in Test /\ started' = [started EXCEPT ![Here(w)] = @ \union {w}]
        /\ ~Running(w) /\ path' = path
        /\ \/ Here(w) \in ObjectRoot /\ pc' = [pc EXCEPT ![w] = "pre"]
           \/ pc' = [pc EXCEPT ![w] = "run"]
    BY <1>5 DEF StartTest, Traverses, Enters, AtNode, HasLoop, Running, Yield
  <2> QED BY <1>0, <2>1 DEF StartedInv, Running, Here
<1>6. ASSUME NEW w \in Worker, PreparationPasses(w) PROVE StartedInv'
  <2>1. started' = started /\ path' = path /\ Running(w) /\ pc' = [pc EXCEPT ![w] = "run"]
    BY <1>6 DEF PreparationPasses, Awaits, Yield, Running, walkVars
  <2> QED BY <1>0, <2>1 DEF StartedInv, Running, Here
<1>7. ASSUME NEW w \in Worker, PreparationFails(w) \/ TestDone(w) \/ ResultLost(w) PROVE StartedInv'
  <2>1. /\ Here(w) \in Test /\ started' = [started EXCEPT ![Here(w)] = @ \ {w}]
        /\ path' = path /\ pc' = [pc EXCEPT ![w] = "after"]
    BY <1>7, AwaitFacts DEF PreparationFails, TestDone, ResultLost, Leave, walkVars
  <2> QED BY <1>0, <2>1 DEF StartedInv, Running, Here
<1>8. ASSUME NEW w \in Worker, ScanError(w) PROVE StartedInv'
  BY <1>1, <1>8 DEF ScanError, nodeVars, walkVars
<1> QED BY <1>2, <1>4, <1>5, <1>6, <1>7, <1>8 DEF Next, Walk, Await

\* A worker that tries a test again has been through it before.
LEMMA NextTries == TypeInv /\ StartedInv /\ TriesInv /\ [Next]_vars => TriesInv'
<1> SUFFICES ASSUME TypeInv, StartedInv, TriesInv, [Next]_vars, NEW t \in Test \ ObjectRoot
             PROVE  /\ \A r \in Tries(t)' : r.name \in finished'[t] \union started'[t]
                    /\ \A q, r \in Tries(t)' : q.name = r.name /\ q # r => q.name \in finished'[t]
  BY DEF TriesInv
<1> DEFINE Goal == /\ \A r \in Tries(t)' : r.name \in finished'[t] \union started'[t]
                   /\ \A q, r \in Tries(t)' : q.name = r.name /\ q # r => q.name \in finished'[t]
<1>0. /\ results \in [Test -> SUBSET Result] /\ started \in [Test -> SUBSET Worker]
      /\ finished \in [Test -> SUBSET Worker]
  BY DEF TypeInv, TypeOK
<1>1. /\ \A r \in Tries(t) : r.name \in finished[t] \union started[t]
      /\ \A q, r \in Tries(t) : q.name = r.name /\ q # r => q.name \in finished[t]
  BY DEF TriesInv
<1>2. ASSUME Tries(t)' \subseteq Tries(t), finished[t] \subseteq finished'[t],
             started[t] \subseteq finished'[t] \union started'[t]
      PROVE  Goal
  BY <1>1, <1>2
<1>3. CASE UNCHANGED <<results, started, finished>>
  BY <1>2, <1>3 DEF Tries
<1>4. ASSUME NEW w \in Worker, SkipTest(w) PROVE Goal
  <2>1. Tries(t)' \subseteq Tries(t)
    BY <1>0, <1>4, ResultFacts, BegunTries DEF Tries
  <2>2. finished[t] \subseteq finished'[t] /\ started' = started
    BY <1>0, <1>4 DEF SkipTest
  <2> QED BY <1>2, <2>1, <2>2
<1>5. ASSUME NEW w \in Worker, StartTest(w) PROVE Goal
  <2> DEFINE new == Pending(w, Begun(t, w))
  <2>1. PICK n \in Test : n = Here(w)
    BY <1>5, ResultFacts
  <2>2. finished' = finished /\ started' = [started EXCEPT ![n] = @ \union {w}]
    BY <1>5, <2>1 DEF StartTest
  <2>3. CASE n # t
    <3>1. results'[t] = results[t]
      BY <1>0, <1>5, <2>1, <2>3, ResultFacts
    <3> QED BY <1>0, <1>2, <2>2, <3>1 DEF Tries
  <2>4. CASE n = t
    <3>1. Tries(t)' \subseteq Tries(t) \union {new} /\ new.name = w
      <4>1. results'[t] = Begun(t, w) \union {new}
        <5>1. results' = [results EXCEPT ![t] = Begun(t, w) \union {new}]
          BY <1>5, <2>1, <2>4 DEF StartTest
        <5> QED BY <1>0, <5>1
      <4> QED BY <4>1, BegunTries DEF Tries, Pending
    <3>2. w \in started'[t] /\ started[t] \subseteq started'[t]
      BY <1>0, <2>2, <2>4
    <3>3. w \notin started[t]
      BY <1>5 DEF StartTest, Traverses, Enters, AtNode, HasLoop, StartedInv, Running
    <3>4. \A r \in Tries(t) : r.name = w => w \in finished[t]
      BY <1>1, <3>3
    <3> HIDE DEF new
    <3> QED BY <1>1, <2>2, <3>1, <3>2, <3>4
  <2> QED BY <2>3, <2>4
<1>6. ASSUME NEW w \in Worker, PreparationPasses(w) PROVE Goal
  <2>1. Here(w) # t
    BY <1>6 DEF PreparationPasses, Awaits, StartedInv
  <2>2. results'[t] = results[t] /\ started' = started /\ finished' = finished
    BY <1>0, <1>6, <2>1, ResultFacts DEF PreparationPasses
  <2> QED BY <1>2, <2>2 DEF Tries
<1>7. ASSUME NEW w \in Worker, NEW n \in Test, Leave(n, w)
      PROVE  finished[t] \subseteq finished'[t] /\ started[t] \subseteq finished'[t] \union started'[t]
  BY <1>0, <1>7 DEF Leave
<1>8. ASSUME NEW w \in Worker, TestDone(w) PROVE Goal
  <2>1. PICK n \in Test : n = Here(w)
    BY <1>8, ResultFacts
  <2>2. finished[t] \subseteq finished'[t] /\ started[t] \subseteq finished'[t] \union started'[t]
    BY <1>7, <1>8, <2>1 DEF TestDone
  <2>3. PICK q \in results[n], s \in {"PASS", "WARN", "FAIL"} :
          /\ IsPending(q, w)
          /\ results' = [results EXCEPT ![n] = (@ \ {q}) \union {[q EXCEPT !.status = s]}]
    BY <1>8, <2>1, ResultFacts
  <2>4. CASE n # t
    BY <1>0, <1>2, <2>2, <2>3, <2>4 DEF Tries
  <2>5. CASE n = t
    <3> DEFINE r == [q EXCEPT !.status = s]
    <3>1. q \in Tries(t) /\ q \in Result
      BY <1>0, <2>3, <2>5 DEF Tries, IsPending
    <3>2. r.name = q.name
      BY <3>1 DEF Result
    <3>3. Tries(t)' \subseteq (Tries(t) \ {q}) \union {r}
      BY <1>0, <2>3, <2>5 DEF Tries
    <3> HIDE DEF r
    <3> QED BY <1>1, <2>2, <3>1, <3>2, <3>3
  <2> QED BY <2>4, <2>5
<1>9. ASSUME NEW w \in Worker, PreparationFails(w) \/ ResultLost(w) PROVE Goal
  <2>1. Here(w) \in Test /\ Leave(Here(w), w) /\ results' = results
    BY <1>9, AwaitFacts DEF PreparationFails, ResultLost
  <2> QED BY <1>2, <1>7, <2>1 DEF Tries
<1>10. ASSUME NEW w \in Worker, Walk(w) \/ Resume(w), ~SkipTest(w), ~StartTest(w)
       PROVE  UNCHANGED <<results, started, finished>>
  BY <1>10 DEF Walk, Resume, Finish, PickFromRoot, Unroll, Bounce, ClimbToParent, ScanError, PassFlat,
     ReturnToChild, StepBack, Postpone, Reverse, DescendToChild, nodeVars
<1>11. CASE UNCHANGED vars \/ EndJob \/ TimeoutJob \/ Over
  BY <1>3, <1>11 DEF vars, EndJob, TimeoutJob, Over, Verdict, nodeVars
<1> QED BY <1>3, <1>4, <1>5, <1>6, <1>8, <1>9, <1>10, <1>11 DEF Next, Await

\* The tries of a test that count for a worker.
Counted(t, w) == InReach(t, w, Tries(t))

\* How many tries of a test there may be.
Allowed(t, n) == n <= 1 \/ n <= MaxTries[t] \/ \E v \in Worker : n <= reentry[<<t, v>>]

LEMMA BoundedMeans ==
  BoundedTries <=> \A t \in Test \ ObjectRoot, w \in Worker : Allowed(t, Cardinality(Counted(t, w)))
<1>1. \A t, w : Counted(t, w) = {r \in InReach(t, w, results[t]) : ~r.old}
  BY DEF Counted, InReach, Tries
<1> QED BY <1>1 DEF BoundedTries, Allowed

\* A part of the results of a test is finite.
LEMMA TriesFinite ==
  ASSUME NEW S, IsFiniteSet(S), NEW T \in SUBSET S
  PROVE  IsFiniteSet(T) /\ Cardinality(T) \in Nat
BY FS_Subset, FS_CardinalityType

\* One result more.
LEMMA OneMore ==
  ASSUME NEW S, IsFiniteSet(S), NEW x
  PROVE  /\ IsFiniteSet(S \union {x}) /\ Cardinality(S \union {x}) \in Nat
         /\ Cardinality(S \union {x}) <= Cardinality(S) + 1
<1>1. Cardinality(S) \in Nat
  BY FS_CardinalityType
<1>2. /\ IsFiniteSet(S \union {x})
      /\ \/ Cardinality(S \union {x}) = Cardinality(S)
         \/ Cardinality(S \union {x}) = Cardinality(S) + 1
  BY FS_AddElement
<1> QED BY <1>1, <1>2

\* No more tries and no less reentrancy.
LEMMA FewerTries ==
  ASSUME TypeInv, TypeInv', NEW t \in Test, NEW m \in Nat, NEW n \in Nat, n <= m, Allowed(t, m),
         \A v \in Worker : reentry[<<t, v>>] <= reentry'[<<t, v>>]
  PROVE  n <= 1 \/ n <= MaxTries[t] \/ \E v \in Worker : n <= reentry'[<<t, v>>]
<1>1. MaxTries[t] \in Nat /\ \A v \in Worker : reentry[<<t, v>>] \in Nat /\ reentry'[<<t, v>>] \in Nat
  BY PolicyAssumption DEF TypeInv, TypeOK
<1> QED BY <1>1 DEF Allowed

\* A worker that runs a test because nobody in reach has been through it finds only
\* tries that are under way, fewer than may be.
LEMMA ScanCounts ==
  ASSUME TypeInv, TriesInv, NEW w \in Worker, NEW t \in Test \ ObjectRoot,
         ~IsFinished(t, w), ~IsOccupied(t, w)
  PROVE  Allowed(t, Cardinality(Counted(t, w)) + 1)
<1> DEFINE C == Counted(t, w)
           under == started[t] \intersect Reach(t, w)
           f == [r \in C |-> r.name]
<1>1. IsFiniteSet(under) /\ Cardinality(under) \in Nat
  BY CrowdType DEF TypeInv, TypeOK
<1>2. \A r \in C : r.name \in under
  BY DEF Counted, InReach, Tries, TriesInv, IsFinished
<1>3. \A q, r \in C : q.name = r.name => q = r
  BY DEF Counted, InReach, Tries, TriesInv, IsFinished
<1>4. IsFiniteSet(C) /\ Cardinality(C) \in Nat /\ Cardinality(C) <= Cardinality(under)
  <2>1. f \in Injection(C, under)
    BY <1>2, <1>3 DEF Injection, IsInjective
  <2> HIDE DEF f, C, under
  <2>2. IsFiniteSet(C) /\ Cardinality(C) <= Cardinality(under)
    BY <1>1, <2>1, FS_Injection
  <2> QED BY <2>2, FS_CardinalityType
<1> HIDE DEF C
<1>5. CASE Scope[t] = "own"
  <2>1. under = {}
    BY <1>5 DEF IsOccupied, Reach
  <2>2. Cardinality(under) = 0
    BY <2>1, FS_EmptySet
  <2> HIDE DEF under
  <2> QED BY <1>4, <2>2 DEF Allowed, C
<1>6. CASE Scope[t] # "own"
  <2>1. ~ (Cardinality(under) >= Threshold(t, w))
    BY <1>6 DEF IsOccupied
  <2>2. MaxTries[t] \in Nat /\ reentry[<<t, w>>] \in Nat
    BY PolicyAssumption DEF TypeInv, TypeOK
  <2>3. Threshold(t, w) \in Nat /\ Threshold(t, w) \in {1, reentry[<<t, w>>], MaxTries[t]}
    BY <2>2 DEF Threshold
  <2> HIDE DEF under
  <2>4. Cardinality(C) + 1 <= Threshold(t, w)
    BY <1>1, <1>4, <2>1, <2>3
  <2> QED BY <2>3, <2>4 DEF Allowed, C
<1> QED BY <1>5, <1>6

\* A retry counts all the tries there are.
LEMMA RerunCounts ==
  ASSUME TypeInv, NEW w \in Worker, NEW t \in Test, ShouldRerun(t, w, Begun(t, w))
  PROVE  Allowed(t, Cardinality(Counted(t, w)) + 1)
<1> DEFINE tries == IF t \in Stateful THEN InReach(t, w, Begun(t, w)) ELSE Begun(t, w)
           C == Counted(t, w)
<1>1. MaxTries[t] > Cardinality(tries) /\ MaxTries[t] \in Nat
  BY PolicyAssumption DEF ShouldRerun
<1>2. IsFiniteSet(Begun(t, w))
  BY ResultType DEF TypeInv
<1>3. IsFiniteSet(tries) /\ Cardinality(tries) \in Nat
  <2>1. tries \subseteq Begun(t, w)
    BY DEF InReach
  <2> HIDE DEF tries
  <2> QED BY <1>2, <2>1, TriesFinite
<1>4. C \subseteq tries
  BY BegunTries DEF Counted, InReach, Tries
<1> HIDE DEF tries, C
<1>5. Cardinality(C) \in Nat /\ Cardinality(C) <= Cardinality(tries)
  BY <1>3, <1>4, FS_Subset, FS_CardinalityType
<1>6. Cardinality(C) + 1 <= MaxTries[t]
  BY <1>1, <1>3, <1>5
<1> QED BY <1>6 DEF Allowed, C

\* A worker that starts a test may try it once more.
LEMMA StartCounts ==
  ASSUME TypeInv, TriesInv, NEW w \in Worker, StartTest(w), Here(w) \notin ObjectRoot
  PROVE  Allowed(Here(w), Cardinality(Counted(Here(w), w)) + 1)
<1> DEFINE t == Here(w)
<1>1. /\ t \in Test \ ObjectRoot /\ ~IsOccupied(t, w)
      /\ ShouldRun(t, w, Begun(t, w), InReach(t, w, Begun(t, w)))
  BY DEF StartTest, Traverses, Enters
<1> HIDE DEF t
<1>2. CASE Begun(t, w) = {}
  <2>1. Counted(t, w) = {}
    BY <1>2, BegunTries DEF Counted, InReach, Tries
  <2>2. Cardinality(Counted(t, w)) + 1 = 1
    BY <2>1, FS_EmptySet
  <2>3. Allowed(t, 1)
    BY DEF Allowed
  <2> QED BY <2>2, <2>3 DEF t
<1>3. CASE RunFromScan(t, w)
  BY <1>1, <1>3, ScanCounts DEF RunFromScan, t
<1>4. CASE ShouldRerun(t, w, Begun(t, w))
  BY <1>1, <1>4, RerunCounts DEF t
<1> QED BY <1>1, <1>2, <1>3, <1>4 DEF ShouldRun

\* The step that starts a test.
LEMMA BoundedStart ==
  ASSUME TypeInv, TypeInv', TriesInv, BoundedTries, NEW w \in Worker, StartTest(w),
         NEW u \in Test \ ObjectRoot, NEW v \in Worker
  PROVE  Allowed(u, Cardinality(Counted(u, v)))'
<1> DEFINE t == Here(w)
           new == Pending(w, Begun(t, w))
           C == Counted(u, v)
           D == Counted(u, v)'
<1>0. /\ results \in [Test -> SUBSET Result] /\ reentry' = reentry /\ t \in Test
      /\ reentry \in [Test \X Worker -> Nat]
      /\ results' = [results EXCEPT ![t] = IF t \in ObjectRoot THEN Begun(t, w)
                                          ELSE Begun(t, w) \union {new}]
  BY ResultFacts DEF TypeInv, TypeOK, StartTest
<1>1. IsFiniteSet(C) /\ Cardinality(C) \in Nat /\ IsFiniteSet(D) /\ Cardinality(D) \in Nat
  <2>1. C \subseteq results[u] /\ D \subseteq results'[u]
    BY DEF Counted, InReach, Tries
  <2> HIDE DEF C, D
  <2> QED BY <2>1, TriesFinite DEF TypeInv, FiniteResults
<1>2. Allowed(u, Cardinality(C))
  BY BoundedMeans
<1>3. \A x \in Worker : reentry[<<u, x>>] <= reentry'[<<u, x>>]
  BY <1>0
<1>4. CASE u # t \/ w \notin Reach(u, v)
  <2>1. D \subseteq C
    <3>1. CASE u # t
      BY <1>0, <3>1 DEF Counted, InReach, Tries
    <3>2. CASE u = t /\ w \notin Reach(u, v)
      <4>1. \A r \in results'[u] : ~r.old => r \in results[u] \/ r = new
        BY <1>0, <3>2, BegunTries
      <4>2. new.name = w
        BY DEF Pending
      <4> HIDE DEF new
      <4> QED BY <3>2, <4>1, <4>2 DEF Counted, InReach, Tries
    <3> QED BY <1>4, <3>1, <3>2
  <2> HIDE DEF C, D
  <2>2. Cardinality(D) <= Cardinality(C)
    BY <1>1, <2>1, FS_Subset
  <2> QED BY <1>1, <1>2, <1>3, <2>2, FewerTries DEF Allowed, D
<1>5. CASE u = t /\ w \in Reach(u, v)
  <2>1. Reach(u, v) = Reach(u, w)
    BY <1>5, ReachClass
  <2>2. C = Counted(t, w)
    BY <1>5, <2>1 DEF Counted, InReach
  <2>3. Allowed(u, Cardinality(C) + 1)
    BY <1>5, <2>2, StartCounts
  <2>4. D \subseteq C \union {new}
    <3>1. \A r \in results'[u] : ~r.old => r \in results[u] \/ r = new
      BY <1>0, <1>5, BegunTries
    <3> HIDE DEF new
    <3> QED BY <3>1 DEF Counted, InReach, Tries
  <2> HIDE DEF C, D, new
  <2>5. Cardinality(D) <= Cardinality(C) + 1
    <3>1. /\ IsFiniteSet(C \union {new}) /\ Cardinality(C \union {new}) \in Nat
          /\ Cardinality(C \union {new}) <= Cardinality(C) + 1
      BY <1>1, OneMore
    <3>2. Cardinality(D) <= Cardinality(C \union {new})
      BY <2>4, <3>1, FS_Subset
    <3> QED BY <1>1, <3>1, <3>2
  <2>6. Cardinality(C) + 1 \in Nat
    BY <1>1
  <2> QED BY <1>1, <1>3, <2>3, <2>5, <2>6, FewerTries DEF Allowed, D
<1> QED BY <1>4, <1>5

\* No step lowers max_concurrent_tries.
LEMMA ReentryGrows ==
  ASSUME TypeInv, [Next]_vars
  PROVE  \A t \in Test, v \in Worker : reentry[<<t, v>>] <= reentry'[<<t, v>>]
<1>0. reentry \in [Test \X Worker -> Nat]
  BY DEF TypeInv, TypeOK
<1>1. CASE reentry' = reentry
  BY <1>0, <1>1
<1>2. ASSUME NEW w \in Worker, Bounce(w)
      PROVE  \A t \in Test, v \in Worker : reentry[<<t, v>>] <= reentry'[<<t, v>>]
  BY <1>0, <1>2 DEF Bounce
<1>3. ASSUME NEW w \in Worker, Walk(w), ~Bounce(w) PROVE reentry' = reentry
  BY <1>3 DEF Walk, Finish, PickFromRoot, Unroll, ClimbToParent, ScanError, PassFlat, SkipTest,
     StartTest, ReturnToChild, StepBack, Postpone, Reverse, DescendToChild, nodeVars
<1>4. ASSUME NEW w \in Worker, Resume(w) \/ Await(w) PROVE reentry' = reentry
  BY <1>4 DEF Resume, Await, PreparationFails, PreparationPasses, TestDone, ResultLost, nodeVars
<1>5. CASE UNCHANGED vars \/ EndJob \/ TimeoutJob \/ Over
  BY <1>1, <1>5 DEF vars, EndJob, TimeoutJob, Over, Verdict, nodeVars
<1> QED BY <1>1, <1>2, <1>3, <1>4, <1>5 DEF Next

\* Every step keeps the tries bounded.
LEMMA NextBounded ==
  TypeInv /\ TypeInv' /\ StartedInv /\ TriesInv /\ BoundedTries /\ [Next]_vars => BoundedTries'
<1> SUFFICES ASSUME TypeInv, TypeInv', StartedInv, TriesInv, BoundedTries, [Next]_vars,
                    NEW t \in Test \ ObjectRoot, NEW v \in Worker
             PROVE  Allowed(t, Cardinality(Counted(t, v)))'
  <2>1. \A t, v : (Counted(t, v) = {r \in InReach(t, v, results[t]) : ~r.old})'
    BY DEF Counted, InReach, Tries
  <2> QED BY <2>1 DEF BoundedTries, Allowed
<1> DEFINE C == Counted(t, v)
           D == Counted(t, v)'
<1>0. results \in [Test -> SUBSET Result]
  BY DEF TypeInv, TypeOK
<1>1. IsFiniteSet(C) /\ Cardinality(C) \in Nat /\ IsFiniteSet(D) /\ Cardinality(D) \in Nat
  <2>1. C \subseteq results[t] /\ D \subseteq results'[t]
    BY DEF Counted, InReach, Tries
  <2> HIDE DEF C, D
  <2> QED BY <2>1, TriesFinite DEF TypeInv, FiniteResults
<1>2. ASSUME Cardinality(D) <= Cardinality(C) PROVE Allowed(t, Cardinality(Counted(t, v)))'
  <2>1. Allowed(t, Cardinality(C))
    BY BoundedMeans
  <2> HIDE DEF C, D
  <2> QED BY <1>1, <1>2, <2>1, ReentryGrows, FewerTries DEF Allowed, D
<1>3. ASSUME D \subseteq C PROVE Cardinality(D) <= Cardinality(C)
  <2> HIDE DEF C, D
  <2> QED BY <1>1, <1>3, FS_Subset
<1>4. CASE UNCHANGED results
  BY <1>2, <1>3, <1>4 DEF Counted, InReach, Tries
<1>5. ASSUME NEW w \in Worker, SkipTest(w) PROVE D \subseteq C
  BY <1>0, <1>5, ResultFacts, BegunTries DEF Counted, InReach, Tries
<1>6. ASSUME NEW w \in Worker, PreparationPasses(w) PROVE D \subseteq C
  <2>1. Here(w) # t
    BY <1>6 DEF PreparationPasses, Awaits, StartedInv
  <2>2. results'[t] = results[t]
    BY <1>0, <1>6, <2>1, ResultFacts
  <2> QED BY <2>2 DEF Counted, InReach, Tries
<1>7. ASSUME NEW w \in Worker, TestDone(w) PROVE Cardinality(D) <= Cardinality(C)
  <2>1. PICK n \in Test : n = Here(w)
    BY <1>7, ResultFacts
  <2>2. PICK q \in results[n], s \in {"PASS", "WARN", "FAIL"} :
          /\ IsPending(q, w)
          /\ results' = [results EXCEPT ![n] = (@ \ {q}) \union {[q EXCEPT !.status = s]}]
    BY <1>7, <2>1, ResultFacts
  <2> DEFINE r == [q EXCEPT !.status = s]
  <2>3. CASE n # t \/ q.name \notin Reach(t, v)
    <3>1. q \in Result /\ r.name = q.name
      BY <1>0, <2>2 DEF Result
    <3>2. n = t => \A x \in results'[t] : x \in results[t] \/ x = r
      BY <1>0, <2>2
    <3>3. n # t => results'[t] = results[t]
      BY <1>0, <2>2
    <3> HIDE DEF r
    <3>4. D \subseteq C
      BY <2>3, <3>1, <3>2, <3>3 DEF Counted, InReach, Tries
    <3> QED BY <1>3, <3>4
  <2>4. CASE n = t /\ q.name \in Reach(t, v)
    <3>1. q \in C
      BY <2>2, <2>4 DEF Counted, InReach, Tries, IsPending
    <3>2. D \subseteq (C \ {q}) \union {r}
      BY <1>0, <2>2, <2>4 DEF Counted, InReach, Tries
    <3> HIDE DEF C, D, r
    <3>3. /\ IsFiniteSet((C \ {q}) \union {r}) /\ Cardinality((C \ {q}) \union {r}) \in Nat
          /\ Cardinality((C \ {q}) \union {r}) <= Cardinality(C)
      <4>1. IsFiniteSet(C \ {q}) /\ Cardinality(C \ {q}) = Cardinality(C) - 1
        BY <1>1, <3>1, FS_RemoveElement
      <4>2. Cardinality(C \ {q}) \in Nat
        BY <4>1, FS_CardinalityType
      <4>3. /\ IsFiniteSet((C \ {q}) \union {r}) /\ Cardinality((C \ {q}) \union {r}) \in Nat
            /\ Cardinality((C \ {q}) \union {r}) <= Cardinality(C \ {q}) + 1
        BY <4>1, OneMore
      <4> QED BY <1>1, <4>1, <4>2, <4>3
    <3>4. Cardinality(D) <= Cardinality((C \ {q}) \union {r})
      BY <3>2, <3>3, FS_Subset
    <3> QED BY <1>1, <3>3, <3>4
  <2> QED BY <2>3, <2>4
<1> QED BY <1>2, <1>3, <1>4, <1>5, <1>6, <1>7, BoundedStart, ResultsChange

\* Bounded tries: however the workers interleave and whatever the tests return,
\* within the reach of its pool scope no test but an object root is tried more
\* often in one job than max_tries allows, or than max_concurrent_tries lets
\* workers start it before the first of them is through (should_rerun, is_occupied).
THEOREM TriesAreBounded == Spec => []BoundedTries
<1>1. Init => StartedInv /\ TriesInv
  BY DEF Init, StartedInv, TriesInv, Tries, Running
<1>2. Init => BoundedTries
  <2> SUFFICES ASSUME Init, NEW t \in Test \ ObjectRoot, NEW w \in Worker
               PROVE  Allowed(t, Cardinality(Counted(t, w)))
    BY BoundedMeans
  <2>1. Counted(t, w) = {}
    BY DEF Init, Counted, InReach, Tries
  <2>2. Cardinality(Counted(t, w)) = 0
    BY <2>1, FS_EmptySet
  <2>3. Allowed(t, 0)
    BY DEF Allowed
  <2> QED BY <2>2, <2>3
<1> QED BY <1>1, <1>2, InitTypes, NextTypes, NextStarted, NextTries, NextBounded, PTL DEF Spec

-----------------------------------------------------------------------------
(* States are removed after use.                                           *)

\* A worker is registered at the nodes of its path below the root, and so is one
\* that has traversed a test.
Registered ==
  /\ \A w \in Worker : \A i \in 2..Len(path[w]) : w \in involved[path[w][i]]
  /\ \A t \in Test : finished[t] \subseteq involved[t]

\* A node that joins a path registers the worker.
LEMMA RegisteredPush ==
  ASSUME TypeInv, Registered, NEW w \in Worker, NEW n \in Node, Push(w, n), Register(w, n),
         finished' = finished
  PROVE  Registered'
<1>1. /\ Len(path'[w]) = Len(path[w]) + 1
      /\ \A i \in 1..Len(path[w]) : path'[w][i] = path[w][i]
      /\ path'[w][Len(path[w]) + 1] = n
  BY PushFacts DEF TypeInv
<1>2. \A v \in Worker \ {w} : path'[v] = path[v]
  BY PushStep DEF TypeInv
<1>3. /\ \A m \in Node : involved[m] \subseteq involved'[m]
      /\ w \in involved'[n]
  BY DEF Register, TypeInv, TypeOK
<1>4. \A v \in Worker : path[v] \in Seq(Node) /\ Len(path[v]) \in Nat
  BY HereType DEF TypeInv
<1>5. \A v \in Worker : \A i \in 1..Len(path[v]) : path[v][i] \in Node
  BY <1>4
<1>6. ASSUME NEW v \in Worker, NEW i \in 2..Len(path'[v]) PROVE v \in involved'[path'[v][i]]
  <2>1. CASE v = w /\ i = Len(path[w]) + 1
    BY <1>1, <1>3, <2>1
  <2>2. CASE ~(v = w /\ i = Len(path[w]) + 1)
    <3>1. i \in 2..Len(path[v]) /\ i \in 1..Len(path[v]) /\ path'[v][i] = path[v][i]
      BY <1>1, <1>2, <1>4, <1>6, <2>2
    <3>2. v \in involved[path[v][i]] /\ path[v][i] \in Node
      BY <1>5, <3>1 DEF Registered
    <3> QED BY <1>3, <3>1, <3>2
  <2> QED BY <2>1, <2>2
<1>7. \A t \in Test : finished'[t] \subseteq involved'[t]
  BY <1>3 DEF Registered, Node
<1> QED BY <1>6, <1>7 DEF Registered

\* Every step keeps the register.
LEMMA NextRegistered == TypeInv /\ Registered /\ [Next]_vars => Registered'
<1> SUFFICES ASSUME TypeInv, Registered, [Next]_vars PROVE Registered'
  OBVIOUS
<1>0. /\ path \in [Worker -> Seq(Node)] /\ finished \in [Test -> SUBSET Worker]
      /\ \A v \in Worker : path[v] \in Seq(Node) /\ Len(path[v]) \in Nat /\ Here(v) \in Node
  BY HereType DEF TypeInv, TypeOK
<1>1. CASE UNCHANGED <<path, involved, finished>>
  BY <1>1 DEF Registered
<1>2. ASSUME NEW w \in Worker, PickFromRoot(w) \/ ClimbToParent(w) \/ DescendToChild(w)
      PROVE  Registered'
  <2>1. PICK m \in Node : \E c : (c \in OpenCleanup(m, w) \/ c \in OpenSetup(m, w)) /\ Push(w, c) /\ Register(w, c)
    <3>1. Root \in Node
      BY DEF Node
    <3> QED BY <1>0, <1>2, <3>1 DEF PickFromRoot, ClimbToParent, DescendToChild, First
  <2>2. PICK c : (c \in OpenCleanup(m, w) \/ c \in OpenSetup(m, w)) /\ Push(w, c) /\ Register(w, c)
    BY <2>1
  <2>3. c \in Node
    BY <2>2, NeighbourType DEF OpenCleanup, OpenSetup, TypeInv
  <2>4. finished' = finished
    BY <1>2 DEF PickFromRoot, ClimbToParent, DescendToChild, nodeVars
  <2> QED BY <2>2, <2>3, <2>4, RegisteredPush
<1>3. ASSUME NEW w \in Worker, ReturnToChild(w) \/ StepBack(w) \/ Reverse(w) PROVE Registered'
  <2>1. Len(path[w]) >= 2 /\ Pop(w) /\ UNCHANGED <<involved, finished>>
    BY <1>3, AfterFacts DEF ReturnToChild, StepBack, Reverse, edgeVars, nodeVars
  <2>2. /\ Len(path'[w]) = Len(path[w]) - 1
        /\ \A i \in 1..Len(path[w]) - 1 : path'[w][i] = path[w][i]
        /\ \A v \in Worker \ {w} : path'[v] = path[v]
    BY <2>1, PopFacts, PopStep DEF TypeInv
  <2>3. ASSUME NEW v \in Worker, NEW i \in 2..Len(path'[v])
        PROVE  i \in 2..Len(path[v]) /\ path'[v][i] = path[v][i]
    <3>1. CASE v = w
      BY <1>0, <2>2, <2>3, <3>1
    <3>2. CASE v # w
      BY <2>2, <2>3, <3>2
    <3> QED BY <3>1, <3>2
  <2> QED BY <2>1, <2>3 DEF Registered
<1>4. ASSUME NEW w \in Worker, Bounce(w) \/ Postpone(w) PROVE Registered'
  <2>1. BackToRoot(w) /\ UNCHANGED <<involved, finished>>
    BY <1>4 DEF Bounce, Postpone, edgeVars
  <2>2. Len(path'[w]) = 1 /\ \A v \in Worker \ {w} : path'[v] = path[v]
    BY <2>1, BackStep DEF TypeInv
  <2>3. ASSUME NEW v \in Worker, NEW i \in 2..Len(path'[v])
        PROVE  i \in 2..Len(path[v]) /\ path'[v][i] = path[v][i]
    BY <2>2, <2>3
  <2> QED BY <2>1, <2>3 DEF Registered
<1>5. ASSUME NEW w \in Worker, SkipTest(w) \/ PreparationFails(w) \/ TestDone(w) \/ ResultLost(w)
      PROVE  Registered'
  <2>1. Here(w) \in Test /\ Len(path[w]) >= 2
    BY <1>5, AtNodeFacts, AwaitFacts
       DEF SkipTest, Traverses, Enters, PreparationFails, TestDone, ResultLost
  <2>2. /\ UNCHANGED <<path, involved>>
        /\ finished' = [finished EXCEPT ![Here(w)] = @ \union {w}]
    BY <1>5 DEF SkipTest, PreparationFails, TestDone, ResultLost, Leave, edgeVars, walkVars
  <2>3. w \in involved[Here(w)]
    <3>1. Len(path[w]) \in 2..Len(path[w])
      BY <1>0, <2>1
    <3> QED BY <3>1 DEF Registered, Here
  <2> QED BY <1>0, <2>1, <2>2, <2>3 DEF Registered
<1>6. ASSUME NEW w \in Worker,
             \/ Resume(w) \/ Finish(w) \/ Unroll(w) \/ PassFlat(w) \/ StartTest(w) \/ ScanError(w)
             \/ PreparationPasses(w)
      PROVE  Registered'
  BY <1>1, <1>6 DEF Resume, Finish, Unroll, PassFlat, StartTest, ScanError, PreparationPasses,
     edgeVars, nodeVars, walkVars
<1>7. CASE UNCHANGED vars \/ EndJob \/ TimeoutJob \/ Over
  BY <1>1, <1>7 DEF vars, EndJob, TimeoutJob, Over, Verdict, edgeVars, nodeVars, walkVars
<1> QED BY <1>2, <1>3, <1>4, <1>5, <1>6, <1>7 DEF Next, Walk, Await

\* A test that is being run has a result without a status.
PendingInv == \A w \in Worker : pc[w] = "run" => \E r \in results[Here(w)] : IsPending(r, w)

\* The results of a test change in two ways: old ones of a replayed job join them,
\* perhaps with one for a try that starts, or a try gets its status.
LEMMA ResultsStep ==
  ASSUME TypeInv, [Next]_vars, NEW t \in Test
  PROVE  \/ \E B \in SUBSET Result :
              /\ results[t] \subseteq B /\ IsFiniteSet(B) /\ \A r \in B : ~r.old => r \in results[t]
              /\ \/ results'[t] = B
                 \/ \E w \in Worker : results'[t] = B \union {Pending(w, B)}
         \/ \E w \in Worker, q \in results[t], s \in {"PASS", "WARN", "FAIL"} :
              /\ Here(w) = t /\ pc'[w] = "after" /\ IsPending(q, w)
              /\ results'[t] = (results[t] \ {q}) \union {[q EXCEPT !.status = s]}
<1> DEFINE Joined(B) == /\ results[t] \subseteq B /\ IsFiniteSet(B)
                        /\ \A r \in B : ~r.old => r \in results[t]
<1>0. results \in [Test -> SUBSET Result]
  BY DEF TypeInv, TypeOK
<1>1. results[t] \in SUBSET Result /\ Joined(results[t])
  BY <1>0 DEF TypeInv, FiniteResults
<1>2. ASSUME NEW w \in Worker PROVE Begun(t, w) \in SUBSET Result /\ Joined(Begun(t, w))
  BY ResultType, BegunTries DEF TypeInv
<1>3. CASE results'[t] = results[t]
  BY <1>1, <1>3
<1>4. ASSUME NEW w \in Worker, SkipTest(w) \/ StartTest(w), results'[t] # results[t]
      PROVE  \E B \in SUBSET Result :
               Joined(B) /\ (results'[t] = B \/ results'[t] = B \union {Pending(w, B)})
  <2>1. PICK n \in Test : n = Here(w)
    BY <1>4, ResultFacts
  <2>2. \/ results' = [results EXCEPT ![n] = Begun(n, w)]
        \/ results' = [results EXCEPT ![n] = Begun(n, w) \union {Pending(w, Begun(n, w))}]
    BY <1>4, <2>1, ResultFacts
  <2>3. n = t
    BY <1>0, <1>4, <2>2
  <2>4. results'[t] = Begun(t, w) \/ results'[t] = Begun(t, w) \union {Pending(w, Begun(t, w))}
    BY <1>0, <2>2, <2>3
  <2> QED BY <1>2, <2>4
<1>5. ASSUME NEW w \in Worker, PreparationPasses(w), results'[t] # results[t]
      PROVE  results'[t] = results[t] \union {Pending(w, results[t])}
  BY <1>0, <1>5, ResultFacts
<1>6. ASSUME NEW w \in Worker, TestDone(w), results'[t] # results[t]
      PROVE  \E q \in results[t], s \in {"PASS", "WARN", "FAIL"} :
               /\ Here(w) = t /\ pc'[w] = "after" /\ IsPending(q, w)
               /\ results'[t] = (results[t] \ {q}) \union {[q EXCEPT !.status = s]}
  <2>1. PICK n \in Test : n = Here(w)
    BY <1>6, ResultFacts
  <2>2. PICK q \in results[n], s \in {"PASS", "WARN", "FAIL"} :
          /\ IsPending(q, w)
          /\ results' = [results EXCEPT ![n] = (@ \ {q}) \union {[q EXCEPT !.status = s]}]
    BY <1>6, <2>1, ResultFacts
  <2>3. n = t
    BY <1>0, <1>6, <2>2
  <2>4. results'[t] = (results[t] \ {q}) \union {[q EXCEPT !.status = s]}
    BY <1>0, <2>2, <2>3
  <2>5. pc'[w] = "after"
    BY <1>6 DEF TestDone, Leave, TypeInv, TypeOK
  <2> QED BY <2>1, <2>2, <2>3, <2>4, <2>5
<1>7. ASSUME NEW w \in Worker, PreparationPasses(w), results'[t] # results[t]
      PROVE  \E B \in SUBSET Result : Joined(B) /\ results'[t] = B \union {Pending(w, B)}
  BY <1>1, <1>5, <1>7
<1> QED BY <1>3, <1>4, <1>6, <1>7, ResultsChange

\* The new results of a test are numbered.
Numbered ==
  \A t \in Test :
    /\ \A r \in results[t] : ~r.old => r.no < Cardinality(results[t])
    /\ \A q, r \in results[t] : ~q.old /\ ~r.old /\ q.no = r.no => q = r

\* A status in the place of UNKNOWN makes no two results one.
LEMMA StatusKeeps ==
  ASSUME NEW R \in SUBSET Result, IsFiniteSet(R), NEW T \in SUBSET R, NEW q \in T,
         NEW s \in {"PASS", "WARN", "FAIL"}, q.status = "UNKNOWN", ~q.old,
         \A r \in R : ~r.old /\ r.no = q.no => r = q,
         NEW r, r = [q EXCEPT !.status = s]
  PROVE  /\ r \in Result /\ r.no = q.no /\ r.name = q.name /\ ~r.old /\ r.status = s
         /\ r \notin R
         /\ Cardinality((T \ {q}) \union {r}) = Cardinality(T)
<1>1. r \in Result /\ r.no = q.no /\ r.name = q.name /\ ~r.old /\ r.status = s
  BY DEF Result, Status
<1>2. r \notin R
  BY <1>1
<1>3. IsFiniteSet(T) /\ Cardinality(T) \in Nat
  BY TriesFinite
<1>4. IsFiniteSet(T \ {q}) /\ Cardinality(T \ {q}) = Cardinality(T) - 1
  BY <1>3, FS_RemoveElement
<1>5. r \notin T \ {q}
  BY <1>2
<1>6. Cardinality((T \ {q}) \union {r}) = Cardinality(T \ {q}) + 1
  BY <1>4, <1>5, FS_AddElement
<1>7. Cardinality((T \ {q}) \union {r}) = Cardinality(T)
  BY <1>3, <1>4, <1>6
<1> QED BY <1>1, <1>2, <1>7

\* A try gets the next number.
LEMMA NextNumbered == TypeInv /\ Numbered /\ [Next]_vars => Numbered'
<1> SUFFICES ASSUME TypeInv, Numbered, [Next]_vars, NEW t \in Test
             PROVE  /\ \A r \in results'[t] : ~r.old => r.no < Cardinality(results'[t])
                    /\ \A q, r \in results'[t] : ~q.old /\ ~r.old /\ q.no = r.no => q = r
  BY DEF Numbered
<1>1. results[t] \in SUBSET Result /\ IsFiniteSet(results[t]) /\ Cardinality(results[t]) \in Nat
  BY FS_CardinalityType DEF TypeInv, TypeOK, FiniteResults
<1>2. /\ \A r \in results[t] : ~r.old => r.no < Cardinality(results[t])
      /\ \A q, r \in results[t] : ~q.old /\ ~r.old /\ q.no = r.no => q = r
  BY DEF Numbered
<1>3. \A r \in results[t] : r.no \in Nat
  BY <1>1 DEF Result
<1>4. ASSUME NEW B \in SUBSET Result, results[t] \subseteq B, IsFiniteSet(B),
             \A r \in B : ~r.old => r \in results[t]
      PROVE  /\ Cardinality(B) \in Nat
             /\ \A r \in B : ~r.old => r.no \in Nat /\ r.no < Cardinality(B)
             /\ \A q, r \in B : ~q.old /\ ~r.old /\ q.no = r.no => q = r
  <2>1. Cardinality(B) \in Nat /\ Cardinality(results[t]) <= Cardinality(B)
    BY <1>4, FS_CardinalityType, FS_Subset
  <2> QED BY <1>1, <1>2, <1>3, <1>4, <2>1
<1>5. ASSUME NEW B \in SUBSET Result, results[t] \subseteq B, IsFiniteSet(B),
             \A r \in B : ~r.old => r \in results[t],
             NEW w \in Worker, results'[t] = B \union {Pending(w, B)}
      PROVE  /\ \A r \in results'[t] : ~r.old => r.no < Cardinality(results'[t])
             /\ \A q, r \in results'[t] : ~q.old /\ ~r.old /\ q.no = r.no => q = r
  <2> DEFINE x == Pending(w, B)
  <2>1. x.no = Cardinality(B) /\ ~x.old
    BY DEF Pending
  <2> HIDE DEF x
  <2>2. /\ Cardinality(B) \in Nat
        /\ \A r \in B : ~r.old => r.no \in Nat /\ r.no < Cardinality(B)
        /\ \A q, r \in B : ~q.old /\ ~r.old /\ q.no = r.no => q = r
    BY <1>4, <1>5
  <2>3. x \notin B
    BY <2>1, <2>2
  <2>4. results'[t] = B \union {x} /\ Cardinality(results'[t]) = Cardinality(B) + 1
    <3>1. results'[t] = B \union {x}
      BY <1>5 DEF x
    <3>2. Cardinality(B \union {x}) = Cardinality(B) + 1
      BY <1>5, <2>3, FS_AddElement
    <3> QED BY <3>1, <3>2
  <2>5. \A r \in B \union {x} : ~r.old => r.no < Cardinality(B) + 1
    BY <2>1, <2>2
  <2>6. \A r \in B : ~r.old => r.no # x.no
    BY <2>1, <2>2
  <2> QED BY <2>2, <2>4, <2>5, <2>6
<1>6. ASSUME NEW w \in Worker, NEW q \in results[t], NEW s \in {"PASS", "WARN", "FAIL"},
             IsPending(q, w), results'[t] = (results[t] \ {q}) \union {[q EXCEPT !.status = s]}
      PROVE  /\ \A r \in results'[t] : ~r.old => r.no < Cardinality(results'[t])
             /\ \A p, r \in results'[t] : ~p.old /\ ~r.old /\ p.no = r.no => p = r
  <2> DEFINE x == [q EXCEPT !.status = s]
  <2>1. ~q.old /\ q.status = "UNKNOWN"
    BY <1>6 DEF IsPending
  <2>2. \A r \in results[t] : ~r.old /\ r.no = q.no => r = q
    BY <1>2, <2>1
  <2>3. x.no = q.no /\ Cardinality(results'[t]) = Cardinality(results[t])
    <3>1. /\ x.no = q.no
          /\ Cardinality((results[t] \ {q}) \union {x}) = Cardinality(results[t])
      <4>1. results[t] \in SUBSET results[t]
        OBVIOUS
      <4>2. PICK r : r = x
        OBVIOUS
      <4> QED BY <1>1, <2>1, <2>2, <4>1, <4>2, StatusKeeps
    <3> QED BY <1>6, <3>1
  <2> HIDE DEF x
  <2>4. results'[t] = (results[t] \ {q}) \union {x}
    BY <1>6 DEF x
  <2> QED BY <1>2, <2>1, <2>2, <2>3, <2>4
<1> QED BY <1>4, <1>5, <1>6, ResultsStep

\* The results that should_rerun counts.
Seen(t, w) == IF t \in Stateful THEN InReach(t, w, results[t]) ELSE results[t]

\* They never become fewer, and a status stays.
LEMMA SeenStep ==
  ASSUME TypeInv, TypeInv', Numbered, [Next]_vars, NEW t \in Test, NEW w \in Worker
  PROVE  /\ Cardinality(Seen(t, w)) \in Nat /\ Cardinality(Seen(t, w)') \in Nat
         /\ Cardinality(Seen(t, w)) <= Cardinality(Seen(t, w)')
         /\ \A r \in Seen(t, w) : r.status # "UNKNOWN" => r \in Seen(t, w)'
         /\ results[t] # {} => results'[t] # {}
<1>1. /\ results[t] \in SUBSET Result /\ IsFiniteSet(results[t])
      /\ IsFiniteSet(results'[t])
  BY DEF TypeInv, TypeOK, FiniteResults
<1>2. Seen(t, w) \subseteq results[t] /\ Seen(t, w)' \subseteq results'[t]
  BY DEF Seen, InReach
<1>3. /\ IsFiniteSet(Seen(t, w)) /\ IsFiniteSet(Seen(t, w)')
      /\ Cardinality(Seen(t, w)) \in Nat /\ Cardinality(Seen(t, w)') \in Nat
  BY <1>1, <1>2, TriesFinite
<1>4. CASE results[t] \subseteq results'[t]
  <2>1. Seen(t, w) \subseteq Seen(t, w)'
    BY <1>4 DEF Seen, InReach
  <2>2. Cardinality(Seen(t, w)) <= Cardinality(Seen(t, w)')
    BY <1>3, <2>1, FS_Subset
  <2> QED BY <1>3, <1>4, <2>1, <2>2
<1>5. ASSUME NEW v \in Worker, NEW q \in results[t], NEW s \in {"PASS", "WARN", "FAIL"},
             IsPending(q, v), NEW x, x = [q EXCEPT !.status = s],
             results'[t] = (results[t] \ {q}) \union {x}
      PROVE  /\ Cardinality(Seen(t, w)) <= Cardinality(Seen(t, w)')
             /\ \A r \in Seen(t, w) : r.status # "UNKNOWN" => r \in Seen(t, w)'
             /\ results'[t] # {}
  <2>1. /\ ~q.old /\ q.status = "UNKNOWN"
        /\ \A r \in results[t] : ~r.old /\ r.no = q.no => r = q
    BY <1>5 DEF IsPending, Numbered
  <2>2. x.name = q.name
    BY <1>1, <1>5 DEF Result
  <2>3. CASE q \in Seen(t, w)
    <3>1. Seen(t, w)' = (Seen(t, w) \ {q}) \union {x}
      BY <1>5, <2>2, <2>3 DEF Seen, InReach
    <3>2. Cardinality((Seen(t, w) \ {q}) \union {x}) = Cardinality(Seen(t, w))
      BY <1>1, <1>2, <1>5, <2>1, <2>3, StatusKeeps
    <3> QED BY <1>3, <1>5, <2>1, <3>1, <3>2
  <2>4. CASE q \notin Seen(t, w)
    <3>1. Seen(t, w)' = Seen(t, w)
      BY <1>5, <2>2, <2>4 DEF Seen, InReach
    <3> QED BY <1>3, <1>5, <3>1
  <2> QED BY <2>3, <2>4
<1>6. CASE \E v \in Worker, q \in results[t], s \in {"PASS", "WARN", "FAIL"} :
             /\ IsPending(q, v)
             /\ results'[t] = (results[t] \ {q}) \union {[q EXCEPT !.status = s]}
  <2>1. PICK v \in Worker, q \in results[t], s \in {"PASS", "WARN", "FAIL"} :
          /\ IsPending(q, v)
          /\ results'[t] = (results[t] \ {q}) \union {[q EXCEPT !.status = s]}
    BY <1>6
  <2>2. PICK x : x = [q EXCEPT !.status = s]
    OBVIOUS
  <2> QED BY <1>3, <1>5, <2>1, <2>2
<1>7. CASE \E B \in SUBSET Result : results[t] \subseteq B /\ B \subseteq results'[t]
  BY <1>4, <1>7
<1> QED BY <1>6, <1>7, ResultsStep

\* Nobody forgets having traversed a test, or that it is not to be rerun.
LEMMA RecordsGrow ==
  ASSUME TypeInv, [Next]_vars
  PROVE  noRerun \subseteq noRerun' /\ \A t \in Test : finished[t] \subseteq finished'[t]
<1>0. finished \in [Test -> SUBSET Worker]
  BY DEF TypeInv, TypeOK
<1>1. CASE UNCHANGED <<noRerun, finished>>
  BY <1>1
<1>2. CASE UNCHANGED vars \/ EndJob \/ TimeoutJob \/ Over
  BY <1>2 DEF vars, EndJob, TimeoutJob, Over, Verdict, nodeVars
<1>3. ASSUME NEW w \in Worker, SkipTest(w)
      PROVE  noRerun \subseteq noRerun' /\ \A t \in Test : finished[t] \subseteq finished'[t]
  BY <1>0, <1>3 DEF SkipTest, SwitchReruns
<1>4. ASSUME NEW w \in Worker, PreparationFails(w) \/ TestDone(w) \/ ResultLost(w)
      PROVE  noRerun \subseteq noRerun' /\ \A t \in Test : finished[t] \subseteq finished'[t]
  BY <1>0, <1>4 DEF PreparationFails, TestDone, ResultLost, Leave
<1>5. ASSUME NEW w \in Worker, ReturnToChild(w) \/ Postpone(w) \/ Reverse(w) \/ DescendToChild(w)
      PROVE  noRerun \subseteq noRerun' /\ finished' = finished
  BY <1>5 DEF ReturnToChild, Postpone, Reverse, DescendToChild, SwitchRerunsHere, SwitchReruns
<1>6. ASSUME NEW w \in Worker,
             \/ Resume(w) \/ Finish(w) \/ PickFromRoot(w) \/ Unroll(w) \/ Bounce(w) \/ ClimbToParent(w)
             \/ PassFlat(w) \/ StartTest(w) \/ ScanError(w) \/ StepBack(w) \/ PreparationPasses(w)
      PROVE  UNCHANGED <<noRerun, finished>>
  BY <1>6 DEF Resume, Finish, PickFromRoot, Unroll, Bounce, ClimbToParent, PassFlat, StartTest,
     ScanError, StepBack, PreparationPasses, nodeVars
<1> QED BY <1>1, <1>2, <1>3, <1>4, <1>5, <1>6 DEF Next, Walk, Await

\* A worker will not run a test again: it is skipped, or the worker has traversed
\* it, and a status or the number of tries rules out more of them.
Settled(t, w) ==
  \/ t \in Skipped
  \/ /\ w \in finished[t]
     /\ t \in Stateful \/ results[t] # {}
     /\ \/ <<t, w>> \in noRerun
        \/ MaxTries[t] <= 1
        \/ MaxTries[t] <= Cardinality(Seen(t, w))
        \/ \E r \in Seen(t, w) : r.status \notin (RerunStatus[t] \ StopStatus[t]) \union {"UNKNOWN"}

\* It stays so.
LEMMA SettledStays ==
  ASSUME TypeInv, TypeInv', Numbered, [Next]_vars, NEW t \in Test, NEW w \in Worker, Settled(t, w)
  PROVE  Settled(t, w)'
<1>1. noRerun \subseteq noRerun' /\ finished[t] \subseteq finished'[t]
  BY RecordsGrow
<1>2. /\ Cardinality(Seen(t, w)) \in Nat /\ Cardinality(Seen(t, w)') \in Nat
      /\ Cardinality(Seen(t, w)) <= Cardinality(Seen(t, w)')
      /\ \A r \in Seen(t, w) : r.status # "UNKNOWN" => r \in Seen(t, w)'
      /\ results[t] # {} => results'[t] # {}
  BY SeenStep
<1>3. MaxTries[t] \in Nat
  BY PolicyAssumption
<1>4. MaxTries[t] <= Cardinality(Seen(t, w)) => MaxTries[t] <= Cardinality(Seen(t, w)')
  BY <1>2, <1>3
<1> QED BY <1>1, <1>2, <1>4 DEF Settled

\* A worker that drops a steady test is settled with it.
LEMMA ReverseSettles ==
  ASSUME TypeInv, SetupInv, NEW w \in Worker, Reverse(w), NEW t \in Test, t = Here(w), Steady(t)
  PROVE  Settled(t, w)'
<1>1. /\ ~ShouldRun(t, w, results[t], results[t]) /\ SwitchReruns(t, w, results[t])
      /\ finished' = finished /\ results' = results
  BY DEF Reverse, RunsAgain, SwitchRerunsHere
<1>2. w \in finished'[t]
  BY <1>1 DEF Reverse, HasLoop, SetupInv, Left
<1>3. Seen(t, w)' = Seen(t, w)
  BY <1>1 DEF Seen
<1>4. MaxTries[t] \in Nat /\ Cardinality(Seen(t, w)) \in Nat
  <2>1. Seen(t, w) \in SUBSET results[t] /\ IsFiniteSet(results[t])
    BY DEF Seen, InReach, TypeInv, FiniteResults
  <2> QED BY <2>1, TriesFinite, PolicyAssumption
<1>5. ASSUME t \notin Skipped PROVE t \in Stateful \/ results[t] # {}
  BY <1>1, <1>5 DEF ShouldRun
<1>6. ASSUME t \notin Skipped, StopsReruns(t, w, results[t]) PROVE <<t, w>> \in noRerun'
  BY <1>1, <1>6 DEF SwitchReruns
<1>7. ASSUME t \notin Skipped, ~StopsReruns(t, w, results[t])
      PROVE  \/ <<t, w>> \in noRerun'
             \/ MaxTries[t] <= 1
             \/ MaxTries[t] <= Cardinality(Seen(t, w))
             \/ \E r \in Seen(t, w) :
                  r.status \notin (RerunStatus[t] \ StopStatus[t]) \union {"UNKNOWN"}
  <2>1. ~ShouldRerun(t, w, results[t])
    BY <1>1, <1>7 DEF ShouldRun
  <2>2. noRerun \subseteq noRerun'
    BY <1>1 DEF SwitchReruns
  <2>3. \/ <<t, w>> \in noRerun
        \/ \E r \in Seen(t, w) : r.status \notin RerunStatus[t] \ StopStatus[t]
        \/ MaxTries[t] = 1
        \/ ~(MaxTries[t] > Cardinality(Seen(t, w)))
    BY <2>1 DEF ShouldRerun, Seen
  <2> QED BY <1>4, <2>2, <2>3 DEF Steady
<1> QED BY <1>1, <1>2, <1>3, <1>5, <1>6, <1>7 DEF Settled

\* It does not start a test that it is settled with.
LEMMA SettledNotStarted ==
  ASSUME TypeInv, NEW w \in Worker, StartTest(w), NEW t \in Test, t = Here(w)
  PROVE  ~Settled(t, w)
<1> SUFFICES ASSUME Settled(t, w) PROVE FALSE
  OBVIOUS
<1> DEFINE B == Begun(t, w)
           tries == IF t \in Stateful THEN InReach(t, w, B) ELSE B
<1>1. ShouldRun(t, w, B, InReach(t, w, B))
  BY DEF StartTest
<1>2. results[t] \subseteq B /\ IsFiniteSet(B)
  BY ResultType, BegunTries DEF TypeInv
<1>3. Seen(t, w) \subseteq tries /\ tries \subseteq B
  BY <1>2 DEF Seen, InReach
<1>5. ~RunFromScan(t, w)
  <2>1. w \in Reach(t, w)
    BY PolicyAssumption DEF Reach
  <2> QED BY <1>1, <2>1 DEF RunFromScan, IsFinished, ShouldRun, Settled
<1>6. ShouldRerun(t, w, B)
  BY <1>1, <1>2, <1>5 DEF ShouldRun, Settled
<1>7. /\ <<t, w>> \notin noRerun
      /\ \A r \in tries : r.status \in RerunStatus[t] \ StopStatus[t]
      /\ MaxTries[t] # 1
      /\ MaxTries[t] > Cardinality(tries)
  BY <1>6 DEF ShouldRerun
<1> HIDE DEF tries, B
<1>8. /\ Cardinality(tries) \in Nat /\ Cardinality(Seen(t, w)) \in Nat
      /\ Cardinality(Seen(t, w)) <= Cardinality(tries)
  <2>1. IsFiniteSet(tries) /\ Cardinality(tries) \in Nat
    BY <1>2, <1>3, TriesFinite
  <2> QED BY <1>3, <2>1, FS_Subset, TriesFinite
<1>9. MaxTries[t] \in Nat /\ ~(MaxTries[t] <= 1) /\ ~(MaxTries[t] <= Cardinality(Seen(t, w)))
  BY <1>7, <1>8, PolicyAssumption
<1>10. t \notin Skipped
  BY <1>1 DEF ShouldRun
<1> QED BY <1>3, <1>7, <1>9, <1>10 DEF Settled

\* A worker that runs a test has just started it, has prepared it, or goes on.
LEMMA RunningStep ==
  ASSUME TypeInv, [Next]_vars, NEW v \in Worker, Running(v)'
  PROVE  \/ StartTest(v) \/ PreparationPasses(v)
         \/ Running(v) /\ pc'[v] = pc[v] /\ path'[v] = path[v]
<1>0. /\ pc \in [Worker -> {"ready", "loop", "pre", "run", "after", "sleep", "done"}]
      /\ path \in [Worker -> Seq(Node)]
  BY DEF TypeInv, TypeOK
<1>1. CASE UNCHANGED <<pc, path>>
  BY <1>1 DEF Running
<1>2. CASE UNCHANGED vars \/ EndJob \/ TimeoutJob \/ Over
  BY <1>1, <1>2 DEF vars, EndJob, TimeoutJob, Over, Verdict, walkVars
<1>3. ASSUME NEW w \in Worker, pc' = pc, pc[w] = "loop",
             \A u \in Worker \ {w} : path'[u] = path[u]
      PROVE  Running(v) /\ pc'[v] = pc[v] /\ path'[v] = path[v]
  BY <1>3 DEF Running
<1>4. ASSUME NEW w \in Worker, NEW at \in {"loop", "after", "sleep", "done"},
             pc' = [pc EXCEPT ![w] = at], \A u \in Worker \ {w} : path'[u] = path[u]
      PROVE  Running(v) /\ pc'[v] = pc[v] /\ path'[v] = path[v]
  BY <1>0, <1>4 DEF Running
<1>5. ASSUME NEW w \in Worker, Resume(w) \/ Walk(w) \/ Await(w)
      PROVE  \A u \in Worker \ {w} : path'[u] = path[u]
  <2>1. \/ path' = path \/ Pop(w) \/ BackToRoot(w) \/ \E n : Push(w, n)
    BY <1>5 DEF Resume, Walk, Await, Finish, PickFromRoot, Unroll, Bounce, ClimbToParent, PassFlat,
       SkipTest, StartTest, ScanError, ReturnToChild, StepBack, Postpone, Reverse, DescendToChild,
       PreparationFails, PreparationPasses, TestDone, ResultLost, walkVars
  <2> QED BY <1>0, <2>1 DEF Pop, BackToRoot, Push
<1>6. ASSUME NEW w \in Worker, PickFromRoot(w) \/ Unroll(w) \/ ClimbToParent(w) \/ ScanError(w)
      PROVE  pc' = pc /\ pc[w] = "loop"
  BY <1>6 DEF PickFromRoot, Unroll, ClimbToParent, ScanError, Traverses, Enters, AtNode, HasLoop
<1>7. ASSUME NEW w \in Worker,
             \/ Resume(w) \/ Finish(w) \/ Bounce(w) \/ PassFlat(w) \/ SkipTest(w) \/ ReturnToChild(w)
             \/ StepBack(w) \/ Postpone(w) \/ Reverse(w) \/ DescendToChild(w)
             \/ PreparationFails(w) \/ TestDone(w) \/ ResultLost(w)
      PROVE  \E at \in {"loop", "after", "sleep", "done"} : pc' = [pc EXCEPT ![w] = at]
  BY <1>7 DEF Resume, Finish, Bounce, PassFlat, SkipTest, ReturnToChild, StepBack, Postpone, Reverse,
     DescendToChild, PreparationFails, TestDone, ResultLost, Leave, Yield, Goto
<1>8. ASSUME NEW w \in Worker, StartTest(w) \/ PreparationPasses(w), w # v
      PROVE  Running(v) /\ pc'[v] = pc[v] /\ path'[v] = path[v]
  <2>1. pc'[v] = pc[v]
    BY <1>0, <1>8 DEF StartTest, PreparationPasses, Yield
  <2> QED BY <1>5, <1>8, <2>1 DEF Running, Walk, Await
<1>9. ASSUME NEW w \in Worker, Resume(w) \/ Walk(w) \/ Await(w)
      PROVE  \/ StartTest(v) \/ PreparationPasses(v)
             \/ Running(v) /\ pc'[v] = pc[v] /\ path'[v] = path[v]
  <2>1. CASE PickFromRoot(w) \/ Unroll(w) \/ ClimbToParent(w) \/ ScanError(w)
    BY <1>3, <1>5, <1>6, <1>9, <2>1
  <2>2. CASE \/ Resume(w) \/ Finish(w) \/ Bounce(w) \/ PassFlat(w) \/ SkipTest(w) \/ ReturnToChild(w)
             \/ StepBack(w) \/ Postpone(w) \/ Reverse(w) \/ DescendToChild(w)
             \/ PreparationFails(w) \/ TestDone(w) \/ ResultLost(w)
    BY <1>4, <1>5, <1>7, <1>9, <2>2
  <2>3. CASE StartTest(w) \/ PreparationPasses(w)
    BY <1>8, <2>3
  <2> QED BY <1>9, <2>1, <2>2, <2>3 DEF Walk, Await
<1> QED BY <1>2, <1>9 DEF Next

\* A test has its result without a status until it is over.
LEMMA NextPending == TypeInv /\ PendingInv /\ [Next]_vars => PendingInv'
<1> SUFFICES ASSUME TypeInv, PendingInv, [Next]_vars, NEW v \in Worker, pc'[v] = "run"
             PROVE  \E r \in results'[Here(v)'] : IsPending(r, v)
  BY DEF PendingInv
<1>0. results \in [Test -> SUBSET Result]
  BY DEF TypeInv, TypeOK
<1>1. ASSUME NEW res PROVE IsPending(Pending(v, res), v)
  BY DEF IsPending, Pending
<1>2. CASE StartTest(v)
  <2>1. Here(v) \in Test /\ Here(v)' = Here(v) /\ Here(v) \notin ObjectRoot
    BY <1>2 DEF StartTest, Here, Yield, TypeInv, TypeOK
  <2>2. Pending(v, Begun(Here(v), v)) \in results'[Here(v)]
    BY <1>0, <1>2, <2>1, ResultFacts
  <2> QED BY <1>1, <2>1, <2>2
<1>3. CASE PreparationPasses(v)
  <2>1. Here(v) \in Test /\ Here(v)' = Here(v)
    BY <1>3, AwaitFacts DEF PreparationPasses, Here, walkVars
  <2>2. Pending(v, results[Here(v)]) \in results'[Here(v)]
    BY <1>0, <1>3, <2>1, ResultFacts
  <2> QED BY <1>1, <2>1, <2>2
<1>4. CASE Running(v) /\ pc'[v] = pc[v] /\ path'[v] = path[v]
  <2>1. Here(v)' = Here(v) /\ Here(v) \in Test /\ pc[v] = "run"
    BY <1>4 DEF Here, TypeInv, Shape
  <2>2. PICK r \in results[Here(v)] : IsPending(r, v)
    BY <2>1 DEF PendingInv
  <2>3. ASSUME NEW w \in Worker, NEW q, pc'[w] = "after", IsPending(q, w) PROVE r # q
    BY <2>2, <2>3 DEF IsPending
  <2>4. r \in results'[Here(v)]
    BY <2>1, <2>2, <2>3, ResultsStep
  <2> QED BY <2>1, <2>2, <2>4
<1>5. Running(v)'
  BY DEF Running
<1> QED BY <1>2, <1>3, <1>4, <1>5, RunningStep

\* Only the worker itself drops a child, and in the end of its visit.
LEMMA DropStep ==
  ASSUME TypeInv, [Next]_vars, NEW m \in Node, NEW t \in Test, NEW v \in Worker,
         <<t, v>> \in droppedCleanup'[m], <<t, v>> \notin droppedCleanup[m]
  PROVE  Reverse(v) /\ t = Here(v)
<1>1. CASE UNCHANGED vars \/ EndJob \/ TimeoutJob \/ Over
  BY <1>1 DEF vars, EndJob, TimeoutJob, Over, Verdict, edgeVars
<1>2. ASSUME NEW w \in Worker, Resume(w) \/ Walk(w) \/ Await(w), ~Reverse(w)
      PROVE  droppedCleanup' = droppedCleanup
  BY <1>2 DEF Resume, Walk, Await, Finish, PickFromRoot, Unroll, Bounce, ClimbToParent, PassFlat,
     SkipTest, StartTest, ScanError, ReturnToChild, StepBack, Postpone, DescendToChild,
     PreparationFails, PreparationPasses, TestDone, ResultLost, edgeVars
<1>3. ASSUME NEW w \in Worker, Reverse(w) PROVE w = v /\ t = Here(v)
  <2>1. droppedCleanup'[m] \subseteq droppedCleanup[m] \union {<<Here(w), w>>}
    BY <1>3 DEF Reverse
  <2> QED BY <2>1
<1> QED BY <1>1, <1>2, <1>3 DEF Next

\* What a worker has dropped it is settled with, and it does not run it any more.
DroppedInv ==
  \A m \in Node, t \in Test, w \in Worker : Steady(t) /\ <<t, w>> \in droppedCleanup[m] =>
    Settled(t, w) /\ ~(Running(w) /\ Here(w) = t)

LEMMA NextDropped ==
  TypeInv /\ TypeInv' /\ SetupInv /\ Numbered /\ DroppedInv /\ [Next]_vars => DroppedInv'
<1> SUFFICES ASSUME TypeInv, TypeInv', SetupInv, Numbered, DroppedInv, [Next]_vars,
                    NEW m \in Node, NEW t \in Test, NEW w \in Worker, Steady(t),
                    <<t, w>> \in droppedCleanup'[m]
             PROVE  Settled(t, w)' /\ ~(Running(w)' /\ Here(w)' = t)
  BY DEF DroppedInv, Steady
<1>1. CASE <<t, w>> \in droppedCleanup[m]
  <2>1. Settled(t, w) /\ ~(Running(w) /\ Here(w) = t)
    BY <1>1 DEF DroppedInv
  <2>2. Settled(t, w)'
    BY <2>1, SettledStays
  <2>3. ASSUME Running(w)', Here(w)' = t PROVE FALSE
    <3>1. CASE StartTest(w)
      <4>1. Here(w) = t
        BY <2>3, <3>1 DEF StartTest, Here
      <4> QED BY <2>1, <3>1, <4>1, SettledNotStarted
    <3>2. CASE PreparationPasses(w)
      BY <2>1, <2>3, <3>2 DEF PreparationPasses, Awaits, Running, Here, walkVars
    <3>3. CASE Running(w) /\ pc'[w] = pc[w] /\ path'[w] = path[w]
      BY <2>1, <2>3, <3>3 DEF Here
    <3> QED BY <2>3, <3>1, <3>2, <3>3, RunningStep
  <2> QED BY <2>2, <2>3
<1>2. CASE <<t, w>> \notin droppedCleanup[m]
  <2>1. Reverse(w) /\ t = Here(w)
    BY <1>2, DropStep
  <2>2. Settled(t, w)'
    BY <2>1, ReverseSettles
  <2>3. ~Running(w)'
    BY <2>1 DEF Reverse, Goto, Running, TypeInv, TypeOK
  <2> QED BY <2>2, <2>3
<1> QED BY <1>1, <1>2

\* Only the reversal of a test removes its state.
LEMMA RemovalStep ==
  ASSUME TypeInv, [Next]_vars, NEW t \in Test, have[t] \ have'[t] # {}
  PROVE  \E w \in Worker :
           /\ HasLoop(w, "after") /\ t \in Reversible /\ ShouldClean(t, w)
           /\ have[t] \ have'[t] \subseteq {Pool[w]}
<1>0. have \in [Test -> SUBSET Place]
  BY DEF TypeInv, TypeOK
<1>1. ASSUME NEW w \in Worker, Reverse(w)
      PROVE  /\ HasLoop(w, "after") /\ t \in Reversible /\ ShouldClean(t, w)
             /\ have[t] \ have'[t] \subseteq {Pool[w]}
  <2>1. HasLoop(w, "after") /\ have' # have
    BY <1>1 DEF Reverse
  <2>2. ShouldClean(Here(w), w) /\ SyncStates(Here(w), w)
    BY <1>1, <2>1 DEF Reverse
  <2>3. \/ Here(w) \in Reversible /\ have' = [have EXCEPT ![Here(w)] = @ \ {Pool[w]}]
        \/ have' = [have EXCEPT ![Here(w)] = @ \union {Pool[w]}]
    BY <2>1, <2>2 DEF SyncStates
  <2>4. Here(w) = t /\ Here(w) \in Reversible /\ have[t] \ have'[t] \subseteq {Pool[w]}
    BY <1>0, <2>3
  <2> QED BY <2>1, <2>2, <2>4
<1>2. ASSUME NEW w \in Worker, TestDone(w) PROVE have[t] \subseteq have'[t]
  <2>1. have' = have \/ have' = [have EXCEPT ![Here(w)] = @ \union {Pool[w]}]
    BY <1>2 DEF TestDone
  <2> QED BY <1>0, <2>1
<1>3. ASSUME NEW w \in Worker, ResultLost(w) PROVE have[t] \subseteq have'[t]
  BY <1>0, <1>3 DEF ResultLost
<1>4. ASSUME NEW w \in Worker, Walk(w), ~Reverse(w) PROVE have' = have
  BY <1>4 DEF Walk, Finish, PickFromRoot, Unroll, Bounce, ClimbToParent, ScanError, PassFlat,
     SkipTest, StartTest, ReturnToChild, StepBack, Postpone, DescendToChild, nodeVars
<1>5. ASSUME NEW w \in Worker, Resume(w) \/ PreparationFails(w) \/ PreparationPasses(w)
      PROVE  have' = have
  BY <1>5 DEF Resume, PreparationFails, PreparationPasses, nodeVars
<1>6. CASE UNCHANGED vars \/ EndJob \/ TimeoutJob \/ Over
  BY <1>6 DEF vars, EndJob, TimeoutJob, Over, Verdict, nodeVars
<1> QED BY <1>1, <1>2, <1>3, <1>4, <1>5, <1>6 DEF Next, Await

\* States are removed after use (default_clean_decision, sync_states): under
\* OrderlyCleanup, for every graph and any number of workers, retries and lost
\* results, the state of a test is removed from a pool only when no worker of this
\* pool runs the test or one that depends on it.
THEOREM CleanedAfterUse ==
  ASSUME OrderlyCleanup
  PROVE  Spec => CleanAfterUse
<1> DEFINE Inv == /\ TypeInv /\ SetupInv /\ ParsedInv /\ PathInv /\ StartedInv
                  /\ Registered /\ PendingInv /\ Numbered /\ DroppedInv
<1>1. Init => Inv
  <2> SUFFICES ASSUME Init PROVE Inv
    OBVIOUS
  <2>1. TypeInv
    BY InitTypes
  <2>2. SetupInv
    BY DEF Init, SetupInv, Provenance, Left, Ready, Running
  <2>3. ParsedInv /\ PathInv
    BY InitWalk
  <2>4. StartedInv /\ PendingInv /\ Numbered
    BY DEF Init, StartedInv, PendingInv, Numbered, Running
  <2>5. Registered
    BY DEF Init, Registered
  <2>6. DroppedInv
    BY DEF Init, DroppedInv
  <2> QED BY <2>1, <2>2, <2>3, <2>4, <2>5, <2>6
<1>2. Inv /\ [Next]_vars => Inv'
  BY NextTypes, NextSetup, NextParsed, NextPath, NextStarted, NextRegistered, NextPending,
     NextNumbered, NextDropped
<1>3. ASSUME Inv, [Next]_vars, NEW t \in Test, have[t] \ have'[t] # {},
             NEW v \in Worker, Running(v), Pool[v] \in have[t] \ have'[t]
      PROVE  Here(v) # t /\ t \notin Parents[Here(v)]
  <2>1. PICK w \in Worker :
          /\ HasLoop(w, "after") /\ t \in Reversible /\ ShouldClean(t, w)
          /\ have[t] \ have'[t] \subseteq {Pool[w]}
    BY <1>3, RemovalStep
  <2>2. Swarm[v] = Swarm[w]
    BY <1>3, <2>1 DEF OrderlyCleanup
  <2>3. ASSUME v \in involved[t]
        PROVE  IsCleanupReady(t, v) /\ \A r \in results[t] : ~(r.node = v /\ r.status = "UNKNOWN")
    BY <2>1, <2>2, <2>3 DEF ShouldClean
  <2>4. Here(v) \in Test /\ path[v] \in Seq(Node) /\ Len(path[v]) \in Nat /\ Len(path[v]) >= 2
    BY <1>3, HereType DEF TypeInv, Shape, Running
  <2>5. v \in involved[Here(v)] /\ Here(v) \in parsed[v]
    <3>1. Len(path[v]) \in 2..Len(path[v]) /\ Len(path[v]) \in 1..Len(path[v])
      BY <2>4
    <3> QED BY <1>3, <2>4, <3>1 DEF Registered, PathInv, PathOK, Here
  <2>6. ASSUME Here(v) = t PROVE FALSE
    <3>1. pc[v] = "run"
      BY <1>3, <2>1, <2>6 DEF StartedInv, OrderlyCleanup, Running
    <3>2. \E r \in results[t] : r.node = v /\ r.status = "UNKNOWN"
      BY <1>3, <2>6, <3>1 DEF PendingInv, IsPending
    <3> QED BY <2>3, <2>5, <2>6, <3>2
  <2>7. ASSUME t \in Parents[Here(v)] PROVE FALSE
    <3>1. v \in finished[t]
      <4>1. <<t, v>> \in droppedSetup[Here(v)]
        BY <1>3, <2>7 DEF SetupInv, Ready
      <4> QED BY <1>3, <2>4, <4>1 DEF SetupInv, Provenance, Node
    <3>2. v \in involved[t]
      BY <1>3, <3>1 DEF Registered
    <3>3. Here(v) \in CleanupNodes(t, v)
      BY <2>5, <2>7, NodesAssumption DEF CleanupNodes
    <3>4. <<Here(v), v>> \in droppedCleanup[t]
      BY <2>3, <3>2, <3>3 DEF IsCleanupReady, OpenCleanup
    <3>5. Steady(Here(v))
      BY <2>1, <2>4, <2>7 DEF OrderlyCleanup
    <3> QED BY <1>3, <2>4, <3>4, <3>5 DEF DroppedInv, Node
  <2> QED BY <2>6, <2>7
<1>4. Inv /\ [Next]_vars =>
        [\A t \in Test : have[t] \ have'[t] # {} =>
           \A w \in Worker : Running(w) /\ Pool[w] \in have[t] \ have'[t] =>
             Here(w) # t /\ t \notin Parents[Here(w)]]_vars
  BY <1>3
<1> QED BY <1>1, <1>2, <1>4, PTL DEF Spec, CleanAfterUse

=============================================================================
