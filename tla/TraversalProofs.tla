-------------------------- MODULE TraversalProofs --------------------------
(***************************************************************************)
(* Proofs about Traversal for every graph, every set of workers and every  *)
(* policy: the types, the exclusive use of tests, and setup before test.   *)
(***************************************************************************)
EXTENDS Traversal, FiniteSetTheorems, TLAPS

-----------------------------------------------------------------------------
(* Facts about the stack of a worker.                                      *)

\* Popping a path of at least two nodes leaves a path one shorter (the code's
\* traverse_path.pop()).
LEMMA PopType ==
  ASSUME NEW S, NEW s \in Seq(S), Len(s) >= 2
  PROVE  /\ SubSeq(s, 1, Len(s) - 1) \in Seq(S)
         /\ Len(SubSeq(s, 1, Len(s) - 1)) = Len(s) - 1
OBVIOUS

\* Appending a picked node makes it the top of the path.
LEMMA PushType ==
  ASSUME NEW S, NEW s \in Seq(S), NEW e \in S
  PROVE  /\ Append(s, e) \in Seq(S)
         /\ Len(Append(s, e)) = Len(s) + 1
         /\ Append(s, e)[Len(Append(s, e))] = e
OBVIOUS

\* A reset path holds the shared root only.
LEMMA RootType == <<Root>> \in Seq(Node) /\ Len(<<Root>>) = 1 /\ <<Root>>[1] = Root
BY DEF Node

\* The top and the one below it are nodes.
LEMMA TopType ==
  ASSUME NEW S, NEW s \in Seq(S), Len(s) >= 1
  PROVE  s[Len(s)] \in S /\ (Len(s) >= 2 => s[Len(s) - 1] \in S)
OBVIOUS

-----------------------------------------------------------------------------

\* Paths are never empty and a worker busy with a node came to it from another.
Shape ==
  \A w \in Worker :
    /\ Len(path[w]) >= 1
    /\ pc[w] \in {"pre", "run", "after"} => Len(path[w]) >= 2
    /\ Running(w) => Here(w) \in Test

\* Results are counted, so there are finitely many of them.
FiniteResults == \A t \in Test : IsFiniteSet(results[t])

\* What the types need to be preserved.
TypeInv == TypeOK /\ Shape /\ FiniteResults

\* The neighbours of a node are nodes.
LEMMA NeighbourType ==
  ASSUME TypeOK, NEW n \in Node, NEW w \in Worker
  PROVE  SetupNodes(n, w) \subseteq Node /\ CleanupNodes(n, w) \subseteq Node
BY EdgesAssumption DEF TypeOK, Node, SetupNodes, CleanupNodes, RootChild

\* pick_parent and pick_child return nodes of the graph.
LEMMA FirstOpen ==
  ASSUME TypeOK, NEW n \in Node, NEW w \in Worker, NEW count
  PROVE  /\ First(OpenSetup(n, w), count) \subseteq Node
         /\ First(OpenCleanup(n, w), count) \subseteq Node
BY NeighbourType DEF First, OpenSetup, OpenCleanup

\* A worker is at a node and, away from the root, came from one.
LEMMA HereType ==
  ASSUME TypeOK, Shape, NEW w \in Worker
  PROVE  /\ path[w] \in Seq(Node) /\ Len(path[w]) \in Nat
         /\ Here(w) \in Node
         /\ Len(path[w]) >= 2 => Prev(w) \in Node
BY TopType DEF TypeOK, Shape, Here, Prev

\* Replayed results are results, and a finite number of them joins a node.
LEMMA ResultType ==
  ASSUME TypeOK, FiniteResults, NEW t \in Test, NEW w \in Worker
  PROVE  /\ Begun(t, w) \subseteq Result
         /\ IsFiniteSet(Begun(t, w))
<1>1. Replayed(t, w) \subseteq Result /\ IsFiniteSet(Replayed(t, w))
  <2>1. CASE \E r \in results[t] : r.node = w
    BY <2>1, FS_EmptySet DEF Replayed
  <2>2. CASE ~ \E r \in results[t] : r.node = w
    <3> DEFINE F == [r \in Previous[t] |->
          [node |-> w, name |-> r.name, no |-> r.no, status |-> r.status, old |-> TRUE]]
    <3>1. Replayed(t, w) = {F[r] : r \in Previous[t]}
      BY <2>2 DEF Replayed
    <3>2. IsFiniteSet(Previous[t])
      BY PolicyAssumption
    <3>3. IsFiniteSet({F[r] : r \in Previous[t]})
      <4>1. F \in Surjection(Previous[t], {F[r] : r \in Previous[t]})
        BY DEF Surjection
      <4> QED BY <4>1, <3>2, FS_Surjection
    <3>4. Previous[t] \subseteq [name: Worker, no: Nat, status: Status]
      BY PolicyAssumption
    <3>5. \A r \in Previous[t] : F[r] \in Result
      BY <3>4 DEF Result
    <3> HIDE DEF F
    <3> QED BY <3>1, <3>3, <3>5
  <2> QED BY <2>1, <2>2
<1>2. results[t] \subseteq Result /\ IsFiniteSet(results[t])
  BY DEF TypeOK, FiniteResults
<1> QED BY <1>1, <1>2, FS_Union DEF Begun

\* The pending result of a finite set of results is a result.
LEMMA PendingType ==
  ASSUME NEW w \in Worker, NEW res, IsFiniteSet(res)
  PROVE  Pending(w, res) \in Result /\ IsFiniteSet(res \union {Pending(w, res)})
BY FS_CardinalityType, FS_AddElement DEF Pending, Result, Status

\* The three ways a path changes.
LEMMA PushStep ==
  ASSUME TypeOK, NEW w \in Worker, NEW n \in Node, Push(w, n)
  PROVE  /\ path' \in [Worker -> Seq(Node)]
         /\ Len(path'[w]) = Len(path[w]) + 1
         /\ \A v \in Worker \ {w} : path'[v] = path[v]
<1>1. path \in [Worker -> Seq(Node)] /\ path' = [path EXCEPT ![w] = Append(path[w], n)]
  BY DEF TypeOK, Push
<1>2. Append(path[w], n) \in Seq(Node) /\ Len(Append(path[w], n)) = Len(path[w]) + 1
  BY <1>1, PushType
<1> QED BY <1>1, <1>2

\* A step back on the path leaves the other workers' paths alone.
LEMMA PopStep ==
  ASSUME TypeOK, NEW w \in Worker, Len(path[w]) >= 2, Pop(w)
  PROVE  /\ path' \in [Worker -> Seq(Node)]
         /\ Len(path'[w]) = Len(path[w]) - 1
         /\ \A v \in Worker \ {w} : path'[v] = path[v]
<1>1. /\ path \in [Worker -> Seq(Node)]
      /\ path' = [path EXCEPT ![w] = SubSeq(path[w], 1, Len(path[w]) - 1)]
  BY DEF TypeOK, Pop
<1>2. /\ SubSeq(path[w], 1, Len(path[w]) - 1) \in Seq(Node)
      /\ Len(SubSeq(path[w], 1, Len(path[w]) - 1)) = Len(path[w]) - 1
  BY <1>1, PopType
<1> QED BY <1>1, <1>2

\* So does a reset of the path to the shared root.
LEMMA BackStep ==
  ASSUME TypeOK, NEW w \in Worker, BackToRoot(w)
  PROVE  /\ path' \in [Worker -> Seq(Node)]
         /\ Len(path'[w]) = 1
         /\ \A v \in Worker \ {w} : path'[v] = path[v]
BY RootType DEF TypeOK, BackToRoot

\* Only the moving worker's part of the shape of paths is at stake.
LEMMA ShapeStep ==
  ASSUME Shape, NEW w \in Worker,
         \A v \in Worker \ {w} : path'[v] = path[v] /\ pc'[v] = pc[v],
         Len(path'[w]) >= 1,
         pc'[w] \in {"pre", "run", "after"} => Len(path'[w]) >= 2,
         pc'[w] \in {"pre", "run"} => path'[w][Len(path'[w])] \in Test
  PROVE  Shape'
BY DEF Shape, Running, Here

\* A worker at a node is in its loop and has come from another node.
LEMMA AtNodeFacts ==
  ASSUME TypeInv, NEW w \in Worker, AtNode(w)
  PROVE  /\ pc[w] = "loop"
         /\ path[w] \in Seq(Node) /\ Len(path[w]) >= 2
         /\ Here(w) \in Node /\ Prev(w) \in Node
BY HereType DEF TypeInv, AtNode, HasLoop

\* A worker that has traversed a node still has the node it came from.
LEMMA AfterFacts ==
  ASSUME TypeInv, NEW w \in Worker, HasLoop(w, "after")
  PROVE  /\ pc[w] = "after"
         /\ path[w] \in Seq(Node) /\ Len(path[w]) >= 2
         /\ Here(w) \in Node /\ Prev(w) \in Node
BY HereType DEF TypeInv, HasLoop, Shape

\* A worker that awaits a process is at a test.
LEMMA AwaitFacts ==
  ASSUME TypeInv, NEW w \in Worker, Awaits(w, "pre") \/ Awaits(w, "run")
  PROVE  /\ Running(w)
         /\ path[w] \in Seq(Node) /\ Len(path[w]) >= 2
         /\ Here(w) \in Test
BY HereType DEF TypeInv, Awaits, Shape, Running

\* Switching reruns off keeps its type.
LEMMA NoRerunType ==
  ASSUME TypeOK, NEW w \in Worker, SwitchRerunsHere(w)
  PROVE  noRerun' \subseteq Test \X Worker
BY DEF TypeOK, SwitchRerunsHere, SwitchReruns

-----------------------------------------------------------------------------
(* Every action preserves the types.                                       *)

\* Steps that start or end a worker's turn or the job change few variables.
LEMMA TurnTypes ==
  ASSUME TypeInv, NEW w \in Worker, Resume(w) \/ Finish(w)
  PROVE  TypeInv'
<1>1. CASE Resume(w)
  <2>1. /\ pc' = [pc EXCEPT ![w] = "loop"] /\ turn' = w
        /\ UNCHANGED <<job, path, occupiedAt, stale, graphVars, edgeVars, nodeVars>>
    BY <1>1 DEF Resume
  <2>2. bounces' \in [Worker -> 0..MaxBounces]
    BY <1>1, PolicyAssumption DEF Resume, TypeInv, TypeOK
  <2>3. pc' \in [Worker -> {"ready", "loop", "pre", "run", "after", "sleep", "done"}]
        /\ pc'[w] = "loop" /\ \A v \in Worker \ {w} : pc'[v] = pc[v]
    BY <2>1 DEF TypeInv, TypeOK
  <2>4. TypeOK'
    BY <2>1, <2>2, <2>3 DEF TypeInv, TypeOK, graphVars, edgeVars, nodeVars
  <2>5. Shape'
    <3>1. Len(path'[w]) >= 1 /\ \A v \in Worker \ {w} : path'[v] = path[v]
      BY <2>1 DEF TypeInv, Shape
    <3> QED BY <3>1, <2>3, ShapeStep DEF TypeInv
  <2> QED BY <2>1, <2>4, <2>5 DEF TypeInv, FiniteResults, nodeVars
<1>2. CASE Finish(w)
  <2>1. /\ pc' = [pc EXCEPT ![w] = "done"] /\ turn' = Nobody
        /\ UNCHANGED <<job, graphVars, edgeVars, nodeVars, walkVars>>
    BY <1>2 DEF Finish, Yield
  <2>2. pc' \in [Worker -> {"ready", "loop", "pre", "run", "after", "sleep", "done"}]
        /\ pc'[w] = "done" /\ \A v \in Worker \ {w} : pc'[v] = pc[v]
    BY <2>1 DEF TypeInv, TypeOK
  <2>3. TypeOK'
    BY <2>1, <2>2 DEF TypeInv, TypeOK, graphVars, edgeVars, nodeVars, walkVars
  <2>4. Shape'
    BY <2>1, <2>2, ShapeStep DEF TypeInv, Shape, walkVars
  <2> QED BY <2>1, <2>3, <2>4 DEF TypeInv, FiniteResults, nodeVars
<1> QED BY <1>1, <1>2

\* Picking a child or a parent.
LEMMA PickTypes ==
  ASSUME TypeInv, NEW w \in Worker, PickFromRoot(w) \/ ClimbToParent(w)
  PROVE  TypeInv'
<1>1. CASE PickFromRoot(w)
  <2>1. Root \in Node /\ pc[w] = "loop" /\ Len(path[w]) = 1
    BY <1>1 DEF PickFromRoot, HasLoop, Node
  <2>2. PICK c \in Node : /\ Push(w, c)
                         /\ pickedBySetup' = [pickedBySetup EXCEPT ![c] = @ + 1]
                         /\ Register(w, c)
    BY <1>1, <2>1, FirstOpen DEF PickFromRoot, TypeInv
  <2>3. UNCHANGED <<turn, pc, job, graphVars, pickedByCleanup, droppedSetup, droppedCleanup,
                    nodeVars, occupiedAt, stale, bounces>>
    BY <1>1 DEF PickFromRoot
  <2>4. path' \in [Worker -> Seq(Node)] /\ Len(path'[w]) = Len(path[w]) + 1
        /\ \A v \in Worker \ {w} : path'[v] = path[v]
    BY <2>2, PushStep DEF TypeInv
  <2>5. pickedBySetup' \in [Node -> Nat] /\ involved' \in [Node -> SUBSET Worker]
    BY <2>2 DEF TypeInv, TypeOK, Register
  <2>6. TypeOK'
    BY <2>3, <2>4, <2>5 DEF TypeInv, TypeOK, graphVars, nodeVars
  <2>7. Shape'
    <3>1. pc'[w] = "loop" /\ Len(path'[w]) >= 1
      BY <2>1, <2>3, <2>4
    <3>2. \A v \in Worker \ {w} : path'[v] = path[v] /\ pc'[v] = pc[v]
      BY <2>3, <2>4
    <3> QED BY <3>1, <3>2, ShapeStep DEF TypeInv
  <2> QED BY <2>3, <2>6, <2>7 DEF TypeInv, FiniteResults, nodeVars
<1>2. CASE ClimbToParent(w)
  <2>1. Here(w) \in Node /\ pc[w] = "loop" /\ Len(path[w]) \in Nat
    BY <1>2, AtNodeFacts DEF ClimbToParent, Enters
  <2>2. PICK p \in Node : /\ Push(w, p)
                         /\ pickedByCleanup' = [pickedByCleanup EXCEPT ![p] = @ + 1]
                         /\ Register(w, p)
    BY <1>2, <2>1, FirstOpen DEF ClimbToParent, TypeInv
  <2>3. /\ occupiedAt' = [occupiedAt EXCEPT ![w] = @ \ {Here(w)}]
        /\ UNCHANGED <<turn, pc, job, graphVars, pickedBySetup, droppedSetup, droppedCleanup,
                       nodeVars, stale, bounces>>
    BY <1>2 DEF ClimbToParent
  <2>4. path' \in [Worker -> Seq(Node)] /\ Len(path'[w]) = Len(path[w]) + 1
        /\ \A v \in Worker \ {w} : path'[v] = path[v]
    BY <2>2, PushStep DEF TypeInv
  <2>5. pickedByCleanup' \in [Node -> Nat] /\ involved' \in [Node -> SUBSET Worker]
    BY <2>2 DEF TypeInv, TypeOK, Register
  <2>6. occupiedAt' \in [Worker -> SUBSET Test]
    BY <2>3 DEF TypeInv, TypeOK
  <2>7. TypeOK'
    BY <2>3, <2>4, <2>5, <2>6 DEF TypeInv, TypeOK, graphVars, nodeVars
  <2>8. Shape'
    BY <2>1, <2>3, <2>4, ShapeStep DEF TypeInv
  <2> QED BY <2>3, <2>7, <2>8 DEF TypeInv, FiniteResults, nodeVars
<1> QED BY <1>1, <1>2

\* Composing a flat node, and bouncing from an occupied test.
LEMMA UnrollTypes ==
  ASSUME TypeInv, NEW w \in Worker, Unroll(w)
  PROVE  TypeInv'
<1>1. UNCHANGED <<turn, pc, job, edgeVars, nodeVars, walkVars>>
  BY DEF Unroll
<1>2. Here(w) \in Flat /\ PathsToRoots[Here(w)] \subseteq Test
  BY DEF Unroll, MustUnroll, PathsToRoots
<1>3. unrolled' \in [Flat -> SUBSET Worker]
  BY <1>2 DEF Unroll, TypeInv, TypeOK
<1>4. parsed' \in [Worker -> SUBSET Test]
  BY <1>2 DEF Unroll, TypeInv, TypeOK
<1>5. TypeOK'
  BY <1>1, <1>3, <1>4 DEF TypeInv, TypeOK, edgeVars, nodeVars, walkVars
<1>6. Shape' /\ FiniteResults'
  BY <1>1 DEF TypeInv, Shape, FiniteResults, Running, Here, nodeVars, walkVars
<1> QED BY <1>5, <1>6 DEF TypeInv

\* Stepping back from an occupied node (the asyncio.sleep of the loop).
LEMMA BounceTypes ==
  ASSUME TypeInv, NEW w \in Worker, Bounce(w)
  PROVE  TypeInv'
<1>1. /\ UNCHANGED <<job, graphVars, edgeVars, started, finished, results, noRerun, have,
                     summary, stale, bounces>>
      /\ occupiedAt' = [occupiedAt EXCEPT ![w] = @ \union {Here(w)}]
      /\ BackToRoot(w) /\ turn' = Nobody /\ pc' = [pc EXCEPT ![w] = "sleep"]
  BY DEF Bounce, Yield
<1>2. Here(w) \in Test
  BY DEF Bounce, IsOccupied
<1>3. reentry' \in [Test \X Worker -> Nat]
  <2>1. PICK overdue \in BOOLEAN :
          reentry' = [reentry EXCEPT ![<<Here(w), w>>] = IF overdue THEN @ + 1 ELSE @]
    BY DEF Bounce
  <2>2. reentry \in [Test \X Worker -> Nat] /\ <<Here(w), w>> \in Test \X Worker
    BY <1>2 DEF TypeInv, TypeOK
  <2> QED BY <2>1, <2>2
<1>4. occupiedAt' \in [Worker -> SUBSET Test]
  BY <1>1, <1>2 DEF TypeInv, TypeOK
<1>5. pc' \in [Worker -> {"ready", "loop", "pre", "run", "after", "sleep", "done"}]
      /\ pc'[w] = "sleep" /\ \A v \in Worker \ {w} : pc'[v] = pc[v]
  BY <1>1 DEF TypeInv, TypeOK
<1>6. path' \in [Worker -> Seq(Node)] /\ Len(path'[w]) = 1
      /\ \A v \in Worker \ {w} : path'[v] = path[v]
  BY <1>1, BackStep DEF TypeInv
<1>7. TypeOK'
  BY <1>1, <1>3, <1>4, <1>5, <1>6 DEF TypeInv, TypeOK, graphVars, edgeVars
<1>8. Shape'
  <2>1. pc'[w] = "sleep" /\ Len(path'[w]) >= 1
    BY <1>5, <1>6
  <2>2. \A v \in Worker \ {w} : path'[v] = path[v] /\ pc'[v] = pc[v]
    BY <1>5, <1>6
  <2> QED BY <2>1, <2>2, ShapeStep DEF TypeInv
<1> QED BY <1>1, <1>7, <1>8 DEF TypeInv, FiniteResults

\* A worker moves from one place of its code to another.
LEMMA PcStep ==
  ASSUME TypeInv, NEW w \in Worker,
         NEW at \in {"ready", "loop", "pre", "run", "after", "sleep", "done"},
         pc' = [pc EXCEPT ![w] = at]
  PROVE  /\ pc' \in [Worker -> {"ready", "loop", "pre", "run", "after", "sleep", "done"}]
         /\ pc'[w] = at
         /\ \A v \in Worker \ {w} : pc'[v] = pc[v]
BY DEF TypeInv, TypeOK

\* A worker that stays at a node it came to from another keeps the shape.
LEMMA StayShape ==
  ASSUME TypeInv, NEW w \in Worker, path' = path, Len(path[w]) >= 2,
         \A v \in Worker \ {w} : pc'[v] = pc[v],
         pc'[w] \in {"pre", "run"} => Here(w) \in Test
  PROVE  Shape'
<1>1. /\ Len(path'[w]) >= 1 /\ Len(path'[w]) >= 2
      /\ \A v \in Worker \ {w} : path'[v] = path[v] /\ pc'[v] = pc[v]
  BY DEF TypeInv, Shape
<1>2. pc'[w] \in {"pre", "run"} => path'[w][Len(path'[w])] \in Test
  BY DEF Here
<1> QED BY <1>1, <1>2, ShapeStep DEF TypeInv

\* What a worker notes when it enters a node.
LEMMA RememberTypes ==
  ASSUME TypeInv, NEW w \in Worker, Remember(w)
  PROVE  occupiedAt' \in [Worker -> SUBSET Test] /\ stale' \in [Worker -> BOOLEAN]
BY DEF TypeInv, TypeOK, Remember

\* traverse_node on a flat node.
LEMMA PassFlatTypes ==
  ASSUME TypeInv, NEW w \in Worker, PassFlat(w)
  PROVE  TypeInv'
<1>1. /\ Remember(w) /\ turn' = turn /\ pc' = [pc EXCEPT ![w] = "after"]
      /\ UNCHANGED <<job, graphVars, edgeVars, nodeVars, path, bounces>>
  BY DEF PassFlat, Goto
<1>2. Len(path[w]) >= 2
  BY AtNodeFacts DEF PassFlat, Traverses, Enters
<1>3. TypeOK'
  BY <1>1, RememberTypes, PcStep DEF TypeInv, TypeOK, graphVars, edgeVars, nodeVars
<1>4. Shape'
  BY <1>1, <1>2, PcStep, StayShape
<1> QED BY <1>1, <1>3, <1>4 DEF TypeInv, FiniteResults, nodeVars

\* traverse_node on a test that should not run.
LEMMA SkipTestTypes ==
  ASSUME TypeInv, NEW w \in Worker, SkipTest(w)
  PROVE  TypeInv'
<1> DEFINE t == Here(w)
           res == Begun(t, w)
<1>1. /\ t \in Test /\ Remember(w) /\ turn' = turn /\ pc' = [pc EXCEPT ![w] = "after"]
      /\ results' = [results EXCEPT ![t] = res]
      /\ SwitchReruns(t, w, InReach(t, w, res))
      /\ finished' = [finished EXCEPT ![t] = @ \union {w}]
      /\ UNCHANGED <<job, graphVars, edgeVars, started, reentry, have, summary, path, bounces>>
  BY DEF SkipTest, Goto
<1>2. Len(path[w]) >= 2
  BY AtNodeFacts DEF SkipTest, Traverses, Enters
<1>3. res \subseteq Result /\ IsFiniteSet(res)
  BY <1>1, ResultType DEF TypeInv
<1> HIDE DEF t, res
<1>4. results' \in [Test -> SUBSET Result] /\ finished' \in [Test -> SUBSET Worker]
  BY <1>1, <1>3 DEF TypeInv, TypeOK
<1>5. noRerun' \subseteq Test \X Worker
  BY <1>1 DEF TypeInv, TypeOK, SwitchReruns
<1>6. TypeOK'
  BY <1>1, <1>4, <1>5, RememberTypes, PcStep DEF TypeInv, TypeOK, graphVars, edgeVars
<1>7. Shape'
  BY <1>1, <1>2, PcStep, StayShape
<1>8. FiniteResults'
  BY <1>1, <1>3 DEF TypeInv, TypeOK, FiniteResults
<1> QED BY <1>6, <1>7, <1>8 DEF TypeInv

\* traverse_node up to the await of the test process.
LEMMA StartTestTypes ==
  ASSUME TypeInv, NEW w \in Worker, StartTest(w)
  PROVE  TypeInv'
<1> DEFINE t == Here(w)
           res == Begun(t, w)
<1>1. /\ t \in Test /\ Remember(w) /\ turn' = Nobody
      /\ started' = [started EXCEPT ![t] = @ \union {w}]
      /\ UNCHANGED <<job, graphVars, edgeVars, finished, noRerun, reentry, have, summary, path,
                     bounces>>
  BY DEF StartTest, Yield
<1>2. PICK at \in {"pre", "run"} : pc' = [pc EXCEPT ![w] = at]
  BY DEF StartTest, Yield
<1>3. Len(path[w]) >= 2
  BY AtNodeFacts DEF StartTest, Traverses, Enters
<1>4. res \subseteq Result /\ IsFiniteSet(res)
  BY <1>1, ResultType DEF TypeInv
<1>5. PICK new : /\ new \subseteq Result /\ IsFiniteSet(new)
                 /\ results' = [results EXCEPT ![t] = new]
  BY <1>4, PendingType DEF StartTest
<1>6. Shape'
  BY <1>1, <1>2, <1>3, PcStep, StayShape
<1> HIDE DEF t, res
<1>7. results' \in [Test -> SUBSET Result] /\ started' \in [Test -> SUBSET Worker]
  BY <1>1, <1>5 DEF TypeInv, TypeOK
<1>8. TypeOK'
  BY <1>1, <1>2, <1>7, RememberTypes, PcStep DEF TypeInv, TypeOK, graphVars, edgeVars
<1>9. FiniteResults'
  BY <1>1, <1>5 DEF TypeInv, TypeOK, FiniteResults
<1> QED BY <1>6, <1>8, <1>9 DEF TypeInv

\* Leaving a test: no longer started, finished, and on with the walk.
LEMMA LeaveTypes ==
  ASSUME TypeInv, NEW w \in Worker, NEW t \in Test, Leave(t, w)
  PROVE  /\ started' \in [Test -> SUBSET Worker] /\ finished' \in [Test -> SUBSET Worker]
         /\ turn' = w /\ pc' = [pc EXCEPT ![w] = "after"]
BY DEF TypeInv, TypeOK, Leave

\* traverse_terminal_node: both ends of the preparation of an object root.
LEMMA PreparationTypes ==
  ASSUME TypeInv, NEW w \in Worker, PreparationFails(w) \/ PreparationPasses(w)
  PROVE  TypeInv'
<1>1. Here(w) \in Test /\ Len(path[w]) >= 2
  BY AwaitFacts DEF PreparationFails, PreparationPasses
<1>2. summary' \subseteq {"FAIL"}
  BY <1>1 DEF PreparationFails, PreparationPasses, TypeInv, TypeOK
<1>3. CASE PreparationFails(w)
  <2>1. /\ Leave(Here(w), w)
        /\ UNCHANGED <<job, graphVars, edgeVars, results, noRerun, reentry, have, walkVars>>
    BY <1>3 DEF PreparationFails
  <2>2. TypeOK'
    BY <1>1, <1>2, <2>1, LeaveTypes, PcStep DEF TypeInv, TypeOK, graphVars, edgeVars, walkVars
  <2>3. Shape'
    BY <1>1, <2>1, LeaveTypes, PcStep, StayShape DEF walkVars
  <2> QED BY <2>1, <2>2, <2>3 DEF TypeInv, FiniteResults
<1>4. CASE PreparationPasses(w)
  <2> DEFINE t == Here(w)
             new == results[t] \union {Pending(w, results[t])}
  <2>1. /\ turn' = Nobody /\ pc' = [pc EXCEPT ![w] = "run"]
        /\ results' = [results EXCEPT ![t] = new]
        /\ UNCHANGED <<job, graphVars, edgeVars, started, finished, noRerun, reentry, have,
                       walkVars>>
    BY <1>4 DEF PreparationPasses, Yield
  <2>2. new \subseteq Result /\ IsFiniteSet(new)
    BY <1>1, PendingType DEF TypeInv, TypeOK, FiniteResults
  <2>3. Shape'
    BY <1>1, <2>1, PcStep, StayShape DEF walkVars
  <2>4. t \in Test
    BY <1>1
  <2> HIDE DEF t, new
  <2>5. results' \in [Test -> SUBSET Result] /\ FiniteResults'
    BY <2>1, <2>2, <2>4 DEF TypeInv, TypeOK, FiniteResults
  <2>6. TypeOK'
    BY <1>2, <2>1, <2>5, PcStep DEF TypeInv, TypeOK, graphVars, edgeVars, walkVars
  <2> QED BY <2>3, <2>5, <2>6 DEF TypeInv
<1> QED BY <1>3, <1>4

\* run_test_node with a result found in time: one result is exchanged.
LEMMA TestDoneTypes ==
  ASSUME TypeInv, NEW w \in Worker, TestDone(w)
  PROVE  TypeInv'
<1> DEFINE t == Here(w)
<1>1. t \in Test /\ Len(path[w]) >= 2
  BY AwaitFacts DEF TestDone
<1>2. PICK status \in {"PASS", "WARN", "FAIL"}, r \in results[t] :
        /\ results' = [results EXCEPT ![t] = (@ \ {r}) \union {[r EXCEPT !.status = status]}]
        /\ have' \in {have, [have EXCEPT ![t] = @ \union {Pool[w]}]}
        /\ summary' = IF status = "FAIL" THEN summary \union {status} ELSE summary
  BY DEF TestDone
<1>3. /\ Leave(t, w)
      /\ UNCHANGED <<job, graphVars, edgeVars, noRerun, reentry, walkVars>>
  BY DEF TestDone
<1> HIDE DEF t
<1>4. [r EXCEPT !.status = status] \in Result
  <2>1. r \in Result
    BY <1>1, <1>2 DEF TypeInv, TypeOK
  <2> QED BY <2>1 DEF Result, Status
<1> DEFINE new == (results[t] \ {r}) \union {[r EXCEPT !.status = status]}
<1>5. new \subseteq Result /\ IsFiniteSet(new)
  <2>1. results[t] \subseteq Result /\ IsFiniteSet(results[t])
    BY <1>1 DEF TypeInv, TypeOK, FiniteResults
  <2>2. IsFiniteSet(results[t] \ {r})
    BY <2>1, FS_Subset
  <2> QED BY <1>4, <2>1, <2>2, FS_AddElement
<1>6. results' = [results EXCEPT ![t] = new]
  BY <1>2
<1> HIDE DEF new
<1>7. results' \in [Test -> SUBSET Result] /\ FiniteResults'
  BY <1>1, <1>5, <1>6 DEF TypeInv, TypeOK, FiniteResults
<1>8. have' \in [Test -> SUBSET Place]
  <2>1. Pool[w] \in Place
    BY DEF Place
  <2>2. have \in [Test -> SUBSET Place] /\ have[t] \subseteq Place
    BY <1>1 DEF TypeInv, TypeOK
  <2> QED BY <1>1, <1>2, <2>1, <2>2
<1>9. summary' \subseteq {"FAIL"}
  BY <1>2 DEF TypeInv, TypeOK
<1>10. TypeOK'
  BY <1>1, <1>3, <1>7, <1>8, <1>9, LeaveTypes, PcStep DEF TypeInv, TypeOK, graphVars, edgeVars, walkVars
<1>11. Shape'
  BY <1>1, <1>3, LeaveTypes, PcStep, StayShape DEF walkVars
<1> QED BY <1>7, <1>10, <1>11 DEF TypeInv

\* run_test_node without a result: the results stay as they are.
LEMMA ResultLostTypes ==
  ASSUME TypeInv, NEW w \in Worker, ResultLost(w)
  PROVE  TypeInv'
<1>1. Here(w) \in Test /\ Len(path[w]) >= 2
  BY AwaitFacts DEF ResultLost
<1>2. /\ Leave(Here(w), w)
      /\ UNCHANGED <<job, graphVars, edgeVars, results, noRerun, reentry, walkVars>>
      /\ summary' \in {summary, summary \union {"FAIL"}}
  BY DEF ResultLost
<1>3. have' \in [Test -> SUBSET Place]
  <2>1. have \in [Test -> SUBSET Place] /\ Pool[w] \in Place
    BY DEF TypeInv, TypeOK, Place
  <2>2. \/ have' = have
        \/ have' = [have EXCEPT ![Here(w)] = have[Here(w)] \union {Pool[w]}]
    BY DEF ResultLost
  <2> QED BY <1>1, <2>1, <2>2
<1>4. TypeOK'
  BY <1>1, <1>2, <1>3, LeaveTypes, PcStep DEF TypeInv, TypeOK, graphVars, edgeVars, walkVars
<1>5. Shape'
  BY <1>1, <1>2, LeaveTypes, PcStep, StayShape DEF walkVars
<1> QED BY <1>2, <1>4, <1>5 DEF TypeInv, FiniteResults

\* Back on the path after a node: popping keeps the shape.
LEMMA PopShape ==
  ASSUME TypeInv, NEW w \in Worker, HasLoop(w, "after"), Pop(w), Goto(w, "loop")
  PROVE  /\ Shape' /\ path' \in [Worker -> Seq(Node)]
         /\ turn' = turn
         /\ pc' \in [Worker -> {"ready", "loop", "pre", "run", "after", "sleep", "done"}]
<1>1. path[w] \in Seq(Node) /\ Len(path[w]) >= 2
  BY AfterFacts
<1>2. /\ path' \in [Worker -> Seq(Node)] /\ Len(path'[w]) = Len(path[w]) - 1
      /\ \A v \in Worker \ {w} : path'[v] = path[v]
  BY <1>1, PopStep DEF TypeInv
<1>3. pc' = [pc EXCEPT ![w] = "loop"] /\ turn' = turn
  BY DEF Goto
<1>4. /\ pc' \in [Worker -> {"ready", "loop", "pre", "run", "after", "sleep", "done"}]
      /\ pc'[w] = "loop" /\ \A v \in Worker \ {w} : pc'[v] = pc[v]
  BY <1>3, PcStep
<1>5. Len(path'[w]) >= 1
  BY <1>1, <1>2
<1> QED BY <1>2, <1>3, <1>4, <1>5, ShapeStep DEF TypeInv

\* The way back to the child that needed the setup, with drop_parent.
LEMMA ReturnToChildTypes ==
  ASSUME TypeInv, NEW w \in Worker, ReturnToChild(w)
  PROVE  TypeInv'
<1>1. /\ HasLoop(w, "after") /\ SwitchRerunsHere(w) /\ Pop(w) /\ Goto(w, "loop")
      /\ UNCHANGED <<job, graphVars, pickedBySetup, pickedByCleanup, involved, droppedCleanup,
                 started, finished, results, reentry, have, summary, occupiedAt, stale, bounces>>
  BY DEF ReturnToChild
<1>2. Here(w) \in Node /\ Prev(w) \in Node
  BY <1>1, AfterFacts
<1>3. droppedSetup' \in [Node -> SUBSET (Node \X Worker)]
  BY <1>2 DEF ReturnToChild, TypeInv, TypeOK
<1>4. noRerun' \subseteq Test \X Worker
  BY <1>1, NoRerunType DEF TypeInv
<1>5. TypeOK'
  BY <1>1, <1>3, <1>4, PopShape DEF TypeInv, TypeOK, graphVars
<1> QED BY <1>1, <1>5, PopShape DEF TypeInv, FiniteResults

\* A node to be retried postpones the way down.
LEMMA StepBackTypes ==
  ASSUME TypeInv, NEW w \in Worker, StepBack(w)
  PROVE  TypeInv'
<1>1. /\ HasLoop(w, "after") /\ Pop(w) /\ Goto(w, "loop")
      /\ UNCHANGED <<job, graphVars, edgeVars, nodeVars, occupiedAt, stale, bounces>>
  BY DEF StepBack
<1>2. TypeOK'
  BY <1>1, PopShape DEF TypeInv, TypeOK, graphVars, edgeVars, nodeVars
<1> QED BY <1>1, <1>2, PopShape DEF TypeInv, FiniteResults, nodeVars

\* The cleanup of a composite node is postponed.
LEMMA PostponeTypes ==
  ASSUME TypeInv, NEW w \in Worker, Postpone(w)
  PROVE  TypeInv'
<1>1. /\ SwitchRerunsHere(w) /\ BackToRoot(w)
      /\ turn' = turn /\ pc' = [pc EXCEPT ![w] = "loop"]
      /\ UNCHANGED <<job, graphVars, edgeVars, started, finished, results, reentry, have,
                     summary, occupiedAt, stale, bounces>>
  BY DEF Postpone, Goto
<1>2. /\ path' \in [Worker -> Seq(Node)] /\ Len(path'[w]) = 1
      /\ \A v \in Worker \ {w} : path'[v] = path[v]
  BY <1>1, BackStep DEF TypeInv
<1>3. /\ pc' \in [Worker -> {"ready", "loop", "pre", "run", "after", "sleep", "done"}]
      /\ pc'[w] = "loop" /\ \A v \in Worker \ {w} : pc'[v] = pc[v]
  BY <1>1, PcStep
<1>4. noRerun' \subseteq Test \X Worker
  BY <1>1, NoRerunType DEF TypeInv
<1>5. TypeOK'
  BY <1>1, <1>2, <1>3, <1>4 DEF TypeInv, TypeOK, graphVars, edgeVars
<1>6. Shape'
  <2>1. Len(path'[w]) >= 1
    BY <1>2
  <2> QED BY <1>2, <1>3, <2>1, ShapeStep DEF TypeInv
<1> QED BY <1>1, <1>5, <1>6 DEF TypeInv, FiniteResults

\* drop_child in all setup nodes and reverse_node with sync_states.
LEMMA ReverseTypes ==
  ASSUME TypeInv, NEW w \in Worker, Reverse(w)
  PROVE  TypeInv'
<1> DEFINE n == Here(w)
<1>1. /\ HasLoop(w, "after") /\ SwitchRerunsHere(w) /\ Pop(w) /\ Goto(w, "loop")
      /\ UNCHANGED <<job, graphVars, pickedBySetup, pickedByCleanup, involved, droppedSetup,
                     started, finished, results, reentry, summary, occupiedAt, stale, bounces>>
      /\ droppedCleanup' = [m \in Node |->
           IF m \in SetupNodes(n, w) THEN droppedCleanup[m] \union {<<n, w>>}
           ELSE droppedCleanup[m]]
  BY DEF Reverse
<1>2. n \in Node
  BY <1>1, AfterFacts
<1>3. have' \in [Test -> SUBSET Place]
  <2>1. have \in [Test -> SUBSET Place] /\ Pool[w] \in Place
    BY DEF TypeInv, TypeOK, Place
  <2>2. CASE have' = have
    BY <2>1, <2>2
  <2>3. CASE have' = [have EXCEPT ![n] = @ \ {Pool[w]}]
    BY <2>1, <2>3
  <2>4. CASE have' = [have EXCEPT ![n] = @ \union {Pool[w]}]
    BY <2>1, <2>4
  <2> QED BY <2>2, <2>3, <2>4 DEF Reverse, SyncStates
<1> HIDE DEF n
<1>4. droppedCleanup' \in [Node -> SUBSET (Node \X Worker)]
  BY <1>1, <1>2 DEF TypeInv, TypeOK
<1>5. noRerun' \subseteq Test \X Worker
  BY <1>1, NoRerunType DEF TypeInv
<1>6. TypeOK'
  BY <1>1, <1>3, <1>4, <1>5, PopShape DEF TypeInv, TypeOK, graphVars
<1> QED BY <1>1, <1>6, PopShape DEF TypeInv, FiniteResults

\* The way down to the next child.
LEMMA DescendToChildTypes ==
  ASSUME TypeInv, NEW w \in Worker, DescendToChild(w)
  PROVE  TypeInv'
<1>1. /\ HasLoop(w, "after") /\ SwitchRerunsHere(w)
      /\ turn' = turn /\ pc' = [pc EXCEPT ![w] = "loop"]
      /\ UNCHANGED <<job, graphVars, pickedByCleanup, droppedSetup, droppedCleanup, started,
                     finished, results, reentry, have, summary, occupiedAt, stale, bounces>>
  BY DEF DescendToChild, Goto
<1>2. Here(w) \in Node /\ path[w] \in Seq(Node)
  BY <1>1, AfterFacts
<1>3. PICK c \in Node : /\ Push(w, c)
                        /\ pickedBySetup' = [pickedBySetup EXCEPT ![c] = @ + 1]
                        /\ Register(w, c)
  BY <1>2, FirstOpen DEF DescendToChild, TypeInv
<1>4. /\ path' \in [Worker -> Seq(Node)] /\ Len(path'[w]) = Len(path[w]) + 1
      /\ \A v \in Worker \ {w} : path'[v] = path[v]
  BY <1>3, PushStep DEF TypeInv
<1>5. /\ pc' \in [Worker -> {"ready", "loop", "pre", "run", "after", "sleep", "done"}]
      /\ pc'[w] = "loop" /\ \A v \in Worker \ {w} : pc'[v] = pc[v]
  BY <1>1, PcStep
<1>6. pickedBySetup' \in [Node -> Nat] /\ involved' \in [Node -> SUBSET Worker]
  BY <1>3 DEF TypeInv, TypeOK, Register
<1>7. noRerun' \subseteq Test \X Worker
  BY <1>1, NoRerunType DEF TypeInv
<1>8. TypeOK'
  BY <1>1, <1>4, <1>5, <1>6, <1>7 DEF TypeInv, TypeOK, graphVars
<1>9. Shape'
  <2>1. Len(path'[w]) >= 1
    BY <1>2, <1>4
  <2> QED BY <1>4, <1>5, <2>1, ShapeStep DEF TypeInv
<1> QED BY <1>1, <1>8, <1>9 DEF TypeInv, FiniteResults

\* Steps of the job and a broken scan change the job only.
LEMMA JobTypes ==
  ASSUME TypeInv, job' \in {"running", "ok", "fail", "crashed"},
         UNCHANGED <<turn, pc, graphVars, edgeVars, nodeVars, walkVars>>
  PROVE  TypeInv'
<1>1. TypeOK'
  BY DEF TypeInv, TypeOK, graphVars, edgeVars, nodeVars, walkVars
<1>2. Shape' /\ FiniteResults'
  BY DEF TypeInv, Shape, FiniteResults, Running, Here, nodeVars, walkVars
<1> QED BY <1>1, <1>2 DEF TypeInv

\* The workers start at the shared root of a graph without results.
LEMMA InitTypes == Init => TypeInv
<1> SUFFICES ASSUME Init PROVE TypeInv
  OBVIOUS
<1>1. path = [w \in Worker |-> <<Root>>] /\ path \in [Worker -> Seq(Node)]
  BY RootType DEF Init
<1>2. have \in [Test -> SUBSET Place]
  BY PolicyAssumption DEF Init
<1>3. reentry \in [Test \X Worker -> Nat]
  BY PolicyAssumption DEF Init
<1>4. TypeOK
  BY <1>1, <1>2, <1>3, EdgesAssumption, PolicyAssumption DEF Init, TypeOK
<1>5. Shape
  BY <1>1, RootType DEF Init, Shape, Running
<1>6. FiniteResults
  BY FS_EmptySet DEF Init, FiniteResults
<1> QED BY <1>4, <1>5, <1>6 DEF TypeInv

\* Every step preserves the types.
LEMMA NextTypes == TypeInv /\ [Next]_vars => TypeInv'
<1> SUFFICES ASSUME TypeInv, [Next]_vars PROVE TypeInv'
  OBVIOUS
<1>1. CASE UNCHANGED vars
  <2>1. job' = job /\ UNCHANGED <<turn, pc, graphVars, edgeVars, nodeVars, walkVars>>
    BY <1>1 DEF vars
  <2>2. job' \in {"running", "ok", "fail", "crashed"}
    BY <2>1 DEF TypeInv, TypeOK
  <2> QED BY <2>1, <2>2, JobTypes
<1>2. CASE EndJob \/ TimeoutJob
  BY <1>2, JobTypes DEF EndJob, TimeoutJob, Verdict
<1>3. CASE Over
  BY <1>1, <1>3 DEF Over
<1>4. ASSUME NEW w \in Worker, Resume(w) PROVE TypeInv'
  BY <1>4, TurnTypes
<1>5. ASSUME NEW w \in Worker, Walk(w) PROVE TypeInv'
  <2>1. CASE ScanError(w)
    BY <2>1, JobTypes DEF ScanError
  <2>2. CASE Finish(w) \/ PickFromRoot(w) \/ Unroll(w) \/ Bounce(w) \/ ClimbToParent(w)
    BY <2>2, TurnTypes, PickTypes, UnrollTypes, BounceTypes
  <2>3. CASE PassFlat(w) \/ SkipTest(w) \/ StartTest(w)
    BY <2>3, PassFlatTypes, SkipTestTypes, StartTestTypes
  <2>4. CASE ReturnToChild(w) \/ StepBack(w) \/ Postpone(w) \/ Reverse(w) \/ DescendToChild(w)
    BY <2>4, ReturnToChildTypes, StepBackTypes, PostponeTypes, ReverseTypes, DescendToChildTypes
  <2> QED BY <1>5, <2>1, <2>2, <2>3, <2>4 DEF Walk
<1>6. ASSUME NEW w \in Worker, Await(w) PROVE TypeInv'
  BY <1>6, PreparationTypes, TestDoneTypes, ResultLostTypes DEF Await
<1> QED BY <1>1, <1>2, <1>3, <1>4, <1>5, <1>6 DEF Next

\* Type correctness: whatever the graph and the policies, the traversal's state
\* (paths, edge registers, results, pools) stays of its type.
THEOREM TypeCorrect == Spec => []TypeOK
<1>1. TypeInv => TypeOK
  BY DEF TypeInv
<1> QED BY <1>1, InitTypes, NextTypes, PTL DEF Spec

-----------------------------------------------------------------------------
(* Exclusive use of a test.                                                *)

\* Workers in each other's reach have the same reach.
LEMMA ReachClass ==
  ASSUME NEW t \in Test, NEW w \in Worker, NEW v \in Reach(t, w)
  PROVE  v \in Worker /\ Reach(t, v) = Reach(t, w)
BY PolicyAssumption DEF Reach

\* The part of a set of workers in reach is finite.
LEMMA CrowdType ==
  ASSUME NEW W \in SUBSET Worker, NEW S
  PROVE  IsFiniteSet(W \intersect S) /\ Cardinality(W \intersect S) \in Nat
BY NodesAssumption, FS_Subset, FS_CardinalityType

\* An overdue wait only raises max_concurrent_tries.
ReentryFloor == \A t \in Test, v \in Worker : reentry[<<t, v>>] >= Concurrency[t]

\* Fewer workers at a test and more reentrancy keep it exclusive.
LEMMA ExclusiveMonotone ==
  ASSUME TypeOK, TypeOK', Exclusive,
         \A t \in Test : started'[t] \subseteq started[t],
         \A t \in Test, v \in Worker : reentry[<<t, v>>] <= reentry'[<<t, v>>]
  PROVE  Exclusive'
<1> SUFFICES ASSUME NEW t \in Test, NEW w \in Worker
             PROVE  LET crowd == Cardinality(started'[t] \intersect Reach(t, w))
                    IN  \/ crowd <= 1
                        \/ Concurrency[t] = 0 /\ crowd <= MaxTries[t]
                        \/ \E v \in Worker : crowd <= reentry'[<<t, v>>]
  BY DEF Exclusive, Reach
<1> DEFINE old == started[t] \intersect Reach(t, w)
           new == started'[t] \intersect Reach(t, w)
<1>1. /\ IsFiniteSet(old) /\ Cardinality(old) \in Nat
      /\ IsFiniteSet(new) /\ Cardinality(new) \in Nat
  BY CrowdType DEF TypeOK
<1>2. Cardinality(new) <= Cardinality(old)
  BY <1>1, FS_Subset
<1>3. \/ Cardinality(old) <= 1
      \/ Concurrency[t] = 0 /\ Cardinality(old) <= MaxTries[t]
      \/ \E v \in Worker : Cardinality(old) <= reentry[<<t, v>>]
  BY DEF Exclusive
<1>4. MaxTries[t] \in Nat
  BY PolicyAssumption
<1>5. \A v \in Worker : reentry[<<t, v>>] \in Nat /\ reentry'[<<t, v>>] \in Nat
  BY DEF TypeOK
<1> HIDE DEF old, new
<1>6. \/ Cardinality(new) <= 1
      \/ Concurrency[t] = 0 /\ Cardinality(new) <= MaxTries[t]
      \/ \E v \in Worker : Cardinality(new) <= reentry'[<<t, v>>]
  BY <1>1, <1>2, <1>3, <1>4, <1>5
<1> QED BY <1>6 DEF new

\* A worker that starts a test found it not occupied.
LEMMA ExclusiveStart ==
  ASSUME TypeInv, TypeInv', Exclusive, ReentryFloor, NEW w \in Worker, StartTest(w)
  PROVE  Exclusive'
<1> DEFINE t == Here(w)
<1>1. /\ t \in Test /\ started' = [started EXCEPT ![t] = @ \union {w}]
      /\ reentry' = reentry /\ ~IsOccupied(t, w)
  BY DEF StartTest, Traverses, Enters
<1>2. started \in [Test -> SUBSET Worker] /\ reentry \in [Test \X Worker -> Nat]
  BY DEF TypeInv, TypeOK
<1> HIDE DEF t
<1> SUFFICES ASSUME NEW u \in Test, NEW v \in Worker
             PROVE  LET crowd == Cardinality(started'[u] \intersect Reach(u, v))
                    IN  \/ crowd <= 1
                        \/ Concurrency[u] = 0 /\ crowd <= MaxTries[u]
                        \/ \E x \in Worker : crowd <= reentry'[<<u, x>>]
  BY DEF Exclusive, Reach
<1>3. CASE u # t \/ w \notin Reach(u, v)
  <2>1. started'[u] \intersect Reach(u, v) = started[u] \intersect Reach(u, v)
    BY <1>1, <1>2, <1>3
  <2> QED BY <1>1, <2>1 DEF Exclusive
<1>4. CASE u = t /\ w \in Reach(u, v)
  <2> DEFINE old == started[t] \intersect Reach(t, w)
  <2>1. Reach(u, v) = Reach(t, w) /\ w \in Reach(t, w)
    BY <1>4, ReachClass
  <2>2. started'[u] \intersect Reach(u, v) = old \union {w}
    BY <1>1, <1>2, <1>4, <2>1
  <2>3. IsFiniteSet(old) /\ Cardinality(old) \in Nat
    BY <1>1, <1>2, CrowdType
  <2>4. /\ Cardinality(old \union {w}) \in Nat
        /\ Cardinality(old \union {w}) <= Cardinality(old) + 1
    <3> HIDE DEF old
    <3>1. /\ IsFiniteSet(old \union {w})
          /\ \/ Cardinality(old \union {w}) = Cardinality(old)
             \/ Cardinality(old \union {w}) = Cardinality(old) + 1
      BY <2>3, FS_AddElement
    <3> QED BY <2>3, <3>1
  <2>5. CASE Scope[t] = "own"
    <3>1. started'[u] \intersect Reach(u, v) \subseteq {w}
      BY <2>1, <2>5 DEF Reach
    <3>2. IsFiniteSet({w}) /\ Cardinality({w}) = 1
      BY FS_Singleton
    <3>3. Cardinality(started'[u] \intersect Reach(u, v)) <= 1
      BY <3>1, <3>2, FS_Subset
    <3> QED BY <3>3
  <2>6. CASE Scope[t] # "own"
    <3>1. ~ (Cardinality(old) >= Threshold(t, w))
      BY <1>1, <2>6 DEF IsOccupied
    <3>2. /\ MaxTries[t] \in Nat /\ Concurrency[t] \in Nat /\ reentry[<<t, w>>] \in Nat
          /\ reentry[<<t, w>>] >= Concurrency[t]
      BY <1>1, <1>2, PolicyAssumption DEF ReentryFloor
    <3>3. /\ Threshold(t, w) \in Nat
          /\ \/ Threshold(t, w) \in {1, reentry[<<t, w>>]}
             \/ Concurrency[t] = 0 /\ Threshold(t, w) = MaxTries[t]
      BY <3>2 DEF Threshold
    <3>4. Cardinality(old \union {w}) <= Threshold(t, w)
      <4> HIDE DEF old
      <4> QED BY <2>3, <2>4, <3>1, <3>3
    <3> QED BY <1>1, <1>4, <2>2, <3>3, <3>4
  <2> QED BY <2>5, <2>6
<1> QED BY <1>3, <1>4

\* No step lowers max_concurrent_tries: only an overdue wait changes it.
LEMMA NextReentry == TypeInv /\ TypeInv' /\ ReentryFloor /\ [Next]_vars => ReentryFloor'
<1> SUFFICES ASSUME TypeInv, TypeInv', ReentryFloor, [Next]_vars PROVE ReentryFloor'
  OBVIOUS
<1>1. CASE reentry' = reentry
  BY <1>1 DEF ReentryFloor
<1>2. ASSUME NEW w \in Worker, Bounce(w) PROVE ReentryFloor'
  <2>1. PICK overdue \in BOOLEAN :
          reentry' = [reentry EXCEPT ![<<Here(w), w>>] = IF overdue THEN @ + 1 ELSE @]
    BY <1>2 DEF Bounce
  <2>2. reentry \in [Test \X Worker -> Nat] /\ Concurrency \in [Test -> Nat]
    BY PolicyAssumption DEF TypeInv, TypeOK
  <2>3. \A t \in Test, v \in Worker :
          reentry[<<t, v>>] <= reentry'[<<t, v>>] /\ reentry'[<<t, v>>] \in Nat
    BY <2>1, <2>2
  <2> SUFFICES ASSUME NEW t \in Test, NEW v \in Worker
               PROVE  reentry'[<<t, v>>] >= Concurrency[t]
    BY DEF ReentryFloor
  <2>4. reentry[<<t, v>>] >= Concurrency[t] /\ reentry[<<t, v>>] \in Nat /\ Concurrency[t] \in Nat
    BY <2>2 DEF ReentryFloor
  <2> QED BY <2>3, <2>4
<1>3. ASSUME NEW w \in Worker, Walk(w), ~Bounce(w) PROVE reentry' = reentry
  BY <1>3 DEF Walk, Finish, PickFromRoot, Unroll, ClimbToParent, ScanError, PassFlat, SkipTest,
     StartTest, ReturnToChild, StepBack, Postpone, Reverse, DescendToChild, nodeVars
<1>4. ASSUME NEW w \in Worker, Resume(w) \/ Await(w) PROVE reentry' = reentry
  BY <1>4 DEF Resume, Await, PreparationFails, PreparationPasses, TestDone, ResultLost, nodeVars
<1>5. CASE UNCHANGED vars \/ EndJob \/ TimeoutJob \/ Over
  BY <1>1, <1>5 DEF vars, EndJob, TimeoutJob, Over, Verdict, nodeVars
<1> QED BY <1>1, <1>2, <1>3, <1>4, <1>5 DEF Next

\* Only a start adds a worker to a test, and a start respects the threshold.
LEMMA NextExclusive ==
  TypeInv /\ TypeInv' /\ Exclusive /\ ReentryFloor /\ [Next]_vars => Exclusive'
<1> SUFFICES ASSUME TypeInv, TypeInv', Exclusive, ReentryFloor, [Next]_vars PROVE Exclusive'
  OBVIOUS
<1>0. reentry \in [Test \X Worker -> Nat] /\ started \in [Test -> SUBSET Worker]
  BY DEF TypeInv, TypeOK
<1>1. CASE UNCHANGED <<started, reentry>>
  BY <1>0, <1>1, ExclusiveMonotone DEF TypeInv
<1>2. ASSUME NEW w \in Worker, StartTest(w) PROVE Exclusive'
  BY <1>2, ExclusiveStart
<1>3. ASSUME NEW w \in Worker, NEW t \in Test, Leave(t, w), reentry' = reentry PROVE Exclusive'
  <2>1. \A u \in Test : started'[u] \subseteq started[u]
    BY <1>0, <1>3 DEF Leave
  <2> QED BY <1>0, <1>3, <2>1, ExclusiveMonotone DEF TypeInv
<1>4. ASSUME NEW w \in Worker, Bounce(w) PROVE Exclusive'
  <2>1. PICK overdue \in BOOLEAN :
          reentry' = [reentry EXCEPT ![<<Here(w), w>>] = IF overdue THEN @ + 1 ELSE @]
    BY <1>4 DEF Bounce
  <2>2. \A t \in Test, v \in Worker : reentry[<<t, v>>] <= reentry'[<<t, v>>]
    BY <1>0, <2>1
  <2>3. started' = started
    BY <1>4 DEF Bounce
  <2> QED BY <2>2, <2>3, ExclusiveMonotone DEF TypeInv
<1>5. CASE UNCHANGED vars \/ EndJob \/ TimeoutJob \/ Over
  BY <1>1, <1>5 DEF vars, EndJob, TimeoutJob, Over, Verdict, nodeVars
<1>6. ASSUME NEW w \in Worker, Resume(w) PROVE Exclusive'
  BY <1>1, <1>6 DEF Resume, nodeVars
<1>7. ASSUME NEW w \in Worker, Walk(w) PROVE Exclusive'
  <2>1. CASE Finish(w) \/ PickFromRoot(w) \/ Unroll(w) \/ ClimbToParent(w) \/ ScanError(w)
             \/ PassFlat(w) \/ SkipTest(w)
    BY <1>1, <2>1
       DEF Finish, PickFromRoot, Unroll, ClimbToParent, ScanError, PassFlat, SkipTest, nodeVars
  <2>2. CASE ReturnToChild(w) \/ StepBack(w) \/ Postpone(w) \/ Reverse(w) \/ DescendToChild(w)
    BY <1>1, <2>2 DEF ReturnToChild, StepBack, Postpone, Reverse, DescendToChild, nodeVars
  <2> QED BY <1>2, <1>4, <1>7, <2>1, <2>2 DEF Walk
<1>8. ASSUME NEW w \in Worker, Await(w) PROVE Exclusive'
  <2>1. CASE PreparationPasses(w)
    BY <1>1, <2>1 DEF PreparationPasses
  <2>2. CASE PreparationFails(w) \/ TestDone(w) \/ ResultLost(w)
    <3>1. Here(w) \in Test
      BY <2>2, AwaitFacts DEF PreparationFails, TestDone, ResultLost
    <3>2. Leave(Here(w), w) /\ reentry' = reentry
      BY <2>2 DEF PreparationFails, TestDone, ResultLost
    <3> QED BY <1>3, <3>1, <3>2
  <2> QED BY <1>8, <2>1, <2>2 DEF Await
<1> QED BY <1>5, <1>6, <1>7, <1>8 DEF Next

\* Exclusive use: within the reach of its pool scope no test is ever run by
\* more workers at once than max_tries or max_concurrent_tries allows, however
\* the workers interleave (is_occupied, started_worker).
THEOREM ExclusiveUse == Spec => []Exclusive
<1>1. Init => Exclusive
  <2> SUFFICES ASSUME Init, NEW t \in Test, NEW w \in Worker
               PROVE  Cardinality(started[t] \intersect Reach(t, w)) <= 1
    BY DEF Exclusive
  <2>1. started[t] \intersect Reach(t, w) = {}
    BY DEF Init
  <2> QED BY <2>1, FS_EmptySet
<1>2. Init => ReentryFloor
  BY PolicyAssumption DEF Init, ReentryFloor
<1> QED BY <1>1, <1>2, InitTypes, NextTypes, NextReentry, NextExclusive, PTL DEF Spec

-----------------------------------------------------------------------------
(* Setup before test.                                                      *)

\* A worker drops a parent only after it has itself traversed it.
Provenance ==
  \A n \in Node, p \in Test, w \in Worker :
    <<p, w>> \in droppedSetup[n] => w \in finished[p]

\* A worker through with a test is registered as having traversed it.
Left == \A w \in Worker : pc[w] = "after" /\ Here(w) \in Test => w \in finished[Here(w)]

\* A running test has no parent left to visit for its worker.
Ready ==
  \A w \in Worker : Running(w) => \A p \in Parents[Here(w)] : <<p, w>> \in droppedSetup[Here(w)]

\* The three parts carry each other from step to step.
SetupInv == Provenance /\ Left /\ Ready

\* Only the moving worker's part of Left and Ready is at stake.
LEMMA SetupFrame ==
  ASSUME TypeInv, TypeInv', SetupInv, Provenance', NEW w \in Worker,
         \A v \in Worker \ {w} : pc'[v] = pc[v] /\ path'[v] = path[v],
         \A n \in Node : droppedSetup[n] \subseteq droppedSetup'[n],
         \A t \in Test : finished[t] \subseteq finished'[t],
         pc'[w] = "after" /\ Here(w)' \in Test => w \in finished'[Here(w)'],
         Running(w)' => \A p \in Parents[Here(w)'] : <<p, w>> \in droppedSetup'[Here(w)']
  PROVE  SetupInv'
<1>1. \A v \in Worker \ {w} : Here(v)' = Here(v) /\ (Running(v)' <=> Running(v))
  BY DEF Here, Running
<1>2. Left'
  <2> SUFFICES ASSUME NEW v \in Worker, pc'[v] = "after", Here(v)' \in Test
               PROVE  v \in finished'[Here(v)']
    BY DEF Left
  <2>1. CASE v # w
    BY <1>1, <2>1 DEF SetupInv, Left
  <2> QED BY <2>1
<1>3. Ready'
  <2> SUFFICES ASSUME NEW v \in Worker, Running(v)', NEW p \in Parents[Here(v)']
               PROVE  <<p, v>> \in droppedSetup'[Here(v)']
    BY DEF Ready
  <2>1. CASE v # w
    <3>1. Running(v) /\ Here(v)' = Here(v) /\ Here(v) \in Node
      BY <1>1, <2>1, HereType DEF TypeInv
    <3>2. <<p, v>> \in droppedSetup[Here(v)]
      BY <3>1 DEF SetupInv, Ready
    <3> QED BY <3>1, <3>2
  <2> QED BY <2>1
<1> QED BY <1>2, <1>3 DEF SetupInv

\* A worker that only moves along its path keeps the invariant.
LEMMA SetupIdle ==
  ASSUME TypeInv, TypeInv', SetupInv, NEW w \in Worker,
         \A v \in Worker \ {w} : pc'[v] = pc[v] /\ path'[v] = path[v],
         pc'[w] \in {"ready", "loop", "sleep", "done"},
         UNCHANGED <<droppedSetup, finished>>
  PROVE  SetupInv'
<1>1. Provenance'
  BY DEF SetupInv, Provenance
<1>2. pc'[w] # "after" /\ ~Running(w)'
  BY DEF Running
<1> QED BY <1>1, <1>2, SetupFrame

\* Steps between the edges of the graph.
LEMMA SetupMoves ==
  ASSUME TypeInv, TypeInv', SetupInv, NEW w \in Worker,
         \/ Finish(w) \/ PickFromRoot(w) \/ Unroll(w) \/ Bounce(w) \/ ClimbToParent(w)
         \/ StepBack(w) \/ Postpone(w) \/ Reverse(w) \/ DescendToChild(w)
         \/ Resume(w)
  PROVE  SetupInv'
<1>0. pc \in [Worker -> {"ready", "loop", "pre", "run", "after", "sleep", "done"}]
      /\ path \in [Worker -> Seq(Node)]
  BY DEF TypeInv, TypeOK
<1>1. pc'[w] \in {"ready", "loop", "sleep", "done"}
  BY <1>0 DEF Finish, PickFromRoot, Unroll, Bounce, ClimbToParent, StepBack, Postpone, Reverse,
     DescendToChild, Resume, Yield, Goto, AtNode, Enters, HasLoop
<1>2. UNCHANGED <<droppedSetup, finished>>
  BY DEF Finish, PickFromRoot, Unroll, Bounce, ClimbToParent, StepBack, Postpone, Reverse,
     DescendToChild, Resume, edgeVars, nodeVars
<1>3. \A v \in Worker \ {w} : pc'[v] = pc[v]
  BY <1>0 DEF Finish, PickFromRoot, Unroll, Bounce, ClimbToParent, StepBack, Postpone, Reverse,
     DescendToChild, Resume, Yield, Goto
<1>4. \A v \in Worker \ {w} : path'[v] = path[v]
  BY <1>0 DEF Finish, PickFromRoot, Unroll, Bounce, ClimbToParent, StepBack, Postpone, Reverse,
     DescendToChild, Resume, walkVars, Push, Pop, BackToRoot
<1> QED BY <1>1, <1>2, <1>3, <1>4, SetupIdle

\* A worker through with a test has just been added to those that traversed it.
LEMMA SetupLeave ==
  ASSUME TypeInv, TypeInv', SetupInv, NEW w \in Worker, NEW t \in Test, t = Here(w),
         finished' = [finished EXCEPT ![t] = @ \union {w}],
         pc' = [pc EXCEPT ![w] = "after"],
         UNCHANGED <<path, droppedSetup>>
  PROVE  SetupInv'
<1>0. /\ finished \in [Test -> SUBSET Worker]
      /\ pc \in [Worker -> {"ready", "loop", "pre", "run", "after", "sleep", "done"}]
  BY DEF TypeInv, TypeOK
<1>1. \A u \in Test : finished[u] \subseteq finished'[u]
  BY <1>0
<1>2. Provenance'
  BY <1>1 DEF SetupInv, Provenance
<1>3. pc'[w] = "after" /\ \A v \in Worker \ {w} : pc'[v] = pc[v]
  BY <1>0
<1>4. ~Running(w)'
  BY <1>3 DEF Running
<1>5. Here(w)' = t /\ w \in finished'[t]
  BY <1>0 DEF Here
<1> QED BY <1>1, <1>2, <1>3, <1>4, <1>5, SetupFrame

\* A worker starts a test only when none of its parents is left to visit.
LEMMA SetupStart ==
  ASSUME TypeInv, TypeInv', SetupInv, NEW w \in Worker, StartTest(w)
  PROVE  SetupInv'
<1>0. pc \in [Worker -> {"ready", "loop", "pre", "run", "after", "sleep", "done"}]
  BY DEF TypeInv, TypeOK
<1>1. /\ Here(w) \in Test /\ IsSetupReady(Here(w), w)
      /\ UNCHANGED <<path, droppedSetup, finished>>
      /\ pc' = [pc EXCEPT ![w] = "pre"] \/ pc' = [pc EXCEPT ![w] = "run"]
  BY DEF StartTest, Traverses, Yield, edgeVars
<1>2. pc'[w] # "after" /\ \A v \in Worker \ {w} : pc'[v] = pc[v]
  BY <1>0, <1>1
<1>3. Here(w)' = Here(w)
  BY <1>1 DEF Here
<1>4. \A p \in Parents[Here(w)] : p \in SetupNodes(Here(w), w)
  BY <1>1, NodesAssumption DEF SetupNodes
<1>5. \A p \in Parents[Here(w)] : <<p, w>> \in droppedSetup[Here(w)]
  BY <1>1, <1>4 DEF IsSetupReady, OpenSetup
<1>6. Provenance'
  BY <1>1 DEF SetupInv, Provenance
<1> QED BY <1>1, <1>2, <1>3, <1>5, <1>6, SetupFrame

\* The node dropped on the way back has been traversed.
LEMMA SetupReturn ==
  ASSUME TypeInv, TypeInv', SetupInv, NEW w \in Worker, ReturnToChild(w)
  PROVE  SetupInv'
<1>0. /\ pc \in [Worker -> {"ready", "loop", "pre", "run", "after", "sleep", "done"}]
      /\ path \in [Worker -> Seq(Node)]
      /\ droppedSetup \in [Node -> SUBSET (Node \X Worker)]
  BY DEF TypeInv, TypeOK
<1>1. /\ pc[w] = "after" /\ pc' = [pc EXCEPT ![w] = "loop"]
      /\ path' = [path EXCEPT ![w] = SubSeq(@, 1, Len(@) - 1)]
      /\ finished' = finished
      /\ \/ droppedSetup' = droppedSetup
         \/ droppedSetup' = [droppedSetup EXCEPT ![Prev(w)] = @ \union {<<Here(w), w>>}]
  BY DEF ReturnToChild, HasLoop, Pop, Goto
<1>2. Here(w) \in Test => w \in finished[Here(w)]
  BY <1>1 DEF SetupInv, Left
<1>3. \A n \in Node : /\ droppedSetup[n] \subseteq droppedSetup'[n]
                      /\ droppedSetup'[n] \subseteq droppedSetup[n] \union {<<Here(w), w>>}
  BY <1>0, <1>1
<1>4. Provenance'
  <2> SUFFICES ASSUME NEW n \in Node, NEW p \in Test, NEW v \in Worker,
                      <<p, v>> \in droppedSetup'[n]
               PROVE  v \in finished[p]
    BY <1>1 DEF Provenance
  <2>1. <<p, v>> \in droppedSetup[n] \/ (p = Here(w) /\ v = w)
    BY <1>3
  <2> QED BY <1>2, <2>1 DEF SetupInv, Provenance
<1>5. /\ pc'[w] # "after" /\ ~Running(w)'
      /\ \A v \in Worker \ {w} : pc'[v] = pc[v] /\ path'[v] = path[v]
  BY <1>0, <1>1 DEF Running
<1> QED BY <1>1, <1>3, <1>4, <1>5, SetupFrame

\* Waiting for a test process neither moves the worker nor drops a parent.
LEMMA SetupAwait ==
  ASSUME TypeInv, TypeInv', SetupInv, NEW w \in Worker, Await(w)
  PROVE  SetupInv'
<1>1. CASE PreparationPasses(w)
  <2>0. pc \in [Worker -> {"ready", "loop", "pre", "run", "after", "sleep", "done"}]
    BY DEF TypeInv, TypeOK
  <2>1. /\ pc[w] = "pre" /\ pc' = [pc EXCEPT ![w] = "run"]
        /\ UNCHANGED <<path, droppedSetup, finished>>
    BY <1>1 DEF PreparationPasses, Awaits, Yield, edgeVars, walkVars
  <2>2. pc'[w] = "run" /\ \A v \in Worker \ {w} : pc'[v] = pc[v]
    BY <2>0, <2>1
  <2>3. Running(w) /\ Here(w)' = Here(w)
    BY <2>1 DEF Running, Here
  <2>4. \A p \in Parents[Here(w)] : <<p, w>> \in droppedSetup[Here(w)]
    BY <2>3 DEF SetupInv, Ready
  <2>5. Provenance'
    BY <2>1 DEF SetupInv, Provenance
  <2> QED BY <2>1, <2>2, <2>3, <2>4, <2>5, SetupFrame
<1>2. CASE PreparationFails(w) \/ TestDone(w) \/ ResultLost(w)
  <2>1. Here(w) \in Test
    BY <1>2, AwaitFacts DEF PreparationFails, TestDone, ResultLost
  <2>2. /\ finished' = [finished EXCEPT ![Here(w)] = @ \union {w}]
        /\ pc' = [pc EXCEPT ![w] = "after"]
        /\ UNCHANGED <<path, droppedSetup>>
    BY <1>2 DEF PreparationFails, TestDone, ResultLost, Leave, edgeVars, walkVars
  <2> QED BY <2>1, <2>2, SetupLeave
<1> QED BY <1>1, <1>2 DEF Await

\* A flat node or a test that need not run.
LEMMA SetupPass ==
  ASSUME TypeInv, TypeInv', SetupInv, NEW w \in Worker, PassFlat(w) \/ SkipTest(w)
  PROVE  SetupInv'
<1>1. CASE PassFlat(w)
  <2>0. pc \in [Worker -> {"ready", "loop", "pre", "run", "after", "sleep", "done"}]
    BY DEF TypeInv, TypeOK
  <2>1. /\ Here(w) \notin Test /\ pc' = [pc EXCEPT ![w] = "after"]
        /\ UNCHANGED <<path, droppedSetup, finished>>
    BY <1>1 DEF PassFlat, Goto, edgeVars, nodeVars
  <2>2. pc'[w] = "after" /\ \A v \in Worker \ {w} : pc'[v] = pc[v]
    BY <2>0, <2>1
  <2>3. Here(w)' \notin Test /\ ~Running(w)'
    BY <2>1, <2>2 DEF Here, Running
  <2>4. Provenance'
    BY <2>1 DEF SetupInv, Provenance
  <2> QED BY <2>1, <2>2, <2>3, <2>4, SetupFrame
<1>2. CASE SkipTest(w)
  <2>1. /\ Here(w) \in Test
        /\ finished' = [finished EXCEPT ![Here(w)] = @ \union {w}]
        /\ pc' = [pc EXCEPT ![w] = "after"]
        /\ UNCHANGED <<path, droppedSetup>>
    BY <1>2 DEF SkipTest, Goto, edgeVars
  <2> QED BY <2>1, SetupLeave
<1> QED BY <1>1, <1>2

\* Every step preserves the setup invariant.
LEMMA NextSetup == TypeInv /\ TypeInv' /\ SetupInv /\ [Next]_vars => SetupInv'
<1> SUFFICES ASSUME TypeInv, TypeInv', SetupInv, [Next]_vars PROVE SetupInv'
  OBVIOUS
<1>1. CASE UNCHANGED <<pc, path, droppedSetup, finished>>
  BY <1>1 DEF SetupInv, Provenance, Left, Ready, Running, Here
<1>2. CASE UNCHANGED vars \/ EndJob \/ TimeoutJob \/ Over
  BY <1>1, <1>2 DEF vars, EndJob, TimeoutJob, Over, Verdict, edgeVars, nodeVars, walkVars
<1>3. ASSUME NEW w \in Worker, ScanError(w) PROVE SetupInv'
  BY <1>1, <1>3 DEF ScanError, edgeVars, nodeVars, walkVars
<1>4. ASSUME NEW w \in Worker, Walk(w) PROVE SetupInv'
  BY <1>3, <1>4, SetupMoves, SetupPass, SetupStart, SetupReturn DEF Walk
<1> QED BY <1>2, <1>4, SetupMoves, SetupAwait DEF Next

\* Setup before test: whatever the graph and however the workers interleave, a
\* worker runs a test only after it has traversed every setup of the test
\* itself and dropped it (is_setup_ready, drop_parent, traverse_object_trees).
THEOREM SetupBeforeTest == Spec => []SetupFirst
<1>1. Init => SetupInv
  BY DEF Init, SetupInv, Provenance, Left, Ready, Running
<1>2. TypeInv /\ SetupInv => SetupFirst
  <2> SUFFICES ASSUME TypeInv, SetupInv, NEW w \in Worker, Running(w), NEW p \in Parents[Here(w)]
               PROVE  <<p, w>> \in droppedSetup[Here(w)] /\ w \in finished[p]
    BY DEF SetupFirst
  <2>1. Here(w) \in Test /\ Here(w) \in Node /\ p \in Test
    BY EdgesAssumption, HereType DEF TypeInv, Shape
  <2> QED BY <2>1 DEF SetupInv, Provenance, Ready
<1> QED BY <1>1, <1>2, InitTypes, NextTypes, NextSetup, PTL DEF Spec

=============================================================================
