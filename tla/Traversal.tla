------------------------------ MODULE Traversal ------------------------------
(***************************************************************************)
(* The Cartesian graph traversal: several workers walk one dependency      *)
(* graph of tests, run the tests they find not yet run, and undo the setup *)
(* that no one needs any more (virttest/cartgraph, plugins/runner.py).     *)
(*                                                                         *)
(* All workers are coroutines of one asyncio event loop.  A worker keeps   *)
(* the loop (turn = w) until it really suspends: it sleeps in front of an  *)
(* occupied node, or it awaits the process that runs a test.  Everything   *)
(* between two suspensions is one atomic segment of the code, which the    *)
(* model cuts into several actions that no other worker can interrupt.     *)
(*                                                                         *)
(* The copies of one test for different workers ("bridged" nodes) share    *)
(* their edge registers and are keyed by the worker-invariant name, so a   *)
(* test is one element of Test here and the registers are sets of pairs of *)
(* a neighbour and a worker.                                               *)
(***************************************************************************)
EXTENDS Integers, Sequences, FiniteSets

CONSTANTS
  Worker,       \* the traversing workers
  Test,         \* composite test nodes, up to the worker they are for
  Flat,         \* flat (not yet composed) test nodes selected by the user
  Root,         \* the shared root
  Nobody,       \* no worker has the event loop
  Shared,       \* the shared state pool
  Pool,         \* [Worker -> place]: the worker's own state pool (swarm_pool)
  Parents,      \* [Test -> SUBSET Test]: tests providing the states to get
  ObjectRoot,   \* tests that create a test object from nothing
  Expands,      \* [Flat -> SUBSET Test]: composition of a flat node
  Compatible,   \* [Flat -> SUBSET Worker]: workers with compatible objects
  Preparsed,    \* composite nodes already in the graph when traversal starts
  Restricted,   \* workers with restrictions of their own
  Prio,         \* [Node -> Nat]: the order of the node prefixes
  Stateful,     \* tests with a set_state
  Reversible,   \* tests with an unset_mode of "f..."
  Copied,       \* tests with a pool_filter of "copy"
  Skipped,      \* tests listed in /tmp/skip_tests
  Scope,        \* [Test -> {"own", "swarm", "cluster"}]: reach of pool_scope
  Swarm,        \* [Worker -> swarm id]
  Localhost,    \* the swarm id of local workers
  MaxTries,     \* [Test -> Nat]: max_tries
  Concurrency,  \* [Test -> Nat]: max_concurrent_tries, 0 when not set
  RerunStatus,  \* [Test -> SUBSET Status]
  StopStatus,   \* [Test -> SUBSET Status]
  Previous,     \* [Test -> set of results of replayed jobs]
  Initial,      \* sets of pools that may hold a state before the job
  Lookups,      \* BOOLEAN: may the lookup of a test result time out
  Leftovers,    \* BOOLEAN: may tests warn, or fail after they have set their states
  Interrupts,   \* BOOLEAN: may the job time out or a state scan break
  MaxBounces,   \* bound: wake-ups of a worker in front of occupied nodes
  MaxReentry    \* bound: highest max_concurrent_tries an overdue wait sets

Node == {Root} \union Flat \union Test

Place == {Shared} \union {Pool[w] : w \in Worker}

Status == {"PASS", "WARN", "FAIL", "UNKNOWN"}

\* A test result: the worker whose node keeps it, the worker in its name, its
\* number (the "r<n>" of a retry's prefix), its status, and whether it comes
\* from a replayed job.
Result == [node: Worker, name: Worker, no: Nat, status: Status, old: BOOLEAN]

ASSUME NodesAssumption ==
  /\ Root \notin Flat \union Test
  /\ Flat \intersect Test = {}
  /\ Nobody \notin Worker
  /\ IsFiniteSet(Worker)

\* No user-selected node is itself an object root.
ASSUME EdgesAssumption ==
  /\ Parents \in [Test -> SUBSET Test]
  /\ ObjectRoot \subseteq Test
  /\ Expands \in [Flat -> SUBSET (Test \ ObjectRoot)]
  /\ Compatible \in [Flat -> SUBSET Worker]
  /\ Preparsed \subseteq Test

\* Restrictions only take variants away: a worker without any composes
\* whatever another worker composes.
ASSUME CompatibilityAssumption ==
  \A f \in Flat : Compatible[f] # {} => Worker \ Restricted \subseteq Compatible[f]

ASSUME PolicyAssumption ==
  /\ Prio \in [Node -> Nat]
  /\ Scope \in [Test -> {"own", "swarm", "cluster"}]
  /\ MaxTries \in [Test -> Nat]
  /\ Concurrency \in [Test -> Nat]
  /\ RerunStatus \in [Test -> SUBSET Status]
  /\ StopStatus \in [Test -> SUBSET Status]
  /\ Previous \in [Test -> SUBSET [name: Worker, no: Nat, status: Status]]
  /\ \A t \in Test : IsFiniteSet(Previous[t])
  /\ Initial \subseteq SUBSET Place
  /\ MaxBounces \in Nat
  /\ MaxReentry \in Nat

VARIABLES
  turn,            \* the worker that has the event loop, or Nobody
  pc,              \* where each worker is
  path,            \* traverse_path: the stack of nodes of each worker
  occupiedAt,      \* occupied_at: nodes the worker found occupied
  stale,           \* the worker saw unexplored nodes before its last await
  bounces,         \* wake-ups so far (bounded)
  unrolled,        \* flat node -> workers it has been composed for
  parsed,          \* worker -> composite nodes in the graph for it
  pickedBySetup,   \* node -> how often it was picked as a child
  pickedByCleanup, \* node -> how often it was picked as a parent
  involved,        \* node -> workers that picked it either way
  droppedSetup,    \* node -> <<parent, worker>> that need no more visit
  droppedCleanup,  \* node -> <<child, worker>> that need no more visit
  started,         \* test -> workers traversing it now
  finished,        \* test -> workers that traversed it
  results,         \* test -> shared results of all its bridged nodes
  noRerun,         \* <<test, worker>> whose reruns were switched off
  reentry,         \* <<test, worker>> -> max_concurrent_tries (0: not set)
  have,            \* test -> pools that hold its state
  summary,         \* failing statuses the status server has received
  job              \* "running", the verdict "ok" or "fail", or how it broke

graphVars == <<unrolled, parsed>>
edgeVars == <<pickedBySetup, pickedByCleanup, involved, droppedSetup, droppedCleanup>>
nodeVars == <<started, finished, results, noRerun, reentry, have, summary>>
walkVars == <<path, occupiedAt, stale, bounces>>
vars == <<turn, job, pc, graphVars, edgeVars, nodeVars, walkVars>>

-----------------------------------------------------------------------------
(* The graph as one worker sees it: its own composite nodes and flat ones. *)

\* parse_paths_to_object_roots: the composite nodes of a flat node and all
\* the setup they depend on, down to the object roots.
ClosedUnderSetup(S) == \A t \in S : Parents[t] \subseteq S

PathsToRoots ==
  [f \in Flat |-> {t \in Test : \A S \in SUBSET Test :
                     Expands[f] \subseteq S /\ ClosedUnderSetup(S) => t \in S}]

\* What is in the graph is there with all its setup, and no test is its own setup:
\* parse_paths_to_object_roots follows the setup until it ends.
ASSUME SetupAssumption ==
  /\ ClosedUnderSetup(Preparsed)
  /\ \A S \in (SUBSET Test) \ {{}} : \E t \in S : Parents[t] \intersect S = {}

\* parse_shared_root_from_object_roots takes every node without setup for an
\* object root; a node parsed later descends from the root only if it is one.
RootChild == ObjectRoot \union {t \in Preparsed : Parents[t] = {}}

Composes(f, w) == w \in unrolled[f] /\ w \in Compatible[f]

SetupNodes(n, w) ==
  IF n = Root THEN {}
  ELSE IF n \in Flat THEN {Root}
  ELSE Parents[n] \union {f \in Flat : Composes(f, w) /\ n \in Expands[f]}
                  \union {r \in {Root} : n \in RootChild}

\* Mutant of CleanupNodes: the nodes of other workers are not left out.
AnyonesCleanupNodes(n, w) ==
  IF n = Root THEN Flat \union (RootChild \intersect UNION {parsed[v] : v \in Worker})
  ELSE IF n \in Flat THEN {t \in Expands[n] : \E v \in Worker : Composes(n, v)}
  ELSE {t \in UNION {parsed[v] : v \in Worker} : n \in Parents[t]}

CleanupNodes(n, w) ==
  IF n = Root THEN Flat \union (RootChild \intersect parsed[w])
  ELSE IF n \in Flat THEN {t \in Expands[n] : Composes(n, w)}
  ELSE {t \in parsed[w] : n \in Parents[t]}

OpenSetup(n, w) == {p \in SetupNodes(n, w) : <<p, w>> \notin droppedSetup[n]}
OpenCleanup(n, w) == {c \in CleanupNodes(n, w) : <<c, w>> \notin droppedCleanup[n]}

\* Mutant of IsSetupReady: a parent dropped by any worker counts.
IsSetupReadyForAnyone(n, w) == \A p \in SetupNodes(n, w) : \E v \in Worker : <<p, v>> \in droppedSetup[n]

IsSetupReady(n, w) == OpenSetup(n, w) = {}
IsCleanupReady(n, w) == OpenCleanup(n, w) = {}

\* Flat nodes that no worker has composed yet.
Unexplored == {f \in Flat : unrolled[f] = {}}

\* Mutant of ShouldParse: restricted workers also decide for the others.
ShouldParseUnlessReady(f) == ~ \E v \in involved[f] : v \in unrolled[f] /\ IsCleanupReady(f, v)

\* should_parse: do not compose a flat node again once some unrestricted
\* worker is through with all of it.
ShouldParse(f) ==
  ~ \E v \in involved[f] \ Restricted : v \in unrolled[f] /\ IsCleanupReady(f, v)

\* The order of pick_parent and pick_child: flat nodes first, then the least
\* picked ones, then by prefix.
Before(m, n, count) ==
  \/ m \notin Test /\ n \in Test
  \/ /\ m \in Test <=> n \in Test
     /\ \/ count[m] < count[n]
        \/ count[m] = count[n] /\ Prio[m] <= Prio[n]

First(S, count) == {m \in S : \A n \in S : Before(m, n, count)}

-----------------------------------------------------------------------------
(* Occupation, results and the run and clean decisions of a test node.     *)

\* Workers whose traversal of t counts for w.
Reach(t, w) ==
  CASE Scope[t] = "own"     -> {w}
    [] Scope[t] = "swarm"   -> {v \in Worker : Swarm[v] = Swarm[w]}
    [] Scope[t] = "cluster" -> Worker

\* is_occupied: how many workers may traverse t at once.
Threshold(t, w) ==
  LET limit == IF reentry[<<t, w>>] > 0 THEN reentry[<<t, w>>] ELSE MaxTries[t]
  IN  IF limit > 1 THEN limit ELSE 1

\* Mutant of IsOccupied: one worker too many.
IsOvercrowded(n, w) ==
  /\ n \in Test
  /\ IF Scope[n] = "own" THEN w \in started[n]
     ELSE Cardinality(started[n] \intersect Reach(n, w)) > Threshold(n, w)

IsOccupied(n, w) ==
  /\ n \in Test
  /\ IF Scope[n] = "own" THEN w \in started[n]
     ELSE Cardinality(started[n] \intersect Reach(n, w)) >= Threshold(n, w)

\* Mutant of IsFinished: the traversals of other workers do not count.
IsFinishedAlone(t, w) == w \in finished[t]

\* is_finished with a threshold of 1 and of -1.
IsFinished(t, w) == finished[t] \intersect Reach(t, w) # {}

IsFullyFinished(t, w) ==
  IF Scope[t] = "own" THEN w \in finished[t]
  ELSE finished[t] \intersect Reach(t, w) = involved[t] \intersect Reach(t, w)

\* shared_filtered_results
InReach(t, w, res) == {r \in res : r.name \in Reach(t, w)}

\* scan_states (an external control file): is the state in the own or shared pool?
StatePresent(t, w) == have[t] \intersect {Pool[w], Shared} # {}

RunFromScan(t, w) == t \in Stateful /\ ~IsFinished(t, w) /\ ~StatePresent(t, w)

\* A stateful node that is not run and has no results is never rerun.
StopsReruns(t, w, seen) == t \in Stateful /\ ~RunFromScan(t, w) /\ seen = {}

\* Mutant of ShouldRerun: one try too many.
ShouldRerunOnce(t, w, res) ==
  LET tries == IF t \in Stateful THEN InReach(t, w, res) ELSE res
  IN  /\ <<t, w>> \notin noRerun
      /\ \A r \in tries : r.status \in RerunStatus[t] \ StopStatus[t]
      /\ MaxTries[t] # 1
      /\ MaxTries[t] >= Cardinality(tries)

ShouldRerun(t, w, res) ==
  LET tries == IF t \in Stateful THEN InReach(t, w, res) ELSE res
  IN  /\ <<t, w>> \notin noRerun
      /\ \A r \in tries : r.status \in RerunStatus[t] \ StopStatus[t]
      /\ MaxTries[t] # 1
      /\ MaxTries[t] > Cardinality(tries)

\* default_run_decision; seen are the filtered results at this call.
ShouldRun(n, w, res, seen) ==
  /\ n \in Test \ Skipped
  /\ \/ n \notin Stateful /\ res = {}
     \/ RunFromScan(n, w)
     \/ ~StopsReruns(n, w, seen) /\ ShouldRerun(n, w, res)

\* Mutant of ShouldClean: no worker waits for those still at the test's children.
ShouldCleanEarly(t, w) == t \notin Reversible \/ IsFullyFinished(t, w)

\* default_clean_decision: the last worker closes the door.
ShouldClean(t, w) ==
  \/ t \notin Reversible
  \/ /\ \A v \in involved[t] :
          \/ Swarm[w] # Localhost /\ Swarm[v] # Swarm[w]
          \/ /\ IsCleanupReady(t, v)
             /\ \A r \in results[t] : ~(r.node = v /\ r.status = "UNKNOWN")
     /\ IsFullyFinished(t, w)

-----------------------------------------------------------------------------
(* One worker's walk (traverse_object_trees).                              *)

Here(w) == path[w][Len(path[w])]
Prev(w) == path[w][Len(path[w]) - 1]
Push(w, n) == path' = [path EXCEPT ![w] = Append(@, n)]
\* Mutant of Pop: the path is not shortened.
PopNothing(w) == path' = path
Pop(w) == path' = [path EXCEPT ![w] = SubSeq(@, 1, Len(@) - 1)]
BackToRoot(w) == path' = [path EXCEPT ![w] = <<Root>>]

Upward(w) == Prev(w) \in CleanupNodes(Here(w), w)
Downward(w) == Prev(w) \in SetupNodes(Here(w), w)

HasLoop(w, at) == job = "running" /\ turn = w /\ pc[w] = at
Yield(w, at) == turn' = Nobody /\ pc' = [pc EXCEPT ![w] = at]
Goto(w, at) == turn' = turn /\ pc' = [pc EXCEPT ![w] = at]

Register(w, n) == involved' = [involved EXCEPT ![n] = @ \union {w}]

Init ==
  /\ turn = Nobody
  /\ job = "running"
  /\ pc = [w \in Worker |-> "ready"]
  /\ path = [w \in Worker |-> <<Root>>]
  /\ occupiedAt = [w \in Worker |-> {}]
  /\ stale = [w \in Worker |-> FALSE]
  /\ bounces = [w \in Worker |-> 0]
  /\ unrolled = [f \in Flat |-> {}]
  /\ parsed = [w \in Worker |-> Preparsed]
  /\ pickedBySetup = [n \in Node |-> 0]
  /\ pickedByCleanup = [n \in Node |-> 0]
  /\ involved = [n \in Node |-> {}]
  /\ droppedSetup = [n \in Node |-> {}]
  /\ droppedCleanup = [n \in Node |-> {}]
  /\ started = [t \in Test |-> {}]
  /\ finished = [t \in Test |-> {}]
  /\ results = [t \in Test |-> {}]
  /\ noRerun = {}
  /\ reentry = [x \in Test \X Worker |-> Concurrency[x[1]]]
  /\ have \in {h \in [Test -> Initial \union {{}}] : \A t \in Test \ Stateful : h[t] = {}}
  /\ summary = {}

\* The event loop runs the worker's coroutine, for the first time or after
\* its sleep.  Wake-ups beyond the bound wait for the occupied nodes instead.
Resume(w) ==
  /\ job = "running" /\ turn = Nobody
  /\ \/ pc[w] = "ready" /\ bounces' = bounces
     \/ /\ pc[w] = "sleep"
        /\ \/ bounces[w] < MaxBounces
           \/ \A n \in occupiedAt[w] : ~IsOccupied(n, w)
        /\ bounces' = [bounces EXCEPT ![w] = IF @ < MaxBounces THEN @ + 1 ELSE @]
  /\ turn' = w
  /\ pc' = [pc EXCEPT ![w] = "loop"]
  /\ UNCHANGED <<job, path, occupiedAt, stale, graphVars, edgeVars, nodeVars>>

\* while not root.is_cleanup_ready(worker)
Finish(w) ==
  /\ HasLoop(w, "loop")
  /\ IsCleanupReady(Root, w)
  /\ Yield(w, "done")
  /\ UNCHANGED <<job, graphVars, edgeVars, nodeVars, walkVars>>

PickFromRoot(w) ==
  /\ HasLoop(w, "loop")
  /\ ~IsCleanupReady(Root, w)
  /\ Len(path[w]) = 1
  /\ \E c \in First(OpenCleanup(Root, w), pickedBySetup) :
       /\ Push(w, c)
       /\ pickedBySetup' = [pickedBySetup EXCEPT ![c] = @ + 1]
       /\ Register(w, c)
  /\ UNCHANGED <<turn, pc, job, graphVars, pickedByCleanup, droppedSetup, droppedCleanup,
                 nodeVars, occupiedAt, stale, bounces>>

\* The worker looks at a node other than the root's turn to pick.
AtNode(w) == HasLoop(w, "loop") /\ ~IsCleanupReady(Root, w) /\ Len(path[w]) > 1

MustUnroll(w) ==
  /\ Here(w) \in Flat
  /\ w \notin unrolled[Here(w)]
  /\ Unexplored # {} \/ ShouldParse(Here(w))

\* Mutant of Unroll: an incompatible worker is not remembered.
UnrollCompatible(w) ==
  /\ AtNode(w)
  /\ MustUnroll(w)
  /\ unrolled' = [unrolled EXCEPT ![Here(w)] = @ \union ({w} \intersect Compatible[Here(w)])]
  /\ parsed' = [parsed EXCEPT ![w] =
       @ \union {t \in PathsToRoots[Here(w)] : w \in Compatible[Here(w)]}]
  /\ UNCHANGED <<turn, pc, job, edgeVars, nodeVars, walkVars>>

\* Compose a flat node and parse its setup on demand.
Unroll(w) ==
  /\ AtNode(w)
  /\ MustUnroll(w)
  /\ unrolled' = [unrolled EXCEPT ![Here(w)] = @ \union {w}]
  /\ parsed' = [parsed EXCEPT ![w] =
       @ \union {t \in PathsToRoots[Here(w)] : w \in Compatible[Here(w)]}]
  /\ UNCHANGED <<turn, pc, job, edgeVars, nodeVars, walkVars>>

\* An occupied node sends the worker back to the root and to sleep.  A wait
\* longer than the test may take (overdue) raises max_concurrent_tries.
Bounce(w) ==
  /\ AtNode(w) /\ ~MustUnroll(w)
  /\ IsOccupied(Here(w), w)
  /\ \E overdue \in BOOLEAN :
       /\ overdue => Here(w) \in occupiedAt[w] /\ reentry[<<Here(w), w>>] < MaxReentry
       /\ reentry' = [reentry EXCEPT ![<<Here(w), w>>] = IF overdue THEN @ + 1 ELSE @]
  /\ occupiedAt' = [occupiedAt EXCEPT ![w] = @ \union {Here(w)}]
  /\ BackToRoot(w)
  /\ Yield(w, "sleep")
  /\ UNCHANGED <<job, graphVars, edgeVars, started, finished, results, noRerun, have,
                 summary, stale, bounces>>

Enters(w) == AtNode(w) /\ ~MustUnroll(w) /\ ~IsOccupied(Here(w), w)

\* Parents have higher priority than the node and its children.
ClimbToParent(w) ==
  /\ Enters(w)
  /\ Upward(w) \/ Downward(w)
  /\ ~IsSetupReady(Here(w), w)
  /\ occupiedAt' = [occupiedAt EXCEPT ![w] = @ \ {Here(w)}]
  /\ \E p \in First(OpenSetup(Here(w), w), pickedByCleanup) :
       /\ Push(w, p)
       /\ pickedByCleanup' = [pickedByCleanup EXCEPT ![p] = @ + 1]
       /\ Register(w, p)
  /\ UNCHANGED <<turn, pc, job, graphVars, pickedBySetup, droppedSetup, droppedCleanup,
                 nodeVars, stale, bounces>>

-----------------------------------------------------------------------------
(* traverse_node, with run_test_node and traverse_terminal_node.           *)

Traverses(w) ==
  /\ Enters(w)
  /\ Upward(w) \/ Downward(w)
  /\ IsSetupReady(Here(w), w)

Remember(w) ==
  /\ occupiedAt' = [occupiedAt EXCEPT ![w] = @ \ {Here(w)}]
  /\ stale' = [stale EXCEPT ![w] = Unexplored # {}]

\* Results of replayed jobs join a node when it has none of its own.
Replayed(t, w) ==
  IF \E r \in results[t] : r.node = w THEN {}
  ELSE {[node |-> w, name |-> r.name, no |-> r.no, status |-> r.status, old |-> TRUE] :
          r \in Previous[t]}

Begun(t, w) == results[t] \union Replayed(t, w)

\* run_test_node adds an UNKNOWN result until the test is over.
Pending(w, res) ==
  [node |-> w, name |-> w, no |-> Cardinality(res), status |-> "UNKNOWN", old |-> FALSE]

SwitchReruns(t, w, seen) ==
  noRerun' = IF StopsReruns(t, w, seen) THEN noRerun \union {<<t, w>>} ELSE noRerun

\* The shared root and flat nodes are never run.
PassFlat(w) ==
  /\ Traverses(w)
  /\ Here(w) \notin Test
  /\ Remember(w)
  /\ Goto(w, "after")
  /\ UNCHANGED <<job, graphVars, edgeVars, nodeVars, path, bounces>>

SkipTest(w) ==
  LET t == Here(w)
      res == Begun(t, w)
  IN  /\ Traverses(w)
      /\ t \in Test
      /\ ~ShouldRun(t, w, res, InReach(t, w, res))
      /\ Remember(w)
      /\ results' = [results EXCEPT ![t] = res]
      /\ SwitchReruns(t, w, InReach(t, w, res))
      /\ finished' = [finished EXCEPT ![t] = @ \union {w}]
      /\ Goto(w, "after")
      /\ UNCHANGED <<job, graphVars, edgeVars, started, reentry, have, summary, path, bounces>>

\* Awaits the test process; an object root is prepared by a node of its own.
StartTest(w) ==
  LET t == Here(w)
      res == Begun(t, w)
  IN  /\ Traverses(w)
      /\ t \in Test
      /\ ShouldRun(t, w, res, InReach(t, w, res))
      /\ Remember(w)
      /\ started' = [started EXCEPT ![t] = @ \union {w}]
      /\ IF t \in ObjectRoot
         THEN results' = [results EXCEPT ![t] = res] /\ Yield(w, "pre")
         ELSE results' = [results EXCEPT ![t] = res \union {Pending(w, res)}] /\ Yield(w, "run")
      /\ UNCHANGED <<job, graphVars, edgeVars, finished, noRerun, reentry, have, summary, path,
                     bounces>>

\* A control file error in scan_states is not caught by anyone.
ScanError(w) ==
  /\ Interrupts
  /\ Traverses(w)
  /\ Here(w) \in Stateful
  /\ ~IsFinished(Here(w), w)
  /\ job' = "crashed"
  /\ UNCHANGED <<turn, pc, graphVars, edgeVars, nodeVars, walkVars>>

\* Mutant of Leave: the started worker is forgotten before it is registered.
LeaveForgotten(t, w) ==
  /\ started' = [started EXCEPT ![t] = @ \ {w}]
  /\ finished' = [finished EXCEPT ![t] = @ \union {Nobody}]
  /\ turn' = w
  /\ pc' = [pc EXCEPT ![w] = "after"]

Leave(t, w) ==
  /\ started' = [started EXCEPT ![t] = @ \ {w}]
  /\ finished' = [finished EXCEPT ![t] = @ \union {w}]
  /\ turn' = w
  /\ pc' = [pc EXCEPT ![w] = "after"]

Awaits(w, at) == job = "running" /\ turn = Nobody /\ pc[w] = at

\* traverse_terminal_node: the preparation of an object root has ended (badly
\* also if its result is not found in time).
PreparationFails(w) ==
  /\ Awaits(w, "pre")
  /\ summary' \in {summary \union {"FAIL"}} \union {s \in {summary} : Lookups}
  /\ Leave(Here(w), w)
  /\ UNCHANGED <<job, graphVars, edgeVars, results, noRerun, reentry, have, walkVars>>

PreparationPasses(w) ==
  /\ Awaits(w, "pre")
  /\ results' = [results EXCEPT ![Here(w)] = @ \union {Pending(w, @)}]
  /\ Yield(w, "run")
  /\ UNCHANGED <<job, graphVars, edgeVars, started, finished, noRerun, reentry, have, summary,
                 walkVars>>

IsPending(r, w) == r.node = w /\ r.status = "UNKNOWN" /\ ~r.old

Passed(t, w) == \E r \in results[t] : r.node = w /\ r.status = "PASS"

\* The test is over: its status replaces one UNKNOWN result of this node.  A
\* pass much slower than an earlier one is a warning.  With Leftovers a test may
\* also warn by itself, and then it has set no state, or fail in the
\* postprocessing, and then it may have set it.
TestDone(w) ==
  LET t == Here(w)
      kept == [have EXCEPT ![t] = @ \union {Pool[w]}]
  IN  /\ Awaits(w, "run")
      /\ \E status \in {"PASS", "WARN", "FAIL"}, r \in {x \in results[t] : IsPending(x, w)} :
           /\ \/ /\ status = "PASS" \/ (status = "WARN" /\ Passed(t, w))
                 /\ have' = IF t \in Stateful THEN kept ELSE have
              \/ status = "FAIL" /\ have' = have
              \/ Leftovers /\ status = "WARN" /\ have' = have
              \/ Leftovers /\ status = "FAIL" /\ t \in Stateful /\ have' = kept
           /\ results' = [results EXCEPT ![t] =
                (@ \ {r}) \union {[r EXCEPT !.status = status]}]
           /\ summary' = IF status = "FAIL" THEN summary \union {status} ELSE summary
      /\ Leave(t, w)
      /\ UNCHANGED <<job, graphVars, edgeVars, noRerun, reentry, walkVars>>

\* The result is not found in time and stays UNKNOWN, whatever the test did.
ResultLost(w) ==
  /\ Lookups
  /\ Awaits(w, "run")
  /\ \/ /\ Here(w) \in Stateful
        /\ have' = [have EXCEPT ![Here(w)] = @ \union {Pool[w]}]
        /\ summary' = summary
     \/ have' = have /\ summary' \in {summary, summary \union {"FAIL"}}
  /\ Leave(Here(w), w)
  /\ UNCHANGED <<job, graphVars, edgeVars, results, noRerun, reentry, walkVars>>

-----------------------------------------------------------------------------
(* After traverse_node: drop, retry, postpone, clean up or walk on.        *)

\* should_run once more, now that no worker is marked as started.
RunsAgain(w) ==
  Here(w) \in Test /\ ShouldRun(Here(w), w, results[Here(w)], results[Here(w)])

SwitchRerunsHere(w) ==
  IF Here(w) \in Test THEN SwitchReruns(Here(w), w, results[Here(w)])
  ELSE noRerun' = noRerun

ReturnToChild(w) ==
  /\ HasLoop(w, "after")
  /\ Upward(w)
  /\ droppedSetup' = IF RunsAgain(w) THEN droppedSetup
                     ELSE [droppedSetup EXCEPT ![Prev(w)] = @ \union {<<Here(w), w>>}]
  /\ SwitchRerunsHere(w)
  /\ Pop(w)
  /\ Goto(w, "loop")
  /\ UNCHANGED <<job, graphVars, pickedBySetup, pickedByCleanup, involved, droppedCleanup,
                 started, finished, results, reentry, have, summary, occupiedAt, stale, bounces>>

\* Nodes to be retried postpone the traversal down.
StepBack(w) ==
  /\ HasLoop(w, "after")
  /\ ~Upward(w) /\ RunsAgain(w)
  /\ Pop(w)
  /\ Goto(w, "loop")
  /\ UNCHANGED <<job, graphVars, edgeVars, nodeVars, occupiedAt, stale, bounces>>

\* Mutant of MustPostpone: a node without open children is cleaned up at once.
NeverPostpone(w) == FALSE

\* A composite node may still get children from nodes not yet composed.
MustPostpone(w) == Here(w) \in Test /\ stale[w]

Postpone(w) ==
  /\ HasLoop(w, "after")
  /\ ~Upward(w) /\ ~RunsAgain(w)
  /\ IsCleanupReady(Here(w), w)
  /\ MustPostpone(w)
  /\ SwitchRerunsHere(w)
  /\ BackToRoot(w)
  /\ Goto(w, "loop")
  /\ UNCHANGED <<job, graphVars, edgeVars, started, finished, results, reentry, have,
                 summary, occupiedAt, stale, bounces>>

\* sync_states: unset the state in the own pool or copy it from the shared
\* one; an error of the control file is only logged.
SyncStates(t, w) ==
  IF t \in Reversible
  THEN have' \in {have, [have EXCEPT ![t] = @ \ {Pool[w]}]}
  ELSE IF t \in Copied /\ Shared \in have[t]
  THEN have' \in {have, [have EXCEPT ![t] = @ \union {Pool[w]}]}
  ELSE have' = have

\* drop_child in every setup node, then reverse_node.
Reverse(w) ==
  LET n == Here(w)
  IN  /\ HasLoop(w, "after")
      /\ ~Upward(w) /\ ~RunsAgain(w)
      /\ IsCleanupReady(n, w)
      /\ ~MustPostpone(w)
      /\ SwitchRerunsHere(w)
      /\ droppedCleanup' = [m \in Node |->
           IF m \in SetupNodes(n, w) THEN droppedCleanup[m] \union {<<n, w>>}
           ELSE droppedCleanup[m]]
      /\ IF n \in Stateful /\ ~IsOccupied(n, w) /\ ShouldClean(n, w)
         THEN SyncStates(n, w) ELSE have' = have
      /\ Pop(w)
      /\ Goto(w, "loop")
      /\ UNCHANGED <<job, graphVars, pickedBySetup, pickedByCleanup, involved, droppedSetup,
                     started, finished, results, reentry, summary, occupiedAt, stale, bounces>>

DescendToChild(w) ==
  /\ HasLoop(w, "after")
  /\ ~Upward(w) /\ ~RunsAgain(w)
  /\ ~IsCleanupReady(Here(w), w)
  /\ SwitchRerunsHere(w)
  /\ \E c \in First(OpenCleanup(Here(w), w), pickedBySetup) :
       /\ Push(w, c)
       /\ pickedBySetup' = [pickedBySetup EXCEPT ![c] = @ + 1]
       /\ Register(w, c)
  /\ Goto(w, "loop")
  /\ UNCHANGED <<job, graphVars, pickedByCleanup, droppedSetup, droppedCleanup, started,
                 finished, results, reentry, have, summary, occupiedAt, stale, bounces>>

-----------------------------------------------------------------------------
(* The job (run_workers, run_suite).                                       *)

\* The job fails if a test never got an acceptable result (all_results_ok) or
\* if any try failed, since all statuses received join the summary: the second
\* covers the first.
Verdict ==
  /\ job' = IF summary = {} THEN "ok" ELSE "fail"
  /\ UNCHANGED <<turn, pc, graphVars, edgeVars, nodeVars, walkVars>>

\* All workers are gathered.
EndJob ==
  /\ job = "running" /\ turn = Nobody
  /\ \A w \in Worker : pc[w] = "done"
  /\ Verdict

\* The job timeout leaves the workers where they are and is only logged.
TimeoutJob ==
  /\ Interrupts
  /\ job = "running" /\ turn = Nobody
  /\ \E w \in Worker : pc[w] # "done"
  /\ Verdict

Over == job # "running" /\ UNCHANGED vars

Walk(w) ==
  \/ Finish(w) \/ PickFromRoot(w) \/ Unroll(w) \/ Bounce(w)
  \/ ClimbToParent(w) \/ PassFlat(w) \/ SkipTest(w) \/ StartTest(w) \/ ScanError(w)
  \/ ReturnToChild(w) \/ StepBack(w) \/ Postpone(w) \/ Reverse(w) \/ DescendToChild(w)

Await(w) ==
  PreparationFails(w) \/ PreparationPasses(w) \/ TestDone(w) \/ ResultLost(w)

Next == EndJob \/ TimeoutJob \/ Over \/ \E w \in Worker : Resume(w) \/ Walk(w) \/ Await(w)

\* The event loop serves every ready coroutine in turn, test processes end
\* (task.timeout.running kills them), and a coroutine with the loop goes on.
Fairness ==
  /\ WF_vars(EndJob)
  /\ \A w \in Worker : WF_vars(Walk(w)) /\ SF_vars(Resume(w)) /\ SF_vars(Await(w))

Spec == Init /\ [][Next]_vars /\ Fairness

-----------------------------------------------------------------------------
(* Properties.                                                             *)

\* Every variable has its type.
TypeOK ==
  /\ turn \in Worker \union {Nobody}
  /\ job \in {"running", "ok", "fail", "crashed"}
  /\ pc \in [Worker -> {"ready", "loop", "pre", "run", "after", "sleep", "done"}]
  /\ path \in [Worker -> Seq(Node)]
  /\ occupiedAt \in [Worker -> SUBSET Test]
  /\ stale \in [Worker -> BOOLEAN]
  /\ bounces \in [Worker -> 0..MaxBounces]
  /\ unrolled \in [Flat -> SUBSET Worker]
  /\ parsed \in [Worker -> SUBSET Test]
  /\ pickedBySetup \in [Node -> Nat]
  /\ pickedByCleanup \in [Node -> Nat]
  /\ involved \in [Node -> SUBSET Worker]
  /\ droppedSetup \in [Node -> SUBSET (Node \X Worker)]
  /\ droppedCleanup \in [Node -> SUBSET (Node \X Worker)]
  /\ started \in [Test -> SUBSET Worker]
  /\ finished \in [Test -> SUBSET Worker]
  /\ results \in [Test -> SUBSET Result]
  /\ noRerun \subseteq Test \X Worker
  /\ reentry \in [Test \X Worker -> Nat]
  /\ have \in [Test -> SUBSET Place]
  /\ summary \subseteq {"FAIL"}

Running(w) == pc[w] \in {"pre", "run"}

\* The assertions of traverse_object_trees never fail: a worker leaves the
\* loop only at the shared root, its path follows the edges of the graph in
\* one direction or the other, and it runs only tests parsed for it.
AssertionsHold ==
  \A w \in Worker :
    /\ HasLoop(w, "loop") /\ IsCleanupReady(Root, w) => path[w] = <<Root>>
    /\ Enters(w) => Upward(w) \/ Downward(w)
    /\ Running(w) => Here(w) \in parsed[w]

\* is_occupied: within the reach of its pool scope, a test is never run by
\* more workers at once than max_concurrent_tries allows some worker or, where
\* that is not set from the start, max_tries.
Exclusive ==
  \A t \in Test, w \in Worker :
    LET crowd == Cardinality(started[t] \intersect Reach(t, w))
    IN  \/ crowd <= 1
        \/ Concurrency[t] = 0 /\ crowd <= MaxTries[t]
        \/ \E v \in Worker : crowd <= reentry[<<t, v>>]

\* is_setup_ready: a worker runs a test only after it has itself been through
\* every setup of the test and found nothing left to run there.
SetupFirst ==
  \A w \in Worker : Running(w) =>
    \A p \in Parents[Here(w)] : <<p, w>> \in droppedSetup[Here(w)] /\ w \in finished[p]

\* pull_locations: the pools a worker may get the state of t from, those of the
\* workers with a passing shared result as far as its pool scope reaches
\* (pull_locations lists all of them, get_sources leaves out the others).
Sources(t, w) ==
  {Shared, Pool[w]} \union
    {Pool[v] : v \in {r.name : r \in {x \in InReach(t, w, results[t]) : x.status = "PASS"}}}

\* default_clean_decision ("a node will be run for missing setup but its
\* parent will be reversed before it gets any parent-provided states"): the
\* state of a setup that passed in this job within the worker's reach is in
\* one of the worker's sources as long as the worker runs a dependent test.
SetupInPlace ==
  \A w \in Worker : Running(w) =>
    \A p \in Parents[Here(w)] \intersect Stateful :
      (\E r \in InReach(p, w, results[p]) : r.status = "PASS" /\ ~r.old)
        => have[p] \intersect Sources(p, w) # {}

\* A test with one try, or one that is retried while tries of other workers have
\* no status yet (UNKNOWN is one of the statuses rerun_status stands for by default).
Steady(t) == MaxTries[t] <= 1 \/ "UNKNOWN" \in RerunStatus[t] \ StopStatus[t]

\* Workers share pools within a swarm only, the tests that need a reversible state
\* are steady, and object roots, whose preparation is no result, are not undone.
OrderlyCleanup ==
  /\ \A v, w \in Worker : Pool[v] = Pool[w] => Swarm[v] = Swarm[w]
  /\ \A t \in Test : Parents[t] \intersect Reversible # {} => Steady(t)
  /\ ObjectRoot \intersect Reversible = {}

\* sync_states: a state is removed only when no worker runs the test that
\* makes it or a test that needs it, in any pool shared with the remover.
CleanAfterUse ==
  [][\A t \in Test : have[t] \ have'[t] # {} =>
       \A w \in Worker : Running(w) /\ Pool[w] \in have[t] \ have'[t] =>
         Here(w) # t /\ t \notin Parents[Here(w)]]_vars

\* should_rerun: within the reach of its pool scope a test is tried at most
\* max_tries times in one job (once if max_tries is 0), or as often as
\* max_concurrent_tries lets workers start it before the first of them is through.
\* (An object root is left out: its try counts only once it has been prepared.)
BoundedTries ==
  \A t \in Test \ ObjectRoot, w \in Worker :
    LET tries == Cardinality({r \in InReach(t, w, results[t]) : ~r.old})
    IN  tries <= 1 \/ tries <= MaxTries[t] \/ \E v \in Worker : tries <= reentry[<<t, v>>]

\* should_parse and the postponed cleanup: once all workers are back at the
\* root, every selected test some worker can compose has been traversed, and
\* so has all of its setup.
NothingForgotten ==
  (\A w \in Worker : pc[w] = "done") =>
    \A f \in Flat : Compatible[f] # {} =>
      \A t \in PathsToRoots[f] : finished[t] # {}

\* The traversal ends, whatever waits for whatever.
Termination == <>(job # "running")

=============================================================================
