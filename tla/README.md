# A TLA+ verification of avocado-vt

avocado-vt runs virtualisation tests. In this repository it also carries a
*Cartesian graph*: tests depend on states of virtual machines that other tests
create, several workers walk the graph of these dependencies at once, and the
states they make are kept in pools that the workers share. Around that are the
life of a single test with its VMs, the monitors through which the threads of a
test talk to QEMU, the lock that keeps jobs apart, and the agents and resources
of a cluster of hosts. These parts are concurrent, fail partially, outlive the
processes that own them, and are hard to test, so they are what is modelled.

| Module | Models |
|---|---|
| `Traversal` | the walk of all workers over the graph, and the job around it |
| `StatePool` | policies, transfers and locks of states in shared pools |
| `VirtTest` | tests, one after the other, with their VMs, setuppers, hooks and threads |
| `JobLock`, `ExclusiveJobs` | the lock files of jobs, and what they are for |
| `ClusterJob` | the hooks that start agents and attach pools, over several jobs |
| `Volumes` | volumes of a test, their bindings and backings on several nodes |
| `Monitor` | the QMP monitor shared by threads |

`MC*.tla` with the `.cfg` files are their instances for TLC, `*Proofs.tla` hold
the theorems for TLAPS, and `PROJECT.json` lists components, runs, mutants, the
correspondence of definitions and source lines, findings, hazards and theorems.

    tlc -workers 2 -config MCTraversal_retries.cfg MCTraversal
    tlapm TraversalProofs.tla

## 1. Inventory

| Component | State it keeps | Operations | Hard behaviour | What makes it correct |
|---|---|---|---|---|
| Graph traversal (`virttest/cartgraph/graph.py`, `node.py`) | one path per worker; per node: edge registers (picked, dropped), started and finished workers, results | `traverse_object_trees`, `traverse_node`, `traverse_terminal_node`, `reverse_node`; `should_parse/run/rerun/clean`, `scan_states`, `sync_states` | coroutines interleave at every await; nodes are composed while others walk; retries; waiting for occupied nodes | setup before test, no more tries or concurrent tries than allowed, no cleanup in use, nothing forgotten, it ends |
| Traversal runner (`avocado_vt/plugins/runner.py`) | job results, summary, previous results | `run_test_task`, `run_test_node`, `run_workers`, `run_suite` | late or lost results, job timeout | every try has one result; an unfinished job is not a success |
| Workers and objects (`cartgraph/worker.py`, `object.py`) | worker parameters, restrictions | `start`, parsing of objects | remote environments | – |
| State policies (`virttest/states/setup.py`, `hooks.py`) | none (parameters) | `check/get/set/unset/push/pop_states` | what was checked is stale when used | each policy does what its letters say |
| State pool (`states/pool.py`) | pool directories, lock files | `show/get/set/unset`, `compare_chain`, `transfer_chain`, `image_lock` | concurrent processes, chains of files, several mirrors, lock timeouts, killed processes | chains are got whole, nothing stays torn, all mirrors agree after a set |
| State backends (`states/qcow2.py`, `lvm.py`, `ramfile.py`, `btrfs.py`, `lxc.py`, `vmnet.py`) | images, snapshots, dumps | `show/get/set/unset`, root states | one tool of several fails | state and object agree |
| Cluster (`virttest/vt_cluster`, `plugins/vt_cluster.py`, `avocado_vt/vt_agent`) | pickled registry of nodes, agent servers with ports, PID files and data directories | bootstrap, start and stop of agents in threads, RPC | agents and mounts outlive killed jobs, starts time out, failures in the middle of a set-up | tests begin on a complete cluster; a job leaves nothing behind; files in pools are left alone |
| Resource manager (`virttest/vt_resmgr`) | pools with their connections, volumes with bindings and metadata; backings in the agents | attach, detach, create, bind, allocate, release, clone, destroy | partial failure over nodes, calls in any order | controller and agents agree; no file is left of a destroyed volume |
| Legacy scheduler (`virttest/scheduler.py`) | test status, worker assignment | message loop | pipes | not modelled: nothing imports it and it cannot run under Python 3 |
| Job lock (`plugins/vt_joblock.py`) | lock files with PIDs | lock, unlock | no atomic test-and-set, killed jobs, reused PIDs | one job with VT tests at a time, every job decides |
| Test environment (`avocado_vt/test.py`, `utils_env.py`, `env_process.py`, `test_setup/`, `states/hooks.py`) | pickled VM objects, QEMU processes, list of setuppers, screendump thread | pre- and postprocessing, save and destroy | every step may fail, only some failures are caught; a thread reports errors; kills | no VM out of reach, host restored, states and verdict agree, tests end |
| Remote commander (`remote_commander/`) | commands under way | request, response, stream messages | asynchronous answers | not modelled: Python 2 code that cannot run under Python 3 |
| Monitors (`qemu_monitor.py`) | lock, collected events, socket | commands, raw commands, get and clear events | threads share a socket, commands give up before their answers come | every call gets its own answer, no event is lost, the lock is given back |
| VMs, devices, network, configuration parser, libraries | – | – | mostly in QEMU, libvirt or the guest | not modelled, see `PROJECT.json` |

Interaction. The runner starts one coroutine per worker (`run_workers` →
`traverse_object_trees`) and gathers them. A coroutine calls the decisions of
the node it is at; to run a test it awaits a process (`run_test_task`), to look
at or change states outside of a test it runs a control file (`scan_states`,
`sync_states`). In the test process the hooks (`hooks.py`) call the state
policies before and after the test, and these the sourced backend, which moves
files between the worker's own pool and the others. Processes of different
workers meet in the pools only. `hooks.py` sets `pool_scope` to "own" for
setting and unsetting, so a test saves its state in the worker's own pool;
uploads are done by whoever calls `set_states` or `push_states` with a wider
scope (the pool tools and tests of `tp_multivm`).

Jobs meet in the lock files and in what they leave on hosts. Tests on a host run
one after the other and meet in the environment file and in the QEMU processes
that file names; the verdict of a test (`VirtTest`) is what the traversal acts
on (`TestDone`). A test on a cluster calls the resource manager, and this the
agents of the nodes, which the hooks of the job have started.

The hazards that follow from this, each at its line, are in `PROJECT.json`.

## 2. Plan

Done, in this order: `Traversal`, `StatePool`, `JobLock` with the abstract
`ExclusiveJobs` it implements, `ClusterJob`, `Monitor`, `Volumes`, `VirtTest`;
theorems about each of them, among them every invariant and every action property
that a passing run checks (section 7), except for `SetupInPlace`.

Left: an abstract specification of the pools, one register of states per scope, that
StatePool implements where a state has one builder, and the composition of
Traversal's `have` with it. `GetsWhole` and `SetReachesAll` (section 7) are what such
a refinement would rest on. Root states and vm state files in these terms.

## 3. Traversal

`Traversal` is one asyncio event loop. `turn` is the coroutine that has it. Code
between two real suspensions is atomic: a worker that has the turn keeps it until
it sleeps in front of an occupied node (`Bounce`), awaits a test process
(`StartTest`, `PreparationPasses`) or is done (`Finish`). The actions of one
segment are separate because a reader of the code finds them as branches of one
loop, not because anybody else could come between them.

| Variable | Code |
|---|---|
| `path` | `traverse_path` |
| `pickedBySetup`, `pickedByCleanup`, `involved`, `droppedSetup`, `droppedCleanup` | the `EdgeRegister`s of a node, which bridged nodes share |
| `unrolled`, `parsed` | `is_unrolled`, nodes in `TestGraph.nodes` for a worker |
| `started`, `finished`, `results` | `started_worker`, `finished_worker`, `results` of all bridged nodes |
| `noRerun`, `reentry` | changes of `max_tries` and `max_concurrent_tries` in a node's parameters |
| `have` | pools that hold the state of a test |
| `stale` | `len(unexplored_nodes) > 0`, computed before `traverse_node` awaits |
| `summary`, `job` | `summary` and the verdict of `run_suite` |

`traverse_object_trees` is `PickFromRoot`, `Unroll`, `Bounce`, `ClimbToParent`,
`ReturnToChild`, `StepBack`, `Postpone`, `Reverse`, `DescendToChild`, `Finish`;
`traverse_node` and `traverse_terminal_node` are `PassFlat`, `SkipTest`,
`StartTest`, `PreparationPasses`, `PreparationFails`; `run_test_node` ends in
`TestDone` or, if the lookup of the result gives up, `ResultLost`; `run_workers`
is `Resume`, `EndJob`, `TimeoutJob`.

Abstractions:

- The copies of a test for different workers (bridged nodes) are one element of
  `Test`; their registers are pairs with a worker. The graph below a flat node
  is the constant `Expands` with `Parents`, the same for all compatible workers.
- Prefixes are an order (`Prio`); with equal values every order is explored.
- Failing statuses (FAIL, ERROR, INTERRUPTED ...) are one status FAIL; SKIP and
  CANCEL do not occur. WARN is given to a pass much slower than an earlier one.
- A test that passes has set its state, a test that fails has not. With the
  constant `Leftovers` this link is cut where `VirtTest` shows that it may be: a
  test that warns by itself takes the way of an error and sets no state, and one
  that fails after its hooks have run leaves its state.
- A state retrieved by the test process is not an action: `Sources` says where
  the worker may find it. `Pool[w]` may be the same place for several workers.
- `all_results_ok` is subsumed by the summary of received statuses.
- Left out: cloned nodes, dry runs, permanent objects, user-selected object
  roots (an assumption), reports.

### Runs

| Run | Instance | Checks |
|---|---|---|
| `setup` | 2 workers, object root, a reversible setup that is selected itself and needed by a leaf selected with it and by another that is composed later; `Leftovers` | `TypeOK`, `AssertionsHold`, `SetupInPlace` |
| `retries` | 2 workers, two tries of setup and leaf, lost results, overdue waits | `Exclusive`, `SetupFirst`, `BoundedTries`, `CleanAfterUse`, `Termination` |
| `replay` | 3 workers in 2 swarms with a pool each, one worker restricted; replayed results, states from earlier jobs, a skipped test, broken scan, job timeout | `Exclusive`, `NothingForgotten`, `Termination` |
| `reversal` | see the findings | `SetupInPlace`, violated |

What the properties say:

- `AssertionsHold`: the three assertions of the loop. A path that is not
  continuous would take several workers changing the graph under one of them.
- `Exclusive`: no more workers at a test, within the reach of its pool scope,
  than `max_concurrent_tries` or `max_tries` allows.
- `SetupFirst`: a worker runs a test only after it has itself been at every
  setup of it; registers are shared by all workers, so this is not obvious.
- `SetupInPlace`: while a worker runs a test, every setup state that passed in
  this job within its reach is where the worker can get it.
- `CleanAfterUse`: a state is not removed from a pool under a worker that makes
  or needs it. The instances meet `OrderlyCleanup`, the condition under which this is
  proved (an assumption of `MCTraversal`, which TLC evaluates).
- `BoundedTries`: within the reach a test is tried at most `max_tries` times in
  this job (once if that is 0), or as often as `max_concurrent_tries` lets workers
  start it before the first of them is through. Object roots are left out: their
  try counts only after the preparation (section 8).
- `NothingForgotten`: when all workers are done, every selected test that some
  worker can compose was traversed, and all its setup.
- `Termination`: the job ends.

Bounds. `MaxBounces` counts the wake-ups of a worker in front of occupied nodes;
beyond it a worker sleeps until the nodes it found occupied are free, which the
code would reach after more rounds without any other change of state (picks are
counters that only break ties). `MaxReentry` bounds how often an overdue wait
raises the limit of concurrent tries. Two workers and a chain of install, setup
and leaves suffice for every branch of the loop; three workers are used where
two of them must disagree about a third (`replay`).

Fairness. A coroutine that has the event loop goes on (`WF` of `Walk`), asyncio
serves every ready coroutine (`SF` of `Resume`: another worker may take the loop
again and again, and the loop is a queue), test processes end because the runner
has a timeout for them (`SF` of `Await`), and gathered workers end the job
(`WF` of `EndJob`). A broken scan and the job timeout are not fair.

## 4. StatePool

Processes (the tests of the workers) execute operations on states of one image.
A state is a file; its content is the sequence of versions it was built from, so
that a file fits the file below it if that one holds its tail. A copy takes two
steps: the target is `Torn` in between, and readers of a file opened for writing
have read something torn. Every process has its own pool, `Cache[p]`; an
operation names further sources, ordered by proximity and limited by scope.

| Variable | Code |
|---|---|
| `file` | the pool directories (one qcow2 file per state) |
| `lock` | the `.lock` files of `image_lock`, which stay in the directory |
| `working` | backing file of the working image |
| `op`, `pc`, `pos`, `at` | the operation, where it is, the index of the current source, the state of the chain at hand |
| `copy` | what an open copy has read |
| `last` | how the operation ended (`done`, `kept` = reused, `ignored`, `aborted` = the skip of a test, `failed`, `killed`) |
| `begun`, `made`, `kills` | counters; versions are numbered |

`Begin` and `Check` are `hooks.py` and the policies of `setup.py`; `Choose` and
`Look` are the loops over mirrors in `SourcedStateBackend`; `Compare` is
`compare_chain`; `Lock`, `Hash`, `OpenCopy`, `CloseCopy`, `Depend` are
`transfer_chain` with a down- or upload of each file; `Restore`, `SetOwn`,
`CloseSet`, `UnsetOwn` are the own pool of `QCOW2ExtBackend`; `Delete` is the
removal in a mirror. `LockTimeout` ends a wait, `Kill` ends a process anywhere.

Abstractions: one image; no vm state files and no link mode; root states present;
the listing of all mirrors is one step; removal and copy of a replaced file are
one step; qemu-img opens the whole chain; two torn files may compare equal or
not; writers that overlap on one file leave it torn. A test sets a state on top
of the one it has got (`Sensible`).

### Runs

| Run | Instance | Checks |
|---|---|---|
| `share` | a builder, a user that gets, pops and unsets, a shared pool | `TypeOK`, `GotWhole`, `NothingTorn`, `Completion` |
| `mirrors` | a local pool and a remote mirror without locks, lock timeouts, kills at any step | `SetEverywhere` |

Two of the properties need conditions on the plans of the processes. They are
defined next to the properties, and an assumption of `MCStatePool` makes TLC check
that the instances meet them.

- `GotWhole` needs `Isolated` (own pools are private, the others are accessed
  locally), no kill, and `BuiltOnce`: a state is built by one process, which does
  not set it again or remove it. That is what the traversal guarantees for a
  cluster-wide scope with one try at a time (`Exclusive`) and a `set_mode` that
  reuses. Each of the last two can be seen to be needed: with a kill, or with one
  builder that replaces its states (`set_mode` "f."), TLC finds a chain with files
  of two versions, because locks are released between files.
- `SetEverywhere` needs `SoleWriters`: no pool is changed by two processes. Tests
  have this (`hooks.py` sets and unsets with `pool_scope` "own"), and uploads if one
  tool pushes to a pool; with two writers TLC finds one that replaces a file of the
  other's chain. Kills, timeouts, remote mirrors without locks, mirrors listed
  twice and sets that are repeated after a killed one are all allowed.

`NothingTorn` needs `Isolated` and no kill only.

Bounds: two processes, two states (a chain of two shows every way a chain can be
broken between files), `MaxOps` operations per process, `MaxKills` kills.
Deadlock is not checked, since processes stop after their operations.
Fairness: weak fairness of each process; a process waiting for a lock tries
again every second, and with finitely many operations the lock gets free for
good.

## 5. VirtTest

Tests run one after the other on a host, each in a process of its own
(`vt_runner.py`). What one leaves to the next is on the host: QEMU processes,
changes made by setuppers, and the pickled environment that names the VMs.

| Variable | Code |
|---|---|
| `alive`, `spawned` | QEMU processes |
| `file`, `env` | the environment file, and `Env.data` of the running test (VM -> process, 0 for an object without one) |
| `host` | setuppers whose changes are in effect |
| `at`, `setupers`, `todo` | `do_setup`'s index, `SetupManager.__setupers`, VMs still to process |
| `raised`, `passed`, `err`, `onError` | the exception on its way through `_runTest`, `test_passed`, `postprocess`'s `err`, the update by `postprocess_on_error` |
| `saved`, `status` | states the hooks have set, the verdict |
| `bg`, `thread`, `event` | background errors, the screendump thread and its termination event |
| `excused`, `lost`, `cut` | history: changes nobody has to undo any more, processes that a killed test had not saved, a postprocess left by an exception |

`Begin` is the start of `_runTest`; `SetupPasses`, `SetupFails` are rounds of
`do_setup`; `PreprocessVM`, `PreprocessVMFails`, `PreprocessEnds` the rest of
`preprocess`; `BodyCreates`, `BodyDestroys`, `BodyEnds`, `ExitFuncs` the test
function and what follows it; `OnError` the handler of any exception; `PostOn`,
`Unguarded`, `PostprocessVM`, `PostprocessVMFails`, `StopThread`, `Join`,
`Cleanup`, `CleanupEnds` are `postprocess`; `SavePre`, `SaveBody`, `SaveEnd` save
the environment and the last one gives the verdict. `Kill`, `ProcessDies` and the
`Thread` actions may come between any two of them.

Abstractions: one type of test function and of VM; of some thirty setuppers the
hook for VMs that are off, the handler of unrequested VMs and one before and one
behind it; no images, filesystem sources, libvirt, nested guests or register
query thread; the hook for running VMs does not replace processes; a QEMU that dies may report
a background error (it does for a non-zero exit status, if this is asked for); `destroy`
ends the process; `vt.omit_data_loss` is off.

Run `tests`: two tests out of three kinds (one leaves its VMs running, one sets
states and kills its VM, one wants its VM off and the environment cleaned up), any
two failures and a kill. Two tests suffice for what one leaves to the next, two
failures for a failure while another one is handled.

- `NoOrphan`: a QEMU process is always named by the environment, in memory or in
  the file, or a killed test had not saved it. Otherwise nobody could destroy it,
  and the next test would start the VM a second time.
- `HostRestored`: after a test the changes of the setuppers are undone, whichever
  setupper failed half way, except where the cleanup failed itself, the test was
  killed or its postprocessing was cut.
- `SavedAsReported`: states are set only after the function passed, and a test
  reported as passed has set all of its states and killed its VMs.
- `TestEnds`: the test process ends with its thread, unless its postprocessing was cut.

Fairness: a test that is not killed goes on, which says that test functions end
(the runner has a timeout that kills them), and the thread sees its event at the
end of a round. Nothing is assumed of rounds, failures or QEMU.

## 6. Jobs, clusters, volumes, monitors

**JobLock.** One variable per thing on disk and in the process table: `file` (no
lock file, an empty one, one with a PID), `pid`, `others`, and `pc` and `todo` of
each job's scan of the other files. The actions are the steps of `_lock` and
`_unlock` with every system call apart, `Crash` at any point and `OtherProcess`,
which reuses a PID. `ExclusiveJobs` has one action pair, start and end of the
tests of a job that is alone; `JobLock` implements it with `stage <- JobStage`
(property `Exclusive` of run `joblock`, with three jobs and three PIDs).
`LockKept`: no other job removes the file of a job that runs, stale-looking or
not. `EveryJobDecides` holds under weak fairness of each job's steps, none of
which waits for another job. Whether avocado calls `post_tests` after a refusal is
decided outside of this repository; both happen.

**ClusterJob.** Jobs come one after the other over hosts that remember: `agent`,
`daemon`, `conn`, `env` (`resbk_mgr.env`) and `mount` survive a job, `registered` and
`saved` are the pickled registry and resource manager. `Begin`, `SetupNodes`,
`StartService`, `Startup`, `SaveProperties` are `pre_tests`, `EndTests`,
`TeardownEnds`, `StopService`, `PostTests` are `post_tests`. A launched agent runs at
its own pace: it removes the old data directory and writes its first line
(`AgentMain`), reads the connections kept in `env` (`LoadServices`), and takes the
port or ends because another agent has it (`Serve`). The controller waits for the first
line and for an answer on the port, from whichever agent (`IsAgentAlive`). The
PID file, which it reads first, does not appear: `_get_agent_pid` returns what
`cat` prints, an error message included, so there is always a PID.
Run `hooks`: two hosts, three links, three jobs, two faults (killed jobs, dead
agents, failed ssh or umount); what a killed job has launched serves or has ended
before the next job begins (522,064 states). `TestsReady`: tests begin when every link is
mounted and known to the agent of its node. One exception is part of the
statement: a node in `taken`, where the launched agent took the port only after another
one had passed for it (section 8). `CleanEnd` and `PoolsUntouched` are
described at their definitions; they speak of behaviours without faults in
the teardown, and what faults do is the finding `wiped`. `JobEnds` needs weak
fairness of `JobStep`: every wait of the hooks is bounded. Left out: RPC and its
services, forwarding of logs, partitions.

**Volumes.** The calls of the resource manager on file volumes, in a local
directory or on nfs, in any order, with error answers, lost answers and dead agents.
`bindings`, `allocated` and `phase` are the controller's view, `live`, `stray` and
`files` that of the agents and disks. `Bind` may stop in front of any node because its
agent answers with an error; so may the binding of a clone. `Unbind` stops at a node
that does not know the backing or does not answer: `destroy_backing_object` returns
no other error (`resource_backing_manager.py:203-213`). An error that leaves a backing
(the agent stores it before it looks at its file, `:193-195`), a lost answer and a
dead agent count as faults, up to `MaxFaults`. `BackingsKnown`: both views agree
wherever a call stopped without such a fault, which a binding recorded at the end
of the loop would break (the mutant `BindAtEnd`). `SharedNothingLeft`: a destroyed
shared volume leaves no file that a call has reported. The bindings of a volume are a
set of nodes: a node is bound once
(`bind_backings` skips the others), and their order decides only which of them a
call reaches before it fails, which is any. Run `volumes`: two nodes, a local
volume, a shared one and a clone, files left by an earlier test (113,486 states).

**Monitor.** Threads make calls on one QMP monitor; `lock`, `events`, `closed` are
its attributes, `asked`, `answers`, `arrived`, `up` the socket and QEMU, which is
external: it answers in order or never, emits events and may end. Unread answers
and unread events are two queues. Their order relative to each other is not kept;
a read takes all events and any number of answers from the front. Every wait may
time out.
Run `monitor`: two threads, three calls of all kinds, two events, a line that
stalls (830,884 states). `RightAnswer` and `RawAnswer` say that answers reach their commands,
the raw ones (which carry no id) only as long as no command has given up;
`NoEventLost`, `NoStaleEvent`, `LockGivenBack` concern the events and the lock;
`CallsEnd` needs weak fairness of each thread only, since its waits are bounded.

Deadlock is not checked in these four and in StatePool: jobs, calls and operations
are bounded and then stop.

## 7. Proofs

The theorems are in `TraversalProofs`, `TraversalWalkProofs`, `StatePoolProofs`,
`VirtTestProofs`, `JobLockProofs`, `ClusterJobProofs`, `VolumesProofs` and
`MonitorProofs`. They hold for every value of the constants that satisfies the
named assumptions of the modules: any number of workers, processes, jobs, hosts,
threads or volumes, any graph, and any value of the bounds. Where a theorem needs
more than these assumptions, its ASSUME says so and so does the entry below. A
property is proved with an invariant that implies it and that every action
preserves.

**Traversal**

- `TraversalProofs!TypeCorrect`: `Spec => []TypeOK`. Alone it is not inductive: the
  stack is popped, and results are counted. `TypeInv` adds `Shape` (a path is never
  empty, and a worker busy with a node came to it from another) and
  `FiniteResults`.
- `ExclusiveUse`: `Spec => []Exclusive`. The test for occupation uses the limit of
  the worker that asks, which an overdue wait may have changed, so the argument
  needs `ReentryFloor`: no worker's limit is below the configured one. Reach is
  an equivalence, so adding a worker to a crowd adds it to its own class only.
- `SetupBeforeTest`: `Spec => []SetupFirst`, from `SetupInv`: whatever a worker
  dropped it has finished (`Provenance`), a worker that is past a test has
  finished it (`Left`), and a worker that runs a test dropped all its setup
  (`Ready`).
- `TraversalWalkProofs!AllTraversed`: `Spec => []NothingForgotten`. `CoverInv` says
  that a child is dropped only by a worker that has traversed it (`Swept`), that
  traversed tests have traversed setup (`SetupFinished`), that a worker passes a
  flat node without composing it only if somebody is through with all of it
  (`FlatPassed`, from `should_parse`), that a flat node is dropped only then
  (`FlatDropped`) and that a worker is done when it dropped all of them.
- `WalkIsSound`: `Spec => []AssertionsHold`. The stack is the difficulty: an
  assertion is about its last two nodes, but a step back uncovers the ones below,
  and meanwhile other workers have changed the graph. `PathInv` describes whole
  paths: down to children, then up to parents, from the shared root on and with
  a second node that is still open. `ParsedInv` says that what is parsed for a
  worker is parsed with its setup, and `Grows` that nothing leaves a worker's graph.
  This needs `SetupAssumption`: setup is acyclic, and what is parsed before the
  walk is closed under setup. Both hold because `parse_paths_to_object_roots`
  follows the setup until there is none left, which it would not reach in a cycle.
- `TriesAreBounded`: `Spec => []BoundedTries`. Results are counted, so the proof is
  about cardinalities. `StartedInv` ties the register of a node to the workers
  that run it, and `TriesInv` says that a try of a worker that has not been through
  the test is its only one. Then a worker starts a test in one of two ways: nobody
  in reach is through with it, and the tries are those of the workers under way,
  which the test for occupation bounds; or it reruns it, and `should_rerun` has counted all.
- `CleanedAfterUse`: `Spec => CleanAfterUse`, an action property, under
  `OrderlyCleanup`. `should_clean` trusts the registers, so the question is whether a
  worker that has dropped a child may run it again: it may come back to it from a
  flat node or a child that it composes later. `DroppedInv` says that it then finds
  nothing to run: it is `Settled` with the test, since a status or the number of tries
  rules out more of them, and neither goes away (`SettledStays`; results are
  numbered, so that none is lost when a status replaces UNKNOWN, `Numbered`). A
  worker that runs the test itself is kept from being overlooked by its UNKNOWN
  result (`PendingInv`), and everybody who came by is registered (`Registered`). The
  conditions: workers share pools within a swarm only, because `should_clean` does
  not ask other swarms (a pool belongs to a host); no object root is reversible,
  because its preparation leaves no UNKNOWN result; and a test that needs a reversible
  state has one try or counts UNKNOWN among its `rerun_status`, as is the default
  outside of replays (`node.py:719`). Without the last one a try of somebody else
  hides that there are more to come: TLC finds three workers of which one runs again
  what it has dropped, so `DroppedInv` is false then; a violation of the property
  itself has not been found.

**StatePool**

- `StatePoolProofs!TypeCorrect`: with `Shape`, which says that a process at a source
  has an index into its location and a state at hand.
- `NothingTornAtRest`: `Spec => []NothingTorn`, for any number of processes, states,
  pools and operations, with timeouts, while no process is killed and pools are
  local. `TornInv` adds `Holding` (between taking and releasing the lock of a file
  its process holds it) and `Copies` (what an open copy has read is whole).
  `OneUser` is the key lemma: a file of a pool has at most one user, in an own pool
  because it is private, elsewhere because of the lock.
- `SetReachesAll`: `Spec => []SetEverywhere` under `SoleWriters`. The chain is handled
  without induction: `Syncing` describes how far a set has got, by the states of
  `Chain(op.state)` that are not in `Chain(at)`, which are in sync in the current
  mirror, and the mirrors that are done, which are in sync as a whole. `SyncInv`
  rests on `PlanInv` (an operation is one of the plan) and `StageInv` (what is left to do
  belongs to the stage). The other processes cannot interfere, since they write
  to pools of their own (`Writing`, `SyncOther`); of the process itself each step
  moves one file of the chain from behind to before it (`SyncCompare`, `SyncOpen`,
  `SyncClose`, `SyncFollow`).
- `GetsWhole`: `Spec => [](kills = 0 => GotWhole)` under `Isolated` and `BuiltOnce`.
  `WholeInv`: of each state there is at most one version in all files and open
  copies, and it is on top of the one of the state below (`VersionInv`); a state seen
  anywhere is in its builder's own pool, and so is the one below (`BuiltInv`);
  what is about to be built is not there yet (`FreshInv`), and an open copy has a
  content (`CopyInv`). Then a chain without a gap fits together, whoever downloads,
  pops or removes files meanwhile, and a restore that succeeds has found no gap
  (`RestoredWhole`).
  `TornInv`, from `NothingTornAtRest`, keeps torn files out.

**Jobs**

- `JobLockProofs!Invariant`, `TypeCorrect`, `LockStays`, `LockExcludes`: for any number of jobs and
  PIDs, `Spec => []LockKept` and `Spec => Exclusive`, the refinement of
  `ExclusiveJobs`. The inductive invariant joins `LockKept` (a job past the write
  has its file with its PID) with `OneSeesTheOther` (of two jobs that have both
  listed the files, one has still to look at the other) and `Idle` (a job that runs
  has nothing left to look at). A file is removed
  only if its PID belongs to no process, so never that of a live job
  (`StaleOwnerIsGone`); hence of two jobs one always finds the other alive.

- `ClusterJobProofs!TypeCorrect` and `ReadyForTests`: `Spec => TestsReady`, an action
  property, with any number of faults and whatever earlier jobs have left. `ReadyInv`:
  the position belongs to the stage (`PosInv`); behind the start of the agents one
  has been seen alive on every node, so that an agent that takes a port later puts
  its node into `taken` (`SettledInv`); and what startup has attached stays
  mounted, and is known to the agent as long as this one answers, except on the
  nodes in `taken` (`AttachedInv`).
- `JobsCleanUp`, `PoolsStayUntouched`: `Spec => []CleanEnd` and `[]PoolsUntouched`.
  `CleanInv` says that agents belong to the job that runs (`AgentsInv`), that what
  is mounted is known to an agent (`MountsInv`), and that the mounted links are the
  first ones, from the position of the teardown on (`LinksInv`): the teardown stops
  at the first link that it cannot detach, so nothing may be mounted behind it.
  Both theorems assume `DistinctLinks`, that `access.nodes` of a pool names no node
  twice. Nothing in the code excludes it (`vt_resmgr/resources/pool.py:105`), and
  with such a pool `CleanEnd` is violated.

**VirtTest**

- `TypeCorrect`, with `SetupInv` (`do_setup` stops at the last setupper).
- `ProcessesKnown`: `Spec => []NoOrphan`, which is inductive once the file of a test
  that is over is known to be its environment.
- `HostIsRestored`: `Spec => []HostRestored`. `HostInv` follows the list: during the
  set-up the changes are those of the setuppers so far, later those of the
  setuppers in the list, which a failed set-up has cut behind the one that failed,
  and `do_cleanup` takes them off one by one.
- `VerdictIsTrue`: `Spec => []SavedAsReported`. `FlowInv` follows the exception through
  `_runTest` (past the handler, an update for errors means an exception and no
  update means a pass), `HookInv` and `KillInv` say that a hook sets its states and
  a VM is killed, or that `err` is set, and `PassInv` is the verdict itself.

**Volumes**

- `TypeCorrect`; the type invariant includes that a local volume has at most one binding.
- `BackingsAreKnown`: `Spec => []BackingsKnown`, inductive by itself; the work is in
  `bind_backings`, which an error answer may stop at any of the nodes, and in
  `unbind_backings`.
- `NothingIsLeft`: `Spec => []SharedNothingLeft`, from `OwnedInv`: a reported file of a
  shared volume is in the metadata of a volume that is known and allocated.

**Monitor**

- `TypeCorrect`, `LockIsGivenBack`: `Spec => []LockGivenBack`. `LockInv` adds that a
  thread past the lock is the one that holds it.
- `OwnAnswer`, `OwnRawAnswer`: `Spec => []RightAnswer` and `[]RawAnswer`. `IdInv`: commands
  and answers carry no id or their own. `RawInv`: as long as no command has given
  up, one exchange is under way at most, and its thread waits for it.
- `NoEventIsLost`: `Spec => []NoEventLost`. `EventsInv`: both queues are in the order of
  emission, the unread events are the newer ones, and every event is in one place.
- `NothingStale`: `Spec => NoStaleEvent`, an action property. `StaleInv`: after its read,
  `clear_event` has seen all events that were emitted before the call.

Only model-checked:

- liveness (`Termination`, `Completion`, `EveryJobDecides`, `JobEnds`, `CallsEnd`,
  `TestEnds`), since the prover has no support for fairness here;
- `SetupInPlace`, which is false in general (run `reversal`) and holds in the graph of
  run `setup`; what is proved of the removal of states is `CleanedAfterUse`;
- what the two violating runs show.

## 8. Findings and observations

Two runs with the expectation "violation" show where the code disagrees with its
own comments and docstrings; `PROJECT.json` quotes both sides.

- `reversal`: the last worker "closes the door" after counting only workers that
  have already picked the node; a worker that composed a dependent test but is
  still at another parent finds the setup gone (`node.py:881`).
- `wiped`: an agent starts with a recursive removal of its data directory, below
  which a pool may still be mounted after a killed job or a failed umount; the
  files of the pool are removed with it (`agent/__main__.py:36`).

Observations from writing the models that have no run of their own:

- Traversal. The preparation of an object root is invisible in the shared results
  and lets another worker start one try too many (`graph.py:1952`); so a root with
  `max_tries` of 2 may be tried three times, against the "maximum number of tries"
  of `node.py:701-702`. `run_workers`
  logs the timeout that `run_suite` wants to report (`runner.py:369`, `413-416`). An
  overdue wait in front of a test with several tries sets `max_concurrent_tries`
  to 1, where the default was `max_tries` (`graph.py:2142`, `node.py:452`): the first
  wait lowers the limit, which `Bounce` models. A test that warns by itself has set
  no state, while the traversal treats the status like a pass.
- States. A get stops at the nearest permitted mirror even if it lacks the state
  that the check has found in a farther one (`pool.py:990`). A set that announces to
  preserve an existing state replaces it (`setup.py:504`). A get that falls between
  the upload of a state and that of its backing fails, which `share` explores:
  `GotWhole` speaks of gets that succeed. A pop hands one explicit `pop_mode` to a
  get and an unset that read its first letter differently (`setup.py:680`).
- Tests. An exception in one of the unguarded steps of `postprocess` skips
  `do_cleanup`, so the host keeps all changes (`env_process.py:1350-1594`; the
  docstring of `SetupManager`, `core.py:45-47`, says that the clean-up is done "after
  test finished"), and before the thread is told to stop it leaves a thread that is
  no daemon. Background errors that are reported after `verify_background_errors` are
  lost. The comment at `env_process.py:1047-1049` ("vms will be actually off") does
  not hold: the off hook runs before unrequested VMs are destroyed, and after the
  test with VMs that are kept alive. `register_vm` replaces a live VM of another
  class. A parameter like `set_state_images_vm2` is not overridden by
  `set_state_images_on_error`. The runner waits for a message of a test process
  without asking whether it still lives (`vt_runner.py:190-198`). A VM that a
  killed test had not saved may be started a second time.
- Jobs and clusters. An empty lock file of a job killed before it wrote its PID
  refuses all later jobs until it is removed by hand (`vt_joblock.py:66`). A volume in
  a local directory that is moved to another node leaves its file on the first
  (`dir_volume.py:46`), although it "can be destroyed only when the resource is
  released" (`vt_resmgr/resources/pool.py:239-241`). Resizing a volume always raises, and the port resources call
  functions that the agent does not export.
- Agents. `_start_server_daemon` returns "True if the daemon started successfully"
  (`vt_cluster/node.py:371`), but what it sees is the first line of the new agent, written
  before it has loaded its services and bound its port (`agent/app/cmd.py:145-149`), and
  an answer on the port. After a killed job both can come from different agents: the
  old one answers, is given the links, and dies; the new one, which has read its
  connections before, takes the port, and the tests begin on an agent that does not know
  the pools. Without the exception for `taken` TLC finds `TestsReady` violated this way.
  If the old agent lives on, the new one ends instead, and removes the PID file of
  the old one (`cmd.py:177-179`).
- Monitors. `cmd_raw` and `cmd_obj` without an id return the late answer of an
  earlier command (`qemu_monitor.py:2100`, `2119`). `clear_event` releases the lock
  without a `finally` clause (`qemu_monitor.py:2275`).

## 9. Not modelled

The components with status `not_modelled` in `PROJECT.json`, each with its reason.
By lines they are most of the repository: the modelled parts are the ones with
state that several actors share, and the bulk of the 180 000 lines is sequential
(wrappers of virsh, qemu-img and guest commands, XML classes for libvirt, builders
of command lines, a configuration parser), where the behaviour that could go wrong
lies in the program that is called. The legacy scheduler and the remote commander
would be worth a model but are Python 2 code that cannot be executed any more. Of
the modelled components, the parts named under the abstractions above are left
out. Liveness is checked by TLC only.
