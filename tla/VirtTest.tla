------------------------------ MODULE VirtTest ------------------------------
(***************************************************************************)
(* The life of VT tests, one process after the other, on one host: the     *)
(* setuppers and the preprocessing of env_process.py, the test function,   *)
(* the postprocessing, and the Env object that is pickled into a file so   *)
(* that the next test finds the VMs this one leaves running.               *)
(*                                                                         *)
(* Every step may fail.  A failure is an exception that test.py keeps      *)
(* while it postprocesses; only some steps of the postprocessing catch     *)
(* theirs.  A thread takes screendumps next to the test and reports        *)
(* background errors; QEMU processes may die, and the test may be killed.  *)
(***************************************************************************)
EXTENDS Integers, FiniteSets, Sequences

CONSTANTS
  VM,           \* names of virtual machines
  Test,         \* configured tests
  Params,       \* their parameters, see ParamType
  None,         \* no such object in the environment
  MaxTests,     \* bound on tests of a behaviour
  MaxFaults,    \* bound on failures of a behaviour
  MaxKills,     \* bound on killed tests
  MaxProcesses  \* QEMU processes after which test functions start no more

\* vms; start_vm; check_vm_needs_restart and a changed command line;
\* kill_vm_before_test; kill_vm and kill_vm_on_error; the kinds of states
\* set by the hooks, without and with an error; keep_unrequested_vms;
\* env_cleanup; take_regular_screendumps with a watcher of inactivity.
ParamType ==
  [vms : SUBSET VM, start : BOOLEAN, restart : BOOLEAN, killBefore : BOOLEAN,
   kill : BOOLEAN, killOnError : BOOLEAN,
   saves : SUBSET {"on", "off"}, savesOnError : SUBSET {"on", "off"},
   keep : BOOLEAN, envCleanup : BOOLEAN, screendumps : BOOLEAN]

ASSUME ParamsAssumption == Params \in [Test -> ParamType]
ASSUME BoundAssumption ==
  /\ MaxTests \in Nat /\ MaxFaults \in Nat
  /\ MaxKills \in Nat /\ MaxProcesses \in Nat
ASSUME NoneAssumption == None \notin Nat

\* The setuppers in the order of their registration: the hook for VMs that are
\* off comes first; one stands for those around the handler of unrequested VMs.
Registered == <<"ProcessVMOff", "StorageConfig", "UnrequestedVMHandler", "HugePagesSetup">>

Setuper == {Registered[i] : i \in 1..Len(Registered)}

VARIABLES
  alive,     \* QEMU processes on the host
  spawned,   \* how many there have been; they are numbered
  file,      \* the pickled environment: VM -> process, 0 if it has none yet
  host,      \* setuppers whose changes are in effect on the host
  excused,   \* of these, the ones that no test has to undo any more
  lost,      \* processes that a killed test had not saved
  begun, faults, kills,
  pc, test,  \* where the running test is, and which one it is
  env,       \* Env.data of the running test
  at,        \* the setupper at hand in do_setup
  setupers,  \* length of SetupManager's list
  todo,      \* VMs that process() has still to call its function for
  raised,    \* an exception is on its way through _runTest
  passed,    \* test_passed
  err,       \* failures collected or raised by postprocess
  cut,       \* postprocess left by an exception it does not catch
  onError,   \* the parameters were updated by postprocess_on_error
  saved,     \* kinds of states the hooks have set
  status,    \* verdict of the last test
  bg,        \* there are errors in the background event bus
  thread,    \* the screendump thread is alive
  event      \* its termination event is set

hostVars == <<alive, spawned, file, host, excused, lost>>
countVars == <<begun, faults, kills>>
flowVars == <<raised, passed, err, cut, onError, saved, status>>
listVars == <<at, setupers, todo>>
threadVars == <<bg, thread, event>>
vars == <<hostVars, countVars, pc, test, env, listVars, flowVars, threadVars>>

P == Params[test]

\* An environment without objects: no file, or one that cannot be unpickled.
Nothing == [v \in VM |-> None]

\* The processes of the VM objects of an environment.
Processes(e) == {e[v] : v \in VM} \ {None, 0}

Fault == faults < MaxFaults /\ faults' = faults + 1
NoFault == faults' = faults

Init ==
  /\ alive = {} /\ spawned = 0 /\ file = Nothing
  /\ host = {} /\ excused = {} /\ lost = {}
  /\ begun = 0 /\ faults = 0 /\ kills = 0
  /\ pc = "idle" /\ test \in Test /\ env = Nothing
  /\ at = 1 /\ setupers = 0 /\ todo = {}
  /\ raised = FALSE /\ passed = FALSE /\ err = FALSE /\ cut = FALSE
  /\ onError = FALSE /\ saved = {} /\ status = "none"
  /\ bg = FALSE /\ thread = FALSE /\ event = FALSE

-----------------------------------------------------------------------------
(* VMs of the environment.                                                 *)

\* VM.destroy of the objects of vs: their processes end.
Destroyed(e, vs) == alive \ {e[v] : v \in vs}

\* VM.create: the process the object had is gone, the object has a new one.
Create(v) ==
  /\ spawned' = spawned + 1
  /\ env' = [env EXCEPT ![v] = spawned + 1]
  /\ alive' = Destroyed(env, {v}) \union {spawned + 1}

\* Env.save: the file is truncated first, so a failure leaves nothing usable.
Save ==
  \/ NoFault /\ file' = env
  \/ Fault /\ file' = Nothing

-----------------------------------------------------------------------------
(* Preprocessing.                                                          *)

\* A new test process: VirtTest.__init__, and _runTest up to preprocess with
\* the environment file opened and all setuppers registered.
Begin(t) ==
  /\ pc = "idle" /\ begun < MaxTests
  /\ begun' = begun + 1
  /\ test' = t /\ env' = file /\ pc' = "setup"
  /\ at' = 1 /\ setupers' = Len(Registered) /\ todo' = Params[t].vms
  /\ raised' = FALSE /\ passed' = FALSE /\ err' = FALSE /\ cut' = FALSE
  /\ onError' = FALSE /\ saved' = {} /\ status' = "none"
  /\ bg' = FALSE /\ thread' = FALSE /\ event' = FALSE
  /\ UNCHANGED <<hostVars, faults, kills>>

\* Unrequested VMs, which are destroyed and removed from the environment.
Unrequested == {v \in VM \ P.vms : env[v] # None}

\* Mutant of Handle: the objects are removed, their processes are left alone.
HandleForgetting ==
  IF Registered[at] = "UnrequestedVMHandler" /\ ~P.keep
  THEN /\ alive' = alive
       /\ env' = [v \in VM |-> IF v \in Unrequested THEN None ELSE env[v]]
  ELSE UNCHANGED <<alive, env>>

\* UnrequestedVMHandler.setup.
Handle ==
  IF Registered[at] = "UnrequestedVMHandler" /\ ~P.keep
  THEN /\ alive' = Destroyed(env, Unrequested)
       /\ env' = [v \in VM |-> IF v \in Unrequested THEN None ELSE env[v]]
  ELSE UNCHANGED <<alive, env>>

\* Mutant of Truncated: the failed setupper counts twice.
TruncatedPast(index) == index + 1

\* Mutant of Truncated: the setupper that failed half way is not cleaned up.
TruncatedBefore(index) == index - 1

\* What remains of the list when the setup at an index fails: the setuppers up
\* to that one, because no setupper asks for skip_cleanup_on_error.
Truncated(index) == index

\* One round of do_setup.  A setup that fails may have changed the host.
SetupPasses ==
  /\ pc = "setup"
  /\ Handle
  /\ host' = host \union {Registered[at]}
  /\ excused' = excused \ {Registered[at]}
  /\ at' = at + 1
  /\ pc' = IF at = Len(Registered) THEN "vms" ELSE "setup"
  /\ UNCHANGED <<spawned, file, lost, countVars, test, setupers, todo, flowVars, threadVars>>

SetupFails ==
  /\ pc = "setup" /\ Fault
  /\ host' \in {host, host \union {Registered[at]}}
  /\ excused' = excused \ {Registered[at]}
  /\ setupers' = Truncated(at)
  /\ raised' = TRUE /\ pc' = "savePre"
  /\ UNCHANGED <<alive, spawned, file, lost, begun, kills, test, env, at, todo, passed, err, cut,
                 onError, saved, status, threadVars>>

\* preprocess_vm: the object is created if needed; the VM is started if it is
\* to run and does not, restarted if its command line has changed, killed if it
\* is neither to run nor to be kept.
PreprocessVM(v) ==
  /\ pc = "vms" /\ v \in todo
  /\ IF P.start /\ (env[v] \notin alive \/ P.restart)
     THEN Create(v)
     ELSE /\ env' = [env EXCEPT ![v] = IF @ = None THEN 0 ELSE @]
          /\ alive' = IF P.killBefore /\ ~P.start THEN Destroyed(env, {v}) ELSE alive
          /\ spawned' = spawned
  /\ todo' = todo \ {v}
  /\ UNCHANGED <<pc, test, file, host, excused, lost, countVars, at, setupers,
                 flowVars, threadVars>>

\* It fails before, in or after create, which destroys what it has started.
PreprocessVMFails(v) ==
  /\ pc = "vms" /\ v \in todo /\ Fault
  /\ \/ P.start /\ Create(v)
     \/ /\ env' = [env EXCEPT ![v] = IF @ = None THEN 0 ELSE @]
        /\ \/ alive' = alive
           \/ P.start /\ alive' = Destroyed(env, {v})
        /\ spawned' = spawned
  /\ raised' = TRUE /\ pc' = "savePre"
  /\ UNCHANGED <<test, file, host, excused, lost, begun, kills, listVars,
                 passed, err, cut, onError, saved, status, threadVars>>

\* The screendump thread is started, then the hook for running VMs gets their
\* states; the environment is saved whether or not this fails.
PreprocessEnds ==
  /\ pc = "vms" /\ todo = {}
  /\ thread' = P.screendumps
  /\ \/ NoFault /\ raised' = FALSE
     \/ Fault /\ raised' = TRUE
  /\ pc' = "savePre"
  /\ UNCHANGED <<hostVars, begun, kills, test, env, listVars, passed, err, cut, onError,
                 saved, status, bg, event>>

SavePre ==
  /\ pc = "savePre" /\ Save
  /\ pc' = IF raised THEN "onError" ELSE "body"
  /\ UNCHANGED <<alive, spawned, host, excused, lost, begun, kills, test, env, listVars,
                 flowVars, threadVars>>

-----------------------------------------------------------------------------
(* The test function.                                                      *)

\* It starts and stops VMs through the environment.
BodyCreates(v) ==
  /\ pc = "body" /\ spawned < MaxProcesses /\ Create(v)
  /\ UNCHANGED <<file, host, excused, lost, countVars, pc, test, listVars, flowVars,
                 threadVars>>

BodyDestroys(v) ==
  /\ pc = "body" /\ env[v] \in alive
  /\ alive' = Destroyed(env, {v})
  /\ UNCHANGED <<spawned, file, host, excused, lost, countVars, pc, test, env, listVars,
                 flowVars, threadVars>>

\* run_func ends; verify_background_errors empties the bus and raises if there
\* was anything in it.
BodyEnds ==
  /\ pc = "body"
  /\ \/ NoFault /\ raised' = bg /\ bg' = FALSE
     \/ Fault /\ raised' = TRUE /\ bg' = bg
  /\ pc' = "saveBody"
  /\ UNCHANGED <<hostVars, begun, kills, test, env, listVars, passed, err, cut, onError,
                 saved, status, thread, event>>

SaveBody ==
  /\ pc = "saveBody" /\ Save
  /\ pc' = IF raised THEN "onError" ELSE "exitfuncs"
  /\ UNCHANGED <<alive, spawned, host, excused, lost, begun, kills, test, env, listVars,
                 flowVars, threadVars>>

\* test_passed is set before the exit functions, whose failure is a warning
\* that goes the way of an error.
ExitFuncs ==
  /\ pc = "exitfuncs"
  /\ passed' = TRUE
  /\ \/ NoFault /\ raised' = FALSE /\ pc' = "postOn"
     \/ Fault /\ raised' = TRUE /\ pc' = "onError"
  /\ UNCHANGED <<hostVars, begun, kills, test, env, listVars, err, cut, onError, saved,
                 status, threadVars>>

\* postprocess_on_error replaces the parameters that have a variant for errors.
OnError ==
  /\ pc = "onError" /\ Save
  /\ onError' = TRUE /\ pc' = "postOn"
  /\ UNCHANGED <<alive, spawned, host, excused, lost, begun, kills, test, env, listVars,
                 raised, passed, err, cut, saved, status, threadVars>>

-----------------------------------------------------------------------------
(* Postprocessing.                                                         *)

Kills == IF onError THEN P.killOnError ELSE P.kill

\* Mutant of Saves: the parameters for errors are not applied.
SavesAnyway == P.saves

Saves == IF onError THEN P.savesOnError ELSE P.saves

\* A hook sets the states of its kind, or fails and leaves the others alone.
Hook(kind) ==
  \/ NoFault /\ saved' = saved \union (Saves \intersect {kind}) /\ err' = err
  \/ Fault /\ saved' = saved /\ err' = TRUE

\* The hook for running VMs, whose failure is collected.
PostOn ==
  /\ pc = "postOn" /\ Hook("on")
  /\ pc' = "early"
  /\ UNCHANGED <<hostVars, begun, kills, test, env, listVars, raised, passed, cut, onError,
                 status, threadVars>>

\* Steps that catch no exception: before the VMs are processed the restoration
\* of images, reports and coverage, after it videos, unresponsive VMs, host
\* reports and consoles.
Unguarded(from, to) ==
  /\ pc = from
  /\ \/ NoFault /\ pc' = to /\ UNCHANGED <<err, cut>>
     \/ Fault /\ pc' = "saveEnd" /\ err' = TRUE /\ cut' = TRUE
  /\ todo' = P.vms
  /\ UNCHANGED <<hostVars, begun, kills, test, env, at, setupers, raised, passed, onError,
                 saved, status, threadVars>>

\* postprocess_vm, for objects that exist.
PostprocessVM(v) ==
  /\ pc = "postVms" /\ v \in todo
  /\ todo' = todo \ {v}
  /\ alive' = IF Kills THEN Destroyed(env, {v}) ELSE alive
  /\ UNCHANGED <<spawned, file, host, excused, lost, countVars, pc, test, env, at, setupers,
                 flowVars, threadVars>>

\* Its failure is collected by postprocess, and skips the VMs that remain.
PostprocessVMFails(v) ==
  /\ pc = "postVms" /\ v \in todo /\ env[v] # None /\ Fault
  /\ todo' = {} /\ err' = TRUE
  /\ alive' \in {alive, IF Kills THEN Destroyed(env, {v}) ELSE alive}
  /\ UNCHANGED <<spawned, file, host, excused, lost, begun, kills, pc, test, env, at,
                 setupers, raised, passed, cut, onError, saved, status, threadVars>>

\* Mutant of Terminate: the event is never set.
TerminateLater == event' = event

\* The screendump thread is told to end, if there is one, and waited for; the
\* wait may time out.
Terminate == event' = TRUE

StopThread ==
  /\ pc = "postVms" /\ todo = {}
  /\ Terminate
  /\ pc' = "join"
  /\ UNCHANGED <<hostVars, countVars, test, env, listVars, flowVars, bg, thread>>

Join ==
  /\ pc = "join"
  /\ IF thread THEN Fault ELSE NoFault
  /\ pc' = "late"
  /\ UNCHANGED <<hostVars, begun, kills, test, env, listVars, flowVars, threadVars>>

\* One round of do_cleanup: the last setupper is taken from the list; an
\* exception of its cleanup is collected.
Cleanup ==
  LET s == Registered[setupers]
  IN  /\ pc = "cleanup" /\ setupers > 0
      /\ setupers' = setupers - 1
      /\ \/ /\ IF s = "ProcessVMOff" THEN Hook("off")
               ELSE NoFault /\ UNCHANGED <<saved, err>>
            /\ host' = host \ {s} /\ excused' = excused
         \/ /\ s # "ProcessVMOff" /\ Fault
            /\ err' = TRUE /\ saved' = saved
            /\ host' \in {host, host \ {s}} /\ excused' = excused \union {s}
      /\ UNCHANGED <<alive, spawned, file, lost, begun, kills, pc, test, env, at, todo,
                     raised, passed, cut, onError, status, threadVars>>

CleanupEnds ==
  /\ pc = "cleanup" /\ setupers = 0
  /\ pc' = "saveEnd"
  /\ UNCHANGED <<hostVars, countVars, test, env, listVars, flowVars, threadVars>>

\* What a test that is over without a cleanup leaves behind on the host.
LeftBehind == IF cut THEN excused \union host ELSE excused

\* env.destroy: all objects are destroyed and the file is removed.
DestroyEnv == alive' = Destroyed(env, VM) /\ env' = Nothing /\ file' = Nothing

\* The last save; what cannot be stored, or shall not be, is destroyed.
SaveEnd ==
  /\ pc = "saveEnd"
  /\ \/ /\ NoFault
        /\ IF P.envCleanup THEN DestroyEnv ELSE file' = env /\ UNCHANGED <<alive, env>>
     \/ Fault /\ DestroyEnv
  /\ status' = IF raised \/ err THEN "FAIL" ELSE "PASS"
  /\ excused' = LeftBehind
  /\ pc' = "exit"
  /\ UNCHANGED <<spawned, host, lost, begun, kills, test, listVars, raised, passed, err,
                 cut, onError, saved, threadVars>>

\* The process ends when its threads, none of them a daemon, have ended.
Exit ==
  /\ pc = "exit" /\ ~thread
  /\ pc' = "idle" /\ env' = Nothing
  /\ UNCHANGED <<hostVars, countVars, test, listVars, flowVars, threadVars>>

-----------------------------------------------------------------------------
(* Next to the test.                                                       *)

\* A round of the screendump thread without findings, for as long as nobody
\* tells it to stop.
ThreadRound == thread /\ ~event /\ UNCHANGED vars

\* The screen of a VM has not changed for too long.
ThreadReports ==
  /\ thread /\ Fault
  /\ bg' = TRUE
  /\ UNCHANGED <<hostVars, begun, kills, pc, test, env, listVars, flowVars, thread, event>>

\* The thread sees the event at the end of a round.
ThreadEnds ==
  /\ thread /\ event
  /\ thread' = FALSE
  /\ UNCHANGED <<hostVars, countVars, pc, test, env, listVars, flowVars, bg, event>>

\* An exception the thread does not catch, in a lookup or a check of a VM.
ThreadDies ==
  /\ thread /\ Fault
  /\ thread' = FALSE
  /\ UNCHANGED <<hostVars, begun, kills, pc, test, env, listVars, flowVars, bg, event>>

\* A QEMU process dies; a test that runs hears of it from its tail thread if
\* vm_monitor_exit_status is set and QEMU ended with an error.
ProcessDies(p) ==
  /\ p \in alive /\ Fault
  /\ alive' = alive \ {p}
  /\ bg' \in {bg, bg \/ pc # "idle"}
  /\ UNCHANGED <<spawned, file, host, excused, lost, begun, kills, pc, test, env, listVars,
                 flowVars, thread, event>>

Saving == pc \in {"savePre", "saveBody", "onError", "saveEnd"}

\* A test is killed, by its timeout or from outside.  QEMU processes survive.
Kill ==
  /\ pc # "idle" /\ kills < MaxKills
  /\ kills' = kills + 1
  /\ pc' = "idle" /\ env' = Nothing /\ status' = "killed"
  /\ file' \in IF Saving THEN {file, Nothing} ELSE {file}
  /\ lost' = lost \union (alive \ Processes(file'))
  /\ excused' = excused \union host
  /\ thread' = FALSE
  /\ UNCHANGED <<alive, spawned, host, begun, faults, test, listVars, raised, passed, err,
                 cut, onError, saved, bg, event>>

Preprocess ==
  \/ SetupPasses \/ SetupFails \/ PreprocessEnds \/ SavePre
  \/ \E v \in VM : PreprocessVM(v) \/ PreprocessVMFails(v)

Body ==
  \/ BodyEnds \/ SaveBody \/ ExitFuncs \/ OnError
  \/ \E v \in VM : BodyCreates(v) \/ BodyDestroys(v)

Postprocess ==
  \/ PostOn \/ Unguarded("early", "postVms") \/ Unguarded("late", "cleanup")
  \/ StopThread \/ Join \/ Cleanup \/ CleanupEnds \/ SaveEnd \/ Exit
  \/ \E v \in VM : PostprocessVM(v) \/ PostprocessVMFails(v)

\* The job is over when its tests are.
Over == pc = "idle" /\ begun = MaxTests /\ UNCHANGED vars

Next ==
  \/ \E t \in Test : Begin(t)
  \/ Preprocess \/ Body \/ Postprocess
  \/ ThreadRound \/ ThreadReports \/ ThreadEnds \/ ThreadDies \/ Kill \/ Over
  \/ \E p \in alive : ProcessDies(p)

\* A test goes on, its function ends, and the thread makes its rounds.
Fairness == WF_vars(Preprocess \/ Body \/ Postprocess) /\ WF_vars(ThreadEnds)

Spec == Init /\ [][Next]_vars /\ Fairness

-----------------------------------------------------------------------------
(* Properties.                                                             *)

ProcessTypes ==
  /\ spawned \in Nat /\ alive \subseteq 1..spawned
  /\ lost \subseteq 1..spawned
  /\ file \in [VM -> {None} \union 0..spawned]
  /\ env \in [VM -> {None} \union 0..spawned]

ControlTypes ==
  /\ begun \in 0..MaxTests /\ faults \in 0..MaxFaults /\ kills \in 0..MaxKills
  /\ pc \in {"idle", "setup", "vms", "savePre", "body", "saveBody", "exitfuncs", "onError",
             "postOn", "early", "postVms", "join", "late", "cleanup", "saveEnd", "exit"}
  /\ test \in Test /\ todo \subseteq VM
  /\ host \subseteq Setuper /\ excused \subseteq Setuper
  /\ at \in 1..(Len(Registered) + 1) /\ setupers \in 0..Len(Registered)
  /\ saved \subseteq {"on", "off"} /\ status \in {"none", "PASS", "FAIL", "killed"}

FlagTypes ==
  /\ raised \in BOOLEAN /\ passed \in BOOLEAN /\ err \in BOOLEAN
  /\ cut \in BOOLEAN /\ onError \in BOOLEAN
  /\ bg \in BOOLEAN /\ thread \in BOOLEAN /\ event \in BOOLEAN

\* Every variable has its type.
TypeOK == ProcessTypes /\ ControlTypes /\ FlagTypes

\* A QEMU process that runs belongs to an object of the environment, the one in
\* memory during a test and the one in the file between tests, so that somebody
\* will reuse or destroy it, and no VM runs twice: only a killed test loses VMs.
NoOrphan ==
  alive \subseteq Processes(IF pc = "idle" THEN file ELSE env) \union lost

\* Whatever fails, a test that is over has undone the changes its setuppers made
\* to the host, unless their cleanup fails itself, the test was killed, or its
\* postprocessing was left by an exception it does not catch.
HostRestored == pc = "idle" => host \subseteq excused

\* States are set only after the test function passed, and a test that is
\* reported as passed has set all of its states and killed what it had to kill;
\* dependent tests are run on the strength of the verdict alone.
SavedAsReported ==
  /\ saved # {} => passed \/ P.savesOnError # {}
  /\ pc = "idle" /\ status = "PASS" =>
       /\ saved = P.saves
       /\ P.kill => \A v \in P.vms : file[v] \notin alive

\* Every test comes to an end, with its thread, unless an exception leaves the
\* postprocessing (which is excused wherever it happens).
TestEnds == pc # "idle" ~> (pc = "idle" \/ cut)

=============================================================================
