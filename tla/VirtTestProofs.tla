--------------------------- MODULE VirtTestProofs ---------------------------
(***************************************************************************)
(* Proofs for VirtTest, for any number of VMs, tests, failures and kills.  *)
(*                                                                         *)
(* Three invariants stand on the types and on nothing of each other.       *)
(* ProcessInv: what is alive is known to the environment in memory, and    *)
(* the file agrees with it when the test lets go of it.  HostInv: what is  *)
(* in effect on the host belongs to a setupper that is still listed, so    *)
(* that emptying the list restores the host.  VerdictInv: what the steps   *)
(* of the postprocessing have achieved when none of them has failed.       *)
(***************************************************************************)
EXTENDS VirtTest, TLAPS

\* Stages before the postprocessing.
Before == {"setup", "vms", "savePre", "body", "saveBody", "exitfuncs", "onError"}

\* Stages of the postprocessing that follow the hook for running VMs.
AfterHook == {"early", "postVms", "join", "late", "cleanup"}

Listed(n) == {Registered[i] : i \in 1..n}

\* There is a setupper at hand until the last one is done.
SetupInv == pc = "setup" => at <= Len(Registered)

\* The file of a test that is over is the environment it had.
ProcessInv == NoOrphan /\ (pc = "exit" => file = env)

\* The changes a test has to undo are those of the setuppers in the list.
HostInv ==
  /\ pc = "setup" => host \subseteq excused \union Listed(at - 1)
                     /\ setupers = Len(Registered)
  /\ pc \in (Before \union AfterHook \union {"postOn"}) \ {"setup"} =>
       host \subseteq excused \union Listed(setupers)
  /\ pc = "saveEnd" /\ ~cut => host \subseteq excused
  /\ pc \in {"exit", "idle"} => host \subseteq excused
  /\ cut => pc \in {"saveEnd", "exit", "idle"}

\* An exception on its way means the parameters for errors, and only that.
FlowInv ==
  /\ saved \subseteq Saves /\ (saved # {} => onError \/ passed)
  /\ pc \in Before => saved = {} /\ ~onError /\ ~err
  /\ pc = "onError" => raised
  /\ pc \in AfterHook \union {"postOn", "saveEnd"} =>
       IF onError THEN raised ELSE passed /\ ~raised
  /\ pc \in Before \union {"postOn", "early", "postVms", "join", "late"} => setupers > 0

\* Without a failure the states are set, one kind at each hook.
HookInv ==
  /\ pc \in AfterHook /\ ~err => Saves \intersect {"on"} \subseteq saved
  /\ pc = "saveEnd" \/ (pc = "cleanup" /\ setupers = 0) => err \/ saved = Saves

\* Without a failure the VMs that have been processed are not running.
KillInv ==
  /\ pc = "postVms" /\ Kills /\ ~err => \A v \in P.vms \ todo : env[v] \notin alive
  /\ pc \in {"join", "late", "cleanup", "saveEnd"} /\ Kills /\ ~err =>
       \A v \in P.vms : env[v] \notin alive

\* The verdict of a test that is over.
PassInv ==
  pc \in {"exit", "idle"} /\ status = "PASS" =>
    /\ saved = P.saves
    /\ P.kill => \A v \in P.vms : file[v] \notin alive

VerdictInv == FlowInv /\ HookInv /\ KillInv /\ PassInv

-----------------------------------------------------------------------------
(* What the constants and the operators give.                              *)

\* There are four setuppers, and the hook for VMs that are off is the first.
LEMMA RegisteredFacts ==
  /\ Len(Registered) = 4
  /\ \A i \in 1..4 : Registered[i] \in Setuper
  /\ \A i \in 1..4 : Registered[i] = "ProcessVMOff" <=> i = 1
  BY DEF Registered, Setuper

\* The parameters of the running test have their types.
LEMMA ParamFacts ==
  ASSUME test \in Test
  PROVE  /\ P.vms \subseteq VM
         /\ P.saves \subseteq {"on", "off"} /\ P.savesOnError \subseteq {"on", "off"}
         /\ P.screendumps \in BOOLEAN
  BY ParamsAssumption DEF P, ParamType

\* With or without an error, the kinds of states are the ones there are.
LEMMA SavesFacts ==
  ASSUME test \in Test
  PROVE  Saves \subseteq {"on", "off"}
<1>1. P.saves \subseteq {"on", "off"} /\ P.savesOnError \subseteq {"on", "off"}
  BY ParamFacts
<1>2. Saves = P.saves \/ Saves = P.savesOnError
  BY Zenon DEF Saves
<1> QED BY <1>1, <1>2

\* VM.destroy ends processes and starts none.
LEMMA DestroyedShrinks ==
  ASSUME NEW e, NEW vs
  PROVE  Destroyed(e, vs) \subseteq alive
  BY DEF Destroyed

-----------------------------------------------------------------------------
(* Types.                                                                  *)

\* Initially nothing runs and no test has begun.
LEMMA InitType == Init => TypeOK
<1>1. Init => ProcessTypes
  BY DEF Init, ProcessTypes, Nothing
<1>2. Init => ControlTypes
  BY BoundAssumption DEF Init, ControlTypes
<1>3. Init => FlagTypes
  BY Zenon DEF Init, FlagTypes
<1> QED BY <1>1, <1>2, <1>3 DEF TypeOK

\* VM.create gives the object a process with a number of its own.
LEMMA CreateTypes ==
  ASSUME ProcessTypes, NEW v \in VM, Create(v), UNCHANGED <<file, lost>>
  PROVE  ProcessTypes'
<1>1. spawned' = spawned + 1 /\ spawned' \in Nat /\ 1..spawned \subseteq 1..spawned'
  BY DEF Create, ProcessTypes
<1>2. 0..spawned \subseteq 0..spawned'
  BY <1>1
<1>3. alive' \subseteq 1..spawned' /\ lost' \subseteq 1..spawned'
  <2>1. alive' \subseteq alive \union {spawned + 1}
    BY DestroyedShrinks DEF Create
  <2> QED BY <1>1, <2>1 DEF ProcessTypes
<1>4. file' \in [VM -> {None} \union 0..spawned']
  BY <1>2 DEF ProcessTypes
<1>5. env' = [env EXCEPT ![v] = spawned + 1] /\ spawned + 1 \in 0..spawned'
  BY <1>1 DEF Create
<1>6. env' \in [VM -> {None} \union 0..spawned']
  BY <1>2, <1>5 DEF ProcessTypes
<1> QED BY <1>1, <1>3, <1>4, <1>6 DEF ProcessTypes

\* Every process was started by somebody (VM.create, Env.save, Env.destroy).
LEMMA ProcessTypesStep == TypeOK /\ [Next]_vars => ProcessTypes'
<1> SUFFICES ASSUME TypeOK, [Next]_vars PROVE ProcessTypes'
  OBVIOUS
<1> USE DEF hostVars, countVars, flowVars, listVars, threadVars, Fault, NoFault
<1>1. CASE UNCHANGED vars
  BY <1>1 DEF vars, TypeOK, ProcessTypes
<1>2. ASSUME NEW t \in Test, Begin(t) PROVE ProcessTypes'
  BY <1>2 DEF Begin, TypeOK, ProcessTypes
<1>3. CASE Preprocess
  <2>1. CASE SetupPasses
    BY <2>1 DEF SetupPasses, Handle, Destroyed, TypeOK, ProcessTypes
  <2>2. CASE SetupFails
    BY <2>2 DEF SetupFails, TypeOK, ProcessTypes
  <2>3. CASE PreprocessEnds
    BY <2>3 DEF PreprocessEnds, TypeOK, ProcessTypes
  <2>4. CASE SavePre
    BY <2>4 DEF SavePre, Save, Nothing, TypeOK, ProcessTypes
  <2>5. ASSUME NEW v \in VM, PreprocessVM(v) PROVE ProcessTypes'
    <3>1. CASE Create(v)
      BY <2>5, <3>1, CreateTypes DEF PreprocessVM, TypeOK
    <3>2. CASE ~Create(v)
      <4>1. env' = [env EXCEPT ![v] = IF @ = None THEN 0 ELSE @] /\ spawned' = spawned
        BY <2>5, <3>2 DEF PreprocessVM
      <4>2. env' \in [VM -> {None} \union 0..spawned']
        BY <4>1 DEF TypeOK, ProcessTypes
      <4>3. alive' \subseteq alive
        BY <2>5, <3>2, DestroyedShrinks DEF PreprocessVM
      <4> QED BY <2>5, <4>1, <4>2, <4>3 DEF PreprocessVM, TypeOK, ProcessTypes
    <3> QED BY <3>1, <3>2
  <2>6. ASSUME NEW v \in VM, PreprocessVMFails(v) PROVE ProcessTypes'
    <3>1. CASE Create(v)
      BY <2>6, <3>1, CreateTypes DEF PreprocessVMFails, TypeOK
    <3>2. CASE ~Create(v)
      <4>1. env' = [env EXCEPT ![v] = IF @ = None THEN 0 ELSE @] /\ spawned' = spawned
        BY <2>6, <3>2 DEF PreprocessVMFails
      <4>2. env' \in [VM -> {None} \union 0..spawned']
        BY <4>1 DEF TypeOK, ProcessTypes
      <4>3. alive' \subseteq alive
        BY <2>6, <3>2, DestroyedShrinks DEF PreprocessVMFails
      <4> QED BY <2>6, <4>1, <4>2, <4>3 DEF PreprocessVMFails, TypeOK, ProcessTypes
    <3> QED BY <3>1, <3>2
  <2> QED BY <1>3, <2>1, <2>2, <2>3, <2>4, <2>5, <2>6 DEF Preprocess
<1>4. CASE Body
  <2>1. CASE BodyEnds
    BY <2>1 DEF BodyEnds, TypeOK, ProcessTypes
  <2>2. CASE SaveBody
    BY <2>2 DEF SaveBody, Save, Nothing, TypeOK, ProcessTypes
  <2>3. CASE ExitFuncs
    BY <2>3 DEF ExitFuncs, TypeOK, ProcessTypes
  <2>4. CASE OnError
    BY <2>4 DEF OnError, Save, Nothing, TypeOK, ProcessTypes
  <2>5. ASSUME NEW v \in VM, BodyCreates(v) PROVE ProcessTypes'
    BY <2>5, CreateTypes DEF BodyCreates, TypeOK
  <2>6. ASSUME NEW v \in VM, BodyDestroys(v) PROVE ProcessTypes'
    BY <2>6 DEF BodyDestroys, Create, Destroyed, TypeOK, ProcessTypes
  <2> QED BY <1>4, <2>1, <2>2, <2>3, <2>4, <2>5, <2>6 DEF Body
<1>5. CASE Postprocess
  <2>1. CASE PostOn
    BY <2>1 DEF PostOn, TypeOK, ProcessTypes
  <2>2. CASE Unguarded("early", "postVms")
    BY <2>2 DEF Unguarded, TypeOK, ProcessTypes
  <2>3. CASE Unguarded("late", "cleanup")
    BY <2>3 DEF Unguarded, TypeOK, ProcessTypes
  <2>4. CASE StopThread
    BY <2>4 DEF StopThread, TypeOK, ProcessTypes
  <2>5. CASE Join
    BY <2>5 DEF Join, TypeOK, ProcessTypes
  <2>6. CASE Cleanup
    BY <2>6 DEF Cleanup, TypeOK, ProcessTypes
  <2>7. CASE CleanupEnds
    BY <2>7 DEF CleanupEnds, TypeOK, ProcessTypes
  <2>8. CASE SaveEnd
    BY <2>8 DEF SaveEnd, DestroyEnv, Destroyed, Nothing, TypeOK, ProcessTypes
  <2>9. CASE Exit
    BY <2>9 DEF Exit, Nothing, TypeOK, ProcessTypes
  <2>10. ASSUME NEW v \in VM, PostprocessVM(v) PROVE ProcessTypes'
    BY <2>10 DEF PostprocessVM, Create, Destroyed, TypeOK, ProcessTypes
  <2>11. ASSUME NEW v \in VM, PostprocessVMFails(v) PROVE ProcessTypes'
    BY <2>11 DEF PostprocessVMFails, Create, Destroyed, TypeOK, ProcessTypes
  <2> QED BY <1>5, <2>1, <2>2, <2>3, <2>4, <2>5, <2>6, <2>7, <2>8, <2>9, <2>10, <2>11 DEF Postprocess
<1>6. CASE ThreadReports
  BY <1>6 DEF ThreadReports, TypeOK, ProcessTypes
<1>7. CASE ThreadEnds
  BY <1>7 DEF ThreadEnds, TypeOK, ProcessTypes
<1>8. CASE ThreadDies
  BY <1>8 DEF ThreadDies, TypeOK, ProcessTypes
<1>9. CASE Kill
  BY <1>9 DEF Kill, Nothing, TypeOK, ProcessTypes
<1>10. ASSUME NEW p \in alive, ProcessDies(p) PROVE ProcessTypes'
  BY <1>10 DEF ProcessDies, TypeOK, ProcessTypes
<1> QED BY <1>1, <1>2, <1>3, <1>4, <1>5, <1>6, <1>7, <1>8, <1>9, <1>10 DEF Next, ThreadRound, Over

\* Every step leads to a stage and moves along its lists.
LEMMA ControlTypesStep == TypeOK /\ SetupInv /\ [Next]_vars => ControlTypes'
<1> SUFFICES ASSUME TypeOK, SetupInv, [Next]_vars PROVE ControlTypes'
  OBVIOUS
<1> USE DEF hostVars, countVars, flowVars, listVars, threadVars, Fault, NoFault
<1>p. P.vms \subseteq VM /\ Saves \subseteq {"on", "off"}
  BY ParamFacts, SavesFacts DEF TypeOK, ControlTypes
<1>r. Len(Registered) = 4 /\ \A i \in 1..4 : Registered[i] \in Setuper
  BY RegisteredFacts
<1> USE BoundAssumption
<1>1. CASE UNCHANGED vars
  BY <1>1 DEF vars, TypeOK, ControlTypes
<1>2. ASSUME NEW t \in Test, Begin(t) PROVE ControlTypes'
  BY <1>2, <1>r, ParamsAssumption DEF Begin, ParamType, TypeOK, ControlTypes
<1>3. CASE Preprocess
  <2>1. CASE SetupPasses
    BY <2>1, <1>r DEF SetupPasses, SetupInv, TypeOK, ControlTypes
  <2>2. CASE SetupFails
    BY <2>2, <1>r DEF SetupFails, SetupInv, Truncated, TypeOK, ControlTypes
  <2>3. CASE PreprocessEnds
    BY <2>3 DEF PreprocessEnds, TypeOK, ControlTypes
  <2>4. CASE SavePre
    BY <2>4 DEF SavePre, Save, TypeOK, ControlTypes
  <2>5. ASSUME NEW v \in VM, PreprocessVM(v) PROVE ControlTypes'
    BY <2>5 DEF PreprocessVM, TypeOK, ControlTypes
  <2>6. ASSUME NEW v \in VM, PreprocessVMFails(v) PROVE ControlTypes'
    BY <2>6 DEF PreprocessVMFails, TypeOK, ControlTypes
  <2> QED BY <1>3, <2>1, <2>2, <2>3, <2>4, <2>5, <2>6 DEF Preprocess
<1>4. CASE Body
  <2>1. CASE BodyEnds
    BY <2>1 DEF BodyEnds, TypeOK, ControlTypes
  <2>2. CASE SaveBody
    BY <2>2 DEF SaveBody, Save, TypeOK, ControlTypes
  <2>3. CASE ExitFuncs
    BY <2>3 DEF ExitFuncs, TypeOK, ControlTypes
  <2>4. CASE OnError
    BY <2>4 DEF OnError, Save, TypeOK, ControlTypes
  <2>5. ASSUME NEW v \in VM, BodyCreates(v) PROVE ControlTypes'
    BY <2>5 DEF BodyCreates, TypeOK, ControlTypes
  <2>6. ASSUME NEW v \in VM, BodyDestroys(v) PROVE ControlTypes'
    BY <2>6 DEF BodyDestroys, TypeOK, ControlTypes
  <2> QED BY <1>4, <2>1, <2>2, <2>3, <2>4, <2>5, <2>6 DEF Body
<1>5. CASE Postprocess
  <2>1. CASE PostOn
    <3>1. saved' \subseteq {"on", "off"}
      BY <2>1, <1>p DEF PostOn, Hook, TypeOK, ControlTypes
    <3>2. faults' \in 0..MaxFaults
      BY <2>1 DEF PostOn, Hook, TypeOK, ControlTypes
    <3> QED BY <2>1, <3>1, <3>2 DEF PostOn, TypeOK, ControlTypes
  <2>2. CASE Unguarded("early", "postVms")
    BY <2>2, <1>p DEF Unguarded, TypeOK, ControlTypes
  <2>3. CASE Unguarded("late", "cleanup")
    BY <2>3, <1>p DEF Unguarded, TypeOK, ControlTypes
  <2>4. CASE StopThread
    BY <2>4 DEF StopThread, TypeOK, ControlTypes
  <2>5. CASE Join
    BY <2>5 DEF Join, TypeOK, ControlTypes
  <2>6. CASE Cleanup
    <3>1. saved' \subseteq {"on", "off"}
      BY <2>6, <1>p DEF Cleanup, Hook, TypeOK, ControlTypes
    <3>2. host' \subseteq host /\ excused' \subseteq excused \union {Registered[setupers]}
      BY <2>6 DEF Cleanup
    <3>3. faults' \in 0..MaxFaults /\ setupers \in 1..4 /\ setupers' = setupers - 1
      BY <2>6, <1>r DEF Cleanup, Hook, TypeOK, ControlTypes
    <3> QED BY <2>6, <1>r, <3>1, <3>2, <3>3 DEF Cleanup, TypeOK, ControlTypes
  <2>7. CASE CleanupEnds
    BY <2>7 DEF CleanupEnds, TypeOK, ControlTypes
  <2>8. CASE SaveEnd
    BY <2>8 DEF SaveEnd, LeftBehind, TypeOK, ControlTypes
  <2>9. CASE Exit
    BY <2>9 DEF Exit, TypeOK, ControlTypes
  <2>10. ASSUME NEW v \in VM, PostprocessVM(v) PROVE ControlTypes'
    BY <2>10 DEF PostprocessVM, TypeOK, ControlTypes
  <2>11. ASSUME NEW v \in VM, PostprocessVMFails(v) PROVE ControlTypes'
    BY <2>11 DEF PostprocessVMFails, TypeOK, ControlTypes
  <2> QED BY <1>5, <2>1, <2>2, <2>3, <2>4, <2>5, <2>6, <2>7, <2>8, <2>9, <2>10, <2>11 DEF Postprocess
<1>6. CASE ThreadReports
  BY <1>6 DEF ThreadReports, TypeOK, ControlTypes
<1>7. CASE ThreadEnds
  BY <1>7 DEF ThreadEnds, TypeOK, ControlTypes
<1>8. CASE ThreadDies
  BY <1>8 DEF ThreadDies, TypeOK, ControlTypes
<1>9. CASE Kill
  BY <1>9 DEF Kill, TypeOK, ControlTypes
<1>10. ASSUME NEW p \in alive, ProcessDies(p) PROVE ControlTypes'
  BY <1>10 DEF ProcessDies, TypeOK, ControlTypes
<1> QED BY <1>1, <1>2, <1>3, <1>4, <1>5, <1>6, <1>7, <1>8, <1>9, <1>10 DEF Next, ThreadRound, Over

\* The flags of _runTest and postprocess stay Boolean.
LEMMA FlagTypesStep == TypeOK /\ [Next]_vars => FlagTypes'
<1> SUFFICES ASSUME TypeOK, [Next]_vars PROVE FlagTypes'
  OBVIOUS
<1> USE DEF hostVars, countVars, flowVars, listVars, threadVars, Fault, NoFault
<1>1. CASE UNCHANGED vars
  BY <1>1 DEF vars, TypeOK, FlagTypes
<1>2. ASSUME NEW t \in Test, Begin(t) PROVE FlagTypes'
  BY <1>2, Zenon DEF Begin, FlagTypes
<1>3. CASE Preprocess
  <2>1. CASE SetupPasses
    BY <2>1, Zenon DEF SetupPasses, TypeOK, FlagTypes
  <2>2. CASE SetupFails
    BY <2>2, Zenon DEF SetupFails, TypeOK, FlagTypes
  <2>3. CASE PreprocessEnds
    <3>1. P.screendumps \in BOOLEAN
      BY ParamFacts DEF TypeOK, ControlTypes
    <3> QED BY <2>3, <3>1, Zenon DEF PreprocessEnds, TypeOK, FlagTypes
  <2>4. CASE SavePre
    BY <2>4, Zenon DEF SavePre, TypeOK, FlagTypes
  <2>5. ASSUME NEW v \in VM, PreprocessVM(v) PROVE FlagTypes'
    BY <2>5, Zenon DEF PreprocessVM, TypeOK, FlagTypes
  <2>6. ASSUME NEW v \in VM, PreprocessVMFails(v) PROVE FlagTypes'
    BY <2>6, Zenon DEF PreprocessVMFails, TypeOK, FlagTypes
  <2> QED BY <1>3, <2>1, <2>2, <2>3, <2>4, <2>5, <2>6 DEF Preprocess
<1>4. CASE Body
  <2>1. CASE BodyEnds
    BY <2>1, Zenon DEF BodyEnds, TypeOK, FlagTypes
  <2>2. CASE SaveBody
    BY <2>2, Zenon DEF SaveBody, TypeOK, FlagTypes
  <2>3. CASE ExitFuncs
    BY <2>3, Zenon DEF ExitFuncs, TypeOK, FlagTypes
  <2>4. CASE OnError
    BY <2>4, Zenon DEF OnError, TypeOK, FlagTypes
  <2>5. ASSUME NEW v \in VM, BodyCreates(v) PROVE FlagTypes'
    BY <2>5, Zenon DEF BodyCreates, TypeOK, FlagTypes
  <2>6. ASSUME NEW v \in VM, BodyDestroys(v) PROVE FlagTypes'
    BY <2>6, Zenon DEF BodyDestroys, TypeOK, FlagTypes
  <2> QED BY <1>4, <2>1, <2>2, <2>3, <2>4, <2>5, <2>6 DEF Body
<1>5. CASE Postprocess
  <2>1. CASE PostOn
    BY <2>1, Zenon DEF PostOn, Hook, TypeOK, FlagTypes
  <2>2. CASE Unguarded("early", "postVms")
    BY <2>2, Zenon DEF Unguarded, TypeOK, FlagTypes
  <2>3. CASE Unguarded("late", "cleanup")
    BY <2>3, Zenon DEF Unguarded, TypeOK, FlagTypes
  <2>4. CASE StopThread
    BY <2>4, Zenon DEF StopThread, Terminate, TypeOK, FlagTypes
  <2>5. CASE Join
    BY <2>5, Zenon DEF Join, TypeOK, FlagTypes
  <2>6. CASE Cleanup
    BY <2>6, Zenon DEF Cleanup, Hook, TypeOK, FlagTypes
  <2>7. CASE CleanupEnds
    BY <2>7, Zenon DEF CleanupEnds, TypeOK, FlagTypes
  <2>8. CASE SaveEnd
    BY <2>8, Zenon DEF SaveEnd, TypeOK, FlagTypes
  <2>9. CASE Exit
    BY <2>9, Zenon DEF Exit, TypeOK, FlagTypes
  <2>10. ASSUME NEW v \in VM, PostprocessVM(v) PROVE FlagTypes'
    BY <2>10, Zenon DEF PostprocessVM, TypeOK, FlagTypes
  <2>11. ASSUME NEW v \in VM, PostprocessVMFails(v) PROVE FlagTypes'
    BY <2>11, Zenon DEF PostprocessVMFails, TypeOK, FlagTypes
  <2> QED BY <1>5, <2>1, <2>2, <2>3, <2>4, <2>5, <2>6, <2>7, <2>8, <2>9, <2>10, <2>11 DEF Postprocess
<1>6. CASE ThreadReports
  BY <1>6, Zenon DEF ThreadReports, TypeOK, FlagTypes
<1>7. CASE ThreadEnds
  BY <1>7, Zenon DEF ThreadEnds, TypeOK, FlagTypes
<1>8. CASE ThreadDies
  BY <1>8, Zenon DEF ThreadDies, TypeOK, FlagTypes
<1>9. CASE Kill
  BY <1>9, Zenon DEF Kill, TypeOK, FlagTypes
<1>10. ASSUME NEW p \in alive, ProcessDies(p) PROVE FlagTypes'
  BY <1>10, Zenon DEF ProcessDies, TypeOK, FlagTypes
<1> QED BY <1>1, <1>2, <1>3, <1>4, <1>5, <1>6, <1>7, <1>8, <1>9, <1>10 DEF Next, ThreadRound, Over

\* The setupper at hand is one of the list (do_setup).
LEMMA SetupInvStep == TypeOK /\ SetupInv /\ [Next]_vars => SetupInv'
<1> SUFFICES ASSUME TypeOK, SetupInv, [Next]_vars PROVE SetupInv'
  OBVIOUS
<1> USE DEF hostVars, countVars, flowVars, listVars, threadVars, Fault, NoFault
<1>1. CASE UNCHANGED vars
  BY <1>1 DEF vars, SetupInv
<1>2. ASSUME NEW t \in Test, Begin(t) PROVE SetupInv'
  BY <1>2, RegisteredFacts DEF Begin, SetupInv
<1>3. CASE Preprocess
  <2>1. CASE SetupPasses
    BY <2>1 DEF SetupPasses, SetupInv, TypeOK, ControlTypes
  <2>2. CASE SetupFails
    BY <2>2 DEF SetupFails, SetupInv
  <2>3. CASE PreprocessEnds
    BY <2>3 DEF PreprocessEnds, SetupInv
  <2>4. CASE SavePre
    BY <2>4 DEF SavePre, SetupInv
  <2>5. ASSUME NEW v \in VM, PreprocessVM(v) PROVE SetupInv'
    BY <2>5 DEF PreprocessVM, SetupInv
  <2>6. ASSUME NEW v \in VM, PreprocessVMFails(v) PROVE SetupInv'
    BY <2>6 DEF PreprocessVMFails, SetupInv
  <2> QED BY <1>3, <2>1, <2>2, <2>3, <2>4, <2>5, <2>6 DEF Preprocess
<1>4. CASE Body
  <2>1. CASE BodyEnds
    BY <2>1 DEF BodyEnds, SetupInv
  <2>2. CASE SaveBody
    BY <2>2 DEF SaveBody, SetupInv
  <2>3. CASE ExitFuncs
    BY <2>3 DEF ExitFuncs, SetupInv
  <2>4. CASE OnError
    BY <2>4 DEF OnError, SetupInv
  <2>5. ASSUME NEW v \in VM, BodyCreates(v) PROVE SetupInv'
    BY <2>5 DEF BodyCreates, SetupInv
  <2>6. ASSUME NEW v \in VM, BodyDestroys(v) PROVE SetupInv'
    BY <2>6 DEF BodyDestroys, SetupInv
  <2> QED BY <1>4, <2>1, <2>2, <2>3, <2>4, <2>5, <2>6 DEF Body
<1>5. CASE Postprocess
  <2>1. CASE PostOn
    BY <2>1 DEF PostOn, SetupInv
  <2>2. CASE Unguarded("early", "postVms")
    BY <2>2 DEF Unguarded, SetupInv
  <2>3. CASE Unguarded("late", "cleanup")
    BY <2>3 DEF Unguarded, SetupInv
  <2>4. CASE StopThread
    BY <2>4 DEF StopThread, SetupInv
  <2>5. CASE Join
    BY <2>5 DEF Join, SetupInv
  <2>6. CASE Cleanup
    BY <2>6 DEF Cleanup, SetupInv
  <2>7. CASE CleanupEnds
    BY <2>7 DEF CleanupEnds, SetupInv
  <2>8. CASE SaveEnd
    BY <2>8 DEF SaveEnd, SetupInv
  <2>9. CASE Exit
    BY <2>9 DEF Exit, SetupInv
  <2>10. ASSUME NEW v \in VM, PostprocessVM(v) PROVE SetupInv'
    BY <2>10 DEF PostprocessVM, SetupInv
  <2>11. ASSUME NEW v \in VM, PostprocessVMFails(v) PROVE SetupInv'
    BY <2>11 DEF PostprocessVMFails, SetupInv
  <2> QED BY <1>5, <2>1, <2>2, <2>3, <2>4, <2>5, <2>6, <2>7, <2>8, <2>9, <2>10, <2>11 DEF Postprocess
<1>6. CASE ThreadReports
  BY <1>6 DEF ThreadReports, SetupInv
<1>7. CASE ThreadEnds
  BY <1>7 DEF ThreadEnds, SetupInv
<1>8. CASE ThreadDies
  BY <1>8 DEF ThreadDies, SetupInv
<1>9. CASE Kill
  BY <1>9 DEF Kill, SetupInv
<1>10. ASSUME NEW p \in alive, ProcessDies(p) PROVE SetupInv'
  BY <1>10 DEF ProcessDies, SetupInv
<1> QED BY <1>1, <1>2, <1>3, <1>4, <1>5, <1>6, <1>7, <1>8, <1>9, <1>10 DEF Next, ThreadRound, Over

\* The types are inductive once do_setup is known to stop at the last setupper.
LEMMA TypesAndSetup == Spec => [](TypeOK /\ SetupInv)
<1>1. Init => TypeOK /\ SetupInv
  BY InitType DEF Init, SetupInv
<1>2. TypeOK /\ SetupInv /\ [Next]_vars => (TypeOK /\ SetupInv)'
  BY ProcessTypesStep, ControlTypesStep, FlagTypesStep, SetupInvStep DEF TypeOK
<1> QED BY <1>1, <1>2, PTL DEF Spec

\* The types, for all steps of a test and of what runs next to it.
THEOREM TypeCorrect == Spec => []TypeOK
  BY TypesAndSetup, PTL

-----------------------------------------------------------------------------
(* Processes.                                                              *)

\* VM.create leaves nothing behind: it replaces the process of its own object.
LEMMA CreateKeeps ==
  ASSUME TypeOK, NEW v \in VM, Create(v), UNCHANGED lost,
         alive \subseteq Processes(env) \union lost
  PROVE  alive' \subseteq Processes(env') \union lost'
<1> SUFFICES ASSUME NEW p \in alive', p \notin lost PROVE p \in Processes(env')
  OBVIOUS
<1>1. spawned \in Nat /\ env \in [VM -> {None} \union 0..spawned]
  BY DEF TypeOK, ProcessTypes
<1>2. env' = [env EXCEPT ![v] = spawned + 1]
  BY DEF Create
<1>3. CASE p = spawned + 1
  BY <1>1, <1>2, <1>3, NoneAssumption DEF Processes
<1>4. CASE p # spawned + 1
  <2>1. p \in alive /\ p # env[v]
    BY <1>4 DEF Create, Destroyed
  <2>2. PICK w \in VM : p = env[w] /\ p \notin {None, 0}
    BY <2>1 DEF Processes
  <2>3. env'[w] = p
    BY <1>1, <1>2, <2>1, <2>2
  <2> QED BY <2>2, <2>3 DEF Processes
<1> QED BY <1>3, <1>4

\* An object that is made without a process keeps the others as they are.
LEMMA AddedKeeps ==
  ASSUME TypeOK, NEW v \in VM, env' = [env EXCEPT ![v] = IF @ = None THEN 0 ELSE @],
         alive' \subseteq alive, UNCHANGED lost,
         alive \subseteq Processes(env) \union lost
  PROVE  alive' \subseteq Processes(env') \union lost'
<1> SUFFICES ASSUME NEW p \in alive', p \notin lost PROVE p \in Processes(env')
  OBVIOUS
<1>1. PICK w \in VM : p = env[w] /\ p \notin {None, 0}
  BY DEF Processes
<1>2. env'[w] = p
  BY <1>1
<1> QED BY <1>1, <1>2 DEF Processes

\* No step loses a process, but a kill.
LEMMA ProcessInvStep == TypeOK /\ ProcessInv /\ [Next]_vars => ProcessInv'
<1> SUFFICES ASSUME TypeOK, ProcessInv, [Next]_vars PROVE ProcessInv'
  OBVIOUS
<1> USE DEF hostVars, countVars, flowVars, listVars, threadVars, Fault, NoFault
<1>1. CASE UNCHANGED vars
  BY <1>1 DEF vars, ProcessInv, NoOrphan
<1>2. ASSUME NEW t \in Test, Begin(t) PROVE ProcessInv'
  BY <1>2 DEF Begin, ProcessInv, NoOrphan
<1>3. CASE Preprocess
  <2>1. CASE SetupPasses
    <3>1. CASE UNCHANGED <<alive, env>>
      BY <2>1, <3>1 DEF SetupPasses, ProcessInv, NoOrphan
    <3>2. CASE alive' = Destroyed(env, Unrequested)
               /\ env' = [v \in VM |-> IF v \in Unrequested THEN None ELSE env[v]]
      <4>1. ASSUME NEW p \in alive', p \notin lost PROVE p \in Processes(env')
        <5>1. p \in alive /\ \A v \in Unrequested : p # env[v]
          BY <3>2 DEF Destroyed
        <5>2. PICK w \in VM : p = env[w] /\ p \notin {None, 0}
          BY <2>1, <4>1, <5>1 DEF SetupPasses, ProcessInv, NoOrphan, Processes
        <5>3. env'[w] = p
          BY <3>2, <5>1, <5>2
        <5> QED BY <5>2, <5>3 DEF Processes
      <4> QED BY <2>1, <4>1 DEF SetupPasses, ProcessInv, NoOrphan
    <3> QED BY <2>1, <3>1, <3>2 DEF SetupPasses, Handle
  <2>2. CASE SetupFails
    BY <2>2 DEF SetupFails, ProcessInv, NoOrphan
  <2>3. CASE PreprocessEnds
    BY <2>3 DEF PreprocessEnds, ProcessInv, NoOrphan
  <2>4. CASE SavePre
    BY <2>4 DEF SavePre, ProcessInv, NoOrphan
  <2>5. ASSUME NEW v \in VM, PreprocessVM(v) PROVE ProcessInv'
    <3>1. CASE Create(v)
      BY <2>5, <3>1, CreateKeeps DEF PreprocessVM, ProcessInv, NoOrphan
    <3>2. CASE ~Create(v)
      <4>1. env' = [env EXCEPT ![v] = IF @ = None THEN 0 ELSE @] /\ alive' \subseteq alive
        BY <2>5, <3>2, DestroyedShrinks DEF PreprocessVM
      <4> QED BY <2>5, <4>1, AddedKeeps DEF PreprocessVM, ProcessInv, NoOrphan
    <3> QED BY <3>1, <3>2
  <2>6. ASSUME NEW v \in VM, PreprocessVMFails(v) PROVE ProcessInv'
    <3>1. CASE Create(v)
      BY <2>6, <3>1, CreateKeeps DEF PreprocessVMFails, ProcessInv, NoOrphan
    <3>2. CASE ~Create(v)
      <4>1. env' = [env EXCEPT ![v] = IF @ = None THEN 0 ELSE @] /\ alive' \subseteq alive
        BY <2>6, <3>2, DestroyedShrinks DEF PreprocessVMFails
      <4> QED BY <2>6, <4>1, AddedKeeps DEF PreprocessVMFails, ProcessInv, NoOrphan
    <3> QED BY <3>1, <3>2
  <2> QED BY <1>3, <2>1, <2>2, <2>3, <2>4, <2>5, <2>6 DEF Preprocess
<1>4. CASE Body
  <2>1. CASE BodyEnds
    BY <2>1 DEF BodyEnds, ProcessInv, NoOrphan
  <2>2. CASE SaveBody
    BY <2>2 DEF SaveBody, ProcessInv, NoOrphan
  <2>3. CASE ExitFuncs
    BY <2>3 DEF ExitFuncs, ProcessInv, NoOrphan
  <2>4. CASE OnError
    BY <2>4 DEF OnError, ProcessInv, NoOrphan
  <2>5. ASSUME NEW v \in VM, BodyCreates(v) PROVE ProcessInv'
    BY <2>5, CreateKeeps DEF BodyCreates, ProcessInv, NoOrphan
  <2>6. ASSUME NEW v \in VM, BodyDestroys(v) PROVE ProcessInv'
    BY <2>6 DEF BodyDestroys, Destroyed, ProcessInv, NoOrphan
  <2> QED BY <1>4, <2>1, <2>2, <2>3, <2>4, <2>5, <2>6 DEF Body
<1>5. CASE Postprocess
  <2>1. CASE PostOn
    BY <2>1 DEF PostOn, ProcessInv, NoOrphan
  <2>2. CASE Unguarded("early", "postVms")
    BY <2>2 DEF Unguarded, ProcessInv, NoOrphan
  <2>3. CASE Unguarded("late", "cleanup")
    BY <2>3 DEF Unguarded, ProcessInv, NoOrphan
  <2>4. CASE StopThread
    BY <2>4 DEF StopThread, ProcessInv, NoOrphan
  <2>5. CASE Join
    BY <2>5 DEF Join, ProcessInv, NoOrphan
  <2>6. CASE Cleanup
    BY <2>6 DEF Cleanup, ProcessInv, NoOrphan
  <2>7. CASE CleanupEnds
    BY <2>7 DEF CleanupEnds, ProcessInv, NoOrphan
  <2>8. CASE SaveEnd
    BY <2>8 DEF SaveEnd, DestroyEnv, Destroyed, ProcessInv, NoOrphan, Processes
  <2>9. CASE Exit
    BY <2>9 DEF Exit, ProcessInv, NoOrphan
  <2>10. ASSUME NEW v \in VM, PostprocessVM(v) PROVE ProcessInv'
    BY <2>10 DEF PostprocessVM, Destroyed, ProcessInv, NoOrphan
  <2>11. ASSUME NEW v \in VM, PostprocessVMFails(v) PROVE ProcessInv'
    BY <2>11 DEF PostprocessVMFails, Destroyed, ProcessInv, NoOrphan
  <2> QED BY <1>5, <2>1, <2>2, <2>3, <2>4, <2>5, <2>6, <2>7, <2>8, <2>9, <2>10, <2>11 DEF Postprocess
<1>6. CASE ThreadReports
  BY <1>6 DEF ThreadReports, ProcessInv, NoOrphan
<1>7. CASE ThreadEnds
  BY <1>7 DEF ThreadEnds, ProcessInv, NoOrphan
<1>8. CASE ThreadDies
  BY <1>8 DEF ThreadDies, ProcessInv, NoOrphan
<1>9. CASE Kill
  BY <1>9 DEF Kill, ProcessInv, NoOrphan
<1>10. ASSUME NEW p \in alive, ProcessDies(p) PROVE ProcessInv'
  BY <1>10 DEF ProcessDies, ProcessInv, NoOrphan
<1> QED BY <1>1, <1>2, <1>3, <1>4, <1>5, <1>6, <1>7, <1>8, <1>9, <1>10 DEF Next, ThreadRound, Over

\* A running process is known to the environment, so that the next test finds
\* it: whatever VMs a test starts and stops and wherever it fails.
THEOREM ProcessesKnown == Spec => []NoOrphan
<1>1. Init => ProcessInv
  BY DEF Init, ProcessInv, NoOrphan
<1>2. TypeOK /\ ProcessInv /\ [Next]_vars => ProcessInv'
  BY ProcessInvStep
<1>3. ProcessInv => NoOrphan
  BY DEF ProcessInv
<1> QED BY <1>1, <1>2, <1>3, TypesAndSetup, PTL DEF Spec

-----------------------------------------------------------------------------
(* The host.                                                               *)

\* What is in effect stays listed until it is undone (SetupManager).
LEMMA HostInvStep == TypeOK /\ SetupInv /\ HostInv /\ [Next]_vars => HostInv'
<1> SUFFICES ASSUME TypeOK, SetupInv, HostInv, [Next]_vars PROVE HostInv'
  OBVIOUS
<1> USE DEF hostVars, countVars, flowVars, listVars, threadVars, Fault, NoFault
<1>1. CASE UNCHANGED vars
  BY <1>1 DEF vars, HostInv
<1>2. ASSUME NEW t \in Test, Begin(t) PROVE HostInv'
  BY <1>2 DEF Begin, HostInv
<1>3. CASE Preprocess
  <2>1. CASE SetupPasses
    <3>1. at \in 1..4 /\ host \subseteq excused \union Listed(at - 1) /\ setupers = 4
      BY <2>1, RegisteredFacts DEF SetupPasses, SetupInv, HostInv, TypeOK, ControlTypes
    <3>2. host' \subseteq excused' \union Listed(at)
      BY <2>1, <3>1 DEF SetupPasses, Listed
    <3>3. at' - 1 = at /\ (pc' = "vms" => at = setupers') /\ pc' \in {"setup", "vms"}
      BY <2>1, <3>1, RegisteredFacts DEF SetupPasses
    <3>4. ~cut' /\ setupers' = 4
      BY <2>1, <3>1 DEF SetupPasses, HostInv
    <3> QED BY <3>2, <3>3, <3>4, RegisteredFacts DEF HostInv
  <2>2. CASE SetupFails
    BY <2>2 DEF SetupFails, Truncated, HostInv, Listed, TypeOK, ControlTypes
  <2>3. CASE PreprocessEnds
    BY <2>3 DEF PreprocessEnds, HostInv, Before
  <2>4. CASE SavePre
    BY <2>4 DEF SavePre, HostInv, Before
  <2>5. ASSUME NEW v \in VM, PreprocessVM(v) PROVE HostInv'
    BY <2>5 DEF PreprocessVM, HostInv
  <2>6. ASSUME NEW v \in VM, PreprocessVMFails(v) PROVE HostInv'
    BY <2>6 DEF PreprocessVMFails, HostInv, Before
  <2> QED BY <1>3, <2>1, <2>2, <2>3, <2>4, <2>5, <2>6 DEF Preprocess
<1>4. CASE Body
  <2>1. CASE BodyEnds
    BY <2>1 DEF BodyEnds, HostInv, Before
  <2>2. CASE SaveBody
    BY <2>2 DEF SaveBody, HostInv, Before
  <2>3. CASE ExitFuncs
    BY <2>3 DEF ExitFuncs, HostInv, Before
  <2>4. CASE OnError
    BY <2>4 DEF OnError, HostInv, Before
  <2>5. ASSUME NEW v \in VM, BodyCreates(v) PROVE HostInv'
    BY <2>5 DEF BodyCreates, HostInv
  <2>6. ASSUME NEW v \in VM, BodyDestroys(v) PROVE HostInv'
    BY <2>6 DEF BodyDestroys, HostInv
  <2> QED BY <1>4, <2>1, <2>2, <2>3, <2>4, <2>5, <2>6 DEF Body
<1>5. CASE Postprocess
  <2>1. CASE PostOn
    BY <2>1 DEF PostOn, HostInv
  <2>2. CASE Unguarded("early", "postVms")
    BY <2>2 DEF Unguarded, HostInv, AfterHook
  <2>3. CASE Unguarded("late", "cleanup")
    BY <2>3 DEF Unguarded, HostInv, AfterHook
  <2>4. CASE StopThread
    BY <2>4 DEF StopThread, HostInv, AfterHook
  <2>5. CASE Join
    BY <2>5 DEF Join, HostInv, AfterHook
  <2>6. CASE Cleanup
    BY <2>6 DEF Cleanup, HostInv, Listed, TypeOK, ControlTypes
  <2>7. CASE CleanupEnds
    BY <2>7 DEF CleanupEnds, HostInv, AfterHook, Listed
  <2>8. CASE SaveEnd
    BY <2>8 DEF SaveEnd, LeftBehind, HostInv
  <2>9. CASE Exit
    BY <2>9 DEF Exit, HostInv
  <2>10. ASSUME NEW v \in VM, PostprocessVM(v) PROVE HostInv'
    BY <2>10 DEF PostprocessVM, HostInv
  <2>11. ASSUME NEW v \in VM, PostprocessVMFails(v) PROVE HostInv'
    BY <2>11 DEF PostprocessVMFails, HostInv
  <2> QED BY <1>5, <2>1, <2>2, <2>3, <2>4, <2>5, <2>6, <2>7, <2>8, <2>9, <2>10, <2>11 DEF Postprocess
<1>6. CASE ThreadReports
  BY <1>6 DEF ThreadReports, HostInv
<1>7. CASE ThreadEnds
  BY <1>7 DEF ThreadEnds, HostInv
<1>8. CASE ThreadDies
  BY <1>8 DEF ThreadDies, HostInv
<1>9. CASE Kill
  BY <1>9 DEF Kill, HostInv
<1>10. ASSUME NEW p \in alive, ProcessDies(p) PROVE HostInv'
  BY <1>10 DEF ProcessDies, HostInv
<1> QED BY <1>1, <1>2, <1>3, <1>4, <1>5, <1>6, <1>7, <1>8, <1>9, <1>10 DEF Next, ThreadRound, Over

\* A test that is over has restored the host: do_cleanup works off the list,
\* which a failed setup has cut behind the setupper that failed.
THEOREM HostIsRestored == Spec => []HostRestored
<1>1. Init => HostInv
  BY DEF Init, HostInv
<1>2. TypeOK /\ SetupInv /\ HostInv /\ [Next]_vars => HostInv'
  BY HostInvStep
<1>3. HostInv => HostRestored
  BY DEF HostInv, HostRestored
<1> QED BY <1>1, <1>2, <1>3, TypesAndSetup, PTL DEF Spec

-----------------------------------------------------------------------------
(* The verdict.                                                            *)

\* The flags follow the exception through _runTest.
LEMMA FlowInvStep == TypeOK /\ SetupInv /\ FlowInv /\ [Next]_vars => FlowInv'
<1> SUFFICES ASSUME TypeOK, SetupInv, FlowInv, [Next]_vars PROVE FlowInv'
  OBVIOUS
<1> USE DEF hostVars, countVars, flowVars, listVars, threadVars, Fault, NoFault
<1>1. CASE UNCHANGED vars
  BY <1>1 DEF vars, FlowInv, Saves, P
<1>2. ASSUME NEW t \in Test, Begin(t) PROVE FlowInv'
  BY <1>2, RegisteredFacts DEF Begin, FlowInv, AfterHook
<1>3. CASE Preprocess
  <2>1. CASE SetupPasses
    BY <2>1 DEF SetupPasses, FlowInv, Before, AfterHook
  <2>2. CASE SetupFails
    BY <2>2 DEF SetupFails, Truncated, FlowInv, Before, AfterHook, TypeOK, ControlTypes
  <2>3. CASE PreprocessEnds
    BY <2>3 DEF PreprocessEnds, FlowInv, Before, AfterHook
  <2>4. CASE SavePre
    BY <2>4 DEF SavePre, FlowInv, Before, AfterHook
  <2>5. ASSUME NEW v \in VM, PreprocessVM(v) PROVE FlowInv'
    BY <2>5 DEF PreprocessVM, FlowInv, Saves, P
  <2>6. ASSUME NEW v \in VM, PreprocessVMFails(v) PROVE FlowInv'
    BY <2>6 DEF PreprocessVMFails, FlowInv, Before, AfterHook
  <2> QED BY <1>3, <2>1, <2>2, <2>3, <2>4, <2>5, <2>6 DEF Preprocess
<1>4. CASE Body
  <2>1. CASE BodyEnds
    BY <2>1 DEF BodyEnds, FlowInv, Before, AfterHook
  <2>2. CASE SaveBody
    BY <2>2 DEF SaveBody, FlowInv, Before, AfterHook
  <2>3. CASE ExitFuncs
    BY <2>3 DEF ExitFuncs, FlowInv, Before, AfterHook
  <2>4. CASE OnError
    BY <2>4 DEF OnError, FlowInv, Before
  <2>5. ASSUME NEW v \in VM, BodyCreates(v) PROVE FlowInv'
    BY <2>5 DEF BodyCreates, FlowInv, Saves, P
  <2>6. ASSUME NEW v \in VM, BodyDestroys(v) PROVE FlowInv'
    BY <2>6 DEF BodyDestroys, FlowInv, Saves, P
  <2> QED BY <1>4, <2>1, <2>2, <2>3, <2>4, <2>5, <2>6 DEF Body
<1>5. CASE Postprocess
  <2>1. CASE PostOn
    BY <2>1 DEF PostOn, Hook, FlowInv, Saves, P, Before
  <2>2. CASE Unguarded("early", "postVms")
    BY <2>2 DEF Unguarded, FlowInv, Saves, P, Before, AfterHook
  <2>3. CASE Unguarded("late", "cleanup")
    BY <2>3 DEF Unguarded, FlowInv, Saves, P, Before, AfterHook
  <2>4. CASE StopThread
    BY <2>4 DEF StopThread, FlowInv, Saves, P, Before, AfterHook
  <2>5. CASE Join
    BY <2>5 DEF Join, FlowInv, Saves, P, Before, AfterHook
  <2>6. CASE Cleanup
    BY <2>6 DEF Cleanup, Hook, FlowInv, Saves, P, Before, AfterHook
  <2>7. CASE CleanupEnds
    BY <2>7 DEF CleanupEnds, FlowInv, Saves, P, Before, AfterHook
  <2>8. CASE SaveEnd
    BY <2>8 DEF SaveEnd, FlowInv, Saves, P, Before
  <2>9. CASE Exit
    BY <2>9 DEF Exit, FlowInv, Saves, P, Before, AfterHook
  <2>10. ASSUME NEW v \in VM, PostprocessVM(v) PROVE FlowInv'
    BY <2>10 DEF PostprocessVM, FlowInv, Saves, P
  <2>11. ASSUME NEW v \in VM, PostprocessVMFails(v) PROVE FlowInv'
    BY <2>11 DEF PostprocessVMFails, FlowInv, Saves, P, Before
  <2> QED BY <1>5, <2>1, <2>2, <2>3, <2>4, <2>5, <2>6, <2>7, <2>8, <2>9, <2>10, <2>11 DEF Postprocess
<1>6. CASE ThreadReports
  BY <1>6 DEF ThreadReports, FlowInv, Saves, P
<1>7. CASE ThreadEnds
  BY <1>7 DEF ThreadEnds, FlowInv, Saves, P
<1>8. CASE ThreadDies
  BY <1>8 DEF ThreadDies, FlowInv, Saves, P
<1>9. CASE Kill
  BY <1>9 DEF Kill, FlowInv, Saves, P, Before, AfterHook
<1>10. ASSUME NEW p \in alive, ProcessDies(p) PROVE FlowInv'
  BY <1>10 DEF ProcessDies, FlowInv, Saves, P
<1> QED BY <1>1, <1>2, <1>3, <1>4, <1>5, <1>6, <1>7, <1>8, <1>9, <1>10 DEF Next, ThreadRound, Over

\* Every hook sets its states or reports its failure.
LEMMA HookInvStep == TypeOK /\ FlowInv /\ HookInv /\ [Next]_vars => HookInv'
<1> SUFFICES ASSUME TypeOK, FlowInv, HookInv, [Next]_vars PROVE HookInv'
  OBVIOUS
<1> USE DEF hostVars, countVars, flowVars, listVars, threadVars, Fault, NoFault
<1>1. CASE UNCHANGED vars
  BY <1>1 DEF vars, HookInv, Saves, P
<1>2. ASSUME NEW t \in Test, Begin(t) PROVE HookInv'
  BY <1>2 DEF Begin, HookInv, AfterHook
<1>3. CASE Preprocess
  <2>1. CASE SetupPasses
    BY <2>1 DEF SetupPasses, HookInv, AfterHook
  <2>2. CASE SetupFails
    BY <2>2 DEF SetupFails, HookInv, AfterHook
  <2>3. CASE PreprocessEnds
    BY <2>3 DEF PreprocessEnds, HookInv, AfterHook
  <2>4. CASE SavePre
    BY <2>4 DEF SavePre, HookInv, AfterHook
  <2>5. ASSUME NEW v \in VM, PreprocessVM(v) PROVE HookInv'
    BY <2>5 DEF PreprocessVM, HookInv, Saves, P
  <2>6. ASSUME NEW v \in VM, PreprocessVMFails(v) PROVE HookInv'
    BY <2>6 DEF PreprocessVMFails, HookInv, AfterHook
  <2> QED BY <1>3, <2>1, <2>2, <2>3, <2>4, <2>5, <2>6 DEF Preprocess
<1>4. CASE Body
  <2>1. CASE BodyEnds
    BY <2>1 DEF BodyEnds, HookInv, AfterHook
  <2>2. CASE SaveBody
    BY <2>2 DEF SaveBody, HookInv, AfterHook
  <2>3. CASE ExitFuncs
    BY <2>3 DEF ExitFuncs, HookInv, AfterHook
  <2>4. CASE OnError
    BY <2>4 DEF OnError, HookInv, AfterHook
  <2>5. ASSUME NEW v \in VM, BodyCreates(v) PROVE HookInv'
    BY <2>5 DEF BodyCreates, HookInv, Saves, P
  <2>6. ASSUME NEW v \in VM, BodyDestroys(v) PROVE HookInv'
    BY <2>6 DEF BodyDestroys, HookInv, Saves, P
  <2> QED BY <1>4, <2>1, <2>2, <2>3, <2>4, <2>5, <2>6 DEF Body
<1>5. CASE Postprocess
  <2>1. CASE PostOn
    BY <2>1 DEF PostOn, Hook, HookInv, Saves, P
  <2>2. CASE Unguarded("early", "postVms")
    BY <2>2 DEF Unguarded, HookInv, Saves, P, AfterHook
  <2>3. CASE Unguarded("late", "cleanup")
    BY <2>3 DEF Unguarded, FlowInv, HookInv, Saves, P, AfterHook
  <2>4. CASE StopThread
    BY <2>4 DEF StopThread, HookInv, Saves, P, AfterHook
  <2>5. CASE Join
    BY <2>5 DEF Join, HookInv, Saves, P, AfterHook
  <2>6. CASE Cleanup
    <3>1. Saves' = Saves /\ Saves \subseteq {"on", "off"} /\ saved \subseteq Saves
      BY <2>6, SavesFacts DEF Cleanup, Saves, P, FlowInv, TypeOK, ControlTypes
    <3>2. setupers \in 1..4 /\ pc = "cleanup" /\ pc' = pc /\ setupers' = setupers - 1
      BY <2>6, RegisteredFacts DEF Cleanup, TypeOK, ControlTypes
    <3>3. err' \/ (~err /\ saved' = IF setupers = 1 THEN saved \union (Saves \intersect {"off"})
                                  ELSE saved)
      BY <2>6, <3>2, RegisteredFacts DEF Cleanup, Hook
    <3>4. ~err => Saves \intersect {"on"} \subseteq saved
      BY <3>2 DEF HookInv, AfterHook
    <3>5. ~err' => Saves' \intersect {"on"} \subseteq saved'
      BY <3>1, <3>3, <3>4
    <3>6. ASSUME setupers' = 0, ~err' PROVE saved' = Saves'
      <4>1. saved' = saved \union (Saves \intersect {"off"}) /\ ~err
        BY <3>2, <3>3, <3>6
      <4>2. Saves \subseteq saved'
        BY <3>1, <3>4, <4>1
      <4>3. saved' \subseteq Saves
        BY <3>1, <4>1
      <4> QED BY <3>1, <4>2, <4>3
    <3> QED BY <3>2, <3>5, <3>6 DEF HookInv
  <2>7. CASE CleanupEnds
    BY <2>7 DEF CleanupEnds, HookInv, Saves, P
  <2>8. CASE SaveEnd
    BY <2>8 DEF SaveEnd, HookInv, Saves, P
  <2>9. CASE Exit
    BY <2>9 DEF Exit, HookInv, AfterHook
  <2>10. ASSUME NEW v \in VM, PostprocessVM(v) PROVE HookInv'
    BY <2>10 DEF PostprocessVM, HookInv, Saves, P
  <2>11. ASSUME NEW v \in VM, PostprocessVMFails(v) PROVE HookInv'
    BY <2>11 DEF PostprocessVMFails, HookInv
  <2> QED BY <1>5, <2>1, <2>2, <2>3, <2>4, <2>5, <2>6, <2>7, <2>8, <2>9, <2>10, <2>11 DEF Postprocess
<1>6. CASE ThreadReports
  BY <1>6 DEF ThreadReports, HookInv, Saves, P
<1>7. CASE ThreadEnds
  BY <1>7 DEF ThreadEnds, HookInv, Saves, P
<1>8. CASE ThreadDies
  BY <1>8 DEF ThreadDies, HookInv, Saves, P
<1>9. CASE Kill
  BY <1>9 DEF Kill, HookInv, AfterHook
<1>10. ASSUME NEW p \in alive, ProcessDies(p) PROVE HookInv'
  BY <1>10 DEF ProcessDies, HookInv, Saves, P
<1> QED BY <1>1, <1>2, <1>3, <1>4, <1>5, <1>6, <1>7, <1>8, <1>9, <1>10 DEF Next, ThreadRound, Over

\* Every VM that is processed is killed or its failure is reported.
LEMMA KillInvStep == TypeOK /\ FlowInv /\ KillInv /\ [Next]_vars => KillInv'
<1> SUFFICES ASSUME TypeOK, FlowInv, KillInv, [Next]_vars PROVE KillInv'
  OBVIOUS
<1> USE DEF hostVars, countVars, flowVars, listVars, threadVars, Fault, NoFault
<1>1. CASE UNCHANGED vars
  BY <1>1 DEF vars, KillInv, Kills, P
<1>2. ASSUME NEW t \in Test, Begin(t) PROVE KillInv'
  BY <1>2 DEF Begin, KillInv
<1>3. CASE Preprocess
  <2>1. CASE SetupPasses
    BY <2>1 DEF SetupPasses, KillInv
  <2>2. CASE SetupFails
    BY <2>2 DEF SetupFails, KillInv
  <2>3. CASE PreprocessEnds
    BY <2>3 DEF PreprocessEnds, KillInv
  <2>4. CASE SavePre
    BY <2>4 DEF SavePre, KillInv
  <2>5. ASSUME NEW v \in VM, PreprocessVM(v) PROVE KillInv'
    BY <2>5 DEF PreprocessVM, KillInv
  <2>6. ASSUME NEW v \in VM, PreprocessVMFails(v) PROVE KillInv'
    BY <2>6 DEF PreprocessVMFails, KillInv
  <2> QED BY <1>3, <2>1, <2>2, <2>3, <2>4, <2>5, <2>6 DEF Preprocess
<1>4. CASE Body
  <2>1. CASE BodyEnds
    BY <2>1 DEF BodyEnds, KillInv
  <2>2. CASE SaveBody
    BY <2>2 DEF SaveBody, KillInv
  <2>3. CASE ExitFuncs
    BY <2>3 DEF ExitFuncs, KillInv
  <2>4. CASE OnError
    BY <2>4 DEF OnError, KillInv
  <2>5. ASSUME NEW v \in VM, BodyCreates(v) PROVE KillInv'
    BY <2>5 DEF BodyCreates, KillInv
  <2>6. ASSUME NEW v \in VM, BodyDestroys(v) PROVE KillInv'
    BY <2>6 DEF BodyDestroys, KillInv
  <2> QED BY <1>4, <2>1, <2>2, <2>3, <2>4, <2>5, <2>6 DEF Body
<1>5. CASE Postprocess
  <2>1. CASE PostOn
    BY <2>1 DEF PostOn, KillInv
  <2>2. CASE Unguarded("early", "postVms")
    BY <2>2 DEF Unguarded, KillInv, P
  <2>3. CASE Unguarded("late", "cleanup")
    BY <2>3 DEF Unguarded, KillInv, Kills, P
  <2>4. CASE StopThread
    BY <2>4 DEF StopThread, KillInv, Kills, P
  <2>5. CASE Join
    BY <2>5 DEF Join, KillInv, Kills, P
  <2>6. CASE Cleanup
    BY <2>6 DEF Cleanup, Hook, KillInv, Kills, P
  <2>7. CASE CleanupEnds
    BY <2>7 DEF CleanupEnds, KillInv, Kills, P
  <2>8. CASE SaveEnd
    BY <2>8 DEF SaveEnd, KillInv
  <2>9. CASE Exit
    BY <2>9 DEF Exit, KillInv
  <2>10. ASSUME NEW v \in VM, PostprocessVM(v) PROVE KillInv'
    BY <2>10 DEF PostprocessVM, Destroyed, KillInv, Kills, P
  <2>11. ASSUME NEW v \in VM, PostprocessVMFails(v) PROVE KillInv'
    BY <2>11 DEF PostprocessVMFails, KillInv
  <2> QED BY <1>5, <2>1, <2>2, <2>3, <2>4, <2>5, <2>6, <2>7, <2>8, <2>9, <2>10, <2>11 DEF Postprocess
<1>6. CASE ThreadReports
  BY <1>6 DEF ThreadReports, KillInv, Kills, P
<1>7. CASE ThreadEnds
  BY <1>7 DEF ThreadEnds, KillInv, Kills, P
<1>8. CASE ThreadDies
  BY <1>8 DEF ThreadDies, KillInv, Kills, P
<1>9. CASE Kill
  BY <1>9 DEF Kill, KillInv
<1>10. ASSUME NEW p \in alive, ProcessDies(p) PROVE KillInv'
  BY <1>10 DEF ProcessDies, KillInv, Kills, P
<1> QED BY <1>1, <1>2, <1>3, <1>4, <1>5, <1>6, <1>7, <1>8, <1>9, <1>10 DEF Next, ThreadRound, Over

\* The verdict sums up the failures (test.py).
LEMMA PassInvStep == TypeOK /\ VerdictInv /\ [Next]_vars => PassInv'
<1> SUFFICES ASSUME TypeOK, VerdictInv, [Next]_vars PROVE PassInv'
  OBVIOUS
<1> USE DEF hostVars, countVars, flowVars, listVars, threadVars, Fault, NoFault
<1>1. CASE UNCHANGED vars
  BY <1>1 DEF vars, VerdictInv, PassInv, P
<1>2. ASSUME NEW t \in Test, Begin(t) PROVE PassInv'
  BY <1>2 DEF Begin, PassInv
<1>3. CASE Preprocess
  <2>1. CASE SetupPasses
    BY <2>1 DEF SetupPasses, PassInv
  <2>2. CASE SetupFails
    BY <2>2 DEF SetupFails, PassInv
  <2>3. CASE PreprocessEnds
    BY <2>3 DEF PreprocessEnds, PassInv
  <2>4. CASE SavePre
    BY <2>4 DEF SavePre, PassInv
  <2>5. ASSUME NEW v \in VM, PreprocessVM(v) PROVE PassInv'
    BY <2>5 DEF PreprocessVM, PassInv
  <2>6. ASSUME NEW v \in VM, PreprocessVMFails(v) PROVE PassInv'
    BY <2>6 DEF PreprocessVMFails, PassInv
  <2> QED BY <1>3, <2>1, <2>2, <2>3, <2>4, <2>5, <2>6 DEF Preprocess
<1>4. CASE Body
  <2>1. CASE BodyEnds
    BY <2>1 DEF BodyEnds, PassInv
  <2>2. CASE SaveBody
    BY <2>2 DEF SaveBody, PassInv
  <2>3. CASE ExitFuncs
    BY <2>3 DEF ExitFuncs, PassInv
  <2>4. CASE OnError
    BY <2>4 DEF OnError, PassInv
  <2>5. ASSUME NEW v \in VM, BodyCreates(v) PROVE PassInv'
    BY <2>5 DEF BodyCreates, PassInv
  <2>6. ASSUME NEW v \in VM, BodyDestroys(v) PROVE PassInv'
    BY <2>6 DEF BodyDestroys, PassInv
  <2> QED BY <1>4, <2>1, <2>2, <2>3, <2>4, <2>5, <2>6 DEF Body
<1>5. CASE Postprocess
  <2>1. CASE PostOn
    BY <2>1 DEF PostOn, PassInv
  <2>2. CASE Unguarded("early", "postVms")
    BY <2>2 DEF Unguarded, PassInv
  <2>3. CASE Unguarded("late", "cleanup")
    BY <2>3 DEF Unguarded, PassInv
  <2>4. CASE StopThread
    BY <2>4 DEF StopThread, PassInv
  <2>5. CASE Join
    BY <2>5 DEF Join, PassInv
  <2>6. CASE Cleanup
    BY <2>6 DEF Cleanup, PassInv
  <2>7. CASE CleanupEnds
    BY <2>7 DEF CleanupEnds, PassInv
  <2>8. CASE SaveEnd
    <3> SUFFICES ASSUME status' = "PASS"
                 PROVE  saved' = P.saves /\ (P.kill => \A v \in P.vms : file'[v] \notin alive')
      BY <2>8 DEF SaveEnd, PassInv, P
    <3>1. ~raised /\ ~err
      BY <2>8 DEF SaveEnd
    <3>2. ~onError
      BY <2>8, <3>1 DEF SaveEnd, VerdictInv, FlowInv
    <3>3. saved' = P.saves
      BY <2>8, <3>1, <3>2 DEF SaveEnd, VerdictInv, HookInv, Saves
    <3>4. ASSUME P.kill, NEW v \in P.vms PROVE file'[v] \notin alive'
      <4>1. env[v] \notin alive /\ v \in VM
        BY <2>8, <3>1, <3>2, <3>4, ParamFacts
        DEF SaveEnd, VerdictInv, KillInv, Kills, TypeOK, ControlTypes
      <4>2. alive' \subseteq alive
        BY <2>8, DestroyedShrinks DEF SaveEnd, DestroyEnv
      <4>3. file' = env \/ file' = Nothing
        BY <2>8 DEF SaveEnd, DestroyEnv
      <4>4. None \notin alive
        <5>1. 1..spawned \subseteq Nat
          OBVIOUS
        <5> QED BY <5>1, NoneAssumption DEF TypeOK, ProcessTypes
      <4> QED BY <4>1, <4>2, <4>3, <4>4 DEF Nothing
    <3> QED BY <3>3, <3>4
  <2>9. CASE Exit
    BY <2>9 DEF Exit, VerdictInv, PassInv, P
  <2>10. ASSUME NEW v \in VM, PostprocessVM(v) PROVE PassInv'
    BY <2>10 DEF PostprocessVM, PassInv
  <2>11. ASSUME NEW v \in VM, PostprocessVMFails(v) PROVE PassInv'
    BY <2>11 DEF PostprocessVMFails, PassInv
  <2> QED BY <1>5, <2>1, <2>2, <2>3, <2>4, <2>5, <2>6, <2>7, <2>8, <2>9, <2>10, <2>11 DEF Postprocess
<1>6. CASE ThreadReports
  BY <1>6 DEF ThreadReports, VerdictInv, PassInv, P
<1>7. CASE ThreadEnds
  BY <1>7 DEF ThreadEnds, VerdictInv, PassInv, P
<1>8. CASE ThreadDies
  BY <1>8 DEF ThreadDies, VerdictInv, PassInv, P
<1>9. CASE Kill
  BY <1>9 DEF Kill, PassInv
<1>10. ASSUME NEW p \in alive, ProcessDies(p) PROVE PassInv'
  BY <1>10 DEF ProcessDies, VerdictInv, PassInv, P
<1> QED BY <1>1, <1>2, <1>3, <1>4, <1>5, <1>6, <1>7, <1>8, <1>9, <1>10 DEF Next, ThreadRound, Over

\* A test that is reported as passed has set its states and killed its VMs, and
\* no states are set before the verdict on the test function is known.
THEOREM VerdictIsTrue == Spec => []SavedAsReported
<1>1. Init => VerdictInv
  <2>1. Init => FlowInv
    BY DEF Init, FlowInv, Before, AfterHook
  <2>2. Init => HookInv /\ KillInv /\ PassInv
    BY DEF Init, HookInv, KillInv, PassInv, AfterHook
  <2> QED BY <2>1, <2>2 DEF VerdictInv
<1>2. TypeOK /\ SetupInv /\ VerdictInv /\ [Next]_vars => VerdictInv'
  BY FlowInvStep, HookInvStep, KillInvStep, PassInvStep DEF VerdictInv
<1>3. VerdictInv => SavedAsReported
  <2> SUFFICES ASSUME VerdictInv PROVE SavedAsReported
    OBVIOUS
  <2>1. saved # {} => passed \/ P.savesOnError # {}
    BY Zenon DEF VerdictInv, FlowInv, Saves
  <2> QED BY <2>1 DEF VerdictInv, PassInv, SavedAsReported
<1> QED BY <1>1, <1>2, <1>3, TypesAndSetup, PTL DEF Spec

=============================================================================
