---------------------------- MODULE JobLockProofs ----------------------------
(***************************************************************************)
(* Proofs for JobLock: the lock excludes any number of jobs, although it   *)
(* is made of separate steps on separate files.                            *)
(*                                                                         *)
(* The argument: the own file is there before the listing, so the later of *)
(* two listings contains the other job's file (OneSeesTheOther); a file    *)
(* that holds the PID of a living process is never passed over, so the     *)
(* later job does not get to run while the earlier one lives.  LockKept    *)
(* says that the file is still there to be seen.                           *)
(***************************************************************************)
EXTENDS JobLock, TLAPS

\* A job that runs has no lock file left to look at.
Idle == \A j \in Job : pc[j] = "running" => todo[j] = {}

\* The inductive invariant.
IInv == TypeOK /\ LockKept /\ OneSeesTheOther /\ Idle

\* Nothing is locked initially.
LEMMA InitIInv == Init => IInv
  BY DEF Init, IInv, TypeOK, LockKept, OneSeesTheOther, Idle, Stage

\* Every step preserves the types (all of vt_joblock.py).
LEMMA TypeStep == TypeOK /\ [Next]_vars => TypeOK'
<1> SUFFICES ASSUME TypeOK, [Next]_vars PROVE TypeOK'
  OBVIOUS
<1>1. CASE UNCHANGED vars
  BY <1>1 DEF TypeOK, vars
<1>2. ASSUME NEW j \in Job, Step(j) \/ Crash(j) PROVE TypeOK'
  <2>1. CASE Create(j) BY <2>1 DEF TypeOK, Create, Goto, Stage
  <2>2. CASE Write(j) BY <2>2 DEF TypeOK, Write, Goto, Stage
  <2>3. CASE GetLockFiles(j) BY <2>3 DEF TypeOK, GetLockFiles, Goto, Stage
  <2>4. CASE Refuse(j) BY <2>4 DEF TypeOK, Refuse, Goto, Stage
  <2>5. CASE RemoveStale(j) BY <2>5 DEF TypeOK, RemoveStale
  <2>6. CASE Enter(j) BY <2>6 DEF TypeOK, Enter, Goto, Stage
  <2>7. CASE PostTests(j) BY <2>7 DEF TypeOK, PostTests, Goto, Stage
  <2>8. CASE Exit(j) BY <2>8 DEF TypeOK, Exit, Goto, Stage
  <2>9. CASE Crash(j) BY <2>9 DEF TypeOK, Crash, Goto, Stage
  <2> QED BY <1>2, <2>1, <2>2, <2>3, <2>4, <2>5, <2>6, <2>7, <2>8, <2>9 DEF Step
<1>3. ASSUME NEW p \in Pid, OtherProcess(p) PROVE TypeOK'
  BY <1>3 DEF TypeOK, OtherProcess
<1> QED BY <1>1, <1>2, <1>3 DEF Next

\* A file that is removed as stale belongs to a job that is gone: _lock looks
\* for the process first.
LEMMA StaleOwnerIsGone ==
  ASSUME TypeOK, NEW k \in Job, ~PidExists(pid[k])
  PROVE  ~Alive(k)
  BY DEF PidExists

\* Nobody takes away the lock file of a job that needs it.
LEMMA LockKeptStep == TypeOK /\ LockKept /\ [Next]_vars => LockKept'
<1> SUFFICES ASSUME TypeOK, LockKept, [Next]_vars PROVE LockKept'
  OBVIOUS
<1>1. CASE UNCHANGED vars
  BY <1>1 DEF LockKept, vars
<1>2. ASSUME NEW j \in Job, Step(j) \/ Crash(j) PROVE LockKept'
  <2>1. CASE Create(j) BY <2>1 DEF LockKept, TypeOK, Create, Goto
  <2>2. CASE Write(j) BY <2>2 DEF LockKept, TypeOK, Write, Goto
  <2>3. CASE GetLockFiles(j) BY <2>3 DEF LockKept, TypeOK, GetLockFiles, Goto
  <2>4. CASE Refuse(j) BY <2>4 DEF LockKept, TypeOK, Refuse, Goto
  <2>5. CASE RemoveStale(j)
    <3>1. PICK k \in todo[j] : /\ ~PidExists(pid[k])
                               /\ file' \in {file, [file EXCEPT ![k] = "none"]}
      BY <2>5 DEF RemoveStale
    <3>2. k \in Job
      BY <3>1 DEF TypeOK
    <3>3. ~Alive(k)
      BY <3>1, <3>2, StaleOwnerIsGone
    <3> QED BY <2>5, <3>1, <3>2, <3>3 DEF LockKept, TypeOK, RemoveStale, Alive
  <2>6. CASE Enter(j) BY <2>6 DEF LockKept, TypeOK, Enter, Goto
  <2>7. CASE PostTests(j) BY <2>7 DEF LockKept, TypeOK, PostTests, Goto
  <2>8. CASE Exit(j) BY <2>8 DEF LockKept, TypeOK, Exit, Goto
  <2>9. CASE Crash(j) BY <2>9 DEF LockKept, TypeOK, Crash, Goto
  <2> QED BY <1>2, <2>1, <2>2, <2>3, <2>4, <2>5, <2>6, <2>7, <2>8, <2>9 DEF Step
<1>3. ASSUME NEW p \in Pid, OtherProcess(p) PROVE LockKept'
  BY <1>3 DEF LockKept, OtherProcess
<1> QED BY <1>1, <1>2, <1>3 DEF Next

\* The later of two listings keeps the other job's file until one of the two
\* jobs is out.
LEMMA OneSeesStep == IInv /\ [Next]_vars => OneSeesTheOther'
<1> SUFFICES ASSUME TypeOK, LockKept, OneSeesTheOther, [Next]_vars,
                    NEW a \in Job, NEW b \in Job, a # b,
                    {pc'[a], pc'[b]} \subseteq {"scan", "running"}
             PROVE  a \in todo'[b] \/ b \in todo'[a]
  BY DEF IInv, OneSeesTheOther
<1> DEFINE In(c) == pc[c] \in {"scan", "running"}
           Out(c) == pc'[c] \in {"scan", "running"}
<1>a. Out(a) /\ Out(b)
  OBVIOUS
<1>b. In(a) /\ In(b) => a \in todo[b] \/ b \in todo[a]
  BY DEF OneSeesTheOther
<1>1. CASE UNCHANGED vars
  BY <1>1, <1>a, <1>b DEF vars
<1>2. ASSUME NEW j \in Job, Step(j) \/ Crash(j) PROVE a \in todo'[b] \/ b \in todo'[a]
  <2>1. CASE Create(j) BY <2>1, <1>a, <1>b DEF TypeOK, Create, Goto
  <2>2. CASE Write(j) BY <2>2, <1>a, <1>b DEF TypeOK, Write, Goto
  <2>3. CASE GetLockFiles(j)
    <3>1. CASE j = a
      <4>1. pc'[a] = "scan" /\ todo'[a] = {k \in Job \ {a} : file[k] # "none"}
        BY <2>3, <3>1, <1>a DEF TypeOK, GetLockFiles, Goto
      <4>2. In(b)
        BY <2>3, <3>1, <1>a DEF TypeOK, GetLockFiles, Goto
      <4>3. file[b] = "pid"
        BY <4>2 DEF LockKept
      <4> QED BY <4>1, <4>3
    <3>2. CASE j = b
      <4>1. pc'[b] = "scan" /\ todo'[b] = {k \in Job \ {b} : file[k] # "none"}
        BY <2>3, <3>2, <1>a DEF TypeOK, GetLockFiles, Goto
      <4>2. In(a)
        BY <2>3, <3>2, <1>a DEF TypeOK, GetLockFiles, Goto
      <4>3. file[a] = "pid"
        BY <4>2 DEF LockKept
      <4> QED BY <4>1, <4>3
    <3>3. CASE j # a /\ j # b
      BY <2>3, <3>3, <1>a, <1>b DEF TypeOK, GetLockFiles, Goto
    <3> QED BY <3>1, <3>2, <3>3
  <2>4. CASE Refuse(j) BY <2>4, <1>a, <1>b DEF TypeOK, Refuse, Goto
  <2>5. CASE RemoveStale(j)
    <3>1. PICK k \in todo[j] : /\ ~PidExists(pid[k])
                               /\ todo' = [todo EXCEPT ![j] = @ \ {k}]
      BY <2>5 DEF RemoveStale
    <3>2. k \in Job /\ pc' = pc
      BY <2>5, <3>1 DEF TypeOK, RemoveStale
    <3>3. ~Alive(k)
      BY <3>1, <3>2, StaleOwnerIsGone
    <3>4. k # a /\ k # b
      BY <3>2, <3>3, <1>a DEF Alive
    <3> QED BY <3>1, <3>2, <3>4, <1>a, <1>b DEF TypeOK
  <2>6. CASE Enter(j) BY <2>6, <1>a, <1>b DEF TypeOK, Enter, Goto
  <2>7. CASE PostTests(j) BY <2>7, <1>a, <1>b DEF TypeOK, PostTests, Goto
  <2>8. CASE Exit(j) BY <2>8, <1>a, <1>b DEF TypeOK, Exit, Goto
  <2>9. CASE Crash(j) BY <2>9, <1>a, <1>b DEF TypeOK, Crash, Goto
  <2> QED BY <1>2, <2>1, <2>2, <2>3, <2>4, <2>5, <2>6, <2>7, <2>8, <2>9 DEF Step
<1>3. ASSUME NEW p \in Pid, OtherProcess(p) PROVE a \in todo'[b] \/ b \in todo'[a]
  BY <1>3, <1>a, <1>b DEF OtherProcess
<1> QED BY <1>1, <1>2, <1>3 DEF Next

\* Tests run only after the last lock file was looked at.
LEMMA IdleStep == TypeOK /\ Idle /\ [Next]_vars => Idle'
<1> SUFFICES ASSUME TypeOK, Idle, [Next]_vars PROVE Idle'
  OBVIOUS
<1>1. CASE UNCHANGED vars
  BY <1>1 DEF Idle, vars
<1>2. ASSUME NEW j \in Job, Step(j) \/ Crash(j) PROVE Idle'
  BY <1>2 DEF TypeOK, Idle, Step, Create, Write, GetLockFiles, Refuse, RemoveStale, Enter,
              PostTests, Exit, Crash, Goto
<1>3. ASSUME NEW p \in Pid, OtherProcess(p) PROVE Idle'
  BY <1>3 DEF Idle, OtherProcess
<1> QED BY <1>1, <1>2, <1>3 DEF Next

\* The inductive invariant holds throughout (all of vt_joblock.py).
THEOREM Invariant == Spec => []IInv
<1>1. IInv /\ [Next]_vars => IInv'
  BY TypeStep, LockKeptStep, OneSeesStep, IdleStep DEF IInv
<1> QED BY InitIInv, <1>1, PTL DEF Spec

\* Types are preserved by all of vt_joblock.py, for any number of jobs.
THEOREM TypeCorrect == Spec => []TypeOK
  BY Invariant, PTL DEF IInv

\* The lock file of a job that is looking at other locks or runs its tests
\* stays in place until its own post_tests.
THEOREM LockStays == Spec => []LockKept
  BY Invariant, PTL DEF IInv

\* The lock implements ExclusiveJobs: whatever the number of jobs, the tests
\* of one run at a time.
THEOREM LockExcludes == Spec => Exclusive
<1>1. Init => Exclusion!Init
  BY DEF Init, Exclusion!Init, JobStage
<1>2. IInv /\ [Next]_vars => [Exclusion!Next]_JobStage
  <2> SUFFICES ASSUME IInv, [Next]_vars PROVE Exclusion!Next \/ JobStage' = JobStage
    OBVIOUS
  <2>1. CASE UNCHANGED vars
    BY <2>1 DEF vars, JobStage
  <2>2. ASSUME NEW j \in Job, Step(j) \/ Crash(j) PROVE Exclusion!Next \/ JobStage' = JobStage
    <3> USE DEF IInv, TypeOK, Goto, JobStage
    <3>1. CASE Create(j) BY <2>2, <3>1 DEF Create
    <3>2. CASE Write(j) BY <2>2, <3>2 DEF Write
    <3>3. CASE GetLockFiles(j) BY <2>2, <3>3 DEF GetLockFiles
    <3>4. CASE Refuse(j) BY <2>2, <3>4 DEF Refuse
    <3>5. CASE RemoveStale(j) BY <2>2, <3>5 DEF RemoveStale
    <3>6. CASE Enter(j)
      <4>1. JobStage[j] = "waiting" /\ JobStage' = [JobStage EXCEPT ![j] = "running"]
        BY <2>2, <3>6 DEF Enter
      <4>2. ASSUME NEW k \in Job, pc[k] = "running" PROVE FALSE
        <5>1. k # j /\ pc[j] = "scan" /\ todo[j] = {}
          BY <3>6, <4>2 DEF Enter
        <5>2. k \in todo[j] \/ j \in todo[k]
          BY <4>2, <5>1 DEF OneSeesTheOther
        <5> QED BY <4>2, <5>1, <5>2 DEF Idle
      <4>3. \A k \in Job : JobStage[k] # "running"
        BY <4>2
      <4>4. Exclusion!Enter(j)
        BY <4>1, <4>3 DEF Exclusion!Enter
      <4> QED BY <2>2, <4>4 DEF Exclusion!Next
    <3>7. CASE PostTests(j)
      <4>1. JobStage[j] # "over" /\ JobStage' = [JobStage EXCEPT ![j] = "over"]
        BY <2>2, <3>7 DEF PostTests
      <4> QED BY <2>2, <4>1 DEF Exclusion!Next, Exclusion!Leave
    <3>8. CASE Exit(j)
      <4>1. JobStage[j] # "over" /\ JobStage' = [JobStage EXCEPT ![j] = "over"]
        BY <2>2, <3>8 DEF Exit
      <4> QED BY <2>2, <4>1 DEF Exclusion!Next, Exclusion!Leave
    <3>9. CASE Crash(j)
      <4>1. JobStage[j] # "over" /\ JobStage' = [JobStage EXCEPT ![j] = "over"]
        BY <2>2, <3>9 DEF Crash, Alive
      <4> QED BY <2>2, <4>1 DEF Exclusion!Next, Exclusion!Leave
    <3> QED BY <2>2, <3>1, <3>2, <3>3, <3>4, <3>5, <3>6, <3>7, <3>8, <3>9 DEF Step
  <2>3. ASSUME NEW p \in Pid, OtherProcess(p) PROVE JobStage' = JobStage
    BY <2>3 DEF OtherProcess, JobStage
  <2> QED BY <2>1, <2>2, <2>3 DEF Next
<1> QED BY <1>1, <1>2, Invariant, PTL DEF Spec, Exclusive, Exclusion!Spec

=============================================================================
