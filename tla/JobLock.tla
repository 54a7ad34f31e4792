------------------------------- MODULE JobLock -------------------------------
(***************************************************************************)
(* The job lock (avocado_vt/plugins/vt_joblock.py): every job with VT      *)
(* tests creates a lock file with its PID, then looks at the lock files of *)
(* all others.  There is no atomic test-and-set: a file exists before its  *)
(* PID is in it, jobs look at a listing that grows old, and files outlive  *)
(* killed jobs, whose PIDs other processes may get.                        *)
(*                                                                         *)
(* Whether avocado still calls post_tests after the exit of pre_tests is   *)
(* not decided in this repository, so both are possible.                   *)
(***************************************************************************)
EXTENDS Naturals, FiniteSets

CONSTANTS
  Job,    \* jobs with VT tests, each with a lock file name of its own
  Pid,    \* process ids, to be reused
  NoPid   \* the process does not exist yet

ASSUME PidAssumption == NoPid \notin Pid

VARIABLES
  pc,      \* job -> how far its pre_tests, tests and post_tests are
  pid,     \* job -> its process id
  file,    \* job -> its lock file: "none", "empty" or "pid"
  todo,    \* job -> the lock files it still has to look at
  others   \* the process ids of processes that are not jobs

vars == <<pc, pid, file, todo, others>>

Stage == {"new", "created", "written", "scan", "running", "refused", "failed", "gone"}

Alive(j) == pc[j] \notin {"new", "gone"}

PidExists(p) == p \in others \/ \E j \in Job : Alive(j) /\ pid[j] = p

Goto(j, l) == pc' = [pc EXCEPT ![j] = l]

Init ==
  /\ pc = [j \in Job |-> "new"]
  /\ pid = [j \in Job |-> NoPid]
  /\ file = [j \in Job |-> "none"]
  /\ todo = [j \in Job |-> {}]
  /\ others = {}

\* Mutant of GetLockFiles: the listing is not filtered by the pattern of lock file names.
GetLockFilesUnfiltered(j) ==
  /\ pc[j] = "written"
  /\ Goto(j, "scan")
  /\ todo' = [todo EXCEPT ![j] = {k \in Job \ {j} : file[k] # "none"} \union {NoPid}]
  /\ UNCHANGED <<pid, file, others>>

\* Mutant of GetLockFiles: only one of the other lock files is looked at.
GetLockFilesFirst(j) ==
  /\ pc[j] = "written"
  /\ Goto(j, "scan")
  /\ \E some \in SUBSET {k \in Job \ {j} : file[k] # "none"} :
       Cardinality(some) <= 1 /\ todo' = [todo EXCEPT ![j] = some]
  /\ UNCHANGED <<pid, file, others>>

\* Mutant of Refuse: the job waits for the process that holds the lock.
RefuseUnreadable(j) ==
  /\ pc[j] = "scan"
  /\ \E k \in todo[j] : file[k] # "pid"
  /\ Goto(j, "refused")
  /\ todo' = [todo EXCEPT ![j] = {}]
  /\ UNCHANGED <<pid, file, others>>

\* Mutant of RemoveStale: a lock file is removed without a look at its process.
RemoveAny(j) ==
  /\ pc[j] = "scan"
  /\ \E k \in todo[j] :
       /\ file[k] = "pid"
       /\ todo' = [todo EXCEPT ![j] = @ \ {k}]
       /\ file' \in {file, [file EXCEPT ![k] = "none"]}
  /\ UNCHANGED <<pc, pid, others>>

-----------------------------------------------------------------------------

\* The job process starts, and its pre_tests opens the lock file.
Create(j) ==
  /\ pc[j] = "new"
  /\ \E p \in Pid :
       /\ ~PidExists(p)
       /\ pid' = [pid EXCEPT ![j] = p]
  /\ \/ Goto(j, "created") /\ file' = [file EXCEPT ![j] = "empty"]
     \/ Goto(j, "failed") /\ UNCHANGED file
  /\ UNCHANGED <<todo, others>>

\* It writes its PID; if that fails, the file stays and self.lock_file is None.
Write(j) ==
  /\ pc[j] = "created"
  /\ \/ Goto(j, "written") /\ file' = [file EXCEPT ![j] = "pid"]
     \/ Goto(j, "failed") /\ UNCHANGED file
  /\ UNCHANGED <<pid, todo, others>>

\* _get_lock_files, without the own file; None if the listing fails.
GetLockFiles(j) ==
  /\ pc[j] = "written"
  /\ \/ /\ Goto(j, "scan")
        /\ todo' = [todo EXCEPT ![j] = {k \in Job \ {j} : file[k] # "none"}]
     \/ Goto(j, "refused") /\ UNCHANGED todo
  /\ UNCHANGED <<pid, file, others>>

\* A PID that cannot be read, or of a process that exists, ends the attempt.
Refuse(j) ==
  /\ pc[j] = "scan"
  /\ \E k \in todo[j] : file[k] # "pid" \/ PidExists(pid[k])
  /\ Goto(j, "refused")
  /\ todo' = [todo EXCEPT ![j] = {}]
  /\ UNCHANGED <<pid, file, others>>

\* The file of a process that is gone is removed, or cannot be (a warning).
\* The owner of a read PID that does not exist never comes back, so that
\* reading, looking and removing can be one step.
RemoveStale(j) ==
  /\ pc[j] = "scan"
  /\ \E k \in todo[j] :
       /\ file[k] = "pid" /\ ~PidExists(pid[k])
       /\ todo' = [todo EXCEPT ![j] = @ \ {k}]
       /\ file' \in {file, [file EXCEPT ![k] = "none"]}
  /\ UNCHANGED <<pc, pid, others>>

Enter(j) ==
  /\ pc[j] = "scan"
  /\ todo[j] = {}
  /\ Goto(j, "running")
  /\ UNCHANGED <<pid, file, todo, others>>

\* post_tests, after the tests or after a refusal.
PostTests(j) ==
  /\ pc[j] \in {"running", "refused"}
  /\ Goto(j, "gone")
  /\ file' = [file EXCEPT ![j] = "none"]
  /\ UNCHANGED <<pid, todo, others>>

\* sys.exit in pre_tests.
Exit(j) ==
  /\ pc[j] \in {"refused", "failed"}
  /\ Goto(j, "gone")
  /\ UNCHANGED <<pid, file, todo, others>>

\* The job is killed at any point.
Crash(j) ==
  /\ Alive(j)
  /\ Goto(j, "gone")
  /\ todo' = [todo EXCEPT ![j] = {}]
  /\ UNCHANGED <<pid, file, others>>

\* Processes that are not jobs come and go, perhaps with the PID of a dead job.
OtherProcess(p) ==
  /\ \/ ~PidExists(p) /\ others' = others \union {p}
     \/ p \in others /\ others' = others \ {p}
  /\ UNCHANGED <<pc, pid, file, todo>>

Step(j) ==
  Create(j) \/ Write(j) \/ GetLockFiles(j) \/ Refuse(j) \/ RemoveStale(j) \/ Enter(j)
    \/ PostTests(j) \/ Exit(j)

Next ==
  \/ \E j \in Job : Step(j) \/ Crash(j)
  \/ \E p \in Pid : OtherProcess(p)

\* A job process that is not blocked goes on; nothing in it waits for others.
Fairness == \A j \in Job : WF_vars(Step(j) /\ pc[j] # "new")

Spec == Init /\ [][Next]_vars /\ Fairness

-----------------------------------------------------------------------------

TypeOK ==
  /\ pc \in [Job -> Stage]
  /\ pid \in [Job -> Pid \union {NoPid}]
  /\ file \in [Job -> {"none", "empty", "pid"}]
  /\ todo \in [Job -> SUBSET Job]
  /\ others \subseteq Pid

\* The lock file of a job that is looking at other locks or runs its tests
\* stays in place until its own post_tests, whatever the other jobs, which
\* remove files they think stale, do meanwhile: post_tests removes it without
\* a look (vt_joblock.py:138).
LockKept == \A j \in Job : pc[j] \in {"written", "scan", "running"} => file[j] = "pid"

\* Of two jobs that both listed the lock files, one has the other still to
\* look at (_lock creates the own file before it lists).
OneSeesTheOther ==
  \A j, k \in Job :
    j # k /\ {pc[j], pc[k]} \subseteq {"scan", "running"} => j \in todo[k] \/ k \in todo[j]

\* How a job looks from outside.
JobStage ==
  [j \in Job |-> IF pc[j] = "running" THEN "running" ELSE IF pc[j] = "gone" THEN "over" ELSE "waiting"]

Exclusion == INSTANCE ExclusiveJobs WITH stage <- JobStage

\* The tests of VT jobs run one job at a time, although nothing is atomic: the
\* lock implements ExclusiveJobs (docs/source/ParallelJobs.rst: "to prevent
\* multiple runs of jobs that include VT tests").
Exclusive == Exclusion!Spec

\* Every job that tries to lock runs or is over, however many stale files it
\* meets and also if it cannot remove them (vt_joblock.py:109-111).
EveryJobDecides == \A j \in Job : pc[j] = "created" ~> pc[j] \in {"running", "gone"}

=============================================================================
