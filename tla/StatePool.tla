------------------------------ MODULE StatePool ------------------------------
(***************************************************************************)
(* States of test objects and the pools they are shared through: the state *)
(* policies (virttest/states/setup.py), the sourced backend, its transfers *)
(* and locks (states/pool.py), over external image states (QCOW2Ext in     *)
(* states/qcow2.py).                                                       *)
(*                                                                         *)
(* The test process of each worker checks, gets, sets and unsets states of *)
(* one image.  A state is a file of its pool directory that is backed by   *)
(* the file of another state, down to a first one.  The content of a file  *)
(* is the sequence of the versions it was built from, newest first, so a   *)
(* file fits the file below it if the latter has the tail of its content.  *)
(*                                                                         *)
(* A copy is two steps: the target is Torn in between, and whoever reads a *)
(* file while it is written over has read something torn.                  *)
(***************************************************************************)
EXTENDS Integers, Sequences, FiniteSets

CONSTANTS
  Process,     \* the test processes, one per worker
  Nobody,      \* no process holds the lock
  NoLock,      \* there is no lock file (yet)
  State,       \* the external states of the image
  NoState,     \* no backing state
  Place,       \* pool directories
  Absent,      \* no such file
  Torn,        \* a file that is not completely written
  Backing,     \* [State -> State or NoState]: the state below
  Cache,       \* [Process -> Place]: the worker's own pool (swarm_pool)
  Gateway,     \* [Place -> gateway id] (nets_gateway)
  Host,        \* [Place -> host id] (nets_host)
  Path,        \* [Place -> directory path]
  SharedPath,  \* the path of the shared pool
  Plan,        \* [Process -> set of operations it may be asked for]
  Timeouts,    \* BOOLEAN: may the wait for a lock time out
  MaxOps,      \* bound: operations per process
  MaxKills     \* bound: killed processes

Scope == {"own", "shared", "swarm", "cluster"}

\* A source "net:path": its directory, and whether it names a net (remote).
Source == [place: Place, remote: BOOLEAN]

\* A policy: what to do if the state exists and if it does not.
Mode == {"a", "r", "i", "f"} \X {"a", "r", "i", "f"}

\* An operation with its <do>_location, pool_scope and <do>_mode; after is the
\* mode of the unset that follows the get of a pop.
Operation == [kind: {"get", "set", "unset"}, state: State, location: Seq(Source),
              scopes: SUBSET Scope, mode: Mode, after: Mode \union {<<>>}]

ASSUME FilesAssumption ==
  /\ NoState \notin State
  /\ Nobody \notin Process /\ NoLock \notin Process /\ Nobody # NoLock
  /\ Absent # Torn
  /\ Absent \notin Seq(Nat) /\ Torn \notin Seq(Nat)
  /\ Backing \in [State -> State \union {NoState}]

ASSUME PlacesAssumption ==
  /\ Cache \in [Process -> Place]
  /\ Plan \in [Process -> SUBSET Operation]
  /\ MaxOps \in Nat
  /\ MaxKills \in Nat

VARIABLES
  file,     \* place -> state -> content of the file
  lock,     \* place -> state -> holder of the lock file, which stays once created
  working,  \* process -> state its working image is backed by
  op,       \* process -> the operation it executes, or its last one
  pc,       \* process -> where it is
  pos,      \* process -> the current source in the location, 0 before the first
  at,       \* process -> current state of the chain
  copy,     \* process -> what its current copy has read so far
  last,     \* process -> how its last operation ended
  begun,    \* process -> operations so far (bounded)
  made,     \* versions so far
  kills     \* killed processes so far (bounded)

procVars == <<op, pos, at, last, begun>>
vars == <<file, lock, working, pc, copy, made, kills, procVars>>

Content == {Absent, Torn} \union (Seq(Nat) \ {<<>>})

-----------------------------------------------------------------------------
(* Sources and their scopes.                                               *)

\* A source without a net is taken to be on the own host.
SameGateway(p, x) == ~x.remote \/ Gateway[x.place] = Gateway[Cache[p]]
SameHost(p, x) == ~x.remote \/ Host[x.place] = Host[Cache[p]]
SamePath(p, x) == Path[x.place] = Path[Cache[p]]

Proximity(p, x) ==
  (IF SameGateway(p, x) THEN 1000 ELSE 0) + (IF SameHost(p, x) THEN 100 ELSE 0)
    + (IF SamePath(p, x) THEN 10 ELSE 1)

\* get_sources: the nearest source first, equally near ones as configured.
Nearer(p, i, j) ==
  LET score(k) == Proximity(p, op[p].location[k])
  IN  score(i) > score(j) \/ (score(i) = score(j) /\ i < j)

GetSourceScope(p, x) ==
  CASE ~SameGateway(p, x) -> "cluster"
    [] SameGateway(p, x) /\ ~SameHost(p, x) -> "swarm"
    [] OTHER -> IF Path[x.place] # SharedPath /\ SamePath(p, x) THEN "own" ELSE "shared"

Permitted(p) ==
  {i \in DOMAIN op[p].location :
     GetSourceScope(p, op[p].location[i]) \in op[p].scopes \ {"own"}}

\* The permitted sources still to consider.
Left(p) == {i \in Permitted(p) : pos[p] = 0 \/ Nearer(p, pos[p], i)}

Listed(d) == {s \in State : file[d][s] # Absent}

\* What is listed in a pool: its states, and as <<s>> the lock file of s.
Names(d) == Listed(d) \union {<<s>> : s \in {t \in State : lock[d][t] # NoLock}}

\* show: the states of the cache and those common to the permitted mirrors,
\* where a mirror after an empty result starts anew.
PoolStates(p) ==
  LET listing(k) == Names(op[p].location[
        CHOOSE i \in Permitted(p) : Cardinality({j \in Permitted(p) : Nearer(p, j, i)}) = k - 1].place)
      shown[k \in 0..Cardinality(Permitted(p))] ==
        IF k = 0 THEN {}
        ELSE IF shown[k - 1] = {} THEN listing(k)
        ELSE shown[k - 1] \intersect listing(k)
  IN  shown[Cardinality(Permitted(p))] \intersect State

Show(p) ==
  PoolStates(p) \union (IF "own" \in op[p].scopes THEN Listed(Cache[p]) ELSE {})

-----------------------------------------------------------------------------
(* Policies (get_states, set_states, unset_states, push_states, pop_states) *)

At(p, l) == pc[p] = l
Goto(p, l) == pc' = [pc EXCEPT ![p] = l]

\* The letters each operation knows for a present and for a missing state.
Known == [get   |-> <<{"a", "r", "i"}, {"a", "i"}>>,
          set   |-> <<{"a", "r", "f"}, {"a", "f"}>>,
          unset |-> <<{"r", "f"}, {"a", "i"}>>]

Outcome(o, exists) ==
  LET case == IF exists THEN 1 ELSE 2
      letter == o.mode[case]
  IN  CASE letter \notin Known[o.kind][case] -> "failed"
        [] letter = "a" -> "aborted"
        [] letter = "i" -> "ignored"
        [] letter = "r" /\ o.kind # "get" -> "kept"
        [] OTHER -> "go"

\* The operation ends; a pop goes on to unset what it got or ignored.
End(p, outcome) ==
  IF op[p].after # <<>> /\ outcome \in {"done", "ignored"}
  THEN /\ op' = [op EXCEPT ![p] = [@ EXCEPT !.kind = "unset", !.mode = op[p].after,
                                            !.after = <<>>]]
       /\ Goto(p, "check")
       /\ last' = last
  ELSE /\ op' = op
       /\ Goto(p, "idle")
       /\ last' = [last EXCEPT ![p] = outcome]

NoOp == [kind |-> "none", state |-> NoState, location |-> <<>>, scopes |-> {},
         mode |-> <<>>, after |-> <<>>]

Init ==
  /\ file = [d \in Place |-> [s \in State |-> Absent]]
  /\ lock = [d \in Place |-> [s \in State |-> NoLock]]
  /\ working = [p \in Process |-> NoState]
  /\ op = [p \in Process |-> NoOp]
  /\ pc = [p \in Process |-> "idle"]
  /\ pos = [p \in Process |-> 1]
  /\ at = [p \in Process |-> NoState]
  /\ copy = [p \in Process |-> Absent]
  /\ last = [p \in Process |-> "none"]
  /\ begun = [p \in Process |-> 0]
  /\ made = 0
  /\ kills = 0

\* A test sets a state on top of the state it has got, which it still has.
Sensible(p, o) ==
  o.kind = "set" =>
    /\ working[p] \in {o.state, Backing[o.state]}
    /\ working[p] # NoState => file[Cache[p]][working[p]] \notin {Absent, Torn}

Begin(p) ==
  /\ At(p, "idle")
  /\ begun[p] < MaxOps
  /\ \E o \in Plan[p] :
       /\ Sensible(p, o)
       /\ op' = [op EXCEPT ![p] = o]
       /\ at' = [at EXCEPT ![p] = o.state]
  /\ pos' = [pos EXCEPT ![p] = 0]
  /\ begun' = [begun EXCEPT ![p] = @ + 1]
  /\ Goto(p, "check")
  /\ UNCHANGED <<file, lock, working, copy, last, made, kills>>

\* check_states, then the policy of the operation.
Check(p) ==
  LET outcome == Outcome(op[p], op[p].state \in Show(p))
  IN  /\ At(p, "check")
      /\ IF outcome = "go"
         THEN Goto(p, IF op[p].kind = "get" THEN "choose" ELSE "own") /\ UNCHANGED <<op, last>>
         ELSE End(p, outcome)
      /\ pos' = [pos EXCEPT ![p] = 0]
      /\ UNCHANGED <<file, lock, working, copy, at, begun, made, kills>>

-----------------------------------------------------------------------------
(* Copies and locks.                                                       *)

CurrentSource(p) == op[p].location[pos[p]]
Target(p) == IF op[p].kind = "get" THEN Cache[p] ELSE CurrentSource(p).place
Origin(p) == IF op[p].kind = "get" THEN CurrentSource(p).place ELSE Cache[p]

Reads(q, d, s) == At(q, "copy") /\ Origin(q) = d /\ at[q] = s
Writes(q, d, s) ==
  \/ At(q, "copy") /\ Target(q) = d /\ at[q] = s
  \/ At(q, "write") /\ Cache[q] = d /\ at[q] = s

\* The file is opened for writing: unless it is a new file, its readers get
\* something torn.
Open(p, d, s, content, inPlace) ==
  /\ file' = [file EXCEPT ![d][s] = Torn]
  /\ copy' = [q \in Process |->
       IF q = p THEN content ELSE IF inPlace /\ Reads(q, d, s) THEN Torn ELSE copy[q]]

\* The copy is complete, unless the file was removed meanwhile or another
\* process still writes it; writers of different contents spoil each other's.
Close(p, d, s) ==
  LET others == {q \in Process \ {p} : Writes(q, d, s)}
  IN  /\ file' = [file EXCEPT ![d][s] =
           IF @ = Absent THEN Absent ELSE IF others = {} THEN copy[p] ELSE Torn]
      /\ copy' = [q \in Process |->
           IF q = p THEN Absent
           ELSE IF q \in others /\ copy[q] # copy[p] THEN Torn ELSE copy[q]]

\* image_lock guards the file in the pool of a source on this host only.
Free(p, d, s) == CurrentSource(p).remote \/ lock[d][s] \in {Nobody, NoLock}

\* Mutant of Acquire: no lock is taken (SKIP_LOCKS).
AcquireNothing(p) == lock' = lock

Acquire(p) ==
  LET d == CurrentSource(p).place
  IN  /\ Free(p, d, at[p])
      /\ lock' = IF CurrentSource(p).remote THEN lock ELSE [lock EXCEPT ![d][at[p]] = p]

\* Mutant of Release: the lock is kept.
ReleaseNothing(p) == lock' = lock

Release(p) ==
  lock' = [d \in Place |-> [s \in State |-> IF lock[d][s] = p THEN Nobody ELSE lock[d][s]]]

\* compare: equal checksums; two torn files may or may not be the same.
Same(c1, c2) == IF c1 = Torn /\ c2 = Torn THEN BOOLEAN ELSE {c1 = c2}

\* get_dependency reads the state below from the file in the own pool.
Readable(c) == IF c = Absent THEN {FALSE} ELSE IF c = Torn THEN BOOLEAN ELSE {TRUE}

\* The wait for the lock took too long.
LockTimeout(p) ==
  /\ Timeouts
  /\ At(p, "lock") \/ At(p, "delete")
  /\ ~Free(p, CurrentSource(p).place, at[p])
  /\ End(p, "failed")
  /\ UNCHANGED <<file, lock, working, copy, pos, at, begun, made, kills>>

-----------------------------------------------------------------------------
(* Sourced backend: the next permitted source, the own pool.               *)

\* Mutant of Choose: set and unset stop at the first source, too.
ChooseOnce(p) ==
  /\ At(p, "choose")
  /\ \/ /\ Left(p) = {} \/ pos[p] > 0
        /\ pos' = pos
        /\ IF op[p].kind = "get" /\ "own" \in op[p].scopes
           THEN Goto(p, "restore") /\ UNCHANGED <<op, last>>
           ELSE End(p, "done")
     \/ /\ ~(pos[p] > 0)
        /\ \E i \in Left(p) :
             /\ \A j \in Left(p) \ {i} : Nearer(p, i, j)
             /\ pos' = [pos EXCEPT ![p] = i]
        /\ Goto(p, CASE op[p].kind = "get" -> "look" [] op[p].kind = "set" -> "lock"
                     [] op[p].kind = "unset" -> "delete")
        /\ UNCHANGED <<op, last>>
  /\ at' = [at EXCEPT ![p] = op[p].state]
  /\ UNCHANGED <<file, lock, working, copy, begun, made, kills>>

\* get stops at the first permitted source, set and unset go on.
Choose(p) ==
  /\ At(p, "choose")
  /\ \/ /\ Left(p) = {} \/ (op[p].kind = "get" /\ pos[p] > 0)
        /\ pos' = pos
        /\ IF op[p].kind = "get" /\ "own" \in op[p].scopes
           THEN Goto(p, "restore") /\ UNCHANGED <<op, last>>
           ELSE End(p, "done")
     \/ /\ ~(op[p].kind = "get" /\ pos[p] > 0)
        /\ \E i \in Left(p) :
             /\ \A j \in Left(p) \ {i} : Nearer(p, i, j)
             /\ pos' = [pos EXCEPT ![p] = i]
        /\ Goto(p, CASE op[p].kind = "get" -> "look" [] op[p].kind = "set" -> "lock"
                     [] op[p].kind = "unset" -> "delete")
        /\ UNCHANGED <<op, last>>
  /\ at' = [at EXCEPT ![p] = op[p].state]
  /\ UNCHANGED <<file, lock, working, copy, begun, made, kills>>

\* The state is transferred if the source has it and the cache has not, or
\* has another one.
Look(p) ==
  LET cached == at[p] \in Listed(Cache[p])
      pooled == at[p] \in Listed(CurrentSource(p).place)
  IN  /\ At(p, "look")
      /\ Goto(p, IF ~pooled THEN "choose" ELSE IF cached THEN "compare" ELSE "lock")
      /\ UNCHANGED <<file, lock, working, copy, made, kills, procVars>>

\* Mutant of Follow: the end of the chain is not noticed at once.
FollowPast(p, l) ==
  \E readable \in Readable(file[Cache[p]][at[p]]) :
    IF ~readable THEN End(p, "failed") /\ at' = at
    ELSE /\ Goto(p, IF Backing[at[p]] = NoState THEN "choose" ELSE l)
         /\ at' = [at EXCEPT ![p] = Backing[at[p]]]
         /\ UNCHANGED <<op, last>>

\* The next state of the chain, or the end of the chain; an unreadable file
\* is an error.
Follow(p, l) ==
  \E readable \in Readable(file[Cache[p]][at[p]]) :
    IF ~readable THEN End(p, "failed") /\ at' = at
    ELSE /\ Goto(p, IF Backing[at[p]] = NoState THEN "choose" ELSE l)
         /\ at' = IF Backing[at[p]] = NoState THEN at ELSE [at EXCEPT ![p] = Backing[at[p]]]
         /\ UNCHANGED <<op, last>>

\* compare_chain
Compare(p) ==
  /\ At(p, "compare")
  /\ \E same \in Same(file[Cache[p]][at[p]], file[CurrentSource(p).place][at[p]]) :
       IF same THEN Follow(p, "compare")
       ELSE /\ Goto(p, "lock")
            /\ at' = [at EXCEPT ![p] = op[p].state]
            /\ UNCHANGED <<op, last>>
  /\ UNCHANGED <<file, lock, working, copy, pos, begun, made, kills>>

-----------------------------------------------------------------------------
(* transfer_chain: one file after the other, from the state downwards.     *)

Lock(p) ==
  /\ At(p, "lock")
  /\ Acquire(p)
  /\ Goto(p, "hash")
  /\ UNCHANGED <<file, working, copy, made, kills, procVars>>

\* An identical file is not copied; neither is one that is missing in both.
Hash(p) ==
  /\ At(p, "hash")
  /\ \E same \in Same(file[Origin(p)][at[p]], file[Target(p)][at[p]]) :
       IF same THEN Release(p) /\ Goto(p, "depend") ELSE lock' = lock /\ Goto(p, "open")
  /\ UNCHANGED <<file, working, copy, made, kills, procVars>>

OpenCopy(p) ==
  LET content == file[Origin(p)][at[p]]
  IN  /\ At(p, "open")
      /\ IF content = Absent
         THEN Release(p) /\ End(p, "failed") /\ UNCHANGED <<file, copy>>
         ELSE /\ Open(p, Target(p), at[p], content, TRUE)
              /\ Goto(p, "copy")
              /\ UNCHANGED <<lock, op, last>>
      /\ UNCHANGED <<working, pos, at, begun, made, kills>>

CloseCopy(p) ==
  /\ At(p, "copy")
  /\ Close(p, Target(p), at[p])
  /\ Release(p)
  /\ Goto(p, "depend")
  /\ UNCHANGED <<working, made, kills, procVars>>

Depend(p) ==
  /\ At(p, "depend")
  /\ Follow(p, "lock")
  /\ UNCHANGED <<file, lock, working, copy, pos, begun, made, kills>>

-----------------------------------------------------------------------------
(* The own pool: QCOW2Ext's _get, _set and _unset, which take no lock.     *)

\* states below s, with s
Chain(s) ==
  {t \in State : \A S \in SUBSET State :
     s \in S /\ (\A u \in S : Backing[u] # NoState => Backing[u] \in S) => t \in S}

\* qemu-img creates the working image on top of the state; it opens the chain.
Restore(p) ==
  /\ At(p, "restore")
  /\ LET s == op[p].state
         chain == {file[Cache[p]][t] : t \in Chain(s)}
     IN  \/ /\ Absent \notin chain
            /\ working' = [working EXCEPT ![p] = s]
            /\ End(p, "done")
         \/ /\ chain \intersect {Absent, Torn} # {}
            /\ working' = working
            /\ End(p, "failed")
  /\ UNCHANGED <<file, lock, copy, pos, at, begun, made, kills>>

Below(p, s) == IF Backing[s] = NoState THEN <<>> ELSE file[Cache[p]][Backing[s]]

\* The new version of s: committed into the state the working image is on, or
\* a copy of the working image, which replaces the old file.  A torn file may
\* be noticed.
SetOwn(p) ==
  LET s == op[p].state
      d == Cache[p]
      base == IF working[p] = s THEN file[d][s] ELSE Below(p, s)
      below == IF working[p] = s THEN Tail(base) ELSE base
  IN  /\ At(p, "own") /\ op[p].kind = "set" /\ "own" \in op[p].scopes
      /\ \/ /\ base \in {Absent, Torn} \/ file[d][s] = Torn
            /\ End(p, "failed")
            /\ UNCHANGED <<file, copy, made>>
         \/ /\ base \notin {Absent, Torn}
            /\ Open(p, d, s, <<made + 1>> \o below, working[p] = s)
            /\ made' = made + 1
            /\ Goto(p, "write")
            /\ UNCHANGED <<op, last>>
      /\ UNCHANGED <<lock, working, pos, at, begun, kills>>

\* Updating the other pools requires the state in the own one.
SetOthers(p) ==
  /\ At(p, "own") /\ op[p].kind = "set" /\ "own" \notin op[p].scopes
  /\ IF file[Cache[p]][op[p].state] = Absent THEN End(p, "failed")
     ELSE Goto(p, "choose") /\ UNCHANGED <<op, last>>
  /\ UNCHANGED <<file, lock, working, copy, pos, at, begun, made, kills>>

CloseSet(p) ==
  /\ At(p, "write")
  /\ Close(p, Cache[p], at[p])
  /\ Goto(p, "choose")
  /\ UNCHANGED <<lock, working, made, kills, procVars>>

UnsetOwn(p) ==
  LET s == op[p].state
  IN  /\ At(p, "own") /\ op[p].kind = "unset"
      /\ IF "own" \in op[p].scopes /\ file[Cache[p]][s] = Absent
         THEN End(p, "failed") /\ file' = file
         ELSE /\ Goto(p, "choose")
              /\ file' = IF "own" \in op[p].scopes
                         THEN [file EXCEPT ![Cache[p]][s] = Absent] ELSE file
              /\ UNCHANGED <<op, last>>
      /\ UNCHANGED <<lock, working, copy, pos, at, begun, made, kills>>

\* delete: under the lock, which is taken and released at once.
Delete(p) ==
  LET d == CurrentSource(p).place
  IN  /\ At(p, "delete")
      /\ Free(p, d, at[p])
      /\ IF file[d][at[p]] = Absent THEN End(p, "failed") /\ file' = file
         ELSE /\ file' = [file EXCEPT ![d][at[p]] = Absent]
              /\ Goto(p, "choose")
              /\ UNCHANGED <<op, last>>
      /\ lock' = IF CurrentSource(p).remote THEN lock ELSE [lock EXCEPT ![d][at[p]] = Nobody]
      /\ UNCHANGED <<working, copy, pos, at, begun, made, kills>>

\* The runner kills the test process; the system releases its locks.
Kill(p) ==
  /\ kills < MaxKills
  /\ ~At(p, "idle")
  /\ kills' = kills + 1
  /\ Goto(p, "idle")
  /\ last' = [last EXCEPT ![p] = "killed"]
  /\ copy' = [copy EXCEPT ![p] = Absent]
  /\ working' = [working EXCEPT ![p] = NoState]
  /\ Release(p)
  /\ UNCHANGED <<file, op, pos, at, begun, made>>

Step(p) ==
  \/ Check(p) \/ Choose(p) \/ Look(p) \/ Compare(p) \/ Lock(p) \/ Hash(p) \/ OpenCopy(p)
  \/ CloseCopy(p) \/ Depend(p) \/ Restore(p) \/ SetOwn(p) \/ SetOthers(p) \/ CloseSet(p) \/ UnsetOwn(p)
  \/ Delete(p) \/ LockTimeout(p)

Next == \E p \in Process : Begin(p) \/ Step(p) \/ Kill(p)

\* A test process goes on; one that waits for a lock tries again every second.
Fairness == \A p \in Process : WF_vars(Step(p))

Spec == Init /\ [][Next]_vars /\ Fairness

-----------------------------------------------------------------------------
(* Properties.                                                             *)

\* Every variable has its type.
TypeOK ==
  /\ file \in [Place -> [State -> Content]]
  /\ lock \in [Place -> [State -> Process \union {Nobody, NoLock}]]
  /\ working \in [Process -> State \union {NoState}]
  /\ op \in [Process -> Operation \union {NoOp}]
  /\ pc \in [Process -> {"idle", "check", "choose", "look", "compare", "lock", "hash", "open",
                         "copy", "depend", "restore", "own", "write", "delete"}]
  /\ pos \in [Process -> Nat]
  /\ at \in [Process -> State \union {NoState}]
  /\ \A p \in Process : op[p] # NoOp => at[p] \in State
  /\ copy \in [Process -> Content]
  /\ last \in [Process -> {"none", "done", "kept", "ignored", "aborted", "failed", "killed"}]
  /\ begun \in [Process -> 0..MaxOps]
  /\ made \in Nat
  /\ kills \in 0..MaxKills

Whole(d, s) ==
  \A t \in Chain(s) :
    /\ file[d][t] \notin {Absent, Torn}
    /\ Backing[t] # NoState => Tail(file[d][t]) = file[d][Backing[t]]

Ended(p, kind) == At(p, "idle") /\ op[p].kind = kind /\ last[p] = "done"

\* QCOW2ImageTransfer.get ("transferring its entire chain of dependencies"):
\* after a successful get the own pool holds the whole chain of the state,
\* every file built on the one below it.
GotWhole ==
  \A p \in Process : Ended(p, "get") => Whole(Cache[p], op[p].state)

\* SourcedStateBackend.set ("to all mirrors"): after a successful set every
\* permitted mirror holds the same chain as the own pool.
SetEverywhere ==
  \A p \in Process : Ended(p, "set") =>
    \A i \in Permitted(p), t \in Chain(op[p].state) :
      file[op[p].location[i].place][t] = file[Cache[p]][t]

\* Each process has a pool of its own, and all others are accessed locally.
Isolated ==
  /\ \A p, q \in Process : Cache[p] = Cache[q] => p = q
  /\ \A p, q \in Process : \A o \in Plan[p] : \A i \in DOMAIN o.location :
       o.location[i].place # Cache[q] /\ ~o.location[i].remote

\* The pools p changes in a set, an unset or a pop, besides its own.
Uploads(p) ==
  {d \in Place : \E o \in Plan[p] :
     /\ o.kind # "get" \/ o.after # <<>>
     /\ \E i \in DOMAIN o.location :
          /\ d = o.location[i].place
          /\ GetSourceScope(p, o.location[i]) \in o.scopes \ {"own"}}

\* Each process has a pool of its own, and no pool is changed by two of them.
SoleWriters ==
  \A p, q \in Process :
    /\ Cache[p] \notin Uploads(q)
    /\ p # q => Cache[p] # Cache[q] /\ Uploads(p) \intersect Uploads(q) = {}

\* p makes versions of s.
Builds(p, s) == \E o \in Plan[p] : o.kind = "set" /\ "own" \in o.scopes /\ o.state = s

\* A state is built by one process, which never sets it again or removes it from
\* its own pool; a get restores the state.
BuiltOnce ==
  /\ \A p \in Process : \A o \in Plan[p] :
       /\ o.kind = "get" => "own" \in o.scopes
       /\ o.kind = "set" /\ "own" \in o.scopes => o.mode[1] # "f"
       /\ (o.kind = "unset" \/ o.after # <<>>) /\ "own" \in o.scopes => ~Builds(p, o.state)
  /\ \A p, q \in Process : \A s \in State : Builds(p, s) /\ Builds(q, s) => p = q

\* image_lock: with pools that are accessed locally, and unless a process is
\* killed, a file is torn only while someone writes it, in a shared pool with
\* the lock of the file.  So no get and no upload ever reads a torn file.
NothingTorn ==
  Isolated /\ kills = 0 =>
    \A d \in Place, s \in State : file[d][s] = Torn =>
      \E p \in Process : Writes(p, d, s) /\ (d # Cache[p] => lock[d][s] = p)

\* Every operation ends.
Completion == \A p \in Process : ~At(p, "idle") ~> At(p, "idle")

=============================================================================
