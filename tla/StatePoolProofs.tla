-------------------------- MODULE StatePoolProofs --------------------------
(***************************************************************************)
(* Proofs about StatePool for every set of processes, states and pools:    *)
(* the types; that isolated pools hold no torn file at rest; that a set     *)
(* brings the chain to all mirrors; and that a get restores a whole chain.  *)
(***************************************************************************)
EXTENDS StatePool, SequenceTheorems, TLAPS

\* Where a process looks at a source of its operation.
AtSource == {"look", "compare", "lock", "hash", "open", "copy", "depend", "delete"}

\* A busy process has an operation of its plan and, at a source, a source of
\* it; a set starts with its own state.
Shape ==
  \A p \in Process :
    /\ pc[p] # "idle" => op[p] # NoOp
    /\ pc[p] \in AtSource => pos[p] \in DOMAIN op[p].location
    /\ op[p] # NoOp => \E o \in Plan[p] : op[p].location = o.location
    /\ pc[p] \in {"check", "own", "write"} /\ op[p].kind = "set" => at[p] = op[p].state
    /\ pc[p] = "write" => op[p].kind = "set"

\* What the types need to be preserved.
TypeInv == TypeOK /\ Shape

-----------------------------------------------------------------------------
(* Types.                                                                  *)

\* A process that is busy has an operation and a current state.
LEMMA BusyType ==
  ASSUME TypeInv, NEW p \in Process, pc[p] # "idle"
  PROVE  /\ op[p] \in Operation
         /\ op[p] # NoOp
         /\ at[p] \in State
BY DEF TypeInv, TypeOK, Shape

\* A process at a source has one.
LEMMA SourceType ==
  ASSUME TypeInv, NEW p \in Process, pc[p] \in AtSource
  PROVE  /\ CurrentSource(p) \in Source
         /\ CurrentSource(p).place \in Place
         /\ Target(p) \in Place /\ Origin(p) \in Place
<1>1. op[p] \in Operation /\ pos[p] \in DOMAIN op[p].location
  BY BusyType DEF TypeInv, Shape, AtSource
<1>2. op[p].location \in Seq(Source)
  BY <1>1 DEF Operation
<1>3. CurrentSource(p) \in Source
  BY <1>1, <1>2 DEF CurrentSource
<1>4. Cache[p] \in Place
  BY PlacesAssumption
<1> QED BY <1>3, <1>4 DEF Source, Target, Origin

\* The end of an operation, or of the first half of a pop (pop_states).
LEMMA EndType ==
  ASSUME TypeInv, NEW p \in Process, pc[p] # "idle",
         NEW outcome \in {"done", "kept", "ignored", "aborted", "failed"},
         End(p, outcome)
  PROVE  /\ op' \in [Process -> Operation \union {NoOp}]
         /\ op'[p] \in Operation
         /\ op'[p].location = op[p].location
         /\ \A q \in Process \ {p} : op'[q] = op[q] /\ pc'[q] = pc[q]
         /\ pc' = [pc EXCEPT ![p] = pc'[p]]
         /\ pc'[p] \in {"check", "idle"}
         /\ pc'[p] = "check" => op'[p].kind = "unset"
         /\ last' \in [Process -> {"none", "done", "kept", "ignored", "aborted", "failed",
                                   "killed"}]
<1>1. op[p] \in Operation /\ op \in [Process -> Operation \union {NoOp}]
  BY BusyType DEF TypeInv, TypeOK
<1>2. /\ pc \in [Process -> {"idle", "check", "choose", "look", "compare", "lock", "hash", "open",
                             "copy", "depend", "restore", "own", "write", "delete"}]
      /\ last \in [Process -> {"none", "done", "kept", "ignored", "aborted", "failed", "killed"}]
  BY DEF TypeInv, TypeOK
<1>3. CASE op[p].after # <<>> /\ outcome \in {"done", "ignored"}
  <2> DEFINE next == [op[p] EXCEPT !.kind = "unset", !.mode = op[p].after, !.after = <<>>]
  <2>1. op' = [op EXCEPT ![p] = next] /\ pc' = [pc EXCEPT ![p] = "check"] /\ last' = last
    BY <1>3 DEF End, Goto
  <2>2. next \in Operation /\ next.location = op[p].location /\ next.kind = "unset"
    BY <1>1, <1>3 DEF Operation
  <2> HIDE DEF next
  <2> QED BY <1>1, <1>2, <2>1, <2>2
<1>4. CASE ~(op[p].after # <<>> /\ outcome \in {"done", "ignored"})
  <2>1. op' = op /\ pc' = [pc EXCEPT ![p] = "idle"] /\ last' = [last EXCEPT ![p] = outcome]
    BY <1>4 DEF End, Goto
  <2> QED BY <1>1, <1>2, <2>1
<1> QED BY <1>3, <1>4

\* Every process but p is where it was.
Others(p) ==
  \A q \in Process \ {p} :
    pc'[q] = pc[q] /\ op'[q] = op[q] /\ pos'[q] = pos[q] /\ at'[q] = at[q]

\* The shape has to be shown for the process that moves only.
LEMMA ShapeStep ==
  ASSUME TypeInv, NEW p \in Process, Others(p),
         pc'[p] # "idle" => op'[p] # NoOp,
         pc'[p] \in AtSource => pos'[p] \in DOMAIN op'[p].location,
         op'[p] # NoOp => \E o \in Plan[p] : op'[p].location = o.location,
         pc'[p] \in {"check", "own", "write"} /\ op'[p].kind = "set" => at'[p] = op'[p].state,
         pc'[p] = "write" => op'[p].kind = "set"
  PROVE  Shape'
<1> SUFFICES ASSUME NEW q \in Process
             PROVE  /\ pc'[q] # "idle" => op'[q] # NoOp
                    /\ pc'[q] \in AtSource => pos'[q] \in DOMAIN op'[q].location
                    /\ op'[q] # NoOp => \E o \in Plan[q] : op'[q].location = o.location
                    /\ pc'[q] \in {"check", "own", "write"} /\ op'[q].kind = "set"
                         => at'[q] = op'[q].state
                    /\ pc'[q] = "write" => op'[q].kind = "set"
  BY DEF Shape
<1>1. CASE q = p
  BY <1>1
<1>2. CASE q # p
  BY <1>2 DEF Others, TypeInv, Shape
<1> QED BY <1>1, <1>2

\* The same for a step that leaves the operation as it is.
LEMMA SameOpStep ==
  ASSUME TypeInv, NEW p \in Process, pc[p] # "idle", op' = op,
         NEW l \in {"choose", "look", "compare", "lock", "hash", "open", "copy", "depend",
                    "restore", "own", "write", "delete"},
         Goto(p, l),
         \A q \in Process \ {p} : pos'[q] = pos[q] /\ at'[q] = at[q],
         l \in AtSource => pos'[p] \in DOMAIN op[p].location,
         l \in {"own", "write"} /\ op[p].kind = "set" => at'[p] = op[p].state,
         l = "write" => op[p].kind = "set"
  PROVE  /\ pc' \in [Process -> {"idle", "check", "choose", "look", "compare", "lock", "hash",
                                 "open", "copy", "depend", "restore", "own", "write", "delete"}]
         /\ Others(p)
         /\ Shape'
<1>1. /\ pc \in [Process -> {"idle", "check", "choose", "look", "compare", "lock", "hash", "open",
                             "copy", "depend", "restore", "own", "write", "delete"}]
      /\ pc' = [pc EXCEPT ![p] = l]
  BY DEF TypeInv, TypeOK, Goto
<1>2. Others(p)
  BY <1>1 DEF Others
<1>3. op'[p] # NoOp /\ \E o \in Plan[p] : op'[p].location = o.location
  BY DEF TypeInv, Shape
<1>4. Shape'
  BY <1>1, <1>2, <1>3, ShapeStep
<1> QED BY <1>1, <1>2, <1>4

\* The same for a step that ends the operation.
LEMMA EndStep ==
  ASSUME TypeInv, NEW p \in Process, pc[p] # "idle",
         NEW outcome \in {"done", "kept", "ignored", "aborted", "failed"},
         End(p, outcome),
         \A q \in Process \ {p} : pos'[q] = pos[q] /\ at'[q] = at[q]
  PROVE  /\ op' \in [Process -> Operation \union {NoOp}]
         /\ pc' \in [Process -> {"idle", "check", "choose", "look", "compare", "lock", "hash",
                                 "open", "copy", "depend", "restore", "own", "write", "delete"}]
         /\ last' \in [Process -> {"none", "done", "kept", "ignored", "aborted", "failed",
                                   "killed"}]
         /\ Others(p)
         /\ Shape'
<1>1. /\ op'[p] \in Operation
      /\ op'[p].location = op[p].location
      /\ pc'[p] \in {"check", "idle"}
      /\ pc'[p] = "check" => op'[p].kind = "unset"
  BY EndType
<1>2. Others(p)
  BY EndType DEF Others
<1>3. op'[p] # NoOp /\ \E o \in Plan[p] : op'[p].location = o.location
  BY <1>1 DEF TypeInv, Shape, Operation, NoOp
<1>4. Shape'
  <2>1. pc'[p] \notin AtSource /\ pc'[p] # "write"
    BY <1>1 DEF AtSource
  <2> QED BY <1>1, <1>2, <1>3, <2>1, ShapeStep
<1>5. pc' = [pc EXCEPT ![p] = pc'[p]]
  BY EndType
<1> QED BY <1>1, <1>2, <1>4, <1>5, EndType DEF TypeInv, TypeOK

\* Opening a file keeps the types of files and copies.
LEMMA OpenType ==
  ASSUME TypeInv, NEW p \in Process, NEW d \in Place, NEW s \in State, NEW content \in Content,
         NEW inPlace, Open(p, d, s, content, inPlace)
  PROVE  /\ file' \in [Place -> [State -> Content]]
         /\ copy' \in [Process -> Content]
<1>1. Torn \in Content
  BY DEF Content
<1>2. file \in [Place -> [State -> Content]] /\ copy \in [Process -> Content]
  BY DEF TypeInv, TypeOK
<1>3. file' \in [Place -> [State -> Content]]
  <2>1. file' = [file EXCEPT ![d] = [file[d] EXCEPT ![s] = Torn]]
    BY DEF Open
  <2> QED BY <1>1, <1>2, <2>1
<1>4. copy' \in [Process -> Content]
  BY <1>1, <1>2 DEF Open
<1> QED BY <1>3, <1>4

\* So does closing it.
LEMMA CloseType ==
  ASSUME TypeInv, NEW p \in Process, NEW d \in Place, NEW s \in State, Close(p, d, s)
  PROVE  /\ file' \in [Place -> [State -> Content]]
         /\ copy' \in [Process -> Content]
<1> DEFINE others == {q \in Process \ {p} : Writes(q, d, s)}
           new == IF file[d][s] = Absent THEN Absent ELSE IF others = {} THEN copy[p] ELSE Torn
<1>1. Torn \in Content /\ Absent \in Content
  BY DEF Content
<1>2. file \in [Place -> [State -> Content]] /\ copy \in [Process -> Content]
  BY DEF TypeInv, TypeOK
<1>3. /\ file' = [file EXCEPT ![d] = [file[d] EXCEPT ![s] = new]]
      /\ copy' = [q \in Process |->
           IF q = p THEN Absent
           ELSE IF q \in others /\ copy[q] # copy[p] THEN Torn ELSE copy[q]]
  BY DEF Close
<1>4. new \in Content
  BY <1>1, <1>2
<1> HIDE DEF others, new
<1> QED BY <1>1, <1>2, <1>3, <1>4

\* A version of a state is a sequence, and so is the part below its first.
LEMMA VersionType ==
  ASSUME TypeInv, NEW p \in Process, NEW s \in State, NEW base,
         base = IF working[p] = s THEN file[Cache[p]][s] ELSE Below(p, s),
         base \notin {Absent, Torn}
  PROVE  <<made + 1>> \o (IF working[p] = s THEN Tail(base) ELSE base)
           \in Content \ {Absent, Torn}
<1>1. /\ file \in [Place -> [State -> Content]]
      /\ made \in Nat
      /\ Cache[p] \in Place
      /\ Backing \in [State -> State \union {NoState}]
  BY FilesAssumption, PlacesAssumption DEF TypeInv, TypeOK
<1>2. CASE working[p] = s
  <2>1. base \in Content
    BY <1>1, <1>2
  <2>2. base \in Seq(Nat) /\ base # <<>>
    BY <2>1 DEF Content
  <2>3. Tail(base) \in Seq(Nat)
    BY <2>2, HeadTailProperties
  <2>4. <<made + 1>> \in Seq(Nat) /\ Len(<<made + 1>>) = 1
    BY <1>1
  <2>5. /\ <<made + 1>> \o Tail(base) \in Seq(Nat)
        /\ Len(<<made + 1>> \o Tail(base)) # 0
    BY <2>3, <2>4, ConcatProperties, LenProperties
  <2> QED BY <1>2, <2>5, FilesAssumption, EmptySeq DEF Content
<1>3. CASE working[p] # s
  <2>1. base \in Seq(Nat)
    BY <1>1, <1>3, EmptySeq DEF Below, Content
  <2>2. <<made + 1>> \in Seq(Nat) /\ Len(<<made + 1>>) = 1
    BY <1>1
  <2>3. /\ <<made + 1>> \o base \in Seq(Nat)
        /\ Len(<<made + 1>> \o base) # 0
    BY <2>1, <2>2, ConcatProperties, LenProperties
  <2> QED BY <1>3, <2>3, FilesAssumption, EmptySeq DEF Content
<1> QED BY <1>2, <1>3

\* Releasing the locks keeps their type.
LEMMA ReleaseType ==
  ASSUME TypeInv, NEW p \in Process, Release(p)
  PROVE  lock' \in [Place -> [State -> Process \union {Nobody, NoLock}]]
BY DEF TypeInv, TypeOK, Release

\* What is left to show for a step of p.
LEMMA TypeStep ==
  ASSUME TypeInv, NEW p \in Process, Others(p), Shape',
         file' \in [Place -> [State -> Content]],
         lock' \in [Place -> [State -> Process \union {Nobody, NoLock}]],
         working' \in [Process -> State \union {NoState}],
         op' \in [Process -> Operation \union {NoOp}],
         pc' \in [Process -> {"idle", "check", "choose", "look", "compare", "lock", "hash", "open",
                              "copy", "depend", "restore", "own", "write", "delete"}],
         pos' \in [Process -> Nat],
         at' \in [Process -> State \union {NoState}],
         at'[p] \in State,
         copy' \in [Process -> Content],
         last' \in [Process -> {"none", "done", "kept", "ignored", "aborted", "failed", "killed"}],
         begun' \in [Process -> 0..MaxOps],
         made' \in Nat,
         kills' \in 0..MaxKills
  PROVE  TypeInv'
<1>1. ASSUME NEW q \in Process, op'[q] # NoOp PROVE at'[q] \in State
  BY <1>1 DEF Others, TypeInv, TypeOK
<1> QED BY <1>1 DEF TypeInv, TypeOK

\* The types after a step to l within an operation.
LEMMA GoType ==
  ASSUME TypeInv, NEW p \in Process, pc[p] # "idle",
         NEW l \in {"choose", "look", "compare", "lock", "hash", "open", "copy", "depend",
                    "restore", "own", "write", "delete"},
         Goto(p, l), op' = op, last' = last, begun' = begun, kills' = kills, made' \in Nat,
         NEW s \in State, at' = [at EXCEPT ![p] = s],
         NEW i \in Nat, pos' = [pos EXCEPT ![p] = i],
         l \in AtSource => i \in DOMAIN op[p].location,
         l \in {"own", "write"} /\ op[p].kind = "set" => s = op[p].state,
         l = "write" => op[p].kind = "set",
         file' \in [Place -> [State -> Content]],
         lock' \in [Place -> [State -> Process \union {Nobody, NoLock}]],
         working' \in [Process -> State \union {NoState}],
         copy' \in [Process -> Content]
  PROVE  TypeInv'
<1>1. /\ at \in [Process -> State \union {NoState}]
      /\ pos \in [Process -> Nat]
      /\ op \in [Process -> Operation \union {NoOp}]
      /\ begun \in [Process -> 0..MaxOps]
      /\ kills \in 0..MaxKills
      /\ last \in [Process -> {"none", "done", "kept", "ignored", "aborted", "failed", "killed"}]
  BY DEF TypeInv, TypeOK
<1>2. /\ at' \in [Process -> State \union {NoState}] /\ at'[p] = s
      /\ pos' \in [Process -> Nat] /\ pos'[p] = i
      /\ \A q \in Process \ {p} : pos'[q] = pos[q] /\ at'[q] = at[q]
  BY <1>1
<1>3. /\ pc' \in [Process -> {"idle", "check", "choose", "look", "compare", "lock", "hash",
                              "open", "copy", "depend", "restore", "own", "write", "delete"}]
      /\ Others(p)
      /\ Shape'
  BY <1>2, SameOpStep
<1> QED BY <1>1, <1>2, <1>3, TypeStep

\* The types after a step to l with the files as they are.
LEMMA GoOnType ==
  ASSUME TypeInv, NEW p \in Process, pc[p] # "idle",
         NEW l \in {"look", "compare", "lock", "delete", "restore"},
         Goto(p, l), UNCHANGED <<file, lock, working, copy, op, last, begun, made, kills>>,
         NEW s \in State, at' = [at EXCEPT ![p] = s],
         NEW i \in Nat, pos' = [pos EXCEPT ![p] = i],
         l \in AtSource => i \in DOMAIN op[p].location
  PROVE  TypeInv'
<1>1. l \in {"choose", "look", "compare", "lock", "hash", "open", "copy", "depend",
            "restore", "own", "write", "delete"}
  OBVIOUS
<1>2. /\ l \in AtSource => i \in DOMAIN op[p].location
      /\ l \in {"own", "write"} /\ op[p].kind = "set" => s = op[p].state
      /\ l = "write" => op[p].kind = "set"
  OBVIOUS
<1>3. /\ file' \in [Place -> [State -> Content]]
      /\ lock' \in [Place -> [State -> Process \union {Nobody, NoLock}]]
      /\ working' \in [Process -> State \union {NoState}]
      /\ copy' \in [Process -> Content]
      /\ made' \in Nat
  BY DEF TypeInv, TypeOK
<1> HIDE DEF TypeInv
<1> QED BY <1>1, <1>2, <1>3, GoType

\* The types after a step that ends the operation.
LEMMA DoneType ==
  ASSUME TypeInv, NEW p \in Process, pc[p] # "idle",
         NEW outcome \in {"done", "kept", "ignored", "aborted", "failed"},
         End(p, outcome), begun' = begun, kills' = kills, made' = made,
         NEW s \in State, at' = [at EXCEPT ![p] = s],
         NEW i \in Nat, pos' = [pos EXCEPT ![p] = i],
         file' \in [Place -> [State -> Content]],
         lock' \in [Place -> [State -> Process \union {Nobody, NoLock}]],
         working' \in [Process -> State \union {NoState}],
         copy' \in [Process -> Content]
  PROVE  TypeInv'
<1>1. /\ at \in [Process -> State \union {NoState}]
      /\ pos \in [Process -> Nat]
      /\ begun \in [Process -> 0..MaxOps]
      /\ kills \in 0..MaxKills
      /\ made \in Nat
  BY DEF TypeInv, TypeOK
<1>2. /\ at' \in [Process -> State \union {NoState}] /\ at'[p] = s
      /\ pos' \in [Process -> Nat] /\ pos'[p] = i
      /\ \A q \in Process \ {p} : pos'[q] = pos[q] /\ at'[q] = at[q]
  BY <1>1
<1>3. /\ op' \in [Process -> Operation \union {NoOp}]
      /\ pc' \in [Process -> {"idle", "check", "choose", "look", "compare", "lock", "hash",
                              "open", "copy", "depend", "restore", "own", "write", "delete"}]
      /\ last' \in [Process -> {"none", "done", "kept", "ignored", "aborted", "failed",
                                "killed"}]
      /\ Others(p)
      /\ Shape'
  BY <1>2, EndStep
<1> QED BY <1>1, <1>2, <1>3, TypeStep

\* A variable that does not change has its own value at every place.
LEMMA Stays ==
  ASSUME TypeInv, NEW p \in Process
  PROVE  /\ at = [at EXCEPT ![p] = at[p]] /\ pos = [pos EXCEPT ![p] = pos[p]]
         /\ pos[p] \in Nat
         /\ file \in [Place -> [State -> Content]]
         /\ lock \in [Place -> [State -> Process \union {Nobody, NoLock}]]
         /\ working \in [Process -> State \union {NoState}]
         /\ copy \in [Process -> Content]
         /\ made \in Nat
BY DEF TypeInv, TypeOK

\* The types after a step to l that keeps source and state.
LEMMA GoSameType ==
  ASSUME TypeInv, NEW p \in Process, pc[p] # "idle",
         NEW l \in {"choose", "look", "compare", "lock", "hash", "open", "copy", "depend",
                    "restore", "own", "write", "delete"},
         Goto(p, l), UNCHANGED <<op, pos, at, last, begun, kills>>, made' \in Nat,
         l \in AtSource => pos[p] \in DOMAIN op[p].location,
         l \in {"own", "write"} /\ op[p].kind = "set" => at[p] = op[p].state,
         l = "write" => op[p].kind = "set",
         file' \in [Place -> [State -> Content]],
         lock' \in [Place -> [State -> Process \union {Nobody, NoLock}]],
         working' \in [Process -> State \union {NoState}],
         copy' \in [Process -> Content]
  PROVE  TypeInv'
<1>1. /\ at' \in [Process -> State \union {NoState}] /\ at'[p] \in State
      /\ pos' \in [Process -> Nat]
      /\ op' \in [Process -> Operation \union {NoOp}]
      /\ begun' \in [Process -> 0..MaxOps]
      /\ kills' \in 0..MaxKills
      /\ last' \in [Process -> {"none", "done", "kept", "ignored", "aborted", "failed", "killed"}]
  BY BusyType DEF TypeInv, TypeOK
<1>2. /\ pc' \in [Process -> {"idle", "check", "choose", "look", "compare", "lock", "hash",
                              "open", "copy", "depend", "restore", "own", "write", "delete"}]
      /\ Others(p)
      /\ Shape'
  BY SameOpStep
<1> QED BY <1>1, <1>2, TypeStep

\* get_dependency: the next state of the chain is a state.
LEMMA FollowType ==
  ASSUME TypeInv, NEW p \in Process, pc[p] \in AtSource,
         NEW l \in {"compare", "lock"}, Follow(p, l),
         UNCHANGED <<file, lock, working, copy, pos, begun, made, kills>>
  PROVE  TypeInv'
<1>1. at[p] \in State /\ pc[p] # "idle" /\ pos[p] \in DOMAIN op[p].location
  BY BusyType DEF AtSource, TypeInv, Shape
<1>2. Backing[at[p]] \in State \union {NoState}
  BY <1>1, FilesAssumption
<1>3. CASE End(p, "failed") /\ at' = at
  BY <1>1, <1>3, Stays, DoneType
<1>4. CASE Goto(p, "choose") /\ at' = at /\ UNCHANGED <<op, last>>
  BY <1>1, <1>4, Stays, GoType DEF AtSource
<1>5. CASE /\ Backing[at[p]] # NoState
           /\ Goto(p, l) /\ at' = [at EXCEPT ![p] = Backing[at[p]]] /\ UNCHANGED <<op, last>>
  <2>1. PICK s \in State : at' = [at EXCEPT ![p] = s]
    BY <1>2, <1>5
  <2>2. pos' = [pos EXCEPT ![p] = pos[p]] /\ pos[p] \in Nat
    BY Stays
  <2>3. /\ l \in {"look", "compare", "lock", "delete", "restore"}
        /\ l \in AtSource => pos[p] \in DOMAIN op[p].location
    BY <1>1
  <2>4. Goto(p, l) /\ UNCHANGED <<file, lock, working, copy, op, last, begun, made, kills>>
    BY <1>5
  <2> QED BY <1>1, <2>1, <2>2, <2>3, <2>4, GoOnType
<1> QED BY <1>3, <1>4, <1>5 DEF Follow

\* Whatever a test begins has its type.
LEMMA BeginType ==
  ASSUME TypeInv, NEW p \in Process, Begin(p)
  PROVE  TypeInv'
<1>1. PICK o \in Plan[p] : op' = [op EXCEPT ![p] = o] /\ at' = [at EXCEPT ![p] = o.state]
  BY DEF Begin
<1>2. o \in Operation /\ o.state \in State /\ o # NoOp
  <2>1. o \in Operation
    BY PlacesAssumption
  <2> QED BY <2>1 DEF Operation, NoOp
<1>3. /\ op \in [Process -> Operation \union {NoOp}]
      /\ at \in [Process -> State \union {NoState}]
      /\ pos \in [Process -> Nat]
      /\ begun \in [Process -> 0..MaxOps] /\ begun[p] < MaxOps /\ MaxOps \in Nat
      /\ pc \in [Process -> {"idle", "check", "choose", "look", "compare", "lock", "hash", "open",
                             "copy", "depend", "restore", "own", "write", "delete"}]
      /\ pos' = [pos EXCEPT ![p] = 0] /\ begun' = [begun EXCEPT ![p] = @ + 1]
      /\ pc' = [pc EXCEPT ![p] = "check"]
      /\ UNCHANGED <<file, lock, working, copy, last, made, kills>>
  BY PlacesAssumption DEF TypeInv, TypeOK, Begin, Goto
<1>4. Others(p)
  BY <1>1, <1>3 DEF Others
<1>5. op'[p] = o /\ at'[p] = o.state /\ pc'[p] = "check"
  BY <1>1, <1>3
<1>6. pc'[p] \notin AtSource /\ pc'[p] # "write"
  BY <1>5 DEF AtSource
<1>7. Shape'
  BY <1>2, <1>4, <1>5, <1>6, ShapeStep
<1>8. begun' \in [Process -> 0..MaxOps]
  BY <1>3
<1>9. /\ op' \in [Process -> Operation \union {NoOp}]
      /\ at' \in [Process -> State \union {NoState}] /\ at'[p] \in State
      /\ pos' \in [Process -> Nat]
      /\ pc' \in [Process -> {"idle", "check", "choose", "look", "compare", "lock", "hash", "open",
                              "copy", "depend", "restore", "own", "write", "delete"}]
  BY <1>1, <1>2, <1>3, <1>5
<1>10. /\ last' \in [Process -> {"none", "done", "kept", "ignored", "aborted", "failed", "killed"}]
       /\ kills' \in 0..MaxKills
  BY <1>3 DEF TypeInv, TypeOK
<1> QED BY <1>3, <1>4, <1>7, <1>8, <1>9, <1>10, Stays, TypeStep

\* The steps of the policies and of the choice of a source.
LEMMA PolicyType ==
  ASSUME TypeInv, NEW p \in Process, Check(p) \/ Choose(p) \/ Look(p) \/ LockTimeout(p)
  PROVE  TypeInv'
<1>1. CASE Check(p)
  <2>1. pc[p] = "check" /\ pc[p] # "idle"
    BY <1>1 DEF Check, At
  <2>2. at[p] \in State /\ op[p] \in Operation
    BY <2>1, BusyType
  <2>3. /\ pos' = [pos EXCEPT ![p] = 0]
        /\ UNCHANGED <<file, lock, working, copy, at, begun, made, kills>>
    BY <1>1 DEF Check
  <2>4. CASE /\ Goto(p, IF op[p].kind = "get" THEN "choose" ELSE "own")
             /\ UNCHANGED <<op, last>>
    <3>1. op[p].kind = "set" => at[p] = op[p].state
      BY <2>1 DEF TypeInv, Shape
    <3>2. CASE Goto(p, "choose")
      BY <2>1, <2>2, <2>3, <2>4, <3>2, Stays, GoType DEF AtSource
    <3>3. CASE Goto(p, "own")
      BY <2>1, <2>2, <2>3, <2>4, <3>1, <3>3, Stays, GoType DEF AtSource
    <3> QED BY <2>4, <3>2, <3>3
  <2>5. CASE \E outcome \in {"done", "kept", "ignored", "aborted", "failed"} : End(p, outcome)
    BY <2>1, <2>2, <2>3, <2>5, Stays, DoneType
  <2>6. \A exists : Outcome(op[p], exists) \in {"kept", "ignored", "aborted", "failed", "go"}
    BY DEF Outcome
  <2> QED BY <1>1, <2>4, <2>5, <2>6 DEF Check
<1>2. CASE Choose(p)
  <2>1. pc[p] = "choose" /\ pc[p] # "idle" /\ op[p] \in Operation
    BY <1>2, BusyType DEF Choose, At
  <2>2. op[p].state \in State /\ op[p].kind \in {"get", "set", "unset"}
    BY <2>1 DEF Operation
  <2>3. /\ at' = [at EXCEPT ![p] = op[p].state]
        /\ UNCHANGED <<file, lock, working, copy, begun, made, kills>>
    BY <1>2 DEF Choose
  <2>4. CASE pos' = pos /\ End(p, "done")
    BY <2>1, <2>2, <2>3, <2>4, Stays, DoneType
  <2>5. CASE pos' = pos /\ Goto(p, "restore") /\ UNCHANGED <<op, last>>
    <3>1. pos' = [pos EXCEPT ![p] = pos[p]] /\ pos[p] \in Nat
      BY <2>5, Stays
    <3>2. /\ "restore" \in {"look", "compare", "lock", "delete", "restore"}
          /\ "restore" \in AtSource => pos[p] \in DOMAIN op[p].location
      BY DEF AtSource
    <3> QED BY <2>1, <2>2, <2>3, <2>5, <3>1, <3>2, GoOnType
  <2>6. CASE /\ \E i \in Left(p) : pos' = [pos EXCEPT ![p] = i]
             /\ \E l \in {"look", "lock", "delete"} : Goto(p, l)
             /\ UNCHANGED <<op, last>>
    <3>1. PICK i \in Left(p) : pos' = [pos EXCEPT ![p] = i]
      BY <2>6
    <3>2. i \in DOMAIN op[p].location /\ i \in Nat
      <4>1. op[p].location \in Seq(Source)
        BY <2>1 DEF Operation
      <4>2. i \in DOMAIN op[p].location
        BY <3>1 DEF Left, Permitted
      <4>3. DOMAIN op[p].location = 1 .. Len(op[p].location) /\ Len(op[p].location) \in Nat
        BY <4>1, LenProperties
      <4> QED BY <4>2, <4>3
    <3>3. PICK l \in {"look", "lock", "delete"} : Goto(p, l)
      BY <2>6
    <3>4. l \in {"look", "compare", "lock", "delete", "restore"}
      OBVIOUS
    <3> QED BY <2>1, <2>2, <2>3, <2>6, <3>1, <3>2, <3>3, <3>4, GoOnType
  <2>7. \/ pos' = pos /\ End(p, "done")
        \/ pos' = pos /\ Goto(p, "restore") /\ UNCHANGED <<op, last>>
        \/ /\ \E i \in Left(p) : pos' = [pos EXCEPT ![p] = i]
           /\ \E l \in {"look", "lock", "delete"} : Goto(p, l)
           /\ UNCHANGED <<op, last>>
    <3>1. \/ pos' = pos /\ (End(p, "done") \/ (Goto(p, "restore") /\ UNCHANGED <<op, last>>))
          \/ /\ \E i \in Left(p) : pos' = [pos EXCEPT ![p] = i]
             /\ Goto(p, CASE op[p].kind = "get" -> "look" [] op[p].kind = "set" -> "lock"
                          [] op[p].kind = "unset" -> "delete")
             /\ UNCHANGED <<op, last>>
      BY <1>2 DEF Choose
    <3>2. (CASE op[p].kind = "get" -> "look" [] op[p].kind = "set" -> "lock"
             [] op[p].kind = "unset" -> "delete") \in {"look", "lock", "delete"}
      BY <2>2
    <3> QED BY <3>1, <3>2
  <2> QED BY <2>4, <2>5, <2>6, <2>7
<1>3. CASE Look(p)
  <2>1. pc[p] = "look" /\ pc[p] # "idle"
    BY <1>3 DEF Look, At
  <2>2. at[p] \in State /\ pos[p] \in DOMAIN op[p].location
    BY <2>1, BusyType DEF TypeInv, Shape, AtSource
  <2>3. UNCHANGED <<file, lock, working, copy, op, pos, at, last, begun, made, kills>>
    BY <1>3 DEF Look, procVars
  <2>4. PICK l \in {"choose", "compare", "lock"} : Goto(p, l)
    BY <1>3 DEF Look
  <2>5. l \notin {"own", "write"}
    OBVIOUS
  <2> QED BY <2>1, <2>2, <2>3, <2>4, <2>5, Stays, GoSameType
<1>4. CASE LockTimeout(p)
  <2>1. pc[p] # "idle"
    BY <1>4 DEF LockTimeout, At
  <2>2. /\ End(p, "failed")
        /\ UNCHANGED <<file, lock, working, copy, pos, at, begun, made, kills>>
    BY <1>4 DEF LockTimeout
  <2> QED BY <2>1, <2>2, BusyType, Stays, DoneType
<1> QED BY <1>1, <1>2, <1>3, <1>4

\* The steps of compare_chain and transfer_chain.
LEMMA TransferType ==
  ASSUME TypeInv, NEW p \in Process,
         Compare(p) \/ Lock(p) \/ Hash(p) \/ OpenCopy(p) \/ CloseCopy(p) \/ Depend(p)
  PROVE  TypeInv'
<1>1. pc[p] \in AtSource /\ pc[p] # "idle"
  BY DEF Compare, Lock, Hash, OpenCopy, CloseCopy, Depend, At, AtSource
<1>2. /\ at[p] \in State /\ op[p] \in Operation /\ op[p].state \in State
      /\ pos[p] \in DOMAIN op[p].location
      /\ CurrentSource(p).place \in Place /\ Target(p) \in Place /\ Origin(p) \in Place
  BY <1>1, BusyType, SourceType DEF TypeInv, Shape, Operation
<1>3. CASE Compare(p)
  <2>1. CASE Follow(p, "compare")
    BY <1>1, <1>3, <2>1, FollowType DEF Compare
  <2>2. CASE Goto(p, "lock") /\ at' = [at EXCEPT ![p] = op[p].state] /\ UNCHANGED <<op, last>>
    <3>1. UNCHANGED <<file, lock, working, copy, pos, begun, made, kills>>
      BY <1>3 DEF Compare
    <3>2. pos' = [pos EXCEPT ![p] = pos[p]] /\ pos[p] \in Nat
      BY <3>1, Stays
    <3> QED BY <1>1, <1>2, <2>2, <3>1, <3>2, GoOnType
  <2> QED BY <1>3, <2>1, <2>2 DEF Compare
<1>4. CASE Lock(p)
  <2>1. Goto(p, "hash") /\ UNCHANGED <<file, working, copy, op, pos, at, last, begun, made, kills>>
    BY <1>4 DEF Lock, procVars
  <2>2. lock' \in [Place -> [State -> Process \union {Nobody, NoLock}]]
    <3>1. CASE CurrentSource(p).remote
      BY <1>4, <3>1 DEF Lock, Acquire, TypeInv, TypeOK
    <3>2. CASE ~CurrentSource(p).remote
      <4> DEFINE d == CurrentSource(p).place
      <4>1. lock' = [lock EXCEPT ![d] = [lock[d] EXCEPT ![at[p]] = p]]
        BY <1>4, <3>2 DEF Lock, Acquire
      <4> QED BY <1>2, <4>1 DEF TypeInv, TypeOK
    <3> QED BY <3>1, <3>2
  <2> QED BY <1>1, <1>2, <2>1, <2>2, Stays, GoSameType DEF AtSource
<1>5. CASE Hash(p)
  <2>1. UNCHANGED <<file, working, copy, op, pos, at, last, begun, made, kills>>
    BY <1>5 DEF Hash, procVars
  <2>2. lock' \in [Place -> [State -> Process \union {Nobody, NoLock}]]
    BY <1>5, ReleaseType, Stays DEF Hash
  <2>3. Goto(p, "depend") \/ Goto(p, "open")
    BY <1>5 DEF Hash
  <2>4. CASE Goto(p, "depend")
    BY <1>1, <1>2, <2>1, <2>2, <2>4, Stays, GoSameType DEF AtSource
  <2>5. CASE Goto(p, "open")
    BY <1>1, <1>2, <2>1, <2>2, <2>5, Stays, GoSameType DEF AtSource
  <2> QED BY <2>3, <2>4, <2>5
<1>6. CASE OpenCopy(p)
  <2>1. UNCHANGED <<working, pos, at, begun, made, kills>>
    BY <1>6 DEF OpenCopy
  <2>2. CASE Release(p) /\ End(p, "failed") /\ UNCHANGED <<file, copy>>
    BY <1>1, <1>2, <2>1, <2>2, Stays, ReleaseType, DoneType
  <2>3. CASE /\ Open(p, Target(p), at[p], file[Origin(p)][at[p]], TRUE)
             /\ Goto(p, "copy")
             /\ UNCHANGED <<lock, op, last>>
    <3>1. file[Origin(p)][at[p]] \in Content
      BY <1>2 DEF TypeInv, TypeOK
    <3>2. file' \in [Place -> [State -> Content]] /\ copy' \in [Process -> Content]
      BY <1>2, <2>3, <3>1, OpenType
    <3> QED BY <1>1, <1>2, <2>1, <2>3, <3>2, Stays, GoSameType DEF AtSource
  <2> QED BY <1>6, <2>2, <2>3 DEF OpenCopy
<1>7. CASE CloseCopy(p)
  <2>1. /\ Close(p, Target(p), at[p]) /\ Release(p) /\ Goto(p, "depend")
        /\ UNCHANGED <<working, op, pos, at, last, begun, made, kills>>
    BY <1>7 DEF CloseCopy, procVars
  <2>2. file' \in [Place -> [State -> Content]] /\ copy' \in [Process -> Content]
    BY <1>2, <2>1, CloseType
  <2>3. lock' \in [Place -> [State -> Process \union {Nobody, NoLock}]]
    BY <2>1, ReleaseType
  <2> QED BY <1>1, <1>2, <2>1, <2>2, <2>3, Stays, GoSameType DEF AtSource
<1>8. CASE Depend(p)
  BY <1>1, <1>8, FollowType DEF Depend
<1> QED BY <1>3, <1>4, <1>5, <1>6, <1>7, <1>8

\* The steps on the own pool, and the deletion in another.
LEMMA OwnType ==
  ASSUME TypeInv, NEW p \in Process,
         \/ Restore(p) \/ SetOwn(p) \/ SetOthers(p) \/ CloseSet(p) \/ UnsetOwn(p) \/ Delete(p)
  PROVE  TypeInv'
<1>1. pc[p] # "idle"
  BY DEF Restore, SetOwn, SetOthers, CloseSet, UnsetOwn, Delete, At
<1>2. /\ at[p] \in State /\ op[p] \in Operation /\ op[p].state \in State
      /\ Cache[p] \in Place
  BY <1>1, BusyType, PlacesAssumption DEF Operation
<1>3. CASE Restore(p)
  <2>1. UNCHANGED <<file, lock, copy, pos, at, begun, made, kills>>
    BY <1>3 DEF Restore
  <2>2. /\ working' = working \/ working' = [working EXCEPT ![p] = op[p].state]
        /\ End(p, "done") \/ End(p, "failed")
    BY <1>3 DEF Restore
  <2>3. working' \in [Process -> State \union {NoState}]
    BY <1>2, <2>2, Stays
  <2> QED BY <1>1, <1>2, <2>1, <2>2, <2>3, Stays, DoneType
<1>4. CASE SetOwn(p)
  <2> DEFINE s == op[p].state
             base == IF working[p] = s THEN file[Cache[p]][s] ELSE Below(p, s)
             below == IF working[p] = s THEN Tail(base) ELSE base
  <2>1. UNCHANGED <<lock, working, pos, at, begun, kills>> /\ op[p].kind = "set" /\ pc[p] = "own"
    BY <1>4 DEF SetOwn, At
  <2>2. CASE End(p, "failed") /\ UNCHANGED <<file, copy, made>>
    BY <1>1, <1>2, <2>1, <2>2, Stays, DoneType
  <2>3. CASE /\ base \notin {Absent, Torn}
             /\ Open(p, Cache[p], s, <<made + 1>> \o below, working[p] = s)
             /\ made' = made + 1 /\ Goto(p, "write") /\ UNCHANGED <<op, last>>
    <3>1. <<made + 1>> \o below \in Content
      BY <1>2, <2>3, VersionType
    <3>2. file' \in [Place -> [State -> Content]] /\ copy' \in [Process -> Content]
      BY <1>2, <2>3, <3>1, OpenType
    <3>3. made' \in Nat
      BY <2>3, Stays
    <3>4. at[p] = op[p].state
      BY <2>1 DEF TypeInv, Shape
    <3> HIDE DEF below, base
    <3> QED BY <1>1, <1>2, <2>1, <2>3, <3>2, <3>3, <3>4, Stays, GoSameType DEF AtSource
  <2> QED BY <1>4, <2>2, <2>3 DEF SetOwn
<1>5. CASE SetOthers(p)
  <2>1. UNCHANGED <<file, lock, working, copy, pos, at, begun, made, kills>>
    BY <1>5 DEF SetOthers
  <2>2. CASE End(p, "failed")
    BY <1>1, <1>2, <2>1, <2>2, Stays, DoneType
  <2>3. CASE Goto(p, "choose") /\ UNCHANGED <<op, last>>
    BY <1>1, <1>2, <2>1, <2>3, Stays, GoSameType DEF AtSource
  <2> QED BY <1>5, <2>2, <2>3 DEF SetOthers
<1>6. CASE CloseSet(p)
  <2>1. /\ Close(p, Cache[p], at[p]) /\ Goto(p, "choose")
        /\ UNCHANGED <<lock, working, op, pos, at, last, begun, made, kills>>
    BY <1>6 DEF CloseSet, procVars
  <2>2. file' \in [Place -> [State -> Content]] /\ copy' \in [Process -> Content]
    BY <1>2, <2>1, CloseType
  <2> QED BY <1>1, <1>2, <2>1, <2>2, Stays, GoSameType DEF AtSource
<1>7. ASSUME NEW d \in Place, NEW s \in State, file' = [file EXCEPT ![d][s] = Absent]
      PROVE  file' \in [Place -> [State -> Content]]
  <2>1. file' = [file EXCEPT ![d] = [file[d] EXCEPT ![s] = Absent]]
    BY <1>7
  <2>2. Absent \in Content
    BY DEF Content
  <2> QED BY <2>1, <2>2, Stays
<1>8. CASE UnsetOwn(p)
  <2>1. UNCHANGED <<lock, working, copy, pos, at, begun, made, kills>>
    BY <1>8 DEF UnsetOwn
  <2>2. file' \in [Place -> [State -> Content]]
    BY <1>2, <1>7, <1>8, Stays DEF UnsetOwn
  <2>3. CASE End(p, "failed")
    BY <1>1, <1>2, <2>1, <2>2, <2>3, Stays, DoneType
  <2>4. CASE Goto(p, "choose") /\ UNCHANGED <<op, last>>
    BY <1>1, <1>2, <2>1, <2>2, <2>4, Stays, GoSameType DEF AtSource
  <2> QED BY <1>8, <2>3, <2>4 DEF UnsetOwn
<1>9. CASE Delete(p)
  <2>1. UNCHANGED <<working, copy, pos, at, begun, made, kills>>
    BY <1>9 DEF Delete
  <2>2. /\ file' \in [Place -> [State -> Content]]
        /\ lock' \in [Place -> [State -> Process \union {Nobody, NoLock}]]
    <3> DEFINE d == CurrentSource(p).place
    <3>1. d \in Place
      BY <1>9, SourceType DEF Delete, At, AtSource
    <3>2. lock' = lock \/ lock' = [lock EXCEPT ![d] = [lock[d] EXCEPT ![at[p]] = Nobody]]
      BY <1>9 DEF Delete
    <3>3. lock' \in [Place -> [State -> Process \union {Nobody, NoLock}]]
      <4>1. lock \in [Place -> [State -> Process \union {Nobody, NoLock}]] /\ at[p] \in State
        BY <1>2, Stays
      <4> HIDE DEF d
      <4>2. [lock[d] EXCEPT ![at[p]] = Nobody] \in [State -> Process \union {Nobody, NoLock}]
        BY <3>1, <4>1
      <4> QED BY <3>1, <3>2, <4>1, <4>2
    <3> QED BY <1>2, <1>7, <1>9, <3>1, <3>3, Stays DEF Delete
  <2>3. CASE End(p, "failed")
    BY <1>1, <1>2, <2>1, <2>2, <2>3, Stays, DoneType
  <2>4. CASE Goto(p, "choose") /\ UNCHANGED <<op, last>>
    BY <1>1, <1>2, <2>1, <2>2, <2>4, Stays, GoSameType DEF AtSource
  <2> QED BY <1>9, <2>3, <2>4 DEF Delete
<1> QED BY <1>3, <1>4, <1>5, <1>6, <1>8, <1>9

\* A killed process leaves everything in its type.
LEMMA KillType ==
  ASSUME TypeInv, NEW p \in Process, Kill(p)
  PROVE  TypeInv'
<1>1. pc[p] # "idle" /\ at[p] \in State /\ op[p] # NoOp
  BY BusyType DEF Kill, At
<1>2. /\ kills < MaxKills /\ kills' = kills + 1
      /\ pc' = [pc EXCEPT ![p] = "idle"] /\ last' = [last EXCEPT ![p] = "killed"]
      /\ copy' = [copy EXCEPT ![p] = Absent] /\ working' = [working EXCEPT ![p] = NoState]
      /\ UNCHANGED <<file, op, pos, at, begun, made>>
  BY DEF Kill, Goto
<1>3. /\ pc' \in [Process -> {"idle", "check", "choose", "look", "compare", "lock", "hash", "open",
                              "copy", "depend", "restore", "own", "write", "delete"}]
      /\ last' \in [Process -> {"none", "done", "kept", "ignored", "aborted", "failed", "killed"}]
      /\ copy' \in [Process -> Content]
      /\ working' \in [Process -> State \union {NoState}]
      /\ Others(p) /\ pc'[p] = "idle"
  BY <1>2 DEF TypeInv, TypeOK, Content, Others
<1>4. lock' \in [Place -> [State -> Process \union {Nobody, NoLock}]]
  BY ReleaseType DEF Kill
<1>5. Shape'
  <2>1. pc'[p] \notin AtSource /\ pc'[p] \notin {"check", "own", "write"}
    BY <1>3 DEF AtSource
  <2>2. op'[p] # NoOp => \E o \in Plan[p] : op'[p].location = o.location
    BY <1>2 DEF TypeInv, Shape
  <2> QED BY <1>3, <2>1, <2>2, ShapeStep
<1>6. kills' \in 0..MaxKills
  BY <1>2, PlacesAssumption DEF TypeInv, TypeOK
<1>7. /\ op' \in [Process -> Operation \union {NoOp}]
      /\ pos' \in [Process -> Nat]
      /\ at' \in [Process -> State \union {NoState}] /\ at'[p] \in State
      /\ begun' \in [Process -> 0..MaxOps]
      /\ made' \in Nat
      /\ file' \in [Place -> [State -> Content]]
  BY <1>1, <1>2 DEF TypeInv, TypeOK
<1> QED BY <1>3, <1>4, <1>5, <1>6, <1>7, TypeStep

\* The first state has its types.
LEMMA TypeInit == Init => TypeInv
<1> SUFFICES ASSUME Init PROVE TypeInv
  OBVIOUS
<1>1. TypeOK
  BY FilesAssumption, PlacesAssumption DEF Init, TypeOK, Content
<1>2. Shape
  BY DEF Init, Shape, AtSource, NoOp
<1> QED BY <1>1, <1>2 DEF TypeInv

\* Every action keeps them.
LEMMA TypeNext == TypeInv /\ [Next]_vars => TypeInv'
<1> SUFFICES ASSUME TypeInv, [Next]_vars PROVE TypeInv'
  OBVIOUS
<1>1. CASE UNCHANGED vars
  BY <1>1 DEF vars, procVars, TypeInv, TypeOK, Shape
<1>2. ASSUME NEW p \in Process, Begin(p) PROVE TypeInv'
  BY <1>2, BeginType
<1>3. ASSUME NEW p \in Process, Step(p) PROVE TypeInv'
  BY <1>3, PolicyType, TransferType, OwnType DEF Step
<1>4. ASSUME NEW p \in Process, Kill(p) PROVE TypeInv'
  BY <1>4, KillType
<1> QED BY <1>1, <1>2, <1>3, <1>4 DEF Next

\* Whatever the processes do, every variable keeps its type.
THEOREM TypeCorrect == Spec => []TypeOK
<1>1. Init => TypeInv
  BY TypeInit
<1>2. TypeInv /\ [Next]_vars => TypeInv'
  BY TypeNext
<1>3. TypeInv => TypeOK
  BY DEF TypeInv
<1> QED BY <1>1, <1>2, <1>3, PTL DEF Spec

-----------------------------------------------------------------------------
(* Nothing is torn at rest.                                                *)

\* image_lock: while a process compares or copies a file of a pool it
\* accesses locally, it holds the lock of the file.
Holding ==
  \A p \in Process :
    pc[p] \in {"hash", "open", "copy"} /\ ~CurrentSource(p).remote
      => lock[CurrentSource(p).place][at[p]] = p

\* What is being written is not torn.
Copies ==
  Isolated /\ kills = 0 =>
    \A p \in Process : pc[p] \in {"copy", "write"} => copy[p] # Torn

\* The inductive strengthening of NothingTorn.
TornInv == TypeInv /\ Holding /\ Copies /\ NothingTorn

\* A process that compares, copies or sets uses the file of its current state
\* in its own pool, and in the pool of its source.
Uses(p, d) ==
  \/ pc[p] \in {"hash", "open", "copy", "own", "write"} /\ d = Cache[p]
  \/ pc[p] \in {"hash", "open", "copy"} /\ d = CurrentSource(p).place

\* The locks of the others are theirs after a step of p.
Locks(p) ==
  \A q \in Process \ {p}, d \in Place, s \in State : lock[d][s] = q => lock'[d][s] = q

\* A process releases none but its own locks.
LEMMA ReleaseLocks ==
  ASSUME TypeInv, NEW p \in Process, Release(p)
  PROVE  Locks(p)
BY DEF Release, Locks

\* No step disturbs another process or its locks.
LEMMA Frame ==
  ASSUME TypeInv, NEW p \in Process, Begin(p) \/ Step(p) \/ Kill(p)
  PROVE  Others(p) /\ Locks(p)
<1>0. /\ pc \in [Process -> {"idle", "check", "choose", "look", "compare", "lock", "hash", "open",
                             "copy", "depend", "restore", "own", "write", "delete"}]
      /\ op \in [Process -> Operation \union {NoOp}]
      /\ pos \in [Process -> Nat]
      /\ at \in [Process -> State \union {NoState}]
      /\ Nobody \notin Process /\ NoLock \notin Process
  BY FilesAssumption DEF TypeInv, TypeOK
<1>1. Others(p)
  <2>1. \A q \in Process \ {p} : pos'[q] = pos[q] /\ at'[q] = at[q]
    <3>1. (\E i : pos' = [pos EXCEPT ![p] = i]) \/ pos' = pos
      BY DEF Begin, Step, Kill, Check, Choose, Look, Compare, Lock, Hash, OpenCopy, CloseCopy,
             Depend, Restore, SetOwn, SetOthers, CloseSet, UnsetOwn, Delete, LockTimeout, procVars
    <3>2. (\E s : at' = [at EXCEPT ![p] = s]) \/ at' = at
      BY DEF Begin, Step, Kill, Check, Choose, Look, Compare, Follow, Lock, Hash, OpenCopy, CloseCopy,
             Depend, Restore, SetOwn, SetOthers, CloseSet, UnsetOwn, Delete, LockTimeout, procVars
    <3> QED BY <1>0, <3>1, <3>2
  <2>2. \/ \E l : Goto(p, l) /\ ((\E o : op' = [op EXCEPT ![p] = o]) \/ op' = op)
        \/ \E outcome : End(p, outcome)
    BY DEF Begin, Step, Kill, Check, Choose, Look, Compare, Follow, Lock, Hash, OpenCopy, CloseCopy,
           Depend, Restore, SetOwn, SetOthers, CloseSet, UnsetOwn, Delete, LockTimeout, procVars
  <2>3. \E l : Goto(p, l) /\ ((\E o : op' = [op EXCEPT ![p] = o]) \/ op' = op)
    BY <2>2 DEF End
  <2>4. \A q \in Process \ {p} : pc'[q] = pc[q] /\ op'[q] = op[q]
    BY <1>0, <2>3 DEF Goto
  <2> QED BY <2>1, <2>4 DEF Others
<1>2. Locks(p)
  <2>1. \/ lock' = lock
        \/ Release(p)
        \/ Acquire(p) /\ pc[p] \in AtSource
        \/ Delete(p)
    BY DEF Begin, Step, Kill, Check, Choose, Look, Compare, Lock, Hash, OpenCopy, CloseCopy,
           Depend, Restore, SetOwn, SetOthers, CloseSet, UnsetOwn, Delete, LockTimeout, At, AtSource
  <2>2. CASE Acquire(p) /\ pc[p] \in AtSource
    <3>1. CASE CurrentSource(p).remote
      BY <2>2, <3>1 DEF Acquire, Locks
    <3>2. CASE ~CurrentSource(p).remote
      <4> DEFINE d == CurrentSource(p).place
      <4>1. /\ lock[d][at[p]] \in {Nobody, NoLock}
            /\ lock' = [lock EXCEPT ![d] = [lock[d] EXCEPT ![at[p]] = p]]
        BY <2>2, <3>2 DEF Acquire, Free
      <4>2. d \in Place /\ at[p] \in State
        BY <2>2, SourceType, BusyType DEF AtSource
      <4>3. lock \in [Place -> [State -> Process \union {Nobody, NoLock}]]
        BY DEF TypeInv, TypeOK
      <4> HIDE DEF d
      <4> QED BY <1>0, <4>1, <4>2, <4>3 DEF Locks
    <3> QED BY <3>1, <3>2
  <2>3. CASE Delete(p)
    <3> DEFINE d == CurrentSource(p).place
    <3>1. \/ lock' = lock
          \/ /\ lock[d][at[p]] \in {Nobody, NoLock}
             /\ lock' = [lock EXCEPT ![d] = [lock[d] EXCEPT ![at[p]] = Nobody]]
      BY <2>3 DEF Delete, Free
    <3>2. d \in Place /\ at[p] \in State
      BY <2>3, SourceType, BusyType DEF Delete, At, AtSource
    <3>3. lock \in [Place -> [State -> Process \union {Nobody, NoLock}]]
      BY DEF TypeInv, TypeOK
    <3> HIDE DEF d
    <3> QED BY <1>0, <3>1, <3>2, <3>3 DEF Locks
  <2> QED BY <2>1, <2>2, <2>3, ReleaseLocks DEF Locks
<1> QED BY <1>1, <1>2

\* A source is local and no one's own pool.
LEMMA SourceApart ==
  ASSUME TypeInv, Isolated, NEW p \in Process, NEW q \in Process, pc[p] \in AtSource
  PROVE  ~CurrentSource(p).remote /\ CurrentSource(p).place # Cache[q]
<1>1. op[p] # NoOp /\ pos[p] \in DOMAIN op[p].location
  BY DEF TypeInv, Shape, AtSource
<1>2. PICK o \in Plan[p] : op[p].location = o.location
  BY <1>1 DEF TypeInv, Shape
<1> QED BY <1>1, <1>2 DEF Isolated, CurrentSource

\* Two processes never use the same file.
LEMMA OneUser ==
  ASSUME TypeInv, Holding, Isolated, NEW p \in Process, NEW q \in Process, NEW d,
         Uses(p, d), Uses(q, d), at[p] = at[q]
  PROVE  p = q
<1>1. CASE d = Cache[p] /\ d = Cache[q]
  BY <1>1 DEF Isolated
<1>2. CASE pc[p] \in {"hash", "open", "copy"} /\ d = CurrentSource(p).place
  <2>1. d # Cache[q]
    BY <1>2, SourceApart DEF AtSource
  <2>2. pc[q] \in {"hash", "open", "copy"} /\ d = CurrentSource(q).place
    BY <2>1 DEF Uses
  <2>3. lock[d][at[p]] = p /\ lock[d][at[q]] = q
    BY <1>2, <2>2, SourceApart DEF Holding, AtSource
  <2> QED BY <2>3
<1>3. CASE pc[q] \in {"hash", "open", "copy"} /\ d = CurrentSource(q).place
  <2>1. d # Cache[p]
    BY <1>3, SourceApart DEF AtSource
  <2>2. pc[p] \in {"hash", "open", "copy"} /\ d = CurrentSource(p).place
    BY <2>1 DEF Uses
  <2> QED BY <1>2, <2>2
<1> QED BY <1>1, <1>2, <1>3 DEF Uses

\* A reader and a writer of a file use it.
LEMMA ReadersAndWritersUse ==
  ASSUME NEW q \in Process, NEW d, NEW s, Reads(q, d, s) \/ Writes(q, d, s)
  PROVE  Uses(q, d) /\ at[q] = s /\ pc[q] \in {"copy", "write"}
BY DEF Reads, Writes, Uses, Origin, Target, At

\* A process of which nothing changes writes what it wrote.
LEMMA WritesOn ==
  ASSUME NEW q \in Process, NEW d, NEW s,
         pc'[q] = pc[q], op'[q] = op[q], pos'[q] = pos[q], at'[q] = at[q]
  PROVE  Writes(q, d, s)' <=> Writes(q, d, s)
BY DEF Writes, Target, CurrentSource, At

\* A lock is held from Lock to the end of the copy.
LEMMA HoldingNext ==
  ASSUME TypeInv, Holding, NEW p \in Process, Begin(p) \/ Step(p) \/ Kill(p)
  PROVE  Holding'
<1>1. Others(p) /\ Locks(p)
  BY Frame
<1>2. ASSUME NEW q \in Process \ {p}, pc'[q] \in {"hash", "open", "copy"},
             ~CurrentSource(q)'.remote
      PROVE  lock'[CurrentSource(q)'.place][at'[q]] = q
  <2>1. CurrentSource(q)' = CurrentSource(q) /\ at'[q] = at[q] /\ pc'[q] = pc[q]
    BY <1>1, <1>2 DEF Others, CurrentSource
  <2>2. lock[CurrentSource(q).place][at[q]] = q
    BY <1>2, <2>1 DEF Holding
  <2>3. CurrentSource(q).place \in Place /\ at[q] \in State
    BY <1>2, <2>1, SourceType, BusyType DEF AtSource
  <2> QED BY <1>1, <2>1, <2>2, <2>3 DEF Locks
<1>3. ASSUME pc'[p] \in {"hash", "open", "copy"}, ~CurrentSource(p)'.remote
      PROVE  lock'[CurrentSource(p)'.place][at'[p]] = p
  <2>1. pc \in [Process -> {"idle", "check", "choose", "look", "compare", "lock", "hash", "open",
                            "copy", "depend", "restore", "own", "write", "delete"}]
    BY DEF TypeInv, TypeOK
  <2>2. Lock(p) \/ Hash(p) \/ OpenCopy(p)
    <3>1. ASSUME Begin(p) \/ Kill(p) \/ Check(p) \/ Look(p) \/ LockTimeout(p) PROVE FALSE
      BY <1>3, <2>1, <3>1 DEF Begin, Kill, Check, Look, LockTimeout, End, Goto
    <3>2. ASSUME Compare(p) \/ Depend(p) \/ CloseCopy(p) PROVE FALSE
      BY <1>3, <2>1, <3>2 DEF Compare, Depend, CloseCopy, Follow, End, Goto
    <3>3. ASSUME \/ Restore(p) \/ SetOwn(p) \/ SetOthers(p) \/ CloseSet(p) \/ UnsetOwn(p)
                 \/ Delete(p)
          PROVE  FALSE
      BY <1>3, <2>1, <3>3
         DEF Restore, SetOwn, SetOthers, CloseSet, UnsetOwn, Delete, End, Goto
    <3>4. ASSUME Choose(p) PROVE FALSE
      <4>1. op[p].kind \in {"get", "set", "unset"}
        BY <3>4, BusyType DEF Choose, At, Operation
      <4>2. Goto(p, "restore") \/ Goto(p, "look") \/ Goto(p, "lock") \/ Goto(p, "delete")
              \/ End(p, "done")
        BY <3>4, <4>1 DEF Choose
      <4> QED BY <1>3, <2>1, <4>2 DEF End, Goto
    <3> QED BY <3>1, <3>2, <3>3, <3>4 DEF Step
  <2>3. pc[p] \in AtSource
    BY <2>2 DEF Lock, Hash, OpenCopy, At, AtSource
  <2>4. CurrentSource(p).place \in Place /\ at[p] \in State
    BY <2>3, SourceType, BusyType DEF AtSource
  <2>5. CASE Lock(p)
    <3> DEFINE d == CurrentSource(p).place
    <3>1. CurrentSource(p)' = CurrentSource(p) /\ at' = at
      BY <2>5 DEF Lock, procVars, CurrentSource
    <3>2. lock' = [lock EXCEPT ![d] = [lock[d] EXCEPT ![at[p]] = p]]
      BY <1>3, <2>5, <3>1 DEF Lock, Acquire
    <3>3. lock \in [Place -> [State -> Process \union {Nobody, NoLock}]]
      BY DEF TypeInv, TypeOK
    <3> QED BY <2>4, <3>1, <3>2, <3>3
  <2>6. CASE Hash(p)
    <3>1. CurrentSource(p)' = CurrentSource(p) /\ at' = at
      BY <2>6 DEF Hash, procVars, CurrentSource
    <3>2. lock' = lock /\ pc[p] = "hash"
      BY <1>3, <2>1, <2>6 DEF Hash, At, Goto
    <3> QED BY <1>3, <3>1, <3>2 DEF Holding
  <2>7. CASE OpenCopy(p)
    <3>1. lock' = lock /\ pc[p] = "open" /\ UNCHANGED <<op, pos, at>>
      BY <1>3, <2>1, <2>7 DEF OpenCopy, At, Goto, End
    <3>2. CurrentSource(p)' = CurrentSource(p) /\ at' = at
      BY <3>1 DEF CurrentSource
    <3> QED BY <1>3, <3>1, <3>2 DEF Holding
  <2> QED BY <2>2, <2>5, <2>6, <2>7
<1> QED BY <1>2, <1>3 DEF Holding

\* A step that writes nothing tears nothing.
LEMMA QuietStep ==
  ASSUME TornInv, NEW p \in Process, Others(p), Locks(p), kills' = kills, copy' = copy,
         pc[p] \notin {"copy", "write"}, pc'[p] \notin {"copy", "write"},
         \A d \in Place, s \in State : file'[d][s] = Torn => file[d][s] = Torn
  PROVE  Copies' /\ NothingTorn'
<1> SUFFICES ASSUME Isolated, kills = 0
             PROVE  /\ \A q \in Process : pc'[q] \in {"copy", "write"} => copy'[q] # Torn
                    /\ \A d \in Place, s \in State : file'[d][s] = Torn =>
                         \E q \in Process : Writes(q, d, s)' /\ (d # Cache[q] => lock'[d][s] = q)
  BY DEF Copies, NothingTorn, Isolated
<1>1. ASSUME NEW q \in Process, pc'[q] \in {"copy", "write"} PROVE copy'[q] # Torn
  <2>1. pc'[q] = pc[q]
    BY <1>1 DEF Others
  <2> QED BY <1>1, <2>1 DEF TornInv, Copies
<1>2. ASSUME NEW d \in Place, NEW s \in State, file'[d][s] = Torn
      PROVE  \E q \in Process : Writes(q, d, s)' /\ (d # Cache[q] => lock'[d][s] = q)
  <2>1. PICK q \in Process : Writes(q, d, s) /\ (d # Cache[q] => lock[d][s] = q)
    BY <1>2 DEF TornInv, NothingTorn
  <2>2. q # p
    BY <2>1, ReadersAndWritersUse
  <2>3. Writes(q, d, s)'
    BY <2>1, <2>2, WritesOn DEF Others
  <2> QED BY <2>1, <2>2, <2>3 DEF Locks
<1> QED BY <1>1, <1>2

\* Opening a file: its writer is there, and nobody was reading it.
LEMMA OpenStep ==
  ASSUME TornInv, NEW p \in Process, Others(p), Locks(p), kills' = kills,
         NEW d \in Place, NEW s \in State, NEW content, NEW inPlace,
         Open(p, d, s, content, inPlace),
         content # Torn \/ ~Isolated \/ kills # 0,
         pc[p] \in {"open", "own"}, Uses(p, d), at[p] = s,
         Writes(p, d, s)',
         d # Cache[p] /\ Isolated => lock'[d][s] = p
  PROVE  Copies' /\ NothingTorn'
<1> SUFFICES ASSUME Isolated, kills = 0
             PROVE  /\ \A q \in Process : pc'[q] \in {"copy", "write"} => copy'[q] # Torn
                    /\ \A d1 \in Place, s1 \in State : file'[d1][s1] = Torn =>
                         \E q \in Process :
                           Writes(q, d1, s1)' /\ (d1 # Cache[q] => lock'[d1][s1] = q)
  BY DEF Copies, NothingTorn, Isolated
<1>1. ASSUME NEW q \in Process, pc'[q] \in {"copy", "write"} PROVE copy'[q] # Torn
  <2>1. CASE q = p
    BY <2>1 DEF Open
  <2>2. CASE q # p
    <3>1. ~Reads(q, d, s)
      BY <2>2, ReadersAndWritersUse, OneUser DEF TornInv
    <3>2. copy'[q] = copy[q]
      BY <2>2, <3>1 DEF Open
    <3>3. pc'[q] = pc[q]
      BY <2>2 DEF Others
    <3> QED BY <1>1, <3>2, <3>3 DEF TornInv, Copies
  <2> QED BY <2>1, <2>2
<1>2. ASSUME NEW d1 \in Place, NEW s1 \in State, file'[d1][s1] = Torn
      PROVE  \E q \in Process : Writes(q, d1, s1)' /\ (d1 # Cache[q] => lock'[d1][s1] = q)
  <2>1. CASE d1 = d /\ s1 = s
    BY <2>1
  <2>2. CASE ~(d1 = d /\ s1 = s)
    <3>1. file' = [file EXCEPT ![d] = [file[d] EXCEPT ![s] = Torn]]
      BY DEF Open
    <3>2. file[d1][s1] = Torn
      BY <1>2, <2>2, <3>1 DEF TornInv, TypeInv, TypeOK
    <3>3. PICK q \in Process : Writes(q, d1, s1) /\ (d1 # Cache[q] => lock[d1][s1] = q)
      BY <3>2 DEF TornInv, NothingTorn
    <3>4. q # p
      BY <3>3, ReadersAndWritersUse
    <3>5. Writes(q, d1, s1)'
      BY <3>3, <3>4, WritesOn DEF Others
    <3> QED BY <3>3, <3>4, <3>5 DEF Locks
  <2> QED BY <2>1, <2>2
<1> QED BY <1>1, <1>2

\* Closing a file: nobody else was writing it.
LEMMA CloseStep ==
  ASSUME TornInv, NEW p \in Process, Others(p), Locks(p), kills' = kills,
         NEW d \in Place, NEW s \in State, Close(p, d, s),
         Writes(p, d, s), pc'[p] \notin {"copy", "write"}
  PROVE  Copies' /\ NothingTorn'
<1> SUFFICES ASSUME Isolated, kills = 0
             PROVE  /\ \A q \in Process : pc'[q] \in {"copy", "write"} => copy'[q] # Torn
                    /\ \A d1 \in Place, s1 \in State : file'[d1][s1] = Torn =>
                         \E q \in Process :
                           Writes(q, d1, s1)' /\ (d1 # Cache[q] => lock'[d1][s1] = q)
  BY DEF Copies, NothingTorn, Isolated
<1>1. \A q \in Process \ {p} : ~Writes(q, d, s)
  BY ReadersAndWritersUse, OneUser DEF TornInv
<1>2. \A q \in Process \ {p} : copy'[q] = copy[q]
  BY <1>1 DEF Close
<1>3. ASSUME NEW q \in Process, pc'[q] \in {"copy", "write"} PROVE copy'[q] # Torn
  <2>1. q # p /\ pc'[q] = pc[q]
    BY <1>3 DEF Others
  <2> QED BY <1>2, <1>3, <2>1 DEF TornInv, Copies
<1>4. copy[p] # Torn /\ Absent # Torn
  BY ReadersAndWritersUse, FilesAssumption DEF TornInv, Copies
<1>5. PICK new \in {Absent, copy[p]} : file' = [file EXCEPT ![d] = [file[d] EXCEPT ![s] = new]]
  BY <1>1 DEF Close
<1>6. ASSUME NEW d1 \in Place, NEW s1 \in State, file'[d1][s1] = Torn
      PROVE  \E q \in Process : Writes(q, d1, s1)' /\ (d1 # Cache[q] => lock'[d1][s1] = q)
  <2>1. ~(d1 = d /\ s1 = s) /\ file[d1][s1] = Torn
    BY <1>4, <1>5, <1>6 DEF TornInv, TypeInv, TypeOK
  <2>2. PICK q \in Process : Writes(q, d1, s1) /\ (d1 # Cache[q] => lock[d1][s1] = q)
    BY <2>1 DEF TornInv, NothingTorn
  <2>3. q # p
    BY <2>1, <2>2 DEF Writes, At
  <2>4. Writes(q, d1, s1)'
    BY <2>2, <2>3, WritesOn DEF Others
  <2> QED BY <2>2, <2>3, <2>4 DEF Locks
<1> QED BY <1>3, <1>6

\* What a process is about to copy is not torn.
LEMMA OriginWhole ==
  ASSUME TornInv, Isolated, kills = 0, NEW p \in Process, pc[p] = "open"
  PROVE  file[Origin(p)][at[p]] # Torn
<1> SUFFICES ASSUME file[Origin(p)][at[p]] = Torn PROVE FALSE
  OBVIOUS
<1>1. Origin(p) \in Place /\ at[p] \in State
  BY SourceType, BusyType DEF TornInv, AtSource
<1>2. PICK q \in Process : Writes(q, Origin(p), at[p])
  BY <1>1 DEF TornInv, NothingTorn
<1>3. Uses(p, Origin(p))
  BY DEF Uses, Origin
<1>4. p = q
  BY <1>2, <1>3, ReadersAndWritersUse, OneUser DEF TornInv
<1> QED BY <1>2, <1>4, ReadersAndWritersUse

\* The steps that open no file, or fail to.
LEMMA QuietNext ==
  ASSUME TornInv, NEW p \in Process, Others(p), Locks(p), kills' = kills, copy' = copy,
         \/ Begin(p) \/ Check(p) \/ Choose(p) \/ Look(p) \/ LockTimeout(p)
         \/ Compare(p) \/ Lock(p) \/ Hash(p) \/ Depend(p)
         \/ Restore(p) \/ SetOthers(p) \/ UnsetOwn(p) \/ Delete(p)
         \/ (OpenCopy(p) \/ SetOwn(p)) /\ End(p, "failed") /\ file' = file
  PROVE  Copies' /\ NothingTorn'
<1>1. pc \in [Process -> {"idle", "check", "choose", "look", "compare", "lock", "hash", "open",
                          "copy", "depend", "restore", "own", "write", "delete"}]
  BY DEF TornInv, TypeInv, TypeOK
<1>2. pc[p] \notin {"copy", "write"}
  BY DEF Begin, Check, Choose, Look, LockTimeout, Compare, Lock, Hash, Depend, Restore, SetOthers,
         UnsetOwn, Delete, OpenCopy, SetOwn, At
<1>3. pc'[p] \notin {"copy", "write"}
  <2>1. CASE Choose(p)
    <3>1. op[p].kind \in {"get", "set", "unset"}
      BY <2>1, BusyType DEF TornInv, Choose, At, Operation
    <3>2. \/ Goto(p, "restore") \/ Goto(p, "look") \/ Goto(p, "lock") \/ Goto(p, "delete")
          \/ End(p, "done")
      BY <2>1, <3>1 DEF Choose
    <3> QED BY <1>1, <3>2 DEF End, Goto
  <2>2. CASE \/ Begin(p) \/ Check(p) \/ Look(p) \/ LockTimeout(p) \/ Compare(p) \/ Lock(p)
             \/ Hash(p) \/ Depend(p)
    BY <1>1, <2>2
       DEF Begin, Check, Look, LockTimeout, Compare, Follow, Lock, Hash, Depend, End, Goto
  <2>3. CASE Restore(p) \/ SetOthers(p) \/ UnsetOwn(p) \/ Delete(p) \/ End(p, "failed")
    BY <1>1, <2>3 DEF Restore, SetOthers, UnsetOwn, Delete, End, Goto
  <2> QED BY <2>1, <2>2, <2>3
<1>4. \A d \in Place, s \in State : file'[d][s] = Torn => file[d][s] = Torn
  <2>1. CASE file' = file
    BY <2>1
  <2>2. ASSUME NEW d \in Place, NEW s \in State, file' = [file EXCEPT ![d][s] = Absent]
        PROVE  \A d1 \in Place, s1 \in State : file'[d1][s1] = Torn => file[d1][s1] = Torn
    <3>1. file' = [file EXCEPT ![d] = [file[d] EXCEPT ![s] = Absent]] /\ Absent # Torn
      BY <2>2, FilesAssumption
    <3>2. file \in [Place -> [State -> Content]]
      BY DEF TornInv, TypeInv, TypeOK
    <3> QED BY <3>1, <3>2
  <2>3. CASE UnsetOwn(p)
    <3>1. Cache[p] \in Place /\ op[p].state \in State
      BY <2>3, BusyType, PlacesAssumption DEF TornInv, UnsetOwn, At, Operation
    <3> QED BY <2>1, <2>2, <2>3, <3>1 DEF UnsetOwn
  <2>4. CASE Delete(p)
    <3>1. CurrentSource(p).place \in Place /\ at[p] \in State
      BY <2>4, BusyType, SourceType DEF TornInv, Delete, At, AtSource
    <3> QED BY <2>1, <2>2, <2>4, <3>1 DEF Delete
  <2> QED BY <2>1, <2>3, <2>4 DEF Begin, Check, Choose, Look, LockTimeout, Compare, Lock, Hash,
                                  Depend, Restore, SetOthers
<1> QED BY <1>2, <1>3, <1>4, QuietStep

\* Each action keeps the invariant.
LEMMA TornNext == TornInv /\ [Next]_vars => TornInv'
<1> SUFFICES ASSUME TornInv, [Next]_vars PROVE TornInv'
  OBVIOUS
<1>0. TypeInv /\ TypeInv'
  BY TypeNext DEF TornInv
<1>1. CASE UNCHANGED vars
  <2>1. Holding'
    BY <1>1 DEF TornInv, Holding, CurrentSource, vars, procVars
  <2>2. Copies'
    BY <1>1 DEF TornInv, Copies, Isolated, vars, procVars
  <2>3. NothingTorn'
    BY <1>1 DEF TornInv, NothingTorn, Isolated, Writes, Target, CurrentSource, At, vars, procVars
  <2> QED BY <1>0, <2>1, <2>2, <2>3 DEF TornInv
<1>2. ASSUME NEW p \in Process, Begin(p) \/ Step(p) \/ Kill(p) PROVE TornInv'
  <2>1. Others(p) /\ Locks(p) /\ Holding'
    BY <1>0, <1>2, Frame, HoldingNext DEF TornInv
  <2>2. pc \in [Process -> {"idle", "check", "choose", "look", "compare", "lock", "hash", "open",
                            "copy", "depend", "restore", "own", "write", "delete"}]
    BY <1>0 DEF TypeInv, TypeOK
  <2>3. CASE Kill(p)
    <3>1. kills' # 0
      BY <1>0, <2>3, PlacesAssumption DEF Kill, TypeInv, TypeOK
    <3> QED BY <1>0, <2>1, <3>1 DEF TornInv, Copies, NothingTorn
  <2>4. CASE \/ Begin(p) \/ Check(p) \/ Choose(p) \/ Look(p) \/ LockTimeout(p)
             \/ Compare(p) \/ Lock(p) \/ Hash(p) \/ Depend(p)
             \/ Restore(p) \/ SetOthers(p) \/ UnsetOwn(p) \/ Delete(p)
    <3>1. kills' = kills /\ copy' = copy
      BY <2>4 DEF Begin, Check, Choose, Look, LockTimeout, Compare, Lock, Hash, Depend, Restore,
                  SetOthers, UnsetOwn, Delete
    <3> QED BY <1>0, <2>1, <2>4, <3>1, QuietNext DEF TornInv
  <2>5. CASE OpenCopy(p)
    <3>1. pc[p] = "open" /\ UNCHANGED <<pos, at, kills>>
      BY <2>5 DEF OpenCopy, At
    <3>2. CASE End(p, "failed") /\ UNCHANGED <<file, copy>>
      BY <1>0, <2>1, <2>5, <3>1, <3>2, QuietNext DEF TornInv
    <3>3. CASE /\ Open(p, Target(p), at[p], file[Origin(p)][at[p]], TRUE)
               /\ Goto(p, "copy")
               /\ UNCHANGED <<lock, op, last>>
      <4>1. Target(p) \in Place /\ at[p] \in State
        BY <1>0, <3>1, SourceType, BusyType DEF AtSource
      <4>2. file[Origin(p)][at[p]] # Torn \/ ~Isolated \/ kills # 0
        BY <3>1, OriginWhole
      <4>3. Uses(p, Target(p))
        BY <3>1 DEF Uses, Target
      <4>4. Target(p) # Cache[p] /\ Isolated => lock'[Target(p)][at[p]] = p
        BY <1>0, <3>1, <3>3, SourceApart DEF TornInv, Holding, Target, AtSource
      <4>5. Copies' /\ NothingTorn'
        <5>1. PICK d \in Place, s \in State : d = Target(p) /\ s = at[p]
          BY <4>1
        <5>2. Writes(p, d, s)'
          BY <2>2, <3>1, <3>3, <5>1 DEF Writes, Target, CurrentSource, At, Goto
        <5> QED BY <2>1, <3>1, <3>3, <4>2, <4>3, <4>4, <5>1, <5>2, OpenStep
      <4> QED BY <1>0, <2>1, <4>5 DEF TornInv
    <3> QED BY <2>5, <3>2, <3>3 DEF OpenCopy
  <2>6. CASE CloseCopy(p)
    <3>1. /\ pc[p] = "copy" /\ Close(p, Target(p), at[p]) /\ Goto(p, "depend") /\ kills' = kills
      BY <2>6 DEF CloseCopy, At
    <3>2. Target(p) \in Place /\ at[p] \in State
      BY <1>0, <3>1, SourceType, BusyType DEF AtSource
    <3>3. Writes(p, Target(p), at[p]) /\ pc'[p] \notin {"copy", "write"}
      BY <2>2, <3>1 DEF Writes, At, Goto
    <3>4. Copies' /\ NothingTorn'
      BY <2>1, <3>1, <3>2, <3>3, CloseStep
    <3> QED BY <1>0, <2>1, <3>4 DEF TornInv
  <2>7. CASE CloseSet(p)
    <3>1. /\ pc[p] = "write" /\ Close(p, Cache[p], at[p]) /\ Goto(p, "choose") /\ kills' = kills
      BY <2>7 DEF CloseSet, At
    <3>2. Cache[p] \in Place /\ at[p] \in State
      BY <1>0, <3>1, BusyType, PlacesAssumption
    <3>3. Writes(p, Cache[p], at[p]) /\ pc'[p] \notin {"copy", "write"}
      BY <2>2, <3>1 DEF Writes, At, Goto
    <3>4. Copies' /\ NothingTorn'
      BY <2>1, <3>1, <3>2, <3>3, CloseStep
    <3> QED BY <1>0, <2>1, <3>4 DEF TornInv
  <2>8. CASE SetOwn(p)
    <3> DEFINE s == op[p].state
               base == IF working[p] = s THEN file[Cache[p]][s] ELSE Below(p, s)
               below == IF working[p] = s THEN Tail(base) ELSE base
               content == <<made + 1>> \o below
    <3>1. pc[p] = "own" /\ op[p].kind = "set" /\ UNCHANGED <<lock, at, kills>>
      BY <2>8 DEF SetOwn, At
    <3>2. CASE End(p, "failed") /\ UNCHANGED <<file, copy>>
      BY <1>0, <2>1, <2>8, <3>1, <3>2, QuietNext DEF TornInv
    <3>3. CASE /\ base \notin {Absent, Torn}
               /\ Open(p, Cache[p], s, content, working[p] = s)
               /\ Goto(p, "write")
      <4>1. Cache[p] \in Place /\ s \in State /\ at[p] = s
        BY <1>0, <3>1, BusyType, PlacesAssumption DEF TypeInv, Shape, Operation
      <4>2. content # Torn
        BY <1>0, <3>3, <4>1, VersionType
      <4>3. Uses(p, Cache[p])
        BY <3>1 DEF Uses
      <4>4. PICK t \in State : t = s
        BY <4>1
      <4>5. Writes(p, Cache[p], t)'
        BY <2>2, <3>1, <3>3, <4>1, <4>4 DEF Writes, At, Goto
      <4> HIDE DEF s, base, below, content
      <4>6. Copies' /\ NothingTorn'
        BY <2>1, <3>1, <3>3, <4>1, <4>2, <4>3, <4>4, <4>5, OpenStep
      <4> QED BY <1>0, <2>1, <4>6 DEF TornInv
    <3> QED BY <2>8, <3>2, <3>3 DEF SetOwn
  <2> QED BY <1>2, <2>3, <2>4, <2>5, <2>6, <2>7, <2>8 DEF Step
<1> QED BY <1>1, <1>2 DEF Next

\* Nothing is torn at first.
LEMMA TornInit == Init => TornInv
<1> SUFFICES ASSUME Init PROVE TornInv
  OBVIOUS
<1>1. TypeInv
  BY TypeInit
<1>2. Holding /\ Copies
  BY DEF Init, Holding, Copies
<1>3. NothingTorn
  BY FilesAssumption DEF Init, NothingTorn
<1> QED BY <1>1, <1>2, <1>3 DEF TornInv

\* image_lock: with isolated pools and no killed process, a file is torn only
\* while it is written, in a shared pool under its lock.  No interleaving of
\* downloads, uploads, sets, unsets and lock timeouts leaves a torn file behind
\* or lets a transfer read one.
THEOREM NothingTornAtRest == Spec => []NothingTorn
<1>1. Init => TornInv
  BY TornInit
<1>2. TornInv /\ [Next]_vars => TornInv'
  BY TornNext
<1>3. TornInv => NothingTorn
  BY DEF TornInv
<1> QED BY <1>1, <1>2, <1>3, PTL DEF Spec

-----------------------------------------------------------------------------
(* What operations do: their plan, their places and the files they write.   *)

\* The unset that follows the get of a pop.
Unsetting(o) == [o EXCEPT !.kind = "unset", !.mode = o.after, !.after = <<>>]

\* A process executes an operation of its plan, or the unset of a pop.
PlanInv ==
  \A p \in Process : op[p] # NoOp =>
    \E o \in Plan[p] : op[p] = o \/ (o.after # <<>> /\ op[p] = Unsetting(o))

\* Where the kinds of operations can be.
StageInv ==
  \A p \in Process :
    /\ pc[p] \in AtSource => pos[p] \in Permitted(p)
    /\ pc[p] \in {"own", "write"} => pos[p] = 0 /\ op[p].kind # "get"
    /\ pc[p] \in {"look", "compare", "restore"} => op[p].kind = "get"
    /\ pc[p] = "delete" => op[p].kind = "unset"
    /\ pc[p] \in {"lock", "hash", "open", "copy", "depend"} => op[p].kind \in {"get", "set"}

\* Where the step of p goes.
Moves(p) ==
  \/ pc'[p] = "check"
  \/ pc'[p] = "idle" /\ (last'[p] = "done" =>
       /\ pos' = pos
       /\ \/ pc[p] = "choose" /\ (op[p].kind # "get" => Left(p) = {})
          \/ pc[p] = "restore")
  \/ /\ op' = op /\ pos'[p] = 0
     /\ \/ pc[p] = "check" /\ op[p].kind = "get" /\ pc'[p] = "choose"
        \/ pc[p] = "check" /\ op[p].kind # "get" /\ pc'[p] = "own"
  \/ /\ op' = op /\ pc[p] = "choose" /\ at'[p] = op[p].state
     /\ \/ op[p].kind = "get" /\ pc'[p] = "restore"
        \/ /\ pos'[p] \in Left(p) /\ \A j \in Left(p) \ {pos'[p]} : Nearer(p, pos'[p], j)
           /\ \/ op[p].kind = "get" /\ pc'[p] = "look"
              \/ op[p].kind = "set" /\ pc'[p] = "lock"
              \/ op[p].kind = "unset" /\ pc'[p] = "delete"
  \/ /\ op' = op /\ pos' = pos
     /\ \/ pc[p] = "look" /\ pc'[p] \in {"choose", "compare", "lock"}
        \/ pc[p] = "compare" /\ pc'[p] \in {"choose", "compare", "lock"}
        \/ pc[p] = "lock" /\ pc'[p] = "hash"
        \/ pc[p] = "hash" /\ pc'[p] \in {"depend", "open"}
        \/ pc[p] = "open" /\ pc'[p] = "copy"
        \/ pc[p] = "copy" /\ pc'[p] = "depend"
        \/ pc[p] = "depend" /\ pc'[p] \in {"choose", "lock"}
        \/ pc[p] = "own" /\ op[p].kind = "set" /\ pc'[p] = "write"
        \/ pc[p] \in {"own", "write", "delete"} /\ pc'[p] = "choose"

\* Where an operation goes that ends.
LEMMA EndMoves ==
  ASSUME TypeInv, NEW p \in Process,
         NEW outcome \in {"done", "kept", "ignored", "aborted", "failed"}, End(p, outcome)
  PROVE  pc'[p] = "check" \/ (pc'[p] = "idle" /\ last'[p] = outcome)
BY DEF End, Goto, TypeInv, TypeOK

\* Every step goes one of these ways.
LEMMA MovesNext ==
  ASSUME TypeInv, NEW p \in Process, Begin(p) \/ Step(p) \/ Kill(p)
  PROVE  Moves(p)
<1>0. /\ pc \in [Process -> {"idle", "check", "choose", "look", "compare", "lock", "hash", "open",
                             "copy", "depend", "restore", "own", "write", "delete"}]
      /\ last \in [Process -> {"none", "done", "kept", "ignored", "aborted", "failed", "killed"}]
      /\ pos \in [Process -> Nat]
      /\ at \in [Process -> State \union {NoState}]
  BY DEF TypeInv, TypeOK
<1>1. CASE Begin(p) \/ Kill(p)
  BY <1>0, <1>1 DEF Begin, Kill, Goto, Moves
<1>2. CASE Check(p)
  <2>1. \A exists : Outcome(op[p], exists) \in {"kept", "ignored", "aborted", "failed", "go"}
    BY DEF Outcome
  <2>2. CASE \E outcome \in {"kept", "ignored", "aborted", "failed"} : End(p, outcome)
    BY <2>2, EndMoves DEF Moves
  <2>3. CASE Goto(p, IF op[p].kind = "get" THEN "choose" ELSE "own") /\ UNCHANGED <<op, last>>
    BY <1>0, <1>2, <2>3 DEF Check, At, Goto, Moves
  <2> QED BY <1>2, <2>1, <2>2, <2>3 DEF Check
<1>3. CASE Choose(p)
  <2>1. pc[p] = "choose" /\ at'[p] = op[p].state
    BY <1>0, <1>3 DEF Choose, At
  <2>2. op[p].kind \in {"get", "set", "unset"}
    BY <2>1, BusyType DEF Operation
  <2>3. CASE /\ Left(p) = {} \/ (op[p].kind = "get" /\ pos[p] > 0)
             /\ pos' = pos
             /\ End(p, "done")
    BY <2>1, <2>3, EndMoves DEF Moves
  <2>4. CASE op[p].kind = "get" /\ Goto(p, "restore") /\ UNCHANGED <<op, last>>
    BY <1>0, <2>1, <2>4 DEF Goto, Moves
  <2>5. CASE /\ \E i \in Left(p) :
                  /\ \A j \in Left(p) \ {i} : Nearer(p, i, j)
                  /\ pos' = [pos EXCEPT ![p] = i]
             /\ Goto(p, CASE op[p].kind = "get" -> "look" [] op[p].kind = "set" -> "lock"
                          [] op[p].kind = "unset" -> "delete")
             /\ UNCHANGED <<op, last>>
    <3>1. pos'[p] \in Left(p) /\ \A j \in Left(p) \ {pos'[p]} : Nearer(p, pos'[p], j)
      BY <1>0, <2>5
    <3>2. \/ op[p].kind = "get" /\ pc'[p] = "look"
          \/ op[p].kind = "set" /\ pc'[p] = "lock"
          \/ op[p].kind = "unset" /\ pc'[p] = "delete"
      BY <1>0, <2>2, <2>5 DEF Goto
    <3> QED BY <2>1, <2>5, <3>1, <3>2 DEF Moves
  <2> QED BY <1>3, <2>3, <2>4, <2>5 DEF Choose
<1>4. CASE Look(p) \/ Lock(p) \/ Hash(p) \/ CloseCopy(p) \/ CloseSet(p)
  BY <1>0, <1>4 DEF Look, Lock, Hash, CloseCopy, CloseSet, At, Goto, procVars, Moves
<1>5. CASE LockTimeout(p)
  BY <1>5, EndMoves DEF LockTimeout, Moves
<1>6. CASE Compare(p)
  <2>1. pc[p] = "compare" /\ pos' = pos
    BY <1>6 DEF Compare, At
  <2>2. CASE End(p, "failed")
    BY <2>2, EndMoves DEF Moves
  <2>3. CASE op' = op /\ \E l \in {"choose", "compare", "lock"} : Goto(p, l)
    BY <1>0, <2>1, <2>3 DEF Goto, Moves
  <2> QED BY <1>6, <2>2, <2>3 DEF Compare, Follow
<1>7. CASE Depend(p)
  <2>1. pc[p] = "depend" /\ pos' = pos
    BY <1>7 DEF Depend, At
  <2>2. CASE End(p, "failed")
    BY <2>2, EndMoves DEF Moves
  <2>3. CASE op' = op /\ \E l \in {"choose", "lock"} : Goto(p, l)
    BY <1>0, <2>1, <2>3 DEF Goto, Moves
  <2> QED BY <1>7, <2>2, <2>3 DEF Depend, Follow
<1>8. CASE OpenCopy(p)
  <2>1. pc[p] = "open" /\ pos' = pos
    BY <1>8 DEF OpenCopy, At
  <2>2. CASE End(p, "failed")
    BY <2>2, EndMoves DEF Moves
  <2>3. CASE op' = op /\ Goto(p, "copy")
    BY <1>0, <2>1, <2>3 DEF Goto, Moves
  <2> QED BY <1>8, <2>2, <2>3 DEF OpenCopy
<1>9. CASE Restore(p)
  <2>1. pc[p] = "restore" /\ pos' = pos
    BY <1>9 DEF Restore, At
  <2>2. CASE End(p, "failed") \/ End(p, "done")
    BY <2>1, <2>2, EndMoves DEF Moves
  <2> QED BY <1>9, <2>2 DEF Restore
<1>10. CASE SetOwn(p) \/ SetOthers(p) \/ UnsetOwn(p)
  <2>1. pc[p] = "own" /\ pos' = pos
    BY <1>10 DEF SetOwn, SetOthers, UnsetOwn, At
  <2>2. CASE End(p, "failed")
    BY <2>2, EndMoves DEF Moves
  <2>3. CASE op' = op /\ op[p].kind = "set" /\ Goto(p, "write")
    BY <1>0, <2>1, <2>3 DEF Goto, Moves
  <2>4. CASE op' = op /\ Goto(p, "choose")
    BY <1>0, <2>1, <2>4 DEF Goto, Moves
  <2> QED BY <1>10, <2>2, <2>3, <2>4 DEF SetOwn, SetOthers, UnsetOwn
<1>11. CASE Delete(p)
  <2>1. pc[p] = "delete" /\ pos' = pos
    BY <1>11 DEF Delete, At
  <2>2. CASE End(p, "failed")
    BY <2>2, EndMoves DEF Moves
  <2>3. CASE op' = op /\ Goto(p, "choose")
    BY <1>0, <2>1, <2>3 DEF Goto, Moves
  <2> QED BY <1>11, <2>2, <2>3 DEF Delete
<1> QED BY <1>1, <1>2, <1>3, <1>4, <1>5, <1>6, <1>7, <1>8, <1>9, <1>10, <1>11 DEF Step

\* A step of p changes no operation but its own, and that one only to begin
\* another one or to go on with the unset of a pop.
LEMMA OpMoves ==
  ASSUME TypeInv, NEW p \in Process, Begin(p) \/ Step(p) \/ Kill(p)
  PROVE  \/ op' = op
         \/ pc'[p] = "check" /\ op'[p] \in Plan[p]
         \/ pc'[p] = "check" /\ op[p].after # <<>> /\ op'[p] = Unsetting(op[p])
<1>0. /\ pc \in [Process -> {"idle", "check", "choose", "look", "compare", "lock", "hash", "open",
                             "copy", "depend", "restore", "own", "write", "delete"}]
      /\ op \in [Process -> Operation \union {NoOp}]
  BY DEF TypeInv, TypeOK
<1>1. op' = op \/ Begin(p) \/ \E outcome : End(p, outcome)
  BY DEF Step, Kill, Check, Choose, Look, Compare, Follow, Lock, Hash, OpenCopy, CloseCopy,
         Depend, Restore, SetOwn, SetOthers, CloseSet, UnsetOwn, Delete, LockTimeout, procVars
<1>2. CASE Begin(p)
  BY <1>0, <1>2 DEF Begin, Goto
<1>3. CASE \E outcome : End(p, outcome)
  <2>1. \/ op' = op
        \/ /\ op[p].after # <<>>
           /\ op' = [op EXCEPT ![p] = Unsetting(op[p])]
           /\ Goto(p, "check")
    BY <1>3 DEF End, Unsetting
  <2> QED BY <1>0, <2>1 DEF Goto
<1> QED BY <1>1, <1>2, <1>3

\* Nothing is executed that is not planned.
LEMMA PlanNext ==
  ASSUME TypeInv, PlanInv, [Next]_vars
  PROVE  PlanInv'
<1>1. CASE UNCHANGED vars
  BY <1>1 DEF vars, procVars, PlanInv
<1>2. ASSUME NEW p \in Process, Begin(p) \/ Step(p) \/ Kill(p) PROVE PlanInv'
  <2> SUFFICES ASSUME NEW q \in Process, op'[q] # NoOp
               PROVE  \E o \in Plan[q] : op'[q] = o \/ (o.after # <<>> /\ op'[q] = Unsetting(o))
    BY DEF PlanInv
  <2>1. CASE op'[q] = op[q]
    BY <2>1 DEF PlanInv
  <2>2. CASE q = p /\ op'[p] \in Plan[p]
    BY <2>2
  <2>3. CASE q = p /\ op[p].after # <<>> /\ op'[p] = Unsetting(op[p])
    <3>1. op[p] # NoOp
      BY <2>3 DEF NoOp
    <3>2. PICK o \in Plan[p] : op[p] = o \/ (o.after # <<>> /\ op[p] = Unsetting(o))
      BY <3>1 DEF PlanInv
    <3>3. o \in Operation
      BY PlacesAssumption
    <3>4. Unsetting(o).after = <<>>
      BY <3>3 DEF Unsetting, Operation
    <3> QED BY <2>3, <3>2, <3>4
  <2>4. Others(p)
    BY <1>2, Frame
  <2> QED BY <1>2, <2>1, <2>2, <2>3, <2>4, OpMoves DEF Others
<1> QED BY <1>1, <1>2 DEF Next

\* The sources of an operation, their order and what is left of them do not
\* depend on any other state.
LEMMA SamePermitted ==
  ASSUME NEW p, op'[p] = op[p]
  PROVE  Permitted(p)' = Permitted(p)
BY DEF Permitted, GetSourceScope, SameGateway, SameHost, SamePath

\* The order of the sources.
LEMMA SameNearer ==
  ASSUME NEW p, NEW i, NEW j, op'[p] = op[p]
  PROVE  Nearer(p, i, j)' <=> Nearer(p, i, j)
BY DEF Nearer, Proximity, SameGateway, SameHost, SamePath

\* What is left of the sources.
LEMMA SameLeft ==
  ASSUME NEW p, op'[p] = op[p], pos'[p] = pos[p]
  PROVE  Left(p)' = Left(p)
BY SamePermitted, SameNearer DEF Left

\* At first there is no operation.
LEMMA StageInit == Init => PlanInv /\ StageInv
<1> SUFFICES ASSUME Init PROVE PlanInv /\ StageInv
  OBVIOUS
<1>1. \A p \in Process : op[p] = NoOp /\ pc[p] = "idle"
  BY DEF Init
<1>2. PlanInv
  BY <1>1 DEF PlanInv
<1>3. StageInv
  BY <1>1 DEF StageInv, AtSource
<1> QED BY <1>2, <1>3

\* No operation gets to a place of another kind.
LEMMA StageNext ==
  ASSUME TypeInv, StageInv, [Next]_vars
  PROVE  StageInv'
<1> DEFINE stage(q) ==
             /\ pc[q] \in AtSource => pos[q] \in Permitted(q)
             /\ pc[q] \in {"own", "write"} => pos[q] = 0 /\ op[q].kind # "get"
             /\ pc[q] \in {"look", "compare", "restore"} => op[q].kind = "get"
             /\ pc[q] = "delete" => op[q].kind = "unset"
             /\ pc[q] \in {"lock", "hash", "open", "copy", "depend"}
                  => op[q].kind \in {"get", "set"}
<1>1. ASSUME NEW q \in Process, pc'[q] = pc[q], op'[q] = op[q], pos'[q] = pos[q]
      PROVE  stage(q)'
  BY <1>1, SamePermitted DEF StageInv
<1>2. CASE UNCHANGED vars
  BY <1>1, <1>2 DEF vars, procVars, StageInv
<1>3. ASSUME NEW p \in Process, Begin(p) \/ Step(p) \/ Kill(p) PROVE StageInv'
  <2>1. Others(p) /\ Moves(p)
    BY <1>3, Frame, MovesNext
  <2>2. stage(p)'
    <3>1. CASE pc'[p] \in {"check", "idle"}
      BY <3>1 DEF AtSource
    <3>2. CASE op' = op
      <4>1. Permitted(p)' = Permitted(p) /\ op'[p] = op[p]
        BY <3>2, SamePermitted
      <4>2. Left(p) \subseteq Permitted(p)
        BY DEF Left
      <4>3. stage(p)
        BY DEF StageInv
      <4> QED BY <2>1, <3>1, <4>1, <4>2, <4>3 DEF Moves, AtSource
    <3> QED BY <2>1, <3>1, <3>2 DEF Moves
  <2>3. \A q \in Process \ {p} : stage(q)'
    BY <1>1, <2>1 DEF Others
  <2> QED BY <2>2, <2>3 DEF StageInv
<1> QED BY <1>2, <1>3 DEF Next

\* What an operation that is not a get reaches is a place p uploads to.
LEMMA UploadPlace ==
  ASSUME TypeInv, PlanInv, NEW p \in Process, op[p] # NoOp, op[p].kind # "get",
         NEW i \in Permitted(p)
  PROVE  op[p].location[i].place \in Uploads(p)
<1>1. PICK o \in Plan[p] : op[p] = o \/ (o.after # <<>> /\ op[p] = Unsetting(o))
  BY DEF PlanInv
<1>2. o \in Operation
  BY PlacesAssumption
<1>3. op[p].location = o.location /\ op[p].scopes = o.scopes
  BY <1>1, <1>2 DEF Unsetting, Operation
<1>4. o.kind # "get" \/ o.after # <<>>
  BY <1>1
<1>5. /\ i \in DOMAIN o.location
      /\ GetSourceScope(p, o.location[i]) \in o.scopes \ {"own"}
  BY <1>3 DEF Permitted
<1>6. o.location[i].place \in Place
  <2>1. o.location \in Seq(Source)
    BY <1>2 DEF Operation
  <2>2. o.location[i] \in Source
    BY <1>5, <2>1
  <2> QED BY <2>2 DEF Source
<1> QED BY <1>3, <1>4, <1>5, <1>6 DEF Uploads

\* The pools a process writes to.
Owned(p) == {Cache[p]} \union Uploads(p)

\* Whatever p copies to or deletes from is one of them.
LEMMA TargetOwned ==
  ASSUME TypeInv, PlanInv, StageInv, NEW p \in Process, pc[p] \in AtSource
  PROVE  Target(p) \in Owned(p) /\ (pc[p] = "delete" => CurrentSource(p).place \in Owned(p))
<1>1. pos[p] \in Permitted(p) /\ op[p] # NoOp
  BY BusyType DEF StageInv, AtSource
<1>2. op[p].kind # "get" => CurrentSource(p).place \in Uploads(p)
  BY <1>1, UploadPlace DEF CurrentSource
<1>3. pc[p] = "delete" => op[p].kind # "get"
  BY DEF StageInv
<1> QED BY <1>2, <1>3 DEF Owned, Target

\* A step of p writes one file of these pools, and spoils the copies of those
\* who read or write this file.
LEMMA Writing ==
  ASSUME TypeInv, PlanInv, StageInv, NEW p \in Process, Begin(p) \/ Step(p) \/ Kill(p)
  PROVE  /\ \A d \in Place \ Owned(p), s \in State : file'[d][s] = file[d][s]
         /\ \A q \in Process \ {p} : copy'[q] # copy[q] =>
              \E d \in Owned(p), s \in State : Reads(q, d, s) \/ Writes(q, d, s)
<1>0. file \in [Place -> [State -> Content]] /\ copy \in [Process -> Content]
  BY DEF TypeInv, TypeOK
<1>1. \/ file' = file /\ (copy' = copy \/ copy' = [copy EXCEPT ![p] = Absent])
      \/ OpenCopy(p) \/ CloseCopy(p) \/ SetOwn(p) \/ CloseSet(p) \/ UnsetOwn(p) \/ Delete(p)
  BY DEF Begin, Step, Kill, Check, Choose, Look, Compare, Lock, Hash, Depend, Restore, SetOthers,
         LockTimeout
<1>2. ASSUME NEW d \in Place, NEW s \in State, d \in Owned(p), NEW c,
             file' = [file EXCEPT ![d][s] = c]
      PROVE  \A d1 \in Place \ Owned(p), s1 \in State : file'[d1][s1] = file[d1][s1]
  BY <1>0, <1>2
<1>3. ASSUME NEW d \in Place, NEW s \in State, d \in Owned(p), NEW content, NEW inPlace,
             Open(p, d, s, content, inPlace)
      PROVE  /\ \A d1 \in Place \ Owned(p), s1 \in State : file'[d1][s1] = file[d1][s1]
             /\ \A q \in Process \ {p} : copy'[q] # copy[q] =>
                  \E d1 \in Owned(p), s1 \in State : Reads(q, d1, s1) \/ Writes(q, d1, s1)
  BY <1>2, <1>3 DEF Open
<1>4. ASSUME NEW d \in Place, NEW s \in State, d \in Owned(p), Close(p, d, s)
      PROVE  /\ \A d1 \in Place \ Owned(p), s1 \in State : file'[d1][s1] = file[d1][s1]
             /\ \A q \in Process \ {p} : copy'[q] # copy[q] =>
                  \E d1 \in Owned(p), s1 \in State : Reads(q, d1, s1) \/ Writes(q, d1, s1)
  BY <1>2, <1>4 DEF Close
<1>5. ASSUME pc[p] # "idle"
      PROVE  /\ op[p].state \in State /\ at[p] \in State
             /\ Cache[p] \in Place /\ Cache[p] \in Owned(p)
  BY <1>5, BusyType, PlacesAssumption DEF Operation, Owned
<1>6. CASE file' = file /\ (copy' = copy \/ copy' = [copy EXCEPT ![p] = Absent])
  BY <1>0, <1>6
<1>7. CASE OpenCopy(p)
  <2>1. Target(p) \in Place /\ Target(p) \in Owned(p) /\ at[p] \in State
    BY <1>5, <1>7, SourceType, TargetOwned DEF OpenCopy, At, AtSource
  <2> QED BY <1>3, <1>7, <2>1 DEF OpenCopy
<1>8. CASE CloseCopy(p)
  <2>1. Target(p) \in Place /\ Target(p) \in Owned(p) /\ at[p] \in State
    BY <1>5, <1>8, SourceType, TargetOwned DEF CloseCopy, At, AtSource
  <2> QED BY <1>4, <1>8, <2>1 DEF CloseCopy
<1>9. CASE SetOwn(p)
  BY <1>3, <1>5, <1>9 DEF SetOwn, At
<1>10. CASE CloseSet(p)
  BY <1>4, <1>5, <1>10 DEF CloseSet, At
<1>11. CASE UnsetOwn(p)
  BY <1>2, <1>5, <1>11 DEF UnsetOwn, At
<1>12. CASE Delete(p)
  <2>1. CurrentSource(p).place \in Place /\ CurrentSource(p).place \in Owned(p) /\ at[p] \in State
    BY <1>5, <1>12, SourceType, TargetOwned DEF Delete, At, AtSource
  <2> QED BY <1>2, <1>12, <2>1 DEF Delete
<1> QED BY <1>1, <1>6, <1>7, <1>8, <1>9, <1>10, <1>11, <1>12

\* A state is in its own chain, and under it is the chain of its backing state.
LEMMA ChainSplit ==
  ASSUME NEW s \in State
  PROVE  /\ s \in Chain(s)
         /\ Chain(s) \subseteq State
         /\ Backing[s] = NoState => Chain(s) = {s}
         /\ Backing[s] # NoState => Chain(s) \subseteq {s} \union Chain(Backing[s])
<1>1. s \in Chain(s) /\ Chain(s) \subseteq State
  BY DEF Chain
<1>2. ASSUME Backing[s] = NoState PROVE Chain(s) = {s}
  <2>1. {s} \in SUBSET State
    OBVIOUS
  <2>2. \A u \in {s} : Backing[u] # NoState => Backing[u] \in {s}
    BY <1>2
  <2>3. \A t \in Chain(s) : t \in {s}
    BY <2>1, <2>2 DEF Chain
  <2> QED BY <1>1, <2>3
<1>3. ASSUME Backing[s] # NoState, NEW t \in Chain(s), t # s PROVE t \in Chain(Backing[s])
  <2>1. Backing[s] \in State
    BY <1>3, FilesAssumption
  <2> SUFFICES ASSUME NEW S \in SUBSET State, Backing[s] \in S,
                      \A u \in S : Backing[u] # NoState => Backing[u] \in S
               PROVE  t \in S
    BY <1>1 DEF Chain
  <2>2. \A u \in S \union {s} : Backing[u] # NoState => Backing[u] \in S \union {s}
    OBVIOUS
  <2>3. S \union {s} \in SUBSET State /\ s \in S \union {s}
    OBVIOUS
  <2>4. t \in S \union {s}
    BY <2>2, <2>3 DEF Chain
  <2> QED BY <1>3, <2>4
<1> QED BY <1>1, <1>2, <1>3

-----------------------------------------------------------------------------
(* A set reaches all mirrors.                                             *)

\* The file of t is the same in the i-th mirror and in the own pool.
InSync(p, i, t) == file[op[p].location[i].place][t] = file[Cache[p]][t]

\* So is every file of the chain.
Synced(p, i) == \A t \in Chain(op[p].state) : InSync(p, i, t)

\* How far a set has got: the mirrors it is done with have the chain, the current
\* one has it down to the current file.  A file that is about to be copied is
\* torn where a mirror has the same one; while it is copied the mirror's is torn.
Syncing(p) ==
  /\ pc[p] = "choose" => \A i \in Permitted(p) \ Left(p) : Synced(p, i)
  /\ pc[p] \in {"lock", "hash", "open", "copy", "depend"} =>
       /\ \A i \in Permitted(p) \ Left(p) : i # pos[p] => Synced(p, i)
       /\ \A t \in Chain(op[p].state) \ Chain(at[p]) : InSync(p, pos[p], t)
  /\ pc[p] = "open" => (InSync(p, pos[p], at[p]) => file[Cache[p]][at[p]] = Torn)
  /\ pc[p] = "copy" =>
       /\ file[CurrentSource(p).place][at[p]] = Torn
       /\ copy[p] = file[Cache[p]][at[p]]
  /\ pc[p] = "depend" => InSync(p, pos[p], at[p])
  /\ pc[p] = "idle" /\ last[p] = "done" => \A i \in Permitted(p) : Synced(p, i)

\* The inductive invariant of SetEverywhere, with PlanInv and StageInv.
SyncInv == \A p \in Process : op[p].kind = "set" => Syncing(p)

\* The step of another process leaves alone the files a set works on.
LEMMA SyncOther ==
  ASSUME SoleWriters, TypeInv, PlanInv, StageInv, NEW p \in Process, Begin(p) \/ Step(p) \/ Kill(p),
         last' = last \/ \E l : last' = [last EXCEPT ![p] = l],
         NEW q \in Process \ {p}, op[q].kind = "set", Syncing(q)
  PROVE  Syncing(q)'
<1>1. Others(p)
  BY Frame
<1>2. pc'[q] = pc[q] /\ op'[q] = op[q] /\ pos'[q] = pos[q] /\ at'[q] = at[q] /\ last'[q] = last[q]
  BY <1>1 DEF Others, TypeInv, TypeOK
<1>3. op[q] # NoOp /\ op[q] \in Operation
  BY DEF NoOp, TypeInv, TypeOK
<1>4. ASSUME NEW d \in Owned(q) PROVE d \in Place \ Owned(p)
  <2>1. Cache[q] \in Place /\ Uploads(q) \subseteq Place
    BY PlacesAssumption DEF Uploads
  <2> QED BY <1>4, <2>1 DEF SoleWriters, Owned
<1>5. \A d \in Owned(q), s \in State : file'[d][s] = file[d][s]
  BY <1>4, Writing
<1>6. \A i \in Permitted(q) : op[q].location[i].place \in Owned(q)
  BY <1>3, UploadPlace DEF Owned
<1>7. Cache[q] \in Owned(q)
  BY DEF Owned
<1>8. Permitted(q)' = Permitted(q) /\ Left(q)' = Left(q)
  BY <1>2, SamePermitted, SameLeft
<1>9. ASSUME NEW i \in Permitted(q), NEW t \in State PROVE InSync(q, i, t)' <=> InSync(q, i, t)
  BY <1>2, <1>5, <1>6, <1>7 DEF InSync
<1>10. \A s \in State : Chain(s) \subseteq State
  BY ChainSplit
<1>11. op[q].state \in State /\ Chain(op[q].state) \subseteq State
  BY <1>3, <1>10 DEF Operation
<1>12. ASSUME NEW i \in Permitted(q) PROVE Synced(q, i)' <=> Synced(q, i)
  BY <1>2, <1>9, <1>11 DEF Synced
<1>13. pc[q] \in AtSource => pos[q] \in Permitted(q) /\ at[q] \in State
  BY BusyType DEF StageInv, AtSource
<1>14. ASSUME pc[q] = "copy"
       PROVE  /\ copy'[q] = copy[q]
              /\ file'[CurrentSource(q).place][at[q]] = file[CurrentSource(q).place][at[q]]
              /\ file'[Cache[q]][at[q]] = file[Cache[q]][at[q]]
              /\ CurrentSource(q)' = CurrentSource(q)
  <2>1. pc[q] \in AtSource /\ Target(q) = CurrentSource(q).place /\ Origin(q) = Cache[q]
    BY <1>14 DEF AtSource, Target, Origin
  <2>2. CurrentSource(q).place \in Owned(q)
    BY <1>6, <1>13, <2>1 DEF CurrentSource
  <2>3. \A d, s : Reads(q, d, s) \/ Writes(q, d, s) => d \in Owned(q)
    BY <1>7, <1>14, <2>1, <2>2 DEF Reads, Writes, At
  <2>4. copy'[q] = copy[q]
    BY <1>4, <2>3, Writing
  <2> QED BY <1>2, <1>5, <1>7, <1>13, <2>1, <2>2, <2>4 DEF CurrentSource
<1>15. pc[q] = "choose" => \A i \in Permitted(q) \ Left(q) : Synced(q, i)'
  BY <1>12 DEF Syncing
<1>16. ASSUME pc[q] \in {"lock", "hash", "open", "copy", "depend"}
       PROVE  /\ \A i \in Permitted(q) \ Left(q) : i # pos[q] => Synced(q, i)'
              /\ \A t \in Chain(op[q].state) \ Chain(at[q]) : InSync(q, pos[q], t)'
  <2>1. pos[q] \in Permitted(q)
    BY <1>13, <1>16 DEF AtSource
  <2>2. ASSUME NEW t \in State PROVE InSync(q, pos[q], t)' <=> InSync(q, pos[q], t)
    <3>1. /\ file'[op[q].location[pos[q]].place][t] = file[op[q].location[pos[q]].place][t]
          /\ file'[Cache[q]][t] = file[Cache[q]][t]
      BY <1>5, <1>6, <1>7, <2>1, <2>2
    <3> QED BY <1>2, <3>1 DEF InSync
  <2>3. \A i \in Permitted(q) \ Left(q) : i # pos[q] => Synced(q, i)'
    BY <1>12, <1>16 DEF Syncing
  <2>4. \A t \in Chain(op[q].state) \ Chain(at[q]) : InSync(q, pos[q], t)'
    BY <1>11, <1>16, <2>2 DEF Syncing
  <2> QED BY <2>3, <2>4
<1>17. ASSUME pc[q] \in {"open", "depend"}
       PROVE  /\ InSync(q, pos[q], at[q])' <=> InSync(q, pos[q], at[q])
              /\ file'[Cache[q]][at[q]] = file[Cache[q]][at[q]]
  <2>1. pos[q] \in Permitted(q) /\ at[q] \in State
    BY <1>13, <1>17 DEF AtSource
  <2> QED BY <1>2, <1>5, <1>6, <1>7, <2>1 DEF InSync
<1>18. pc[q] = "idle" /\ last[q] = "done" => \A i \in Permitted(q) : Synced(q, i)'
  BY <1>12 DEF Syncing
<1> QED BY <1>2, <1>8, <1>14, <1>15, <1>16, <1>17, <1>18 DEF Syncing

\* The step of a process that goes on with its operation, by where it is.
LEMMA StepAt ==
  ASSUME TypeInv, NEW p \in Process, Begin(p) \/ Step(p) \/ Kill(p),
         pc'[p] \notin {"check", "idle"} \/ (pc'[p] = "idle" /\ last'[p] = "done")
  PROVE  /\ pc[p] = "check" => Check(p)
         /\ pc[p] = "choose" => Choose(p)
         /\ pc[p] = "lock" => Lock(p)
         /\ pc[p] = "hash" => Hash(p)
         /\ pc[p] = "open" => OpenCopy(p)
         /\ pc[p] = "copy" => CloseCopy(p)
         /\ pc[p] = "depend" => Depend(p)
         /\ pc[p] = "restore" => Restore(p)
         /\ pc[p] = "write" => CloseSet(p)
         /\ pc[p] = "own" => SetOwn(p) \/ SetOthers(p) \/ UnsetOwn(p)
<1>1. ~Kill(p) /\ ~Begin(p)
  BY DEF Kill, Begin, Goto, TypeInv, TypeOK
<1>2. ~LockTimeout(p)
  BY EndMoves DEF LockTimeout
<1> QED BY <1>1, <1>2 DEF Step, Check, Choose, Look, Compare, Lock, Hash, OpenCopy, CloseCopy,
                         Depend, Restore, SetOwn, SetOthers, CloseSet, UnsetOwn, Delete, At

\* A set that goes on to the next source.
LEMMA SyncChoose ==
  ASSUME TypeInv, NEW p \in Process, op[p].kind = "set", Syncing(p),
         Choose(p), pc'[p] = "lock", Moves(p)
  PROVE  Syncing(p)'
<1>1. /\ op' = op /\ pc[p] = "choose" /\ at'[p] = op[p].state
      /\ pos'[p] \in Left(p)
      /\ \A j \in Left(p) \ {pos'[p]} : Nearer(p, pos'[p], j)
  BY DEF Moves, Choose, At
<1>2. file' = file
  BY DEF Choose
<1>3. \A i \in Permitted(p) : Synced(p, i)' <=> Synced(p, i)
  BY <1>1, <1>2 DEF Synced, InSync
<1>4. Permitted(p)' = Permitted(p)
  BY <1>1, SamePermitted
<1>5. ASSUME NEW j \in Permitted(p) \ Left(p)', j # pos'[p] PROVE Synced(p, j)'
  <2>1. j \notin Left(p)
    <3>1. SUFFICES ASSUME j \in Left(p) PROVE FALSE
      OBVIOUS
    <3>2. Nearer(p, pos'[p], j)
      BY <1>1, <1>5, <3>1
    <3>3. PICK i \in Left(p) : i = pos'[p]
      BY <1>1
    <3>4. Nearer(p, i, j)'
      BY <1>1, <3>2, <3>3, SameNearer
    <3>5. Nearer(p, pos[p], j)'
      BY <3>3, <3>4 DEF Nearer
    <3> QED BY <1>4, <1>5, <3>5 DEF Left
  <2> QED BY <1>1, <1>3, <2>1 DEF Syncing
<1>6. Chain(op[p].state)' \ Chain(at[p])' = {}
  BY <1>1
<1> QED BY <1>4, <1>5, <1>6 DEF Syncing

\* Steps of a set that write no file.
LEMMA SyncCompare ==
  ASSUME TypeInv, StageInv, NEW p \in Process, op[p].kind = "set", Syncing(p),
         Lock(p) \/ Hash(p)
  PROVE  Syncing(p)'
<1>1. /\ UNCHANGED <<file, op, pos, at>>
      /\ pc[p] \in {"lock", "hash"} /\ pc'[p] \in {"hash", "open", "depend"}
      /\ pc[p] = "lock" => pc'[p] = "hash"
  BY DEF Lock, Hash, procVars, At, Goto, TypeInv, TypeOK
<1>2. Permitted(p)' = Permitted(p) /\ Left(p)' = Left(p)
  BY <1>1, SamePermitted, SameLeft
<1>3. \A i \in Permitted(p) \ Left(p) : i # pos[p] => Synced(p, i)'
  BY <1>1 DEF Syncing, Synced, InSync
<1>4. \A t \in Chain(op[p].state) \ Chain(at[p]) : InSync(p, pos[p], t)'
  BY <1>1 DEF Syncing, InSync
<1>5. CASE pc'[p] = "hash"
  BY <1>1, <1>2, <1>3, <1>4, <1>5 DEF Syncing
<1>6. CASE pc'[p] \in {"open", "depend"}
  <2>1. Hash(p) /\ Origin(p) = Cache[p] /\ Target(p) = op[p].location[pos[p]].place
    BY <1>1, <1>6 DEF Lock, At, Origin, Target, CurrentSource
  <2>2. PICK same \in Same(file[Origin(p)][at[p]], file[Target(p)][at[p]]) :
          (IF same THEN Release(p) /\ Goto(p, "depend") ELSE lock' = lock /\ Goto(p, "open"))
    BY <2>1 DEF Hash
  <2>3. pc'[p] = IF same THEN "depend" ELSE "open"
    BY <2>2 DEF Goto, TypeInv, TypeOK
  <2>4. pc'[p] = "depend" => InSync(p, pos[p], at[p])
    BY <2>1, <2>2, <2>3 DEF Same, InSync
  <2>5. pc'[p] = "open" => (InSync(p, pos[p], at[p]) => file[Cache[p]][at[p]] = Torn)
    BY <2>1, <2>2, <2>3 DEF Same, InSync
  <2>6. InSync(p, pos[p], at[p])' <=> InSync(p, pos[p], at[p])
    BY <1>1 DEF InSync
  <2> QED BY <1>1, <1>2, <1>3, <1>4, <1>6, <2>4, <2>5, <2>6 DEF Syncing
<1> QED BY <1>1, <1>5, <1>6

\* The next file of the chain, or the end of it.
LEMMA SyncFollow ==
  ASSUME TypeInv, StageInv, NEW p \in Process, op[p].kind = "set", Syncing(p),
         Depend(p), pc'[p] \in {"choose", "lock"}
  PROVE  Syncing(p)'
<1>1. /\ UNCHANGED <<file, pos>> /\ pc[p] = "depend"
  BY DEF Depend, At
<1>2. /\ op' = op
      /\ pc'[p] = IF Backing[at[p]] = NoState THEN "choose" ELSE "lock"
      /\ at'[p] = IF Backing[at[p]] = NoState THEN at[p] ELSE Backing[at[p]]
  <2>1. CASE End(p, "failed")
    BY <2>1, EndMoves
  <2>2. CASE /\ Goto(p, IF Backing[at[p]] = NoState THEN "choose" ELSE "lock")
             /\ at' = IF Backing[at[p]] = NoState THEN at ELSE [at EXCEPT ![p] = Backing[at[p]]]
             /\ UNCHANGED <<op, last>>
    BY <2>2 DEF Goto, TypeInv, TypeOK
  <2> QED BY <2>1, <2>2 DEF Depend, Follow
<1>3. Permitted(p)' = Permitted(p) /\ Left(p)' = Left(p)
  BY <1>1, <1>2, SamePermitted, SameLeft
<1>4. at[p] \in State
  BY <1>1, BusyType
<1>5. \A i \in Permitted(p) \ Left(p) : i # pos[p] => Synced(p, i)'
  BY <1>1, <1>2 DEF Syncing, Synced, InSync
<1>6. \A t \in (Chain(op[p].state) \ Chain(at[p])) \union {at[p]} : InSync(p, pos[p], t)
  BY <1>1 DEF Syncing
<1>7. \A t : InSync(p, pos[p], t)' <=> InSync(p, pos[p], t)
  BY <1>1, <1>2 DEF InSync
<1>8. CASE Backing[at[p]] = NoState
  <2>1. Chain(at[p]) = {at[p]}
    BY <1>4, <1>8, ChainSplit
  <2>2. \A t \in Chain(op[p].state) : InSync(p, pos[p], t)
    BY <1>6, <2>1
  <2>3. Synced(p, pos[p])'
    BY <1>2, <1>7, <2>2 DEF Synced
  <2>4. \A i \in Permitted(p) \ Left(p) : Synced(p, i)'
    <3> SUFFICES ASSUME NEW i \in Permitted(p) \ Left(p), i = pos[p] PROVE Synced(p, i)'
      BY <1>5
    <3> QED BY <1>1, <2>3 DEF Synced, InSync
  <2>5. pc'[p] = "choose"
    BY <1>2, <1>8
  <2> QED BY <1>3, <2>4, <2>5 DEF Syncing
<1>9. CASE Backing[at[p]] # NoState
  <2>1. Chain(at[p]) \subseteq {at[p]} \union Chain(Backing[at[p]])
    BY <1>4, <1>9, ChainSplit
  <2>2. \A t \in Chain(op[p].state) \ Chain(Backing[at[p]]) : InSync(p, pos[p], t)'
    BY <1>6, <1>7, <2>1
  <2>3. pc'[p] = "lock" /\ at'[p] = Backing[at[p]]
    BY <1>2, <1>9
  <2>4. \A t \in Chain(op'[p].state) \ Chain(at'[p]) : InSync(p, pos[p], t)'
    BY <1>2, <2>2, <2>3
  <2> QED BY <1>1, <1>3, <1>5, <2>3, <2>4 DEF Syncing
<1> QED BY <1>8, <1>9

\* What a set that copies knows of the pools it works on.
LEMMA SyncPlaces ==
  ASSUME SoleWriters, TypeInv, PlanInv, StageInv, NEW p \in Process, op[p].kind = "set",
         pc[p] \in {"open", "copy"}
  PROVE  /\ pos[p] \in Permitted(p)
         /\ Target(p) = op[p].location[pos[p]].place /\ Origin(p) = Cache[p]
         /\ Cache[p] \in Place /\ at[p] \in State
         /\ Chain(op[p].state) \subseteq State
         /\ at[p] \in Chain(at[p])
         /\ \A i \in Permitted(p) : /\ op[p].location[i].place \in Place
                                    /\ op[p].location[i].place # Cache[p]
<1>1. op[p] # NoOp /\ op[p] \in Operation /\ at[p] \in State
  BY BusyType
<1>2. pos[p] \in Permitted(p)
  BY DEF StageInv, AtSource
<1>3. \A i \in Permitted(p) : op[p].location[i].place \in Uploads(p)
  BY <1>1, UploadPlace
<1>4. Uploads(p) \subseteq Place /\ Cache[p] \notin Uploads(p)
  BY DEF Uploads, SoleWriters
<1>5. op[p].state \in State
  BY <1>1 DEF Operation
<1>6. Chain(op[p].state) \subseteq State /\ at[p] \in Chain(at[p])
  BY <1>1, <1>5, ChainSplit
<1> QED BY <1>1, <1>2, <1>3, <1>4, <1>6, PlacesAssumption DEF Target, Origin, CurrentSource

\* The file of the mirror is opened: a source that was finished and is in the
\* same place had the same torn file already.
LEMMA SyncOpen ==
  ASSUME SoleWriters, TypeInv, PlanInv, StageInv, NEW p \in Process, op[p].kind = "set",
         Syncing(p), OpenCopy(p), pc'[p] = "copy"
  PROVE  Syncing(p)'
<1>1. pc[p] = "open" /\ UNCHANGED <<pos, at>>
  BY DEF OpenCopy, At
<1>2. op' = op /\ Open(p, Target(p), at[p], file[Origin(p)][at[p]], TRUE)
  <2>1. CASE End(p, "failed")
    BY <2>1, EndMoves
  <2> QED BY <2>1 DEF OpenCopy
<1> DEFINE place(i) == op[p].location[i].place
           d == place(pos[p])
<1>3. /\ pos[p] \in Permitted(p)
      /\ Target(p) = d /\ Origin(p) = Cache[p]
      /\ Cache[p] \in Place /\ at[p] \in State
      /\ Chain(op[p].state) \subseteq State
      /\ at[p] \in Chain(at[p])
      /\ \A i \in Permitted(p) : place(i) \in Place /\ place(i) # Cache[p]
  BY <1>1, SyncPlaces
<1>4. /\ file' = [file EXCEPT ![d] = [file[d] EXCEPT ![at[p]] = Torn]]
      /\ copy'[p] = file[Cache[p]][at[p]]
  BY <1>2, <1>3 DEF Open
<1>5. file \in [Place -> [State -> Content]]
  BY DEF TypeInv, TypeOK
<1>6. /\ \A t \in State : file'[Cache[p]][t] = file[Cache[p]][t]
      /\ \A e \in Place, t \in State : e # d \/ t # at[p] => file'[e][t] = file[e][t]
      /\ file'[d][at[p]] = Torn
  <2> HIDE DEF d
  <2>1. d \in Place /\ d # Cache[p]
    BY <1>3 DEF d
  <2> QED BY <1>3, <1>4, <1>5, <2>1
<1>7. Permitted(p)' = Permitted(p) /\ Left(p)' = Left(p)
  BY <1>1, <1>2, SamePermitted, SameLeft
<1>8. ASSUME NEW i \in Permitted(p) \ Left(p), i # pos[p] PROVE Synced(p, i)'
  <2> SUFFICES ASSUME NEW t \in Chain(op[p].state) PROVE file'[place(i)][t] = file'[Cache[p]][t]
    BY <1>2 DEF Synced, InSync
  <2>1. file[place(i)][t] = file[Cache[p]][t]
    BY <1>1, <1>8 DEF Syncing, Synced, InSync
  <2>2. CASE place(i) = d /\ t = at[p]
    <3>1. file[Cache[p]][at[p]] = Torn
      BY <1>1, <2>1, <2>2 DEF Syncing, InSync
    <3> QED BY <1>3, <1>6, <2>2, <3>1
  <2>3. CASE place(i) # d \/ t # at[p]
    <3>1. place(i) \in Place /\ t \in State
      BY <1>3
    <3> QED BY <1>6, <2>1, <2>3, <3>1
  <2> QED BY <2>2, <2>3
<1>9. ASSUME NEW t \in Chain(op[p].state) \ Chain(at[p]) PROVE file'[d][t] = file'[Cache[p]][t]
  <2>1. t # at[p] /\ t \in State /\ d \in Place
    BY <1>3
  <2>2. file[d][t] = file[Cache[p]][t]
    BY <1>1 DEF Syncing, InSync
  <2> QED BY <1>6, <2>1, <2>2
<1>10. \A t \in Chain(op[p].state)' \ Chain(at[p])' : InSync(p, pos[p], t)'
  BY <1>1, <1>2, <1>9 DEF InSync
<1>11. CurrentSource(p)'.place = d
  BY <1>1, <1>2 DEF CurrentSource
<1>12. /\ file'[CurrentSource(p)'.place][at'[p]] = Torn
       /\ copy'[p] = file'[Cache[p]][at'[p]]
  BY <1>1, <1>3, <1>4, <1>6, <1>11
<1> QED BY <1>1, <1>7, <1>8, <1>10, <1>12 DEF Syncing

\* The copy is complete: the mirror has what the own pool has.
LEMMA SyncClose ==
  ASSUME SoleWriters, TypeInv, PlanInv, StageInv, NEW p \in Process, op[p].kind = "set",
         Syncing(p), CloseCopy(p)
  PROVE  Syncing(p)'
<1>1. pc[p] = "copy" /\ pc'[p] = "depend" /\ UNCHANGED <<op, pos, at>> /\ Close(p, Target(p), at[p])
  BY DEF CloseCopy, At, Goto, procVars, TypeInv, TypeOK
<1> DEFINE place(i) == op[p].location[i].place
           d == place(pos[p])
<1>3. /\ pos[p] \in Permitted(p)
      /\ Target(p) = d /\ Origin(p) = Cache[p]
      /\ Cache[p] \in Place /\ at[p] \in State
      /\ Chain(op[p].state) \subseteq State
      /\ at[p] \in Chain(at[p])
      /\ \A i \in Permitted(p) : place(i) \in Place /\ place(i) # Cache[p]
  BY <1>1, SyncPlaces
<1>2. {q \in Process \ {p} : Writes(q, d, at[p])} = {}
  <2> SUFFICES ASSUME NEW q \in Process \ {p}, Writes(q, d, at[p]) PROVE FALSE
    OBVIOUS
  <2>1. d \in Uploads(p)
    BY <1>1, <1>3, BusyType, UploadPlace
  <2>2. d \notin Owned(q)
    BY <2>1 DEF SoleWriters, Owned
  <2>3. (d = Target(q) /\ pc[q] = "copy") \/ d = Cache[q]
    BY DEF Writes, At
  <2>4. pc[q] = "copy" => Target(q) \in Owned(q)
    BY TargetOwned DEF AtSource
  <2>5. Cache[q] \in Owned(q)
    BY DEF Owned
  <2> QED BY <2>2, <2>3, <2>4, <2>5
<1>4. file[d][at[p]] = Torn /\ copy[p] = file[Cache[p]][at[p]] /\ Torn # Absent
  BY <1>1, FilesAssumption DEF Syncing, CurrentSource
<1>5. file' = [file EXCEPT ![d] = [file[d] EXCEPT ![at[p]] = file[Cache[p]][at[p]]]]
  BY <1>1, <1>2, <1>3, <1>4 DEF Close
<1>6. file \in [Place -> [State -> Content]]
  BY DEF TypeInv, TypeOK
<1>7. /\ \A t \in State : file'[Cache[p]][t] = file[Cache[p]][t]
      /\ \A e \in Place, t \in State : e # d \/ t # at[p] => file'[e][t] = file[e][t]
      /\ file'[d][at[p]] = file[Cache[p]][at[p]]
  <2> HIDE DEF d
  <2>1. d \in Place /\ d # Cache[p]
    BY <1>3 DEF d
  <2> QED BY <1>3, <1>5, <1>6, <2>1
<1>8. Permitted(p)' = Permitted(p) /\ Left(p)' = Left(p)
  BY <1>1, SamePermitted, SameLeft
<1>9. ASSUME NEW i \in Permitted(p), NEW t \in State, file[place(i)][t] = file[Cache[p]][t]
      PROVE  file'[place(i)][t] = file'[Cache[p]][t]
  <2>1. place(i) \in Place
    BY <1>3
  <2> QED BY <1>7, <1>9, <2>1
<1>10. ASSUME NEW i \in Permitted(p) \ Left(p), i # pos[p] PROVE Synced(p, i)'
  <2> SUFFICES ASSUME NEW t \in Chain(op[p].state) PROVE file'[place(i)][t] = file'[Cache[p]][t]
    BY <1>1 DEF Synced, InSync
  <2>1. file[place(i)][t] = file[Cache[p]][t] /\ t \in State
    BY <1>1, <1>3, <1>10 DEF Syncing, Synced, InSync
  <2> QED BY <1>9, <2>1
<1>11. ASSUME NEW t \in Chain(op[p].state) \ Chain(at[p]) PROVE file'[d][t] = file'[Cache[p]][t]
  <2>1. file[d][t] = file[Cache[p]][t] /\ t \in State
    BY <1>1, <1>3 DEF Syncing, InSync
  <2> QED BY <1>3, <1>9, <2>1
<1>12. \A t \in Chain(op[p].state)' \ Chain(at[p])' : InSync(p, pos[p], t)'
  BY <1>1, <1>11 DEF InSync
<1>13. InSync(p, pos[p], at[p])'
  BY <1>1, <1>3, <1>7 DEF InSync
<1> QED BY <1>1, <1>8, <1>10, <1>12, <1>13 DEF Syncing

\* The set itself goes on.
LEMMA SyncOwn ==
  ASSUME SoleWriters, TypeInv, PlanInv, StageInv, SyncInv,
         NEW p \in Process, Begin(p) \/ Step(p) \/ Kill(p), op'[p].kind = "set"
  PROVE  Syncing(p)'
<1>1. Moves(p)
  BY MovesNext
<1>2. CASE pc'[p] \in {"check", "own", "write", "look", "compare", "restore", "delete"}
  BY <1>2 DEF Syncing
<1>3. CASE pc'[p] = "idle" /\ last'[p] # "done"
  BY <1>3 DEF Syncing
<1>4. ASSUME pc'[p] # "check" PROVE op' = op /\ op[p].kind = "set" /\ Syncing(p)
  BY <1>4, OpMoves DEF SyncInv
<1>5. CASE pc'[p] = "idle" /\ last'[p] = "done"
  <2>1. op' = op /\ op[p].kind = "set" /\ Syncing(p)
    BY <1>4, <1>5
  <2>2. pc[p] = "choose" /\ Left(p) = {} /\ pos' = pos
    BY <1>1, <1>5, <2>1 DEF Moves, StageInv
  <2>3. file' = file
    BY <1>5, <2>2, StepAt DEF Choose
  <2>4. \A i \in Permitted(p) : Synced(p, i)'
    BY <2>1, <2>2, <2>3 DEF Syncing, Synced, InSync
  <2>5. Permitted(p)' = Permitted(p)
    BY <2>1, SamePermitted
  <2> QED BY <1>5, <2>4, <2>5 DEF Syncing
<1>6. CASE pc'[p] = "choose"
  <2>1. op' = op /\ op[p].kind = "set" /\ Syncing(p)
    BY <1>4, <1>6
  <2>2. \/ pc[p] \in {"own", "write"} /\ pos' = pos
        \/ pc[p] = "depend"
    BY <1>1, <1>6, <2>1 DEF Moves, StageInv
  <2>3. CASE pc[p] \in {"own", "write"} /\ pos' = pos
    <3>1. pos'[p] = 0
      BY <2>3 DEF StageInv
    <3>2. Left(p)' = Permitted(p)'
      BY <3>1 DEF Left
    <3> QED BY <1>6, <3>2 DEF Syncing
  <2>4. CASE pc[p] = "depend"
    BY <1>6, <2>1, <2>4, StepAt, SyncFollow
  <2> QED BY <2>2, <2>3, <2>4
<1>7. CASE pc'[p] \in {"lock", "hash", "open", "copy", "depend"}
  <2>1. op' = op /\ op[p].kind = "set" /\ Syncing(p)
    BY <1>4, <1>7
  <2>2. \/ pc[p] = "choose" /\ pc'[p] = "lock"
        \/ pc[p] = "depend" /\ pc'[p] = "lock"
        \/ pc[p] = "lock" \/ pc[p] = "hash"
        \/ pc[p] = "open" /\ pc'[p] = "copy"
        \/ pc[p] = "copy"
    BY <1>1, <1>7, <2>1 DEF Moves, StageInv
  <2>3. CASE pc[p] = "choose" /\ pc'[p] = "lock"
    BY <1>1, <2>1, <2>3, StepAt, SyncChoose
  <2>4. CASE pc[p] = "depend" /\ pc'[p] = "lock"
    BY <2>1, <2>4, StepAt, SyncFollow
  <2>5. CASE pc[p] = "lock" \/ pc[p] = "hash"
    BY <1>7, <2>1, <2>5, StepAt, SyncCompare
  <2>6. CASE pc[p] = "open" /\ pc'[p] = "copy"
    BY <2>1, <2>6, StepAt, SyncOpen
  <2>7. CASE pc[p] = "copy"
    BY <1>7, <2>1, <2>7, StepAt, SyncClose
  <2> QED BY <2>2, <2>3, <2>4, <2>5, <2>6, <2>7
<1> QED BY <1>1, <1>2, <1>3, <1>5, <1>6, <1>7 DEF Moves

\* A step of p ends no other operation.
LEMMA LastFrame ==
  ASSUME NEW p \in Process, Begin(p) \/ Step(p) \/ Kill(p)
  PROVE  last' = last \/ \E l : last' = [last EXCEPT ![p] = l]
BY DEF Begin, Step, Kill, Check, Choose, Look, Compare, Follow, Lock, Hash, OpenCopy, CloseCopy,
       Depend, Restore, SetOwn, SetOthers, CloseSet, UnsetOwn, Delete, LockTimeout, End, procVars

\* No step takes a file of a finished mirror out of sync.
LEMMA SyncNext ==
  ASSUME SoleWriters, TypeInv, PlanInv, StageInv, SyncInv, [Next]_vars
  PROVE  SyncInv'
<1>1. CASE UNCHANGED vars
  <2> SUFFICES ASSUME NEW q \in Process, op[q].kind = "set" PROVE Syncing(q)'
    BY <1>1 DEF SyncInv, vars, procVars
  <2>1. Syncing(q) /\ op' = op /\ pos' = pos
    BY <1>1 DEF SyncInv, vars, procVars
  <2>2. Permitted(q)' = Permitted(q) /\ Left(q)' = Left(q)
    BY <2>1, SamePermitted, SameLeft
  <2>3. UNCHANGED <<file, op, pos, pc, at, copy, last>>
    BY <1>1 DEF vars, procVars
  <2>4. \A i, t : InSync(q, i, t)' <=> InSync(q, i, t)
    BY <2>3 DEF InSync
  <2>5. \A i : Synced(q, i)' <=> Synced(q, i)
    BY <2>3, <2>4 DEF Synced
  <2>6. InSync(q, pos[q], at[q])' <=> InSync(q, pos[q], at[q])
    BY <2>3 DEF InSync
  <2>7. \A t : InSync(q, pos[q], t)' <=> InSync(q, pos[q], t)
    BY <2>3 DEF InSync
  <2> QED BY <2>1, <2>2, <2>3, <2>4, <2>5, <2>6, <2>7 DEF Syncing, CurrentSource
<1>2. ASSUME NEW p \in Process, Begin(p) \/ Step(p) \/ Kill(p) PROVE SyncInv'
  <2> SUFFICES ASSUME NEW q \in Process, op'[q].kind = "set" PROVE Syncing(q)'
    BY DEF SyncInv
  <2>1. CASE q = p
    BY <1>2, <2>1, SyncOwn
  <2>2. CASE q # p
    <3>1. op[q].kind = "set" /\ Syncing(q)
      BY <1>2, <2>2, Frame DEF Others, SyncInv
    <3> QED BY <1>2, <2>2, <3>1, LastFrame, SyncOther
  <2> QED BY <2>1, <2>2
<1> QED BY <1>1, <1>2 DEF Next

\* SourcedStateBackend.set ("to all mirrors"): if no pool is written by two
\* processes, then after a successful set every permitted mirror holds the same
\* chain as the own pool.  Kills, timeouts of locks, torn files, remote mirrors
\* that take no lock and mirrors that are listed twice are all allowed.
THEOREM SetReachesAll ==
  ASSUME SoleWriters
  PROVE  Spec => []SetEverywhere
<1> DEFINE Inv == TypeInv /\ PlanInv /\ StageInv /\ SyncInv
<1>1. Init => Inv
  <2> SUFFICES ASSUME Init PROVE Inv
    OBVIOUS
  <2>1. \A p \in Process : op[p] = NoOp
    BY DEF Init
  <2>2. NoOp.kind # "set"
    BY DEF NoOp
  <2>3. SyncInv
    BY <2>1, <2>2 DEF SyncInv
  <2> QED BY <2>3, TypeInit, StageInit
<1>2. Inv /\ [Next]_vars => Inv'
  BY TypeNext, PlanNext, StageNext, SyncNext
<1>3. Inv => SetEverywhere
  BY DEF SetEverywhere, SyncInv, Syncing, Synced, InSync, Ended, At
<1> QED BY <1>1, <1>2, <1>3, PTL DEF Spec

-----------------------------------------------------------------------------
(* A get restores a whole chain.                                           *)

\* q writes a version of s to some file.
Copying(q, s) == pc[q] \in {"copy", "write"} /\ at[q] = s

\* There is a file of s, or there will be.
Sighted(s) == (\E d \in Place : file[d][s] # Absent) \/ \E q \in Process : Copying(q, s)

\* The builder of s has it.
Built(s) == \E p \in Process : Builds(p, s) /\ file[Cache[p]][s] # Absent

\* A state that is somewhere is with its builder, and so is the state below.
BuiltInv ==
  \A s \in State : Sighted(s) => Built(s) /\ (Backing[s] # NoState => Built(Backing[s]))

\* A process is about to build only what it does not have.
FreshInv ==
  \A p \in Process : pc[p] = "own" /\ op[p].kind = "set" /\ "own" \in op[p].scopes
    => file[Cache[p]][op[p].state] = Absent

\* A copy in progress has a content.
CopyInv == \A q \in Process : pc[q] \in {"copy", "write"} => copy[q] # Absent

\* The versions of s there are in files and copies.
Versions(s) ==
  ({file[d][s] : d \in Place} \union {copy[q] : q \in {r \in Process : Copying(r, s)}})
    \ {Absent, Torn}

\* There is at most one, and it is on top of the one of the state below.
VersionInv ==
  \A s \in State : \A c \in Versions(s) :
    /\ \A b \in Versions(s) : b = c
    /\ Backing[s] # NoState => \A b \in Versions(Backing[s]) : Tail(c) = b

\* The inductive invariant of GotWhole, with TornInv, PlanInv and StageInv.
WholeInv == kills = 0 => BuiltInv /\ FreshInv /\ CopyInv /\ VersionInv /\ GotWhole

\* A version is in a file or in a copy.
LEMMA VersionIn ==
  ASSUME NEW s, NEW c
  PROVE  c \in Versions(s) <=>
           /\ c # Absent /\ c # Torn
           /\ \/ \E d \in Place : c = file[d][s]
              \/ \E q \in Process : Copying(q, s) /\ c = copy[q]
BY DEF Versions

\* The same of the next state.
LEMMA VersionInNext ==
  ASSUME NEW s, NEW c
  PROVE  c \in Versions(s)' <=>
           /\ c # Absent /\ c # Torn
           /\ \/ \E d \in Place : c = file'[d][s]
              \/ \E q \in Process : Copying(q, s)' /\ c = copy'[q]
BY DEF Versions

\* With isolated pools a step of p touches neither the pool nor the copy of
\* another process.
LEMMA Apart ==
  ASSUME TornInv, Isolated, NEW p \in Process, Begin(p) \/ Step(p),
         NEW q \in Process \ {p}
  PROVE  /\ \A s \in State : file'[Cache[q]][s] = file[Cache[q]][s]
         /\ copy'[q] = copy[q]
         /\ \A s : Copying(q, s)' <=> Copying(q, s)
<1>0. /\ file \in [Place -> [State -> Content]] /\ copy \in [Process -> Content]
      /\ TypeInv /\ Holding
      /\ Cache[q] \in Place /\ Cache[p] \in Place /\ Cache[p] # Cache[q]
  BY PlacesAssumption DEF TornInv, TypeInv, TypeOK, Isolated
<1>1. \A s : Copying(q, s)' <=> Copying(q, s)
  BY <1>0, Frame DEF Others, Copying
<1>2. \/ file' = file /\ copy' = copy
      \/ OpenCopy(p) \/ CloseCopy(p) \/ SetOwn(p) \/ CloseSet(p) \/ UnsetOwn(p) \/ Delete(p)
  BY DEF Begin, Step, Check, Choose, Look, Compare, Lock, Hash, Depend, Restore, SetOthers,
         LockTimeout
<1>3. ASSUME NEW d \in Place, NEW s \in State, d # Cache[q], NEW c,
             file' = [file EXCEPT ![d][s] = c]
      PROVE  \A s1 \in State : file'[Cache[q]][s1] = file[Cache[q]][s1]
  BY <1>0, <1>3
<1>4. ASSUME NEW d \in Place, NEW s \in State, d # Cache[q], NEW content, NEW inPlace,
             Open(p, d, s, content, inPlace), pc[p] \in {"open", "own"}, Uses(p, d), at[p] = s
      PROVE  /\ \A s1 \in State : file'[Cache[q]][s1] = file[Cache[q]][s1]
             /\ copy'[q] = copy[q]
  <2>1. ~Reads(q, d, s)
    BY <1>0, <1>4, ReadersAndWritersUse, OneUser
  <2> QED BY <1>3, <1>4, <2>1 DEF Open
<1>5. ASSUME NEW d \in Place, NEW s \in State, d # Cache[q], Close(p, d, s), Uses(p, d), at[p] = s
      PROVE  /\ \A s1 \in State : file'[Cache[q]][s1] = file[Cache[q]][s1]
             /\ copy'[q] = copy[q]
  <2>1. ~Writes(q, d, s)
    BY <1>0, <1>5, ReadersAndWritersUse, OneUser
  <2> QED BY <1>3, <1>5, <2>1 DEF Close
<1>6. ASSUME pc[p] # "idle" PROVE op[p].state \in State /\ at[p] \in State
  BY <1>0, <1>6, BusyType DEF Operation
<1>7. ASSUME pc[p] \in AtSource
      PROVE  /\ Target(p) \in Place /\ Target(p) # Cache[q]
             /\ CurrentSource(p).place \in Place /\ CurrentSource(p).place # Cache[q]
             /\ pc[p] \in {"open", "copy"} => Uses(p, Target(p))
  BY <1>0, <1>7, SourceType, SourceApart DEF Target, Uses
<1>8. CASE file' = file /\ copy' = copy
  BY <1>1, <1>8
<1>9. CASE OpenCopy(p)
  <2>1. pc[p] = "open" /\ pc[p] \in AtSource
    BY <1>9 DEF OpenCopy, At, AtSource
  <2> QED BY <1>1, <1>4, <1>6, <1>7, <1>9, <2>1 DEF OpenCopy
<1>10. CASE CloseCopy(p)
  <2>1. pc[p] = "copy" /\ pc[p] \in AtSource
    BY <1>10 DEF CloseCopy, At, AtSource
  <2> QED BY <1>1, <1>5, <1>6, <1>7, <1>10, <2>1 DEF CloseCopy
<1>11. CASE SetOwn(p)
  <2>1. pc[p] = "own" /\ at[p] = op[p].state /\ Uses(p, Cache[p])
    BY <1>0, <1>11 DEF SetOwn, At, TypeInv, Shape, Uses
  <2> QED BY <1>0, <1>1, <1>4, <1>6, <1>11, <2>1 DEF SetOwn
<1>12. CASE CloseSet(p)
  <2>1. pc[p] = "write" /\ Uses(p, Cache[p])
    BY <1>12 DEF CloseSet, At, Uses
  <2> QED BY <1>0, <1>1, <1>5, <1>6, <1>12, <2>1 DEF CloseSet
<1>13. CASE UnsetOwn(p)
  BY <1>0, <1>1, <1>3, <1>6, <1>13 DEF UnsetOwn, At
<1>14. CASE Delete(p)
  <2>1. pc[p] = "delete" /\ pc[p] \in AtSource
    BY <1>14 DEF Delete, At, AtSource
  <2> QED BY <1>1, <1>3, <1>6, <1>7, <1>14, <2>1 DEF Delete
<1> QED BY <1>2, <1>8, <1>9, <1>10, <1>11, <1>12, <1>13, <1>14

\* The states below a state of a chain are in the chain.
LEMMA ChainDown ==
  ASSUME NEW s \in State, NEW t \in Chain(s), Backing[t] # NoState
  PROVE  Backing[t] \in Chain(s)
<1>1. t \in State /\ Backing[t] \in State
  BY FilesAssumption DEF Chain
<1> SUFFICES ASSUME NEW S \in SUBSET State, s \in S,
                    \A u \in S : Backing[u] # NoState => Backing[u] \in S
             PROVE  Backing[t] \in S
  BY <1>1 DEF Chain
<1>2. t \in S
  BY DEF Chain
<1> QED BY <1>2

\* No state has a new version after the step, or is seen for the first time,
\* or is lost by its builder.
Passes ==
  \A u \in State :
    /\ Versions(u)' \subseteq Versions(u)
    /\ Sighted(u)' => Sighted(u)
    /\ Built(u) => Built(u)'

\* What has to be shown for this.
LEMMA PassesStep ==
  ASSUME TornInv, Isolated, NEW p \in Process, Begin(p) \/ Step(p),
         \A d \in Place, u \in State :
           file'[d][u] \in {Absent, Torn, file[d][u]} \/ (Copying(p, u) /\ file'[d][u] = copy[p]),
         \A d \in Place, u \in State : file'[d][u] # Absent => Sighted(u),
         \A u \in State : Copying(p, u)' =>
           \E e \in Place : file[e][u] # Absent /\ file[e][u] = copy'[p],
         \A b \in Process, u \in State :
           Builds(b, u) /\ file[Cache[b]][u] # Absent => file'[Cache[b]][u] # Absent
  PROVE  Passes
<1> SUFFICES ASSUME NEW u \in State
             PROVE  /\ Versions(u)' \subseteq Versions(u)
                    /\ Sighted(u)' => Sighted(u)
                    /\ Built(u) => Built(u)'
  BY DEF Passes
<1>1. \A q \in Process \ {p} : copy'[q] = copy[q] /\ (Copying(q, u)' <=> Copying(q, u))
  BY Apart
<1>2. ASSUME NEW c \in Versions(u)' PROVE c \in Versions(u)
  <2>1. c # Absent /\ c # Torn
    BY VersionInNext
  <2>2. CASE \E d \in Place : c = file'[d][u]
    <3>1. PICK d \in Place : c = file'[d][u]
      BY <2>2
    <3>2. c = file[d][u] \/ (Copying(p, u) /\ c = copy[p])
      BY <2>1, <3>1
    <3> QED BY <2>1, <3>2, VersionIn
  <2>3. CASE \E q \in Process : Copying(q, u)' /\ c = copy'[q]
    <3>1. PICK q \in Process : Copying(q, u)' /\ c = copy'[q]
      BY <2>3
    <3>2. CASE q = p
      <4>1. PICK e \in Place : file[e][u] = copy'[p]
        BY <3>1, <3>2
      <4> QED BY <2>1, <3>1, <3>2, <4>1, VersionIn
    <3>3. CASE q # p
      BY <1>1, <2>1, <3>1, <3>3, VersionIn
    <3> QED BY <3>2, <3>3
  <2> QED BY <2>2, <2>3, VersionInNext
<1>3. ASSUME Sighted(u)' PROVE Sighted(u)
  <2>1. CASE \E d \in Place : file'[d][u] # Absent
    BY <2>1
  <2>2. CASE \E q \in Process : Copying(q, u)'
    BY <1>1, <2>2 DEF Sighted
  <2> QED BY <1>3, <2>1, <2>2 DEF Sighted
<1>4. ASSUME Built(u) PROVE Built(u)'
  BY <1>4 DEF Built, Builds
<1> QED BY <1>2, <1>3, <1>4

\* A process sets and unsets what its plan says.
LEMMA OwnPlan ==
  ASSUME TypeInv, PlanInv, BuiltOnce, NEW p \in Process, op[p] # NoOp, "own" \in op[p].scopes
  PROVE  /\ op[p].kind = "set" => Builds(p, op[p].state) /\ op[p].mode[1] # "f"
         /\ op[p].kind = "unset" => ~Builds(p, op[p].state)
<1>1. PICK o \in Plan[p] : op[p] = o \/ (o.after # <<>> /\ op[p] = Unsetting(o))
  BY DEF PlanInv
<1>2. o \in Operation
  BY PlacesAssumption
<1>3. CASE op[p] = o
  BY <1>3 DEF BuiltOnce, Builds
<1>4. CASE o.after # <<>> /\ op[p] = Unsetting(o)
  <2>1. op[p].state = o.state /\ op[p].scopes = o.scopes /\ op[p].kind = "unset"
    BY <1>2, <1>4 DEF Unsetting, Operation
  <2> QED BY <1>4, <2>1 DEF BuiltOnce
<1> QED BY <1>1, <1>3, <1>4

\* A state that is removed stays with its builder.
LEMMA RemovePasses ==
  ASSUME TornInv, Isolated, NEW p \in Process, Begin(p) \/ Step(p),
         pc'[p] \notin {"copy", "write"},
         NEW d \in Place, NEW s \in State, file' = [file EXCEPT ![d][s] = Absent],
         \A b \in Process : Builds(b, s) => d # Cache[b]
  PROVE  Passes
<1>1. file' = [file EXCEPT ![d] = [file[d] EXCEPT ![s] = Absent]]
  OBVIOUS
<1>2. file \in [Place -> [State -> Content]] /\ Cache \in [Process -> Place]
  BY PlacesAssumption DEF TornInv, TypeInv, TypeOK
<1>3. \A e \in Place, u \in State :
        file'[e][u] = IF e = d /\ u = s THEN Absent ELSE file[e][u]
  BY <1>1, <1>2
<1>4. \A e \in Place, u \in State : file'[e][u] \in {Absent, Torn, file[e][u]}
  BY <1>3
<1>5. \A e \in Place, u \in State : file'[e][u] # Absent => Sighted(u)
  BY <1>3 DEF Sighted
<1>6. \A u \in State : ~Copying(p, u)'
  BY DEF Copying
<1>7. \A b \in Process, u \in State :
        Builds(b, u) /\ file[Cache[b]][u] # Absent => file'[Cache[b]][u] # Absent
  BY <1>2, <1>3
<1> QED BY <1>4, <1>5, <1>6, <1>7, PassesStep

\* So do the files if no file changes.
LEMMA QuietPasses ==
  ASSUME TornInv, Isolated, NEW p \in Process, Begin(p) \/ Step(p),
         pc'[p] \notin {"copy", "write"}, file' = file
  PROVE  Passes
<1>1. \A e \in Place, u \in State : file'[e][u] \in {Absent, Torn, file[e][u]}
  OBVIOUS
<1>2. \A e \in Place, u \in State : file'[e][u] # Absent => Sighted(u)
  BY DEF Sighted
<1>3. \A u \in State : ~Copying(p, u)'
  BY DEF Copying
<1>4. \A b \in Process, u \in State :
        Builds(b, u) /\ file[Cache[b]][u] # Absent => file'[Cache[b]][u] # Absent
  OBVIOUS
<1> QED BY <1>1, <1>2, <1>3, <1>4, PassesStep

\* A copy reads a version that is there, and tears a file that is there or new.
LEMMA OpenPasses ==
  ASSUME TornInv, Isolated, NEW p \in Process, OpenCopy(p), pc'[p] = "copy"
  PROVE  Passes
<1>1. pc[p] = "open" /\ at' = at
  BY DEF OpenCopy, At
<1>2. file[Origin(p)][at[p]] # Absent /\ Open(p, Target(p), at[p], file[Origin(p)][at[p]], TRUE)
  <2>1. CASE End(p, "failed")
    BY <2>1, EndMoves DEF TornInv
  <2> QED BY <2>1 DEF OpenCopy
<1>3. Origin(p) \in Place /\ Target(p) \in Place /\ at[p] \in State
  BY <1>1, SourceType, BusyType DEF TornInv, AtSource
<1>4. /\ file' = [file EXCEPT ![Target(p)] = [file[Target(p)] EXCEPT ![at[p]] = Torn]]
      /\ copy'[p] = file[Origin(p)][at[p]]
  BY <1>2 DEF Open
<1>5. file \in [Place -> [State -> Content]] /\ Cache \in [Process -> Place] /\ Torn # Absent
  BY PlacesAssumption, FilesAssumption DEF TornInv, TypeInv, TypeOK
<1>6. \A e \in Place, u \in State :
        file'[e][u] = IF e = Target(p) /\ u = at[p] THEN Torn ELSE file[e][u]
  BY <1>3, <1>4, <1>5
<1>7. \A e \in Place, u \in State : file'[e][u] \in {Absent, Torn, file[e][u]}
  BY <1>6
<1>8. \A e \in Place, u \in State : file'[e][u] # Absent => Sighted(u)
  BY <1>2, <1>3, <1>6 DEF Sighted
<1>9. \A u \in State : Copying(p, u)' =>
        \E e \in Place : file[e][u] # Absent /\ file[e][u] = copy'[p]
  BY <1>1, <1>2, <1>3, <1>4 DEF Copying
<1>10. \A b \in Process, u \in State :
         Builds(b, u) /\ file[Cache[b]][u] # Absent => file'[Cache[b]][u] # Absent
  BY <1>5, <1>6
<1>11. Step(p)
  BY DEF Step
<1> QED BY <1>7, <1>8, <1>9, <1>10, <1>11, PassesStep

\* A file that is closed has the version that was copied.
LEMMA ClosePasses ==
  ASSUME TornInv, Isolated, CopyInv, NEW p \in Process, Step(p),
         pc[p] \in {"copy", "write"}, pc'[p] \notin {"copy", "write"},
         NEW d \in Place, Close(p, d, at[p]), Uses(p, d)
  PROVE  Passes
<1>1. at[p] \in State /\ TypeInv /\ Holding
  BY BusyType DEF TornInv
<1>2. {q \in Process \ {p} : Writes(q, d, at[p])} = {}
  BY <1>1, ReadersAndWritersUse, OneUser
<1>3. PICK c \in {Absent, copy[p]} :
        /\ file' = [file EXCEPT ![d] = [file[d] EXCEPT ![at[p]] = c]]
        /\ c = Absent <=> file[d][at[p]] = Absent
  <2>1. copy[p] # Absent
    BY DEF CopyInv
  <2> QED BY <1>2, <2>1 DEF Close
<1>4. file \in [Place -> [State -> Content]] /\ Cache \in [Process -> Place]
  BY PlacesAssumption DEF TornInv, TypeInv, TypeOK
<1>5. \A e \in Place, u \in State :
        file'[e][u] = IF e = d /\ u = at[p] THEN c ELSE file[e][u]
  BY <1>1, <1>3, <1>4
<1>6. Copying(p, at[p])
  BY DEF Copying
<1>7. \A e \in Place, u \in State :
        file'[e][u] \in {Absent, Torn, file[e][u]} \/ (Copying(p, u) /\ file'[e][u] = copy[p])
  BY <1>3, <1>5, <1>6
<1>8. \A e \in Place, u \in State : file'[e][u] # Absent => Sighted(u)
  BY <1>3, <1>5 DEF Sighted
<1>9. \A u \in State : ~Copying(p, u)'
  BY DEF Copying
<1>10. \A b \in Process, u \in State :
         Builds(b, u) /\ file[Cache[b]][u] # Absent => file'[Cache[b]][u] # Absent
  BY <1>3, <1>4, <1>5
<1> QED BY <1>7, <1>8, <1>9, <1>10, PassesStep

\* Every step but the build of a state passes on what is there.
LEMMA Passing ==
  ASSUME TornInv, PlanInv, Isolated, BuiltOnce, CopyInv,
         NEW p \in Process, Begin(p) \/ Step(p), pc'[p] # "write"
  PROVE  Passes
<1>0. TypeInv /\ Moves(p)
  BY MovesNext DEF TornInv
<1>1. \/ file' = file
      \/ OpenCopy(p) \/ CloseCopy(p) \/ SetOwn(p) \/ CloseSet(p) \/ UnsetOwn(p) \/ Delete(p)
  BY DEF Begin, Step, Check, Choose, Look, Compare, Lock, Hash, Depend, Restore, SetOthers,
         LockTimeout
<1>2. CASE pc'[p] = "copy"
  <2>1. pc[p] = "open"
    BY <1>0, <1>2 DEF Moves
  <2> QED BY <1>0, <1>2, <2>1, StepAt, OpenPasses
<1>3. CASE pc'[p] # "copy" /\ file' = file
  BY <1>3, QuietPasses
<1>4. CASE pc'[p] # "copy" /\ CloseCopy(p)
  <2>1. pc[p] = "copy" /\ Close(p, Target(p), at[p]) /\ Step(p)
    BY <1>4 DEF CloseCopy, At, Step
  <2>2. Target(p) \in Place /\ Uses(p, Target(p))
    BY <1>0, <2>1, SourceType DEF AtSource, Uses, Target
  <2> QED BY <1>4, <2>1, <2>2, ClosePasses
<1>5. CASE pc'[p] # "copy" /\ CloseSet(p)
  <2>1. pc[p] = "write" /\ Close(p, Cache[p], at[p]) /\ Step(p)
    BY <1>5 DEF CloseSet, At, Step
  <2>2. Cache[p] \in Place /\ Uses(p, Cache[p])
    BY <2>1, PlacesAssumption DEF Uses
  <2> QED BY <1>5, <2>1, <2>2, ClosePasses
<1>6. CASE pc'[p] # "copy" /\ UnsetOwn(p)
  <2>1. pc[p] = "own" /\ op[p].kind = "unset"
    BY <1>6 DEF UnsetOwn, At
  <2>2. op[p] # NoOp /\ op[p].state \in State /\ Cache[p] \in Place
    BY <1>0, <2>1, BusyType, PlacesAssumption DEF Operation
  <2>3. CASE "own" \in op[p].scopes /\ file' = [file EXCEPT ![Cache[p]][op[p].state] = Absent]
    <3>1. ~Builds(p, op[p].state)
      BY <1>0, <2>1, <2>2, <2>3, OwnPlan
    <3>2. \A b \in Process : Builds(b, op[p].state) => Cache[p] # Cache[b]
      BY <3>1 DEF Isolated
    <3> QED BY <1>6, <2>2, <2>3, <3>2, RemovePasses
  <2> QED BY <1>3, <1>6, <2>3 DEF UnsetOwn
<1>7. CASE pc'[p] # "copy" /\ Delete(p)
  <2> DEFINE d == CurrentSource(p).place
  <2>1. pc[p] = "delete" /\ pc[p] \in AtSource
    BY <1>7 DEF Delete, At, AtSource
  <2>2. d \in Place /\ at[p] \in State /\ \A b \in Process : d # Cache[b]
    BY <1>0, <2>1, BusyType, SourceType, SourceApart
  <2>3. CASE file' = [file EXCEPT ![d][at[p]] = Absent]
    <3> HIDE DEF d
    <3> QED BY <1>7, <2>2, <2>3, RemovePasses
  <2> QED BY <1>3, <1>7, <2>3 DEF Delete
<1>8. CASE SetOwn(p)
  <2>1. CASE file' = file
    BY <1>2, <1>3, <2>1
  <2>2. CASE Goto(p, "write")
    BY <1>0, <2>2 DEF Goto, TypeInv, TypeOK
  <2> QED BY <1>8, <2>1, <2>2 DEF SetOwn
<1>9. CASE pc'[p] # "copy" /\ OpenCopy(p)
  <2>1. CASE Goto(p, "copy")
    BY <1>0, <1>9, <2>1 DEF Goto, TypeInv, TypeOK
  <2> QED BY <1>3, <1>9, <2>1 DEF OpenCopy
<1> QED BY <1>1, <1>2, <1>3, <1>4, <1>5, <1>6, <1>7, <1>8, <1>9

\* A builder starts to write a state that is nowhere yet, and on top of which
\* there is nothing, from the version below that it has in its own pool.
LEMMA Building ==
  ASSUME TornInv, PlanInv, Isolated, BuiltOnce, BuiltInv, FreshInv,
         NEW p \in Process, Begin(p) \/ Step(p), pc'[p] = "write",
         NEW s, s = op[p].state
  PROVE  /\ s \in State /\ Builds(p, s)
         /\ \A u \in State : u = s \/ Backing[u] = s => ~Sighted(u)
         /\ copy'[p] \in Content \ {Absent, Torn}
         /\ Backing[s] # NoState =>
              /\ file[Cache[p]][Backing[s]] \in Content \ {Absent, Torn}
              /\ Tail(copy'[p]) = file[Cache[p]][Backing[s]]
         /\ \A d \in Place, u \in State :
              file'[d][u] = IF d = Cache[p] /\ u = s THEN Torn ELSE file[d][u]
         /\ \A u \in State : Copying(p, u)' => u = s
<1>0. TypeInv /\ Moves(p)
  BY MovesNext DEF TornInv
<1>1. pc[p] = "own" /\ op[p].kind = "set"
  BY <1>0 DEF Moves
<1>2. op[p] # NoOp /\ s \in State /\ Cache[p] \in Place /\ at[p] = s
  BY <1>0, <1>1, BusyType, PlacesAssumption DEF Operation, TypeInv, Shape
<1>3. SetOwn(p)
  <2>1. SetOwn(p) \/ SetOthers(p) \/ UnsetOwn(p)
    BY <1>0, <1>1, StepAt
  <2>2. ~SetOthers(p)
    BY <1>0, EndMoves DEF SetOthers, Goto, TypeInv, TypeOK
  <2> QED BY <1>1, <2>1, <2>2 DEF UnsetOwn
<1> DEFINE base == IF working[p] = s THEN file[Cache[p]][s] ELSE Below(p, s)
           below == IF working[p] = s THEN Tail(base) ELSE base
<1>4. /\ base \notin {Absent, Torn}
      /\ Open(p, Cache[p], s, <<made + 1>> \o below, working[p] = s)
      /\ "own" \in op[p].scopes /\ at' = at
  <2>1. ~End(p, "failed")
    BY <1>0, EndMoves
  <2> QED BY <1>3, <2>1 DEF SetOwn
<1>5. file[Cache[p]][s] = Absent
  BY <1>1, <1>4 DEF FreshInv
<1>6. working[p] # s /\ base = Below(p, s) /\ below = base
  BY <1>4, <1>5
<1>7. Builds(p, s)
  BY <1>0, <1>1, <1>2, <1>4, OwnPlan
<1>8. ~Built(s)
  BY <1>2, <1>5, <1>7 DEF Built, BuiltOnce
<1>9. \A u \in State : u = s \/ Backing[u] = s => ~Sighted(u)
  BY <1>2, <1>8, FilesAssumption DEF BuiltInv
<1>10. copy'[p] = <<made + 1>> \o Below(p, s)
  BY <1>4, <1>6 DEF Open
<1>11. copy'[p] \in Content \ {Absent, Torn}
  BY <1>0, <1>2, <1>4, <1>6, <1>10, VersionType
<1>12. file \in [Place -> [State -> Content]] /\ made \in Nat
  BY <1>0 DEF TypeInv, TypeOK
<1>13. ASSUME Backing[s] # NoState
       PROVE  /\ file[Cache[p]][Backing[s]] \in Content \ {Absent, Torn}
              /\ Tail(copy'[p]) = file[Cache[p]][Backing[s]]
  <2>1. Backing[s] \in State /\ Below(p, s) = file[Cache[p]][Backing[s]]
    BY <1>2, <1>13, FilesAssumption DEF Below
  <2>2. file[Cache[p]][Backing[s]] \in Content \ {Absent, Torn}
    BY <1>2, <1>4, <1>6, <1>12, <2>1
  <2>3. PICK c \in Seq(Nat) : c = file[Cache[p]][Backing[s]]
    BY <2>2 DEF Content
  <2>4. Tail(<<made + 1>> \o c) = c
    BY <1>12
  <2> QED BY <1>10, <2>1, <2>2, <2>3, <2>4
<1>14. \A d \in Place, u \in State :
         file'[d][u] = IF d = Cache[p] /\ u = s THEN Torn ELSE file[d][u]
  <2>1. file' = [file EXCEPT ![Cache[p]] = [file[Cache[p]] EXCEPT ![s] = Torn]]
    BY <1>4 DEF Open
  <2> QED BY <1>2, <1>12, <2>1
<1>15. \A u \in State : Copying(p, u)' => u = s
  BY <1>2, <1>4 DEF Copying
<1> QED BY <1>2, <1>7, <1>9, <1>11, <1>13, <1>14, <1>15

\* The versions after a build: the new one of the state, and no other new one.
LEMMA BuildVersions ==
  ASSUME TornInv, PlanInv, Isolated, BuiltOnce, BuiltInv, FreshInv,
         NEW p \in Process, Begin(p) \/ Step(p), pc'[p] = "write",
         NEW s, s = op[p].state, NEW u \in State
  PROVE  /\ u # s => Versions(u)' \subseteq Versions(u) /\ (Sighted(u)' => Sighted(u))
         /\ u = s => Versions(u)' \subseteq {copy'[p]}
         /\ Backing[u] = s /\ u # s => Versions(u)' = {}
         /\ Built(u) => Built(u)'
<1>1. /\ s \in State /\ Builds(p, s)
      /\ \A v \in State : v = s \/ Backing[v] = s => ~Sighted(v)
      /\ \A d \in Place, v \in State :
           file'[d][v] = IF d = Cache[p] /\ v = s THEN Torn ELSE file[d][v]
      /\ \A v \in State : Copying(p, v)' => v = s
  BY Building
<1>2. \A q \in Process \ {p} : copy'[q] = copy[q] /\ (Copying(q, u)' <=> Copying(q, u))
  BY Apart
<1>3. ~Sighted(u) => Versions(u) = {}
  <2> SUFFICES ASSUME ~Sighted(u), NEW c \in Versions(u) PROVE FALSE
    OBVIOUS
  <2> QED BY VersionIn DEF Sighted
<1>4. ASSUME NEW c \in Versions(u)' PROVE c \in Versions(u) \/ (u = s /\ c = copy'[p])
  <2>1. c # Absent /\ c # Torn
    BY VersionInNext
  <2>2. CASE \E d \in Place : c = file'[d][u]
    <3>1. PICK d \in Place : c = file'[d][u]
      BY <2>2
    <3>2. c = file[d][u]
      BY <1>1, <2>1, <3>1
    <3> QED BY <2>1, <3>2, VersionIn
  <2>3. CASE \E q \in Process : Copying(q, u)' /\ c = copy'[q]
    <3>1. PICK q \in Process : Copying(q, u)' /\ c = copy'[q]
      BY <2>3
    <3>2. CASE q = p
      BY <1>1, <3>1, <3>2
    <3>3. CASE q # p
      BY <1>2, <2>1, <3>1, <3>3, VersionIn
    <3> QED BY <3>2, <3>3
  <2> QED BY <2>2, <2>3, VersionInNext
<1>5. ASSUME u # s, Sighted(u)' PROVE Sighted(u)
  <2>1. CASE \E d \in Place : file'[d][u] # Absent
    BY <1>1, <1>5, <2>1 DEF Sighted
  <2>2. CASE \E q \in Process : Copying(q, u)'
    <3>1. PICK q \in Process : Copying(q, u)'
      BY <2>2
    <3>2. q # p
      BY <1>1, <1>5, <3>1
    <3> QED BY <1>2, <3>1, <3>2 DEF Sighted
  <2> QED BY <1>5, <2>1, <2>2 DEF Sighted
<1>6. ASSUME Built(u) PROVE Built(u)'
  <2>1. PICK b \in Process : Builds(b, u) /\ file[Cache[b]][u] # Absent
    BY <1>6 DEF Built
  <2>2. file'[Cache[b]][u] # Absent
    BY <1>1, <2>1, PlacesAssumption, FilesAssumption
  <2> QED BY <2>1, <2>2 DEF Built, Builds
<1> QED BY <1>1, <1>3, <1>4, <1>5, <1>6

\* The states that are there are the ones that were built.
LEMMA BuiltNext ==
  ASSUME TornInv, PlanInv, Isolated, BuiltOnce, CopyInv, BuiltInv, FreshInv,
         NEW p \in Process, Begin(p) \/ Step(p)
  PROVE  BuiltInv'
<1>0. Backing \in [State -> State \union {NoState}]
  BY FilesAssumption
<1>1. CASE pc'[p] # "write"
  <2>1. Passes
    BY <1>1, Passing
  <2> QED BY <1>0, <2>1 DEF Passes, BuiltInv
<1>2. CASE pc'[p] = "write"
  <2>0. PICK s : s = op[p].state
    OBVIOUS
  <2>1. /\ s \in State /\ Builds(p, s)
        /\ \A d \in Place, v \in State :
             file'[d][v] = IF d = Cache[p] /\ v = s THEN Torn ELSE file[d][v]
        /\ Backing[s] # NoState => file[Cache[p]][Backing[s]] \in Content \ {Absent, Torn}
    BY <1>2, <2>0, Building
  <2>2. Cache[p] \in Place /\ Torn # Absent
    BY PlacesAssumption, FilesAssumption
  <2>3. \A u \in State : Built(u) => Built(u)'
    BY <1>2, <2>0, BuildVersions
  <2>4. \A u \in State : u # s /\ Sighted(u)' => Sighted(u)
    BY <1>2, <2>0, BuildVersions
  <2>5. Built(s)'
    <3>1. file'[Cache[p]][s] # Absent
      BY <2>1, <2>2
    <3> QED BY <2>1, <3>1 DEF Built, Builds
  <2>6. ASSUME Backing[s] # NoState PROVE Built(Backing[s])'
    <3>1. Backing[s] \in State /\ Sighted(Backing[s])
      BY <1>0, <2>1, <2>2, <2>6 DEF Sighted
    <3>2. Built(Backing[s])
      BY <3>1 DEF BuiltInv
    <3> QED BY <2>3, <3>1, <3>2
  <2> SUFFICES ASSUME NEW u \in State, Sighted(u)'
               PROVE  Built(u)' /\ (Backing[u] # NoState => Built(Backing[u])')
    BY DEF BuiltInv
  <2>7. CASE u = s
    BY <2>5, <2>6, <2>7
  <2>8. CASE u # s
    <3>1. Built(u) /\ (Backing[u] # NoState => Built(Backing[u]))
      BY <2>4, <2>8 DEF BuiltInv
    <3> QED BY <1>0, <2>3, <3>1
  <2> QED BY <2>7, <2>8
<1> QED BY <1>1, <1>2

\* A state has one version, on top of the version below.
LEMMA VersionNext ==
  ASSUME TornInv, PlanInv, Isolated, BuiltOnce, CopyInv, BuiltInv, FreshInv, VersionInv,
         NEW p \in Process, Begin(p) \/ Step(p)
  PROVE  VersionInv'
<1>0. Backing \in [State -> State \union {NoState}]
  BY FilesAssumption
<1>1. CASE pc'[p] # "write"
  <2>1. \A u \in State : Versions(u)' \subseteq Versions(u)
    BY <1>1, Passing DEF Passes
  <2> QED BY <1>0, <2>1 DEF VersionInv
<1>2. CASE pc'[p] = "write"
  <2>0. PICK s : s = op[p].state
    OBVIOUS
  <2>1. /\ s \in State
        /\ \A v \in State : v = s \/ Backing[v] = s => ~Sighted(v)
        /\ copy'[p] \in Content \ {Absent, Torn}
        /\ Backing[s] # NoState =>
             /\ file[Cache[p]][Backing[s]] \in Content \ {Absent, Torn}
             /\ Tail(copy'[p]) = file[Cache[p]][Backing[s]]
    BY <1>2, <2>0, Building
  <2>2. \A u \in State : u # s => Versions(u)' \subseteq Versions(u)
    BY <1>2, <2>0, BuildVersions
  <2>3. \A u \in State : Backing[u] = s /\ u # s => Versions(u)' = {}
    BY <1>2, <2>0, BuildVersions
  <2>4. Versions(s)' \subseteq {copy'[p]}
    BY <1>2, <2>0, <2>1, BuildVersions
  <2>5. ASSUME Backing[s] # NoState
        PROVE  /\ Backing[s] \in State /\ Backing[s] # s
               /\ file[Cache[p]][Backing[s]] \in Versions(Backing[s])
    <3>1. Backing[s] \in State /\ Cache[p] \in Place
      BY <1>0, <2>1, <2>5, PlacesAssumption
    <3>2. Sighted(Backing[s])
      BY <2>1, <2>5, <3>1 DEF Sighted
    <3>3. file[Cache[p]][Backing[s]] \in Versions(Backing[s])
      BY <2>1, <2>5, <3>1, VersionIn
    <3> QED BY <2>1, <3>1, <3>2, <3>3
  <2> SUFFICES ASSUME NEW u \in State, NEW c \in Versions(u)'
               PROVE  /\ \A b \in Versions(u)' : b = c
                      /\ Backing[u] # NoState => \A b \in Versions(Backing[u])' : Tail(c) = b
    BY DEF VersionInv
  <2>6. CASE u = s
    <3>1. c = copy'[p] /\ \A b \in Versions(u)' : b = c
      BY <2>4, <2>6
    <3>2. ASSUME Backing[s] # NoState, NEW b \in Versions(Backing[s])' PROVE Tail(c) = b
      <4>1. b \in Versions(Backing[s])
        BY <2>2, <2>5, <3>2
      <4>2. b = file[Cache[p]][Backing[s]]
        BY <2>5, <3>2, <4>1 DEF VersionInv
      <4> QED BY <2>1, <3>1, <3>2, <4>2
    <3> QED BY <2>6, <3>1, <3>2
  <2>7. CASE u # s
    <3>1. c \in Versions(u) /\ Backing[u] # s
      BY <2>2, <2>3, <2>7
    <3>2. \A b \in Versions(u)' : b = c
      BY <2>2, <2>7, <3>1 DEF VersionInv
    <3>3. Backing[u] # NoState => Versions(Backing[u])' \subseteq Versions(Backing[u])
      BY <1>0, <2>2, <3>1
    <3> QED BY <1>0, <3>1, <3>2, <3>3 DEF VersionInv
  <2> QED BY <2>6, <2>7
<1> QED BY <1>1, <1>2

\* set_states goes on only with a state that is not there, unless it forces.
LEMMA FreshNext ==
  ASSUME TornInv, PlanInv, Isolated, BuiltOnce, FreshInv, NEW p \in Process, Begin(p) \/ Step(p)
  PROVE  FreshInv'
<1>0. TypeInv /\ Others(p) /\ Moves(p)
  BY Frame, MovesNext DEF TornInv
<1> SUFFICES ASSUME NEW q \in Process, pc'[q] = "own", op'[q].kind = "set",
                    "own" \in op'[q].scopes
             PROVE  file'[Cache[q]][op'[q].state] = Absent
  BY DEF FreshInv
<1>1. CASE q # p
  <2>1. pc[q] = "own" /\ op'[q] = op[q]
    BY <1>0, <1>1 DEF Others
  <2>2. file[Cache[q]][op[q].state] = Absent /\ op[q].state \in State
    BY <1>0, <2>1, BusyType DEF FreshInv, Operation
  <2> QED BY <1>1, <2>1, <2>2, Apart
<1>2. CASE q = p
  <2>1. op' = op /\ pc[p] = "check"
    BY <1>0, <1>2 DEF Moves
  <2>2. Check(p)
    BY <1>0, <1>2, <2>1, StepAt
  <2>3. Outcome(op[p], op[p].state \in Show(p)) = "go" /\ file' = file
    <3>1. \A exists : Outcome(op[p], exists) \in {"kept", "ignored", "aborted", "failed", "go"}
      BY DEF Outcome
    <3>2. \A outcome \in {"kept", "ignored", "aborted", "failed"} : ~End(p, outcome)
      BY <1>0, <1>2, EndMoves
    <3> QED BY <2>2, <3>1, <3>2 DEF Check
  <2>4. op[p] # NoOp /\ op[p] \in Operation /\ op[p].state \in State
    BY <1>0, <2>1, BusyType DEF Operation
  <2>5. op[p].mode[1] # "f"
    BY <1>0, <1>2, <2>1, <2>4, OwnPlan
  <2>6. op[p].state \notin Show(p)
    <3> SUFFICES ASSUME op[p].state \in Show(p) PROVE FALSE
      OBVIOUS
    <3>1. Outcome(op[p], TRUE) = "go"
      BY <2>3
    <3>2. op[p].mode[1] \in {"a", "r", "f"} /\ op[p].mode[1] \notin {"a", "r"}
      BY <1>2, <2>1, <3>1 DEF Outcome, Known
    <3> QED BY <2>5, <3>2
  <2>7. op[p].state \notin Listed(Cache[p])
    BY <1>2, <2>1, <2>6 DEF Show
  <2> QED BY <1>2, <2>1, <2>3, <2>4, <2>7 DEF Listed
<1> QED BY <1>1, <1>2

\* A process that writes has something to write.
LEMMA CopyNext ==
  ASSUME TornInv, PlanInv, Isolated, BuiltOnce, BuiltInv, FreshInv, CopyInv,
         NEW p \in Process, Begin(p) \/ Step(p)
  PROVE  CopyInv'
<1>0. TypeInv /\ Others(p) /\ Moves(p)
  BY Frame, MovesNext DEF TornInv
<1> SUFFICES ASSUME NEW q \in Process, pc'[q] \in {"copy", "write"} PROVE copy'[q] # Absent
  BY DEF CopyInv
<1>1. CASE q # p
  <2>1. pc[q] = pc'[q] /\ copy'[q] = copy[q]
    BY <1>0, <1>1, Apart DEF Others
  <2> QED BY <2>1 DEF CopyInv
<1>2. CASE q = p /\ pc'[p] = "copy"
  <2>1. OpenCopy(p)
    BY <1>0, <1>2, StepAt DEF Moves
  <2>2. ~End(p, "failed")
    BY <1>0, <1>2, EndMoves
  <2> QED BY <1>2, <2>1, <2>2 DEF OpenCopy, Open
<1>3. CASE q = p /\ pc'[p] = "write"
  BY <1>3, Building
<1> QED BY <1>1, <1>2, <1>3

\* A restored chain is whole: no file of it is missing or torn, and each is on
\* top of the only version of the state below.
LEMMA RestoredWhole ==
  ASSUME TornInv, Isolated, kills = 0, VersionInv, NEW p \in Process, pc[p] = "restore",
         NEW s \in State, Absent \notin {file[Cache[p]][t] : t \in Chain(s)}
  PROVE  Whole(Cache[p], s)
<1>1. Cache[p] \in Place /\ Chain(s) \subseteq State /\ TypeInv
  BY PlacesAssumption, ChainSplit DEF TornInv
<1>2. ASSUME NEW t \in Chain(s) PROVE file[Cache[p]][t] \notin {Absent, Torn}
  <2>1. ASSUME file[Cache[p]][t] = Torn PROVE FALSE
    <3>1. PICK q \in Process : Writes(q, Cache[p], t)
      BY <1>1, <2>1 DEF TornInv, NothingTorn
    <3>2. q # p
      BY <3>1 DEF Writes, At
    <3>3. Cache[q] # Cache[p]
      BY <3>2 DEF Isolated
    <3>4. pc[q] = "copy" => CurrentSource(q).place # Cache[p]
      BY <1>1, SourceApart DEF AtSource
    <3> QED BY <3>1, <3>3, <3>4 DEF Writes, At, Target
  <2> QED BY <2>1
<1>3. ASSUME NEW t \in Chain(s), Backing[t] # NoState
      PROVE  Tail(file[Cache[p]][t]) = file[Cache[p]][Backing[t]]
  <2>1. Backing[t] \in Chain(s)
    BY <1>3, ChainDown
  <2>2. file[Cache[p]][t] \in Versions(t) /\ file[Cache[p]][Backing[t]] \in Versions(Backing[t])
    BY <1>1, <1>2, <2>1, VersionIn
  <2>3. t \in State
    BY <1>1
  <2>4. \A c \in Versions(t), b \in Versions(Backing[t]) : Tail(c) = b
    BY <1>3, <2>3 DEF VersionInv
  <2> QED BY <2>2, <2>4
<1> QED BY <1>2, <1>3 DEF Whole

\* A process that has got a state keeps the chain until its next operation.
LEMMA GotNext ==
  ASSUME TornInv, PlanInv, StageInv, Isolated, BuiltOnce, kills = 0, VersionInv, GotWhole,
         NEW p \in Process, Begin(p) \/ Step(p)
  PROVE  GotWhole'
<1>0. TypeInv /\ Others(p) /\ Moves(p)
  BY Frame, MovesNext DEF TornInv
<1> SUFFICES ASSUME NEW q \in Process, Ended(q, "get")' PROVE Whole(Cache[q], op[q].state)'
  BY DEF GotWhole
<1>1. pc'[q] = "idle" /\ op'[q].kind = "get" /\ last'[q] = "done"
  BY DEF Ended, At
<1>2. op'[q] # NoOp /\ op'[q].state \in State
  <2>1. TypeInv'
    BY <1>0, TypeNext DEF Next
  <2>2. op'[q] \in Operation \union {NoOp} /\ op'[q] # NoOp
    BY <1>1, <2>1 DEF NoOp, TypeInv, TypeOK
  <2> QED BY <2>2 DEF Operation
<1>3. ASSUME op'[q].state = op[q].state, Whole(Cache[q], op[q].state),
             \A t \in State : file'[Cache[q]][t] = file[Cache[q]][t]
      PROVE  Whole(Cache[q], op[q].state)'
  <2>1. Chain(op[q].state) \subseteq State
    BY <1>2, <1>3, ChainSplit
  <2>2. \A t \in Chain(op[q].state) : Backing[t] # NoState => Backing[t] \in State
    BY <2>1, FilesAssumption
  <2> QED BY <1>3, <2>1, <2>2 DEF Whole
<1>4. CASE q # p
  <2>1. op'[q] = op[q] /\ pc[q] = "idle" /\ last'[q] = last[q]
    BY <1>0, <1>1, <1>4, LastFrame DEF Others, TypeInv, TypeOK
  <2>2. Whole(Cache[q], op[q].state)
    BY <1>1, <2>1 DEF GotWhole, Ended, At
  <2> QED BY <1>3, <1>4, <2>1, <2>2, Apart
<1>5. CASE q = p
  <2>1. op' = op
    BY <1>0, <1>1, <1>5, OpMoves
  <2>2. "own" \in op[p].scopes
    <3>1. op[p] # NoOp
      BY <1>2, <1>5, <2>1
    <3>2. PICK o \in Plan[p] : op[p] = o \/ op[p] = Unsetting(o)
      BY <3>1 DEF PlanInv
    <3>3. Unsetting(o).kind = "unset"
      BY PlacesAssumption DEF Unsetting, Operation
    <3> QED BY <1>1, <1>5, <2>1, <3>2, <3>3 DEF BuiltOnce
  <2>3. pc[p] = "restore"
    <3>1. pc[p] = "choose" \/ pc[p] = "restore"
      BY <1>0, <1>1, <1>5 DEF Moves
    <3>2. ASSUME pc[p] = "choose" PROVE FALSE
      <4>1. Choose(p)
        BY <1>0, <1>1, <1>5, <3>2, StepAt
      <4>2. \E l : l # "idle" /\ Goto(p, l)
        <5>1. op[p].kind = "get"
          BY <1>1, <1>5, <2>1
        <5> QED BY <2>2, <4>1, <5>1 DEF Choose
      <4> QED BY <1>0, <1>1, <1>5, <4>2 DEF Goto, TypeInv, TypeOK
    <3> QED BY <3>1, <3>2
  <2>4. Restore(p)
    BY <1>0, <1>1, <1>5, <2>3, StepAt
  <2>5. Absent \notin {file[Cache[p]][t] : t \in Chain(op[p].state)} /\ file' = file
    <3>1. ~End(p, "failed")
      BY <1>0, <1>1, <1>5, EndMoves
    <3> QED BY <2>4, <3>1 DEF Restore
  <2>6. Whole(Cache[p], op[p].state)
    BY <1>2, <1>5, <2>1, <2>3, <2>5, RestoredWhole
  <2> QED BY <1>3, <1>5, <2>1, <2>5, <2>6
<1> QED BY <1>4, <1>5

\* QCOW2ImageTransfer.get ("transferring its entire chain of dependencies"): with
\* isolated pools, each state built once and no process killed, a get that
\* succeeds has the whole chain of the state, however it interleaves with the
\* builds, uploads, removals and lock timeouts of the others.
THEOREM GetsWhole ==
  ASSUME Isolated, BuiltOnce
  PROVE  Spec => [](kills = 0 => GotWhole)
<1> DEFINE Inv == TornInv /\ PlanInv /\ StageInv /\ WholeInv
<1>1. Init => Inv
  <2> SUFFICES ASSUME Init PROVE Inv
    OBVIOUS
  <2>1. \A p \in Process : pc[p] = "idle" /\ last[p] = "none"
    BY DEF Init
  <2>2. \A s \in State : ~Sighted(s)
    BY <2>1 DEF Init, Sighted, Copying
  <2>3. \A s \in State : Versions(s) = {}
    <3> SUFFICES ASSUME NEW s \in State, NEW c \in Versions(s) PROVE FALSE
      OBVIOUS
    <3> QED BY <2>2, VersionIn DEF Sighted
  <2>4. BuiltInv /\ FreshInv /\ CopyInv /\ VersionInv /\ GotWhole
    BY <2>1, <2>2, <2>3 DEF BuiltInv, FreshInv, CopyInv, VersionInv, GotWhole, Ended
  <2> QED BY <2>4, TornInit, StageInit DEF WholeInv
<1>2. Inv /\ [Next]_vars => Inv'
  <2> SUFFICES ASSUME Inv, [Next]_vars PROVE Inv'
    OBVIOUS
  <2>1. TornInv' /\ PlanInv' /\ StageInv'
    BY TornNext, PlanNext, StageNext DEF TornInv
  <2>2. CASE UNCHANGED vars
    <3>1. /\ \A s : Sighted(s)' <=> Sighted(s)
          /\ \A s : Built(s)' <=> Built(s)
          /\ \A s : Versions(s)' = Versions(s)
      BY <2>2 DEF vars, procVars, Sighted, Built, Builds, Versions, Copying
    <3>2. BuiltInv' <=> BuiltInv
      BY <3>1 DEF BuiltInv
    <3>3. VersionInv' <=> VersionInv
      BY <3>1 DEF VersionInv
    <3>4. (FreshInv' <=> FreshInv) /\ (CopyInv' <=> CopyInv)
      BY <2>2 DEF FreshInv, CopyInv, vars, procVars
    <3>5. GotWhole' <=> GotWhole
      BY <2>2 DEF GotWhole, Ended, Whole, At, vars, procVars
    <3> QED BY <2>1, <2>2, <3>2, <3>3, <3>4, <3>5 DEF WholeInv, vars
  <2>3. ASSUME NEW p \in Process, Kill(p) PROVE WholeInv'
    <3>1. kills' # 0
      BY <2>3, PlacesAssumption DEF Kill, TornInv, TypeInv, TypeOK
    <3> QED BY <3>1 DEF WholeInv
  <2>4. ASSUME NEW p \in Process, Begin(p) \/ Step(p) PROVE WholeInv'
    <3>1. kills' = kills
      BY <2>4 DEF Begin, Step, Check, Choose, Look, Compare, Lock, Hash, OpenCopy, CloseCopy,
                  Depend, Restore, SetOwn, SetOthers, CloseSet, UnsetOwn, Delete, LockTimeout
    <3> SUFFICES ASSUME kills = 0
                 PROVE  BuiltInv' /\ FreshInv' /\ CopyInv' /\ VersionInv' /\ GotWhole'
      BY <3>1 DEF WholeInv
    <3>2. BuiltInv /\ FreshInv /\ CopyInv /\ VersionInv /\ GotWhole
      BY DEF WholeInv
    <3> QED BY <2>4, <3>2, BuiltNext, FreshNext, CopyNext, VersionNext, GotNext
  <2> QED BY <2>1, <2>2, <2>3, <2>4 DEF Next
<1>3. Inv => (kills = 0 => GotWhole)
  BY DEF WholeInv
<1> QED BY <1>1, <1>2, <1>3, PTL DEF Spec

=============================================================================
