---------------------------- MODULE MonitorProofs ----------------------------
(***************************************************************************)
(* Proofs for Monitor, for any number of threads, calls and events.        *)
(*                                                                         *)
(* Everything rests on LockInv: a thread inside a call is the only holder  *)
(* of the lock.  RightAnswer needs no more than that ids are those of the  *)
(* calls; RawAnswer needs RawInv: as long as no command has given up, at   *)
(* most one exchange is under way, that of the thread which waits for it.  *)
(* EventsInv is NoEventLost, stated for the two lists apart.               *)
(***************************************************************************)
EXTENDS Monitor, SequenceTheorems, TLAPS

\* A thread that is past the lock is the one that holds it.
LockInv ==
  /\ \A t \in Thread : pc[t] \notin {"idle", "lock"} => lock = {t}
  /\ LockGivenBack

\* Calls are what Call makes of them.
CallInv ==
  \A t \in Thread :
    /\ pc[t] # "idle" => call[t] \in Calls /\ call[t].since <= emitted
    /\ call[t].kind = "cmd" => call[t].tag = call[t].id /\ call[t].id > 0
    /\ call[t].tag \in {0, call[t].id}

\* Commands that QEMU has, and its answers, carry no id or their own.
IdInv ==
  /\ \A i \in DOMAIN answers : answers[i].id \in {0, answers[i].to}
  /\ \A i \in DOMAIN asked : asked[i].tag \in {0, asked[i].id}
  /\ ~up => asked = <<>>

\* One exchange at a time.
RawInv ==
  ~gaveup =>
    /\ asked = <<>> \/ answers = <<>>
    /\ Len(asked) <= 1 /\ Len(answers) <= 1
    /\ \A i \in DOMAIN asked : \E t \in Thread : pc[t] = "recv" /\ asked[i].id = call[t].id
    /\ \A i \in DOMAIN answers : \E t \in Thread : pc[t] = "recv" /\ answers[i].to = call[t].id

\* Events in the order of emission.
Ordered(s) == \A i, j \in DOMAIN s : i < j => s[i].id < s[j].id

\* Events that can still be found, and those that cannot.
Held == ToSet(events) \union ToSet(arrived)
Gone == cleared \union dropped

\* The lists are in the order of emission, every event is somewhere, and only
\* in one place.
EventsInv ==
  /\ Ordered(events) /\ Ordered(arrived)
  /\ \A o \in ToSet(events), q \in ToSet(arrived) : o.id < q.id
  /\ {o.id : o \in Held \union Gone} = 1..emitted
  /\ Held \intersect Gone = {}

\* After its read, clear_event knows all events from before the call.
StaleInv ==
  \A t \in Thread : pc[t] = "pick" => \A o \in ToSet(arrived) : o.id > call[t].since

-----------------------------------------------------------------------------
(* Sequences.                                                              *)

\* A sequence without its last element.
LEMMA FrontProperties ==
  ASSUME NEW S, NEW s \in Seq(S), s # <<>>
  PROVE  /\ Front(s) \in Seq(S) /\ Last(s) \in S
         /\ Len(Front(s)) = Len(s) - 1
         /\ \A i \in 1..Len(s) - 1 : Front(s)[i] = s[i]
         /\ ToSet(s) = ToSet(Front(s)) \union {Last(s)}
<1>1. Len(s) \in Nat /\ Len(s) >= 1 /\ DOMAIN s = 1..Len(s) /\ \A i \in 1..Len(s) : s[i] \in S
  OBVIOUS
<1>2. /\ Front(s) \in Seq(S) /\ Len(Front(s)) = Len(s) - 1
      /\ \A i \in 1..Len(s) - 1 : Front(s)[i] = s[i]
  BY <1>1 DEF Front
<1>3. DOMAIN Front(s) = 1..Len(s) - 1
  BY <1>2
<1> QED BY <1>1, <1>2, <1>3 DEF ToSet, Last

\* A sequence without one of its elements.
LEMMA RemoveAtProperties ==
  ASSUME NEW S, NEW s \in Seq(S), NEW i \in DOMAIN s
  PROVE  /\ RemoveAt(s, i) \in Seq(S)
         /\ Len(RemoveAt(s, i)) = Len(s) - 1
         /\ \A j \in 1..Len(s) - 1 : RemoveAt(s, i)[j] = IF j < i THEN s[j] ELSE s[j + 1]
         /\ ToSet(s) = ToSet(RemoveAt(s, i)) \union {s[i]}
<1> DEFINE a == SubSeq(s, 1, i - 1)
           b == SubSeq(s, i + 1, Len(s))
           r == RemoveAt(s, i)
<1>1. Len(s) \in Nat /\ i \in 1..Len(s) /\ \A j \in 1..Len(s) : s[j] \in S
  OBVIOUS
<1>2. a \in Seq(S) /\ Len(a) = i - 1 /\ \A j \in 1..i - 1 : a[j] = s[j]
  BY <1>1
<1>3. b \in Seq(S) /\ Len(b) = Len(s) - i /\ \A j \in 1..Len(s) - i : b[j] = s[i + j]
  BY <1>1
<1> HIDE DEF a, b
<1>4. r = a \o b
  BY DEF RemoveAt, a, b
<1>5. r \in Seq(S) /\ Len(r) = Len(s) - 1
  BY <1>1, <1>2, <1>3, <1>4
<1>6. \A j \in 1..Len(s) - 1 : r[j] = IF j < i THEN s[j] ELSE s[j + 1]
  BY <1>1, <1>2, <1>3, <1>4
<1> HIDE DEF r
<1>7. ToSet(s) = ToSet(r) \union {s[i]}
  <2>1. DOMAIN r = 1..Len(s) - 1 /\ DOMAIN s = 1..Len(s)
    BY <1>5
  <2>2. ASSUME NEW j \in DOMAIN s, j # i PROVE s[j] \in ToSet(r)
    <3>1. CASE j < i BY <1>1, <1>6, <2>1, <2>2, <3>1 DEF ToSet
    <3>2. CASE j > i
      <4>1. j - 1 \in DOMAIN r /\ r[j - 1] = s[j] BY <1>1, <1>6, <2>1, <3>2
      <4> QED BY <4>1 DEF ToSet
    <3> QED BY <1>1, <2>1, <2>2, <3>1, <3>2
  <2>3. ASSUME NEW j \in DOMAIN r PROVE r[j] \in ToSet(s)
    <3>1. j \in DOMAIN s /\ j + 1 \in DOMAIN s BY <1>1, <2>1
    <3> QED BY <1>6, <2>1, <3>1 DEF ToSet
  <2> QED BY <2>2, <2>3 DEF ToSet
<1> QED BY <1>5, <1>6, <1>7 DEF r

\* The elements of a longer sequence.
LEMMA ConcatSet ==
  ASSUME NEW S, NEW s \in Seq(S), NEW t \in Seq(S)
  PROVE  ToSet(s \o t) = ToSet(s) \union ToSet(t)
<1>1. ASSUME NEW i \in DOMAIN (s \o t) PROVE (s \o t)[i] \in ToSet(s) \union ToSet(t)
  <2>1. CASE i <= Len(s) BY <2>1 DEF ToSet
  <2>2. CASE i > Len(s)
    <3>1. i - Len(s) \in DOMAIN t /\ (s \o t)[i] = t[i - Len(s)] BY <2>2
    <3> QED BY <3>1 DEF ToSet
  <2> QED BY <2>1, <2>2
<1>2. ASSUME NEW i \in DOMAIN s PROVE s[i] \in ToSet(s \o t)
  BY DEF ToSet
<1>3. ASSUME NEW i \in DOMAIN t PROVE t[i] \in ToSet(s \o t)
  <2>1. Len(s) + i \in DOMAIN (s \o t) /\ (s \o t)[Len(s) + i] = t[i] OBVIOUS
  <2> QED BY <2>1 DEF ToSet
<1> QED BY <1>1, <1>2, <1>3 DEF ToSet

\* A sequence with one more element.
LEMMA AppendElements ==
  ASSUME NEW S, NEW s \in Seq(S), NEW o \in S
  PROVE  /\ Append(s, o) \in Seq(S) /\ Len(Append(s, o)) = Len(s) + 1
         /\ \A i \in DOMAIN Append(s, o) :
              Append(s, o)[i] = o \/ (i \in DOMAIN s /\ Append(s, o)[i] = s[i])
<1>1. /\ Append(s, o) \in Seq(S) /\ Len(Append(s, o)) = Len(s) + 1
      /\ \A i \in 1..Len(s) : Append(s, o)[i] = s[i]
      /\ Append(s, o)[Len(s) + 1] = o
  OBVIOUS
<1>2. DOMAIN Append(s, o) = 1..Len(s) + 1 /\ DOMAIN s = 1..Len(s) /\ Len(s) \in Nat
  BY <1>1
<1>3. ASSUME NEW i \in DOMAIN Append(s, o)
      PROVE  Append(s, o)[i] = o \/ (i \in DOMAIN s /\ Append(s, o)[i] = s[i])
  <2>1. i = Len(s) + 1 \/ i \in 1..Len(s)
    BY <1>2
  <2>2. CASE i = Len(s) + 1 BY <1>1, <2>2
  <2>3. CASE i \in 1..Len(s) BY <1>1, <1>2, <2>3
  <2> QED BY <2>1, <2>2, <2>3
<1> QED BY <1>1, <1>3

\* The elements with one more.
LEMMA AppendSet ==
  ASSUME NEW S, NEW s \in Seq(S), NEW o \in S
  PROVE  /\ Append(s, o) \in Seq(S)
         /\ ToSet(Append(s, o)) = ToSet(s) \union {o}
<1>1. /\ Append(s, o) \in Seq(S) /\ Len(Append(s, o)) = Len(s) + 1
      /\ \A i \in 1..Len(s) : Append(s, o)[i] = s[i]
      /\ Append(s, o)[Len(s) + 1] = o
  OBVIOUS
<1>2. DOMAIN Append(s, o) = DOMAIN s \union {Len(s) + 1}
  BY <1>1
<1> QED BY <1>1, <1>2 DEF ToSet

\* Order is kept when a sequence is cut or a later one is appended.
LEMMA OrderedFront ==
  ASSUME NEW s \in Seq(Events), s # <<>>, Ordered(s)
  PROVE  Ordered(Front(s)) /\ \A o \in ToSet(Front(s)) : o.id < Last(s).id
<1>1. Len(s) \in Nat /\ DOMAIN s = 1..Len(s) /\ DOMAIN Front(s) = 1..Len(s) - 1
  BY FrontProperties
<1>2. \A i \in 1..Len(s) - 1 : Front(s)[i] = s[i]
  BY FrontProperties
<1> QED BY <1>1, <1>2 DEF Ordered, ToSet, Last

LEMMA OrderedRemoveAt ==
  ASSUME NEW s \in Seq(Events), NEW i \in DOMAIN s, Ordered(s)
  PROVE  Ordered(RemoveAt(s, i)) /\ s[i] \notin ToSet(RemoveAt(s, i))
<1> DEFINE r == RemoveAt(s, i)
<1>1. Len(s) \in Nat /\ DOMAIN s = 1..Len(s) /\ DOMAIN r = 1..Len(s) - 1
  BY RemoveAtProperties
<1>2. \A j \in 1..Len(s) - 1 : r[j] = IF j < i THEN s[j] ELSE s[j + 1]
  BY RemoveAtProperties
<1>3. ASSUME NEW j \in DOMAIN s PROVE s[j].id \in Nat
  <2>1. s[j] \in Events OBVIOUS
  <2> QED BY <2>1 DEF Events
<1> HIDE DEF r
<1>4. ASSUME NEW j \in DOMAIN r, NEW k \in DOMAIN r, j < k PROVE r[j].id < r[k].id
  <2>1. r[j] = (IF j < i THEN s[j] ELSE s[j + 1]) /\ r[k] = IF k < i THEN s[k] ELSE s[k + 1]
    BY <1>1, <1>2
  <2>2. j \in DOMAIN s /\ k \in DOMAIN s /\ j + 1 \in DOMAIN s /\ k + 1 \in DOMAIN s
    BY <1>1
  <2> QED BY <1>1, <1>4, <2>1, <2>2 DEF Ordered
<1>5. ASSUME NEW j \in DOMAIN r PROVE r[j].id # s[i].id
  <2>1. r[j] = IF j < i THEN s[j] ELSE s[j + 1]
    BY <1>1, <1>2
  <2>2. j \in DOMAIN s /\ j + 1 \in DOMAIN s
    BY <1>1
  <2>3. CASE j < i
    <3>1. s[j].id < s[i].id BY <2>2, <2>3 DEF Ordered
    <3> QED BY <1>3, <2>1, <2>2, <2>3, <3>1
  <2>4. CASE ~ (j < i)
    <3>1. s[i].id < s[j + 1].id BY <1>1, <2>2, <2>4 DEF Ordered
    <3> QED BY <1>3, <2>1, <2>2, <2>4, <3>1
  <2> QED BY <2>3, <2>4
<1> QED BY <1>4, <1>5 DEF r, ToSet, Ordered

LEMMA OrderedConcat ==
  ASSUME NEW s \in Seq(Events), NEW t \in Seq(Events), Ordered(s), Ordered(t),
         \A o \in ToSet(s), q \in ToSet(t) : o.id < q.id
  PROVE  Ordered(s \o t)
<1>1. /\ Len(s) \in Nat /\ Len(t) \in Nat /\ DOMAIN s = 1..Len(s) /\ DOMAIN t = 1..Len(t)
      /\ DOMAIN (s \o t) = 1..Len(s) + Len(t)
      /\ \A i \in 1..Len(s) + Len(t) : (s \o t)[i] = IF i <= Len(s) THEN s[i] ELSE t[i - Len(s)]
  OBVIOUS
<1>2. \A i \in DOMAIN s, j \in DOMAIN t : s[i].id < t[j].id
  BY DEF ToSet
<1> SUFFICES ASSUME NEW i \in DOMAIN (s \o t), NEW j \in DOMAIN (s \o t), i < j
             PROVE  (s \o t)[i].id < (s \o t)[j].id
  BY DEF Ordered
<1>3. CASE j <= Len(s) BY <1>1, <1>3 DEF Ordered
<1>4. CASE i <= Len(s) /\ j > Len(s) BY <1>1, <1>2, <1>4
<1>5. CASE i > Len(s)
  <2>1. i - Len(s) \in DOMAIN t /\ j - Len(s) \in DOMAIN t /\ i - Len(s) < j - Len(s)
    BY <1>1, <1>5
  <2> QED BY <1>1, <1>5, <2>1 DEF Ordered
<1> QED BY <1>1, <1>3, <1>4, <1>5

-----------------------------------------------------------------------------
(* Types.                                                                  *)

\* What a read gets to see of the answers is the beginning of them, and what it
\* leaves behind (_read_objects).
LEMMA ReadResult ==
  ASSUME StreamTypes, NEW ans \in Readable, ReadObjects(ans)
  PROVE  /\ arrived' = <<>> /\ answers' = <<>>
         /\ ans \in Seq(Answers) /\ Len(ans) <= Len(answers)
         /\ \A i \in DOMAIN ans : i \in DOMAIN answers /\ ans[i] = answers[i]
         /\ events' \in Seq(Events) /\ dropped' \subseteq Events
<1>1. arrived' = <<>> /\ answers' = <<>>
  BY DEF ReadObjects
<1>2. /\ ans \in Seq(Answers) /\ Len(ans) <= Len(answers)
      /\ \A i \in DOMAIN ans : i \in DOMAIN answers /\ ans[i] = answers[i]
  <2>1. CASE ans = answers
    BY <2>1 DEF StreamTypes
  <2>2. CASE answers # <<>> /\ ans = Front(answers)
    <3>1. /\ ans \in Seq(Answers) /\ Len(ans) = Len(answers) - 1
          /\ \A i \in 1..Len(answers) - 1 : ans[i] = answers[i]
      BY <2>2, FrontProperties DEF StreamTypes
    <3>2. DOMAIN ans = 1..Len(answers) - 1 /\ DOMAIN answers = 1..Len(answers) /\ Len(answers) \in Nat
      BY <3>1 DEF StreamTypes
    <3> QED BY <3>1, <3>2
  <2> QED BY <2>1, <2>2 DEF Readable
<1>3. events' \in Seq(Events) /\ dropped' \subseteq Events
  <2>1. CASE events' = events \o arrived /\ dropped' = dropped
    BY <2>1 DEF StreamTypes
  <2>2. CASE /\ arrived # <<>> /\ events' = events \o Front(arrived)
             /\ dropped' = dropped \union {Last(arrived)}
    <3>1. arrived \in Seq(Events) /\ events \in Seq(Events) /\ dropped \subseteq Events
      BY DEF StreamTypes
    <3>2. Front(arrived) \in Seq(Events) /\ Last(arrived) \in Events
      BY <2>2, <3>1, FrontProperties
    <3> QED BY <2>2, <3>1, <3>2
  <2> QED BY <2>1, <2>2 DEF ReadObjects, Collect
<1> QED BY <1>1, <1>2, <1>3

\* A call ends in one of the known ways.
LEMMA EndTypes ==
  ASSUME ThreadTypes, NEW t \in Thread, NEW how \in {"none", "answer", "events", "ok", "socket"},
         NEW to \in 0..MaxCalls, Finish(t, how, to) \/ Break(t)
  PROVE  /\ lock' \subseteq Thread /\ stuck' \subseteq Thread
         /\ pc' \in [Thread -> {"idle", "lock", "read", "send", "recv", "clear", "pick"}]
         /\ result' \in [Thread -> Results]
<1>1. 0 \in 0..MaxCalls
  BY MonitorAssumption
<1>2. CASE Finish(t, how, to)
  BY <1>1, <1>2 DEF ThreadTypes, Finish, Goto, Results
<1>3. CASE Break(t)
  BY <1>1, <1>3 DEF ThreadTypes, Break, Finish, Goto, Results
<1> QED BY <1>2, <1>3

\* The threads keep their types in every step.
LEMMA ThreadTypesStep == ThreadTypes /\ StreamTypes /\ [Next]_vars => ThreadTypes'
<1> SUFFICES ASSUME ThreadTypes, StreamTypes, [Next]_vars PROVE ThreadTypes'
  OBVIOUS
<1>0. 0 \in 0..MaxCalls
  BY MonitorAssumption
<1>1. CASE UNCHANGED vars
  BY <1>1 DEF vars, monitorVars, threadVars, qemuVars, ghostVars, ThreadTypes
<1>2. ASSUME NEW t \in Thread, Begin(t) \/ Step(t) PROVE ThreadTypes'
  <2>1. CASE Begin(t)
    <3>1. PICK k \in Kind, n \in Name : call' = [call EXCEPT ![t] = Call(k, n)]
      BY <2>1 DEF Begin
    <3>2. Call(k, n) \in Calls
      BY <2>1, MonitorAssumption DEF Begin, Call, Calls, ThreadTypes
    <3>3. calls + 1 \in 0..MaxCalls
      BY <2>1, MonitorAssumption DEF Begin, ThreadTypes
    <3>4. call' \in [Thread -> Calls \union {NoCall}]
      BY <3>1, <3>2 DEF ThreadTypes
    <3> QED BY <2>1, <1>0, <3>3, <3>4 DEF Begin, Goto, Unused, Results, monitorVars, qemuVars, ghostVars, ThreadTypes
  <2>2. CASE Acquire(t)
    BY <2>2 DEF Acquire, qemuVars, ghostVars, Goto, ThreadTypes
  <2>3. CASE LockTimeout(t)
    BY <2>3, <1>0 DEF LockTimeout, monitorVars, qemuVars, ghostVars, Goto, Results, ThreadTypes
  <2>4. CASE Read(t)
    <3>1. CASE ReadFails(t)
      BY <1>0, <3>1, EndTypes DEF ReadFails, ThreadTypes
    <3>2. ASSUME NEW ans \in Readable, ReadObjects(ans), UNCHANGED <<call, calls, emitted>>,
                 \/ Finish(t, "events", 0)
                 \/ \E l \in {"pick", "send"} : Goto(t, l) /\ UNCHANGED <<lock, result, stuck>>
          PROVE  ThreadTypes'
      <4>1. stalls' \in 0..MaxStalls
        BY <3>2, MonitorAssumption DEF ReadObjects, ThreadTypes
      <4>2. CASE Finish(t, "events", 0)
        BY <1>0, <3>2, <4>1, <4>2, EndTypes DEF ThreadTypes
      <4>3. CASE \E l \in {"pick", "send"} : Goto(t, l) /\ UNCHANGED <<lock, result, stuck>>
        BY <3>2, <4>1, <4>3 DEF ThreadTypes, Goto
      <4> QED BY <3>2, <4>2, <4>3
    <3> QED BY <2>4, <3>1, <3>2 DEF Read
  <2>5. CASE Send(t)
    BY <2>5, <1>0, EndTypes DEF Send, Goto, ThreadTypes
  <2>6. CASE Receive(t)
    <3>1. CASE ReadFails(t)
      BY <1>0, <3>1, EndTypes DEF ReadFails, ThreadTypes
    <3>2. ASSUME NEW ans \in Readable, ReadObjects(ans), UNCHANGED <<call, calls, emitted>>,
                 Stay \/ \E i \in DOMAIN ans : Finish(t, "answer", ans[i].to)
          PROVE  ThreadTypes'
      <4>1. stalls' \in 0..MaxStalls
        BY <3>2, MonitorAssumption DEF ReadObjects, ThreadTypes
      <4>2. CASE Stay
        BY <3>2, <4>1, <4>2 DEF ThreadTypes, Stay
      <4>3. ASSUME NEW i \in DOMAIN ans, Finish(t, "answer", ans[i].to)
            PROVE  ThreadTypes'
        <5>1. ans[i] \in Answers
          BY <3>2, ReadResult
        <5>2. ans[i].to \in 0..MaxCalls
          BY <5>1 DEF Answers
        <5> QED BY <3>2, <4>1, <4>3, <5>2, EndTypes DEF ThreadTypes
      <4> QED BY <3>2, <4>2, <4>3
    <3> QED BY <2>6, <3>1, <3>2 DEF Receive
  <2>7. CASE NoResponse(t)
    BY <2>7, <1>0, EndTypes DEF NoResponse, qemuVars, ThreadTypes
  <2>8. CASE ClearEvents(t)
    BY <2>8, <1>0, EndTypes DEF ClearEvents, qemuVars, ThreadTypes
  <2>9. CASE ClearEvent(t)
    BY <2>9, <1>0, EndTypes DEF ClearEvent, qemuVars, Goto, ThreadTypes
  <2> QED BY <1>2, <2>1, <2>2, <2>3, <2>4, <2>5, <2>6, <2>7, <2>8, <2>9 DEF Step
<1>3. CASE Reply
  BY <1>3 DEF Reply, monitorVars, threadVars, qemuVars, ghostVars, ThreadTypes
<1>4. CASE End
  BY <1>4 DEF End, monitorVars, threadVars, qemuVars, ghostVars, ThreadTypes
<1>5. ASSUME NEW n \in Name, Emit(n) PROVE ThreadTypes'
  BY <1>5, MonitorAssumption DEF Emit, monitorVars, threadVars, ghostVars, ThreadTypes
<1> QED BY <1>1, <1>2, <1>3, <1>4, <1>5 DEF Next

\* A step of a call changes no call, no result but its own, and nothing at QEMU
\* but what it reads and sends.
LEMMA StepFrame ==
  ASSUME ThreadTypes, NEW t \in Thread, Step(t)
  PROVE  /\ UNCHANGED <<call, calls, emitted, up>>
         /\ pc[t] # "idle"
         /\ \A u \in Thread \ {t} : pc'[u] = pc[u] /\ result'[u] = result[u]
<1> DEFINE Frame == /\ UNCHANGED <<call, calls, emitted, up>>
                    /\ pc[t] # "idle"
                    /\ \A u \in Thread \ {t} : pc'[u] = pc[u] /\ result'[u] = result[u]
<1> SUFFICES Frame
  OBVIOUS
<1>1. CASE Acquire(t) BY <1>1 DEF Acquire, Goto, qemuVars
<1>2. CASE LockTimeout(t) BY <1>2 DEF LockTimeout, Goto, qemuVars
<1>3. CASE Read(t) BY <1>3 DEF Read, ReadFails, Break, Finish, Goto, ThreadTypes
<1>4. CASE Send(t) BY <1>4 DEF Send, Finish, Goto, ThreadTypes
<1>5. CASE Receive(t) BY <1>5 DEF Receive, ReadFails, Break, Finish, Stay, Goto, ThreadTypes
<1>6. CASE NoResponse(t) BY <1>6 DEF NoResponse, Finish, Goto, qemuVars
<1>7. CASE ClearEvents(t) BY <1>7 DEF ClearEvents, Finish, Goto, qemuVars
<1>8. CASE ClearEvent(t) BY <1>8 DEF ClearEvent, Finish, Goto, qemuVars, ThreadTypes
<1> QED BY <1>1, <1>2, <1>3, <1>4, <1>5, <1>6, <1>7, <1>8 DEF Step

\* Calls stay as they were made.
LEMMA CallStep == ThreadTypes /\ CallInv /\ [Next]_vars => CallInv'
<1> SUFFICES ASSUME ThreadTypes, CallInv, [Next]_vars PROVE CallInv'
  OBVIOUS
<1>1. CASE UNCHANGED vars
  BY <1>1 DEF vars, threadVars, qemuVars, CallInv
<1>2. ASSUME NEW t \in Thread, Begin(t) PROVE CallInv'
  <2>1. PICK k \in Kind, n \in Name : call' = [call EXCEPT ![t] = Call(k, n)]
    BY <1>2 DEF Begin
  <2>2. Call(k, n) \in Calls
    BY <1>2, MonitorAssumption DEF Begin, Call, Calls, ThreadTypes
  <2>3. /\ Call(k, n).since <= emitted
        /\ Call(k, n).kind = "cmd" => Call(k, n).tag = Call(k, n).id /\ Call(k, n).id > 0
        /\ Call(k, n).tag \in {0, Call(k, n).id}
    BY DEF Call, ThreadTypes
  <2>4. emitted' = emitted /\ pc' = [pc EXCEPT ![t] = "lock"]
    BY <1>2 DEF Begin, Goto, qemuVars
  <2>5. call'[t] = Call(k, n) /\ \A u \in Thread \ {t} : call'[u] = call[u] /\ pc'[u] = pc[u]
    BY <2>1, <2>4 DEF ThreadTypes
  <2> QED BY <2>2, <2>3, <2>4, <2>5 DEF CallInv
<1>3. ASSUME NEW t \in Thread, Step(t) PROVE CallInv'
  <2>1. \A u \in Thread : pc'[u] # "idle" => pc[u] # "idle"
    BY <1>3, StepFrame
  <2> QED BY <1>3, <2>1, StepFrame DEF CallInv
<1>4. CASE Reply BY <1>4 DEF Reply, threadVars, CallInv
<1>5. CASE End BY <1>5 DEF End, threadVars, CallInv
<1>6. ASSUME NEW n \in Name, Emit(n) PROVE CallInv'
  <2>1. emitted' = emitted + 1 /\ emitted \in Nat /\ UNCHANGED <<pc, call>>
    BY <1>6 DEF Emit, threadVars, ThreadTypes
  <2>2. \A u \in Thread : call[u] \in Calls => call[u].since \in Nat
    BY DEF Calls
  <2> QED BY <2>1, <2>2 DEF CallInv
<1> QED BY <1>1, <1>2, <1>3, <1>4, <1>5, <1>6 DEF Next

\* What is sent and kept has its type in every step.
LEMMA StreamTypesStep == ThreadTypes /\ StreamTypes /\ CallInv /\ [Next]_vars => StreamTypes'
<1> SUFFICES ASSUME ThreadTypes, StreamTypes, CallInv, [Next]_vars PROVE StreamTypes'
  OBVIOUS
<1>1. CASE UNCHANGED vars
  BY <1>1 DEF vars, monitorVars, qemuVars, ghostVars, StreamTypes
<1>2. ASSUME NEW t \in Thread, Begin(t) \/ Step(t) PROVE StreamTypes'
  <2>1. CASE Begin(t)
    BY <2>1 DEF Begin, monitorVars, threadVars, qemuVars, ghostVars, StreamTypes
  <2>2. CASE Acquire(t)
    BY <2>2 DEF Acquire, qemuVars, ghostVars, StreamTypes
  <2>3. CASE LockTimeout(t)
    BY <2>3 DEF LockTimeout, monitorVars, qemuVars, ghostVars, StreamTypes
  <2>4. CASE Read(t)
    <3>1. CASE ReadFails(t)
      <4>1. ToSet(arrived) \subseteq Events
        BY DEF StreamTypes, ToSet
      <4> QED BY <3>1, <4>1 DEF ReadFails, StreamTypes
    <3>2. ASSUME NEW ans \in Readable, ReadObjects(ans), UNCHANGED <<asked, cleared>>
          PROVE  StreamTypes'
      BY <3>2, ReadResult, EmptySeq DEF StreamTypes
    <3> QED BY <2>4, <3>1, <3>2 DEF Read
  <2>5. CASE Send(t)
    <3>1. call[t] \in Calls
      BY <2>5 DEF Send, CallInv
    <3>2. Append(asked, call[t]) \in Seq(Calls)
      BY <3>1 DEF StreamTypes
    <3>3. asked' \in Seq(Calls)
      BY <2>5, <3>2 DEF Send
    <3> QED BY <2>5, <3>3 DEF Send, StreamTypes
  <2>6. CASE Receive(t)
    <3>1. CASE ReadFails(t)
      <4>1. ToSet(arrived) \subseteq Events
        BY DEF StreamTypes, ToSet
      <4> QED BY <3>1, <4>1 DEF ReadFails, StreamTypes
    <3>2. ASSUME NEW ans \in Readable, ReadObjects(ans), UNCHANGED <<asked, cleared>>
          PROVE  StreamTypes'
      BY <3>2, ReadResult, EmptySeq DEF StreamTypes
    <3> QED BY <2>6, <3>1, <3>2 DEF Receive
  <2>7. CASE NoResponse(t)
    BY <2>7 DEF NoResponse, qemuVars, StreamTypes
  <2>8. CASE ClearEvents(t)
    <3>1. ToSet(events) \subseteq Events
      BY DEF StreamTypes, ToSet
    <3> QED BY <2>8, <3>1 DEF ClearEvents, qemuVars, StreamTypes
  <2>9. CASE ClearEvent(t)
    <3>1. ASSUME NEW i \in DOMAIN events, events' = RemoveAt(events, i),
                 cleared' = cleared \union {events[i]}
          PROVE  events' \in Seq(Events) /\ cleared' \subseteq Events
      BY <3>1, RemoveAtProperties DEF StreamTypes
    <3> QED BY <2>9, <3>1 DEF ClearEvent, ClearFirst, qemuVars, StreamTypes
  <2> QED BY <1>2, <2>1, <2>2, <2>3, <2>4, <2>5, <2>6, <2>7, <2>8, <2>9 DEF Step
<1>3. CASE Reply
  <2>1. Head(asked) \in Calls /\ Tail(asked) \in Seq(Calls)
    BY <1>3 DEF Reply, StreamTypes
  <2>2. Answer(Head(asked)) \in Answers
    BY <2>1 DEF Answer, Answers, Calls
  <2> QED BY <1>3, <2>1, <2>2 DEF Reply, monitorVars, ghostVars, StreamTypes
<1>4. CASE End
  BY <1>4 DEF End, monitorVars, qemuVars, ghostVars, StreamTypes
<1>5. ASSUME NEW n \in Name, Emit(n) PROVE StreamTypes'
  <2>1. Event(emitted + 1, n) \in Events
    BY <1>5, MonitorAssumption DEF Emit, Event, Events, ThreadTypes
  <2> QED BY <1>5, <2>1 DEF Emit, monitorVars, ghostVars, StreamTypes
<1> QED BY <1>1, <1>2, <1>3, <1>4, <1>5 DEF Next

\* Flags stay flags.
LEMMA FlagTypesStep == FlagTypes /\ [Next]_vars => FlagTypes'
<1> SUFFICES ASSUME FlagTypes, [Next]_vars PROVE FlagTypes'
  OBVIOUS
<1>1. closed' \in {closed, closed \/ ~up} /\ up' \in {up, FALSE} /\ gaveup' \in {gaveup, TRUE}
  BY Zenon DEF Next, Step, Begin, Acquire, LockTimeout, Read, ReadObjects, ReadFails, Send, Receive,
               NoResponse, ClearEvents, ClearEvent, Reply, End, Emit, vars, monitorVars, threadVars,
               qemuVars, ghostVars
<1> QED BY <1>1, Zenon DEF FlagTypes

-----------------------------------------------------------------------------
(* The lock.                                                               *)

\* Nobody else is in a call.
LEMMA Alone ==
  ASSUME LockInv, NEW t \in Thread, pc[t] \notin {"idle", "lock"}
  PROVE  lock = {t} /\ \A u \in Thread \ {t} : pc[u] \in {"idle", "lock"}
  BY DEF LockInv

\* A call that ends or goes on leaves the lock in order (finally clauses).
LEMMA LockLeft ==
  ASSUME ThreadTypes, LockInv, NEW t \in Thread, pc[t] \notin {"idle", "lock"},
         \/ \E how, to : Finish(t, how, to)
         \/ Break(t)
         \/ UNCHANGED <<lock, stuck>> /\ \E l \in {"read", "send", "recv", "clear", "pick"} : Goto(t, l)
         \/ Stay
  PROVE  LockInv'
<1>1. lock = {t} /\ \A u \in Thread \ {t} : pc[u] \in {"idle", "lock"}
  BY Alone
<1>2. CASE \E how, to : Finish(t, how, to)
  BY <1>1, <1>2 DEF ThreadTypes, LockInv, LockGivenBack, Finish, Goto
<1>3. CASE Break(t)
  BY <1>1, <1>3 DEF ThreadTypes, LockInv, LockGivenBack, Break, Finish, Goto
<1>4. CASE UNCHANGED <<lock, stuck>> /\ \E l \in {"read", "send", "recv", "clear", "pick"} : Goto(t, l)
  BY <1>1, <1>4 DEF LockInv, LockGivenBack, Goto
<1>5. CASE Stay
  BY <1>5 DEF LockInv, LockGivenBack, Stay
<1> QED BY <1>2, <1>3, <1>4, <1>5

\* Every call leaves the lock in order.
LEMMA LockStep == ThreadTypes /\ LockInv /\ [Next]_vars => LockInv'
<1> SUFFICES ASSUME ThreadTypes, LockInv, [Next]_vars PROVE LockInv'
  OBVIOUS
<1>1. CASE UNCHANGED vars
  BY <1>1 DEF vars, monitorVars, threadVars, ghostVars, LockInv, LockGivenBack
<1>2. ASSUME NEW t \in Thread, Begin(t) \/ Step(t) PROVE LockInv'
  <2>1. CASE Begin(t)
    BY <2>1 DEF Begin, monitorVars, ghostVars, Goto, LockInv, LockGivenBack
  <2>2. CASE Acquire(t)
    BY <2>2 DEF Acquire, CanAcquire, Goto, ThreadTypes, LockInv, LockGivenBack
  <2>3. CASE LockTimeout(t)
    BY <2>3 DEF LockTimeout, monitorVars, ghostVars, Goto, LockInv, LockGivenBack
  <2>4. CASE Read(t)
    BY <2>4, LockLeft DEF Read, ReadFails
  <2>5. CASE Send(t)
    BY <2>5, LockLeft DEF Send
  <2>6. CASE Receive(t)
    BY <2>6, LockLeft DEF Receive, ReadFails
  <2>7. CASE NoResponse(t)
    BY <2>7, LockLeft DEF NoResponse
  <2>8. CASE ClearEvents(t)
    BY <2>8, LockLeft DEF ClearEvents
  <2>9. CASE ClearEvent(t)
    BY <2>9, LockLeft DEF ClearEvent
  <2> QED BY <1>2, <2>1, <2>2, <2>3, <2>4, <2>5, <2>6, <2>7, <2>8, <2>9 DEF Step
<1>3. CASE Reply
  BY <1>3 DEF Reply, monitorVars, threadVars, qemuVars, ghostVars, LockInv, LockGivenBack
<1>4. CASE End
  BY <1>4 DEF End, monitorVars, threadVars, qemuVars, ghostVars, LockInv, LockGivenBack
<1>5. ASSUME NEW n \in Name, Emit(n) PROVE LockInv'
  BY <1>5 DEF Emit, monitorVars, threadVars, qemuVars, ghostVars, LockInv, LockGivenBack
<1> QED BY <1>1, <1>2, <1>3, <1>4, <1>5 DEF Next

\* Initially there is nothing.
LEMMA InitTypes == Init => TypeOK /\ LockInv /\ CallInv
<1> SUFFICES ASSUME Init PROVE TypeOK /\ LockInv /\ CallInv
  OBVIOUS
<1>1. ThreadTypes
  BY MonitorAssumption DEF Init, ThreadTypes, Unused, Results
<1>2. StreamTypes
  BY DEF Init, StreamTypes
<1>3. FlagTypes
  BY DEF Init, FlagTypes
<1>4. LockInv /\ CallInv
  BY DEF Init, LockInv, LockGivenBack, CallInv, NoCall
<1> QED BY <1>1, <1>2, <1>3, <1>4 DEF TypeOK

\* What holds of the threads alone, in every reachable state.
LEMMA Always == Spec => [](TypeOK /\ LockInv /\ CallInv)
<1>1. TypeOK /\ LockInv /\ CallInv /\ [Next]_vars => (TypeOK /\ LockInv /\ CallInv)'
  BY ThreadTypesStep, StreamTypesStep, FlagTypesStep, LockStep, CallStep DEF TypeOK
<1> QED BY InitTypes, <1>1, PTL DEF Spec

\* Every variable of the monitor, its threads and the socket has its type
\* (Monitor, QMPMonitor).
THEOREM TypeCorrect == Spec => []TypeOK
  BY Always, PTL

\* A thread that is not in a call holds the lock only if a socket error has
\* thrown it out of clear_event, for any number of threads and calls
\* (_acquire_lock and the finally clauses of QMPMonitor).
THEOREM LockIsGivenBack == Spec => []LockGivenBack
<1>1. LockInv => LockGivenBack
  BY DEF LockInv
<1> QED BY <1>1, Always, PTL

-----------------------------------------------------------------------------
(* Answers.                                                                *)

\* Only Receive ends a call with an answer: it is one that was there and that
\* matches (_get_response).
LEMMA ResultStep ==
  ASSUME TypeOK, NEW t \in Thread, Step(t), result'[t].end = "answer"
  PROVE  \/ result'[t] = result[t]
         \/ /\ pc[t] = "recv"
            /\ \E i \in DOMAIN answers :
                 Matches(call[t], answers[i]) /\ result'[t].to = answers[i].to
<1> USE DEF TypeOK, ThreadTypes
<1>1. CASE Acquire(t) BY <1>1 DEF Acquire
<1>2. CASE LockTimeout(t) BY <1>2 DEF LockTimeout
<1>3. CASE Read(t) BY <1>3 DEF Read, ReadFails, Break, Finish
<1>4. CASE Send(t) BY <1>4 DEF Send, Finish
<1>5. CASE Receive(t)
  <2>1. CASE ReadFails(t) BY <2>1 DEF ReadFails, Break, Finish
  <2>2. ASSUME NEW ans \in Readable, ReadObjects(ans), NEW i \in DOMAIN ans,
               Matches(call[t], ans[i]), Finish(t, "answer", ans[i].to)
        PROVE  \E j \in DOMAIN answers :
                 Matches(call[t], answers[j]) /\ result'[t].to = answers[j].to
    <3>1. i \in DOMAIN answers /\ ans[i] = answers[i] BY <2>2, ReadResult
    <3>2. result'[t].to = ans[i].to BY <2>2 DEF Finish
    <3> QED BY <2>2, <3>1, <3>2
  <2> QED BY <1>5, <2>1, <2>2 DEF Receive, Stay
<1>6. CASE NoResponse(t) BY <1>6 DEF NoResponse, Finish
<1>7. CASE ClearEvents(t) BY <1>7 DEF ClearEvents, Finish
<1>8. CASE ClearEvent(t) BY <1>8 DEF ClearEvent, Finish
<1> QED BY <1>1, <1>2, <1>3, <1>4, <1>5, <1>6, <1>7, <1>8 DEF Step

\* Answers carry no id but that of their command.
LEMMA IdStep == TypeOK /\ CallInv /\ IdInv /\ [Next]_vars => IdInv'
<1> SUFFICES ASSUME TypeOK, CallInv, IdInv, [Next]_vars PROVE IdInv'
  OBVIOUS
<1>1. CASE UNCHANGED vars
  BY <1>1 DEF vars, qemuVars, IdInv
<1>2. ASSUME NEW t \in Thread, Begin(t) \/ Step(t) PROVE IdInv'
  <2>1. CASE Begin(t)
    BY <2>1 DEF Begin, qemuVars, IdInv
  <2>2. CASE Acquire(t)
    BY <2>2 DEF Acquire, qemuVars, IdInv
  <2>3. CASE LockTimeout(t)
    BY <2>3 DEF LockTimeout, qemuVars, IdInv
  <2>4. CASE Read(t)
    <3>1. CASE ReadFails(t)
      BY <3>1 DEF ReadFails, IdInv
    <3>2. ASSUME NEW ans \in Readable, ReadObjects(ans), UNCHANGED <<asked, up>>
          PROVE  IdInv'
      BY <3>2 DEF ReadObjects, IdInv
    <3> QED BY <2>4, <3>1, <3>2 DEF Read
  <2>5. CASE Send(t)
    <3>1. CASE up
      <4>1. asked' = Append(asked, call[t]) /\ UNCHANGED <<answers, up>>
        BY <2>5, <3>1 DEF Send
      <4>2. call[t] \in Calls
        BY <2>5 DEF Send, CallInv
      <4>3. \A i \in DOMAIN asked' : asked'[i] = call[t] \/ (i \in DOMAIN asked /\ asked'[i] = asked[i])
        BY <4>1, <4>2
      <4> QED BY <3>1, <4>1, <4>3 DEF IdInv, CallInv
    <3>2. CASE ~up
      BY <2>5, <3>2 DEF Send, IdInv
    <3> QED BY <3>1, <3>2
  <2>6. CASE Receive(t)
    <3>1. CASE ReadFails(t)
      BY <3>1 DEF ReadFails, IdInv
    <3>2. ASSUME NEW ans \in Readable, ReadObjects(ans), UNCHANGED <<asked, up>>
          PROVE  IdInv'
      BY <3>2 DEF ReadObjects, IdInv
    <3> QED BY <2>6, <3>1, <3>2 DEF Receive
  <2>7. CASE NoResponse(t)
    BY <2>7 DEF NoResponse, qemuVars, IdInv
  <2>8. CASE ClearEvents(t)
    BY <2>8 DEF ClearEvents, qemuVars, IdInv
  <2>9. CASE ClearEvent(t)
    BY <2>9 DEF ClearEvent, qemuVars, IdInv
  <2> QED BY <1>2, <2>1, <2>2, <2>3, <2>4, <2>5, <2>6, <2>7, <2>8, <2>9 DEF Step
<1>3. CASE Reply
  <2>1. /\ answers' = Append(answers, Answer(Head(asked))) /\ asked' = Tail(asked) /\ up /\ up' = up
        /\ asked \in Seq(Calls) /\ asked # <<>> /\ answers \in Seq(Answers)
    BY <1>3 DEF Reply, TypeOK, StreamTypes
  <2>2. /\ Answer(Head(asked)).id \in {0, Answer(Head(asked)).to}
        /\ Answer(Head(asked)) \in Answers
    <3>1. Head(asked) \in Calls /\ Head(asked).tag \in {0, Head(asked).id}
      BY <2>1 DEF IdInv
    <3> QED BY <3>1 DEF Answer, Answers, Calls
  <2>3. \A i \in DOMAIN answers' :
          answers'[i] = Answer(Head(asked)) \/ (i \in DOMAIN answers /\ answers'[i] = answers[i])
    BY <2>1, <2>2
  <2>4. \A i \in DOMAIN asked' : i + 1 \in DOMAIN asked /\ asked'[i] = asked[i + 1]
    BY <2>1
  <2> QED BY <2>1, <2>2, <2>3, <2>4 DEF IdInv
<1>4. CASE End
  BY <1>4 DEF End, IdInv
<1>5. ASSUME NEW n \in Name, Emit(n) PROVE IdInv'
  BY <1>5 DEF Emit, IdInv
<1> QED BY <1>1, <1>2, <1>3, <1>4, <1>5 DEF Next

\* A thread that is in a call and waits for no answer finds none under way, as
\* long as no command has given up.
LEMMA Quiet ==
  ASSUME TypeOK, LockInv, RawInv, ~gaveup, NEW t \in Thread, pc[t] \notin {"idle", "lock", "recv"}
  PROVE  asked = <<>> /\ answers = <<>>
<1>1. \A u \in Thread : pc[u] # "recv"
  BY Alone
<1>2. DOMAIN asked = {} /\ DOMAIN answers = {}
  BY <1>1 DEF RawInv
<1> QED BY <1>2

\* One exchange at a time: a command is sent only when nothing is under way, and
\* its thread waits until the answer is there (cmd_raw, cmd_obj).
LEMMA RawStep == TypeOK /\ LockInv /\ CallInv /\ IdInv /\ RawInv /\ [Next]_vars => RawInv'
<1> SUFFICES ASSUME TypeOK, LockInv, CallInv, IdInv, RawInv, [Next]_vars, ~gaveup' PROVE RawInv'
  BY DEF RawInv
<1>0. ~gaveup
  BY Zenon DEF Next, Step, Begin, Acquire, LockTimeout, Read, ReadFails, Send, Receive, NoResponse,
               ClearEvents, ClearEvent, Reply, End, Emit, vars, ghostVars
<1>1. CASE UNCHANGED vars
  BY <1>1 DEF vars, threadVars, qemuVars, ghostVars, RawInv
<1>2. ASSUME NEW t \in Thread, Begin(t) PROVE RawInv'
  <2>1. \A u \in Thread : pc[u] = "recv" => pc'[u] = "recv" /\ call'[u] = call[u]
    BY <1>2 DEF Begin, Goto
  <2> QED BY <1>0, <1>2, <2>1 DEF Begin, qemuVars, RawInv
<1>3. ASSUME NEW t \in Thread, Step(t) PROVE RawInv'
  <2>1. call' = call /\ \A u \in Thread \ {t} : pc'[u] = pc[u]
    BY <1>3, StepFrame DEF TypeOK
  <2>2. ASSUME asked' = <<>> \/ (asked' = asked /\ pc'[t] = pc[t]),
               answers' = <<>> \/ (answers' = answers /\ pc'[t] = pc[t])
        PROVE  RawInv'
    <3>1. \A u \in Thread : pc[u] = "recv" /\ pc'[t] = pc[t] => pc'[u] = "recv"
      BY <2>1
    <3> QED BY <1>0, <2>1, <2>2, <3>1 DEF RawInv
  <2>3. ASSUME pc[t] \notin {"idle", "lock", "recv"}
        PROVE  asked = <<>> /\ answers = <<>>
    BY <1>0, <2>3, Quiet
  <2>4. CASE Acquire(t) \/ LockTimeout(t)
    <3>1. UNCHANGED <<asked, answers>> /\ pc[t] = "lock"
      BY <2>4 DEF Acquire, LockTimeout, qemuVars
    <3>2. \A u \in Thread : pc[u] = "recv" => pc'[u] = "recv"
      BY <2>1, <3>1
    <3> QED BY <1>0, <2>1, <3>1, <3>2 DEF RawInv
  <2>5. CASE Read(t)
    BY <2>2, <2>3, <2>5 DEF Read, ReadObjects, ReadFails
  <2>6. CASE Send(t)
    <3>1. asked = <<>> /\ answers = <<>> /\ answers' = answers
      BY <2>3, <2>6 DEF Send
    <3>2. CASE up
      <4>1. asked' = <<call[t]>> /\ pc'[t] = "recv"
        BY <2>6, <3>1, <3>2 DEF Send, Goto, TypeOK, ThreadTypes
      <4>2. DOMAIN asked' = {1} /\ asked'[1] = call[t] /\ Len(asked') = 1
        BY <4>1
      <4> QED BY <2>1, <3>1, <4>1, <4>2 DEF RawInv
    <3>3. CASE ~up
      BY <2>2, <2>6, <3>1, <3>3 DEF Send
    <3> QED BY <3>2, <3>3
  <2>7. CASE Receive(t)
    <3>1. CASE ReadFails(t)
      BY <2>2, <3>1 DEF ReadFails, IdInv
    <3>2. ASSUME NEW ans \in Readable, ReadObjects(ans), UNCHANGED asked,
                 Stay \/ \E i \in DOMAIN ans : Finish(t, "answer", ans[i].to)
          PROVE  RawInv'
      <4>1. arrived' = <<>> /\ answers' = <<>>
        BY <3>2 DEF ReadObjects
      <4>2. CASE Stay
        BY <2>2, <3>2, <4>1, <4>2 DEF Stay
      <4>3. ASSUME NEW i \in DOMAIN ans PROVE asked = <<>>
        <5>1. i \in DOMAIN answers
          BY <3>2, ReadResult DEF TypeOK
        <5> QED BY <1>0, <5>1 DEF RawInv
      <4> QED BY <2>2, <3>2, <4>1, <4>2, <4>3
    <3> QED BY <2>7, <3>1, <3>2 DEF Receive
  <2>8. CASE NoResponse(t)
    BY <2>8 DEF NoResponse
  <2>9. CASE ClearEvents(t) \/ ClearEvent(t)
    BY <2>2, <2>3, <2>9 DEF ClearEvents, ClearEvent, qemuVars
  <2> QED BY <1>3, <2>4, <2>5, <2>6, <2>7, <2>8, <2>9 DEF Step
<1>4. CASE Reply
  <2>1. asked \in Seq(Calls) /\ asked # <<>> /\ Len(asked) = 1 /\ answers = <<>>
    <3>1. asked \in Seq(Calls) /\ asked # <<>>
      BY <1>4 DEF Reply, TypeOK, StreamTypes
    <3>2. answers = <<>> /\ Len(asked) <= 1
      BY <1>0, <3>1 DEF RawInv
    <3>3. Len(asked) \in Nat /\ Len(asked) # 0
      BY <3>1
    <3>4. Len(asked) = 1
      BY <3>2, <3>3
    <3> QED BY <3>1, <3>2, <3>4, Zenon
  <2>2. asked' = <<>> /\ answers' = <<Answer(asked[1])>>
    BY <1>4, <2>1 DEF Reply
  <2>3. DOMAIN answers' = {1} /\ Len(answers') = 1 /\ answers'[1].to = asked[1].id
    BY <2>2 DEF Answer
  <2>4. UNCHANGED <<pc, call>> /\ 1 \in DOMAIN asked
    BY <1>4, <2>1 DEF Reply, threadVars
  <2> QED BY <1>0, <2>2, <2>3, <2>4 DEF RawInv
<1>5. CASE End
  BY <1>0, <1>5 DEF End, threadVars, RawInv
<1>6. ASSUME NEW n \in Name, Emit(n) PROVE RawInv'
  BY <1>0, <1>6 DEF Emit, threadVars, RawInv
<1> QED BY <1>1, <1>2, <1>3, <1>4, <1>5, <1>6 DEF Next

\* What a call returns is kept until the thread makes the next one.
LEMMA AnswerStep ==
  TypeOK /\ LockInv /\ CallInv /\ IdInv /\ RawInv /\ RightAnswer /\ RawAnswer /\ [Next]_vars
    => (RightAnswer /\ RawAnswer)'
<1> SUFFICES ASSUME TypeOK, LockInv, CallInv, IdInv, RawInv, RightAnswer, RawAnswer, [Next]_vars,
                    NEW u \in Thread, result'[u].end = "answer"
             PROVE  /\ call'[u].kind = "cmd" => result'[u].to = call'[u].id
                    /\ ~gaveup' => result'[u].to = call'[u].id
  BY DEF RightAnswer, RawAnswer
<1>0. ~gaveup' => ~gaveup
  BY Zenon DEF Next, Step, Begin, Acquire, LockTimeout, Read, ReadFails, Send, Receive, NoResponse,
               ClearEvents, ClearEvent, Reply, End, Emit, vars, ghostVars
<1>1. ASSUME result'[u] = result[u], call'[u] = call[u]
      PROVE  /\ call'[u].kind = "cmd" => result'[u].to = call'[u].id
             /\ ~gaveup' => result'[u].to = call'[u].id
  BY <1>0, <1>1 DEF RightAnswer, RawAnswer
<1>2. CASE UNCHANGED vars
  BY <1>1, <1>2 DEF vars, threadVars
<1>3. ASSUME NEW t \in Thread, Begin(t)
      PROVE  result'[u] = result[u] /\ call'[u] = call[u]
  BY <1>3 DEF Begin, Unused, TypeOK, ThreadTypes
<1>4. ASSUME NEW t \in Thread, Step(t)
      PROVE  \/ result'[u] = result[u] /\ call'[u] = call[u]
             \/ /\ call'[u].kind = "cmd" => result'[u].to = call'[u].id
                /\ ~gaveup' => result'[u].to = call'[u].id
  <2>1. call' = call /\ (u # t => result'[u] = result[u])
    BY <1>4, StepFrame DEF TypeOK
  <2>2. ASSUME u = t, NEW i \in DOMAIN answers, Matches(call[t], answers[i]),
               result'[t].to = answers[i].to, pc[t] = "recv"
        PROVE  /\ call'[u].kind = "cmd" => result'[u].to = call'[u].id
               /\ ~gaveup' => result'[u].to = call'[u].id
    <3>1. answers[i].id \in {0, answers[i].to}
      BY DEF IdInv
    <3>2. call[t].kind = "cmd" => result'[t].to = call[t].id
      <4>1. call[t] \in Calls
        BY <2>2 DEF CallInv
      <4>2. call[t].kind = "cmd" => call[t].tag = call[t].id /\ call[t].tag # 0
        BY <4>1 DEF CallInv
      <4> QED BY <2>2, <3>1, <4>2 DEF Matches
    <3>3. ~gaveup => result'[t].to = call[t].id
      <4>1. \A v \in Thread : pc[v] = "recv" => v = t
        BY <2>2, Alone
      <4> QED BY <2>2, <4>1 DEF RawInv
    <3> QED BY <1>0, <2>1, <2>2, <3>2, <3>3
  <2> QED BY <1>4, <2>1, <2>2, ResultStep
<1>5. CASE Reply \/ End \/ \E n \in Name : Emit(n)
  BY <1>1, <1>5 DEF Reply, End, Emit, threadVars
<1> QED BY <1>1, <1>2, <1>3, <1>4, <1>5 DEF Next

\* All that the answers rest on, in every reachable state.
LEMMA AlwaysAnswers == Spec => [](IdInv /\ RawInv /\ RightAnswer /\ RawAnswer)
<1>1. Init => IdInv /\ RawInv /\ RightAnswer /\ RawAnswer
  BY DEF Init, Unused, IdInv, RawInv, RightAnswer, RawAnswer
<1>2. /\ TypeOK /\ LockInv /\ CallInv /\ IdInv /\ RawInv /\ RightAnswer /\ RawAnswer /\ [Next]_vars
      => (IdInv /\ RawInv /\ RightAnswer /\ RawAnswer)'
  BY IdStep, RawStep, AnswerStep
<1> QED BY Always, <1>1, <1>2, PTL DEF Spec

\* A command with an id never returns the answer of another one, for any number
\* of threads, however many commands have given up before and whenever their
\* answers come (cmd, _get_response).
THEOREM OwnAnswer == Spec => []RightAnswer
  BY AlwaysAnswers, PTL

\* As long as no command has given up, the raw calls too return their own answer,
\* because the lock keeps the exchanges of the threads apart (cmd_raw, cmd_obj).
THEOREM OwnRawAnswer == Spec => []RawAnswer
  BY AlwaysAnswers, PTL

-----------------------------------------------------------------------------
(* Events.                                                                 *)

\* The elements of the lists.
LEMMA EventTypes ==
  ASSUME TypeOK
  PROVE  /\ ToSet(events) \subseteq Events /\ ToSet(arrived) \subseteq Events
         /\ \A o \in Events : o.id \in Nat
<1>1. ToSet(events) \subseteq Events /\ ToSet(arrived) \subseteq Events
  BY DEF TypeOK, StreamTypes, ToSet
<1> QED BY <1>1 DEF Events

\* An event is in one of the two lists.
LEMMA Apart == ASSUME TypeOK, EventsInv PROVE ToSet(events) \intersect ToSet(arrived) = {}
<1> SUFFICES ASSUME NEW o \in ToSet(events), o \in ToSet(arrived) PROVE FALSE
  OBVIOUS
<1>1. o.id < o.id /\ o.id \in Nat
  BY EventTypes DEF EventsInv
<1> QED BY <1>1

\* A read moves the events to the list of the monitor; if the last line does not
\* come to its end, the event is lost, and that is the last of all
\* (_read_objects).
LEMMA ReadEvents ==
  ASSUME TypeOK, EventsInv, NEW ans, ReadObjects(ans), UNCHANGED <<cleared, emitted>>
  PROVE  EventsInv'
<1>1. arrived' = <<>> /\ ToSet(arrived') = {} /\ Ordered(arrived')
  BY DEF ReadObjects, ToSet, Ordered
<1>2. events \in Seq(Events) /\ arrived \in Seq(Events)
  BY DEF TypeOK, StreamTypes
<1>3. ASSUME NEW evs \in Seq(Events), events' = events \o evs, Ordered(evs),
             ToSet(evs) \subseteq ToSet(arrived), Gone' = Gone \union (ToSet(arrived) \ ToSet(evs))
      PROVE  EventsInv'
  <2>1. ToSet(events') = ToSet(events) \union ToSet(evs)
    BY <1>2, <1>3, ConcatSet
  <2>2. Ordered(events')
    BY <1>2, <1>3, OrderedConcat DEF EventsInv
  <2>3. Held' \union Gone' = Held \union Gone
    BY <1>1, <1>3, <2>1 DEF Held
  <2>4. Held' \intersect Gone' = {}
    BY <1>1, <1>3, <2>1, Apart DEF Held, EventsInv
  <2> QED BY <1>1, <2>2, <2>3, <2>4 DEF EventsInv
<1>4. CASE events' = events \o arrived /\ dropped' = dropped
  BY <1>2, <1>3, <1>4 DEF Gone, EventsInv
<1>5. CASE /\ arrived # <<>> /\ events' = events \o Front(arrived)
           /\ dropped' = dropped \union {Last(arrived)}
  <2>1. /\ Front(arrived) \in Seq(Events) /\ Last(arrived) \in Events
        /\ ToSet(arrived) = ToSet(Front(arrived)) \union {Last(arrived)}
    BY <1>2, <1>5, FrontProperties
  <2>2. Ordered(Front(arrived)) /\ \A o \in ToSet(Front(arrived)) : o.id < Last(arrived).id
    BY <1>2, <1>5, OrderedFront DEF EventsInv
  <2>3. Last(arrived) \notin ToSet(Front(arrived))
    BY <2>1, <2>2, EventTypes
  <2> QED BY <1>3, <1>5, <2>1, <2>2, <2>3 DEF Gone
<1> QED BY <1>4, <1>5 DEF ReadObjects, Collect

\* No step loses an event, takes one twice or changes their order.
LEMMA EventsStep == TypeOK /\ EventsInv /\ [Next]_vars => EventsInv'
<1> SUFFICES ASSUME TypeOK, EventsInv, [Next]_vars PROVE EventsInv'
  OBVIOUS
<1>1. CASE UNCHANGED vars
  BY <1>1 DEF vars, monitorVars, qemuVars, ghostVars, EventsInv, Held, Gone
<1>2. ASSUME NEW t \in Thread, Begin(t) \/ Step(t) PROVE EventsInv'
  <2>1. CASE Begin(t)
    BY <2>1 DEF Begin, monitorVars, threadVars, qemuVars, ghostVars, EventsInv, Held, Gone
  <2>2. CASE Acquire(t)
    BY <2>2 DEF Acquire, qemuVars, ghostVars, EventsInv, Held, Gone
  <2>3. CASE LockTimeout(t)
    BY <2>3 DEF LockTimeout, monitorVars, threadVars, qemuVars, ghostVars, EventsInv, Held, Gone
  <2>4. CASE Read(t)
    <3>1. CASE ReadFails(t)
      <4>1. /\ arrived' = <<>> /\ ToSet(arrived') = {} /\ Ordered(arrived')
            /\ UNCHANGED <<events, emitted, cleared>> /\ dropped' = dropped \union ToSet(arrived)
        BY <3>1 DEF ReadFails, ToSet, Ordered
      <4>2. Held' \union Gone' = Held \union Gone /\ Held' \intersect Gone' = {}
        BY <4>1 DEF Held, Gone, EventsInv
      <4> QED BY <4>1, <4>2 DEF EventsInv
    <3>2. ASSUME NEW ans \in Readable, ReadObjects(ans), UNCHANGED <<cleared, emitted>>
          PROVE  EventsInv'
      BY <3>2, ReadEvents
    <3> QED BY <2>4, <3>1, <3>2 DEF Read
  <2>5. CASE Send(t)
    BY <2>5 DEF Send, EventsInv, Held, Gone
  <2>6. CASE Receive(t)
    <3>1. CASE ReadFails(t)
      <4>1. /\ arrived' = <<>> /\ ToSet(arrived') = {} /\ Ordered(arrived')
            /\ UNCHANGED <<events, emitted, cleared>> /\ dropped' = dropped \union ToSet(arrived)
        BY <3>1 DEF ReadFails, ToSet, Ordered
      <4>2. Held' \union Gone' = Held \union Gone /\ Held' \intersect Gone' = {}
        BY <4>1 DEF Held, Gone, EventsInv
      <4> QED BY <4>1, <4>2 DEF EventsInv
    <3>2. ASSUME NEW ans \in Readable, ReadObjects(ans), UNCHANGED <<cleared, emitted>>
          PROVE  EventsInv'
      BY <3>2, ReadEvents
    <3> QED BY <2>6, <3>1, <3>2 DEF Receive
  <2>7. CASE NoResponse(t)
    BY <2>7 DEF NoResponse, qemuVars, EventsInv, Held, Gone
  <2>8. CASE ClearEvents(t)
    <3>1. /\ events' = <<>> /\ ToSet(events') = {} /\ Ordered(events')
          /\ UNCHANGED <<arrived, emitted, dropped>> /\ cleared' = cleared \union ToSet(events)
      BY <2>8 DEF ClearEvents, qemuVars, ToSet, Ordered
    <3>2. Held' \union Gone' = Held \union Gone /\ Held' \intersect Gone' = {}
      BY <3>1 DEF Held, Gone, EventsInv
    <3> QED BY <3>1, <3>2 DEF EventsInv
  <2>9. CASE ClearEvent(t)
    <3>1. UNCHANGED <<arrived, emitted, dropped>>
      BY <2>9 DEF ClearEvent, qemuVars
    <3>2. ASSUME NEW i \in DOMAIN events, events' = RemoveAt(events, i),
                 cleared' = cleared \union {events[i]}
          PROVE  EventsInv'
      <4>1. events \in Seq(Events)
        BY DEF TypeOK, StreamTypes
      <4>2. ToSet(events) = ToSet(events') \union {events[i]}
        BY <3>2, <4>1, RemoveAtProperties
      <4>3. Ordered(events') /\ events[i] \notin ToSet(events')
        BY <3>2, <4>1, OrderedRemoveAt DEF EventsInv
      <4>4. Held' \union Gone' = Held \union Gone /\ Held' \intersect Gone' = {}
        BY <3>1, <3>2, <4>2, <4>3 DEF Held, Gone, EventsInv
      <4> QED BY <3>1, <4>2, <4>3, <4>4 DEF EventsInv
    <3>3. CASE UNCHANGED <<events, cleared>>
      BY <3>1, <3>3 DEF EventsInv, Held, Gone
    <3> QED BY <2>9, <3>2, <3>3 DEF ClearEvent, ClearFirst
  <2> QED BY <1>2, <2>1, <2>2, <2>3, <2>4, <2>5, <2>6, <2>7, <2>8, <2>9 DEF Step
<1>3. CASE Reply
  BY <1>3 DEF Reply, monitorVars, qemuVars, ghostVars, EventsInv, Held, Gone
<1>4. CASE End
  BY <1>4 DEF End, monitorVars, qemuVars, ghostVars, EventsInv, Held, Gone
<1>5. ASSUME NEW n \in Name, Emit(n) PROVE EventsInv'
  <2> DEFINE new == Event(emitted + 1, n)
  <2>1. /\ arrived' = Append(arrived, new) /\ emitted' = emitted + 1 /\ emitted \in Nat
        /\ UNCHANGED <<events, cleared, dropped>> /\ arrived \in Seq(Events)
    BY <1>5 DEF Emit, monitorVars, ghostVars, TypeOK, ThreadTypes, StreamTypes
  <2>2. new \in Events /\ new.id = emitted + 1
    BY <1>5, MonitorAssumption DEF Emit, Event, Events, TypeOK, ThreadTypes
  <2> HIDE DEF new
  <2>3. ToSet(arrived') = ToSet(arrived) \union {new}
    BY <2>1, <2>2, AppendSet
  <2>4. \A o \in Held \union Gone : o.id \in 1..emitted
    BY DEF EventsInv
  <2>5. \A o \in Held \union Gone : o.id < new.id /\ o # new
    BY <2>1, <2>2, <2>4
  <2>6. Ordered(arrived')
    <3>1. arrived' = arrived \o <<new>> /\ <<new>> \in Seq(Events) /\ Ordered(<<new>>) /\ ToSet(<<new>>) = {new}
      BY <2>1, <2>2 DEF Ordered, ToSet
    <3> QED BY <2>1, <2>5, <3>1, OrderedConcat DEF EventsInv, Held
  <2>7. Held' \union Gone' = (Held \union Gone) \union {new}
    BY <2>1, <2>3 DEF Held, Gone
  <2>8. {o.id : o \in Held' \union Gone'} = 1..emitted'
    <3>1. {o.id : o \in Held \union Gone} = 1..emitted
      BY DEF EventsInv
    <3>2. {o.id : o \in (Held \union Gone) \union {new}} = {o.id : o \in Held \union Gone} \union {new.id}
      OBVIOUS
    <3>3. 1..emitted + 1 = (1..emitted) \union {emitted + 1}
      BY <2>1
    <3> QED BY <2>1, <2>2, <2>7, <3>1, <3>2, <3>3
  <2>9. Held' \intersect Gone' = {}
    BY <2>1, <2>3, <2>5 DEF Held, Gone, EventsInv
  <2> QED BY <2>1, <2>3, <2>5, <2>6, <2>8, <2>9 DEF EventsInv, Held
<1> QED BY <1>1, <1>2, <1>3, <1>4, <1>5 DEF Next

\* No event is lost but one whose line was not read to its end: all that QEMU has
\* emitted are there once and in order, or were cleared, whichever calls of
\* however many threads have read them (_read_objects, get_events).
THEOREM NoEventIsLost == Spec => []NoEventLost
<1>1. Init => EventsInv
  BY DEF Init, EventsInv, Held, Gone, Ordered, ToSet
<1>2. TypeOK /\ EventsInv => NoEventLost
  <2> SUFFICES ASSUME TypeOK, EventsInv PROVE NoEventLost
    OBVIOUS
  <2>1. events \in Seq(Events) /\ arrived \in Seq(Events)
    BY DEF TypeOK, StreamTypes
  <2>2. ToSet(events \o arrived) = Held
    BY <2>1, ConcatSet DEF Held
  <2>3. Ordered(events \o arrived)
    BY <2>1, OrderedConcat DEF EventsInv
  <2> QED BY <2>2, <2>3 DEF NoEventLost, EventsInv, Ordered, Gone
<1> QED BY Always, <1>1, <1>2, EventsStep, PTL DEF Spec

\* While clear_event looks through the list, what has not been read yet is newer
\* than the call.
LEMMA StaleStep == TypeOK /\ CallInv /\ StaleInv /\ [Next]_vars => StaleInv'
<1> SUFFICES ASSUME TypeOK, CallInv, StaleInv, [Next]_vars, NEW u \in Thread, pc'[u] = "pick"
             PROVE  \A o \in ToSet(arrived') : o.id > call'[u].since
  BY DEF StaleInv
<1>1. CASE UNCHANGED vars
  BY <1>1 DEF vars, threadVars, qemuVars, StaleInv
<1>2. ASSUME NEW t \in Thread, Begin(t)
      PROVE  \A o \in ToSet(arrived') : o.id > call'[u].since
  BY <1>2 DEF Begin, Goto, qemuVars, StaleInv
<1>3. ASSUME NEW t \in Thread, Step(t)
      PROVE  \A o \in ToSet(arrived') : o.id > call'[u].since
  <2>1. call' = call
    BY <1>3, StepFrame DEF TypeOK
  <2>2. arrived' = <<>> \/ (arrived' = arrived /\ pc[u] = "pick")
    <3>1. CASE Read(t) \/ Receive(t)
      BY <3>1 DEF Read, Receive, ReadFails, ReadObjects
    <3>2. CASE Acquire(t) \/ LockTimeout(t) \/ Send(t) \/ NoResponse(t) \/ ClearEvents(t) \/ ClearEvent(t)
      BY <3>2 DEF Acquire, LockTimeout, Send, NoResponse, ClearEvents, ClearEvent, Finish, Goto,
                  qemuVars, TypeOK, ThreadTypes
    <3> QED BY <1>3, <3>1, <3>2 DEF Step
  <2> QED BY <2>1, <2>2 DEF StaleInv, ToSet
<1>4. CASE Reply \/ End
  BY <1>4 DEF Reply, End, threadVars, StaleInv
<1>5. ASSUME NEW n \in Name, Emit(n)
      PROVE  \A o \in ToSet(arrived') : o.id > call'[u].since
  <2>1. /\ arrived' = Append(arrived, Event(emitted + 1, n)) /\ arrived \in Seq(Events)
        /\ UNCHANGED <<pc, call>> /\ emitted \in Nat
    BY <1>5 DEF Emit, threadVars, TypeOK, ThreadTypes, StreamTypes
  <2>2. Event(emitted + 1, n) \in Events /\ Event(emitted + 1, n).id = emitted + 1
    BY <1>5, MonitorAssumption DEF Emit, Event, Events, TypeOK, ThreadTypes
  <2>3. ToSet(arrived') = ToSet(arrived) \union {Event(emitted + 1, n)}
    BY <2>1, <2>2, AppendSet
  <2>4. call[u].since \in Nat /\ call[u].since <= emitted
    BY <2>1 DEF CallInv, Calls
  <2> QED BY <2>1, <2>2, <2>3, <2>4 DEF StaleInv
<1> QED BY <1>1, <1>2, <1>3, <1>4, <1>5 DEF Next

\* When clear_event returns, no event of its name from before the call is left,
\* neither in the list nor in the socket, whatever other threads do between its
\* rounds (clear_event).
THEOREM NothingStale == Spec => NoStaleEvent
<1> DEFINE Cleared ==
      \A t \in Thread :
        pc[t] = "pick" /\ pc'[t] = "idle" /\ result'[t].end = "ok" =>
          \A o \in ToSet(events' \o arrived') :
            o.name = call[t].name => o.id > call[t].since
<1>1. Init => StaleInv
  BY DEF Init, StaleInv
<1>2. TypeOK /\ StaleInv /\ [Next]_vars => [Cleared]_vars
  <2> SUFFICES ASSUME TypeOK, StaleInv, Next, NEW t \in Thread, pc[t] = "pick", pc'[t] = "idle",
                      NEW o \in ToSet(events' \o arrived'), o.name = call[t].name
               PROVE  o.id > call[t].since
    OBVIOUS
  <2>1. Step(t)
    <3>1. ASSUME NEW u \in Thread, Step(u) PROVE u = t
      BY <3>1, StepFrame DEF TypeOK
    <3>2. ASSUME NEW u \in Thread, Begin(u) PROVE FALSE
      BY <3>2 DEF Begin, Goto
    <3> QED BY <3>1, <3>2 DEF Next, Reply, End, Emit, threadVars
  <2>2. ClearEvent(t)
    BY <2>1 DEF Step, Acquire, LockTimeout, Read, Send, Receive, NoResponse, ClearEvents
  <2>3. /\ {i \in DOMAIN events : events[i].name = call[t].name} = {}
        /\ UNCHANGED <<events, arrived>>
    BY <2>2 DEF ClearEvent, Goto, qemuVars, TypeOK, ThreadTypes
  <2>4. o \in ToSet(events) \/ o \in ToSet(arrived)
    BY <2>3, ConcatSet DEF TypeOK, StreamTypes
  <2>5. o \notin ToSet(events)
    BY <2>3 DEF ToSet
  <2> QED BY <2>4, <2>5 DEF StaleInv
<1>3. Spec => [](TypeOK /\ StaleInv)
  BY Always, <1>1, StaleStep, PTL DEF Spec
<1> QED BY <1>2, <1>3, PTL DEF Spec, NoStaleEvent

==============================================================================
