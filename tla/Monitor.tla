------------------------------- MODULE Monitor -------------------------------
(***************************************************************************)
(* The QMP monitor of a virtual machine (virttest/qemu_monitor.py): the    *)
(* threads of a test share one socket under a lock that they wait for only *)
(* so long.  A command gives up after a timeout and its answer may still   *)
(* come; events arrive at any time, are collected by whoever reads, and    *)
(* are looked up and cleared by any thread.                                *)
(*                                                                         *)
(* The other side of the socket, QEMU, is external: it answers commands in *)
(* order or never, emits events, and may end at any time.                  *)
(***************************************************************************)
EXTENDS Naturals, Sequences, SequencesExt

CONSTANTS
  Thread,      \* threads of the test process
  Name,        \* names of events
  Kind,        \* calls that the threads make, a subset of AllKinds
  MaxCalls,    \* bound: calls
  MaxEvents,   \* bound: events
  MaxStalls    \* bound: lines that stop in the middle for ten seconds

AllKinds == {"cmd", "cmd_raw", "get_events", "clear_events", "clear_event"}

ASSUME MonitorAssumption ==
  /\ Kind \subseteq AllKinds
  /\ MaxCalls \in Nat /\ MaxEvents \in Nat /\ MaxStalls \in Nat

VARIABLES
  \* the monitor object
  lock,     \* set of the thread that holds _lock, or empty
  events,   \* _events: sequence of events
  closed,   \* _server_closed
  \* the threads
  pc,       \* thread -> the step it is at
  call,     \* thread -> its present or last call
  result,   \* thread -> how its last call has ended
  calls,    \* number of calls so far
  \* the socket and QEMU
  arrived,  \* events sent by QEMU and not read yet
  answers,  \* answers sent by QEMU and not read yet
  asked,    \* commands received by QEMU and not answered yet
  up,       \* QEMU runs
  emitted,  \* number of events so far
  \* history
  cleared,  \* events that were cleared
  dropped,  \* events whose line was not read to its end
  gaveup,   \* a command has given up waiting for its answer
  stuck,    \* threads that left clear_event through a socket error
  stalls    \* number of stalled lines so far

monitorVars == <<lock, events, closed>>
threadVars == <<pc, call, result, calls>>
qemuVars == <<arrived, answers, asked, up, emitted>>
ghostVars == <<cleared, dropped, gaveup, stuck, stalls>>
vars == <<monitorVars, threadVars, qemuVars, ghostVars>>

\* An answer carries the id of its command, 0 if the command had none; `to' is
\* the call that it answers.
Event(e, name) == [id |-> e, name |-> name]
Answer(c) == [id |-> c.tag, to |-> c.id]

\* Only cmd gives its command an id, and only clear_event asks for a name;
\* since when it asks is history.
Call(k, n) ==
  [kind |-> k, id |-> calls + 1,
   tag |-> IF k = "cmd" THEN calls + 1 ELSE 0,
   name |-> IF k = "clear_event" THEN n ELSE "any",
   since |-> IF k = "clear_event" THEN emitted ELSE 0]
NoCall == [kind |-> "none", id |-> 0, tag |-> 0, name |-> "any", since |-> 0]
Unused == [end |-> "none", to |-> 0]

Init ==
  /\ lock = {} /\ events = <<>> /\ closed = FALSE
  /\ pc = [t \in Thread |-> "idle"]
  /\ call = [t \in Thread |-> NoCall]
  /\ result = [t \in Thread |-> Unused]
  /\ calls = 0
  /\ arrived = <<>> /\ answers = <<>> /\ asked = <<>> /\ up = TRUE /\ emitted = 0
  /\ cleared = {} /\ dropped = {} /\ gaveup = FALSE /\ stuck = {} /\ stalls = 0

-----------------------------------------------------------------------------
(* Steps of a call.                                                        *)

Goto(t, l) == pc' = [pc EXCEPT ![t] = l]
Stay == UNCHANGED <<pc, lock, result, stuck>>

\* Mutant of Finish: a command without an answer does not give the lock back.
FinishHolding(t, how, to) ==
  /\ Goto(t, "idle")
  /\ lock' = IF how = "none" THEN lock ELSE lock \ ({t} \ stuck)
  /\ result' = [result EXCEPT ![t] = [end |-> how, to |-> to]]
  /\ UNCHANGED stuck

\* The end of a call that holds the lock: the finally clauses release it, as
\* often as this call has acquired it.
Finish(t, how, to) ==
  /\ Goto(t, "idle")
  /\ lock' = lock \ ({t} \ stuck)
  /\ result' = [result EXCEPT ![t] = [end |-> how, to |-> to]]
  /\ UNCHANGED stuck

\* A socket error in a call: clear_event has no finally clause.
Break(t) ==
  IF call[t].kind = "clear_event"
  THEN /\ Goto(t, "idle")
       /\ result' = [result EXCEPT ![t] = [end |-> "socket", to |-> 0]]
       /\ stuck' = stuck \union {t}
       /\ UNCHANGED lock
  ELSE Finish(t, "socket", 0)

\* Mutant of Collect: answers are taken for events.
CollectAll(evs, ans) == events' = events \o evs \o ans

\* Mutant of Collect: events that come with other objects are not kept.
CollectNothing(evs, ans) == UNCHANGED events

\* Every read stores the events among the objects.
Collect(evs, ans) == events' = events \o evs

\* _read_objects: all that has come, without a last line that does not end in
\* time; the end of the stream is noted.  (No reader looks at the order of an
\* event and an answer, so the last line is that of either.)
ReadObjects(ans) ==
  /\ \/ ans = answers /\ Collect(arrived, ans) /\ UNCHANGED <<dropped, stalls>>
     \/ /\ stalls < MaxStalls /\ stalls' = stalls + 1
        /\ \/ /\ arrived # <<>> /\ ans = answers
              /\ Collect(Front(arrived), ans)
              /\ dropped' = dropped \union {Last(arrived)}
           \/ /\ answers # <<>> /\ ans = Front(answers)
              /\ Collect(arrived, ans)
              /\ UNCHANGED dropped
  /\ arrived' = <<>> /\ answers' = <<>>
  /\ closed' = (closed \/ ~up)

\* The connection is reset while it is read: what was read so far is lost.
ReadFails(t) ==
  /\ ~up /\ ~closed
  /\ dropped' = dropped \union ToSet(arrived)
  /\ arrived' = <<>> /\ answers' = <<>>
  /\ Break(t)
  /\ UNCHANGED <<events, closed, call, calls, asked, up, emitted, cleared, gaveup, stalls>>

Begin(t) ==
  /\ pc[t] = "idle" /\ calls < MaxCalls
  /\ \E k \in Kind, n \in Name : call' = [call EXCEPT ![t] = Call(k, n)]
  /\ calls' = calls + 1
  /\ Goto(t, "lock")
  /\ result' = [result EXCEPT ![t] = Unused]
  /\ UNCHANGED <<monitorVars, qemuVars, ghostVars>>

\* Mutant of CanAcquire: the lock does not exclude.
CanAcquireAlways(t) == TRUE

\* The lock is reentrant: a thread that has kept it gets it again.
CanAcquire(t) == lock \subseteq {t}

Acquire(t) ==
  /\ pc[t] = "lock" /\ CanAcquire(t)
  /\ lock' = lock \union {t}
  /\ Goto(t, IF call[t].kind = "clear_events" THEN "clear" ELSE "read")
  /\ UNCHANGED <<events, closed, call, result, calls, qemuVars, ghostVars>>

\* _acquire_lock gives up after ACQUIRE_LOCK_TIMEOUT: MonitorLockError.
LockTimeout(t) ==
  /\ pc[t] = "lock" /\ ~CanAcquire(t)
  /\ Goto(t, "idle")
  /\ result' = [result EXCEPT ![t] = [end |-> "locked", to |-> 0]]
  /\ UNCHANGED <<monitorVars, call, calls, qemuVars, ghostVars>>

\* The answers that a read may get to see.
Readable == {answers} \union {Front(ans) : ans \in {answers} \ {<<>>}}

\* The read before a command is sent, of get_events, or of a round of clear_event.
Read(t) ==
  /\ pc[t] = "read"
  /\ \/ /\ \E ans \in Readable : ReadObjects(ans)
        /\ CASE call[t].kind = "get_events" -> Finish(t, "events", 0)
             [] call[t].kind = "clear_event" -> Goto(t, "pick") /\ UNCHANGED <<lock, result, stuck>>
             [] OTHER -> Goto(t, "send") /\ UNCHANGED <<lock, result, stuck>>
        /\ UNCHANGED <<call, calls, asked, up, emitted, cleared, gaveup>>
     \/ ReadFails(t)

Send(t) ==
  /\ pc[t] = "send"
  /\ IF up THEN asked' = Append(asked, call[t]) /\ Goto(t, "recv") /\ UNCHANGED <<lock, result, stuck>>
     ELSE Finish(t, "socket", 0) /\ UNCHANGED asked
  /\ UNCHANGED <<events, closed, call, calls, arrived, answers, up, emitted, cleared, dropped,
                 gaveup, stalls>>

\* Mutant of Matches: the id is not compared.
MatchesAny(c, o) == TRUE

\* _get_response: cmd looks for its id, the raw calls take any answer.
Matches(c, o) == c.tag # 0 => o.id = c.tag

\* The first answer that matches ends the call, the others are lost.
Receive(t) ==
  /\ pc[t] = "recv" /\ (arrived # <<>> \/ answers # <<>>)
  /\ \/ \E ans \in Readable :
          LET own == {i \in DOMAIN ans : Matches(call[t], ans[i])}
          IN  /\ ReadObjects(ans)
              /\ \/ own = {} /\ Stay
                 \/ \E i \in own :
                      (\A j \in own : i <= j) /\ Finish(t, "answer", ans[i].to)
              /\ UNCHANGED <<call, calls, asked, up, emitted, cleared, gaveup>>
     \/ ReadFails(t)

\* Mutant of NoResponse: a command waits as long as it takes.
NoResponseEver(t) ==
  /\ pc[t] = "recv" /\ arrived = <<>> /\ answers = <<>> /\ ~up
  /\ closed' = TRUE
  /\ Finish(t, "none", 0)
  /\ gaveup' = TRUE
  /\ UNCHANGED <<events, call, calls, qemuVars, cleared, dropped, stalls>>

\* Nothing comes until the timeout, or the end of the stream.
NoResponse(t) ==
  /\ pc[t] = "recv" /\ arrived = <<>> /\ answers = <<>>
  /\ closed' = (closed \/ ~up)
  /\ Finish(t, "none", 0)
  /\ gaveup' = TRUE
  /\ UNCHANGED <<events, call, calls, qemuVars, cleared, dropped, stalls>>

ClearEvents(t) ==
  /\ pc[t] = "clear"
  /\ cleared' = cleared \union ToSet(events)
  /\ events' = <<>>
  /\ Finish(t, "ok", 0)
  /\ UNCHANGED <<closed, call, calls, qemuVars, dropped, gaveup, stalls>>

\* The first event of the name is removed.
ClearFirst(named) ==
  \E i \in named :
    /\ \A j \in named : i <= j
    /\ events' = RemoveAt(events, i)
    /\ cleared' = cleared \union {events[i]}

\* Mutant of ClearEvent: one event is cleared, not all of the name.
ClearOneEvent(t) ==
  LET named == {i \in DOMAIN events : events[i].name = call[t].name}
  IN  /\ pc[t] = "pick"
      /\ (named = {} /\ UNCHANGED <<events, cleared>>) \/ ClearFirst(named)
      /\ Finish(t, "ok", 0)
      /\ UNCHANGED <<closed, call, calls, qemuVars, dropped, gaveup, stalls>>

\* A round of clear_event: if an event of the name is removed, the next round
\* reads again; without one the call ends.
ClearEvent(t) ==
  LET named == {i \in DOMAIN events : events[i].name = call[t].name}
  IN  /\ pc[t] = "pick"
      /\ \/ named = {} /\ Finish(t, "ok", 0) /\ UNCHANGED <<events, cleared>>
         \/ ClearFirst(named) /\ Goto(t, "read") /\ UNCHANGED <<lock, result, stuck>>
      /\ UNCHANGED <<closed, call, calls, qemuVars, dropped, gaveup, stalls>>

-----------------------------------------------------------------------------
(* QEMU.                                                                   *)

Reply ==
  /\ up /\ asked # <<>>
  /\ answers' = Append(answers, Answer(Head(asked)))
  /\ asked' = Tail(asked)
  /\ UNCHANGED <<monitorVars, threadVars, arrived, up, emitted, ghostVars>>

Emit(n) ==
  /\ up /\ emitted < MaxEvents
  /\ emitted' = emitted + 1
  /\ arrived' = Append(arrived, Event(emitted + 1, n))
  /\ UNCHANGED <<monitorVars, threadVars, answers, asked, up, ghostVars>>

End ==
  /\ up
  /\ up' = FALSE
  /\ asked' = <<>>
  /\ UNCHANGED <<monitorVars, threadVars, arrived, answers, emitted, ghostVars>>

-----------------------------------------------------------------------------

Step(t) ==
  \/ Acquire(t) \/ LockTimeout(t) \/ Read(t) \/ Send(t) \/ Receive(t) \/ NoResponse(t)
  \/ ClearEvents(t) \/ ClearEvent(t)

Next ==
  \/ \E t \in Thread : Begin(t) \/ Step(t)
  \/ Reply \/ End \/ \E n \in Name : Emit(n)

\* A thread that is in a call runs on: all its waits end by a timeout.  QEMU
\* owes nothing.
Spec == Init /\ [][Next]_vars /\ \A t \in Thread : WF_vars(Step(t))

-----------------------------------------------------------------------------

Events == [id : 1..MaxEvents, name : Name]
Answers == [id : 0..MaxCalls, to : 1..MaxCalls]
Calls == [kind : AllKinds, id : 1..MaxCalls, tag : 0..MaxCalls, name : Name \union {"any"},
          since : 0..MaxEvents]
Results == [end : {"none", "answer", "events", "ok", "socket", "locked"}, to : 0..MaxCalls]

ThreadTypes ==
  /\ lock \subseteq Thread /\ stuck \subseteq Thread
  /\ pc \in [Thread -> {"idle", "lock", "read", "send", "recv", "clear", "pick"}]
  /\ call \in [Thread -> Calls \union {NoCall}]
  /\ result \in [Thread -> Results]
  /\ calls \in 0..MaxCalls /\ emitted \in 0..MaxEvents /\ stalls \in 0..MaxStalls

StreamTypes ==
  /\ events \in Seq(Events) /\ arrived \in Seq(Events)
  /\ answers \in Seq(Answers) /\ asked \in Seq(Calls)
  /\ cleared \subseteq Events /\ dropped \subseteq Events

FlagTypes == closed \in BOOLEAN /\ up \in BOOLEAN /\ gaveup \in BOOLEAN

TypeOK == ThreadTypes /\ StreamTypes /\ FlagTypes

\* A command that returns an answer returns its own, although earlier commands
\* may have given up and their answers come late (cmd, _get_response).
RightAnswer ==
  \A t \in Thread :
    result[t].end = "answer" /\ call[t].kind = "cmd" => result[t].to = call[t].id

\* The raw calls, which have no id to compare, return their own answer as long
\* as no command has ever given up: the lock keeps the exchanges of the threads
\* apart.
RawAnswer ==
  \A t \in Thread :
    result[t].end = "answer" /\ ~gaveup => result[t].to = call[t].id

\* Whichever call reads an event, and whatever else it is waiting for, the event
\* is there for get_events until somebody clears it, once and in order; only a
\* line that was not read to its end is lost (_read_objects).
NoEventLost ==
  LET known == events \o arrived
  IN  /\ \A i, j \in DOMAIN known : i < j => known[i].id < known[j].id
      /\ {o.id : o \in ToSet(known) \union cleared \union dropped} = 1..emitted
      /\ ToSet(known) \intersect (cleared \union dropped) = {}

\* A thread outside a call holds the lock only if a socket error has thrown it
\* out of clear_event.
LockGivenBack == \A t \in lock : pc[t] \in {"idle", "lock"} => t \in stuck

\* When clear_event returns, no event of its name that QEMU had emitted before
\* the call is left to be found later.
NoStaleEvent ==
  [][\A t \in Thread :
       pc[t] = "pick" /\ pc'[t] = "idle" /\ result'[t].end = "ok" =>
         \A o \in ToSet(events' \o arrived') :
           o.name = call[t].name => o.id > call[t].since]_vars

\* Every call ends, whatever QEMU and the other threads do.
CallsEnd == \A t \in Thread : pc[t] # "idle" ~> pc[t] = "idle"

=============================================================================
