------------------------------ MODULE ClusterJob ------------------------------
(***************************************************************************)
(* Jobs on a cluster: the hooks of avocado_vt/plugins/vt_cluster.py, which *)
(* start an agent on every node (virttest/vt_cluster/node.py), connect all *)
(* resource pools to their nodes (vt_resmgr/resource_manager.py), and undo *)
(* both after the tests.                                                   *)
(*                                                                         *)
(* Jobs come one after the other.  A job may fail anywhere in pre_tests,   *)
(* then its post_tests follows; a job that is killed, or whose post_tests  *)
(* avocado does not call any more, leaves everything as it is.             *)
(***************************************************************************)
EXTENDS Naturals, Sequences, FiniteSets

CONSTANTS
  Node,       \* hosts of the cluster configuration
  Pool,       \* resource pools
  Inside,     \* pools that are mounted below the agent's data directory
  Links,      \* sequence of <<pool, node>>: accessing_nodes of all the pools
  MaxJobs,    \* bound: jobs
  MaxBoots,   \* bound: runs of vt-bootstrap
  MaxFaults   \* bound: killed jobs, dead agents, ssh and umount failures

ASSUME ClusterAssumption ==
  /\ Inside \subseteq Pool
  /\ Links \in Seq(Pool \X Node)
  /\ MaxJobs \in Nat /\ MaxBoots \in Nat /\ MaxFaults \in Nat

VARIABLES
  \* the controller
  registered,  \* nodes in the cluster registry (cluster_env)
  pc,          \* where the job is
  thread,      \* node -> what its thread of _setup_nodes or _cleanup_nodes did
  pos,         \* the next link to attach or detach
  connected,   \* link -> how often the pool lists its node in connected_nodes
  saved,       \* the same in vt_resmgr.env
  jobs, boots, faults,
  \* the nodes
  agent,       \* node -> an agent serves its port
  own,         \* node -> it runs in a session of the present job
  daemon,      \* node -> the agent that the job has launched and that does not serve yet
  loaded,      \* node -> the pool connections which that one has read
  taken,       \* history: nodes where it took the port after another agent had passed for it
  conn,        \* node -> the serving agent's pool connections
  env,         \* node -> the same in resbk_mgr.env
  mount,       \* node -> pools that are physically connected
  wiped        \* pools whose files were deleted

controlVars == <<registered, saved, jobs, boots, faults>>
jobVars == <<pc, thread, pos, connected>>
agentVars == <<agent, own, daemon, loaded, taken>>
poolVars == <<conn, env, mount, wiped>>
nodeVars == <<agentVars, poolVars>>
vars == <<controlVars, jobVars, nodeVars>>

None == [i \in DOMAIN Links |-> 0]
Fresh == [n \in Node |-> "todo"]
Nowhere == [n \in Node |-> {}]
Nobody == [n \in Node |-> FALSE]
Idle == [n \in Node |-> "none"]

PoolOf(i) == Links[i][1]
NodeOf(i) == Links[i][2]

\* The agent of n keeps its connections in resbk_mgr.env.
Dump(n) == env' = [env EXCEPT ![n] = conn'[n]]

Goto(l) == pc' = l
Fault == faults < MaxFaults /\ faults' = faults + 1

Init ==
  /\ registered = {} /\ saved = None /\ jobs = 0 /\ boots = 0 /\ faults = 0
  /\ pc = "idle" /\ thread = Fresh /\ pos = 1 /\ connected = None
  /\ agent = Nobody /\ own = Nobody /\ daemon = Idle /\ loaded = Nowhere /\ taken = {}
  /\ conn = Nowhere /\ env = Nowhere /\ mount = Nowhere /\ wiped = {}

-----------------------------------------------------------------------------
(* vt-bootstrap.                                                           *)

\* Hosts are cleaned (their agent directory is removed with everything below)
\* and registered; one that fails before or after that is skipped.  The pools
\* are registered anew, under identifiers that no agent knows.
Bootstrap ==
  /\ pc = "idle" /\ boots < MaxBoots
  /\ \E cleaned \in SUBSET Node :
       /\ registered' \in SUBSET cleaned
       /\ wiped' = wiped \union UNION {mount[n] \intersect Inside : n \in cleaned}
  /\ boots' = boots + 1
  /\ saved' = None
  /\ conn' = Nowhere /\ env' = Nowhere /\ loaded' = Nowhere
  /\ UNCHANGED <<jobs, faults, jobVars, agent, own, daemon, taken, mount>>

-----------------------------------------------------------------------------
(* pre_tests.                                                              *)

\* The job process loads the registry and the pools; without nodes there is
\* nothing to set up.  (Bound: what a killed job has launched serves or has
\* ended by then.)
Begin ==
  /\ pc = "idle" /\ jobs < MaxJobs /\ daemon = Idle
  /\ jobs' = jobs + 1
  /\ connected' = saved
  /\ thread' = Fresh
  /\ pos' = 1
  /\ own' = Nobody /\ taken' = {}
  /\ Goto(IF registered = {} THEN "tests" ELSE "agents")
  /\ UNCHANGED <<registered, saved, boots, faults, agent, daemon, loaded, poolVars>>

\* A session is opened and the command line of the agent sent to it.
Launch(n) ==
  /\ pc = "agents" /\ n \in registered /\ thread[n] = "todo"
  /\ daemon' = [daemon EXCEPT ![n] = "starting"]
  /\ thread' = [thread EXCEPT ![n] = "launched"]
  /\ UNCHANGED <<controlVars, pc, pos, connected, agent, own, loaded, taken, poolVars>>

\* The agent removes the data directory of the previous run and writes its
\* first line of output.  A mounted pool is busy: the removal deletes its files
\* and stops there, before or behind resbk_mgr.env.
AgentMain(n) ==
  /\ daemon[n] = "starting"
  /\ daemon' = [daemon EXCEPT ![n] = "announced"]
  /\ LET met == mount[n] \intersect Inside
     IN  /\ wiped' = wiped \union met
         /\ env' \in {[env EXCEPT ![n] = {}]} \union (IF met = {} THEN {} ELSE {env})
  /\ UNCHANGED <<controlVars, jobVars, agent, own, loaded, taken, conn, mount>>

\* The services are loaded, with what is left of resbk_mgr.env by then or is
\* new in it.
LoadServices(n) ==
  /\ daemon[n] = "announced"
  /\ daemon' = [daemon EXCEPT ![n] = "loaded"]
  /\ loaded' = [loaded EXCEPT ![n] = env[n]]
  /\ UNCHANGED <<controlVars, jobVars, agent, own, taken, poolVars>>

\* It binds its port, or exits if another agent still has it.
Serve(n) ==
  /\ daemon[n] = "loaded"
  /\ daemon' = [daemon EXCEPT ![n] = "none"]
  /\ loaded' = [loaded EXCEPT ![n] = {}]
  /\ IF agent[n] THEN UNCHANGED <<agent, own, taken, conn>>
     ELSE /\ agent' = [agent EXCEPT ![n] = TRUE]
          /\ own' = [own EXCEPT ![n] = TRUE]
          /\ conn' = [conn EXCEPT ![n] = loaded[n]]
          /\ taken' = IF thread[n] = "done" THEN taken \union {n} ELSE taken
  /\ UNCHANGED <<controlVars, jobVars, env, mount, wiped>>

\* An agent answers on the port, whichever it is.  (The PID file is read first,
\* but if there is none the message of cat passes for its contents.)
IsAgentAlive(n) == agent[n]

\* The session cannot be opened; the agent has written its line and an agent
\* is seen alive; or three seconds pass.
StartAgentServer(n) ==
  /\ pc = "agents" /\ n \in registered
  /\ \/ thread[n] = "todo" /\ thread' = [thread EXCEPT ![n] = "failed"]
     \/ /\ thread[n] = "launched" /\ daemon[n] # "starting" /\ IsAgentAlive(n)
        /\ thread' = [thread EXCEPT ![n] = "done"]
     \/ thread[n] = "launched" /\ thread' = [thread EXCEPT ![n] = "failed"]
  /\ UNCHANGED <<controlVars, pc, pos, connected, nodeVars>>

\* Mutant of Over: only a thread that succeeds ends.
OverIfDone == \A n \in registered : thread[n] = "done"

Over == \A n \in registered : thread[n] \in {"done", "failed"}

\* Mutant of PreTestsFail: only the agents are stopped.
PreTestsFailAttached == Goto("stop") /\ thread' = Fresh /\ UNCHANGED <<pos, connected>>

\* sys.exit in pre_tests, with the post_tests that follows.
PreTestsFail == Goto("detach") /\ pos' = 1 /\ UNCHANGED <<thread, connected>>

SetupNodes ==
  /\ pc = "agents" /\ Over
  /\ IF \E n \in registered : thread[n] = "failed" THEN PreTestsFail
     ELSE Goto("service") /\ UNCHANGED <<thread, pos, connected>>
  /\ UNCHANGED <<controlVars, nodeVars>>

\* startup: the backing services of all nodes first.
StartService ==
  /\ pc = "service"
  /\ IF \A n \in registered : agent[n] THEN Goto("attach") /\ UNCHANGED <<thread, pos, connected>>
     ELSE PreTestsFail
  /\ UNCHANGED <<controlVars, nodeVars>>

\* Mutant of Attach: the answer of the agent is not looked at.
AttachUnchecked ==
  /\ pc = "attach" /\ pos <= Len(Links)
  /\ LET n == NodeOf(pos)
         new == IF agent[n] THEN {PoolOf(pos)} ELSE {}
     IN  \E opened \in SUBSET new :
           /\ conn' = [conn EXCEPT ![n] = @ \union opened]
           /\ mount' = [mount EXCEPT ![n] = @ \union opened]
           /\ Dump(n)
  /\ connected' = [connected EXCEPT ![pos] = @ + 1]
  /\ pos' = pos + 1
  /\ UNCHANGED <<controlVars, pc, thread, agentVars, wiped>>

\* attach_to: the agent opens the connection and keeps it; the controller may
\* not learn of it, or it fails altogether.
Attach ==
  /\ pc = "attach" /\ pos <= Len(Links)
  /\ LET p == PoolOf(pos)
         n == NodeOf(pos)
     IN  \/ /\ n \in registered /\ agent[n]
            /\ conn' = [conn EXCEPT ![n] = @ \union {p}]
            /\ mount' = [mount EXCEPT ![n] = @ \union {p}]
            /\ Dump(n)
            /\ \/ /\ connected' = [connected EXCEPT ![pos] = @ + 1]
                  /\ pos' = pos + 1
                  /\ UNCHANGED <<pc, thread>>
               \/ PreTestsFail
         \/ PreTestsFail /\ UNCHANGED <<conn, env, mount>>
  /\ UNCHANGED <<controlVars, agentVars, wiped>>

\* The end of startup dumps the pools.
Startup ==
  /\ pc = "attach" /\ pos > Len(Links)
  /\ saved' = connected
  /\ Goto("props")
  /\ UNCHANGED <<registered, jobs, boots, faults, thread, pos, connected, nodeVars>>

\* save_properties asks every agent.
SaveProperties ==
  /\ pc = "props"
  /\ \/ /\ \A n \in registered : agent[n]
        /\ Goto("tests") /\ UNCHANGED <<thread, pos, connected>>
     \/ PreTestsFail
  /\ UNCHANGED <<controlVars, nodeVars>>

-----------------------------------------------------------------------------
(* post_tests.                                                             *)

EndTests ==
  /\ pc = "tests"
  /\ IF registered = {} THEN Goto("idle") /\ UNCHANGED pos ELSE Goto("detach") /\ pos' = 1
  /\ UNCHANGED <<controlVars, thread, connected, nodeVars>>

\* The end of teardown, regular or by an exception, which is only logged.
TeardownEnds == Goto("stop") /\ thread' = Fresh /\ UNCHANGED pos

\* Mutant of Detach: the links are detached in reverse order.
DetachReverse ==
  /\ pc = "detach" /\ pos <= Len(Links)
  /\ LET i == Len(Links) + 1 - pos
         p == PoolOf(i)
         n == NodeOf(i)
     IN  IF n \in registered /\ agent[n] /\ p \in conn[n] /\ connected[i] > 0
         THEN /\ conn' = [conn EXCEPT ![n] = @ \ {p}]
              /\ mount' = [mount EXCEPT ![n] = @ \ {p}]
              /\ Dump(n)
              /\ connected' = [connected EXCEPT ![i] = @ - 1]
              /\ pos' = pos + 1
              /\ UNCHANGED <<pc, thread, faults>>
         ELSE TeardownEnds /\ UNCHANGED <<conn, env, mount, connected, faults>>
  /\ UNCHANGED <<registered, saved, jobs, boots, agentVars, wiped>>

\* Mutant of Disconnected: a node is counted out that was not counted in.
DisconnectedUnchecked ==
  /\ connected' = [connected EXCEPT ![pos] = @ - 1]
  /\ pos' = pos + 1
  /\ UNCHANGED <<pc, thread>>

\* The controller forgets a node, which it must have known as connected.
Disconnected ==
  IF connected[pos] > 0
  THEN /\ connected' = [connected EXCEPT ![pos] = @ - 1]
       /\ pos' = pos + 1
       /\ UNCHANGED <<pc, thread>>
  ELSE TeardownEnds /\ UNCHANGED connected

\* detach_from: a connection that the agent does not know is an error, and the
\* first error ends the teardown.  The agent forgets a connection before it
\* closes it; a failing umount is not reported, another failure is, and then
\* resbk_mgr.env stays as it was.
Detach ==
  /\ pc = "detach" /\ pos <= Len(Links)
  /\ LET p == PoolOf(pos)
         n == NodeOf(pos)
     IN  IF n \in registered /\ agent[n] /\ p \in conn[n]
         THEN /\ conn' = [conn EXCEPT ![n] = @ \ {p}]
              /\ \/ /\ mount' = [mount EXCEPT ![n] = @ \ {p}]
                    /\ Dump(n) /\ Disconnected /\ UNCHANGED faults
                 \/ Fault /\ UNCHANGED mount /\ Dump(n) /\ Disconnected
                 \/ Fault /\ UNCHANGED <<env, mount, connected>> /\ TeardownEnds
         ELSE TeardownEnds /\ UNCHANGED <<conn, env, mount, connected, faults>>
  /\ UNCHANGED <<registered, saved, jobs, boots, agentVars, wiped>>

\* The end of teardown: the backing services, one by one, forget what they
\* still have, up to the first that does not answer.
StopService ==
  /\ pc = "detach" /\ pos > Len(Links)
  /\ \E asked \in SUBSET {n \in registered : agent[n]} :
       /\ asked = registered \/ \E n \in registered : ~agent[n]
       /\ conn' = [n \in Node |-> IF n \in asked THEN {} ELSE conn[n]]
       /\ env' = [n \in Node |-> IF n \in asked THEN {} ELSE env[n]]
  /\ TeardownEnds
  /\ UNCHANGED <<controlVars, connected, agentVars, mount, wiped>>

\* An agent that answers is asked to quit, whichever it is; what runs in a
\* session of this job ends with the session.  If ssh fails, neither.
StopAgentServer(n) ==
  /\ pc = "stop" /\ n \in registered /\ thread[n] = "todo"
  /\ thread' = [thread EXCEPT ![n] = "done"]
  /\ \/ /\ agent' = [agent EXCEPT ![n] = @ /\ ~IsAgentAlive(n) /\ ~own[n]]
        /\ conn' = [conn EXCEPT ![n] = IF agent'[n] THEN @ ELSE {}]
        /\ daemon' = [daemon EXCEPT ![n] = "none"]
        /\ loaded' = [loaded EXCEPT ![n] = {}]
        /\ UNCHANGED faults
     \/ Fault /\ UNCHANGED <<agent, conn, daemon, loaded>>
  /\ UNCHANGED <<registered, saved, jobs, boots, pc, pos, connected, own, taken, env, mount, wiped>>

PostTests ==
  /\ pc = "stop" /\ Over
  /\ Goto("idle")
  /\ UNCHANGED <<controlVars, thread, pos, connected, nodeVars>>

-----------------------------------------------------------------------------
(* Faults.                                                                 *)

\* The job is killed; the sessions and what runs in them may go with it.
Kill ==
  /\ pc # "idle" /\ Fault
  /\ Goto("idle")
  /\ \E dying \in SUBSET Node :
       /\ agent' = [n \in Node |-> agent[n] /\ ~(own[n] /\ n \in dying)]
       /\ conn' = [n \in Node |-> IF agent'[n] THEN conn[n] ELSE {}]
       /\ daemon' = [n \in Node |-> IF n \in dying THEN "none" ELSE daemon[n]]
       /\ loaded' = [n \in Node |-> IF n \in dying THEN {} ELSE loaded[n]]
  /\ UNCHANGED <<registered, saved, jobs, boots, thread, pos, connected, own, taken, env, mount, wiped>>

AgentDies(n) ==
  /\ agent[n] /\ Fault
  /\ agent' = [agent EXCEPT ![n] = FALSE]
  /\ conn' = [conn EXCEPT ![n] = {}]
  /\ UNCHANGED <<registered, saved, jobs, boots, jobVars, own, daemon, loaded, taken, env, mount, wiped>>

-----------------------------------------------------------------------------

JobStep ==
  \/ \E n \in Node : Launch(n) \/ StartAgentServer(n) \/ StopAgentServer(n)
  \/ SetupNodes \/ StartService \/ Attach \/ Startup \/ SaveProperties
  \/ EndTests \/ Detach \/ StopService \/ PostTests

Next ==
  \/ Bootstrap \/ Begin \/ JobStep \/ Kill
  \/ \E n \in Node : AgentMain(n) \/ LoadServices(n) \/ Serve(n) \/ AgentDies(n)

\* The hooks run to their end: every wait in them is bounded.
Spec == Init /\ [][Next]_vars /\ WF_vars(JobStep)

-----------------------------------------------------------------------------

JobTypes ==
  /\ registered \subseteq Node
  /\ pc \in {"idle", "agents", "service", "attach", "props", "tests", "detach", "stop"}
  /\ thread \in [Node -> {"todo", "launched", "done", "failed"}]
  /\ pos \in 1..Len(Links) + 1
  /\ connected \in [DOMAIN Links -> Nat] /\ saved \in [DOMAIN Links -> Nat]
  /\ jobs \in 0..MaxJobs /\ boots \in 0..MaxBoots /\ faults \in 0..MaxFaults

NodeTypes ==
  /\ daemon \in [Node -> {"none", "starting", "announced", "loaded"}] /\ taken \subseteq Node
  /\ conn \in [Node -> SUBSET Pool] /\ mount \in [Node -> SUBSET Pool]
  /\ env \in [Node -> SUBSET Pool] /\ loaded \in [Node -> SUBSET Pool]
  /\ wiped \subseteq Pool

FlagTypes == agent \in [Node -> BOOLEAN] /\ own \in [Node -> BOOLEAN]

TypeOK == JobTypes /\ NodeTypes /\ FlagTypes

\* Whatever agents, connections and mounts earlier jobs have left behind, tests
\* begin only when every pool is physically connected to each of its nodes and
\* the agent that serves the node knows it (pre_tests, startup), unless that
\* agent took the port only after another one had passed for it.
TestsReady ==
  [][pc # "tests" /\ pc' = "tests" /\ registered # {} =>
       \A i \in DOMAIN Links :
         LET n == NodeOf(i)
         IN  /\ n \in registered /\ PoolOf(i) \in mount'[n]
             /\ n \in taken \/ PoolOf(i) \in conn'[n]]_vars

\* A job that neither is killed nor meets a failure in post_tests leaves no
\* agent running and no pool mounted, wherever its pre_tests failed: teardown
\* stops at the first link it cannot detach, and that is the first link which
\* startup has not attached.
CleanEnd ==
  faults = 0 /\ pc = "idle" =>
    \A n \in Node : ~agent[n] /\ daemon[n] = "none" /\ mount[n] = {}

\* Neither vt-bootstrap nor the start of an agent, both of which remove the
\* agent's directories of a previous run, meets a pool still mounted there.
PoolsUntouched == faults = 0 => wiped = {}

\* The hooks of a job come to an end, whatever fails in them.
JobEnds == pc # "idle" ~> pc = "idle"

\* "The resource pools have already been ready to use, avocado-vt just accesses
\* the pools, it will not manage them" (create_pool_from_params): no pool loses
\* its files to the set-up of a later job or of vt-bootstrap.
JustAccessed == wiped = {}

=============================================================================
