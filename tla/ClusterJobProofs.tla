-------------------------- MODULE ClusterJobProofs --------------------------
(***************************************************************************)
(* Proofs for ClusterJob, for any cluster, any pools and any number of     *)
(* jobs, runs of vt-bootstrap and faults.                                  *)
(*                                                                         *)
(* ReadyInv: when links are attached an agent has been seen alive on every *)
(* node, so one that takes a port later takes it from another, and where   *)
(* none does a connection is there as long as the agent answers.           *)
(* CleanInv, without faults: the links that are mounted are always the     *)
(* first ones, so the teardown, which stops at the first link it cannot    *)
(* detach, stops behind the last mounted one.                              *)
(***************************************************************************)
EXTENDS ClusterJob, TLAPS

\* The nodes of a pool are listed once each in cluster.json.
DistinctLinks ==
  \A i, j \in DOMAIN Links : PoolOf(i) = PoolOf(j) /\ NodeOf(i) = NodeOf(j) => i = j

Mounted(i) == PoolOf(i) \in mount[NodeOf(i)]

\* Nothing on the node belongs to a job.
Quiet(n) == ~agent[n] /\ daemon[n] = "none" /\ mount[n] = {} /\ conn[n] = {}

\* The position in the list of links belongs to the stage.
PosInv ==
  /\ pc \in {"agents", "service"} => pos = 1
  /\ pc = "props" => pos = Len(Links) + 1

\* Behind the start of the agents an agent has been seen alive on every node.
SettledInv ==
  pc \in {"service", "attach", "props"} => \A n \in registered : thread[n] = "done"

\* What startup has attached stays mounted, and its agent knows it as long as it
\* answers, unless another one has taken the port.
AttachedInv ==
  pc \in {"attach", "props"} => \A i \in DOMAIN Links : i < pos =>
    /\ NodeOf(i) \in registered
    /\ PoolOf(i) \in mount[NodeOf(i)]
    /\ agent[NodeOf(i)] /\ NodeOf(i) \notin taken => PoolOf(i) \in conn[NodeOf(i)]

ReadyInv == PosInv /\ SettledInv /\ AttachedInv

\* Agents belong to the job, and where they do not run there is nothing.
AgentsInv ==
  \A n \in Node :
    /\ pc = "idle" \/ n \notin registered => Quiet(n)
    /\ pc = "agents" /\ thread[n] = "todo" => Quiet(n)
    /\ pc = "stop" /\ thread[n] # "todo" => Quiet(n)
    /\ agent[n] => own[n]
    /\ daemon[n] # "none" => ~agent[n]
    /\ ~agent[n] => mount[n] = {}
    /\ pc \in {"agents", "service", "stop"} => mount[n] = {}

\* Mounts are those of links, and known to the agents.
MountsInv ==
  \A n \in Node : \A p \in mount[n] :
    p \in conn[n] /\ \E i \in DOMAIN Links : PoolOf(i) = p /\ NodeOf(i) = n

\* The mounted links are the first ones, from the position of the teardown on.
LinksInv ==
  /\ pc \in {"attach", "props", "tests"} => \A i \in DOMAIN Links :
       /\ Mounted(i) <=> i < pos
       /\ Mounted(i) => connected[i] > 0
  /\ pc = "detach" => \A j \in DOMAIN Links : Mounted(j) =>
       /\ pos <= j
       /\ \A i \in DOMAIN Links : pos <= i /\ i < j => Mounted(i) /\ connected[i] > 0

\* The invariant while there is no fault.
NoFaults == faults = 0 /\ AgentsInv /\ MountsInv /\ LinksInv

CleanInv == faults = 0 => NoFaults /\ wiped = {}

-----------------------------------------------------------------------------
(* Types.                                                                  *)

\* Links lead from pools to nodes.
LEMMA LinkFacts ==
  /\ DOMAIN Links = 1..Len(Links) /\ Len(Links) \in Nat
  /\ \A i \in DOMAIN Links : PoolOf(i) \in Pool /\ NodeOf(i) \in Node
  BY ClusterAssumption DEF PoolOf, NodeOf

\* Initially there are neither nodes nor agents.
LEMMA InitType == Init => TypeOK
<1>1. Init => JobTypes
  BY ClusterAssumption DEF Init, JobTypes, None, Fresh
<1>2. Init => NodeTypes
  BY DEF Init, NodeTypes, Idle, Nowhere
<1>3. Init => FlagTypes
  BY Zenon DEF Init, FlagTypes, Nobody
<1> QED BY <1>1, <1>2, <1>3 DEF TypeOK

\* Every step of the hooks leads to one of their stages.
LEMMA JobTypesStep == TypeOK /\ [Next]_vars => JobTypes'
<1> SUFFICES ASSUME TypeOK, [Next]_vars PROVE JobTypes'
  OBVIOUS
<1> USE DEF controlVars, jobVars, nodeVars, agentVars, poolVars, Goto, Fault
<1>1. CASE UNCHANGED vars
  BY <1>1 DEF vars, TypeOK, JobTypes
<1>2. CASE Bootstrap
  BY <1>2, ClusterAssumption DEF Bootstrap, None, TypeOK, JobTypes
<1>3. CASE Begin
  BY <1>3, ClusterAssumption DEF Begin, Fresh, TypeOK, JobTypes
<1>4. CASE JobStep
  <2>1. ASSUME NEW n \in Node, Launch(n) PROVE JobTypes'
    BY <2>1 DEF Launch, TypeOK, JobTypes
  <2>2. ASSUME NEW n \in Node, StartAgentServer(n) PROVE JobTypes'
    BY <2>2 DEF StartAgentServer, TypeOK, JobTypes
  <2>3. ASSUME NEW n \in Node, StopAgentServer(n) PROVE JobTypes'
    BY <2>3, ClusterAssumption DEF StopAgentServer, TypeOK, JobTypes
  <2>4. CASE SetupNodes
    BY <2>4 DEF SetupNodes, PreTestsFail, TypeOK, JobTypes
  <2>5. CASE StartService
    BY <2>5 DEF StartService, PreTestsFail, TypeOK, JobTypes
  <2>6. CASE Attach
    <3>1. pos \in DOMAIN Links /\ pos + 1 \in 1..Len(Links) + 1
      BY <2>6 DEF Attach, TypeOK, JobTypes
    <3>2. connected' \in [DOMAIN Links -> Nat]
      <4>1. connected' = connected \/ connected' = [connected EXCEPT ![pos] = @ + 1]
        BY <2>6 DEF Attach, PreTestsFail
      <4>2. connected \in [DOMAIN Links -> Nat]
        BY DEF TypeOK, JobTypes
      <4> QED BY <3>1, <4>1, <4>2
    <3>3. pos' \in 1..Len(Links) + 1
      BY <2>6, <3>1 DEF Attach, PreTestsFail
    <3>4. pc' \in {"attach", "detach"} /\ thread' = thread
      BY <2>6 DEF Attach, PreTestsFail
    <3> QED BY <2>6, <3>2, <3>3, <3>4 DEF Attach, TypeOK, JobTypes
  <2>7. CASE Startup
    BY <2>7 DEF Startup, TypeOK, JobTypes
  <2>8. CASE SaveProperties
    BY <2>8 DEF SaveProperties, PreTestsFail, TypeOK, JobTypes
  <2>9. CASE EndTests
    BY <2>9 DEF EndTests, TypeOK, JobTypes
  <2>10. CASE Detach
    <3>1. pos \in DOMAIN Links /\ pos + 1 \in 1..Len(Links) + 1
      BY <2>10 DEF Detach, TypeOK, JobTypes
    <3>2. (Disconnected /\ UNCHANGED faults) \/ (Disconnected /\ Fault)
          \/ (TeardownEnds /\ UNCHANGED connected /\ (UNCHANGED faults \/ Fault))
      BY <2>10 DEF Detach
    <3>3. connected' \in [DOMAIN Links -> Nat]
      BY <3>1, <3>2 DEF Disconnected, TypeOK, JobTypes
    <3>4. pos' \in 1..Len(Links) + 1
      BY <3>1, <3>2 DEF Disconnected, TeardownEnds
    <3>5. pc' \in {"detach", "stop"} /\ thread' \in {thread, Fresh}
      BY <2>10, <3>2 DEF Detach, Disconnected, TeardownEnds
    <3>6. faults' \in 0..MaxFaults
      BY <3>2, ClusterAssumption DEF TypeOK, JobTypes
    <3> QED BY <2>10, <3>3, <3>4, <3>5, <3>6 DEF Detach, Fresh, TypeOK, JobTypes
  <2>11. CASE StopService
    BY <2>11 DEF StopService, TeardownEnds, Fresh, TypeOK, JobTypes
  <2>12. CASE PostTests
    BY <2>12 DEF PostTests, TypeOK, JobTypes
  <2> QED BY <1>4, <2>1, <2>2, <2>3, <2>4, <2>5, <2>6, <2>7, <2>8, <2>9, <2>10, <2>11, <2>12 DEF JobStep
<1>5. CASE Kill
  BY <1>5, ClusterAssumption DEF Kill, TypeOK, JobTypes
<1>6. ASSUME NEW n \in Node, AgentMain(n) PROVE JobTypes'
  BY <1>6 DEF AgentMain, TypeOK, JobTypes
<1>7. ASSUME NEW n \in Node, LoadServices(n) PROVE JobTypes'
  BY <1>7 DEF LoadServices, TypeOK, JobTypes
<1>8. ASSUME NEW n \in Node, Serve(n) PROVE JobTypes'
  BY <1>8 DEF Serve, TypeOK, JobTypes
<1>9. ASSUME NEW n \in Node, AgentDies(n) PROVE JobTypes'
  BY <1>9, ClusterAssumption DEF AgentDies, TypeOK, JobTypes
<1> QED BY <1>1, <1>2, <1>3, <1>4, <1>5, <1>6, <1>7, <1>8, <1>9 DEF Next

\* Agents connect pools of the cluster only.
LEMMA NodeTypesStep == TypeOK /\ [Next]_vars => NodeTypes'
<1> SUFFICES ASSUME TypeOK, [Next]_vars PROVE NodeTypes'
  OBVIOUS
<1> USE DEF controlVars, jobVars, nodeVars, agentVars, poolVars, Goto, Fault
<1>1. CASE UNCHANGED vars
  BY <1>1 DEF vars, TypeOK, NodeTypes
<1>2. CASE Bootstrap
  BY <1>2 DEF Bootstrap, Nowhere, TypeOK, NodeTypes
<1>3. CASE Begin
  BY <1>3 DEF Begin, TypeOK, NodeTypes
<1>4. CASE JobStep
  <2>1. ASSUME NEW n \in Node, Launch(n) PROVE NodeTypes'
    BY <2>1 DEF Launch, TypeOK, NodeTypes
  <2>2. ASSUME NEW n \in Node, StartAgentServer(n) PROVE NodeTypes'
    BY <2>2 DEF StartAgentServer, TypeOK, NodeTypes
  <2>3. ASSUME NEW n \in Node, StopAgentServer(n) PROVE NodeTypes'
    BY <2>3 DEF StopAgentServer, TypeOK, NodeTypes
  <2>4. CASE SetupNodes
    BY <2>4 DEF SetupNodes, TypeOK, NodeTypes
  <2>5. CASE StartService
    BY <2>5 DEF StartService, TypeOK, NodeTypes
  <2>6. CASE Attach
    <3>1. PoolOf(pos) \in Pool /\ NodeOf(pos) \in Node
      BY <2>6, LinkFacts DEF Attach, TypeOK, JobTypes
    <3>2. /\ UNCHANGED <<daemon, loaded, taken, wiped>>
          /\ mount' \in [Node -> SUBSET Pool] /\ conn' \in [Node -> SUBSET Pool]
      BY <2>6, <3>1 DEF Attach, TypeOK, NodeTypes
    <3>3. env' = env \/ Dump(NodeOf(pos))
      BY <2>6 DEF Attach
    <3> QED BY <3>1, <3>2, <3>3 DEF Dump, TypeOK, NodeTypes
  <2>7. CASE Startup
    BY <2>7 DEF Startup, TypeOK, NodeTypes
  <2>8. CASE SaveProperties
    BY <2>8 DEF SaveProperties, TypeOK, NodeTypes
  <2>9. CASE EndTests
    BY <2>9 DEF EndTests, TypeOK, NodeTypes
  <2>10. CASE Detach
    <3>1. NodeOf(pos) \in Node
      BY <2>10, LinkFacts DEF Detach, TypeOK, JobTypes
    <3>2. /\ UNCHANGED <<daemon, loaded, taken, wiped>>
          /\ mount' \in [Node -> SUBSET Pool] /\ conn' \in [Node -> SUBSET Pool]
      BY <2>10, <3>1 DEF Detach, TypeOK, NodeTypes
    <3>3. env' = env \/ Dump(NodeOf(pos))
      BY <2>10 DEF Detach
    <3> QED BY <3>1, <3>2, <3>3 DEF Dump, TypeOK, NodeTypes
  <2>11. CASE StopService
    BY <2>11 DEF StopService, TypeOK, NodeTypes
  <2>12. CASE PostTests
    BY <2>12 DEF PostTests, TypeOK, NodeTypes
  <2> QED BY <1>4, <2>1, <2>2, <2>3, <2>4, <2>5, <2>6, <2>7, <2>8, <2>9, <2>10, <2>11, <2>12 DEF JobStep
<1>5. CASE Kill
  BY <1>5 DEF Kill, TypeOK, NodeTypes
<1>6. ASSUME NEW n \in Node, AgentMain(n) PROVE NodeTypes'
  BY <1>6 DEF AgentMain, TypeOK, NodeTypes
<1>7. ASSUME NEW n \in Node, LoadServices(n) PROVE NodeTypes'
  BY <1>7 DEF LoadServices, TypeOK, NodeTypes
<1>8. ASSUME NEW n \in Node, Serve(n) PROVE NodeTypes'
  BY <1>8 DEF Serve, TypeOK, NodeTypes
<1>9. ASSUME NEW n \in Node, AgentDies(n) PROVE NodeTypes'
  BY <1>9 DEF AgentDies, TypeOK, NodeTypes
<1> QED BY <1>1, <1>2, <1>3, <1>4, <1>5, <1>6, <1>7, <1>8, <1>9 DEF Next

\* An agent runs or it does not.
LEMMA FlagTypesStep == TypeOK /\ [Next]_vars => FlagTypes'
<1> SUFFICES ASSUME TypeOK, [Next]_vars PROVE FlagTypes'
  OBVIOUS
<1> USE DEF controlVars, jobVars, nodeVars, agentVars, poolVars, Goto, Fault
<1>1. CASE UNCHANGED vars
  BY <1>1 DEF vars, TypeOK, FlagTypes
<1>2. CASE Bootstrap
  BY <1>2, Zenon DEF Bootstrap, TypeOK, FlagTypes
<1>3. CASE Begin
  BY <1>3, Zenon DEF Begin, Nobody, TypeOK, FlagTypes
<1>4. CASE JobStep
  <2>1. ASSUME NEW n \in Node, Launch(n) PROVE FlagTypes'
    BY <2>1, Zenon DEF Launch, TypeOK, FlagTypes
  <2>2. ASSUME NEW n \in Node, StartAgentServer(n) PROVE FlagTypes'
    BY <2>2, Zenon DEF StartAgentServer, TypeOK, FlagTypes
  <2>3. ASSUME NEW n \in Node, StopAgentServer(n) PROVE FlagTypes'
    BY <2>3, Zenon DEF StopAgentServer, TypeOK, FlagTypes
  <2>4. CASE SetupNodes
    BY <2>4, Zenon DEF SetupNodes, TypeOK, FlagTypes
  <2>5. CASE StartService
    BY <2>5, Zenon DEF StartService, TypeOK, FlagTypes
  <2>6. CASE Attach
    BY <2>6, Zenon DEF Attach, TypeOK, FlagTypes
  <2>7. CASE Startup
    BY <2>7, Zenon DEF Startup, TypeOK, FlagTypes
  <2>8. CASE SaveProperties
    BY <2>8, Zenon DEF SaveProperties, TypeOK, FlagTypes
  <2>9. CASE EndTests
    BY <2>9, Zenon DEF EndTests, TypeOK, FlagTypes
  <2>10. CASE Detach
    BY <2>10, Zenon DEF Detach, TypeOK, FlagTypes
  <2>11. CASE StopService
    BY <2>11, Zenon DEF StopService, TypeOK, FlagTypes
  <2>12. CASE PostTests
    BY <2>12, Zenon DEF PostTests, TypeOK, FlagTypes
  <2> QED BY <1>4, <2>1, <2>2, <2>3, <2>4, <2>5, <2>6, <2>7, <2>8, <2>9, <2>10, <2>11, <2>12 DEF JobStep
<1>5. CASE Kill
  BY <1>5, Zenon DEF Kill, TypeOK, FlagTypes
<1>6. ASSUME NEW n \in Node, AgentMain(n) PROVE FlagTypes'
  BY <1>6, Zenon DEF AgentMain, TypeOK, FlagTypes
<1>7. ASSUME NEW n \in Node, LoadServices(n) PROVE FlagTypes'
  BY <1>7, Zenon DEF LoadServices, TypeOK, FlagTypes
<1>8. ASSUME NEW n \in Node, Serve(n) PROVE FlagTypes'
  BY <1>8, Zenon DEF Serve, TypeOK, FlagTypes
<1>9. ASSUME NEW n \in Node, AgentDies(n) PROVE FlagTypes'
  BY <1>9, Zenon DEF AgentDies, TypeOK, FlagTypes
<1> QED BY <1>1, <1>2, <1>3, <1>4, <1>5, <1>6, <1>7, <1>8, <1>9 DEF Next

\* The types, for all steps of jobs, agents and vt-bootstrap.
THEOREM TypeCorrect == Spec => []TypeOK
<1>1. TypeOK /\ [Next]_vars => TypeOK'
  BY JobTypesStep, NodeTypesStep, FlagTypesStep DEF TypeOK
<1> QED BY InitType, <1>1, PTL DEF Spec

-----------------------------------------------------------------------------
(* Tests begin on a cluster that is ready.                                 *)

\* The hooks go through the links from the first to the last.
LEMMA PosInvStep == TypeOK /\ PosInv /\ [Next]_vars => PosInv'
<1> SUFFICES ASSUME TypeOK, PosInv, [Next]_vars PROVE PosInv'
  OBVIOUS
<1> USE DEF controlVars, jobVars, nodeVars, agentVars, poolVars, Goto, Fault
<1>1. CASE UNCHANGED vars
  BY <1>1 DEF vars, PosInv
<1>2. CASE Bootstrap
  BY <1>2 DEF Bootstrap, PosInv
<1>3. CASE Begin
  BY <1>3 DEF Begin, PosInv
<1>4. CASE JobStep
  <2>1. ASSUME NEW n \in Node, Launch(n) PROVE PosInv'
    BY <2>1 DEF Launch, PosInv
  <2>2. ASSUME NEW n \in Node, StartAgentServer(n) PROVE PosInv'
    BY <2>2 DEF StartAgentServer, PosInv
  <2>3. ASSUME NEW n \in Node, StopAgentServer(n) PROVE PosInv'
    BY <2>3 DEF StopAgentServer, PosInv
  <2>4. CASE SetupNodes
    BY <2>4 DEF SetupNodes, PreTestsFail, PosInv
  <2>5. CASE StartService
    BY <2>5 DEF StartService, PreTestsFail, PosInv
  <2>6. CASE Attach
    BY <2>6 DEF Attach, PreTestsFail, PosInv
  <2>7. CASE Startup
    BY <2>7 DEF Startup, PosInv, TypeOK, JobTypes
  <2>8. CASE SaveProperties
    BY <2>8 DEF SaveProperties, PreTestsFail, PosInv
  <2>9. CASE EndTests
    BY <2>9 DEF EndTests, PosInv
  <2>10. CASE Detach
    BY <2>10 DEF Detach, TeardownEnds, Disconnected, PosInv
  <2>11. CASE StopService
    BY <2>11 DEF StopService, TeardownEnds, PosInv
  <2>12. CASE PostTests
    BY <2>12 DEF PostTests, PosInv
  <2> QED BY <1>4, <2>1, <2>2, <2>3, <2>4, <2>5, <2>6, <2>7, <2>8, <2>9, <2>10, <2>11, <2>12 DEF JobStep
<1>5. CASE Kill
  BY <1>5 DEF Kill, PosInv
<1>6. ASSUME NEW n \in Node, AgentMain(n) PROVE PosInv'
  BY <1>6 DEF AgentMain, PosInv
<1>7. ASSUME NEW n \in Node, LoadServices(n) PROVE PosInv'
  BY <1>7 DEF LoadServices, PosInv
<1>8. ASSUME NEW n \in Node, Serve(n) PROVE PosInv'
  BY <1>8 DEF Serve, PosInv
<1>9. ASSUME NEW n \in Node, AgentDies(n) PROVE PosInv'
  BY <1>9 DEF AgentDies, PosInv
<1> QED BY <1>1, <1>2, <1>3, <1>4, <1>5, <1>6, <1>7, <1>8, <1>9 DEF Next

\* The hooks go on only when the thread of every node has seen an agent alive.
LEMMA SettledInvStep == TypeOK /\ SettledInv /\ [Next]_vars => SettledInv'
<1> SUFFICES ASSUME TypeOK, SettledInv, [Next]_vars PROVE SettledInv'
  OBVIOUS
<1> USE DEF controlVars, jobVars, nodeVars, agentVars, poolVars, Goto, Fault
<1>1. CASE UNCHANGED vars
  BY <1>1 DEF vars, SettledInv
<1>2. CASE Bootstrap
  BY <1>2 DEF Bootstrap, SettledInv
<1>3. CASE Begin
  BY <1>3 DEF Begin, Fresh, SettledInv, TypeOK, JobTypes
<1>4. CASE JobStep
  <2>1. ASSUME NEW n \in Node, Launch(n) PROVE SettledInv'
    BY <2>1 DEF Launch, SettledInv
  <2>2. ASSUME NEW n \in Node, StartAgentServer(n) PROVE SettledInv'
    BY <2>2 DEF StartAgentServer, SettledInv, TypeOK, JobTypes
  <2>3. ASSUME NEW n \in Node, StopAgentServer(n) PROVE SettledInv'
    BY <2>3 DEF StopAgentServer, SettledInv
  <2>4. CASE SetupNodes
    BY <2>4 DEF SetupNodes, PreTestsFail, Over, SettledInv
  <2>5. CASE StartService
    BY <2>5 DEF StartService, PreTestsFail, SettledInv
  <2>6. CASE Attach
    BY <2>6 DEF Attach, PreTestsFail, SettledInv
  <2>7. CASE Startup
    BY <2>7 DEF Startup, SettledInv
  <2>8. CASE SaveProperties
    BY <2>8 DEF SaveProperties, PreTestsFail, SettledInv
  <2>9. CASE EndTests
    BY <2>9 DEF EndTests, SettledInv
  <2>10. CASE Detach
    BY <2>10 DEF Detach, TeardownEnds, Disconnected, SettledInv
  <2>11. CASE StopService
    BY <2>11 DEF StopService, TeardownEnds, SettledInv
  <2>12. CASE PostTests
    BY <2>12 DEF PostTests, SettledInv
  <2> QED BY <1>4, <2>1, <2>2, <2>3, <2>4, <2>5, <2>6, <2>7, <2>8, <2>9, <2>10, <2>11, <2>12 DEF JobStep
<1>5. CASE Kill
  BY <1>5 DEF Kill, SettledInv
<1>6. ASSUME NEW n \in Node, AgentMain(n) PROVE SettledInv'
  BY <1>6 DEF AgentMain, SettledInv, TypeOK, JobTypes, NodeTypes
<1>7. ASSUME NEW n \in Node, LoadServices(n) PROVE SettledInv'
  BY <1>7 DEF LoadServices, SettledInv
<1>8. ASSUME NEW n \in Node, Serve(n) PROVE SettledInv'
  BY <1>8 DEF Serve, SettledInv
<1>9. ASSUME NEW n \in Node, AgentDies(n) PROVE SettledInv'
  BY <1>9 DEF AgentDies, SettledInv
<1> QED BY <1>1, <1>2, <1>3, <1>4, <1>5, <1>6, <1>7, <1>8, <1>9 DEF Next

\* A connection that was made lasts as long as its agent.
LEMMA AttachedInvStep == TypeOK /\ PosInv /\ SettledInv /\ AttachedInv /\ [Next]_vars => AttachedInv'
<1> SUFFICES ASSUME TypeOK, PosInv, SettledInv, AttachedInv, [Next]_vars PROVE AttachedInv'
  OBVIOUS
<1> USE DEF controlVars, jobVars, nodeVars, agentVars, poolVars, Goto, Fault
<1>1. CASE UNCHANGED vars
  BY <1>1 DEF vars, AttachedInv
<1>2. CASE Bootstrap
  BY <1>2 DEF Bootstrap, AttachedInv
<1>3. CASE Begin
  BY <1>3 DEF Begin, AttachedInv
<1>4. CASE JobStep
  <2>1. ASSUME NEW n \in Node, Launch(n) PROVE AttachedInv'
    BY <2>1 DEF Launch, AttachedInv
  <2>2. ASSUME NEW n \in Node, StartAgentServer(n) PROVE AttachedInv'
    BY <2>2 DEF StartAgentServer, AttachedInv
  <2>3. ASSUME NEW n \in Node, StopAgentServer(n) PROVE AttachedInv'
    BY <2>3 DEF StopAgentServer, AttachedInv
  <2>4. CASE SetupNodes
    BY <2>4 DEF SetupNodes, PreTestsFail, AttachedInv
  <2>5. CASE StartService
    BY <2>5, LinkFacts DEF StartService, PreTestsFail, PosInv, AttachedInv
  <2>6. CASE Attach
    <3>1. CASE PreTestsFail
      BY <2>6, <3>1 DEF PreTestsFail, AttachedInv
    <3>2. CASE ~PreTestsFail
      <4> DEFINE q == PoolOf(pos)
                 m == NodeOf(pos)
      <4>1. /\ pc = "attach" /\ pos' = pos + 1 /\ m \in registered /\ m \in Node
            /\ conn' = [conn EXCEPT ![m] = @ \union {q}]
            /\ mount' = [mount EXCEPT ![m] = @ \union {q}]
            /\ UNCHANGED <<registered, agent, taken>>
        BY <2>6, <3>2 DEF Attach, TypeOK, JobTypes
      <4>2. ASSUME NEW i \in DOMAIN Links, i < pos'
            PROVE  /\ NodeOf(i) \in registered'
                   /\ PoolOf(i) \in mount'[NodeOf(i)]
                   /\ agent'[NodeOf(i)] /\ NodeOf(i) \notin taken' =>
                        PoolOf(i) \in conn'[NodeOf(i)]
        <5>1. NodeOf(i) \in Node
          BY LinkFacts
        <5>2. CASE i = pos
          BY <4>1, <5>2 DEF TypeOK, NodeTypes
        <5>3. CASE i < pos
          BY <4>1, <5>1, <5>3 DEF AttachedInv
        <5> QED BY <4>1, <4>2, <5>2, <5>3, LinkFacts DEF TypeOK, JobTypes
      <4> QED BY <4>2 DEF AttachedInv
    <3> QED BY <3>1, <3>2
  <2>7. CASE Startup
    BY <2>7 DEF Startup, AttachedInv
  <2>8. CASE SaveProperties
    BY <2>8 DEF SaveProperties, PreTestsFail, AttachedInv
  <2>9. CASE EndTests
    BY <2>9 DEF EndTests, AttachedInv
  <2>10. CASE Detach
    BY <2>10 DEF Detach, TeardownEnds, Disconnected, AttachedInv
  <2>11. CASE StopService
    BY <2>11 DEF StopService, TeardownEnds, AttachedInv
  <2>12. CASE PostTests
    BY <2>12 DEF PostTests, AttachedInv
  <2> QED BY <1>4, <2>1, <2>2, <2>3, <2>4, <2>5, <2>6, <2>7, <2>8, <2>9, <2>10, <2>11, <2>12 DEF JobStep
<1>5. CASE Kill
  BY <1>5 DEF Kill, AttachedInv
<1>6. ASSUME NEW n \in Node, AgentMain(n) PROVE AttachedInv'
  BY <1>6 DEF AgentMain, SettledInv, AttachedInv, TypeOK, JobTypes, NodeTypes, FlagTypes
<1>7. ASSUME NEW n \in Node, LoadServices(n) PROVE AttachedInv'
  BY <1>7 DEF LoadServices, AttachedInv
<1>8. ASSUME NEW n \in Node, Serve(n) PROVE AttachedInv'
  <2>1. /\ UNCHANGED <<registered, pc, pos, mount>>
        /\ \A m \in Node : m # n => agent'[m] = agent[m] /\ conn'[m] = conn[m]
        /\ \A m \in Node : m \in taken => m \in taken'
    BY <1>8 DEF Serve, TypeOK, NodeTypes, FlagTypes
  <2>2. CASE agent[n]
    BY <1>8, <2>2, LinkFacts DEF Serve, AttachedInv
  <2>3. CASE ~agent[n]
    <3>1. pc \in {"attach", "props"} /\ n \in registered => n \in taken'
      BY <1>8, <2>3 DEF Serve, SettledInv
    <3> QED BY <2>1, <3>1, LinkFacts DEF AttachedInv
  <2> QED BY <2>2, <2>3
<1>9. ASSUME NEW n \in Node, AgentDies(n) PROVE AttachedInv'
  BY <1>9 DEF AgentDies, AttachedInv, TypeOK, FlagTypes
<1> QED BY <1>1, <1>2, <1>3, <1>4, <1>5, <1>6, <1>7, <1>8, <1>9 DEF Next

\* Tests begin only when every pool is connected to all of its nodes, whatever
\* earlier jobs, killed or not, have left behind: physically, and in the agent
\* unless that took the port after another one had passed for it.
THEOREM ReadyForTests == Spec => TestsReady
<1>1. Init => ReadyInv
  BY DEF Init, ReadyInv, PosInv, SettledInv, AttachedInv
<1>2. TypeOK /\ ReadyInv /\ [Next]_vars => ReadyInv'
  BY PosInvStep, SettledInvStep, AttachedInvStep DEF ReadyInv
<1>3. ASSUME TypeOK, ReadyInv, [Next]_vars, pc # "tests", pc' = "tests", registered # {}
      PROVE  \A i \in DOMAIN Links :
               LET n == NodeOf(i)
               IN  /\ n \in registered /\ PoolOf(i) \in mount'[n]
                   /\ n \in taken \/ PoolOf(i) \in conn'[n]
  <2> USE DEF Goto, PreTestsFail, TeardownEnds
  <2>1. ~UNCHANGED vars /\ ~Bootstrap /\ ~Begin /\ ~Kill
    BY <1>3 DEF vars, jobVars, Bootstrap, Begin, Kill
  <2>2. \A n \in Node : /\ ~AgentMain(n) /\ ~LoadServices(n) /\ ~Serve(n) /\ ~AgentDies(n)
                        /\ ~Launch(n) /\ ~StartAgentServer(n) /\ ~StopAgentServer(n)
    BY <1>3 DEF jobVars, AgentMain, LoadServices, Serve, AgentDies, Launch, StartAgentServer, StopAgentServer
  <2>3. ~SetupNodes /\ ~StartService /\ ~Attach /\ ~Startup
    BY <1>3 DEF SetupNodes, StartService, Attach, Startup
  <2>4. ~EndTests /\ ~Detach /\ ~StopService /\ ~PostTests
    BY <1>3 DEF EndTests, Detach, Disconnected, StopService, PostTests
  <2>5. SaveProperties
    BY <1>3, <2>1, <2>2, <2>3, <2>4 DEF Next, JobStep
  <2>6. /\ pc = "props" /\ UNCHANGED nodeVars
        /\ \A n \in registered : agent[n]
    BY <1>3, <2>5 DEF SaveProperties
  <2> QED BY <1>3, <2>6, LinkFacts DEF nodeVars, agentVars, poolVars, ReadyInv, PosInv, AttachedInv
<1>4. TypeOK /\ ReadyInv /\ [Next]_vars =>
      [pc # "tests" /\ pc' = "tests" /\ registered # {} =>
         \A i \in DOMAIN Links :
           LET n == NodeOf(i)
           IN  /\ n \in registered /\ PoolOf(i) \in mount'[n]
               /\ n \in taken \/ PoolOf(i) \in conn'[n]]_vars
  BY <1>3
<1> QED BY <1>1, <1>2, <1>4, TypeCorrect, PTL DEF Spec, TestsReady

-----------------------------------------------------------------------------
(* Without faults a job cleans up.                                         *)

\* Where no link is mounted nothing is.
LEMMA NothingMounted ==
  ASSUME MountsInv, \A i \in DOMAIN Links : ~Mounted(i)
  PROVE  \A n \in Node : mount[n] = {}
  BY DEF MountsInv, Mounted

\* detach_from without a fault: the link at hand is not mounted afterwards and
\* the others are as before; the teardown goes on, or no link is mounted.
LEMMA DetachFacts ==
  ASSUME DistinctLinks, TypeOK, NoFaults, Detach, faults' = 0
  PROVE  /\ pc = "detach" /\ pos \in DOMAIN Links
         /\ \A n \in Node : mount'[n] \subseteq mount[n] /\ conn'[n] \subseteq conn[n]
         /\ \A n \in Node : conn'[n] \intersect mount'[n] = conn[n] \intersect mount'[n]
         /\ \A i \in DOMAIN Links : Mounted(i)' <=> Mounted(i) /\ i # pos
         /\ \/ /\ pc' = "detach" /\ pos' = pos + 1
               /\ \A i \in DOMAIN Links : i # pos => connected'[i] = connected[i]
            \/ /\ pc' = "stop" /\ thread' = Fresh
               /\ \A i \in DOMAIN Links : ~Mounted(i)'
<1> DEFINE q == PoolOf(pos)
           m == NodeOf(pos)
<1>1. pc = "detach" /\ pos \in DOMAIN Links /\ m \in Node /\ q \in Pool
  BY LinkFacts DEF Detach, TypeOK, JobTypes
<1>2. faults' = faults /\ faults = 0 /\ ~Fault
  BY DEF NoFaults, Fault
<1>3. Mounted(pos) => m \in registered /\ agent[m] /\ q \in conn[m]
  BY <1>1 DEF NoFaults, AgentsInv, MountsInv, Mounted, Quiet
<1>4. \A i \in DOMAIN Links : Mounted(i) =>
        pos <= i /\ (pos < i => Mounted(pos) /\ connected[pos] > 0)
  BY <1>1, LinkFacts DEF NoFaults, LinksInv
<1>5. CASE m \in registered /\ agent[m] /\ q \in conn[m]
  <2>1. /\ conn' = [conn EXCEPT ![m] = @ \ {q}]
        /\ mount' = [mount EXCEPT ![m] = @ \ {q}]
        /\ Disconnected
    BY <1>2, <1>5 DEF Detach
  <2>2. \A i \in DOMAIN Links : Mounted(i)' <=> Mounted(i) /\ i # pos
    BY <1>1, <2>1 DEF Mounted, DistinctLinks, TypeOK, NodeTypes
  <2>3. \A n \in Node : /\ mount'[n] \subseteq mount[n] /\ conn'[n] \subseteq conn[n]
                        /\ conn'[n] \intersect mount'[n] = conn[n] \intersect mount'[n]
    BY <1>1, <2>1 DEF TypeOK, NodeTypes
  <2>4. CASE connected[pos] > 0
    BY <1>1, <2>1, <2>2, <2>3, <2>4 DEF Disconnected, TypeOK, JobTypes
  <2>5. CASE ~(connected[pos] > 0)
    <3>1. pc' = "stop" /\ thread' = Fresh
      BY <2>1, <2>5 DEF Disconnected, TeardownEnds, Goto
    <3>2. \A i \in DOMAIN Links : ~Mounted(i)'
      BY <1>1, <1>4, <2>2, <2>5, LinkFacts
    <3> QED BY <1>1, <2>2, <2>3, <3>1, <3>2
  <2> QED BY <2>4, <2>5
<1>6. CASE ~(m \in registered /\ agent[m] /\ q \in conn[m])
  <2>1. TeardownEnds /\ UNCHANGED <<conn, mount>>
    BY <1>6 DEF Detach
  <2>2. \A i \in DOMAIN Links : ~Mounted(i)
    BY <1>1, <1>3, <1>4, <1>6, LinkFacts
  <2> QED BY <1>1, <2>1, <2>2 DEF TeardownEnds, Goto, Mounted
<1> QED BY <1>5, <1>6

\* Behind the last link there is nothing left to detach.
LEMMA AllDetached ==
  ASSUME NoFaults, pc = "detach", pos > Len(Links), pos \in Nat
  PROVE  \A n \in Node : mount[n] = {}
<1>1. \A i \in DOMAIN Links : ~Mounted(i)
  BY DEF NoFaults, LinksInv
<1> QED BY <1>1, NothingMounted DEF NoFaults

\* What is mounted is known to the agent.
LEMMA MountsInvStep == DistinctLinks /\ TypeOK /\ PosInv /\ NoFaults /\ faults' = 0 /\ [Next]_vars => MountsInv'
<1> SUFFICES ASSUME DistinctLinks, TypeOK, PosInv, NoFaults, faults' = 0, [Next]_vars PROVE MountsInv'
  OBVIOUS
<1> USE DEF controlVars, jobVars, nodeVars, agentVars, poolVars, Goto, Fault
<1>1. CASE UNCHANGED vars
  BY <1>1 DEF vars, NoFaults, MountsInv
<1>2. CASE Bootstrap
  BY <1>2 DEF Bootstrap, NoFaults, AgentsInv, MountsInv, Quiet
<1>3. CASE Begin
  BY <1>3 DEF Begin, NoFaults, MountsInv
<1>4. CASE JobStep
  <2>1. ASSUME NEW n \in Node, Launch(n) PROVE MountsInv'
    BY <2>1 DEF Launch, NoFaults, MountsInv
  <2>2. ASSUME NEW n \in Node, StartAgentServer(n) PROVE MountsInv'
    BY <2>2 DEF StartAgentServer, NoFaults, MountsInv
  <2>3. ASSUME NEW n \in Node, StopAgentServer(n) PROVE MountsInv'
    BY <2>3 DEF StopAgentServer, NoFaults, AgentsInv, MountsInv
  <2>4. CASE SetupNodes
    BY <2>4 DEF SetupNodes, NoFaults, MountsInv
  <2>5. CASE StartService
    BY <2>5 DEF StartService, NoFaults, MountsInv
  <2>6. CASE Attach
    <3>1. CASE UNCHANGED <<conn, mount>>
      BY <3>1 DEF NoFaults, MountsInv
    <3>2. CASE ~UNCHANGED <<conn, mount>>
      <4> DEFINE q == PoolOf(pos)
                 m == NodeOf(pos)
      <4>1. /\ pos \in DOMAIN Links
            /\ conn' = [conn EXCEPT ![m] = @ \union {q}]
            /\ mount' = [mount EXCEPT ![m] = @ \union {q}]
        BY <2>6, <3>2 DEF Attach, TypeOK, JobTypes
      <4>2. \A n \in Node : /\ conn[n] \subseteq conn'[n]
                            /\ mount'[n] = IF n = m THEN mount[n] \union {q} ELSE mount[n]
        BY <4>1 DEF TypeOK, NodeTypes
      <4>3. m \in Node /\ q \in conn'[m]
        BY <4>1, LinkFacts DEF TypeOK, NodeTypes
      <4> QED BY <4>1, <4>2, <4>3 DEF NoFaults, MountsInv
    <3> QED BY <3>1, <3>2
  <2>7. CASE Startup
    BY <2>7 DEF Startup, NoFaults, MountsInv
  <2>8. CASE SaveProperties
    BY <2>8 DEF SaveProperties, NoFaults, MountsInv
  <2>9. CASE EndTests
    BY <2>9 DEF EndTests, NoFaults, MountsInv
  <2>10. CASE Detach
    BY <2>10, LinkFacts DEF Detach, NoFaults, MountsInv, TypeOK, NodeTypes, FlagTypes
  <2>11. CASE StopService
    BY <2>11, AllDetached DEF StopService, MountsInv, TypeOK, JobTypes
  <2>12. CASE PostTests
    BY <2>12 DEF PostTests, NoFaults, MountsInv
  <2> QED BY <1>4, <2>1, <2>2, <2>3, <2>4, <2>5, <2>6, <2>7, <2>8, <2>9, <2>10, <2>11, <2>12 DEF JobStep
<1>5. CASE Kill
  BY <1>5 DEF Kill, NoFaults
<1>6. ASSUME NEW n \in Node, AgentMain(n) PROVE MountsInv'
  BY <1>6 DEF AgentMain, NoFaults, AgentsInv, MountsInv, TypeOK, NodeTypes
<1>7. ASSUME NEW n \in Node, LoadServices(n) PROVE MountsInv'
  BY <1>7 DEF LoadServices, NoFaults, MountsInv
<1>8. ASSUME NEW n \in Node, Serve(n) PROVE MountsInv'
  BY <1>8 DEF Serve, NoFaults, AgentsInv, MountsInv, TypeOK, NodeTypes
<1>9. ASSUME NEW n \in Node, AgentDies(n) PROVE MountsInv'
  BY <1>9 DEF AgentDies, NoFaults
<1> QED BY <1>1, <1>2, <1>3, <1>4, <1>5, <1>6, <1>7, <1>8, <1>9 DEF Next

\* Agents end with the job that has started them.
LEMMA AgentsInvStep == DistinctLinks /\ TypeOK /\ PosInv /\ NoFaults /\ faults' = 0 /\ [Next]_vars => AgentsInv'
<1> SUFFICES ASSUME DistinctLinks, TypeOK, PosInv, NoFaults, faults' = 0, [Next]_vars PROVE AgentsInv'
  OBVIOUS
<1> USE DEF controlVars, jobVars, nodeVars, agentVars, poolVars, Goto, Fault
<1>1. CASE UNCHANGED vars
  BY <1>1 DEF vars, NoFaults, AgentsInv, Quiet
<1>2. CASE Bootstrap
  BY <1>2 DEF Bootstrap, Nowhere, NoFaults, AgentsInv, Quiet
<1>3. CASE Begin
  BY <1>3 DEF Begin, NoFaults, AgentsInv, Quiet
<1>4. CASE JobStep
  <2>1. ASSUME NEW n \in Node, Launch(n) PROVE AgentsInv'
    BY <2>1 DEF Launch, NoFaults, AgentsInv, Quiet, TypeOK, JobTypes
  <2>2. ASSUME NEW n \in Node, StartAgentServer(n) PROVE AgentsInv'
    BY <2>2 DEF StartAgentServer, NoFaults, AgentsInv, Quiet, TypeOK, JobTypes
  <2>3. ASSUME NEW n \in Node, StopAgentServer(n) PROVE AgentsInv'
    <3>1. /\ pc = "stop" /\ pc' = pc /\ thread' = [thread EXCEPT ![n] = "done"]
          /\ agent' = [agent EXCEPT ![n] = @ /\ ~IsAgentAlive(n) /\ ~own[n]]
          /\ conn' = [conn EXCEPT ![n] = IF agent'[n] THEN @ ELSE {}]
          /\ daemon' = [daemon EXCEPT ![n] = "none"]
          /\ UNCHANGED <<registered, own, mount>>
      BY <2>3 DEF StopAgentServer, NoFaults
    <3>2. ~agent'[n]
      BY <3>1 DEF NoFaults, AgentsInv, TypeOK, FlagTypes
    <3>3. Quiet(n)'
      BY <3>1, <3>2 DEF NoFaults, AgentsInv, Quiet, TypeOK, NodeTypes
    <3>4. \A k \in Node : k # n =>
            /\ agent'[k] = agent[k] /\ conn'[k] = conn[k] /\ daemon'[k] = daemon[k]
            /\ thread'[k] = thread[k]
      BY <3>1
    <3> QED BY <3>1, <3>3, <3>4 DEF NoFaults, AgentsInv, Quiet
  <2>4. CASE SetupNodes
    BY <2>4 DEF SetupNodes, PreTestsFail, NoFaults, AgentsInv, Quiet
  <2>5. CASE StartService
    BY <2>5 DEF StartService, PreTestsFail, NoFaults, AgentsInv, Quiet
  <2>6. CASE Attach
    BY <2>6 DEF Attach, PreTestsFail, NoFaults, AgentsInv, Quiet, TypeOK, NodeTypes, FlagTypes
  <2>7. CASE Startup
    BY <2>7 DEF Startup, NoFaults, AgentsInv, Quiet
  <2>8. CASE SaveProperties
    BY <2>8 DEF SaveProperties, PreTestsFail, NoFaults, AgentsInv, Quiet
  <2>9. CASE EndTests
    BY <2>9 DEF EndTests, NoFaults, AgentsInv, Quiet
  <2>10. CASE Detach
    <3>1. UNCHANGED <<registered, agent, own, daemon>>
      BY <2>10 DEF Detach
    <3>2. CASE pc' = "detach"
      BY <2>10, <3>1, <3>2, DetachFacts DEF NoFaults, AgentsInv, Quiet
    <3>3. CASE pc' = "stop" /\ thread' = Fresh /\ \A i \in DOMAIN Links : ~Mounted(i)'
      <4>1. \A k \in Node : mount'[k] = {}
        BY <2>10, <3>3, DetachFacts DEF NoFaults, MountsInv, Mounted
      <4>2. \A k \in Node : conn'[k] \subseteq conn[k] /\ thread'[k] = "todo"
        BY <2>10, <3>3, DetachFacts DEF Fresh
      <4> QED BY <3>1, <3>3, <4>1, <4>2 DEF NoFaults, AgentsInv, Quiet
    <3> QED BY <2>10, <3>2, <3>3, DetachFacts
  <2>11. CASE StopService
    <3>1. \A k \in Node : mount[k] = {}
      BY <2>11, AllDetached DEF StopService, TypeOK, JobTypes
    <3>2. /\ pc' = "stop" /\ \A k \in Node : thread'[k] = "todo"
          /\ \A k \in Node : conn'[k] \subseteq conn[k]
          /\ UNCHANGED <<registered, agent, own, daemon, mount>>
      BY <2>11 DEF StopService, TeardownEnds, Fresh
    <3> QED BY <3>1, <3>2 DEF NoFaults, AgentsInv, Quiet
  <2>12. CASE PostTests
    BY <2>12 DEF PostTests, Over, NoFaults, AgentsInv, Quiet
  <2> QED BY <1>4, <2>1, <2>2, <2>3, <2>4, <2>5, <2>6, <2>7, <2>8, <2>9, <2>10, <2>11, <2>12 DEF JobStep
<1>5. CASE Kill
  BY <1>5 DEF Kill, NoFaults
<1>6. ASSUME NEW n \in Node, AgentMain(n) PROVE AgentsInv'
  BY <1>6 DEF AgentMain, NoFaults, AgentsInv, Quiet, TypeOK, NodeTypes, FlagTypes
<1>7. ASSUME NEW n \in Node, LoadServices(n) PROVE AgentsInv'
  BY <1>7 DEF LoadServices, NoFaults, AgentsInv, Quiet, TypeOK, NodeTypes
<1>8. ASSUME NEW n \in Node, Serve(n) PROVE AgentsInv'
  BY <1>8 DEF Serve, NoFaults, AgentsInv, Quiet, TypeOK, NodeTypes, FlagTypes
<1>9. ASSUME NEW n \in Node, AgentDies(n) PROVE AgentsInv'
  BY <1>9 DEF AgentDies, NoFaults
<1> QED BY <1>1, <1>2, <1>3, <1>4, <1>5, <1>6, <1>7, <1>8, <1>9 DEF Next

\* The mounted links are the first ones.
LEMMA LinksInvStep == DistinctLinks /\ TypeOK /\ PosInv /\ NoFaults /\ faults' = 0 /\ [Next]_vars => LinksInv'
<1> SUFFICES ASSUME DistinctLinks, TypeOK, PosInv, NoFaults, faults' = 0, [Next]_vars PROVE LinksInv'
  OBVIOUS
<1> USE DEF controlVars, jobVars, nodeVars, agentVars, poolVars, Goto, Fault
<1>1. CASE UNCHANGED vars
  BY <1>1 DEF vars, NoFaults, LinksInv, Mounted
<1>2. CASE Bootstrap
  BY <1>2 DEF Bootstrap, LinksInv
<1>3. CASE Begin
  BY <1>3, LinkFacts DEF Begin, NoFaults, AgentsInv, Quiet, LinksInv, Mounted
<1>4. CASE JobStep
  <2>1. ASSUME NEW n \in Node, Launch(n) PROVE LinksInv'
    BY <2>1 DEF Launch, LinksInv
  <2>2. ASSUME NEW n \in Node, StartAgentServer(n) PROVE LinksInv'
    BY <2>2 DEF StartAgentServer, LinksInv
  <2>3. ASSUME NEW n \in Node, StopAgentServer(n) PROVE LinksInv'
    BY <2>3 DEF StopAgentServer, LinksInv
  <2>4. CASE SetupNodes
    BY <2>4, LinkFacts DEF SetupNodes, PreTestsFail, NoFaults, AgentsInv, LinksInv, Mounted
  <2>5. CASE StartService
    BY <2>5, LinkFacts DEF StartService, PreTestsFail, PosInv, NoFaults, AgentsInv, LinksInv, Mounted
  <2>6. CASE Attach
    <3> DEFINE q == PoolOf(pos)
               m == NodeOf(pos)
    <3>1. pc = "attach" /\ pos \in DOMAIN Links /\ m \in Node
      BY <2>6, LinkFacts DEF Attach, TypeOK, JobTypes
    <3>2. \A i \in DOMAIN Links : i \in Nat /\ (Mounted(i) <=> i < pos) /\ (Mounted(i) => connected[i] > 0)
      BY <3>1, LinkFacts DEF NoFaults, LinksInv
    <3>3. CASE PreTestsFail /\ UNCHANGED <<conn, mount>>
      <4>1. pc' = "detach" /\ pos' = 1 /\ connected' = connected
        BY <3>3 DEF PreTestsFail
      <4>2. \A i \in DOMAIN Links : Mounted(i)' <=> Mounted(i)
        BY <3>3 DEF Mounted
      <4> QED BY <3>1, <3>2, <4>1, <4>2, LinkFacts DEF LinksInv
    <3>4. CASE mount' = [mount EXCEPT ![m] = @ \union {q}]
      <4>1. \A i \in DOMAIN Links : Mounted(i)' <=> Mounted(i) \/ i = pos
        BY <3>1, <3>4 DEF Mounted, DistinctLinks, TypeOK, NodeTypes
      <4>2. CASE pc' = "detach" /\ pos' = 1 /\ connected' = connected
        BY <3>1, <3>2, <4>1, <4>2, LinkFacts DEF LinksInv
      <4>3. CASE pc' = "attach" /\ pos' = pos + 1 /\ connected' = [connected EXCEPT ![pos] = @ + 1]
        <5>1. \A i \in DOMAIN Links : i <= pos => connected'[i] > 0
          BY <3>1, <3>2, <4>3, LinkFacts DEF TypeOK, JobTypes
        <5> QED BY <3>1, <3>2, <4>1, <4>3, <5>1 DEF LinksInv
      <4> QED BY <2>6, <3>4, <4>2, <4>3 DEF Attach, PreTestsFail
    <3> QED BY <2>6, <3>3, <3>4 DEF Attach
  <2>7. CASE Startup
    BY <2>7 DEF Startup, NoFaults, LinksInv, Mounted
  <2>8. CASE SaveProperties
    BY <2>8, LinkFacts DEF SaveProperties, PreTestsFail, NoFaults, LinksInv, Mounted, TypeOK, JobTypes
  <2>9. CASE EndTests
    BY <2>9, LinkFacts DEF EndTests, NoFaults, LinksInv, Mounted, TypeOK, JobTypes
  <2>10. CASE Detach
    BY <2>10, LinkFacts, DetachFacts DEF NoFaults, LinksInv
  <2>11. CASE StopService
    BY <2>11 DEF StopService, TeardownEnds, LinksInv
  <2>12. CASE PostTests
    BY <2>12 DEF PostTests, LinksInv
  <2> QED BY <1>4, <2>1, <2>2, <2>3, <2>4, <2>5, <2>6, <2>7, <2>8, <2>9, <2>10, <2>11, <2>12 DEF JobStep
<1>5. CASE Kill
  BY <1>5 DEF Kill, NoFaults
<1>6. ASSUME NEW n \in Node, AgentMain(n) PROVE LinksInv'
  BY <1>6 DEF AgentMain, NoFaults, LinksInv, Mounted
<1>7. ASSUME NEW n \in Node, LoadServices(n) PROVE LinksInv'
  BY <1>7 DEF LoadServices, NoFaults, LinksInv, Mounted
<1>8. ASSUME NEW n \in Node, Serve(n) PROVE LinksInv'
  BY <1>8 DEF Serve, NoFaults, LinksInv, Mounted
<1>9. ASSUME NEW n \in Node, AgentDies(n) PROVE LinksInv'
  BY <1>9 DEF AgentDies, NoFaults
<1> QED BY <1>1, <1>2, <1>3, <1>4, <1>5, <1>6, <1>7, <1>8, <1>9 DEF Next

\* Without faults nothing is mounted where directories are removed.
LEMMA WipedStep ==
  ASSUME TypeOK, NoFaults, wiped = {}, [Next]_vars
  PROVE  wiped' = {}
<1> USE DEF controlVars, jobVars, nodeVars, agentVars, poolVars
<1>1. CASE UNCHANGED vars
  BY <1>1 DEF vars
<1>2. CASE Bootstrap
  <2>1. \A n \in Node : mount[n] = {}
    BY <1>2 DEF Bootstrap, NoFaults, AgentsInv, Quiet
  <2> QED BY <1>2, <2>1 DEF Bootstrap
<1>3. CASE Begin \/ Kill
  BY <1>3 DEF Begin, Kill
<1>4. CASE JobStep
  BY <1>4 DEF JobStep, Launch, StartAgentServer, StopAgentServer, SetupNodes, StartService,
              Attach, Startup, SaveProperties, EndTests, Detach, StopService, PostTests
<1>5. ASSUME NEW n \in Node, AgentMain(n) PROVE wiped' = {}
  BY <1>5 DEF AgentMain, NoFaults, AgentsInv
<1>6. ASSUME NEW n \in Node, LoadServices(n) \/ Serve(n) \/ AgentDies(n) PROVE wiped' = {}
  BY <1>6 DEF LoadServices, Serve, AgentDies
<1> QED BY <1>1, <1>2, <1>3, <1>4, <1>5, <1>6 DEF Next

\* A fault is not taken back.
LEMMA FaultsStay == TypeOK /\ [Next]_vars /\ faults' = 0 => faults = 0
<1> SUFFICES ASSUME TypeOK, [Next]_vars, faults' = 0, faults # 0 PROVE FALSE
  OBVIOUS
<1> USE DEF controlVars, Fault
<1>1. faults \in Nat /\ faults' # faults /\ faults' # faults + 1
  BY DEF TypeOK, JobTypes
<1>2. ~UNCHANGED vars /\ ~Bootstrap /\ ~Begin /\ ~Kill
  BY <1>1 DEF vars, Bootstrap, Begin, Kill
<1>3. ~JobStep
  BY <1>1 DEF JobStep, Launch, StartAgentServer, StopAgentServer, SetupNodes, StartService,
              Attach, Startup, SaveProperties, EndTests, Detach, StopService, PostTests
<1>4. \A n \in Node : ~AgentMain(n) /\ ~LoadServices(n) /\ ~Serve(n) /\ ~AgentDies(n)
  BY <1>1 DEF AgentMain, LoadServices, Serve, AgentDies
<1> QED BY <1>2, <1>3, <1>4 DEF Next

\* CleanInv holds in every state, if no node is listed twice for a pool.
LEMMA CleanAlways ==
  ASSUME DistinctLinks
  PROVE  Spec => [](TypeOK /\ CleanInv)
<1>1. Init => PosInv /\ CleanInv
  BY DEF Init, PosInv, CleanInv, NoFaults, AgentsInv, MountsInv, LinksInv, Quiet, Idle, Nowhere, Nobody
<1>2. TypeOK /\ PosInv /\ CleanInv /\ [Next]_vars => PosInv' /\ CleanInv'
  BY PosInvStep, FaultsStay, AgentsInvStep, MountsInvStep, LinksInvStep, WipedStep
  DEF CleanInv, NoFaults
<1> QED BY <1>1, <1>2, TypeCorrect, PTL DEF Spec

\* A job without faults leaves no agent and no mount behind, wherever its
\* pre_tests has failed, as long as no pool lists a node twice.
THEOREM JobsCleanUp ==
  ASSUME DistinctLinks
  PROVE  Spec => []CleanEnd
<1>1. CleanInv => CleanEnd
  BY DEF CleanInv, NoFaults, CleanEnd, AgentsInv, Quiet
<1> QED BY <1>1, CleanAlways, PTL

\* Under the same condition, neither vt-bootstrap nor an agent that starts
\* removes a directory that a pool is still mounted in.
THEOREM PoolsStayUntouched ==
  ASSUME DistinctLinks
  PROVE  Spec => []PoolsUntouched
<1>1. CleanInv => PoolsUntouched
  BY DEF CleanInv, PoolsUntouched
<1> QED BY <1>1, CleanAlways, PTL

=============================================================================
