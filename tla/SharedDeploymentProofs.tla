----------------------- MODULE SharedDeploymentProofs -----------------------
(***************************************************************************)
(* SharedInv is an invariant of SharedDeployment for every number of tests *)
(* and servers.  Only the steps of dirtyDeploy change what is deployed;    *)
(* the steps of a test that Deploy has served are "quiet" (QuietStep).     *)
(* That the clients follow the ports of their servers (ClientsFollow) needs*)
(* FollowInv, which says whose turn it is while a client is behind; most   *)
(* steps are "Undisturbing" there.                                         *)
(***************************************************************************)
EXTENDS SharedDeployment, FiniteSetTheorems, SequenceTheorems, TLAPS

\* Where a test is that Deploy has not served (yet).
Unserved == DeployPCs \cup {"start", "unserved"}

\* The number of servers of a deployment hs1 .. hsn is n: what dirtyDeploy
\* compares with numServers.
LEMMA DeployedCount ==
  ASSUME NEW n \in Nat
  PROVE  Cardinality(1 .. n) = n
<1>1. CASE n = 0
  <2>1. 1 .. n = {}
    BY <1>1
  <2> QED
    BY <1>1, <2>1, FS_EmptySet
<1>2. CASE n > 0
  BY <1>2, FS_Interval
<1> QED
  BY <1>1, <1>2

\* The local variables of a test: what its fields are.
LEMMA LocalsFields ==
  ASSUME NEW r \in Locals
  PROVE  /\ r.hs \in Servers /\ r.url \in Nat /\ r.op \in Ops
         /\ r.late \in BOOLEAN /\ r.todo \subseteq Servers
BY DEF Locals

\* They remain local variables when dirtyDeploy sets the server,
LEMMA LocalsHs ==
  ASSUME NEW r \in Locals, NEW i \in Servers
  PROVE  [r EXCEPT !.hs = i] \in Locals
BY DEF Locals

\* when an operation sets the URL,
LEMMA LocalsUrl ==
  ASSUME NEW r \in Locals, NEW n \in Nat
  PROVE  [r EXCEPT !.url = n] \in Locals
BY DEF Locals

\* when SetEndpoints marks a client that is being made,
LEMMA LocalsLate ==
  ASSUME NEW r \in Locals
  PROVE  [r EXCEPT !.late = TRUE] \in Locals
BY DEF Locals

\* and when a Restart sees a new server.
LEMMA LocalsTodo ==
  ASSUME NEW r \in Locals, NEW s \in SUBSET Servers
  PROVE  [r EXCEPT !.todo = s] \in Locals
BY DEF Locals

\* What an operation begins with,
LEMMA LocalsDoing ==
  ASSUME NEW op \in Ops, NEW i \in Servers, NEW n \in Nat, NEW s \in SUBSET Servers
  PROVE  Doing(op, i, n, s) \in Locals
BY DEF Locals, Doing

\* and what it leaves behind.
LEMMA LocalsIdle == Idle \in Locals
<1>1. 1 \in Servers /\ "none" \in Ops
  BY SharedAssumption DEF Servers, Ops, ClientOps
<1> QED
  BY <1>1, LocalsDoing DEF Idle

\* The first step of every operation is taken by a test that Deploy has served.
LEMMA BeginFacts ==
  ASSUME SharedInv, NEW t \in Tests, NEW i \in Servers, NEW op \in Ops, Begin(t, i, op)
  PROVE  /\ phase = "tests" /\ pc[t] = "using"
         /\ loc' \in [Tests -> Locals] /\ \A u \in Tests \ {t} : loc'[u] = loc[u]
         /\ ops' \in Nat
<1> USE DEF SharedInv, TypeOK
<1>1. baseURL[i] \in Nat
  OBVIOUS
<1>2. Doing(op, i, baseURL[i], {}) \in Locals
  BY <1>1, LocalsDoing
<1>3. loc' = [loc EXCEPT ![t] = Doing(op, i, baseURL[i], {})]
  BY DEF Begin
<1> QED
  BY <1>2, <1>3 DEF Begin, At

\* The invariant holds before any test has called Deploy.
LEMMA InitInv == Init => SharedInv
<1> SUFFICES ASSUME Init PROVE SharedInv
  OBVIOUS
<1> USE SharedAssumption DEF Init
<1>1. TypeOK
  <2>1. loc \in [Tests -> Locals]
    BY LocalsIdle
  <2>2. clients \in Seq(Clients)
    OBVIOUS
  <2>3. port \in [Servers -> Nat] /\ baseURL \in [Servers -> Nat]
    OBVIOUS
  <2>5. pc \in [Tests -> PCs] /\ failed \in [Tests -> BOOLEAN]
    BY DEF PCs
  <2>6. /\ transports \in [Servers -> Tests \cup {None}]
        /\ status \in [Servers -> Statuses]
    BY DEF Statuses
  <2>4. deployed \subseteq Servers /\ disturbed \subseteq Servers /\ wants \in [Tests -> Servers]
    OBVIOUS
  <2>7. lastPort \in Nat /\ code \in 0 .. 2 /\ ops \in Nat
    OBVIOUS
  <2>8. mu \in Tests \cup {None} /\ phase = "tests"
    OBVIOUS
  <2>9. setupFailed \in BOOLEAN /\ hung \subseteq Tests
    OBVIOUS
  <2> HIDE DEF Init
  <2> QED
    BY <2>1, <2>2, <2>3, <2>4, <2>5, <2>6, <2>7, <2>8, <2>9 DEF TypeOK
<1>2. ScaledInOrder
  <2>1. deployed = 1 .. 0
    OBVIOUS
  <2>2. \E n \in 0 .. MaxServers : deployed = 1 .. n
    <3>1. 0 \in 0 .. MaxServers
      OBVIOUS
    <3> QED
      BY <2>1, <3>1
  <2> QED
    BY <2>2 DEF ScaledInOrder, DeployPCs
<1>3. Served
  BY DEF Served, DeployPCs
<1>4. OneTransport
  BY DEF OneTransport
<1> QED
  BY <1>1, <1>2, <1>3, <1>4 DEF SharedInv

\* A step of a test that Deploy has served, which leaves the deployment alone
\* and makes no container disappear, disturbs neither the order of the servers
\* nor what other tests were given.
LEMMA QuietStep ==
  ASSUME SharedInv, NEW t \in Tests,
         pc[t] \notin Unserved,
         pc' = pc \/ \E p \in PCs \ Unserved : pc' = [pc EXCEPT ![t] = p],
         wants' = wants, mu' = mu, deployed' = deployed,
         phase # "exited",
         \A i \in Servers : status[i] # "none" => status'[i] # "none",
         \A u \in Tests \ {t} : loc'[u].hs = loc[u].hs
  PROVE  ScaledInOrder' /\ Served'
<1> USE DEF SharedInv, TypeOK
<1>1. \A u \in Tests : pc'[u] = pc[u] \/ (u = t /\ pc'[u] \notin Unserved)
  OBVIOUS
<1>2. \A u \in Tests : pc'[u] \in Unserved => pc'[u] = pc[u] /\ u # t
  BY <1>1
<1>3. ScaledInOrder'
  <2>1. \A i \in deployed' : status'[i] # "none"
    BY DEF ScaledInOrder
  <2>2. ASSUME NEW u \in Tests, pc'[u] = "writing"
        PROVE  deployed' = 1 .. loc'[u].hs - 1 /\ status'[loc'[u].hs] # "none"
    <3>1. pc[u] = "writing" /\ u # t
      BY <1>2, <2>2 DEF Unserved, DeployPCs
    <3>2. loc'[u].hs = loc[u].hs /\ loc[u].hs \in Servers
      BY <3>1, LocalsFields
    <3> QED
      BY <3>1, <3>2 DEF ScaledInOrder
  <2>3. \A u \in Tests : pc'[u] \in DeployPCs => mu' = u
    BY <1>2 DEF ScaledInOrder, Unserved
  <2>4. \A u \in Tests : pc'[u] \in {"scaling", "writing"} => deployed' # {}
    BY <1>2 DEF ScaledInOrder, Unserved, DeployPCs
  <2>5. \E n \in 0 .. MaxServers : deployed' = 1 .. n
    BY DEF ScaledInOrder
  <2> QED
    BY <2>1, <2>2, <2>3, <2>4, <2>5 DEF ScaledInOrder
<1>4. Served'
  <2> SUFFICES ASSUME NEW u \in Tests, pc'[u] \notin Unserved
               PROVE  1 .. wants'[u] \subseteq deployed'
    BY DEF Served, Unserved
  <2>1. pc[u] \notin Unserved
    BY <1>1
  <2> QED
    BY <2>1 DEF Served, Unserved
<1> QED
  BY <1>3, <1>4

\* The server that ScaleUp creates is the next one.
LEMMA NextServer ==
  ASSUME SharedInv, NEW t \in Tests, Missing(t) # {}, deployed # {}
  PROVE  FirstMissing(t) \in Servers /\ deployed = 1 .. FirstMissing(t) - 1
<1> USE SharedAssumption DEF SharedInv, TypeOK
<1>1. PICK n \in 0 .. MaxServers : deployed = 1 .. n
  BY DEF ScaledInOrder
<1>2. wants[t] \in 1 .. MaxServers
  BY DEF Servers
<1>3. Missing(t) = n + 1 .. wants[t]
  BY <1>1, <1>2 DEF Missing
<1>4. n + 1 \in Missing(t)
  BY <1>1, <1>2, <1>3
<1>5. \A k \in Missing(t) : n + 1 <= k
  BY <1>1, <1>2, <1>3
<1> DEFINE i == FirstMissing(t)
<1>6. i \in Missing(t) /\ \A k \in Missing(t) : i <= k
  BY <1>4, <1>5 DEF FirstMissing
<1> HIDE DEF i
<1>7. i = n + 1
  <2>1. i <= n + 1
    BY <1>4, <1>6
  <2>2. i \in n + 1 .. wants[t]
    BY <1>3, <1>6
  <2> QED
    BY <1>1, <1>2, <2>1, <2>2
<1>8. i \in Servers /\ deployed = 1 .. i - 1
  BY <1>1, <1>2, <1>3, <1>6, <1>7 DEF Servers
<1> QED
  BY <1>8 DEF i

\* The steps of dirtyDeploy keep the types.
LEMMA DeployingTypes ==
  ASSUME SharedInv, NEW t \in Tests, Deploying(t), UNCHANGED hung
  PROVE  TypeOK'
<1> USE SharedAssumption DEF SharedInv, TypeOK, PCs, Statuses, At, Goto,
        deployVars, serverVars, clientVars, mainVars
<1>1. CASE DeployLock(t)
  BY <1>1 DEF DeployLock
<1>2. CASE CreateDirtyDeployment(t)
  <2>1. 1 \in Servers
    BY DEF Servers
  <2> QED
    BY <1>2, <2>1 DEF CreateDirtyDeployment, ContainerCreated
<1>3. CASE UseExisting(t)
  BY <1>3 DEF UseExisting, DeployReturns
<1>4. CASE ScaleUp(t)
  <2> DEFINE i == FirstMissing(t)
  <2>1. i \in Servers
    BY <1>4, NextServer DEF ScaleUp, ScaledInOrder
  <2> HIDE DEF i
  <2>2. ContainerCreated(i) /\ loc' = [loc EXCEPT ![t].hs = i]
    BY <1>4 DEF ScaleUp, i
  <2>3. loc' \in [Tests -> Locals]
    BY <2>1, <2>2, LocalsHs
  <2>4. lastPort' \in Nat
    BY <2>2 DEF ContainerCreated
  <2>5. port' \in [Servers -> Nat] /\ baseURL' \in [Servers -> Nat]
    BY <2>2, <2>4 DEF ContainerCreated
  <2>6. status' \in [Servers -> {"none", "running", "paused", "stopped"}] /\ disturbed' \subseteq Servers
    BY <2>2 DEF ContainerCreated
  <2> QED
    BY <1>4, <2>3, <2>4, <2>5, <2>6 DEF ScaleUp
<1>5. CASE StoreServer(t)
  <2>1. loc' \in [Tests -> Locals]
    <3>1. PICK seen \in SUBSET {u \in Tests : loc[u].op = "restart"} :
            loc' = [u \in Tests |-> IF u = t THEN Idle
                                    ELSE IF u \in seen THEN [loc[u] EXCEPT !.todo = @ \cup {loc[t].hs}]
                                    ELSE loc[u]]
      BY <1>5 DEF StoreServer
    <3>2. \A u \in Tests : [loc[u] EXCEPT !.todo = @ \cup {loc[t].hs}] \in Locals
      <4> TAKE u \in Tests
      <4>1. loc[u] \in Locals /\ loc[u].todo \cup {loc[t].hs} \in SUBSET Servers
        BY LocalsFields
      <4> QED
        BY <4>1, LocalsTodo
    <3> QED
      BY <3>1, <3>2, LocalsIdle
  <2> QED
    BY <1>5, <2>1, LocalsFields DEF StoreServer
<1>6. CASE ScaledUp(t)
  BY <1>6 DEF ScaledUp, DeployReturns
<1>7. CASE DeployFails(t)
  BY <1>7 DEF DeployFails, Creating, SetupFailure
<1> QED
  BY <1>1, <1>2, <1>3, <1>4, <1>5, <1>6, <1>7 DEF Deploying

\* The steps inside an operation on the deployment keep the types.
LEMMA WorkingTypes ==
  ASSUME SharedInv, NEW t \in Tests, Working(t), UNCHANGED hung
  PROVE  TypeOK'
<1> USE SharedAssumption DEF SharedInv, TypeOK, PCs, Statuses, At, Goto,
        deployVars, serverVars, clientVars, mainVars
<1>1. CASE ClientAppend(t)
  <2>1. [hs |-> Hs(t), url |-> loc[t].url, late |-> loc[t].late] \in Clients
    BY LocalsFields DEF Clients, Hs
  <2>2. clients' \in Seq(Clients)
    BY <1>1, <2>1 DEF ClientAppend
  <2>3. Len(clients') \in Nat
    BY <2>2
  <2>4. loc' \in [Tests -> Locals]
    <3>1. [loc[t] EXCEPT !.url = Len(clients')] \in Locals
      BY <2>3, LocalsUrl
    <3>2. \/ loc' = [loc EXCEPT ![t] = [loc[t] EXCEPT !.url = Len(clients')]]
          \/ loc' = [loc EXCEPT ![t] = Idle]
      BY <1>1 DEF ClientAppend, Return
    <3> QED
      BY <3>1, <3>2, LocalsIdle
  <2> QED
    BY <1>1, <2>2, <2>4 DEF ClientAppend, Return
<1>2. CASE ClientRequest(t)
  <2>1. loc' \in [Tests -> Locals]
    BY <1>2, LocalsIdle DEF ClientRequest, Return, Fatal
  <2> QED
    BY <1>2, <2>1, LocalsFields DEF ClientRequest, Return, Fatal
<1>3. CASE TransportLoadOrStore(t)
  <2>1. loc' \in [Tests -> Locals]
    BY <1>3, LocalsIdle DEF TransportLoadOrStore, Return
  <2> QED
    BY <1>3, <2>1, LocalsFields DEF TransportLoadOrStore, Return, Hs
<1>4. CASE \E i \in Servers : RestartNext(t, i)
  <2> PICK i \in Servers : RestartNext(t, i)
    BY <1>4
  <2>1. loc[t].todo \ {i} \in SUBSET Servers /\ "restart" \in Ops
    BY LocalsFields DEF Ops
  <2>2. Doing("restart", i, 0, loc[t].todo \ {i}) \in Locals
    BY <2>1, LocalsDoing
  <2>3. loc' \in [Tests -> Locals]
    BY <2>2 DEF RestartNext
  <2> QED
    BY <2>3 DEF RestartNext, ContainerStop, Disturb
<1>5. CASE RestartEnd(t)
  <2>1. loc' \in [Tests -> Locals]
    BY <1>5, LocalsIdle DEF RestartEnd, Return
  <2> QED
    BY <1>5, <2>1, LocalsFields DEF RestartEnd, Return
<1>6. CASE ContainerStart(t)
  <2>1. Hs(t) \in Servers
    BY LocalsFields DEF Hs
  <2>2. lastPort' \in Nat
    BY <1>6 DEF ContainerStart
  <2>3. port' \in [Servers -> Nat]
    BY <1>6, <2>1, <2>2 DEF ContainerStart
  <2>4. status' \in [Servers -> {"none", "running", "paused", "stopped"}] /\ disturbed' \subseteq Servers
    BY <1>6, <2>1 DEF ContainerStart
  <2> QED
    BY <1>6, <2>2, <2>3, <2>4 DEF ContainerStart
<1>7. CASE InspectPorts(t)
  <2>1. loc' \in [Tests -> Locals]
    BY <1>7, LocalsUrl, LocalsFields DEF InspectPorts, Hs
  <2> QED
    BY <1>7, <2>1, LocalsFields DEF InspectPorts
<1>8. CASE SetBaseURL(t)
  <2>1. loc' \in [Tests -> Locals]
    BY <1>8, LocalsLate DEF SetBaseURL
  <2> QED
    BY <1>8, <2>1, LocalsFields DEF SetBaseURL, Disturb, Hs
<1>9. CASE Repoint(t)
  <2>1. \A c \in DOMAIN clients : clients[c] \in Clients
    OBVIOUS
  <2>2. \A c \in DOMAIN clients : Repointed(clients[c], loc[t].url) \in Clients
    BY <2>1, LocalsFields DEF Repointed, Clients
  <2>3. clients' \in [1 .. Len(clients) -> Clients] /\ Len(clients) \in Nat
    BY <1>9, <2>1, <2>2 DEF Repoint
  <2>4. clients' \in Seq(Clients)
    <3>1. clients' \in UNION {[1 .. n -> Clients] : n \in Nat}
      BY <2>3, Zenon
    <3> QED
      BY <3>1, SeqDef, Zenon
  <2> QED
    BY <1>9, <2>4 DEF Repoint
<1>10. CASE Started(t)
  <2>1. loc' \in [Tests -> Locals]
    BY <1>10, LocalsIdle DEF Started, Return
  <2> QED
    BY <1>10, <2>1, LocalsFields DEF Started, Return
<1>11. CASE ContainerFails(t)
  <2>1. loc' \in [Tests -> Locals]
    BY <1>11, LocalsIdle DEF ContainerFails, Return
  <2> QED
    BY <1>11, <2>1, LocalsFields DEF ContainerFails, Return, Hs
<1>12. CASE Finish(t)
  BY <1>12 DEF Finish
<1>13. CASE TestFails(t)
  BY <1>13 DEF TestFails, Fatal
<1> QED
  BY <1>1, <1>2, <1>3, <1>4, <1>5, <1>6, <1>7, <1>8, <1>9, <1>10, <1>11, <1>12, <1>13 DEF Working

\* The first steps of the operations keep the types.
LEMMA OperationTypes ==
  ASSUME SharedInv, NEW t \in Tests, Operation(t), UNCHANGED hung
  PROVE  TypeOK'
<1> USE SharedAssumption DEF SharedInv, TypeOK, PCs, Statuses, At, Goto,
        deployVars, serverVars, clientVars, mainVars
<1>1. CASE \E i \in Servers, op \in ClientOps : ClientBegin(t, i, op)
  <2> PICK i \in Servers, op \in ClientOps : ClientBegin(t, i, op)
    BY <1>1
  <2>1. Begin(t, i, op) /\ op \in Ops
    BY DEF ClientBegin, Ops, ClientOps
  <2>2. loc' \in [Tests -> Locals] /\ ops' \in Nat
    BY <2>1, BeginFacts
  <2> QED
    BY <2>2 DEF ClientBegin
<1>2. CASE \E i \in Servers : TransportLoad(t, i)
  <2> PICK i \in Servers : TransportLoad(t, i)
    BY <1>2
  <2>1. Begin(t, i, "federation") /\ "federation" \in Ops
    BY DEF TransportLoad, Ops, ClientOps
  <2>2. loc' \in [Tests -> Locals] /\ ops' \in Nat
    BY <2>1, BeginFacts
  <2> QED
    BY <2>2 DEF TransportLoad
<1>3. CASE \E i \in Servers : StopServer(t, i)
  <2> PICK i \in Servers : StopServer(t, i)
    BY <1>3
  <2>1. Begin(t, i, "stop") /\ "stop" \in Ops
    BY DEF StopServer, Ops, ClientOps
  <2>2. loc' \in [Tests -> Locals] /\ ops' \in Nat
    BY <2>1, BeginFacts
  <2> QED
    BY <2>2 DEF StopServer, ContainerStop, Disturb
<1>4. CASE \E i \in Servers : StopServerFails(t, i)
  <2> PICK i \in Servers : StopServerFails(t, i)
    BY <1>4
  <2>1. Begin(t, i, "stop") /\ "stop" \in Ops
    BY DEF StopServerFails, Ops, ClientOps
  <2>2. loc' \in [Tests -> Locals] /\ ops' \in Nat
    BY <2>1, BeginFacts
  <2> QED
    BY <2>2 DEF StopServerFails
<1>5. CASE \E i \in Servers : StartServer(t, i)
  <2> PICK i \in Servers : StartServer(t, i)
    BY <1>5
  <2>1. Begin(t, i, "start") /\ "start" \in Ops
    BY DEF StartServer, Ops, ClientOps
  <2>2. loc' \in [Tests -> Locals] /\ ops' \in Nat
    BY <2>1, BeginFacts
  <2> QED
    BY <2>2 DEF StartServer
<1>6. CASE \E i \in Servers : PauseServer(t, i, "running", "paused")
  <2> PICK i \in Servers : PauseServer(t, i, "running", "paused")
    BY <1>6
  <2>1. Begin(t, i, "pause") /\ "pause" \in Ops
    BY DEF PauseServer, Ops, ClientOps
  <2>2. loc' \in [Tests -> Locals] /\ ops' \in Nat
    BY <2>1, BeginFacts
  <2> QED
    BY <2>2 DEF PauseServer
<1>7. CASE \E i \in Servers : PauseServer(t, i, "paused", "running")
  <2> PICK i \in Servers : PauseServer(t, i, "paused", "running")
    BY <1>7
  <2>1. Begin(t, i, "pause") /\ "pause" \in Ops
    BY DEF PauseServer, Ops, ClientOps
  <2>2. loc' \in [Tests -> Locals] /\ ops' \in Nat
    BY <2>1, BeginFacts
  <2> QED
    BY <2>2 DEF PauseServer
<1>8. CASE Restart(t)
  <2>1. 1 \in Servers /\ "restart" \in Ops /\ deployed \in SUBSET Servers
    BY DEF Servers, Ops
  <2>2. Doing("restart", 1, 0, deployed) \in Locals
    BY <2>1, LocalsDoing
  <2>3. loc' \in [Tests -> Locals]
    BY <1>8, <2>2 DEF Restart
  <2> QED
    BY <1>8, <2>3 DEF Restart
<1>9. CASE UnknownServer(t)
  BY <1>9 DEF UnknownServer, Fatal
<1>10. CASE MapRace(t)
  BY <1>10 DEF MapRace
<1> QED
  BY <1>1, <1>2, <1>3, <1>4, <1>5, <1>6, <1>7, <1>8, <1>9, <1>10 DEF Operation

\* Tests that Deploy has served work on a deployment that stays as it is.
LEMMA WorkingIsQuiet ==
  ASSUME SharedInv, NEW t \in Tests, Working(t)
  PROVE  ScaledInOrder' /\ Served'
<1> USE SharedAssumption DEF SharedInv, TypeOK, PCs, Statuses, Unserved, DeployPCs, At, Goto,
        deployVars, serverVars, clientVars, mainVars
<1>1. CASE ClientAppend(t)
  <2>1. \A u \in Tests \ {t} : loc'[u].hs = loc[u].hs
    BY <1>1 DEF ClientAppend, Return
  <2> QED
    BY <1>1, <2>1, QuietStep DEF ClientAppend, Return
<1>2. CASE ClientRequest(t)
  <2>1. \A u \in Tests \ {t} : loc'[u].hs = loc[u].hs
    BY <1>2 DEF ClientRequest, Return, Fatal
  <2> QED
    BY <1>2, <2>1, QuietStep DEF ClientRequest, Return, Fatal
<1>3. CASE TransportLoadOrStore(t)
  <2>1. \A u \in Tests \ {t} : loc'[u].hs = loc[u].hs
    BY <1>3 DEF TransportLoadOrStore, Return
  <2> QED
    BY <1>3, <2>1, QuietStep DEF TransportLoadOrStore, Return, Hs
<1>4. CASE \E i \in Servers : RestartNext(t, i)
  <2> PICK i \in Servers : RestartNext(t, i)
    BY <1>4
  <2>1. \A u \in Tests \ {t} : loc'[u].hs = loc[u].hs
    BY DEF RestartNext
  <2> QED
    BY <2>1, QuietStep DEF RestartNext, ContainerStop
<1>5. CASE RestartEnd(t)
  <2>1. \A u \in Tests \ {t} : loc'[u].hs = loc[u].hs
    BY <1>5 DEF RestartEnd, Return
  <2> QED
    BY <1>5, <2>1, QuietStep DEF RestartEnd, Return
<1>6. CASE ContainerStart(t)
  BY <1>6, QuietStep DEF ContainerStart, Hs
<1>7. CASE InspectPorts(t)
  <2>1. \A u \in Tests \ {t} : loc'[u].hs = loc[u].hs
    BY <1>7 DEF InspectPorts, Hs
  <2> QED
    BY <1>7, <2>1, QuietStep DEF InspectPorts
<1>8. CASE SetBaseURL(t)
  <2>1. \A u \in Tests \ {t} : loc'[u].hs = loc[u].hs
    <3> TAKE u \in Tests \ {t}
    <3>1. loc'[u] = loc[u] \/ loc'[u] = [loc[u] EXCEPT !.late = TRUE]
      BY <1>8 DEF SetBaseURL
    <3>2. loc[u] \in Locals
      OBVIOUS
    <3> QED
      BY <3>1, <3>2 DEF Locals
  <2> QED
    BY <1>8, <2>1, QuietStep DEF SetBaseURL
<1>9. CASE Repoint(t)
  BY <1>9, QuietStep DEF Repoint
<1>10. CASE Started(t)
  <2>1. \A u \in Tests \ {t} : loc'[u].hs = loc[u].hs
    BY <1>10 DEF Started, Return
  <2> QED
    BY <1>10, <2>1, QuietStep DEF Started, Return
<1>11. CASE ContainerFails(t)
  <2>1. \A u \in Tests \ {t} : loc'[u].hs = loc[u].hs
    BY <1>11 DEF ContainerFails, Return
  <2> QED
    BY <1>11, <2>1, QuietStep DEF ContainerFails, Return, Hs
<1>12. CASE Finish(t)
  BY <1>12, QuietStep DEF Finish
<1>13. CASE TestFails(t)
  BY <1>13, QuietStep DEF TestFails, Fatal
<1> QED
  BY <1>1, <1>2, <1>3, <1>4, <1>5, <1>6, <1>7, <1>8, <1>9, <1>10, <1>11, <1>12, <1>13 DEF Working

\* So do they when they begin an operation.
LEMMA OperationIsQuiet ==
  ASSUME SharedInv, NEW t \in Tests, Operation(t)
  PROVE  ScaledInOrder' /\ Served'
<1> USE SharedAssumption DEF SharedInv, TypeOK, PCs, Statuses, Unserved, DeployPCs, At, Goto,
        deployVars, serverVars, clientVars, mainVars
<1>1. CASE \E i \in Servers, op \in ClientOps : ClientBegin(t, i, op)
  <2> PICK i \in Servers, op \in ClientOps : ClientBegin(t, i, op)
    BY <1>1
  <2>1. Begin(t, i, op) /\ op \in Ops
    BY DEF ClientBegin, Ops, ClientOps
  <2>2. phase = "tests" /\ pc[t] = "using" /\ \A u \in Tests \ {t} : loc'[u] = loc[u]
    BY <2>1, BeginFacts
  <2> QED
    BY <2>2, QuietStep, LocalsFields DEF ClientBegin
<1>2. CASE \E i \in Servers : TransportLoad(t, i)
  <2> PICK i \in Servers : TransportLoad(t, i)
    BY <1>2
  <2>1. Begin(t, i, "federation") /\ "federation" \in Ops
    BY DEF TransportLoad, Ops, ClientOps
  <2>2. phase = "tests" /\ pc[t] = "using" /\ \A u \in Tests \ {t} : loc'[u] = loc[u]
    BY <2>1, BeginFacts
  <2> QED
    BY <2>2, QuietStep, LocalsFields DEF TransportLoad
<1>3. CASE \E i \in Servers : StopServer(t, i)
  <2> PICK i \in Servers : StopServer(t, i)
    BY <1>3
  <2>1. Begin(t, i, "stop") /\ "stop" \in Ops
    BY DEF StopServer, Ops, ClientOps
  <2>2. phase = "tests" /\ pc[t] = "using" /\ \A u \in Tests \ {t} : loc'[u] = loc[u]
    BY <2>1, BeginFacts
  <2> QED
    BY <2>2, QuietStep, LocalsFields DEF StopServer, ContainerStop, Disturb
<1>4. CASE \E i \in Servers : StopServerFails(t, i)
  <2> PICK i \in Servers : StopServerFails(t, i)
    BY <1>4
  <2>1. Begin(t, i, "stop") /\ "stop" \in Ops
    BY DEF StopServerFails, Ops, ClientOps
  <2>2. phase = "tests" /\ pc[t] = "using" /\ \A u \in Tests \ {t} : loc'[u] = loc[u]
    BY <2>1, BeginFacts
  <2> QED
    BY <2>2, QuietStep, LocalsFields DEF StopServerFails
<1>5. CASE \E i \in Servers : StartServer(t, i)
  <2> PICK i \in Servers : StartServer(t, i)
    BY <1>5
  <2>1. Begin(t, i, "start") /\ "start" \in Ops
    BY DEF StartServer, Ops, ClientOps
  <2>2. phase = "tests" /\ pc[t] = "using" /\ \A u \in Tests \ {t} : loc'[u] = loc[u]
    BY <2>1, BeginFacts
  <2> QED
    BY <2>2, QuietStep, LocalsFields DEF StartServer
<1>6. CASE \E i \in Servers : PauseServer(t, i, "running", "paused")
  <2> PICK i \in Servers : PauseServer(t, i, "running", "paused")
    BY <1>6
  <2>1. Begin(t, i, "pause") /\ "pause" \in Ops
    BY DEF PauseServer, Ops, ClientOps
  <2>2. phase = "tests" /\ pc[t] = "using" /\ \A u \in Tests \ {t} : loc'[u] = loc[u]
    BY <2>1, BeginFacts
  <2> QED
    BY <2>2, QuietStep, LocalsFields DEF PauseServer
<1>7. CASE \E i \in Servers : PauseServer(t, i, "paused", "running")
  <2> PICK i \in Servers : PauseServer(t, i, "paused", "running")
    BY <1>7
  <2>1. Begin(t, i, "pause") /\ "pause" \in Ops
    BY DEF PauseServer, Ops, ClientOps
  <2>2. phase = "tests" /\ pc[t] = "using" /\ \A u \in Tests \ {t} : loc'[u] = loc[u]
    BY <2>1, BeginFacts
  <2> QED
    BY <2>2, QuietStep, LocalsFields DEF PauseServer
<1>8. CASE Restart(t)
  <2>1. \A u \in Tests \ {t} : loc'[u].hs = loc[u].hs
    BY <1>8 DEF Restart
  <2> QED
    BY <1>8, <2>1, QuietStep DEF Restart
<1>9. CASE UnknownServer(t)
  BY <1>9, QuietStep DEF UnknownServer, Fatal
<1>10. CASE MapRace(t)
  BY <1>10, QuietStep DEF MapRace
<1> QED
  BY <1>1, <1>2, <1>3, <1>4, <1>5, <1>6, <1>7, <1>8, <1>9, <1>10 DEF Operation

\* Nobody deploys while a test holds the mutex: the steps of dirtyDeploy add
\* the servers one after the other, and Deploy returns when there are enough.
LEMMA DeployingInOrder ==
  ASSUME SharedInv, NEW t \in Tests, Deploying(t)
  PROVE  ScaledInOrder' /\ Served'
<1> USE SharedAssumption DEF SharedInv, TypeOK, PCs, Statuses, DeployPCs, At, Goto, deployVars, serverVars, mainVars
<1>0. \A u \in Tests : mu \in {t, None} /\ pc[u] \in DeployPCs => u = t
  BY DEF ScaledInOrder
<1>1. CASE DeployLock(t)
  BY <1>1 DEF DeployLock, ScaledInOrder, Served
<1>2. CASE CreateDirtyDeployment(t)
  <2>1. 1 \in Servers /\ deployed' = 1 .. 1 /\ 1 \in 0 .. MaxServers
    BY <1>2 DEF CreateDirtyDeployment, Servers
  <2>2. mu = t /\ pc[t] = "deploying"
    BY <1>2 DEF CreateDirtyDeployment, ScaledInOrder
  <2>3. status' = [status EXCEPT ![1] = "running"]
    BY <1>2 DEF CreateDirtyDeployment, ContainerCreated
  <2>4. ScaledInOrder'
    BY <1>2, <2>1, <2>2, <2>3 DEF CreateDirtyDeployment, ScaledInOrder
  <2>5. Served'
    BY <1>2 DEF CreateDirtyDeployment, Served
  <2> QED
    BY <2>4, <2>5
<1>3. CASE UseExisting(t)
  <2>1. mu = t
    BY <1>3 DEF UseExisting, ScaledInOrder
  <2>2. CASE Enough(t)
    <3>1. 1 .. wants[t] \subseteq deployed
      <4>1. PICK n \in 0 .. MaxServers : deployed = 1 .. n
        BY DEF ScaledInOrder
      <4>2. n >= wants[t]
        BY <2>2, <4>1, DeployedCount DEF Enough
      <4> QED
        BY <4>1, <4>2 DEF Servers
    <3>2. DeployReturns(t)
      BY <1>3, <2>2 DEF UseExisting
    <3>3. Served'
      BY <3>1, <3>2 DEF DeployReturns, Served
    <3>4. ScaledInOrder'
      BY <1>3, <2>1, <3>2 DEF UseExisting, DeployReturns, ScaledInOrder
    <3> QED
      BY <3>3, <3>4
  <2>3. CASE ~Enough(t)
    BY <1>3, <2>1, <2>3 DEF UseExisting, ScaledInOrder, Served
  <2> QED
    BY <2>2, <2>3
<1>4. CASE ScaleUp(t)
  <2>1. mu = t /\ deployed # {}
    BY <1>4 DEF ScaleUp, ScaledInOrder
  <2> DEFINE i == FirstMissing(t)
  <2>2. i \in Servers /\ deployed = 1 .. i - 1
    BY <1>4, <2>1, NextServer DEF ScaleUp
  <2> HIDE DEF i
  <2>3. status' = [status EXCEPT ![i] = "running"] /\ loc' = [loc EXCEPT ![t].hs = i]
    BY <1>4 DEF ScaleUp, ContainerCreated, i
  <2>4. loc'[t].hs = i
    BY <2>3 DEF Locals
  <2>5. ScaledInOrder'
    BY <1>4, <2>1, <2>2, <2>3, <2>4 DEF ScaleUp, ScaledInOrder
  <2>6. Served'
    BY <1>4 DEF ScaleUp, Served
  <2> QED
    BY <2>5, <2>6
<1>5. CASE StoreServer(t)
  <2> DEFINE i == loc[t].hs
  <2>1. i \in Servers
    BY LocalsFields
  <2>2. mu = t /\ deployed = 1 .. i - 1 /\ status[i] # "none"
    BY <1>5 DEF StoreServer, ScaledInOrder
  <2>3. deployed' = deployed \cup {i}
    BY <1>5 DEF StoreServer
  <2> HIDE DEF i
  <2>4. deployed' = 1 .. i /\ i \in 0 .. MaxServers /\ deployed' # {}
    BY <2>1, <2>2, <2>3 DEF Servers
  <2>5. ScaledInOrder'
    BY <1>5, <2>2, <2>3, <2>4 DEF StoreServer, ScaledInOrder
  <2>6. Served'
    BY <1>5, <2>3 DEF StoreServer, Served
  <2> QED
    BY <2>5, <2>6
<1>6. CASE ScaledUp(t)
  <2>1. 1 .. wants[t] \subseteq deployed
    BY <1>6 DEF ScaledUp, Missing
  <2>2. mu = t
    BY <1>6 DEF ScaledUp, ScaledInOrder
  <2>3. Served'
    BY <1>6, <2>1 DEF ScaledUp, DeployReturns, Served
  <2>4. ScaledInOrder'
    BY <1>6, <2>2 DEF ScaledUp, DeployReturns, ScaledInOrder
  <2> QED
    BY <2>3, <2>4
<1>7. CASE DeployFails(t)
  <2>1. mu = t
    BY <1>7 DEF DeployFails, Creating, ScaledInOrder
  <2>2. SetupFailure(t)
    BY <1>7 DEF DeployFails
  <2> QED
    BY <2>1, <2>2 DEF SetupFailure, ScaledInOrder, Served
<1> QED
  BY <1>1, <1>2, <1>3, <1>4, <1>5, <1>6, <1>7 DEF Deploying

\* TestMain ends the deployment when no test is deploying.
LEMMA MainKeepsInv ==
  ASSUME SharedInv, Main, UNCHANGED hung
  PROVE  SharedInv'
<1> USE DEF SharedInv, deployVars, serverVars, clientVars, mainVars
<1>1. CASE ExitCode
  <2>1. TypeOK'
    BY <1>1 DEF ExitCode, TypeOK
  <2>2. ScaledInOrder'
    BY <1>1 DEF ExitCode, ScaledInOrder
  <2>3. Served' /\ OneTransport'
    BY <1>1 DEF ExitCode, Served, OneTransport
  <2> QED
    BY <2>1, <2>2, <2>3
<1>2. CASE Cleanup
  <2>1. TypeOK'
    BY <1>2 DEF Cleanup, TypeOK
  <2>2. \A t \in Tests : pc[t] \notin DeployPCs
    BY <1>2, SharedAssumption DEF Cleanup, ScaledInOrder
  <2>3. ScaledInOrder'
    BY <1>2, <2>2 DEF Cleanup, ScaledInOrder, DeployPCs
  <2>4. Served' /\ OneTransport'
    BY <1>2 DEF Cleanup, Served, OneTransport
  <2> QED
    BY <2>1, <2>3, <2>4
<1>3. CASE CleanupHangs
  <2>1. TypeOK'
    BY <1>3 DEF CleanupHangs, TypeOK
  <2>2. ScaledInOrder'
    BY <1>3 DEF CleanupHangs, ScaledInOrder
  <2>3. Served' /\ OneTransport'
    BY <1>3 DEF CleanupHangs, Served, OneTransport
  <2> QED
    BY <2>1, <2>2, <2>3
<1> QED
  BY <1>1, <1>2, <1>3 DEF Main

\* A call that panics or does not return has no more effect.
LEMMA StopsShort ==
  ASSUME SharedInv, NEW t \in Tests, CallHangs(t) \/ (InspectPanics(t) /\ UNCHANGED hung)
  PROVE  SharedInv'
<1> USE DEF SharedInv, deployVars, serverVars, clientVars, mainVars
<1>1. CASE CallHangs(t)
  <2>1. TypeOK'
    BY <1>1 DEF CallHangs, TypeOK
  <2>2. ScaledInOrder' /\ Served' /\ OneTransport'
    BY <1>1 DEF CallHangs, ScaledInOrder, Served, OneTransport
  <2> QED
    BY <2>1, <2>2
<1>2. CASE InspectPanics(t) /\ UNCHANGED hung
  <2>1. TypeOK'
    BY <1>2 DEF InspectPanics, TypeOK
  <2>2. phase = "tests"
    BY <1>2 DEF InspectPanics, Creating, At
  <2>3. ScaledInOrder' /\ Served' /\ OneTransport'
    BY <1>2, <2>2 DEF InspectPanics, ScaledInOrder, Served, OneTransport
  <2> QED
    BY <2>1, <2>3
<1> QED
  BY <1>1, <1>2

\* Only the two steps of transportFor change the transports: the first stores
\* nothing, the second does not replace what is there.
LEMMA TransportsKept ==
  ASSUME SharedInv, NEW t \in Tests, Deploying(t) \/ Working(t) \/ Operation(t)
  PROVE  OneTransport'
<1> USE DEF SharedInv, OneTransport, clientVars
<1>1. CASE Deploying(t)
  BY <1>1 DEF Deploying, DeployLock, CreateDirtyDeployment, UseExisting, ScaleUp, StoreServer, ScaledUp,
     DeployFails, SetupFailure
<1>2. CASE TransportLoadOrStore(t)
  <2>1. Hs(t) \in Servers
    BY LocalsFields DEF Hs, TypeOK
  <2>2. /\ transports' = [transports EXCEPT ![Hs(t)] = IF @ = None THEN t ELSE @]
        /\ requests' = requests \cup {<<Hs(t), transports'[Hs(t)]>>}
    BY <1>2 DEF TransportLoadOrStore
  <2>3. transports'[Hs(t)] # None
    BY <2>1, <2>2, SharedAssumption DEF TypeOK
  <2>4. \A i \in Servers : transports[i] # None => transports'[i] = transports[i]
    BY <2>2 DEF TypeOK
  <2>5. ASSUME NEW q \in requests'
        PROVE  q[1] \in Servers /\ q[2] # None /\ transports'[q[1]] = q[2]
    <3>1. CASE q \in requests
      BY <2>4, <3>1
    <3>2. CASE q = <<Hs(t), transports'[Hs(t)]>>
      BY <2>1, <2>3, <3>2
    <3> QED
      BY <2>2, <2>5, <3>1, <3>2
  <2> QED
    BY <2>5
<1>3. CASE \E i \in Servers : TransportLoad(t, i)
  <2> PICK i \in Servers : TransportLoad(t, i)
    BY <1>3
  <2>1. transports' = transports
    BY DEF TransportLoad
  <2>2. CASE transports[i] = None
    <3>1. requests' = requests
      BY <2>2 DEF TransportLoad
    <3> QED
      BY <2>1, <3>1
  <2>3. CASE transports[i] # None
    <3>1. requests' = requests \cup {<<i, transports[i]>>}
      BY <2>3 DEF TransportLoad
    <3> QED
      BY <2>1, <2>3, <3>1
  <2> QED
    BY <2>2, <2>3
<1>4. CASE Working(t) /\ ~TransportLoadOrStore(t)
  BY <1>4 DEF Working, ClientAppend, ClientRequest, RestartNext, RestartEnd, ContainerStart,
     InspectPorts, SetBaseURL, Repoint, Started, ContainerFails, Finish, TestFails, Fatal
<1>5. CASE Operation(t) /\ ~\E i \in Servers : TransportLoad(t, i)
  BY <1>5 DEF Operation, ClientBegin, StopServer, StopServerFails, StartServer, PauseServer, Restart,
     UnknownServer, Fatal, MapRace
<1> QED
  BY <1>1, <1>2, <1>3, <1>4, <1>5

\* Tests share a deployment whose servers are added in order, one at a time;
\* every test that Deploy has served keeps the servers it asked for, and all
\* federation requests to a server use its one transport: for any number of
\* tests and servers, whichever fail.
THEOREM SharedInvariant == Spec => []SharedInv
<1>1. Init => SharedInv
  BY InitInv
<1>2. SharedInv /\ [Next]_vars => SharedInv'
  <2> SUFFICES ASSUME SharedInv, [Next]_vars PROVE SharedInv'
    OBVIOUS
  <2>1. CASE UNCHANGED vars
    BY <2>1 DEF vars, deployVars, serverVars, clientVars, mainVars, SharedInv, TypeOK, ScaledInOrder, Served,
       OneTransport
  <2>2. CASE (\E t \in Tests : Deploying(t) \/ Working(t) \/ Operation(t)) /\ UNCHANGED hung
    <3> PICK t \in Tests : (Deploying(t) \/ Working(t) \/ Operation(t)) /\ UNCHANGED hung
      BY <2>2
    <3>1. OneTransport'
      BY TransportsKept
    <3>2. TypeOK'
      BY DeployingTypes, WorkingTypes, OperationTypes
    <3>3. ScaledInOrder' /\ Served'
      BY DeployingInOrder, WorkingIsQuiet, OperationIsQuiet
    <3> QED
      BY <3>1, <3>2, <3>3 DEF SharedInv
  <2>3. CASE Main /\ UNCHANGED hung
    BY <2>3, MainKeepsInv
  <2>4. CASE \E t \in Tests : CallHangs(t) \/ (InspectPanics(t) /\ UNCHANGED hung)
    BY <2>4, StopsShort
  <2> QED
    BY <2>1, <2>2, <2>3, <2>4 DEF Next
<1> QED
  BY <1>1, <1>2, PTL DEF Spec

\* In particular, no test loses the servers that Deploy gave it.
THEOREM ServedStaysServed == Spec => []Served
<1>1. SharedInv => Served
  BY DEF SharedInv
<1> QED
  BY <1>1, SharedInvariant, PTL

-----------------------------------------------------------------------------
(* The exit code *)

\* What a test leaves for ExitCode to read, and what ExitCode makes of it.
ExitInv ==
  /\ setupFailed <=> \E t \in Tests : pc[t] = "unserved"
  /\ \A t \in Tests : pc[t] = "unserved" => failed[t]
  /\ phase \in {"cleanup", "exited"} =>
       code = IF setupFailed THEN 2 ELSE IF \E t \in Tests : failed[t] THEN 1 ELSE 0

\* A step of a test, before ExitCode, that is no failure of Deploy.
NothingToTell ==
  /\ phase = "tests" /\ phase' \in {"tests", "crashed"}
  /\ setupFailed' = setupFailed
  /\ \A u \in Tests : (pc'[u] = "unserved" <=> pc[u] = "unserved") /\ (failed[u] => failed'[u])

\* A test that Deploy has served may fail, but it is no failure of Deploy.
LEMMA WorkingTellsNothing ==
  ASSUME SharedInv, NEW t \in Tests, Working(t)
  PROVE  NothingToTell
<1> USE DEF SharedInv, TypeOK, At, Goto, NothingToTell, mainVars
<1>1. CASE ClientAppend(t)
  BY <1>1 DEF ClientAppend, Return
<1>2. CASE ClientRequest(t)
  BY <1>2 DEF ClientRequest, Return, Fatal
<1>3. CASE TransportLoadOrStore(t)
  BY <1>3 DEF TransportLoadOrStore, Return
<1>4. CASE \E i \in Servers : RestartNext(t, i)
  BY <1>4 DEF RestartNext
<1>5. CASE RestartEnd(t)
  BY <1>5 DEF RestartEnd, Return
<1>6. CASE ContainerStart(t)
  BY <1>6 DEF ContainerStart
<1>7. CASE InspectPorts(t)
  BY <1>7 DEF InspectPorts
<1>8. CASE SetBaseURL(t)
  BY <1>8 DEF SetBaseURL
<1>9. CASE Repoint(t)
  BY <1>9 DEF Repoint
<1>10. CASE Started(t)
  BY <1>10 DEF Started, Return
<1>11. CASE ContainerFails(t)
  BY <1>11 DEF ContainerFails, Return
<1>12. CASE Finish(t)
  BY <1>12 DEF Finish
<1>13. CASE TestFails(t)
  BY <1>13 DEF TestFails, Fatal
<1> QED
  BY <1>1, <1>2, <1>3, <1>4, <1>5, <1>6, <1>7, <1>8, <1>9, <1>10, <1>11, <1>12, <1>13 DEF Working

\* Nor is it when an operation fails in its first step.
LEMMA OperationTellsNothing ==
  ASSUME SharedInv, NEW t \in Tests, Operation(t)
  PROVE  NothingToTell
<1> USE DEF SharedInv, TypeOK, At, Goto, NothingToTell, mainVars
<1>1. CASE \E i \in Servers, op \in ClientOps : ClientBegin(t, i, op)
  BY <1>1 DEF ClientBegin, Begin
<1>2. CASE \E i \in Servers : TransportLoad(t, i)
  BY <1>2 DEF TransportLoad, Begin
<1>3. CASE \E i \in Servers : StopServer(t, i)
  BY <1>3 DEF StopServer, Begin
<1>4. CASE \E i \in Servers : StopServerFails(t, i)
  BY <1>4 DEF StopServerFails, Begin
<1>5. CASE \E i \in Servers : StartServer(t, i)
  BY <1>5 DEF StartServer, Begin
<1>6. CASE \E i \in Servers : PauseServer(t, i, "running", "paused")
  BY <1>6 DEF PauseServer, Begin
<1>7. CASE \E i \in Servers : PauseServer(t, i, "paused", "running")
  BY <1>7 DEF PauseServer, Begin
<1>8. CASE Restart(t)
  BY <1>8 DEF Restart
<1>9. CASE UnknownServer(t)
  BY <1>9 DEF UnknownServer, Fatal
<1>10. CASE MapRace(t)
  BY <1>10 DEF MapRace
<1> QED
  BY <1>1, <1>2, <1>3, <1>4, <1>5, <1>6, <1>7, <1>8, <1>9, <1>10 DEF Operation

\* The steps of dirtyDeploy that succeed have nothing to tell.
LEMMA DeployingTellsNothing ==
  ASSUME SharedInv, NEW t \in Tests, Deploying(t) /\ ~DeployFails(t)
  PROVE  NothingToTell
<1> USE DEF SharedInv, TypeOK, At, Goto, NothingToTell, mainVars
<1>1. CASE DeployLock(t)
  BY <1>1 DEF DeployLock
<1>2. CASE CreateDirtyDeployment(t)
  BY <1>2 DEF CreateDirtyDeployment
<1>3. CASE UseExisting(t)
  BY <1>3 DEF UseExisting, DeployReturns
<1>4. CASE ScaleUp(t)
  BY <1>4 DEF ScaleUp
<1>5. CASE StoreServer(t)
  BY <1>5 DEF StoreServer
<1>6. CASE ScaledUp(t)
  BY <1>6 DEF ScaledUp, DeployReturns
<1> QED
  BY <1>1, <1>2, <1>3, <1>4, <1>5, <1>6 DEF Deploying

\* Nor have calls that panic or do not return.
LEMMA StopsShortTellsNothing ==
  ASSUME NEW t \in Tests, CallHangs(t) \/ InspectPanics(t)
  PROVE  NothingToTell
  BY DEF CallHangs, InspectPanics, Creating, At, NothingToTell, mainVars

\* A failure of Deploy is told by setupFailed and by the test.
LEMMA FailureIsTold ==
  ASSUME SharedInv, ExitInv, NEW t \in Tests, DeployFails(t)
  PROVE  ExitInv'
<1> USE DEF SharedInv, TypeOK
<1>1. phase = "tests" /\ phase' = phase /\ setupFailed' = TRUE
  BY DEF DeployFails, Creating, SetupFailure, At
<1>2. pc' = [pc EXCEPT ![t] = "unserved"] /\ failed' = [failed EXCEPT ![t] = TRUE]
  BY DEF DeployFails, SetupFailure, Goto
<1>3. pc'[t] = "unserved"
  BY <1>2
<1>4. \A u \in Tests : pc'[u] = "unserved" => failed'[u]
  BY <1>2 DEF ExitInv
<1> QED
  BY <1>1, <1>3, <1>4 DEF ExitInv

\* The invariant behind the exit code.
THEOREM ExitInvariant == Spec => []ExitInv
<1>1. Init => ExitInv
  BY DEF Init, ExitInv
<1>2. SharedInv /\ ExitInv /\ [Next]_vars => ExitInv'
  <2> SUFFICES ASSUME SharedInv, ExitInv, [Next]_vars PROVE ExitInv'
    OBVIOUS
  <2>1. CASE UNCHANGED vars
    BY <2>1 DEF vars, serverVars, mainVars, ExitInv
  <2>2. ASSUME NEW t \in Tests, NothingToTell
        PROVE  ExitInv'
    <3>1. phase' \notin {"cleanup", "exited"}
      BY <2>2 DEF NothingToTell
    <3>2. setupFailed' <=> \E u \in Tests : pc'[u] = "unserved"
      BY <2>2 DEF NothingToTell, ExitInv
    <3>3. \A u \in Tests : pc'[u] = "unserved" => failed'[u]
      BY <2>2 DEF NothingToTell, ExitInv
    <3> QED
      BY <3>1, <3>2, <3>3 DEF ExitInv
  <2>3. ASSUME NEW t \in Tests, Deploying(t) \/ Working(t) \/ Operation(t)
        PROVE  ExitInv'
    <3>1. CASE DeployFails(t)
      BY <3>1, FailureIsTold
    <3>2. CASE ~DeployFails(t)
      BY <2>2, <2>3, <3>2, WorkingTellsNothing, OperationTellsNothing, DeployingTellsNothing
    <3> QED
      BY <3>1, <3>2
  <2>4. CASE ExitCode
    BY <2>4 DEF ExitCode, ExitInv
  <2>5. CASE Cleanup \/ CleanupHangs
    BY <2>5 DEF Cleanup, CleanupHangs, ExitInv
  <2>6. ASSUME NEW t \in Tests, CallHangs(t) \/ InspectPanics(t)
        PROVE  ExitInv'
    BY <2>2, <2>6, StopsShortTellsNothing
  <2> QED
    BY <2>1, <2>3, <2>4, <2>5, <2>6 DEF Next, Main
<1> QED
  BY <1>1, <1>2, SharedInvariant, PTL DEF Spec

\* TestMain tells a failure of Deploy from a failed test, whichever tests fail.
THEOREM ExitCodeIsTrue == Spec => []ExitTold
<1>1. SharedInv /\ ExitInv => ExitTold
  <2> SUFFICES ASSUME SharedInv, ExitInv, phase \in {"cleanup", "exited"}
               PROVE  /\ code = 2 <=> \E t \in Tests : pc[t] = "unserved"
                      /\ code = 0 <=> \A t \in Tests : ~failed[t]
    BY DEF ExitTold
  <2>1. CASE setupFailed
    BY <2>1 DEF ExitInv
  <2>2. CASE ~setupFailed
    BY <2>2 DEF ExitInv
  <2> QED
    BY <2>1, <2>2
<1> QED
  BY <1>1, SharedInvariant, ExitInvariant, PTL

-----------------------------------------------------------------------------
(* Clients and ports *)

\* Where the URLs of a server are behind its port, and those of its clients.
BehindPCs == {"started", "endpoints"}
RepointPCs == BehindPCs \cup {"repoint"}
On(t, i, where) == pc[t] \in where /\ Hs(t) = i

\* Tests work on what is deployed, and a server has its URL before it is.
OnDeployed ==
  /\ \A t \in Tests : pc[t] \in StartPCs \cup {"append"} => Hs(t) \in deployed
  /\ \A t \in Tests : loc[t].todo \subseteq deployed
  /\ \A c \in DOMAIN clients : clients[c].hs \in deployed
  /\ \A t \in Tests : pc[t] = "writing" => baseURL[Hs(t)] = port[Hs(t)]

\* The way of a new port, from ContainerStart to Repoint: one test carries it
\* at a time, and what it has not reached yet is its to change.
PortFollowed(i) ==
  /\ \A t, u \in Tests : (On(t, i, RepointPCs) /\ On(u, i, RepointPCs)) => t = u
  /\ \A t \in Tests : On(t, i, {"endpoints", "repoint"}) => loc[t].url = port[i]
  /\ (\A t \in Tests : ~On(t, i, BehindPCs)) =>
       /\ baseURL[i] = port[i]
       /\ \A t \in Tests : (On(t, i, {"append"}) /\ ~loc[t].late) => loc[t].url = port[i]
  /\ (\A t \in Tests : ~On(t, i, RepointPCs)) =>
       \A c \in DOMAIN clients : (clients[c].hs = i /\ ~clients[c].late) => clients[c].url = port[i]

\* The inductive invariant of ClientsFollow.
FollowInv == OnDeployed /\ \A i \in deployed \ disturbed : PortFollowed(i)

\* A step that does not concern a server: what its port has to do is the same.
LEMMA SameServer ==
  ASSUME NEW i, PortFollowed(i), port'[i] = port[i], baseURL'[i] = baseURL[i],
         \A u \in Tests : On(u, i, RepointPCs) => On(u, i, RepointPCs)',
         \A u \in Tests : On(u, i, RepointPCs)' =>
           On(u, i, RepointPCs) /\ pc'[u] = pc[u] /\ loc'[u].url = loc[u].url,
         \A u \in Tests : On(u, i, {"append"})' =>
           On(u, i, {"append"}) /\ loc'[u].url = loc[u].url /\ loc'[u].late = loc[u].late,
         \A c \in DOMAIN clients' :
           clients'[c].hs = i => c \in DOMAIN clients /\ clients'[c] = clients[c]
  PROVE  PortFollowed(i)'
<1>1. \A t, u \in Tests : (On(t, i, RepointPCs)' /\ On(u, i, RepointPCs)') => t = u
  BY DEF PortFollowed
<1>2. \A t \in Tests : On(t, i, {"endpoints", "repoint"})' => loc'[t].url = port'[i]
  BY DEF PortFollowed, On, RepointPCs, BehindPCs
<1>3. \A t \in Tests : On(t, i, BehindPCs) => On(t, i, BehindPCs)'
  BY DEF On, RepointPCs, BehindPCs
<1>4. QED
  BY <1>1, <1>2, <1>3 DEF PortFollowed

\* A step of a test that touches no port, no URL and no client, and gives up a
\* start only where it says so.
Undisturbing ==
  /\ UNCHANGED <<deployed, port, baseURL, clients>> /\ disturbed \subseteq disturbed'
  /\ \A u \in Tests :
       \/ pc'[u] = pc[u] /\ loc'[u] = loc[u]
       \/ /\ pc'[u] \notin RepointPCs \cup {"append", "writing"}
          /\ pc'[u] = "starting" => loc'[u].hs \in deployed
          /\ loc'[u].todo \subseteq deployed
          /\ pc[u] \in RepointPCs => Hs(u) \in disturbed'

\* Such a step leaves every client at the port of its server.
LEMMA UndisturbingStep ==
  ASSUME FollowInv, Undisturbing PROVE FollowInv'
<1>1. OnDeployed'
  BY DEF FollowInv, OnDeployed, Undisturbing, StartPCs, RepointPCs, BehindPCs, Hs
<1>2. ASSUME NEW i \in deployed' \ disturbed' PROVE PortFollowed(i)'
  <2>1. i \in deployed \ disturbed /\ PortFollowed(i)
    BY <1>2 DEF FollowInv, Undisturbing
  <2>2. \A u \in Tests : On(u, i, RepointPCs) => pc'[u] = pc[u] /\ loc'[u] = loc[u]
    BY <1>2 DEF Undisturbing, On
  <2>3. \A u \in Tests : On(u, i, RepointPCs) => On(u, i, RepointPCs)'
    BY <2>2 DEF On, Hs
  <2>4. \A u \in Tests : On(u, i, RepointPCs)' =>
          On(u, i, RepointPCs) /\ pc'[u] = pc[u] /\ loc'[u].url = loc[u].url
    BY DEF Undisturbing, On, Hs
  <2>5. \A u \in Tests : On(u, i, {"append"})' =>
          On(u, i, {"append"}) /\ loc'[u].url = loc[u].url /\ loc'[u].late = loc[u].late
    BY DEF Undisturbing, On, Hs
  <2>6. QED
    BY <2>1, <2>3, <2>4, <2>5, SameServer DEF Undisturbing
<1>3. QED
  BY <1>1, <1>2 DEF FollowInv

\* An operation that returns leaves nothing to do.
LEMMA IdleTodo == Idle.todo = {}
BY DEF Doing, Idle

\* The steps of dirtyDeploy between the ones that create servers.
LEMMA DeployingUndisturbing ==
  ASSUME SharedInv, FollowInv, NEW t \in Tests,
         DeployLock(t) \/ UseExisting(t) \/ ScaledUp(t) \/ DeployFails(t)
  PROVE  Undisturbing
<1>1. UNCHANGED <<deployed, port, baseURL, clients, disturbed, loc>>
  BY DEF DeployLock, UseExisting, ScaledUp, DeployFails, SetupFailure, DeployReturns,
     deployVars, serverVars, clientVars
<1>2. PICK p \in {"deploying", "using", "scaling", "unserved"} : pc' = [pc EXCEPT ![t] = p]
  BY DEF DeployLock, UseExisting, ScaledUp, DeployFails, SetupFailure, DeployReturns, Goto
<1>3. pc[t] \notin RepointPCs
  BY DEF DeployLock, UseExisting, ScaledUp, DeployFails, Creating, At, RepointPCs, BehindPCs
<1>4. loc[t].todo \subseteq deployed
  BY DEF FollowInv, OnDeployed
<1>5. QED
  BY <1>1, <1>2, <1>3, <1>4 DEF Undisturbing, SharedInv, TypeOK, RepointPCs, BehindPCs

\* One test moves on and leaves the others where they are.
LEMMA UndisturbingMove ==
  ASSUME SharedInv, FollowInv, NEW t \in Tests, NEW p, NEW r,
         pc' = [pc EXCEPT ![t] = p], loc' = [loc EXCEPT ![t] = r],
         UNCHANGED <<deployed, port, baseURL, clients>>, disturbed \subseteq disturbed',
         p \notin RepointPCs \cup {"append", "writing"},
         p = "starting" => r.hs \in deployed,
         r.todo \subseteq deployed,
         pc[t] \in RepointPCs => Hs(t) \in disturbed'
  PROVE  FollowInv'
<1>1. /\ pc'[t] = p /\ loc'[t] = r
      /\ \A u \in Tests \ {t} : pc'[u] = pc[u] /\ loc'[u] = loc[u]
  BY DEF SharedInv, TypeOK
<1>2. Undisturbing
  BY <1>1 DEF Undisturbing
<1>3. QED
  BY <1>2, UndisturbingStep

\* The steps inside an operation that are not about ports or clients.
LEMMA WorkingFollows ==
  ASSUME SharedInv, FollowInv, NEW t \in Tests,
         \/ ClientRequest(t) \/ TransportLoadOrStore(t) \/ (\E i \in Servers : RestartNext(t, i))
         \/ RestartEnd(t) \/ Started(t) \/ ContainerFails(t) \/ Finish(t) \/ TestFails(t)
  PROVE  FollowInv'
<1> USE DEF deployVars, serverVars, clientVars, At, Goto
<1>0. /\ loc = [loc EXCEPT ![t] = loc[t]] /\ loc[t].todo \subseteq deployed /\ Idle.todo = {}
      /\ \A p \in {"using", "failed", "restart", "done", "starting"} :
           p \notin RepointPCs \cup {"append", "writing"}
  BY IdleTodo DEF FollowInv, OnDeployed, SharedInv, TypeOK, RepointPCs, BehindPCs
<1>1. CASE ClientRequest(t)
  <2>1. /\ UNCHANGED <<deployed, port, baseURL, clients, disturbed>> /\ pc[t] \notin RepointPCs
    BY <1>1 DEF ClientRequest, Fatal, RepointPCs, BehindPCs
  <2>2. \/ pc' = [pc EXCEPT ![t] = "using"] /\ loc' = [loc EXCEPT ![t] = Idle]
        \/ pc' = [pc EXCEPT ![t] = "failed"] /\ loc' = [loc EXCEPT ![t] = loc[t]]
    BY <1>0, <1>1 DEF ClientRequest, Fatal, Return
  <2>3. QED
    BY <1>0, <2>1, <2>2, UndisturbingMove
<1>2. CASE TransportLoadOrStore(t) \/ RestartEnd(t)
  <2>1. /\ UNCHANGED <<deployed, port, baseURL, clients, disturbed>> /\ pc[t] \notin RepointPCs
    BY <1>2 DEF TransportLoadOrStore, RestartEnd, RepointPCs, BehindPCs
  <2>2. pc' = [pc EXCEPT ![t] = "using"] /\ loc' = [loc EXCEPT ![t] = Idle]
    BY <1>2 DEF TransportLoadOrStore, RestartEnd, Return
  <2>3. QED
    BY <1>0, <2>1, <2>2, UndisturbingMove
<1>3. ASSUME NEW i \in Servers, RestartNext(t, i) PROVE FollowInv'
  <2>1. /\ UNCHANGED <<deployed, port, baseURL, clients>> /\ disturbed \subseteq disturbed'
        /\ pc[t] \notin RepointPCs
    BY <1>3 DEF RestartNext, ContainerStop, Disturb, RepointPCs, BehindPCs
  <2> DEFINE r == Doing("restart", i, 0, loc[t].todo \ {i})
  <2>2. pc' = [pc EXCEPT ![t] = "starting"] /\ loc' = [loc EXCEPT ![t] = r]
    BY <1>3 DEF RestartNext
  <2>3. r.hs = i /\ r.todo = loc[t].todo \ {i} /\ i \in deployed
    BY <1>0, <1>3 DEF RestartNext, Doing
  <2> HIDE DEF r
  <2>4. QED
    BY <1>0, <2>1, <2>2, <2>3, UndisturbingMove
<1>4. CASE Started(t)
  <2>1. /\ UNCHANGED <<deployed, port, baseURL, clients, disturbed>> /\ pc[t] \notin RepointPCs
    BY <1>4 DEF Started, RepointPCs, BehindPCs
  <2>2. \/ pc' = [pc EXCEPT ![t] = "using"] /\ loc' = [loc EXCEPT ![t] = Idle]
        \/ pc' = [pc EXCEPT ![t] = "restart"] /\ loc' = [loc EXCEPT ![t] = loc[t]]
    BY <1>0, <1>4 DEF Started, Return
  <2>3. QED
    BY <1>0, <2>1, <2>2, UndisturbingMove
<1>5. CASE ContainerFails(t)
  <2>1. /\ UNCHANGED <<deployed, port, baseURL, clients>> /\ disturbed \subseteq disturbed'
        /\ pc[t] \in RepointPCs => Hs(t) \in disturbed'
    BY <1>5 DEF ContainerFails, RepointPCs, BehindPCs
  <2>2. \/ pc' = [pc EXCEPT ![t] = "using"] /\ loc' = [loc EXCEPT ![t] = Idle]
        \/ pc' = [pc EXCEPT ![t] = "failed"] /\ loc' = [loc EXCEPT ![t] = loc[t]]
    BY <1>0, <1>5 DEF ContainerFails, Return
  <2>3. QED
    BY <1>0, <2>1, <2>2, UndisturbingMove
<1>6. CASE Finish(t) \/ TestFails(t)
  <2>1. /\ UNCHANGED <<deployed, port, baseURL, clients, disturbed>> /\ pc[t] \notin RepointPCs
    BY <1>6 DEF Finish, TestFails, Fatal, RepointPCs, BehindPCs
  <2>2. /\ \E p \in {"done", "failed"} : pc' = [pc EXCEPT ![t] = p]
        /\ loc' = [loc EXCEPT ![t] = loc[t]]
    BY <1>0, <1>6 DEF Finish, TestFails, Fatal
  <2>3. QED
    BY <1>0, <2>1, <2>2, UndisturbingMove
<1>7. QED
  BY <1>1, <1>2, <1>3, <1>4, <1>5, <1>6

\* The first steps of the operations that make no client.
LEMMA OperationFollows ==
  ASSUME SharedInv, FollowInv, NEW t \in Tests,
         Operation(t), ~\E i \in Servers, op \in ClientOps : ClientBegin(t, i, op)
  PROVE  FollowInv'
<1> USE DEF deployVars, serverVars, clientVars, At, Goto
<1>0. /\ loc = [loc EXCEPT ![t] = loc[t]] /\ pc = [pc EXCEPT ![t] = pc[t]]
      /\ loc[t].todo \subseteq deployed
      /\ \A p \in {"using", "failed", "restart", "transport", "starting"} :
           p \notin RepointPCs \cup {"append", "writing"}
  BY DEF FollowInv, OnDeployed, SharedInv, TypeOK, RepointPCs, BehindPCs
<1>1. ASSUME NEW i \in deployed, NEW op, NEW p \in {"using", "failed", "transport", "starting"},
             Begin(t, i, op), pc' = [pc EXCEPT ![t] = p],
             UNCHANGED <<deployed, port, baseURL, clients>>, disturbed \subseteq disturbed'
      PROVE  FollowInv'
  <2> DEFINE r == Doing(op, i, baseURL[i], {})
  <2>1. loc' = [loc EXCEPT ![t] = r] /\ pc[t] \notin RepointPCs
    BY <1>1 DEF Begin, RepointPCs, BehindPCs
  <2>2. r.hs = i /\ r.todo = {}
    BY DEF Doing
  <2> HIDE DEF r
  <2>3. QED
    BY <1>0, <1>1, <2>1, <2>2, UndisturbingMove
<1>2. ASSUME NEW i \in Servers, TransportLoad(t, i) PROVE FollowInv'
  BY <1>0, <1>1, <1>2 DEF TransportLoad, Begin
<1>3. ASSUME NEW i \in Servers, StopServer(t, i) PROVE FollowInv'
  BY <1>0, <1>1, <1>3 DEF StopServer, ContainerStop, Disturb, Begin
<1>4. ASSUME NEW i \in Servers, StopServerFails(t, i) \/ StartServer(t, i) PROVE FollowInv'
  BY <1>1, <1>4 DEF StopServerFails, StartServer
<1>5. ASSUME NEW i \in Servers, NEW from, NEW to, PauseServer(t, i, from, to) PROVE FollowInv'
  BY <1>0, <1>1, <1>5 DEF PauseServer, Begin
<1>6. CASE Restart(t)
  <2> DEFINE r == Doing("restart", 1, 0, deployed)
  <2>1. /\ loc' = [loc EXCEPT ![t] = r] /\ pc' = [pc EXCEPT ![t] = "restart"]
        /\ UNCHANGED <<deployed, port, baseURL, clients, disturbed>> /\ pc[t] \notin RepointPCs
    BY <1>6 DEF Restart, RepointPCs, BehindPCs
  <2>2. r.todo = deployed
    BY DEF Doing
  <2> HIDE DEF r
  <2>3. QED
    BY <1>0, <2>1, <2>2, UndisturbingMove
<1>7. CASE UnknownServer(t)
  <2>1. /\ UNCHANGED <<deployed, port, baseURL, clients, disturbed>> /\ pc[t] \notin RepointPCs
        /\ pc' = [pc EXCEPT ![t] = "failed"] /\ loc' = [loc EXCEPT ![t] = loc[t]]
    BY <1>0, <1>7 DEF UnknownServer, Fatal, RepointPCs, BehindPCs
  <2>2. QED
    BY <1>0, <2>1, UndisturbingMove
<1>8. CASE MapRace(t)
  <2>1. Undisturbing
    BY <1>8 DEF MapRace, Undisturbing
  <2>2. QED
    BY <2>1, UndisturbingStep
<1>9. QED
  BY <1>2, <1>3, <1>4, <1>5, <1>6, <1>7, <1>8 DEF Operation

\* A client is made with the URL of the server, which is behind only where a
\* test will repoint it.
LEMMA ClientBeginFollows ==
  ASSUME SharedInv, FollowInv, NEW t \in Tests, NEW i \in Servers, NEW op \in ClientOps,
         ClientBegin(t, i, op)
  PROVE  FollowInv'
<1> DEFINE r == Doing(op, i, baseURL[i], {})
<1>1. /\ i \in deployed /\ pc[t] = "using" /\ UNCHANGED <<deployed, port, baseURL, clients, disturbed>>
      /\ pc' = [pc EXCEPT ![t] = "append"] /\ loc' = [loc EXCEPT ![t] = r]
  BY DEF ClientBegin, Begin, At, Goto, deployVars, serverVars, clientVars
<1>2. r.hs = i /\ r.url = baseURL[i] /\ r.todo = {} /\ r.late = FALSE
  BY DEF Doing
<1> HIDE DEF r
<1>3. /\ pc'[t] = "append" /\ loc'[t] = r
      /\ \A u \in Tests \ {t} : pc'[u] = pc[u] /\ loc'[u] = loc[u]
  BY <1>1 DEF SharedInv, TypeOK
<1>4. OnDeployed'
  BY <1>1, <1>2, <1>3 DEF FollowInv, OnDeployed, Hs, StartPCs
<1>5. ASSUME NEW k \in deployed' \ disturbed' PROVE PortFollowed(k)'
  <2>1. k \in deployed \ disturbed /\ PortFollowed(k)
    BY <1>1, <1>5 DEF FollowInv
  <2>2. \A u \in Tests : On(u, k, RepointPCs)' <=> On(u, k, RepointPCs)
    BY <1>1, <1>3 DEF On, Hs, RepointPCs, BehindPCs
  <2>3. \A u \in Tests : On(u, k, RepointPCs)' => pc'[u] = pc[u] /\ loc'[u] = loc[u]
    BY <1>1, <1>3 DEF On, Hs, RepointPCs, BehindPCs
  <2>4. CASE k # i
    <3>1. \A u \in Tests : On(u, k, {"append"})' => On(u, k, {"append"}) /\ loc'[u] = loc[u]
      BY <1>2, <1>3, <2>4 DEF On, Hs
    <3>2. QED
      BY <1>1, <2>1, <2>2, <2>3, <3>1, SameServer
  <2>5. CASE k = i
    <3>1. \A u \in Tests : On(u, i, BehindPCs) => On(u, i, BehindPCs)'
      BY <1>1, <1>3 DEF On, Hs, BehindPCs
    <3>2. \A u \in Tests \ {t} : On(u, i, {"append"})' => On(u, i, {"append"}) /\ loc'[u] = loc[u]
      BY <1>3 DEF On, Hs
    <3>3. (\A u \in Tests : ~On(u, i, BehindPCs)') =>
            /\ baseURL'[i] = port'[i]
            /\ \A u \in Tests : (On(u, i, {"append"})' /\ ~loc'[u].late) => loc'[u].url = port'[i]
      BY <1>1, <1>2, <1>3, <2>1, <2>5, <3>1, <3>2 DEF PortFollowed
    <3>4. \A u \in Tests : On(u, i, {"endpoints", "repoint"})' => loc'[u].url = port'[i]
      <4>1. \A u \in Tests : On(u, i, {"endpoints", "repoint"})' =>
              On(u, i, {"endpoints", "repoint"}) /\ loc'[u] = loc[u]
        BY <1>3 DEF On, Hs
      <4>2. QED
        BY <1>1, <2>1, <2>5, <4>1 DEF PortFollowed
    <3>5. QED
      BY <1>1, <2>1, <2>2, <2>5, <3>3, <3>4 DEF PortFollowed
  <2>6. QED
    BY <2>4, <2>5
<1>6. QED
  BY <1>4, <1>5 DEF FollowInv

\* The client that is appended has the URL it was made with.
LEMMA ClientAppendFollows ==
  ASSUME SharedInv, FollowInv, NEW t \in Tests, ClientAppend(t)
  PROVE  FollowInv'
<1> DEFINE new == [hs |-> Hs(t), url |-> loc[t].url, late |-> loc[t].late]
<1> DEFINE n == Len(clients)
<1>1. /\ pc[t] = "append" /\ UNCHANGED <<deployed, port, baseURL, disturbed>>
      /\ clients' = Append(clients, new)
  BY DEF ClientAppend, At, deployVars, serverVars
<1>2. new \in Clients /\ clients \in Seq(Clients)
  BY LocalsFields DEF SharedInv, TypeOK, Clients, Hs
<1>3. new.hs = Hs(t) /\ new.url = loc[t].url /\ new.late = loc[t].late
  OBVIOUS
<1> HIDE DEF new
<1>4. /\ n \in Nat /\ DOMAIN clients = 1 .. n /\ DOMAIN clients' = 1 .. n + 1
      /\ \A c \in 1 .. n : clients'[c] = clients[c]
      /\ clients'[n + 1] = new
  BY <1>1, <1>2
<1> HIDE DEF n
<1>5. \A c \in DOMAIN clients' :
        (c \in DOMAIN clients /\ clients'[c] = clients[c]) \/ clients'[c] = new
  BY <1>4
<1>6. /\ pc'[t] \in {"request", "using"} /\ loc'[t].todo \subseteq deployed
      /\ \A u \in Tests \ {t} : pc'[u] = pc[u] /\ loc'[u] = loc[u]
  <2>1. CASE loc[t].op = "user"
    <3>1. loc' = [loc EXCEPT ![t] = [loc[t] EXCEPT !.url = Len(clients')]]
      BY <2>1 DEF ClientAppend
    <3>2. [loc[t] EXCEPT !.url = Len(clients')].todo = loc[t].todo
      BY DEF SharedInv, TypeOK, Locals
    <3>3. QED
      BY <2>1, <3>1, <3>2 DEF ClientAppend, Goto, SharedInv, TypeOK, FollowInv, OnDeployed
  <2>2. CASE loc[t].op # "user"
    BY <2>2, IdleTodo DEF ClientAppend, Return, Goto, SharedInv, TypeOK
  <2>3. QED
    BY <2>1, <2>2
<1>7. OnDeployed'
  <2>1. Hs(t) \in deployed
    BY <1>1 DEF FollowInv, OnDeployed
  <2>2. \A c \in DOMAIN clients' : clients'[c].hs \in deployed
    BY <1>3, <1>5, <2>1 DEF FollowInv, OnDeployed
  <2>3. QED
    BY <1>1, <1>6, <2>2 DEF FollowInv, OnDeployed, Hs, StartPCs
<1>8. ASSUME NEW k \in deployed' \ disturbed' PROVE PortFollowed(k)'
  <2>1. k \in deployed \ disturbed /\ PortFollowed(k)
    BY <1>1, <1>8 DEF FollowInv
  <2>2. \A u \in Tests : On(u, k, RepointPCs)' <=> On(u, k, RepointPCs)
    BY <1>1, <1>6 DEF On, Hs, RepointPCs, BehindPCs
  <2>3. \A u \in Tests : On(u, k, RepointPCs)' => pc'[u] = pc[u] /\ loc'[u] = loc[u]
    BY <1>1, <1>6 DEF On, Hs, RepointPCs, BehindPCs
  <2>4. \A u \in Tests : On(u, k, {"append"})' => On(u, k, {"append"}) /\ loc'[u] = loc[u]
    BY <1>6 DEF On, Hs
  <2>5. CASE k # Hs(t)
    <3>1. \A c \in DOMAIN clients' : clients'[c].hs = k => c \in DOMAIN clients /\ clients'[c] = clients[c]
      BY <1>3, <1>5, <2>5
    <3>2. QED
      BY <1>1, <2>1, <2>2, <2>3, <2>4, <3>1, SameServer
  <2>6. CASE k = Hs(t)
    <3>1. \A u \in Tests : On(u, k, BehindPCs)' <=> On(u, k, BehindPCs)
      BY <1>1, <1>6 DEF On, Hs, BehindPCs
    <3>2. \A u \in Tests : On(u, k, BehindPCs) => On(u, k, RepointPCs)
      BY DEF On, RepointPCs
    <3>3. On(t, k, {"append"})
      BY <1>1, <2>6 DEF On
    <3>4. (\A u \in Tests : ~On(u, k, RepointPCs)) => (~new.late => new.url = port[k])
      BY <1>3, <2>1, <3>2, <3>3 DEF PortFollowed
    <3>5. (\A u \in Tests : ~On(u, k, RepointPCs)') =>
            \A c \in DOMAIN clients' :
              (clients'[c].hs = k /\ ~clients'[c].late) => clients'[c].url = port'[k]
      BY <1>1, <1>5, <2>1, <2>2, <3>4 DEF PortFollowed
    <3>6. \A u \in Tests : On(u, k, {"endpoints", "repoint"})' =>
            On(u, k, {"endpoints", "repoint"}) /\ loc'[u] = loc[u]
      BY <1>6 DEF On, Hs
    <3>7. QED
      BY <1>1, <2>1, <2>2, <2>4, <3>1, <3>5, <3>6 DEF PortFollowed
  <2>7. QED
    BY <2>5, <2>6
<1>9. QED
  BY <1>7, <1>8 DEF FollowInv

\* The server that dirtyDeploy is about to store is not deployed yet.
LEMMA WritingNew ==
  ASSUME SharedInv, NEW u \in Tests, pc[u] = "writing"
  PROVE  Hs(u) \notin deployed /\ Hs(u) \in Servers
<1>1. loc[u].hs \in Servers
  BY LocalsFields DEF SharedInv, TypeOK
<1>2. deployed = 1 .. loc[u].hs - 1
  BY DEF SharedInv, ScaledInOrder
<1>3. QED
  BY <1>1, <1>2, SharedAssumption DEF Servers, Hs

\* A server that a step of a start is not about.
LEMMA OtherServer ==
  ASSUME NEW t \in Tests, NEW k, PortFollowed(k), Hs(t) # k, Hs(t)' # k,
         port'[k] = port[k], baseURL'[k] = baseURL[k],
         \A u \in Tests \ {t} : pc'[u] = pc[u] /\ (Hs(u) = k \/ Hs(u)' = k => loc'[u] = loc[u]),
         \A c \in DOMAIN clients' :
           clients'[c].hs = k => c \in DOMAIN clients /\ clients'[c] = clients[c]
  PROVE  PortFollowed(k)'
<1>1. \A u \in Tests : On(u, k, RepointPCs)' <=> On(u, k, RepointPCs)
  BY DEF On, Hs
<1>2. \A u \in Tests : On(u, k, RepointPCs)' => pc'[u] = pc[u] /\ loc'[u] = loc[u]
  BY DEF On
<1>3. \A u \in Tests : On(u, k, {"append"})' => On(u, k, {"append"}) /\ loc'[u] = loc[u]
  BY DEF On, Hs
<1>4. QED
  BY <1>1, <1>2, <1>3, SameServer

\* A test that starts a container alone is the one that carries its port.
LEMMA ContainerStartFollows ==
  ASSUME SharedInv, FollowInv, NEW t \in Tests, ContainerStart(t)
  PROVE  FollowInv'
<1> DEFINE j == Hs(t)
<1>1. pc[t] = "starting" /\ UNCHANGED <<deployed, baseURL, clients, loc>>
      /\ pc' = [pc EXCEPT ![t] = "started"]
      /\ disturbed' = IF Contended(t, j) THEN disturbed \cup {j} ELSE disturbed \ {j}
  BY DEF ContainerStart, At, Goto, deployVars, clientVars
<1>2. \A k \in Servers \ {j} : port'[k] = port[k]
  BY DEF ContainerStart, SharedInv, TypeOK
<1>3. pc'[t] = "started" /\ \A u \in Tests \ {t} : pc'[u] = pc[u]
  BY <1>1 DEF SharedInv, TypeOK
<1>4. OnDeployed'
  <2>1. \A u \in Tests : pc'[u] = "writing" => pc[u] = "writing" /\ Hs(u) # j /\ Hs(u) \in Servers
    <3>1. j \in deployed
      BY <1>1 DEF FollowInv, OnDeployed, StartPCs
    <3>2. \A u \in Tests : pc[u] = "writing" => Hs(u) \notin deployed
      BY WritingNew
    <3>3. \A u \in Tests : Hs(u) \in Servers
      BY LocalsFields DEF SharedInv, TypeOK, Hs
    <3>4. QED
      BY <1>3, <3>1, <3>2, <3>3
  <2>2. \A u \in Tests : pc'[u] = "writing" => baseURL'[Hs(u)'] = port'[Hs(u)']
    BY <1>1, <1>2, <2>1 DEF FollowInv, OnDeployed, Hs
  <2>3. QED
    BY <1>1, <1>3, <2>2 DEF FollowInv, OnDeployed, Hs, StartPCs
<1>5. ASSUME NEW k \in deployed' \ disturbed' PROVE PortFollowed(k)'
  <2>1. CASE k # j
    <3>1. k \in deployed \ disturbed /\ k \in Servers /\ PortFollowed(k)
      BY <1>1, <1>5, <2>1 DEF FollowInv, SharedInv, TypeOK
    <3>2. Hs(t)' = j
      BY <1>1 DEF Hs
    <3>3. QED
      BY <1>1, <1>2, <1>3, <2>1, <3>1, <3>2, OtherServer
  <2>2. CASE k = j
    <3>1. ~Contended(t, j)
      BY <1>1, <1>5, <2>2
    <3>2. \A u \in Tests \ {t} : ~On(u, k, RepointPCs)'
      BY <1>1, <1>3, <2>2, <3>1 DEF Contended, On, Hs, StartPCs, RepointPCs, BehindPCs
    <3>3. On(t, k, BehindPCs)' /\ On(t, k, RepointPCs)' /\ ~On(t, k, {"endpoints", "repoint"})'
      BY <1>1, <1>3, <2>2 DEF On, Hs, RepointPCs, BehindPCs
    <3>4. \A u \in Tests : ~On(u, k, {"endpoints", "repoint"})'
      BY <3>2, <3>3 DEF On, RepointPCs, BehindPCs
    <3>5. QED
      BY <3>2, <3>3, <3>4 DEF PortFollowed
  <2>3. QED
    BY <2>1, <2>2
<1>6. QED
  BY <1>4, <1>5 DEF FollowInv

\* It reads the port,
LEMMA InspectPortsFollows ==
  ASSUME SharedInv, FollowInv, NEW t \in Tests, InspectPorts(t)
  PROVE  FollowInv'
<1> DEFINE j == Hs(t)
<1>1. pc[t] = "started" /\ UNCHANGED <<deployed, port, baseURL, clients, disturbed>>
      /\ pc' = [pc EXCEPT ![t] = "endpoints"]
      /\ loc' = [loc EXCEPT ![t] = [loc[t] EXCEPT !.url = port[j]]]
  BY DEF InspectPorts, At, Goto, deployVars, serverVars, clientVars
<1>2. /\ loc'[t].hs = j /\ loc'[t].url = port[j] /\ loc'[t].todo = loc[t].todo
      /\ \A u \in Tests \ {t} : pc'[u] = pc[u] /\ loc'[u] = loc[u]
      /\ pc'[t] = "endpoints"
  BY <1>1 DEF SharedInv, TypeOK, Locals, Hs
<1>3. OnDeployed'
  BY <1>1, <1>2 DEF FollowInv, OnDeployed, Hs, StartPCs
<1>4. ASSUME NEW k \in deployed' \ disturbed' PROVE PortFollowed(k)'
  <2>1. k \in deployed \ disturbed /\ PortFollowed(k)
    BY <1>1, <1>4 DEF FollowInv
  <2>2. CASE k # j
    BY <1>1, <1>2, <2>1, <2>2, OtherServer DEF Hs
  <2>3. CASE k = j
    <3>1. On(t, k, RepointPCs)
      BY <1>1, <2>3 DEF On, RepointPCs, BehindPCs
    <3>2. \A u \in Tests \ {t} : ~On(u, k, RepointPCs)'
      <4>1. \A u \in Tests \ {t} : ~On(u, k, RepointPCs)
        BY <2>1, <3>1 DEF PortFollowed
      <4>2. QED
        BY <1>2, <4>1 DEF On, Hs
    <3>3. On(t, k, BehindPCs)' /\ On(t, k, RepointPCs)'
      BY <1>2, <2>3 DEF On, Hs, RepointPCs, BehindPCs
    <3>4. \A u \in Tests : On(u, k, {"endpoints", "repoint"})' => loc'[u].url = port'[k]
      BY <1>1, <1>2, <2>3, <3>2 DEF On, RepointPCs, BehindPCs
    <3>5. QED
      BY <3>2, <3>3, <3>4 DEF PortFollowed
  <2>4. QED
    BY <2>2, <2>3
<1>5. QED
  BY <1>3, <1>4 DEF FollowInv

\* gives it to the server, and marks the clients that are made with the old one,
LEMMA SetBaseURLFollows ==
  ASSUME SharedInv, FollowInv, NEW t \in Tests, SetBaseURL(t)
  PROVE  FollowInv'
<1> DEFINE j == Hs(t)
<1>1. pc[t] = "endpoints" /\ UNCHANGED <<deployed, port, clients>>
      /\ pc' = [pc EXCEPT ![t] = "repoint"] /\ baseURL' = [baseURL EXCEPT ![j] = loc[t].url]
      /\ disturbed \subseteq disturbed'
      /\ loc' = [u \in Tests |-> IF pc[u] = "append" /\ Hs(u) = j
                                   THEN [loc[u] EXCEPT !.late = TRUE] ELSE loc[u]]
  BY DEF SetBaseURL, Disturb, At, Goto, deployVars, clientVars
<1>2. j \in deployed /\ \A u \in Tests : Hs(u) \in Servers
  BY <1>1, LocalsFields DEF FollowInv, OnDeployed, StartPCs, SharedInv, TypeOK, Hs
<1>3. \A u \in Tests :
        /\ loc'[u].hs = loc[u].hs /\ loc'[u].url = loc[u].url /\ loc'[u].todo = loc[u].todo
        /\ Hs(u)' = Hs(u)
        /\ pc[u] # "append" \/ Hs(u) # j => loc'[u] = loc[u]
        /\ pc[u] = "append" /\ Hs(u) = j => loc'[u].late = TRUE
  BY <1>1 DEF SharedInv, TypeOK, Locals, Hs
<1>4. pc'[t] = "repoint" /\ \A u \in Tests \ {t} : pc'[u] = pc[u]
  BY <1>1 DEF SharedInv, TypeOK
<1>5. baseURL'[j] = loc[t].url /\ \A k \in Servers \ {j} : baseURL'[k] = baseURL[k]
  BY <1>1, <1>2 DEF SharedInv, TypeOK
<1>6. OnDeployed'
  <2>1. \A u \in Tests : pc[u] = "writing" => Hs(u) \notin deployed
    BY WritingNew
  <2>2. \A u \in Tests : pc'[u] = "writing" => baseURL'[Hs(u)'] = port'[Hs(u)']
    BY <1>1, <1>2, <1>3, <1>4, <1>5, <2>1 DEF FollowInv, OnDeployed, Hs
  <2>3. QED
    BY <1>1, <1>3, <1>4, <2>2 DEF FollowInv, OnDeployed, StartPCs, Hs
<1>7. ASSUME NEW k \in deployed' \ disturbed' PROVE PortFollowed(k)'
  <2>1. k \in deployed \ disturbed /\ k \in Servers /\ PortFollowed(k)
    BY <1>1, <1>7 DEF FollowInv, SharedInv, TypeOK
  <2>2. CASE k # j
    BY <1>1, <1>3, <1>4, <1>5, <2>1, <2>2, OtherServer DEF Hs
  <2>3. CASE k = j
    <3>1. On(t, k, RepointPCs) /\ On(t, k, {"endpoints", "repoint"})
      BY <1>1, <2>3 DEF On, RepointPCs, BehindPCs
    <3>2. baseURL'[k] = port'[k] /\ loc'[t].url = port'[k]
      BY <1>1, <1>3, <1>5, <2>1, <2>3, <3>1 DEF PortFollowed
    <3>3. \A u \in Tests \ {t} : ~On(u, k, RepointPCs)'
      <4>1. \A u \in Tests \ {t} : ~On(u, k, RepointPCs)
        BY <2>1, <3>1 DEF PortFollowed
      <4>2. QED
        BY <1>3, <1>4, <4>1 DEF On
    <3>4. On(t, k, RepointPCs)'
      BY <1>3, <1>4, <2>3 DEF On, RepointPCs
    <3>5. \A u \in Tests : On(u, k, {"endpoints", "repoint"})' => u = t
      BY <3>3 DEF On, RepointPCs, BehindPCs
    <3>6. \A u \in Tests : On(u, k, {"append"})' => loc'[u].late = TRUE
      BY <1>3, <1>4, <2>3 DEF On
    <3>7. QED
      BY <3>2, <3>3, <3>4, <3>5, <3>6 DEF PortFollowed
  <2>4. QED
    BY <2>2, <2>3
<1>8. QED
  BY <1>6, <1>7 DEF FollowInv

\* and gives it to the clients.
LEMMA RepointFollows ==
  ASSUME SharedInv, FollowInv, NEW t \in Tests, Repoint(t)
  PROVE  FollowInv'
<1> DEFINE j == Hs(t)
<1>1. pc[t] = "repoint" /\ UNCHANGED <<deployed, port, baseURL, disturbed, loc>>
      /\ pc' = [pc EXCEPT ![t] = "waiting"]
      /\ clients' = [c \in DOMAIN clients |->
           IF clients[c].hs = j THEN Repointed(clients[c], loc[t].url) ELSE clients[c]]
  BY DEF Repoint, At, Goto, deployVars, serverVars
<1>2. pc'[t] = "waiting" /\ \A u \in Tests \ {t} : pc'[u] = pc[u]
  BY <1>1 DEF SharedInv, TypeOK
<1>3. /\ DOMAIN clients' = DOMAIN clients
      /\ \A c \in DOMAIN clients :
           /\ clients'[c].hs = clients[c].hs
           /\ clients[c].hs # j => clients'[c] = clients[c]
           /\ clients[c].hs = j => clients'[c].url = loc[t].url
  BY <1>1 DEF Repointed
<1>4. OnDeployed'
  BY <1>1, <1>2, <1>3 DEF FollowInv, OnDeployed, Hs, StartPCs
<1>5. ASSUME NEW k \in deployed' \ disturbed' PROVE PortFollowed(k)'
  <2>1. k \in deployed \ disturbed /\ PortFollowed(k)
    BY <1>1, <1>5 DEF FollowInv
  <2>2. CASE k # j
    BY <1>1, <1>2, <1>3, <2>1, <2>2, OtherServer DEF Hs
  <2>3. CASE k = j
    <3>1. On(t, k, RepointPCs) /\ On(t, k, {"endpoints", "repoint"}) /\ ~On(t, k, BehindPCs)
      BY <1>1, <2>3 DEF On, RepointPCs, BehindPCs
    <3>2. loc[t].url = port[k]
      BY <2>1, <3>1 DEF PortFollowed
    <3>3. \A u \in Tests \ {t} : ~On(u, k, RepointPCs)
      BY <2>1, <3>1 DEF PortFollowed
    <3>4. \A u \in Tests : ~On(u, k, BehindPCs)
      BY <3>1, <3>3 DEF On, RepointPCs
    <3>5. \A u \in Tests : ~On(u, k, RepointPCs)'
      BY <1>1, <1>2, <3>3 DEF On, Hs, RepointPCs, BehindPCs
    <3>6. \A u \in Tests : ~On(u, k, {"endpoints", "repoint"})'
      BY <3>5 DEF On, RepointPCs, BehindPCs
    <3>7. \A u \in Tests : On(u, k, {"append"})' => On(u, k, {"append"})
      BY <1>1, <1>2 DEF On, Hs
    <3>8. \A c \in DOMAIN clients' : clients'[c].hs = k => clients'[c].url = port'[k]
      BY <1>1, <1>3, <2>3, <3>2
    <3>9. QED
      BY <1>1, <2>1, <3>4, <3>5, <3>6, <3>7, <3>8 DEF PortFollowed
  <2>4. QED
    BY <2>2, <2>3
<1>6. QED
  BY <1>4, <1>5 DEF FollowInv

\* A server that nobody works on and that has no client has nothing to follow
\* but its own port.
LEMMA FreshServer ==
  ASSUME NEW i, baseURL'[i] = port'[i],
         \A u \in Tests : ~On(u, i, RepointPCs \cup {"append"})',
         \A c \in DOMAIN clients' : clients'[c].hs # i
  PROVE  PortFollowed(i)'
<1>1. \A u \in Tests : ~On(u, i, RepointPCs)' /\ ~On(u, i, {"append"})'
  BY DEF On
<1>2. \A u \in Tests : ~On(u, i, {"endpoints", "repoint"})'
  BY <1>1 DEF On, RepointPCs, BehindPCs
<1>3. QED
  BY <1>1, <1>2 DEF PortFollowed

\* The first server.
LEMMA CreateFollows ==
  ASSUME SharedInv, FollowInv, NEW t \in Tests, CreateDirtyDeployment(t)
  PROVE  FollowInv'
<1>1. deployed = {} /\ deployed' = {1} /\ UNCHANGED <<clients, pc, loc>>
  BY DEF CreateDirtyDeployment, clientVars
<1>2. baseURL'[1] = port'[1]
  BY SharedAssumption DEF CreateDirtyDeployment, ContainerCreated, SharedInv, TypeOK, Servers
<1>3. /\ \A u \in Tests : pc[u] \notin StartPCs \cup {"append", "writing"} /\ loc[u].todo = {}
      /\ DOMAIN clients = {}
  BY <1>1 DEF FollowInv, OnDeployed, SharedInv, ScaledInOrder
<1>4. OnDeployed'
  BY <1>1, <1>3 DEF OnDeployed
<1>5. PortFollowed(1)'
  BY <1>1, <1>2, <1>3, FreshServer DEF On, RepointPCs, BehindPCs, StartPCs
<1>6. QED
  BY <1>1, <1>4, <1>5 DEF FollowInv

\* A server that is not in the map yet.
LEMMA ScaleUpFollows ==
  ASSUME SharedInv, FollowInv, NEW t \in Tests, ScaleUp(t)
  PROVE  FollowInv'
<1> DEFINE i == FirstMissing(t)
<1>1. i \in Servers /\ i \notin deployed
  <2>1. deployed # {}
    BY DEF ScaleUp, At, SharedInv, ScaledInOrder
  <2>2. i \in Servers /\ deployed = 1 .. i - 1
    BY <2>1, NextServer DEF ScaleUp
  <2> HIDE DEF i
  <2>3. QED
    BY <2>2, SharedAssumption DEF Servers
<1>2. /\ pc[t] = "scaling" /\ UNCHANGED <<deployed, clients, disturbed>>
      /\ pc' = [pc EXCEPT ![t] = "writing"] /\ loc' = [loc EXCEPT ![t] = [loc[t] EXCEPT !.hs = i]]
      /\ port' = [port EXCEPT ![i] = lastPort'] /\ baseURL' = [baseURL EXCEPT ![i] = lastPort']
  BY DEF ScaleUp, ContainerCreated, At, Goto, deployVars, clientVars
<1> HIDE DEF i
<1>3. /\ pc'[t] = "writing" /\ loc'[t].hs = i /\ loc'[t].todo = loc[t].todo
      /\ \A u \in Tests \ {t} : pc'[u] = pc[u] /\ loc'[u] = loc[u]
  BY <1>2 DEF SharedInv, TypeOK, Locals
<1>4. /\ port'[i] = baseURL'[i]
      /\ \A k \in Servers \ {i} : port'[k] = port[k] /\ baseURL'[k] = baseURL[k]
  BY <1>1, <1>2 DEF SharedInv, TypeOK
<1>5. \A u \in Tests \ {t} : pc[u] # "writing"
  BY <1>2 DEF SharedInv, ScaledInOrder, DeployPCs
<1>6. OnDeployed'
  BY <1>2, <1>3, <1>4, <1>5 DEF FollowInv, OnDeployed, Hs, StartPCs
<1>7. ASSUME NEW k \in deployed' \ disturbed' PROVE PortFollowed(k)'
  <2>1. k \in deployed \ disturbed /\ k \in Servers /\ k # i /\ PortFollowed(k)
    BY <1>1, <1>2, <1>7 DEF FollowInv, SharedInv, TypeOK
  <2>2. \A u \in Tests : On(u, k, RepointPCs)' <=> On(u, k, RepointPCs)
    BY <1>2, <1>3 DEF On, Hs, RepointPCs, BehindPCs
  <2>3. \A u \in Tests : On(u, k, RepointPCs)' => pc'[u] = pc[u] /\ loc'[u] = loc[u]
    BY <1>3 DEF On, Hs, RepointPCs, BehindPCs
  <2>4. \A u \in Tests : On(u, k, {"append"})' => On(u, k, {"append"}) /\ loc'[u] = loc[u]
    BY <1>3 DEF On, Hs
  <2>5. QED
    BY <1>2, <1>4, <2>1, <2>2, <2>3, <2>4, SameServer
<1>8. QED
  BY <1>6, <1>7 DEF FollowInv

\* It is stored: nobody can have worked on it before.
LEMMA StoreFollows ==
  ASSUME SharedInv, FollowInv, NEW t \in Tests, StoreServer(t)
  PROVE  FollowInv'
<1> DEFINE i == loc[t].hs
<1>1. /\ pc[t] = "writing" /\ UNCHANGED <<port, baseURL, clients, disturbed>>
      /\ pc' = [pc EXCEPT ![t] = "scaling"] /\ deployed' = deployed \cup {i}
  BY DEF StoreServer, At, Goto, serverVars, clientVars
<1>2. i \notin deployed /\ baseURL[i] = port[i]
  BY <1>1, WritingNew DEF Hs, FollowInv, OnDeployed
<1>3. PICK seen \in SUBSET {u \in Tests : loc[u].op = "restart"} :
        loc' = [u \in Tests |-> IF u = t THEN Idle
                                ELSE IF u \in seen THEN [loc[u] EXCEPT !.todo = @ \cup {loc[t].hs}]
                                ELSE loc[u]]
  BY DEF StoreServer
<1>4. \A u \in Tests \ {t} :
        /\ loc'[u].hs = loc[u].hs /\ loc'[u].url = loc[u].url /\ loc'[u].late = loc[u].late
        /\ loc'[u].todo \subseteq loc[u].todo \cup {i}
  BY <1>3 DEF SharedInv, TypeOK, Locals
<1>5. loc'[t].todo = {} /\ pc'[t] = "scaling" /\ \A u \in Tests \ {t} : pc'[u] = pc[u]
  BY <1>1, <1>3, IdleTodo DEF SharedInv, TypeOK
<1> HIDE DEF i
<1>6. \A u \in Tests \ {t} : pc[u] # "writing"
  BY <1>1 DEF SharedInv, ScaledInOrder, DeployPCs
<1>7. OnDeployed'
  BY <1>1, <1>4, <1>5, <1>6 DEF FollowInv, OnDeployed, Hs, StartPCs
<1>8. ASSUME NEW k \in deployed' \ disturbed' PROVE PortFollowed(k)'
  <2>1. CASE k = i
    <3>1. \A u \in Tests : ~On(u, k, RepointPCs \cup {"append"})'
      BY <1>2, <1>4, <1>5, <2>1 DEF FollowInv, OnDeployed, On, Hs, RepointPCs, BehindPCs, StartPCs
    <3>2. \A c \in DOMAIN clients' : clients'[c].hs # k
      BY <1>1, <1>2, <2>1 DEF FollowInv, OnDeployed
    <3>3. QED
      BY <1>1, <1>2, <2>1, <3>1, <3>2, FreshServer
  <2>2. CASE k # i
    <3>1. PortFollowed(k)
      BY <1>1, <1>8, <2>2 DEF FollowInv
    <3>2. \A u \in Tests : On(u, k, RepointPCs)' <=> On(u, k, RepointPCs)
      BY <1>1, <1>4, <1>5 DEF On, Hs, RepointPCs, BehindPCs
    <3>3. \A u \in Tests : On(u, k, RepointPCs)' => pc'[u] = pc[u] /\ loc'[u].url = loc[u].url
      BY <1>4, <1>5 DEF On, Hs, RepointPCs, BehindPCs
    <3>4. \A u \in Tests : On(u, k, {"append"})' =>
            On(u, k, {"append"}) /\ loc'[u].url = loc[u].url /\ loc'[u].late = loc[u].late
      BY <1>4, <1>5 DEF On, Hs
    <3>5. QED
      BY <1>1, <3>1, <3>2, <3>3, <3>4, SameServer
  <2>3. QED
    BY <2>1, <2>2
<1>9. QED
  BY <1>7, <1>8 DEF FollowInv

\* The invariant behind repointing: a new port is on its way to the server's
\* URL and to its clients, or has arrived, or somebody got in the way.
THEOREM FollowInvariant == Spec => []FollowInv
<1>1. Init => FollowInv
  <2> SUFFICES ASSUME Init PROVE FollowInv
    OBVIOUS
  <2>1. deployed = {} /\ DOMAIN clients = {} /\ \A t \in Tests : pc[t] = "start" /\ loc[t].todo = {}
    BY IdleTodo DEF Init
  <2>2. QED
    BY <2>1 DEF FollowInv, OnDeployed, StartPCs
<1>2. SharedInv /\ FollowInv /\ [Next]_vars => FollowInv'
  <2> SUFFICES ASSUME SharedInv, FollowInv, [Next]_vars PROVE FollowInv'
    OBVIOUS
  <2>1. CASE UNCHANGED vars \/ Main \/ \E t \in Tests : CallHangs(t) \/ InspectPanics(t)
    <3>1. Undisturbing
      BY <2>1 DEF vars, Main, ExitCode, Cleanup, CleanupHangs, CallHangs, InspectPanics, Undisturbing,
         deployVars, serverVars, clientVars
    <3>2. QED
      BY <3>1, UndisturbingStep
  <2>2. ASSUME NEW t \in Tests, Deploying(t) PROVE FollowInv'
    BY <2>2, DeployingUndisturbing, UndisturbingStep, CreateFollows, ScaleUpFollows, StoreFollows
       DEF Deploying
  <2>3. ASSUME NEW t \in Tests, Working(t) PROVE FollowInv'
    BY <2>3, WorkingFollows, ClientAppendFollows, ContainerStartFollows, InspectPortsFollows,
       SetBaseURLFollows, RepointFollows DEF Working
  <2>4. ASSUME NEW t \in Tests, Operation(t) PROVE FollowInv'
    BY <2>4, OperationFollows, ClientBeginFollows
  <2>5. QED
    BY <2>1, <2>2, <2>3, <2>4 DEF Next
<1>3. QED
  BY <1>1, <1>2, SharedInvariant, PTL DEF Spec

\* Clients follow the port of their server through any number of restarts
\* (deployment.go:70).
THEOREM ClientsFollowPorts == Spec => []ClientsFollow
<1>1. FollowInv => ClientsFollow
  <2> SUFFICES ASSUME FollowInv, NEW i \in deployed \ disturbed,
                      \A t \in Tests : ~(pc[t] \in StartPCs /\ Hs(t) = i)
               PROVE  /\ baseURL[i] = port[i]
                      /\ \A c \in DOMAIN clients :
                           clients[c].hs = i /\ ~clients[c].late => clients[c].url = port[i]
    BY DEF ClientsFollow
  <2>1. \A t \in Tests : ~On(t, i, RepointPCs) /\ ~On(t, i, BehindPCs)
    BY DEF On, RepointPCs, BehindPCs, StartPCs
  <2>2. QED
    BY <2>1 DEF FollowInv, PortFollowed
<1>2. QED
  BY <1>1, FollowInvariant, PTL
=============================================================================
