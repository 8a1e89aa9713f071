-------------------------- MODULE SharedDeployment --------------------------
(***************************************************************************)
(* The deployment that the tests of a package share in dirty mode:         *)
(* TestPackage.dirtyDeploy, the operations of docker.Deployment on it      *)
(* (clients, restarts, transports), and the end of TestMain.               *)
(*                                                                         *)
(* A process is a test or a parallel subtest.  Homeservers are numbered:   *)
(* hs1, hs2, ...  Docker gives a container new ports whenever it starts;   *)
(* a port stands for the URLs with it.  How a container is created is in   *)
(* the module Deployer.                                                    *)
(***************************************************************************)
EXTENDS Naturals, FiniteSets, Sequences

CONSTANTS
  Tests,      \* processes
  MaxServers, \* the largest number of servers a test asks for
  MaxOps,     \* bound: operations on the deployment in a behaviour
  None        \* no test

ASSUME SharedAssumption ==
  /\ None \notin Tests
  /\ MaxServers \in Nat \ {0}
  /\ MaxOps \in Nat

Servers == 1 .. MaxServers

VARIABLES
  wants,       \* [Tests -> Servers], numServers, chosen once
  mu,          \* holder of existingDeploymentMu
  deployed,    \* existingDeployment.HS; empty: no existingDeployment
  status,      \* per server: its container
  port,        \* per server: the port of its container
  lastPort,    \* the last port that docker gave out
  baseURL,     \* per server: hsDep.BaseURL and hsDep.FedBaseURL
  clients,     \* CSAPIClients, those of all servers in one sequence
  transports,  \* per server: the test that made the one in d.transports
  setupFailed,
  failed,      \* per test: t.Failed()
  phase,       \* of TestMain
  code,        \* what TestMain will exit with
  pc, loc,     \* per test: position and local variables
  hung,        \* the tests in a call that does not return
  ops,         \* operations so far
  requests,    \* history: the transports that federation requests used
  disturbed    \* history: servers whose last start met another test's stop or
               \* start, or failed between the container and SetEndpoints

deployVars == <<mu, deployed>>
serverVars == <<status, port, lastPort, baseURL, disturbed>>
clientVars == <<clients, transports, requests>>
mainVars == <<setupFailed, failed, phase, code>>
vars == <<wants, deployVars, serverVars, clientVars, mainVars, pc, loc, ops, hung>>

PCs == {"start", "deploying", "scaling", "writing", "using", "append", "request", "transport",
        "restart", "starting", "started", "endpoints", "repoint", "waiting",
        "unserved", "failed", "done"}

Statuses == {"none", "running", "paused", "stopped"}

\* Where a test is in dirtyDeploy, with the mutex.
DeployPCs == {"deploying", "scaling", "writing"}

\* Where a test is in Deployer.StartServer, until SetEndpoints is done.
StartPCs == {"starting", "started", "endpoints", "repoint"}

\* What a test is doing with the deployment.
ClientOps == {"user", "client"}
Ops == ClientOps \cup {"none", "federation", "pause", "stop", "start", "restart"}

Doing(op, i, url, todo) == [hs |-> i, url |-> url, op |-> op, late |-> FALSE, todo |-> todo]
Idle == Doing("none", 1, 0, {})

Locals == [hs : Servers, url : Nat, op : Ops, late : BOOLEAN, todo : SUBSET Servers]
Clients == [hs : Servers, url : Nat, late : BOOLEAN]

TypeOK ==
  /\ wants \in [Tests -> Servers]
  /\ mu \in Tests \cup {None}
  /\ deployed \subseteq Servers
  /\ status \in [Servers -> Statuses]
  /\ port \in [Servers -> Nat] /\ lastPort \in Nat /\ baseURL \in [Servers -> Nat]
  /\ clients \in Seq(Clients)
  /\ transports \in [Servers -> Tests \cup {None}]
  /\ setupFailed \in BOOLEAN
  /\ failed \in [Tests -> BOOLEAN]
  /\ phase \in {"tests", "cleanup", "exited", "crashed", "stuck"}
  /\ code \in 0 .. 2
  /\ pc \in [Tests -> PCs]
  /\ loc \in [Tests -> Locals]
  /\ ops \in Nat
  /\ hung \subseteq Tests
  /\ disturbed \subseteq Servers

Init ==
  /\ wants \in [Tests -> Servers]
  /\ mu = None
  /\ deployed = {}
  /\ status = [i \in Servers |-> "none"]
  /\ port = [i \in Servers |-> 0]
  /\ lastPort = 0
  /\ baseURL = [i \in Servers |-> 0]
  /\ clients = <<>>
  /\ transports = [i \in Servers |-> None]
  /\ setupFailed = FALSE
  /\ failed = [t \in Tests |-> FALSE]
  /\ phase = "tests"
  /\ code = 0
  /\ pc = [t \in Tests |-> "start"]
  /\ loc = [t \in Tests |-> Idle]
  /\ ops = 0
  /\ hung = {}
  /\ requests = {}
  /\ disturbed = {}

At(t, where) == phase = "tests" /\ pc[t] = where /\ t \notin hung
Goto(t, where) == pc' = [pc EXCEPT ![t] = where]

-----------------------------------------------------------------------------
(* dirtyDeploy *)

DeployLock(t) ==
  /\ At(t, "start")
  /\ mu = None
  /\ mu' = t
  /\ Goto(t, "deploying")
  /\ UNCHANGED <<wants, deployed, serverVars, clientVars, mainVars, loc, ops>>

\* Mutant: the test fails with the mutex held.
SetupFailureLocked(t) ==
  /\ setupFailed' = TRUE
  /\ failed' = [failed EXCEPT ![t] = TRUE]
  /\ Goto(t, "unserved")
  /\ UNCHANGED <<wants, deployVars, serverVars, clientVars, phase, code, loc, ops>>

\* Mutant: the failure is one of the test only.
SetupFailureUntold(t) ==
  /\ failed' = [failed EXCEPT ![t] = TRUE]
  /\ mu' = None
  /\ Goto(t, "unserved")
  /\ UNCHANGED <<wants, deployed, serverVars, clientVars, setupFailed, phase, code, loc, ops>>

\* operationalSetupFailure: t.Fatalf runs the deferred Unlock.
SetupFailure(t) ==
  /\ setupFailed' = TRUE
  /\ failed' = [failed EXCEPT ![t] = TRUE]
  /\ mu' = None
  /\ Goto(t, "unserved")
  /\ UNCHANGED <<wants, deployed, serverVars, clientVars, phase, code, loc, ops>>

\* CreateDirtyServer: the container of server i runs, with a port of its own.
ContainerCreated(i) ==
  /\ lastPort' = lastPort + 1
  /\ status' = [status EXCEPT ![i] = "running"]
  /\ port' = [port EXCEPT ![i] = lastPort']
  /\ baseURL' = [baseURL EXCEPT ![i] = lastPort']
  /\ UNCHANGED disturbed

\* There is no deployment: CreateDirtyDeployment makes one with hs1.
CreateDirtyDeployment(t) ==
  /\ At(t, "deploying")
  /\ deployed = {}
  /\ ContainerCreated(1)
  /\ deployed' = {1}
  /\ UNCHANGED <<wants, mu, clientVars, mainVars, pc, loc, ops>>

Enough(t) == Cardinality(deployed) >= wants[t]

DeployReturns(t) == mu' = None /\ Goto(t, "using") /\ UNCHANGED <<wants, deployed>>

\* There is one that will do, or it has to be scaled up.
UseExisting(t) ==
  /\ At(t, "deploying")
  /\ deployed # {}
  /\ IF Enough(t) THEN DeployReturns(t) ELSE Goto(t, "scaling") /\ UNCHANGED <<wants, deployVars>>
  /\ UNCHANGED <<serverVars, clientVars, mainVars, loc, ops>>

Missing(t) == 1 .. wants[t] \ deployed
FirstMissing(t) == CHOOSE j \in Missing(t) : \A k \in Missing(t) : j <= k

\* CreateDirtyServer for the first server that is missing ...
ScaleUp(t) ==
  /\ At(t, "scaling")
  /\ Missing(t) # {}
  /\ ContainerCreated(FirstMissing(t))
  /\ loc' = [loc EXCEPT ![t].hs = FirstMissing(t)]
  /\ Goto(t, "writing")
  /\ UNCHANGED <<wants, deployVars, clientVars, mainVars, ops>>

\* ... which is written into the HS map.  A Restart that is ranging over the
\* map sees the new entry or not.
StoreServer(t) ==
  /\ At(t, "writing")
  /\ deployed' = deployed \cup {loc[t].hs}
  /\ \E seen \in SUBSET {u \in Tests : loc[u].op = "restart"} :
       loc' = [u \in Tests |-> IF u = t THEN Idle
                               ELSE IF u \in seen THEN [loc[u] EXCEPT !.todo = @ \cup {loc[t].hs}]
                               ELSE loc[u]]
  /\ Goto(t, "scaling")
  /\ UNCHANGED <<wants, mu, serverVars, clientVars, mainVars, ops>>

ScaledUp(t) ==
  /\ At(t, "scaling")
  /\ Missing(t) = {}
  /\ DeployReturns(t)
  /\ UNCHANGED <<serverVars, clientVars, mainVars, loc, ops>>

\* In CreateDirtyServer.
Creating(t) ==
  \/ At(t, "deploying") /\ deployed = {}
  \/ At(t, "scaling") /\ Missing(t) # {}

\* NewDeployer or a container fails.  What a failed container leaves behind is
\* in the module Deployer; it does not get into the HS map.
DeployFails(t) ==
  /\ Creating(t)
  /\ SetupFailure(t)

-----------------------------------------------------------------------------
(* Operations of a test on the deployment that Deploy gave it.  Every one   *)
(* of them reads the HS map, without the mutex.                             *)

\* Go's "concurrent map read and map write" ends the process: no deferred
\* function runs.  It is detected in some runs only.
MapRace(t) ==
  /\ At(t, "using") \/ At(t, "restart")
  /\ \E u \in Tests : pc[u] = "writing"
  /\ phase' = "crashed"
  /\ UNCHANGED <<wants, deployVars, serverVars, clientVars, setupFailed, failed, code, pc, loc, ops>>

Begin(t, i, op) ==
  /\ At(t, "using")
  /\ ops < MaxOps
  /\ ops' = ops + 1
  /\ loc' = [loc EXCEPT ![t] = Doing(op, i, baseURL[i], {})]

Hs(t) == loc[t].hs
Return(t) == Goto(t, "using") /\ loc' = [loc EXCEPT ![t] = Idle]

\* ct.Fatalf
Fatal(t) ==
  /\ Goto(t, "failed")
  /\ failed' = [failed EXCEPT ![t] = TRUE]
  /\ UNCHANGED <<wants, deployVars, clientVars, setupFailed, phase, code, loc>>

\* "HS name not found" / "does not exist in this deployment".
UnknownServer(t) ==
  /\ At(t, "using")
  /\ ops < MaxOps
  /\ ops' = ops + 1
  /\ deployed # Servers
  /\ Fatal(t)
  /\ UNCHANGED serverVars

Reachable(i, url) == status[i] = "running" /\ port[i] = url

\* Register and Login ("user"), UnauthenticatedClient and AppServiceUser
\* ("client"): a client is made with the BaseURL of now ...
ClientBegin(t, i, op) ==
  /\ i \in deployed
  /\ Begin(t, i, op)
  /\ Goto(t, "append")
  /\ UNCHANGED <<wants, deployVars, serverVars, clientVars, mainVars>>

\* ... and appended to CSAPIClients under their mutex.
ClientAppend(t) ==
  /\ At(t, "append")
  /\ clients' = Append(clients, [hs |-> Hs(t), url |-> loc[t].url, late |-> loc[t].late])
  /\ IF loc[t].op = "user"
       THEN /\ Goto(t, "request")
            /\ loc' = [loc EXCEPT ![t].url = Len(clients')]
       ELSE Return(t)
  /\ UNCHANGED <<wants, deployVars, serverVars, transports, requests, mainVars, ops>>

\* RegisterUser and LoginUser, to the client's URL of then; the server may
\* refuse.
ClientRequest(t) ==
  /\ At(t, "request")
  /\ \/ /\ Reachable(Hs(t), clients[loc[t].url].url)
        /\ Return(t)
        /\ UNCHANGED <<wants, deployVars, clientVars, mainVars>>
     \/ Fatal(t)
  /\ UNCHANGED <<serverVars, ops>>

\* RoundTripper and transportFor: the transport of the server, if there is one ...
TransportLoad(t, i) ==
  /\ i \in deployed
  /\ Begin(t, i, "federation")
  /\ IF transports[i] # None
       THEN requests' = requests \cup {<<i, transports[i]>>} /\ UNCHANGED pc
       ELSE Goto(t, "transport") /\ UNCHANGED requests
  /\ UNCHANGED <<wants, deployVars, serverVars, clients, transports, mainVars>>

\* Mutant: Store instead of LoadOrStore.
TransportStore(t) ==
  /\ At(t, "transport")
  /\ transports' = [transports EXCEPT ![Hs(t)] = t]
  /\ requests' = requests \cup {<<Hs(t), transports'[Hs(t)]>>}
  /\ Return(t)
  /\ UNCHANGED <<wants, deployVars, serverVars, clients, mainVars, ops>>

\* ... else a new one, unless another test was faster.
TransportLoadOrStore(t) ==
  /\ At(t, "transport")
  /\ transports' = [transports EXCEPT ![Hs(t)] = IF @ = None THEN t ELSE @]
  /\ requests' = requests \cup {<<Hs(t), transports'[Hs(t)]>>}
  /\ Return(t)
  /\ UNCHANGED <<wants, deployVars, serverVars, clients, mainVars, ops>>

-----------------------------------------------------------------------------
(* Containers *)

\* Another test is stopping or starting the server.
Contended(t, i) == \E u \in Tests \ {t} : pc[u] \in StartPCs /\ Hs(u) = i

Disturb(t, i) == disturbed' = IF Contended(t, i) THEN disturbed \cup {i} ELSE disturbed

\* PauseServer and UnpauseServer; docker refuses what is not running or paused.
PauseServer(t, i, from, to) ==
  /\ i \in deployed
  /\ Begin(t, i, "pause")
  /\ IF status[i] = from
       THEN /\ status' = [status EXCEPT ![i] = to]
            /\ UNCHANGED <<wants, deployVars, clientVars, mainVars, pc>>
       ELSE /\ Goto(t, "failed")
            /\ failed' = [failed EXCEPT ![t] = TRUE]
            /\ UNCHANGED <<wants, deployVars, clientVars, setupFailed, phase, code, status>>
  /\ UNCHANGED <<port, lastPort, baseURL, disturbed>>

\* StopServer, and the first half of Restart for a server.  Docker accepts a
\* stop of what is stopped, and resumes what is paused to stop it.
ContainerStop(t, i) ==
  /\ status' = [status EXCEPT ![i] = "stopped"]
  /\ Disturb(t, i)
  /\ UNCHANGED <<port, lastPort, baseURL>>

StopServer(t, i) ==
  /\ i \in deployed
  /\ Begin(t, i, "stop")
  /\ ContainerStop(t, i)
  /\ UNCHANGED <<wants, deployVars, clientVars, mainVars, pc>>

StopServerFails(t, i) ==
  /\ i \in deployed
  /\ Begin(t, i, "stop")
  /\ Goto(t, "failed")
  /\ failed' = [failed EXCEPT ![t] = TRUE]
  /\ UNCHANGED <<wants, deployVars, serverVars, clientVars, setupFailed, phase, code>>

StartServer(t, i) ==
  /\ i \in deployed
  /\ Begin(t, i, "start")
  /\ Goto(t, "starting")
  /\ UNCHANGED <<wants, deployVars, serverVars, clientVars, mainVars>>

\* Restart: the servers of the HS map, in any order.
Restart(t) ==
  /\ At(t, "using")
  /\ ops < MaxOps
  /\ ops' = ops + 1
  /\ loc' = [loc EXCEPT ![t] = Doing("restart", 1, 0, deployed)]
  /\ Goto(t, "restart")
  /\ UNCHANGED <<wants, deployVars, serverVars, clientVars, mainVars>>

RestartNext(t, i) ==
  /\ At(t, "restart")
  /\ i \in loc[t].todo
  /\ ContainerStop(t, i)
  /\ loc' = [loc EXCEPT ![t] = Doing("restart", i, 0, @.todo \ {i})]
  /\ Goto(t, "starting")
  /\ UNCHANGED <<wants, deployVars, clientVars, mainVars, ops>>

RestartEnd(t) ==
  /\ At(t, "restart")
  /\ loc[t].todo = {}
  /\ Return(t)
  /\ UNCHANGED <<wants, deployVars, serverVars, clientVars, mainVars, ops>>

\* ContainerStart: new ports, if the container was not running.  Docker
\* refuses to start what is paused.  A start that nobody disturbs puts right
\* what an earlier one left behind.
ContainerStart(t) ==
  /\ At(t, "starting")
  /\ status[Hs(t)] # "paused"
  /\ IF status[Hs(t)] = "stopped"
       THEN /\ lastPort' = lastPort + 1
            /\ port' = [port EXCEPT ![Hs(t)] = lastPort']
            /\ status' = [status EXCEPT ![Hs(t)] = "running"]
       ELSE UNCHANGED <<lastPort, port, status>>
  /\ disturbed' = IF Contended(t, Hs(t)) THEN disturbed \cup {Hs(t)} ELSE disturbed \ {Hs(t)}
  /\ Goto(t, "started")
  /\ UNCHANGED <<wants, deployVars, baseURL, clientVars, mainVars, loc, ops>>

\* waitForPorts and getHostAccessibleHomeserverURLs.
InspectPorts(t) ==
  /\ At(t, "started")
  /\ status[Hs(t)] \in {"running", "paused"}
  /\ loc' = [loc EXCEPT ![t].url = port[Hs(t)]]
  /\ Goto(t, "endpoints")
  /\ UNCHANGED <<wants, deployVars, serverVars, clientVars, mainVars, ops>>

\* SetEndpoints: the URLs of the server (and of the clients being made by
\* others, "late", from now on) ...
SetBaseURL(t) ==
  /\ At(t, "endpoints")
  /\ baseURL' = [baseURL EXCEPT ![Hs(t)] = loc[t].url]
  /\ loc' = [u \in Tests |-> IF pc[u] = "append" /\ Hs(u) = Hs(t)
                               THEN [loc[u] EXCEPT !.late = TRUE] ELSE loc[u]]
  /\ Disturb(t, Hs(t))
  /\ Goto(t, "repoint")
  /\ UNCHANGED <<wants, deployVars, status, port, lastPort, clientVars, mainVars, ops>>

\* The client after SetEndpoints.
Repointed(client, url) == [hs |-> client.hs, url |-> url, late |-> FALSE]

\* Mutant: the last client is left out.
RepointButLast(t) ==
  /\ At(t, "repoint")
  /\ clients' = [c \in DOMAIN clients |->
       IF clients[c].hs = Hs(t) /\ c # Len(clients) THEN Repointed(clients[c], loc[t].url)
       ELSE clients[c]]
  /\ Goto(t, "waiting")
  /\ UNCHANGED <<wants, deployVars, serverVars, transports, requests, mainVars, loc, ops>>

\* ... then those of its clients, read without their mutex.
Repoint(t) ==
  /\ At(t, "repoint")
  /\ clients' = [c \in DOMAIN clients |->
       IF clients[c].hs = Hs(t) THEN Repointed(clients[c], loc[t].url) ELSE clients[c]]
  /\ Goto(t, "waiting")
  /\ UNCHANGED <<wants, deployVars, serverVars, transports, requests, mainVars, loc, ops>>

\* waitForContainer.  The next server of a Restart, or back to the test.
Started(t) ==
  /\ At(t, "waiting")
  /\ IF loc[t].op = "restart" THEN Goto(t, "restart") /\ UNCHANGED loc ELSE Return(t)
  /\ UNCHANGED <<wants, deployVars, serverVars, clientVars, mainVars, ops>>

\* Docker fails a stop or start, or the homeserver does not come up.  The test
\* ends in StartServer; Restart returns an error and the test may go on.
ContainerFails(t) ==
  /\ \/ At(t, "restart") /\ loc[t].todo # {}
     \/ At(t, "starting") \/ At(t, "started") \/ At(t, "waiting")
  /\ disturbed' = disturbed \cup (IF pc[t] = "started" THEN {Hs(t)} ELSE {})
  /\ failed' = [failed EXCEPT ![t] = TRUE]
  /\ IF loc[t].op = "restart" THEN Return(t) ELSE Goto(t, "failed") /\ UNCHANGED loc
  /\ UNCHANGED <<wants, deployVars, status, port, lastPort, baseURL, clientVars, setupFailed, phase,
                 code, ops>>

\* waitForPorts looks into the result of an inspect that failed: the nil pointer
\* ends the process.
InspectPanics(t) ==
  /\ Creating(t) \/ At(t, "started")
  /\ phase' = "crashed"
  /\ UNCHANGED <<wants, deployVars, serverVars, clientVars, setupFailed, failed, code, pc, loc, ops>>

\* A docker call has no deadline and neither has the GET of waitForContainer, so
\* it may not return; nor may what the test itself does.  What the call did
\* before that is a step of its own.
CallHangs(t) ==
  /\ \/ Creating(t)
     \/ At(t, "restart") /\ loc[t].todo # {}
     \/ At(t, "starting") \/ At(t, "started") \/ At(t, "waiting")
     \/ At(t, "using")
  /\ hung' = hung \cup {t}
  /\ UNCHANGED <<wants, deployVars, serverVars, clientVars, mainVars, pc, loc, ops>>

-----------------------------------------------------------------------------
(* The end of a test, and TestMain *)

\* Destroy leaves a dirty deployment alone.
Finish(t) ==
  /\ At(t, "using")
  /\ Goto(t, "done")
  /\ UNCHANGED <<wants, deployVars, serverVars, clientVars, mainVars, loc, ops>>

\* An assertion of the test fails.
TestFails(t) ==
  /\ At(t, "using")
  /\ Fatal(t)
  /\ UNCHANGED <<serverVars, ops>>

\* m.Run has returned.
ExitCode ==
  /\ phase = "tests"
  /\ \A t \in Tests : pc[t] \in {"done", "failed", "unserved"}
  /\ code' = IF setupFailed THEN 2 ELSE IF \E t \in Tests : failed[t] THEN 1 ELSE 0
  /\ phase' = "cleanup"
  /\ UNCHANGED <<wants, deployVars, serverVars, clientVars, setupFailed, failed, pc, loc, ops>>

\* What the removal of a container may leave.
Remains(i) == IF status[i] = "none" THEN {"none"} ELSE {"none", "stopped", status[i]}

\* TestPackage.Cleanup, deferred: DestroyAtCleanup, then the builder's Cleanup.
\* Failures to stop or remove a container are only logged.
Cleanup ==
  /\ phase = "cleanup"
  /\ mu = None
  /\ status' \in {st \in [Servers -> Statuses] : \A i \in Servers : st[i] \in Remains(i)}
  /\ phase' = "exited"
  /\ UNCHANGED <<wants, deployVars, port, lastPort, baseURL, disturbed, clientVars, setupFailed,
                 failed, code, pc, loc, ops>>

\* Its docker calls have no deadline either.
CleanupHangs ==
  /\ phase = "cleanup"
  /\ mu = None
  /\ phase' = "stuck"
  /\ UNCHANGED <<wants, deployVars, serverVars, clientVars, setupFailed, failed, code, pc, loc, ops>>

Deploying(t) ==
  \/ DeployLock(t) \/ CreateDirtyDeployment(t) \/ UseExisting(t)
  \/ ScaleUp(t) \/ StoreServer(t) \/ ScaledUp(t) \/ DeployFails(t)

Working(t) ==
  \/ ClientAppend(t) \/ ClientRequest(t) \/ TransportLoadOrStore(t)
  \/ (\E i \in Servers : RestartNext(t, i)) \/ RestartEnd(t)
  \/ ContainerStart(t) \/ InspectPorts(t) \/ SetBaseURL(t) \/ Repoint(t) \/ Started(t)
  \/ ContainerFails(t)
  \/ Finish(t) \/ TestFails(t)

Operation(t) ==
  \/ \E i \in Servers, op \in ClientOps : ClientBegin(t, i, op)
  \/ \E i \in Servers : TransportLoad(t, i) \/ StopServer(t, i) \/ StopServerFails(t, i) \/ StartServer(t, i)
  \/ \E i \in Servers : PauseServer(t, i, "running", "paused") \/ PauseServer(t, i, "paused", "running")
  \/ Restart(t) \/ UnknownServer(t) \/ MapRace(t)

Main == ExitCode \/ Cleanup \/ CleanupHangs

Next ==
  \/ /\ (\E t \in Tests : Deploying(t) \/ Working(t) \/ Operation(t) \/ InspectPanics(t)) \/ Main
     /\ UNCHANGED hung
  \/ \E t \in Tests : CallHangs(t)

Spec == Init /\ [][Next]_vars

\* A goroutine that can go on does: Go schedules it, its requests as a client
\* have a timeout, and the mutex is handed to those who wait.  No call is
\* assumed to return: CallHangs and CleanupHangs take the place of a return.
FairSpec ==
  /\ Spec
  /\ \A t \in Tests :
       /\ WF_vars(Deploying(t) /\ UNCHANGED hung)
       /\ SF_vars(DeployLock(t) /\ UNCHANGED hung)
       /\ WF_vars(Working(t) /\ UNCHANGED hung)
  /\ WF_vars(ExitCode /\ UNCHANGED hung) /\ WF_vars(Cleanup /\ UNCHANGED hung)

-----------------------------------------------------------------------------
(* Properties *)

\* Homeservers are added in order and under the mutex: hs1 .. hsN are deployed,
\* and the server about to be written into the map is the next one.
ScaledInOrder ==
  /\ \E n \in 0 .. MaxServers : deployed = 1 .. n
  /\ \A i \in deployed : status[i] # "none" \/ phase = "exited"
  /\ \A t \in Tests :
       /\ pc[t] \in DeployPCs => mu = t
       /\ pc[t] \in {"scaling", "writing"} => deployed # {}
       /\ pc[t] = "writing" => deployed = 1 .. loc[t].hs - 1 /\ status[loc[t].hs] # "none"

\* A test that Deploy has served has the servers it asked for, whatever other
\* tests do or fail to do meanwhile.
Served ==
  \A t \in Tests : pc[t] \notin DeployPCs \cup {"start", "unserved"} => 1 .. wants[t] \subseteq deployed

\* Federation requests to a server all use the transport that is stored for it
\* (deployment.go:33-37), though tests look for it and make it without a lock.
OneTransport == \A q \in requests : q[1] \in Servers /\ q[2] # None /\ transports[q[1]] = q[2]

\* The inductive invariant.
SharedInv == TypeOK /\ ScaledInOrder /\ Served /\ OneTransport

\* "track all clients so if Restart() is called we can repoint to the new
\* high-numbered port" (deployment.go:70): when no start of the server is under
\* way and none was disturbed, its deployment and its clients have the port of
\* its container, except for a client that was being made during SetEndpoints.
ClientsFollow ==
  \A i \in deployed \ disturbed :
    (status[i] \in {"running", "paused"} /\ \A t \in Tests : ~(pc[t] \in StartPCs /\ Hs(t) = i)) =>
      /\ baseURL[i] = port[i]
      /\ \A c \in DOMAIN clients : clients[c].hs = i /\ ~clients[c].late => clients[c].url = port[i]

\* TestMain exits with 2 exactly when Deploy failed a test, also when other
\* tests passed; and with 0 exactly when no test failed.
ExitTold ==
  phase \in {"cleanup", "exited"} =>
    /\ code = 2 <=> \E t \in Tests : pc[t] = "unserved"
    /\ code = 0 <=> \A t \in Tests : ~failed[t]

\* A package ends, unless a call or a test does not return or the process dies:
\* no Deploy, also after one that failed, waits for the mutex for ever, and
\* neither does Cleanup.
PackageEnds == <>(phase \in {"exited", "crashed", "stuck"} \/ hung # {})
=============================================================================
