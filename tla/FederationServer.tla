-------------------------- MODULE FederationServer --------------------------
(***************************************************************************)
(* The life of Complement's own federation servers: NewServer, Listen with *)
(* its port allocator listenOnUnusedPort, the calls that hand out a server *)
(* name, and the cancel function.                                          *)
(*                                                                         *)
(* Several test packages run as processes of their own on one host: each   *)
(* has its own lastUsedPort, all share the host's ports.  A homeserver     *)
(* under test that met a server keeps its name and may call it long after  *)
(* the server is gone.                                                     *)
(***************************************************************************)
EXTENDS Naturals, FiniteSets, Sequences

CONSTANTS
  Servers,     \* federation.Server values
  Processes,   \* test processes
  ProcOf,      \* [Servers -> Processes]
  FirstPort,   \* the first port tried (1024)
  LastPort,    \* the last port tried (65535)
  NoServer     \* nobody holds a mutex

ASSUME PortAssumption ==
  /\ ProcOf \in [Servers -> Processes]
  /\ FirstPort \in Nat /\ LastPort \in Nat
  /\ 1 < FirstPort /\ FirstPort <= LastPort
  /\ NoServer \notin Servers

Ports == FirstPort .. LastPort

\* max_attempts: "Try the whole port range".
MaxAttempts == LastPort

VARIABLES
  lastUsedPort,  \* per process
  portMu,        \* per process: holder of lastUsedPortMu
  attempts,      \* per server: iterations of the loop in listenOnUnusedPort
  phase,         \* per server: "new", "probing", "listening", "closed",
                 \* "exhausted" (ct.Fatalf)
  serverName,    \* per server: the ports appended to the host name
  handedOut,     \* history: the names ServerName/UserID/... returned
  taken          \* ports bound by programs other than these servers

serverVars == <<lastUsedPort, portMu, attempts, phase, serverName, handedOut, taken>>

Phases == {"new", "probing", "listening", "closed", "exhausted"}

ServerTypeOK ==
  /\ lastUsedPort \in [Processes -> (FirstPort - 1) .. LastPort]
  /\ portMu \in [Processes -> Servers \cup {NoServer}]
  /\ attempts \in [Servers -> 0 .. MaxAttempts]
  /\ phase \in [Servers -> Phases]
  /\ serverName \in [Servers -> Seq(Ports)]
  /\ handedOut \in [Servers -> SUBSET Seq(Ports)]
  /\ taken \subseteq Ports

ServerInit ==
  /\ lastUsedPort = [p \in Processes |-> FirstPort - 1]
  /\ portMu = [p \in Processes |-> NoServer]
  /\ attempts = [s \in Servers |-> 0]
  /\ phase = [s \in Servers |-> "new"]
  /\ serverName = [s \in Servers |-> <<>>]
  /\ handedOut = [s \in Servers |-> {}]
  /\ taken \in SUBSET Ports

\* The port that the name ends with.
PortOf(name) == name[Len(name)]

\* The ports the servers are bound to.
Bound == {PortOf(serverName[s]) : s \in {r \in Servers : phase[r] = "listening"}}

-----------------------------------------------------------------------------
\* Mutant: Listen does not look at s.listening.
ListenBeginAgain(s) ==
  /\ phase[s] \in {"new", "closed"}
  /\ portMu[ProcOf[s]] = NoServer
  /\ portMu' = [portMu EXCEPT ![ProcOf[s]] = s]
  /\ phase' = [phase EXCEPT ![s] = "probing"]
  /\ attempts' = [attempts EXCEPT ![s] = 0]
  /\ UNCHANGED <<lastUsedPort, serverName, handedOut, taken>>

\* Listen: a second call returns nil and changes nothing, also after cancel,
\* because listening is never reset.
ListenBegin(s) ==
  /\ phase[s] = "new"
  /\ portMu[ProcOf[s]] = NoServer
  /\ portMu' = [portMu EXCEPT ![ProcOf[s]] = s]
  /\ phase' = [phase EXCEPT ![s] = "probing"]
  /\ UNCHANGED <<lastUsedPort, attempts, serverName, handedOut, taken>>

\* One iteration of the loop on a port that cannot be bound: it is skipped
\* for good.
ProbeBusy(s) ==
  LET p == ProcOf[s]  port == lastUsedPort[p] + 1 IN
  /\ phase[s] = "probing"
  /\ attempts[s] < MaxAttempts
  /\ port <= LastPort
  /\ port \in taken \cup Bound
  /\ lastUsedPort' = [lastUsedPort EXCEPT ![p] = port]
  /\ attempts' = [attempts EXCEPT ![s] = @ + 1]
  /\ UNCHANGED <<portMu, phase, serverName, handedOut, taken>>

\* Mutant: the port that was bound is not retired.
ProbeFreeKeepsPort(s) ==
  LET p == ProcOf[s]  port == lastUsedPort[p] + 1 IN
  /\ phase[s] = "probing"
  /\ attempts[s] < MaxAttempts
  /\ port <= LastPort
  /\ port \notin taken \cup Bound
  /\ attempts' = [attempts EXCEPT ![s] = @ + 1]
  /\ portMu' = [portMu EXCEPT ![p] = NoServer]
  /\ serverName' = [serverName EXCEPT ![s] = Append(@, port)]
  /\ phase' = [phase EXCEPT ![s] = "listening"]
  /\ UNCHANGED <<lastUsedPort, handedOut, taken>>

\* One iteration on a free port: bind it, release the mutex, extend the server's name.
ProbeFree(s) ==
  LET p == ProcOf[s]  port == lastUsedPort[p] + 1 IN
  /\ phase[s] = "probing"
  /\ attempts[s] < MaxAttempts
  /\ port <= LastPort
  /\ port \notin taken \cup Bound
  /\ lastUsedPort' = [lastUsedPort EXCEPT ![p] = port]
  /\ attempts' = [attempts EXCEPT ![s] = @ + 1]
  /\ portMu' = [portMu EXCEPT ![p] = NoServer]
  /\ serverName' = [serverName EXCEPT ![s] = Append(@, port)]
  /\ phase' = [phase EXCEPT ![s] = "listening"]
  /\ UNCHANGED <<handedOut, taken>>

\* Mutant: off by one at the end of the range.
PortsExhaustedLate(s) ==
  LET p == ProcOf[s] IN
  /\ phase[s] = "probing"
  /\ attempts[s] < MaxAttempts
  /\ lastUsedPort[p] > LastPort
  /\ portMu' = [portMu EXCEPT ![p] = NoServer]
  /\ phase' = [phase EXCEPT ![s] = "exhausted"]
  /\ UNCHANGED <<lastUsedPort, attempts, serverName, handedOut, taken>>

\* The range is used up: ct.Fatalf, whose Goexit runs the deferred Unlock.
PortsExhausted(s) ==
  LET p == ProcOf[s] IN
  /\ phase[s] = "probing"
  /\ attempts[s] < MaxAttempts
  /\ lastUsedPort[p] + 1 > LastPort
  /\ portMu' = [portMu EXCEPT ![p] = NoServer]
  /\ phase' = [phase EXCEPT ![s] = "exhausted"]
  /\ UNCHANGED <<lastUsedPort, attempts, serverName, handedOut, taken>>

\* ServerName, UserID, MakeAliasMapping, MustMakeRoom, FederationClient: all
\* build names from serverName, and fail the test before Listen.
HandOutName(s) ==
  /\ phase[s] \in {"listening", "closed"}
  /\ handedOut' = [handedOut EXCEPT ![s] = @ \cup {serverName[s]}]
  /\ UNCHANGED <<lastUsedPort, portMu, attempts, phase, serverName, taken>>

\* The cancel function returned by Listen.
Cancel(s) ==
  /\ phase[s] = "listening"
  /\ phase' = [phase EXCEPT ![s] = "closed"]
  /\ UNCHANGED <<lastUsedPort, portMu, attempts, serverName, handedOut, taken>>

\* Other programs bind and release ports (external).
OtherProgram ==
  \/ \E q \in Ports \ (taken \cup Bound) : taken' = taken \cup {q}
  \/ \E q \in taken : taken' = taken \ {q}

Environment ==
  OtherProgram
  /\ UNCHANGED <<lastUsedPort, portMu, attempts, phase, serverName, handedOut>>

ListenStep(s) == ProbeBusy(s) \/ ProbeFree(s) \/ PortsExhausted(s)

ServerNext ==
  \/ \E s \in Servers : ListenBegin(s) \/ ListenStep(s) \/ HandOutName(s) \/ Cancel(s)
  \/ Environment

ServerSpec == ServerInit /\ [][ServerNext]_serverVars

\* The loop of listenOnUnusedPort does not wait for anybody.
FairSpec == ServerSpec /\ \A s \in Servers : WF_serverVars(ListenStep(s))

-----------------------------------------------------------------------------
(* Properties *)

\* "we never use the same port (and therefore the same `server_name`) to two
\* different servers" (server.go:624-625), for the lifetime of the process:
\* a request sent to the name of a server that is gone is never answered by
\* a later server of the process, whatever other programs do to the ports.
NamesNeverReused ==
  \A s, r \in Servers :
    (s # r /\ ProcOf[s] = ProcOf[r] /\ serverName[s] # <<>>)
      => serverName[s] # serverName[r]

\* "It is not supported to call ServerName() before Listen() because Listen()
\* modifies the server name" (server.go:146): a name that was handed out, in
\* a user ID, an alias or a room, stays the name of the server.
HandedOutStable == \A s \in Servers : handedOut[s] \subseteq {serverName[s]}

\* "Since we try the entire port range, we don't really expect to get here"
\* (server.go:699-700): the loop never runs out of attempts, so its end is
\* reached only through a port or through the exhaustion of the range.
LoopNeverEnds == \A s \in Servers : phase[s] = "probing" => attempts[s] < MaxAttempts

\* listenOnUnusedPort ends with a port or with a failed test.
ListenTerminates ==
  \A s \in Servers : phase[s] = "probing" ~> phase[s] \in {"listening", "closed", "exhausted"}

\* The inductive invariant: a server that probes holds the mutex of its
\* process, names are single retired ports, and every iteration has advanced
\* lastUsedPort.
ServerInv ==
  /\ ServerTypeOK
  /\ \A s \in Servers :
       /\ phase[s] = "probing" => portMu[ProcOf[s]] = s
       /\ IF phase[s] \in {"listening", "closed"}
            THEN \E q \in Ports : serverName[s] = <<q>> /\ q <= lastUsedPort[ProcOf[s]]
            ELSE serverName[s] = <<>> /\ handedOut[s] = {}
       /\ phase[s] = "listening" => PortOf(serverName[s]) \notin taken
       /\ attempts[s] + FirstPort <= lastUsedPort[ProcOf[s]] + 1
  /\ NamesNeverReused
  /\ HandedOutStable
=============================================================================
