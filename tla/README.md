# Complement: a TLA+ verification project

Complement is a black-box integration test harness for Matrix homeservers. It
builds docker images of homeservers from *blueprints*, deploys them for each
test, and gives the test clients that talk to them and federation servers that
impersonate remote homeservers. This directory models the parts of Complement
whose correctness depends on concurrency, on failures and on what earlier runs
left behind. The modules are checked by TLC on small instances and, for the
safety properties listed below, proved by TLAPS for all instances.

## 1. Inventory

| Component | State it keeps | Operations | What is hard |
| --- | --- | --- | --- |
| Room of a federation server (`federation/server_room.go`, `helpers/waiter.go`) | `State`, `Timeline`, `Depth`, `ForwardExtremities`, `waiters`, two mutexes; a `Waiter` has a channel that is closed once | `AddEvent`, `MustCreateEvent`/`ProtoEventCreator`, `WaiterForEvent`, `Wait`, `Finish`, `AuthChain`, `EventsInChain` | handlers and the test run concurrently; `Depth` and `ForwardExtremities` are accessed without a lock; a wake-up must not be lost between append and inform; PDUs are retransmitted |
| Federation server (`federation/server.go`) | `serverName`, `listening`, rooms, aliases; the process-wide `lastUsedPort` and the host's ports | `NewServer`, `Listen`, `cancel`, `ServerName`/`UserID`, `MustMakeRoom`, outgoing joins, leaves and transactions | names end in the port, so a recycled port is a recycled identity; packages are separate processes that race for ports |
| Federation handlers (`federation/handle.go`) | none of their own | transactions, make/send join, event_auth, invites, keys, media | out-of-order and repeated PDUs, auth chains of rooms that change meanwhile |
| Docker deployer (`internal/docker/deployer.go`) | `Counter`, the deployment's `HS` map, `lastErr`, a WaitGroup | `Deploy` (one goroutine per image), `deployImage` with retries, `Destroy`, pause, restart, stop, start | one of several images fails; retries after half-done docker calls; error recorded after `wg.Done` |
| Docker deployment (`internal/docker/deployment.go`) | endpoints, access tokens, transports and the clients handed out | `Register`, `Login`, `RoundTripper`, pause, stop, start, `Restart`, `SetEndpoints` | a restart changes the ports under clients in use or being made |
| Docker builder (`internal/docker/builder.go`) | nothing in memory: the images, containers and networks of the docker daemon | `Cleanup`, `ConstructBlueprintIfNotExist`, `construct`, commit | state shared by concurrent runs and by runs that died |
| Test package, `TestMain` (`test_package.go`, `test_main.go`) | namespace counter, the shared dirty deployment and its mutex, `setupFailed` | `Deploy`, `dirtyDeploy`, `Cleanup` | tests scale the deployment while others use it, partial failure, exit code |
| Homerunner (`cmd/homerunner`) | two maps name -> deployment and name -> timer, under one mutex | create, destroy, expiry | a timer that fired races with destroy and re-create |
| Instruction runner (`internal/instruction/runner.go`) | lookup table of values from responses, `terminate` | `Run`, `RunInstructions` | sets of requests run concurrently and use each other's responses; a failing set stops the others; best-effort mode |
| Client (`client/client.go`, `client/sync.go`) | access token, transaction counter; the caller keeps the sync token | `Do` with retry, `MustSync`, `MustSyncUntil` and its check functions, `SendEventSynced` | deadline against late answers, conditions met out of order, updates that move between sections of a response |
| Blueprints, configuration, matchers, assertions | none | pure functions | normalisation and parsing |
| Account snapshot, perf and coverage tools | files | batch jobs | pure I/O |

How they interact: a `TestPackage` owns a `Builder` and a `Deployer`. A test
calls `Deploy`, which has the builder make the images of the blueprint when
there are none (the builder uses the deployer's `deployImage` and the
instruction runner for it) and then has the deployer start a container per
image. The test creates federation servers; a homeserver under test sends
transactions to their handlers, which call `AddEvent` on the room the test is
waiting on. Homerunner offers the builder and the deployer over HTTP.

## 2. Modules

| Module | Models | Extends |
| --- | --- | --- |
| `EventSignal` | abstract: what a room promises a test that waits for events | |
| `ServerRoom` | one room, shared by goroutines that add and create events and goroutines in `Wait`; implements `EventSignal` | instance of `EventSignal` |
| `FederationJoin` | a room on several federation servers: made, joined, knocked on, left, changed, and told of in transactions | |
| `FederationServer` | the servers of several test processes and the ports of the host | |
| `Deployer` | one `Deploy` call: the main goroutine, one goroutine per image, docker daemon and homeservers that fail, `Destroy` | |
| `Homerunner` | create and destroy requests, the runtime's maps, the timers | |
| `Builder` | the docker objects of a blueprint over several runs: cleanup, construction, commit, deploy, crash | |
| `InstructionSets` | the sets of requests that a homeserver of a blueprint or custom instructions are turned into (operators only) | |
| `InstructionRunner` | the goroutines that execute these sets, phase after phase, against a homeserver that fails | |
| `SharedDeployment` | the dirty deployment that concurrent tests scale up, restart and use, and the end of `TestMain` | |
| `SyncChecks` | `/sync` responses and the check functions of `client/sync.go` (operators only) | |
| `SyncUntil` | a test that calls `MustSyncUntil` and retried requests while updates arrive | `SyncChecks` |
| `MC...` | the TLC instance of each | the component |
| `...Proofs` | theorems and proofs of each; `FederationProofs` those of `FederationJoin` and `FederationServer` | the component, `TLAPS` |

### ServerRoom

A step is a critical section or a single unlocked access. `AddEvent` is
`AddEventBegin`, `ReplaceCurrentState` (state events only, under `StateMutex`),
`AppendTimeline` (under `TimelineMutex`), `CompareDepth` and `SetDepth` (the
unlocked test and the unlocked assignment), `SetExtremity`, `InformWaiters`
(under `waitersMu`). `WaiterForEvent` holds `TimelineMutex` from `WaiterLock`
to `WaiterScan` and takes `waitersMu` inside, in `WaiterRegister`.
`ReadExtremity` and `ReadDepth` are the two unlocked reads of
`ProtoEventCreator`. `WaitReturn` and `WaitTimeout` are the two branches of the
select in `Waitf`. Unlocked accesses are interleaved and otherwise
sequentially consistent. Event content, signatures and auth rules are left
out: an event has an ID, a depth and a (type, state key) or none. The history
variable `overlap` tells whether two calls have been under way at once: the
properties about state, depth and extremity are for callers that take turns,
the properties about waiters for all.

`EventSignal` is the same room without locks, maps and channels: events are
added, a waiter is made for an event, and `Wait` returns after the event was
added or fails by its timer. `ImplementsSignal` maps the timeline to the set of
its events and the inner steps of `WaiterForEvent` to stuttering.

### FederationJoin

A process is a call of the test with the handler goroutine that serves it. A
step is a critical section: `AddEvent` is `WriteState`, `WriteTimeline` and
`WriteHeads`; `GenerateSendJoinResponse` is `SendJoin` (the copy of the state),
`CopyTimeline` and `AuthChain` (the two copies of `AuthChainForEvents` and its
loop), `FindServers`, and then `AddEvent`. `LoseResponse` drops the response,
after which the server that joins has nothing and the resident has the join.
Events are numbered as they are signed and have their auth events, a state
tuple, a depth and a predecessor; which tuples an event needs auth events for
is that of the library (`StateNeeded`, external). Rooms are numbered because
`s.rooms` holds pointers: a second join or a knock replaces the room, while
calls that captured the old one go on with it. `MustKnockRoom` and
`MustLeaveRoom` go to a homeserver of which only the acceptance is known.
`NextPDU` skips what is not an event or is for an unknown room, as the handler
does. One reading is coarser than the code: `ProtoEventCreator` takes the auth
events, the depth and the extremities in one step, where the code takes
`StateMutex` for each tuple; the properties that could tell the difference are
about calls that nothing overlaps with.

### FederationServer

`ListenBegin`, `ProbeBusy`, `ProbeFree` and `PortsExhausted` are the loop of
`listenOnUnusedPort`, which runs under a process-wide mutex and never goes back
to a smaller port; `HandOutName` stands for everything that makes the test or
a homeserver learn the name; `Cancel` closes the listener. `OtherProgram`
occupies and frees ports at any time. Ports are a small interval
`FirstPort .. LastPort` in place of 1024 .. 65535; the loop's bound is
`LastPort` (`MaxAttempts`), as in the code.

### Deployer

The program points of a goroutine are the docker calls of `deployImageOnce`
(`ContainerCreate`, then the stages that start, inspect and wait), the retry
of `deployImage` with `removeFailedDeployment` by ID and by name, and the
caller's `WgDone` and `RecordError`, in the order in which the code has them:
`wg.Done` is deferred in the inner function and the error is stored by its
caller. Any call may fail, before or after it has taken effect
(`ContainerCreateFails` and `StageFails` may leave a container that the failing
call made or started), or never return (`CallHangs`). `HomeserverExits` lets a
running container die at any time, during the deployment or after it.
`WaitForPortsPanics` is the inspection error that `waitForPorts` does not
return.

### Homerunner

A create request stands for its deployment and its timer. `AddDeployment`,
`AddRejected`, `RouteDestroy` and `TimerCallback` are the critical sections of
the runtime's mutex. `TimerFires` separates the moment at which the timer
starts its goroutine, after which `Stop` has no effect, from the moment at
which the goroutine gets the mutex. `unremoved` remembers the deployments of
which docker refused to remove a container; `DestroyHangs` is a docker call
that does not return while the mutex is held (`stuck`).

### Builder

A run is a process with its own RunID. `Cleanup` is three stages in the order
of the code, at the start and at the end of a run. `construct` creates the
network, builds the homeservers one by one (`BaseNameTaken`, `BaseCreated`,
`BaseAttemptFails`, `HomeserverFails`, `HomeserverBuilt`), commits them
(`CommitSucceeds`, `CommitFailure`) and waits for the images (`ListImages`).
Objects are found the way the labels and filters of the code find them: images
and containers by package, networks by package and RunID, build containers by
name. `Deploy` is one step, `Deployer` has its inside. `ListImages` may end
with an error of `ImageList`, which is returned before the networks are removed.
`CallHangs` puts a run into a call that does not return (`hung`); such a run
can only be killed. A panic in `waitForPorts` is a `Crash`.

### InstructionSets and InstructionRunner

`InstructionSets` has the functions of the code by name:
`calculateUserInstructionSets`, `calculateRoomInstructionSets`,
`createInstructionSets`. A request is reduced to the keys of the lookup table
it reads and stores; paths, bodies and query encoding are left out, and the
kinds of events that differ only in path and body are one kind. `indexFor` is
a constant function, since no property may depend on the hash.
`InstructionRunner` knows nothing of blueprints: it executes any sequence of
phases. `SpawnPhase` and `WaitReturns` are the two halves of `Run` (twice) and
`RunInstructions`; a goroutine is in `next` (`NoMore`, `CannotForm`,
`FormRequest`), at the test of `terminate` (`CheckTerminate`), has a request in
flight (`Answered`, `Refused`, `NoResponse`, `NoResponsePanics`) or is on its
way out (`RecordError`, `SetTerminate`, `WgDone`). The loads of one request are
one step. A 2xx answer stores, for each field, its value or, if it is missing,
the empty string (`Empty`), and the set goes on as the code does.
`MCInstructionRunner` composes the two modules: the phases it executes are
those that `InstructionSets` computes from small blueprints.

### SharedDeployment

A process is a test or parallel subtest; the operations are those of
`docker.Deployment`. `DeployLock` to `DeployFails` are `dirtyDeploy` with its
mutex; `StoreServer` is the write into the `HS` map, which is a step of its own
because tests in other operations read the map without the mutex (`MapRace` is
Go's fatal error for it). A client is made with the URL of `ClientBegin`
and appended in `ClientAppend`. `Deployer.StartServer` is `ContainerStart` (new
ports), `InspectPorts`, `SetBaseURL` and `Repoint` (the two halves of
`SetEndpoints`) and `Started`; `Restart` does this for the servers of the map
in any order. Docker (external) refuses to pause what is not running and to
start what is paused, and stops anything. Ports are numbers that grow, so that
an old URL never comes true again by chance. `CallHangs` is a call to docker or
to a homeserver that does not return, with the mutex held if it is in
`dirtyDeploy`; `InspectPanics` the panic of `waitForPorts`. `Cleanup` may leave
any container running or stopped, because failures to remove one are only
logged, and may hang (`CleanupHangs`). Access tokens and the counter for
localparts are left out.

### SyncChecks and SyncUntil

The homeserver's part of `SyncChecks` says which responses are legal for a
position of the stream: which section an update goes to, what a limited
timeline leaves out, what an initial sync repeats. The client's part has one
definition for each check function of `sync.go`. In `SyncUntil` a call sends a
request with the token it has (`head`, `syncing`), gets a response for any
later position or an error, evaluates the checks that are left one by one
(`checking`), and looks at the clock before it goes on. `Do` with
`WithRetryUntil` is the second loop with a deadline. Time is counted in ticks;
an answer may come after the deadline. `WithRetryUntil` with a duration of zero,
which returns the first answer without looking at it (`client.go:846`), is left
out: `Timeout = 0` below stands for a positive duration that ends with the
first tick.

The docker daemon, the operating system's ports, timers and the homeservers
are external: they appear as the nondeterminism the code is exposed to.

## 3. Runs

| Run | Instance | Shows |
| --- | --- | --- |
| `room` | 2 goroutines, 2 waiters, 3 events of which two are for one state tuple, 2 calls (events may be repeated) | no wake-up is lost (`NoLostWakeup`, in the inductive `RoomInv`), every waiter of an added event is released, the room implements `EventSignal`; for calls that do not overlap, state, extremity and depth are those of the timeline and created events lie above their predecessor |
| `deploy` | 2 images, 3 attempts each | `Deploy` waits for all goroutines, names are distinct, a failed homeserver leaves no container, `Deploy` returns unless a call hangs or the process panics |
| `deploy_late_error` | the same | **violated**: `Deploy` can return no error and an incomplete deployment |
| `server` | 3 servers in 2 processes, 3 ports | names are never reused in a process and never change; the loop ends, and never by its bound |
| `runtime` | 4 creates, 3 of them for one name, docker failures | an acknowledged deployment stays tracked, timers and maps agree, every acknowledged deployment ends and its containers are removed, unless docker refuses a removal or never answers |
| `runtime_stale_timer` | the same | **violated**: a late callback destroys the next deployment of the name |
| `build` | 4 environments: 3 runs one after another that may die; 2 with failing commits; 2 with a kept blueprint; 2 at once with every fault; 2 homeservers | whole blueprints are deployed (but for failed commits and kept blueprints), a run that ends leaves nothing, a run starts without the containers and images of dead runs, no run takes the network of another's test away, every construction ends unless a call hangs |
| `instructions` | 2 homeservers (second device, display name, alias, join by federation), custom instructions with one that cannot be formed; 2 sets per phase; with and without best effort | phases do not overlap, no error means all was done, requests are sent after the answers they refer to, other sets stop after a failure, `Run` returns |
| `instructions_members` | 2 calls of `Run`, the second joins a room made by the first | **violated**: `/members` asks about another room |
| `join` | a resident and a guest server, 2 processes, 9 configurations of calls: one after the other (normal, partial-state and domainless rooms) and overlapping | auth chains of responses are complete and minimal, a join gives the guest the resident's room and the state from before it, a PDU with a result is stored, handlers panic only in the cases named below |
| `shared_deployment` | 2 tests, 2 servers, 2 operations | served tests have their servers, requests share one transport, clients follow their server's port, the exit code is right, the package ends unless a call hangs |
| `sync` | every legal stream of 2 membership changes and messages (3 after a join) and of 2 other updates; calls with fresh and reused tokens, `state_after`, retries, `SendEventSynced` | checks are settled exactly, tokens mean delivery, each check function is right about each response, calls end |

Bounds. `MaxCalls` bounds the calls in a room: two give a race between two
adders or an adder and a creator, a retransmission, and an older state event
after a newer one. Two waiters are needed for the case that one replaces the
other. Two images make every race in `Deploy` possible, since goroutines share
only the counter, the map, `lastErr` and the WaitGroup. Three ports let the two
servers of one process use up the range while the server of a second process
and another program take ports away. Three creates of one name give a stale timer both a
predecessor and a successor. Two homeservers distinguish partial from whole
blueprints; three runs let a run start after a dead and after a clean one.
Two sets per phase in place of 12 and 40 let every race of two sets happen;
sets share only the lookup table, `terminate`, `resErr` and the WaitGroup. Five
phases (users and rooms of two homeservers, custom instructions) give every
barrier a phase before and after it.
The environments of `build` with one live run are there because with two live
runs of one package namespace each cleanup removes the other's containers and
images: `Orderly` in the properties is about runs that follow each other.
In `join` each configuration bounds the calls of each kind; two processes make
every pair of calls overlap at every critical section, and two changes let
an auth event of an auth event be superseded. `MaxPDUs` is 2 in place of 50.
In `shared_deployment` one test has to scale up what the other deployed;
`MaxOps = 2` lets a client be made during a restart, two restarts overlap, or
an operation follow one that failed. Two updates after a join are enough for an
update to be superseded within a response, split over two, or cut off by
`Limit = 1`. `Timeout = 0` makes every wait end at the first late tick, after
any number of responses in time.
`CHECK_DEADLOCK FALSE` is set where all runs, calls or requests may be over.

Fairness. Goroutines that can run are scheduled and an armed timer fires: weak
fairness of these steps. `AppendTimeline` has strong fairness because
`sync.Mutex` hands the lock to a starved goroutine, and so has `DeployLock`.
Requests of the runner and of the clients end because their `http.Client` has a
timeout, and the clock advances. Docker calls are not assumed to return: they
are made with `context.Background()`; nor is the GET of `waitForContainer`,
which has no timeout and looks at its deadline between two requests only
(`deployer.go:816`). Where the code waits for one of these, an action of the
model (`CallHangs`, `DestroyHangs`, `CleanupHangs`) has the call not return,
and the liveness property says what follows if none is taken: that no path
through the code itself waits for ever. That a test ends is assumed by
`PackageEnds` only, under which a test that does not end is a call that hangs. Nothing is assumed
about the start of calls, requests, destroys, crashes, other programs or a waiter's timeout.

### Disagreements found

* `deploy_late_error`: `deployImg`'s deferred `wg.Done` precedes the write of
  `lastErr` in its caller (`deployer.go:165`, `:200-210`).
* `runtime_stale_timer`: the timer's callback looks the name up when it gets
  the mutex (`setup.go:70`), and can find a later deployment.
* `instructions_members`: the `/members` request that waits for a join uses the
  room's index in the current call, not its `Ref` (`runner.go:567`); in a later
  `Run` of the same runner, as in `cmd/perftest`, that is another room or none.

The same models also have these behaviours, which no run singles out: an error
of an inspection in `waitForPorts` other than an exited container is ignored,
and the ports are read from the nil `NetworkSettings` of the zero result, a
panic that ends the process (`deployer.go:716-724`); a homeserver that accepts
the connection and does not answer hangs `waitForContainer` (`:816`), in
`dirtyDeploy` with the mutex held, so that all other tests wait; a failure to
remove a container at the end is only logged (`:258-263`); a 2xx answer
without an expected field stores the empty string without an error, and later
requests are sent with it (`runner.go:251-253`); two
concurrent `AddEvent` calls may leave `Depth` below an event of the timeline
(`server_room.go:103`); a create request of homerunner that fails or finds its
name taken leaves its containers running without a timer (`setup.go:55`);
destroying a deployment leaves its network (`setup.go:84`); the networks of a
run that died are not removed by the next run, whose RunID differs
(`builder.go:83`, against `test_package.go:107`); concurrent runs share the
name of the container a homeserver is built in and remove each other's
(`builder.go:415`, against `config.go:105`); after a failed commit
(`builder.go:347`), and with a kept blueprint after a crash between two commits,
`ConstructBlueprintIfNotExist` sees the images of the other homeservers and
the test deploys an incomplete blueprint (`builder.go:180`); a
request that cannot be formed ends its set and `Run` returns no error
(`runner.go:277`, against `:152`); in best-effort mode a request without a
response panics at `runner.go:217`, before the test for nil that `:225`
explains, and a failed login erases the user's token (`:253`); a room without
creator and ref makes `Run` build no rooms and return no error (`:473`).

In `FederationJoin`: a handler panics at `server_room.go:237` when calls
overlap with it between its two copies (`:212`, `:217`: an event is added and
superseded there, which takes three goroutines, one more than the run has),
when an event came
before its auth events, and, in a room that was joined, once an auth event has
been superseded, because `PopulateFromSendJoinResponse` drops the auth chain
(`:496`). The filter of a partial-state join compares two pointers (`:511`), so
it drops every membership. `MustLeaveRoom` for a room the server does not
know calls `AddEvent` on nil (`server.go:579`), in the case its comment
(`:539`) names. A PDU for a room that is not stored yet is dropped with a 200
and no result; a PDU that cannot be parsed may panic in the log message
(`handle.go:558`). A second join or a knock replaces the room, and a leave
installs the one it captured again (`server.go:580`).

In `SharedDeployment`: a write of the `HS` map while a test reads it may end the
process (`test_package.go:217`); servers left stopped or paused, and restarts
that failed half way, are handed on to later tests; two restarts of one server
that overlap can leave its URL stale, and so can a restart for a client that is
being made (`deployment.go:83` reads the clients without their mutex).

In `SyncUntil`: `SendEventSynced` starts from an initial sync
(`client.go:469`), so an event that a limited timeline leaves out times out.
Not in the model, whose retried requests have no body: one with a body fails
when it is retried, since the first attempt has consumed it (`client.go:684`,
`:808`).

## 4. Proofs

Each `...Proofs` module proves `Spec => []Inv` for the inductive invariant of
its component, for every value of the constants that satisfies the module's
`ASSUME`, and derives the named properties from it.

* `ServerRoomProofs`: `RoomInvariant`, `NoWakeupIsLost`, `RoomImplementsSignal`.
  `NoLostWakeup` alone is not inductive: `InformWaiters` releases only the
  waiters in the map, so `WaiterInv` adds that an unfinished registered waiter
  is in the entry of its event, that the waiter between lock and scan holds
  `TimelineMutex` (so no event is appended between its registration and its
  scan), and that a goroutine past the append has its event in the timeline.
  `RoomImplementsSignal` is the refinement: with `WaiterInv`, `WaitReturn` is a
  return of `EventSignal`, since only waiters of present events are finished,
  and every other step adds an event, makes a waiter or stutters.
  `CallsInvariant`, `RoomIsItsTimeline` and `CreatedIsAbovePrev` are about calls
  that do not overlap. `RoomReflectsTimeline` speaks of the moments between
  calls; `CallsInv` says for every point inside `AddEvent` which field is ahead
  of or behind the timeline and that its one caller will settle it. `HasLast`
  (a tuple in the timeline has a last place) is part of the invariant: it is
  kept by `Append`, where the new place is the last.
* `DeployerProofs`: `DeployInvariant`, `DeployWaitsForAll`,
  `DeployLeavesNoStray`, `DeployNamesDistinct`. `wg` is tied to the cardinality of the set of
  goroutines inside `deployImg`, `counter` to the set of those that took a
  name; distinct names follow from names being at most the counter. That no
  container is left holds although a failing call may have made one whose ID is
  unknown: a goroutine gives up only from the cleanup, which finds the container
  by name. Needs `Images` finite.
* `FederationProofs`, about `FederationJoin`: `FederationInvariant` and from it
  `RoomsStayTyped`, `ChainsAreComplete`, `PanicsHaveACause` and `JoinsAgree`, for
  any servers, users, configurations, batches and number of overlapping calls,
  from `JoinAssumption`. `FederationInv` has two halves. `CoreInv` holds
  whatever overlaps: events refer to earlier events, a room holds events and
  has each state event under its own tuple, what a call has copied is of the
  events there are, and a chain that was walked is closed. The other half is about a call
  that nothing overlaps with: `AloneInv` says that all others are idle, so every
  step is its own (`AloneParts`); `MadeStored` that a state event of a made room
  is in its timeline unless its caller is between the two writes; `CopyInv` that
  the walk starts from events of the timeline; `StageInv` what the rooms and the
  response have in common at each step of a join. `JoinedView` and
  `PanicsExplained` are not inductive without them. That `AuthChainForEvents`
  computes the auth chain is `ChainCorrect`, an induction over the iterations of
  its loop: everything before the position of the queue has its auth events
  in the chain, the queue holds the given events and the chain, no event is
  in the chain twice, so the loop has run out after as many iterations as there
  are given events and events (`InjectiveLen`). `NoPanic` is the same induction for a
  set of known events that is closed under auth events.
* `FederationProofs`, about `FederationServer`: `ServerInvariant`,
  `NoNameIsReused`, `AttemptsNeverRunOut`, `HandedOutNamesStay`. The argument is that
  `lastUsedPort` of a process only grows and bounds every port it gave out;
  attempts are bounded by the distance from `FirstPort`. (The two modules share
  no state; their specifications are `Spec` and `ServerSpec`.)
* `HomerunnerProofs`: `RuntimeInvariant`, `AckedStaysTracked`,
  `NoTimerIsLeftArmed`. The two maps are equal and a registered deployment's
  timer is armed or has fired.
* `BuilderProofs`: `BuilderTypes` and `TestNetworkIsSafe`. The latter needs
  that a run in its test has a container on its network and that networks are
  removed only by their own run. `SerialRuns`, with `EndIsClean` and
  `StartIsClean`: in an orderly environment (the runs of a package follow one
  another, and removals succeed) a run is alone, so past its
  `removeContainers` and `removeImages` the containers and images are its own,
  and only its own steps add to them; what a crashed run left is gone before
  the next one is ready. `TestHasWholeBlueprint` needs `WholeInv`, which
  follows the images of a blueprint through the commit loop: none before it, at
  homeserver n those of the homeservers below n, all or none outside it.
* `InstructionRunnerProofs`: `RunnerInvariant`, `PhasesDoNotOverlap`,
  `SetsStopSoon`, `SuccessIsReal`, for any phases, sets and requests. `wg` is
  tied to the number of goroutines that have not called `Done`. That no error
  means success needs `ProgressInv`: a goroutine has executed every request
  before its position, and one that is over has executed its set or left
  `resErr`; `terminate` implies `resErr`, so a set that stops early is never
  the only one to know. A set in flight has `late = 0`, which bounds what it
  can still complete. `RequestsFollowSets` reduces `RequestsInOrder` to
  `SetsInOrder`, a condition on the sets alone: every key that a request needs is
  stored by the runner by its phase, by an earlier request of its set, or by a
  request of an earlier phase that can be formed. That `InstructionSets` yields
  such sets is evaluated by TLC for the blueprints of the runs
  (`BlueprintsInOrder`); it fails for a blueprint that names a user or a room
  it does not make. `LookupInv` says that a key that was stored stays stored (as
  the empty string if a 2xx answer lacked the field), so what was answered is
  still there when a later request is formed.
* `SharedDeploymentProofs`: `SharedInvariant`, `ServedStaysServed`,
  `ExitCodeIsTrue`, for any number of tests, servers and operations. `Served`
  needs `ScaledInOrder`: the deployed servers are hs1 .. hsn, so that their
  number, which `dirtyDeploy` compares with what a test wants, says which they
  are; only the holder of the mutex changes them, and the server it is about to
  store is number n + 1 and has a container. All steps of a served test leave
  the deployment alone (`QuietStep`). `ExitInv` ties `setupFailed` to the tests
  that `Deploy` failed; nothing is claimed about containers that `Cleanup` could
  not remove. `FollowInvariant` and `ClientsFollowPorts`: between
  `ContainerStart` and `Repoint` the URL and the clients of a server are behind
  its port, so `ClientsFollow` is not inductive. `FollowInv` adds that at most
  one test carries the port of an undisturbed server, that the URL it carries
  is that port, that nobody else is behind once it has written the URL, and
  that tests and clients are those of deployed servers. Two tests that restart
  the same server at once make it disturbed, as in the property.
* `SyncUntilProofs`: `CallInvariant`, `TokenIsDelivered`, `ChecksAreSettled`, for
  any stream, calls, timeout and answers of the server, from `UntilAssumption`:
  the calls have the shape `TestCalls` gives them. In these proofs the check
  functions and the conditions stay uninterpreted.
  `TokenInv` adds to `TokenMeansDelivered` that every window of a chain ends at
  or behind the token (an empty one says nothing about the updates, and would
  be able to overlap a later one) and that the token is at the start before the
  first sync. `SettledInv` follows the checks through the loop in which they are
  removed: those before index `i` have seen the last response, those from `i`
  on all but that one, and no check is gone that is not satisfied. Removing
  element `i` without stepping `i` is what keeps this (`LookPasses`). Two equal
  checks of a call are allowed for. `ChecksJudgeRight` is about the check
  functions: for each path that they look under it is shown which updates a
  response to any window of any stream has there, in particular where a
  membership goes that is in force at the end of the window (`InForceTold`: to
  the timeline or, cut off by the limit, to the state); then each function is
  compared with what it asks for (`TimelineJudged` to `MembershipJudged`).
  Nothing but `CallInv` is needed of the test.

Induction. The theorems of the library that take a predicate cannot be used, so
induction is done on sets of numbers: `HasLeast` (from the well-foundedness of
`<`) and `AllNumbers` (a set that contains 0 and with every number the next one
contains all). The loop of `AuthChainForEvents` is a recursive function on
numbers, of which `WalkDefined` and `WalkFunction` show by this that it
satisfies its equations.

Only model-checked: the liveness properties (`WaiterFinishes`,
`DeployTerminates`, `ListenTerminates`, `ExpiryTearsDown`,
`ConstructTerminates`, `RunReturns`, `CallEnds`, `PackageEnds`), which are out of
the prover's reach, and what `InstructionSets`, whose operators are recursive,
computes for a given blueprint. Every other property of a passing run is a theorem.

Every inductive invariant was checked by TLC before it was proved, on the
instances of the runs (with at most 4 calls and one waiter for `CallsInv`, and 3
operations for `FollowInv`).

## 5. Not modelled

The test suites under `tests/` test other programs. Configuration parsing,
blueprint validation, matchers and assertions are pure functions without
state. The account snapshot, perf, coverage and documentation tools are batch
jobs that read and write files. Of the client, the helpers that are one
request each are left out; of the federation server, aliases, keys and the
handlers that only answer. Contents of events, signatures, TLS, HTTP bodies and
log lines are abstracted away.

## 6. Plan

What could follow, in this order:

1. An atomic registry of deployments that `Homerunner` implements, with the
   proof of the refinement from `RuntimeInv`.
2. Pure operators: `Blueprint.Validate`, the size parser of the configuration,
   the matchers of `match/json.go`.
3. A condition on the sequence of calls (no event before its auth events) under
   which no room of `FederationJoin` has a gap, so that `PanicsExplained` can be
   sharpened to joined rooms and overlapping calls.
