------------------------------ MODULE Builder ------------------------------
(***************************************************************************)
(* The docker objects of a blueprint over the life of test runs: the       *)
(* Builder (cleanup, construction and commit of the images of a blueprint) *)
(* and the way a TestPackage uses it around Deploy and Destroy.            *)
(*                                                                         *)
(* A run is a process with a configuration, and so a RunID, of its own.    *)
(* All runs share one docker daemon, one package namespace and one         *)
(* blueprint, whose homeservers are 1 .. NumHS.  Images and containers are *)
(* found by package, networks by package and RunID, and the container a    *)
(* homeserver is built in by its name, which has no RunID.                 *)
(*                                                                         *)
(* What Deploy does inside is the business of Deployer; here it is one     *)
(* step that deploys the images it lists, or fails.                        *)
(***************************************************************************)
EXTENDS Naturals, FiniteSets

CONSTANTS
  Runs,          \* test processes, or homerunner requests
  NumHS,         \* homeservers of the blueprint
  NoRun,         \* a container name that is free
  MaxAttempts,   \* of deployImage (3)
  Environments   \* the circumstances of the runs: records, see below

ASSUME BuilderAssumption ==
  /\ NoRun \notin Runs
  /\ NumHS \in Nat \ {0} /\ MaxAttempts \in Nat \ {0}
  /\ Environments \subseteq
       [runs : SUBSET Runs,        \* bound: the runs that start
        live : Nat \ {0},          \* bound: runs alive at the same time
        keep : BOOLEAN,            \* COMPLEMENT_KEEP_BLUEPRINTS has the blueprint
        commitFails : BOOLEAN,     \* ContainerCommit may fail
        removalFails : BOOLEAN,    \* removals of Cleanup may fail half way
        crashes : BOOLEAN]         \* runs may die

HS == 1 .. NumHS

VARIABLES
  env,        \* the environment, chosen once
  pc,         \* per run
  hs,         \* per run: the homeserver construct works on
  attempt,    \* per run: attempt of deployImage
  errs,       \* per run: construct has collected an error
  images,     \* <<r, h>>: run r committed an image of homeserver h
  buildCont,  \* per homeserver: the run whose container has the build name
  testCont,   \* <<r, k>>: containers of run r's current deployment (k = "dep")
              \* or left by a Deploy that failed (k = "left")
  networks,   \* runs whose network of the blueprint exists
  deployed,   \* per run: the homeservers of the deployment under test
  hung        \* the runs in a call that does not return

runVars == <<pc, hs, attempt, errs, images, buildCont, testCont, networks, deployed>>
vars == <<env, runVars, hung>>

StartStages == {"start_containers", "start_images", "start_networks"}
EndStages == {"end_containers", "end_images", "end_networks"}
PCs == StartStages \cup EndStages \cup
  {"off", "ready", "create", "starting", "commit", "list", "deploy", "test", "exited", "dead"}

TypeOK ==
  /\ env \in Environments
  /\ pc \in [Runs -> PCs]
  /\ hs \in [Runs -> HS]
  /\ attempt \in [Runs -> 1 .. MaxAttempts]
  /\ errs \in [Runs -> BOOLEAN]
  /\ images \subseteq Runs \X HS
  /\ buildCont \in [HS -> Runs \cup {NoRun}]
  /\ testCont \subseteq Runs \X {"dep", "left"}
  /\ networks \subseteq Runs
  /\ deployed \in [Runs -> SUBSET HS]
  /\ hung \subseteq Runs

Live(r) == pc[r] \notin {"off", "exited", "dead"}

Init ==
  /\ env \in Environments
  /\ pc = [r \in Runs |-> "off"]
  /\ hs = [r \in Runs |-> 1]
  /\ attempt = [r \in Runs |-> 1]
  /\ errs = [r \in Runs |-> FALSE]
  /\ images = {}
  /\ buildCont = [h \in HS |-> NoRun]
  /\ testCont = {}
  /\ networks = {}
  /\ deployed = [r \in Runs |-> {}]
  /\ hung = {}

-----------------------------------------------------------------------------
(* Cleanup, at the start of a run (NewTestPackage) and at its end *)

\* Mutant: the networks are forgotten at the end of a run.
AfterStageForgetsNetworks(p) ==
  CASE p = "start_containers" -> "start_images"
    [] p = "start_images" -> "start_networks"
    [] p = "start_networks" -> "ready"
    [] p = "end_containers" -> "end_images"
    [] p \in {"end_images", "end_networks"} -> "exited"

\* The order of the stages.
AfterStage(p) ==
  CASE p = "start_containers" -> "start_images"
    [] p = "start_images" -> "start_networks"
    [] p = "start_networks" -> "ready"
    [] p = "end_containers" -> "end_images"
    [] p = "end_images" -> "end_networks"
    [] p = "end_networks" -> "exited"

\* What a loop of removals may leave of a set: it stops at the first error.
Remains(S) == IF env.removalFails THEN SUBSET S ELSE {{}}

\* Mutant: only the containers of the run are found.
CleanupContainersOfRun(r) ==
  /\ pc[r] \in {"start_containers", "end_containers"}
  /\ pc' = [pc EXCEPT ![r] = AfterStage(@)]
  /\ buildCont' = [h \in HS |-> IF buildCont[h] = r THEN NoRun ELSE buildCont[h]]
  /\ testCont' = {c \in testCont : c[1] # r}
  /\ UNCHANGED <<hs, attempt, errs, images, networks, deployed>>

\* removeContainers: every container of the package, of any run.
CleanupContainers(r) ==
  /\ pc[r] \in {"start_containers", "end_containers"}
  /\ pc' = [pc EXCEPT ![r] = AfterStage(@)]
  /\ \E left \in Remains({h \in HS : buildCont[h] # NoRun}) :
       buildCont' = [h \in HS |-> IF h \in left THEN buildCont[h] ELSE NoRun]
  /\ testCont' \in Remains(testCont)
  /\ UNCHANGED <<hs, attempt, errs, images, networks, deployed>>

\* Mutant: images are not removed.
CleanupImagesSkipped(r) ==
  /\ pc[r] \in {"start_images", "end_images"}
  /\ pc' = [pc EXCEPT ![r] = AfterStage(@)]
  /\ UNCHANGED <<hs, attempt, errs, images, buildCont, testCont, networks, deployed>>

\* removeImages: every image of the package, unless its blueprint is kept.
CleanupImages(r) ==
  /\ pc[r] \in {"start_images", "end_images"}
  /\ pc' = [pc EXCEPT ![r] = AfterStage(@)]
  /\ images' \in IF env.keep THEN {images} ELSE Remains(images)
  /\ UNCHANGED <<hs, attempt, errs, buildCont, testCont, networks, deployed>>

\* Mutant: networks are found by package only.
NetworksLeftByNobody(r) == {}

\* removeNetworks: the networks of this RunID; docker refuses to remove a
\* network with running containers.  Build containers are stopped by then.
NetworksLeft(r) ==
  IF \E c \in testCont : c[1] = r THEN networks ELSE networks \ {r}

CleanupNetworks(r) ==
  /\ pc[r] \in {"start_networks", "end_networks"}
  /\ pc' = [pc EXCEPT ![r] = AfterStage(@)]
  /\ networks' \in {NetworksLeft(r)} \cup (IF env.removalFails THEN {networks} ELSE {})
  /\ UNCHANGED <<hs, attempt, errs, images, buildCont, testCont, deployed>>

Start(r) ==
  /\ pc[r] = "off"
  /\ r \in env.runs
  /\ Cardinality({x \in Runs : Live(x)}) < env.live
  /\ pc' = [pc EXCEPT ![r] = "start_containers"]
  /\ UNCHANGED <<hs, attempt, errs, images, buildCont, testCont, networks, deployed>>

\* The last test is over: TestPackage.Cleanup.
Finish(r) ==
  /\ pc[r] = "ready"
  /\ pc' = [pc EXCEPT ![r] = "end_containers"]
  /\ UNCHANGED <<hs, attempt, errs, images, buildCont, testCont, networks, deployed>>

\* The process is killed.
Crash(r) ==
  /\ env.crashes
  /\ Live(r)
  /\ pc' = [pc EXCEPT ![r] = "dead"]
  /\ UNCHANGED <<hs, attempt, errs, images, buildCont, testCont, networks, deployed>>

-----------------------------------------------------------------------------
(* ConstructBlueprintIfNotExist *)

\* Some image of the blueprint exists: nothing is built.
BlueprintExists(r) ==
  /\ pc[r] = "ready"
  /\ images # {}
  /\ pc' = [pc EXCEPT ![r] = "deploy"]
  /\ UNCHANGED <<hs, attempt, errs, images, buildCont, testCont, networks, deployed>>

\* None exists: construct makes the network and starts with the first one.
ConstructBegins(r) ==
  /\ pc[r] = "ready"
  /\ images = {}
  /\ networks' = networks \cup {r}
  /\ pc' = [pc EXCEPT ![r] = "create"]
  /\ hs' = [hs EXCEPT ![r] = 1]
  /\ attempt' = [attempt EXCEPT ![r] = 1]
  /\ errs' = [errs EXCEPT ![r] = FALSE]
  /\ UNCHANGED <<images, buildCont, testCont, deployed>>

\* Mutant: failed attempts are not counted.
RetryForever(r) ==
  /\ pc' = [pc EXCEPT ![r] = "create"]
  /\ UNCHANGED attempt

\* deployImage retries, or gives up and fails the test.
RetryOrFail(r) ==
  IF attempt[r] < MaxAttempts
    THEN /\ attempt' = [attempt EXCEPT ![r] = @ + 1]
         /\ pc' = [pc EXCEPT ![r] = "create"]
    ELSE /\ pc' = [pc EXCEPT ![r] = "ready"]
         /\ UNCHANGED attempt

\* The build name is taken: ContainerCreate fails, which is retryable, and
\* removeContainersByName removes whatever container has the name.
BaseNameTaken(r) ==
  /\ pc[r] = "create"
  /\ buildCont[hs[r]] # NoRun
  /\ buildCont' = [buildCont EXCEPT ![hs[r]] = NoRun]
  /\ RetryOrFail(r)
  /\ UNCHANGED <<hs, errs, images, testCont, networks, deployed>>

BaseCreated(r) ==
  /\ pc[r] = "create"
  /\ buildCont[hs[r]] = NoRun
  /\ buildCont' = [buildCont EXCEPT ![hs[r]] = r]
  /\ pc' = [pc EXCEPT ![r] = "starting"]
  /\ UNCHANGED <<hs, attempt, errs, images, testCont, networks, deployed>>

\* The run's own container, removed by its ID.
RemoveOwn(r) ==
  buildCont' = [buildCont EXCEPT ![hs[r]] = IF @ = r THEN NoRun ELSE @]

\* The homeserver does not come up; retryable.
BaseAttemptFails(r) ==
  /\ pc[r] = "starting"
  /\ RemoveOwn(r)
  /\ RetryOrFail(r)
  /\ UNCHANGED <<hs, errs, images, testCont, networks, deployed>>

\* An error that is not retried, also of the instructions: the container is
\* removed and construct returns at once; the network stays.
HomeserverFails(r) ==
  /\ pc[r] = "starting"
  /\ RemoveOwn(r)
  /\ pc' = [pc EXCEPT ![r] = "ready"]
  /\ UNCHANGED <<hs, attempt, errs, images, testCont, networks, deployed>>

\* The homeserver is up and has run its instructions.
HomeserverBuilt(r) ==
  /\ pc[r] = "starting"
  /\ buildCont[hs[r]] = r
  /\ attempt' = [attempt EXCEPT ![r] = 1]
  /\ IF hs[r] < NumHS
       THEN hs' = [hs EXCEPT ![r] = @ + 1] /\ pc' = [pc EXCEPT ![r] = "create"]
       ELSE hs' = [hs EXCEPT ![r] = 1] /\ pc' = [pc EXCEPT ![r] = "commit"]
  /\ UNCHANGED <<errs, images, buildCont, testCont, networks, deployed>>

\* The loop that commits the containers goes on after an error; errors make
\* ConstructBlueprint fail after the loop, before removeNetworks.
AfterCommit(r, failed) ==
  /\ errs' = [errs EXCEPT ![r] = @ \/ failed]
  /\ IF hs[r] < NumHS
       THEN hs' = [hs EXCEPT ![r] = @ + 1] /\ UNCHANGED pc
       ELSE hs' = hs /\ pc' = [pc EXCEPT ![r] = IF errs'[r] THEN "ready" ELSE "list"]

CommitSucceeds(r) ==
  /\ pc[r] = "commit"
  /\ buildCont[hs[r]] = r
  /\ images' = images \cup {<<r, hs[r]>>}
  /\ AfterCommit(r, FALSE)
  /\ UNCHANGED <<attempt, buildCont, testCont, networks, deployed>>

\* ContainerCommit fails, or somebody removed the container.
CommitFailure(r) ==
  /\ pc[r] = "commit"
  /\ env.commitFails \/ buildCont[hs[r]] # r
  /\ AfterCommit(r, TRUE)
  /\ UNCHANGED <<attempt, images, buildCont, testCont, networks, deployed>>

\* The images show up in the list within five seconds, or they do not.  An
\* error of ImageList is returned before removeNetworks.
ListImages(r) ==
  /\ pc[r] = "list"
  /\ \/ /\ networks' = NetworksLeft(r)
        /\ pc' = [pc EXCEPT ![r] = IF Cardinality(images) >= NumHS THEN "deploy" ELSE "ready"]
     \/ networks' = networks /\ pc' = [pc EXCEPT ![r] = "ready"]
  /\ UNCHANGED <<hs, attempt, errs, images, buildCont, testCont, deployed>>

-----------------------------------------------------------------------------
(* The test: Deploy, run, Destroy *)

\* Every image in the list is deployed, by homeserver name.
DeploySucceeds(r) ==
  /\ pc[r] = "deploy"
  /\ images # {}
  /\ networks' = networks \cup {r}
  /\ testCont' = testCont \cup {<<r, "dep">>}
  /\ deployed' = [deployed EXCEPT ![r] = {i[2] : i \in images}]
  /\ pc' = [pc EXCEPT ![r] = "test"]
  /\ UNCHANGED <<hs, attempt, errs, images, buildCont>>

\* No images, or an image that does not come up: the test fails, and the
\* containers of the other images stay.
DeployFails(r) ==
  /\ pc[r] = "deploy"
  /\ pc' = [pc EXCEPT ![r] = "ready"]
  /\ IF images = {}
       THEN UNCHANGED <<networks, testCont>>
       ELSE /\ networks' = networks \cup {r}
            /\ testCont' \in {testCont, testCont \cup {<<r, "left">>}}
  /\ UNCHANGED <<hs, attempt, errs, images, buildCont, deployed>>

\* The test is over: Destroy removes the containers of its deployment.
TestEnds(r) ==
  /\ pc[r] = "test"
  /\ testCont' = testCont \ {<<r, "dep">>}
  /\ deployed' = [deployed EXCEPT ![r] = {}]
  /\ pc' = [pc EXCEPT ![r] = "ready"]
  /\ UNCHANGED <<hs, attempt, errs, images, buildCont, networks>>

-----------------------------------------------------------------------------
CleanupStep(r) == CleanupContainers(r) \/ CleanupImages(r) \/ CleanupNetworks(r)

ConstructStep(r) ==
  \/ BaseNameTaken(r) \/ BaseCreated(r) \/ BaseAttemptFails(r) \/ HomeserverFails(r)
  \/ HomeserverBuilt(r) \/ CommitSucceeds(r) \/ CommitFailure(r) \/ ListImages(r)

TestStep(r) ==
  BlueprintExists(r) \/ ConstructBegins(r) \/ DeploySucceeds(r) \/ DeployFails(r) \/ TestEnds(r)

RunStep(r) ==
  Start(r) \/ CleanupStep(r) \/ ConstructStep(r) \/ TestStep(r) \/ Finish(r) \/ Crash(r)

\* A call of a construction does not return: docker calls have no deadline
\* (context.Background), nor has the GET of waitForContainer (deployer.go:816).
\* Whether it took effect is whether this comes after its step or before it.
CallHangs(r) ==
  /\ pc[r] \in {"create", "starting", "commit", "list"}
  /\ r \notin hung
  /\ hung' = hung \cup {r}
  /\ UNCHANGED <<env, runVars>>

\* A run that hangs can only be killed.
Next ==
  \/ /\ \E r \in Runs : RunStep(r) /\ (r \in hung => pc'[r] = "dead")
     /\ UNCHANGED <<env, hung>>
  \/ \E r \in Runs : CallHangs(r)

Spec == Init /\ [][Next]_vars

\* A run that constructs a blueprint waits for calls only, and goes on when they
\* return; those that never return are CallHangs.
FairSpec == Spec /\ \A r \in Runs : WF_runVars(r \notin hung /\ ConstructStep(r))

-----------------------------------------------------------------------------
(* Properties *)

\* Runs follow one another and docker removes what it is told to remove.
Orderly == env.live = 1 /\ ~env.removalFails

\* "Deploy will deploy the given blueprint or terminate the test"
\* (test_package.go:131): a test that runs has every homeserver of its
\* blueprint, whatever earlier tests and runs left behind.  Excepted are a
\* commit that fails and a kept blueprint whose construction died: the images
\* of the other homeservers make the blueprint look built.
DeploysWholeBlueprint ==
  (Orderly /\ ~env.commitFails /\ ~env.keep) =>
    \A r \in Runs : pc[r] = "test" => deployed[r] = HS

\* A run that ends by Cleanup leaves no network, no container and, unless
\* they are kept, no image of its own, whatever failed on the way.
CleanEnd ==
  Orderly => \A r \in Runs : pc[r] = "exited" =>
    /\ r \notin networks
    /\ \A c \in testCont : c[1] # r
    /\ \A h \in HS : buildCont[h] # r
    /\ env.keep \/ \A i \in images : i[1] # r

\* "remove any old images/containers/networks in case we died horribly
\* before" (test_package.go:107), for containers and images: a run that is
\* ready finds none of a run that is dead.
StartsWithoutRemains ==
  Orderly => \A r, x \in Runs : (pc[r] = "ready" /\ pc[x] = "dead") =>
    /\ \A c \in testCont : c[1] # x
    /\ \A h \in HS : buildCont[h] # x
    /\ env.keep \/ \A i \in images : i[1] # x

\* "two concurrent Complement runs sharing the same package namespace and
\* blueprint ... must not resolve to the same docker network"
\* (builder.go:442-445): a run that tests keeps its network, whatever other
\* runs build and clean up in the meantime.
TestKeepsNetwork == \A r \in Runs : pc[r] = "test" => r \in networks

\* The construction of a blueprint ends, with images or with a failed test,
\* even if runs remove each other's containers and each has to build again
\* (builder.go:415, deployer.go:373), unless a call it makes never returns.
ConstructTerminates ==
  \A r \in Runs : pc[r] = "create" ~> (pc[r] \in {"deploy", "ready", "dead"} \/ r \in hung)
=============================================================================
