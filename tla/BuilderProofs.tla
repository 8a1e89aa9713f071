--------------------------- MODULE BuilderProofs ---------------------------
(***************************************************************************)
(* For any number of runs and homeservers: networks are run-scoped, so no  *)
(* run can remove the network of a test that another run executes; and     *)
(* runs that follow one another start without the remains of runs that     *)
(* died, test whole blueprints and leave nothing behind.                   *)
(***************************************************************************)
EXTENDS Builder, FiniteSetTheorems, TLAPS

USE BuilderAssumption

\* Loops of removals leave a subset.
LEMMA RemainsSubset == ASSUME NEW S, NEW x \in Remains(S) PROVE x \subseteq S
  BY DEF Remains

\* removeNetworks takes at most the network of its own run.
LEMMA NetworksLeftOwn ==
  ASSUME NEW r PROVE networks \ {r} \subseteq NetworksLeft(r) /\ NetworksLeft(r) \subseteq networks
  BY DEF NetworksLeft

\* The stages of Cleanup end in "ready" or in "exited".
LEMMA AfterStageType ==
  ASSUME NEW p \in StartStages \cup EndStages
  PROVE  AfterStage(p) \in PCs /\ AfterStage(p) # "test"
  BY DEF StartStages, EndStages, PCs, AfterStage

\* Nothing exists and no run has started.
LEMMA InitTypes == Init => TypeOK
  BY DEF Init, TypeOK, PCs, HS

\* Cleanup keeps the types.
LEMMA CleanupTypes ==
  ASSUME TypeOK, env' = env, hung' \subseteq Runs, NEW r \in Runs, CleanupStep(r)
  PROVE  TypeOK'
<1>1. CASE CleanupContainers(r)
  <2>1. pc' \in [Runs -> PCs]
    BY <1>1, AfterStageType DEF CleanupContainers, TypeOK, StartStages, EndStages
  <2>2. buildCont' \in [HS -> Runs \cup {NoRun}]
    BY <1>1 DEF CleanupContainers, TypeOK
  <2>3. testCont' \subseteq Runs \X {"dep", "left"}
    BY <1>1, RemainsSubset DEF CleanupContainers, TypeOK
  <2>4. QED
    BY <1>1, <2>1, <2>2, <2>3 DEF CleanupContainers, TypeOK
<1>2. CASE CleanupImages(r)
  <2>1. pc' \in [Runs -> PCs]
    BY <1>2, AfterStageType DEF CleanupImages, TypeOK, StartStages, EndStages
  <2>2. images' \subseteq images
    BY <1>2, RemainsSubset DEF CleanupImages
  <2>3. QED
    BY <1>2, <2>1, <2>2 DEF CleanupImages, TypeOK
<1>3. CASE CleanupNetworks(r)
  <2>1. pc' \in [Runs -> PCs]
    BY <1>3, AfterStageType DEF CleanupNetworks, TypeOK, StartStages, EndStages
  <2>2. networks' \subseteq networks
    BY <1>3, NetworksLeftOwn DEF CleanupNetworks
  <2>3. QED
    BY <1>3, <2>1, <2>2 DEF CleanupNetworks, TypeOK
<1>4. QED
  BY <1>1, <1>2, <1>3 DEF CleanupStep

\* A retry stays within the attempts.
LEMMA RetryTypes ==
  ASSUME TypeOK, NEW r \in Runs, RetryOrFail(r)
  PROVE  pc' \in [Runs -> PCs] /\ attempt' \in [Runs -> 1 .. MaxAttempts]
<1>1. attempt[r] \in 1 .. MaxAttempts
  BY DEF TypeOK
<1>2. CASE attempt[r] < MaxAttempts
  <2>1. attempt[r] + 1 \in 1 .. MaxAttempts
    BY <1>1, <1>2
  <2>2. QED
    BY <1>2, <2>1 DEF RetryOrFail, TypeOK, PCs
<1>3. CASE ~(attempt[r] < MaxAttempts)
  BY <1>3 DEF RetryOrFail, TypeOK, PCs
<1>4. QED
  BY <1>2, <1>3

\* The loop over the homeservers stays within the blueprint.
LEMMA HSTypes ==
  /\ 1 \in HS
  /\ \A h \in HS : h < NumHS => h + 1 \in HS
  /\ 1 \in 1 .. MaxAttempts
  BY DEF HS

\* Construction keeps the types.
LEMMA ConstructTypes ==
  ASSUME TypeOK, env' = env, hung' \subseteq Runs, NEW r \in Runs, ConstructStep(r)
  PROVE  TypeOK'
<1>0. hs[r] \in HS
  BY DEF TypeOK
<1>1. CASE BaseNameTaken(r)
  BY <1>0, <1>1, RetryTypes DEF BaseNameTaken, TypeOK
<1>2. CASE BaseCreated(r)
  BY <1>0, <1>2 DEF BaseCreated, TypeOK, PCs
<1>3. CASE BaseAttemptFails(r)
  BY <1>0, <1>3, RetryTypes DEF BaseAttemptFails, RemoveOwn, TypeOK
<1>4. CASE HomeserverFails(r)
  BY <1>0, <1>4 DEF HomeserverFails, RemoveOwn, TypeOK, PCs
<1>5. CASE HomeserverBuilt(r)
  BY <1>0, <1>5, HSTypes DEF HomeserverBuilt, TypeOK, PCs
<1>6. ASSUME NEW failed \in BOOLEAN, AfterCommit(r, failed)
      PROVE  /\ hs' \in [Runs -> HS] /\ pc' \in [Runs -> PCs]
             /\ errs' \in [Runs -> BOOLEAN]
  <2>1. errs' \in [Runs -> BOOLEAN]
    BY <1>6, Zenon DEF AfterCommit, TypeOK
  <2>2. hs' \in [Runs -> HS]
    BY <1>0, <1>6, HSTypes DEF AfterCommit, TypeOK
  <2>3. (IF errs'[r] THEN "ready" ELSE "list") \in PCs
    BY DEF PCs
  <2>4. pc' \in [Runs -> PCs]
    BY <1>6, <2>3 DEF AfterCommit, TypeOK
  <2>5. QED
    BY <2>1, <2>2, <2>4
<1>7. CASE CommitSucceeds(r)
  <2>1. AfterCommit(r, FALSE)
    BY <1>7 DEF CommitSucceeds
  <2>2. /\ hs' \in [Runs -> HS] /\ pc' \in [Runs -> PCs]
        /\ errs' \in [Runs -> BOOLEAN]
    BY <1>6, <2>1
  <2>3. images' \subseteq Runs \X HS
    BY <1>0, <1>7 DEF CommitSucceeds, TypeOK
  <2>4. QED
    BY <1>7, <2>2, <2>3 DEF CommitSucceeds, TypeOK
<1>8. CASE CommitFailure(r)
  BY <1>6, <1>8 DEF CommitFailure, TypeOK
<1>9. CASE ListImages(r)
  BY <1>9, NetworksLeftOwn DEF ListImages, TypeOK, PCs
<1>10. QED
  BY <1>1, <1>2, <1>3, <1>4, <1>5, <1>7, <1>8, <1>9 DEF ConstructStep

\* Tests keep the types.
LEMMA TestTypes ==
  ASSUME TypeOK, env' = env, hung' \subseteq Runs, NEW r \in Runs, TestStep(r)
  PROVE  TypeOK'
<1>1. CASE BlueprintExists(r)
  BY <1>1 DEF BlueprintExists, TypeOK, PCs
<1>2. CASE ConstructBegins(r)
  BY <1>2, HSTypes DEF ConstructBegins, TypeOK, PCs
<1>3. CASE DeploySucceeds(r)
  <2>1. {i[2] : i \in images} \subseteq HS
    BY DEF TypeOK
  <2>2. QED
    BY <1>3, <2>1 DEF DeploySucceeds, TypeOK, PCs
<1>4. CASE DeployFails(r)
  BY <1>4 DEF DeployFails, TypeOK, PCs
<1>5. CASE TestEnds(r)
  BY <1>5 DEF TestEnds, TypeOK, PCs
<1>6. QED
  BY <1>1, <1>2, <1>3, <1>4, <1>5 DEF TestStep

\* The type invariant of the builder.
THEOREM BuilderTypes == Spec => []TypeOK
<1>1. TypeOK /\ [Next]_vars => TypeOK'
  <2> SUFFICES ASSUME TypeOK, [Next]_vars PROVE TypeOK'
    OBVIOUS
  <2>0. env' = env /\ hung' \subseteq Runs
    BY DEF Next, CallHangs, vars, TypeOK
  <2>1. ASSUME NEW r \in Runs, Start(r) \/ Finish(r) \/ Crash(r) PROVE TypeOK'
    BY <2>0, <2>1 DEF Start, Finish, Crash, TypeOK, PCs, StartStages, EndStages
  <2>2. ASSUME NEW r \in Runs, CleanupStep(r) \/ ConstructStep(r) \/ TestStep(r) PROVE TypeOK'
    BY <2>0, <2>2, CleanupTypes, ConstructTypes, TestTypes
  <2>3. CASE UNCHANGED <<env, runVars>>
    BY <2>0, <2>3 DEF runVars, TypeOK
  <2>4. QED
    BY <2>1, <2>2, <2>3 DEF Next, RunStep, CallHangs, vars
<1>2. QED
  BY <1>1, InitTypes, PTL DEF Spec

\* A step of a run can take the network of that run only, and leaves it
\* where the run goes on to test.
LEMMA OthersKeepNetwork ==
  ASSUME TypeOK, NEW r \in Runs,
         Start(r) \/ CleanupStep(r) \/ ConstructStep(r) \/ TestStep(r) \/ Finish(r) \/ Crash(r)
  PROVE  /\ \A x \in Runs \ {r} : pc'[x] = pc[x] /\ (x \in networks => x \in networks')
         /\ pc'[r] = "test" => r \in networks'
<1>1. CASE Start(r) \/ Finish(r) \/ Crash(r)
  BY <1>1 DEF Start, Finish, Crash, TypeOK
<1>2. CASE CleanupContainers(r)
  BY <1>2, AfterStageType DEF CleanupContainers, TypeOK, StartStages, EndStages
<1>3. CASE CleanupImages(r)
  BY <1>3, AfterStageType DEF CleanupImages, TypeOK, StartStages, EndStages
<1>4. CASE CleanupNetworks(r)
  BY <1>4, AfterStageType, NetworksLeftOwn DEF CleanupNetworks, TypeOK, StartStages, EndStages
<1>5. CASE BaseNameTaken(r) \/ BaseAttemptFails(r)
  BY <1>5 DEF BaseNameTaken, BaseAttemptFails, RetryOrFail, TypeOK
<1>6. CASE BaseCreated(r) \/ HomeserverFails(r) \/ HomeserverBuilt(r)
  BY <1>6 DEF BaseCreated, HomeserverFails, HomeserverBuilt, TypeOK
<1>7. CASE CommitSucceeds(r) \/ CommitFailure(r)
  BY <1>7 DEF CommitSucceeds, CommitFailure, AfterCommit, TypeOK
<1>8. CASE ListImages(r)
  BY <1>8, NetworksLeftOwn DEF ListImages, TypeOK
<1>9. CASE TestStep(r)
  BY <1>9 DEF TestStep, BlueprintExists, ConstructBegins, DeploySucceeds, DeployFails, TestEnds,
     TypeOK
<1>10. QED
  BY <1>1, <1>2, <1>3, <1>4, <1>5, <1>6, <1>7, <1>8, <1>9 DEF CleanupStep, ConstructStep

\* A test keeps its network whatever other runs build and clean up
\* (builder.go:442-445).
THEOREM TestNetworkIsSafe == Spec => []TestKeepsNetwork
<1>1. Init => TestKeepsNetwork
  BY DEF Init, TestKeepsNetwork
<1>2. TypeOK /\ TestKeepsNetwork /\ [Next]_vars => TestKeepsNetwork'
  <2> SUFFICES ASSUME TypeOK, TestKeepsNetwork, [Next]_vars PROVE TestKeepsNetwork'
    OBVIOUS
  <2>1. ASSUME NEW r \in Runs,
               Start(r) \/ CleanupStep(r) \/ ConstructStep(r) \/ TestStep(r) \/ Finish(r) \/ Crash(r)
        PROVE  TestKeepsNetwork'
    BY <2>1, OthersKeepNetwork DEF TestKeepsNetwork
  <2>2. CASE UNCHANGED <<env, runVars>>
    BY <2>2 DEF runVars, TestKeepsNetwork
  <2>3. QED
    BY <2>1, <2>2 DEF Next, RunStep, CallHangs, vars
<1>3. QED
  BY <1>1, <1>2, BuilderTypes, PTL DEF Spec

-----------------------------------------------------------------------------
(* Runs that follow one another *)

\* Start lets no second run in.
OneAtATime == \A r, x \in Runs : (Live(r) /\ Live(x)) => r = x

\* Past the first removeContainers of a run every container is its own, past
\* the first removeImages every image, and at its end they are gone.
OwnContainers(r) ==
  /\ \A c \in testCont : c[1] = r
  /\ \A h \in HS : buildCont[h] \in {r, NoRun}
OwnImages(r) == env.keep \/ \A i \in images : i[1] = r
NoContainers == testCont = {} /\ \A h \in HS : buildCont[h] = NoRun

OwnObjects(r) ==
  /\ (Live(r) /\ pc[r] # "start_containers") => OwnContainers(r)
  /\ (Live(r) /\ pc[r] \notin {"start_containers", "start_images"}) => OwnImages(r)
  /\ pc[r] \in {"end_images", "end_networks"} => NoContainers
  /\ pc[r] = "end_networks" => (env.keep \/ images = {})

\* What CleanEnd says of a run.
Gone(r) ==
  /\ r \notin networks
  /\ \A c \in testCont : c[1] # r
  /\ \A h \in HS : buildCont[h] # r
  /\ env.keep \/ \A i \in images : i[1] # r

\* The inductive invariant of CleanEnd and StartsWithoutRemains.
SerialInv ==
  Orderly => /\ OneAtATime
             /\ \A r \in Runs : OwnObjects(r)
             /\ \A r \in Runs : pc[r] = "exited" => Gone(r)

\* The images of a run's blueprint, up to a homeserver.
Below(r, n) == {<<r, h>> : h \in {k \in HS : k < n}}
Whole(r) == {<<r, h>> : h \in HS}

\* All or nothing: outside the commit loop a run has no image or has them
\* all, and what it is about to commit is in containers of its own.
AllOrNothing(r) ==
  /\ pc[r] \in {"start_networks", "ready", "deploy", "test"} => (images = {} \/ images = Whole(r))
  /\ pc[r] \in {"create", "starting"} =>
       images = {} /\ errs[r] = FALSE /\ \A h \in HS : h < hs[r] => buildCont[h] = r
  /\ pc[r] = "starting" => buildCont[hs[r]] = r
  /\ pc[r] = "commit" =>
       images = Below(r, hs[r]) /\ errs[r] = FALSE /\ \A h \in HS : buildCont[h] = r
  /\ pc[r] = "list" => images = Whole(r)
  /\ pc[r] = "test" => deployed[r] = HS

\* The inductive invariant of DeploysWholeBlueprint.
WholeInv == (Orderly /\ ~env.commitFails /\ ~env.keep) => \A r \in Runs : AllOrNothing(r)

\* A run that takes a step is the only one, and the others stay where they are.
LEMMA OnlyOneSteps ==
  ASSUME TypeOK, Orderly, OneAtATime, NEW r \in Runs, RunStep(r)
  PROVE  \A x \in Runs \ {r} : ~Live(x) /\ pc'[x] = pc[x]
<1>1. \A x \in Runs \ {r} : pc'[x] = pc[x]
  BY OthersKeepNetwork DEF RunStep
<1>2. CASE Live(r)
  BY <1>1, <1>2 DEF OneAtATime
<1>3. CASE Start(r)
  <2> DEFINE L == {x \in Runs : Live(x)}
  <2>1. Cardinality(L) < 1
    BY <1>3 DEF Start, Orderly
  <2>2. ASSUME NEW y \in Runs, Live(y) PROVE FALSE
    <3>1. L = {y}
      BY <2>2 DEF OneAtATime
    <3>2. Cardinality(L) = 1
      BY <3>1, FS_Singleton
    <3>3. QED
      BY <2>1, <3>2
  <2>3. QED
    BY <1>1, <2>2
<1>4. CASE ~Start(r)
  <2>1. Live(r)
    BY <1>4 DEF RunStep, CleanupStep, ConstructStep, TestStep, CleanupContainers, CleanupImages,
       CleanupNetworks, BaseNameTaken, BaseCreated, BaseAttemptFails, HomeserverFails,
       HomeserverBuilt, CommitSucceeds, CommitFailure, ListImages, BlueprintExists,
       ConstructBegins, DeploySucceeds, DeployFails, TestEnds, Finish, Crash, Live
  <2>2. QED
    BY <1>2, <2>1
<1>5. QED
  BY <1>3, <1>4

\* Where removals do not fail, nothing remains.
LEMMA NothingRemains == ASSUME Orderly, NEW S PROVE Remains(S) = {{}}
  BY DEF Orderly, Remains

\* The containers are gone after removeContainers, whichever run made them.
LEMMA ContainersRemoved ==
  ASSUME Orderly, NEW r \in Runs, CleanupContainers(r) PROVE NoContainers'
<1>1. testCont' = {}
  BY NothingRemains DEF CleanupContainers
<1>2. PICK left \in Remains({h \in HS : buildCont[h] # NoRun}) :
        buildCont' = [h \in HS |-> IF h \in left THEN buildCont[h] ELSE NoRun]
  BY DEF CleanupContainers
<1>3. left = {}
  BY <1>2, NothingRemains
<1>4. QED
  BY <1>1, <1>2, <1>3 DEF NoContainers

\* A step adds objects of its own run only.
LEMMA AddsOwn ==
  ASSUME TypeOK, Orderly, NEW r \in Runs, RunStep(r)
  PROVE  /\ \A c \in testCont' : c \in testCont \/ c[1] = r
         /\ \A h \in HS : buildCont'[h] \in {buildCont[h], NoRun, r}
         /\ \A i \in images' : i \in images \/ i[1] = r
         /\ networks' \subseteq networks \cup {r}
<1>0. hs[r] \in HS
  BY DEF TypeOK
<1>1. CASE Start(r) \/ Finish(r) \/ Crash(r) \/ BlueprintExists(r) \/ ConstructBegins(r)
  BY <1>1 DEF Start, Finish, Crash, BlueprintExists, ConstructBegins
<1>2. CASE CleanupContainers(r)
  BY <1>2, ContainersRemoved DEF CleanupContainers, NoContainers
<1>3. CASE CleanupImages(r)
  BY <1>3, NothingRemains DEF CleanupImages
<1>4. CASE CleanupNetworks(r)
  BY <1>4, NetworksLeftOwn DEF CleanupNetworks
<1>5. CASE BaseNameTaken(r) \/ BaseCreated(r)
  BY <1>0, <1>5 DEF BaseNameTaken, BaseCreated, TypeOK
<1>6. CASE BaseAttemptFails(r) \/ HomeserverFails(r) \/ HomeserverBuilt(r)
  BY <1>0, <1>6 DEF BaseAttemptFails, HomeserverFails, HomeserverBuilt, RemoveOwn, TypeOK
<1>7. CASE CommitSucceeds(r) \/ CommitFailure(r)
  <2>1. UNCHANGED <<testCont, buildCont, networks>>
    BY <1>7 DEF CommitSucceeds, CommitFailure
  <2>2. images' \subseteq images \cup {<<r, hs[r]>>}
    BY <1>7 DEF CommitSucceeds, CommitFailure
  <2>3. QED
    BY <2>1, <2>2
<1>8. CASE ListImages(r)
  BY <1>8, NetworksLeftOwn DEF ListImages
<1>9. CASE DeploySucceeds(r) \/ DeployFails(r) \/ TestEnds(r)
  BY <1>9 DEF DeploySucceeds, DeployFails, TestEnds
<1>10. QED
  BY <1>1, <1>2, <1>3, <1>4, <1>5, <1>6, <1>7, <1>8, <1>9
     DEF RunStep, CleanupStep, ConstructStep, TestStep

\* What a step of a run does to its own place: past a stage only by that stage.
LEMMA StagesInOrder ==
  ASSUME TypeOK, NEW r \in Runs, RunStep(r)
  PROVE  /\ (Live(r)' /\ pc'[r] # "start_containers") =>
              CleanupContainers(r) \/ (Live(r) /\ pc[r] # "start_containers")
         /\ (Live(r)' /\ pc'[r] \notin {"start_containers", "start_images"}) =>
              \/ CleanupImages(r)
              \/ Live(r) /\ pc[r] \notin {"start_containers", "start_images"}
         /\ pc'[r] = "end_images" => CleanupContainers(r)
         /\ pc'[r] = "end_networks" => CleanupImages(r) /\ pc[r] = "end_images"
         /\ pc'[r] = "exited" => CleanupNetworks(r) /\ pc[r] = "end_networks"
<1>1. CASE Start(r) \/ Finish(r) \/ Crash(r)
  BY <1>1 DEF Start, Finish, Crash, TypeOK, Live
<1>2. CASE CleanupContainers(r)
  BY <1>2 DEF CleanupContainers, AfterStage, TypeOK, Live
<1>3. CASE CleanupImages(r)
  BY <1>3 DEF CleanupImages, AfterStage, TypeOK, Live
<1>4. CASE CleanupNetworks(r)
  BY <1>4 DEF CleanupNetworks, AfterStage, TypeOK, Live
<1>5. CASE BaseNameTaken(r) \/ BaseAttemptFails(r)
  BY <1>5 DEF BaseNameTaken, BaseAttemptFails, RetryOrFail, TypeOK, Live
<1>6. CASE BaseCreated(r) \/ HomeserverFails(r) \/ HomeserverBuilt(r) \/ ListImages(r)
  BY <1>6 DEF BaseCreated, HomeserverFails, HomeserverBuilt, ListImages, TypeOK, Live
<1>7. CASE CommitSucceeds(r) \/ CommitFailure(r)
  BY <1>7 DEF CommitSucceeds, CommitFailure, AfterCommit, TypeOK, Live
<1>8. CASE TestStep(r)
  BY <1>8 DEF TestStep, BlueprintExists, ConstructBegins, DeploySucceeds, DeployFails, TestEnds,
     TypeOK, Live
<1>9. QED
  BY <1>1, <1>2, <1>3, <1>4, <1>5, <1>6, <1>7, <1>8 DEF RunStep, CleanupStep, ConstructStep

\* A step of the run alone keeps what SerialInv says of it.
LEMMA SerialStep ==
  ASSUME TypeOK, TypeOK', env' = env, Orderly, SerialInv, NEW r \in Runs, RunStep(r)
  PROVE  SerialInv'
<1>1. OneAtATime /\ (\A x \in Runs : OwnObjects(x)) /\ (\A x \in Runs : pc[x] = "exited" => Gone(x))
  BY DEF SerialInv
<1>2. \A x \in Runs \ {r} : ~Live(x) /\ pc'[x] = pc[x]
  BY <1>1, OnlyOneSteps
<1>3. OneAtATime'
  BY <1>2 DEF OneAtATime, Live
<1>4. ASSUME NEW x \in Runs \ {r} PROVE OwnObjects(x)'
  BY <1>2, <1>4 DEF OwnObjects, Live
<1>5. ASSUME NEW x \in Runs \ {r}, pc'[x] = "exited" PROVE Gone(x)'
  <2>1. Gone(x)
    BY <1>1, <1>2, <1>5
  <2>2. QED
    BY <1>5, <2>1, AddsOwn DEF Gone, TypeOK
<1>6. CleanupContainers(r) => NoContainers'
  BY ContainersRemoved
<1>7. CleanupImages(r) => (env.keep \/ images' = {}) /\ UNCHANGED <<buildCont, testCont>>
  BY NothingRemains DEF CleanupImages
<1>8. CleanupNetworks(r) => UNCHANGED <<images, buildCont, testCont>>
  BY DEF CleanupNetworks
<1>9. OwnObjects(r)
  BY <1>1
<1>10. (Live(r)' /\ pc'[r] # "start_containers") => OwnContainers(r)'
  <2>1. CASE CleanupContainers(r)
    BY <1>6, <2>1 DEF NoContainers, OwnContainers
  <2>2. CASE Live(r) /\ pc[r] # "start_containers"
    <3>1. OwnContainers(r)
      BY <1>9, <2>2 DEF OwnObjects
    <3>2. QED
      BY <3>1, AddsOwn DEF OwnContainers
  <2>3. QED
    BY <2>1, <2>2, StagesInOrder
<1>11. (Live(r)' /\ pc'[r] \notin {"start_containers", "start_images"}) => OwnImages(r)'
  <2>1. CASE CleanupImages(r)
    BY <1>7, <2>1 DEF OwnImages
  <2>2. CASE Live(r) /\ pc[r] \notin {"start_containers", "start_images"}
    <3>1. OwnImages(r)
      BY <1>9, <2>2 DEF OwnObjects
    <3>2. QED
      BY <3>1, AddsOwn DEF OwnImages
  <2>3. QED
    BY <2>1, <2>2, StagesInOrder
<1>12. pc'[r] \in {"end_images", "end_networks"} => NoContainers'
  <2>1. CASE pc'[r] = "end_images"
    BY <1>6, <2>1, StagesInOrder
  <2>2. CASE pc'[r] = "end_networks"
    BY <1>7, <1>9, <2>2, StagesInOrder DEF OwnObjects, NoContainers
  <2>3. QED
    BY <2>1, <2>2
<1>13. pc'[r] = "end_networks" => (env.keep \/ images = {})'
  BY <1>7, StagesInOrder
<1>14. pc'[r] = "exited" => Gone(r)'
  <2> SUFFICES ASSUME pc'[r] = "exited" PROVE Gone(r)'
    OBVIOUS
  <2>1. CleanupNetworks(r) /\ pc[r] = "end_networks"
    BY StagesInOrder
  <2>2. NoContainers /\ (env.keep \/ images = {})
    BY <1>9, <2>1 DEF OwnObjects
  <2>3. networks' = networks \ {r}
    BY <2>1, <2>2 DEF CleanupNetworks, NetworksLeft, NoContainers, Orderly
  <2>4. \A h \in HS : buildCont'[h] # r
    BY <1>8, <2>1, <2>2, BuilderAssumption DEF NoContainers
  <2>5. QED
    BY <1>8, <2>1, <2>2, <2>3, <2>4 DEF Gone, NoContainers
<1>15. OwnObjects(r)'
  BY <1>10, <1>11, <1>12, <1>13 DEF OwnObjects
<1>16. QED
  BY <1>3, <1>4, <1>5, <1>14, <1>15 DEF SerialInv

\* The invariant of runs that follow one another.
THEOREM SerialRuns == Spec => []SerialInv
<1>1. Init => SerialInv
  BY DEF Init, SerialInv, OneAtATime, OwnObjects, Live
<1>2. TypeOK /\ TypeOK' /\ SerialInv /\ [Next]_vars => SerialInv'
  <2> SUFFICES ASSUME TypeOK, TypeOK', SerialInv, [Next]_vars PROVE SerialInv'
    OBVIOUS
  <2>0. env' = env
    BY DEF Next, CallHangs, vars
  <2>1. CASE ~Orderly
    BY <2>0, <2>1 DEF SerialInv, Orderly
  <2>2. ASSUME Orderly, NEW r \in Runs, RunStep(r) PROVE SerialInv'
    BY <2>0, <2>2, SerialStep
  <2>3. CASE UNCHANGED <<env, runVars>>
    BY <2>3 DEF runVars, SerialInv, Orderly, OneAtATime, OwnObjects, OwnContainers,
       OwnImages, NoContainers, Gone, Live
  <2>4. QED
    BY <2>1, <2>2, <2>3 DEF Next, CallHangs, vars
<1>3. QED
  BY <1>1, <1>2, BuilderTypes, PTL DEF Spec

\* A run that ends by Cleanup leaves nothing of its own, whatever crashed or
\* failed before (TestPackage.Cleanup).
THEOREM EndIsClean == Spec => []CleanEnd
<1>1. SerialInv => CleanEnd
  BY DEF SerialInv, CleanEnd, Gone
<1>2. QED
  BY <1>1, SerialRuns, PTL

\* A run that is ready finds no container and no image of a run that died
\* (test_package.go:107).
THEOREM StartIsClean == Spec => []StartsWithoutRemains
<1>1. SerialInv => StartsWithoutRemains
  <2> SUFFICES ASSUME SerialInv, Orderly, NEW r \in Runs, NEW x \in Runs,
                      pc[r] = "ready", pc[x] = "dead"
               PROVE  /\ \A c \in testCont : c[1] # x
                      /\ \A h \in HS : buildCont[h] # x
                      /\ env.keep \/ \A i \in images : i[1] # x
    BY DEF StartsWithoutRemains
  <2>1. x # r /\ Live(r)
    BY DEF Live
  <2>2. OwnContainers(r) /\ OwnImages(r)
    BY <2>1 DEF SerialInv, OwnObjects
  <2>3. QED
    BY <2>1, <2>2, BuilderAssumption DEF OwnContainers, OwnImages
<1>2. QED
  BY <1>1, SerialRuns, PTL

\* The containers of a blueprint under construction and its first homeserver.
LEMMA BlueprintFacts ==
  /\ \A r : Below(r, 1) = {}
  /\ \A r : \A n \in HS : Below(r, n) \cup {<<r, n>>} = IF n < NumHS THEN Below(r, n + 1) ELSE Whole(r)
  /\ \A r : Whole(r) # {} /\ {i[2] : i \in Whole(r)} = HS
<1>1. \A r : Below(r, 1) = {}
  BY DEF Below, HS
<1>2. ASSUME NEW r, NEW n \in HS, n < NumHS PROVE Below(r, n) \cup {<<r, n>>} = Below(r, n + 1)
  <2>1. {k \in HS : k < n} \cup {n} = {k \in HS : k < n + 1}
    BY <1>2 DEF HS
  <2>2. QED
    BY <2>1 DEF Below
<1>3. ASSUME NEW r, NEW n \in HS, ~(n < NumHS) PROVE Below(r, n) \cup {<<r, n>>} = Whole(r)
  <2>1. {k \in HS : k < n} \cup {n} = HS
    BY <1>3 DEF HS
  <2>2. QED
    BY <2>1 DEF Below, Whole
<1>4. ASSUME NEW r PROVE Whole(r) # {} /\ {i[2] : i \in Whole(r)} = HS
  <2>1. <<r, 1>> \in Whole(r)
    BY HSTypes DEF Whole
  <2>2. \A h \in HS : <<r, h>> \in Whole(r) /\ <<r, h>>[2] = h
    BY DEF Whole
  <2>3. \A i \in Whole(r) : i[2] \in HS
    BY DEF Whole
  <2>4. QED
    BY <2>1, <2>2, <2>3
<1>5. QED
  BY <1>1, <1>2, <1>3, <1>4

\* A step of Cleanup removes the images altogether or not at all.
LEMMA WholeCleanup ==
  ASSUME TypeOK, Orderly, ~env.keep, NEW r \in Runs, CleanupStep(r), AllOrNothing(r)
  PROVE  AllOrNothing(r)'
<1>1. CASE CleanupContainers(r)
  BY <1>1 DEF CleanupContainers, AfterStage, AllOrNothing, TypeOK
<1>2. CASE CleanupImages(r)
  <2>1. images' = {}
    BY <1>2, NothingRemains DEF CleanupImages
  <2>2. pc'[r] \in {"start_networks", "end_networks"}
    BY <1>2 DEF CleanupImages, AfterStage, TypeOK
  <2>3. QED
    BY <2>1, <2>2 DEF AllOrNothing
<1>3. CASE CleanupNetworks(r)
  <2>1. images' = images
    BY <1>3 DEF CleanupNetworks
  <2>2. (pc[r] = "start_networks" /\ pc'[r] = "ready") \/ pc'[r] = "exited"
    BY <1>3 DEF CleanupNetworks, AfterStage, TypeOK
  <2>3. QED
    BY <2>1, <2>2 DEF AllOrNothing, Whole
<1>4. QED
  BY <1>1, <1>2, <1>3 DEF CleanupStep

\* The homeservers are built one by one in containers of the run.
LEMMA WholeBuild ==
  ASSUME TypeOK, NEW r \in Runs, AllOrNothing(r),
         BaseNameTaken(r) \/ BaseCreated(r) \/ BaseAttemptFails(r) \/ HomeserverFails(r)
         \/ HomeserverBuilt(r)
  PROVE  AllOrNothing(r)'
<1>0. hs[r] \in HS /\ HS \subseteq Nat /\ NumHS \in Nat
  BY DEF TypeOK, HS
<1>1. /\ images = {} /\ errs[r] = FALSE /\ UNCHANGED <<images, errs>>
      /\ \A h \in HS : h < hs[r] => buildCont[h] = r
  BY DEF AllOrNothing, BaseNameTaken, BaseCreated, BaseAttemptFails, HomeserverFails,
     HomeserverBuilt
<1>2. ASSUME RetryOrFail(r), UNCHANGED hs, \A h \in HS \ {hs[r]} : buildCont'[h] = buildCont[h]
      PROVE  AllOrNothing(r)'
  <2>1. pc'[r] \in {"create", "ready"}
    BY <1>2 DEF RetryOrFail, TypeOK
  <2>2. \A h \in HS : h < hs[r] => buildCont'[h] = r
    BY <1>0, <1>1, <1>2
  <2>3. QED
    BY <1>1, <1>2, <2>1, <2>2 DEF AllOrNothing
<1>3. CASE BaseNameTaken(r)
  BY <1>2, <1>3 DEF BaseNameTaken, TypeOK
<1>4. CASE BaseAttemptFails(r)
  BY <1>2, <1>4 DEF BaseAttemptFails, RemoveOwn, TypeOK
<1>5. CASE BaseCreated(r)
  <2>1. pc'[r] = "starting" /\ UNCHANGED hs
    BY <1>5 DEF BaseCreated, TypeOK
  <2>2. \A h \in HS : buildCont'[h] = IF h = hs[r] THEN r ELSE buildCont[h]
    BY <1>5 DEF BaseCreated, TypeOK
  <2>3. QED
    BY <1>0, <1>1, <2>1, <2>2 DEF AllOrNothing
<1>6. CASE HomeserverFails(r)
  <2>1. pc'[r] = "ready"
    BY <1>6 DEF HomeserverFails, TypeOK
  <2>2. QED
    BY <1>1, <2>1 DEF AllOrNothing
<1>7. CASE HomeserverBuilt(r)
  <2>1. buildCont[hs[r]] = r /\ UNCHANGED buildCont
    BY <1>7 DEF HomeserverBuilt
  <2>2. CASE hs[r] < NumHS
    <3>1. pc'[r] = "create" /\ hs'[r] = hs[r] + 1
      BY <1>7, <2>2 DEF HomeserverBuilt, TypeOK
    <3>2. \A h \in HS : h < hs[r] + 1 => h < hs[r] \/ h = hs[r]
      BY <1>0 DEF HS
    <3>3. \A h \in HS : h < hs[r] + 1 => buildCont[h] = r
      BY <1>1, <2>1, <3>2
    <3>4. QED
      BY <1>1, <2>1, <3>1, <3>3 DEF AllOrNothing
  <2>3. CASE ~(hs[r] < NumHS)
    <3>1. pc'[r] = "commit" /\ hs'[r] = 1
      BY <1>7, <2>3 DEF HomeserverBuilt, TypeOK
    <3>2. \A h \in HS : buildCont[h] = r
      BY <1>0, <1>1, <2>1, <2>3 DEF HS
    <3>3. images' = Below(r, hs'[r])
      BY <1>1, <3>1, BlueprintFacts
    <3>4. QED
      BY <1>1, <2>1, <3>1, <3>2, <3>3 DEF AllOrNothing, Below
  <2>4. QED
    BY <2>2, <2>3
<1>8. QED
  BY <1>3, <1>4, <1>5, <1>6, <1>7

\* The commit loop commits every homeserver: none of its containers is missing.
LEMMA WholeCommit ==
  ASSUME TypeOK, ~env.commitFails, NEW r \in Runs, AllOrNothing(r),
         CommitSucceeds(r) \/ CommitFailure(r)
  PROVE  AllOrNothing(r)'
<1>0. hs[r] \in HS
  BY DEF TypeOK
<1>1. images = Below(r, hs[r]) /\ errs[r] = FALSE /\ \A h \in HS : buildCont[h] = r
  BY DEF AllOrNothing, CommitSucceeds, CommitFailure
<1>2. CommitSucceeds(r)
  BY <1>0, <1>1 DEF CommitFailure
<1>3. images' = Below(r, hs[r]) \cup {<<r, hs[r]>>} /\ UNCHANGED buildCont
  BY <1>1, <1>2 DEF CommitSucceeds
<1>4. errs'[r] = FALSE
  <2>1. errs' = [errs EXCEPT ![r] = @ \/ FALSE]
    BY <1>2 DEF CommitSucceeds, AfterCommit
  <2>2. QED
    BY <1>1, <2>1, Zenon DEF TypeOK
<1>5. CASE hs[r] < NumHS
  <2>1. pc'[r] = "commit" /\ hs'[r] = hs[r] + 1
    BY <1>2, <1>5 DEF CommitSucceeds, AfterCommit, TypeOK
  <2>2. images' = Below(r, hs'[r])
    BY <1>0, <1>3, <1>5, <2>1, BlueprintFacts
  <2>3. QED
    BY <1>1, <1>3, <1>4, <2>1, <2>2 DEF AllOrNothing, Below
<1>6. CASE ~(hs[r] < NumHS)
  <2>1. pc'[r] = "list"
    BY <1>2, <1>4, <1>6 DEF CommitSucceeds, AfterCommit, TypeOK
  <2>2. images' = Whole(r)
    BY <1>0, <1>3, <1>6, BlueprintFacts
  <2>3. QED
    BY <2>1, <2>2 DEF AllOrNothing, Whole
<1>7. QED
  BY <1>5, <1>6

\* Listing and testing leave the images alone, and a test deploys them all.
LEMMA WholeTest ==
  ASSUME TypeOK, NEW r \in Runs, AllOrNothing(r), ListImages(r) \/ TestStep(r)
  PROVE  AllOrNothing(r)'
<1>1. images' = images
  BY DEF ListImages, TestStep, BlueprintExists, ConstructBegins, DeploySucceeds, DeployFails,
     TestEnds
<1>2. CASE ListImages(r)
  <2>1. images = Whole(r) /\ pc'[r] \in {"deploy", "ready"}
    BY <1>2 DEF AllOrNothing, ListImages, TypeOK
  <2>2. QED
    BY <1>1, <2>1 DEF AllOrNothing, Whole
<1>3. CASE BlueprintExists(r) \/ DeployFails(r) \/ TestEnds(r)
  <2>1. (images = {} \/ images = Whole(r)) /\ pc'[r] \in {"deploy", "ready"}
    BY <1>3 DEF AllOrNothing, BlueprintExists, DeployFails, TestEnds, TypeOK
  <2>2. QED
    BY <1>1, <2>1 DEF AllOrNothing, Whole
<1>4. CASE ConstructBegins(r)
  <2>1. images = {} /\ pc'[r] = "create" /\ hs'[r] = 1 /\ errs'[r] = FALSE
    BY <1>4 DEF ConstructBegins, TypeOK
  <2>2. \A h \in HS : ~(h < 1)
    BY DEF HS
  <2>3. QED
    BY <1>1, <2>1, <2>2 DEF AllOrNothing
<1>5. CASE DeploySucceeds(r)
  <2>1. images = Whole(r) /\ pc'[r] = "test" /\ deployed'[r] = {i[2] : i \in images}
    BY <1>5 DEF AllOrNothing, DeploySucceeds, TypeOK
  <2>2. deployed'[r] = HS
    BY <2>1, BlueprintFacts
  <2>3. QED
    BY <1>1, <2>1, <2>2 DEF AllOrNothing, Whole
<1>6. QED
  BY <1>2, <1>3, <1>4, <1>5 DEF TestStep

\* A test that runs has every homeserver of its blueprint, whatever earlier
\* tests and runs left behind (test_package.go:131).
THEOREM TestHasWholeBlueprint == Spec => []DeploysWholeBlueprint
<1>1. Init => WholeInv
  BY DEF Init, WholeInv, AllOrNothing
<1>2. TypeOK /\ SerialInv /\ WholeInv /\ [Next]_vars => WholeInv'
  <2> SUFFICES ASSUME TypeOK, SerialInv, WholeInv, [Next]_vars PROVE WholeInv'
    OBVIOUS
  <2>0. env' = env
    BY DEF Next, CallHangs, vars
  <2>1. CASE ~(Orderly /\ ~env.commitFails /\ ~env.keep)
    BY <2>0, <2>1 DEF WholeInv, Orderly
  <2>2. ASSUME Orderly, ~env.commitFails, ~env.keep, NEW r \in Runs, RunStep(r) PROVE WholeInv'
    <3>1. \A x \in Runs : AllOrNothing(x)
      BY <2>2 DEF WholeInv
    <3>2. \A x \in Runs \ {r} : ~Live(x) /\ pc'[x] = pc[x]
      BY <2>2, OnlyOneSteps DEF SerialInv
    <3>3. \A x \in Runs \ {r} : AllOrNothing(x)'
      BY <3>2 DEF AllOrNothing, Live
    <3>4. AllOrNothing(r)'
      <4>1. CASE Start(r) \/ Finish(r) \/ Crash(r)
        <5>1. pc'[r] \in {"start_containers", "end_containers", "dead"}
          BY <4>1 DEF Start, Finish, Crash, TypeOK
        <5>2. QED
          BY <5>1 DEF AllOrNothing
      <4>2. CASE CleanupStep(r)
        BY <2>2, <3>1, <4>2, WholeCleanup
      <4>3. CASE ConstructStep(r)
        BY <2>2, <3>1, <4>3, WholeBuild, WholeCommit, WholeTest DEF ConstructStep
      <4>4. CASE TestStep(r)
        BY <3>1, <4>4, WholeTest
      <4>5. QED
        BY <2>2, <4>1, <4>2, <4>3, <4>4 DEF RunStep
    <3>5. QED
      BY <3>3, <3>4 DEF WholeInv
  <2>3. CASE UNCHANGED <<env, runVars>>
    BY <2>3 DEF runVars, WholeInv, Orderly, AllOrNothing, Below, Whole
  <2>4. QED
    BY <2>1, <2>2, <2>3 DEF Next, CallHangs, vars
<1>3. WholeInv => DeploysWholeBlueprint
  BY DEF WholeInv, AllOrNothing, DeploysWholeBlueprint
<1>4. QED
  BY <1>1, <1>2, <1>3, BuilderTypes, SerialRuns, PTL DEF Spec
=============================================================================
