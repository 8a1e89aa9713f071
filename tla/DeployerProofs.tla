--------------------------- MODULE DeployerProofs ---------------------------
(***************************************************************************)
(* Deploy waits for every goroutine, names containers apart and cleans up  *)
(* after what failed, for any number of homeservers in the blueprint.      *)
(***************************************************************************)
EXTENDS Deployer, FiniteSetTheorems, TLAPS

\* Sets of images are finite, and no larger than Images.
LEMMA SubsetCardinality ==
  ASSUME NEW T \in SUBSET Images
  PROVE  /\ IsFiniteSet(T)
         /\ Cardinality(T) \in 0 .. Cardinality(Images)
         /\ Cardinality(T) = 0 <=> T = {}
<1>1. IsFiniteSet(Images)
  BY ImagesAssumption
<1>2. IsFiniteSet(T) /\ Cardinality(T) <= Cardinality(Images)
  BY <1>1, FS_Subset
<1>3. Cardinality(T) \in Nat /\ Cardinality(Images) \in Nat
  BY <1>1, <1>2, FS_CardinalityType
<1>4. Cardinality(T) = 0 <=> T = {}
  BY <1>2, FS_EmptySet
<1>5. QED
  BY <1>2, <1>3, <1>4

\* One more goroutine has counted.
LEMMA AddImage ==
  ASSUME NEW T \in SUBSET Images, NEW i \in Images, i \notin T
  PROVE  Cardinality(T \cup {i}) = Cardinality(T) + 1
<1>1. IsFiniteSet(T)
  BY SubsetCardinality
<1>2. QED
  BY <1>1, FS_AddElement

\* One goroutine fewer is inside deployImg.
LEMMA RemoveImage ==
  ASSUME NEW T \in SUBSET Images, NEW i \in T
  PROVE  Cardinality(T \ {i}) = Cardinality(T) - 1
<1>1. IsFiniteSet(T)
  BY SubsetCardinality
<1>2. QED
  BY <1>1, FS_RemoveElement

\* A step that keeps counter, main, wg and the sets behind the two counts
\* keeps the parts of the invariant that are about them.
LEMMA SameSets ==
  ASSUME DeployInv, UNCHANGED <<main, wg, counter, name>>,
         Deploying' = Deploying, Counted' = Counted
  PROVE  ReturnAfterAll' /\ counter' = Cardinality(Counted)' /\ NamesDistinct'
  BY DEF DeployInv, ReturnAfterAll, NamesDistinct

\* Before Deploy nothing is counted, deployed or created.
LEMMA InitInv == Init => DeployInv
<1> SUFFICES ASSUME Init PROVE DeployInv
  OBVIOUS
<1>1. Counted = {} /\ Deploying = {}
  BY DEF Init, Counted, Deploying
<1>2. Cardinality(Counted) = 0 /\ Cardinality(Images) \in Nat
  BY <1>1, FS_EmptySet, FS_CardinalityType, ImagesAssumption
<1>3. TypeOK
  <2>1. pc \in [Images -> PCs] /\ name \in [Images -> 0 .. Cardinality(Images)]
    BY <1>2 DEF Init, PCs
  <2>2. attempt \in [Images -> 1 .. MaxAttempts]
    BY DEF Init, MaxAttempts
  <2>3. wg \in 0 .. Cardinality(Images) /\ counter \in 0 .. Cardinality(Images)
    BY <1>2 DEF Init
  <2>4. hasID \in [Images -> BOOLEAN] /\ retryable \in [Images -> BOOLEAN]
        /\ removeErr \in [Images -> BOOLEAN]
    BY DEF Init
  <2>5. QED
    BY <2>1, <2>2, <2>3, <2>4 DEF Init, TypeOK
<1>4. ReturnAfterAll /\ NoStrayContainer /\ NamesDistinct
  BY <1>1, FS_EmptySet DEF Init, ReturnAfterAll, NoStrayContainer, NamesDistinct
<1>5. counter = Cardinality(Counted)
  BY <1>2 DEF Init
<1>6. QED
  BY <1>3, <1>4, <1>5 DEF Init, DeployInv

-----------------------------------------------------------------------------
(* The steps.  A goroutine step other than TakeCounter and WgDone moves a   *)
(* goroutine inside Deploying and inside Counted.                           *)

\* Moving goroutine i between two program points of deployImage changes
\* neither set.
LEMMA MoveInside ==
  ASSUME NEW i \in Images, NEW p \in PCs \ {"idle", "count", "setErr", "exited"},
         pc \in [Images -> PCs], pc' = [pc EXCEPT ![i] = p],
         pc[i] \notin {"idle", "count", "setErr", "exited"}
  PROVE  Deploying' = Deploying /\ Counted' = Counted
  BY DEF Deploying, Counted

\* A Deploy that finds no images returns before it starts a goroutine.
LEMMA DeployFailsStep == ASSUME DeployInv, DeployFails PROVE DeployInv'
<1>1. Deploying' = Deploying /\ Counted' = Counted
  BY DEF DeployFails, Deploying, Counted
<1>2. Deploying = {}
  BY DEF DeployInv, DeployFails, Deploying
<1>3. wg' = Cardinality(Deploying')
  BY <1>1 DEF DeployInv, DeployFails, ReturnAfterAll
<1>4. QED
  BY <1>1, <1>2, <1>3 DEF DeployInv, DeployFails, TypeOK, ReturnAfterAll,
     NoStrayContainer, NamesDistinct, retryVars, dockerVars

\* wg.Add counts every image before any goroutine can be done.
LEMMA DeploySpawnStep == ASSUME DeployInv, DeploySpawn PROVE DeployInv'
<1>1. Deploying' = Images /\ Counted' = {} /\ Counted = {}
  BY DEF DeployInv, DeploySpawn, Deploying, Counted
<1>2. Cardinality(Images) \in 0 .. Cardinality(Images)
  BY SubsetCardinality
<1>3. TypeOK'
  BY <1>2 DEF DeployInv, DeploySpawn, TypeOK, PCs, retryVars, dockerVars
<1>4. ReturnAfterAll' /\ NoStrayContainer' /\ NamesDistinct'
  BY <1>1 DEF DeployInv, DeploySpawn, ReturnAfterAll, NoStrayContainer,
     NamesDistinct, retryVars, dockerVars
<1>5. QED
  BY <1>1, <1>3, <1>4 DEF DeployInv, DeploySpawn, retryVars, dockerVars

\* wg.Wait returns when no goroutine is inside deployImg.
LEMMA DeployReturnsStep == ASSUME DeployInv, DeployReturns PROVE DeployInv'
<1>1. Deploying' = Deploying /\ Counted' = Counted
  BY DEF DeployReturns, Deploying, Counted
<1>2. Cardinality(Deploying) = 0
  BY DEF DeployInv, DeployReturns, ReturnAfterAll
<1>3. Deploying = {}
  BY <1>2, SubsetCardinality DEF Deploying
<1>4. QED
  BY <1>1, <1>2, <1>3 DEF DeployInv, DeployReturns, TypeOK, ReturnAfterAll,
     NoStrayContainer, NamesDistinct, retryVars, dockerVars

\* The stages of deployImageOnce by name.
LEMMA StageNames ==
  /\ StageSet = {"configure", "start", "ports", "inspect", "ready"}
  /\ \A g \in StageSet : NextStage[g] \in {"start", "ports", "inspect", "ready", "store"}
<1>1. StageSet = {"configure", "start", "ports", "inspect", "ready"}
  BY DEF StageSet, NextStage
<1>2. /\ NextStage["configure"] = "start" /\ NextStage["start"] = "ports"
      /\ NextStage["ports"] = "inspect" /\ NextStage["inspect"] = "ready"
      /\ NextStage["ready"] = "store"
  BY DEF NextStage
<1>3. QED
  BY <1>1, <1>2

\* The parts of DeployInv that speak of one image.
ImageInv(i) ==
  /\ name[i] <= counter
  /\ pc[i] \in {"idle", "count"} <=> name[i] = 0
  /\ main = "start" => pc[i] = "idle"
  /\ main = "waiting" => pc[i] # "idle"
  /\ i \in hs => pc[i] \in {"doneOk", "exited"}
  /\ pc[i] = "doneOk" => i \in hs
  /\ cont[i] = "absent" => ~removeErr[i]

\* Counter is incremented and read under the mutex: a new name.
LEMMA TakeCounterStep ==
  ASSUME DeployInv, NEW i \in Images, TakeCounter(i) PROVE DeployInv'
<1>1. i \notin Counted /\ Counted' = Counted \cup {i} /\ Deploying' = Deploying
  BY DEF DeployInv, TypeOK, TakeCounter, Goto, Counted, Deploying, PCs
<1>2. Cardinality(Counted') = Cardinality(Counted) + 1
  BY <1>1, AddImage DEF Counted
<1>3. Cardinality(Counted') \in 0 .. Cardinality(Images) /\ Cardinality(Images) \in Nat
  BY SubsetCardinality, FS_CardinalityType, ImagesAssumption DEF Counted
<1>4. counter \in Nat /\ counter' = counter + 1 /\ counter' = Cardinality(Counted')
  BY <1>2, <1>3 DEF DeployInv, TypeOK, TakeCounter
<1>5. /\ name'[i] = counter + 1
      /\ \A j \in Images : j # i => name'[j] = name[j] /\ pc'[j] = pc[j]
      /\ \A j \in Images : name[j] \in Nat /\ name[j] <= counter
      /\ pc'[i] = "create" /\ pc[i] = "count" /\ name[i] = 0
  BY <1>3, <1>4 DEF DeployInv, TypeOK, TakeCounter, Goto
<1>6. TypeOK'
  <2>1. name' \in [Images -> 0 .. Cardinality(Images)]
    BY <1>3, <1>4 DEF DeployInv, TypeOK, TakeCounter
  <2>2. counter' \in 0 .. Cardinality(Images)
    BY <1>3, <1>4
  <2>3. pc' \in [Images -> PCs]
    BY DEF DeployInv, TypeOK, TakeCounter, Goto, PCs
  <2>4. QED
    BY <2>1, <2>2, <2>3 DEF DeployInv, TypeOK, TakeCounter, retryVars, dockerVars
<1>7. NamesDistinct'
  BY <1>4, <1>5 DEF DeployInv, NamesDistinct
<1>8. NoStrayContainer'
  BY <1>5 DEF DeployInv, NoStrayContainer, TakeCounter, dockerVars
<1>9. ReturnAfterAll'
  BY <1>1 DEF DeployInv, ReturnAfterAll, TakeCounter
<1>10. ASSUME NEW j \in Images PROVE ImageInv(j)'
  BY <1>4, <1>5 DEF DeployInv, ImageInv, TakeCounter, dockerVars
<1>11. QED
  BY <1>4, <1>6, <1>7, <1>8, <1>9, <1>10 DEF DeployInv, ImageInv

\* The deferred wg.Done takes its goroutine out of Deploying.
LEMMA WgDoneStep ==
  ASSUME DeployInv, NEW i \in Images, WgDone(i) PROVE DeployInv'
<1>1. i \in Deploying /\ Deploying' = Deploying \ {i} /\ Counted' = Counted
  BY DEF DeployInv, TypeOK, WgDone, Goto, Counted, Deploying, PCs
<1>2. Cardinality(Deploying') = Cardinality(Deploying) - 1
  BY <1>1, RemoveImage DEF Deploying
<1>3. /\ Cardinality(Deploying') \in 0 .. Cardinality(Images)
      /\ Cardinality(Deploying) \in 0 .. Cardinality(Images)
  BY SubsetCardinality DEF Deploying
<1>4. wg' = Cardinality(Deploying')
  BY <1>2, <1>3 DEF DeployInv, ReturnAfterAll, WgDone
<1>5. /\ pc' \in [Images -> PCs]
      /\ pc'[i] \in {"exited", "setErr"} /\ (pc'[i] = "setErr" <=> pc[i] = "doneErr")
      /\ \A j \in Images : j # i => pc'[j] = pc[j]
  BY DEF DeployInv, TypeOK, WgDone, Goto, PCs
<1>6. TypeOK'
  BY <1>3, <1>4, <1>5 DEF DeployInv, TypeOK, WgDone, retryVars, dockerVars
<1>7. NoStrayContainer'
  BY <1>5 DEF DeployInv, NoStrayContainer, WgDone, dockerVars
<1>8. ReturnAfterAll'
  BY <1>1, <1>4 DEF DeployInv, ReturnAfterAll, WgDone
<1>9. ASSUME NEW j \in Images PROVE ImageInv(j)'
  BY <1>5 DEF DeployInv, ImageInv, WgDone, dockerVars
<1>10. counter' = Cardinality(Counted') /\ NamesDistinct'
  BY <1>1 DEF DeployInv, NamesDistinct, WgDone
<1>11. QED
  BY <1>6, <1>7, <1>8, <1>9, <1>10 DEF DeployInv, ImageInv

\* Writing lastErr touches nothing the invariant is about.
LEMMA RecordErrorStep ==
  ASSUME DeployInv, NEW i \in Images, RecordError(i) PROVE DeployInv'
<1>1. Deploying' = Deploying /\ Counted' = Counted
  BY DEF DeployInv, TypeOK, RecordError, Goto, Counted, Deploying, PCs
<1>2. pc' \in [Images -> PCs] /\ pc'[i] = "exited" /\ pc[i] = "setErr"
      /\ \A j \in Images : j # i => pc'[j] = pc[j]
  BY DEF DeployInv, TypeOK, RecordError, Goto, PCs
<1>3. TypeOK'
  BY <1>2 DEF DeployInv, TypeOK, RecordError, retryVars, dockerVars
<1>4. NoStrayContainer'
  BY <1>2 DEF DeployInv, NoStrayContainer, RecordError, dockerVars
<1>5. ASSUME NEW j \in Images PROVE ImageInv(j)'
  BY <1>2 DEF DeployInv, ImageInv, RecordError, dockerVars
<1>6. QED
  BY <1>1, <1>3, <1>4, <1>5, SameSets DEF DeployInv, ImageInv, RecordError

\* dep.HS gets an entry of a goroutine that succeeded.
LEMMA StoreDeploymentStep ==
  ASSUME DeployInv, NEW i \in Images, StoreDeployment(i) PROVE DeployInv'
<1>1. /\ pc[i] \in {"store"} /\ pc'[i] \in {"doneOk"}
      /\ pc' = [pc EXCEPT ![i] = pc'[i]]
      /\ pc' \in [Images -> PCs] /\ pc \in [Images -> PCs]
      /\ \A j \in Images : j # i => pc'[j] = pc[j]
  BY StageNames DEF DeployInv, TypeOK, StoreDeployment, Goto, PCs
<1>2. Deploying' = Deploying /\ Counted' = Counted
  BY <1>1, MoveInside
<1>3. TypeOK'
  BY <1>1 DEF DeployInv, TypeOK, StoreDeployment, deployVars, retryVars, dockerVars, MaxAttempts,
     RetryableErrors
<1>4. NoStrayContainer'
  BY <1>1 DEF DeployInv, NoStrayContainer, StoreDeployment, TypeOK, deployVars, retryVars, dockerVars
<1>5. ASSUME NEW j \in Images PROVE ImageInv(j)'
  BY <1>1 DEF DeployInv, ImageInv, StoreDeployment, TypeOK, deployVars, retryVars, dockerVars
<1>6. QED
  BY <1>2, <1>3, <1>4, <1>5, SameSets DEF DeployInv, ImageInv, StoreDeployment, deployVars

\* What a call does to a container, whether it succeeds, fails or hangs: there
\* is one afterwards if there was one before.
LEMMA EffectOfCall ==
  ASSUME DeployInv, NEW i \in Images, MayTakeEffect(i)
  PROVE  /\ cont' \in [Images -> {"absent", "created", "running", "exited"}]
         /\ cont'[i] = "absent" => cont[i] = "absent"
         /\ \A j \in Images : j # i => cont'[j] = cont[j]
<1>1. Effect(i) \in {"created", "running", cont[i]}
  BY DEF Effect
<1>2. cont \in [Images -> {"absent", "created", "running", "exited"}]
  BY DEF DeployInv, TypeOK
<1>3. CASE UNCHANGED cont
  BY <1>2, <1>3
<1>4. CASE cont' = [cont EXCEPT ![i] = Effect(i)]
  <2> DEFINE e == Effect(i)
  <2>1. e \in {"created", "running", cont[i]} /\ cont' = [cont EXCEPT ![i] = e]
    BY <1>1, <1>4
  <2> HIDE DEF e
  <2>2. QED
    BY <1>2, <2>1
<1>5. QED
  BY <1>3, <1>4 DEF MayTakeEffect, TakesEffect

\* The daemon creates the container of a name.
LEMMA ContainerCreateStep ==
  ASSUME DeployInv, NEW i \in Images, ContainerCreate(i) PROVE DeployInv'
<1>1. /\ pc[i] \in {"create"} /\ pc'[i] \in {"configure"}
      /\ pc' = [pc EXCEPT ![i] = pc'[i]]
      /\ pc' \in [Images -> PCs] /\ pc \in [Images -> PCs]
      /\ \A j \in Images : j # i => pc'[j] = pc[j]
  BY StageNames DEF DeployInv, TypeOK, ContainerCreate, Goto, PCs
<1>2. MayTakeEffect(i)
  BY DEF ContainerCreate, MayTakeEffect
<1>3. /\ cont' \in [Images -> {"absent", "created", "running", "exited"}]
      /\ cont'[i] = "absent" => cont[i] = "absent"
      /\ \A j \in Images : j # i => cont'[j] = cont[j]
  BY <1>2, EffectOfCall
<1>4. Deploying' = Deploying /\ Counted' = Counted
  BY <1>1, MoveInside
<1>5. TypeOK'
  BY <1>1, <1>3 DEF DeployInv, TypeOK, ContainerCreate, deployVars, retryVars, dockerVars, MaxAttempts,
     RetryableErrors
<1>6. NoStrayContainer'
  BY <1>1, <1>3 DEF DeployInv, NoStrayContainer, ContainerCreate, TypeOK, deployVars, retryVars, dockerVars
<1>7. ASSUME NEW j \in Images PROVE ImageInv(j)'
  BY <1>1, <1>3 DEF DeployInv, ImageInv, ContainerCreate, TypeOK, deployVars, retryVars, dockerVars
<1>8. QED
  BY <1>4, <1>5, <1>6, <1>7, SameSets DEF DeployInv, ImageInv, ContainerCreate, deployVars

\* ContainerCreate fails, with or without a container behind it.
LEMMA ContainerCreateFailsStep ==
  ASSUME DeployInv, NEW i \in Images, ContainerCreateFails(i) PROVE DeployInv'
<1>1. /\ pc[i] \in {"create"} /\ pc'[i] \in {"cleanup"}
      /\ pc' = [pc EXCEPT ![i] = pc'[i]]
      /\ pc' \in [Images -> PCs] /\ pc \in [Images -> PCs]
      /\ \A j \in Images : j # i => pc'[j] = pc[j]
  BY StageNames DEF DeployInv, TypeOK, ContainerCreateFails, Goto, PCs
<1>2. MayTakeEffect(i)
  BY DEF ContainerCreateFails, MayTakeEffect
<1>3. /\ cont' \in [Images -> {"absent", "created", "running", "exited"}]
      /\ cont'[i] = "absent" => cont[i] = "absent"
      /\ \A j \in Images : j # i => cont'[j] = cont[j]
  BY <1>2, EffectOfCall
<1>4. Deploying' = Deploying /\ Counted' = Counted
  BY <1>1, MoveInside
<1>5. TypeOK'
  BY <1>1, <1>3 DEF DeployInv, TypeOK, ContainerCreateFails, deployVars, retryVars, dockerVars, MaxAttempts,
     RetryableErrors
<1>6. NoStrayContainer'
  BY <1>1, <1>3 DEF DeployInv, NoStrayContainer, ContainerCreateFails, TypeOK, deployVars, retryVars, dockerVars
<1>7. ASSUME NEW j \in Images PROVE ImageInv(j)'
  BY <1>1, <1>3 DEF DeployInv, ImageInv, ContainerCreateFails, TypeOK, deployVars, retryVars, dockerVars
<1>8. QED
  BY <1>4, <1>5, <1>6, <1>7, SameSets DEF DeployInv, ImageInv, ContainerCreateFails, deployVars

\* A stage of deployImageOnce after the container exists.
LEMMA StageSucceedsStep ==
  ASSUME DeployInv, NEW i \in Images, StageSucceeds(i) PROVE DeployInv'
<1>1. /\ pc[i] \in {"configure", "start", "ports", "inspect", "ready"} /\ pc'[i] \in {"start", "ports", "inspect", "ready", "store"}
      /\ pc' = [pc EXCEPT ![i] = pc'[i]]
      /\ pc' \in [Images -> PCs] /\ pc \in [Images -> PCs]
      /\ \A j \in Images : j # i => pc'[j] = pc[j]
  BY StageNames DEF DeployInv, TypeOK, StageSucceeds, Goto, PCs
<1>2. MayTakeEffect(i)
  BY DEF StageSucceeds, MayTakeEffect
<1>3. /\ cont' \in [Images -> {"absent", "created", "running", "exited"}]
      /\ cont'[i] = "absent" => cont[i] = "absent"
      /\ \A j \in Images : j # i => cont'[j] = cont[j]
  BY <1>2, EffectOfCall
<1>4. Deploying' = Deploying /\ Counted' = Counted
  BY <1>1, MoveInside
<1>5. TypeOK'
  BY <1>1, <1>3 DEF DeployInv, TypeOK, StageSucceeds, deployVars, retryVars, dockerVars, MaxAttempts,
     RetryableErrors
<1>6. NoStrayContainer'
  BY <1>1, <1>3 DEF DeployInv, NoStrayContainer, StageSucceeds, TypeOK, deployVars, retryVars, dockerVars
<1>7. ASSUME NEW j \in Images PROVE ImageInv(j)'
  BY <1>1, <1>3 DEF DeployInv, ImageInv, StageSucceeds, TypeOK, deployVars, retryVars, dockerVars
<1>8. QED
  BY <1>4, <1>5, <1>6, <1>7, SameSets DEF DeployInv, ImageInv, StageSucceeds, deployVars

\* A stage that fails hands its error to the retry loop.
LEMMA StageFailsStep ==
  ASSUME DeployInv, NEW i \in Images, StageFails(i) PROVE DeployInv'
<1>1. /\ pc[i] \in {"configure", "start", "ports", "inspect", "ready"} /\ pc'[i] \in {"cleanup"}
      /\ pc' = [pc EXCEPT ![i] = pc'[i]]
      /\ pc' \in [Images -> PCs] /\ pc \in [Images -> PCs]
      /\ \A j \in Images : j # i => pc'[j] = pc[j]
  BY StageNames DEF DeployInv, TypeOK, StageFails, Goto, PCs
<1>2. MayTakeEffect(i)
  BY DEF StageFails, MayTakeEffect
<1>3. /\ cont' \in [Images -> {"absent", "created", "running", "exited"}]
      /\ cont'[i] = "absent" => cont[i] = "absent"
      /\ \A j \in Images : j # i => cont'[j] = cont[j]
  BY <1>2, EffectOfCall
<1>4. Deploying' = Deploying /\ Counted' = Counted
  BY <1>1, MoveInside
<1>5. TypeOK'
  BY <1>1, <1>3 DEF DeployInv, TypeOK, StageFails, deployVars, retryVars, dockerVars, MaxAttempts,
     RetryableErrors
<1>6. NoStrayContainer'
  BY <1>1, <1>3 DEF DeployInv, NoStrayContainer, StageFails, TypeOK, deployVars, retryVars, dockerVars
<1>7. ASSUME NEW j \in Images PROVE ImageInv(j)'
  BY <1>1, <1>3 DEF DeployInv, ImageInv, StageFails, TypeOK, deployVars, retryVars, dockerVars
<1>8. QED
  BY <1>4, <1>5, <1>6, <1>7, SameSets DEF DeployInv, ImageInv, StageFails, deployVars

\* A call that hangs keeps its goroutine inside deployImg.
LEMMA CallHangsStep ==
  ASSUME DeployInv, NEW i \in Images, CallHangs(i) PROVE DeployInv'
<1>1. /\ pc[i] \in {"configure", "start", "ports", "inspect", "ready", "create", "cleanup"}
      /\ pc'[i] = "hung" /\ pc' = [pc EXCEPT ![i] = pc'[i]]
      /\ pc' \in [Images -> PCs] /\ pc \in [Images -> PCs]
      /\ \A j \in Images : j # i => pc'[j] = pc[j]
  BY StageNames DEF DeployInv, TypeOK, CallHangs, Goto, PCs
<1>2. /\ cont' \in [Images -> {"absent", "created", "running", "exited"}]
      /\ cont'[i] = "absent" => cont[i] = "absent"
      /\ \A j \in Images : j # i => cont'[j] = cont[j]
  BY EffectOfCall DEF CallHangs
<1>3. Deploying' = Deploying /\ Counted' = Counted
  BY <1>1, MoveInside DEF PCs
<1>4. TypeOK'
  BY <1>1, <1>2 DEF DeployInv, TypeOK, CallHangs, deployVars, retryVars
<1>5. NoStrayContainer'
  BY <1>1, <1>2 DEF DeployInv, NoStrayContainer, CallHangs, deployVars
<1>6. ASSUME NEW j \in Images PROVE ImageInv(j)'
  BY <1>1, <1>2 DEF DeployInv, ImageInv, CallHangs, deployVars
<1>7. QED
  BY <1>3, <1>4, <1>5, <1>6, SameSets DEF DeployInv, ImageInv, CallHangs, deployVars

\* The panic of waitForPorts ends the process and leaves all as it is.
LEMMA WaitForPortsPanicsStep ==
  ASSUME DeployInv, NEW i \in Images, WaitForPortsPanics(i) PROVE DeployInv'
<1>1. Deploying' = Deploying /\ Counted' = Counted
  BY DEF WaitForPortsPanics, Deploying, Counted
<1>2. TypeOK' /\ NoStrayContainer' /\ NamesDistinct'
  BY DEF DeployInv, TypeOK, NoStrayContainer, NamesDistinct, WaitForPortsPanics, retryVars, dockerVars
<1>3. ReturnAfterAll' /\ counter' = Cardinality(Counted)'
  BY <1>1 DEF DeployInv, ReturnAfterAll, WaitForPortsPanics
<1>4. ASSUME NEW j \in Images PROVE ImageInv(j)'
  BY DEF DeployInv, ImageInv, WaitForPortsPanics, dockerVars
<1>5. QED
  BY <1>2, <1>3, <1>4 DEF DeployInv, ImageInv

\* removeFailedDeployment, then retry or give up.
LEMMA AttemptFailedStep ==
  ASSUME DeployInv, NEW i \in Images, AttemptFailed(i) PROVE DeployInv'
<1>1. /\ pc[i] \in {"cleanup"} /\ pc'[i] \in {"create", "doneErr"}
      /\ pc' = [pc EXCEPT ![i] = pc'[i]]
      /\ pc' \in [Images -> PCs] /\ pc \in [Images -> PCs]
      /\ \A j \in Images : j # i => pc'[j] = pc[j]
  BY StageNames DEF DeployInv, TypeOK, AttemptFailed, Goto, PCs, RemoveFailedDeployment
<1>2. Deploying' = Deploying /\ Counted' = Counted
  BY <1>1, MoveInside
<1>3. TypeOK'
  BY <1>1 DEF DeployInv, TypeOK, AttemptFailed, deployVars, retryVars, dockerVars, MaxAttempts,
     RetryableErrors, RemoveFailedDeployment
<1>4. NoStrayContainer'
  BY <1>1 DEF DeployInv, NoStrayContainer, AttemptFailed, TypeOK, deployVars, retryVars, dockerVars, RemoveFailedDeployment
<1>5. ASSUME NEW j \in Images PROVE ImageInv(j)'
  BY <1>1 DEF DeployInv, ImageInv, AttemptFailed, TypeOK, deployVars, retryVars, dockerVars, RemoveFailedDeployment
<1>6. QED
  BY <1>2, <1>3, <1>4, <1>5, SameSets DEF DeployInv, ImageInv, AttemptFailed, deployVars

\* The steps that leave every goroutine where it is.
LEMMA ContainerStep ==
  ASSUME DeployInv, NEW i \in Images, HomeserverExits(i) \/ Destroy(i) PROVE DeployInv'
<1>1. /\ pc' = pc /\ UNCHANGED deployVars /\ UNCHANGED retryVars
      /\ \A j \in Images : j # i => cont'[j] = cont[j] /\ removeErr'[j] = removeErr[j]
      /\ cont'[i] = "absent" => ~removeErr'[i]
      /\ TypeOK'
  BY DEF DeployInv, TypeOK, HomeserverExits, Destroy, deployVars, retryVars
<1>2. Deploying' = Deploying /\ Counted' = Counted
  BY <1>1 DEF Deploying, Counted
<1>3. NoStrayContainer'
  BY <1>1, StageNames DEF DeployInv, NoStrayContainer, HomeserverExits, Destroy, deployVars
<1>4. ASSUME NEW j \in Images PROVE ImageInv(j)'
  BY <1>1 DEF DeployInv, ImageInv, deployVars
<1>5. QED
  BY <1>1, <1>2, <1>3, <1>4, SameSets DEF DeployInv, ImageInv, deployVars

\* The strengthened invariant of Deploy, for any blueprint.
THEOREM DeployInvariant == Spec => []DeployInv
<1>1. DeployInv /\ [Next]_vars => DeployInv'
  <2> SUFFICES ASSUME DeployInv, [Next]_vars PROVE DeployInv'
    OBVIOUS
  <2>1. CASE DeployFails \/ DeploySpawn \/ DeployReturns
    BY <2>1, DeployFailsStep, DeploySpawnStep, DeployReturnsStep
  <2>2. ASSUME NEW i \in Images, GoroutineStep(i) PROVE DeployInv'
    BY <2>2, TakeCounterStep, StoreDeploymentStep, WgDoneStep, RecordErrorStep,
       ContainerCreateStep, ContainerCreateFailsStep, StageSucceedsStep,
       StageFailsStep, WaitForPortsPanicsStep, CallHangsStep, AttemptFailedStep
       DEF GoroutineStep
  <2>3. CASE UNCHANGED vars
    <3>1. Deploying' = Deploying /\ Counted' = Counted
      BY <2>3 DEF vars, Deploying, Counted
    <3>2. TypeOK' /\ NoStrayContainer'
      BY <2>3 DEF vars, deployVars, retryVars, dockerVars, DeployInv, TypeOK, NoStrayContainer
    <3>3. QED
      BY <2>3, <3>1, <3>2, SameSets DEF vars, deployVars, dockerVars, DeployInv
  <2>4. QED
    BY <2>1, <2>2, <2>3, ContainerStep DEF Next, Goroutine, Finished
<1>2. QED
  BY <1>1, InitInv, PTL DEF Spec

\* Deploy returns only after every image has been deployed or given up.
THEOREM DeployWaitsForAll == Spec => []ReturnAfterAll
<1>1. DeployInv => ReturnAfterAll
  BY DEF DeployInv
<1>2. QED
  BY <1>1, DeployInvariant, PTL

\* A failed homeserver leaves no container the daemon agreed to remove.
THEOREM DeployLeavesNoStray == Spec => []NoStrayContainer
<1>1. DeployInv => NoStrayContainer
  BY DEF DeployInv
<1>2. QED
  BY <1>1, DeployInvariant, PTL

\* No two homeservers of a deployment share a container name, so the removal
\* by name of a failed one never hits another (deployer.go:167).
THEOREM DeployNamesDistinct == Spec => []NamesDistinct
<1>1. DeployInv => NamesDistinct
  BY DEF DeployInv
<1>2. QED
  BY <1>1, DeployInvariant, PTL
=============================================================================
