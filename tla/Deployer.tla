------------------------------ MODULE Deployer ------------------------------
(***************************************************************************)
(* docker.Deployer: one Deploy call, which starts every image of a         *)
(* blueprint in a goroutine of its own, each with the retry loop of        *)
(* deployImage, and the Destroy of what it returns.                        *)
(*                                                                         *)
(* The Docker daemon is external: any call to it may fail, before or after *)
(* it took effect, or never return, and the daemon keeps at most one       *)
(* container per name.  A container name holds the value of                *)
(* Deployer.Counter, so the containers of image i are the ones named       *)
(* name[i] and cont[i] is the state of the one with that name, if any.     *)
(***************************************************************************)
EXTENDS Naturals, FiniteSets

CONSTANT Images   \* the images of the blueprint, one per homeserver

ASSUME ImagesAssumption == IsFiniteSet(Images) /\ Images # {}

MaxAttempts == 3

VARIABLES
  main,        \* where Deploy is: "start", "waiting", "returned"; or the
               \* process is gone: "panicked"
  result,      \* what Deploy returned: "none", "ok" (nil error), "error"
  wg,          \* the WaitGroup's counter
  counter,     \* d.Counter
  lastErr,     \* lastErr # nil
  hs,          \* the images with an entry in dep.HS
  pc,          \* where the goroutine of an image is
  name,        \* its container name; 0: not chosen yet
  attempt,     \* the attempt deployImage is in
  hasID,       \* deployImageOnce returned a deployment with a ContainerID
  retryable,   \* isRetryableDeployBootstrapError of its error
  cont,        \* the container named name[i]
  removeErr    \* history: the last removal of that container failed

retryVars == <<attempt, hasID, retryable>>
dockerVars == <<cont, removeErr>>
deployVars == <<main, result, wg, counter, lastErr, hs, name>>
vars == <<deployVars, retryVars, dockerVars, pc>>

\* The stages of deployImageOnce after ContainerCreate, in order ("ports" is
\* waitForPorts and getHostAccessibleHomeserverURLs), and for each the values of
\* isRetryableDeployBootstrapError its errors can have.
\* Copying files and ContainerInspect have no marker of their own in the
\* error text, but the text of the cause may hold one ("EOF").
RetryableErrors(stage) == IF stage \in {"configure", "inspect"} THEN BOOLEAN ELSE {TRUE}
NextStage == [configure |-> "start", start |-> "ports", ports |-> "inspect",
              inspect |-> "ready", ready |-> "store"]
StageSet == DOMAIN NextStage

PCs == StageSet \cup {"idle", "count", "create", "cleanup", "store",
                      "hung", "doneOk", "doneErr", "setErr", "exited"}

TypeOK ==
  /\ main \in {"start", "waiting", "returned", "panicked"}
  /\ result \in {"none", "ok", "error"}
  /\ wg \in 0 .. Cardinality(Images)
  /\ counter \in 0 .. Cardinality(Images)
  /\ lastErr \in BOOLEAN
  /\ hs \subseteq Images
  /\ pc \in [Images -> PCs]
  /\ name \in [Images -> 0 .. Cardinality(Images)]
  /\ attempt \in [Images -> 1 .. MaxAttempts]
  /\ hasID \in [Images -> BOOLEAN]
  /\ retryable \in [Images -> BOOLEAN]
  /\ cont \in [Images -> {"absent", "created", "running", "exited"}]
  /\ removeErr \in [Images -> BOOLEAN]

Init ==
  /\ main = "start"
  /\ result = "none"
  /\ wg = 0
  /\ counter = 0
  /\ lastErr = FALSE
  /\ hs = {}
  /\ pc = [i \in Images |-> "idle"]
  /\ name = [i \in Images |-> 0]
  /\ attempt = [i \in Images |-> 1]
  /\ hasID = [i \in Images |-> FALSE]
  /\ retryable = [i \in Images |-> FALSE]
  /\ cont = [i \in Images |-> "absent"]
  /\ removeErr = [i \in Images |-> FALSE]

Goto(i, p) == pc' = [pc EXCEPT ![i] = p]

-----------------------------------------------------------------------------
(* Deploy *)

\* ImageList, or the creation of the network, fails.
DeployFails ==
  /\ main = "start"
  /\ main' = "returned"
  /\ result' = "error"
  /\ UNCHANGED <<wg, counter, lastErr, hs, name, retryVars, dockerVars, pc>>

\* Mutant: an off-by-one in wg.Add.
DeploySpawnAddsOneLess ==
  /\ main = "start"
  /\ main' = "waiting"
  /\ wg' = Cardinality(Images) - 1
  /\ pc' = [i \in Images |-> "count"]
  /\ UNCHANGED <<result, counter, lastErr, hs, name, retryVars, dockerVars>>

\* wg.Add(len(images)) and one goroutine per image.
DeploySpawn ==
  /\ main = "start"
  /\ main' = "waiting"
  /\ wg' = Cardinality(Images)
  /\ pc' = [i \in Images |-> "count"]
  /\ UNCHANGED <<result, counter, lastErr, hs, name, retryVars, dockerVars>>

\* Mutant: d.Counter is read and written without mu, and an update is lost.
TakeCounterUnlocked(i) ==
  /\ pc[i] = "count"
  /\ \E c \in {counter, counter + 1} : counter' = c
  /\ name' = [name EXCEPT ![i] = counter + 1]
  /\ Goto(i, "create")
  /\ UNCHANGED <<main, result, wg, lastErr, hs, retryVars, dockerVars>>

\* The critical section around d.Counter++.
TakeCounter(i) ==
  /\ pc[i] = "count"
  /\ counter' = counter + 1
  /\ name' = [name EXCEPT ![i] = counter']
  /\ Goto(i, "create")
  /\ UNCHANGED <<main, result, wg, lastErr, hs, retryVars, dockerVars>>

\* The critical section around dep.HS[hsName] = deployment.
StoreDeployment(i) ==
  /\ pc[i] = "store"
  /\ hs' = hs \cup {i}
  /\ Goto(i, "doneOk")
  /\ UNCHANGED <<main, result, wg, counter, lastErr, name, retryVars, dockerVars>>

\* Mutant: wg.Done() on the success path only.
WgDoneOnSuccess(i) ==
  /\ pc[i] \in {"doneOk", "doneErr"}
  /\ wg' = IF pc[i] = "doneOk" THEN wg - 1 ELSE wg
  /\ Goto(i, IF pc[i] = "doneOk" THEN "exited" ELSE "setErr")
  /\ UNCHANGED <<main, result, counter, lastErr, hs, name, retryVars, dockerVars>>

\* The deferred wg.Done() of deployImg, which runs when deployImg returns ...
WgDone(i) ==
  /\ pc[i] \in {"doneOk", "doneErr"}
  /\ wg' = wg - 1
  /\ Goto(i, IF pc[i] = "doneOk" THEN "exited" ELSE "setErr")
  /\ UNCHANGED <<main, result, counter, lastErr, hs, name, retryVars, dockerVars>>

\* ... and so before its caller records the error it returned.
RecordError(i) ==
  /\ pc[i] = "setErr"
  /\ lastErr' = TRUE
  /\ Goto(i, "exited")
  /\ UNCHANGED <<main, result, wg, counter, hs, name, retryVars, dockerVars>>

\* wg.Wait(); return dep, lastErr
DeployReturns ==
  /\ main = "waiting"
  /\ wg = 0
  /\ main' = "returned"
  /\ result' = IF lastErr THEN "error" ELSE "ok"
  /\ UNCHANGED <<wg, counter, lastErr, hs, name, retryVars, dockerVars, pc>>

-----------------------------------------------------------------------------
(* deployImage: up to MaxAttempts times deployImageOnce *)

\* What the docker call that goroutine i is in makes of its container.
Effect(i) ==
  CASE pc[i] = "create" /\ cont[i] = "absent" -> "created"
    [] pc[i] = "start" -> "running"
    [] OTHER -> cont[i]

TakesEffect(i) == cont' = [cont EXCEPT ![i] = Effect(i)]
MayTakeEffect(i) == TakesEffect(i) \/ UNCHANGED cont

ContainerCreate(i) ==
  /\ pc[i] = "create"
  /\ cont[i] = "absent"
  /\ TakesEffect(i)
  /\ hasID' = [hasID EXCEPT ![i] = TRUE]
  /\ Goto(i, "configure")
  /\ UNCHANGED <<deployVars, attempt, retryable, removeErr>>

\* A daemon error, also after the container was made, or the name is taken by
\* what an earlier attempt left.  No ContainerID is known.
ContainerCreateFails(i) ==
  /\ pc[i] = "create"
  /\ MayTakeEffect(i)
  /\ hasID' = [hasID EXCEPT ![i] = FALSE]
  /\ retryable' = [retryable EXCEPT ![i] = TRUE]
  /\ Goto(i, "cleanup")
  /\ UNCHANGED <<deployVars, attempt, removeErr>>

\* A stage succeeds.  waitForPorts, the inspections and waitForContainer do
\* not succeed on a container that has exited.
StageSucceeds(i) ==
  /\ pc[i] \in StageSet
  /\ pc[i] \in {"ports", "ready"} => cont[i] = "running"
  /\ TakesEffect(i)
  /\ Goto(i, NextStage[pc[i]])
  /\ UNCHANGED <<deployVars, retryVars, removeErr>>

\* A stage fails; a ContainerStart may have started the container first.
StageFails(i) ==
  /\ pc[i] \in StageSet
  /\ MayTakeEffect(i)
  /\ \E r \in RetryableErrors(pc[i]) : retryable' = [retryable EXCEPT ![i] = r]
  /\ Goto(i, "cleanup")
  /\ UNCHANGED <<deployVars, attempt, hasID, removeErr>>

\* In waitForPorts, an inspection that fails, but not because the container has
\* exited, is not returned: the ports are taken from the zero result, whose
\* NetworkSettings are nil, and the panic of the goroutine ends the process.
WaitForPortsPanics(i) ==
  /\ pc[i] = "ports"
  /\ main' = "panicked"
  /\ UNCHANGED <<result, wg, counter, lastErr, hs, name, retryVars, dockerVars, pc>>

\* A call does not return: docker calls have no deadline (context.Background),
\* nor has the GET of waitForContainer, which looks at the clock between two
\* requests only.
CallHangs(i) ==
  /\ pc[i] \in StageSet \cup {"create", "cleanup"}
  /\ MayTakeEffect(i)
  /\ Goto(i, "hung")
  /\ UNCHANGED <<deployVars, retryVars, removeErr>>

\* The homeserver dies, while deployImageOnce waits for it or at any later time.
HomeserverExits(i) ==
  /\ cont[i] = "running"
  /\ cont' = [cont EXCEPT ![i] = "exited"]
  /\ UNCHANGED <<deployVars, retryVars, removeErr, pc>>

\* Mutant: only a container whose ID is known is removed.
RemoveOnlyByID(i) ==
  \E gone \in BOOLEAN :
    /\ cont[i] = "absent" => gone
    /\ cont' = [cont EXCEPT ![i] = IF gone /\ hasID[i] THEN "absent" ELSE @]
    /\ removeErr' = [removeErr EXCEPT ![i] = ~gone]

\* removeFailedDeployment: by container ID when deployImageOnce returned one,
\* by name otherwise.  With no container of that name there is nothing to do;
\* the daemon's error is only logged.
RemoveFailedDeployment(i) ==
  \E gone \in BOOLEAN :
    /\ cont[i] = "absent" => gone
    /\ cont' = [cont EXCEPT ![i] = IF gone THEN "absent" ELSE @]
    /\ removeErr' = [removeErr EXCEPT ![i] = ~gone]

\* An attempt failed: clean up, then try again or give up.
AttemptFailed(i) ==
  /\ pc[i] = "cleanup"
  /\ RemoveFailedDeployment(i)
  /\ IF retryable[i] /\ attempt[i] < MaxAttempts
       THEN attempt' = [attempt EXCEPT ![i] = @ + 1] /\ Goto(i, "create")
       ELSE UNCHANGED attempt /\ Goto(i, "doneErr")
  /\ UNCHANGED <<deployVars, hasID, retryable>>

-----------------------------------------------------------------------------
(* The test's deferred Deployment.Destroy: kill and remove every container  *)
(* of dep.HS; errors are only logged.  A Deploy error makes the test fail   *)
(* before Destroy is deferred, and the other containers stay until          *)
(* Builder.Cleanup.                                                         *)

Destroy(i) ==
  /\ result = "ok"
  /\ i \in hs
  /\ cont[i] # "absent"
  /\ ~removeErr[i]
  /\ \E gone \in BOOLEAN :
       /\ cont' = [cont EXCEPT ![i] = IF gone THEN "absent" ELSE "exited"]
       /\ removeErr' = [removeErr EXCEPT ![i] = ~gone]
  /\ UNCHANGED <<deployVars, retryVars, pc>>

GoroutineStep(i) ==
  \/ TakeCounter(i) \/ StoreDeployment(i) \/ WgDone(i) \/ RecordError(i)
  \/ ContainerCreate(i) \/ ContainerCreateFails(i)
  \/ StageSucceeds(i) \/ StageFails(i) \/ WaitForPortsPanics(i) \/ CallHangs(i)
  \/ AttemptFailed(i)

Goroutine(i) == main # "panicked" /\ GoroutineStep(i)

\* Nothing is left that the code can do.
Finished ==
  /\ \/ main = "panicked"
     \/ main = "returned" /\ \A i \in Images : pc[i] \in {"idle", "exited"}
     \/ main = "waiting" /\ \A i \in Images : pc[i] \in {"hung", "exited"}
  /\ UNCHANGED vars

Next ==
  \/ DeployFails \/ DeploySpawn \/ DeployReturns
  \/ \E i \in Images : Goroutine(i) \/ HomeserverExits(i) \/ Destroy(i)
  \/ Finished

Spec == Init /\ [][Next]_vars

\* Goroutines that can go on do.  That a call returns is not assumed: one that
\* does not is CallHangs.
FairSpec ==
  /\ Spec
  /\ WF_vars(DeployReturns)
  /\ \A i \in Images : WF_vars(Goroutine(i))

-----------------------------------------------------------------------------
(* Properties *)

\* The goroutines wg.Wait() waits for.
Deploying == {i \in Images : pc[i] \notin {"idle", "setErr", "exited"}}

\* "ensure we wait until all images have deployed" (deployer.go:163): the
\* WaitGroup counts the goroutines inside deployImg, and Deploy does not
\* return while one of them can still start, store or remove a container.
ReturnAfterAll ==
  /\ wg = Cardinality(Deploying)
  /\ main = "returned" => Deploying = {}

\* Two homeservers of a deployment never share a container name, so removing
\* what a failed attempt left by name (removeContainersByName) cannot remove
\* another homeserver's container.
NamesDistinct ==
  \A i, j \in Images : (i # j /\ name[i] # 0) => name[i] # name[j]

\* A homeserver that could not be deployed leaves no container behind, unless
\* the daemon refused the last request to remove it: every failing path of
\* deployImage goes through removeFailedDeployment, which finds the container
\* by name if the call that made it failed all the same.
NoStrayContainer ==
  \A i \in Images :
    (pc[i] \in {"doneErr", "setErr", "exited"} /\ i \notin hs /\ cont[i] # "absent")
      => removeErr[i]

\* The goroutines that have taken a value of d.Counter.
Counted == {i \in Images : pc[i] \notin {"idle", "count"}}

\* The inductive invariant: the type, the meaning of wg, the names taken so
\* far, and that the entries of dep.HS are the goroutines that succeeded.
DeployInv ==
  /\ TypeOK
  /\ ReturnAfterAll
  /\ NoStrayContainer
  /\ counter = Cardinality(Counted)
  /\ \A i \in Images :
       /\ name[i] <= counter
       /\ pc[i] \in {"idle", "count"} <=> name[i] = 0
       /\ main = "start" => pc[i] = "idle"
       /\ main = "waiting" => pc[i] # "idle"
       /\ i \in hs => pc[i] \in {"doneOk", "exited"}
       /\ pc[i] = "doneOk" => i \in hs
       /\ cont[i] = "absent" => ~removeErr[i]
  /\ NamesDistinct

\* A Deploy call that has started its goroutines returns, whatever the daemon
\* and the homeservers answer: every path through deployImg decrements the
\* WaitGroup (deployer.go:165, 211).  Only a call that never returns, or the
\* panic of waitForPorts, keeps it from doing so.
DeployTerminates ==
  main = "waiting" ~> \/ main \in {"returned", "panicked"}
                      \/ \E i \in Images : pc[i] = "hung"

\* "A deployment failure ... must never be represented as a skipped test.
\* Fatalf also stops the current test before it can execute assertions
\* against a nil/stub deployment." (test_main.go:104-106): a Deploy that
\* returns no error has deployed every homeserver of the blueprint.
OkMeansComplete == result = "ok" => hs = Images
=============================================================================
