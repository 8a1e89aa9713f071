----------------------------- MODULE Homerunner -----------------------------
(***************************************************************************)
(* The runtime of cmd/homerunner: create and destroy requests, served      *)
(* concurrently, and the timers that destroy a deployment when its         *)
(* lifetime is over.  The two maps of Runtime are protected by one mutex;  *)
(* the callback of a timer runs in a goroutine of its own and takes the    *)
(* mutex only after the timer has fired.                                   *)
(*                                                                         *)
(* A create request is one attempt to deploy: it stands for the            *)
(* *docker.Deployment it makes and for the timer armed for it.             *)
(***************************************************************************)
EXTENDS Naturals

CONSTANTS
  Creates,      \* POST /create requests
  Names,        \* blueprint names
  NameOf,       \* [Creates -> Names]
  None,         \* no deployment
  Client        \* ended by a POST /destroy request

ASSUME HomerunnerAssumption ==
  /\ NameOf \in [Creates -> Names]
  /\ None \notin Creates /\ Client \notin Creates /\ Client # None

VARIABLES
  pc,                     \* per create request
  BlueprintToDeployment,
  BlueprintToTimer,
  timer,                  \* per deployment: the state of its time.Timer
  containers,             \* whether containers of the deployment exist
  network,                \* whether its docker network exists
  endedBy,                \* history: who destroyed it; a create = its timer
  unremoved,              \* history: deployments of which docker refused to
                          \* remove a container
  stuck                   \* a docker call of Destroy does not return, and the
                          \* mutex stays locked

runtimeVars ==
  <<pc, BlueprintToDeployment, BlueprintToTimer, timer, containers, network, endedBy, unremoved>>
vars == <<runtimeVars, stuck>>

PCs == {"idle", "deploying", "deployed", "created", "rejected", "failed"}
Timers == {"none", "armed", "fired", "stopped", "done"}

TypeOK ==
  /\ pc \in [Creates -> PCs]
  /\ BlueprintToDeployment \in [Names -> Creates \cup {None}]
  /\ BlueprintToTimer \in [Names -> Creates \cup {None}]
  /\ timer \in [Creates -> Timers]
  /\ containers \in [Creates -> BOOLEAN]
  /\ network \in [Creates -> BOOLEAN]
  /\ endedBy \in [Creates -> Creates \cup {None, Client}]
  /\ unremoved \subseteq Creates
  /\ stuck \in BOOLEAN

\* NewRuntime
Init ==
  /\ pc = [c \in Creates |-> "idle"]
  /\ BlueprintToDeployment = [n \in Names |-> None]
  /\ BlueprintToTimer = [n \in Names |-> None]
  /\ timer = [c \in Creates |-> "none"]
  /\ containers = [c \in Creates |-> FALSE]
  /\ network = [c \in Creates |-> FALSE]
  /\ endedBy = [c \in Creates |-> None]
  /\ unremoved = {}
  /\ stuck = FALSE

-----------------------------------------------------------------------------
(* CreateDeployment *)

\* RouteCreate with a valid body; every request gets a configuration, and so
\* a RunID, of its own.
CreateBegin(c) ==
  /\ pc[c] = "idle"
  /\ pc' = [pc EXCEPT ![c] = "deploying"]
  /\ UNCHANGED <<BlueprintToDeployment, BlueprintToTimer, timer, containers, network, endedBy, unremoved>>

\* ConstructBlueprintIfNotExist and Deploy succeed.
DeploySucceeds(c) ==
  /\ pc[c] = "deploying"
  /\ pc' = [pc EXCEPT ![c] = "deployed"]
  /\ containers' = [containers EXCEPT ![c] = TRUE]
  /\ network' = [network EXCEPT ![c] = TRUE]
  /\ UNCHANGED <<BlueprintToDeployment, BlueprintToTimer, timer, endedBy, unremoved>>

\* One of them fails: the deployment is dropped as it is, with the network
\* and the containers that were made before the error.
DeployFails(c) ==
  /\ pc[c] = "deploying"
  /\ pc' = [pc EXCEPT ![c] = "failed"]
  /\ \E nw \in BOOLEAN, ct \in BOOLEAN :
       /\ ct => nw
       /\ network' = [network EXCEPT ![c] = nw]
       /\ containers' = [containers EXCEPT ![c] = ct]
  /\ UNCHANGED <<BlueprintToDeployment, BlueprintToTimer, timer, endedBy, unremoved>>

\* addDeployment: the name is taken, the request fails, its deployment stays.
AddRejected(c) ==
  /\ pc[c] = "deployed"
  /\ BlueprintToDeployment[NameOf[c]] # None
  /\ pc' = [pc EXCEPT ![c] = "rejected"]
  /\ UNCHANGED <<BlueprintToDeployment, BlueprintToTimer, timer, containers, network, endedBy, unremoved>>

\* Mutant: the name is not checked under the mutex.
AddDeploymentOverwrites(c) ==
  /\ pc[c] = "deployed"
  /\ pc' = [pc EXCEPT ![c] = "created"]
  /\ BlueprintToDeployment' = [BlueprintToDeployment EXCEPT ![NameOf[c]] = c]
  /\ BlueprintToTimer' = [BlueprintToTimer EXCEPT ![NameOf[c]] = c]
  /\ timer' = [timer EXCEPT ![c] = "armed"]
  /\ UNCHANGED <<containers, network, endedBy, unremoved>>

\* addDeployment: the deployment is registered and its timer armed.
AddDeployment(c) ==
  /\ pc[c] = "deployed"
  /\ BlueprintToDeployment[NameOf[c]] = None
  /\ pc' = [pc EXCEPT ![c] = "created"]
  /\ BlueprintToDeployment' = [BlueprintToDeployment EXCEPT ![NameOf[c]] = c]
  /\ BlueprintToTimer' = [BlueprintToTimer EXCEPT ![NameOf[c]] = c]
  /\ timer' = [timer EXCEPT ![c] = "armed"]
  /\ UNCHANGED <<containers, network, endedBy, unremoved>>

-----------------------------------------------------------------------------
(* DestroyDeployment, called by RouteDestroy and by the timers *)

\* Mutant: the timer is not stopped.
StopForgotten(t) == t

\* timer.Stop has no effect on a timer that fired.
Stop(t) == IF t = "armed" THEN "stopped" ELSE t

\* Destroy removes the containers, logging failures; it leaves the network.
\* Then both maps forget the name.
DestroyDeployment(n, who) ==
  LET d == BlueprintToDeployment[n] IN
  /\ d # None
  /\ \E removed \in BOOLEAN :
       /\ containers' = [containers EXCEPT ![d] = ~removed]
       /\ unremoved' = IF removed THEN unremoved ELSE unremoved \cup {d}
  /\ endedBy' = [endedBy EXCEPT ![d] = who]
  /\ BlueprintToDeployment' = [BlueprintToDeployment EXCEPT ![n] = None]
  /\ BlueprintToTimer' = [BlueprintToTimer EXCEPT ![n] = None]
  /\ UNCHANGED <<pc, network>>

RouteDestroy(n) ==
  /\ DestroyDeployment(n, Client)
  /\ timer' = [timer EXCEPT ![BlueprintToTimer[n]] = Stop(@)]

\* The lifetime is over: the runtime starts the callback's goroutine.
TimerFires(c) ==
  /\ timer[c] = "armed"
  /\ timer' = [timer EXCEPT ![c] = "fired"]
  /\ UNCHANGED <<pc, BlueprintToDeployment, BlueprintToTimer, containers, network, endedBy, unremoved>>

\* The callback destroys what the name stands for when it gets the mutex.
CallbackDestroys(c) ==
  LET n == NameOf[c] IN
  /\ timer[c] = "fired"
  /\ DestroyDeployment(n, c)
  /\ timer' = [timer EXCEPT ![BlueprintToTimer[n]] = Stop(@), ![c] = "done"]

\* Mutant: a callback that lost the race for the mutex gives up.
CallbackGivesUp(c) ==
  /\ timer[c] = "fired"
  /\ timer' = [timer EXCEPT ![c] = "done"]
  /\ UNCHANGED <<pc, BlueprintToDeployment, BlueprintToTimer, containers, network, endedBy, unremoved>>

\* The callback finds no deployment of the name and logs the error.
CallbackFindsNone(c) ==
  /\ timer[c] = "fired"
  /\ BlueprintToDeployment[NameOf[c]] = None
  /\ timer' = [timer EXCEPT ![c] = "done"]
  /\ UNCHANGED <<pc, BlueprintToDeployment, BlueprintToTimer, containers, network, endedBy, unremoved>>

TimerCallback(c) == CallbackDestroys(c) \/ CallbackFindsNone(c)

\* Destroy is called with the mutex held and docker calls have no deadline: one
\* that does not return keeps all others from the mutex.
DestroyHangs(n) ==
  /\ ~stuck
  /\ BlueprintToDeployment[n] # None
  /\ stuck' = TRUE
  /\ UNCHANGED runtimeVars

-----------------------------------------------------------------------------
\* What needs the mutex.
Locked ==
  \/ \E c \in Creates : AddRejected(c) \/ AddDeployment(c) \/ TimerCallback(c)
  \/ \E n \in Names : RouteDestroy(n)

Unlocked ==
  \E c \in Creates : CreateBegin(c) \/ DeploySucceeds(c) \/ DeployFails(c) \/ TimerFires(c)

Next ==
  \/ (Unlocked \/ (~stuck /\ Locked)) /\ UNCHANGED stuck
  \/ \E n \in Names : DestroyHangs(n)

Spec == Init /\ [][Next]_vars

\* Time passes, and a goroutine that waits for the mutex gets it if it is
\* unlocked.  Nothing is assumed about requests and docker calls.
FairSpec ==
  /\ Spec
  /\ \A c \in Creates :
       /\ WF_runtimeVars(TimerFires(c))
       /\ WF_runtimeVars(~stuck /\ TimerCallback(c))

-----------------------------------------------------------------------------
(* Properties *)

\* A client that was told that its deployment exists owns the name until the
\* deployment is destroyed: no concurrent create of the same name drops it
\* from the map, where no destroy and no timer would find it again
\* (addDeployment checks and registers under one lock).
AckedIsTracked ==
  \A c \in Creates :
    (pc[c] = "created" /\ endedBy[c] = None) => BlueprintToDeployment[NameOf[c]] = c

\* A timer that can still fire belongs to the deployment that is registered
\* under its name: destroying a deployment disarms its timer.
NoStrayTimer ==
  \A c \in Creates : timer[c] = "armed" => BlueprintToDeployment[NameOf[c]] = c

\* The inductive invariant: the two maps agree, and a registered deployment
\* has a timer that is armed or whose callback is on its way.
RuntimeInv ==
  /\ TypeOK
  /\ BlueprintToTimer = BlueprintToDeployment
  /\ \A n \in Names : \A c \in Creates :
       BlueprintToDeployment[n] = c =>
         NameOf[c] = n /\ pc[c] = "created" /\ endedBy[c] = None /\ timer[c] \in {"armed", "fired"}
  /\ \A c \in Creates : (timer[c] # "none" \/ endedBy[c] # None) => pc[c] = "created"
  /\ AckedIsTracked
  /\ NoStrayTimer

\* "how long networks can exist for before being destroyed" (README.md:7 of
\* homerunner), for the containers of acknowledged deployments: in the end they
\* are gone for good, even if destroy requests and other creates race with the
\* timer, unless docker refused to remove one or never answered.  The docker
\* network itself stays: Destroy does not remove it (setup.go:84).
ExpiryTearsDown ==
  \A c \in Creates :
    pc[c] = "created" ~> (stuck \/ [](endedBy[c] # None /\ (containers[c] => c \in unremoved)))

\* "Blueprint '%s' has expired. Tearing down network." (setup.go:69): a
\* deployment that is ended by a timer has expired, that is, it is ended by
\* its own timer and not by the timer of an earlier deployment of that name.
EndedByOwnTimer == \A c \in Creates : endedBy[c] \in {None, Client, c}
=============================================================================
