-------------------------- MODULE HomerunnerProofs --------------------------
(***************************************************************************)
(* The two maps of the homerunner runtime stay consistent with the timers, *)
(* for any number of concurrent requests and names.                        *)
(***************************************************************************)
EXTENDS Homerunner, TLAPS

USE HomerunnerAssumption

\* Nothing is deployed at the start.
LEMMA InitRuntimeInv == Init => RuntimeInv
<1> SUFFICES ASSUME Init PROVE RuntimeInv
  OBVIOUS
<1>1. stuck \in BOOLEAN /\ unremoved \subseteq Creates
  BY DEF Init
<1>2. /\ pc \in [Creates -> PCs] /\ timer \in [Creates -> Timers]
      /\ containers \in [Creates -> BOOLEAN] /\ network \in [Creates -> BOOLEAN]
      /\ endedBy \in [Creates -> Creates \cup {None, Client}]
      /\ BlueprintToDeployment \in [Names -> Creates \cup {None}]
      /\ BlueprintToTimer \in [Names -> Creates \cup {None}]
  BY DEF Init, PCs, Timers
<1>3. TypeOK
  BY <1>1, <1>2 DEF TypeOK
<1>4. QED
  BY <1>3 DEF Init, RuntimeInv, AckedIsTracked, NoStrayTimer

\* Steps of a create request that do not reach the maps.
LEMMA CreateStep ==
  ASSUME RuntimeInv, stuck' \in BOOLEAN, NEW c \in Creates,
         CreateBegin(c) \/ DeploySucceeds(c) \/ DeployFails(c) \/ AddRejected(c)
  PROVE  RuntimeInv'
<1>1. TypeOK'
  <2>1. CASE CreateBegin(c)
    BY <2>1 DEF CreateBegin, RuntimeInv, TypeOK, PCs
  <2>2. CASE DeploySucceeds(c)
    BY <2>2 DEF DeploySucceeds, RuntimeInv, TypeOK, PCs
  <2>3. CASE DeployFails(c)
    BY <2>3 DEF DeployFails, RuntimeInv, TypeOK, PCs
  <2>4. CASE AddRejected(c)
    BY <2>4 DEF AddRejected, RuntimeInv, TypeOK, PCs
  <2>5. QED
    BY <2>1, <2>2, <2>3, <2>4
<1>2. /\ UNCHANGED <<BlueprintToDeployment, BlueprintToTimer, timer, endedBy>>
      /\ pc[c] # "created"
      /\ \A x \in Creates : x # c => pc'[x] = pc[x]
      /\ pc'[c] # "created"
  BY DEF CreateBegin, DeploySucceeds, DeployFails, AddRejected, RuntimeInv, TypeOK
<1>3. QED
  BY <1>1, <1>2 DEF RuntimeInv, AckedIsTracked, NoStrayTimer

\* addDeployment registers a deployment under a free name.
LEMMA AddDeploymentStep ==
  ASSUME RuntimeInv, stuck' \in BOOLEAN, NEW c \in Creates, AddDeployment(c)
  PROVE  RuntimeInv'
<1>1. TypeOK'
  BY DEF AddDeployment, RuntimeInv, TypeOK, PCs, Timers
<1>2. endedBy[c] = None
  BY DEF AddDeployment, RuntimeInv
<1>3. QED
  BY <1>1, <1>2 DEF AddDeployment, RuntimeInv, TypeOK, AckedIsTracked, NoStrayTimer

\* What DestroyDeployment needs of the timers: the one of the deployment it
\* ends is disarmed, a callback may be done, the others are left alone.
TimersAfter(n, d) ==
  /\ timer' \in [Creates -> Timers]
  /\ timer'[d] # "armed"
  /\ \A x \in Creates : x # d => timer'[x] = timer[x] \/ (NameOf[x] = n /\ timer[x] # "none" /\ timer'[x] = "done")

\* DestroyDeployment keeps the maps and the timers consistent.
LEMMA DestroyStep ==
  ASSUME RuntimeInv, stuck' \in BOOLEAN, NEW n \in Names, NEW who \in Creates \cup {Client},
         DestroyDeployment(n, who), TimersAfter(n, BlueprintToDeployment[n])
  PROVE  RuntimeInv'
<1> DEFINE d == BlueprintToDeployment[n]
<1>1. TypeOK /\ d \in Creates /\ NameOf[d] = n /\ pc[d] = "created"
  BY DEF DestroyDeployment, RuntimeInv, TypeOK
<1>2. /\ BlueprintToDeployment' = [BlueprintToDeployment EXCEPT ![n] = None]
      /\ BlueprintToTimer' = [BlueprintToTimer EXCEPT ![n] = None]
      /\ endedBy' = [endedBy EXCEPT ![d] = who]
      /\ UNCHANGED pc
      /\ TimersAfter(n, d)
  BY DEF DestroyDeployment
<1>3. TypeOK'
  BY <1>1 DEF DestroyDeployment, TypeOK, TimersAfter
<1> HIDE DEF d
<1>4. /\ \A m \in Names : BlueprintToDeployment'[m] = IF m = n THEN None ELSE BlueprintToDeployment[m]
      /\ \A x \in Creates : endedBy'[x] = IF x = d THEN who ELSE endedBy[x]
      /\ who # None
  BY <1>1, <1>2 DEF TypeOK
<1>5. BlueprintToTimer' = BlueprintToDeployment'
  BY <1>2 DEF RuntimeInv
<1>6. ASSUME NEW m \in Names, NEW x \in Creates, BlueprintToDeployment'[m] = x
      PROVE  NameOf[x] = m /\ pc'[x] = "created" /\ endedBy'[x] = None /\ timer'[x] \in {"armed", "fired"}
  <2>1. m # n /\ BlueprintToDeployment[m] = x
    BY <1>4, <1>6
  <2>2. NameOf[x] = m /\ pc[x] = "created" /\ endedBy[x] = None /\ timer[x] \in {"armed", "fired"}
    BY <2>1 DEF RuntimeInv
  <2>3. x # d
    BY <1>1, <2>1, <2>2
  <2>4. QED
    BY <1>2, <1>4, <2>1, <2>2, <2>3 DEF TimersAfter
<1>7. AckedIsTracked'
  <2> SUFFICES ASSUME NEW x \in Creates, pc'[x] = "created", endedBy'[x] = None
               PROVE  BlueprintToDeployment'[NameOf[x]] = x
    BY DEF AckedIsTracked
  <2>1. x # d /\ pc[x] = "created" /\ endedBy[x] = None
    BY <1>2, <1>4
  <2>2. BlueprintToDeployment[NameOf[x]] = x
    BY <2>1 DEF RuntimeInv, AckedIsTracked
  <2>3. NameOf[x] # n
    BY <2>1, <2>2 DEF d
  <2>4. QED
    BY <1>4, <2>2, <2>3
<1>8. NoStrayTimer'
  <2> SUFFICES ASSUME NEW x \in Creates, timer'[x] = "armed"
               PROVE  BlueprintToDeployment'[NameOf[x]] = x
    BY DEF NoStrayTimer
  <2>1. x # d /\ timer[x] = "armed"
    BY <1>2 DEF TimersAfter
  <2>2. BlueprintToDeployment[NameOf[x]] = x
    BY <2>1 DEF RuntimeInv, NoStrayTimer
  <2>3. NameOf[x] # n
    BY <2>1, <2>2 DEF d
  <2>4. QED
    BY <1>4, <2>2, <2>3
<1>9. ASSUME NEW x \in Creates, timer'[x] # "none" \/ endedBy'[x] # None
      PROVE  pc'[x] = "created"
  <2>1. x = d \/ timer[x] # "none" \/ endedBy[x] # None
    BY <1>2, <1>4, <1>9 DEF TimersAfter
  <2>2. QED
    BY <1>1, <1>2, <2>1 DEF RuntimeInv
<1>10. QED
  BY <1>3, <1>5, <1>6, <1>7, <1>8, <1>9 DEF RuntimeInv

\* A destroy request ends the registered deployment and stops its timer.
LEMMA RouteDestroyStep ==
  ASSUME RuntimeInv, stuck' \in BOOLEAN, NEW n \in Names, RouteDestroy(n)
  PROVE  RuntimeInv'
<1>1. /\ TypeOK
      /\ BlueprintToDeployment[n] \in Creates
      /\ BlueprintToTimer[n] = BlueprintToDeployment[n]
  BY DEF RouteDestroy, DestroyDeployment, RuntimeInv, TypeOK
<1>2. TimersAfter(n, BlueprintToDeployment[n])
  BY <1>1 DEF RouteDestroy, TimersAfter, TypeOK, Timers, Stop
<1>3. QED
  BY <1>2, DestroyStep DEF RouteDestroy

\* A timer that fires stays with its deployment until the callback runs.
LEMMA TimerFiresStep ==
  ASSUME RuntimeInv, stuck' \in BOOLEAN, NEW c \in Creates, TimerFires(c)
  PROVE  RuntimeInv'
<1>1. TypeOK'
  BY DEF TimerFires, RuntimeInv, TypeOK, Timers
<1>2. QED
  BY <1>1 DEF TimerFires, RuntimeInv, TypeOK, AckedIsTracked, NoStrayTimer

\* The callback of a timer, also of one whose deployment is gone.
LEMMA TimerCallbackStep ==
  ASSUME RuntimeInv, stuck' \in BOOLEAN, NEW c \in Creates, TimerCallback(c)
  PROVE  RuntimeInv'
<1>1. CASE CallbackDestroys(c)
  <2> DEFINE n == NameOf[c]
             d == BlueprintToDeployment[n]
  <2>1. /\ TypeOK /\ n \in Names /\ d \in Creates
        /\ BlueprintToTimer[n] = d
    BY <1>1 DEF CallbackDestroys, DestroyDeployment, RuntimeInv, TypeOK
  <2>2. /\ timer' = [timer EXCEPT ![BlueprintToTimer[n]] = Stop(@), ![c] = "done"]
        /\ timer[c] = "fired"
        /\ DestroyDeployment(n, c)
    BY <1>1 DEF CallbackDestroys
  <2> HIDE DEF n, d
  <2>3. /\ timer' \in [Creates -> Timers]
        /\ \A x \in Creates :
             timer'[x] = IF x = c THEN "done" ELSE IF x = d THEN Stop(timer[x]) ELSE timer[x]
    BY <2>1, <2>2 DEF TypeOK, Timers, Stop
  <2>4. TimersAfter(n, d)
    BY <2>1, <2>2, <2>3 DEF TimersAfter, Stop, n
  <2>5. QED
    BY <2>1, <2>2, <2>4, DestroyStep DEF d
<1>2. CASE CallbackFindsNone(c)
  <2>1. TypeOK'
    BY <1>2 DEF CallbackFindsNone, RuntimeInv, TypeOK, Timers
  <2>2. \A n \in Names : BlueprintToDeployment[n] # c
    BY <1>2 DEF CallbackFindsNone, RuntimeInv
  <2>3. QED
    BY <1>2, <2>1, <2>2 DEF CallbackFindsNone, RuntimeInv, TypeOK, AckedIsTracked, NoStrayTimer
<1>3. QED
  BY <1>1, <1>2 DEF TimerCallback

\* RuntimeInv holds in every state of the homerunner runtime.
THEOREM RuntimeInvariant == Spec => []RuntimeInv
<1>1. RuntimeInv /\ [Next]_vars => RuntimeInv'
  <2> SUFFICES ASSUME RuntimeInv, [Next]_vars PROVE RuntimeInv'
    OBVIOUS
  <2>0. stuck' \in BOOLEAN
    BY DEF Next, DestroyHangs, vars, RuntimeInv, TypeOK
  <2>1. ASSUME NEW c \in Creates,
               CreateBegin(c) \/ DeploySucceeds(c) \/ DeployFails(c) \/ AddRejected(c)
        PROVE  RuntimeInv'
    BY <2>0, <2>1, CreateStep
  <2>2. ASSUME NEW c \in Creates, AddDeployment(c) PROVE RuntimeInv'
    BY <2>0, <2>2, AddDeploymentStep
  <2>3. ASSUME NEW c \in Creates, TimerFires(c) \/ TimerCallback(c) PROVE RuntimeInv'
    BY <2>0, <2>3, TimerFiresStep, TimerCallbackStep
  <2>4. ASSUME NEW n \in Names, RouteDestroy(n) PROVE RuntimeInv'
    BY <2>0, <2>4, RouteDestroyStep
  <2>5. CASE UNCHANGED runtimeVars
    BY <2>0, <2>5 DEF runtimeVars, RuntimeInv, TypeOK, AckedIsTracked, NoStrayTimer
  <2>6. QED
    BY <2>1, <2>2, <2>3, <2>4, <2>5 DEF Next, Locked, Unlocked, DestroyHangs, vars
<1>2. QED
  BY <1>1, InitRuntimeInv, PTL DEF Spec

\* An acknowledged deployment is never dropped from the map by a concurrent
\* create of the same name (setup.go:62-65).
THEOREM AckedStaysTracked == Spec => []AckedIsTracked
<1>1. RuntimeInv => AckedIsTracked
  BY DEF RuntimeInv
<1>2. QED
  BY <1>1, RuntimeInvariant, PTL

\* No armed timer is left behind by a deployment that is gone.
THEOREM NoTimerIsLeftArmed == Spec => []NoStrayTimer
<1>1. RuntimeInv => NoStrayTimer
  BY DEF RuntimeInv
<1>2. QED
  BY <1>1, RuntimeInvariant, PTL
=============================================================================
