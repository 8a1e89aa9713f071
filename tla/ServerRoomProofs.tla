-------------------------- MODULE ServerRoomProofs --------------------------
(***************************************************************************)
(* AddEvent and WaiterForEvent never lose a wake-up and never wake a       *)
(* Waiter early, and calls that do not overlap keep the fields of the room *)
(* in step, for any number of goroutines, Waiters and events.              *)
(***************************************************************************)
EXTENDS ServerRoom, TLAPS

USE RoomAssumption

\* The effect of AppendTimeline on membership.
LEMMA AppendTimelineElements ==
  ASSUME CoreTypes, NEW t \in Threads, ev[t] \in Events, AppendTimeline(t), NEW x
  PROVE  InTimeline(x)' <=> (InTimeline(x) \/ x = ev[t])
<1> DEFINE e == ev[t]
<1>1. timeline' = Append(timeline, e) /\ timeline \in Seq(Events) /\ e \in Events
  BY DEF AppendTimeline, CoreTypes
<1> HIDE DEF e
<1>2. /\ DOMAIN timeline = 1 .. Len(timeline)
      /\ Len(timeline) \in Nat
      /\ DOMAIN timeline' = 1 .. Len(timeline) + 1
      /\ \A i \in 1 .. Len(timeline) : timeline'[i] = timeline[i]
      /\ timeline'[Len(timeline) + 1] = e
  BY <1>1
<1>3. InTimeline(x)' <=> (InTimeline(x) \/ x = e)
  BY <1>2 DEF InTimeline
<1>4. QED
  BY <1>3 DEF e

\* Every operation keeps the types of the room.
LEMMA TypeStep ==
  ASSUME CoreTypes, WaiterInv, [CoreNext]_coreVars
  PROVE  CoreTypes'
<1> USE DEF CoreTypes, AddPCs, WaiterPCs
<1>1. ASSUME NEW t \in Threads, NEW e \in Events, AddEventBegin(t, e)
      PROVE  CoreTypes'
  BY <1>1 DEF AddEventBegin, roomVars, waitVars
<1>2. ASSUME NEW t \in Threads, ReadExtremity(t)
      PROVE  CoreTypes'
  BY <1>2 DEF ReadExtremity, roomVars, waitVars
<1>3. ASSUME NEW t \in Threads, ReplaceCurrentState(t)
      PROVE  CoreTypes'
  BY <1>3 DEF ReplaceCurrentState, waitVars, WaiterInv
<1>4. ASSUME NEW t \in Threads, AppendTimeline(t)
      PROVE  CoreTypes'
  BY <1>4 DEF AppendTimeline, waitVars, WaiterInv
<1>5. ASSUME NEW t \in Threads, CompareDepth(t)
      PROVE  CoreTypes'
  BY <1>5 DEF CompareDepth, roomVars, waitVars
<1>6. ASSUME NEW t \in Threads, SetDepth(t)
      PROVE  CoreTypes'
  <2>1. DepthOf[ev[t]] \in Nat
    BY <1>6 DEF SetDepth, WaiterInv
  <2>2. QED
    BY <1>6, <2>1 DEF SetDepth, waitVars
<1>7. ASSUME NEW t \in Threads, SetExtremity(t)
      PROVE  CoreTypes'
  BY <1>7 DEF SetExtremity, waitVars
<1>8. ASSUME NEW t \in Threads, InformWaiters(t)
      PROVE  CoreTypes'
  <2>1. waiters[ev[t]] \in SUBSET Waiters
    BY <1>8 DEF InformWaiters, WaiterInv
  <2>2. QED
    BY <1>8, <2>1 DEF InformWaiters, roomVars
<1>9. ASSUME NEW t \in Threads, ReadDepth(t)
      PROVE  CoreTypes'
  <2>1. /\ created[t] \in [depth : Nat, prev : Events \cup {None}]
        /\ created' = [created EXCEPT ![t] = [created[t] EXCEPT !.depth = depth + 1]]
    BY <1>9 DEF ReadDepth
  <2>2. [created[t] EXCEPT !.depth = depth + 1] \in [depth : Nat, prev : Events \cup {None}]
    <3> DEFINE c == created[t]
    <3>1. c \in [depth : Nat, prev : Events \cup {None}] /\ depth + 1 \in Nat
      BY <2>1
    <3> HIDE DEF c
    <3>2. [c EXCEPT !.depth = depth + 1] \in [depth : Nat, prev : Events \cup {None}]
      BY <3>1
    <3>3. QED
      BY <3>2 DEF c
  <2>3. created' \in [Threads -> [depth : Nat, prev : Events \cup {None}]]
    BY <2>1, <2>2
  <2>4. QED
    BY <1>9, <2>3 DEF ReadDepth, roomVars, waitVars
<1>10. ASSUME NEW w \in Waiters, NEW e \in Events, WaiterLock(w, e)
       PROVE  CoreTypes'
  BY <1>10 DEF WaiterLock, roomVars
<1>11. ASSUME NEW w \in Waiters, WaiterRegister(w)
       PROVE  CoreTypes'
  BY <1>11 DEF WaiterRegister, roomVars
<1>12. ASSUME NEW w \in Waiters, WaiterScan(w)
       PROVE  CoreTypes'
  BY <1>12 DEF WaiterScan, roomVars
<1>13. ASSUME NEW w \in Waiters, WaitReturn(w)
       PROVE  CoreTypes'
  BY <1>13 DEF WaitReturn, roomVars
<1>14. ASSUME NEW w \in Waiters, WaitTimeout(w)
       PROVE  CoreTypes'
  BY <1>14 DEF WaitTimeout, roomVars
<1>15. CASE UNCHANGED coreVars
  BY <1>15 DEF coreVars, roomVars, waitVars
<1>16. QED
  BY <1>1, <1>2, <1>3, <1>4, <1>5, <1>6, <1>7, <1>8, <1>9, <1>10, <1>11,
     <1>12, <1>13, <1>14, <1>15 DEF CoreNext, Finished, ThreadStep, WaiterStep

\* Every operation keeps the registration discipline of WaiterForEvent.
LEMMA WaiterInvStep ==
  ASSUME CoreTypes, WaiterInv, NoLostWakeup, CoreTypes', [CoreNext]_coreVars
  PROVE  WaiterInv'
<1> USE DEF CoreTypes, AddPCs, WaiterPCs, WaiterInv
<1>1. ASSUME NEW t \in Threads, NEW e \in Events, AddEventBegin(t, e)
      PROVE  WaiterInv'
  <2>1. \A x : InTimeline(x)' <=> InTimeline(x)
    BY <1>1 DEF AddEventBegin, InTimeline, roomVars
  <2>2. QED
    BY <1>1, <2>1 DEF AddEventBegin, roomVars, waitVars
<1>2. ASSUME NEW t \in Threads, ReadExtremity(t)
      PROVE  WaiterInv'
  <2>1. \A x : InTimeline(x)' <=> InTimeline(x)
    BY <1>2 DEF ReadExtremity, InTimeline, roomVars
  <2>2. QED
    BY <1>2, <2>1 DEF ReadExtremity, roomVars, waitVars
<1>3. ASSUME NEW t \in Threads, ReplaceCurrentState(t)
      PROVE  WaiterInv'
  <2>1. \A x : InTimeline(x)' <=> InTimeline(x)
    BY <1>3 DEF ReplaceCurrentState, InTimeline, roomVars
  <2>2. QED
    BY <1>3, <2>1 DEF ReplaceCurrentState, roomVars, waitVars
<1>4. ASSUME NEW t \in Threads, AppendTimeline(t)
      PROVE  WaiterInv'
  <2>1. ev[t] \in Events
    BY <1>4 DEF AppendTimeline, WaiterInv
  <2>2. \A x : InTimeline(x)' <=> (InTimeline(x) \/ x = ev[t])
    BY <1>4, <2>1, AppendTimelineElements
  <2>3. QED
    BY <1>4, <2>1, <2>2 DEF AppendTimeline, waitVars
<1>5. ASSUME NEW t \in Threads, CompareDepth(t)
      PROVE  WaiterInv'
  <2>1. \A x : InTimeline(x)' <=> InTimeline(x)
    BY <1>5 DEF CompareDepth, InTimeline, roomVars
  <2>2. QED
    BY <1>5, <2>1 DEF CompareDepth, roomVars, waitVars
<1>6. ASSUME NEW t \in Threads, SetDepth(t)
      PROVE  WaiterInv'
  <2>1. \A x : InTimeline(x)' <=> InTimeline(x)
    BY <1>6 DEF SetDepth, InTimeline, roomVars
  <2>2. QED
    BY <1>6, <2>1 DEF SetDepth, roomVars, waitVars
<1>7. ASSUME NEW t \in Threads, SetExtremity(t)
      PROVE  WaiterInv'
  <2>1. \A x : InTimeline(x)' <=> InTimeline(x)
    BY <1>7 DEF SetExtremity, InTimeline, roomVars
  <2>2. QED
    BY <1>7, <2>1 DEF SetExtremity, roomVars, waitVars
<1>8. ASSUME NEW t \in Threads, InformWaiters(t)
      PROVE  WaiterInv'
  <2>1. \A x : InTimeline(x)' <=> InTimeline(x)
    BY <1>8 DEF InformWaiters, InTimeline, roomVars
  <2>2. /\ ev[t] \in Events
        /\ InTimeline(ev[t])
        /\ \A w \in waiters[ev[t]] : wev[w] = ev[t]
    BY <1>8 DEF InformWaiters
  <2>3. ASSUME NEW w \in Waiters
        PROVE  /\ wpc[w] \in {"scan", "waiting"} => (w \in closed' \/ w \in waiters'[wev[w]])
               /\ w \in closed' => InTimeline(wev[w]) /\ wpc[w] # "new"
               /\ \A e \in Events : w \in waiters'[e] => wev[w] = e
    <3>1. \A e \in Events : waiters'[e] = IF e = ev[t] THEN {} ELSE waiters[e]
      BY <1>8, <2>2 DEF InformWaiters
    <3>2. closed' = closed \cup waiters[ev[t]]
      BY <1>8 DEF InformWaiters
    <3>3. w \in waiters[ev[t]] => wpc[w] # "new"
      BY <2>2
    <3>4. wpc[w] \in {"scan", "waiting"} => (w \in closed' \/ w \in waiters'[wev[w]])
      <4>1. ASSUME wpc[w] \in {"scan", "waiting"}, w \notin closed
            PROVE  w \in waiters[wev[w]] /\ wev[w] \in Events
        BY <4>1
      <4>2. QED
        BY <3>1, <3>2, <4>1
    <3>5. w \in closed' => InTimeline(wev[w]) /\ wpc[w] # "new"
      BY <2>2, <3>2, <3>3
    <3>6. \A e \in Events : w \in waiters'[e] => wev[w] = e
      BY <3>1
    <3>7. QED
      BY <3>4, <3>5, <3>6
  <2>4. /\ wpc' = wpc /\ wev' = wev /\ timelineMu' = timelineMu
        /\ \A u \in Threads : u # t => pc'[u] = pc[u] /\ ev'[u] = ev[u]
        /\ pc'[t] = "idle"
    BY <1>8 DEF InformWaiters
  <2>5. ASSUME NEW w \in Waiters
        PROVE  wpc[w] = "returned" => w \in closed'
    BY <1>8 DEF InformWaiters
  <2>6. ASSUME NEW u \in Threads
        PROVE  /\ pc'[u] \in AddPCs => ev'[u] \in Events
               /\ pc'[u] \in {"depth", "setDepth", "extremity", "inform"} => InTimeline(ev[u])'
               /\ pc'[u] = "state" => TupleOf[ev'[u]] \in Tuples
    BY <2>1, <2>4
  <2>7. QED
    BY <2>1, <2>3, <2>4, <2>5, <2>6 DEF AddPCs
<1>9. ASSUME NEW t \in Threads, ReadDepth(t)
      PROVE  WaiterInv'
  <2>1. \A x : InTimeline(x)' <=> InTimeline(x)
    BY <1>9 DEF ReadDepth, InTimeline, roomVars
  <2>2. QED
    BY <1>9, <2>1 DEF ReadDepth, roomVars, waitVars
<1>10. ASSUME NEW v \in Waiters, NEW e \in Events, WaiterLock(v, e)
      PROVE  WaiterInv'
  <2>1. \A x : InTimeline(x)' <=> InTimeline(x)
    BY <1>10 DEF WaiterLock, InTimeline, roomVars
  <2>2. QED
    BY <1>10, <2>1 DEF WaiterLock, roomVars, waitVars
<1>11. ASSUME NEW v \in Waiters, WaiterRegister(v)
      PROVE  WaiterInv'
  <2>1. \A x : InTimeline(x)' <=> InTimeline(x)
    BY <1>11 DEF WaiterRegister, InTimeline, roomVars
  <2>2. QED
    BY <1>11, <2>1 DEF WaiterRegister, roomVars, waitVars
<1>12. ASSUME NEW v \in Waiters, WaiterScan(v)
      PROVE  WaiterInv'
  <2>1. \A x : InTimeline(x)' <=> InTimeline(x)
    BY <1>12 DEF WaiterScan, InTimeline, roomVars
  <2>2. QED
    BY <1>12, <2>1 DEF WaiterScan, roomVars, waitVars
<1>13. ASSUME NEW v \in Waiters, WaitReturn(v)
      PROVE  WaiterInv'
  <2>1. \A x : InTimeline(x)' <=> InTimeline(x)
    BY <1>13 DEF WaitReturn, InTimeline, roomVars
  <2>2. QED
    BY <1>13, <2>1 DEF WaitReturn, roomVars, waitVars
<1>14. ASSUME NEW v \in Waiters, WaitTimeout(v)
      PROVE  WaiterInv'
  <2>1. \A x : InTimeline(x)' <=> InTimeline(x)
    BY <1>14 DEF WaitTimeout, InTimeline, roomVars
  <2>2. QED
    BY <1>14, <2>1 DEF WaitTimeout, roomVars, waitVars
<1>15. CASE UNCHANGED coreVars
  <2>1. \A x : InTimeline(x)' <=> InTimeline(x)
    BY <1>15 DEF coreVars, InTimeline, roomVars
  <2>2. QED
    BY <1>15, <2>1 DEF coreVars, roomVars, waitVars
<1>16. QED
  BY <1>1, <1>2, <1>3, <1>4, <1>5, <1>6, <1>7, <1>8, <1>9, <1>10, <1>11,
     <1>12, <1>13, <1>14, <1>15 DEF CoreNext, Finished, ThreadStep, WaiterStep

\* No operation loses a wake-up.
LEMMA NoLostWakeupStep ==
  ASSUME CoreTypes, WaiterInv, NoLostWakeup, CoreTypes', [CoreNext]_coreVars
  PROVE  NoLostWakeup'
<1> USE DEF CoreTypes, AddPCs, WaiterPCs, WaiterInv, NoLostWakeup, WillInform
<1>1. ASSUME NEW t \in Threads, NEW e \in Events, AddEventBegin(t, e)
      PROVE  NoLostWakeup'
  <2>1. \A x : InTimeline(x)' <=> InTimeline(x)
    BY <1>1 DEF AddEventBegin, InTimeline, roomVars
  <2>2. QED
    BY <1>1, <2>1 DEF AddEventBegin, roomVars, waitVars
<1>2. ASSUME NEW t \in Threads, ReadExtremity(t)
      PROVE  NoLostWakeup'
  <2>1. \A x : InTimeline(x)' <=> InTimeline(x)
    BY <1>2 DEF ReadExtremity, InTimeline, roomVars
  <2>2. QED
    BY <1>2, <2>1 DEF ReadExtremity, roomVars, waitVars
<1>3. ASSUME NEW t \in Threads, ReplaceCurrentState(t)
      PROVE  NoLostWakeup'
  <2>1. \A x : InTimeline(x)' <=> InTimeline(x)
    BY <1>3 DEF ReplaceCurrentState, InTimeline, roomVars
  <2>2. QED
    BY <1>3, <2>1 DEF ReplaceCurrentState, roomVars, waitVars
<1>4. ASSUME NEW t \in Threads, AppendTimeline(t)
      PROVE  NoLostWakeup'
  <2>1. ev[t] \in Events
    BY <1>4 DEF AppendTimeline, WaiterInv
  <2>2. \A x : InTimeline(x)' <=> (InTimeline(x) \/ x = ev[t])
    BY <1>4, <2>1, AppendTimelineElements
  <2>3. QED
    BY <1>4, <2>1, <2>2 DEF AppendTimeline, waitVars
<1>5. ASSUME NEW t \in Threads, CompareDepth(t)
      PROVE  NoLostWakeup'
  <2>1. \A x : InTimeline(x)' <=> InTimeline(x)
    BY <1>5 DEF CompareDepth, InTimeline, roomVars
  <2>2. QED
    BY <1>5, <2>1 DEF CompareDepth, roomVars, waitVars
<1>6. ASSUME NEW t \in Threads, SetDepth(t)
      PROVE  NoLostWakeup'
  <2>1. \A x : InTimeline(x)' <=> InTimeline(x)
    BY <1>6 DEF SetDepth, InTimeline, roomVars
  <2>2. QED
    BY <1>6, <2>1 DEF SetDepth, roomVars, waitVars
<1>7. ASSUME NEW t \in Threads, SetExtremity(t)
      PROVE  NoLostWakeup'
  <2>1. \A x : InTimeline(x)' <=> InTimeline(x)
    BY <1>7 DEF SetExtremity, InTimeline, roomVars
  <2>2. QED
    BY <1>7, <2>1 DEF SetExtremity, roomVars, waitVars
<1>8. ASSUME NEW t \in Threads, InformWaiters(t)
      PROVE  NoLostWakeup'
  <2>1. \A x : InTimeline(x)' <=> InTimeline(x)
    BY <1>8 DEF InformWaiters, InTimeline, roomVars
  <2>2. QED
    BY <1>8, <2>1 DEF InformWaiters, roomVars, waitVars
<1>9. ASSUME NEW t \in Threads, ReadDepth(t)
      PROVE  NoLostWakeup'
  <2>1. \A x : InTimeline(x)' <=> InTimeline(x)
    BY <1>9 DEF ReadDepth, InTimeline, roomVars
  <2>2. QED
    BY <1>9, <2>1 DEF ReadDepth, roomVars, waitVars
<1>10. ASSUME NEW v \in Waiters, NEW e \in Events, WaiterLock(v, e)
      PROVE  NoLostWakeup'
  <2>1. \A x : InTimeline(x)' <=> InTimeline(x)
    BY <1>10 DEF WaiterLock, InTimeline, roomVars
  <2>2. QED
    BY <1>10, <2>1 DEF WaiterLock, roomVars, waitVars
<1>11. ASSUME NEW v \in Waiters, WaiterRegister(v)
      PROVE  NoLostWakeup'
  <2>1. \A x : InTimeline(x)' <=> InTimeline(x)
    BY <1>11 DEF WaiterRegister, InTimeline, roomVars
  <2>2. QED
    BY <1>11, <2>1 DEF WaiterRegister, roomVars, waitVars
<1>12. ASSUME NEW v \in Waiters, WaiterScan(v)
      PROVE  NoLostWakeup'
  <2>1. \A x : InTimeline(x)' <=> InTimeline(x)
    BY <1>12 DEF WaiterScan, InTimeline, roomVars
  <2>2. QED
    BY <1>12, <2>1 DEF WaiterScan, roomVars, waitVars
<1>13. ASSUME NEW v \in Waiters, WaitReturn(v)
      PROVE  NoLostWakeup'
  <2>1. \A x : InTimeline(x)' <=> InTimeline(x)
    BY <1>13 DEF WaitReturn, InTimeline, roomVars
  <2>2. QED
    BY <1>13, <2>1 DEF WaitReturn, roomVars, waitVars
<1>14. ASSUME NEW v \in Waiters, WaitTimeout(v)
      PROVE  NoLostWakeup'
  <2>1. \A x : InTimeline(x)' <=> InTimeline(x)
    BY <1>14 DEF WaitTimeout, InTimeline, roomVars
  <2>2. QED
    BY <1>14, <2>1 DEF WaitTimeout, roomVars, waitVars
<1>15. CASE UNCHANGED coreVars
  <2>1. \A x : InTimeline(x)' <=> InTimeline(x)
    BY <1>15 DEF coreVars, InTimeline, roomVars
  <2>2. QED
    BY <1>15, <2>1 DEF coreVars, roomVars, waitVars
<1>16. QED
  BY <1>1, <1>2, <1>3, <1>4, <1>5, <1>6, <1>7, <1>8, <1>9, <1>10, <1>11,
     <1>12, <1>13, <1>14, <1>15 DEF CoreNext, Finished, ThreadStep, WaiterStep

\* A step of the room is a step of its core; the history variable is Boolean.
LEMMA StepIsCoreStep ==
  ASSUME [Next]_vars
  PROVE  [CoreNext]_coreVars
BY DEF Next, vars

LEMMA OverlapStep ==
  ASSUME overlap \in BOOLEAN, [Next]_vars
  PROVE  overlap' \in BOOLEAN
<1>1. CASE Next
  BY <1>1 DEF Next
<1>2. CASE UNCHANGED vars
  BY <1>2 DEF vars
<1>3. QED
  BY <1>1, <1>2

\* The strengthened invariant holds in every reachable state of a room, for
\* any set of goroutines, Waiters and events.
THEOREM RoomInvariant == Spec => []RoomInv
<1>1. Init => RoomInv
  <2> SUFFICES ASSUME Init PROVE RoomInv
    OBVIOUS
  <2>1. TypeOK
    <3>1. CoreTypes
      BY DEF Init, CoreTypes, AddPCs, WaiterPCs
    <3>2. overlap \in BOOLEAN
      BY DEF Init
    <3>3. QED
      BY <3>1, <3>2 DEF TypeOK
  <2>2. WaiterInv
    BY DEF Init, WaiterInv, AddPCs
  <2>3. NoLostWakeup
    BY DEF Init, NoLostWakeup
  <2>4. QED
    BY <2>1, <2>2, <2>3 DEF RoomInv
<1>2. RoomInv /\ [Next]_vars => RoomInv'
  BY StepIsCoreStep, OverlapStep, TypeStep, WaiterInvStep, NoLostWakeupStep
     DEF RoomInv, TypeOK
<1>3. QED
  BY <1>1, <1>2, PTL DEF Spec

\* AddEvent and WaiterForEvent never lose a wake-up: see NoLostWakeup.
THEOREM NoWakeupIsLost == Spec => []NoLostWakeup
<1>1. RoomInv => NoLostWakeup
  BY DEF RoomInv
<1>2. QED
  BY <1>1, RoomInvariant, PTL

-----------------------------------------------------------------------------
(* The room implements EventSignal. *)

\* The refinement mapping of ServerRoom's instance.
Added == {e \in Events : InTimeline(e)}
WState == [w \in Waiters |-> IF wpc[w] \in {"register", "scan"} THEN "waiting" ELSE wpc[w]]

\* A step that leaves the timeline and the Waiters alone is a stutter.
LEMMA QuietStep ==
  ASSUME UNCHANGED <<timeline, wpc, wev>>
  PROVE  UNCHANGED <<Added, WState, wev>>
BY DEF Added, WState, InTimeline

\* Every step of the room is a step of EventSignal or a stutter.
LEMMA SignalStep ==
  ASSUME CoreTypes, WaiterInv, CoreTypes', [CoreNext]_coreVars
  PROVE  [Signal!Next]_<<Added, WState, wev>>
<1>1. ASSUME NEW t \in Threads, NEW e \in Events, AddEventBegin(t, e)
      PROVE  UNCHANGED <<timeline, wpc, wev>>
  BY <1>1 DEF AddEventBegin, roomVars, waitVars
<1>2. ASSUME NEW t \in Threads, ReadExtremity(t)
      PROVE  UNCHANGED <<timeline, wpc, wev>>
  BY <1>2 DEF ReadExtremity, roomVars, waitVars
<1>3. ASSUME NEW t \in Threads,
             \/ ReplaceCurrentState(t) \/ CompareDepth(t) \/ SetDepth(t)
             \/ SetExtremity(t) \/ InformWaiters(t) \/ ReadDepth(t)
      PROVE  UNCHANGED <<timeline, wpc, wev>>
  BY <1>3 DEF ReplaceCurrentState, CompareDepth, SetDepth, SetExtremity,
              InformWaiters, ReadDepth, roomVars, waitVars
<1>4. ASSUME NEW t \in Threads, AppendTimeline(t)
      PROVE  Signal!Next
  <2>1. ev[t] \in Events
    BY <1>4 DEF AppendTimeline, WaiterInv, AddPCs
  <2>2. \A x : InTimeline(x)' <=> (InTimeline(x) \/ x = ev[t])
    BY <1>4, <2>1, AppendTimelineElements
  <2>3. Added' = Added \cup {ev[t]}
    BY <2>1, <2>2 DEF Added
  <2>4. UNCHANGED <<WState, wev>>
    BY <1>4 DEF AppendTimeline, waitVars, WState
  <2>5. Signal!Add(ev[t])
    BY <2>3, <2>4 DEF Signal!Add, Added, WState
  <2>6. QED
    BY <2>1, <2>5 DEF Signal!Next
<1>5. ASSUME NEW w \in Waiters, NEW e \in Events, WaiterLock(w, e)
      PROVE  Signal!Next
  <2>1. Added' = Added
    BY <1>5 DEF WaiterLock, roomVars, Added, InTimeline
  <2>2. WState[w] = "new" /\ WState' = [WState EXCEPT ![w] = "waiting"]
    BY <1>5 DEF WaiterLock, WState, CoreTypes
  <2>3. Signal!WaiterForEvent(w, e)
    BY <1>5, <2>1, <2>2 DEF WaiterLock, Signal!WaiterForEvent, Added, WState
  <2>4. QED
    BY <2>3 DEF Signal!Next
<1>6. ASSUME NEW w \in Waiters, WaiterStep(w)
      PROVE  UNCHANGED <<Added, WState, wev>>
  <2>1. Added' = Added
    BY <1>6 DEF WaiterStep, WaiterRegister, WaiterScan, roomVars, Added, InTimeline
  <2>2. WState' = WState
    BY <1>6 DEF WaiterStep, WaiterRegister, WaiterScan, WState, CoreTypes
  <2>3. QED
    BY <1>6, <2>1, <2>2 DEF WaiterStep, WaiterRegister, WaiterScan
<1>7. ASSUME NEW w \in Waiters, WaitReturn(w)
      PROVE  Signal!Next
  <2>1. Added' = Added /\ wev' = wev
    BY <1>7 DEF WaitReturn, roomVars, Added, InTimeline
  <2>2. WState[w] = "waiting" /\ WState' = [WState EXCEPT ![w] = "returned"]
    BY <1>7 DEF WaitReturn, WState, CoreTypes
  <2>3. wev[w] \in Added
    BY <1>7 DEF WaitReturn, WaiterInv, Added
  <2>4. Signal!Return(w)
    BY <2>1, <2>2, <2>3 DEF Signal!Return, Added, WState
  <2>5. QED
    BY <2>4 DEF Signal!Next
<1>8. ASSUME NEW w \in Waiters, WaitTimeout(w)
      PROVE  Signal!Next
  <2>1. Added' = Added /\ wev' = wev
    BY <1>8 DEF WaitTimeout, roomVars, Added, InTimeline
  <2>2. WState[w] = "waiting" /\ WState' = [WState EXCEPT ![w] = "failed"]
    BY <1>8 DEF WaitTimeout, WState, CoreTypes
  <2>3. Signal!Fail(w)
    BY <2>1, <2>2 DEF Signal!Fail, Added, WState
  <2>4. QED
    BY <2>3 DEF Signal!Next
<1>9. CASE UNCHANGED coreVars
  BY <1>9 DEF coreVars, roomVars, waitVars, Added, WState, InTimeline
<1>10. QED
  BY <1>1, <1>2, <1>3, <1>4, <1>5, <1>6, <1>7, <1>8, <1>9, QuietStep
     DEF CoreNext, ThreadStep, Finished

\* A room implements EventSignal: see ImplementsSignal.
THEOREM RoomImplementsSignal == Spec => ImplementsSignal
<1>1. Init => Signal!Init
  BY DEF Init, Signal!Init, InTimeline
<1>2. RoomInv /\ RoomInv' /\ [Next]_vars => [Signal!Next]_(Signal!signalVars)
  BY StepIsCoreStep, SignalStep
     DEF RoomInv, TypeOK, Added, WState, Signal!signalVars
<1>3. QED
  BY <1>1, <1>2, RoomInvariant, PTL DEF Spec, ImplementsSignal, Signal!Spec

-----------------------------------------------------------------------------
(* Calls that do not overlap *)

\* The places of a tuple in the timeline; a largest one exists, so LastOf
\* chooses a place of the timeline.
Places(k) == {i \in DOMAIN timeline : TupleOf[timeline[i]] = k}
HasLast == \A k \in Tuples : Places(k) = {} \/ \E i \in Places(k) : \A j \in Places(k) : j <= i

\* The points of AddEvent at which one field of the room is behind the others.
StateAhead(k) == \E t \in Threads : pc[t] = "append" /\ TupleOf[ev[t]] = k
DepthBehind == \E t \in Threads : pc[t] \in {"depth", "setDepth"}
ExtremityBehind == \E t \in Threads : pc[t] \in {"depth", "setDepth", "extremity"}

\* Where a field is behind, what brings it up to date is still to come.
StateFollows ==
  /\ \A k \in Tuples : StateAhead(k) \/ state[k] = LastOf(k)
  /\ \A t \in Threads :
       (pc[t] = "append" /\ TupleOf[ev[t]] \in Tuples) => state[TupleOf[ev[t]]] = ev[t]

ExtremityFollows ==
  /\ ExtremityBehind \/ timeline = <<>> \/ extremity = timeline[Len(timeline)]
  /\ \A t \in Threads : pc[t] \in {"depth", "setDepth", "extremity"} =>
       timeline # <<>> /\ ev[t] = timeline[Len(timeline)]

DepthFollows ==
  /\ DepthBehind \/ \A i \in DOMAIN timeline : DepthOf[timeline[i]] <= depth
  /\ \A i \in DOMAIN timeline : i < Len(timeline) => DepthOf[timeline[i]] <= depth
  /\ \A t \in Threads : pc[t] = "setDepth" => DepthOf[ev[t]] > depth
  /\ extremity # None => DepthOf[extremity] <= depth

CreatedFollows ==
  \A t \in Threads :
    IF pc[t] = "create" THEN created[t].prev = extremity
    ELSE created[t].prev # None => created[t].depth > DepthOf[created[t].prev]

OneCaller == \A t, u \in Threads : (Busy(t) /\ Busy(u)) => t = u

\* The inductive invariant of RoomReflectsTimeline and CreatedAbovePrev.
CallsInv ==
  /\ HasLast
  /\ ~overlap => OneCaller /\ StateFollows /\ ExtremityFollows /\ DepthFollows /\ CreatedFollows

\* The places of a timeline that does not change.
LEMMA SameLast ==
  ASSUME timeline' = timeline PROVE \A k : Places(k)' = Places(k) /\ LastOf(k)' = LastOf(k)
BY DEF Places, LastOf

\* LastOf is the event at the largest place.
LEMMA LastOfPlace ==
  ASSUME NEW tl, NEW P, P \subseteq Nat, NEW last,
         last = IF P = {} THEN None ELSE tl[CHOOSE i \in P : \A j \in P : j <= i]
  PROVE  /\ P = {} => last = None
         /\ \A i \in P : (\A j \in P : j <= i) => last = tl[i]
<1>1. ASSUME NEW i \in P, \A j \in P : j <= i PROVE last = tl[i]
  <2> DEFINE c == CHOOSE m \in P : \A j \in P : j <= m
  <2>1. c \in P /\ \A j \in P : j <= c
    BY <1>1
  <2>2. last = tl[c]
    BY <1>1
  <2> HIDE DEF c
  <2>3. c <= i /\ i <= c /\ c \in Nat /\ i \in Nat
    BY <1>1, <2>1
  <2>4. c = i
    BY <2>3
  <2>5. QED
    BY <2>2, <2>4
<1>2. QED
  BY <1>1

\* What an appended event changes.
LEMMA AppendedLast ==
  ASSUME CoreTypes, HasLast, NEW e \in Events, timeline' = Append(timeline, e)
  PROVE  /\ HasLast'
         /\ \A k \in Tuples : LastOf(k)' = IF TupleOf[e] = k THEN e ELSE LastOf(k)
<1> DEFINE n == Len(timeline)
<1>1. /\ n \in Nat /\ DOMAIN timeline = 1 .. n /\ DOMAIN timeline' = 1 .. n + 1
      /\ \A i \in 1 .. n : timeline'[i] = timeline[i]
      /\ timeline'[n + 1] = e
  BY DEF CoreTypes
<1> HIDE DEF n
<1>2. ASSUME NEW k \in Tuples
      PROVE  /\ Places(k)' = {} \/ \E i \in Places(k)' : \A j \in Places(k)' : j <= i
             /\ LastOf(k)' = IF TupleOf[e] = k THEN e ELSE LastOf(k)
  <2>1. /\ Places(k) \subseteq 1 .. n
        /\ Places(k)' = IF TupleOf[e] = k THEN Places(k) \cup {n + 1} ELSE Places(k)
    BY <1>1 DEF Places
  <2>2. Places(k) \subseteq Nat /\ Places(k)' \subseteq Nat
    BY <1>1, <2>1
  <2> DEFINE Last(tl, P) == IF P = {} THEN None ELSE tl[CHOOSE i \in P : \A j \in P : j <= i]
  <2>3. LastOf(k) = Last(timeline, Places(k)) /\ LastOf(k)' = Last(timeline', Places(k)')
    BY Zenon DEF LastOf, Places
  <2>4. CASE TupleOf[e] = k
    <3>1. n + 1 \in Places(k)' /\ \A j \in Places(k)' : j <= n + 1
      BY <1>1, <2>1, <2>4
    <3>2. LastOf(k)' = timeline'[n + 1]
      BY <2>2, <2>3, <3>1, LastOfPlace
    <3>3. QED
      BY <1>1, <2>4, <3>1, <3>2
  <2>5. CASE TupleOf[e] # k /\ Places(k) = {}
    BY <2>1, <2>2, <2>5, <2>3, LastOfPlace
  <2>6. CASE TupleOf[e] # k /\ Places(k) # {}
    <3>1. PICK i \in Places(k) : \A j \in Places(k) : j <= i
      BY <2>6 DEF HasLast
    <3>2. LastOf(k) = timeline[i]
      BY <2>2, <2>3, <3>1, LastOfPlace
    <3>3. i \in Places(k)' /\ \A j \in Places(k)' : j <= i
      BY <2>1, <2>6, <3>1
    <3>4. LastOf(k)' = timeline'[i]
      BY <2>2, <2>3, <3>3, LastOfPlace
    <3>5. QED
      BY <1>1, <2>1, <2>6, <3>2, <3>3, <3>4
  <2>7. QED
    BY <2>4, <2>5, <2>6
<1>3. QED
  BY <1>2 DEF HasLast

\* An operation of a goroutine.
CallStep(t) ==
  (\E e \in Events : AddEventBegin(t, e)) \/ ReadExtremity(t) \/ ThreadStep(t)

\* The goroutine that takes a step is the only one inside a call.
LEMMA OthersIdle ==
  ASSUME CoreTypes, OneCaller, OneCaller', NEW t \in Threads, CallStep(t)
  PROVE  /\ \A u \in Threads \ {t} : pc[u] = "idle" /\ pc'[u] = "idle" /\ created'[u] = created[u]
         /\ pc[t] # "idle" \/ pc'[t] # "idle"
<1>1. pc' = [pc EXCEPT ![t] = pc'[t]] /\ \A u \in Threads \ {t} : created'[u] = created[u]
  BY DEF CallStep, ThreadStep, AddEventBegin, ReadExtremity, ReplaceCurrentState, AppendTimeline,
     CompareDepth, SetDepth, SetExtremity, InformWaiters, ReadDepth, CoreTypes
<1>2. pc[t] # "idle" \/ pc'[t] # "idle"
  BY DEF CallStep, ThreadStep, AddEventBegin, ReadExtremity, ReplaceCurrentState, AppendTimeline,
     CompareDepth, SetDepth, SetExtremity, InformWaiters, ReadDepth, CoreTypes
<1>3. QED
  BY <1>1, <1>2 DEF OneCaller, Busy, CoreTypes

\* State follows the timeline.
LEMMA StateStep ==
  ASSUME CoreTypes, WaiterInv, HasLast, StateFollows, NEW t \in Threads, CallStep(t),
         \A u \in Threads \ {t} : pc[u] = "idle" /\ pc'[u] = "idle"
  PROVE  HasLast' /\ StateFollows'
<1> DEFINE quiet == UNCHANGED <<state, timeline>>
<1>0. ASSUME timeline' = timeline
      PROVE  HasLast' /\ \A k \in Tuples : LastOf(k)' = LastOf(k)
  BY <1>0, SameLast DEF HasLast
<1>1. ASSUME NEW e \in Events, AddEventBegin(t, e) PROVE HasLast' /\ StateFollows'
  <2>1. quiet /\ pc[t] = "idle" /\ ev'[t] = e /\ pc'[t] \in {"append", "state"}
        /\ (pc'[t] = "append" => TupleOf[e] = NotState)
    BY <1>1 DEF AddEventBegin, CoreTypes, roomVars
  <2>2. QED
    BY <1>0, <2>1 DEF StateFollows, StateAhead
<1>2. CASE ReplaceCurrentState(t)
  <2> DEFINE k == TupleOf[ev[t]]
  <2>1. pc[t] = "state" /\ k \in Tuples
    BY <1>2 DEF ReplaceCurrentState, WaiterInv
  <2>2. timeline' = timeline /\ pc'[t] = "append" /\ ev' = ev
        /\ state' = [state EXCEPT ![k] = ev[t]]
    BY <1>2 DEF ReplaceCurrentState, CoreTypes
  <2>3. \A j \in Tuples \ {k} : ~StateAhead(j) /\ state'[j] = state[j]
    BY <2>1, <2>2 DEF StateAhead, CoreTypes
  <2>4. StateAhead(k)' /\ state'[k] = ev[t]
    BY <2>1, <2>2 DEF StateAhead, CoreTypes
  <2>5. QED
    BY <1>0, <2>1, <2>2, <2>3, <2>4 DEF StateFollows, StateAhead
<1>3. CASE AppendTimeline(t)
  <2>1. pc[t] = "append" /\ pc'[t] = "depth" /\ state' = state /\ ev[t] \in Events
        /\ timeline' = Append(timeline, ev[t])
    BY <1>3 DEF AppendTimeline, WaiterInv, AddPCs, CoreTypes
  <2>2. HasLast' /\ \A k \in Tuples : LastOf(k)' = IF TupleOf[ev[t]] = k THEN ev[t] ELSE LastOf(k)
    BY <2>1, AppendedLast
  <2>3. \A k \in Tuples : TupleOf[ev[t]] # k => ~StateAhead(k)
    BY <2>1 DEF StateAhead
  <2>4. \A k \in Tuples : state[k] = LastOf(k)'
    BY <2>1, <2>2, <2>3 DEF StateFollows
  <2>5. QED
    BY <2>1, <2>2, <2>4 DEF StateFollows
<1>4. CASE ReadExtremity(t) \/ CompareDepth(t) \/ SetDepth(t) \/ SetExtremity(t)
           \/ InformWaiters(t) \/ ReadDepth(t)
  <2>1. quiet /\ pc[t] # "append" /\ pc'[t] # "append"
    BY <1>4 DEF ReadExtremity, CompareDepth, SetDepth, SetExtremity, InformWaiters, ReadDepth,
       CoreTypes, roomVars
  <2>2. QED
    BY <1>0, <2>1 DEF StateFollows, StateAhead
<1>5. QED
  BY <1>1, <1>2, <1>3, <1>4 DEF CallStep, ThreadStep

\* The last event and the depth follow the timeline.
LEMMA DepthStep ==
  ASSUME CoreTypes, WaiterInv, ExtremityFollows, DepthFollows, NEW t \in Threads, CallStep(t),
         \A u \in Threads \ {t} : pc[u] = "idle" /\ pc'[u] = "idle"
  PROVE  ExtremityFollows' /\ DepthFollows'
<1>0. /\ Len(timeline) \in Nat /\ DOMAIN timeline = 1 .. Len(timeline)
      /\ \A i \in DOMAIN timeline : timeline[i] \in Events
      /\ \A e \in Events : DepthOf[e] \in Nat
      /\ timeline # <<>> => Len(timeline) \in DOMAIN timeline
      /\ depth \in Nat /\ extremity \in Events \cup {None}
  BY DEF CoreTypes
<1>1. CASE (\E e \in Events : AddEventBegin(t, e)) \/ ReadExtremity(t) \/ ReplaceCurrentState(t)
           \/ InformWaiters(t) \/ ReadDepth(t)
  <2>1. /\ UNCHANGED <<timeline, depth, extremity>>
        /\ pc[t] \notin {"depth", "setDepth", "extremity"}
        /\ pc'[t] \notin {"depth", "setDepth", "extremity"}
    BY <1>1 DEF AddEventBegin, ReadExtremity, ReplaceCurrentState, InformWaiters, ReadDepth,
       CoreTypes, roomVars
  <2>2. QED
    BY <2>1 DEF ExtremityFollows, DepthFollows, ExtremityBehind, DepthBehind
<1>2. CASE AppendTimeline(t)
  <2>1. /\ pc[t] = "append" /\ pc'[t] = "depth" /\ UNCHANGED <<depth, extremity, ev>>
        /\ ev[t] \in Events /\ timeline' = Append(timeline, ev[t])
    BY <1>2 DEF AppendTimeline, WaiterInv, AddPCs, CoreTypes
  <2>2. /\ Len(timeline') = Len(timeline) + 1 /\ DOMAIN timeline' = 1 .. Len(timeline) + 1
        /\ \A i \in 1 .. Len(timeline) : timeline'[i] = timeline[i]
        /\ timeline'[Len(timeline) + 1] = ev[t]
        /\ timeline' # <<>>
    BY <2>1 DEF CoreTypes
  <2>3. ExtremityFollows'
    BY <2>1, <2>2 DEF ExtremityFollows, ExtremityBehind
  <2>4. \A i \in DOMAIN timeline : DepthOf[timeline[i]] <= depth
    BY <2>1 DEF DepthFollows, DepthBehind
  <2>5. \A i \in DOMAIN timeline' : i < Len(timeline') => DepthOf[timeline'[i]] <= depth'
    BY <1>0, <2>1, <2>2, <2>4
  <2>6. QED
    BY <2>1, <2>3, <2>5 DEF DepthFollows, DepthBehind
<1>3. CASE CompareDepth(t)
  <2>1. /\ UNCHANGED <<timeline, depth, extremity, ev>> /\ pc[t] = "depth"
        /\ pc'[t] = IF DepthOf[ev[t]] > depth THEN "setDepth" ELSE "extremity"
    BY <1>3 DEF CompareDepth, CoreTypes, roomVars
  <2>2. timeline # <<>> /\ ev[t] = timeline[Len(timeline)]
    BY <2>1 DEF ExtremityFollows
  <2>3. ExtremityFollows'
    BY <2>1, <2>2 DEF ExtremityFollows, ExtremityBehind
  <2>4. CASE DepthOf[ev[t]] > depth
    BY <2>1, <2>3, <2>4 DEF DepthFollows, DepthBehind
  <2>5. CASE ~(DepthOf[ev[t]] > depth)
    <3>1. \A i \in DOMAIN timeline : DepthOf[timeline[i]] <= depth
      BY <1>0, <2>2, <2>5 DEF DepthFollows
    <3>2. QED
      BY <2>1, <2>3, <2>5, <3>1 DEF DepthFollows, DepthBehind
  <2>6. QED
    BY <2>3, <2>4, <2>5
<1>4. CASE SetDepth(t)
  <2>1. /\ UNCHANGED <<timeline, extremity, ev>> /\ pc[t] = "setDepth"
        /\ pc'[t] = "extremity" /\ depth' = DepthOf[ev[t]]
    BY <1>4 DEF SetDepth, CoreTypes
  <2>2. timeline # <<>> /\ ev[t] = timeline[Len(timeline)] /\ DepthOf[ev[t]] > depth
    BY <2>1 DEF ExtremityFollows, DepthFollows
  <2>3. ExtremityFollows'
    BY <2>1, <2>2 DEF ExtremityFollows, ExtremityBehind
  <2>4. \A i \in DOMAIN timeline : DepthOf[timeline[i]] <= depth'
    <3>1. SUFFICES ASSUME NEW i \in DOMAIN timeline PROVE DepthOf[timeline[i]] <= depth'
      OBVIOUS
    <3>2. CASE i < Len(timeline)
      <4>1. DepthOf[timeline[i]] <= depth
        BY <3>2 DEF DepthFollows
      <4>2. QED
        BY <1>0, <2>1, <2>2, <4>1
    <3>3. CASE i = Len(timeline)
      BY <1>0, <2>1, <2>2, <3>3
    <3>4. QED
      BY <1>0, <3>2, <3>3
  <2>5. extremity # None => DepthOf[extremity] <= depth'
    BY <1>0, <2>1, <2>2 DEF DepthFollows
  <2>6. QED
    BY <2>1, <2>3, <2>4, <2>5 DEF DepthFollows
<1>5. CASE SetExtremity(t)
  <2>1. /\ UNCHANGED <<timeline, depth, ev>> /\ pc[t] = "extremity" /\ pc'[t] = "inform"
        /\ extremity' = ev[t]
    BY <1>5 DEF SetExtremity, CoreTypes
  <2>2. timeline # <<>> /\ ev[t] = timeline[Len(timeline)]
    BY <2>1 DEF ExtremityFollows
  <2>3. ExtremityFollows'
    BY <2>1, <2>2 DEF ExtremityFollows, ExtremityBehind
  <2>4. \A i \in DOMAIN timeline : DepthOf[timeline[i]] <= depth
    BY <2>1 DEF DepthFollows, DepthBehind
  <2>5. DepthOf[extremity'] <= depth
    BY <1>0, <2>1, <2>2, <2>4
  <2>6. QED
    BY <2>1, <2>3, <2>4, <2>5 DEF DepthFollows
<1>6. QED
  BY <1>1, <1>2, <1>3, <1>4, <1>5 DEF CallStep, ThreadStep

\* A created event is above the extremity it was created on.
LEMMA CreatedStep ==
  ASSUME CoreTypes, DepthFollows, CreatedFollows, NEW t \in Threads, CallStep(t),
         \A u \in Threads \ {t} : pc[u] = "idle" /\ pc'[u] = "idle" /\ created'[u] = created[u]
  PROVE  CreatedFollows'
<1>1. \A u \in Threads \ {t} :
        created'[u].prev # None => created'[u].depth > DepthOf[created'[u].prev]
  BY DEF CreatedFollows
<1>2. CASE (\E e \in Events : AddEventBegin(t, e)) \/ ReplaceCurrentState(t) \/ AppendTimeline(t)
           \/ CompareDepth(t) \/ SetDepth(t) \/ SetExtremity(t) \/ InformWaiters(t)
  <2>1. created' = created /\ pc[t] # "create" /\ pc'[t] # "create"
    BY <1>2 DEF AddEventBegin, ReplaceCurrentState, AppendTimeline, CompareDepth, SetDepth,
       SetExtremity, InformWaiters, CoreTypes
  <2>2. QED
    BY <2>1 DEF CreatedFollows
<1>3. CASE ReadExtremity(t)
  <2>1. created'[t] = [depth |-> 0, prev |-> extremity] /\ extremity' = extremity
        /\ pc'[t] = "create"
    BY <1>3 DEF ReadExtremity, CoreTypes, roomVars
  <2>2. created'[t].prev = extremity'
    BY <2>1
  <2>3. QED
    BY <1>1, <2>1, <2>2 DEF CreatedFollows
<1>4. CASE ReadDepth(t)
  <2>1. created'[t] = [created[t] EXCEPT !.depth = depth + 1] /\ pc[t] = "create" /\ pc'[t] = "idle"
    BY <1>4 DEF ReadDepth, CoreTypes
  <2>2. created[t] \in [depth : Nat, prev : Events \cup {None}]
    BY DEF CoreTypes
  <2>3. created'[t].prev = extremity /\ created'[t].depth = depth + 1
    BY <2>1, <2>2 DEF CreatedFollows
  <2>4. extremity # None => DepthOf[extremity] \in Nat /\ DepthOf[extremity] <= depth
    BY DEF DepthFollows, CoreTypes
  <2>5. created'[t].prev # None => created'[t].depth > DepthOf[created'[t].prev]
    BY <2>3, <2>4 DEF CoreTypes
  <2>6. QED
    BY <1>1, <2>1, <2>5 DEF CreatedFollows
<1>5. QED
  BY <1>2, <1>3, <1>4 DEF CallStep, ThreadStep

\* What Waiters do, and a test that is over, is nothing to the calls.
LEMMA WaitersQuiet ==
  ASSUME UNCHANGED <<state, timeline, depth, extremity, pc, ev, created>>,
         HasLast, StateFollows, ExtremityFollows, DepthFollows, CreatedFollows
  PROVE  HasLast' /\ StateFollows' /\ ExtremityFollows' /\ DepthFollows' /\ CreatedFollows'
<1>1. HasLast' /\ StateFollows'
  BY SameLast DEF HasLast, StateFollows, StateAhead
<1>2. ExtremityFollows' /\ DepthFollows'
  BY DEF ExtremityFollows, ExtremityBehind, DepthFollows, DepthBehind
<1>3. CreatedFollows'
  BY DEF CreatedFollows
<1>4. QED
  BY <1>1, <1>2, <1>3

\* An operation of a Waiter.
LEMMA CoreSteps ==
  ASSUME [CoreNext]_coreVars
  PROVE  \/ \E t \in Threads : CallStep(t)
         \/ UNCHANGED <<state, timeline, depth, extremity, pc, ev, created>>
<1>1. ASSUME NEW w \in Waiters,
             (\E e \in Events : WaiterLock(w, e)) \/ WaiterStep(w) \/ WaitReturn(w) \/ WaitTimeout(w)
      PROVE  UNCHANGED <<state, timeline, depth, extremity, pc, ev, created>>
  BY <1>1 DEF WaiterLock, WaiterStep, WaiterRegister, WaiterScan, WaitReturn, WaitTimeout, roomVars
<1>2. CASE UNCHANGED coreVars
  BY <1>2 DEF coreVars, roomVars
<1>3. QED
  BY <1>1, <1>2 DEF CoreNext, CallStep, Finished

\* HasLast does not depend on who calls.
LEMMA HasLastStep ==
  ASSUME CoreTypes, WaiterInv, HasLast, [CoreNext]_coreVars PROVE HasLast'
<1>1. CASE timeline' = timeline
  BY <1>1, SameLast DEF HasLast
<1>2. ASSUME NEW t \in Threads, CallStep(t), timeline' # timeline PROVE HasLast'
  <2>1. AppendTimeline(t)
    BY <1>2 DEF CallStep, ThreadStep, AddEventBegin, ReadExtremity, ReplaceCurrentState,
       CompareDepth, SetDepth, SetExtremity, InformWaiters, ReadDepth, roomVars
  <2>2. ev[t] \in Events /\ timeline' = Append(timeline, ev[t])
    BY <2>1 DEF AppendTimeline, WaiterInv, AddPCs
  <2>3. QED
    BY <2>2, AppendedLast
<1>3. QED
  BY <1>1, <1>2, CoreSteps

\* The invariant of calls that do not overlap.
THEOREM CallsInvariant == Spec => []CallsInv
<1>1. Init => CallsInv
  <2> SUFFICES ASSUME Init PROVE CallsInv
    OBVIOUS
  <2>1. \A k \in Tuples : Places(k) = {} /\ LastOf(k) = None
    <3>1. DOMAIN timeline = {}
      BY DEF Init
    <3>2. \A k \in Tuples : Places(k) = {}
      BY <3>1 DEF Places
    <3>3. QED
      BY <3>1, <3>2, Zenon DEF LastOf, Places
  <2>2. HasLast /\ StateFollows
    BY <2>1 DEF HasLast, Init, StateFollows
  <2>3. ExtremityFollows /\ DepthFollows /\ CreatedFollows /\ OneCaller
    BY DEF Init, ExtremityFollows, DepthFollows, CreatedFollows, OneCaller, Busy
  <2>4. QED
    BY <2>2, <2>3 DEF CallsInv
<1>2. RoomInv /\ RoomInv' /\ CallsInv /\ [Next]_vars => CallsInv'
  <2> SUFFICES ASSUME RoomInv, RoomInv', CallsInv, [Next]_vars PROVE CallsInv'
    OBVIOUS
  <2>0. CoreTypes /\ WaiterInv /\ [CoreNext]_coreVars
    BY StepIsCoreStep DEF RoomInv, TypeOK
  <2>1. HasLast'
    BY <2>0, HasLastStep DEF CallsInv
  <2>2. ASSUME ~overlap'
        PROVE  OneCaller' /\ StateFollows' /\ ExtremityFollows' /\ DepthFollows' /\ CreatedFollows'
    <3>1. ~overlap
      BY <2>2 DEF Next, vars
    <3>2. HasLast /\ OneCaller /\ StateFollows /\ ExtremityFollows /\ DepthFollows /\ CreatedFollows
      BY <3>1 DEF CallsInv
    <3>3. OneCaller'
      <4>1. CASE Next
        BY <2>2, <4>1 DEF Next, OneCaller
      <4>2. CASE UNCHANGED vars
        BY <3>2, <4>2 DEF vars, coreVars, OneCaller, Busy
      <4>3. QED
        BY <4>1, <4>2
    <3>4. ASSUME NEW t \in Threads, CallStep(t)
          PROVE  StateFollows' /\ ExtremityFollows' /\ DepthFollows' /\ CreatedFollows'
      <4>1. \A u \in Threads \ {t} :
              pc[u] = "idle" /\ pc'[u] = "idle" /\ created'[u] = created[u]
        BY <2>0, <3>2, <3>3, <3>4, OthersIdle
      <4>2. QED
        BY <2>0, <3>2, <3>4, <4>1, StateStep, DepthStep, CreatedStep
    <3>5. QED
      BY <2>0, <3>2, <3>3, <3>4, CoreSteps, WaitersQuiet
  <2>3. QED
    BY <2>1, <2>2 DEF CallsInv
<1>3. QED
  BY <1>1, <1>2, RoomInvariant, PTL DEF Spec

\* Between calls that never overlapped State, ForwardExtremities and Depth are
\* those of the timeline (server_room.go:93-94).
THEOREM RoomIsItsTimeline == Spec => []RoomReflectsTimeline
<1>1. CallsInv => RoomReflectsTimeline
  <2> SUFFICES ASSUME CallsInv, ~overlap, NoAddInProgress PROVE RoomReflectsTimeline
    BY DEF RoomReflectsTimeline
  <2>1. (\A k \in Tuples : ~StateAhead(k)) /\ ~ExtremityBehind /\ ~DepthBehind
    BY DEF NoAddInProgress, AddPCs, StateAhead, ExtremityBehind, DepthBehind
  <2>2. QED
    BY <2>1 DEF CallsInv, StateFollows, ExtremityFollows, DepthFollows, RoomReflectsTimeline
<1>2. QED
  BY <1>1, CallsInvariant, PTL

\* Unless calls have overlapped, MustCreateEvent creates events above their
\* predecessor (server.go:345).
THEOREM CreatedIsAbovePrev == Spec => []CreatedAbovePrev
<1>1. CallsInv => CreatedAbovePrev
  BY DEF CallsInv, CreatedFollows, CreatedAbovePrev
<1>2. QED
  BY <1>1, CallsInvariant, PTL
=============================================================================
