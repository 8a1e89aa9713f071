----------------------------- MODULE ServerRoom -----------------------------
(***************************************************************************)
(* One federation.ServerRoom shared by the goroutines of a test: HTTP      *)
(* handlers that call AddEvent for the PDUs of a /send transaction, and    *)
(* the test itself, which creates events and blocks on Waiters.            *)
(*                                                                         *)
(* A step is a critical section of the code, or one unlocked access of a   *)
(* shared field: AddEvent reads and writes Depth and ForwardExtremities    *)
(* outside any mutex.  Unlocked accesses are taken to be sequentially      *)
(* consistent, which is the kindest reading of a data race.                *)
(***************************************************************************)
EXTENDS Naturals, Sequences, FiniteSets

CONSTANTS
  Threads,   \* goroutines that add or create events
  Waiters,   \* helpers.Waiter objects; each has one goroutine in Wait
  Events,    \* event IDs
  DepthOf,   \* [Events -> Nat \ {0}], the depth field of an event
  TupleOf,   \* [Events -> Tuples \cup {NotState}], its (type, state_key)
  Tuples,    \* (type, state_key) pairs
  NotState,  \* the tuple of an event without state_key
  None,      \* no event
  MaxCalls    \* bound: AddEvent and MustCreateEvent calls in a behaviour

ASSUME RoomAssumption ==
  /\ DepthOf \in [Events -> Nat \ {0}]
  /\ TupleOf \in [Events -> Tuples \cup {NotState}]
  /\ NotState \notin Tuples
  /\ None \notin Events \cup Waiters
  /\ MaxCalls \in Nat

VARIABLES
  state,        \* r.State
  timeline,     \* r.Timeline
  depth,        \* r.Depth
  extremity,    \* r.ForwardExtremities: empty, or exactly one event
  waiters,      \* r.waiters
  closed,       \* the Waiters whose channel is closed
  timelineMu,   \* the Waiter whose WaiterForEvent call holds TimelineMutex
  pc, ev,       \* per thread: position in AddEvent/MustCreateEvent, argument
  wpc, wev,     \* per Waiter: position of its goroutine, event waited for
  created,      \* the last event MustCreateEvent built, by thread
  calls,        \* AddEvent and MustCreateEvent calls so far
  overlap       \* history: two threads have been inside a call at once

roomVars == <<state, timeline, depth, extremity>>
waitVars == <<waiters, closed, timelineMu, wpc, wev>>
coreVars == <<roomVars, waitVars, pc, ev, created, calls>>
vars == <<coreVars, overlap>>

\* AddEvent's program points, in order; "create" is inside ProtoEventCreator.
AddPCs == {"state", "append", "depth", "setDepth", "extremity", "inform"}
WaiterPCs == {"new", "register", "scan", "waiting", "returned", "failed"}

CoreTypes ==
  /\ state \in [Tuples -> Events \cup {None}]
  /\ timeline \in Seq(Events)
  /\ depth \in Nat
  /\ extremity \in Events \cup {None}
  /\ waiters \in [Events -> SUBSET Waiters]
  /\ closed \in SUBSET Waiters
  /\ timelineMu \in Waiters \cup {None}
  /\ pc \in [Threads -> AddPCs \cup {"idle", "create"}]
  /\ ev \in [Threads -> Events \cup {None}]
  /\ wpc \in [Waiters -> WaiterPCs]
  /\ wev \in [Waiters -> Events \cup {None}]
  /\ created \in [Threads -> [depth : Nat, prev : Events \cup {None}]]
  /\ calls \in Nat

TypeOK == CoreTypes /\ overlap \in BOOLEAN

\* NewServerRoom
Init ==
  /\ state = [k \in Tuples |-> None]
  /\ timeline = <<>>
  /\ depth = 0
  /\ extremity = None
  /\ waiters = [e \in Events |-> {}]
  /\ closed = {}
  /\ timelineMu = None
  /\ pc = [t \in Threads |-> "idle"]
  /\ ev = [t \in Threads |-> None]
  /\ wpc = [w \in Waiters |-> "new"]
  /\ wev = [w \in Waiters |-> None]
  /\ created = [t \in Threads |-> [depth |-> 1, prev |-> None]]
  /\ calls = 0
  /\ overlap = FALSE

InTimeline(e) == \E i \in DOMAIN timeline : timeline[i] = e

-----------------------------------------------------------------------------
(* AddEvent *)

\* The call: any event, one that was added before included, because nothing
\* in HandleTransactionRequests removes duplicates.
AddEventBegin(t, e) ==
  /\ pc[t] = "idle"
  /\ calls < MaxCalls
  /\ calls' = calls + 1
  /\ ev' = [ev EXCEPT ![t] = e]
  /\ pc' = [pc EXCEPT ![t] = IF TupleOf[e] = NotState THEN "append" ELSE "state"]
  /\ UNCHANGED <<roomVars, waitVars, created>>

ReplaceCurrentState(t) ==
  /\ pc[t] = "state"
  /\ state' = [state EXCEPT ![TupleOf[ev[t]]] = ev[t]]
  /\ pc' = [pc EXCEPT ![t] = "append"]
  /\ UNCHANGED <<timeline, depth, extremity, waitVars, ev, created, calls>>

AppendTimeline(t) ==
  /\ pc[t] = "append"
  /\ timelineMu = None
  /\ timeline' = Append(timeline, ev[t])
  /\ pc' = [pc EXCEPT ![t] = "depth"]
  /\ UNCHANGED <<state, depth, extremity, waitVars, ev, created, calls>>

\* Mutant: r.Depth is assigned whatever its value was.
CompareDepthAlways(t) ==
  /\ pc[t] = "depth"
  /\ pc' = [pc EXCEPT ![t] = "setDepth"]
  /\ UNCHANGED <<roomVars, waitVars, ev, created, calls>>

\* The unlocked test ev.Depth() > r.Depth ...
CompareDepth(t) ==
  /\ pc[t] = "depth"
  /\ pc' = [pc EXCEPT ![t] =
              IF DepthOf[ev[t]] > depth THEN "setDepth" ELSE "extremity"]
  /\ UNCHANGED <<roomVars, waitVars, ev, created, calls>>

\* ... and the unlocked write it guards.
SetDepth(t) ==
  /\ pc[t] = "setDepth"
  /\ depth' = DepthOf[ev[t]]
  /\ pc' = [pc EXCEPT ![t] = "extremity"]
  /\ UNCHANGED <<state, timeline, extremity, waitVars, ev, created, calls>>

SetExtremity(t) ==
  /\ pc[t] = "extremity"
  /\ extremity' = ev[t]
  /\ pc' = [pc EXCEPT ![t] = "inform"]
  /\ UNCHANGED <<state, timeline, depth, waitVars, ev, created, calls>>

\* Mutant: the Waiters of every event are finished (the field's comment says
\* the map is keyed by room ID).
InformAllWaiters(t) ==
  /\ pc[t] = "inform"
  /\ closed' = closed \cup UNION {waiters[e] : e \in Events}
  /\ waiters' = [e \in Events |-> {}]
  /\ pc' = [pc EXCEPT ![t] = "idle"]
  /\ ev' = [ev EXCEPT ![t] = None]
  /\ UNCHANGED <<roomVars, timelineMu, wpc, wev, created, calls>>

\* Mutant: the entry is deleted before the loop that finishes its Waiters.
DeleteThenInform(t) ==
  /\ pc[t] = "inform"
  /\ waiters' = [waiters EXCEPT ![ev[t]] = {}]
  /\ closed' = closed \cup waiters'[ev[t]]
  /\ pc' = [pc EXCEPT ![t] = "idle"]
  /\ ev' = [ev EXCEPT ![t] = None]
  /\ UNCHANGED <<roomVars, timelineMu, wpc, wev, created, calls>>

\* Under waitersMu: Finish every Waiter of the event and drop its entry.
\* Finish on a closed Waiter is a no-op.
InformWaiters(t) ==
  /\ pc[t] = "inform"
  /\ closed' = closed \cup waiters[ev[t]]
  /\ waiters' = [waiters EXCEPT ![ev[t]] = {}]
  /\ pc' = [pc EXCEPT ![t] = "idle"]
  /\ ev' = [ev EXCEPT ![t] = None]
  /\ UNCHANGED <<roomVars, timelineMu, wpc, wev, created, calls>>

-----------------------------------------------------------------------------
(* MustCreateEvent: ProtoEventCreator reads the forward extremities, then  *)
(* the depth, both without a lock.                                         *)

ReadExtremity(t) ==
  /\ pc[t] = "idle"
  /\ calls < MaxCalls
  /\ calls' = calls + 1
  /\ created' = [created EXCEPT ![t] = [depth |-> 0, prev |-> extremity]]
  /\ pc' = [pc EXCEPT ![t] = "create"]
  /\ UNCHANGED <<roomVars, waitVars, ev>>

\* Mutant: the depth of the room instead of the next one.
ReadDepthOffByOne(t) ==
  /\ pc[t] = "create"
  /\ created' = [created EXCEPT ![t].depth = depth]
  /\ pc' = [pc EXCEPT ![t] = "idle"]
  /\ UNCHANGED <<roomVars, waitVars, ev, calls>>

ReadDepth(t) ==
  /\ pc[t] = "create"
  /\ created' = [created EXCEPT ![t].depth = depth + 1]
  /\ pc' = [pc EXCEPT ![t] = "idle"]
  /\ UNCHANGED <<roomVars, waitVars, ev, calls>>

-----------------------------------------------------------------------------
(* WaiterForEvent and Waiter.Wait *)

\* WaiterForEvent takes TimelineMutex, which it holds until it returns.
WaiterLock(w, e) ==
  /\ wpc[w] = "new"
  /\ timelineMu = None
  /\ timelineMu' = w
  /\ wev' = [wev EXCEPT ![w] = e]
  /\ wpc' = [wpc EXCEPT ![w] = "register"]
  /\ UNCHANGED <<roomVars, waiters, closed, pc, ev, created, calls>>

\* Mutant: the new Waiter replaces the ones already registered.
WaiterRegisterReplaces(w) ==
  /\ wpc[w] = "register"
  /\ waiters' = [waiters EXCEPT ![wev[w]] = {w}]
  /\ wpc' = [wpc EXCEPT ![w] = "scan"]
  /\ UNCHANGED <<roomVars, closed, timelineMu, wev, pc, ev, created, calls>>

\* The critical section of waitersMu.
WaiterRegister(w) ==
  /\ wpc[w] = "register"
  /\ waiters' = [waiters EXCEPT ![wev[w]] = @ \cup {w}]
  /\ wpc' = [wpc EXCEPT ![w] = "scan"]
  /\ UNCHANGED <<roomVars, closed, timelineMu, wev, pc, ev, created, calls>>

\* Finish at once when the event is in the timeline (the entry stays in the
\* map), release TimelineMutex, return; the caller goes on to Wait.
WaiterScan(w) ==
  /\ wpc[w] = "scan"
  /\ closed' = IF InTimeline(wev[w]) THEN closed \cup {w} ELSE closed
  /\ timelineMu' = None
  /\ wpc' = [wpc EXCEPT ![w] = "waiting"]
  /\ UNCHANGED <<roomVars, waiters, wev, pc, ev, created, calls>>

\* Waitf's select: the closed channel ...
WaitReturn(w) ==
  /\ wpc[w] = "waiting"
  /\ w \in closed
  /\ wpc' = [wpc EXCEPT ![w] = "returned"]
  /\ UNCHANGED <<roomVars, waiters, closed, timelineMu, wev, pc, ev, created, calls>>

\* ... or the timer, which may fire at any moment and fails the test.
WaitTimeout(w) ==
  /\ wpc[w] = "waiting"
  /\ wpc' = [wpc EXCEPT ![w] = "failed"]
  /\ UNCHANGED <<roomVars, waiters, closed, timelineMu, wev, pc, ev, created, calls>>

-----------------------------------------------------------------------------
ThreadStep(t) ==
  \/ ReplaceCurrentState(t) \/ AppendTimeline(t) \/ CompareDepth(t)
  \/ SetDepth(t) \/ SetExtremity(t) \/ InformWaiters(t)
  \/ ReadDepth(t)

WaiterStep(w) == WaiterRegister(w) \/ WaiterScan(w)

\* The test is over: every call it makes has returned.
Finished ==
  /\ calls = MaxCalls
  /\ \A t \in Threads : pc[t] = "idle"
  /\ \A w \in Waiters : wpc[w] \in {"returned", "failed"}
  /\ UNCHANGED coreVars

CoreNext ==
  \/ \E t \in Threads :
       \/ \E e \in Events : AddEventBegin(t, e)
       \/ ReadExtremity(t)
       \/ ThreadStep(t)
  \/ \E w \in Waiters :
       \/ \E e \in Events : WaiterLock(w, e)
       \/ WaiterStep(w) \/ WaitReturn(w) \/ WaitTimeout(w)
  \/ Finished

Busy(t) == pc[t] # "idle"

\* The history variable is for the properties that the code promises only to
\* callers that do not overlap.
Next ==
  /\ CoreNext
  /\ overlap' = (overlap \/ \E t, u \in Threads : t # u /\ Busy(t)' /\ Busy(u)')

Spec == Init /\ [][Next]_vars

\* A goroutine that is not blocked is scheduled eventually.  AppendTimeline
\* needs strong fairness: sync.Mutex hands a starved goroutine the lock.  No
\* fairness for the start of a call or for the timeout.
Fairness ==
  /\ \A t \in Threads : WF_coreVars(ThreadStep(t)) /\ SF_coreVars(AppendTimeline(t))
  /\ \A w \in Waiters : WF_coreVars(WaiterStep(w)) /\ WF_coreVars(WaitReturn(w))

FairSpec == Spec /\ Fairness

-----------------------------------------------------------------------------
(* Properties *)

\* Thread t has appended e and has still to inform e's Waiters.
WillInform(t, e) ==
  ev[t] = e /\ pc[t] \in {"depth", "setDepth", "extremity", "inform"}

\* No lost wake-up: a Waiter in Wait whose event is in the timeline is either
\* finished or about to be finished by an AddEvent that has appended the
\* event and not yet informed its waiters.  This is what the two locks of
\* WaiterForEvent (server_room.go:126-133) are for.
NoLostWakeup ==
  \A w \in Waiters :
    (wpc[w] = "waiting" /\ InTimeline(wev[w])) =>
      (w \in closed \/ \E t \in Threads : WillInform(t, wev[w]))

\* What makes it inductive: an unfinished Waiter that has been
\* registered is in the map entry of its event, the lock is held exactly by
\* the Waiter between lock and scan, a thread past append has its event in
\* the timeline and only Waiters of present events are finished.
WaiterInv ==
  /\ \A w \in Waiters :
       /\ IF wpc[w] = "new" THEN wev[w] = None /\ w \notin closed ELSE wev[w] \in Events
       /\ wpc[w] \in {"register", "scan"} => timelineMu = w
       /\ wpc[w] \in {"scan", "waiting"} => (w \in closed \/ w \in waiters[wev[w]])
       /\ w \in closed => InTimeline(wev[w])
       /\ wpc[w] = "returned" => w \in closed
       /\ \A e \in Events : w \in waiters[e] => wev[w] = e
  /\ \A t \in Threads :
       /\ pc[t] \in AddPCs => ev[t] \in Events
       /\ pc[t] \in {"depth", "setDepth", "extremity", "inform"} => InTimeline(ev[t])
       /\ pc[t] = "state" => TupleOf[ev[t]] \in Tuples

\* The inductive invariant.
RoomInv == TypeOK /\ WaiterInv /\ NoLostWakeup

\* Every Waiter for an event that is in the timeline gets its signal, or its
\* timer fires first: Wait never blocks on an event that has been added.
WaiterFinishes ==
  \A w \in Waiters :
    (wpc[w] = "waiting" /\ InTimeline(wev[w])) ~> (wpc[w] \in {"returned", "failed"})

\* "MustCreateEvent will create and sign a new latest event"
\* (server.go:345): unless calls have overlapped, the depth of a created event
\* exceeds that of the event it names as its predecessor.
CreatedAbovePrev ==
  ~overlap => \A t \in Threads :
    (pc[t] # "create" /\ created[t].prev # None) =>
      created[t].depth > DepthOf[created[t].prev]

\* No AddEvent call is in progress.
NoAddInProgress == \A t \in Threads : pc[t] \notin AddPCs

\* The last event of the timeline with tuple k, None if there is none.
LastOf(k) ==
  LET is == {i \in DOMAIN timeline : TupleOf[timeline[i]] = k}
  IN IF is = {} THEN None ELSE timeline[CHOOSE i \in is : \A j \in is : j <= i]

\* "AddEvent adds a new event to the timeline, updating current state if it
\* is a state event.  Updates depth and forward extremities."
\* (server_room.go:93-94): between calls that have never overlapped State holds
\* the last state event of the timeline for every tuple, ForwardExtremities
\* the last event and Depth the largest depth, retransmitted events included.
RoomReflectsTimeline ==
  (~overlap /\ NoAddInProgress) =>
    /\ \A k \in Tuples : state[k] = LastOf(k)
    /\ timeline # <<>> => extremity = timeline[Len(timeline)]
    /\ \A i \in DOMAIN timeline : DepthOf[timeline[i]] <= depth

\* What a test relies on, without locks, maps and channels: EventSignal.
Signal == INSTANCE EventSignal WITH
  added <- {e \in Events : InTimeline(e)},
  wstate <- [w \in Waiters |-> IF wpc[w] \in {"register", "scan"} THEN "waiting" ELSE wpc[w]],
  wev <- wev

\* The room implements EventSignal: events are only ever added, a Waiter
\* keeps its event, and its Wait succeeds only once that event has been added
\* (server_room.go:97-139 with helpers/waiter.go).
ImplementsSignal == Signal!Spec
=============================================================================
