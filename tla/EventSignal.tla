---------------------------- MODULE EventSignal -----------------------------
(***************************************************************************)
(* What a ServerRoom promises a test that waits for events: events are     *)
(* added and never removed, and a Waiter made for an event returns only    *)
(* when that event has been added, or fails when its timer fires.          *)
(***************************************************************************)
CONSTANTS Events, Waiters, None

VARIABLES
  added,   \* the events added so far
  wstate,  \* per Waiter: "new", "waiting", "returned" or "failed"
  wev      \* per Waiter: the event it waits for

signalVars == <<added, wstate, wev>>

Init ==
  /\ added = {}
  /\ wstate = [w \in Waiters |-> "new"]
  /\ wev = [w \in Waiters |-> None]

Add(e) ==
  /\ added' = added \cup {e}
  /\ UNCHANGED <<wstate, wev>>

WaiterForEvent(w, e) ==
  /\ wstate[w] = "new"
  /\ wstate' = [wstate EXCEPT ![w] = "waiting"]
  /\ wev' = [wev EXCEPT ![w] = e]
  /\ UNCHANGED added

Return(w) ==
  /\ wstate[w] = "waiting"
  /\ wev[w] \in added
  /\ wstate' = [wstate EXCEPT ![w] = "returned"]
  /\ UNCHANGED <<added, wev>>

Fail(w) ==
  /\ wstate[w] = "waiting"
  /\ wstate' = [wstate EXCEPT ![w] = "failed"]
  /\ UNCHANGED <<added, wev>>

Next ==
  \/ \E e \in Events : Add(e)
  \/ \E w \in Waiters, e \in Events : WaiterForEvent(w, e)
  \/ \E w \in Waiters : Return(w) \/ Fail(w)

Spec == Init /\ [][Next]_signalVars
=============================================================================
