------------------------- MODULE InstructionRunner -------------------------
(***************************************************************************)
(* instruction.Runner: phases of instruction sets, one goroutine per set,  *)
(* executed against a homeserver that may refuse or drop any request.      *)
(* Builder.construct calls Run for one homeserver after the other with one *)
(* runner, and stops at the first error; cmd/perftest goes on to           *)
(* RunInstructions.  Phases lists what they spawn and wait for, in order.  *)
(*                                                                         *)
(* resErr is written by goroutines without a lock.  Only whether it is nil *)
(* is modelled, which no interleaving of the writes changes.               *)
(***************************************************************************)
EXTENDS Naturals, Sequences, FiniteSets

CONSTANTS
  Phases,      \* sequence of [sets: Seq(Seq(request)), stored: pairs]
  MaxSets,     \* no phase has more sets
  Keys,        \* keys of the lookup table
  Values,      \* what responses hold
  Absent,      \* the key is not in the table
  Empty,       \* the key is in the table with the empty string
  Unformable   \* <<phase, set, position>> of requests next() cannot form

Slots == 1 .. MaxSets
Entries == Values \cup {Absent, Empty}

ASSUME RunnerAssumption ==
  /\ MaxSets \in Nat
  /\ Absent \notin Values /\ Empty \notin Values /\ Absent # Empty
  /\ Len(Phases) \in Nat \ {0}
  /\ DOMAIN Phases = 1 .. Len(Phases)
  /\ \A p \in DOMAIN Phases :
       /\ DOMAIN Phases[p].sets = 1 .. Len(Phases[p].sets)
       /\ Len(Phases[p].sets) \in 0 .. MaxSets
       /\ \A x \in Phases[p].stored : x[1] \in Keys /\ x[2] \in Values
       /\ \A s \in DOMAIN Phases[p].sets :
            /\ Len(Phases[p].sets[s]) \in Nat
            /\ \A k \in 1 .. Len(Phases[p].sets[s]) :
                 /\ Phases[p].sets[s][k].reads \subseteq Keys
                 /\ Phases[p].sets[s][k].requires \subseteq Keys
                 /\ Phases[p].sets[s][k].stores \subseteq Keys
                 /\ Phases[p].sets[s][k].value \in Values

VARIABLES
  bestEffort,  \* r.bestEffort
  main,        \* the goroutine in Run or RunInstructions
  phase,       \* the phase it is in
  wg,          \* its WaitGroup
  resErr,      \* its result is an error
  terminate,   \* r.terminate
  lookup,      \* r.lookup
  pc,          \* per set: the goroutine in runInstructionSet
  pos,         \* per set: requests that next() has returned
  req,         \* per set: what the request read from the lookup table
  executed,    \* history, without bestEffort: <<phase, set, position>>
               \* of the requests answered with 2xx
  late         \* history, per set: requests that ended after terminate

goVars == <<pc, pos, req>>
histVars == <<executed, late>>
vars == <<bestEffort, main, phase, wg, resErr, terminate, lookup, goVars, histVars>>

PCs == {"off", "next", "check", "inflight", "error", "terminate", "done"}

TypeOK ==
  /\ bestEffort \in BOOLEAN
  /\ main \in {"spawn", "wait", "returned", "panicked"}
  /\ phase \in 1 .. Len(Phases)
  /\ wg \in Nat
  /\ resErr \in BOOLEAN
  /\ terminate \in BOOLEAN
  /\ lookup \in [Keys -> Entries]
  /\ pc \in [Slots -> PCs]
  /\ pos \in [Slots -> Nat]
  /\ req \in [Slots -> [Keys -> Entries]]
  /\ late \in [Slots -> Nat]

\* NewRunner
Init ==
  /\ bestEffort \in BOOLEAN
  /\ main = "spawn"
  /\ phase = 1
  /\ wg = 0
  /\ resErr = FALSE
  /\ terminate = FALSE
  /\ lookup = [k \in Keys |-> Absent]
  /\ pc = [s \in Slots |-> "off"]
  /\ pos = [s \in Slots |-> 0]
  /\ req = [s \in Slots |-> [k \in Keys |-> Absent]]
  /\ executed = {}
  /\ late = [s \in Slots |-> 0]

Sets == Phases[phase].sets
Current(s) == Sets[s][pos[s]]
Goto(s, p) == pc' = [pc EXCEPT ![s] = p]

-----------------------------------------------------------------------------
(* Run and RunInstructions *)

\* What calculateRoomInstructionSets has stored.
Stored(lk, pairs) ==
  [k \in Keys |-> IF \E x \in pairs : x[1] = k
                    THEN (CHOOSE x \in pairs : x[1] = k)[2] ELSE lk[k]]

\* Mutant: one goroutine too few is waited for.
SpawnPhaseOneLess ==
  /\ main = "spawn"
  /\ lookup' = Stored(lookup, Phases[phase].stored)
  /\ pc' = [s \in Slots |-> IF s <= Len(Sets) THEN "next" ELSE "off"]
  /\ pos' = [s \in Slots |-> 0]
  /\ wg' = IF Len(Sets) = 0 THEN 0 ELSE Len(Sets) - 1
  /\ main' = "wait"
  /\ UNCHANGED <<bestEffort, phase, resErr, terminate, req, histVars>>

\* wg.Add and one goroutine per set, empty sets included.
SpawnPhase ==
  /\ main = "spawn"
  /\ lookup' = Stored(lookup, Phases[phase].stored)
  /\ pc' = [s \in Slots |-> IF s <= Len(Sets) THEN "next" ELSE "off"]
  /\ pos' = [s \in Slots |-> 0]
  /\ wg' = Len(Sets)
  /\ main' = "wait"
  /\ UNCHANGED <<bestEffort, phase, resErr, terminate, req, histVars>>

\* wg.Wait returns: the next phase, unless there was an error.
WaitReturns ==
  /\ main = "wait"
  /\ wg = 0
  /\ IF ~resErr /\ phase < Len(Phases)
       THEN phase' = phase + 1 /\ main' = "spawn"
       ELSE UNCHANGED phase /\ main' = "returned"
  /\ UNCHANGED <<bestEffort, wg, resErr, terminate, lookup, goVars, histVars>>

-----------------------------------------------------------------------------
(* runInstructionSet *)

\* next: no more instructions, the set returns nil.
NoMore(s) ==
  /\ pc[s] = "next"
  /\ pos[s] >= Len(Sets[s])
  /\ Goto(s, "done")
  /\ UNCHANGED <<bestEffort, main, phase, wg, resErr, terminate, lookup, pos, req, histVars>>

\* next: the body does not marshal or the URL does not parse; the set stops
\* and returns nil.
CannotForm(s) ==
  /\ pc[s] = "next"
  /\ pos[s] < Len(Sets[s])
  /\ <<phase, s, pos[s] + 1>> \in Unformable
  /\ Goto(s, "done")
  /\ UNCHANGED <<bestEffort, main, phase, wg, resErr, terminate, lookup, pos, req, histVars>>

\* next: the request takes what it needs from the lookup table.  The loads
\* are one step; a key that is not there gives an empty string.
FormRequest(s) ==
  /\ pc[s] = "next"
  /\ pos[s] < Len(Sets[s])
  /\ <<phase, s, pos[s] + 1>> \notin Unformable
  /\ pos' = [pos EXCEPT ![s] = @ + 1]
  /\ req' = [req EXCEPT ![s] =
       [k \in Keys |-> IF k \in Sets[s][pos[s] + 1].reads THEN lookup[k] ELSE Absent]]
  /\ Goto(s, "check")
  /\ UNCHANGED <<bestEffort, main, phase, wg, resErr, terminate, lookup, histVars>>

\* Mutant: terminate is looked at only before the first request.
CheckTerminateOnce(s) ==
  /\ pc[s] = "check"
  /\ Goto(s, IF terminate /\ pos[s] = 1 THEN "error" ELSE "inflight")
  /\ UNCHANGED <<bestEffort, main, phase, wg, resErr, terminate, lookup, pos, req, histVars>>

CheckTerminate(s) ==
  /\ pc[s] = "check"
  /\ Goto(s, IF terminate THEN "error" ELSE "inflight")
  /\ UNCHANGED <<bestEffort, main, phase, wg, resErr, terminate, lookup, pos, req, histVars>>

CountLate(s) == late' = [late EXCEPT ![s] = IF terminate THEN @ + 1 ELSE @]

StoreResponse(keys, v) == lookup' = [k \in Keys |-> IF k \in keys THEN v ELSE lookup[k]]

\* 2xx.  The keys of a request are stored from one field of the body.  If that
\* is not there or is not a string, val.Str is "", and the set goes on.
Answered(s) ==
  /\ pc[s] = "inflight"
  /\ CountLate(s)
  /\ executed' = IF bestEffort THEN {} ELSE executed \cup {<<phase, s, pos[s]>>}
  /\ \E v \in {Current(s).value, Empty} : StoreResponse(Current(s).stores, v)
  /\ Goto(s, "next")
  /\ UNCHANGED <<bestEffort, main, phase, wg, resErr, terminate, pos, req>>

\* Not 2xx, or a body that cannot be read or is not JSON: fatal, unless
\* bestEffort, where the fields that are not there are stored as "".
Refused(s) ==
  /\ pc[s] = "inflight"
  /\ CountLate(s)
  /\ IF bestEffort
       THEN StoreResponse(Current(s).stores, Empty) /\ Goto(s, "next")
       ELSE UNCHANGED lookup /\ Goto(s, "error")
  /\ UNCHANGED <<bestEffort, main, phase, wg, resErr, terminate, pos, req, executed>>

\* cli.Do fails and there is no response.
NoResponse(s) ==
  /\ pc[s] = "inflight"
  /\ ~bestEffort
  /\ CountLate(s)
  /\ Goto(s, "error")
  /\ UNCHANGED <<bestEffort, main, phase, wg, resErr, terminate, lookup, pos, req, executed>>

\* The same with bestEffort: the arguments of the deferred CloseIO are taken
\* from the nil response, and the panic of the goroutine ends the process.
NoResponsePanics(s) ==
  /\ pc[s] = "inflight"
  /\ bestEffort
  /\ main' = "panicked"
  /\ UNCHANGED <<bestEffort, phase, wg, resErr, terminate, lookup, goVars, histVars>>

-----------------------------------------------------------------------------
(* The goroutine around it: resErr = err, terminate.Store(true), wg.Done() *)

\* Mutant: the error goes to a variable of the goroutine.
RecordErrorShadowed(s) ==
  /\ pc[s] = "error"
  /\ Goto(s, "terminate")
  /\ UNCHANGED <<bestEffort, main, phase, wg, resErr, terminate, lookup, pos, req, histVars>>

RecordError(s) ==
  /\ pc[s] = "error"
  /\ resErr' = TRUE
  /\ Goto(s, "terminate")
  /\ UNCHANGED <<bestEffort, main, phase, wg, terminate, lookup, pos, req, histVars>>

\* Mutant: a goroutine that fails is not counted as done.
SetTerminateLeaves(s) ==
  /\ pc[s] = "terminate"
  /\ terminate' = TRUE
  /\ Goto(s, "off")
  /\ UNCHANGED <<bestEffort, main, phase, wg, resErr, lookup, pos, req, histVars>>

SetTerminate(s) ==
  /\ pc[s] = "terminate"
  /\ terminate' = TRUE
  /\ Goto(s, "done")
  /\ UNCHANGED <<bestEffort, main, phase, wg, resErr, lookup, pos, req, histVars>>

WgDone(s) ==
  /\ pc[s] = "done"
  /\ wg' = wg - 1
  /\ Goto(s, "off")
  /\ UNCHANGED <<bestEffort, main, phase, resErr, terminate, lookup, pos, req, histVars>>

-----------------------------------------------------------------------------
SetStep(s) ==
  \/ NoMore(s) \/ CannotForm(s) \/ FormRequest(s) \/ CheckTerminate(s)
  \/ Answered(s) \/ Refused(s) \/ NoResponse(s) \/ NoResponsePanics(s)
  \/ RecordError(s) \/ SetTerminate(s) \/ WgDone(s)

Finished == main \in {"returned", "panicked"} /\ UNCHANGED vars

Next ==
  \/ SpawnPhase \/ WaitReturns
  \/ main = "wait" /\ \E s \in Slots : SetStep(s)
  \/ Finished

Spec == Init /\ [][Next]_vars

\* The http.Client has a timeout, and goroutines are scheduled.
FairSpec ==
  /\ Spec
  /\ WF_vars(SpawnPhase) /\ WF_vars(WaitReturns)
  /\ \A s \in Slots : WF_vars(main = "wait" /\ SetStep(s))

-----------------------------------------------------------------------------
(* Properties *)

\* The goroutines of the phase that have not called wg.Done.
Active == {s \in Slots : pc[s] # "off"}

\* "wait for all users to be made before creating rooms" and "wait for all
\* rooms to be made before returning" (runner.go:168, 187): between two
\* phases, and when Run has returned, no goroutine can send a request or
\* change the lookup table.
QuietBetweenPhases ==
  /\ wg = Cardinality(Active)
  /\ main \in {"spawn", "returned"} => Active = {}

\* terminate stops the other sets: after it is set, none of them completes
\* more than the request it is in.
OneLateRequest == \A s \in Slots : late[s] <= 1

\* The requests of set s of phase p are done, up to one that could not be
\* formed: next() ends the set there without an error.
SetComplete(p, s) ==
  \A k \in 1 .. Len(Phases[p].sets[s]) :
    <<p, s, k>> \in executed \/ \E j \in 1 .. k : <<p, s, j>> \in Unformable

\* "Return an error if there was a problem executing any instruction."
\* (runner.go:152): Run without an error means that every request of every
\* set was answered with 2xx, except what follows a request that could not
\* be formed, and unless the runner is told to do its best only.
NoErrorMeansAllDone ==
  (main = "returned" /\ ~resErr /\ ~bestEffort) =>
    \A p \in DOMAIN Phases : \A s \in DOMAIN Phases[p].sets : SetComplete(p, s)

\* The first n requests of set s are done.
DoneBefore(s, n) == \A k \in 1 .. n : <<phase, s, k>> \in executed

\* Where the goroutines are, and what terminate and resErr tell about them.
ControlInv ==
  /\ \A s \in Slots :
       /\ pc[s] # "off" => s \in DOMAIN Sets
       /\ pc[s] = "next" => pos[s] <= Len(Sets[s])
       /\ pc[s] \in {"check", "inflight"} => pos[s] \in 1 .. Len(Sets[s])
       /\ pc[s] = "inflight" => late[s] = 0
       /\ late[s] <= 1
       /\ late[s] > 0 => terminate
       /\ pc[s] = "terminate" => resErr
  /\ terminate => resErr
  /\ main = "spawn" => ~resErr
  /\ main = "returned" => resErr \/ phase = Len(Phases)

\* A goroutine has done what is before its position, and one that is over
\* has done its set or has left an error.
SetProgress(s) ==
  /\ pc[s] = "next" => DoneBefore(s, pos[s])
  /\ pc[s] \in {"check", "inflight"} => DoneBefore(s, pos[s] - 1)
  /\ pc[s] \in {"done", "off"} => (resErr \/ SetComplete(phase, s))

ProgressInv ==
  ~bestEffort =>
    /\ \A p \in 1 .. phase - 1 : \A s \in DOMAIN Phases[p].sets : SetComplete(p, s)
    /\ main \in {"wait", "returned"} => \A s \in DOMAIN Sets : SetProgress(s)

\* The inductive invariant.
RunnerInv == TypeOK /\ QuietBetweenPhases /\ ControlInv /\ ProgressInv

\* Run ends, whatever the homeserver does, or the process dies.
RunReturns == <>(main \in {"returned", "panicked"})

\* The key is in the table, as "" if a 2xx answer had no such field.
Resolved(v) == v # Absent

\* Requests go out after what they need: unless requests were allowed to fail,
\* every key a request reads has been stored by then (the answers that make its
\* sender and its room are in, the room's server is known), and what it
\* presupposes on the homeserver has been done.  Sets run in any order, so this is what
\* the assignment of instructions to sets and phases is for ("Sets can be
\* executed in any order", runner.go:409, 435).
RequestsInOrder ==
  \A s \in Slots :
    (~bestEffort /\ pc[s] = "inflight") =>
      /\ \A k \in Current(s).reads : Resolved(req[s][k])
      /\ \A k \in Current(s).requires : Resolved(lookup[k])

\* The runner or an earlier request puts key into the lookup table: one of the
\* same set, or one of an earlier phase that next() gets to.
Provided(p, s, k, key) ==
  \/ \E q \in 1 .. p : \E x \in Phases[q].stored : x[1] = key
  \/ \E j \in 1 .. k - 1 : key \in Phases[p].sets[s][j].stores
  \/ \E q \in 1 .. p - 1 : \E u \in DOMAIN Phases[q].sets : \E j \in 1 .. Len(Phases[q].sets[u]) :
       /\ key \in Phases[q].sets[u][j].stores
       /\ \A m \in 1 .. j : <<q, u, m>> \notin Unformable

\* What a blueprint and the assignment of its instructions to sets and phases
\* have to provide for RequestsInOrder, as a condition on the sets alone.
SetsInOrder ==
  \A p \in DOMAIN Phases : \A s \in DOMAIN Phases[p].sets : \A k \in 1 .. Len(Phases[p].sets[s]) :
    \A key \in Phases[p].sets[s][k].reads \cup Phases[p].sets[s][k].requires : Provided(p, s, k, key)

\* "We specifically call the /members API to ensure that we have fully joined
\* the room before continuing." (runner.go:559): a request that is about a
\* room goes to the room that is meant, when all answers had their fields.
RequestsReachRoom ==
  \A s \in Slots :
    (~bestEffort /\ (\A k \in Keys : lookup[k] # Empty) /\ pc[s] = "inflight" /\ Current(s).room # Current(s).meant) =>
      req[s][Current(s).room] = lookup[Current(s).meant]
=============================================================================
