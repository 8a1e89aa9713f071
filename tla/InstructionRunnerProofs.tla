---------------------- MODULE InstructionRunnerProofs ----------------------
(***************************************************************************)
(* The runner waits for every set, stops soon after an error and reports   *)
(* no success for work that was not done, for any phases, sets and         *)
(* requests; and its requests find what they need if the sets provide it.  *)
(***************************************************************************)
EXTENDS InstructionRunner, FiniteSetTheorems, TLAPS

\* Sets of goroutines are finite.
LEMMA SlotsCardinality ==
  ASSUME NEW T \in SUBSET Slots
  PROVE  /\ IsFiniteSet(T)
         /\ Cardinality(T) \in Nat
         /\ Cardinality(T) = 0 <=> T = {}
<1>1. IsFiniteSet(Slots)
  BY FS_Interval, RunnerAssumption DEF Slots
<1>2. IsFiniteSet(T)
  BY <1>1, FS_Subset
<1>3. QED
  BY <1>2, FS_CardinalityType, FS_EmptySet

\* The sets of every phase have goroutines, and wg.Add counts them.
LEMMA SetsAreSlots ==
  ASSUME NEW p \in 1 .. Len(Phases)
  PROVE  /\ p \in DOMAIN Phases
         /\ DOMAIN Phases[p].sets = 1 .. Len(Phases[p].sets)
         /\ Len(Phases[p].sets) \in Nat
         /\ DOMAIN Phases[p].sets \subseteq Slots
         /\ Cardinality(DOMAIN Phases[p].sets) = Len(Phases[p].sets)
         /\ \A s \in DOMAIN Phases[p].sets : Len(Phases[p].sets[s]) \in Nat
<1>1. /\ p \in DOMAIN Phases
      /\ DOMAIN Phases[p].sets = 1 .. Len(Phases[p].sets)
      /\ Len(Phases[p].sets) \in 0 .. MaxSets
      /\ \A s \in DOMAIN Phases[p].sets : Len(Phases[p].sets[s]) \in Nat
  BY RunnerAssumption
<1>2. MaxSets \in Nat
  BY RunnerAssumption
<1>3. DOMAIN Phases[p].sets \subseteq Slots
  BY <1>1, <1>2 DEF Slots
<1>4. Cardinality(1 .. Len(Phases[p].sets)) = Len(Phases[p].sets)
  <2> DEFINE n == Len(Phases[p].sets)
  <2>1. n \in Int /\ n >= 0
    BY <1>1, <1>2
  <2> HIDE DEF n
  <2>2. Cardinality(1 .. n) = IF 1 > n THEN 0 ELSE n - 1 + 1
    BY <2>1, FS_Interval
  <2>3. Cardinality(1 .. n) = n
    BY <2>1, <2>2
  <2>4. QED
    BY <2>3 DEF n
<1>5. QED
  BY <1>1, <1>2, <1>3, <1>4

\* Requests have typed keys and values.
LEMMA RequestType ==
  ASSUME NEW p \in 1 .. Len(Phases), NEW s \in DOMAIN Phases[p].sets,
         NEW k \in 1 .. Len(Phases[p].sets[s])
  PROVE  Phases[p].sets[s][k].value \in Entries
<1>1. p \in DOMAIN Phases
  BY SetsAreSlots
<1>2. Phases[p].sets[s][k].value \in Values
  BY <1>1, RunnerAssumption
<1>3. QED
  BY <1>2 DEF Entries

\* Storing pairs keeps the lookup table a table.
LEMMA StoredType ==
  ASSUME NEW p \in 1 .. Len(Phases), lookup \in [Keys -> Entries]
  PROVE  Stored(lookup, Phases[p].stored) \in [Keys -> Entries]
<1> DEFINE pairs == Phases[p].stored
<1>1. \A x \in pairs : x[2] \in Entries
  BY SetsAreSlots, RunnerAssumption DEF Entries
<1>2. ASSUME NEW k \in Keys
      PROVE  (IF \E x \in pairs : x[1] = k
                THEN (CHOOSE x \in pairs : x[1] = k)[2] ELSE lookup[k]) \in Entries
  <2>1. CASE \E x \in pairs : x[1] = k
    <3>1. (CHOOSE x \in pairs : x[1] = k) \in pairs
      BY <2>1
    <3>2. QED
      BY <1>1, <2>1, <3>1
  <2>2. CASE ~\E x \in pairs : x[1] = k
    BY <2>2
  <2>3. QED
    BY <2>1, <2>2
<1>3. QED
  BY <1>2 DEF Stored

-----------------------------------------------------------------------------
(* The main goroutine *)

\* NewRunner: nothing runs and nothing is done.
LEMMA InitInv == Init => RunnerInv
<1> SUFFICES ASSUME Init PROVE RunnerInv
  OBVIOUS
<1>1. 1 \in 1 .. Len(Phases)
  BY RunnerAssumption
<1>2. TypeOK
  <2>1. lookup \in [Keys -> Entries] /\ req \in [Slots -> [Keys -> Entries]]
    BY DEF Init, Entries
  <2>2. pc \in [Slots -> PCs] /\ pos \in [Slots -> Nat] /\ late \in [Slots -> Nat]
    BY DEF Init, PCs
  <2>3. QED
    BY <1>1, <2>1, <2>2 DEF Init, TypeOK
<1>3. Active = {}
  BY DEF Init, Active
<1>4. QuietBetweenPhases
  BY <1>3, FS_EmptySet DEF Init, QuietBetweenPhases
<1>5. ControlInv
  BY DEF Init, ControlInv
<1>6. ProgressInv
  BY DEF Init, ProgressInv
<1>7. QED
  BY <1>2, <1>4, <1>5, <1>6 DEF RunnerInv

\* Every set of the phase gets a goroutine that wg counts.
LEMMA SpawnPhaseStep == ASSUME RunnerInv, SpawnPhase PROVE RunnerInv'
<1>1. phase \in 1 .. Len(Phases) /\ phase' = phase /\ Sets' = Sets
  BY DEF RunnerInv, TypeOK, SpawnPhase, Sets
<1>2. /\ DOMAIN Sets = 1 .. Len(Sets) /\ Len(Sets) \in Nat /\ DOMAIN Sets \subseteq Slots
      /\ Cardinality(DOMAIN Sets) = Len(Sets)
      /\ \A s \in DOMAIN Sets : Len(Sets[s]) \in Nat
  BY <1>1, SetsAreSlots DEF Sets
<1>3. \A s \in Slots : s <= Len(Sets) <=> s \in DOMAIN Sets
  BY <1>2 DEF Slots
<1>4. /\ \A s \in Slots : pc'[s] = IF s \in DOMAIN Sets THEN "next" ELSE "off"
      /\ pc' \in [Slots -> PCs]
      /\ \A s \in Slots : pos'[s] = 0
  BY <1>3 DEF SpawnPhase, PCs
<1>5. Active' = DOMAIN Sets
  BY <1>2, <1>4 DEF Active
<1>6. TypeOK'
  <2>1. lookup' \in [Keys -> Entries]
    BY <1>1, StoredType DEF RunnerInv, TypeOK, SpawnPhase
  <2>2. pos' \in [Slots -> Nat] /\ wg' \in Nat
    BY <1>2 DEF SpawnPhase
  <2>3. QED
    BY <1>1, <1>4, <2>1, <2>2 DEF RunnerInv, TypeOK, SpawnPhase, histVars
<1>7. QuietBetweenPhases'
  BY <1>2, <1>5 DEF SpawnPhase, QuietBetweenPhases
<1>8. ControlInv'
  BY <1>1, <1>2, <1>4 DEF RunnerInv, ControlInv, SpawnPhase, histVars
<1>9. ProgressInv'
  <2>1. \A s \in DOMAIN Sets : SetProgress(s)'
    BY <1>2, <1>4 DEF SetProgress, DoneBefore
  <2>2. \A p, s :
          SetComplete(p, s) => SetComplete(p, s)'
    BY DEF SetComplete, SpawnPhase, histVars
  <2>3. QED
    BY <1>1, <2>1, <2>2 DEF RunnerInv, ProgressInv, SpawnPhase
<1>10. QED
  BY <1>6, <1>7, <1>8, <1>9 DEF RunnerInv

\* All goroutines are over; without an error every set of the phase is done.
LEMMA WaitReturnsStep == ASSUME RunnerInv, WaitReturns PROVE RunnerInv'
<1>1. phase \in 1 .. Len(Phases) /\ Len(Phases) \in Nat
  BY RunnerAssumption DEF RunnerInv, TypeOK
<1>2. Active = {} /\ Active' = Active
  BY SlotsCardinality DEF RunnerInv, QuietBetweenPhases, WaitReturns, Active, goVars
<1>3. \A s \in Slots : pc[s] = "off"
  BY <1>2 DEF Active
<1>4. phase' \in 1 .. Len(Phases)
  BY <1>1 DEF WaitReturns
<1>5. TypeOK'
  BY <1>4 DEF RunnerInv, TypeOK, WaitReturns, goVars, histVars
<1>6. QuietBetweenPhases'
  BY <1>2 DEF RunnerInv, QuietBetweenPhases, WaitReturns
<1>7. ControlInv'
  BY <1>1, <1>3 DEF RunnerInv, TypeOK, ControlInv, WaitReturns, goVars, histVars
<1>8. ASSUME ~bestEffort, ~resErr, NEW s \in DOMAIN Sets PROVE SetComplete(phase, s)
  <2>1. s \in Slots
    BY <1>1, SetsAreSlots DEF Sets
  <2>2. SetProgress(s)
    BY <1>8 DEF RunnerInv, ProgressInv, WaitReturns
  <2>3. QED
    BY <1>3, <1>8, <2>1, <2>2 DEF SetProgress
<1>9. ProgressInv'
  <2>1. \A p, s : SetComplete(p, s)' <=> SetComplete(p, s)
    BY DEF SetComplete, WaitReturns, histVars
  <2>2. CASE ~resErr /\ phase < Len(Phases)
    <3>1. phase' = phase + 1 /\ main' = "spawn" /\ bestEffort' = bestEffort
      BY <2>2 DEF WaitReturns
    <3>2. ASSUME ~bestEffort, NEW p \in 1 .. phase, NEW s \in DOMAIN Phases[p].sets
          PROVE  SetComplete(p, s)
      <4>1. CASE p = phase
        BY <1>8, <2>2, <3>2, <4>1 DEF Sets
      <4>2. CASE p # phase
        <5>1. p \in 1 .. phase - 1
          BY <1>1, <4>2
        <5>2. QED
          BY <3>2, <5>1 DEF RunnerInv, ProgressInv
      <4>3. QED
        BY <4>1, <4>2
    <3>3. 1 .. phase' - 1 = 1 .. phase
      BY <1>1, <3>1
    <3>4. QED
      BY <2>1, <3>1, <3>2, <3>3 DEF ProgressInv
  <2>3. CASE ~(~resErr /\ phase < Len(Phases))
    <3>1. phase' = phase /\ main = "wait" /\ bestEffort' = bestEffort /\ Sets' = Sets
      BY <2>3 DEF WaitReturns, Sets
    <3>2. \A s : SetProgress(s)' <=> SetProgress(s)
      BY <2>1, <3>1 DEF SetProgress, DoneBefore, WaitReturns, goVars, histVars
    <3>3. QED
      BY <2>1, <3>1, <3>2 DEF RunnerInv, ProgressInv
  <2>4. QED
    BY <2>2, <2>3
<1>10. QED
  BY <1>5, <1>6, <1>7, <1>9 DEF RunnerInv

-----------------------------------------------------------------------------
(* The goroutines of the sets *)

\* What every step of goroutine s has in common.
LEMMA SetStepFrame ==
  ASSUME TypeOK, NEW s \in Slots, SetStep(s), main = "wait"
  PROVE  /\ phase' = phase /\ Sets' = Sets /\ bestEffort' = bestEffort
         /\ main' \in {"wait", "panicked"}
         /\ resErr => resErr'
         /\ ~bestEffort => executed \subseteq executed'
         /\ \A t \in Slots \ {s} : pc'[t] = pc[t] /\ pos'[t] = pos[t] /\ late'[t] = late[t]
<1> USE DEF TypeOK, Goto, CountLate, goVars, histVars, Sets
<1>1. CASE NoMore(s) \/ CannotForm(s) \/ FormRequest(s) \/ CheckTerminate(s)
  BY <1>1 DEF NoMore, CannotForm, FormRequest, CheckTerminate
<1>2. CASE Answered(s) \/ Refused(s) \/ NoResponse(s) \/ NoResponsePanics(s)
  BY <1>2 DEF Answered, Refused, NoResponse, NoResponsePanics
<1>3. CASE RecordError(s) \/ SetTerminate(s) \/ WgDone(s)
  BY <1>3 DEF RecordError, SetTerminate, WgDone
<1>4. QED
  BY <1>1, <1>2, <1>3 DEF SetStep

\* A goroutine that does not move keeps its progress.
LEMMA OthersProgress ==
  ASSUME NEW t, SetProgress(t), phase' = phase, resErr => resErr',
         executed \subseteq executed', pc'[t] = pc[t], pos'[t] = pos[t]
  PROVE  SetProgress(t)'
  BY DEF SetProgress, DoneBefore, SetComplete

\* Moving between program points inside the set leaves the goroutine active.
LEMMA StaysActive ==
  ASSUME TypeOK, NEW s \in Slots, pc[s] # "off", NEW p \in PCs \ {"off"},
         pc' = [pc EXCEPT ![s] = p]
  PROVE  Active' = Active
  BY DEF TypeOK, Active

\* The types of what the steps of a goroutine assign.
LEMMA SetStepTypes ==
  ASSUME RunnerInv, NEW s \in Slots, SetStep(s), main = "wait" PROVE TypeOK'
<1> DEFINE Rest == /\ bestEffort' \in BOOLEAN /\ main' \in {"wait", "panicked"}
                   /\ phase' \in 1 .. Len(Phases)
<1>0. TypeOK /\ Rest
  BY SetStepFrame DEF RunnerInv, TypeOK
<1>1. pc' \in [Slots -> PCs]
  <2> USE <1>0 DEF TypeOK, Goto, goVars, histVars, PCs
  <2>1. CASE NoMore(s) \/ CannotForm(s) \/ FormRequest(s) \/ CheckTerminate(s)
    BY <2>1 DEF NoMore, CannotForm, FormRequest, CheckTerminate
  <2>2. CASE Answered(s) \/ Refused(s) \/ NoResponse(s) \/ NoResponsePanics(s)
    BY <2>2 DEF Answered, Refused, NoResponse, NoResponsePanics
  <2>3. CASE RecordError(s) \/ SetTerminate(s) \/ WgDone(s)
    BY <2>3 DEF RecordError, SetTerminate, WgDone
  <2>4. QED
    BY <2>1, <2>2, <2>3 DEF SetStep
<1>2. pos' \in [Slots -> Nat] /\ late' \in [Slots -> Nat]
  <2>1. pos[s] + 1 \in Nat /\ late[s] + 1 \in Nat /\ late[s] \in Nat
    BY <1>0 DEF TypeOK
  <2>2. pos' = pos \/ pos' = [pos EXCEPT ![s] = pos[s] + 1]
    BY DEF SetStep, NoMore, CannotForm, FormRequest, CheckTerminate, Answered, Refused,
       NoResponse, NoResponsePanics, RecordError, SetTerminate, WgDone, goVars
  <2>3. late' = late \/ late' = [late EXCEPT ![s] = late[s] + 1]
                     \/ late' = [late EXCEPT ![s] = late[s]]
    BY DEF SetStep, NoMore, CannotForm, FormRequest, CheckTerminate, Answered, Refused,
       NoResponse, NoResponsePanics, RecordError, SetTerminate, WgDone, CountLate, histVars
  <2>4. pos' \in [Slots -> Nat]
    BY <1>0, <2>1, <2>2 DEF TypeOK
  <2>5. late' \in [Slots -> Nat]
    BY <1>0, <2>1, <2>3 DEF TypeOK
  <2>6. QED
    BY <2>4, <2>5
<1>3. req' \in [Slots -> [Keys -> Entries]]
  <2>1. CASE FormRequest(s)
    <3>1. [k \in Keys |-> IF k \in Sets[s][pos[s] + 1].reads THEN lookup[k] ELSE Absent]
            \in [Keys -> Entries]
      BY <1>0 DEF TypeOK, Entries
    <3>2. QED
      BY <1>0, <2>1, <3>1 DEF TypeOK, FormRequest
  <2>2. CASE ~FormRequest(s)
    <3>1. req' = req
      BY <2>2 DEF SetStep, NoMore, CannotForm, CheckTerminate, Answered, Refused,
         NoResponse, NoResponsePanics, RecordError, SetTerminate, WgDone, goVars
    <3>2. QED
      BY <1>0, <3>1 DEF TypeOK
  <2>3. QED
    BY <2>1, <2>2
<1>4. lookup' \in [Keys -> Entries]
  <2>1. CASE Answered(s)
    <3>1. s \in DOMAIN Sets /\ pos[s] \in 1 .. Len(Sets[s])
      BY <2>1 DEF RunnerInv, ControlInv, Answered
    <3>2. Current(s).value \in Entries /\ Empty \in Entries
      BY <1>0, <3>1, RequestType DEF Current, Sets, TypeOK, Entries
    <3>3. QED
      BY <1>0, <2>1, <3>2 DEF TypeOK, Answered, StoreResponse
  <2>2. CASE Refused(s)
    BY <1>0, <2>2 DEF TypeOK, Refused, StoreResponse, Entries
  <2>3. CASE ~Answered(s) /\ ~Refused(s)
    <3>1. lookup' = lookup
      BY <2>3 DEF SetStep, NoMore, CannotForm, FormRequest, CheckTerminate,
         NoResponse, NoResponsePanics, RecordError, SetTerminate, WgDone
    <3>2. QED
      BY <1>0, <3>1 DEF TypeOK
  <2>4. QED
    BY <2>1, <2>2, <2>3
<1>5. wg' \in Nat
  <2>1. CASE WgDone(s)
    <3>1. s \in Active
      BY <2>1 DEF WgDone, Active
    <3>2. wg # 0
      BY <3>1, SlotsCardinality DEF RunnerInv, QuietBetweenPhases, Active
    <3>3. QED
      BY <1>0, <2>1, <3>2 DEF TypeOK, WgDone
  <2>2. CASE ~WgDone(s)
    <3>1. wg' = wg
      BY <2>2 DEF SetStep, NoMore, CannotForm, FormRequest, CheckTerminate, Answered,
         Refused, NoResponse, NoResponsePanics, RecordError, SetTerminate
    <3>2. QED
      BY <1>0, <3>1 DEF TypeOK
  <2>3. QED
    BY <2>1, <2>2
<1>6. resErr' \in BOOLEAN /\ terminate' \in BOOLEAN
  BY <1>0, Zenon DEF TypeOK, SetStep, NoMore, CannotForm, FormRequest, CheckTerminate,
     Answered, Refused, NoResponse, NoResponsePanics, RecordError, SetTerminate, WgDone
<1>7. QED
  BY <1>0, <1>1, <1>2, <1>3, <1>4, <1>5, <1>6 DEF TypeOK

\* wg.Done is the only step that makes a goroutine leave the count.
LEMMA SetStepQuiet ==
  ASSUME RunnerInv, NEW s \in Slots, SetStep(s), main = "wait"
  PROVE  QuietBetweenPhases'
<1>0. TypeOK /\ wg = Cardinality(Active) /\ main' \notin {"spawn", "returned"}
  BY SetStepFrame DEF RunnerInv, QuietBetweenPhases
<1>1. CASE WgDone(s)
  <2>1. s \in Active /\ Active \in SUBSET Slots
    BY <1>1 DEF WgDone, Active
  <2>2. Active' = Active \ {s}
    BY <1>0, <1>1 DEF WgDone, Active, Goto, TypeOK
  <2>3. IsFiniteSet(Active)
    BY <2>1, SlotsCardinality
  <2>4. Cardinality(Active \ {s}) = Cardinality(Active) - 1
    BY <2>1, <2>3, FS_RemoveElement
  <2>5. QED
    BY <1>0, <1>1, <2>2, <2>4 DEF QuietBetweenPhases, WgDone
<1>2. CASE ~WgDone(s)
  <2>1. wg' = wg
    BY <1>2 DEF SetStep, NoMore, CannotForm, FormRequest, CheckTerminate, Answered,
       Refused, NoResponse, NoResponsePanics, RecordError, SetTerminate
  <2>2. pc' = pc \/ (pc[s] # "off" /\ \E p \in PCs \ {"off"} : pc' = [pc EXCEPT ![s] = p])
    <3> USE DEF Goto, PCs
    <3>1. CASE NoMore(s) \/ CannotForm(s) \/ FormRequest(s) \/ CheckTerminate(s)
      BY <3>1 DEF NoMore, CannotForm, FormRequest, CheckTerminate
    <3>2. CASE Answered(s) \/ Refused(s) \/ NoResponse(s) \/ NoResponsePanics(s)
      BY <3>2 DEF Answered, Refused, NoResponse, NoResponsePanics, goVars
    <3>3. CASE RecordError(s) \/ SetTerminate(s)
      BY <3>3 DEF RecordError, SetTerminate
    <3>4. QED
      BY <1>2, <3>1, <3>2, <3>3 DEF SetStep
  <2>3. CASE pc' = pc
    BY <1>0, <2>1, <2>3 DEF QuietBetweenPhases, Active
  <2>4. CASE pc[s] # "off" /\ \E p \in PCs \ {"off"} : pc' = [pc EXCEPT ![s] = p]
    <3>1. Active' = Active
      BY <1>0, <2>4, StaysActive
    <3>2. QED
      BY <1>0, <2>1, <3>1 DEF QuietBetweenPhases
  <2>5. QED
    BY <2>2, <2>3, <2>4
<1>3. QED
  BY <1>1, <1>2

\* What ControlInv says of one goroutine.
Control(s) ==
  /\ pc[s] # "off" => s \in DOMAIN Sets
  /\ pc[s] = "next" => pos[s] <= Len(Sets[s])
  /\ pc[s] \in {"check", "inflight"} => pos[s] \in 1 .. Len(Sets[s])
  /\ pc[s] = "inflight" => late[s] = 0
  /\ late[s] <= 1
  /\ late[s] > 0 => terminate
  /\ pc[s] = "terminate" => resErr

\* A request ends late only if terminate was set while it was on its way.
LEMMA SetStepControl ==
  ASSUME RunnerInv, NEW s \in Slots, SetStep(s), main = "wait"
  PROVE  ControlInv'
<1>0. TypeOK /\ ControlInv /\ Control(s)
  BY DEF RunnerInv, ControlInv, Control
<1>1. /\ Sets' = Sets /\ phase' = phase /\ main' \in {"wait", "panicked"}
      /\ resErr => resErr'
      /\ \A t \in Slots \ {s} : pc'[t] = pc[t] /\ pos'[t] = pos[t] /\ late'[t] = late[t]
  BY <1>0, SetStepFrame
<1>2. terminate => terminate'
  BY DEF SetStep, NoMore, CannotForm, FormRequest, CheckTerminate, Answered, Refused,
     NoResponse, NoResponsePanics, RecordError, SetTerminate, WgDone
<1>3. ASSUME NEW t \in Slots \ {s} PROVE Control(t)'
  <2>1. Control(t)
    BY <1>0 DEF ControlInv, Control
  <2>2. QED
    BY <1>1, <1>2, <2>1 DEF Control
<1>4. s \in DOMAIN Sets => Len(Sets[s]) \in Nat
  BY <1>0, SetsAreSlots DEF TypeOK, Sets
<1>5. Control(s)'
  <2> USE <1>0, <1>1, <1>4 DEF TypeOK, Control, Goto, CountLate, goVars, histVars
  <2>1. CASE NoMore(s)
    BY <2>1 DEF NoMore
  <2>2. CASE CannotForm(s)
    BY <2>2 DEF CannotForm
  <2>3. CASE FormRequest(s)
    BY <2>3 DEF FormRequest
  <2>4. CASE CheckTerminate(s)
    BY <2>4 DEF CheckTerminate
  <2>5. CASE Answered(s)
    BY <2>5 DEF Answered
  <2>6. CASE Refused(s)
    BY <2>6 DEF Refused
  <2>7. CASE NoResponse(s)
    BY <2>7 DEF NoResponse
  <2>8. CASE NoResponsePanics(s)
    BY <2>8 DEF NoResponsePanics
  <2>9. CASE RecordError(s)
    BY <2>9 DEF RecordError
  <2>10. CASE SetTerminate(s)
    BY <2>10 DEF SetTerminate
  <2>11. CASE WgDone(s)
    BY <2>11 DEF WgDone
  <2>12. QED
    BY <2>1, <2>2, <2>3, <2>4, <2>5, <2>6, <2>7, <2>8, <2>9, <2>10, <2>11 DEF SetStep
<1>6. terminate' => resErr'
  <2>1. CASE SetTerminate(s)
    BY <1>0, <1>1, <2>1 DEF SetTerminate, Control
  <2>2. CASE ~SetTerminate(s)
    <3>1. terminate' = terminate
      BY <2>2 DEF SetStep, NoMore, CannotForm, FormRequest, CheckTerminate, Answered,
         Refused, NoResponse, NoResponsePanics, RecordError, WgDone
    <3>2. QED
      BY <1>0, <1>1, <3>1 DEF ControlInv
  <2>3. QED
    BY <2>1, <2>2
<1>7. \A t \in Slots : Control(t)'
  BY <1>3, <1>5
<1>8. QED
  BY <1>1, <1>6, <1>7 DEF ControlInv, Control

\* A goroutine moves on only when its request has been answered, and ends
\* without an error only when its set is complete.
LEMMA SetStepProgress ==
  ASSUME RunnerInv, NEW s \in Slots, SetStep(s), main = "wait"
  PROVE  ProgressInv'
<1>0. TypeOK /\ ControlInv /\ ProgressInv
  BY DEF RunnerInv
<1>1. /\ Sets' = Sets /\ phase' = phase /\ bestEffort' = bestEffort
      /\ resErr => resErr'
      /\ \A t \in Slots \ {s} : pc'[t] = pc[t] /\ pos'[t] = pos[t]
  BY <1>0, SetStepFrame
<1> SUFFICES ASSUME ~bestEffort
             PROVE  /\ \A p \in 1 .. phase - 1 : \A t \in DOMAIN Phases[p].sets : SetComplete(p, t)'
                    /\ \A t \in DOMAIN Sets : SetProgress(t)'
  BY <1>1 DEF ProgressInv
<1>2. executed \subseteq executed'
  BY <1>0, SetStepFrame
<1>3. ASSUME NEW p \in 1 .. phase - 1, NEW t \in DOMAIN Phases[p].sets
      PROVE  SetComplete(p, t)'
  BY <1>0, <1>2 DEF ProgressInv, SetComplete
<1>4. DOMAIN Sets \subseteq Slots
  BY <1>0, SetsAreSlots DEF TypeOK, Sets
<1>5. \A t \in DOMAIN Sets : SetProgress(t)
  BY <1>0 DEF ProgressInv
<1>6. ASSUME NEW t \in DOMAIN Sets, t # s PROVE SetProgress(t)'
  <2>1. pc'[t] = pc[t] /\ pos'[t] = pos[t]
    BY <1>1, <1>4, <1>6
  <2>2. QED
    BY <1>1, <1>2, <1>5, <2>1, OthersProgress
<1>7. s \in DOMAIN Sets /\ SetProgress(s) /\ Len(Sets[s]) \in Nat /\ pos[s] \in Nat
  <2>1. pc[s] # "off"
    BY DEF SetStep, NoMore, CannotForm, FormRequest, CheckTerminate, Answered, Refused,
       NoResponse, NoResponsePanics, RecordError, SetTerminate, WgDone
  <2>2. s \in DOMAIN Sets
    BY <1>0, <2>1 DEF ControlInv
  <2>3. QED
    BY <1>0, <1>5, <2>2, SetsAreSlots DEF TypeOK, Sets
<1>8. SetProgress(s)'
  <2>1. CASE NoMore(s)
    <3>1. pos[s] = Len(Sets[s]) /\ DoneBefore(s, pos[s]) /\ executed' = executed
      BY <1>0, <1>7, <2>1 DEF NoMore, ControlInv, SetProgress, histVars
    <3>2. SetComplete(phase, s)'
      BY <1>1, <3>1 DEF SetComplete, DoneBefore, Sets
    <3>3. pc'[s] = "done"
      BY <1>0, <2>1 DEF NoMore, Goto, TypeOK
    <3>4. QED
      BY <1>1, <3>2, <3>3 DEF SetProgress
  <2>2. CASE CannotForm(s)
    <3>1. /\ DoneBefore(s, pos[s]) /\ executed' = executed
          /\ <<phase, s, pos[s] + 1>> \in Unformable
      BY <1>0, <1>7, <2>2 DEF CannotForm, ControlInv, SetProgress, histVars
    <3>2. ASSUME NEW k \in 1 .. Len(Sets[s])
          PROVE  <<phase, s, k>> \in executed \/ \E j \in 1 .. k : <<phase, s, j>> \in Unformable
      <4>1. CASE k <= pos[s]
        BY <3>1, <4>1, <1>7 DEF DoneBefore
      <4>2. CASE k > pos[s]
        <5>1. pos[s] + 1 \in 1 .. k
          BY <1>7, <4>2
        <5>2. QED
          BY <3>1, <5>1
      <4>3. QED
        BY <1>7, <4>1, <4>2
    <3>3. SetComplete(phase, s)'
      BY <1>1, <3>1, <3>2 DEF SetComplete, Sets
    <3>4. pc'[s] = "done"
      BY <1>0, <2>2 DEF CannotForm, Goto, TypeOK
    <3>5. QED
      BY <1>1, <3>3, <3>4 DEF SetProgress
  <2>3. CASE FormRequest(s)
    <3>1. pc'[s] = "check" /\ pos'[s] = pos[s] + 1 /\ executed' = executed
      BY <1>0, <2>3 DEF FormRequest, Goto, TypeOK, histVars
    <3>2. DoneBefore(s, pos[s])
      BY <1>7, <2>3 DEF FormRequest, SetProgress
    <3>3. pos'[s] - 1 = pos[s]
      BY <1>7, <3>1
    <3>4. QED
      BY <1>1, <3>1, <3>2, <3>3 DEF SetProgress, DoneBefore
  <2>4. CASE CheckTerminate(s)
    <3>1. pc'[s] \in {"error", "inflight"} /\ pos'[s] = pos[s] /\ executed' = executed
      BY <1>0, <2>4 DEF CheckTerminate, Goto, TypeOK, histVars
    <3>2. DoneBefore(s, pos[s] - 1)
      BY <1>7, <2>4 DEF CheckTerminate, SetProgress
    <3>3. QED
      BY <1>1, <3>1, <3>2 DEF SetProgress, DoneBefore
  <2>5. CASE Answered(s)
    <3>1. /\ pc'[s] = "next" /\ pos'[s] = pos[s]
          /\ executed' = executed \cup {<<phase, s, pos[s]>>}
      BY <1>0, <2>5 DEF Answered, Goto, TypeOK
    <3>2. DoneBefore(s, pos[s] - 1)
      BY <1>7, <2>5 DEF Answered, SetProgress
    <3>3. ASSUME NEW k \in 1 .. pos[s] PROVE <<phase, s, k>> \in executed'
      <4>1. k \in 1 .. pos[s] - 1 \/ k = pos[s]
        BY <1>7
      <4>2. QED
        BY <3>1, <3>2, <4>1 DEF DoneBefore
    <3>4. QED
      BY <1>1, <3>1, <3>3 DEF SetProgress, DoneBefore
  <2>6. CASE Refused(s) \/ NoResponse(s) \/ RecordError(s)
    <3>1. pc'[s] \in {"error", "terminate"}
      BY <1>0, <2>6 DEF Refused, NoResponse, RecordError, Goto, TypeOK
    <3>2. QED
      BY <3>1 DEF SetProgress
  <2>7. CASE NoResponsePanics(s)
    BY <2>7 DEF NoResponsePanics
  <2>8. CASE SetTerminate(s)
    <3>1. pc'[s] = "done" /\ resErr'
      BY <1>0, <2>8 DEF SetTerminate, Goto, TypeOK, ControlInv
    <3>2. QED
      BY <3>1 DEF SetProgress
  <2>9. CASE WgDone(s)
    <3>1. pc'[s] = "off" /\ resErr' = resErr /\ executed' = executed
      BY <1>0, <2>9 DEF WgDone, Goto, TypeOK, histVars
    <3>2. resErr \/ SetComplete(phase, s)
      BY <1>7, <2>9 DEF WgDone, SetProgress
    <3>3. QED
      BY <1>1, <3>1, <3>2 DEF SetProgress, SetComplete
  <2>10. QED
    BY <2>1, <2>2, <2>3, <2>4, <2>5, <2>6, <2>7, <2>8, <2>9 DEF SetStep
<1>9. QED
  BY <1>3, <1>6, <1>8

\* A step that changes nothing.
LEMMA StutterStep == ASSUME RunnerInv, UNCHANGED vars PROVE RunnerInv'
<1> USE DEF vars, goVars, histVars
<1>1. TypeOK' /\ QuietBetweenPhases'
  BY DEF RunnerInv, TypeOK, QuietBetweenPhases, Active
<1>2. Sets' = Sets
  BY DEF Sets
<1>3. ControlInv'
  BY <1>2 DEF RunnerInv, ControlInv
<1>4. ProgressInv'
  <2>1. \A p, s : SetComplete(p, s)' <=> SetComplete(p, s)
    BY DEF SetComplete
  <2>2. \A s : SetProgress(s)' <=> SetProgress(s)
    BY <2>1 DEF SetProgress, DoneBefore
  <2>3. QED
    BY <1>2, <2>1, <2>2 DEF RunnerInv, ProgressInv
<1>5. QED
  BY <1>1, <1>3, <1>4 DEF RunnerInv

-----------------------------------------------------------------------------
\* RunnerInv is an invariant of the runner, for any phases.
THEOREM RunnerInvariant == Spec => []RunnerInv
<1>1. Init => RunnerInv
  BY InitInv
<1>2. RunnerInv /\ [Next]_vars => RunnerInv'
  <2> SUFFICES ASSUME RunnerInv, [Next]_vars PROVE RunnerInv'
    OBVIOUS
  <2>1. CASE SpawnPhase
    BY <2>1, SpawnPhaseStep
  <2>2. CASE WaitReturns
    BY <2>2, WaitReturnsStep
  <2>3. ASSUME main = "wait", NEW s \in Slots, SetStep(s) PROVE RunnerInv'
    BY <2>3, SetStepTypes, SetStepQuiet, SetStepControl, SetStepProgress DEF RunnerInv
  <2>4. CASE Finished \/ UNCHANGED vars
    BY <2>4, StutterStep DEF Finished
  <2>5. QED
    BY <2>1, <2>2, <2>3, <2>4 DEF Next
<1>3. QED
  BY <1>1, <1>2, PTL DEF Spec

\* Users are made before rooms and rooms before Run returns: between phases
\* no goroutine of the runner is left (the wg.Wait calls of Run).
THEOREM PhasesDoNotOverlap == Spec => []QuietBetweenPhases
<1>1. RunnerInv => QuietBetweenPhases
  BY DEF RunnerInv
<1>2. QED
  BY <1>1, RunnerInvariant, PTL

\* After terminate is set, a set completes at most the request it is in.
THEOREM SetsStopSoon == Spec => []OneLateRequest
<1>1. RunnerInv => OneLateRequest
  BY DEF RunnerInv, ControlInv, OneLateRequest
<1>2. QED
  BY <1>1, RunnerInvariant, PTL

\* Run returns nil only when the work is done, up to requests that cannot be
\* formed.
THEOREM SuccessIsReal == Spec => []NoErrorMeansAllDone
<1>1. RunnerInv => NoErrorMeansAllDone
  <2> SUFFICES ASSUME RunnerInv, main = "returned", ~resErr, ~bestEffort,
                      NEW p \in DOMAIN Phases, NEW s \in DOMAIN Phases[p].sets
               PROVE  SetComplete(p, s)
    BY DEF NoErrorMeansAllDone
  <2>1. phase = Len(Phases) /\ p \in 1 .. Len(Phases) /\ Len(Phases) \in Nat
    BY RunnerAssumption DEF RunnerInv, ControlInv
  <2>2. CASE p = phase
    <3>1. s \in DOMAIN Sets /\ s \in Slots
      BY <2>1, <2>2, SetsAreSlots DEF Sets
    <3>2. SetProgress(s)
      BY <3>1 DEF RunnerInv, ProgressInv
    <3>3. pc[s] = "off"
      BY <3>1 DEF RunnerInv, QuietBetweenPhases, Active
    <3>4. QED
      BY <2>2, <3>2, <3>3 DEF SetProgress
  <2>3. CASE p # phase
    <3>1. p \in 1 .. phase - 1
      BY <2>1, <2>3
    <3>2. QED
      BY <3>1 DEF RunnerInv, ProgressInv
  <2>4. QED
    BY <2>2, <2>3
<1>2. QED
  BY <1>1, RunnerInvariant, PTL

-----------------------------------------------------------------------------
(* The lookup table *)

\* The keys that are in the table.
Known == {key \in Keys : lookup[key] # Absent}

\* What was answered has been stored, what the runner stores itself is there
\* from the phase on, and a request that was formed had what it needs.
AnsweredKnown ==
  \A p \in 1 .. Len(Phases) : \A s \in DOMAIN Phases[p].sets : \A k \in 1 .. Len(Phases[p].sets[s]) :
    <<p, s, k>> \in executed => Phases[p].sets[s][k].stores \subseteq Known

StoredKnown ==
  \A q \in 1 .. phase : (q < phase \/ main # "spawn") => \A x \in Phases[q].stored : x[1] \in Known

FormedKnown(s) ==
  pc[s] \in {"check", "inflight"} =>
    /\ \A key \in Current(s).reads : req[s][key] # Absent
    /\ Current(s).requires \subseteq Known

\* The inductive invariant of RequestsInOrder.
LookupInv == ~bestEffort => AnsweredKnown /\ StoredKnown /\ \A s \in Slots : FormedKnown(s)

\* The keys of a request and of what the runner stores.
LEMMA KeyTypes ==
  ASSUME NEW p \in 1 .. Len(Phases)
  PROVE  /\ \A x \in Phases[p].stored : x[1] \in Keys /\ x[2] \in Values
         /\ \A s \in DOMAIN Phases[p].sets : \A k \in 1 .. Len(Phases[p].sets[s]) :
              /\ Phases[p].sets[s][k].reads \subseteq Keys
              /\ Phases[p].sets[s][k].requires \subseteq Keys
              /\ Phases[p].sets[s][k].stores \subseteq Keys
              /\ Phases[p].sets[s][k].value \in Values
<1>1. p \in DOMAIN Phases
  BY SetsAreSlots
<1>2. QED
  BY <1>1, RunnerAssumption

\* What has been answered stays stored while no key leaves the table.
LEMMA AnsweredStays ==
  ASSUME AnsweredKnown, executed' = executed, Known \subseteq Known' PROVE AnsweredKnown'
  BY DEF AnsweredKnown

\* The runner stores the servers of the rooms of a phase, and no key leaves the
\* table.
LEMMA SpawnKnown ==
  ASSUME RunnerInv, LookupInv, SpawnPhase PROVE LookupInv'
<1>1. SUFFICES ASSUME ~bestEffort
               PROVE  AnsweredKnown' /\ StoredKnown' /\ \A s \in Slots : FormedKnown(s)'
  BY DEF LookupInv, SpawnPhase
<1>2. /\ lookup' = Stored(lookup, Phases[phase].stored) /\ phase' = phase /\ executed' = executed
      /\ phase \in 1 .. Len(Phases) /\ main = "spawn"
      /\ AnsweredKnown /\ StoredKnown
  BY <1>1 DEF SpawnPhase, histVars, RunnerInv, TypeOK, LookupInv
<1>3. \A x \in Phases[phase].stored : x[1] \in Keys /\ x[2] # Absent
  BY <1>2, KeyTypes, RunnerAssumption
<1>4. ASSUME NEW key \in Keys, \E x \in Phases[phase].stored : x[1] = key PROVE lookup'[key] # Absent
  <2>1. (CHOOSE x \in Phases[phase].stored : x[1] = key) \in Phases[phase].stored
    BY <1>4
  <2>2. lookup'[key] = (CHOOSE x \in Phases[phase].stored : x[1] = key)[2]
    BY <1>2, <1>4 DEF Stored
  <2>3. QED
    BY <2>1, <2>2, <1>3
<1>5. \A key \in Keys : lookup'[key] = lookup[key] \/ lookup'[key] # Absent
  BY <1>2, <1>4 DEF Stored
<1>6. Known \subseteq Known'
  BY <1>5 DEF Known
<1>7. \A x \in Phases[phase].stored : x[1] \in Known'
  BY <1>3, <1>4 DEF Known
<1>8. AnsweredKnown'
  BY <1>2, <1>6, AnsweredStays
<1>9. StoredKnown'
  <2>1. ASSUME NEW q \in 1 .. phase, NEW x \in Phases[q].stored PROVE x[1] \in Known'
    <3>1. q = phase \/ q < phase
      BY <1>2, RunnerAssumption
    <3>2. QED
      BY <3>1, <1>2, <1>6, <1>7 DEF StoredKnown
  <2>2. QED
    BY <2>1, <1>2 DEF StoredKnown
<1>10. \A s \in Slots : FormedKnown(s)'
  BY DEF FormedKnown, SpawnPhase
<1>11. QED
  BY <1>8, <1>9, <1>10

\* Between phases no request is under way.
LEMMA WaitKnown ==
  ASSUME RunnerInv, LookupInv, WaitReturns PROVE LookupInv'
<1>1. SUFFICES ASSUME ~bestEffort
               PROVE  AnsweredKnown' /\ StoredKnown' /\ \A s \in Slots : FormedKnown(s)'
  BY DEF LookupInv, WaitReturns
<1>2. /\ lookup' = lookup /\ executed' = executed /\ pc' = pc /\ wg = 0 /\ main = "wait"
      /\ phase \in 1 .. Len(Phases) /\ AnsweredKnown /\ StoredKnown
      /\ (phase' = phase + 1) \/ phase' = phase
  BY <1>1 DEF WaitReturns, goVars, histVars, RunnerInv, TypeOK, LookupInv
<1>3. Known' = Known
  BY <1>2 DEF Known
<1>4. AnsweredKnown'
  BY <1>2, <1>3, AnsweredStays
<1>5. StoredKnown'
  <2>1. \A q \in 1 .. phase : \A x \in Phases[q].stored : x[1] \in Known
    BY <1>2 DEF StoredKnown
  <2>2. \A q \in 1 .. phase' : (q < phase' \/ main' # "spawn") => q \in 1 .. phase
    BY <1>2, RunnerAssumption DEF WaitReturns
  <2>3. QED
    BY <2>1, <2>2, <1>3 DEF StoredKnown
<1>6. Active = {}
  BY <1>2, SlotsCardinality DEF RunnerInv, QuietBetweenPhases, Active
<1>7. \A s \in Slots : FormedKnown(s)'
  BY <1>2, <1>6 DEF FormedKnown, Active
<1>8. QED
  BY <1>4, <1>5, <1>7

\* A request is formed when everything that precedes it has been answered, so
\* what the sets provide for it is known.
LEMMA ProvidedIsKnown ==
  ASSUME RunnerInv, LookupInv, ~bestEffort, main = "wait", NEW s \in DOMAIN Sets, pc[s] = "next",
         NEW key \in Keys, Provided(phase, s, pos[s] + 1, key), pos[s] < Len(Sets[s])
  PROVE  key \in Known
<1>1. /\ phase \in 1 .. Len(Phases) /\ phase \in Nat /\ AnsweredKnown /\ StoredKnown
      /\ s \in DOMAIN Phases[phase].sets /\ Len(Sets[s]) \in Nat /\ s \in Slots
  BY RunnerAssumption, SetsAreSlots DEF RunnerInv, TypeOK, LookupInv, Sets
<1>2. pos[s] \in Nat
  BY <1>1 DEF RunnerInv, TypeOK
<1>3. CASE \E q \in 1 .. phase : \E x \in Phases[q].stored : x[1] = key
  BY <1>1, <1>3 DEF StoredKnown
<1>4. CASE \E j \in 1 .. pos[s] : key \in Phases[phase].sets[s][j].stores
  <2>1. PICK j \in 1 .. pos[s] : key \in Phases[phase].sets[s][j].stores
    BY <1>4
  <2>2. <<phase, s, j>> \in executed
    BY <1>1 DEF RunnerInv, ProgressInv, SetProgress, DoneBefore
  <2>3. j \in 1 .. Len(Phases[phase].sets[s])
    BY <1>1, <1>2 DEF Sets
  <2>4. QED
    BY <2>1, <2>2, <2>3, <1>1 DEF AnsweredKnown
<1>5. CASE \E q \in 1 .. phase - 1 : \E u \in DOMAIN Phases[q].sets : \E j \in 1 .. Len(Phases[q].sets[u]) :
             /\ key \in Phases[q].sets[u][j].stores
             /\ \A m \in 1 .. j : <<q, u, m>> \notin Unformable
  <2>1. PICK q \in 1 .. phase - 1 : \E u \in DOMAIN Phases[q].sets : \E j \in 1 .. Len(Phases[q].sets[u]) :
             /\ key \in Phases[q].sets[u][j].stores
             /\ \A m \in 1 .. j : <<q, u, m>> \notin Unformable
    BY <1>5
  <2>2. PICK u \in DOMAIN Phases[q].sets : \E j \in 1 .. Len(Phases[q].sets[u]) :
             /\ key \in Phases[q].sets[u][j].stores
             /\ \A m \in 1 .. j : <<q, u, m>> \notin Unformable
    BY <2>1
  <2>3. PICK j \in 1 .. Len(Phases[q].sets[u]) :
             /\ key \in Phases[q].sets[u][j].stores
             /\ \A m \in 1 .. j : <<q, u, m>> \notin Unformable
    BY <2>2
  <2>4. SetComplete(q, u)
    BY DEF RunnerInv, ProgressInv
  <2>5. <<q, u, j>> \in executed
    BY <2>3, <2>4 DEF SetComplete
  <2>6. q \in 1 .. Len(Phases)
    BY <1>1, RunnerAssumption
  <2>7. QED
    BY <2>3, <2>5, <2>6, <1>1 DEF AnsweredKnown
<1>6. (pos[s] + 1) - 1 = pos[s]
  BY <1>2
<1>7. QED
  BY <1>3, <1>4, <1>5, <1>6 DEF Provided

\* The steps of a goroutine: a request that is formed finds its keys, one that
\* is answered stores its own.
LEMMA SetStepKnown ==
  ASSUME SetsInOrder, RunnerInv, LookupInv, main = "wait", NEW s \in Slots, SetStep(s)
  PROVE  LookupInv'
<1>1. /\ phase' = phase /\ Sets' = Sets /\ bestEffort' = bestEffort /\ main' # "spawn"
      /\ \A t \in Slots \ {s} : pc'[t] = pc[t] /\ pos'[t] = pos[t]
      /\ phase \in 1 .. Len(Phases) /\ pc \in [Slots -> PCs] /\ pos \in [Slots -> Nat]
      /\ req \in [Slots -> [Keys -> Entries]] /\ lookup \in [Keys -> Entries]
  BY SetStepFrame DEF RunnerInv, TypeOK
<1>2. SUFFICES ASSUME ~bestEffort
               PROVE  AnsweredKnown' /\ StoredKnown' /\ \A t \in Slots : FormedKnown(t)'
  BY <1>1 DEF LookupInv
<1>3. AnsweredKnown /\ StoredKnown /\ \A t \in Slots : FormedKnown(t)
  BY <1>2 DEF LookupInv
<1>4. pc[s] # "off"
  BY DEF SetStep, NoMore, CannotForm, FormRequest, CheckTerminate, Answered, Refused, NoResponse,
         NoResponsePanics, RecordError, SetTerminate, WgDone
<1>5. s \in DOMAIN Sets /\ (pc[s] = "inflight" => pos[s] \in 1 .. Len(Sets[s]))
  BY <1>4 DEF RunnerInv, ControlInv
<1>6. Known \subseteq Known' /\ AnsweredKnown'
  <2>1. CASE Answered(s)
    <3>1. Current(s).stores \subseteq Keys /\ Current(s).value # Absent /\ Empty # Absent
      BY <2>1, <1>1, <1>5, KeyTypes, RunnerAssumption DEF Answered, Current, Sets
    <3>2. PICK v \in {Current(s).value, Empty} :
            lookup' = [key \in Keys |-> IF key \in Current(s).stores THEN v ELSE lookup[key]]
      BY <2>1 DEF Answered, StoreResponse
    <3>3. Known \subseteq Known' /\ Current(s).stores \subseteq Known'
      BY <3>1, <3>2 DEF Known
    <3>4. executed' = executed \cup {<<phase, s, pos[s]>>}
      BY <2>1, <1>2 DEF Answered
    <3>5. Current(s) = Phases[phase].sets[s][pos[s]]
      BY DEF Current, Sets
    <3>6. ASSUME NEW p \in 1 .. Len(Phases), NEW u \in DOMAIN Phases[p].sets,
                 NEW k \in 1 .. Len(Phases[p].sets[u]), <<p, u, k>> \in executed'
          PROVE  Phases[p].sets[u][k].stores \subseteq Known'
      <4>1. CASE <<p, u, k>> \in executed
        BY <4>1, <3>3, <1>3 DEF AnsweredKnown
      <4>2. CASE <<p, u, k>> = <<phase, s, pos[s]>>
        BY <4>2, <3>3, <3>5
      <4>3. QED
        BY <3>4, <3>6, <4>1, <4>2
    <3>7. QED
      BY <3>3, <3>6 DEF AnsweredKnown
  <2>2. CASE ~Answered(s)
    <3>1. lookup' = lookup /\ executed' = executed
      BY <2>2, <1>2 DEF SetStep, NoMore, CannotForm, FormRequest, CheckTerminate, Refused, NoResponse,
         NoResponsePanics, RecordError, SetTerminate, WgDone, histVars
    <3>2. Known' = Known
      BY <3>1 DEF Known
    <3>3. QED
      BY <3>1, <3>2, <1>3, AnsweredStays
  <2>3. QED
    BY <2>1, <2>2
<1>7. StoredKnown'
  BY <1>1, <1>3, <1>6 DEF StoredKnown
<1>8. ASSUME NEW t \in Slots \ {s} PROVE FormedKnown(t)'
  <2>1. req'[t] = req[t]
    BY <1>1, <1>8 DEF SetStep, NoMore, CannotForm, FormRequest, CheckTerminate, Answered, Refused, NoResponse,
       NoResponsePanics, RecordError, SetTerminate, WgDone, goVars
  <2>2. Current(t)' = Current(t)
    BY <1>1, <1>8 DEF Current
  <2>3. QED
    BY <2>1, <2>2, <1>1, <1>3, <1>6 DEF FormedKnown
<1>9. FormedKnown(s)'
  <2>1. CASE FormRequest(s)
    <3> DEFINE r == Sets[s][pos[s] + 1]
    <3>1. /\ pos'[s] = pos[s] + 1 /\ pos[s] < Len(Sets[s]) /\ pc[s] = "next" /\ lookup' = lookup
          /\ req'[s] = [key \in Keys |-> IF key \in r.reads THEN lookup[key] ELSE Absent]
      BY <2>1, <1>1 DEF FormRequest
    <3>2. Current(s)' = r
      BY <3>1, <1>1 DEF Current
    <3>3. /\ phase \in DOMAIN Phases /\ s \in DOMAIN Phases[phase].sets
          /\ pos[s] + 1 \in 1 .. Len(Phases[phase].sets[s])
          /\ r = Phases[phase].sets[s][pos[s] + 1]
      BY <3>1, <1>1, <1>5, SetsAreSlots DEF Sets
    <3>4. r.reads \subseteq Keys /\ r.requires \subseteq Keys
      BY <3>3, <1>1, KeyTypes
    <3> HIDE DEF r
    <3>5. ASSUME NEW key \in r.reads \cup r.requires PROVE key \in Known
      <4>1. Provided(phase, s, pos[s] + 1, key)
        BY <3>3 DEF SetsInOrder
      <4>2. key \in Keys
        BY <3>4
      <4>3. QED
        BY <4>1, <4>2, <3>1, <1>2, <1>5, ProvidedIsKnown
    <3>6. \A key \in r.reads : req'[s][key] # Absent
      BY <3>1, <3>4, <3>5 DEF Known
    <3>7. r.requires \subseteq Known'
      BY <3>5, <1>6
    <3>8. QED
      BY <3>2, <3>6, <3>7 DEF FormedKnown
  <2>2. CASE CheckTerminate(s)
    <3>1. req' = req /\ pos' = pos /\ pc[s] = "check"
      BY <2>2 DEF CheckTerminate
    <3>2. Current(s)' = Current(s)
      BY <3>1, <1>1 DEF Current
    <3>3. QED
      BY <3>1, <3>2, <1>3, <1>6 DEF FormedKnown
  <2>3. CASE NoResponsePanics(s)
    <3>1. QED
      BY <2>3, <1>2 DEF NoResponsePanics
  <2>4. CASE NoMore(s) \/ CannotForm(s) \/ Answered(s) \/ Refused(s) \/ NoResponse(s)
             \/ RecordError(s) \/ SetTerminate(s) \/ WgDone(s)
    <3>1. pc'[s] \notin {"check", "inflight"}
      BY <2>4, <1>1 DEF NoMore, CannotForm, Answered, Refused, NoResponse, RecordError, SetTerminate, WgDone, Goto
    <3>2. QED
      BY <3>1 DEF FormedKnown
  <2>5. QED
    BY <2>1, <2>2, <2>3, <2>4 DEF SetStep
<1>10. QED
  BY <1>6, <1>7, <1>8, <1>9

\* Whatever the interleaving of the sets, requests go out after the answers they
\* need if every key is provided by the runner, by an earlier request of the set or
\* by an earlier phase: what the concurrent execution of sets adds to the order
\* of the instructions is harmless (runner.go:409, 435).
THEOREM RequestsFollowSets ==
  ASSUME SetsInOrder PROVE Spec => []RequestsInOrder
<1>1. ASSUME Init PROVE LookupInv
  BY <1>1 DEF Init, LookupInv, AnsweredKnown, StoredKnown, FormedKnown
<1>2. ASSUME RunnerInv, LookupInv, [Next]_vars PROVE LookupInv'
  <2>1. CASE SpawnPhase
    BY <2>1, <1>2, SpawnKnown
  <2>2. CASE WaitReturns
    BY <2>2, <1>2, WaitKnown
  <2>3. ASSUME main = "wait", NEW s \in Slots, SetStep(s) PROVE LookupInv'
    BY <2>3, <1>2, SetStepKnown
  <2>4. CASE UNCHANGED vars
    BY <2>4, <1>2 DEF vars, goVars, histVars, LookupInv, AnsweredKnown, StoredKnown, FormedKnown, Known,
       Current, Sets
  <2>5. QED
    BY <1>2, <2>1, <2>2, <2>3, <2>4 DEF Next, Finished
<1>3. ASSUME RunnerInv, LookupInv PROVE RequestsInOrder
  BY <1>3 DEF RequestsInOrder, LookupInv, FormedKnown, Known, Resolved
<1>4. QED
  BY RunnerInvariant, <1>1, <1>2, <1>3, PTL DEF Spec
=============================================================================
