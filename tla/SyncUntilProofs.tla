--------------------------- MODULE SyncUntilProofs ---------------------------
(***************************************************************************)
(* SyncInv and TokenMeansDelivered are invariants of SyncUntil for every   *)
(* test, every stream of updates and every timeout.  What a check finds in *)
(* a response (Passes, Condition) plays no role there: those two proofs    *)
(* hold for any check functions.                                           *)
(*                                                                         *)
(* JudgedRight is about the check functions themselves: each of them gives *)
(* the right answer for each part of each stream.  The proof shows what a  *)
(* response tells under each path, and then takes the functions in turn.   *)
(***************************************************************************)
EXTENDS SyncUntil, SequenceTheorems, FiniteSetTheorems, WellFoundedInduction, TLAPS

\* The windows of the call at hand, and those of its chain of calls.
Own == {w \in seen : w.call = Begun}
Told == {w \in seen : w.call \in Chain}

\* Where the test is in its call.
AtCall ==
  /\ pc # "ready" => call <= Len(Calls)
  /\ pc \in {"head", "syncing", "checking"} => IsSync(call)
  /\ pc = "sending" => Calls[call].kind = "send"
  /\ pc = "request" => Calls[call].kind = "retry" /\ checkers = Calls[call].checks
  /\ pc = "checking" => resp \in Own
  /\ pc # "checking" => i = 1

\* A window belongs to a call that has begun.
WindowsBegun == \A w \in seen : w.call <= Begun /\ w.from <= w.to

\* The state of the call and of its responses.
CallInv ==
  /\ scenario \in Scenarios
  /\ TypeOK /\ checkers \in Seq(AllChecks) /\ AtCall /\ WindowsBegun

\* The windows of a chain are disjoint and make up the stream to the token.
\* An empty window lies behind the token, too.
TokenInv ==
  /\ UNION {w.from + 1 .. w.to : w \in Told} = 1 .. since
  /\ \A w \in Told : w.to <= since
  /\ \A v, w \in Told : v = w \/ v.to <= w.from \/ w.to <= v.from

\* Satisfied, of a scenario sc.
Meets(sc, c, w) ==
  IF sc.calls[w.call].kind \in {"sync", "send"}
    THEN Passes(c, sc.stream, Response(sc.stream, w.from, w.to, sc.calls[w.call].after))
    ELSE Membership(sc.stream, w.to, c.user) = c.membership

\* No window of ws satisfies check c.
Unmet(sc, c, ws) == \A w \in ws : ~Meets(sc, c, w)

\* The checks that call k has left are those that no window of ws has satisfied.
LeftBy(sc, left, k, ws) ==
  ToSet(left) = {c \in ToSet(sc.calls[k].checks) : Unmet(sc, c, ws)}

\* While the response w is looked at, the checks before position n have seen
\* all responses, and those from n on all but this one.
LookedAt(sc, left, k, ws, w, n) ==
  /\ \A c \in ToSet(sc.calls[k].checks) : Unmet(sc, c, ws) => c \in ToSet(left)
  /\ ToSet(left) \subseteq ToSet(sc.calls[k].checks)
  /\ \A j \in 1 .. Len(left) :
       /\ Unmet(sc, left[j], ws \ {w})
       /\ j < n => ~Meets(sc, left[j], w)

\* Where no response is looked at.
WaitPCs == {"ready", "head", "syncing", "request", "timedOut"}

\* Which checks are left.
SettledInv ==
  /\ pc = "sending" => Own = {} /\ checkers = scenario.calls[Begun].checks
  /\ (Begun # 0 /\ pc \in WaitPCs) => LeftBy(scenario, checkers, Begun, Own)
  /\ pc = "checking" => LookedAt(scenario, checkers, Begun, Own, resp, i)

-----------------------------------------------------------------------------
(* The test and its windows *)

\* What a scenario is made of: the shape of the calls of a test.
LEMMA ScenarioFacts ==
  ASSUME scenario \in Scenarios
  PROVE  /\ Len(stream) \in Nat
         /\ Len(Calls) \in Nat \ {0}
         /\ \A k \in 1 .. Len(Calls) :
              /\ Calls[k].kind \in {"sync", "send", "retry"}
              /\ Calls[k].checks \in Seq(AllChecks)
              /\ Calls[k].kind = "retry" => Len(Calls[k].checks) = 1
              /\ Calls[k].kind = "send" => Calls[k].reuse = FALSE
<1>1. /\ stream \in Seq(Updates)
      /\ Calls \in Seq(TestCalls)
      /\ Calls # <<>>
  BY UntilAssumption DEF stream, Calls
<1>2. Len(stream) \in Nat /\ Len(Calls) \in Nat \ {0}
  BY <1>1
<1>3. ASSUME NEW k \in 1 .. Len(Calls)
      PROVE  /\ Calls[k].kind \in {"sync", "send", "retry"}
             /\ Calls[k].checks \in Seq(AllChecks)
             /\ Calls[k].kind = "retry" => Len(Calls[k].checks) = 1
             /\ Calls[k].kind = "send" => Calls[k].reuse = FALSE
  <2>1. Calls[k] \in TestCalls
    BY <1>1, <1>2
  <2>2. CASE Calls[k] \in [kind : {"sync"}, reuse : BOOLEAN, after : BOOLEAN, checks : Seq(AllChecks)]
    BY <2>2
  <2>3. CASE Calls[k] \in [kind : {"send"}, event : Nat \ {0}, reuse : {FALSE}, after : {FALSE},
                           checks : Seq(AllChecks)]
    BY <2>3
  <2>4. CASE Calls[k] \in [kind : {"retry"}, checks : {<<c>> : c \in AllChecks}]
    <3>1. PICK c \in AllChecks : Calls[k].kind = "retry" /\ Calls[k].checks = <<c>>
      BY <2>4
    <3>2. <<c>> \in Seq(AllChecks) /\ Len(<<c>>) = 1
      OBVIOUS
    <3>3. QED
      BY <3>1, <3>2
  <2>5. QED
    BY <2>1, <2>2, <2>3, <2>4 DEF TestCalls
<1>4. QED
  BY <1>2, <1>3

\* The sequence that is left when a check is removed.
LEMMA Removed ==
  ASSUME NEW s \in Seq(AllChecks), NEW k \in 1 .. Len(s)
  PROVE  /\ RemoveAt(s, k) \in Seq(AllChecks)
         /\ Len(RemoveAt(s, k)) = Len(s) - 1
         /\ \A j \in 1 .. k - 1 : RemoveAt(s, k)[j] = s[j]
         /\ \A j \in k .. Len(s) - 1 : RemoveAt(s, k)[j] = s[j + 1]
<1> DEFINE front == SubSeq(s, 1, k - 1)
           back == SubSeq(s, k + 1, Len(s))
<1>1. /\ Len(s) \in Nat
      /\ \A j \in 1 .. Len(s) : s[j] \in AllChecks
  OBVIOUS
<1>2. front \in Seq(AllChecks) /\ Len(front) = k - 1 /\ \A j \in 1 .. k - 1 : front[j] = s[j]
  BY <1>1
<1>3. back \in Seq(AllChecks) /\ Len(back) = Len(s) - k /\ \A j \in 1 .. Len(s) - k : back[j] = s[j + k]
  BY <1>1
<1>4. RemoveAt(s, k) = front \o back
  BY DEF RemoveAt
<1> HIDE DEF front, back
<1>5. front \o back \in Seq(AllChecks) /\ Len(front \o back) = Len(front) + Len(back)
  BY <1>2, <1>3, ConcatProperties
<1>6. \A j \in 1 .. k - 1 : (front \o back)[j] = s[j]
  BY <1>1, <1>2, <1>3
<1>7. ASSUME NEW j \in k .. Len(s) - 1 PROVE (front \o back)[j] = s[j + 1]
  <2>1. j \in 1 .. Len(front) + Len(back) /\ j > Len(front) /\ j - Len(front) \in 1 .. Len(s) - k
    BY <1>1, <1>2, <1>3
  <2>2. (front \o back)[j] = back[j - Len(front)]
    BY <2>1, <1>2, <1>3, ConcatProperties
  <2>3. QED
    BY <2>1, <2>2, <1>1, <1>2, <1>3
<1>8. QED
  BY <1>1, <1>2, <1>3, <1>4, <1>5, <1>6, <1>7

\* A window lies in the part of the stream that the server has.
LEMMA WindowFacts ==
  ASSUME scenario \in Scenarios, len \in Nat
  PROVE  /\ \A w \in Windows : w.call \in 1 .. Len(Calls) /\ w.from \in 0 .. len /\ w.to \in 0 .. len
         /\ \A k \in 1 .. Len(Calls), a, b \in 0 .. len : [call |-> k, from |-> a, to |-> b] \in Windows
  BY DEF Windows

\* The calls and the updates stay the same.
LEMMA SameScenario ==
  ASSUME scenario' = scenario
  PROVE  stream' = stream /\ Calls' = Calls /\ \A k : IsSync(k)' <=> IsSync(k)
  BY DEF stream, Calls, IsSync

\* Windows stay windows when updates reach the server.
LEMMA MoreWindows ==
  ASSUME scenario' = scenario, len \in Nat, len' \in Nat, len <= len'
  PROVE  Windows \subseteq Windows'
<1>1. Calls' = Calls
  BY SameScenario
<1>2. 0 .. len \subseteq 0 .. len'
  OBVIOUS
<1>3. QED
  BY <1>1, <1>2 DEF Windows

\* The test begins in a state of the invariant.
LEMMA CallInit ==
  ASSUME Init PROVE CallInv
<1>1. scenario \in Scenarios /\ Len(stream) \in Nat /\ Len(Calls) \in Nat \ {0}
  BY ScenarioFacts DEF Init
<1>2. resp \in Windows
  BY <1>1, WindowFacts DEF Init
<1>3. TypeOK
  BY <1>1, <1>2, UntilAssumption DEF Init, TypeOK, PCs
<1>4. checkers \in Seq(AllChecks) /\ AtCall /\ WindowsBegun
  BY DEF Init, AtCall, WindowsBegun
<1>5. QED
  BY <1>1, <1>3, <1>4 DEF CallInv

\* Every step keeps the variables in their types and the test in its place.
LEMMA CallStep ==
  ASSUME CallInv, Next PROVE CallInv'
<1>1. /\ scenario \in Scenarios /\ scenario' = scenario
      /\ len \in 0 .. Len(stream) /\ call \in 1 .. Len(Calls) + 1 /\ pc \in PCs /\ since \in 0 .. len
      /\ i \in 1 .. Len(checkers) + 1 /\ elapsed \in 0 .. Timeout + 1 /\ resp \in Windows
      /\ seen \subseteq Windows
      /\ checkers \in Seq(AllChecks) /\ Len(checkers) \in Nat
  BY DEF CallInv, TypeOK, Next, Update, Tick, ClientStep, SyncBegin, LoopHead, Check, CheckEnd, SendBegin,
         RetryBegin, Answer, SendAnswer, MustSync, RetryAnswer, RequestFails, NetworkError, Non2xx, NotJSON,
         Fatal, Finished, vars
<1>2. /\ stream' = stream /\ Calls' = Calls
      /\ \A k : IsSync(k)' <=> IsSync(k)
  BY <1>1, SameScenario
<1>3. /\ Len(stream) \in Nat
      /\ Len(Calls) \in Nat \ {0}
      /\ \A k \in 1 .. Len(Calls) :
           /\ Calls[k].kind \in {"sync", "send", "retry"}
           /\ Calls[k].checks \in Seq(AllChecks) /\ Len(Calls[k].checks) \in Nat
  <2>1. /\ Len(stream) \in Nat
        /\ Len(Calls) \in Nat \ {0}
        /\ \A k \in 1 .. Len(Calls) :
             Calls[k].kind \in {"sync", "send", "retry"} /\ Calls[k].checks \in Seq(AllChecks)
    BY <1>1, ScenarioFacts
  <2>2. \A q \in Seq(AllChecks) : Len(q) \in Nat
    OBVIOUS
  <2>3. QED
    BY <2>1, <2>2
<1>4. AtCall /\ WindowsBegun /\ Timeout \in Nat /\ \A w \in seen : w.call \in Nat
  BY <1>1, <1>3, UntilAssumption, WindowFacts DEF CallInv
<1>5. CASE len' = len
  <2>1. Windows' = Windows
    BY <1>2, <1>5 DEF Windows
  <2>2. CASE SyncBegin
    <3>1. TypeOK'
      BY <2>2, <2>1, <1>1, <1>2, <1>3, <1>4, <1>5 DEF SyncBegin, Current, IsSync, TypeOK, AtCall, PCs
    <3>2. checkers' \in Seq(AllChecks)
      BY <2>2, <1>1, <1>3, <1>4 DEF SyncBegin, Current, IsSync, AtCall
    <3>3. AtCall'
      BY <2>2, <1>1, <1>2, <1>3, <1>4 DEF SyncBegin, Current, IsSync, AtCall, Own, Begun
    <3>4. WindowsBegun'
      BY <2>2, <1>1, <1>2, <1>3, <1>4 DEF SyncBegin, Current, IsSync, WindowsBegun, Begun
    <3>5. QED
      BY <1>1, <3>1, <3>2, <3>3, <3>4 DEF CallInv
  <2>3. CASE LoopHead
    <3>1. TypeOK'
      BY <2>3, <2>1, <1>1, <1>2, <1>3, <1>4, <1>5 DEF LoopHead, TypeOK, AtCall, PCs
    <3>2. checkers' \in Seq(AllChecks)
      BY <2>3, <1>1, <1>3, <1>4 DEF LoopHead, AtCall
    <3>3. AtCall'
      BY <2>3, <1>1, <1>2, <1>3, <1>4 DEF LoopHead, AtCall, Own, Begun
    <3>4. WindowsBegun'
      BY <2>3, <1>1, <1>2, <1>3, <1>4 DEF LoopHead, WindowsBegun, Begun
    <3>5. QED
      BY <1>1, <3>1, <3>2, <3>3, <3>4 DEF CallInv
  <2>4. CASE Check
    <3>1. checkers' \in Seq(AllChecks) /\ Len(checkers') \in Nat /\ i' \in 1 .. Len(checkers') + 1
      <4>1. i \in 1 .. Len(checkers)
        BY <2>4, <1>1 DEF Check
      <4>2. /\ RemoveAt(checkers, i) \in Seq(AllChecks)
            /\ Len(RemoveAt(checkers, i)) = Len(checkers) - 1
        BY <4>1, <1>1, Removed
      <4>3. QED
        BY <4>1, <4>2, <2>4, <1>1 DEF Check
    <3>2. TypeOK'
      BY <2>4, <3>1, <2>1, <1>1, <1>2, <1>3, <1>5 DEF Check, TypeOK
    <3>3. AtCall'
      BY <2>4, <1>1, <1>2, <1>3, <1>4 DEF Check, AtCall, Own, Begun
    <3>4. WindowsBegun'
      BY <2>4, <1>1, <1>2, <1>3, <1>4 DEF Check, WindowsBegun, Begun
    <3>5. QED
      BY <1>1, <3>1, <3>2, <3>3, <3>4 DEF CallInv
  <2>5. CASE CheckEnd
    <3>1. TypeOK'
      BY <2>5, <2>1, <1>1, <1>2, <1>3, <1>4, <1>5 DEF CheckEnd, TypeOK, AtCall, PCs
    <3>2. checkers' \in Seq(AllChecks)
      BY <2>5, <1>1, <1>3, <1>4 DEF CheckEnd, AtCall
    <3>3. AtCall'
      BY <2>5, <1>1, <1>2, <1>3, <1>4 DEF CheckEnd, AtCall, Own, Begun
    <3>4. WindowsBegun'
      BY <2>5, <1>1, <1>2, <1>3, <1>4 DEF CheckEnd, WindowsBegun, Begun
    <3>5. QED
      BY <1>1, <3>1, <3>2, <3>3, <3>4 DEF CallInv
  <2>6. CASE SendBegin
    <3>1. TypeOK'
      BY <2>6, <2>1, <1>1, <1>2, <1>3, <1>4, <1>5 DEF SendBegin, Current, TypeOK, AtCall, PCs
    <3>2. checkers' \in Seq(AllChecks)
      BY <2>6, <1>1, <1>3, <1>4 DEF SendBegin, Current, AtCall
    <3>3. AtCall'
      BY <2>6, <1>1, <1>2, <1>3, <1>4 DEF SendBegin, Current, AtCall, Own, Begun
    <3>4. WindowsBegun'
      BY <2>6, <1>1, <1>2, <1>3, <1>4 DEF SendBegin, Current, WindowsBegun, Begun
    <3>5. QED
      BY <1>1, <3>1, <3>2, <3>3, <3>4 DEF CallInv
  <2>7. CASE RetryBegin
    <3>1. TypeOK'
      BY <2>7, <2>1, <1>1, <1>2, <1>3, <1>4, <1>5 DEF RetryBegin, Current, TypeOK, AtCall, PCs
    <3>2. checkers' \in Seq(AllChecks)
      BY <2>7, <1>1, <1>3, <1>4 DEF RetryBegin, Current, AtCall
    <3>3. AtCall'
      BY <2>7, <1>1, <1>2, <1>3, <1>4 DEF RetryBegin, Current, AtCall, Own, Begun
    <3>4. WindowsBegun'
      BY <2>7, <1>1, <1>2, <1>3, <1>4 DEF RetryBegin, Current, WindowsBegun, Begun
    <3>5. QED
      BY <1>1, <3>1, <3>2, <3>3, <3>4 DEF CallInv
  <2>8. CASE SendAnswer
    <3>1. TypeOK'
      BY <2>8, <2>1, <1>1, <1>2, <1>3, <1>4, <1>5 DEF SendAnswer, IsSync, TypeOK, AtCall, PCs
    <3>2. checkers' \in Seq(AllChecks)
      BY <2>8, <1>1, <1>3, <1>4 DEF SendAnswer, IsSync, AtCall
    <3>3. AtCall'
      BY <2>8, <1>1, <1>2, <1>3, <1>4 DEF SendAnswer, IsSync, AtCall, Own, Begun
    <3>4. WindowsBegun'
      BY <2>8, <1>1, <1>2, <1>3, <1>4 DEF SendAnswer, IsSync, WindowsBegun, Begun
    <3>5. QED
      BY <1>1, <3>1, <3>2, <3>3, <3>4 DEF CallInv
  <2>9. CASE Tick
    <3>1. TypeOK'
      BY <2>9, <2>1, <1>1, <1>2, <1>3, <1>4, <1>5 DEF Tick, TypeOK, AtCall, PCs
    <3>2. checkers' \in Seq(AllChecks)
      BY <2>9, <1>1, <1>3, <1>4 DEF Tick, AtCall
    <3>3. AtCall'
      BY <2>9, <1>1, <1>2, <1>3, <1>4 DEF Tick, AtCall, Own, Begun
    <3>4. WindowsBegun'
      BY <2>9, <1>1, <1>2, <1>3, <1>4 DEF Tick, WindowsBegun, Begun
    <3>5. QED
      BY <1>1, <3>1, <3>2, <3>3, <3>4 DEF CallInv
  <2>10. CASE RequestFails
    <3>1. TypeOK'
      BY <2>10, <2>1, <1>1, <1>2, <1>3, <1>4, <1>5 DEF RequestFails, NetworkError, Non2xx, NotJSON, Fatal, TypeOK, AtCall, PCs
    <3>2. checkers' \in Seq(AllChecks)
      BY <2>10, <1>1, <1>3, <1>4 DEF RequestFails, NetworkError, Non2xx, NotJSON, Fatal, AtCall
    <3>3. AtCall'
      BY <2>10, <1>1, <1>2, <1>3, <1>4 DEF RequestFails, NetworkError, Non2xx, NotJSON, Fatal, AtCall, Own, Begun
    <3>4. WindowsBegun'
      BY <2>10, <1>1, <1>2, <1>3, <1>4 DEF RequestFails, NetworkError, Non2xx, NotJSON, Fatal, WindowsBegun, Begun
    <3>5. QED
      BY <1>1, <3>1, <3>2, <3>3, <3>4 DEF CallInv
  <2>11. CASE \E to \in since .. len : MustSync(to)
    <3>1. PICK to \in since .. len : MustSync(to)
      BY <2>11
    <3>2. resp' = [call |-> call, from |-> since, to |-> to] /\ seen' = seen \cup {resp'} /\ call <= Len(Calls)
      BY <3>1, <1>4 DEF MustSync, AtCall
    <3>3. resp' \in Windows
      BY <3>2, <1>1, <1>3, WindowFacts
    <3>4. TypeOK'
      BY <3>1, <3>2, <3>3, <2>1, <1>1, <1>2, <1>3, <1>5 DEF MustSync, TypeOK, PCs
    <3>5. checkers' \in Seq(AllChecks)
      BY <3>1, <1>1 DEF MustSync
    <3>6. AtCall'
      BY <3>1, <3>2, <1>1, <1>2, <1>3, <1>4 DEF MustSync, AtCall, Own, Begun
    <3>7. WindowsBegun'
      BY <3>1, <3>2, <1>1, <1>3, <1>4 DEF MustSync, WindowsBegun, Begun
    <3>8. QED
      BY <1>1, <3>4, <3>5, <3>6, <3>7 DEF CallInv
  <2>12. CASE \E n \in 0 .. len : RetryAnswer(n)
    <3>1. PICK n \in 0 .. len : RetryAnswer(n)
      BY <2>12
    <3>2. /\ resp' = [call |-> call, from |-> 0, to |-> n] /\ seen' = seen \cup {resp'}
          /\ call <= Len(Calls) /\ i = 1
      BY <3>1, <1>4 DEF RetryAnswer, AtCall
    <3>3. resp' \in Windows
      BY <3>2, <1>1, <1>3, WindowFacts
    <3>4. checkers' \in Seq(AllChecks) /\ Len(checkers') \in Nat
      <4>1. checkers' = <<>> \/ checkers' = checkers
        BY <3>1 DEF RetryAnswer
      <4>2. CASE checkers' = <<>>
        BY <4>2
      <4>3. CASE checkers' = checkers
        BY <4>3, <1>1
      <4>4. QED
        BY <4>1, <4>2, <4>3
    <3>5. TypeOK'
      BY <3>1, <3>2, <3>3, <3>4, <2>1, <1>1, <1>2, <1>3, <1>5 DEF RetryAnswer, TypeOK, PCs
    <3>6. AtCall'
      BY <3>1, <3>2, <1>1, <1>2, <1>3, <1>4 DEF RetryAnswer, AtCall, Own, Begun
    <3>7. WindowsBegun'
      BY <3>1, <3>2, <1>1, <1>3, <1>4 DEF RetryAnswer, WindowsBegun, Begun
    <3>8. QED
      BY <1>1, <3>4, <3>5, <3>6, <3>7 DEF CallInv
  <2>13. CASE UNCHANGED vars
    BY <2>13, <2>1, <1>2 DEF vars, clientVars, CallInv, TypeOK, AtCall, WindowsBegun, Own, Begun
  <2>14. CASE Update
    BY <2>14, <1>1, <1>5 DEF Update
  <2>15. QED
    BY <2>2, <2>3, <2>4, <2>5, <2>6, <2>7, <2>8, <2>9, <2>10, <2>11, <2>12, <2>13, <2>14
       DEF Next, ClientStep, Answer, Finished
<1>6. CASE Update
  <2>1. Windows \subseteq Windows'
    BY <1>6, <1>1, <1>3, MoreWindows DEF Update
  <2>2. TypeOK'
    BY <1>6, <2>1, <1>1, <1>2, <1>3 DEF Update, TypeOK
  <2>3. checkers' \in Seq(AllChecks) /\ AtCall' /\ WindowsBegun'
    BY <1>6, <1>1, <1>2, <1>4 DEF Update, AtCall, WindowsBegun, Own, Begun
  <2>4. QED
    BY <1>1, <2>2, <2>3 DEF CallInv
<1>7. QED
  BY <1>5, <1>6 DEF Next, Tick, ClientStep, SyncBegin, LoopHead, Check, CheckEnd, SendBegin,
         RetryBegin, Answer, SendAnswer, MustSync, RetryAnswer, RequestFails, NetworkError, Non2xx, NotJSON,
         Fatal, Finished, vars

\* SyncInv's type invariant and the place of the test hold throughout.
THEOREM CallInvariant == Spec => []CallInv
<1>1. CallInv /\ UNCHANGED vars => CallInv'
  BY DEF CallInv, TypeOK, AtCall, WindowsBegun, Own, Begun, IsSync, Windows, Calls, stream, vars, clientVars
<1>2. QED
  BY CallInit, CallStep, <1>1, PTL DEF Spec

-----------------------------------------------------------------------------
(* The since token *)

\* The numbers that the proofs below compare.
LEMMA CallNumbers ==
  ASSUME CallInv
  PROVE  /\ call \in Nat \ {0} /\ Begun \in Nat /\ len \in Nat /\ since \in Nat
         /\ Len(Calls) \in Nat
         /\ \A w \in seen : w.call \in 1 .. Begun /\ w.from \in Nat /\ w.to \in Nat /\ w.from <= w.to
<1>1. /\ call \in Nat \ {0} /\ len \in Nat /\ since \in Nat /\ Len(Calls) \in Nat
      /\ scenario \in Scenarios
  BY ScenarioFacts DEF CallInv, TypeOK
<1>2. Begun \in Nat
  BY <1>1 DEF Begun
<1>3. \A w \in seen : w.call \in Nat \ {0} /\ w.from \in Nat /\ w.to \in Nat
  BY <1>1, WindowFacts DEF CallInv, TypeOK
<1>4. QED
  BY <1>1, <1>2, <1>3 DEF CallInv, WindowsBegun

\* Only the beginning of a call changes which call was begun last.
LEMMA BegunStays ==
  ASSUME CallInv, Next, ~SyncBegin, ~SendBegin, ~RetryBegin
  PROVE  Begun' = Begun
<1>1. call \in Nat
  BY CallNumbers
<1>2. QED
  BY <1>1 DEF Next, Update, Tick, ClientStep, LoopHead, Check, CheckEnd, Answer, SendAnswer, MustSync,
      RetryAnswer, RequestFails, NetworkError, Non2xx, NotJSON, Fatal, Finished, vars, clientVars, Begun

\* The chain is a matter of the calls and of how far the test is.
LEMMA ChainStays ==
  ASSUME scenario' = scenario, Begun' = Begun
  PROVE  Chain' = Chain
  BY SameScenario DEF Chain

\* The windows that are in a chain are those of the calls the token is from.
LEMMA TokenStays ==
  ASSUME TokenInv, Told' = Told, since' = since
  PROVE  TokenInv'
  BY DEF TokenInv

\* What one more window adds to the updates a chain is told of.
LEMMA OneMoreSpan ==
  ASSUME NEW T, NEW x
  PROVE  UNION {w.from + 1 .. w.to : w \in T \cup {x}}
           = (UNION {w.from + 1 .. w.to : w \in T}) \cup (x.from + 1 .. x.to)
  OBVIOUS

\* A response continues its chain at the token.
LEMMA TokenAdvances ==
  ASSUME CallInv, TokenInv, NEW to \in since .. len, MustSync(to)
  PROVE  TokenInv'
<1> DEFINE new == [call |-> call, from |-> since, to |-> to]
<1>1. /\ since \in Nat /\ to \in Nat /\ since <= to /\ since' = to /\ seen' = seen \cup {new}
      /\ scenario' = scenario
      /\ \A w \in seen : w.from \in Nat /\ w.to \in Nat
      /\ new.from = since /\ new.to = to /\ new.call = call
  BY CallNumbers DEF MustSync
<1>2. Begun' = Begun /\ Begun = call /\ call \in Nat \ {0} /\ IsSync(call)
  BY CallNumbers DEF MustSync, Begun, CallInv, AtCall
<1>3. Chain' = Chain
  BY <1>1, <1>2, ChainStays
<1>4. call \in Chain
  BY <1>2 DEF Chain
<1> HIDE DEF new
<1>5. Told' = Told \cup {new}
  BY <1>1, <1>3, <1>4 DEF Told
<1>6. Told \subseteq seen
  BY DEF Told
<1>7. UNION {w.from + 1 .. w.to : w \in Told'} = 1 .. since'
  <2>1. UNION {w.from + 1 .. w.to : w \in Told} = 1 .. since
    BY DEF TokenInv
  <2>2. (1 .. since) \cup (new.from + 1 .. new.to) = 1 .. to
    BY <1>1
  <2>3. QED
    BY <2>1, <2>2, <1>1, <1>5, OneMoreSpan
<1>8. \A w \in Told' : w.to <= since'
  BY <1>1, <1>5, <1>6 DEF TokenInv
<1>9. \A v, w \in Told' : v = w \/ v.to <= w.from \/ w.to <= v.from
  BY <1>1, <1>5, <1>6 DEF TokenInv
<1>10. QED
  BY <1>7, <1>8, <1>9 DEF TokenInv

\* A call that does not reuse the token begins a chain of its own; one that
\* does, and one that does not sync, leaves the chain as it is.
LEMMA TokenAtBegin ==
  ASSUME CallInv, TokenInv, SyncBegin \/ SendBegin \/ RetryBegin
  PROVE  TokenInv'
<1>1. /\ call \in Nat \ {0} /\ Begun = call - 1 /\ Begun' = call
      /\ scenario' = scenario /\ call' = call /\ seen' = seen
      /\ call \in 1 .. Len(Calls)
  BY CallNumbers DEF SyncBegin, SendBegin, RetryBegin, Begun
<1>2. Calls' = Calls /\ \A k : IsSync(k)' <=> IsSync(k)
  BY <1>1, SameScenario
<1>3. \A w \in seen : w.call \in 1 .. Begun
  BY CallNumbers
<1>4. CASE IsSync(call) /\ ~Calls[call].reuse
  <2>1. Chain' \subseteq {call}
    BY <1>1, <1>2, <1>4 DEF Chain
  <2>2. Told' = {}
    BY <2>1, <1>1, <1>3 DEF Told
  <2>3. since' = 0
    BY <1>4 DEF SyncBegin, SendBegin, RetryBegin, Current, IsSync
  <2>4. QED
    BY <2>2, <2>3 DEF TokenInv
<1>5. CASE ~(IsSync(call) /\ ~Calls[call].reuse)
  <2>1. \A k \in 1 .. Begun : k \in Chain' <=> k \in Chain
    BY <1>1, <1>2, <1>5 DEF Chain
  <2>2. Told' = Told
    BY <2>1, <1>1, <1>3 DEF Told
  <2>3. since' = since
    <3>1. Calls[call].kind = "send" => Calls[call].reuse = FALSE
      BY <1>1, ScenarioFacts DEF CallInv, TypeOK
    <3>2. QED
      BY <3>1, <1>5 DEF SyncBegin, SendBegin, RetryBegin, Current, IsSync
  <2>4. QED
    BY <2>2, <2>3, TokenStays
<1>6. QED
  BY <1>4, <1>5

\* Every step keeps the token the end of what the chain has been told.
LEMMA TokenStep ==
  ASSUME CallInv, TokenInv, Next
  PROVE  TokenInv'
<1>1. CASE SyncBegin \/ SendBegin \/ RetryBegin
  BY <1>1, TokenAtBegin
<1>2. CASE \E to \in since .. len : MustSync(to)
  BY <1>2, TokenAdvances
<1>3. CASE ~(SyncBegin \/ SendBegin \/ RetryBegin) /\ ~\E to \in since .. len : MustSync(to)
  <2>1. Begun' = Begun
    BY <1>3, BegunStays
  <2>2. since' = since /\ scenario' = scenario
    BY <1>3 DEF Next, Update, Tick, ClientStep, LoopHead, Check, CheckEnd, Answer, SendAnswer,
       RetryAnswer, RequestFails, NetworkError, Non2xx, NotJSON, Fatal, Finished, vars, clientVars
  <2>3. Chain' = Chain
    BY <2>1, <2>2, ChainStays
  <2>4. CASE \E n \in 0 .. len : RetryAnswer(n)
    <3>1. PICK n \in 0 .. len : RetryAnswer(n)
      BY <2>4
    <3>2. call \notin Chain
      BY <3>1 DEF RetryAnswer, CallInv, AtCall, Chain, IsSync
    <3>3. seen' = seen \cup {[call |-> call, from |-> 0, to |-> n]}
      BY <3>1 DEF RetryAnswer
    <3>4. Told' = Told
      BY <3>2, <3>3, <2>3 DEF Told
    <3>5. QED
      BY <3>4, <2>2, TokenStays
  <2>5. CASE seen' = seen
    <3>1. Told' = Told
      BY <2>3, <2>5 DEF Told
    <3>2. QED
      BY <3>1, <2>2, TokenStays
  <2>6. QED
    BY <1>3, <2>4, <2>5 DEF Next, Update, Tick, ClientStep, LoopHead, Check, CheckEnd, Answer, SendAnswer,
       RequestFails, NetworkError, Non2xx, NotJSON, Fatal, Finished, vars, clientVars
<1>4. QED
  BY <1>1, <1>2, <1>3

\* The calls of a chain of reused since tokens are told of every update up to
\* the token, and of none twice: MustSyncUntil hands no update over that the
\* call before it has seen, and skips none.
THEOREM TokenIsDelivered == Spec => []TokenMeansDelivered
<1>1. ASSUME Init PROVE TokenInv
  <2>1. Told = {} /\ since = 0
    BY <1>1 DEF Init, Told
  <2>2. QED
    BY <2>1 DEF TokenInv
<1>2. ASSUME CallInv, TokenInv, [Next]_vars PROVE TokenInv'
  <2>1. CASE UNCHANGED vars
    BY <2>1, <1>2 DEF vars, clientVars, TokenInv, Told, Chain, Begun, IsSync, Calls
  <2>2. QED
    BY <2>1, <1>2, TokenStep
<1>3. TokenInv => TokenMeansDelivered
  BY DEF TokenInv, TokenMeansDelivered, Told
<1>4. QED
  BY CallInvariant, <1>1, <1>2, <1>3, PTL DEF Spec

-----------------------------------------------------------------------------
(* The checks *)

\* The elements of a list of checks.
LEMMA Elements ==
  ASSUME NEW s \in Seq(AllChecks), NEW c
  PROVE  c \in ToSet(s) <=> \E k \in 1 .. Len(s) : c = s[k]
  BY DEF ToSet

\* A list that nothing has been asked of is left whole.
LEMMA WholeIsLeft ==
  ASSUME NEW sc, NEW k
  PROVE  LeftBy(sc, sc.calls[k].checks, k, {})
  BY DEF LeftBy, Unmet

\* A new response is about to be looked at by all checks that are left.
LEMMA LookBegins ==
  ASSUME NEW sc, NEW left \in Seq(AllChecks), NEW k, NEW ws, NEW w, LeftBy(sc, left, k, ws)
  PROVE  LookedAt(sc, left, k, ws \cup {w}, w, 1)
<1>1. \A c : Unmet(sc, c, ws \cup {w}) => Unmet(sc, c, ws)
  BY DEF Unmet
<1>2. \A c : Unmet(sc, c, ws) => Unmet(sc, c, (ws \cup {w}) \ {w})
  BY DEF Unmet
<1>3. \A j \in 1 .. Len(left) : left[j] \in ToSet(left) /\ ~(j < 1)
  BY Elements
<1>4. QED
  BY <1>1, <1>2, <1>3 DEF LeftBy, LookedAt

\* A check that is not satisfied by the response stays.
LEMMA LookFails ==
  ASSUME NEW sc, NEW left \in Seq(AllChecks), NEW k, NEW ws, NEW w, NEW n \in 1 .. Len(left),
         LookedAt(sc, left, k, ws, w, n), ~Meets(sc, left[n], w)
  PROVE  LookedAt(sc, left, k, ws, w, n + 1)
<1>1. \A j \in 1 .. Len(left) : j < n + 1 => j < n \/ j = n
  OBVIOUS
<1>2. QED
  BY <1>1 DEF LookedAt

\* One that is satisfied is removed, and no other with it that is not.
LEMMA LookPasses ==
  ASSUME NEW sc, NEW left \in Seq(AllChecks), NEW k, NEW ws, NEW w \in ws, NEW n \in 1 .. Len(left),
         LookedAt(sc, left, k, ws, w, n), Meets(sc, left[n], w)
  PROVE  LookedAt(sc, RemoveAt(left, n), k, ws, w, n)
<1> DEFINE rest == RemoveAt(left, n)
<1>1. /\ rest \in Seq(AllChecks) /\ Len(left) \in Nat /\ Len(rest) = Len(left) - 1
      /\ \A j \in 1 .. n - 1 : rest[j] = left[j]
      /\ \A j \in n .. Len(left) - 1 : rest[j] = left[j + 1]
  <2>1. Len(left) \in Nat
    OBVIOUS
  <2>2. QED
    BY <2>1, Removed, Zenon
<1> HIDE DEF rest
<1>2. ASSUME NEW c, c \in ToSet(sc.calls[k].checks), Unmet(sc, c, ws)
      PROVE  c \in ToSet(rest)
    <2>1. c \in ToSet(left) /\ c # left[n]
      BY <1>2 DEF LookedAt, Unmet
    <2>2. PICK j \in 1 .. Len(left) : c = left[j]
      BY <2>1, Elements
    <2>3. CASE j < n
      <3>1. j \in 1 .. n - 1 /\ j \in 1 .. Len(rest)
        BY <2>3, <1>1
      <3>2. QED
        BY <3>1, <2>2, <1>1, Elements
    <2>4. CASE j > n
      <3>1. j - 1 \in n .. Len(left) - 1 /\ j - 1 \in 1 .. Len(rest) /\ (j - 1) + 1 = j
        BY <2>4, <1>1
      <3>2. rest[j - 1] = c
        BY <3>1, <2>2, <1>1
      <3>3. QED
        BY <3>1, <3>2, <1>1, Elements
    <2>5. QED
      BY <2>1, <2>2, <2>3, <2>4
<1>3. ASSUME NEW j \in 1 .. Len(rest)
      PROVE  /\ rest[j] \in ToSet(left)
             /\ Unmet(sc, rest[j], ws \ {w})
             /\ j < n => ~Meets(sc, rest[j], w)
  <2>1. CASE j < n
    <3>1. j \in 1 .. Len(left) /\ rest[j] = left[j]
      BY <2>1, <1>1
    <3>2. QED
      BY <3>1, <2>1, Elements DEF LookedAt
  <2>2. CASE j >= n
    <3>1. j + 1 \in 1 .. Len(left) /\ rest[j] = left[j + 1] /\ ~(j < n)
      BY <2>2, <1>1
    <3>2. QED
      BY <3>1, Elements DEF LookedAt
  <2>3. QED
    BY <2>1, <2>2
<1>4. ToSet(rest) \subseteq ToSet(sc.calls[k].checks)
  BY <1>1, <1>3, Elements DEF LookedAt
<1>5. LookedAt(sc, rest, k, ws, w, n)
  BY <1>2, <1>3, <1>4 DEF LookedAt
<1>6. QED
  BY <1>5 DEF rest

\* When all have looked at the response, those are left that it did not satisfy.
LEMMA LookEnds ==
  ASSUME NEW sc, NEW left \in Seq(AllChecks), NEW k, NEW ws, NEW w,
         LookedAt(sc, left, k, ws, w, Len(left) + 1)
  PROVE  LeftBy(sc, left, k, ws)
<1>1. ASSUME NEW c \in ToSet(left) PROVE Unmet(sc, c, ws)
  <2>1. PICK j \in 1 .. Len(left) : c = left[j]
    BY Elements
  <2>2. Len(left) \in Nat /\ j < Len(left) + 1
    OBVIOUS
  <2>3. Unmet(sc, c, ws \ {w}) /\ ~Meets(sc, c, w)
    BY <2>1, <2>2 DEF LookedAt
  <2>4. QED
    BY <2>3 DEF Unmet
<1>2. QED
  BY <1>1 DEF LookedAt, LeftBy

\* A step that leaves the responses and the checks alone, and goes on waiting.
LEMMA StillSettled ==
  ASSUME SettledInv, UNCHANGED <<scenario, seen, checkers, i, resp>>, Begun' = Begun,
         pc' = pc \/ pc' = "failed" \/ (pc \in WaitPCs /\ pc' \in WaitPCs)
  PROVE  SettledInv'
<1>1. Own' = Own
  BY DEF Own
<1>2. QED
  BY <1>1 DEF SettledInv, WaitPCs

\* A call begins with all its checks.
LEMMA BeginSettled ==
  ASSUME CallInv, SyncBegin \/ SendBegin \/ RetryBegin
  PROVE  SettledInv'
<1>1. /\ Begun' = call /\ Begun = call - 1 /\ call \in Nat
      /\ scenario' = scenario /\ seen' = seen
      /\ checkers' = scenario.calls[call].checks
      /\ pc' \in {"head", "sending", "request"}
  BY CallNumbers DEF SyncBegin, SendBegin, RetryBegin, Begun, Current, Calls
<1>2. Own' = {}
  BY <1>1, CallNumbers DEF Own
<1>3. LeftBy(scenario', checkers', Begun', Own')
  BY <1>1, <1>2, WholeIsLeft
<1>4. QED
  BY <1>1, <1>2, <1>3 DEF SettledInv, WaitPCs

\* The answer to a request of Do is judged by its condition.
LEMMA RetrySettled ==
  ASSUME CallInv, SettledInv, NEW n \in 0 .. len, RetryAnswer(n)
  PROVE  SettledInv'
<1> DEFINE new == [call |-> call, from |-> 0, to |-> n]
<1>1. /\ Begun = call /\ Begun' = call /\ call \in Nat \ {0} /\ call \in 1 .. Len(Calls)
      /\ scenario' = scenario /\ seen' = seen \cup {new} /\ scenario \in Scenarios
      /\ pc = "request" /\ Calls[call].kind = "retry" /\ checkers = Calls[call].checks
      /\ pc' \in {"ready", "request", "timedOut"}
  BY CallNumbers DEF RetryAnswer, Begun, CallInv, AtCall, TypeOK
<1>2. Own' = Own \cup {new}
  BY <1>1 DEF Own
<1>3. checkers \in Seq(AllChecks) /\ Len(checkers) = 1
  BY <1>1, ScenarioFacts
<1>4. \A c : c \in ToSet(checkers) <=> c = checkers[1]
  BY <1>3, Elements
<1>5. Meets(scenario, checkers[1], new) <=> Condition(checkers[1], n)
  BY <1>1 DEF Meets, Condition, Calls, stream
<1>6. LeftBy(scenario, checkers, call, Own)
  BY <1>1 DEF SettledInv, WaitPCs
<1> HIDE DEF new
<1>7. CASE Condition(checkers[1], n)
  <2>1. checkers' = <<>>
    BY <1>7 DEF RetryAnswer
  <2>2. ToSet(checkers') = {}
    BY <2>1 DEF ToSet
  <2>3. ~Unmet(scenario, checkers[1], Own \cup {new})
    BY <1>5, <1>7 DEF Unmet
  <2>4. LeftBy(scenario, checkers', call, Own \cup {new})
    BY <2>2, <2>3, <1>1, <1>4 DEF LeftBy, Calls
  <2>5. QED
    BY <2>4, <1>1, <1>2 DEF SettledInv, WaitPCs
<1>8. CASE ~Condition(checkers[1], n)
  <2>1. checkers' = checkers
    BY <1>8 DEF RetryAnswer
  <2>2. Unmet(scenario, checkers[1], Own \cup {new}) <=> Unmet(scenario, checkers[1], Own)
    BY <1>5, <1>8 DEF Unmet
  <2>3. LeftBy(scenario, checkers, call, Own \cup {new})
    BY <2>2, <1>1, <1>4, <1>6 DEF LeftBy, Calls
  <2>4. QED
    BY <2>1, <2>3, <1>1, <1>2 DEF SettledInv, WaitPCs
<1>9. QED
  BY <1>7, <1>8

\* A response of MustSync is looked at by the checks that are left.
LEMMA SyncSettled ==
  ASSUME CallInv, SettledInv, NEW to \in since .. len, MustSync(to)
  PROVE  SettledInv'
<1>1. /\ Begun = call /\ Begun' = call /\ call \in Nat \ {0} /\ pc = "syncing" /\ pc' = "checking"
      /\ scenario' = scenario /\ seen' = seen \cup {resp'} /\ resp'.call = call
      /\ checkers' = checkers /\ i' = 1 /\ checkers \in Seq(AllChecks)
  BY CallNumbers DEF MustSync, Begun, CallInv
<1>2. Own' = Own \cup {resp'}
  BY <1>1 DEF Own
<1>3. LeftBy(scenario, checkers, call, Own)
  BY <1>1 DEF SettledInv, WaitPCs
<1>4. LookedAt(scenario, checkers, call, Own \cup {resp'}, resp', 1)
  BY <1>1, <1>3, LookBegins
<1>5. QED
  BY <1>1, <1>2, <1>4 DEF SettledInv, WaitPCs

\* One check looks at the response.
LEMMA CheckSettled ==
  ASSUME CallInv, SettledInv, Check
  PROVE  SettledInv'
<1>1. /\ Begun = call /\ Begun' = call /\ pc = "checking" /\ pc' = "checking"
      /\ scenario' = scenario /\ seen' = seen /\ resp' = resp
      /\ checkers \in Seq(AllChecks) /\ i \in 1 .. Len(checkers) /\ resp \in Own
      /\ IsSync(resp.call)
  BY DEF Check, Begun, CallInv, AtCall, TypeOK, Own
<1>2. Own' = Own
  BY <1>1 DEF Own
<1>3. LookedAt(scenario, checkers, call, Own, resp, i)
  BY <1>1 DEF SettledInv
<1>4. Meets(scenario, checkers[i], resp) <=> Passes(checkers[i], stream, Result(resp))
  BY <1>1 DEF Meets, Result, Calls, stream, IsSync
<1>5. LookedAt(scenario, checkers', call, Own, resp, i')
  <2>1. CASE Meets(scenario, checkers[i], resp)
    <3>1. checkers' = RemoveAt(checkers, i) /\ i' = i
      BY <2>1, <1>4 DEF Check
    <3>2. QED
      BY <3>1, <2>1, <1>1, <1>3, LookPasses
  <2>2. CASE ~Meets(scenario, checkers[i], resp)
    <3>1. checkers' = checkers /\ i' = i + 1
      BY <2>2, <1>4 DEF Check
    <3>2. QED
      BY <3>1, <2>2, <1>1, <1>3, LookFails
  <2>3. QED
    BY <2>1, <2>2
<1>6. QED
  BY <1>1, <1>2, <1>5 DEF SettledInv, WaitPCs

\* All checks have looked at the response.
LEMMA CheckEndSettled ==
  ASSUME CallInv, SettledInv, CheckEnd
  PROVE  SettledInv'
<1>1. /\ Begun = call /\ Begun' = call /\ pc = "checking" /\ pc' \in {"ready", "head"}
      /\ scenario' = scenario /\ seen' = seen /\ checkers' = checkers
      /\ checkers \in Seq(AllChecks) /\ i = Len(checkers) + 1
  BY CallNumbers DEF CheckEnd, Begun, CallInv
<1>2. Own' = Own
  BY <1>1 DEF Own
<1>3. LeftBy(scenario, checkers, call, Own)
  BY <1>1, LookEnds DEF SettledInv
<1>4. QED
  BY <1>1, <1>2, <1>3 DEF SettledInv, WaitPCs

\* The event of SendEventSynced is waited for by all checks.
LEMMA SendSettled ==
  ASSUME CallInv, SettledInv, SendAnswer
  PROVE  SettledInv'
<1>1. /\ Begun' = Begun /\ pc = "sending" /\ pc' = "head"
      /\ scenario' = scenario /\ seen' = seen /\ checkers' = checkers
  BY DEF SendAnswer, Begun
<1>2. Own' = {} /\ checkers = scenario.calls[Begun].checks
  BY <1>1 DEF Own, SettledInv
<1>3. LeftBy(scenario, checkers, Begun, {})
  BY <1>2, WholeIsLeft
<1>4. QED
  BY <1>1, <1>2, <1>3 DEF SettledInv, WaitPCs

\* Whenever a call waits, gives up or has returned, the checks that are left
\* are exactly those that no response of the call has satisfied, whatever the
\* checks look for and in which order the updates come; the variables keep
\* their types.
THEOREM ChecksAreSettled == Spec => []SyncInv
<1>1. ASSUME Init PROVE SettledInv
  BY <1>1 DEF Init, SettledInv, Begun
<1>2. ASSUME CallInv, SettledInv, [Next]_vars PROVE SettledInv'
  <2>1. CASE SyncBegin \/ SendBegin \/ RetryBegin
    BY <2>1, <1>2, BeginSettled
  <2>2. CASE \E n \in 0 .. len : RetryAnswer(n)
    BY <2>2, <1>2, RetrySettled
  <2>3. CASE \E to \in since .. len : MustSync(to)
    BY <2>3, <1>2, SyncSettled
  <2>4. CASE Check
    BY <2>4, <1>2, CheckSettled
  <2>5. CASE CheckEnd
    BY <2>5, <1>2, CheckEndSettled
  <2>6. CASE SendAnswer
    BY <2>6, <1>2, SendSettled
  <2>7. CASE Update \/ Tick \/ LoopHead \/ RequestFails \/ UNCHANGED vars
    <3>1. /\ UNCHANGED <<scenario, seen, checkers, i, resp>>
          /\ pc' = pc \/ pc' = "failed" \/ (pc \in WaitPCs /\ pc' \in WaitPCs)
          /\ Begun' = Begun
      BY <2>7 DEF Update, Tick, LoopHead, RequestFails, NetworkError, Non2xx, NotJSON, Fatal, vars,
         clientVars, WaitPCs, Begun
    <3>2. QED
      BY <3>1, <1>2, StillSettled
  <2>8. QED
    BY <1>2, <2>1, <2>2, <2>3, <2>4, <2>5, <2>6, <2>7 DEF Next, ClientStep, Answer, Finished
<1>3. ASSUME CallInv, SettledInv PROVE SyncInv
  <2>1. ASSUME NEW c, NEW w PROVE Satisfied(c, w) <=> Meets(scenario, c, w)
    BY DEF Satisfied, Meets, IsSync, Result, Condition, Calls, stream
  <2>2. ChecksSettled
    <3>1. SUFFICES ASSUME Begun # 0, pc \in {"head", "ready", "request", "timedOut"}
                   PROVE  ToSet(checkers)
                            = {c \in ToSet(Calls[Begun].checks) : \A w \in Own : ~Satisfied(c, w)}
      BY DEF ChecksSettled, Own
    <3>2. LeftBy(scenario, checkers, Begun, Own)
      BY <1>3, <3>1 DEF SettledInv, WaitPCs
    <3>3. QED
      BY <2>1, <3>2 DEF LeftBy, Unmet, Calls
  <2>3. QED
    BY <1>3, <2>2 DEF SyncInv, CallInv
<1>4. QED
  BY CallInvariant, <1>1, <1>2, <1>3, PTL DEF Spec

-----------------------------------------------------------------------------
(* Positions, and what a response tells under each path *)

\* Every nonempty set of naturals has a least element.
LEMMA HasLeast ==
  ASSUME NEW T \in SUBSET Nat, T # {}
  PROVE  \E x \in T : \A y \in T : x <= y
<1> DEFINE R == OpToRel(<, Nat)
<1>1. IsWellFoundedOn(R, Nat)
  BY NatLessThanWellFounded
<1>2. \A x, y \in Nat : y < x => <<y, x>> \in R
  BY DEF OpToRel
<1> HIDE DEF R
<1>3. PICK x \in T : \A y \in T : ~(<<y, x>> \in R)
  BY <1>1, WFMin
<1>4. \A y \in T : ~(y < x)
  BY <1>2, <1>3
<1>5. QED
  BY <1>4

\* Min of a nonempty set of naturals is one of them, and no other is below it.
LEMMA MinFact ==
  ASSUME NEW T \in SUBSET Nat, T # {}
  PROVE  Min(T) \in T /\ \A y \in T : Min(T) <= y
<1>1. \E x \in T : \A y \in T : x <= y
  BY HasLeast
<1>2. QED
  BY <1>1 DEF Min

\* Max of a nonempty set of naturals up to b is one of them, and none is above it.
LEMMA MaxFact ==
  ASSUME NEW b \in Nat, NEW T \in SUBSET (0 .. b), T # {}
  PROVE  Max(T) \in T /\ \A y \in T : y <= Max(T)
<1> DEFINE D == {b - x : x \in T}
<1>1. D \in SUBSET Nat /\ D # {}
  <2>1. \A x \in T : b - x \in Nat
    OBVIOUS
  <2>2. D \subseteq Nat
    BY <2>1
  <2>3. PICK x \in T : TRUE
    OBVIOUS
  <2>4. b - x \in D
    OBVIOUS
  <2>5. QED
    BY <2>2, <2>4
<1>2. PICK d \in D : \A e \in D : d <= e
  BY <1>1, HasLeast
<1>3. PICK x \in T : d = b - x
  BY <1>2
<1>4. \A y \in T : b - y \in D
  OBVIOUS
<1>5. ASSUME NEW y \in T PROVE x >= y
  <2>1. d <= b - y
    BY <1>2, <1>4
  <2>2. QED
    BY <2>1, <1>3
<1>6. Max(T) \in T /\ \A y \in T : Max(T) >= y
  BY <1>5 DEF Max
<1>7. QED
  BY <1>6

\* The last position of a set: none if the set is empty, and otherwise its
\* greatest element.
LEMMA LastPosFact ==
  ASSUME NEW b \in Nat, NEW is \in SUBSET (1 .. b)
  PROVE  /\ LastPos(is) \in 0 .. b
         /\ LastPos(is) = 0 <=> is = {}
         /\ LastPos(is) # 0 => LastPos(is) \in is
         /\ \A k \in is : (\A m \in k + 1 .. b : m \notin is) => LastPos(is) = k
<1>1. CASE is = {}
  BY <1>1 DEF LastPos
<1>2. CASE is # {}
  <2>1. LastPos(is) = Max(is)
    BY <1>2 DEF LastPos
  <2>2. is \in SUBSET (0 .. b)
    OBVIOUS
  <2>3. Max(is) \in is /\ \A y \in is : y <= Max(is)
    BY <1>2, <2>2, MaxFact
  <2>4. \A k \in is : k \in 1 .. b
    OBVIOUS
  <2>5. Max(is) \in 1 .. b
    BY <2>3, <2>4
  <2>6. ASSUME NEW k \in is, \A m \in k + 1 .. b : m \notin is PROVE Max(is) = k
    <3>1. Max(is) \notin k + 1 .. b
      BY <2>3, <2>6
    <3>2. QED
      BY <2>3, <2>4, <2>5, <3>1
  <2>7. LastPos(is) \in 0 .. b /\ LastPos(is) # 0
    BY <2>1, <2>5
  <2>8. QED
    BY <2>1, <2>3, <2>6, <2>7, <1>2, Zenon
<1>3. QED
  BY <1>1, <1>2

\* An array has an element that the check accepts.
LEMMA Look ==
  ASSUME NEW s, NEW from, NEW to, NEW after, NEW path \in TopPaths \cup RoomPaths, NEW accepted
  PROVE  checkArrayElements(Response(s, from, to, after), path, accepted)
           <=> \E n \in Events(s, path, from, to, after) : n \in accepted
<1> DEFINE E == Events(s, path, from, to, after)
           r == Response(s, from, to, after)
<1>1. path \in DOMAIN r <=> E # {}
  BY DEF Response
<1>2. E # {} => r[path] = E
  BY DEF Response
<1> HIDE DEF E, r
<1>3. QED
  BY <1>1, <1>2, Zenon DEF checkArrayElements, E, r

\* The arrays that the check functions look at.
LEMMA Arrays ==
  /\ <<"presence">> \in TopPaths /\ <<"to_device">> \in TopPaths /\ <<"account_data">> \in TopPaths
  /\ \A room \in {"join", "leave"}, key \in {"timeline", "state"} \cup StateAfterNames :
       <<room, key>> \in RoomPaths
  /\ <<"join", "ephemeral">> \in RoomPaths /\ <<"join", "account_data">> \in RoomPaths
  /\ <<"invite", "invite_state">> \in RoomPaths /\ <<"knock", "knock_state">> \in RoomPaths
  /\ \A path \in RoomPaths : path \notin TopPaths
  BY DEF TopPaths, RoomPaths, StateAfterNames

\* What an update is.
LEMMA UpdateFacts ==
  ASSUME NEW x \in Updates
  PROVE  /\ x.kind = "member" => x.user \in Users /\ x.membership \in Memberships
         /\ x.kind = "presence" => x.user \in Users
  BY DEF Updates

\* The updates after from up to to are part of the stream.
Window(s, from, to) ==
  /\ s \in Seq(Updates) /\ Len(s) \in Nat
  /\ from \in Nat /\ to \in Nat /\ from <= to /\ to <= Len(s)

\* The last change of the membership of u in a window.
LEMMA MemberPosFact ==
  ASSUME NEW s, NEW from, NEW to, NEW u, Window(s, from, to)
  PROVE  /\ MemberPos(s, from, to, u) \in 0 .. to
         /\ MemberPos(s, from, to, u) # 0 =>
              MemberPos(s, from, to, u) \in from + 1 .. to /\ IsMember(u, s[MemberPos(s, from, to, u)])
         /\ \A k \in from + 1 .. to :
              IsMember(u, s[k]) =>
                /\ MemberPos(s, from, to, u) # 0
                /\ (\A m \in k + 1 .. to : ~IsMember(u, s[m])) => MemberPos(s, from, to, u) = k
<1> DEFINE is == {k \in from + 1 .. to : IsMember(u, s[k])}
<1>1. to \in Nat /\ is \in SUBSET (1 .. to)
  BY DEF Window
<1>2. MemberPos(s, from, to, u) = LastPos(is)
  BY DEF MemberPos
<1>3. /\ LastPos(is) \in 0 .. to
      /\ LastPos(is) = 0 <=> is = {}
      /\ LastPos(is) # 0 => LastPos(is) \in is
      /\ \A k \in is : (\A m \in k + 1 .. to : m \notin is) => LastPos(is) = k
  BY <1>1, LastPosFact
<1>4. \A k \in from + 1 .. to : IsMember(u, s[k]) => LastPos(is) # 0
  BY <1>3
<1>5. ASSUME NEW k \in from + 1 .. to, IsMember(u, s[k]), \A m \in k + 1 .. to : ~IsMember(u, s[m])
      PROVE  LastPos(is) = k
  <2>1. k \in is /\ \A m \in k + 1 .. to : m \notin is
    BY <1>5
  <2>2. QED
    BY <2>1, <1>3
<1>6. LastPos(is) # 0 => LastPos(is) \in from + 1 .. to /\ IsMember(u, s[LastPos(is)])
  BY <1>3
<1> HIDE DEF is
<1>7. QED
  BY <1>2, <1>3, <1>4, <1>5, <1>6, Zenon

\* The same for the last presence of u.
LEMMA PresencePosFact ==
  ASSUME NEW s, NEW from, NEW to, NEW u, Window(s, from, to)
  PROVE  /\ PresencePos(s, from, to, u) # 0 =>
              /\ PresencePos(s, from, to, u) \in from + 1 .. to
              /\ s[PresencePos(s, from, to, u)].kind = "presence"
              /\ s[PresencePos(s, from, to, u)].user = u
         /\ \A k \in from + 1 .. to :
              (/\ s[k].kind = "presence" /\ s[k].user = u
               /\ \A m \in k + 1 .. to : ~(s[m].kind = "presence" /\ s[m].user = u))
                => PresencePos(s, from, to, u) = k
<1> DEFINE is == {k \in from + 1 .. to : s[k].kind = "presence" /\ s[k].user = u}
<1>1. to \in Nat /\ is \in SUBSET (1 .. to)
  BY DEF Window
<1>2. PresencePos(s, from, to, u) = LastPos(is)
  BY DEF PresencePos
<1>3. /\ LastPos(is) # 0 => LastPos(is) \in is
      /\ \A k \in is : (\A m \in k + 1 .. to : m \notin is) => LastPos(is) = k
  BY <1>1, LastPosFact
<1>5. ASSUME NEW k \in from + 1 .. to, s[k].kind = "presence" /\ s[k].user = u,
             \A m \in k + 1 .. to : ~(s[m].kind = "presence" /\ s[m].user = u)
      PROVE  LastPos(is) = k
  <2>1. k \in is /\ \A m \in k + 1 .. to : m \notin is
    BY <1>5
  <2>2. QED
    BY <2>1, <1>3
<1>6. LastPos(is) # 0 =>
        LastPos(is) \in from + 1 .. to /\ s[LastPos(is)].kind = "presence" /\ s[LastPos(is)].user = u
  BY <1>3
<1> HIDE DEF is
<1>7. QED
  BY <1>2, <1>5, <1>6, Zenon

\* A user has a membership.
LEMMA MembershipFact ==
  ASSUME NEW s, NEW to, NEW u, Window(s, 0, to)
  PROVE  Membership(s, to, u) \in Memberships
<1>1. CASE MemberPos(s, 0, to, u) = 0
  BY <1>1 DEF Membership, Memberships
<1>2. CASE MemberPos(s, 0, to, u) # 0
  <2>1. MemberPos(s, 0, to, u) \in 1 .. to /\ IsMember(u, s[MemberPos(s, 0, to, u)])
    BY <1>2, MemberPosFact
  <2>2. s[MemberPos(s, 0, to, u)] \in Updates
    BY <2>1 DEF Window
  <2>3. QED
    BY <1>2, <2>1, <2>2, UpdateFacts DEF Membership, IsMember
<1>3. QED
  BY <1>1, <1>2

\* The arrays of a room are there only for the membership that Me has.
LEMMA RoomArray ==
  ASSUME NEW s, NEW from, NEW to, NEW after, NEW path \in RoomPaths, Window(s, from, to)
  PROVE  LET now == Membership(s, to, Me)
         IN Events(s, path, from, to, after) =
              IF path[1] = (IF now = "ban" THEN "leave" ELSE now)
                THEN RoomSection(s, path, from, to, after) ELSE {}
<1>1. path \notin TopPaths
  BY Arrays
<1>2. QED
  BY <1>1, Zenon DEF Events

\* The arrays of a joined room, which a response has while Me is joined.
LEMMA JoinArray ==
  ASSUME NEW s, NEW from, NEW to, NEW after, NEW key, <<"join", key>> \in RoomPaths, Window(s, from, to)
  PROVE  Events(s, <<"join", key>>, from, to, after) =
           IF Membership(s, to, Me) = "join" THEN JoinEvents(s, key, from, to, after) ELSE {}
<1>1. <<"join", key>>[1] = "join" /\ <<"join", key>>[2] = key
  OBVIOUS
<1>2. RoomSection(s, <<"join", key>>, from, to, after) = JoinEvents(s, key, from, to, after)
  BY <1>1 DEF RoomSection
<1>3. Events(s, <<"join", key>>, from, to, after) =
        IF <<"join", key>>[1] = (IF Membership(s, to, Me) = "ban" THEN "leave" ELSE Membership(s, to, Me))
          THEN RoomSection(s, <<"join", key>>, from, to, after) ELSE {}
  BY RoomArray
<1>4. QED
  BY <1>1, <1>2, <1>3

\* Those of a room that Me has left or is banned from.
LEMMA LeaveArray ==
  ASSUME NEW s, NEW from, NEW to, NEW after, NEW key, <<"leave", key>> \in RoomPaths, Window(s, from, to)
  PROVE  Events(s, <<"leave", key>>, from, to, after) =
           IF Membership(s, to, Me) \in {"leave", "ban"} THEN LeaveEvents(s, key, from, to, after) ELSE {}
<1>1. <<"leave", key>>[1] = "leave" /\ <<"leave", key>>[2] = key
  OBVIOUS
<1>2. RoomSection(s, <<"leave", key>>, from, to, after) = LeaveEvents(s, key, from, to, after)
  BY <1>1 DEF RoomSection
<1>3. Events(s, <<"leave", key>>, from, to, after) =
        IF <<"leave", key>>[1] = (IF Membership(s, to, Me) = "ban" THEN "leave" ELSE Membership(s, to, Me))
          THEN RoomSection(s, <<"leave", key>>, from, to, after) ELSE {}
  BY RoomArray
<1>4. QED
  BY <1>1, <1>2, <1>3

\* The stripped state of an invite or a knock is the own membership.
LEMMA StrippedArray ==
  ASSUME NEW s, NEW from, NEW to, NEW after, NEW room \in {"invite", "knock"}, NEW key,
         <<room, key>> \in RoomPaths, Window(s, from, to)
  PROVE  Events(s, <<room, key>>, from, to, after) =
           IF Membership(s, to, Me) = room THEN {MemberPos(s, from, to, Me)} \ {0} ELSE {}
<1>1. <<room, key>>[1] = room
  OBVIOUS
<1>2. RoomSection(s, <<room, key>>, from, to, after) = {MemberPos(s, from, to, Me)} \ {0}
  BY <1>1 DEF RoomSection
<1>3. Events(s, <<room, key>>, from, to, after) =
        IF <<room, key>>[1] = (IF Membership(s, to, Me) = "ban" THEN "leave" ELSE Membership(s, to, Me))
          THEN RoomSection(s, <<room, key>>, from, to, after) ELSE {}
  BY RoomArray
<1>4. QED
  BY <1>1, <1>2, <1>3

\* The arrays outside of rooms.
LEMMA TopArray ==
  ASSUME NEW s, NEW from, NEW to, NEW after, NEW key \in {"presence", "to_device", "account_data"}
  PROVE  Events(s, <<key>>, from, to, after) = TopEvents(s, key, from, to)
<1>1. <<key>> \in TopPaths /\ <<key>>[1] = key
  BY DEF TopPaths
<1>2. <<key>> \notin RoomPaths
  BY <1>1, Arrays
<1>3. QED
  BY <1>1, <1>2, Zenon DEF Events

\* What is in the timeline and in the state of a room.
LEMMA RoomEventsFact ==
  ASSUME NEW s, NEW from, NEW to, NEW after \in BOOLEAN, NEW key, Window(s, from, to)
  PROVE  \A k \in RoomEvents(s, key, from, to, after) :
           k \in from + 1 .. to /\ RoomEvent(s[k]) /\ (key # "timeline" => s[k].kind = "member")
<1>1. CASE key = "timeline"
  <2>1. key \notin StateAfterKeys /\ key # "state"
    BY <1>1, SyncAssumption DEF StateAfterNames
  <2>2. RoomEvents(s, key, from, to, after) = TimelinePos(s, from, to)
    BY <1>1, <2>1 DEF RoomEvents
  <2>3. QED
    BY <1>1, <2>2 DEF TimelinePos
<1>2. CASE key = "state" /\ ~after
  <2>1. RoomEvents(s, key, from, to, after) = StatePos(s, from, to)
    BY <1>2 DEF RoomEvents
  <2>2. QED
    BY <2>1 DEF StatePos, RoomEvent
<1>3. CASE key \in StateAfterKeys /\ after
  <2>1. key # "timeline" /\ key # "state"
    BY <1>3, SyncAssumption DEF StateAfterNames
  <2>2. RoomEvents(s, key, from, to, after) = {MemberPos(s, from, to, u) : u \in Users} \ {0}
    BY <1>3, <2>1 DEF RoomEvents
  <2>3. QED
    BY <2>2, MemberPosFact DEF IsMember, RoomEvent
<1>4. CASE ~(key = "timeline" \/ (key = "state" /\ ~after) \/ (key \in StateAfterKeys /\ after))
  <2>1. RoomEvents(s, key, from, to, after) = {}
    BY <1>4 DEF RoomEvents
  <2>2. QED
    BY <2>1
<1>5. QED
  BY <1>1, <1>2, <1>3, <1>4

\* A change of a membership that is in force at the end of the window is told.
LEMMA InForceTold ==
  ASSUME NEW s, NEW from, NEW to, Window(s, from, to),
         NEW k \in from + 1 .. to, s[k].kind = "member",
         \A m \in k + 1 .. to : ~IsMember(s[k].user, s[m])
  PROVE  /\ \/ k \in RoomEvents(s, "timeline", from, to, FALSE)
            \/ k \in RoomEvents(s, "state", from, to, FALSE)
         /\ \A key \in StateAfterKeys : k \in RoomEvents(s, key, from, to, TRUE)
<1>1. RoomEvents(s, "timeline", from, to, FALSE) = TimelinePos(s, from, to)
      /\ RoomEvents(s, "state", from, to, FALSE) = StatePos(s, from, to)
  BY DEF RoomEvents
<1>2. k \in TimelinePos(s, from, to) \/ k \in StatePos(s, from, to)
  BY DEF TimelinePos, StatePos, RoomEvent
<1>3. ASSUME NEW key \in StateAfterKeys PROVE k \in RoomEvents(s, key, from, to, TRUE)
  <2>1. key # "timeline" /\ key # "state"
    BY SyncAssumption DEF StateAfterNames
  <2>2. RoomEvents(s, key, from, to, TRUE) = {MemberPos(s, from, to, u) : u \in Users} \ {0}
    BY <2>1 DEF RoomEvents
  <2>3. MemberPos(s, from, to, s[k].user) = k
    BY MemberPosFact DEF IsMember
  <2>4. s[k].user \in Users /\ k # 0
    BY UpdateFacts DEF Window
  <2>5. QED
    BY <2>2, <2>3, <2>4
<1>4. QED
  BY <1>1, <1>2, <1>3

-----------------------------------------------------------------------------
(* Check functions *)

\* Which updates a response may tell of.
Known(w) == IF MemberPos(stream, w.from, w.to, Me) # 0 THEN 1 .. w.to ELSE w.from + 1 .. w.to

\* No later update up to to supersedes update n.
InForce(n, to) == \A m \in n + 1 .. to : ~Supersedes(stream[m], stream[n])

\* A check that passes is right, and one that does not is.
PassRight(c, w) == Passes(c, stream, Result(w)) => \E n \in Known(w) : Asks(c, n)
FailRight(c, w) ==
  ~Passes(c, stream, Result(w)) =>
    Excepted(c, w) \/ \A n \in w.from + 1 .. w.to : ~(Asks(c, n) /\ InForce(n, w.to))

\* A response to a call that has after.
ResponseTo(w) == Window(stream, w.from, w.to) /\ Calls[w.call].after \in BOOLEAN

\* What response w tells under path.
Array(w, path) == Events(stream, path, w.from, w.to, Calls[w.call].after)

\* checkArrayElements of a response looks at the updates of the array.
LEMMA LookInto ==
  ASSUME NEW w, NEW path \in TopPaths \cup RoomPaths, NEW accepted
  PROVE  checkArrayElements(Result(w), path, accepted) <=> \E n \in Array(w, path) : n \in accepted
  BY Look DEF Result, Array

\* What is new in a response is known, and what is known is of the stream.
LEMMA KnownWindow ==
  ASSUME NEW w, ResponseTo(w)
  PROVE  /\ \A n \in w.from + 1 .. w.to : n \in Known(w)
         /\ \A n \in Known(w) : n \in 1 .. w.to /\ n \in DOMAIN stream
  BY DEF Known, ResponseTo, Window

\* The events of a joined room are events that Me may be told of.
LEMMA JoinKnown ==
  ASSUME NEW w, ResponseTo(w), NEW key \in {"timeline", "state"} \cup StateAfterNames
  PROVE  \A n \in Array(w, <<"join", key>>) :
           n \in Known(w) /\ RoomEvent(stream[n]) /\ (key # "timeline" => stream[n].kind = "member")
<1> DEFINE after == Calls[w.call].after
           start == IF MemberPos(stream, w.from, w.to, Me) # 0 THEN 0 ELSE w.from
<1>1. <<"join", key>> \in RoomPaths /\ key # "ephemeral" /\ key # "account_data"
  BY Arrays DEF StateAfterNames
<1>2. Array(w, <<"join", key>>) =
        IF Membership(stream, w.to, Me) = "join" THEN JoinEvents(stream, key, w.from, w.to, after) ELSE {}
  BY <1>1, JoinArray DEF Array, ResponseTo
<1>3. JoinEvents(stream, key, w.from, w.to, after) = RoomEvents(stream, key, start, w.to, after)
  BY <1>1 DEF JoinEvents
<1>4. Window(stream, start, w.to) /\ after \in BOOLEAN
  BY DEF ResponseTo, Window
<1>5. \A n \in start + 1 .. w.to : n \in Known(w)
  BY DEF Known
<1> HIDE DEF start
<1>6. \A n \in RoomEvents(stream, key, start, w.to, after) :
        n \in start + 1 .. w.to /\ RoomEvent(stream[n]) /\ (key # "timeline" => stream[n].kind = "member")
  BY <1>4, RoomEventsFact
<1>7. QED
  BY <1>2, <1>3, <1>5, <1>6

\* A change of a membership that is in force is told to a member of the room.
LEMMA JoinTold ==
  ASSUME NEW w, ResponseTo(w), Membership(stream, w.to, Me) = "join",
         NEW n \in w.from + 1 .. w.to, stream[n].kind = "member",
         \A m \in n + 1 .. w.to : ~IsMember(stream[n].user, stream[m])
  PROVE  IF Calls[w.call].after
           THEN \A key \in StateAfterKeys : n \in Array(w, <<"join", key>>)
           ELSE \E key \in {"timeline", "state"} : n \in Array(w, <<"join", key>>)
<1> DEFINE after == Calls[w.call].after
           start == IF MemberPos(stream, w.from, w.to, Me) # 0 THEN 0 ELSE w.from
<1>1. ASSUME NEW key \in {"timeline", "state"} \cup StateAfterKeys
      PROVE  Array(w, <<"join", key>>) = RoomEvents(stream, key, start, w.to, after)
  <2>1. <<"join", key>> \in RoomPaths /\ key # "ephemeral" /\ key # "account_data"
    BY Arrays, SyncAssumption DEF StateAfterNames
  <2>2. Array(w, <<"join", key>>) = JoinEvents(stream, key, w.from, w.to, after)
    BY <2>1, JoinArray DEF Array, ResponseTo
  <2>3. QED
    BY <2>1, <2>2 DEF JoinEvents
<1>2. Window(stream, start, w.to) /\ n \in start + 1 .. w.to /\ after \in BOOLEAN
  BY DEF ResponseTo, Window
<1> HIDE DEF start, after
<1>3. /\ \/ n \in RoomEvents(stream, "timeline", start, w.to, FALSE)
         \/ n \in RoomEvents(stream, "state", start, w.to, FALSE)
      /\ \A key \in StateAfterKeys : n \in RoomEvents(stream, key, start, w.to, TRUE)
  BY <1>2, InForceTold
<1>4. CASE after = TRUE
  BY <1>1, <1>3, <1>4 DEF after
<1>5. CASE after = FALSE
  BY <1>1, <1>3, <1>5 DEF after
<1>6. QED
  BY <1>2, <1>4, <1>5

\* SyncTimelineHas judges right.
LEMMA TimelineJudged ==
  ASSUME NEW w, ResponseTo(w), NEW c, c.check = "timeline"
  PROVE  PassRight(c, w) /\ FailRight(c, w)
<1>1. Passes(c, stream, Result(w)) <=> \E n \in Array(w, <<"join", "timeline">>) : n \in c.accepts
  BY LookInto, Arrays DEF Passes, SyncTimelineHas
<1>2. \A n \in Array(w, <<"join", "timeline">>) : n \in Known(w) /\ RoomEvent(stream[n])
  BY JoinKnown
<1>3. \A n : RoomEvent(stream[n]) /\ n \in c.accepts => Asks(c, n)
  BY DEF Asks, RoomEvent
<1>4. Excepted(c, w)
  BY DEF Excepted
<1>5. QED
  BY <1>1, <1>2, <1>3, <1>4, Zenon DEF PassRight, FailRight

\* SyncStateHas judges right.
LEMMA StateJudged ==
  ASSUME NEW w, ResponseTo(w), NEW c, c.check = "state"
  PROVE  PassRight(c, w) /\ FailRight(c, w)
<1>1. Passes(c, stream, Result(w)) <=> \E n \in Array(w, <<"join", "state">>) : n \in c.accepts
  BY LookInto, Arrays DEF Passes, SyncStateHas
<1>2. \A n \in Array(w, <<"join", "state">>) : n \in Known(w) /\ stream[n].kind = "member"
  BY JoinKnown
<1>3. \A n : stream[n].kind = "member" /\ n \in c.accepts => Asks(c, n)
  BY DEF Asks
<1>4. Excepted(c, w)
  BY DEF Excepted
<1>5. QED
  BY <1>1, <1>2, <1>3, <1>4, Zenon DEF PassRight, FailRight

\* SyncStateAfterHas, with either of its names, judges right.
LEMMA StateAfterJudged ==
  ASSUME NEW w, ResponseTo(w), NEW c, c.check = "stateAfter"
  PROVE  PassRight(c, w) /\ FailRight(c, w)
<1>1. Passes(c, stream, Result(w)) <=>
        \E key \in StateAfterNames : \E n \in Array(w, <<"join", key>>) : n \in c.accepts
  <2>1. \A key \in StateAfterNames :
          checkArrayElements(Result(w), <<"join", key>>, c.accepts)
            <=> \E n \in Array(w, <<"join", key>>) : n \in c.accepts
    BY LookInto, Arrays
  <2>2. Passes(c, stream, Result(w)) <=> SyncStateAfterHas(c, Result(w))
    BY DEF Passes
  <2>3. QED
    BY <2>1, <2>2, Zenon DEF SyncStateAfterHas
<1>2. \A key \in StateAfterNames : \A n \in Array(w, <<"join", key>>) : n \in Known(w) /\ stream[n].kind = "member"
  BY JoinKnown DEF StateAfterNames
<1>3. \A n : Asks(c, n) <=> stream[n].kind = "member" /\ n \in c.accepts
  BY DEF Asks
<1>4. ASSUME ~Excepted(c, w), NEW n \in w.from + 1 .. w.to, Asks(c, n), InForce(n, w.to)
      PROVE  Passes(c, stream, Result(w))
  <2>1. Calls[w.call].after /\ Membership(stream, w.to, Me) = "join"
    BY <1>4 DEF Excepted
  <2>2. \A m \in n + 1 .. w.to : ~IsMember(stream[n].user, stream[m])
    BY <1>3, <1>4 DEF InForce, Supersedes, IsMember
  <2>3. \A key \in StateAfterKeys : n \in Array(w, <<"join", key>>)
    BY <1>3, <1>4, <2>1, <2>2, JoinTold
  <2>4. PICK key \in StateAfterKeys : key \in StateAfterNames
    BY SyncAssumption
  <2>5. QED
    BY <1>1, <1>3, <1>4, <2>3, <2>4
<1>5. QED
  BY <1>1, <1>2, <1>3, <1>4, Zenon DEF PassRight, FailRight

\* SyncGlobalAccountDataHas judges right.
LEMMA AccountDataJudged ==
  ASSUME NEW w, ResponseTo(w), NEW c, c.check = "accountData"
  PROVE  PassRight(c, w) /\ FailRight(c, w)
<1>1. Array(w, <<"account_data">>) = {n \in w.from + 1 .. w.to : stream[n].kind = "accountData"}
  BY TopArray DEF Array, TopEvents
<1>2. Passes(c, stream, Result(w)) <=> \E n \in Array(w, <<"account_data">>) : n \in c.accepts
  BY LookInto, Arrays DEF Passes, SyncGlobalAccountDataHas
<1>3. \A n : Asks(c, n) <=> stream[n].kind = "accountData" /\ n \in c.accepts
  BY DEF Asks
<1>4. QED
  BY <1>1, <1>2, <1>3, KnownWindow, Zenon DEF PassRight, FailRight

\* SyncRoomAccountDataHas judges right.
LEMMA RoomAccountDataJudged ==
  ASSUME NEW w, ResponseTo(w), NEW c, c.check = "roomAccountData"
  PROVE  PassRight(c, w) /\ FailRight(c, w)
<1>1. Array(w, <<"join", "account_data">>) =
        IF Membership(stream, w.to, Me) = "join"
          THEN {n \in w.from + 1 .. w.to : stream[n].kind = "roomAccountData"} ELSE {}
  BY JoinArray, Arrays DEF Array, JoinEvents, ResponseTo
<1>2. Passes(c, stream, Result(w)) <=> \E n \in Array(w, <<"join", "account_data">>) : n \in c.accepts
  BY LookInto, Arrays DEF Passes, SyncRoomAccountDataHas
<1>3. \A n : Asks(c, n) <=> stream[n].kind = "roomAccountData" /\ n \in c.accepts
  BY DEF Asks
<1>4. Membership(stream, w.to, Me) = "join" \/ Excepted(c, w)
  BY DEF Excepted
<1>5. QED
  BY <1>1, <1>2, <1>3, <1>4, KnownWindow, Zenon DEF PassRight, FailRight

\* SyncToDeviceHas judges right.
LEMMA ToDeviceJudged ==
  ASSUME NEW w, ResponseTo(w), NEW c, c.check = "toDevice"
  PROVE  PassRight(c, w) /\ FailRight(c, w)
<1>1. Array(w, <<"to_device">>) = {n \in w.from + 1 .. w.to : stream[n].kind = "toDevice"}
  BY TopArray DEF Array, TopEvents
<1>2. Passes(c, stream, Result(w)) <=>
        \E n \in Array(w, <<"to_device">>) :
          n \in {ev \in c.accepts \cap DOMAIN stream :
                   stream[ev].kind = "toDevice" /\ c.user \in {Anyone, stream[ev].user}}
  BY LookInto, Arrays DEF Passes, SyncToDeviceHas
<1>3. \A n : Asks(c, n) <=>
        stream[n].kind = "toDevice" /\ c.user \in {Anyone, stream[n].user} /\ n \in c.accepts
  BY DEF Asks
<1>4. \A n \in w.from + 1 .. w.to : n \in Known(w) /\ n \in DOMAIN stream
  BY KnownWindow
<1>5. QED
  BY <1>1, <1>2, <1>3, <1>4, Zenon DEF PassRight, FailRight

\* SyncUsersTyping judges right: the last typing notification of a window is told.
LEMMA TypingJudged ==
  ASSUME NEW w, ResponseTo(w), NEW c, c.check = "typing"
  PROVE  PassRight(c, w) /\ FailRight(c, w)
<1> DEFINE is == {n \in w.from + 1 .. w.to : stream[n].kind = "typing"}
<1>1. Array(w, <<"join", "ephemeral">>) =
        IF Membership(stream, w.to, Me) = "join" THEN {LastPos(is)} \ {0} ELSE {}
  BY JoinArray, Arrays DEF Array, JoinEvents, ResponseTo
<1>2. Passes(c, stream, Result(w)) <=>
        \E n \in Array(w, <<"join", "ephemeral">>) :
          n \in {ev \in DOMAIN stream : stream[ev].kind = "typing" /\ stream[ev].users = c.users}
  BY LookInto, Arrays DEF Passes, SyncUsersTyping, SyncEphemeralHas
<1>3. \A n : Asks(c, n) <=> stream[n].kind = "typing" /\ stream[n].users = c.users
  BY DEF Asks
<1>4. Membership(stream, w.to, Me) = "join" \/ Excepted(c, w)
  BY DEF Excepted
<1>5. \A n \in w.from + 1 .. w.to : n \in Known(w) /\ n \in DOMAIN stream /\ n # 0
  BY KnownWindow DEF ResponseTo, Window
<1>6. w.to \in Nat /\ is \in SUBSET (1 .. w.to)
  BY DEF ResponseTo, Window
<1>7. LastPos(is) # 0 => LastPos(is) \in w.from + 1 .. w.to
  BY <1>6, LastPosFact
<1>8. ASSUME NEW n \in w.from + 1 .. w.to, Asks(c, n), InForce(n, w.to) PROVE n = LastPos(is)
  <2>1. n \in is /\ \A m \in n + 1 .. w.to : m \notin is
    BY <1>3, <1>8 DEF InForce, Supersedes
  <2>2. QED
    BY <1>6, <2>1, LastPosFact
<1> HIDE DEF is
<1>9. PassRight(c, w)
  BY <1>1, <1>2, <1>3, <1>5, <1>7 DEF PassRight
<1>10. FailRight(c, w)
  BY <1>1, <1>2, <1>3, <1>4, <1>5, <1>8 DEF FailRight
<1>11. QED
  BY <1>9, <1>10

\* SyncPresenceHas judges right: the last presence of a user in a window is told.
LEMMA PresenceJudged ==
  ASSUME NEW w, ResponseTo(w), NEW c, c.check = "presence"
  PROVE  PassRight(c, w) /\ FailRight(c, w)
<1> DEFINE pos(u) == PresencePos(stream, w.from, w.to, u)
           all == Array(w, <<"presence">>)
           own == {ev \in all : stream[ev].user = c.user}
<1>1. all = {pos(u) : u \in Users} \ {0}
  BY TopArray DEF Array, TopEvents
<1>2. Passes(c, stream, Result(w)) <=>
        own # {} /\ c.presence \in {Anyone, stream[Min(own)].presence} /\ Min(own) \in c.accepts
  <2>1. <<"presence">> \in TopPaths \cup RoomPaths
    BY Arrays
  <2>2. <<"presence">> \in DOMAIN Result(w) <=> all # {}
    BY <2>1 DEF Result, Response, Array
  <2>3. all # {} => Result(w)[<<"presence">>] = all
    BY <2>1 DEF Result, Response, Array
  <2>4. own # {} => all # {}
    OBVIOUS
  <2>5. Passes(c, stream, Result(w)) <=> SyncPresenceHas(c, stream, Result(w))
    BY DEF Passes
  <2> HIDE DEF all
  <2>6. QED
    BY <2>2, <2>3, <2>4, <2>5 DEF SyncPresenceHas
<1>3. \A n : Asks(c, n) <=> /\ stream[n].kind = "presence" /\ stream[n].user = c.user
                            /\ c.presence \in {Anyone, stream[n].presence} /\ n \in c.accepts
  BY DEF Asks
<1>4. \A n \in w.from + 1 .. w.to : n \in Known(w) /\ n \in Nat /\ n # 0
  BY KnownWindow DEF ResponseTo, Window
<1>5. \A n \in all : n \in w.from + 1 .. w.to /\ stream[n].kind = "presence" /\ n = pos(stream[n].user)
  BY <1>1, PresencePosFact DEF ResponseTo
<1> HIDE DEF all
<1>6. own \in SUBSET Nat
  BY <1>4, <1>5
<1>7. own # {} => Min(own) \in own
  BY <1>6, MinFact
<1>8. PassRight(c, w)
  BY <1>2, <1>3, <1>4, <1>5, <1>7 DEF PassRight
<1>9. ASSUME NEW n \in w.from + 1 .. w.to, Asks(c, n), InForce(n, w.to)
      PROVE  Passes(c, stream, Result(w))
  <2>1. stream[n].kind = "presence" /\ stream[n].user = c.user
    BY <1>3, <1>9
  <2>2. \A m \in n + 1 .. w.to : ~(stream[m].kind = "presence" /\ stream[m].user = c.user)
    BY <1>9, <2>1 DEF InForce, Supersedes
  <2>3. pos(c.user) = n
    BY <2>1, <2>2, PresencePosFact DEF ResponseTo
  <2>4. c.user \in Users
    <3>1. stream[n] \in Updates
      BY DEF ResponseTo, Window
    <3>2. QED
      BY <2>1, <3>1, UpdateFacts
  <2>5. n \in own
    BY <1>1, <1>4, <2>1, <2>3, <2>4
  <2>6. \A m \in own : m = n
    BY <1>5, <2>3
  <2>7. Min(own) = n
    BY <1>7, <2>5, <2>6
  <2>8. QED
    BY <1>2, <1>3, <1>9, <2>5, <2>7
<1>10. FailRight(c, w)
  BY <1>9 DEF FailRight
<1>11. QED
  BY <1>8, <1>10

\* The last change of Me's membership in a window is the last one there is.
LEMMA OwnMembership ==
  ASSUME NEW s, NEW from, NEW to, Window(s, from, to), NEW n \in from + 1 .. to, IsMember(Me, s[n]),
         \A m \in n + 1 .. to : ~IsMember(Me, s[m])
  PROVE  MemberPos(s, from, to, Me) = n /\ n # 0 /\ Membership(s, to, Me) = s[n].membership
<1>1. Window(s, 0, to) /\ n \in 0 + 1 .. to /\ n # 0
  BY DEF Window
<1>2. MemberPos(s, from, to, Me) = n
  BY MemberPosFact
<1>3. MemberPos(s, 0, to, Me) = n
  BY <1>1, MemberPosFact
<1>4. QED
  BY <1>1, <1>2, <1>3 DEF Membership

\* The event with which Me left is in the timeline of the room.
LEMMA LeaveTold ==
  ASSUME NEW w, ResponseTo(w), Membership(stream, w.to, Me) \in {"leave", "ban"}, w.from # 0,
         MemberPos(stream, w.from, w.to, Me) # 0
  PROVE  MemberPos(stream, w.from, w.to, Me) \in Array(w, <<"leave", "timeline">>)
<1> DEFINE n == MemberPos(stream, w.from, w.to, Me)
           after == Calls[w.call].after
<1>1. Array(w, <<"leave", "timeline">>) = LeaveEvents(stream, "timeline", w.from, w.to, after)
  BY LeaveArray, Arrays DEF Array, ResponseTo
<1>2. LeaveEvents(stream, "timeline", w.from, w.to, after) = RoomEvents(stream, "timeline", w.from, n, after)
  BY DEF LeaveEvents
<1>3. RoomEvents(stream, "timeline", w.from, n, after) = TimelinePos(stream, w.from, n)
  <2>1. "timeline" \notin StateAfterKeys
    BY SyncAssumption DEF StateAfterNames
  <2>2. QED
    BY <2>1 DEF RoomEvents
<1>4. n \in w.from + 1 .. w.to /\ IsMember(Me, stream[n]) /\ w.from \in Nat
  BY MemberPosFact DEF ResponseTo, Window
<1> HIDE DEF n
<1>5. {j \in n .. n : RoomEvent(stream[j])} = {n}
  BY <1>4 DEF IsMember, RoomEvent
<1>6. Cardinality({n}) = 1
  BY FS_Singleton
<1>7. InTimeline(stream, n, n)
  BY <1>5, <1>6, SyncAssumption DEF InTimeline
<1>8. n \in TimelinePos(stream, w.from, n)
  BY <1>4, <1>7 DEF TimelinePos, IsMember, RoomEvent
<1>9. QED
  BY <1>1, <1>2, <1>3, <1>8 DEF n

\* The events of a room that Me has left are new.
LEMMA LeaveKnown ==
  ASSUME NEW w, ResponseTo(w), NEW key \in {"timeline", "state"}
  PROVE  \A n \in Array(w, <<"leave", key>>) : n \in Known(w)
<1> DEFINE own == MemberPos(stream, w.from, w.to, Me)
           after == Calls[w.call].after
<1>1. Array(w, <<"leave", key>>) \subseteq LeaveEvents(stream, key, w.from, w.to, after)
  BY LeaveArray, Arrays DEF Array, ResponseTo
<1>2. CASE w.from = 0 \/ own = 0
  BY <1>1, <1>2 DEF LeaveEvents
<1>3. CASE ~(w.from = 0 \/ own = 0)
  <2>1. LeaveEvents(stream, key, w.from, w.to, after) = RoomEvents(stream, key, w.from, own, after)
    BY <1>3 DEF LeaveEvents
  <2>2. own \in w.from + 1 .. w.to
    BY <1>3, MemberPosFact DEF ResponseTo
  <2>3. Window(stream, w.from, own) /\ after \in BOOLEAN
    BY <2>2 DEF ResponseTo, Window
  <2> HIDE DEF own
  <2>4. \A n \in RoomEvents(stream, key, w.from, own, after) : n \in w.from + 1 .. own
    BY <2>3, RoomEventsFact
  <2>5. \A n \in w.from + 1 .. own : n \in w.from + 1 .. w.to
    BY <2>2, <2>3 DEF Window, ResponseTo
  <2>6. QED
    BY <1>1, <2>1, <2>4, <2>5, KnownWindow
<1>4. QED
  BY <1>2, <1>3

\* The events that a membership check accepts.
Accepted(c) ==
  {ev \in c.accepts \cap DOMAIN stream : IsMember(c.user, stream[ev]) /\ stream[ev].membership = c.membership}

\* What a membership check accepts, in terms of the stream.
LEMMA MembershipAsks ==
  ASSUME NEW w, ResponseTo(w), NEW c, c.check = "membership", NEW n
  PROVE  /\ n \in Accepted(c) => Asks(c, n)
         /\ n \in w.from + 1 .. w.to /\ Asks(c, n) => n \in Accepted(c)
         /\ n \in w.from + 1 .. w.to /\ Asks(c, n) /\ InForce(n, w.to) =>
              /\ IsMember(c.user, stream[n]) /\ stream[n].membership = c.membership
              /\ \A m \in n + 1 .. w.to : ~IsMember(c.user, stream[m])
<1>1. Asks(c, n) <=> IsMember(c.user, stream[n]) /\ stream[n].membership = c.membership /\ n \in c.accepts
  BY DEF Asks
<1>2. n \in w.from + 1 .. w.to => n \in DOMAIN stream
  BY KnownWindow
<1>3. IsMember(c.user, stream[n]) /\ InForce(n, w.to) => \A m \in n + 1 .. w.to : ~IsMember(c.user, stream[m])
  BY DEF InForce, Supersedes, IsMember
<1>4. QED
  BY <1>1, <1>2, <1>3, Zenon DEF Accepted

\* Where syncMembershipIn looks.
LEMMA MembershipLooks ==
  ASSUME NEW w, NEW c, c.check = "membership", c.membership \in Memberships
  PROVE  LET has(path) == \E n \in Array(w, path) : n \in Accepted(c)
             pass == Passes(c, stream, Result(w))
         IN /\ (c.user # Me \/ c.membership = "join") =>
                 (pass <=> has(<<"join", "state">>) \/ has(<<"join", "timeline">>))
            /\ (c.user = Me /\ c.membership \in {"leave", "ban"}) =>
                 (pass <=> has(<<"leave", "state">>) \/ has(<<"leave", "timeline">>))
            /\ (c.user = Me /\ c.membership = "invite") => (pass <=> has(<<"invite", "invite_state">>))
            /\ (c.user = Me /\ c.membership = "knock") => (pass <=> has(<<"knock", "knock_state">>))
<1> DEFINE has(path) == \E n \in Array(w, path) : n \in Accepted(c)
           looks(path) == checkArrayElements(Result(w), path, Accepted(c))
           pass == Passes(c, stream, Result(w))
<1>1. pass <=> \/ looks(<<roomTypeKey(c), stateKey(c)>>)
               \/ (c.membership \in {"join", "leave", "ban"} \/ c.user # Me) /\ looks(<<roomTypeKey(c), "timeline">>)
  BY DEF Passes, syncMembershipIn, Accepted
<1>2. \A path \in TopPaths \cup RoomPaths : looks(path) <=> has(path)
  BY LookInto
<1> HIDE DEF has, looks, pass
<1>3. /\ <<"join", "state">> \in RoomPaths /\ <<"join", "timeline">> \in RoomPaths
      /\ <<"leave", "state">> \in RoomPaths /\ <<"leave", "timeline">> \in RoomPaths
      /\ <<"invite", "invite_state">> \in RoomPaths /\ <<"knock", "knock_state">> \in RoomPaths
  BY Arrays
<1>4. ASSUME c.user # Me \/ c.membership = "join"
      PROVE  pass <=> has(<<"join", "state">>) \/ has(<<"join", "timeline">>)
  <2>1. roomTypeKey(c) = "join" /\ stateKey(c) = "state"
    <3>1. CASE c.user # Me
      BY <3>1 DEF roomTypeKey, stateKey
    <3>2. CASE c.user = Me /\ c.membership = "join"
      BY <3>2 DEF roomTypeKey, stateKey
    <3>3. QED
      BY <1>4, <3>1, <3>2
  <2>2. QED
    BY <1>1, <1>2, <1>3, <1>4, <2>1
<1>5. ASSUME c.user = Me, c.membership \in {"leave", "ban"}
      PROVE  pass <=> has(<<"leave", "state">>) \/ has(<<"leave", "timeline">>)
  <2>1. roomTypeKey(c) = "leave" /\ stateKey(c) = "state"
    BY <1>5 DEF roomTypeKey, stateKey
  <2>2. QED
    BY <1>1, <1>2, <1>3, <1>5, <2>1
<1>6. ASSUME c.user = Me, c.membership = "invite"
      PROVE  pass <=> has(<<"invite", "invite_state">>)
  <2>1. roomTypeKey(c) = "invite" /\ stateKey(c) = "invite_state"
    BY <1>6 DEF roomTypeKey, stateKey
  <2>2. QED
    BY <1>1, <1>2, <1>3, <1>6, <2>1
<1>7. ASSUME c.user = Me, c.membership = "knock"
      PROVE  pass <=> has(<<"knock", "knock_state">>)
  <2>1. roomTypeKey(c) = "knock" /\ stateKey(c) = "knock_state"
    BY <1>7 DEF roomTypeKey, stateKey
  <2>2. QED
    BY <1>1, <1>2, <1>3, <1>7, <2>1
<1>8. QED
  BY <1>4, <1>5, <1>6, <1>7 DEF has, pass

\* syncMembershipIn judges right, whosever membership it asks for.
LEMMA MembershipJudged ==
  ASSUME NEW w, ResponseTo(w), NEW c, c.check = "membership", c.membership \in Memberships
  PROVE  PassRight(c, w) /\ FailRight(c, w)
<1> DEFINE has(path) == \E n \in Array(w, path) : n \in Accepted(c)
           pass == Passes(c, stream, Result(w))
           own == MemberPos(stream, w.from, w.to, Me)
           now == Membership(stream, w.to, Me)
           asked(n) == /\ n \in Accepted(c) /\ stream[n].kind = "member"
                       /\ IsMember(c.user, stream[n]) /\ stream[n].membership = c.membership
                       /\ \A m \in n + 1 .. w.to : ~IsMember(c.user, stream[m])
<1>1. SUFFICES /\ pass => \E n \in Known(w) : n \in Accepted(c)
               /\ \A n \in w.from + 1 .. w.to : asked(n) /\ ~Excepted(c, w) => pass
  <2>1. PassRight(c, w)
    BY <1>1, MembershipAsks DEF PassRight
  <2>2. FailRight(c, w)
    BY <1>1, MembershipAsks DEF FailRight, IsMember
  <2>3. QED
    BY <2>1, <2>2
<1>2. ASSUME ~Excepted(c, w)
      PROVE  /\ Calls[w.call].after = FALSE
             /\ c.user # Me => now = "join"
             /\ c.membership \in {"leave", "ban"} => w.from # 0
  BY <1>2 DEF Excepted, ResponseTo
<1>3. ASSUME NEW n \in w.from + 1 .. w.to, IsMember(Me, stream[n]),
             \A m \in n + 1 .. w.to : ~IsMember(Me, stream[m])
      PROVE  own = n /\ n # 0 /\ now = stream[n].membership
  BY <1>3, OwnMembership DEF ResponseTo
<1>4. own # 0 => own \in Known(w)
  BY MemberPosFact, KnownWindow DEF ResponseTo
<1>5. CASE c.user # Me \/ c.membership = "join"
  <2>1. pass <=> has(<<"join", "state">>) \/ has(<<"join", "timeline">>)
    BY <1>5, MembershipLooks
  <2>2. pass => \E n \in Known(w) : n \in Accepted(c)
    BY <2>1, JoinKnown
  <2>3. ASSUME NEW n \in w.from + 1 .. w.to, asked(n), ~Excepted(c, w) PROVE pass
    <3>1. now = "join" /\ Calls[w.call].after = FALSE
      BY <1>2, <1>3, <1>5, <2>3
    <3>2. \A m \in n + 1 .. w.to : ~IsMember(stream[n].user, stream[m])
      BY <2>3 DEF IsMember
    <3>3. \E key \in {"timeline", "state"} : n \in Array(w, <<"join", key>>)
      BY <2>3, <3>1, <3>2, JoinTold
    <3>4. QED
      BY <2>1, <2>3, <3>3
  <2>4. QED
    BY <2>2, <2>3
<1>6. CASE c.user = Me /\ c.membership \in {"leave", "ban"}
  <2>1. pass <=> has(<<"leave", "state">>) \/ has(<<"leave", "timeline">>)
    BY <1>6, MembershipLooks
  <2>2. pass => \E n \in Known(w) : n \in Accepted(c)
    BY <2>1, LeaveKnown
  <2>3. ASSUME NEW n \in w.from + 1 .. w.to, asked(n), ~Excepted(c, w) PROVE pass
    <3>1. own = n /\ own # 0 /\ now \in {"leave", "ban"} /\ w.from # 0
      BY <1>2, <1>3, <1>6, <2>3
    <3>2. own \in Array(w, <<"leave", "timeline">>)
      BY <3>1, LeaveTold
    <3>3. QED
      BY <2>1, <2>3, <3>1, <3>2
  <2>4. QED
    BY <2>2, <2>3
<1>7. CASE c.user = Me /\ c.membership \in {"invite", "knock"}
  <2>1. PICK path \in {<<"invite", "invite_state">>, <<"knock", "knock_state">>} :
          /\ pass <=> has(path)
          /\ Array(w, path) = IF now = c.membership THEN {own} \ {0} ELSE {}
    <3>1. CASE c.membership = "invite"
      <4>1. pass <=> has(<<"invite", "invite_state">>)
        BY <1>7, <3>1, MembershipLooks
      <4>2. Array(w, <<"invite", "invite_state">>) = IF now = "invite" THEN {own} \ {0} ELSE {}
        BY StrippedArray, Arrays DEF Array, ResponseTo
      <4>3. QED
        BY <3>1, <4>1, <4>2
    <3>2. CASE c.membership = "knock"
      <4>1. pass <=> has(<<"knock", "knock_state">>)
        BY <1>7, <3>2, MembershipLooks
      <4>2. Array(w, <<"knock", "knock_state">>) = IF now = "knock" THEN {own} \ {0} ELSE {}
        BY StrippedArray, Arrays DEF Array, ResponseTo
      <4>3. QED
        BY <3>2, <4>1, <4>2
    <3>3. QED
      BY <1>7, <3>1, <3>2
  <2>2. pass => \E n \in Known(w) : n \in Accepted(c)
    BY <2>1, <1>4
  <2>3. ASSUME NEW n \in w.from + 1 .. w.to, asked(n), ~Excepted(c, w) PROVE pass
    BY <1>3, <1>7, <2>1, <2>3
  <2>4. QED
    BY <2>2, <2>3
<1>8. QED
  BY <1>5, <1>6, <1>7 DEF Memberships

\* A response is judged right by every check there is: each of the functions
\* of client/sync.go, on each part of each stream.
LEMMA AllJudged ==
  ASSUME NEW w, ResponseTo(w), NEW c \in AllChecks
  PROVE  PassRight(c, w) /\ FailRight(c, w)
<1>1. c \in SyncCheckOpts
  BY UntilAssumption
<1>2. /\ c.check \in {"membership", "presence", "typing", "toDevice", "timeline", "state", "stateAfter",
                      "accountData", "roomAccountData"}
      /\ c.check = "membership" => c.membership \in Memberships
  BY <1>1 DEF SyncCheckOpts
<1>3. QED
  BY <1>2, TimelineJudged, StateJudged, StateAfterJudged, MembershipJudged, PresenceJudged, TypingJudged,
     ToDeviceJudged, AccountDataJudged, RoomAccountDataJudged, Zenon

\* While a response is looked at, it holds a part of the stream.
LEMMA RespIsResponse ==
  ASSUME CallInv, pc = "checking"
  PROVE  ResponseTo(resp)
<1>1. /\ scenario \in Scenarios /\ len \in 0 .. Len(stream) /\ resp \in Windows /\ resp \in seen
      /\ resp.call = call /\ IsSync(call) /\ call \in 1 .. Len(Calls)
      /\ resp.from <= resp.to
  <2>1. resp \in Own /\ Begun = call
    BY DEF CallInv, AtCall, Begun
  <2>2. QED
    BY <2>1, CallNumbers DEF CallInv, TypeOK, AtCall, WindowsBegun, Own
<1>2. stream \in Seq(Updates) /\ Len(stream) \in Nat /\ Calls \in Seq(TestCalls) /\ Len(Calls) \in Nat
  BY <1>1, UntilAssumption DEF stream, Calls
<1>3. Window(stream, resp.from, resp.to)
  BY <1>1, <1>2, WindowFacts DEF Window
<1>4. Calls[call] \in TestCalls /\ Calls[call].kind # "retry"
  BY <1>1, <1>2 DEF IsSync
<1>5. Calls[call].after \in BOOLEAN
  BY <1>4 DEF TestCalls
<1>6. QED
  BY <1>1, <1>3, <1>5 DEF ResponseTo

\* Every check function judges every response right (JudgedRight): it passes
\* only for an update it asks for, and misses none that is in force.
THEOREM ChecksJudgeRight == Spec => []JudgedRight
<1>1. CallInv => JudgedRight
  <2>1. ASSUME CallInv, pc = "checking", NEW c \in AllChecks
        PROVE  PassRight(c, resp) /\ FailRight(c, resp)
    BY <2>1, RespIsResponse, AllJudged
  <2>2. QED
    BY <2>1 DEF JudgedRight, PassRight, FailRight, Known, InForce
<1>2. QED
  BY <1>1, CallInvariant, PTL
=============================================================================
