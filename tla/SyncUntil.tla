------------------------------ MODULE SyncUntil ------------------------------
(***************************************************************************)
(* A test that waits for a homeserver: a sequence of calls of              *)
(* CSAPI.MustSyncUntil, and of CSAPI.Do with WithRetryUntil, while the     *)
(* updates they wait for arrive at the server at their own pace.           *)
(*                                                                         *)
(* A call is a record: "sync" with the check functions, whether it reuses  *)
(* the since token of the call before it and whether it asks for           *)
(* state_after; "send", which is SendEventSynced: a request for the event  *)
(* that becomes update "event" of the stream, then a "sync" for it; or     *)
(* "retry" with one condition on the state of the server.  Time is counted *)
(* in ticks.                                                               *)
(***************************************************************************)
EXTENDS SyncChecks

CONSTANTS
  Scenarios,  \* records: the stream of updates, and the calls of the test
  Timeout,    \* SyncUntilTimeout, and the timeout of WithRetryUntil
  AllChecks   \* the check functions there are

\* SendEventSynced makes an initial sync, and WithRetryUntil has one condition.
TestCalls ==
  [kind : {"sync"}, reuse : BOOLEAN, after : BOOLEAN, checks : Seq(AllChecks)]
  \cup [kind : {"send"}, event : Nat \ {0}, reuse : {FALSE}, after : {FALSE}, checks : Seq(AllChecks)]
  \cup [kind : {"retry"}, checks : {<<c>> : c \in AllChecks}]

ASSUME UntilAssumption ==
  /\ Timeout \in Nat
  /\ AllChecks \subseteq SyncCheckOpts
  /\ Scenarios \subseteq [stream : Seq(Updates), calls : Seq(TestCalls) \ {<<>>}]

VARIABLES
  scenario,  \* chosen once
  len,       \* updates that have reached the server
  call,      \* index of the call the test is in or about to make
  pc,
  since,     \* syncReq.Since
  checkers,  \* the checks that have not passed
  i,         \* the checker that is evaluated next
  elapsed,   \* ticks since the call began
  resp,      \* the window of the response that is checked
  seen       \* history: the windows of all responses

clientVars == <<call, pc, since, checkers, i, elapsed, resp, seen>>
vars == <<scenario, len, clientVars>>

stream == scenario.stream
Calls == scenario.calls
Current == Calls[call]

PCs == {"ready", "sending", "head", "syncing", "checking", "request", "timedOut", "failed"}

\* The responses by call and by the part of the stream they hold.
Windows == [call : 1 .. Len(Calls), from : 0 .. len, to : 0 .. len]

\* A "failed" test has ended by any ct.Fatalf but the one of a timeout.
TypeOK ==
  /\ len \in 0 .. Len(stream)
  /\ call \in 1 .. Len(Calls) + 1
  /\ pc \in PCs
  /\ since \in 0 .. len
  /\ i \in 1 .. Len(checkers) + 1
  /\ elapsed \in 0 .. Timeout + 1
  /\ resp \in Windows
  /\ seen \subseteq Windows

Init ==
  /\ scenario \in Scenarios
  /\ len = 0
  /\ call = 1
  /\ pc = "ready"
  /\ since = 0
  /\ checkers = <<>>
  /\ i = 1
  /\ elapsed = 0
  /\ resp = [call |-> 1, from |-> 0, to |-> 0]
  /\ seen = {}

-----------------------------------------------------------------------------
\* Something happens at the server (external): an event that the test sends not
\* before it is sent.
Update ==
  /\ len < Len(stream)
  /\ \A k \in DOMAIN Calls :
       (Calls[k].kind = "send" /\ Calls[k].event = len + 1) =>
         call > k \/ (call = k /\ pc # "ready")
  /\ len' = len + 1
  /\ UNCHANGED <<scenario, call, pc, since, checkers, i, elapsed, resp, seen>>

\* Time passes (external).
Tick ==
  /\ pc \in {"head", "syncing", "checking", "request"}
  /\ elapsed <= Timeout
  /\ elapsed' = elapsed + 1
  /\ UNCHANGED <<scenario, len, call, pc, since, checkers, i, resp, seen>>

Fatal ==
  /\ pc' = "failed"
  /\ UNCHANGED <<scenario, len, call, since, checkers, i, elapsed, resp, seen>>

\* No response: an error of the network, or the timeout of the http.Client.
NetworkError == pc \in {"sending", "syncing", "request"} /\ Fatal

\* mustRespond2xx.  In Do with WithRetryUntil any status is for the condition.
Non2xx == pc \in {"sending", "syncing"} /\ Fatal

\* ParseJSON.
NotJSON == pc \in {"sending", "syncing"} /\ Fatal

RequestFails == NetworkError \/ Non2xx \/ NotJSON

-----------------------------------------------------------------------------
(* MustSyncUntil *)

SyncBegin ==
  /\ pc = "ready" /\ call <= Len(Calls) /\ Current.kind = "sync"
  /\ pc' = "head"
  /\ since' = IF Current.reuse THEN since ELSE 0
  /\ checkers' = Current.checks
  /\ elapsed' = 0
  /\ UNCHANGED <<scenario, len, call, i, resp, seen>>

\* Mutant: the deadline is looked at only while no response has come.
LoopHeadNoDeadline ==
  /\ pc = "head"
  /\ pc' = IF elapsed > Timeout /\ seen = {} THEN "timedOut" ELSE "syncing"
  /\ UNCHANGED <<scenario, len, call, since, checkers, i, elapsed, resp, seen>>

\* The deadline is looked at before every request.
LoopHead ==
  /\ pc = "head"
  /\ pc' = IF elapsed > Timeout THEN "timedOut" ELSE "syncing"
  /\ UNCHANGED <<scenario, len, call, since, checkers, i, elapsed, resp, seen>>

\* Mutant: the since token of the request is not advanced.
SyncKeepsSince(to) ==
  /\ pc = "syncing"
  /\ resp' = [call |-> call, from |-> since, to |-> to]
  /\ seen' = seen \cup {resp'}
  /\ i' = 1
  /\ pc' = "checking"
  /\ UNCHANGED <<scenario, len, call, since, checkers, elapsed>>

\* MustSync: the server answers with what it has processed up to to, with
\* nothing new if its own timeout was first.
MustSync(to) ==
  /\ pc = "syncing"
  /\ resp' = [call |-> call, from |-> since, to |-> to]
  /\ seen' = seen \cup {resp'}
  /\ since' = to
  /\ i' = 1
  /\ pc' = "checking"
  /\ UNCHANGED <<scenario, len, call, checkers, elapsed>>

Result(w) == Response(stream, w.from, w.to, Calls[w.call].after)

\* Mutant: the index is not stepped back after a removal.
CheckSkipsNext ==
  /\ pc = "checking"
  /\ i <= Len(checkers)
  /\ checkers' = IF Passes(checkers[i], stream, Result(resp)) THEN RemoveAt(checkers, i) ELSE checkers
  /\ i' = IF i + 1 > Len(checkers') THEN Len(checkers') + 1 ELSE i + 1
  /\ UNCHANGED <<scenario, len, call, pc, since, elapsed, resp, seen>>

\* One check function; one that passes is removed.
Check ==
  /\ pc = "checking"
  /\ i <= Len(checkers)
  /\ IF Passes(checkers[i], stream, Result(resp))
       THEN checkers' = RemoveAt(checkers, i) /\ UNCHANGED i
       ELSE i' = i + 1 /\ UNCHANGED checkers
  /\ UNCHANGED <<scenario, len, call, pc, since, elapsed, resp, seen>>

\* All have been evaluated: return the token, or go on.
CheckEnd ==
  /\ pc = "checking"
  /\ i = Len(checkers) + 1
  /\ i' = 1
  /\ IF checkers = <<>>
       THEN pc' = "ready" /\ call' = call + 1
       ELSE pc' = "head" /\ UNCHANGED call
  /\ UNCHANGED <<scenario, len, since, checkers, elapsed, resp, seen>>

-----------------------------------------------------------------------------
(* SendEventSynced, and Do with WithRetryUntil *)

\* Unsafe_SendEventUnsynced.
SendBegin ==
  /\ pc = "ready" /\ call <= Len(Calls) /\ Current.kind = "send"
  /\ pc' = "sending"
  /\ since' = 0
  /\ checkers' = Current.checks
  /\ UNCHANGED <<scenario, len, call, i, elapsed, resp, seen>>

\* The server returns the ID of the event, and an initial sync waits for it.
SendAnswer ==
  /\ pc = "sending"
  /\ pc' = "head"
  /\ elapsed' = 0
  /\ UNCHANGED <<scenario, len, call, since, checkers, i, resp, seen>>

\* A condition on the state of the server after n updates.
Condition(c, n) == Membership(stream, n, c.user) = c.membership

RetryBegin ==
  /\ pc = "ready" /\ call <= Len(Calls) /\ Current.kind = "retry"
  /\ pc' = "request"
  /\ checkers' = Current.checks
  /\ elapsed' = 0
  /\ UNCHANGED <<scenario, len, call, since, i, resp, seen>>

\* An answer that meets the condition is returned, whatever the time; the
\* deadline is looked at after one that does not.  The timeout is a positive
\* duration, of Timeout whole ticks: with one of zero Do would not ask for the
\* condition at all, which no test does.
RetryAnswer(n) ==
  /\ pc = "request"
  /\ resp' = [call |-> call, from |-> 0, to |-> n]
  /\ seen' = seen \cup {resp'}
  /\ IF Condition(checkers[1], n)
       THEN pc' = "ready" /\ call' = call + 1 /\ checkers' = <<>>
       ELSE /\ pc' = IF elapsed > Timeout THEN "timedOut" ELSE "request"
            /\ UNCHANGED <<call, checkers>>
  /\ UNCHANGED <<scenario, len, since, i, elapsed>>

-----------------------------------------------------------------------------
\* The test is over.
Finished ==
  /\ pc \in {"timedOut", "failed"} \/ (pc = "ready" /\ call > Len(Calls))
  /\ UNCHANGED vars

Answer == SendAnswer \/ (\E to \in since .. len : MustSync(to)) \/ (\E n \in 0 .. len : RetryAnswer(n))

ClientStep == SyncBegin \/ LoopHead \/ Check \/ CheckEnd \/ SendBegin \/ RetryBegin

Next == Update \/ Tick \/ ClientStep \/ Answer \/ RequestFails \/ Finished

Spec == Init /\ [][Next]_vars

\* The client is never blocked but in a request, which http.Client.Timeout
\* ends, and time passes.  Nothing is assumed of the homeserver.
FairSpec ==
  Spec /\ WF_clientVars(ClientStep) /\ WF_clientVars(Answer \/ RequestFails) /\ WF_clientVars(Tick)
-----------------------------------------------------------------------------
(* Properties *)

\* The call that was begun last, 0 if there is none.
Begun == IF pc = "ready" THEN call - 1 ELSE call

IsSync(k) == Calls[k].kind \in {"sync", "send"}

Satisfied(c, w) ==
  IF IsSync(w.call) THEN Passes(c, stream, Result(w)) ELSE Condition(c, w.to)

\* "Check functions are unordered and independent.  Once a check function
\* returns true it is removed from the list" (sync.go:85-86), and WithRetryUntil
\* "will retry the request until the provided function returns true": whenever
\* a call waits, gives up or has returned, the checks that are left are exactly
\* those that no response of the call has satisfied.
ChecksSettled ==
  (Begun # 0 /\ pc \in {"head", "ready", "request", "timedOut"}) =>
    LET own == {w \in seen : w.call = Begun}
    IN ToSet(checkers) = {c \in ToSet(Calls[Begun].checks) : \A w \in own : ~Satisfied(c, w)}

SyncInv == TypeOK /\ ChecksSettled

\* The sync calls whose since tokens are chained to the last one's.
Chain ==
  {k \in 1 .. Begun : IsSync(k) /\ \A j \in k + 1 .. Begun : IsSync(j) => Calls[j].reuse}

\* "advancing the since token" (sync.go:59): the calls of a chain are told of
\* every update up to their token, and of none twice.
TokenMeansDelivered ==
  LET told == {w \in seen : w.call \in Chain}
  IN /\ Chain # {} => UNION {w.from + 1 .. w.to : w \in told} = 1 .. since
     /\ \A v, w \in told : v = w \/ v.to <= w.from \/ w.to <= v.from

\* Update n is what check c asks for.
Asks(c, n) ==
  LET x == stream[n]
  IN CASE c.check = "membership" ->
            IsMember(c.user, x) /\ x.membership = c.membership /\ n \in c.accepts
       [] c.check = "presence" ->
            /\ x.kind = "presence" /\ x.user = c.user
            /\ c.presence \in {Anyone, x.presence} /\ n \in c.accepts
       [] c.check = "typing" -> x.kind = "typing" /\ x.users = c.users
       [] c.check = "toDevice" ->
            x.kind = "toDevice" /\ c.user \in {Anyone, x.user} /\ n \in c.accepts
       [] c.check = "timeline" -> x.kind \in {"member", "message"} /\ n \in c.accepts
       [] c.check \in {"state", "stateAfter"} -> x.kind = "member" /\ n \in c.accepts
       [] OTHER -> x.kind = c.check /\ n \in c.accepts

\* A later update y takes the place of x.
Supersedes(y, x) ==
  /\ y.kind = x.kind
  /\ \/ x.kind = "typing"
     \/ x.kind \in {"member", "presence"} /\ x.user = y.user

\* What the documentation excepts: leaving is not seen by an initial sync,
\* other users only in a room one is joined to, and the sections "state" and
\* "timeline" hold a part of the updates each.
Excepted(c, w) ==
  LET joined == Membership(stream, w.to, Me) = "join"
      after == Calls[w.call].after
  IN \/ c.check \in {"timeline", "state"}
     \/ c.check \in {"typing", "roomAccountData"} /\ ~joined
     \/ c.check = "stateAfter" /\ ~(after /\ joined)
     \/ c.check = "membership" /\ \/ after
                                  \/ c.user # Me /\ ~joined
                                  \/ c.membership \in {"leave", "ban"} /\ w.from = 0

\* A check passes on a response only for an update it asks for, which is new
\* since the token unless Me has just joined (and gets the room's state), and
\* it passes whenever such an update is in the response's window and still in
\* force at its end, wherever the server has put it (sync.go:310-444).
JudgedRight ==
  pc = "checking" =>
    LET result == Result(resp)
        joins == MemberPos(stream, resp.from, resp.to, Me) # 0
        new == resp.from + 1 .. resp.to
        inForce(n) == \A m \in n + 1 .. resp.to : ~Supersedes(stream[m], stream[n])
    IN \A c \in AllChecks :
         IF Passes(c, stream, result)
           THEN \E n \in IF joins THEN 1 .. resp.to ELSE new : Asks(c, n)
           ELSE Excepted(c, resp) \/ \A n \in new : ~(Asks(c, n) /\ inForce(n))

\* "Will time out after CSAPI.SyncUntilTimeout" (sync.go:95): every call ends,
\* whatever the homeserver does.
CallEnds == pc \in {"sending", "head", "request"} ~> pc \in {"ready", "timedOut", "failed"}
=============================================================================
