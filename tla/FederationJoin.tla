--------------------------- MODULE FederationJoin ---------------------------
(***************************************************************************)
(* One Matrix room on several of Complement's federation servers: a room   *)
(* of MustMakeRoom on Resident, which other servers join with MustJoinRoom *)
(* (make_join, send_join), knock on, leave, change and tell each other of  *)
(* in /send transactions, in any order and any number of times.            *)
(*                                                                         *)
(* A process is a call of the test together with the handler goroutine     *)
(* that serves its request, since the one waits for the other.  A step is  *)
(* a critical section of StateMutex or TimelineMutex, except that creating *)
(* an event is one step: AuthEvents reads every tuple in a critical        *)
(* section of its own, and Depth and ForwardExtremities are read and       *)
(* written without a lock, which the module ServerRoom splits.  This only  *)
(* matters to events made while calls overlap: ChainsClosed holds whatever *)
(* auth events they have, the other properties exempt overlapping calls.   *)
(*                                                                         *)
(* Events are numbered as they are signed; 0 is no event.  s.rooms holds   *)
(* pointers, so ServerRoom values are numbered too, and 0 is a nil one.    *)
(***************************************************************************)
EXTENDS Naturals, Sequences, FiniteSets, SequencesExt

CONSTANTS
  Procs,         \* calls that run at the same time
  Resident,      \* the server that made the room
  Creator,       \* its user, who created the room
  Guests,        \* the users of other servers
  ServerOf,      \* [Guests \cup {Creator} -> server name]
  Configs,       \* records: room version, options of the handlers, and bounds:
                 \* how many calls of each kind there are, and whether they overlap
  Changes,       \* the (type, state_key) pairs of the events that a test creates
  Batches,       \* the PDUs of a transaction: sequences of events; 0 is not an event
  MaxPDUs        \* the limit of PDUs in a transaction (50)

Users == Guests \cup {Creator}
ServerNames == {ServerOf[u] : u \in Users}
Kinds == {"create", "join", "knock", "leave", "transaction", "eventAuth"}

Create == <<"m.room.create">>
JoinRules == <<"m.room.join_rules">>
PowerLevels == <<"m.room.power_levels">>
Message == <<"m.room.message">>
Member(u) == <<"m.room.member", u>>

\* The (type, state_key) pairs of state events.
Tuples == {Create, JoinRules, PowerLevels} \cup {Member(u) : u \in Users}

IsMember(tuple) == tuple[1] = "m.room.member"

ASSUME JoinAssumption ==
  /\ Creator \notin Guests
  /\ ServerOf[Creator] = Resident
  /\ \A u \in Guests : ServerOf[u] # Resident
  /\ Configs \subseteq [domainless : BOOLEAN, partial : BOOLEAN, omitServers : BOOLEAN,
                          overlap : BOOLEAN, calls : [Kinds -> Nat]]
  /\ Changes \subseteq Tuples \cup {Message}
  /\ Batches \subseteq Seq(Nat)
  /\ MaxPDUs \in Nat

VARIABLES
  config,   \* chosen once
  events,   \* the events signed so far
  rooms,    \* the ServerRoom values made so far
  roomOf,   \* per server: s.rooms[roomID]
  pc, loc,  \* per process: position and local variables
  ops,      \* calls so far, by kind
  answers,  \* history: /send_join and /event_auth responses
  results,  \* history: the answers of the transaction handler, by PDU
  panics,   \* history: panics
  alone     \* history, per process: no other call has overlapped with its own

coreVars == <<config, events, rooms, roomOf, pc, loc, ops, answers, results, panics>>
vars == <<coreVars, alone>>

-----------------------------------------------------------------------------
(* Events and rooms *)

\* NewServerRoom
NewServerRoom(made) ==
  [made |-> made, state |-> [k \in Tuples |-> 0], timeline |-> <<>>, depth |-> 0, extremity |-> 0]

\* gomatrixserverlib.StateNeededForProtoEvent
StateNeeded(tuple, sender, membership) ==
  IF tuple = Create
    THEN {}
    ELSE {Create, PowerLevels, Member(sender)}
         \cup (IF membership \in {"join", "invite"} THEN {JoinRules} ELSE {})
         \cup (IF IsMember(tuple) THEN {tuple} ELSE {})

\* AuthEvents: what there is of the state needed.
AuthEvents(room, needed) == {room.state[k] : k \in needed} \ {0}

ProtoEventCreator(room, domainless, tuple, sender, membership) ==
  [tuple |-> tuple,
   membership |-> membership,
   depth |-> room.depth + 1,
   prev |-> room.extremity,
   auth |-> AuthEvents(room, StateNeeded(tuple, sender, membership)
                               \ (IF domainless THEN {Create} ELSE {}))]

\* The parts of AddEvent.
ReplaceCurrentState(room, evs, e) == [room EXCEPT !.state[evs[e].tuple] = e]
AppendTimeline(room, e) == [room EXCEPT !.timeline = Append(@, e)]
SetHeads(room, evs, e) ==
  [room EXCEPT !.depth = IF evs[e].depth > @ THEN evs[e].depth ELSE @, !.extremity = e]

\* AddEvent of a state event to a room that nobody else knows.
AddEvent(room, evs, e) ==
  SetHeads(AppendTimeline(ReplaceCurrentState(room, evs, e), e), evs, e)

\* One of the InitialRoomEvents is created and added.
InitialRoomEvent(made, domainless, tuple) ==
  LET membership == IF IsMember(tuple) THEN "join" ELSE "none"
      evs == Append(made.events,
               ProtoEventCreator(made.room, domainless, tuple, Creator, membership))
  IN [events |-> evs, room |-> AddEvent(made.room, evs, Len(evs))]

\* MustMakeRoom with InitialRoomEvents, in their order.
MustMakeRoom(domainless) ==
  LET add(made, tuple) == InitialRoomEvent(made, domainless, tuple)
      empty == [events |-> <<>>, room |-> NewServerRoom(TRUE)]
  IN add(add(add(add(empty, Create), Member(Creator)), PowerLevels), JoinRules)

\* The joined servers of a state.
ServersInRoom(state, evs) ==
  {ServerOf[u] : u \in {v \in Users : state[Member(v)] # 0 /\ evs[state[Member(v)]].membership = "join"}}

\* Mutant: the auth events of the given events only ("TODO: recursively").
AuthChainShallow(evs, ids, known) ==
  LET direct == UNION {evs[e].auth : e \in ids}
  IN [chain |-> SetToSeq(direct), panic |-> ~(direct \subseteq known)]

\* The n-th iteration of the loop of AuthChainForEvents: the auth events that
\* are not in the chain come behind it, and behind the queue.
ChainStep(evs, known, b, n) ==
  LET new == evs[b.queue[n]].auth \ ToSet(b.chain)
  IN IF b.panic \/ n > Len(b.queue)
       THEN b
       ELSE [queue |-> b.queue \o SetToSeq(new), chain |-> b.chain \o SetToSeq(new),
             panic |-> ~(new \subseteq known)]

\* AuthChainForEvents over the events ids, with the events known in eventsByID.
\* bfs[n] is the state of the loop after n of its iterations.
AuthChainForEvents(evs, ids, known) ==
  LET last == Cardinality(ids) + Len(evs)
      bfs[n \in 0 .. last] ==
        IF n = 0
          THEN [queue |-> SetToSeq(ids), chain |-> <<>>, panic |-> FALSE]
          ELSE ChainStep(evs, known, bfs[n - 1], n)
  IN bfs[last]

-----------------------------------------------------------------------------
EventIds == 1 .. Len(events)
PCs == {"idle", "send", "copy", "chain", "servers", "state", "append", "heads", "pdus",
        "leaving", "answered", "returned"}

Idle == [op |-> "none", srv |-> Resident, user |-> Creator, partial |-> FALSE, ev |-> 0,
         room |-> 0, snap |-> {}, known |-> {}, chain |-> <<>>, servers |-> {}, pdus |-> <<>>]

\* snap holds the events the response is about.
TypeOK ==
  /\ config \in Configs
  /\ \A e \in EventIds :
       /\ events[e].tuple \in Tuples \cup {Message}
       /\ events[e].prev \in 0 .. e - 1 /\ events[e].auth \subseteq 1 .. e - 1
  /\ \A r \in DOMAIN rooms :
       /\ rooms[r].state \in [Tuples -> 0 .. Len(events)]
       /\ ToSet(rooms[r].timeline) \subseteq EventIds
       /\ rooms[r].extremity \in 0 .. Len(events)
  /\ roomOf \in [ServerNames -> 0 .. Len(rooms)]
  /\ pc \in [Procs -> PCs]
  /\ ops \in [Kinds -> Nat]
  /\ \A p \in Procs : pc[p] \in {"copy", "chain", "servers", "state", "append", "heads"} =>
       loc[p].room \in DOMAIN rooms

Init ==
  /\ config \in Configs
  /\ LET made == MustMakeRoom(config.domainless)
     IN events = made.events /\ rooms = <<made.room>>
  /\ roomOf = [s \in ServerNames |-> IF s = Resident THEN 1 ELSE 0]
  /\ pc = [p \in Procs |-> "idle"]
  /\ loc = [p \in Procs |-> Idle]
  /\ ops = [k \in Kinds |-> 0]
  /\ answers = {}
  /\ results = {}
  /\ panics = {}
  /\ alone = [p \in Procs |-> TRUE]

\* The next call of a process.
Begin(p, kind) ==
  /\ pc[p] = "idle"
  /\ config.overlap \/ \A q \in Procs : pc[q] = "idle"
  /\ ops[kind] < config.calls[kind]
  /\ ops' = [ops EXCEPT ![kind] = @ + 1]

Goto(p, next) == pc' = [pc EXCEPT ![p] = next]
Return(p) == Goto(p, "idle") /\ loc' = [loc EXCEPT ![p] = Idle]
RoomOf(p) == rooms[loc[p].room]

-----------------------------------------------------------------------------
(* AddEvent, by the process's steps *)

\* AddEvent of event e of evs to room r.
StartAdd(p, local, evs, e, r) ==
  /\ loc' = [loc EXCEPT ![p] = [local EXCEPT !.ev = e, !.room = r]]
  /\ Goto(p, IF evs[e].tuple = Message THEN "append" ELSE "state")

WriteState(p) ==
  /\ pc[p] = "state"
  /\ rooms' = [rooms EXCEPT ![loc[p].room] = ReplaceCurrentState(@, events, loc[p].ev)]
  /\ Goto(p, "append")
  /\ UNCHANGED <<config, events, roomOf, loc, ops, answers, results, panics>>

WriteTimeline(p) ==
  /\ pc[p] = "append"
  /\ rooms' = [rooms EXCEPT ![loc[p].room] = AppendTimeline(@, loc[p].ev)]
  /\ Goto(p, "heads")
  /\ UNCHANGED <<config, events, roomOf, loc, ops, answers, results, panics>>

\* The end of AddEvent, and the caller goes on.
WriteHeads(p) ==
  /\ pc[p] = "heads"
  /\ rooms' = [rooms EXCEPT ![loc[p].room] = SetHeads(@, events, loc[p].ev)]
  /\ \/ /\ loc[p].op = "create"
        /\ Return(p)
        /\ UNCHANGED <<roomOf, results, answers>>
     \/ \* GenerateSendJoinResponse
        /\ loc[p].op = "join"
        /\ answers' = answers \cup
             {[state |-> loc[p].snap, chain |-> loc[p].chain]}
        /\ Goto(p, "answered")
        /\ UNCHANGED <<roomOf, results, loc>>
     \/ \* HandleTransactionRequests: the result of the PDU, and the callback
        /\ loc[p].op = "transaction"
        /\ results' = results \cup {[ev |-> loc[p].ev, room |-> loc[p].room]}
        /\ Goto(p, "pdus")
        /\ UNCHANGED <<roomOf, answers, loc>>
     \/ \* MustLeaveRoom stores the room it began with
        /\ loc[p].op = "leave"
        /\ roomOf' = [roomOf EXCEPT ![loc[p].srv] = loc[p].room]
        /\ Return(p)
        /\ UNCHANGED <<results, answers>>
  /\ UNCHANGED <<config, events, ops, panics>>

-----------------------------------------------------------------------------
(* MustCreateEvent and AddEvent by the test: a membership of the sender is  *)
(* a new profile, one of another user an invite.                            *)

CreateEvent(p, s, tuple) ==
  LET r == roomOf[s]
      u == CHOOSE v \in Users : ServerOf[v] = s
      membership == CASE tuple = Member(u) -> "join"
                      [] IsMember(tuple) /\ tuple # Member(u) -> "invite"
                      [] OTHER -> "none"
      evs == Append(events, ProtoEventCreator(rooms[r], config.domainless, tuple, u, membership))
  IN /\ Begin(p, "create")
     /\ r # 0
     /\ events' = evs
     /\ StartAdd(p, [Idle EXCEPT !.op = "create", !.srv = s], evs, Len(evs), r)
     /\ UNCHANGED <<config, rooms, roomOf, answers, results, panics>>

-----------------------------------------------------------------------------
(* MustJoinRoom *)

\* MakeJoin: MakeRespMakeJoin at the resident server; the joining server signs
\* the event.
MakeJoin(p, u, partial) ==
  LET proto == ProtoEventCreator(rooms[roomOf[Resident]], config.domainless, Member(u), u, "join")
  IN /\ Begin(p, "join")
     /\ events' = Append(events, proto)
     /\ loc' = [loc EXCEPT ![p] = [Idle EXCEPT !.op = "join", !.srv = ServerOf[u], !.user = u,
                                               !.partial = partial, !.ev = Len(events')]]
     /\ Goto(p, "send")
     /\ UNCHANGED <<config, rooms, roomOf, answers, results, panics>>

\* The state list of GenerateSendJoinResponse.  Two events never share the
\* string their state keys point to, so a partial join omits every membership.
StateEvents(room, partial) ==
  {room.state[k] : k \in {t \in Tuples : ~(partial /\ IsMember(t))}} \ {0}

\* SendJoinRequestsHandler up to the state list.
SendJoin(p) ==
  /\ pc[p] = "send"
  /\ config.partial => loc[p].partial
  /\ LET r == roomOf[Resident]
     IN loc' = [loc EXCEPT ![p] = [@ EXCEPT !.room = r,
                                            !.snap = StateEvents(rooms[r], config.partial)]]
  /\ Goto(p, "copy")
  /\ UNCHANGED <<config, events, rooms, roomOf, ops, answers, results, panics>>

\* The handler refuses, or the request is lost: ct.Fatalf.
SendJoinFails(p) ==
  /\ pc[p] = "send"
  /\ Return(p)
  /\ UNCHANGED <<config, events, rooms, roomOf, ops, answers, results, panics>>

\* AuthChainForEvents takes the events of the timeline ...
CopyTimeline(p) ==
  /\ pc[p] = "copy"
  /\ loc' = [loc EXCEPT ![p].known = ToSet(RoomOf(p).timeline)]
  /\ Goto(p, "chain")
  /\ UNCHANGED <<config, events, rooms, roomOf, ops, answers, results, panics>>

\* Why a room may lack an auth event: an event of its timeline was added to it
\* without the auth events.
Gap(room) == \E i \in DOMAIN room.timeline :
  ~(events[room.timeline[i]].auth \subseteq ToSet(room.timeline))

\* Mutant: eventsByID has the events of the state only.
KnownFromState(p) == {RoomOf(p).state[k] : k \in Tuples}

\* eventsByID
EventsById(p) == loc[p].known \cup {RoomOf(p).state[k] : k \in Tuples}

\* ... then those of the state, and walks; a panic ends the handler, and the
\* request with an error.
AuthChain(p) ==
  LET result == AuthChainForEvents(events, loc[p].snap, EventsById(p))
  IN /\ pc[p] = "chain"
     /\ IF result.panic
          THEN /\ panics' = panics \cup {[op |-> loc[p].op, made |-> RoomOf(p).made,
                                          gap |-> Gap(RoomOf(p)), alone |-> alone[p]]}
               /\ Return(p)
               /\ UNCHANGED answers
          ELSE /\ IF loc[p].op = "join"
                    THEN /\ loc' = [loc EXCEPT ![p].chain = result.chain]
                         /\ Goto(p, "servers")
                         /\ UNCHANGED answers
                    ELSE /\ answers' = answers \cup {[state |-> loc[p].snap, chain |-> result.chain]}
                         /\ Return(p)
               /\ UNCHANGED panics
     /\ UNCHANGED <<config, events, rooms, roomOf, ops, results>>

\* The servers in the room before the join event.
FindServers(p) ==
  /\ pc[p] = "servers"
  /\ loc' = [loc EXCEPT ![p].servers =
               IF config.omitServers THEN {Resident} ELSE ServersInRoom(RoomOf(p).state, events)]
  /\ Goto(p, "state")
  /\ UNCHANGED <<config, events, rooms, roomOf, ops, answers, results, panics>>

\* ReplaceCurrentState of every event of ids.  They are the state of one room,
\* and so no two of them replace each other.
ReplaceStates(room, ids) ==
  [room EXCEPT !.state = [k \in Tuples |->
     IF \E x \in ids : events[x].tuple = k THEN CHOOSE x \in ids : events[x].tuple = k ELSE room.state[k]]]

\* Mutant: the state of the response is stored over the join event.
PopulateAfterJoin(ids, e) == ReplaceStates(AddEvent(NewServerRoom(FALSE), events, e), ids)

\* PopulateFromSendJoinResponse: the state events of the response, then the join.
PopulateFromSendJoinResponse(ids, e) == AddEvent(ReplaceStates(NewServerRoom(FALSE), ids), events, e)

\* The response arrives, and MustJoinRoom stores the room it makes of it ...
Populate(p) ==
  /\ pc[p] = "answered"
  /\ rooms' = Append(rooms, PopulateFromSendJoinResponse(loc[p].snap, loc[p].ev))
  /\ roomOf' = [roomOf EXCEPT ![loc[p].srv] = Len(rooms')]
  /\ Goto(p, "returned")
  /\ UNCHANGED <<config, events, loc, ops, answers, results, panics>>

\* ... or it is lost (ct.Fatalf); the resident server keeps the join.
LoseResponse(p) ==
  /\ pc[p] = "answered"
  /\ Return(p)
  /\ UNCHANGED <<config, events, rooms, roomOf, ops, answers, results, panics>>

Returned(p) ==
  /\ pc[p] = "returned"
  /\ Return(p)
  /\ UNCHANGED <<config, events, rooms, roomOf, ops, answers, results, panics>>

-----------------------------------------------------------------------------
(* MustKnockRoom and MustLeaveRoom, at a server of which nothing is known   *)
(* here but that it accepts the request.                                    *)

\* A room without events, in place of one that was there.
MustKnockRoom(p, u) ==
  /\ Begin(p, "knock")
  /\ rooms' = Append(rooms, NewServerRoom(FALSE))
  /\ roomOf' = [roomOf EXCEPT ![ServerOf[u]] = Len(rooms')]
  /\ UNCHANGED <<config, events, pc, loc, answers, results, panics>>

\* The leave event is made from the server's own room ...
LeaveBegin(p, u) ==
  LET r == roomOf[ServerOf[u]]
  IN /\ Begin(p, "leave")
     /\ r # 0
     /\ events' = Append(events, ProtoEventCreator(rooms[r], config.domainless, Member(u), u, "leave"))
     /\ loc' = [loc EXCEPT ![p] = [Idle EXCEPT !.op = "leave", !.srv = ServerOf[u], !.user = u,
                                               !.ev = Len(events'), !.room = r]]
     /\ Goto(p, "leaving")
     /\ UNCHANGED <<config, rooms, roomOf, answers, results, panics>>

\* ... and added to it after send_leave.
SendLeave(p) ==
  /\ pc[p] = "leaving"
  /\ StartAdd(p, loc[p], events, loc[p].ev, loc[p].room)
  /\ UNCHANGED <<config, events, rooms, roomOf, ops, answers, results, panics>>

SendLeaveFails(p) ==
  /\ pc[p] = "leaving"
  /\ Return(p)
  /\ UNCHANGED <<config, events, rooms, roomOf, ops, answers, results, panics>>

\* An invite is rejected: AddEvent of a nil room.
RejectInvite(p, u) ==
  /\ Begin(p, "leave")
  /\ roomOf[ServerOf[u]] = 0
  /\ panics' = panics \cup {[op |-> "reject", made |-> FALSE, gap |-> FALSE, alone |-> alone[p]]}
  /\ UNCHANGED <<config, events, rooms, roomOf, pc, loc, answers, results>>

-----------------------------------------------------------------------------
(* HandleTransactionRequests *)

\* A transaction for server s; one that is too large is refused as a whole.
TransactionBegin(p, s, batch) ==
  /\ Begin(p, "transaction")
  /\ ToSet(batch) \subseteq 0 .. Len(events)
  /\ IF Len(batch) > MaxPDUs
       THEN UNCHANGED <<pc, loc>>
       ELSE /\ loc' = [loc EXCEPT ![p] = [Idle EXCEPT !.op = "transaction", !.srv = s, !.pdus = batch]]
            /\ Goto(p, "pdus")
  /\ UNCHANGED <<config, events, rooms, roomOf, answers, results, panics>>

\* Mutant: the result of a PDU is noted before the room is looked up.
NextPDUResultFirst(p) ==
  /\ pc[p] = "pdus" /\ loc[p].pdus # <<>>
  /\ LET e == Head(loc[p].pdus)
         r == roomOf[loc[p].srv]
         local == [loc[p] EXCEPT !.pdus = Tail(@)]
     IN /\ results' = IF e = 0 THEN results ELSE results \cup {[ev |-> e, room |-> r]}
        /\ IF e = 0 \/ r = 0
             THEN loc' = [loc EXCEPT ![p] = local] /\ UNCHANGED pc
             ELSE StartAdd(p, local, events, e, r)
  /\ UNCHANGED <<config, events, rooms, roomOf, ops, answers, panics>>

\* The next PDU is skipped, or stored with AddEvent.
NextPDU(p) ==
  /\ pc[p] = "pdus" /\ loc[p].pdus # <<>>
  /\ LET e == Head(loc[p].pdus)
         r == roomOf[loc[p].srv]
         local == [loc[p] EXCEPT !.pdus = Tail(@)]
     IN IF e = 0 \/ r = 0
          THEN loc' = [loc EXCEPT ![p] = local] /\ UNCHANGED pc
          ELSE StartAdd(p, local, events, e, r)
  /\ UNCHANGED <<config, events, rooms, roomOf, ops, answers, results, panics>>

\* A PDU that is not an event may leave the parser without an event, whose ID
\* the log message asks for.
NilEventPanic(p) ==
  /\ pc[p] = "pdus" /\ loc[p].pdus # <<>> /\ Head(loc[p].pdus) = 0
  /\ roomOf[loc[p].srv] # 0
  /\ panics' = panics \cup {[op |-> "parse", made |-> FALSE, gap |-> FALSE, alone |-> alone[p]]}
  /\ Return(p)
  /\ UNCHANGED <<config, events, rooms, roomOf, ops, answers, results>>

TransactionEnd(p) ==
  /\ pc[p] = "pdus" /\ loc[p].pdus = <<>>
  /\ Return(p)
  /\ UNCHANGED <<config, events, rooms, roomOf, ops, answers, results, panics>>

-----------------------------------------------------------------------------
\* HandleEventAuthRequests: an event of the timeline; any other is a 404.
EventAuth(p, s, e) ==
  LET r == roomOf[s]
  IN /\ Begin(p, "eventAuth")
     /\ r # 0
     /\ e \in ToSet(rooms[r].timeline)
     /\ loc' = [loc EXCEPT ![p] = [Idle EXCEPT !.op = "eventAuth", !.srv = s, !.room = r, !.snap = {e}]]
     /\ Goto(p, "copy")
     /\ UNCHANGED <<config, events, rooms, roomOf, answers, results, panics>>

-----------------------------------------------------------------------------
Step(p) ==
  \/ WriteState(p) \/ WriteTimeline(p) \/ WriteHeads(p)
  \/ \E s \in ServerNames, tuple \in Changes : CreateEvent(p, s, tuple)
  \/ \E u \in Guests, partial \in BOOLEAN : MakeJoin(p, u, partial)
  \/ SendJoin(p) \/ SendJoinFails(p) \/ CopyTimeline(p) \/ AuthChain(p) \/ FindServers(p)
  \/ Populate(p) \/ LoseResponse(p) \/ Returned(p)
  \/ \E u \in Guests : MustKnockRoom(p, u) \/ LeaveBegin(p, u) \/ RejectInvite(p, u)
  \/ SendLeave(p) \/ SendLeaveFails(p)
  \/ \E s \in ServerNames, batch \in Batches : TransactionBegin(p, s, batch)
  \/ NextPDU(p) \/ NilEventPanic(p) \/ TransactionEnd(p)
  \/ \E s \in ServerNames, e \in EventIds : EventAuth(p, s, e)

\* A process is alone until another one is in a call as well, of p's step or of
\* longer.
Observe(p) ==
  LET active == {q \in Procs : pc'[q] # "idle"} \cup (IF ops' # ops THEN {p} ELSE {})
  IN alone' = [q \in Procs |-> active \subseteq {q} /\ (q \notin active \/ alone[q])]

Next == \E p \in Procs : Step(p) /\ Observe(p)

Spec == Init /\ [][Next]_vars
-----------------------------------------------------------------------------
(* Properties *)

AuthOf(ids) == UNION {events[e].auth : e \in ids}

\* "AuthChainForEvents returns all auth events for all events in the given
\* state" (server_room.go:204): the chain of every /send_join and /event_auth
\* response has each event once, contains the auth events of the state and of
\* itself, and nothing that one of them does not refer to.
ChainsClosed ==
  \A a \in answers :
    LET chain == ToSet(a.chain)
    IN Cardinality(chain) = Len(a.chain) /\ chain = AuthOf(a.state \cup chain)

\* The handlers do not panic (server_room.go:237) in a room of MustMakeRoom to
\* which no event has come before its auth events, unless a call overlaps with
\* the request.  (In a joined room they may: the auth chain of the /send_join
\* response is not stored.)
PanicsExplained ==
  \A x \in panics : x.op \in {"join", "eventAuth"} => ~x.made \/ x.gap \/ ~x.alone

\* "build the state list *before* we insert the new event", "get servers in
\* room *before* the join event" (server_room.go:505, 521): a join with which
\* nothing overlaps ends with two rooms that agree on the state (but for the
\* other users' memberships in a partial join), the forward extremity and the
\* depth; the state that was sent is without the join, and the servers listed
\* are those of that state.
JoinedView ==
  \A p \in Procs : (pc[p] = "returned" /\ alone[p]) =>
    LET here == rooms[roomOf[loc[p].srv]]
        there == rooms[roomOf[Resident]]
        sent(u) == \E e \in loc[p].snap : events[e].tuple = Member(u) /\ events[e].membership = "join"
    IN /\ \A k \in Tuples :
            here.state[k] = IF config.partial /\ IsMember(k) /\ k # Member(loc[p].user)
                              THEN 0 ELSE there.state[k]
       /\ here.extremity = there.extremity /\ here.depth = there.depth
       /\ loc[p].ev \notin loc[p].snap
       /\ loc[p].servers = IF config.omitServers THEN {Resident}
                           ELSE IF config.partial THEN loc[p].servers
                           ELSE {ServerOf[u] : u \in {v \in Users : sent(v)}}

\* "Callbacks will be fired AFTER the event has been stored onto the respective
\* ServerRoom" (handle.go:464): a PDU with a result is in the timeline of a room
\* of the server.
ResultsStored == \A x \in results : x.room # 0 /\ x.ev \in ToSet(rooms[x.room].timeline)

JoinInv == TypeOK /\ ResultsStored
=============================================================================
