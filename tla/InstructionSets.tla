-------------------------- MODULE InstructionSets --------------------------
(***************************************************************************)
(* How instruction.Runner turns the homeservers of a blueprint, or custom  *)
(* instructions, into sets of HTTP requests.  The requests of a set run in *)
(* order, the sets of a phase run concurrently, and requests refer to      *)
(* values of earlier responses by keys of the runner's lookup table.       *)
(*                                                                         *)
(* A homeserver is a record of its name, its users (localpart, and whether *)
(* they have a display name; a second entry is a second device) and its    *)
(* rooms (creator, ref, events).  An event is of a kind: "join", "alias"   *)
(* (m.room.canonical_alias) or "other", and has a sender.                  *)
(***************************************************************************)
EXTENDS Naturals, Sequences, SequencesExt

CONSTANTS
  UserConcurrency,  \* sets of user instructions (12)
  RoomConcurrency,  \* sets of room instructions (40)
  UserHash,         \* indexFor of user names, in 1 .. UserConcurrency
  RoomHash,         \* indexFor of room indices, in 1 .. RoomConcurrency
  NoKey             \* no user, no ref, no key

\* Keys of the lookup table.
UserKey(u, h) == <<"user", u, h>>
RoomIndexKey(n) == <<"room", n>>
RefKey(ref) == <<"room_ref", ref>>
RefServerKey(ref) == <<"room_ref_server", ref>>

\* A request.  The code loads the keys in "reads" when it forms the request
\* and puts "value" under the keys in "stores" when it is answered.  The
\* other fields say what the request is for: it makes sense only after the
\* requests that store "requires", and if it is about a room ("room" is the
\* key it uses) then about the one that "meant" stands for.
Request(reads, room, meant, requires, stores, value) ==
  [reads |-> reads, room |-> room, meant |-> meant, requires |-> requires,
   stores |-> stores, value |-> value]

-----------------------------------------------------------------------------
(* calculateUserInstructionSets *)

instructionRegister(h, u) ==
  Request({}, NoKey, NoKey, {}, {UserKey(u, h)}, <<"token", u, h>>)

\* The homeserver knows the user only after the registration.
instructionLogin(h, u) ==
  Request({}, NoKey, NoKey, {UserKey(u, h)}, {UserKey(u, h)}, <<"token", u, h>>)

instructionDisplayName(h, u) ==
  Request({UserKey(u, h)}, NoKey, NoKey, {}, {}, <<"none">>)

\* The requests of the n-th user entry of hs.
UserRequests(hs, n) ==
  LET u == hs.users[n].localpart IN
  IF \E m \in 1 .. n - 1 : hs.users[m].localpart = u
    THEN <<instructionLogin(hs.name, u)>>
    ELSE <<instructionRegister(hs.name, u)>> \o
           IF hs.users[n].display THEN <<instructionDisplayName(hs.name, u)>> ELSE <<>>

\* The set of the n-th user entry.
UserIndex(hs, n) == UserHash[hs.users[n].localpart]

calculateUserInstructionSets(hs) ==
  [i \in 1 .. UserConcurrency |->
     FlattenSeq([n \in 1 .. Len(hs.users) |->
       IF UserIndex(hs, n) = i THEN UserRequests(hs, n) ELSE <<>>])]

-----------------------------------------------------------------------------
(* calculateRoomInstructionSets *)

\* The key that the substitution of $roomId uses for the n-th room of hs.
RoomSubstitution(hs, n) ==
  LET room == hs.rooms[n] IN
  IF room.ref # NoKey THEN RefKey(room.ref) ELSE RoomIndexKey(n)

CreateRequests(hs, n) ==
  LET room == hs.rooms[n] IN
  IF room.creator = NoKey THEN <<>>
  ELSE <<Request({UserKey(room.creator, hs.name)}, NoKey, NoKey, {},
                 {RoomIndexKey(n)} \cup (IF room.ref = NoKey THEN {} ELSE {RefKey(room.ref)}),
                 <<"room_id", hs.name, n>>)>>

\* queryParams is one map for all events of the room: a join among them puts
\* the server of the room's ref into the query of each.
QueryReads(room) ==
  IF room.ref # NoKey /\ \E k \in DOMAIN room.events : room.events[k].kind = "join"
    THEN {RefServerKey(room.ref)} ELSE {}

\* An alias is created first, with a body that uses the room's index.
EventRequests(hs, n, e) ==
  LET token == UserKey(e.sender, hs.name)
      sub == RoomSubstitution(hs, n)
      server == QueryReads(hs.rooms[n])
  IN (IF e.kind = "alias"
        THEN <<Request({token, RoomIndexKey(n)} \cup server, RoomIndexKey(n), sub, {}, {}, <<"none">>)>>
        ELSE <<>>)
     \o <<Request({token, sub} \cup server, sub, sub, {}, {}, <<"none">>)>>

\* joiningSender: the creator, replaced by the sender of each join.
JoiningSender(hs, n) ==
  LET room == hs.rooms[n]
      joins == SelectSeq(room.events, LAMBDA e : e.kind = "join")
  IN IF joins # <<>> THEN joins[Len(joins)].sender ELSE room.creator

\* The request for the members of the room, to wait for the join.
MembersRequests(hs, n) ==
  LET sender == JoiningSender(hs, n) IN
  IF sender = NoKey THEN <<>>
  ELSE <<Request({UserKey(sender, hs.name), RoomIndexKey(n)},
                 RoomIndexKey(n), RoomSubstitution(hs, n), {}, {}, <<"none">>)>>

RoomRequests(hs, n) ==
  CreateRequests(hs, n)
    \o FlattenSeq([k \in 1 .. Len(hs.rooms[n].events) |->
                     EventRequests(hs, n, hs.rooms[n].events[k])])
    \o MembersRequests(hs, n)

\* The rooms the loop gets to: it returns nil at one with no creator and ref.
Unnamed(hs, n) == hs.rooms[n].creator = NoKey /\ hs.rooms[n].ref = NoKey
ReachedRooms(hs) ==
  {n \in 1 .. Len(hs.rooms) : \A m \in 1 .. n : ~Unnamed(hs, m)}

\* What the loop itself stores in the lookup table: the server of each ref.
StoredServers(hs) ==
  {<<RefServerKey(hs.rooms[n].ref), <<"server", hs.name>>>> :
     n \in {m \in ReachedRooms(hs) : hs.rooms[m].creator # NoKey /\ hs.rooms[m].ref # NoKey}}

calculateRoomInstructionSets(hs) ==
  IF \E n \in 1 .. Len(hs.rooms) : Unnamed(hs, n) THEN <<>>
  ELSE [i \in 1 .. RoomConcurrency |->
          FlattenSeq([n \in 1 .. Len(hs.rooms) |->
            IF RoomHash[n] = i THEN RoomRequests(hs, n) ELSE <<>>])]

-----------------------------------------------------------------------------
(* createInstructionSets: custom instructions, records of a user, the keys  *)
(* they read and store and the value that is stored                         *)

toInstruction(in, h) ==
  Request({UserKey(in.user, h)} \cup in.reads, NoKey, NoKey, {}, in.stores, in.value)

createInstructionSets(concurrency, instrs, h) ==
  CASE concurrency = "all" -> [k \in 1 .. Len(instrs) |-> <<toInstruction(instrs[k], h)>>]
    [] concurrency = "none" -> <<[k \in 1 .. Len(instrs) |-> toInstruction(instrs[k], h)]>>
    [] concurrency = "per_user" ->
         [i \in 1 .. UserConcurrency |->
            FlattenSeq([k \in 1 .. Len(instrs) |->
              IF UserHash[instrs[k].user] = i
                THEN <<toInstruction(instrs[k], h)>> ELSE <<>>])]

-----------------------------------------------------------------------------
\* A phase is a group of sets that is spawned and waited for.  Run(hs) is the
\* phase of the users and then the phase of the rooms.
RunPhases(hs) ==
  <<[sets |-> calculateUserInstructionSets(hs), stored |-> {}],
    [sets |-> calculateRoomInstructionSets(hs), stored |-> StoredServers(hs)]>>

RunInstructionsPhase(concurrency, instrs, h) ==
  [sets |-> createInstructionSets(concurrency, instrs, h), stored |-> {}]
=============================================================================
