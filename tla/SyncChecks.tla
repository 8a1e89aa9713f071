----------------------------- MODULE SyncChecks -----------------------------
(***************************************************************************)
(* The check functions of client/sync.go, and the /sync responses of a     *)
(* homeserver they are evaluated on.                                       *)
(*                                                                         *)
(* A stream is the sequence of updates that the homeserver has processed   *)
(* for the syncing user Me, in one room.  A since token is a position in   *)
(* it, and the position of an update serves as the ID of its event.  A     *)
(* response is a function from the paths of the JSON document that exist   *)
(* to the events of the array there, which are in the order of the stream. *)
(* A predicate that a test passes to a check is the set of event IDs it    *)
(* accepts.                                                                *)
(***************************************************************************)
EXTENDS Integers, Sequences, FiniteSets, SequencesExt

CONSTANTS
  Me,      \* the user who syncs
  Users,   \* all users
  Limit,   \* timeline events in a response (the server's choice)
  Anyone,  \* no expected presence in a presence check, no sender in a
           \* to-device check
  StateAfterKeys  \* under which names the server sends state_after

\* The stable and the unstable name of the section.
StateAfterNames == {"state_after", "org.matrix.msc4222.state_after"}

ASSUME SyncAssumption ==
  /\ Me \in Users
  /\ Limit \in Nat \ {0}
  /\ StateAfterKeys # {} /\ StateAfterKeys \subseteq StateAfterNames

Memberships == {"invite", "knock", "join", "leave", "ban"}

Updates ==
  [kind : {"member"}, user : Users, membership : Memberships]
  \cup [kind : {"message"}]
  \cup [kind : {"presence"}, user : Users, presence : {"online", "offline"}]
  \cup [kind : {"typing"}, users : SUBSET Users]
  \cup [kind : {"toDevice"}, user : Users]
  \cup [kind : {"accountData", "roomAccountData"}]

-----------------------------------------------------------------------------
(* The homeserver (external): which parts of the stream a response holds. *)

\* The last of the positions is, 0 if there is none.
LastPos(is) == IF is = {} THEN 0 ELSE Max(is)

IsMember(u, x) == x.kind = "member" /\ x.user = u

MemberPos(s, from, to, u) == LastPos({i \in from + 1 .. to : IsMember(u, s[i])})

\* The membership of u after n updates.
Membership(s, n, u) ==
  LET i == MemberPos(s, 0, n, u) IN IF i = 0 THEN "leave" ELSE s[i].membership

\* The timeline of a window up to to: the last Limit room events.
RoomEvent(x) == x.kind \in {"member", "message"}
InTimeline(s, k, to) == Cardinality({j \in k .. to : RoomEvent(s[j])}) <= Limit
TimelinePos(s, from, to) == {k \in from + 1 .. to : RoomEvent(s[k]) /\ InTimeline(s, k, to)}

\* The state section: the membership events in force before the timeline.
StatePos(s, from, to) ==
  {k \in from + 1 .. to :
     /\ s[k].kind = "member"
     /\ ~InTimeline(s, k, to)
     /\ \A j \in k + 1 .. to : IsMember(s[k].user, s[j]) => InTimeline(s, j, to)}

\* The timeline of a room, and its state: the changes before the timeline, or
\* with use_state_after those up to the end of the window.
RoomEvents(s, key, from, to, after) ==
  CASE key = "timeline" -> TimelinePos(s, from, to)
    [] key = "state" /\ ~after -> StatePos(s, from, to)
    [] key \in StateAfterKeys /\ after -> {MemberPos(s, from, to, u) : u \in Users} \ {0}
    [] OTHER -> {}

\* A room that Me joins in the window comes with its whole state.
JoinEvents(s, key, from, to, after) ==
  CASE key = "ephemeral" -> {LastPos({i \in from + 1 .. to : s[i].kind = "typing"})} \ {0}
    [] key = "account_data" -> {i \in from + 1 .. to : s[i].kind = "roomAccountData"}
    [] OTHER -> RoomEvents(s, key, IF MemberPos(s, from, to, Me) # 0 THEN 0 ELSE from, to, after)

\* A room that Me leaves is told of only to a client that has a since token,
\* and up to the event with which Me left.
LeaveEvents(s, key, from, to, after) ==
  LET own == MemberPos(s, from, to, Me)
  IN IF from = 0 \/ own = 0 THEN {} ELSE RoomEvents(s, key, from, own, after)

\* Presence is the latest of every user.
PresencePos(s, from, to, u) ==
  LastPos({i \in from + 1 .. to : s[i].kind = "presence" /\ s[i].user = u})

TopEvents(s, key, from, to) ==
  CASE key = "presence" -> {PresencePos(s, from, to, u) : u \in Users} \ {0}
    [] key = "to_device" -> {i \in from + 1 .. to : s[i].kind = "toDevice"}
    [] key = "account_data" -> {i \in from + 1 .. to : s[i].kind = "accountData"}

TopPaths == {<<"presence">>, <<"to_device">>, <<"account_data">>}

RoomPaths ==
  {<<room, key>> : room \in {"join", "leave"}, key \in {"timeline", "state"} \cup StateAfterNames}
  \cup {<<"join", "ephemeral">>, <<"join", "account_data">>}
  \cup {<<"invite", "invite_state">>, <<"knock", "knock_state">>}

RoomSection(s, path, from, to, after) ==
  CASE path[1] = "join" -> JoinEvents(s, path[2], from, to, after)
    [] path[1] = "leave" -> LeaveEvents(s, path[2], from, to, after)
    [] OTHER -> {MemberPos(s, from, to, Me)} \ {0}

\* The events of the array at path.  The room is in one section, by the
\* membership that Me has at the end of the window.
Events(s, path, from, to, after) ==
  LET now == Membership(s, to, Me)
      room == IF now = "ban" THEN "leave" ELSE now
  IN CASE path \in TopPaths -> TopEvents(s, path[1], from, to)
       [] path \in RoomPaths -> IF path[1] = room THEN RoomSection(s, path, from, to, after) ELSE {}

\* The response for the updates after from up to to; empty sections are left out.
Response(s, from, to, after) ==
  [path \in {p \in TopPaths \cup RoomPaths : Events(s, p, from, to, after) # {}} |->
     Events(s, path, from, to, after)]

-----------------------------------------------------------------------------
(* The check functions.  A check c is a record: "check" names the function, *)
(* the other fields are its arguments.  s is the stream of the response.   *)

SyncCheckOpts ==
  [check : {"membership"}, user : Users, membership : Memberships, accepts : SUBSET Nat]
  \cup [check : {"presence"}, user : Users, presence : {"online", "offline", Anyone}, accepts : SUBSET Nat]
  \cup [check : {"typing"}, users : SUBSET Users]
  \cup [check : {"toDevice"}, user : Users \cup {Anyone}, accepts : SUBSET Nat]
  \cup [check : {"timeline", "state", "stateAfter", "accountData", "roomAccountData"}, accepts : SUBSET Nat]

\* The array exists and the check accepts one of its elements.
checkArrayElements(resp, path, accepted) ==
  path \in DOMAIN resp /\ resp[path] \cap accepted # {}

SyncTimelineHas(c, resp) ==
  checkArrayElements(resp, <<"join", "timeline">>, c.accepts)

SyncStateHas(c, resp) ==
  checkArrayElements(resp, <<"join", "state">>, c.accepts)

\* Either name will do.
SyncStateAfterHas(c, resp) ==
  \E key \in StateAfterNames :
    checkArrayElements(resp, <<"join", key>>, c.accepts)

SyncEphemeralHas(resp, accepted) == checkArrayElements(resp, <<"join", "ephemeral">>, accepted)

\* Exactly these users, in one typing event.
SyncUsersTyping(c, s, resp) ==
  SyncEphemeralHas(resp, {ev \in DOMAIN s : s[ev].kind = "typing" /\ s[ev].users = c.users})

SyncGlobalAccountDataHas(c, resp) ==
  checkArrayElements(resp, <<"account_data">>, c.accepts)

SyncRoomAccountDataHas(c, resp) ==
  checkArrayElements(resp, <<"join", "account_data">>, c.accepts)

SyncToDeviceHas(c, s, resp) ==
  checkArrayElements(resp, <<"to_device">>,
    {ev \in c.accepts \cap DOMAIN s : s[ev].kind = "toDevice" /\ c.user \in {Anyone, s[ev].user}})

\* The first presence event of the user decides.
SyncPresenceHas(c, s, resp) ==
  /\ <<"presence">> \in DOMAIN resp
  /\ LET own == {ev \in resp[<<"presence">>] : s[ev].user = c.user}
     IN /\ own # {}
        /\ c.presence \in {Anyone, s[Min(own)].presence}
        /\ Min(own) \in c.accepts

\* roomTypeKey: a user who looks at somebody else is joined.
roomTypeKey(c) ==
  CASE c.user = Me /\ c.membership \in {"leave", "ban"} -> "leave"
    [] c.user = Me /\ c.membership \in {"invite", "knock"} -> c.membership
    [] OTHER -> "join"

\* Mutant: the stripped state of invites and knocks is looked for under "state".
stateKeyIsState(c) == "state"

stateKey(c) ==
  CASE c.user = Me /\ c.membership = "invite" -> "invite_state"
    [] c.user = Me /\ c.membership = "knock" -> "knock_state"
    [] OTHER -> "state"

\* The state first, then the timeline where there is one.
syncMembershipIn(c, s, resp) ==
  LET checkMembership ==
        {ev \in c.accepts \cap DOMAIN s : IsMember(c.user, s[ev]) /\ s[ev].membership = c.membership}
  IN \/ checkArrayElements(resp, <<roomTypeKey(c), stateKey(c)>>, checkMembership)
     \/ /\ c.membership \in {"join", "leave", "ban"} \/ c.user # Me
        /\ checkArrayElements(resp, <<roomTypeKey(c), "timeline">>, checkMembership)

\* A SyncCheckOpt applied to a response.
Passes(c, s, resp) ==
  CASE c.check = "timeline" -> SyncTimelineHas(c, resp)
    [] c.check = "state" -> SyncStateHas(c, resp)
    [] c.check = "stateAfter" -> SyncStateAfterHas(c, resp)
    [] c.check = "membership" -> syncMembershipIn(c, s, resp)
    [] c.check = "presence" -> SyncPresenceHas(c, s, resp)
    [] c.check = "typing" -> SyncUsersTyping(c, s, resp)
    [] c.check = "toDevice" -> SyncToDeviceHas(c, s, resp)
    [] c.check = "accountData" -> SyncGlobalAccountDataHas(c, resp)
    [] c.check = "roomAccountData" -> SyncRoomAccountDataHas(c, resp)
=============================================================================
