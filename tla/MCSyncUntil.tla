---------------------------- MODULE MCSyncUntil ----------------------------
(* An instance of SyncUntil for TLC: alice syncs, bob is somebody else.     *)
EXTENDS SyncUntil

CONSTANTS alice, bob

MCUsers == {alice, bob}

Member(u, m) == [kind |-> "member", user |-> u, membership |-> m]
Message == [kind |-> "message"]
Presence(u, p) == [kind |-> "presence", user |-> u, presence |-> p]
Typing(us) == [kind |-> "typing", users |-> us]

\* The changes of a membership that a homeserver allows.
Allowed(was, m) ==
  CASE was = "leave" -> m \in {"invite", "knock", "join", "ban"}
    [] was = "invite" -> m \in {"join", "leave", "ban"}
    [] was = "knock" -> m \in {"invite", "leave", "ban"}
    [] was = "join" -> m \in {"leave", "ban"}
    [] was = "ban" -> m = "leave"

\* Every stream of two membership changes and messages, and every one of
\* three that begins with alice's join.
MemberStreams ==
  LET updates == {Member(u, m) : u \in MCUsers, m \in Memberships} \cup {Message}
      legal(s) == \A k \in DOMAIN s :
        s[k].kind = "member" => Allowed(Membership(s, k - 1, s[k].user), s[k].membership)
  IN {s \in {<<x, y>> : x \in updates, y \in updates}
            \cup {<<Member(alice, "join"), x, y>> : x \in updates, y \in updates} : legal(s)}

\* Two updates of the other kinds after alice's join.
OtherStreams ==
  LET updates == {Presence(bob, "online"), Presence(bob, "offline"), Presence(alice, "online"),
                  Typing({}), Typing({bob}), [kind |-> "toDevice", user |-> bob],
                  [kind |-> "accountData"], [kind |-> "roomAccountData"]}
  IN {<<Member(alice, "join"), x, y>> : x \in updates, y \in updates}

MemberCheck(u, m) == [check |-> "membership", user |-> u, membership |-> m, accepts |-> 1 .. 3]
PresenceCheck(u, p) == [check |-> "presence", user |-> u, presence |-> p, accepts |-> 1 .. 3]
TypingCheck(us) == [check |-> "typing", users |-> us]
Accepting(check, ids) == [check |-> check, accepts |-> ids]

MCAllChecks ==
  {MemberCheck(u, m) : u \in MCUsers, m \in Memberships}
  \cup {PresenceCheck(bob, p) : p \in {"online", "offline", Anyone}}
  \cup {TypingCheck(us) : us \in {{}, {bob}, {alice, bob}}}
  \cup {[check |-> "toDevice", user |-> u, accepts |-> {2}] : u \in {alice, bob, Anyone}}
  \cup {Accepting(check, {k}) : k \in 1 .. 3,
          check \in {"timeline", "state", "stateAfter", "accountData", "roomAccountData"}}

SyncCall(reuse, after, checks) ==
  [kind |-> "sync", reuse |-> reuse, after |-> after, checks |-> checks]
SendCall(n) ==
  [kind |-> "send", event |-> n, reuse |-> FALSE, after |-> FALSE, checks |-> <<Accepting("timeline", {n})>>]
RetryCall(u, m) == [kind |-> "retry", checks |-> <<MemberCheck(u, m)>>]
Token == SyncCall(FALSE, FALSE, <<>>)

MCScenarios ==
  LET joins == <<MemberCheck(alice, "join"), MemberCheck(bob, "join")>>
      three == {<<Member(bob, "join"), Member(alice, "join"), Message>>,
                <<Member(alice, "join"), Member(bob, "join"), Message>>}
  IN {[stream |-> s, calls |-> c] : s \in MemberStreams,
        c \in {<<SyncCall(FALSE, FALSE, joins)>>, <<Token, SyncCall(TRUE, FALSE, joins)>>}}
     \cup {[stream |-> s,
            calls |-> <<Token, SyncCall(TRUE, FALSE, <<PresenceCheck(bob, "online"), TypingCheck({bob})>>)>>]
             : s \in OtherStreams}
     \cup {[stream |-> s, calls |-> c] : s \in three,
        c \in {<<SyncCall(FALSE, FALSE, <<MemberCheck(alice, "join")>>),
                 SyncCall(TRUE, FALSE, <<MemberCheck(bob, "join")>>), Token>>,
               <<Token, SyncCall(TRUE, TRUE, <<Accepting("stateAfter", {2}), Accepting("timeline", {3})>>)>>,
               <<RetryCall(bob, "join"), SyncCall(TRUE, FALSE, <<MemberCheck(alice, "join")>>),
                 RetryCall(bob, "leave")>>,
               <<SyncCall(FALSE, FALSE, <<MemberCheck(alice, "join")>>), SendCall(3)>>}}
=============================================================================
