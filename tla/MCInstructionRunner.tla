------------------------ MODULE MCInstructionRunner ------------------------
(* Instances of InstructionRunner for TLC: the phases are those of small    *)
(* blueprints, computed by InstructionSets.                                  *)
EXTENDS InstructionRunner, InstructionSets

CONSTANTS Homeservers, Custom

\* Two sets for the users and two for the rooms.
MCUserHash == [u \in {"alice", "bob", "carol"} |-> IF u = "bob" THEN 2 ELSE 1]
MCRoomHash == [n \in 1 .. 2 |-> n]

User(u, d) == [localpart |-> u, display |-> d]
Event(k, u) == [kind |-> k, sender |-> u]
Room(c, r, es) == [creator |-> c, ref |-> r, events |-> es]

\* Two homeservers: alice has two devices and creates a room with an alias,
\* bob creates another one; carol joins alice's from the second homeserver.
MCHomeservers ==
  <<[name |-> "hs1",
     users |-> <<User("alice", TRUE), User("alice", FALSE), User("bob", FALSE)>>,
     rooms |-> <<Room("alice", "ra", <<Event("alias", "alice")>>), Room("bob", NoKey, <<>>)>>],
    [name |-> "hs2",
     users |-> <<User("carol", FALSE)>>,
     rooms |-> <<Room(NoKey, "ra", <<Event("join", "carol")>>)>>]>>

\* Then a /sync for two users, one after which nothing more can be formed.
MCCustom ==
  <<[user |-> "alice", reads |-> {}, stores |-> {<<"sync", "alice">>}, value |-> <<"batch">>],
    [user |-> "bob", reads |-> {}, stores |-> {}, value |-> <<"none">>],
    [user |-> "alice", reads |-> {<<"sync", "alice">>}, stores |-> {}, value |-> <<"none">>],
    [user |-> "bob", reads |-> {}, stores |-> {}, value |-> <<"none">>]>>
MCUnformable == {<<5, 2, 1>>}

\* One homeserver as in cmd/perftest: two rooms are made, then carol joins
\* the second one, which is the first of its phase.
MCJoinLater ==
  <<[name |-> "hs1",
     users |-> <<User("alice", FALSE), User("carol", FALSE)>>,
     rooms |-> <<Room("alice", "ra", <<>>), Room("alice", "rb", <<>>)>>],
    [name |-> "hs1", users |-> <<>>, rooms |-> <<Room(NoKey, "rb", <<Event("join", "carol")>>)>>]>>
MCNoCustom == <<>>

\* A sequence of sequences, evaluated once.
Evaluated(seqs) == FoldLeft(LAMBDA done, s : Append(done, s \o <<>>), <<>>, seqs)

AllPhases ==
  FlattenSeq([h \in 1 .. Len(Homeservers) |-> RunPhases(Homeservers[h])])
    \o IF Custom = <<>> THEN <<>> ELSE <<RunInstructionsPhase("per_user", Custom, "hs1")>>
MCPhases ==
  FoldLeft(LAMBDA done, ph : Append(done, [ph EXCEPT !.sets = Evaluated(@)]), <<>>, AllPhases)

AllRequests ==
  UNION {UNION {Range(Phases[p].sets[s]) : s \in DOMAIN Phases[p].sets} : p \in DOMAIN Phases}
MCKeys ==
  UNION {r.reads \cup r.stores \cup {k \in {r.meant} : k # NoKey} : r \in AllRequests}
    \cup UNION {{x[1] : x \in Phases[p].stored} : p \in DOMAIN Phases}
MCValues ==
  {r.value : r \in AllRequests} \cup UNION {{x[2] : x \in Phases[p].stored} : p \in DOMAIN Phases}

\* The condition of the theorem RequestsFollowSets.
ASSUME BlueprintsInOrder == SetsInOrder
=============================================================================
