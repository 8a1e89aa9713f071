-------------------------- MODULE MCFederationJoin --------------------------
(* An instance of FederationJoin for TLC: one resident and one guest server. *)
EXTENDS FederationJoin

CONSTANTS hs1, hs2, alice, bob

Symmetry == Permutations(Procs)

MCServerOf == [u \in {alice, bob} |-> IF u = alice THEN hs1 ELSE hs2]

Calls(create, join, knock, leave, transaction, eventAuth) ==
  [create |-> create, join |-> join, knock |-> knock, leave |-> leave,
   transaction |-> transaction, eventAuth |-> eventAuth]

Config(domainless, partial, omitServers, overlap, calls) ==
  [domainless |-> domainless, partial |-> partial, omitServers |-> omitServers,
   overlap |-> overlap, calls |-> calls]

\* One call after the other, then calls that overlap.
MCConfigs ==
  {Config(FALSE, FALSE, FALSE, FALSE, Calls(2, 1, 0, 0, 1, 1)),
   Config(FALSE, FALSE, FALSE, FALSE, Calls(1, 1, 1, 1, 1, 1)),
   Config(TRUE, FALSE, FALSE, FALSE, Calls(1, 2, 0, 1, 0, 1)),
   Config(FALSE, TRUE, FALSE, FALSE, Calls(1, 2, 0, 0, 0, 1)),
   Config(FALSE, TRUE, TRUE, TRUE, Calls(1, 2, 0, 0, 0, 0)),
   Config(TRUE, FALSE, FALSE, TRUE, Calls(2, 1, 0, 0, 0, 0)),
   Config(FALSE, FALSE, FALSE, TRUE, Calls(1, 1, 0, 0, 1, 0)),
   Config(FALSE, FALSE, FALSE, TRUE, Calls(1, 0, 0, 0, 1, 1)),
   Config(FALSE, FALSE, FALSE, TRUE, Calls(0, 2, 0, 1, 0, 0))}

\* alice's profile, which the power levels and bob's membership rest on, and
\* bob's; and an event that is not of the state.
MCChanges == {Member(alice), Member(bob), Message}

\* The events that are created first, in and out of order, one that the room
\* begins with, what is not an event, and too many.
MCBatches == {<<5>>, <<7>>, <<6, 5>>, <<0, 6>>, <<2, 5, 6>>}
=============================================================================
