---------------------------- MODULE MCServerRoom ----------------------------
(* An instance of ServerRoom for TLC: e1 and e2 are state events for the     *)
(* same tuple, e3 is a message.                                              *)
EXTENDS ServerRoom, TLC

CONSTANTS e1, e2, e3, k1

MCTuples == {k1}
MCEvents == {e1, e2, e3}
MCDepthOf == e1 :> 1 @@ e2 :> 2 @@ e3 :> 3
MCTupleOf == e1 :> k1 @@ e2 :> k1 @@ e3 :> NotState

=============================================================================
