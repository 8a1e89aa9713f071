---------------------------- MODULE MCHomerunner ----------------------------
(* Instances of Homerunner for TLC. *)
EXTENDS Homerunner, TLC

CONSTANTS c1, c2, c3, c4, n1, n2

MCCreates == {c1, c2, c3, c4}

\* Three requests for one blueprint, one for another.
MCNameOf == c1 :> n1 @@ c2 :> n1 @@ c3 :> n1 @@ c4 :> n2
=============================================================================
