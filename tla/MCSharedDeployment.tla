------------------------ MODULE MCSharedDeployment ------------------------
(* Two tests, one or two servers each. *)
EXTENDS SharedDeployment
CONSTANTS t1, t2
=============================================================================
