------------------------ MODULE MCFederationServer ------------------------
(* Instances of FederationServer for TLC. *)
EXTENDS FederationServer, TLC

CONSTANTS s1, s2, s3, p1, p2

MCServers == {s1, s2, s3}

\* Two servers in one test process, one in another.
MCProcOf == s1 :> p1 @@ s2 :> p1 @@ s3 :> p2
===========================================================================
