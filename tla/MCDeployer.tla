----------------------------- MODULE MCDeployer -----------------------------
(* Instance of Deployer for TLC. *)
EXTENDS Deployer
=============================================================================
