---------------------------- MODULE MCDeployment ----------------------------
(* TLC instances of Deployment. *)
EXTENDS Deployment, TLC
=============================================================================
