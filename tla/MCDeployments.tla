---------------------------- MODULE MCDeployments ----------------------------
(* Deployments on small instances, the bounds in the configurations. *)
EXTENDS Deployments, TLC
=============================================================================
