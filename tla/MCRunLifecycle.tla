--------------------------- MODULE MCRunLifecycle ---------------------------
(* RunLifecycle on small instances: model values for the runs and clients,
   the bounds in the configurations. *)
EXTENDS RunLifecycle, TLC
=============================================================================
