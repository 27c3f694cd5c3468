------------------------------ MODULE MCRunRows ------------------------------
(* RunRows on small instances, the bounds in the configurations. *)
EXTENDS RunRows, TLC
Branches == Permutations(Steps)
=============================================================================
