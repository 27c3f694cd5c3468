----------------------------- MODULE MCWebhooks -----------------------------
(* Webhooks on small instances, the bounds in the configurations. *)
EXTENDS Webhooks, TLC
Alike == Permutations(Clients) \cup Permutations(Ops)
=============================================================================
