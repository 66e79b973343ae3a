-------------------------- MODULE MCIdleObservation --------------------------
(***************************************************************************)
(* One observation: two client requests, any timing within four ticks.     *)
(***************************************************************************)
EXTENDS IdleObservation, TLC

Symmetry == Permutations(Requests)
=============================================================================
