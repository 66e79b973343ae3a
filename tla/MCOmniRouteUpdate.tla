-------------------------- MODULE MCOmniRouteUpdate --------------------------
(***************************************************************************)
(* Runs of the updater on small instances; the bounds of each run are in   *)
(* its .cfg.                                                               *)
(***************************************************************************)
EXTENDS OmniRouteUpdate, TLC

Symmetry == Permutations(Updaters) \cup Permutations(Images)
=============================================================================
