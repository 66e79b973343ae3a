--------------------------- MODULE MCPhoenixTrial ---------------------------
(***************************************************************************)
(* Two invocations of whatever kind, one run of two spans.                 *)
(***************************************************************************)
EXTENDS PhoenixTrial
=============================================================================
