----------------------------- MODULE MCBoundedRun -----------------------------
(***************************************************************************)
(* One run: a stream keeps one chunk of the two the client may write, and a *)
(* pipe holds one.                                                         *)
(***************************************************************************)
EXTENDS BoundedRun
=============================================================================
