---------------------------- MODULE MissedVerdict ----------------------------
(***************************************************************************)
(* The observation with a history: whether the gate has answered a         *)
(* deferral.  The verdict itself may be overwritten in latest.json before  *)
(* the shell looks.                                                        *)
(***************************************************************************)
EXTENDS IdleObservation

VARIABLE deferred

Deferrals == {"defer-deadline", "defer-unknown"}

MissedInit == Init /\ deferred = FALSE
MissedNext == Next /\ deferred' = (deferred \/ verdict' \in Deferrals)
MissedSpec == MissedInit /\ [][MissedNext]_<<vars, deferred>>

-----------------------------------------------------------------------------
\* What README.md promises of unknown samples ("Any other unknown reason
\* defers at once", the rest after 60 s): once the gate has answered a
\* deferral the shell never hands off.
HandoffMeansNeverDeferred == shell = "handoff" => ~deferred
=============================================================================
