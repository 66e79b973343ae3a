---------------------------- MODULE UpdatePromise ----------------------------
(***************************************************************************)
(* What the OmniRoute updater promises of its runs (README.md, "Updates";  *)
(* the header of scripts/update-omniroute.sh), without saying how: a run   *)
(* either changes nothing, or it is the only one changing the deployment,  *)
(* together with memory recycles, from its first change until it has       *)
(* reported "updated" or an error.  A run that changed something never     *)
(* ends as if it had not, and no run starts over.                          *)
(***************************************************************************)
CONSTANT Runs

VARIABLES
  status,     \* pending, committing, or how the run ended
  recycling   \* the healer is restarting the container for its memory

vars == <<status, recycling>>

Init == /\ status = [r \in Runs |-> "pending"]
        /\ recycling = FALSE

\* unchanged, deferred, an early error, or the end of the shell
EndClean(r) ==
  /\ status[r] = "pending"
  /\ status' = [status EXCEPT ![r] = "clean"]
  /\ UNCHANGED recycling

BeginCommit(r) ==
  /\ status[r] = "pending"
  /\ ~recycling
  /\ \A other \in Runs : status[other] # "committing"
  /\ status' = [status EXCEPT ![r] = "committing"]
  /\ UNCHANGED recycling

EndCommit(r) ==
  /\ status[r] = "committing"
  /\ \E result \in {"updated", "failed"} :
       status' = [status EXCEPT ![r] = result]
  /\ UNCHANGED recycling

BeginRecycle ==
  /\ ~recycling
  /\ \A r \in Runs : status[r] # "committing"
  /\ recycling' = TRUE
  /\ UNCHANGED status

EndRecycle ==
  /\ recycling
  /\ recycling' = FALSE
  /\ UNCHANGED status

Next == \/ \E r \in Runs : EndClean(r) \/ BeginCommit(r) \/ EndCommit(r)
        \/ BeginRecycle \/ EndRecycle

Spec == Init /\ [][Next]_vars
=============================================================================
