------------------------------ MODULE MCWatch ------------------------------
(***************************************************************************)
(* What decides when OmniRoute may be touched, each fed by itself: the idle *)
(* gate with every sequence of samples over a short run, the journal        *)
(* follower with a handful of lines, and the healer over nine units of      *)
(* time.  A behaviour is one of them at work.                               *)
(***************************************************************************)
EXTENDS IdleGate, JournalReader, AdmissionHealer

VARIABLE watching  \* which of them

MCInstants    == 0 .. 7
MCGenerations == {0, 1}
MCTimestamps  == {1, 2}

WatchInit ==
  /\ watching \in {"gate", "feed", "healer"}
  /\ Init /\ FeedInit /\ HealerInit
  /\ watching = "gate" \/ (clock = 0 /\ lastGens = CHOOSE g \in Gens : TRUE)
  /\ watching = "feed" \/ journal = <<>>

WatchNext ==
  /\ UNCHANGED watching
  /\ \/ watching = "gate" /\ Next /\ UNCHANGED <<feedVars, healerVars>>
     \/ watching = "feed" /\ FeedNext /\ UNCHANGED <<vars, healerVars>>
     \/ watching = "healer" /\ HealerNext /\ UNCHANGED <<vars, feedVars>>

WatchSpec == WatchInit /\ [][WatchNext]_<<watching, vars, feedVars, healerVars>>
=============================================================================
