-------------------------- MODULE InterferenceGate --------------------------
(***************************************************************************)
(* pylib/interference.py: snapshots of the services' cgroups are taken      *)
(* before and after a load, and evaluate passes or fails the model by them. *)
(* Meanwhile services run, stop, start again and are pressed for memory.    *)
(***************************************************************************)
EXTENDS Naturals, FiniteSets

CONSTANTS
  Watched,     \* services; Laya (system_one) among them
  Laya,
  MaxClock,    \* bounds
  MaxPressure, MaxStarts

VARIABLES
  clock,
  service,   \* each: [on, since: when it was started, pressure: its counters
             \* of memory.events, of this life]
  starts,
  gate,      \* the script: [pc, before, after, served: whether a load request
             \* was answered, laya: what its probes met]
  passed,    \* evaluate's verdict
  restarted  \* history: services that began another life in the window

gateVars == <<clock, service, starts, gate, passed, restarted>>

LayaSeen == {"unprobed", "silent", "slow", "failing", "well"}
NoSnapshot == [s \in Watched |-> [on |-> FALSE, uptime |-> 0, events |-> 0]]

-----------------------------------------------------------------------------
(* snapshot and evaluate.                                                  *)

Least1(n) == IF n = 0 THEN 1 ELSE n

\* read_live.
Snapshot ==
  [s \in Watched |->
     [on |-> service[s].on,
      uptime |-> IF service[s].on THEN Least1(clock - service[s].since) ELSE 0,
      events |-> IF service[s].on THEN service[s].pressure ELSE 0]]

\* Rules (a), (b) and (g): Laya may be unprobed only where it did not run.
LayaFails(before, laya) == \/ laya \in {"silent", "slow", "failing"}
                           \/ laya = "unprobed" /\ before[Laya].on

Stopped(before, after) == {s \in Watched : before[s].on /\ ~after[s].on}

\* A counter reset is told from the uptime.
Resets(before, after) ==
  {s \in Watched : before[s].on /\ after[s].on /\ after[s].uptime < before[s].uptime}

Grown(before, after) ==
  {s \in Watched : /\ before[s].on /\ after[s].on /\ s \notin Resets(before, after)
                   /\ after[s].events > before[s].events}

\* evaluate
Failures(before, after, served, laya) ==
  \/ LayaFails(before, laya) \/ Stopped(before, after) # {}
  \/ Resets(before, after) # {} \/ Grown(before, after) # {} \/ ~served

-----------------------------------------------------------------------------
(* model-interference.sh.                                                  *)

TakeBefore ==
  /\ gate.pc = "start"
  /\ gate' = [gate EXCEPT !.pc = "load", !.before = Snapshot]
  /\ restarted' = {}
  /\ UNCHANGED <<clock, service, starts, passed>>

Probe ==
  /\ gate.pc = "load"
  /\ \E served \in BOOLEAN, laya \in LayaSeen :
       gate' = [gate EXCEPT !.pc = "after", !.served = served, !.laya = laya]
  /\ UNCHANGED <<clock, service, starts, passed, restarted>>

TakeAfter ==
  /\ gate.pc = "after"
  /\ gate' = [gate EXCEPT !.pc = "evaluate", !.after = Snapshot]
  /\ UNCHANGED <<clock, service, starts, passed, restarted>>

Evaluate ==
  /\ gate.pc = "evaluate"
  /\ passed' = ~Failures(gate.before, gate.after, gate.served, gate.laya)
  /\ gate' = [gate EXCEPT !.pc = "done"]
  /\ UNCHANGED <<clock, service, starts, restarted>>

-----------------------------------------------------------------------------
(* The services (external).                                                *)

InWindow == gate.pc \in {"load", "after"}

Press(s) ==
  /\ service[s].on /\ service[s].pressure < MaxPressure
  /\ service' = [service EXCEPT ![s].pressure = @ + 1]
  /\ UNCHANGED <<clock, starts, gate, passed, restarted>>

StopService(s) ==
  /\ service[s].on
  /\ service' = [service EXCEPT ![s].on = FALSE]
  /\ UNCHANGED <<clock, starts, gate, passed, restarted>>

StartService(s) ==
  /\ ~service[s].on /\ starts < MaxStarts
  /\ starts' = starts + 1
  /\ service' = [service EXCEPT ![s] = [on |-> TRUE, since |-> clock, pressure |-> 0]]
  /\ restarted' = IF InWindow THEN restarted \cup {s} ELSE restarted
  /\ UNCHANGED <<clock, gate, passed>>

PassTime == /\ clock < MaxClock
            /\ clock' = clock + 1
            /\ UNCHANGED <<service, starts, gate, passed, restarted>>

-----------------------------------------------------------------------------
GateInit ==
  /\ clock = 0 /\ starts = 0 /\ passed = FALSE /\ restarted = {}
  /\ service \in [Watched -> [on : BOOLEAN, since : {0}, pressure : {0}]]
  /\ gate = [pc |-> "start", before |-> NoSnapshot, after |-> NoSnapshot,
             served |-> FALSE, laya |-> "unprobed"]

GateNext == \/ TakeBefore \/ Probe \/ TakeAfter \/ Evaluate \/ PassTime
            \/ \E s \in Watched : Press(s) \/ StopService(s) \/ StartService(s)

GateSpec == GateInit /\ [][GateNext]_gateVars

\* A model passes only if no service that was there before began another life in
\* the window, and its counters with it.  (interference.py:3, "fail on ... (d) a
\* counter reset")
ResetsAreSeen ==
  passed => \A s \in restarted : ~gate.before[s].on
=============================================================================
