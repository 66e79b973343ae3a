--------------------------- MODULE AdmissionHealer ---------------------------
(***************************************************************************)
(* The OmniRoute healer, scripts/heal-omniroute-admission.sh: a timer runs *)
(* it every few minutes, one run at a time.  It restarts the router when   *)
(* its admission lease is stuck (requests admitted and more of them shed   *)
(* in every run) or to recycle its memory (idle and bloated in every run). *)
(* What a run has to remember is in a state file that is replaced as a     *)
(* whole; a run may die anywhere between two of its writes.                *)
(***************************************************************************)
EXTENDS Naturals, FiniteSets

CONSTANTS
  StrikeThreshold,  \* STRIKE_THRESHOLD
  MemorySamples,    \* MEMORY_SAMPLES
  Cooldown,         \* MEMORY_COOLDOWN_HOURS
  Day,              \* 24 hours, in the same unit
  PerDay,           \* MEMORY_RESTARTS_PER_DAY
  MaxTime,          \* bound: the clock stops here
  MaxShed,          \* bound: requests one process of the router sheds
  MaxHeavy          \* bound: heavy requests it admits at once

ASSUME HealerAssumption ==
  /\ {StrikeThreshold, MemorySamples, Cooldown, Day, PerDay}
       \subseteq Nat \ {0}
  /\ {MaxTime, MaxShed, MaxHeavy} \subseteq Nat

VARIABLES
  now,    \* date +%s
  shed,   \* shedTotal of the router's present process
  file,   \* the state file; a missing or garbage one counts as zeros
  run,    \* the run under way: its program counter and shell variables
  \* history
  recycles,  \* recycles, by the time their run read the clock
  bloats     \* measurements in a row that found an idle, bloated router,
             \* since the last recycle

healerVars == <<now, shed, file, run, recycles, bloats>>

Zeros == [shed |-> 0, strikes |-> 0, memStrikes |-> 0, memRestarts |-> {}]

Idle == [pc |-> "off", now |-> 0, heavy |-> 0, shed |-> 0, strikes |-> 0,
         prevMemStrikes |-> 0, memRestarts |-> {}]

\* The history counts no further than it is asked about.
UpTo(bound, n) == IF n < bound THEN n ELSE bound

-----------------------------------------------------------------------------
(* The router and time (external).                                         *)

Tick == /\ now < MaxTime
        /\ now' = now + 1
        /\ UNCHANGED <<shed, file, run, recycles, bloats>>

ShedRequest == /\ shed < MaxShed
               /\ shed' = shed + 1
               /\ UNCHANGED <<now, file, run, recycles, bloats>>

\* Somebody else restarts or replaces the container.
Replace == /\ shed > 0
           /\ shed' = 0
           /\ UNCHANGED <<now, file, run, recycles, bloats>>

\* The state file is lost or damaged: what it counted is forgotten.
LoseFile == /\ run.pc = "off" /\ file # Zeros
            /\ file' = Zeros
            /\ recycles' = {}
            /\ UNCHANGED <<now, shed, run, bloats>>

-----------------------------------------------------------------------------
(* One run.                                                                *)

\* Log in, prime the health snapshot, read it.  A snapshot without the fields
\* counts as no activity and nothing shed.
ReadHealth ==
  /\ run.pc = "off"
  /\ \E heavy \in 0 .. MaxHeavy, total \in {0, shed} :
       run' = [run EXCEPT !.pc = "read", !.heavy = heavy, !.shed = total]
  /\ UNCHANGED <<now, shed, file, recycles, bloats>>

\* Mutant: only the cooldown is remembered.
WithinCooldown(restarts) == {t \in restarts : t + Cooldown > now}

Recent(restarts) == {t \in restarts : t + Day > now}

Stuck   == run.heavy > 0 /\ run.shed > file.shed
Strikes == IF Stuck THEN file.strikes + 1 ELSE 0

Saved(strikes, memStrikes) ==
  [shed |-> run.shed, strikes |-> strikes, memStrikes |-> memStrikes,
   memRestarts |-> run.memRestarts]

\* Read the state file and the clock, count the strike, save.
Compare ==
  /\ run.pc = "read"
  /\ run' = [run EXCEPT !.pc = IF Strikes >= StrikeThreshold THEN "stuck"
                                                             ELSE "measure",
                        !.now = now,
                        !.strikes = Strikes,
                        !.prevMemStrikes = file.memStrikes,
                        !.memRestarts = Recent(file.memRestarts)]
  /\ file' = [shed |-> run.shed, strikes |-> Strikes,
              memStrikes |-> file.memStrikes,
              memRestarts |-> Recent(file.memRestarts)]
  /\ UNCHANGED <<now, shed, recycles, bloats>>

\* The lease is stuck.  A restart that podman refuses ends the run (Die).
RestartLease ==
  /\ run.pc = "stuck"
  /\ shed' = 0
  /\ run' = [run EXCEPT !.pc = "clear"]
  /\ UNCHANGED <<now, file, recycles, bloats>>

ClearStrikes ==
  /\ run.pc = "clear"
  /\ file' = [Zeros EXCEPT !.memRestarts = run.memRestarts]
  /\ run' = Idle
  /\ UNCHANGED <<now, shed, recycles, bloats>>

\* Not idle, activity or memory unknown, no threshold, below it, or disabled.
NoBloat ==
  /\ run.pc = "measure"
  /\ file' = Saved(run.strikes, 0)
  /\ run' = Idle
  /\ bloats' = 0
  /\ UNCHANGED <<now, shed, recycles>>

\* Mutant: no cooldown.
Uncooled == Cardinality(run.memRestarts) < PerDay

Allowed == /\ Cardinality(run.memRestarts) < PerDay
           /\ \A t \in run.memRestarts : run.now >= t + Cooldown

\* Idle and bloated.  From MemorySamples on, the strikes stay there, so that a
\* recycle that is not allowed, or an update that holds the lock, only delays
\* it.
Bloat ==
  /\ run.pc = "measure" /\ run.heavy = 0
  /\ bloats' = UpTo(MemorySamples, bloats + 1)
  /\ IF run.prevMemStrikes + 1 < MemorySamples
     THEN /\ file' = Saved(run.strikes, run.prevMemStrikes + 1)
          /\ run' = Idle
     ELSE /\ file' = Saved(run.strikes, MemorySamples)
          /\ \/ Allowed /\ run' = [run EXCEPT !.pc = "locked"]
             \/ run' = Idle
  /\ UNCHANGED <<now, shed, recycles>>

\* Mutant: the strikes are not cleared.
RecordOnly ==
  /\ run.pc = "locked"
  /\ file' = [file EXCEPT !.memRestarts = run.memRestarts \cup {run.now}]
  /\ run' = [run EXCEPT !.pc = "recycle"]
  /\ UNCHANGED <<now, shed, recycles, bloats>>

\* The attempt is recorded before the restart.
RecordRecycle ==
  /\ run.pc = "locked"
  /\ file' = [Zeros EXCEPT !.memRestarts = run.memRestarts \cup {run.now}]
  /\ run' = [run EXCEPT !.pc = "recycle"]
  /\ UNCHANGED <<now, shed, recycles, bloats>>

Recycle ==
  /\ run.pc = "recycle"
  /\ shed' = 0
  /\ recycles' = recycles \cup {run.now}
  /\ bloats' = 0
  /\ run' = Idle
  /\ UNCHANGED <<now, file>>

\* The run is killed, a write fails, or podman refuses to restart.
Die == /\ run.pc # "off"
       /\ run' = Idle
       /\ UNCHANGED <<now, shed, file, recycles, bloats>>

-----------------------------------------------------------------------------
HealerInit ==
  /\ now = 0
  /\ shed = 0
  /\ file = Zeros
  /\ run = Idle
  /\ recycles = {} /\ bloats = 0

Healer == \/ ReadHealth \/ Compare \/ RestartLease \/ ClearStrikes
          \/ NoBloat \/ Bloat \/ RecordRecycle \/ Recycle \/ Die

HealerNext == Tick \/ ShedRequest \/ Replace \/ LoseFile \/ Healer

HealerSpec == HealerInit /\ [][HealerNext]_healerVars

-----------------------------------------------------------------------------
Files == [shed : Nat, strikes : Nat, memStrikes : 0 .. MemorySamples,
          memRestarts : SUBSET Nat]

Runs == [pc : {"off", "read", "stuck", "clear", "measure", "locked", "recycle"},
         now : Nat, heavy : Nat, shed : Nat, strikes : Nat,
         prevMemStrikes : 0 .. MemorySamples, memRestarts : SUBSET Nat]

Small(S) == IsFiniteSet(S) /\ Cardinality(S) <= PerDay

\* Type correctness; the state file never remembers more than MemorySamples
\* strikes nor, whatever dies, more than PerDay recycles.
HealerTypeOK ==
  /\ now \in Nat /\ shed \in Nat
  /\ file \in Files /\ run \in Runs
  /\ Small(file.memRestarts) /\ Small(run.memRestarts)
  /\ recycles \in SUBSET Nat
  /\ bloats \in Nat

\* Whatever runs died after a recycle or before it, the next one is at least a
\* cooldown later, or so much later that the state file has forgotten the first
\* (a Day), as long as the file has not been lost.  (Record before podman
\* restart, the filter on memRestarts, the cooldown check)
RecyclesSpaced ==
  [][Recycle =>
       \A t \in recycles : \/ run.now >= t + Cooldown
                           \/ run.now >= t + Day]_healerVars

\* At most PerDay recycles within any 24 hours, likewise.
RecyclesCapped ==
  [][Recycle =>
       Cardinality({t \in recycles : t + Day > run.now}) < PerDay]_healerVars

\* A recycle answers MemorySamples measurements in a row, all later than the
\* recycle before it, that found the router idle and bloated; runs that died
\* before they measured are not counted. (memStrikes, and the zeros written
\* before the restart)
RecycleEarned == [][Recycle => bloats >= MemorySamples]_healerVars
=============================================================================
