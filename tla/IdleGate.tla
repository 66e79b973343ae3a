------------------------------ MODULE IdleGate ------------------------------
(***************************************************************************)
(* The idle gate of the OmniRoute updater: IdleGate.step in                *)
(* pylib/omniroute_activity.py.  The observer feeds it one activity sample *)
(* at a time; it answers "ready" when the router has been quiet for        *)
(* MinWait seconds, "resample" when one more complete sample must confirm  *)
(* it, "wait", or one of two deferrals.  The observer does not stop after  *)
(* a deferral, so neither does the gate.                                   *)
(***************************************************************************)
EXTENDS Integers

CONSTANTS
  MinWait,            \* seconds of quiet before the replacement (min_wait)
  Deadline,           \* monotonic end of the wait budget, exclusive
  UnknownBudget,      \* UNKNOWN_BUDGET_S
  Instants,           \* times at which samples are taken
  Generations,        \* values of the arrival and row generation counters
  Timestamps,         \* health timestamps OmniRoute can report
  TransientReasons,   \* age, io, clock
  StructuralReasons,  \* every other reason of an unknown sample
  None

ASSUME GateAssumption ==
  /\ MinWait \in Nat \ {0}
  /\ Deadline \in Nat
  /\ UnknownBudget \in Nat
  /\ Instants \subseteq Nat
  /\ Generations \subseteq Nat
  /\ Timestamps \subseteq Nat
  /\ TransientReasons \cap StructuralReasons = {}
  /\ None \notin Nat \cup (Generations \X Generations)

Reasons == TransientReasons \cup StructuralReasons
Gens    == Generations \X Generations

\* What the gate is given of a sample: classify(s), the two generation
\* counters, the health timestamp and the reason of an unknown sample.
GateInput ==
  [state : {"idle", "busy", "unknown"}, gens : Gens,
   ts : Timestamps \cup {None}, reason : Reasons]

GateVerdicts ==
  {"wait", "resample", "ready", "defer-deadline", "defer-unknown"}

VARIABLES
  clock,         \* time of the last sample (sample_monotonic)
  baseTs,        \* first health timestamp seen, or None
  advanced,      \* a later one has been seen
  quietSince,    \* start of the quiet window, or None
  quietGens,     \* generation counters at that start, or None
  resampling,    \* the confirming sample has been asked for
  unknownSince,  \* start of the current run of unknown samples, or None
  verdict,       \* what the last step returned
  \* history, read by the properties only
  lastGens,      \* generations of the last sample
  disturbed,     \* time of the last sample that showed or hid activity
  firstUnknown,  \* time of the first sample of the current unknown run
  deferred       \* some step has already returned a deferral

gateVars == <<baseTs, advanced, quietSince, quietGens, resampling,
              unknownSince>>
history  == <<lastGens, disturbed, firstUnknown, deferred>>
vars     == <<clock, gateVars, verdict, history>>

GateInit ==
  /\ baseTs = None /\ advanced = FALSE
  /\ quietSince = None /\ quietGens = None
  /\ resampling = FALSE
  /\ unknownSince = None

-----------------------------------------------------------------------------
(* One operator per way through step.                                      *)

DropWindow == /\ quietSince' = None
              /\ quietGens' = None
              /\ resampling' = FALSE

\* The wait budget is exclusive and is looked at before anything else.
PastDeadline(now, s) ==
  /\ now >= Deadline
  /\ verdict' = "defer-deadline"
  /\ UNCHANGED gateVars

\* An unknown sample: a transient reason restarts the quiet window for up to
\* UnknownBudget seconds, anything else defers.
\* Mutant: every unknown sample starts a run of its own.
UnknownStartsOver(now) == now

UnknownStart(now) == IF unknownSince = None THEN now ELSE unknownSince

UnknownDefers(now, s) ==
  \/ s.reason \notin TransientReasons
  \/ now - UnknownStart(now) > UnknownBudget

GiveUpOnUnknown(now, s) ==
  /\ now < Deadline /\ s.state = "unknown"
  /\ UnknownDefers(now, s)
  /\ unknownSince' = UnknownStart(now)
  /\ verdict' = "defer-unknown"
  /\ UNCHANGED <<baseTs, advanced, quietSince, quietGens, resampling>>

SitOutUnknown(now, s) ==
  /\ now < Deadline /\ s.state = "unknown"
  /\ ~UnknownDefers(now, s)
  /\ unknownSince' = UnknownStart(now)
  /\ DropWindow
  /\ verdict' = "wait"
  /\ UNCHANGED <<baseTs, advanced>>

\* Every known sample ends the unknown run and may show the health timestamp
\* moving.
NoteHealth(s) ==
  /\ unknownSince' = None
  /\ baseTs' = IF baseTs = None THEN s.ts ELSE baseTs
  /\ advanced' = (advanced \/ (/\ s.ts # None
                               /\ baseTs # None
                               /\ s.ts > baseTs))

\* Mutant: generations are not compared.
ShowsBusy(s) == s.state = "busy"

ShowsActivity(s) ==
  \/ s.state = "busy"
  \/ quietGens # None /\ s.gens # quietGens

RestartOnActivity(now, s) ==
  /\ now < Deadline /\ s.state # "unknown"
  /\ NoteHealth(s)
  /\ ShowsActivity(s)
  /\ DropWindow
  /\ verdict' = "wait"

Quiet(now, s) ==
  /\ now < Deadline /\ s.state # "unknown"
  /\ NoteHealth(s)
  /\ ~ShowsActivity(s)

AwaitHealthAdvance(now, s) ==
  /\ Quiet(now, s)
  /\ ~advanced'
  /\ verdict' = "wait"
  /\ UNCHANGED <<quietSince, quietGens, resampling>>

OpenWindow(now, s) ==
  /\ Quiet(now, s)
  /\ advanced'
  /\ quietSince = None
  /\ quietSince' = now
  /\ quietGens' = s.gens
  /\ verdict' = "wait"
  /\ UNCHANGED resampling

WindowRuns(now, s) ==
  /\ Quiet(now, s)
  /\ advanced'
  /\ quietSince # None
  /\ now - quietSince < MinWait
  /\ verdict' = "wait"
  /\ UNCHANGED <<quietSince, quietGens, resampling>>

WindowOver(now, s) ==
  /\ Quiet(now, s)
  /\ advanced'
  /\ quietSince # None
  /\ now - quietSince >= MinWait
  /\ resampling' = TRUE
  /\ verdict' = IF resampling THEN "ready" ELSE "resample"
  /\ UNCHANGED <<quietSince, quietGens>>

Step(now, s) ==
  \/ PastDeadline(now, s)
  \/ GiveUpOnUnknown(now, s)
  \/ SitOutUnknown(now, s)
  \/ RestartOnActivity(now, s)
  \/ AwaitHealthAdvance(now, s)
  \/ OpenWindow(now, s)
  \/ WindowRuns(now, s)
  \/ WindowOver(now, s)

-----------------------------------------------------------------------------
(* What the samples themselves said, kept apart from what the gate made of *)
(* them.                                                                   *)

Disturbs(s) == s.state # "idle" \/ s.gens # lastGens

Record(now, s) ==
  /\ clock' = now
  /\ lastGens' = s.gens
  /\ disturbed' = IF Disturbs(s) THEN now ELSE disturbed
  /\ firstUnknown' = IF s.state # "unknown" THEN None
                     ELSE IF firstUnknown = None THEN now ELSE firstUnknown
  /\ deferred' = (deferred \/ verdict' \in {"defer-deadline", "defer-unknown"})

Init ==
  /\ clock \in Instants
  /\ GateInit
  /\ verdict = "wait"
  /\ lastGens \in Gens
  /\ disturbed = clock
  /\ firstUnknown = None
  /\ deferred = FALSE

Next == \E now \in Instants, s \in GateInput :
          /\ now >= clock
          /\ Step(now, s)
          /\ Record(now, s)

Spec == Init /\ [][Next]_vars

-----------------------------------------------------------------------------
(* Type correctness of the gate.                                           *)
TypeOK ==
  /\ clock \in Nat
  /\ baseTs \in Timestamps \cup {None}
  /\ advanced \in BOOLEAN
  /\ quietSince \in Nat \cup {None}
  /\ quietGens \in Gens \cup {None}
  /\ resampling \in BOOLEAN
  /\ unknownSince \in Nat \cup {None}
  /\ verdict \in GateVerdicts
  /\ lastGens \in Gens
  /\ disturbed \in Nat
  /\ firstUnknown \in Nat \cup {None}
  /\ deferred \in BOOLEAN

\* "ready" is never the answer to a short or an interrupted quiet: until the
\* gate has deferred, the last sample that was busy, unknown or carried new
\* arrivals or call-log rows is at least MinWait seconds old, and the wait
\* budget is not over.  (IdleGate.step: the window is dropped by every such
\* sample and is opened by the next quiet one only.)
ReadyMeansQuiet ==
  verdict = "ready" /\ ~deferred =>
    /\ clock < Deadline
    /\ clock - disturbed >= MinWait

\* The confirming sample: "ready" answers a sample taken after the gate had
\* already found the window complete, so one quiet sample never suffices.
\* (IdleGate.resampling, observe_loop's second sample with a fresh barrier.)
ReadyIsConfirmed ==
  [][verdict' = "ready" /\ ~deferred => verdict \in {"resample", "ready"}]_vars

\* The gate never sits out more than UnknownBudget seconds of uninterrupted
\* unknown samples, and never sits out a structural one: it answers one of
\* the two deferrals instead. (TRANSIENT_REASONS, UNKNOWN_BUDGET_S)
UnknownIsBounded ==
  firstUnknown # None =>
    \/ verdict \in {"defer-deadline", "defer-unknown"}
    \/ verdict = "wait" /\ clock - firstUnknown <= UnknownBudget

\* No window survives an activity-bearing sample: while the gate has not
\* deferred, an open window started after the last disturbance and carries
\* the generations of the last sample.
WindowIsUndisturbed ==
  quietSince # None /\ ~deferred =>
    /\ disturbed <= quietSince
    /\ quietGens = lastGens
=============================================================================
