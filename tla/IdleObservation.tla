--------------------------- MODULE IdleObservation ---------------------------
(***************************************************************************)
(* The observation phase of an update, end to end: client requests to the  *)
(* router, the Collector that samples them through the journal and the     *)
(* admin API (pylib/omniroute_activity.py), the observer loop that turns   *)
(* samples into gate verdicts and publishes the latest one                 *)
(* (pylib/omniroute_observer.py), and the updater shell that polls the     *)
(* published verdict (scripts/omniroute-apply-when-idle.sh).               *)
(*                                                                         *)
(* A sample is not atomic: the journal is read first, then the health      *)
(* snapshot, the usage counters and the call log, and clients go on in     *)
(* between.  latest.json holds the last verdict only, so the shell, which  *)
(* polls at its own pace, may miss one.                                    *)
(***************************************************************************)
EXTENDS Integers, FiniteSets, FiniteSetsExt

CONSTANTS
  Requests,           \* client inference requests that may arrive
  MinWait,            \* min_wait
  Deadline,           \* content of the deadline file
  UnknownBudget,      \* UNKNOWN_BUDGET_S
  Interval,           \* pause between the starts of two samples (--interval)
  MaxSample,          \* time a sample may take before its reads are discarded
  Tolerance,          \* tolerance_ms: a trace may be this much in the future
  MaxTime,            \* bound: the clock stops here
  MaxHealth,          \* bound: health timestamps
  TransientReasons,
  StructuralReasons,
  None

ASSUME ObservationAssumption ==
  /\ {MinWait, Interval} \subseteq Nat \ {0}
  /\ {Deadline, UnknownBudget, MaxSample, Tolerance, MaxTime, MaxHealth}
       \subseteq Nat
  /\ None \notin Nat \cup (Nat \X Nat)

VARIABLES
  now,         \* monotonic clock, in ticks
  flights,     \* for each request, when it started and ended, or None
  unread,      \* its access-log lines the follower has not delivered yet
  sample,      \* the sample being taken: pc, start, second, arrived, fault,
               \* wall, counted, and turn, when observe_loop's turn began
  collector,   \* arrivalGen, rowGen, newest client trace, primed (self.last)
  baseTs, advanced, quietSince, quietGens, resampling, unknownSince, verdict,
  latest,      \* latest.json: verdict, whether the shell has yet to read it,
               \* and of a "ready" the start of its sample
  shell        \* the updater shell: observing, handoff, deferred or error

gate == <<baseTs, advanced, quietSince, quietGens, resampling, unknownSince>>
vars == <<now, flights, unread, sample, collector, gate, verdict,
          latest, shell>>

Counters == 0 .. Cardinality(Requests)

Gate == INSTANCE IdleGate
          WITH Instants <- 0 .. MaxTime, Generations <- Counters,
               Timestamps <- 0 .. MaxHealth, clock <- now,
               lastGens <- None, disturbed <- None, firstUnknown <- None,
               deferred <- FALSE

-----------------------------------------------------------------------------
(* Clients and OmniRoute (external), for as long as the shell waits.       *)

Observing == shell = "observing"

Started(r)  == flights[r].from # None
InFlight(r) == Started(r) /\ flights[r].to = None

\* A request writes its access-log line and its call-log row when it starts;
\* the row stays in flight until the request ends.
BeginRequest(r) ==
  /\ Observing /\ ~Started(r)
  /\ flights' = [flights EXCEPT ![r].from = now]
  /\ unread' = unread + 1
  /\ UNCHANGED <<now, sample, collector, gate, verdict, latest, shell>>

EndRequest(r) ==
  /\ Observing /\ InFlight(r)
  /\ flights' = [flights EXCEPT ![r].to = now]
  /\ UNCHANGED <<now, unread, sample, collector, gate, verdict,
                 latest, shell>>

Tick ==
  /\ Observing /\ now < MaxTime
  /\ now' = now + 1
  /\ UNCHANGED <<flights, unread, sample, collector, gate, verdict,
                 latest, shell>>

-----------------------------------------------------------------------------
(* Collector.sample and observe_loop.                                      *)

\* Start a sample: at the pace of the loop, or at once when the gate asked
\* for the confirming sample.
MayStart ==
  /\ Observing
  /\ sample.pc = "pause"
  /\ sample.second \/ now >= sample.turn + Interval

\* A healthy feed leaves no line behind that was written before the barrier,
\* but may lose one that reached the reader in two pieces; a faulty one
\* (overflow, lost continuity, no barrier) delivers some of them, leaves some
\* for later and may lose others.
PollJournal ==
  /\ MayStart
  /\ \E fault \in StructuralReasons \cup {None},
        delivered \in 0 .. unread, left \in 0 .. unread :
       /\ delivered + left <= unread
       /\ fault = None => left = 0
       /\ unread' = left
       /\ collector' = [collector EXCEPT !.arrivalGen = @ + delivered]
       /\ sample' = [sample EXCEPT !.pc = "polled", !.start = now,
                                   !.turn = IF sample.second THEN @ ELSE now,
                                   !.arrived = delivered > 0,
                                   !.fault = fault]
  /\ UNCHANGED <<now, flights, gate, verdict, latest, shell>>

Taken(second) == [sample EXCEPT !.pc = "pause", !.second = second,
                                !.arrived = FALSE, !.fault = None,
                                !.wall = None, !.counted = FALSE]

\* observe_loop: one gate step per sample, at the time the sample started.
\* "resample" is not published but answered with a second sample; whatever
\* that one's verdict is replaces latest.json.
AsksAgain == verdict' = "resample" /\ ~sample.second

Publish(input) ==
  /\ Gate!Step(sample.start, input)
  /\ IF AsksAgain
     THEN /\ sample' = Taken(TRUE)
          /\ UNCHANGED latest
     ELSE /\ sample' = Taken(FALSE)
          /\ latest' = [verdict |-> verdict', fresh |-> TRUE,
                        start |-> IF verdict' = "ready" THEN sample.start
                                                        ELSE None]

\* Every read of a sample shares its deadline.
TimeIsUp == now > sample.start + MaxSample

GateInput(state, reason, ts) ==
  [state |-> state, reason |-> reason, ts |-> ts,
   gens |-> <<collector'.arrivalGen, collector'.rowGen>>]

\* A failure for a transient reason is no excuse to overlook activity that
\* other sources showed, unless the sources themselves are broken.
FailedInput(reason, evidence, ts) ==
  IF reason \in TransientReasons /\ evidence /\ sample.fault = None
  THEN GateInput("busy", reason, ts)
  ELSE GateInput("unknown", reason, ts)

\* Recheck, login, the health prime or a read failed, an answer is mistyped, or
\* the sample ran out of time: the call log was not (usefully) read.  Counters
\* that were positive before a mistyped answer still say busy.
SampleFails ==
  /\ Observing /\ sample.pc # "pause"
  /\ collector' = collector
  /\ \/ \E reason \in TransientReasons \cup StructuralReasons :
          /\ TimeIsUp => reason \in TransientReasons
          /\ Publish(FailedInput(reason, sample.arrived, None))
     \/ /\ sample.pc = "history" /\ sample.counted /\ ~TimeIsUp
        /\ Publish(GateInput("busy", None, None))
  /\ UNCHANGED <<now, flights, unread, shell>>

\* Mutant: what is in flight is not looked at.
NothingServed == FALSE

\* A request in flight, as the usage counters and its call-log row show it; the
\* admission counters of the health snapshot may leave it out.
Served == \E r \in Requests : InFlight(r)

Read(next, counted) ==
  /\ Observing /\ ~TimeIsUp
  /\ sample' = [next EXCEPT !.counted = counted]
  /\ UNCHANGED <<now, flights, unread, collector, gate, verdict, latest, shell>>

\* The health snapshot; what is recent or in the future is measured from here.
ReadHealth ==
  /\ sample.pc = "polled"
  /\ \E counted \in {FALSE, Served} :
       Read([sample EXCEPT !.pc = "health", !.wall = now], counted)

ReadHistory ==
  /\ sample.pc = "health"
  /\ Read([sample EXCEPT !.pc = "history"], sample.counted \/ Served)

\* The rows of the call log whose time is not in the future, and the newest.
Traces      == {flights[r].from : r \in {q \in Requests : Started(q)}}
Readable    == {t \in Traces : t <= sample.wall + Tolerance}
NewestTrace == IF Readable = {} THEN None ELSE Max(Readable)

\* Client activity: something in flight, or a trace younger than min_wait.
Active == \/ Served
          \/ NewestTrace # None /\ sample.wall - NewestTrace < MinWait

\* What a sample whose reads succeeded can say.  classify looks at the counters
\* first; then come structural journal failures, then traces, a health timestamp
\* or clocks that are out of bounds, and only then the call log.
Readings(ts) ==
  IF sample.counted THEN {GateInput("busy", None, ts)}
  ELSE IF sample.fault # None THEN {GateInput("unknown", sample.fault, ts)}
  ELSE {input \in {GateInput(IF Active THEN "busy" ELSE "idle", None, ts)} :
          Readable = Traces}
       \cup {FailedInput(reason, sample.arrived \/ Active, ts) :
               reason \in TransientReasons}

\* The first read primes the newest trace; a later one that finds another newest
\* trace counts a generation.
RowsRead ==
  [collector EXCEPT
     !.rowGen = IF collector.primed /\ NewestTrace # collector.newest
                THEN @ + 1 ELSE @,
     !.newest = NewestTrace,
     !.primed = TRUE]

\* The call log.  Health timestamps only move forward: one that does not is a
\* clock failure.
ReadRows ==
  /\ Observing /\ sample.pc = "history" /\ ~TimeIsUp
  /\ collector' = RowsRead
  /\ \E ts \in 0 .. MaxHealth :
       /\ IF baseTs = None THEN ts = 0 ELSE ts >= baseTs
       /\ \E input \in Readings(ts) : Publish(input)
  /\ UNCHANGED <<now, flights, unread, shell>>

-----------------------------------------------------------------------------
(* The updater shell's poll loop.                                          *)

NewSample == [pc |-> "pause", start |-> 0, turn |-> -Interval, second |-> FALSE,
              arrived |-> FALSE, fault |-> None, wall |-> None, counted |-> FALSE]

NewCollector == [arrivalGen |-> 0, rowGen |-> 0, newest |-> None, primed |-> FALSE]

\* What the observer knew goes with its process.
StopObserver ==
  /\ sample' = NewSample /\ collector' = NewCollector
  /\ baseTs' = None /\ advanced' = FALSE
  /\ quietSince' = None /\ quietGens' = None
  /\ resampling' = FALSE /\ unknownSince' = None
  /\ verdict' = "wait"

\* One turn of the loop: the deadline, then latest.json.  Without a new verdict
\* the shell waits on or, once stale_limit is over, defers; how long that takes
\* is left open.
PollVerdict ==
  /\ shell = "observing"
  /\ \/ /\ now >= Deadline
        /\ shell' = "deferred"
        /\ UNCHANGED latest
     \/ /\ now < Deadline
        /\ latest.fresh
        /\ latest' = [latest EXCEPT !.fresh = FALSE]
        /\ shell' = CASE latest.verdict = "wait"  -> "observing"
                      [] latest.verdict = "ready" -> "handoff"
                      [] latest.verdict \in {"defer-deadline",
                                             "defer-unknown"} -> "deferred"
                      [] OTHER -> "error"
     \/ /\ now < Deadline
        /\ ~latest.fresh
        /\ shell' \in {"observing", "deferred"}
        /\ UNCHANGED latest
  /\ IF shell' = "observing" THEN UNCHANGED <<sample, collector, gate, verdict>>
                             ELSE StopObserver
  /\ UNCHANGED <<now, flights, unread>>

-----------------------------------------------------------------------------
Init ==
  /\ now = 0
  /\ flights = [r \in Requests |-> [from |-> None, to |-> None]]
  /\ unread = 0
  /\ sample = NewSample /\ collector = NewCollector
  /\ Gate!GateInit
  /\ verdict = "wait"
  /\ latest = [verdict |-> "wait", start |-> None, fresh |-> FALSE]
  /\ shell = "observing"

Observer == PollJournal \/ ReadHealth \/ ReadHistory \/ ReadRows \/ SampleFails

Next ==
  \/ \E r \in Requests : BeginRequest(r) \/ EndRequest(r)
  \/ Tick
  \/ Observer
  \/ PollVerdict

Spec == Init /\ [][Next]_vars

-----------------------------------------------------------------------------
TypeOK ==
  /\ now \in 0 .. MaxTime
  /\ flights \in [Requests -> [from : (0 .. MaxTime) \cup {None},
                               to   : (0 .. MaxTime) \cup {None}]]
  /\ unread \in 0 .. Cardinality(Requests)
  /\ sample \in [pc : {"pause", "polled", "health", "history"},
                 start : 0 .. MaxTime, turn : -Interval .. MaxTime,
                 second : BOOLEAN, arrived : BOOLEAN, counted : BOOLEAN,
                 fault : StructuralReasons \cup {None},
                 wall : (0 .. MaxTime) \cup {None}]
  /\ collector \in [arrivalGen : Counters, rowGen : Counters,
                    newest : (0 .. MaxTime) \cup {None}, primed : BOOLEAN]
  /\ verdict \in Gate!GateVerdicts
  /\ latest \in [verdict : Gate!GateVerdicts, fresh : BOOLEAN,
                 start : (0 .. MaxTime) \cup {None}]
  /\ shell \in {"observing", "handoff", "deferred", "error"}

\* The whole point of the wait: when the shell takes a "ready" to the commit
\* worker, every client request that started before the confirming sample had
\* been over for min_wait seconds, give or take the time one sample takes --
\* whatever the interleaving of arrivals with the reads of a sample, lost
\* journal lines, transient API failures and verdicts the shell missed.
\* (Collector.sample, IdleGate.step, apply_when_idle)
HandoffAfterQuiet ==
  shell = "handoff" =>
    \A r \in Requests :
      Started(r) /\ flights[r].from < latest.start =>
        /\ ~InFlight(r)
        /\ flights[r].to <= latest.start - MinWait + MaxSample
=============================================================================
