-------------------------------- MODULE Watch_proofs ------------------------
(***************************************************************************)
(* What decides when the router may be touched: the idle gate, for every   *)
(* MinWait, Deadline, UnknownBudget and every set of sampling instants,    *)
(* generation counters and health timestamps; the journal feed, for any    *)
(* number of lines, any cap on the retained cursors, with or without torn  *)
(* lines; the healer, whose recycles are spaced, capped and earned for any *)
(* thresholds and whatever dies.                                           *)
(***************************************************************************)
EXTENDS IdleGate, JournalReader, AdmissionHealer, NumberFacts,
        SequenceTheorems, FiniteSetTheorems, TLAPS

-----------------------------------------------------------------------------
(* The idle gate.                                                          *)

\* The gate's own bookkeeping of unknown runs agrees with the samples, until
\* the deadline (after which step looks at nothing else).
UnknownTracked ==
  clock < Deadline => unknownSince = firstUnknown

\* The window is one object: both halves are set or neither is.
WindowWhole == (quietSince = None) <=> (quietGens = None)

\* A confirming sample is only pending on a complete window.
ResamplePending ==
  resampling /\ ~deferred =>
    /\ verdict \in {"resample", "ready"}
    /\ quietSince # None
    /\ clock - quietSince >= MinWait

\* A window only opens once the health timestamp has been seen to move.
WindowAfterAdvance == quietSince # None => advanced

ReadyHasWindow ==
  verdict = "ready" /\ ~deferred => resampling /\ clock < Deadline

GateInv ==
  /\ TypeOK
  /\ disturbed <= clock
  /\ WindowWhole
  /\ WindowAfterAdvance
  /\ WindowIsUndisturbed
  /\ UnknownTracked
  /\ UnknownIsBounded
  /\ ResamplePending
  /\ ReadyHasWindow

\* The eight ways through step are exhaustive in what they do to the verdict
\* and keep every variable in its type.
LEMMA GateTyped == Spec => []TypeOK
<1> USE GateAssumption
<1>1. Init => TypeOK
  BY DEF Init, GateInit, TypeOK, GateVerdicts
<1>2. TypeOK /\ [Next]_vars => TypeOK'
  <2> SUFFICES ASSUME TypeOK, [Next]_vars PROVE TypeOK'
    OBVIOUS
  <2>1. ASSUME NEW t \in Instants, NEW s \in GateInput,
               Step(t, s), Record(t, s)
        PROVE  TypeOK'
    <3>1. t \in Nat /\ s.gens \in Gens /\ s.ts \in Timestamps \cup {None}
      BY DEF GateInput
    <3>2. /\ clock' \in Nat /\ lastGens' \in Gens /\ disturbed' \in Nat
          /\ firstUnknown' \in Nat \cup {None} /\ deferred' \in BOOLEAN
      BY <2>1, <3>1 DEF Record, TypeOK
    <3>3. UnknownStart(t) \in Nat \cup {None}
      BY <3>1 DEF UnknownStart, TypeOK
    <3>4. ASSUME NoteHealth(s)
          PROVE  /\ unknownSince' \in Nat \cup {None}
                 /\ baseTs' \in Timestamps \cup {None}
                 /\ advanced' \in BOOLEAN
      BY <3>1, <3>4 DEF NoteHealth, TypeOK
    <3>5. CASE PastDeadline(t, s)
      BY <3>2, <3>5 DEF PastDeadline, gateVars, TypeOK, GateVerdicts
    <3>6. CASE GiveUpOnUnknown(t, s)
      BY <3>2, <3>3, <3>6 DEF GiveUpOnUnknown, TypeOK, GateVerdicts
    <3>7. CASE SitOutUnknown(t, s)
      BY <3>2, <3>3, <3>7 DEF SitOutUnknown, DropWindow, TypeOK, GateVerdicts
    <3>8. CASE RestartOnActivity(t, s)
      BY <3>2, <3>4, <3>8
         DEF RestartOnActivity, DropWindow, TypeOK, GateVerdicts
    <3>9. CASE AwaitHealthAdvance(t, s)
      BY <3>2, <3>4, <3>9 DEF AwaitHealthAdvance, Quiet, TypeOK, GateVerdicts
    <3>10. CASE OpenWindow(t, s)
      BY <3>1, <3>2, <3>4, <3>10 DEF OpenWindow, Quiet, TypeOK, GateVerdicts
    <3>11. CASE WindowRuns(t, s)
      BY <3>2, <3>4, <3>11 DEF WindowRuns, Quiet, TypeOK, GateVerdicts
    <3>12. CASE WindowOver(t, s)
      BY <3>2, <3>4, <3>12 DEF WindowOver, Quiet, TypeOK, GateVerdicts
    <3> QED
      BY <2>1, <3>5, <3>6, <3>7, <3>8, <3>9, <3>10, <3>11, <3>12 DEF Step
  <2>2. CASE UNCHANGED vars
    BY <2>2 DEF vars, gateVars, history, TypeOK
  <2> QED
    BY <2>1, <2>2 DEF Next
<1> QED
  BY <1>1, <1>2, PTL DEF Spec

-----------------------------------------------------------------------------
(* One lemma per kind of step: it keeps GateInv.                           *)

\* A gate that has seen no sample satisfies the invariant.
LEMMA GateInvInit == Init => GateInv
<1> SUFFICES ASSUME Init PROVE GateInv
  OBVIOUS
<1>1. TypeOK
  BY GateAssumption DEF Init, GateInit, TypeOK, GateVerdicts
<1>2. disturbed <= clock
  BY GateAssumption DEF Init
<1> QED
  BY <1>1, <1>2
     DEF Init, GateInit, GateInv, WindowWhole, WindowAfterAdvance, WindowIsUndisturbed,
         UnknownTracked, UnknownIsBounded, ResamplePending, ReadyHasWindow

\* What every sample does to the history, whatever the gate answers.
LEMMA RecordFacts ==
  ASSUME GateInv, NEW t \in Instants, NEW s \in GateInput,
         t >= clock, Record(t, s)
  PROVE  /\ t \in Nat /\ clock' = t /\ lastGens' = s.gens
         /\ s.gens # None /\ t # None
         /\ disturbed' <= clock'
         /\ ~deferred' => ~deferred
         /\ s.state # "unknown" => firstUnknown' = None
         /\ clock < Deadline /\ s.state = "unknown" =>
              firstUnknown' = UnknownStart(t)
         /\ s.state = "idle" /\ s.gens = lastGens => disturbed' = disturbed
BY GateAssumption
   DEF GateInv, TypeOK, UnknownTracked, UnknownStart, Record, Disturbs,
       GateInput, Gens

\* After a deferral only the shape of the gate's state matters; after an
\* unknown or busy sample there is no window left to speak of.
LEMMA PastDeadlineKeeps ==
  ASSUME GateInv, TypeOK', NEW t \in Instants, NEW s \in GateInput,
         t >= clock, Record(t, s), PastDeadline(t, s)
  PROVE  GateInv'
<1>1. deferred' /\ verdict' = "defer-deadline"
  BY DEF PastDeadline, Record
<1>2. disturbed' <= clock' /\ ~(clock' < Deadline)
  <2>1. t \in Nat /\ clock' = t /\ disturbed' <= clock'
    BY RecordFacts
  <2> QED
    BY <2>1, GateAssumption DEF PastDeadline
<1>3. WindowWhole' /\ WindowAfterAdvance'
  BY DEF GateInv, WindowWhole, WindowAfterAdvance, PastDeadline, gateVars
<1> QED
  BY <1>1, <1>2, <1>3
     DEF GateInv, WindowIsUndisturbed, UnknownTracked, UnknownIsBounded,
         ResamplePending, ReadyHasWindow

\* A deferral over unknown samples leaves the window as it was.
LEMMA GiveUpKeeps ==
  ASSUME GateInv, TypeOK', NEW t \in Instants, NEW s \in GateInput,
         t >= clock, Record(t, s), GiveUpOnUnknown(t, s)
  PROVE  GateInv'
<1>1. deferred' /\ verdict' = "defer-unknown"
  BY DEF GiveUpOnUnknown, Record
<1>2. disturbed' <= clock' /\ unknownSince' = firstUnknown'
  <2>1. /\ disturbed' <= clock'
        /\ clock < Deadline /\ s.state = "unknown" =>
             firstUnknown' = UnknownStart(t)
        /\ t \in Nat
    BY RecordFacts
  <2> QED
    BY <2>1, GateAssumption DEF GiveUpOnUnknown, GateInv, TypeOK
<1>3. WindowWhole' /\ WindowAfterAdvance'
  BY DEF GateInv, WindowWhole, WindowAfterAdvance, GiveUpOnUnknown
<1> QED
  BY <1>1, <1>2, <1>3
     DEF GateInv, WindowIsUndisturbed, UnknownTracked, UnknownIsBounded,
         ResamplePending, ReadyHasWindow

\* A tolerated unknown sample drops the window and starts or goes on with
\* the unknown run.
LEMMA SitOutKeeps ==
  ASSUME GateInv, TypeOK', NEW t \in Instants, NEW s \in GateInput,
         t >= clock, Record(t, s), SitOutUnknown(t, s)
  PROVE  GateInv'
<1>1. /\ quietSince' = None /\ quietGens' = None /\ ~resampling' /\ verdict' = "wait"
      /\ unknownSince' = UnknownStart(t) /\ t - UnknownStart(t) <= UnknownBudget
  <2>1. ~(t - UnknownStart(t) > UnknownBudget)
    BY DEF SitOutUnknown, UnknownDefers
  <2>2. t \in Nat /\ UnknownStart(t) \in Nat /\ UnknownBudget \in Nat
    <3>1. t \in Nat /\ UnknownBudget \in Nat
      BY GateAssumption
    <3> QED
      BY <3>1 DEF GateInv, TypeOK, UnknownStart
  <2> QED
    BY <2>1, <2>2 DEF SitOutUnknown, DropWindow
<1>2. disturbed' <= clock' /\ clock' = t /\ firstUnknown' = UnknownStart(t)
  <2>1. clock < Deadline /\ s.state = "unknown"
    BY GateAssumption DEF SitOutUnknown, GateInv, TypeOK
  <2> QED
    BY <2>1, RecordFacts
<1>3. UnknownTracked' /\ UnknownIsBounded'
  BY <1>1, <1>2 DEF UnknownTracked, UnknownIsBounded
<1>4. /\ WindowWhole' /\ WindowAfterAdvance' /\ WindowIsUndisturbed'
      /\ ResamplePending' /\ ReadyHasWindow'
  BY <1>1 DEF WindowWhole, WindowAfterAdvance, WindowIsUndisturbed, ResamplePending,
              ReadyHasWindow
<1> QED
  BY <1>2, <1>3, <1>4 DEF GateInv

\* A busy sample, or one with new generations, drops the window.
LEMMA RestartKeeps ==
  ASSUME GateInv, TypeOK', NEW t \in Instants, NEW s \in GateInput,
         t >= clock, Record(t, s), RestartOnActivity(t, s)
  PROVE  GateInv'
<1>1. /\ quietSince' = None /\ quietGens' = None /\ ~resampling' /\ verdict' = "wait"
      /\ unknownSince' = None
  BY DEF RestartOnActivity, NoteHealth, DropWindow
<1>2. disturbed' <= clock' /\ firstUnknown' = None
  BY RecordFacts DEF RestartOnActivity
<1>3. UnknownTracked' /\ UnknownIsBounded'
  BY <1>1, <1>2 DEF UnknownTracked, UnknownIsBounded
<1>4. /\ WindowWhole' /\ WindowAfterAdvance' /\ WindowIsUndisturbed'
      /\ ResamplePending' /\ ReadyHasWindow'
  BY <1>1 DEF WindowWhole, WindowAfterAdvance, WindowIsUndisturbed, ResamplePending,
              ReadyHasWindow
<1> QED
  BY <1>2, <1>3, <1>4 DEF GateInv

\* A quiet sample disturbs nothing inside an open window, and is at or after
\* every disturbance when it opens one.
LEMMA QuietInsideWindow ==
  ASSUME GateInv, NEW t \in Instants, NEW s \in GateInput,
         t >= clock, Record(t, s), Quiet(t, s)
  PROVE  /\ quietGens # None /\ ~deferred => disturbed' = disturbed
         /\ quietGens # None => s.gens = quietGens
         /\ unknownSince' = None /\ firstUnknown' = None
<1>1. s.state = "idle"
  BY DEF Quiet, ShowsActivity, GateInput
<1> QED
  BY <1>1, RecordFacts
     DEF GateInv, Quiet, NoteHealth, ShowsActivity, WindowWhole,
         WindowIsUndisturbed

\* A quiet sample opens, extends or completes the window.
LEMMA QuietKeeps ==
  ASSUME GateInv, TypeOK', NEW t \in Instants, NEW s \in GateInput,
         t >= clock, Record(t, s),
         \/ AwaitHealthAdvance(t, s) \/ OpenWindow(t, s)
         \/ WindowRuns(t, s) \/ WindowOver(t, s)
  PROVE  GateInv'
<1> USE GateAssumption
<1>1. Quiet(t, s)
  BY DEF AwaitHealthAdvance, OpenWindow, WindowRuns, WindowOver
<1>2. /\ disturbed' <= clock' /\ UnknownTracked' /\ UnknownIsBounded'
      /\ advanced => advanced'
  BY <1>1, QuietInsideWindow, RecordFacts
     DEF UnknownTracked, UnknownIsBounded, Quiet, NoteHealth
<1>3. CASE OpenWindow(t, s)
  BY <1>2, <1>3, RecordFacts
     DEF GateInv, TypeOK, OpenWindow, WindowWhole, WindowAfterAdvance,
         WindowIsUndisturbed, ResamplePending, ReadyHasWindow
<1>4. CASE AwaitHealthAdvance(t, s) \/ WindowRuns(t, s)
  <2>1. WindowIsUndisturbed' /\ WindowWhole' /\ WindowAfterAdvance'
    BY <1>1, <1>2, <1>4, QuietInsideWindow, RecordFacts
       DEF GateInv, AwaitHealthAdvance, WindowRuns, WindowWhole,
           WindowIsUndisturbed, WindowAfterAdvance
  <2>2. ResamplePending' /\ ReadyHasWindow'
    <3>1. /\ verdict' = "wait" /\ resampling' = resampling
          /\ ~deferred' => ~deferred
      BY <1>4, RecordFacts DEF AwaitHealthAdvance, WindowRuns
    <3>2. ~(resampling /\ ~deferred)
      <4> SUFFICES ASSUME resampling, ~deferred PROVE FALSE
        OBVIOUS
      <4>1. quietSince # None /\ clock - quietSince >= MinWait /\ advanced
        BY DEF GateInv, ResamplePending, WindowAfterAdvance
      <4>2. t - quietSince < MinWait
        BY <1>2, <1>4, <4>1 DEF AwaitHealthAdvance, WindowRuns
      <4>3. clock \in Nat /\ quietSince \in Nat /\ t \in Nat
        BY <4>1, RecordFacts DEF GateInv, TypeOK
      <4> QED
        BY <4>1, <4>2, <4>3
    <3> QED
      BY <3>1, <3>2 DEF ResamplePending, ReadyHasWindow
  <2> QED
    BY <1>2, <2>1, <2>2 DEF GateInv
<1>5. CASE WindowOver(t, s)
  <2>1. WindowIsUndisturbed' /\ WindowWhole' /\ WindowAfterAdvance'
    BY <1>1, <1>5, QuietInsideWindow, RecordFacts
       DEF GateInv, WindowOver, WindowWhole, WindowIsUndisturbed,
           WindowAfterAdvance
  <2>2. /\ quietSince' = quietSince /\ quietSince # None
        /\ t - quietSince >= MinWait /\ t < Deadline
        /\ clock' = t
        /\ resampling' = TRUE /\ verdict' \in {"resample", "ready"}
    BY <1>1, <1>5, RecordFacts DEF WindowOver, Quiet
  <2>3. ResamplePending' /\ ReadyHasWindow'
    BY <2>2 DEF ResamplePending, ReadyHasWindow
  <2> QED
    BY <1>2, <2>1, <2>3 DEF GateInv
<1> QED
  BY <1>3, <1>4, <1>5

\* GateInv is an inductive invariant of the gate.
LEMMA GateInvariant == Spec => []GateInv
<1>1. GateInv /\ TypeOK' /\ [Next]_vars => GateInv'
  <2> SUFFICES ASSUME GateInv, TypeOK', [Next]_vars PROVE GateInv'
    OBVIOUS
  <2>1. ASSUME NEW t \in Instants, NEW s \in GateInput,
               t >= clock, Step(t, s), Record(t, s)
        PROVE  GateInv'
    BY <2>1, PastDeadlineKeeps, GiveUpKeeps, SitOutKeeps, RestartKeeps,
       QuietKeeps DEF Step
  <2>2. CASE UNCHANGED vars
    BY <2>2
       DEF vars, gateVars, history, GateInv, TypeOK, WindowWhole, WindowAfterAdvance,
           WindowIsUndisturbed, UnknownTracked, UnknownIsBounded,
           ResamplePending, ReadyHasWindow
  <2> QED
    BY <2>1, <2>2 DEF Next
<1> QED
  BY <1>1, GateInvInit, GateTyped, PTL DEF Spec

\* Every "ready" the gate gives before it has deferred rests on MinWait
\* seconds without a busy or unknown sample or a new generation, inside the
\* wait budget (IdleGate.step).
THEOREM ReadyIsQuiet == Spec => []ReadyMeansQuiet
<1>1. GateInv => ReadyMeansQuiet
  BY GateAssumption
     DEF GateInv, TypeOK, ReadyMeansQuiet, ReadyHasWindow, ResamplePending,
         WindowIsUndisturbed
<1> QED
  BY <1>1, GateInvariant, PTL

\* No open window spans a disturbance (the window is dropped on every path
\* that sees one).
THEOREM WindowUndisturbed == Spec => []WindowIsUndisturbed
BY GateInvariant, PTL DEF GateInv

\* Runs of unknown samples are sat out for at most UNKNOWN_BUDGET_S.
THEOREM UnknownBounded == Spec => []UnknownIsBounded
BY GateInvariant, PTL DEF GateInv

\* "ready" answers a confirming sample only (observe_loop's resample).
THEOREM ReadyConfirmed == Spec => ReadyIsConfirmed
<1>1. GateInv /\ [Next]_vars =>
        [verdict' = "ready" /\ ~deferred => verdict \in {"resample", "ready"}]_vars
  <2> SUFFICES ASSUME GateInv, Next, verdict' = "ready", ~deferred
               PROVE  verdict \in {"resample", "ready"}
    OBVIOUS
  <2>1. PICK t \in Instants, s \in GateInput : Step(t, s)
    BY DEF Next
  <2>2. WindowOver(t, s)
    BY <2>1
       DEF Step, PastDeadline, GiveUpOnUnknown, SitOutUnknown,
           RestartOnActivity, AwaitHealthAdvance, OpenWindow, WindowRuns
  <2>3. resampling
    BY <2>2 DEF WindowOver
  <2> QED
    BY <2>3 DEF GateInv, ResamplePending
<1> QED
  BY <1>1, GateInvariant, PTL DEF Spec, ReadyIsConfirmed

-----------------------------------------------------------------------------
(* The journal feed.                                                       *)

\* What the follower has printed and no readline has returned yet.
Stream == buffer \o pipe

\* Lines come in order; a head is followed by its tail.
Follows(p, q) ==
  IF p.part = "head" THEN q.part = "tail" /\ q.line = p.line
                     ELSE q.part # "tail" /\ q.line = p.line + 1

\* The last piece is the one the follower printed last.
LastPrinted(p) ==
  IF p.part = "head" THEN printed.half /\ p.line = printed.lines + 1
                     ELSE ~printed.half /\ p.line = printed.lines

StreamOrdered ==
  /\ \A i \in 1 .. Len(Stream) - 1 : Follows(Stream[i], Stream[i + 1])
  /\ Stream # <<>> => LastPrinted(Stream[Len(Stream)])

\* The first line of which a piece is still to be read.
NextLine == IF Stream = <<>> THEN printed.lines + 1 ELSE Stream[1].line

\* A half of that line has been read as a line already.
HalfRead == IF Stream = <<>> THEN printed.half ELSE Stream[1].part = "tail"

\* A line that was not turned into a record must show.
Trouble == spoiled \/ (poll.pc = "reading"
                       /\ (poll.overflow \/ ~poll.continuous))

LinesAccounted ==
  /\ seed < NextLine
  /\ read \subseteq (seed + 1) .. (NextLine - 1)
  /\ HalfRead => NextLine \in torn
  /\ Trouble \/ (seed + 1) .. (NextLine - 1) \subseteq read \cup torn

FeedTyped ==
  /\ journal \in Seq([boot : {0, 1}, long : BOOLEAN])
  /\ \A i \in 2 .. Len(journal) : journal[i].boot = 1
  /\ follower \in {"none", "running", "dead"}
  /\ printed \in [lines : Nat, half : BOOLEAN]
  /\ pipe \in Seq([line : Nat, part : {"whole", "head", "tail"}])
  /\ buffer \in Seq([line : Nat, part : {"whole", "head", "tail"}])
  /\ poll \in [pc : {"idle", "reading"}, barrier : Nat,
               consumed : BOOLEAN, continuous : BOOLEAN, overflow : BOOLEAN]
  /\ retained \subseteq read
  /\ read \subseteq Nat
  /\ spoiled \in BOOLEAN

\* Only what the container has logged is printed.
PrintedIsLogged ==
  /\ printed.lines <= Len(journal)
  /\ printed.half => printed.lines < Len(journal)

\* Before the follower runs nothing is read.
NotFollowing ==
  follower = "none" =>
    pipe = <<>> /\ buffer = <<>> /\ read = {} /\ torn = {} /\ ~printed.half

Seeded ==
  IF seed = Nowhere
  THEN follower = "none" /\ poll.pc = "idle" /\ ~Healthy(batch)
  ELSE /\ seed \in 1 .. Len(journal)
       /\ follower # "none" => seed <= printed.lines /\ LinesAccounted

\* The poll's barrier is a line of the seed's boot; met means read.
PollBarrier ==
  poll.pc = "reading" =>
    /\ poll.barrier \in seed .. Len(journal)
    /\ journal[poll.barrier].boot = journal[seed].boot
    /\ poll.consumed => poll.barrier \in read

BatchComplete ==
  Healthy(batch) /\ ~spoiled =>
    /\ batch.barrier \in seed .. Len(journal)
    /\ journal[batch.barrier].boot = journal[seed].boot
    /\ (seed + 1) .. batch.barrier \subseteq read \cup torn

FeedInv == /\ FeedTyped
           /\ PrintedIsLogged
           /\ NotFollowing
           /\ StreamOrdered
           /\ Seeded
           /\ PollBarrier
           /\ BatchComplete

-----------------------------------------------------------------------------
(* The stream between the follower and the reader.                         *)

PieceType == [line : Nat, part : {"whole", "head", "tail"}]

LEMMA StreamType ==
  ASSUME FeedTyped
  PROVE  /\ Stream \in Seq(PieceType)
         /\ Len(Stream) \in Nat
         /\ \A i \in 1 .. Len(Stream) :
              Stream[i].line \in Nat /\ Stream[i] \in PieceType
         /\ Stream = <<>> <=> buffer = <<>> /\ pipe = <<>>
<1>1. pipe \in Seq(PieceType) /\ buffer \in Seq(PieceType)
  BY DEF FeedTyped, PieceType
<1>2. Stream \in Seq(PieceType) /\ Len(Stream) = Len(buffer) + Len(pipe)
  BY <1>1 DEF Stream
<1>3. \A i \in 1 .. Len(Stream) : Stream[i] \in PieceType
  BY <1>2
<1>4. \A q \in PieceType : q.line \in Nat
  BY DEF PieceType
<1> QED
  BY <1>1, <1>2, <1>3, <1>4

\* A piece that is printed comes last.
LEMMA PieceAppended ==
  ASSUME FeedTyped, StreamOrdered, NEW p \in PieceType,
         Stream' = Append(Stream, p), LastPrinted(p)',
         p.line = printed.lines + 1, (p.part = "tail") <=> printed.half
  PROVE  StreamOrdered' /\ NextLine' = NextLine /\ (HalfRead' <=> HalfRead)
<1>1. /\ Stream \in Seq(PieceType) /\ Len(Stream) \in Nat
      /\ \A i \in 1 .. Len(Stream) : Stream[i].line \in Nat
  BY StreamType
<1>2. /\ Stream' # <<>> /\ Len(Stream') = Len(Stream) + 1
      /\ Stream'[Len(Stream')] = p
      /\ \A i \in 1 .. Len(Stream) : Stream'[i] = Stream[i]
  BY <1>1
<1>3. Stream # <<>> => Follows(Stream[Len(Stream)], p)
  <2> SUFFICES ASSUME Stream # <<>> PROVE Follows(Stream[Len(Stream)], p)
    OBVIOUS
  <2>1. LastPrinted(Stream[Len(Stream)])
    BY DEF StreamOrdered
  <2> QED
    BY <2>1 DEF LastPrinted, Follows
<1>4. StreamOrdered'
  <2>1. ASSUME NEW i \in 1 .. Len(Stream') - 1
        PROVE  Follows(Stream'[i], Stream'[i + 1])
    <3>1. CASE i = Len(Stream)
      <4>1. Stream # <<>> /\ Stream'[i] = Stream[Len(Stream)]
            /\ Stream'[i + 1] = p
        BY <1>1, <1>2, <3>1
      <4> QED
        BY <1>3, <4>1
    <3>2. CASE i # Len(Stream)
      <4>1. i \in 1 .. Len(Stream) - 1 /\ Stream'[i] = Stream[i]
            /\ Stream'[i + 1] = Stream[i + 1]
        BY <1>1, <1>2, <3>2
      <4> QED
        BY <4>1 DEF StreamOrdered
    <3> QED
      BY <3>1, <3>2
  <2>2. LastPrinted(Stream[Len(Stream)])'
    BY <1>2
  <2> QED
    BY <1>2, <2>1, <2>2 DEF StreamOrdered, Follows
<1>5. CASE Stream = <<>>
  <2>1. Stream'[1] = p
    BY <1>2, <1>5
  <2> QED
    BY <1>2, <1>4, <1>5, <2>1 DEF NextLine, HalfRead
<1>6. CASE Stream # <<>>
  <2>1. Stream'[1] = Stream[1]
    BY <1>1, <1>2, <1>6
  <2> QED
    BY <1>2, <1>4, <1>6, <2>1 DEF NextLine, HalfRead
<1> QED
  BY <1>5, <1>6

\* What is left of a sequence.
LEMMA TailOf ==
  ASSUME NEW E, NEW S \in Seq(E), NEW k \in 1 .. Len(S) + 1,
         NEW T, T = SubSeq(S, k, Len(S))
  PROVE  /\ T \in Seq(E) /\ Len(T) = Len(S) - k + 1
         /\ \A i \in 1 .. Len(T) : T[i] = S[i + k - 1]
<1>1. T \in Seq(E) /\ Len(T) = Len(S) - k + 1
  OBVIOUS
<1>2. \A i \in 1 .. Len(T) : T[i] = S[i + k - 1]
  BY <1>1
<1> QED
  BY <1>1, <1>2

\* What is left of the first of two sequences, with the second.
LEMMA TailOfConcat ==
  ASSUME NEW E, NEW S \in Seq(E), NEW R \in Seq(E), NEW k \in 1 .. Len(S) + 1
  PROVE  SubSeq(S, k, Len(S)) \o R = SubSeq(S \o R, k, Len(S \o R))
<1> DEFINE W == S \o R
<1>1. /\ W \in Seq(E) /\ Len(W) = Len(S) + Len(R)
      /\ Len(S) \in Nat /\ Len(R) \in Nat
  OBVIOUS
<1>2. SubSeq(W, k, Len(S)) = SubSeq(S, k, Len(S))
  BY <1>1, SubSeqOfConcat1
<1>3. SubSeq(W, Len(S) + 1, Len(W)) = R
  <2>1. SubSeq(W, Len(S) + 1, Len(W))
          = SubSeq(R, (Len(S) + 1) - Len(S), Len(W) - Len(S))
    BY <1>1, SubSeqOfConcat2
  <2>2. (Len(S) + 1) - Len(S) = 1 /\ Len(W) - Len(S) = Len(R)
    BY <1>1
  <2>3. SubSeq(R, 1, Len(R)) = R
    BY SubSeqFull
  <2> QED
    BY <2>1, <2>2, <2>3
<1> HIDE DEF W
<1>4. SubSeq(W, k, Len(S)) \o SubSeq(W, Len(S) + 1, Len(W))
        = SubSeq(W, k, Len(W))
  <2>1. k \in 1 .. Len(W) + 1 /\ Len(S) \in (k - 1) .. Len(W)
        /\ Len(W) \in Len(S) .. Len(W)
    BY <1>1
  <2> QED
    BY <1>1, <2>1, ConcatAdjacentSubSeq
<1> QED
  BY <1>2, <1>3, <1>4 DEF W

\* A tail from the k-th piece on is in order, and begins where the whole
\* goes on.
GoesOn(S, T, k) ==
  /\ \A i \in 1 .. Len(T) - 1 : Follows(T[i], T[i + 1])
  /\ T = <<>> <=> Len(S) = k - 1
  /\ T # <<>> => /\ T[Len(T)] = S[Len(S)]
                 /\ T[1] = S[k]
                 /\ Follows(S[k - 1], S[k])

LEMMA OrderedTail ==
  ASSUME NEW S \in Seq(PieceType), NEW k \in {2, 3}, k <= Len(S) + 1,
         NEW T, T = SubSeq(S, k, Len(S)),
         \A i \in 1 .. Len(S) - 1 : Follows(S[i], S[i + 1])
  PROVE  GoesOn(S, T, k)
<1>1. PICK n \in Nat : n = Len(S)
  OBVIOUS
<1>2. k \in 1 .. Len(S) + 1
  BY <1>1
<1>3. /\ T \in Seq(PieceType) /\ Len(T) = n - k + 1
      /\ \A i \in 1 .. Len(T) : T[i] = S[i + k - 1]
  BY <1>1, <1>2, TailOf
<1>4. ASSUME NEW i \in 1 .. Len(T) - 1 PROVE Follows(T[i], T[i + 1])
  <2>1. /\ i + k - 1 \in 1 .. n - 1
        /\ T[i] = S[i + k - 1]
        /\ T[i + 1] = S[(i + k - 1) + 1]
    BY <1>1, <1>3
  <2> QED
    BY <1>1, <2>1
<1>5. T = <<>> <=> n = k - 1
  <2>1. T = <<>> <=> Len(T) = 0
    BY <1>3, EmptySeq
  <2> QED
    BY <1>1, <1>3, <2>1
<1>6. ASSUME T # <<>>
      PROVE  /\ T[Len(T)] = S[n]
             /\ T[1] = S[k]
             /\ Follows(S[k - 1], S[k])
  <2>1. Len(T) \in Nat /\ Len(T) >= 1
    BY <1>3, <1>6
  <2>2. T[Len(T)] = S[n] /\ T[1] = S[k]
    BY <1>3, <2>1
  <2>3. k - 1 \in 1 .. n - 1 /\ (k - 1) + 1 = k
    BY <1>1, <1>3, <2>1
  <2> QED
    BY <1>1, <2>2, <2>3
<1> QED
  BY <1>1, <1>4, <1>5, <1>6 DEF GoesOn

\* Only half of the next line is there.
LoneHead == Stream[1].part = "head" /\ Len(Stream) = 1

\* Reading takes the first line, both pieces of it if they are there.
LEMMA PieceRead ==
  ASSUME FeedTyped, StreamOrdered, Stream # <<>>, UNCHANGED printed,
         NEW k \in {2, 3},
         (k = 3) <=> (Stream[1].part = "head" /\ Len(Stream) > 1),
         Stream' = SubSeq(Stream, k, Len(Stream))
  PROVE  /\ StreamOrdered'
         /\ NextLine = Stream[1].line
         /\ LoneHead => NextLine' = NextLine /\ HalfRead'
         /\ ~LoneHead => NextLine' = NextLine + 1 /\ ~HalfRead'
<1>1. PICK n \in Nat : n = Len(Stream)
  BY StreamType
<1>2. Stream \in Seq(PieceType) /\ n >= 1 /\ k <= n + 1
  BY <1>1, StreamType
<1>3. /\ \A i \in 1 .. n - 1 : Follows(Stream[i], Stream[i + 1])
      /\ LastPrinted(Stream[n])
  BY <1>1 DEF StreamOrdered
<1>4. /\ \A i \in 1 .. Len(Stream') - 1 : Follows(Stream'[i], Stream'[i + 1])
      /\ Stream' = <<>> <=> n = k - 1
      /\ Stream' # <<>> => /\ Stream'[Len(Stream')] = Stream[n]
                           /\ Stream'[1] = Stream[k]
                           /\ Follows(Stream[k - 1], Stream[k])
  <2>1. PICK S : S = Stream
    OBVIOUS
  <2>2. PICK T : T = Stream'
    OBVIOUS
  <2>3. S \in Seq(PieceType) /\ k <= Len(S) + 1 /\ T = SubSeq(S, k, Len(S))
        /\ \A i \in 1 .. Len(S) - 1 : Follows(S[i], S[i + 1])
    BY <1>1, <1>2, <1>3, <2>1, <2>2
  <2> HIDE <1>3
  <2>4. GoesOn(S, T, k)
    BY <2>3, OrderedTail
  <2> QED
    BY <1>1, <2>1, <2>2, <2>4 DEF GoesOn
<1>5. Stream' # <<>> => LastPrinted(Stream[Len(Stream)])'
  BY <1>3, <1>4 DEF LastPrinted
<1>6. StreamOrdered'
  BY <1>4, <1>5 DEF StreamOrdered, Follows
<1>7. NextLine = Stream[1].line /\ Stream[1].line \in Nat
  BY <1>1, <1>2, StreamType DEF NextLine
<1>8. CASE LoneHead
  <2>1. Stream[1].part = "head" /\ n = 1 /\ k = 2
    BY <1>1, <1>8 DEF LoneHead
  <2>2. printed.half /\ Stream[1].line = printed.lines + 1
    BY <1>3, <2>1 DEF LastPrinted
  <2>3. Stream' = <<>>
    BY <1>4, <2>1
  <2> QED
    BY <1>6, <1>7, <1>8, <2>2, <2>3 DEF NextLine, HalfRead
<1>9. CASE ~LoneHead /\ k = 2
  <2>1. Stream[1].part # "head"
    BY <1>1, <1>2, <1>9 DEF LoneHead
  <2>2. CASE Stream' = <<>>
    <3>1. ~printed.half /\ Stream[1].line = printed.lines
      BY <1>3, <1>4, <1>9, <2>1, <2>2 DEF LastPrinted
    <3> QED
      BY <1>6, <1>7, <1>9, <2>2, <3>1 DEF NextLine, HalfRead
  <2>3. CASE Stream' # <<>>
    <3>1. Stream'[1] = Stream[2] /\ Follows(Stream[1], Stream[2])
      BY <1>4, <1>9, <2>3
    <3>2. Stream[2].part # "tail" /\ Stream[2].line = Stream[1].line + 1
      BY <2>1, <3>1 DEF Follows
    <3> QED
      BY <1>6, <1>7, <1>9, <2>3, <3>1, <3>2 DEF NextLine, HalfRead
  <2> QED
    BY <2>2, <2>3
<1>10. CASE k = 3
  <2>1. Stream[1].part = "head" /\ n > 1 /\ ~LoneHead
    <3>1. Stream[1].part = "head" /\ Len(Stream) > 1
      BY <1>10
    <3> QED
      BY <1>1, <3>1 DEF LoneHead
  <2>2. Stream[2].part = "tail" /\ Stream[2].line = Stream[1].line
    <3>1. 1 \in 1 .. n - 1 /\ 1 + 1 = 2
      BY <1>1, <2>1
    <3>2. Follows(Stream[1], Stream[2])
      BY <1>3, <3>1
    <3> QED
      BY <2>1, <3>2 DEF Follows
  <2>3. CASE Stream' = <<>>
    <3>1. ~printed.half /\ Stream[2].line = printed.lines
      BY <1>3, <1>4, <1>10, <2>2, <2>3 DEF LastPrinted
    <3> QED
      BY <1>6, <1>7, <2>1, <2>2, <2>3, <3>1 DEF NextLine, HalfRead
  <2>4. CASE Stream' # <<>>
    <3>1. Stream'[1] = Stream[3] /\ Follows(Stream[2], Stream[3])
      BY <1>4, <1>10, <2>4
    <3>2. Stream[3].part # "tail" /\ Stream[3].line = Stream[2].line + 1
      BY <2>2, <3>1 DEF Follows
    <3> QED
      BY <1>6, <1>7, <2>1, <2>2, <2>4, <3>1, <3>2 DEF NextLine, HalfRead
  <2> QED
    BY <2>3, <2>4
<1> QED
  BY <1>8, <1>9, <1>10

-----------------------------------------------------------------------------
(* The invariant.                                                          *)

LEMMA FeedInitInv == FeedInit => FeedInv
<1> SUFFICES ASSUME FeedInit PROVE FeedInv
  OBVIOUS
<1>1. /\ journal \in Seq([boot : {0, 1}, long : BOOLEAN])
      /\ \A i \in 2 .. Len(journal) : journal[i].boot = 1
      /\ Len(journal) \in Nat
  <2>1. CASE journal = <<>>
    BY <2>1
  <2>2. CASE journal # <<>>
    <3>1. PICK b \in {0, 1} : journal = <<[boot |-> b, long |-> FALSE]>>
      BY <2>2 DEF FeedInit
    <3> QED
      BY <3>1
  <2> QED
    BY <2>1, <2>2
<1>2. /\ follower = "none" /\ pipe = <<>> /\ buffer = <<>> /\ read = {}
      /\ torn = {} /\ seed = Nowhere /\ batch = Nowhere /\ spoiled = FALSE
      /\ retained = {} /\ poll.pc = "idle"
      /\ printed = [lines |-> 0, half |-> FALSE]
  BY DEF FeedInit
<1>3. FeedTyped
  <2>1. poll \in [pc : {"idle", "reading"}, barrier : Nat, consumed : BOOLEAN,
                  continuous : BOOLEAN, overflow : BOOLEAN]
    BY DEF FeedInit
  <2>2. printed \in [lines : Nat, half : BOOLEAN]
    BY <1>2
  <2>3. /\ pipe \in Seq([line : Nat, part : {"whole", "head", "tail"}])
        /\ buffer \in Seq([line : Nat, part : {"whole", "head", "tail"}])
    BY <1>2
  <2> QED
    BY <1>1, <1>2, <2>1, <2>2, <2>3 DEF FeedTyped
<1>4. Stream = <<>>
  BY <1>2 DEF Stream
<1>5. StreamOrdered
  <2>1. Len(Stream) = 0
    BY <1>4
  <2> QED
    BY <1>4, <2>1 DEF StreamOrdered
<1>6. PrintedIsLogged /\ NotFollowing
  BY <1>1, <1>2 DEF PrintedIsLogged, NotFollowing
<1>7. Seeded /\ PollBarrier /\ BatchComplete
  BY <1>2 DEF Seeded, PollBarrier, BatchComplete, Healthy
<1> QED
  BY <1>3, <1>5, <1>6, <1>7 DEF FeedInv

LEMMA NowhereIsNoLine == Nowhere \notin Nat
BY ReaderAssumption DEF ReaderAssumption

\* The stream and what is made of it, when nothing touches them.
LEMMA StreamKept ==
  ASSUME StreamOrdered, UNCHANGED <<pipe, buffer, printed>>
  PROVE  StreamOrdered' /\ NextLine' = NextLine /\ (HalfRead' <=> HalfRead)
<1>1. Stream' = Stream
  BY DEF Stream
<1> QED
  BY <1>1 DEF StreamOrdered, Follows, LastPrinted, NextLine, HalfRead

LEMMA FeedLog == ASSUME FeedInv, Log PROVE FeedInv'
<1>1. PICK long \in BOOLEAN :
        journal' = Append(journal, [boot |-> 1, long |-> long])
  BY DEF Log
<1>2. UNCHANGED <<follower, printed, pipe, buffer, seed, retained, poll, batch,
                  read, torn, spoiled>>
  BY DEF Log, reader, feedHistory
<1>3. /\ journal' \in Seq([boot : {0, 1}, long : BOOLEAN])
      /\ Len(journal) \in Nat /\ Len(journal') = Len(journal) + 1
      /\ \A i \in 1 .. Len(journal) : journal'[i] = journal[i]
      /\ journal'[Len(journal) + 1].boot = 1
  BY <1>1 DEF FeedInv, FeedTyped
<1>4. FeedTyped'
  <2>1. ASSUME NEW i \in 2 .. Len(journal') PROVE journal'[i].boot = 1
    <3>1. CASE i = Len(journal) + 1
      BY <1>3, <3>1
    <3>2. CASE i # Len(journal) + 1
      <4>1. i \in 2 .. Len(journal) /\ i \in 1 .. Len(journal)
        BY <1>3, <3>2
      <4> QED
        BY <1>3, <4>1 DEF FeedInv, FeedTyped
    <3> QED
      BY <3>1, <3>2
  <2> QED
    BY <1>2, <1>3, <2>1 DEF FeedInv, FeedTyped
<1>5. StreamOrdered' /\ NextLine' = NextLine /\ (HalfRead' <=> HalfRead)
  BY <1>2, StreamKept DEF FeedInv
<1>6. PrintedIsLogged'
  BY <1>2, <1>3 DEF FeedInv, FeedTyped, PrintedIsLogged
<1>7. NotFollowing'
  BY <1>2 DEF FeedInv, NotFollowing
<1>8. Seeded'
  <2>1. Trouble' <=> Trouble
    BY <1>2 DEF Trouble
  <2>2. LinesAccounted => LinesAccounted'
    BY <1>2, <1>5, <2>1 DEF LinesAccounted
  <2>3. Healthy(batch)' <=> Healthy(batch)
    BY <1>2
  <2> QED
    BY <1>2, <1>3, <2>2, <2>3 DEF FeedInv, Seeded
<1>9. PollBarrier'
  BY <1>2, <1>3, NowhereIsNoLine DEF FeedInv, Seeded, PollBarrier
<1>10. BatchComplete'
  <2>1. ASSUME Healthy(batch), ~spoiled
        PROVE  /\ seed \in 1 .. Len(journal)
               /\ batch.barrier \in seed .. Len(journal)
               /\ journal[batch.barrier].boot = journal[seed].boot
               /\ (seed + 1) .. batch.barrier \subseteq read \cup torn
    BY <2>1 DEF FeedInv, Seeded, BatchComplete
  <2>2. ASSUME Healthy(batch), ~spoiled
        PROVE  /\ batch.barrier \in seed .. Len(journal')
               /\ journal'[batch.barrier].boot = journal'[seed].boot
    BY <1>3, <2>1, <2>2
  <2>3. Healthy(batch)' <=> Healthy(batch)
    BY <1>2
  <2> QED
    BY <1>2, <2>1, <2>2, <2>3 DEF BatchComplete
<1> QED
  BY <1>4, <1>5, <1>6, <1>7, <1>8, <1>9, <1>10 DEF FeedInv

\* A piece goes into the pipe.
LEMMA FeedPrint == ASSUME FeedInv, PrintLine PROVE FeedInv'
<1>1. /\ follower = "running" /\ printed.lines < Len(journal)
      /\ UNCHANGED <<journal, follower, buffer, seed, retained, poll, batch,
                     read, torn, spoiled>>
  BY DEF PrintLine, reader, feedHistory
<1>2. PICK part \in {"whole", "head", "tail"} :
        /\ pipe' = Append(pipe, Piece(part))
        /\ (part = "tail") <=> printed.half
        /\ part = "head" => /\ printed'.half
                            /\ printed'.lines = printed.lines
        /\ part # "head" => /\ ~printed'.half
                            /\ printed'.lines = printed.lines + 1
        /\ printed' \in [lines : Nat, half : BOOLEAN]
  <2>0. printed \in [lines : Nat, half : BOOLEAN]
    BY DEF FeedInv, FeedTyped
  <2>1. CASE /\ ~printed.half
             /\ pipe' = Append(pipe, Piece("whole"))
             /\ printed' = [printed EXCEPT !.lines = @ + 1]
    BY <2>0, <2>1
  <2>2. CASE /\ ~printed.half
             /\ pipe' = Append(pipe, Piece("head"))
             /\ printed' = [printed EXCEPT !.half = TRUE]
    BY <2>0, <2>2
  <2>3. CASE /\ printed.half
             /\ pipe' = Append(pipe, Piece("tail"))
             /\ printed' = [lines |-> printed.lines + 1, half |-> FALSE]
    BY <2>0, <2>3
  <2> QED
    BY <2>1, <2>2, <2>3 DEF PrintLine
<1>3. PICK p : p = Piece(part)
  OBVIOUS
<1>4. p \in PieceType /\ p.line = printed.lines + 1 /\ p.part = part
  BY <1>3 DEF Piece, PieceType, FeedInv, FeedTyped
<1>5. Stream' = Append(Stream, p) /\ pipe' \in Seq(PieceType)
  <2>1. PICK b \in Seq(PieceType), q \in Seq(PieceType) : b = buffer /\ q = pipe
    BY DEF FeedInv, FeedTyped, PieceType
  <2>2. Append(q, p) \in Seq(PieceType) /\ b \o Append(q, p) = Append(b \o q, p)
    BY <1>4
  <2>3. buffer' = b /\ pipe' = Append(q, p)
    BY <1>1, <1>2, <1>3, <2>1
  <2> QED
    BY <2>1, <2>2, <2>3 DEF Stream
<1>6. LastPrinted(p)'
  BY <1>2, <1>4 DEF LastPrinted
<1>7. StreamOrdered' /\ NextLine' = NextLine /\ (HalfRead' <=> HalfRead)
  BY <1>2, <1>4, <1>5, <1>6, PieceAppended DEF FeedInv
<1>8. FeedTyped'
  BY <1>1, <1>2, <1>5 DEF FeedInv, FeedTyped, PieceType
<1>9. PrintedIsLogged'
  <2>1. Len(journal) \in Nat /\ printed.lines \in Nat
    BY DEF FeedInv, FeedTyped
  <2> QED
    BY <1>1, <1>2, <2>1 DEF PrintedIsLogged
<1>10. NotFollowing'
  BY <1>1 DEF NotFollowing
<1>11. Seeded'
  <2>1. Trouble' <=> Trouble
    BY <1>1 DEF Trouble
  <2>2. LinesAccounted => LinesAccounted'
    BY <1>1, <1>7, <2>1 DEF LinesAccounted
  <2>3. seed # Nowhere /\ seed \in 1 .. Len(journal)
        /\ seed <= printed.lines /\ LinesAccounted
    BY <1>1 DEF FeedInv, Seeded
  <2>4. seed <= printed'.lines
    BY <1>2, <2>3 DEF FeedInv, FeedTyped
  <2> QED
    BY <1>1, <2>2, <2>3, <2>4 DEF Seeded
<1>12. PollBarrier' /\ BatchComplete'
  <2>1. Healthy(batch)' <=> Healthy(batch)
    BY <1>1
  <2> QED
    BY <1>1, <2>1 DEF FeedInv, PollBarrier, BatchComplete
<1> QED
  BY <1>7, <1>8, <1>9, <1>10, <1>11, <1>12 DEF FeedInv

\* Steps that leave the journal, the stream and the seed alone and lose no line.
LEMMA FeedElsewhere ==
  ASSUME FeedInv,
         UNCHANGED <<journal, printed, pipe, buffer, seed, read, torn, retained>>,
         FeedTyped', PollBarrier', BatchComplete', Trouble => Trouble',
         follower' = "none" <=> follower = "none",
         seed = Nowhere => poll'.pc = "idle" /\ ~Healthy(batch)'
  PROVE  FeedInv'
<1>1. StreamOrdered' /\ NextLine' = NextLine /\ (HalfRead' <=> HalfRead)
  BY StreamKept DEF FeedInv
<1>2. PrintedIsLogged' /\ NotFollowing'
  BY DEF FeedInv, PrintedIsLogged, NotFollowing
<1>3. LinesAccounted => LinesAccounted'
  BY <1>1 DEF LinesAccounted
<1>4. Seeded'
  BY <1>3 DEF FeedInv, Seeded
<1> QED
  BY <1>1, <1>2, <1>4 DEF FeedInv

LEMMA FeedDies == ASSUME FeedInv, FollowerDies PROVE FeedInv'
<1>1. /\ UNCHANGED <<journal, printed, pipe, buffer, seed, read, torn, retained,
                     poll, batch, spoiled>>
      /\ follower = "running" /\ follower' = "dead"
  BY DEF FollowerDies, reader, feedHistory
<1>2. FeedTyped'
  BY <1>1 DEF FeedInv, FeedTyped
<1>3. PollBarrier' /\ BatchComplete'
  <2>1. Healthy(batch)' <=> Healthy(batch)
    BY <1>1
  <2> QED
    BY <1>1, <2>1 DEF FeedInv, PollBarrier, BatchComplete
<1>4. Trouble => Trouble'
  BY <1>1 DEF Trouble
<1>5. seed = Nowhere => poll'.pc = "idle" /\ ~Healthy(batch)'
  BY <1>1 DEF FeedInv, Seeded
<1> QED
  BY <1>1, <1>2, <1>3, <1>4, <1>5, FeedElsewhere

\* A poll that reports a failure at once.
LEMMA FeedFails ==
  ASSUME FeedInv, poll.pc = "idle",
         NEW ready \in BOOLEAN, NEW continuous \in BOOLEAN,
         Publish(Failed(ready, continuous)),
         UNCHANGED <<external, buffer, seed, retained, poll, read, torn>>
  PROVE  FeedInv'
<1>1. /\ UNCHANGED <<journal, printed, pipe, follower, buffer, seed, read, torn,
                     retained, poll>>
      /\ ~batch'.seen
  BY DEF external, Publish, Failed
<1>2. ~Healthy(batch)'
  BY <1>1 DEF Healthy
<1>3. spoiled' \in BOOLEAN /\ (spoiled => spoiled')
  BY DEF Publish, FeedInv, FeedTyped
<1>4. FeedTyped'
  BY <1>1, <1>3 DEF FeedInv, FeedTyped
<1>5. PollBarrier' /\ BatchComplete'
  BY <1>1, <1>2 DEF FeedInv, PollBarrier, BatchComplete
<1>6. Trouble => Trouble'
  BY <1>1, <1>3 DEF Trouble
<1> QED
  BY <1>1, <1>2, <1>4, <1>5, <1>6, FeedElsewhere

LEMMA FeedSeedFails == ASSUME FeedInv, SeedFails PROVE FeedInv'
<1>1. (seed # Nowhere) \in BOOLEAN
  OBVIOUS
<1>2. PICK c \in BOOLEAN : c = (seed # Nowhere)
  BY <1>1
<1>3. Publish(Failed(FALSE, c))
  BY <1>2 DEF SeedFails
<1> QED
  BY <1>3, FeedFails DEF SeedFails

LEMMA FeedBootChanged == ASSUME FeedInv, BootChanged PROVE FeedInv'
BY FeedFails DEF BootChanged

LEMMA FeedBegin == ASSUME FeedInv, BeginPoll PROVE FeedInv'
<1> USE NowhereIsNoLine
<1>1. /\ poll.pc = "idle" /\ Barrier > 0
      /\ UNCHANGED <<journal, pipe, buffer, retained, batch, read, torn, spoiled>>
      /\ poll' = [pc |-> "reading", barrier |-> Barrier, consumed |-> FALSE,
                  continuous |-> TRUE, overflow |-> FALSE]
  BY DEF BeginPoll, feedHistory
<1>2. Len(journal) \in Nat /\ Barrier = Len(journal)
  BY DEF FeedInv, FeedTyped, Barrier
<1>3. /\ seed' \in 1 .. Len(journal) /\ seed' # Nowhere
      /\ journal[Barrier].boot = journal[seed'].boot
  <2>1. CASE seed = Nowhere
    <3>1. seed' = Barrier
      BY <2>1 DEF BeginPoll
    <3> QED
      BY <1>1, <1>2, <3>1
  <2>2. CASE seed # Nowhere
    <3>1. seed' = seed /\ journal[Barrier].boot = journal[seed].boot
      BY <2>2 DEF BeginPoll
    <3> QED
      BY <2>2, <3>1 DEF FeedInv, Seeded
  <2> QED
    BY <2>1, <2>2
<1>4. PollBarrier'
  BY <1>1, <1>2, <1>3 DEF PollBarrier
<1>5. Healthy(batch)' => seed' = seed
  <2>1. Healthy(batch)' <=> Healthy(batch)
    BY <1>1
  <2> QED
    BY <2>1 DEF BeginPoll, FeedInv, Seeded
<1>6. BatchComplete'
  <2>1. Healthy(batch)' <=> Healthy(batch)
    BY <1>1
  <2> QED
    BY <1>1, <1>5, <2>1 DEF FeedInv, BatchComplete
<1>7. Trouble' <=> Trouble
  BY <1>1 DEF Trouble, FeedInv, FeedTyped
<1>8. CASE /\ follower = "none" /\ follower' = "running"
           /\ printed' = [printed EXCEPT !.lines = seed']
  <2>1. /\ pipe = <<>> /\ buffer = <<>> /\ read = {} /\ torn = {}
        /\ ~printed.half
    BY <1>8 DEF FeedInv, NotFollowing
  <2>2. printed' \in [lines : Nat, half : BOOLEAN] /\ ~printed'.half
        /\ printed'.lines = seed'
    BY <1>3, <1>8, <2>1 DEF FeedInv, FeedTyped
  <2>3. Stream' = <<>> /\ Len(Stream') = 0
    BY <1>1, <2>1 DEF Stream
  <2>4. StreamOrdered' /\ NextLine' = seed' + 1 /\ ~HalfRead'
    BY <2>2, <2>3 DEF StreamOrdered, NextLine, HalfRead
  <2>5. FeedTyped'
    BY <1>1, <1>2, <1>8, <2>2 DEF FeedInv, FeedTyped
  <2>6. PrintedIsLogged' /\ NotFollowing'
    BY <1>1, <1>3, <1>8, <2>2 DEF PrintedIsLogged, NotFollowing
  <2>7. LinesAccounted'
    <3>1. PICK first \in Nat : first = seed'
      BY <1>2, <1>3
    <3>2. (first + 1) .. ((first + 1) - 1) = {} /\ first < first + 1
      OBVIOUS
    <3> QED
      BY <1>1, <2>1, <2>4, <3>1, <3>2 DEF LinesAccounted
  <2>8. Seeded'
    BY <1>1, <1>3, <2>2, <2>7 DEF Seeded
  <2> QED
    BY <1>4, <1>6, <2>4, <2>5, <2>6, <2>8 DEF FeedInv
<1>9. CASE UNCHANGED <<follower, printed>>
  <2>1. StreamOrdered' /\ NextLine' = NextLine /\ (HalfRead' <=> HalfRead)
    BY <1>1, <1>9, StreamKept DEF FeedInv
  <2>2. FeedTyped'
    BY <1>1, <1>2, <1>9 DEF FeedInv, FeedTyped
  <2>3. PrintedIsLogged' /\ NotFollowing'
    BY <1>1, <1>9 DEF FeedInv, PrintedIsLogged, NotFollowing
  <2>4. ASSUME follower # "none"
        PROVE  seed' = seed /\ seed <= printed.lines /\ LinesAccounted
    BY <2>4 DEF FeedInv, Seeded, BeginPoll
  <2>5. ASSUME follower # "none" PROVE LinesAccounted'
    BY <1>1, <1>7, <2>1, <2>4, <2>5 DEF LinesAccounted
  <2>6. Seeded'
    BY <1>1, <1>3, <1>9, <2>4, <2>5 DEF Seeded
  <2> QED
    BY <1>4, <1>6, <2>1, <2>2, <2>3, <2>6 DEF FeedInv
<1> QED
  BY <1>8, <1>9 DEF BeginPoll

\* One readline takes the first line of the stream, or the half of it that is
\* there.
LEMMA ReadFromStream ==
  ASSUME FeedInv, ReadLine
  PROVE  /\ Stream # <<>>
         /\ StreamOrdered'
         /\ NextLine = Stream[1].line
         /\ LoneHead => NextLine' = NextLine /\ HalfRead'
         /\ ~LoneHead => NextLine' = NextLine + 1 /\ ~HalfRead'
         /\ pipe' \in Seq(PieceType) /\ buffer' \in Seq(PieceType)
         /\ \/ /\ Take(NextLine) /\ UNCHANGED torn
               /\ ~LoneHead /\ ~HalfRead
            \/ /\ torn' = torn \cup {NextLine}
               /\ UNCHANGED <<poll, retained, read>>
               /\ LoneHead \/ HalfRead
<1> DEFINE fetched == IF HasLine(buffer) THEN buffer ELSE Stream
<1>1. /\ pipe \in Seq(PieceType) /\ buffer \in Seq(PieceType)
      /\ Stream \in Seq(PieceType) /\ Len(Stream) \in Nat
      /\ Stream = <<>> <=> buffer = <<>> /\ pipe = <<>>
  BY StreamType DEF FeedInv, FeedTyped, PieceType
<1>2. Stream # <<>> /\ Len(Stream) >= 1
  BY <1>1 DEF ReadLine, Awake
<1>3. PICK f : f = fetched
  OBVIOUS
<1>4. f \in Seq(PieceType) /\ f # <<>> /\ f[1] = Stream[1]
  <2>1. CASE HasLine(buffer)
    <3>1. f = buffer /\ buffer # <<>>
      BY <1>3, <2>1 DEF HasLine
    <3> QED
      BY <1>1, <3>1 DEF Stream
  <2>2. CASE ~HasLine(buffer)
    BY <1>1, <1>2, <1>3, <2>2
  <2> QED
    BY <2>1, <2>2
<1>5. (f[1].part = "head" /\ Len(f) > 1)
        <=> (Stream[1].part = "head" /\ Len(Stream) > 1)
  <2>1. CASE HasLine(buffer)
    <3>1. f = buffer
      BY <1>3, <2>1
    <3>2. Len(Stream) >= Len(buffer)
      BY <1>1 DEF Stream
    <3>3. f[1].part = "head" => Len(f) > 1
      BY <2>1, <3>1 DEF HasLine, Joined
    <3> QED
      BY <1>1, <1>4, <3>1, <3>2, <3>3
  <2>2. CASE ~HasLine(buffer)
    BY <1>3, <2>2
  <2> QED
    BY <2>1, <2>2
<1>6. PICK k \in {2, 3} :
         /\ (k = 3) <=> (Stream[1].part = "head" /\ Len(Stream) > 1)
         /\ k = IF Joined(f) THEN 3 ELSE 2
  BY <1>5 DEF Joined
<1>7. /\ pipe' = (IF HasLine(buffer) THEN pipe ELSE <<>>)
      /\ buffer' = SubSeq(f, k, Len(f))
  BY <1>3, <1>6 DEF ReadLine, Stream
<1>8. pipe' \in Seq(PieceType) /\ buffer' \in Seq(PieceType)
  <2>1. Len(f) \in Nat /\ k \in 1 .. Len(f) + 1
    BY <1>4, <1>5, <1>6 DEF Joined
  <2> QED
    BY <1>1, <1>4, <1>7, <2>1, TailOf
<1>9. Stream' = SubSeq(Stream, k, Len(Stream))
  <2>1. CASE ~HasLine(buffer)
    <3>1. f = Stream /\ pipe' = <<>>
      BY <1>3, <1>7, <2>1
    <3>2. Stream' = buffer'
      BY <1>8, <3>1, ConcatEmptySeq DEF Stream
    <3> QED
      BY <1>7, <3>1, <3>2
  <2>2. CASE HasLine(buffer)
    <3>1. f = buffer /\ pipe' = pipe
      BY <1>3, <1>7, <2>2
    <3>2. k \in 1 .. Len(f) + 1
      BY <1>4, <1>5, <1>6 DEF Joined
    <3>3. SubSeq(f, k, Len(f)) \o pipe
            = SubSeq(f \o pipe, k, Len(f \o pipe))
      BY <1>1, <1>4, <3>2, TailOfConcat
    <3>4. Stream' = SubSeq(f, k, Len(f)) \o pipe /\ Stream = f \o pipe
      BY <1>7, <3>1 DEF Stream
    <3> QED
      BY <3>3, <3>4
  <2> QED
    BY <2>1, <2>2
<1>10. /\ StreamOrdered'
       /\ NextLine = Stream[1].line
       /\ LoneHead => NextLine' = NextLine /\ HalfRead'
       /\ ~LoneHead => NextLine' = NextLine + 1 /\ ~HalfRead'
  <2>1. UNCHANGED printed
    BY DEF ReadLine
  <2> QED
    BY <1>2, <1>6, <1>9, <2>1, PieceRead DEF FeedInv
<1>11. HalfRead <=> Stream[1].part = "tail"
  BY <1>2 DEF HalfRead
<1>12. IF f[1].part = "whole" \/ Joined(f)
       THEN Take(f[1].line) /\ UNCHANGED torn
       ELSE /\ torn' = torn \cup {f[1].line}
            /\ UNCHANGED <<poll, retained, read>>
  BY <1>3 DEF ReadLine, Stream
<1>13. PICK q \in PieceType : q = Stream[1] /\ q = f[1]
  BY <1>1, <1>2, <1>4
<1>14. q.part \in {"whole", "head", "tail"} /\ q.line = NextLine
  BY <1>10, <1>13 DEF PieceType
<1>15. PICK n \in Nat : n = Len(Stream) /\ n >= 1
  BY <1>1, <1>2
<1>16. Joined(f) <=> q.part = "head" /\ n > 1
  BY <1>5, <1>13, <1>15 DEF Joined
<1>17. LoneHead <=> q.part = "head" /\ n = 1
  BY <1>13, <1>15 DEF LoneHead
<1>18. CASE q.part = "whole" \/ Joined(f)
  <2>1. ~LoneHead /\ ~HalfRead
    BY <1>11, <1>13, <1>16, <1>17, <1>18
  <2>2. Take(NextLine) /\ UNCHANGED torn
    BY <1>12, <1>13, <1>14, <1>18
  <2> QED
    BY <1>2, <1>8, <1>10, <2>1, <2>2
<1>19. CASE ~(q.part = "whole" \/ Joined(f))
  <2>1. LoneHead \/ HalfRead
    BY <1>11, <1>13, <1>14, <1>15, <1>16, <1>17, <1>19
  <2>2. torn' = torn \cup {NextLine} /\ UNCHANGED <<poll, retained, read>>
    BY <1>12, <1>13, <1>14, <1>19
  <2> QED
    BY <1>2, <1>8, <1>10, <2>1, <2>2
<1> QED
  BY <1>18, <1>19

\* The retained cursors are cursors of lines read.
LEMMA TakeRetains ==
  ASSUME FeedTyped, NEW line \in Nat, Take(line)
  PROVE  /\ poll' \in [pc : {"idle", "reading"}, barrier : Nat,
                       consumed : BOOLEAN, continuous : BOOLEAN,
                       overflow : BOOLEAN]
         /\ poll'.pc = poll.pc /\ poll'.barrier = poll.barrier
         /\ (poll.overflow \/ ~poll.continuous)
              => (poll'.overflow \/ ~poll'.continuous)
         /\ retained' \subseteq read'
         /\ \/ /\ read' = read /\ poll'.overflow
               /\ poll'.consumed <=> poll.consumed
            \/ /\ read' = read \cup {line}
               /\ poll'.consumed => line = poll.barrier \/ line \in read
<1>1. poll \in [pc : {"idle", "reading"}, barrier : Nat, consumed : BOOLEAN,
                continuous : BOOLEAN, overflow : BOOLEAN]
      /\ retained \subseteq read
  BY DEF FeedTyped
<1>2. CASE journal[line].long
  <2>1. poll' = [poll EXCEPT !.overflow = TRUE]
        /\ UNCHANGED <<retained, read>>
    BY <1>2 DEF Take
  <2> QED
    BY <1>1, <2>1
<1>3. CASE ~journal[line].long
  <2>1. PICK continues \in BOOLEAN, meets \in BOOLEAN, overflows \in BOOLEAN :
          /\ poll' = [poll EXCEPT !.continuous = continues,
                                  !.consumed = meets,
                                  !.overflow = overflows]
          /\ continues => poll.continuous
          /\ meets => line = poll.barrier \/ line \in retained
          /\ poll.overflow => overflows
    <3>1. PICK continues \in BOOLEAN :
            continues = (poll.continuous
                         /\ journal[line].boot = journal[seed].boot)
      OBVIOUS
    <3>2. PICK meets \in BOOLEAN :
            meets = (line = poll.barrier \/ line \in retained)
      OBVIOUS
    <3>3. PICK overflows \in BOOLEAN :
            overflows = (poll.overflow
                         \/ Cardinality(retained) >= MaxRetained)
      OBVIOUS
    <3>4. poll' = [poll EXCEPT !.continuous = continues,
                               !.consumed = meets,
                               !.overflow = overflows]
      BY <1>3, <3>1, <3>2, <3>3 DEF Take
    <3> QED
      BY <3>1, <3>2, <3>3, <3>4
  <2>2. retained' = Retain(line) /\ read' = read \cup {line}
    BY <1>3 DEF Take
  <2>3. retained' \subseteq read'
    BY <1>1, <2>2 DEF Retain
  <2>4. /\ poll' \in [pc : {"idle", "reading"}, barrier : Nat,
                      consumed : BOOLEAN, continuous : BOOLEAN,
                      overflow : BOOLEAN]
        /\ poll'.pc = poll.pc /\ poll'.barrier = poll.barrier
        /\ poll'.continuous = continues /\ poll'.consumed = meets
        /\ poll'.overflow = overflows
    BY <1>1, <2>1
  <2>5. poll'.consumed => line = poll.barrier \/ line \in read
    BY <1>1, <2>1, <2>4
  <2>6. (poll.overflow \/ ~poll.continuous)
              => (poll'.overflow \/ ~poll'.continuous)
    BY <2>1, <2>4
  <2> QED
    BY <2>2, <2>3, <2>4, <2>5, <2>6
<1> QED
  BY <1>2, <1>3

LEMMA FeedRead == ASSUME FeedInv, ReadLine PROVE FeedInv'
<1> USE NowhereIsNoLine
<1>1. /\ UNCHANGED <<journal, follower, printed, seed, batch, spoiled>>
      /\ poll.pc = "reading"
  BY DEF ReadLine, Awake
<1>2. /\ Stream # <<>> /\ StreamOrdered' /\ NextLine = Stream[1].line
      /\ LoneHead => NextLine' = NextLine /\ HalfRead'
      /\ ~LoneHead => NextLine' = NextLine + 1 /\ ~HalfRead'
      /\ pipe' \in Seq(PieceType) /\ buffer' \in Seq(PieceType)
      /\ \/ /\ Take(NextLine) /\ UNCHANGED torn
            /\ ~LoneHead /\ ~HalfRead
         \/ /\ torn' = torn \cup {NextLine}
            /\ UNCHANGED <<poll, retained, read>>
            /\ LoneHead \/ HalfRead
  BY ReadFromStream
<1>3. follower # "none" /\ NextLine \in Nat
  <2>1. buffer # <<>> \/ pipe # <<>>
    BY <1>2, StreamType DEF FeedInv
  <2>2. 1 \in 1 .. Len(Stream)
    BY <1>2, StreamType, EmptySeq DEF FeedInv
  <2> QED
    BY <1>2, <2>1, <2>2, StreamType DEF FeedInv, NotFollowing
<1>4. /\ seed # Nowhere /\ seed \in 1 .. Len(journal) /\ seed <= printed.lines
      /\ seed < NextLine
      /\ read \subseteq (seed + 1) .. (NextLine - 1)
      /\ HalfRead => NextLine \in torn
      /\ Trouble \/ (seed + 1) .. (NextLine - 1) \subseteq read \cup torn
  BY <1>1, <1>3 DEF FeedInv, Seeded, LinesAccounted
<1>5. /\ poll' \in [pc : {"idle", "reading"}, barrier : Nat,
                    consumed : BOOLEAN, continuous : BOOLEAN,
                    overflow : BOOLEAN]
      /\ poll'.pc = "reading" /\ poll'.barrier = poll.barrier
      /\ retained' \subseteq read' /\ read' \subseteq Nat
      /\ read \subseteq read' /\ torn \subseteq torn'
      /\ read' \subseteq read \cup {NextLine}
      /\ Trouble => Trouble'
      /\ ~Trouble' /\ ~LoneHead => NextLine \in read' \cup torn'
      /\ read' # read => ~LoneHead
      /\ LoneHead => NextLine \in torn'
      /\ poll'.consumed => poll.barrier \in read'
  <2>1. CASE Take(NextLine) /\ UNCHANGED torn /\ ~LoneHead /\ ~HalfRead
    <3>1. /\ poll' \in [pc : {"idle", "reading"}, barrier : Nat,
                        consumed : BOOLEAN, continuous : BOOLEAN,
                        overflow : BOOLEAN]
          /\ poll'.pc = poll.pc /\ poll'.barrier = poll.barrier
          /\ (poll.overflow \/ ~poll.continuous)
               => (poll'.overflow \/ ~poll'.continuous)
          /\ retained' \subseteq read'
          /\ \/ /\ read' = read /\ poll'.overflow
                /\ poll'.consumed <=> poll.consumed
             \/ /\ read' = read \cup {NextLine}
                /\ poll'.consumed => NextLine = poll.barrier
                                     \/ NextLine \in read
      BY <1>3, <2>1, TakeRetains DEF FeedInv
    <3>2. NextLine \notin read
      BY <1>3, <1>4
    <3>3. Trouble => Trouble'
      BY <1>1, <3>1 DEF Trouble
    <3>4. ~Trouble' => ~poll'.overflow
      BY <1>1, <3>1 DEF Trouble
    <3>5. poll'.consumed => poll.barrier \in read'
      BY <1>1, <3>1, <3>2 DEF FeedInv, PollBarrier
    <3> QED
      BY <1>1, <1>3, <2>1, <3>1, <3>3, <3>4, <3>5 DEF FeedInv, FeedTyped
  <2>2. CASE /\ torn' = torn \cup {NextLine}
             /\ UNCHANGED <<poll, retained, read>>
             /\ LoneHead \/ HalfRead
    <3>1. Trouble' <=> Trouble
      BY <1>1, <2>2 DEF Trouble
    <3> QED
      BY <1>1, <2>2, <3>1 DEF FeedInv, FeedTyped, PollBarrier
  <2> QED
    BY <1>2, <2>1, <2>2
<1>6. FeedTyped'
  BY <1>1, <1>2, <1>5 DEF FeedInv, FeedTyped, PieceType
<1>7. PrintedIsLogged' /\ NotFollowing'
  BY <1>1, <1>3 DEF FeedInv, PrintedIsLogged, NotFollowing
<1>8. LinesAccounted'
  <2>1. CASE LoneHead
    BY <1>1, <1>2, <1>4, <1>5, <2>1 DEF LinesAccounted
  <2>2. CASE ~LoneHead
    <3>1. PICK n \in Nat, s \in Nat : n = NextLine /\ s = seed /\ s < n
      BY <1>3, <1>4
    <3>2. (s + 1) .. ((n + 1) - 1) = ((s + 1) .. (n - 1)) \cup {n}
          /\ s < n + 1
      BY <3>1
    <3>3. NextLine' = n + 1 /\ ~HalfRead' /\ seed' = s
      BY <1>1, <1>2, <2>2, <3>1
    <3>4. read' \subseteq ((s + 1) .. (n - 1)) \cup {n}
      BY <1>4, <1>5, <3>1
    <3>5. Trouble' \/ ((s + 1) .. (n - 1)) \cup {n} \subseteq read' \cup torn'
      BY <1>4, <1>5, <2>2, <3>1
    <3> QED
      BY <3>2, <3>3, <3>4, <3>5 DEF LinesAccounted
  <2> QED
    BY <2>1, <2>2
<1>9. Seeded'
  BY <1>1, <1>4, <1>8 DEF Seeded
<1>10. PollBarrier'
  BY <1>1, <1>5 DEF FeedInv, PollBarrier
<1>11. BatchComplete'
  <2>1. Healthy(batch)' <=> Healthy(batch)
    BY <1>1
  <2> QED
    BY <1>1, <1>5, <2>1 DEF FeedInv, BatchComplete
<1> QED
  BY <1>2, <1>6, <1>7, <1>9, <1>10, <1>11 DEF FeedInv

LEMMA FeedEnd == ASSUME FeedInv, EndPoll PROVE FeedInv'
<1> USE NowhereIsNoLine
<1>1. /\ poll.pc = "reading"
      /\ UNCHANGED <<journal, printed, pipe, buffer, seed, read, torn, retained,
                     follower>>
      /\ poll' = [poll EXCEPT !.pc = "idle"]
  BY DEF EndPoll, external
<1>2. /\ batch' = [barrier |-> poll.barrier, ready |-> TRUE, seen |-> CaughtUp,
                   continuous |-> poll.continuous, overflow |-> poll.overflow]
      /\ spoiled' = (spoiled \/ batch'.overflow \/ ~batch'.continuous)
  BY DEF EndPoll, Publish
<1>3. /\ batch'.barrier = poll.barrier /\ batch'.seen = CaughtUp
      /\ batch'.continuous = poll.continuous /\ batch'.overflow = poll.overflow
  BY <1>2
<1>4. spoiled' <=> Trouble
  BY <1>1, <1>2, <1>3 DEF Trouble
<1>5. poll' \in [pc : {"idle", "reading"}, barrier : Nat, consumed : BOOLEAN,
                 continuous : BOOLEAN, overflow : BOOLEAN]
      /\ poll'.pc = "idle"
  BY <1>1 DEF FeedInv, FeedTyped
<1>6. FeedTyped'
  <2>1. spoiled' \in BOOLEAN
    BY <1>2
  <2> QED
    BY <1>1, <1>5, <2>1 DEF FeedInv, FeedTyped
<1>7. PollBarrier'
  BY <1>5 DEF PollBarrier
<1>8. seed # Nowhere /\ seed \in 1 .. Len(journal)
      /\ (follower # "none" => LinesAccounted)
  BY <1>1 DEF FeedInv, Seeded
<1>9. BatchComplete'
  <2> SUFFICES ASSUME Healthy(batch)', ~spoiled' PROVE BatchComplete'
    BY DEF BatchComplete
  <2>1. CaughtUp /\ ~Trouble
    BY <1>3, <1>4 DEF Healthy
  <2>2. /\ poll.barrier \in seed .. Len(journal)
        /\ journal[poll.barrier].boot = journal[seed].boot
        /\ poll.consumed => poll.barrier \in read
    BY <1>1 DEF FeedInv, PollBarrier
  <2>3. poll.barrier = seed \/ poll.barrier \in read
    BY <2>1, <2>2 DEF CaughtUp, FeedInv, FeedTyped
  <2>4. (seed + 1) .. poll.barrier \subseteq read \cup torn
    <3>1. CASE poll.barrier = seed
      <4>1. (seed + 1) .. seed = {}
        BY <1>8
      <4> QED
        BY <3>1, <4>1
    <3>2. CASE poll.barrier \in read
      <4>1. follower # "none"
        BY <3>2 DEF FeedInv, NotFollowing
      <4>2. /\ read \subseteq (seed + 1) .. (NextLine - 1)
            /\ (seed + 1) .. (NextLine - 1) \subseteq read \cup torn
        BY <1>8, <2>1, <4>1 DEF LinesAccounted
      <4>3. poll.barrier \in (seed + 1) .. (NextLine - 1)
        BY <3>2, <4>2
      <4>4. NextLine \in Int
        <5>1. Stream # <<>> => Stream[1].line \in Nat
          BY StreamType, EmptySeq DEF FeedInv
        <5> QED
          BY <5>1 DEF NextLine, FeedInv, FeedTyped
      <4> QED
        BY <1>8, <4>2, <4>3, <4>4
    <3> QED
      BY <2>3, <3>1, <3>2
  <2> QED
    BY <1>1, <1>3, <2>2, <2>4 DEF BatchComplete
<1>10. Trouble => Trouble'
  BY <1>4 DEF Trouble
<1> QED
  BY <1>1, <1>5, <1>6, <1>7, <1>8, <1>9, <1>10, FeedElsewhere

LEMMA FeedStep == ASSUME FeedInv, [FeedNext]_feedVars PROVE FeedInv'
<1>1. CASE UNCHANGED feedVars
  <2>1. UNCHANGED <<journal, printed, pipe, follower, buffer, seed, read, torn,
                    retained, poll, batch, spoiled>>
    BY <1>1 DEF feedVars, external, reader, feedHistory
  <2>2. Healthy(batch)' <=> Healthy(batch)
    BY <2>1
  <2>3. FeedTyped' /\ PollBarrier' /\ BatchComplete' /\ (Trouble => Trouble')
    BY <2>1, <2>2 DEF FeedInv, FeedTyped, PollBarrier, BatchComplete, Trouble
  <2>4. seed = Nowhere => poll'.pc = "idle" /\ ~Healthy(batch)'
    BY <2>1, <2>2 DEF FeedInv, Seeded
  <2> QED
    BY <2>1, <2>3, <2>4, FeedElsewhere
<1> QED
  BY <1>1, FeedLog, FeedPrint, FeedDies, FeedSeedFails, FeedBootChanged,
     FeedBegin, FeedRead, FeedEnd
     DEF FeedNext, Poll

\* A batch without a complaint accounts for every line after the seed up to its
\* barrier, and they are of the seed's boot: whatever is left in the pipe or in
\* the buffer, a follower that did not start or died, lines too long to read,
\* and cursors that were forgotten.  (JournalctlReader.poll)
THEOREM HealthyFeeds == FeedSpec => []HealthyFeedIsComplete
<1>1. FeedInv => HealthyFeedIsComplete
  <2> SUFFICES ASSUME FeedInv, Healthy(batch), ~spoiled,
                      NEW line \in (seed + 1) .. batch.barrier
               PROVE  /\ line \in read \cup torn
                      /\ journal[line].boot = journal[seed].boot
    BY DEF HealthyFeedIsComplete
  <2>1. /\ seed \in 1 .. Len(journal)
        /\ batch.barrier \in seed .. Len(journal)
        /\ journal[batch.barrier].boot = journal[seed].boot
        /\ line \in read \cup torn
    BY DEF FeedInv, Seeded, BatchComplete
  <2>2. \A i \in 2 .. Len(journal) : journal[i].boot = 1
    BY DEF FeedInv, FeedTyped
  <2>3. line \in 2 .. Len(journal) /\ batch.barrier \in 2 .. Len(journal)
    BY <2>1
  <2> QED
    BY <2>1, <2>2, <2>3
<1> QED
  BY <1>1, FeedInitInv, FeedStep, PTL DEF FeedSpec

-----------------------------------------------------------------------------
(* The healer.                                                             *)

\* The constants, one by one.
LEMMA Limits ==
  /\ MemorySamples \in Nat \ {0} /\ Cooldown \in Nat \ {0}
  /\ Day \in Nat \ {0} /\ PerDay \in Nat \ {0}
  /\ StrikeThreshold \in Nat \ {0}
  /\ MaxTime \in Nat /\ MaxShed \in Nat /\ MaxHeavy \in Nat
BY HealerAssumption DEF HealerAssumption

USE Limits

\* Forgetting restarts keeps the set small.
LEMMA RecentIsSmall ==
  ASSUME NEW S \in SUBSET Nat, Small(S)
  PROVE  Recent(S) \in SUBSET Nat /\ Small(Recent(S))
<1> USE DEF Small
<1>1. Recent(S) \subseteq S
  BY DEF Recent
<1>2. /\ IsFiniteSet(Recent(S))
      /\ Cardinality(Recent(S)) <= Cardinality(S)
      /\ Cardinality(Recent(S)) \in Nat /\ Cardinality(S) \in Nat
  BY <1>1, FS_Subset, FS_CardinalityType
<1>3. Recent(S) \in SUBSET Nat
  BY <1>1
<1>4. Cardinality(Recent(S)) <= PerDay
  BY <1>2
<1> QED
  BY <1>2, <1>3, <1>4

\* So does recording one where the cap allows it.
LEMMA OneMoreIsSmall ==
  ASSUME NEW S \in SUBSET Nat, IsFiniteSet(S), Cardinality(S) < PerDay,
         NEW t \in Nat
  PROVE  S \cup {t} \in SUBSET Nat /\ Small(S \cup {t})
<1> USE DEF Small
<1>1. /\ IsFiniteSet(S \cup {t})
      /\ Cardinality(S \cup {t}) = IF t \in S THEN Cardinality(S)
                                              ELSE Cardinality(S) + 1
      /\ Cardinality(S) \in Nat
  BY FS_AddElement, FS_CardinalityType
<1> QED
  BY <1>1

\* Nothing remembered is within the cap.
LEMMA NoRestarts == Small({})
BY FS_EmptySet DEF Small

\* What reading the router's health does to the run.
LEMMA ReadFacts ==
  ASSUME run \in Runs, shed \in Nat, ReadHealth
  PROVE  /\ run' \in Runs /\ run'.pc = "read"
         /\ run'.memRestarts = run.memRestarts
         /\ UNCHANGED <<now, shed, file, recycles, bloats>>
<1>1. PICK heavy \in 0 .. MaxHeavy, total \in {0, shed} :
        run' = [run EXCEPT !.pc = "read", !.heavy = heavy, !.shed = total]
  BY DEF ReadHealth
<1>2. heavy \in Nat /\ total \in Nat
  OBVIOUS
<1>3. run' \in Runs
  BY <1>1, <1>2 DEF Runs
<1>4. run'.pc = "read" /\ run'.memRestarts = run.memRestarts
  BY <1>1 DEF Runs
<1>5. UNCHANGED <<now, shed, file, recycles, bloats>>
  BY DEF ReadHealth
<1> QED
  BY <1>3, <1>4, <1>5

\* What the comparison makes of the run and the file.
LEMMA CompareFacts ==
  ASSUME run \in Runs, file \in Files, now \in Nat, Compare
  PROVE  /\ run'.pc \in {"stuck", "measure"} /\ run'.now = now
         /\ run'.prevMemStrikes = file.memStrikes
         /\ file'.memStrikes = file.memStrikes
         /\ run'.memRestarts = Recent(file.memRestarts)
         /\ file'.memRestarts = Recent(file.memRestarts)
         /\ UNCHANGED <<now, shed, recycles, bloats>>
BY DEF Compare, Runs, Files

\* A run that got past its checks has them in its variables.
PastChecks == {"locked", "recycle"}

ChecksHold ==
  run.pc \in PastChecks =>
    /\ Cardinality(run.memRestarts) < PerDay
    /\ \A t \in run.memRestarts : run.now >= t + Cooldown

\* Type correctness and what the cap rests on.
Typed == HealerTypeOK /\ ChecksHold

\* Every variable in its type, the memory of restarts within the cap.
LEMMA HealerTypedInv == HealerSpec => []Typed
<1>1. HealerInit => Typed
  <2> SUFFICES ASSUME HealerInit PROVE Typed
    OBVIOUS
  <2> QED
    BY NoRestarts
       DEF HealerInit, Typed, HealerTypeOK, ChecksHold, PastChecks, Files, Runs, Zeros, Idle
<1>2. Typed /\ [HealerNext]_healerVars => Typed'
  <2> SUFFICES ASSUME Typed, [HealerNext]_healerVars PROVE Typed'
    OBVIOUS
  <2> USE DEF Typed, HealerTypeOK, ChecksHold, PastChecks, Files, Runs
  <2>0. /\ Idle \in Runs /\ Zeros \in Files
        /\ Idle.pc = "off" /\ Idle.memRestarts = {}
        /\ Zeros.memRestarts = {}
    BY DEF Idle, Zeros
  <2>1. ASSUME Tick \/ ShedRequest \/ Replace PROVE Typed'
    <3>1. /\ now' \in Nat /\ shed' \in Nat
          /\ UNCHANGED <<file, run, recycles, bloats>>
      BY <2>1 DEF Tick, ShedRequest, Replace
    <3> QED
      BY <3>1
  <2>2. ASSUME LoseFile \/ Die PROVE Typed'
    <3>1. /\ run' \in {run, Idle} /\ file' \in {file, Zeros}
          /\ recycles' \in {recycles, {}}
          /\ UNCHANGED <<now, shed, bloats>>
      BY <2>2 DEF LoseFile, Die
    <3> QED
      BY <2>0, <3>1, NoRestarts
  <2>10. ASSUME ReadHealth PROVE Typed'
    BY <2>10, ReadFacts
  <2>3. ASSUME Compare PROVE Typed'
    <3>1. /\ Recent(file.memRestarts) \in SUBSET Nat
          /\ Small(Recent(file.memRestarts))
      BY RecentIsSmall
    <3>2. Strikes \in Nat
      BY DEF Strikes
    <3>3. run' \in Runs /\ file' \in Files
      BY <2>3, <3>1, <3>2 DEF Compare
    <3> QED
      BY <2>3, <3>1, <3>3, CompareFacts
  <2>4. ASSUME RestartLease PROVE Typed'
    BY <2>4 DEF RestartLease
  <2>5. ASSUME ClearStrikes \/ NoBloat PROVE Typed'
    BY <2>5, NoRestarts
       DEF ClearStrikes, NoBloat, Saved, Zeros, Idle
  <2>6. ASSUME Bloat PROVE Typed'
    <3>1. bloats' \in Nat
      BY <2>6 DEF Bloat, UpTo
    <3>2. /\ file' \in Files /\ file'.memRestarts = run.memRestarts
      BY <2>6 DEF Bloat, Saved
    <3>3. \/ run' = Idle
          \/ Allowed /\ run' = [run EXCEPT !.pc = "locked"]
      BY <2>6 DEF Bloat
    <3>4. UNCHANGED <<now, shed, recycles>>
      BY <2>6 DEF Bloat
    <3>5. CASE run' = Idle
      BY <2>0, <3>1, <3>2, <3>4, <3>5, NoRestarts
    <3>6. CASE Allowed /\ run' = [run EXCEPT !.pc = "locked"]
      BY <3>1, <3>2, <3>4, <3>6 DEF Allowed
    <3> QED
      BY <3>3, <3>5, <3>6
  <2>7. ASSUME RecordRecycle PROVE Typed'
    <3>1. /\ run.memRestarts \cup {run.now} \in SUBSET Nat
          /\ Small(run.memRestarts \cup {run.now})
      BY <2>7, OneMoreIsSmall DEF RecordRecycle, Small
    <3> QED
      BY <2>7, <3>1 DEF RecordRecycle, Zeros
  <2>8. ASSUME Recycle PROVE Typed'
    <3>1. /\ run' = Idle /\ shed' = 0 /\ bloats' = 0
          /\ recycles' = recycles \cup {run.now}
          /\ UNCHANGED <<now, file>>
      BY <2>8 DEF Recycle
    <3>2. recycles' \in SUBSET Nat
      BY <3>1
    <3>3. HealerTypeOK'
      BY <2>0, <3>1, <3>2, NoRestarts
    <3> QED
      BY <2>0, <3>1, <3>3
  <2>9. CASE UNCHANGED healerVars
    BY <2>9 DEF healerVars
  <2> QED
    BY <2>1, <2>2, <2>3, <2>4, <2>5, <2>6, <2>7, <2>8, <2>9, <2>10
       DEF HealerNext, Healer
<1> QED
  BY <1>1, <1>2, PTL DEF HealerSpec

\* Type correctness of the healer: no death between two writes leaves the
\* state file with more restarts or strikes than its limits.
THEOREM HealerTyped == HealerSpec => []HealerTypeOK
<1>1. Typed => HealerTypeOK
  BY DEF Typed
<1> QED
  BY <1>1, HealerTypedInv, PTL

-----------------------------------------------------------------------------
(* The recycles that matter are remembered: by the file between runs, and  *)
(* by a run from its comparison on.                                        *)

Compared == {"stuck", "clear", "measure", "locked", "recycle"}

ClockIsPast == run.pc \in Compared => run.now <= now

FileRemembers ==
  \A t \in recycles : t \in file.memRestarts \/ t + Day <= now

RunRemembers ==
  run.pc \in Compared =>
    \A t \in recycles : t \in run.memRestarts \/ t + Day <= run.now

RecordedFirst == run.pc = "recycle" => run.now \in file.memRestarts

Remembered == ClockIsPast /\ FileRemembers /\ RunRemembers /\ RecordedFirst

\* Every recycle of the last Day is remembered wherever it will be asked for.
LEMMA RememberedInv == HealerSpec => []Remembered
<1>1. HealerInit => Remembered
  BY DEF HealerInit, Remembered, ClockIsPast, FileRemembers, RunRemembers,
         RecordedFirst, Compared, Idle
<1>2. Typed /\ Remembered /\ [HealerNext]_healerVars => Remembered'
  <2> SUFFICES ASSUME Typed, Remembered, [HealerNext]_healerVars PROVE Remembered'
    OBVIOUS
  <2>0. /\ now \in Nat /\ run \in Runs /\ file \in Files
        /\ run.now \in Nat /\ recycles \in SUBSET Nat /\ shed \in Nat
    BY DEF Typed, HealerTypeOK, Runs
  <2> USE DEF Remembered, ClockIsPast, FileRemembers, RunRemembers,
              RecordedFirst, Compared
  <2>1. ASSUME Tick PROVE Remembered'
    <3>1. now' = now + 1 /\ UNCHANGED <<file, run, recycles>>
      BY <2>1 DEF Tick
    <3>2. run'.now = run.now
      BY <3>1
    <3> QED
      BY <2>0, <3>1, <3>2
  <2>2. ASSUME ShedRequest \/ Replace PROVE Remembered'
    BY <2>2 DEF ShedRequest, Replace
  <2>3. ASSUME LoseFile \/ Die \/ ReadHealth PROVE Remembered'
    <3>1. UNCHANGED now /\ run'.pc \in {"off", "read"}
      <4>1. CASE ReadHealth
        BY <2>0, <4>1, ReadFacts
      <4>2. CASE LoseFile \/ Die
        BY <4>2 DEF LoseFile, Die, Idle
      <4> QED
        BY <2>3, <4>1, <4>2
    <3>2. recycles' = {} \/ UNCHANGED <<file, recycles>>
      BY <2>3 DEF LoseFile, Die, ReadHealth
    <3> QED
      BY <2>0, <3>1, <3>2
  <2>4. ASSUME Compare PROVE Remembered'
    <3>1. /\ now' = now /\ recycles' = recycles
          /\ run'.now = now /\ run'.pc \in {"stuck", "measure"}
          /\ run'.memRestarts = Recent(file.memRestarts)
          /\ file'.memRestarts = Recent(file.memRestarts)
      BY <2>0, <2>4, CompareFacts
    <3>2. \A t \in recycles : t \in Recent(file.memRestarts) \/ t + Day <= now
      BY <2>0 DEF Recent
    <3>3. ClockIsPast' /\ RecordedFirst'
      BY <2>0, <3>1
    <3>4. FileRemembers' /\ RunRemembers'
      BY <3>1, <3>2
    <3> QED
      BY <3>3, <3>4
  <2>5. ASSUME RestartLease PROVE Remembered'
    BY <2>0, <2>5 DEF RestartLease, Runs
  <2>6. ASSUME ClearStrikes \/ NoBloat PROVE Remembered'
    BY <2>0, <2>6 DEF ClearStrikes, NoBloat, Saved, Zeros, Idle
  <2>7. ASSUME Bloat PROVE Remembered'
    BY <2>0, <2>7 DEF Bloat, Saved, Idle, Runs
  <2>8. ASSUME RecordRecycle PROVE Remembered'
    BY <2>0, <2>8 DEF RecordRecycle, Zeros, Runs
  <2>9. ASSUME Recycle PROVE Remembered'
    BY <2>0, <2>9 DEF Recycle, Idle
  <2>10. CASE UNCHANGED healerVars
    BY <2>10 DEF healerVars
  <2> QED
    BY <2>1, <2>2, <2>3, <2>4, <2>5, <2>6, <2>7, <2>8, <2>9, <2>10
       DEF HealerNext, Healer
<1> QED
  BY <1>1, <1>2, HealerTypedInv, PTL DEF HealerSpec

\* Whatever dies in between, and however long the cooldown is, a recycle comes a
\* cooldown after an earlier one or after the day it is remembered for.
\* (the record before podman restart, the filter on memRestarts)
THEOREM Spaced == HealerSpec => RecyclesSpaced
<1>1. Typed /\ Remembered =>
        (Recycle =>
           \A t \in recycles : \/ run.now >= t + Cooldown
                               \/ run.now >= t + Day)
  <2> SUFFICES ASSUME Typed, Remembered, Recycle, NEW t \in recycles
               PROVE  run.now >= t + Cooldown \/ run.now >= t + Day
    OBVIOUS
  <2>1. t \in run.memRestarts \/ t + Day <= run.now
    BY DEF Remembered, RunRemembers, Compared, Recycle
  <2>2. t \in run.memRestarts => run.now >= t + Cooldown
    BY DEF Typed, ChecksHold, PastChecks, Recycle
  <2>3. run.now \in Nat /\ t \in Nat /\ Day \in Nat
    BY HealerAssumption DEF Typed, HealerTypeOK, Runs
  <2> QED
    BY <2>1, <2>2, <2>3
<1> QED
  BY <1>1, HealerTypedInv, RememberedInv, PTL DEF RecyclesSpaced

\* No more than PerDay recycles within a day, whatever dies in between.
\* (MEMORY_RESTARTS_PER_DAY)
THEOREM CappedPerDay == HealerSpec => RecyclesCapped
<1>1. Typed /\ Remembered =>
        (Recycle =>
           Cardinality({t \in recycles : t + Day > run.now}) < PerDay)
  <2> SUFFICES ASSUME Typed, Remembered, Recycle
               PROVE  Cardinality({t \in recycles : t + Day > run.now}) < PerDay
    OBVIOUS
  <2> DEFINE Last == {t \in recycles : t + Day > run.now}
  <2>1. /\ run.now \in Nat /\ recycles \in SUBSET Nat
        /\ IsFiniteSet(run.memRestarts)
        /\ Cardinality(run.memRestarts) < PerDay
    BY DEF Typed, HealerTypeOK, Runs, Small, ChecksHold, PastChecks, Recycle
  <2>2. Last \subseteq run.memRestarts
    <3>1. \A t \in recycles : t \in run.memRestarts \/ t + Day <= run.now
      BY DEF Remembered, RunRemembers, Compared, Recycle
    <3>2. \A t \in recycles : t + Day <= run.now => ~(t + Day > run.now)
      BY <2>1
    <3> QED
      BY <3>1, <3>2
  <2>3. /\ IsFiniteSet(Last)
        /\ Cardinality(Last) <= Cardinality(run.memRestarts)
        /\ Cardinality(Last) \in Nat /\ Cardinality(run.memRestarts) \in Nat
    BY <2>1, <2>2, FS_Subset, FS_CardinalityType
  <2> QED
    BY <2>1, <2>3
<1> QED
  BY <1>1, HealerTypedInv, RememberedInv, PTL DEF RecyclesCapped

-----------------------------------------------------------------------------
(* Strikes in the file and in a run never exceed the measurements made.    *)

StrikesEarned ==
  /\ file.memStrikes <= bloats
  /\ run.pc \in Compared => run.prevMemStrikes <= bloats
  /\ run.pc \in PastChecks => bloats >= MemorySamples
  /\ run.pc = "recycle" => file.memStrikes = 0

\* Strikes are earned since the last recycle.
LEMMA StrikesInv == HealerSpec => []StrikesEarned
<1>1. HealerInit => StrikesEarned
  BY DEF HealerInit, StrikesEarned, Compared, PastChecks, Zeros, Idle
<1>2. Typed /\ StrikesEarned /\ [HealerNext]_healerVars => StrikesEarned'
  <2> SUFFICES ASSUME Typed, StrikesEarned, [HealerNext]_healerVars PROVE StrikesEarned'
    OBVIOUS
  <2>0. /\ run \in Runs /\ file \in Files /\ bloats \in Nat
        /\ now \in Nat /\ shed \in Nat
        /\ file.memStrikes \in 0 .. MemorySamples
        /\ run.prevMemStrikes \in 0 .. MemorySamples
    BY DEF Typed, HealerTypeOK, Runs, Files
  <2> USE DEF StrikesEarned, Compared, PastChecks
  <2>1. ASSUME Tick \/ ShedRequest \/ Replace PROVE StrikesEarned'
    BY <2>1 DEF Tick, ShedRequest, Replace
  <2>2. ASSUME LoseFile \/ Die \/ ReadHealth PROVE StrikesEarned'
    <3>1. UNCHANGED bloats /\ run'.pc \in {"off", "read"}
      <4>1. CASE ReadHealth
        BY <2>0, <4>1, ReadFacts
      <4>2. CASE LoseFile \/ Die
        BY <4>2 DEF LoseFile, Die, Idle
      <4> QED
        BY <2>2, <4>1, <4>2
    <3>2. file' = file \/ file'.memStrikes = 0
      <4>1. CASE LoseFile
        BY <4>1 DEF LoseFile, Zeros
      <4>2. CASE Die \/ ReadHealth
        BY <4>2 DEF Die, ReadHealth
      <4> QED
        BY <2>2, <4>1, <4>2
    <3> QED
      BY <2>0, <3>1, <3>2
  <2>3. ASSUME Compare PROVE StrikesEarned'
    BY <2>0, <2>3, CompareFacts
  <2>9. ASSUME RestartLease PROVE StrikesEarned'
    <3>1. /\ run'.pc = "clear" /\ run.pc = "stuck"
          /\ run'.prevMemStrikes = run.prevMemStrikes
          /\ UNCHANGED <<file, bloats>>
      BY <2>0, <2>9 DEF RestartLease, Runs
    <3> QED
      BY <2>0, <3>1
  <2>4. ASSUME ClearStrikes \/ NoBloat PROVE StrikesEarned'
    BY <2>0, <2>4 DEF ClearStrikes, NoBloat, Saved, Zeros, Idle
  <2>5. ASSUME Bloat PROVE StrikesEarned'
    BY <2>0, <2>5 DEF Bloat, Saved, Idle, UpTo, Runs
  <2>6. ASSUME RecordRecycle PROVE StrikesEarned'
    BY <2>0, <2>6 DEF RecordRecycle, Zeros, Runs
  <2>7. ASSUME Recycle PROVE StrikesEarned'
    BY <2>0, <2>7 DEF Recycle, Idle
  <2>8. CASE UNCHANGED healerVars
    BY <2>8 DEF healerVars
  <2> QED
    BY <2>1, <2>2, <2>3, <2>4, <2>5, <2>6, <2>7, <2>8, <2>9 DEF HealerNext, Healer
<1> QED
  BY <1>1, <1>2, HealerTypedInv, PTL DEF HealerSpec

\* A recycle answers MemorySamples measurements of its own, whatever dies.
\* (memStrikes, and the zeros written before the restart)
THEOREM Earned == HealerSpec => RecycleEarned
<1>1. StrikesEarned => (Recycle => bloats >= MemorySamples)
  BY DEF StrikesEarned, PastChecks, Recycle
<1> QED
  BY <1>1, StrikesInv, PTL DEF RecycleEarned
=============================================================================
