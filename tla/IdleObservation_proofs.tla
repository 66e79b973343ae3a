----------------------- MODULE IdleObservation_proofs -----------------------
(***************************************************************************)
(* A hand-off means quiet, for any number of requests, any wait, deadline  *)
(* and sampling pace, and whatever a sample may miss.                      *)
(***************************************************************************)
EXTENDS IdleObservation, NumberFacts

\* Over by a given instant.
OverBy(r, instant) == ~InFlight(r) /\ flights[r].to <= instant

FlightsTyped ==
  /\ now \in Nat
  /\ flights \in [Requests -> [from : Nat \cup {None}, to : Nat \cup {None}]]
  /\ \A r \in Requests :
       /\ flights[r].from # None => flights[r].from <= now
       /\ flights[r].to # None => flights[r].to <= now

Samples == [pc : {"pause", "polled", "health", "history"}, start : Int, turn : Int,
            second : BOOLEAN, arrived : BOOLEAN, counted : BOOLEAN,
            fault : StructuralReasons \cup {None}, wall : Nat \cup {None}]

\* The clock has not gone back since a sample began or read the health snapshot.
SampleTimed(s, time) ==
  /\ s.pc # "pause" => s.start \in Nat /\ s.start <= time
  /\ s.pc \in {"health", "history"} => s.wall \in Nat /\ s.wall <= time

SampleTyped ==
  /\ sample \in Samples /\ SampleTimed(sample, now)
  /\ unread \in Nat
  /\ collector \in [arrivalGen : Nat, rowGen : Nat,
                    newest : Nat \cup {None}, primed : BOOLEAN]
  /\ latest \in [verdict : Gate!GateVerdicts, fresh : BOOLEAN,
                 start : Int \cup {None}]

\* An open window began with a read of the API.
WindowPrimed ==
  quietSince # None =>
    /\ quietSince \in Nat
    /\ collector.primed
    /\ quietGens # None
    /\ quietGens[2] \in Nat /\ quietGens[2] <= collector.rowGen

\* As long as no new call-log row has been counted since the window opened,
\* the newest trace the collector knows of is in the past, and the requests
\* up to that trace were over when the window opened, give or take a sample.
WindowCovers ==
  quietSince # None /\ quietGens[2] = collector.rowGen =>
    /\ collector.newest # None => collector.newest < now
    /\ \A r \in Requests :
         Started(r) /\ collector.newest # None
         /\ flights[r].from <= collector.newest =>
           OverBy(r, quietSince + MaxSample)

\* What a published "ready" says of the requests before its sample.
ReadyCovers ==
  latest.verdict = "ready" =>
    /\ latest.start \in Nat /\ latest.start <= now
    /\ \A r \in Requests :
         Started(r) /\ flights[r].from < latest.start =>
           OverBy(r, latest.start - MinWait + MaxSample)

HandedReady == shell = "handoff" => latest.verdict = "ready"

QuietInv == /\ FlightsTyped
            /\ SampleTyped
            /\ WindowPrimed
            /\ WindowCovers
            /\ ReadyCovers
            /\ HandedReady

-----------------------------------------------------------------------------
(* What a step of the gate does to the window.                             *)

\* It drops it, leaves it alone or opens it on a quiet sample; "ready" answers
\* a quiet sample that finds the window long enough and undisturbed.
LEMMA StepWindow ==
  ASSUME NEW in, Gate!Step(sample.start, in)
  PROVE  /\ \/ quietSince' = None
            \/ quietSince' = quietSince /\ quietGens' = quietGens
            \/ /\ in.state \notin {"unknown", "busy"}
               /\ quietSince' = sample.start
               /\ quietGens' = in.gens
         /\ verdict' = "ready" =>
              /\ in.state \notin {"unknown", "busy"}
              /\ quietSince # None
              /\ quietSince' = quietSince /\ quietGens' = quietGens
              /\ sample.start - quietSince >= MinWait
              /\ quietGens # None => in.gens = quietGens
         /\ verdict' \in Gate!GateVerdicts
<1> USE DEF Gate!GateVerdicts
<1>1. CASE Gate!PastDeadline(sample.start, in)
  BY <1>1 DEF Gate!PastDeadline, Gate!gateVars
<1>2. CASE Gate!GiveUpOnUnknown(sample.start, in)
  BY <1>2 DEF Gate!GiveUpOnUnknown
<1>3. CASE Gate!SitOutUnknown(sample.start, in)
  BY <1>3 DEF Gate!SitOutUnknown, Gate!DropWindow
<1>4. CASE Gate!RestartOnActivity(sample.start, in)
  BY <1>4 DEF Gate!RestartOnActivity, Gate!DropWindow
<1>5. CASE Gate!AwaitHealthAdvance(sample.start, in)
  BY <1>5 DEF Gate!AwaitHealthAdvance
<1>6. CASE Gate!OpenWindow(sample.start, in)
  BY <1>6 DEF Gate!OpenWindow, Gate!Quiet, Gate!ShowsActivity
<1>7. CASE Gate!WindowRuns(sample.start, in)
  BY <1>7 DEF Gate!WindowRuns
<1>8. CASE Gate!WindowOver(sample.start, in)
  BY <1>8 DEF Gate!WindowOver, Gate!Quiet, Gate!ShowsActivity
<1> QED
  BY <1>1, <1>2, <1>3, <1>4, <1>5, <1>6, <1>7, <1>8 DEF Gate!Step

\* A verdict reaches latest.json as it is, or it was "resample".
LEMMA PublishLatest ==
  ASSUME NEW in, Publish(in)
  PROVE  /\ Gate!Step(sample.start, in)
         /\ sample' \in {Taken(TRUE), Taken(FALSE)}
         /\ \/ latest' = latest
            \/ /\ latest'.verdict = verdict'
               /\ verdict' = "ready" => latest'.start = sample.start
<1>1. CASE AsksAgain
  BY <1>1 DEF Publish
<1>2. CASE ~AsksAgain
  <2>1. latest' = [verdict |-> verdict', fresh |-> TRUE,
                   start |-> IF verdict' = "ready" THEN sample.start ELSE None]
    BY <1>2 DEF Publish
  <2>2. latest'.verdict = verdict'
    BY <2>1
  <2>3. verdict' = "ready" => latest'.start = sample.start
    BY <2>1
  <2>4. Gate!Step(sample.start, in) /\ sample' \in {Taken(TRUE), Taken(FALSE)}
    BY <1>2 DEF Publish
  <2> QED
    BY <2>2, <2>3, <2>4
<1> QED
  BY <1>1, <1>2

-----------------------------------------------------------------------------
(* The invariant.                                                          *)

LEMMA WaitNumbers ==
  /\ MinWait \in Nat /\ MinWait > 0 /\ MaxSample \in Nat /\ Interval \in Nat
  /\ None \notin Nat /\ None \notin Nat \X Nat
BY ObservationAssumption DEF ObservationAssumption

LEMMA NewSampleTyped == NewSample \in Samples /\ NewSample.pc = "pause"
<1>1. -Interval \in Int
  BY WaitNumbers
<1> QED
  BY <1>1 DEF NewSample, Samples

LEMMA QuietInit == Init => QuietInv
<1> SUFFICES ASSUME Init PROVE QuietInv
  OBVIOUS
<1> USE WaitNumbers
<1>1. FlightsTyped
  BY DEF Init, FlightsTyped
<1>2. SampleTyped
  <2>1. -Interval \in Int
    OBVIOUS
  <2>2. sample \in Samples /\ SampleTimed(sample, now)
    BY <2>1, NewSampleTyped DEF Init, SampleTimed
  <2>3. latest \in [verdict : Gate!GateVerdicts, fresh : BOOLEAN,
                    start : Int \cup {None}]
    BY DEF Init, Gate!GateVerdicts
  <2>4. unread \in Nat /\ collector \in [arrivalGen : Nat, rowGen : Nat,
                    newest : Nat \cup {None}, primed : BOOLEAN]
    BY DEF Init, NewCollector
  <2> QED
    BY <2>1, <2>2, <2>3, <2>4 DEF SampleTyped
<1>3. WindowPrimed /\ WindowCovers
  BY DEF Init, WindowPrimed, WindowCovers, Gate!GateInit
<1>4. ReadyCovers /\ HandedReady
  BY DEF Init, ReadyCovers, HandedReady
<1> QED
  BY <1>1, <1>2, <1>3, <1>4 DEF QuietInv

LEMMA QuietBegin ==
  ASSUME QuietInv, NEW r \in Requests, BeginRequest(r)
  PROVE  QuietInv'
<1> USE WaitNumbers DEF QuietInv
<1>1. /\ flights' = [flights EXCEPT ![r].from = now] /\ ~Started(r)
      /\ unread' = unread + 1
      /\ UNCHANGED <<now, sample, collector, gate, verdict, latest, shell>>
  BY DEF BeginRequest
<1>2. /\ flights'[r] = [from |-> now, to |-> flights[r].to]
      /\ \A q \in Requests \ {r} : flights'[q] = flights[q]
      /\ FlightsTyped'
  BY <1>1 DEF FlightsTyped
<1>3. SampleTyped' /\ WindowPrimed' /\ HandedReady'
  BY <1>1 DEF SampleTyped, WindowPrimed, HandedReady, gate
<1>4. \A q \in Requests \ {r}, t \in Int :
         /\ Started(q)' <=> Started(q)
         /\ OverBy(q, t)' <=> OverBy(q, t)
  BY <1>2 DEF Started, InFlight, OverBy
<1>5. WindowCovers'
  <2> SUFFICES ASSUME (quietSince # None /\ quietGens[2] = collector.rowGen)'
               PROVE  WindowCovers'
    BY DEF WindowCovers
  <2>1. quietSince # None /\ quietGens[2] = collector.rowGen
    BY <1>1 DEF gate
  <2>2. collector.newest # None => collector.newest < now
    BY <2>1 DEF WindowCovers
  <2>3. ~(collector.newest # None /\ flights'[r].from <= collector.newest)
    BY <1>2, <2>2 DEF FlightsTyped, SampleTyped
  <2>4. \A q \in Requests \ {r} :
          Started(q) /\ collector.newest # None
          /\ flights[q].from <= collector.newest =>
             OverBy(q, quietSince + MaxSample)
    BY <2>1 DEF WindowCovers
  <2>5. quietSince + MaxSample \in Int
    BY <2>1 DEF WindowPrimed
  <2>6. /\ quietSince' = quietSince /\ quietGens' = quietGens
        /\ collector' = collector /\ now' = now
    BY <1>1 DEF gate
  <2>7. \A q \in Requests :
          Started(q)' /\ collector'.newest # None
          /\ flights'[q].from <= collector'.newest =>
             OverBy(q, quietSince + MaxSample)'
    BY <1>2, <1>4, <2>3, <2>4, <2>5, <2>6
  <2> QED
    BY <2>2, <2>6, <2>7 DEF WindowCovers
<1>6. ReadyCovers'
  <2> SUFFICES ASSUME latest'.verdict = "ready" PROVE ReadyCovers'
    BY DEF ReadyCovers
  <2>1. /\ latest' = latest /\ now' = now
        /\ latest.start \in Nat /\ latest.start <= now
        /\ \A q \in Requests :
             Started(q) /\ flights[q].from < latest.start =>
               OverBy(q, latest.start - MinWait + MaxSample)
    BY <1>1 DEF ReadyCovers
  <2>2. latest.start - MinWait + MaxSample \in Int
    BY <2>1
  <2>3. ~(flights'[r].from < latest.start)
    BY <1>2, <2>1 DEF FlightsTyped
  <2>4. \A q \in Requests :
             Started(q)' /\ flights'[q].from < latest'.start =>
               OverBy(q, latest.start - MinWait + MaxSample)'
    BY <1>2, <1>4, <2>1, <2>2, <2>3
  <2> QED
    BY <2>1, <2>4 DEF ReadyCovers
<1> QED
  BY <1>2, <1>3, <1>5, <1>6

\* Requests that were over stay over, whatever else happens.
LEMMA CoverKept ==
  ASSUME QuietInv, FlightsTyped', now <= now',
         \A q \in Requests : flights'[q].from = flights[q].from,
         \A q \in Requests, t \in Int : OverBy(q, t) => OverBy(q, t)',
         UNCHANGED gate,
         collector'.rowGen = collector.rowGen,
         collector'.newest = collector.newest,
         collector'.primed = collector.primed,
         latest'.verdict = latest.verdict, latest'.start = latest.start
  PROVE  WindowPrimed' /\ WindowCovers' /\ ReadyCovers'
<1> USE WaitNumbers DEF QuietInv
<1>1. quietSince' = quietSince /\ quietGens' = quietGens
  BY DEF gate
<1>2. WindowPrimed'
  BY <1>1 DEF WindowPrimed
<1>3. \A q \in Requests : Started(q)' <=> Started(q)
  BY DEF Started
<1>4. WindowCovers'
  <2> SUFFICES ASSUME quietSince # None, quietGens[2] = collector.rowGen
               PROVE  WindowCovers'
    BY <1>1 DEF WindowCovers
  <2>1. quietSince + MaxSample \in Int
    BY DEF WindowPrimed
  <2>2. \A q \in Requests :
          Started(q)' /\ collector'.newest # None
          /\ flights'[q].from <= collector'.newest =>
             OverBy(q, quietSince + MaxSample)'
    BY <1>1, <1>3, <2>1 DEF WindowCovers
  <2>3. collector'.newest # None => collector'.newest < now'
    BY DEF WindowCovers, SampleTyped, FlightsTyped
  <2> QED
    BY <1>1, <2>2, <2>3 DEF WindowCovers
<1>5. ReadyCovers'
  <2> SUFFICES ASSUME latest.verdict = "ready" PROVE ReadyCovers'
    BY DEF ReadyCovers
  <2>1. latest.start \in Nat /\ latest.start <= now
        /\ latest.start - MinWait + MaxSample \in Int
    BY DEF ReadyCovers
  <2>2. \A q \in Requests :
          Started(q)' /\ flights'[q].from < latest'.start =>
             OverBy(q, latest.start - MinWait + MaxSample)'
    BY <1>3, <2>1 DEF ReadyCovers
  <2>3. latest'.start <= now'
    BY <2>1 DEF FlightsTyped
  <2> QED
    BY <2>1, <2>2, <2>3 DEF ReadyCovers
<1> QED
  BY <1>2, <1>4, <1>5

LEMMA QuietEnd ==
  ASSUME QuietInv, NEW r \in Requests, EndRequest(r)
  PROVE  QuietInv'
<1> USE WaitNumbers DEF QuietInv
<1>1. /\ flights' = [flights EXCEPT ![r].to = now] /\ InFlight(r)
      /\ UNCHANGED <<now, unread, sample, collector, gate, verdict, latest,
                     shell>>
  BY DEF EndRequest
<1>2. /\ flights'[r] = [from |-> flights[r].from, to |-> now]
      /\ \A q \in Requests \ {r} : flights'[q] = flights[q]
      /\ FlightsTyped'
  BY <1>1 DEF FlightsTyped
<1>3. SampleTyped' /\ HandedReady'
  BY <1>1 DEF SampleTyped, HandedReady
<1>4. \A q \in Requests : flights'[q].from = flights[q].from
  BY <1>2
<1>5. \A q \in Requests, t \in Int : OverBy(q, t) => OverBy(q, t)'
  BY <1>1, <1>2 DEF Started, InFlight, OverBy
<1>6. now <= now'
  BY <1>1 DEF FlightsTyped
<1>7. WindowPrimed' /\ WindowCovers' /\ ReadyCovers'
  BY <1>1, <1>2, <1>4, <1>5, <1>6, CoverKept
<1> QED
  BY <1>2, <1>3, <1>7

\* Steps that leave the requests alone.
LEMMA QuietElsewhere ==
  ASSUME QuietInv, UNCHANGED flights, now' \in Nat, now <= now',
         SampleTyped', HandedReady', UNCHANGED gate,
         collector'.rowGen = collector.rowGen,
         collector'.newest = collector.newest,
         collector'.primed = collector.primed,
         latest'.verdict = latest.verdict, latest'.start = latest.start
  PROVE  QuietInv'
<1> USE WaitNumbers DEF QuietInv
<1>1. FlightsTyped'
  BY DEF FlightsTyped
<1>2. \A q \in Requests, t \in Int : OverBy(q, t) => OverBy(q, t)'
  BY DEF Started, InFlight, OverBy
<1>3. \A q \in Requests : flights'[q].from = flights[q].from
  OBVIOUS
<1>4. WindowPrimed' /\ WindowCovers' /\ ReadyCovers'
  BY <1>1, <1>2, <1>3, CoverKept
<1> QED
  BY <1>1, <1>4

LEMMA QuietTick == ASSUME QuietInv, Tick PROVE QuietInv'
<1>1. UNCHANGED <<flights, unread, sample, collector, gate, verdict, latest, shell>>
      /\ now' = now + 1
  BY DEF Tick
<1>2. now' \in Nat /\ now <= now'
  BY <1>1 DEF QuietInv, FlightsTyped
<1>3. SampleTyped'
  <2>1. SampleTimed(sample, now) /\ sample \in Samples /\ now \in Nat
    BY DEF QuietInv, FlightsTyped, SampleTyped
  <2>2. SampleTimed(sample, now')
    BY <1>1, <2>1 DEF SampleTimed, Samples
  <2> QED
    BY <1>1, <2>1, <2>2 DEF QuietInv, SampleTyped
<1>4. HandedReady'
  BY <1>1 DEF QuietInv, HandedReady
<1> QED
  BY <1>1, <1>2, <1>3, <1>4, QuietElsewhere

LEMMA QuietPollJournal == ASSUME QuietInv, PollJournal PROVE QuietInv'
<1>1. PICK fault \in StructuralReasons \cup {None},
           delivered \in 0 .. unread, left \in 0 .. unread :
        /\ collector' = [collector EXCEPT !.arrivalGen = @ + delivered]
        /\ sample' = [sample EXCEPT !.pc = "polled", !.start = now,
                                    !.turn = IF sample.second THEN @ ELSE now,
                                    !.arrived = delivered > 0,
                                    !.fault = fault]
        /\ unread' = left
  BY DEF PollJournal
<1>2. UNCHANGED <<now, flights, gate, verdict, latest, shell>>
  BY DEF PollJournal
<1>3. /\ collector'.rowGen = collector.rowGen
      /\ collector'.newest = collector.newest
      /\ collector'.primed = collector.primed
  BY <1>1 DEF QuietInv, SampleTyped
<1>4. sample' \in Samples /\ SampleTimed(sample', now')
  <2>1. now \in Nat /\ now \in Int /\ sample \in Samples
    BY DEF QuietInv, FlightsTyped, SampleTyped
  <2>2. PICK some \in BOOLEAN : some = (delivered > 0)
    <3>1. (delivered > 0) \in BOOLEAN
      OBVIOUS
    <3> QED
      BY <3>1
  <2>3. PICK turn \in Int : turn = IF sample.second THEN sample.turn ELSE now
    <3>1. sample.turn \in Int
      BY <2>1 DEF Samples
    <3>2. PICK turn : turn = IF sample.second THEN sample.turn ELSE now
      OBVIOUS
    <3>3. turn \in Int
      BY <2>1, <3>1, <3>2
    <3> QED
      BY <3>2, <3>3
  <2>4. PICK old, new : old = sample /\ new = sample'
    OBVIOUS
  <2>5. new = [old EXCEPT !.pc = "polled", !.start = now, !.turn = turn,
                          !.arrived = some, !.fault = fault]
    BY <1>1, <2>2, <2>3, <2>4
  <2>6. old \in Samples
    BY <2>1, <2>4
  <2>7. new \in Samples /\ new.pc = "polled" /\ new.start = now
    BY <2>1, <2>5, <2>6 DEF Samples
  <2>8. now' = now /\ now <= now
    BY <1>2, <2>1
  <2> QED
    BY <2>1, <2>4, <2>7, <2>8 DEF SampleTimed
<1>5. SampleTyped'
  <2>1. delivered \in Nat /\ left \in Nat
    BY DEF QuietInv, SampleTyped
  <2>2. unread' \in Nat
    BY <1>1, <2>1
  <2>3. collector' \in [arrivalGen : Nat, rowGen : Nat,
                        newest : Nat \cup {None}, primed : BOOLEAN]
    BY <1>1, <2>1 DEF QuietInv, SampleTyped
  <2> QED
    BY <1>2, <1>4, <2>2, <2>3 DEF QuietInv, SampleTyped
<1>6. HandedReady' /\ now' \in Nat /\ now <= now'
  BY <1>2 DEF QuietInv, HandedReady, FlightsTyped
<1> QED
  BY <1>2, <1>3, <1>5, <1>6, QuietElsewhere

\* The reads of the API before the call log only fill in the sample.
LEMMA QuietCounters == ASSUME QuietInv, ReadHealth \/ ReadHistory PROVE QuietInv'
<1>1. PICK counted \in BOOLEAN, wall \in {sample.wall, now}, pc \in {"health", "history"} :
        /\ sample' = [[sample EXCEPT !.pc = pc, !.wall = wall] EXCEPT !.counted = counted]
        /\ sample.pc # "pause"
        /\ wall = now \/ sample.pc = "health"
        /\ UNCHANGED <<now, flights, unread, collector, gate, verdict, latest, shell>>
  <2>0. Served \in BOOLEAN /\ sample \in Samples
    BY DEF Served, QuietInv, SampleTyped
  <2>1. CASE ReadHealth
    <3>1. PICK counted \in {FALSE, Served} :
            Read([sample EXCEPT !.pc = "health", !.wall = now], counted)
      BY <2>1 DEF ReadHealth
    <3>2. sample.pc = "polled"
      BY <2>1 DEF ReadHealth
    <3> QED
      BY <2>0, <3>1, <3>2 DEF Read
  <2>2. CASE ReadHistory
    <3>1. Read([sample EXCEPT !.pc = "history"], sample.counted \/ Served)
          /\ sample.pc = "health"
      BY <2>2 DEF ReadHistory
    <3>2. PICK counted \in BOOLEAN : counted = (sample.counted \/ Served)
      OBVIOUS
    <3>3. [sample EXCEPT !.pc = "history"]
            = [sample EXCEPT !.pc = "history", !.wall = sample.wall]
      BY <2>0 DEF Samples
    <3> QED
      BY <3>1, <3>2, <3>3 DEF Read
  <2> QED
    BY <2>1, <2>2
<1>2. sample' \in Samples /\ SampleTimed(sample', now')
  <2>1. /\ now \in Nat /\ now <= now
        /\ sample \in Samples /\ SampleTimed(sample, now)
    BY DEF QuietInv, FlightsTyped, SampleTyped
  <2>2. PICK old, new : old = sample /\ new = sample'
    OBVIOUS
  <2>3. wall \in Nat /\ wall <= now
    BY <1>1, <2>1 DEF SampleTimed
  <2>4. old \in Samples /\ new = [[old EXCEPT !.pc = pc, !.wall = wall] EXCEPT !.counted = counted]
    BY <1>1, <2>1, <2>2
  <2>5. new \in Samples /\ new.start = old.start /\ new.wall = wall
    BY <2>3, <2>4 DEF Samples
  <2>6. old.start \in Nat /\ old.start <= now
    BY <1>1, <2>1, <2>2 DEF SampleTimed
  <2> QED
    BY <1>1, <2>2, <2>3, <2>5, <2>6 DEF SampleTimed
<1>3. SampleTyped'
  BY <1>1, <1>2 DEF QuietInv, SampleTyped
<1>4. HandedReady' /\ now' \in Nat /\ now <= now'
  BY <1>1 DEF QuietInv, HandedReady, FlightsTyped
<1> QED
  BY <1>1, <1>3, <1>4, QuietElsewhere

LEMMA QuietPollVerdict == ASSUME QuietInv, PollVerdict PROVE QuietInv'
<1>1. UNCHANGED <<now, flights, unread>>
  BY DEF PollVerdict
<1>2. /\ latest'.verdict = latest.verdict /\ latest'.start = latest.start
      /\ latest' \in [verdict : Gate!GateVerdicts, fresh : BOOLEAN,
                      start : Int \cup {None}]
  BY DEF PollVerdict, QuietInv, SampleTyped
<1>3. shell' = "handoff" => latest.verdict = "ready"
  <2>1. CASE now >= Deadline /\ shell' = "deferred"
    BY <2>1
  <2>2. CASE ~latest.fresh /\ shell' \in {"observing", "deferred"}
    BY <2>2
  <2>3. CASE shell' = CASE latest.verdict = "wait"  -> "observing"
                        [] latest.verdict = "ready" -> "handoff"
                        [] latest.verdict \in {"defer-deadline",
                                               "defer-unknown"} -> "deferred"
                        [] OTHER -> "error"
    BY <2>3
  <2> QED
    BY <2>1, <2>2, <2>3 DEF PollVerdict
<1>4. HandedReady'
  BY <1>2, <1>3 DEF HandedReady
<1>5. now' \in Nat /\ now <= now'
  BY <1>1 DEF QuietInv, FlightsTyped
<1>6. CASE shell' = "observing"
  <2>1. UNCHANGED <<sample, collector, gate>>
    BY <1>6 DEF PollVerdict
  <2>2. SampleTyped'
    BY <1>1, <1>2, <2>1 DEF QuietInv, SampleTyped
  <2> QED
    BY <1>1, <1>2, <1>4, <1>5, <2>1, <2>2, QuietElsewhere
<1>7. CASE shell' # "observing"
  <2>1. StopObserver
    BY <1>7 DEF PollVerdict
  <2>2. /\ sample' = NewSample /\ collector' = NewCollector /\ quietSince' = None
    BY <2>1 DEF StopObserver
  <2>3. SampleTyped'
    <3>1. SampleTimed(sample', now') /\ sample' \in Samples
      BY <2>2, NewSampleTyped DEF SampleTimed
    <3>2. NewCollector \in [arrivalGen : Nat, rowGen : Nat,
                            newest : Nat \cup {None}, primed : BOOLEAN]
      BY DEF NewCollector
    <3> QED
      BY <1>1, <1>2, <2>2, <3>1, <3>2 DEF QuietInv, SampleTyped
  <2>4. WindowPrimed' /\ WindowCovers'
    BY <2>2 DEF WindowPrimed, WindowCovers
  <2>5. FlightsTyped' /\ ReadyCovers'
    <3>1. /\ \A q \in Requests : Started(q)' <=> Started(q)
          /\ \A q \in Requests, t \in Int : OverBy(q, t)' <=> OverBy(q, t)
      BY <1>1 DEF Started, InFlight, OverBy
    <3>2. latest.verdict = "ready" => latest.start - MinWait + MaxSample \in Int
      BY WaitNumbers DEF QuietInv, ReadyCovers
    <3> QED
      BY <1>1, <1>2, <3>1, <3>2 DEF QuietInv, FlightsTyped, ReadyCovers
  <2> QED
    BY <1>4, <2>3, <2>4, <2>5 DEF QuietInv
<1> QED
  BY <1>6, <1>7

-----------------------------------------------------------------------------
(* A sample that reaches the gate.                                         *)

\* What Publish leaves well typed.
LEMMA PublishTyped ==
  ASSUME QuietInv, NEW in, Publish(in)
  PROVE  sample' \in Samples /\ sample'.pc = "pause"
<1>1. sample' \in {Taken(TRUE), Taken(FALSE)}
  BY PublishLatest
<1>2. ASSUME NEW b \in BOOLEAN
      PROVE  Taken(b) \in Samples /\ Taken(b).pc = "pause"
  BY DEF Taken, Samples, QuietInv, SampleTyped
<1> QED
  BY <1>1, <1>2

LEMMA NewestIsLatest ==
  ASSUME FlightsTyped
  PROVE  /\ Traces \in SUBSET Nat /\ Readable \in SUBSET Traces
         /\ NewestTrace \in Readable \cup {None}
         /\ \A t \in Readable : NewestTrace \in Nat /\ t <= NewestTrace
<1> USE WaitNumbers
<1>1. Traces \in SUBSET Nat /\ Readable \in SUBSET Traces
      /\ now + 1 \in Nat /\ \A t \in Traces : t < now + 1
  BY DEF Traces, Readable, Started, FlightsTyped
<1>2. CASE Readable # {}
  <2>1. PICK S \in SUBSET Nat : S = Readable
    BY <1>1
  <2>2. \E m \in S : \A n \in S : n <= m
    BY <1>1, <1>2, <2>1, GreatestNumber
  <2>3. \E m \in S : \A n \in S : m >= n
    BY <2>1, <2>2
  <2>4. Max(S) \in S /\ \A n \in S : Max(S) >= n
    BY <2>3 DEF Max
  <2>5. NewestTrace = Max(S)
    BY <1>2, <2>1 DEF NewestTrace
  <2> QED
    BY <1>1, <2>1, <2>4, <2>5
<1>3. CASE Readable = {}
  BY <1>1, <1>3 DEF NewestTrace
<1> QED
  BY <1>2, <1>3

\* What a sample tells the gate of the generations and of quiet.
Tells(in) ==
  /\ in.gens \in Nat \X Nat /\ in.gens[2] = collector'.rowGen
  /\ in.state \notin {"unknown", "busy"} =>
       /\ collector'.primed
       /\ now <= sample.start + MaxSample
       /\ collector'.newest # None => collector'.newest < now
       /\ \A r \in Requests :
            Started(r) => /\ ~InFlight(r)
                          /\ collector'.newest # None
                          /\ flights[r].from <= collector'.newest

\* The call log is read on: a generation for a new newest trace, or the trace
\* is the one known.
ReadsOn ==
  /\ collector' \in [arrivalGen : Nat, rowGen : Nat,
                     newest : Nat \cup {None}, primed : BOOLEAN]
  /\ collector.rowGen <= collector'.rowGen
  /\ collector.primed =>
       /\ collector'.primed
       /\ collector'.rowGen = collector.rowGen =>
            collector'.newest = collector.newest

LEMMA QuietPublish ==
  ASSUME QuietInv, NEW in, Publish(in), Tells(in), ReadsOn,
         UNCHANGED <<now, flights, unread, shell>>,
         shell = "observing", sample.pc # "pause"
  PROVE  QuietInv'
<1> USE WaitNumbers
<1>1. FlightsTyped' /\ HandedReady'
  BY DEF QuietInv, FlightsTyped, HandedReady
<1>2. sample.start \in Nat /\ sample.start <= now /\ now \in Nat
  BY DEF QuietInv, SampleTyped, SampleTimed, FlightsTyped
<1>3. Gate!Step(sample.start, in)
  BY PublishLatest
<1>4. SampleTyped'
  <2>1. latest' \in [verdict : Gate!GateVerdicts, fresh : BOOLEAN,
                     start : Int \cup {None}]
    <3>1. verdict' \in Gate!GateVerdicts
      BY <1>3, StepWindow
    <3>2. CASE AsksAgain
      BY <3>2 DEF Publish, QuietInv, SampleTyped
    <3>3. CASE ~AsksAgain
      <4>1. latest' = [verdict |-> verdict', fresh |-> TRUE,
                       start |-> IF verdict' = "ready" THEN sample.start
                                 ELSE None]
        BY <3>3 DEF Publish
      <4> QED
        BY <1>2, <3>1, <4>1
    <3> QED
      BY <3>2, <3>3
  <2> QED
    BY <2>1, PublishTyped DEF ReadsOn, QuietInv, SampleTyped, SampleTimed
<1>5. /\ \A r \in Requests : Started(r)' <=> Started(r)
      /\ \A r \in Requests, t \in Int : OverBy(r, t)' <=> OverBy(r, t)
  BY DEF Started, InFlight, OverBy
<1>6. WindowPrimed' /\ WindowCovers'
  <2>1. CASE quietSince' = None
    BY <2>1 DEF WindowPrimed, WindowCovers
  <2>2. CASE quietSince' # None /\ quietSince' = quietSince
             /\ quietGens' = quietGens
    <3>1. /\ quietSince \in Nat /\ collector.primed /\ quietGens # None
          /\ quietGens[2] \in Nat /\ quietGens[2] <= collector.rowGen
      BY <2>2 DEF QuietInv, WindowPrimed
    <3>2. collector.rowGen \in Nat /\ collector'.rowGen \in Nat
          /\ collector.rowGen <= collector'.rowGen /\ collector'.primed
      BY <3>1 DEF QuietInv, SampleTyped, ReadsOn
    <3>3. WindowPrimed'
      BY <2>2, <3>1, <3>2 DEF WindowPrimed
    <3>4. CASE quietGens[2] # collector'.rowGen
      BY <2>2, <3>3, <3>4 DEF WindowCovers
    <3>5. CASE quietGens[2] = collector'.rowGen
      <4>1. /\ collector'.rowGen = collector.rowGen
            /\ collector'.newest = collector.newest
        BY <3>1, <3>2, <3>5 DEF ReadsOn
      <4>2. /\ collector.newest # None => collector.newest < now
            /\ \A r \in Requests :
                 Started(r) /\ collector.newest # None
                 /\ flights[r].from <= collector.newest =>
                   OverBy(r, quietSince + MaxSample)
        BY <2>2, <3>5, <4>1 DEF QuietInv, WindowCovers
      <4>3. quietSince + MaxSample \in Int
        BY <3>1
      <4>4. \A r \in Requests :
                 Started(r)' /\ collector'.newest # None
                 /\ flights'[r].from <= collector'.newest =>
                   OverBy(r, quietSince + MaxSample)'
        BY <1>5, <2>2, <4>1, <4>2, <4>3
      <4> QED
        BY <2>2, <3>3, <4>1, <4>2, <4>4 DEF WindowCovers
    <3> QED
      BY <3>4, <3>5
  <2>3. CASE /\ in.state \notin {"unknown", "busy"}
             /\ quietSince' = sample.start /\ quietGens' = in.gens
    <3>1. WindowPrimed'
      BY <1>2, <2>3 DEF WindowPrimed, Tells, ReadsOn
    <3>2. sample.start + MaxSample \in Int /\ now <= sample.start + MaxSample
      BY <1>2, <2>3 DEF Tells
    <3>3. ASSUME NEW r \in Requests, Started(r)
          PROVE  OverBy(r, sample.start + MaxSample)
      <4>1. ~InFlight(r)
        BY <2>3, <3>3 DEF Tells
      <4>2. flights[r].to \in Nat /\ flights[r].to <= now
        BY <3>3, <4>1 DEF InFlight, QuietInv, FlightsTyped
      <4> QED
        BY <1>2, <3>2, <4>1, <4>2 DEF OverBy
    <3>4. \A r \in Requests :
            Started(r)' => OverBy(r, quietSince + MaxSample)'
      BY <1>5, <2>3, <3>2, <3>3
    <3>5. collector'.newest # None => collector'.newest < now'
      BY <2>3 DEF Tells
    <3> QED
      BY <3>1, <3>4, <3>5 DEF WindowCovers
  <2> QED
    BY <1>3, <2>1, <2>2, <2>3, StepWindow
<1>7. ReadyCovers'
  <2> SUFFICES ASSUME latest'.verdict = "ready" PROVE ReadyCovers'
    BY DEF ReadyCovers
  <2>1. CASE latest' = latest
    <3>1. latest.start \in Nat /\ latest.start <= now
          /\ latest.start - MinWait + MaxSample \in Int
      BY <2>1 DEF QuietInv, ReadyCovers
    <3> QED
      BY <1>5, <2>1, <3>1 DEF QuietInv, ReadyCovers
  <2>2. CASE verdict' = "ready" /\ latest'.start = sample.start
    <3>1. /\ in.state \notin {"unknown", "busy"}
          /\ quietSince # None
          /\ quietSince' = quietSince /\ quietGens' = quietGens
          /\ sample.start - quietSince >= MinWait
          /\ quietGens # None => in.gens = quietGens
      BY <1>3, <2>2, StepWindow
    <3>2. quietSince \in Nat /\ quietGens # None
      BY <3>1 DEF QuietInv, WindowPrimed
    <3>3. quietSince' # None /\ quietGens'[2] = collector'.rowGen
      BY <3>1, <3>2 DEF Tells
    <3>4. ASSUME NEW r \in Requests, Started(r)
          PROVE  OverBy(r, sample.start - MinWait + MaxSample)
      <4>1. /\ collector'.newest # None
            /\ flights[r].from <= collector'.newest
            /\ ~InFlight(r)
        BY <3>1, <3>4 DEF Tells
      <4>2. OverBy(r, quietSince + MaxSample)'
        BY <1>5, <1>6, <3>3, <3>4, <4>1 DEF WindowCovers
      <4>3. flights[r].to <= quietSince + MaxSample
        BY <3>1, <4>2 DEF OverBy
      <4>4. flights[r].to \in Nat
        BY <3>4, <4>1 DEF InFlight, QuietInv, FlightsTyped
      <4> QED
        BY <1>2, <3>1, <3>2, <4>1, <4>3, <4>4 DEF OverBy
    <3>5. sample.start - MinWait + MaxSample \in Int
      BY <1>2
    <3>6. \A r \in Requests :
            Started(r)' => OverBy(r, latest.start - MinWait + MaxSample)'
      BY <1>5, <2>2, <3>4, <3>5
    <3> QED
      BY <1>2, <2>2, <3>6 DEF ReadyCovers
  <2> QED
    BY <2>1, <2>2, PublishLatest
<1> QED
  BY <1>1, <1>4, <1>6, <1>7 DEF QuietInv

LEMMA QuietFails == ASSUME QuietInv, SampleFails PROVE QuietInv'
<1>1. PICK in : /\ Publish(in) /\ in.state \in {"unknown", "busy"}
                /\ in.gens = <<collector'.arrivalGen, collector'.rowGen>>
  <2>1. ASSUME NEW reason, Publish(FailedInput(reason, sample.arrived, None))
        PROVE  \E in : /\ Publish(in) /\ in.state \in {"unknown", "busy"}
                       /\ in.gens = <<collector'.arrivalGen, collector'.rowGen>>
    <3>1. PICK in : in = FailedInput(reason, sample.arrived, None)
      OBVIOUS
    <3>2. /\ Publish(in) /\ in.state \in {"unknown", "busy"}
          /\ in.gens = <<collector'.arrivalGen, collector'.rowGen>>
      BY <2>1, <3>1 DEF FailedInput, GateInput
    <3> QED
      BY <3>2
  <2>2. ASSUME Publish(GateInput("busy", None, None))
        PROVE  \E in : /\ Publish(in) /\ in.state \in {"unknown", "busy"}
                       /\ in.gens = <<collector'.arrivalGen, collector'.rowGen>>
    <3>1. PICK in : in = GateInput("busy", None, None)
      OBVIOUS
    <3>2. /\ Publish(in) /\ in.state \in {"unknown", "busy"}
          /\ in.gens = <<collector'.arrivalGen, collector'.rowGen>>
      BY <2>2, <3>1 DEF GateInput
    <3> QED
      BY <3>2
  <2> QED
    BY <2>1, <2>2 DEF SampleFails
<1>2. UNCHANGED <<now, flights, unread, shell, collector>>
      /\ shell = "observing" /\ sample.pc # "pause"
  BY DEF SampleFails, Observing
<1>3. ReadsOn
  BY <1>2 DEF ReadsOn, QuietInv, SampleTyped
<1>4. Tells(in)
  BY <1>1, <1>3 DEF Tells, ReadsOn
<1> QED
  BY <1>1, <1>2, <1>3, <1>4, QuietPublish

\* Whatever the reads say, the sample is told with the new counters, and only
\* one without anything in flight, recent or in the future is quiet.
LEMMA ReadingTells ==
  ASSUME NEW ts, NEW in \in Readings(ts)
  PROVE  /\ in.gens = <<collector'.arrivalGen, collector'.rowGen>>
         /\ in.state \notin {"unknown", "busy"} => ~Active /\ Readable = Traces
<1>1. CASE sample.counted
  BY <1>1 DEF Readings, GateInput
<1>2. CASE ~sample.counted /\ sample.fault # None
  BY <1>2 DEF Readings, GateInput
<1>3. CASE Readable = Traces
           /\ in = GateInput(IF Active THEN "busy" ELSE "idle", None, ts)
  BY <1>3 DEF GateInput
<1>4. CASE in \in {FailedInput(reason, sample.arrived \/ Active, ts) :
                     reason \in TransientReasons}
  <2>1. PICK reason \in TransientReasons :
          in = FailedInput(reason, sample.arrived \/ Active, ts)
    BY <1>4
  <2> QED
    BY <2>1 DEF FailedInput, GateInput
<1> QED
  BY <1>1, <1>2, <1>3, <1>4 DEF Readings

LEMMA QuietReads == ASSUME QuietInv, ReadRows PROVE QuietInv'
<1> USE WaitNumbers
<1>1. /\ UNCHANGED <<now, flights, unread, shell>>
      /\ shell = "observing" /\ sample.pc = "history"
      /\ now <= sample.start + MaxSample
      /\ collector' = RowsRead
      /\ sample.wall \in Nat /\ sample.wall <= now /\ now \in Nat
  <2>1. now \in Nat /\ sample.start \in Nat /\ MaxSample \in Nat
        /\ sample.wall \in Nat /\ sample.wall <= now
    BY DEF ReadRows, QuietInv, SampleTyped, SampleTimed, FlightsTyped
  <2> QED
    BY <2>1 DEF ReadRows, Observing, TimeIsUp
<1>2. PICK ts \in 0 .. MaxHealth : \E in \in Readings(ts) : Publish(in)
  BY DEF ReadRows
<1>3. PICK in \in Readings(ts) : Publish(in)
  BY <1>2
<1>4. /\ NewestTrace \in Nat \cup {None}
      /\ Readable = Traces =>
           \A r \in Requests : Started(r) => /\ NewestTrace # None
                                            /\ flights[r].from <= NewestTrace
  <2>1. \A r \in Requests : Started(r) => flights[r].from \in Traces
    BY DEF Traces
  <2> QED
    BY <2>1, NewestIsLatest DEF QuietInv
<1>5. ReadsOn /\ collector'.newest = NewestTrace /\ collector'.primed
  <2>1. collector \in [arrivalGen : Nat, rowGen : Nat,
                       newest : Nat \cup {None}, primed : BOOLEAN]
    BY DEF QuietInv, SampleTyped
  <2>2. PICK g \in {collector.rowGen, collector.rowGen + 1} :
          /\ collector' = [collector EXCEPT !.rowGen = g,
                                            !.newest = NewestTrace,
                                            !.primed = TRUE]
          /\ collector.primed /\ g = collector.rowGen =>
               NewestTrace = collector.newest
    <3>1. CASE collector.primed /\ NewestTrace # collector.newest
      <4>1. collector.rowGen + 1 # collector.rowGen
        BY <2>1
      <4> QED
        BY <1>1, <3>1, <4>1 DEF RowsRead
    <3>2. CASE ~(collector.primed /\ NewestTrace # collector.newest)
      BY <1>1, <3>2 DEF RowsRead
    <3> QED
      BY <3>1, <3>2
  <2>3. g \in Nat /\ collector.rowGen <= g
    BY <2>1, <2>2
  <2>4. /\ collector' \in [arrivalGen : Nat, rowGen : Nat,
                           newest : Nat \cup {None}, primed : BOOLEAN]
        /\ collector'.rowGen = g /\ collector'.newest = NewestTrace
        /\ collector'.primed
    <3>1. NewestTrace \in Nat \cup {None}
      BY <1>4
    <3>2. PICK old, new : old = collector /\ new = collector'
      OBVIOUS
    <3>3. new = [old EXCEPT !.rowGen = g, !.newest = NewestTrace, !.primed = TRUE]
      BY <2>2, <3>2
    <3>4. old \in [arrivalGen : Nat, rowGen : Nat,
                  newest : Nat \cup {None}, primed : BOOLEAN]
      BY <2>1, <3>2
    <3>5. /\ new \in [arrivalGen : Nat, rowGen : Nat,
                     newest : Nat \cup {None}, primed : BOOLEAN]
          /\ new.rowGen = g /\ new.newest = NewestTrace /\ new.primed
      BY <2>3, <3>1, <3>3, <3>4
    <3> QED
      BY <3>2, <3>5
  <2> QED
    BY <2>2, <2>3, <2>4 DEF ReadsOn
<1>6. Tells(in)
  <2>1. in.gens \in Nat \X Nat /\ in.gens[2] = collector'.rowGen
    <3>1. in.gens = <<collector'.arrivalGen, collector'.rowGen>>
      BY ReadingTells
    <3>2. PICK a \in Nat, b \in Nat : a = collector'.arrivalGen /\ b = collector'.rowGen
      BY <1>5 DEF ReadsOn
    <3>3. in.gens = <<a, b>>
      BY <3>1, <3>2
    <3> QED
      BY <3>2, <3>3
  <2>2. ASSUME in.state \notin {"unknown", "busy"}
        PROVE  /\ NewestTrace # None => NewestTrace < now
               /\ \A r \in Requests :
                    Started(r) => /\ ~InFlight(r)
                                  /\ NewestTrace # None
                                  /\ flights[r].from <= NewestTrace
    <3>1. ~Active /\ Readable = Traces
      BY <2>2, ReadingTells
    <3>2. NewestTrace # None => ~(sample.wall - NewestTrace < MinWait)
      BY <3>1 DEF Active
    <3>3. NewestTrace # None => NewestTrace < now
      BY <1>1, <1>4, <3>2
    <3> QED
      BY <1>4, <3>1, <3>3 DEF Active, Served
  <2> QED
    BY <1>1, <1>5, <2>1, <2>2 DEF Tells
<1> QED
  BY <1>1, <1>3, <1>5, <1>6, QuietPublish

LEMMA QuietStep == ASSUME QuietInv, [Next]_vars PROVE QuietInv'
<1>1. ASSUME NEW r \in Requests, BeginRequest(r) PROVE QuietInv'
  BY <1>1, QuietBegin
<1>2. ASSUME NEW r \in Requests, EndRequest(r) PROVE QuietInv'
  BY <1>2, QuietEnd
<1>3. CASE UNCHANGED vars
  <2>1. /\ UNCHANGED <<now, flights, unread, sample, collector, gate, latest,
                       shell>>
    BY <1>3 DEF vars
  <2>2. SampleTyped' /\ HandedReady' /\ now' \in Nat /\ now <= now'
    BY <2>1 DEF QuietInv, SampleTyped, HandedReady, FlightsTyped
  <2> QED
    BY <2>1, <2>2, QuietElsewhere
<1> QED
  BY <1>1, <1>2, <1>3, QuietTick, QuietPollJournal, QuietCounters, QuietFails,
     QuietReads, QuietPollVerdict
     DEF Next, Observer

-----------------------------------------------------------------------------
\* A hand-off finds every request that started before the confirming sample
\* over for min_wait, give or take a sample: neither the interleaving of
\* clients with a sample's reads, nor lost lines, failed samples or verdicts
\* the shell missed get a request past it.  (Collector.sample, IdleGate.step,
\* observe_loop, apply_when_idle)
THEOREM HandoffsAreQuiet == Spec => []HandoffAfterQuiet
<1>1. QuietInv => HandoffAfterQuiet
  <2> SUFFICES ASSUME QuietInv, shell = "handoff", NEW r \in Requests,
                      Started(r), flights[r].from < latest.start
               PROVE  /\ ~InFlight(r)
                      /\ flights[r].to <= latest.start - MinWait + MaxSample
    BY DEF HandoffAfterQuiet
  <2>1. latest.verdict = "ready"
    BY DEF QuietInv, HandedReady
  <2> QED
    BY <2>1 DEF QuietInv, ReadyCovers, OverBy
<1> QED
  BY <1>1, QuietInit, QuietStep, PTL DEF Spec
=============================================================================
