-------------------------- MODULE BoundedRun_proofs --------------------------
(***************************************************************************)
(* What a bounded run reports is so, for any limit of the streams, any size  *)
(* of the pipes and any amount of output.  A cleanup that was proved stays   *)
(* proved, since a scope that has once been there is not joined again and    *)
(* only a process in it forks into it; and a stream whose thread has met its *)
(* end without an error has been read to the last chunk.                    *)
(***************************************************************************)
EXTENDS BoundedRun, TLAPS

\* What a thread may post.
Posted == {"boundary-failure"} \cup Limits

RunTyped ==
  /\ procs \in [Procs -> {"none", "outside", "scope", "dead"}]
  /\ drain \in [Streams -> {"off", "on", "end"}]
  /\ sent \in [Streams -> Nat] /\ unread \in [Streams -> Nat] /\ stored \in [Streams -> Nat]
  /\ DOMAIN exceeded = Streams /\ DOMAIN failed = Streams /\ DOMAIN writing = Streams
  /\ events \in Seq(Posted)

\* Nothing is in the scope, or can be, once it has been found empty.
ProofInv ==
  /\ pc = "start" => scope = "none" /\ \A p \in Procs : procs[p] = "none"
  /\ found => scope # "none"
  /\ pc \in {"watch", "look", "wait-term", "kill", "wait-kill"} => found
  /\ pc = "reap" /\ found => ~Populated
  /\ proved => found /\ ~Populated /\ Finished /\ pc \in {"final", "end"}
  /\ result.proved => pc = "end" /\ scope # "none" /\ ~Populated /\ Finished

\* What was read of a stream, and what is left of it.
StreamInv ==
  /\ Alive("launcher") => "launcher" \in pipes
  /\ \A s \in Streams :
       /\ ~writing[s] => failed[s]
       /\ exceeded[s] => stored[s] = StreamLimit
       /\ sent[s] >= unread[s] + stored[s] + (IF exceeded[s] THEN 1 ELSE 0)
       /\ ~failed[s] /\ ~exceeded[s] => sent[s] = unread[s] + stored[s]
       /\ drain[s] = "end" /\ ~failed[s] => unread[s] = 0 /\ pipes = {}
       /\ pc = "start" => drain[s] = "off"
       /\ pc \in {"watch", "look"} => drain[s] # "off"

\* A cause is named only when it is there.
CauseInv ==
  /\ ToSet(events) \subseteq Posted
  /\ pending \in Posted \cup {"timeout", NoOutcome}
  /\ result.outcome # NoOutcome => pc = "end"
  /\ pending = "timeout" \/ result.outcome = "timeout" => overtime
  /\ \A s \in Streams :
       LimitOutcome[s] \in ToSet(events) \cup {pending, result.outcome} => exceeded[s]
  /\ pc = "end" /\ result.outcome # "boundary-failure" =>
       result.proved /\ \A s \in Streams : ~failed[s]
  /\ result.outcome = "completed" =>
       pipes = {} /\ \A s \in Streams : stored[s] = sent[s] /\ unread[s] = 0

LEMMA LimitOutcomes ==
  /\ LimitOutcome["transcript"] = "transcript-limit" /\ LimitOutcome["stderr"] = "stderr-limit"
  /\ Limits = {"transcript-limit", "stderr-limit"}
BY DEF LimitOutcome, Limits, Streams

LEMMA PostAdds ==
  ASSUME NEW S, NEW q \in Seq(S), NEW e \in S
  PROVE  Append(q, e) \in Seq(S) /\ ToSet(Append(q, e)) = ToSet(q) \cup {e}
<1>1. /\ Append(q, e) \in Seq(S) /\ Len(Append(q, e)) = Len(q) + 1
      /\ Append(q, e)[Len(q) + 1] = e
      /\ \A i \in 1 .. Len(q) : Append(q, e)[i] = q[i]
  OBVIOUS
<1>2. Len(q) \in Nat /\ DOMAIN q = 1 .. Len(q) /\ DOMAIN Append(q, e) = 1 .. (Len(q) + 1)
  OBVIOUS
<1>3. 1 .. (Len(q) + 1) = (1 .. Len(q)) \cup {Len(q) + 1}
  BY <1>2
<1> QED
  BY <1>1, <1>2, <1>3 DEF ToSet

\* The event that is taken is one of the queue.
LEMMA TakenIsPosted ==
  ASSUME events \in Seq(Posted), events # <<>>
  PROVE  NextEvent \in ToSet(events)
<1>1. 1 \in DOMAIN events /\ Head(events) = events[1]
  OBVIOUS
<1> QED
  BY <1>1 DEF NextEvent, ToSet

LEMMA ReturnGives ==
  ASSUME NEW outcome, NEW clean, Return(outcome, clean)
  PROVE  /\ pc' = "end"
         /\ result'.outcome \in {outcome, "boundary-failure"}
         /\ result'.proved => clean
         /\ result'.outcome # "boundary-failure" => result'.proved = clean
<1>1. PICK o \in {outcome, "boundary-failure"}, c \in {clean, FALSE} :
        /\ c = clean \/ o = "boundary-failure"
        /\ result' = [outcome |-> o, proved |-> c]
  BY DEF Return
<1>2. result'.outcome = o /\ result'.proved = c
  BY <1>1
<1>3. pc' = "end"
  BY DEF Return, Goto
<1>4. c = clean => (result'.proved => clean) /\ result'.proved = clean
  BY <1>2, Zenon
<1>5. c = FALSE => ~result'.proved
  BY <1>2, Zenon
<1>6. c = clean \/ (c = FALSE /\ o = "boundary-failure")
  BY <1>1
<1>7. (result'.proved => clean) /\ (o # "boundary-failure" => result'.proved = clean)
  BY <1>4, <1>5, <1>6, Zenon
<1> QED
  BY <1>1, <1>2, <1>3, <1>7, Zenon

LEMMA RunInitial == RunInit => RunTyped /\ ProofInv /\ StreamInv /\ CauseInv
<1> SUFFICES ASSUME RunInit PROVE RunTyped /\ ProofInv /\ StreamInv /\ CauseInv
  OBVIOUS
<1> USE BoundedRunAssumption, LimitOutcomes DEF RunInit, NoResult, NoOutcome
<1>1. RunTyped
  BY DEF RunTyped
<1>2. ProofInv
  BY DEF ProofInv
<1>3. StreamInv
  BY DEF StreamInv, Alive, Procs
<1>4. ToSet(events) = {}
  BY DEF ToSet
<1>5. CauseInv
  BY <1>4 DEF CauseInv, Streams
<1> QED
  BY <1>1, <1>2, <1>3, <1>5

-----------------------------------------------------------------------------
(* Types.                                                                  *)

LEMMA RunStaysTyped ==
  ASSUME RunTyped, [RunNext]_runVars
  PROVE  RunTyped'
<1> USE BoundedRunAssumption DEF RunTyped
<1>0. "boundary-failure" \in Posted /\ \A s \in Streams : LimitOutcome[s] \in Posted
  BY DEF Posted, Limits
<1>01. \A e \in Posted : Append(events, e) \in Seq(Posted)
  BY PostAdds
<1>1. procs' \in [Procs -> {"none", "outside", "scope", "dead"}]
  <2>1. CASE \E P : Exit(P)
    BY <2>1 DEF Exit
  <2>2. CASE ~\E P : Exit(P)
    BY <2>2 DEF RunNext, Client, Drain, Main, JoinScope, Fork, Escape, ProcessExits,
       RemoveCgroup, Write, RuntimePasses, DrainChunk, DrainEnd, StartScope, FindCgroup,
       PollLauncher, StartThreads, TakeEvent, Look, Judge, CleanupNow, SignalTerm, WaitTerm,
       SignalKill, WaitKill, Wait, Reap, Conclude, StopWith, Return, Goto, Fail, runVars,
       clientVars
  <2> QED
    BY <2>1, <2>2
<1>2. ASSUME NEW p \in Procs, NEW s \in Streams, Write(p, s) PROVE RunTyped'
  BY <1>1, <1>2 DEF Write, drainVars
<1>3. ASSUME NEW s \in Streams, DrainChunk(s) PROVE RunTyped'
  <2>1. unread' \in [Streams -> Nat]
    BY <1>3 DEF DrainChunk
  <2>2. events' \in Seq(Posted)
    BY <1>0, <1>01, <1>3 DEF DrainChunk, KeepChunk, Post
  <2>3. stored' \in [Streams -> Nat]
    BY <1>3 DEF DrainChunk, KeepChunk
  <2>4. DOMAIN exceeded' = Streams /\ DOMAIN failed' = Streams /\ DOMAIN writing' = Streams
    BY <1>3 DEF DrainChunk, KeepChunk
  <2> QED
    BY <1>1, <1>3, <2>1, <2>2, <2>3, <2>4 DEF DrainChunk, clientVars
<1>4. ASSUME NEW s \in Streams, DrainEnd(s) PROVE RunTyped'
  <2>1. events' \in Seq(Posted)
    BY <1>0, <1>01, <1>4 DEF DrainEnd, Post
  <2> QED
    BY <1>1, <1>4, <2>1 DEF DrainEnd, clientVars
<1>5. CASE StartThreads \/ TakeEvent
  <2>1. <<>> \in Seq(Posted)
    OBVIOUS
  <2> QED
    BY <1>1, <1>5, <2>1 DEF StartThreads, TakeEvent, clientVars, Goto, drainVars
<1>6. CASE UNCHANGED <<sent, unread, drainVars>>
  BY <1>1, <1>6 DEF drainVars
<1> QED
  BY <1>2, <1>3, <1>4, <1>5, <1>6
     DEF RunNext, Client, Drain, Main, JoinScope, Fork, Escape, ProcessExits, Exit,
       RemoveCgroup, RuntimePasses, StartScope, FindCgroup, PollLauncher, Look, Judge,
       CleanupNow, SignalTerm, WaitTerm, SignalKill, WaitKill, Wait, Reap, Conclude,
       StopWith, Return, Goto, Fail, runVars, clientVars

-----------------------------------------------------------------------------
(* What has been proved of the scope.                                      *)

\* Before the start there is nothing to do.
LEMMA NothingRuns ==
  ASSUME RunTyped, ProofInv, pc = "start", [RunNext]_runVars
  PROVE  \/ UNCHANGED <<procs, pc, scope, drain, found, proved, result>>
         \/ StartScope
         \/ UNCHANGED <<procs, pc, scope, found, proved, result>> /\ Drain
<1>1. \A p \in Procs : procs[p] = "none"
  BY DEF ProofInv
<1>2. "launcher" \in Procs /\ "helper" \in Procs
  BY DEF Procs
<1>3. ~(JoinScope \/ Fork \/ Escape \/ ProcessExits \/ RemoveCgroup)
  BY <1>1, <1>2 DEF JoinScope, Fork, Escape, ProcessExits, Alive, RemoveCgroup, ProofInv
<1> QED
  BY <1>3 DEF RunNext, Client, Drain, Main, Write, RuntimePasses, DrainChunk, DrainEnd,
       FindCgroup, PollLauncher, StartThreads, TakeEvent, Look,
       CleanupNow, SignalTerm, WaitTerm, SignalKill, WaitKill, Wait, Reap, Conclude,
       runVars, clientVars, mainVars, drainVars

LEMMA EmptyStays ==
  ASSUME RunTyped, ProofInv, pc # "start", scope # "none", ~Populated, [RunNext]_runVars
  PROVE  scope' # "none" /\ ~Populated'
<1> USE DEF RunTyped
<1>1. "launcher" \in Procs /\ "helper" \in Procs
  BY DEF Procs
<1>2. procs' = procs \/ \E P : Exit(P)
  BY <1>1 DEF Populated, RunNext, Client, Drain, Main, JoinScope, Fork, Escape, ProcessExits,
     RemoveCgroup, Write, RuntimePasses, DrainChunk, DrainEnd, StartScope, FindCgroup,
     PollLauncher, StartThreads, TakeEvent, Look, Judge, CleanupNow, SignalTerm, WaitTerm,
     SignalKill, WaitKill, Wait, Reap, Conclude, StopWith, Return, Goto, Fail, runVars,
     clientVars
<1>3. ~Populated'
  BY <1>2 DEF Populated, Exit
<1>4. scope' \in {scope, "live", "gone"}
  BY DEF RunNext, Client, Drain, Main, JoinScope, Fork, Escape, ProcessExits, Exit,
     RemoveCgroup, Write, RuntimePasses, DrainChunk, DrainEnd, StartScope, FindCgroup,
     PollLauncher, StartThreads, TakeEvent, Look, Judge, CleanupNow, SignalTerm, WaitTerm,
     SignalKill, WaitKill, Wait, Reap, Conclude, StopWith, Return, Goto, Fail, runVars,
     clientVars
<1> QED
  BY <1>3, <1>4

LEMMA FinishedStays ==
  ASSUME RunTyped, pc \notin {"start", "threads"}, Finished, [RunNext]_runVars
  PROVE  Finished'
<1> USE DEF RunTyped
<1>1. "launcher" \in Procs /\ procs["launcher"] = "dead"
  BY DEF Procs, Finished
<1>2. procs'["launcher"] = "dead"
  <2>1. ASSUME NEW P, Exit(P) PROVE procs'["launcher"] = "dead"
    BY <1>1, <2>1 DEF Exit
  <2> QED
  BY <1>1, <2>1 DEF Alive, RunNext, Client, Drain, Main, JoinScope, Fork, Escape, ProcessExits,
     RemoveCgroup, Write, RuntimePasses, DrainChunk, DrainEnd, StartScope, FindCgroup,
     PollLauncher, StartThreads, TakeEvent, Look, Judge, CleanupNow, SignalTerm, WaitTerm,
     SignalKill, WaitKill, Wait, Reap, Conclude, StopWith, Return, Goto, Fail, runVars,
     clientVars
<1>3. \A s \in Streams : drain'[s] # "on"
  <2>1. CASE \E s \in Streams : DrainEnd(s)
    BY <2>1 DEF DrainEnd, Finished
  <2>2. CASE ~\E s \in Streams : DrainEnd(s)
    <3>1. drain' = drain
      BY <2>2 DEF RunNext, Client, Drain, Main, JoinScope, Fork, Escape, ProcessExits, Exit,
         RemoveCgroup, Write, RuntimePasses, DrainChunk, StartScope, FindCgroup,
         PollLauncher, StartThreads, TakeEvent, Look, Judge, CleanupNow, SignalTerm, WaitTerm,
         SignalKill, WaitKill, Wait, Reap, Conclude, StopWith, Return, Goto, Fail, runVars,
         drainVars
    <3> QED
      BY <3>1 DEF Finished
  <2> QED
    BY <2>1, <2>2
<1> QED
  BY <1>2, <1>3 DEF Finished

\* What the client and the threads do.
LEMMA OthersKeepProof ==
  ASSUME RunTyped, ProofInv, Client \/ RuntimePasses \/ Drain \/ UNCHANGED runVars
  PROVE  ProofInv'
<1>1. UNCHANGED <<pc, found, proved, result>>
  BY DEF Client, RuntimePasses, Drain, JoinScope, Fork, Escape, ProcessExits, RemoveCgroup,
     Write, DrainChunk, DrainEnd, runVars, mainVars
<1>2. [RunNext]_runVars
  BY DEF RunNext
<1>3. CASE pc = "start"
  <2>1. UNCHANGED <<procs, scope>>
    BY <1>2, <1>3, NothingRuns
       DEF StartScope, Client, RuntimePasses, Drain, JoinScope, Fork, Escape, ProcessExits,
           RemoveCgroup, Write, DrainChunk, DrainEnd, runVars, mainVars, Return, Goto, clientVars
  <2> QED
    BY <1>1, <1>3, <2>1 DEF ProofInv, Populated
<1>4. CASE pc # "start"
  <2>1. scope # "none" => scope' # "none"
    BY DEF Client, RuntimePasses, Drain, JoinScope, Fork, Escape, ProcessExits, Exit,
           RemoveCgroup, Write, DrainChunk, DrainEnd, runVars, clientVars
  <2>2. scope # "none" /\ ~Populated => ~Populated'
    BY <1>2, <1>4, EmptyStays
  <2>3. pc # "threads" /\ Finished => Finished'
    BY <1>2, <1>4, FinishedStays
  <2> QED
    BY <1>1, <1>4, <2>1, <2>2, <2>3 DEF ProofInv
<1> QED
  BY <1>3, <1>4

LEMMA MainKeepsProof ==
  ASSUME RunTyped, ProofInv, Main
  PROVE  ProofInv'
<1>1. "launcher" \in Procs /\ [RunNext]_runVars
  BY DEF Procs, RunNext
<1>2. pc # "start" /\ scope # "none" /\ ~Populated => scope' # "none" /\ ~Populated'
  BY <1>1, EmptyStays
<1>3. pc \notin {"start", "threads"} /\ Finished => Finished'
  BY <1>1, FinishedStays
<1>4. pc # "end"
  BY DEF Main, StartScope, FindCgroup, PollLauncher, StartThreads, TakeEvent, Look,
     CleanupNow, SignalTerm, WaitTerm, SignalKill, WaitKill, Wait, Reap, Conclude
<1>5. ~result.proved
  BY <1>4 DEF ProofInv
<1>6. CASE StartScope
  <2>1. CASE Return("boundary-failure", FALSE)
    <3>1. pc' = "end" /\ ~result'.proved /\ UNCHANGED <<found, proved, scope>>
      BY <2>1, ReturnGives DEF Return, Goto, clientVars
    <3> QED
      BY <1>6, <3>1 DEF ProofInv, StartScope
  <2>2. CASE ~Return("boundary-failure", FALSE)
    <3>1. pc' = "find" /\ UNCHANGED <<found, proved, scope, result>>
      BY <1>6, <2>2 DEF StartScope
    <3> QED
      BY <1>5, <1>6, <3>1 DEF ProofInv, StartScope
  <2> QED
    BY <2>1, <2>2
<1>7. CASE FindCgroup \/ PollLauncher
  BY <1>5, <1>7 DEF FindCgroup, PollLauncher, ProofInv, Goto, Fail, clientVars
<1>8. CASE StartThreads \/ TakeEvent
  BY <1>5, <1>8 DEF StartThreads, TakeEvent, ProofInv, Goto, clientVars
<1>9. CASE Look
  <2>1. ASSUME NEW outcome, StopWith(outcome) PROVE ProofInv'
    BY <1>5, <1>9, <2>1 DEF Look, StopWith, ProofInv, Goto, clientVars
  <2>2. CASE Return("completed", TRUE) /\ Finished /\ "empty" \in CgroupEmpty
    <3>1. ~Populated /\ found /\ scope # "none"
      BY <1>9, <2>2 DEF CgroupEmpty, Look, ProofInv
    <3>2. pc' = "end" /\ UNCHANGED <<found, proved>>
      BY <2>2 DEF Return, Goto
    <3> QED
      BY <1>2, <1>3, <1>9, <2>2, <3>1, <3>2 DEF ProofInv, Look
  <2>3. CASE Goto("watch") /\ UNCHANGED <<found, pending, boundaryFailed, proved, result>>
    BY <1>5, <1>9, <2>3 DEF Look, ProofInv, Goto, clientVars
  <2> QED
    BY <1>9, <2>1, <2>2, <2>3 DEF Look, Judge
<1>10. CASE CleanupNow \/ Reap
  <2>1. CASE /\ Finished /\ found /\ ~Populated /\ pc' = "final"
             /\ UNCHANGED <<found, result>>
    BY <1>2, <1>3, <1>5, <1>10, <2>1 DEF ProofInv, CleanupNow, Reap
  <2>2. ASSUME NEW label \in {"term", "final"}, Fail(label) PROVE ProofInv'
    BY <1>5, <1>10, <2>2 DEF ProofInv, CleanupNow, Reap, Fail, Goto, clientVars
  <2>3. CASE Goto("term") /\ UNCHANGED <<found, pending, boundaryFailed, proved, result>>
    BY <1>5, <1>10, <2>3 DEF ProofInv, CleanupNow, Reap, Goto, clientVars
  <2>4. CASE /\ pc = "reap" /\ pc' = "reap" /\ UNCHANGED scope
             /\ UNCHANGED <<found, pending, boundaryFailed, proved, result>>
    BY <1>2, <1>5, <2>4 DEF ProofInv
  <2>5. pc = "reap" /\ found => ~Populated
    BY DEF ProofInv
  <2>6. "empty" \in CgroupEmpty => ~Populated
    BY DEF CgroupEmpty
  <2>7. CASE CleanupNow
    BY <2>1, <2>2, <2>3, <2>6, <2>7 DEF CleanupNow, Goto
  <2>8. CASE Reap
    BY <2>1, <2>2, <2>4, <2>5, <2>8 DEF Reap, Goto, Exit
  <2> QED
    BY <1>10, <2>7, <2>8
<1>11. CASE SignalTerm \/ SignalKill
  BY <1>5, <1>11 DEF SignalTerm, SignalKill, ProofInv, Goto, Fail, clientVars
<1>12. CASE WaitTerm \/ WaitKill
  <2>1. pc' = "reap" => ~Populated
    BY <1>12 DEF WaitTerm, WaitKill, Wait, CgroupEmpty, Goto, Fail
  <2>2. UNCHANGED <<procs, scope, found, proved, result>> /\ pc \in {"wait-term", "wait-kill"}
        /\ pc' \in {"wait-term", "wait-kill", "reap", "kill", "final"}
    BY <1>12 DEF WaitTerm, WaitKill, Wait, Goto, Fail, clientVars
  <2> QED
    BY <1>5, <2>1, <2>2 DEF ProofInv, Populated
<1>13. CASE Conclude
  <2>1. pc' = "end" /\ UNCHANGED <<found, proved, scope>> /\ (result'.proved => proved)
    <3>1. PICK outcome : Return(outcome, proved)
      BY <1>13 DEF Conclude
    <3>2. PICK o, c : c \in {proved, FALSE} /\ result' = [outcome |-> o, proved |-> c]
      BY <3>1 DEF Return
    <3>3. result'.proved = c
      BY <3>2
    <3>4. c = proved => (result'.proved => proved)
      BY <3>3, Zenon
    <3>5. c = FALSE => ~result'.proved
      BY <3>3, Zenon
    <3>6. result'.proved => proved
      BY <3>2, <3>4, <3>5
    <3> QED
      BY <3>1, <3>6 DEF Return, Goto, clientVars
  <2> QED
    BY <1>2, <1>3, <1>13, <2>1 DEF ProofInv, Conclude
<1> QED
  BY <1>6, <1>7, <1>8, <1>9, <1>10, <1>11, <1>12, <1>13 DEF Main

-----------------------------------------------------------------------------
(* What is read of the streams.                                            *)

\* As long as nothing is written or read of them.
LEMMA StreamsUntouched ==
  ASSUME RunTyped, StreamInv, UNCHANGED <<sent, unread, stored, exceeded, failed, writing>>,
         Alive("launcher")' => "launcher" \in pipes',
         pipes = {} => pipes' = {} \/ pc = "start",
         \A s \in Streams : drain'[s] = drain[s] \/ (pc # "start" /\ drain'[s] = "on"),
         pc' # "start" \/ (pc = "start" /\ drain' = drain),
         pc' \in {"watch", "look"} =>
           pc \in {"watch", "look"} \/ \A s \in Streams : drain'[s] # "off"
  PROVE  StreamInv'
BY DEF StreamInv, RunTyped

LEMMA ClientKeepsStreams ==
  ASSUME RunTyped, StreamInv, Client \/ RuntimePasses \/ UNCHANGED runVars
  PROVE  StreamInv'
<1> USE DEF RunTyped
<1>1. UNCHANGED <<pc, drain, stored, exceeded, failed, writing>>
  BY DEF Client, RuntimePasses, JoinScope, Fork, Escape, ProcessExits, RemoveCgroup,
     Write, runVars, mainVars, drainVars
<1>2. "launcher" \in Procs /\ "helper" \in Procs
  BY DEF Procs
<1>3. ASSUME NEW p \in Procs, NEW s \in Streams, Write(p, s) PROVE StreamInv'
  <2>1. /\ p \in pipes /\ UNCHANGED <<procs, pipes>>
        /\ sent' = [sent EXCEPT ![s] = @ + 1] /\ unread' = [unread EXCEPT ![s] = @ + 1]
    BY <1>3 DEF Write
  <2>2. Alive("launcher")' => "launcher" \in pipes'
    BY <2>1 DEF StreamInv, Alive
  <2>3. ASSUME NEW t \in Streams
        PROVE  /\ sent'[t] >= unread'[t] + stored[t] + (IF exceeded[t] THEN 1 ELSE 0)
               /\ ~failed[t] /\ ~exceeded[t] => sent'[t] = unread'[t] + stored[t]
    BY <2>1 DEF StreamInv
  <2> QED
    BY <1>1, <2>1, <2>2, <2>3 DEF StreamInv
<1>4. CASE JoinScope \/ Fork \/ Escape \/ ProcessExits \/ RemoveCgroup
           \/ RuntimePasses \/ UNCHANGED runVars
  <2>1. UNCHANGED <<sent, unread>>
    BY <1>4 DEF RuntimePasses, JoinScope, Fork, Escape, ProcessExits, Exit, RemoveCgroup,
       runVars, clientVars
  <2>2. Alive("launcher")' => "launcher" \in pipes'
    BY <1>2, <1>4 DEF StreamInv, Alive, RuntimePasses, JoinScope, Fork, Escape, ProcessExits,
       Exit, RemoveCgroup, runVars, clientVars
  <2>3. pipes = {} => pipes' = {}
    BY <1>2, <1>4 DEF StreamInv, Alive, RuntimePasses, JoinScope, Fork, Escape, ProcessExits,
       Exit, RemoveCgroup, runVars, clientVars
  <2> QED
    BY <1>1, <2>1, <2>2, <2>3 DEF StreamInv
<1> QED
  BY <1>3, <1>4 DEF Client

\* A chunk is read: it is kept, lost to a write that fails, or too much.
LEMMA ChunkKeepsStreams ==
  ASSUME RunTyped, StreamInv, NEW s \in Streams, DrainChunk(s)
  PROVE  StreamInv'
<1> USE DEF RunTyped
<1>1. /\ UNCHANGED <<procs, pipes, sent, drain, pc>> /\ unread[s] > 0 /\ drain[s] = "on"
      /\ unread' = [unread EXCEPT ![s] = @ - 1] /\ KeepChunk(s)
  BY DEF DrainChunk, clientVars, mainVars
<1>2. Alive("launcher")' => "launcher" \in pipes'
  BY <1>1 DEF StreamInv, Alive
<1>3. \A t \in Streams \ {s} :
        UNCHANGED <<unread[t], stored[t], exceeded[t], failed[t], writing[t], drain[t], sent[t]>>
  BY <1>1 DEF KeepChunk
<1>4. unread'[s] = unread[s] - 1
  BY <1>1
<1>5. \/ /\ stored'[s] = stored[s] + 1 /\ stored[s] < StreamLimit
         /\ UNCHANGED <<exceeded, failed, writing>>
      \/ failed'[s] /\ UNCHANGED <<stored, exceeded>>
      \/ ~writing[s] /\ UNCHANGED <<stored, exceeded, failed, writing>>
      \/ stored[s] = StreamLimit /\ exceeded'[s] /\ UNCHANGED <<stored, failed, writing>>
  BY <1>1 DEF KeepChunk
<1>6. /\ ~writing'[s] => failed'[s]
      /\ exceeded'[s] => stored'[s] = StreamLimit
      /\ sent[s] >= unread'[s] + stored'[s] + (IF exceeded'[s] THEN 1 ELSE 0)
      /\ ~failed'[s] /\ ~exceeded'[s] => sent[s] = unread'[s] + stored'[s]
  <2>1. /\ sent[s] \in Nat /\ unread[s] \in Nat /\ stored[s] \in Nat /\ StreamLimit \in Nat
        /\ ~writing[s] => failed[s]
        /\ exceeded[s] => stored[s] = StreamLimit
        /\ sent[s] >= unread[s] + stored[s] + (IF exceeded[s] THEN 1 ELSE 0)
        /\ ~failed[s] /\ ~exceeded[s] => sent[s] = unread[s] + stored[s]
    BY BoundedRunAssumption DEF StreamInv
  <2>2. CASE /\ stored'[s] = stored[s] + 1 /\ stored[s] < StreamLimit
             /\ UNCHANGED <<exceeded, failed, writing>>
    <3>1. ~exceeded[s]
      BY <2>1, <2>2
    <3>2. ~exceeded'[s] /\ (failed'[s] <=> failed[s]) /\ (~writing'[s] => failed'[s])
      BY <2>1, <2>2, <3>1
    <3>3. sent[s] >= unread'[s] + stored'[s]
      BY <1>1, <1>4, <2>1, <2>2
    <3>4. ~failed[s] => sent[s] = unread'[s] + stored'[s]
      BY <1>4, <2>1, <2>2, <3>1
    <3>5. unread'[s] \in Int /\ stored'[s] \in Int
      BY <1>4, <2>1, <2>2
    <3> QED
      BY <3>2, <3>3, <3>4, <3>5
  <2>3. CASE failed'[s] /\ UNCHANGED <<stored, exceeded>>
    BY <1>4, <2>1, <2>3
  <2>4. CASE ~writing[s] /\ UNCHANGED <<stored, exceeded, failed, writing>>
    BY <1>4, <2>1, <2>4
  <2>5. CASE stored[s] = StreamLimit /\ exceeded'[s] /\ UNCHANGED <<stored, failed, writing>>
    <3>1. sent[s] >= unread[s] + stored[s]
      BY <2>1
    <3>2. sent[s] >= unread'[s] + stored'[s] + 1
      BY <1>1, <1>4, <2>1, <2>5, <3>1
    <3> QED
      BY <2>1, <2>5, <3>2
  <2> QED
    BY <1>5, <2>2, <2>3, <2>4, <2>5
<1> QED
  BY <1>1, <1>2, <1>3, <1>6 DEF StreamInv

LEMMA EndKeepsStreams ==
  ASSUME RunTyped, StreamInv, NEW s \in Streams, DrainEnd(s)
  PROVE  StreamInv'
<1> USE DEF RunTyped
<1>1. /\ UNCHANGED <<procs, pipes, sent, unread, stored, exceeded, writing, pc>>
      /\ drain[s] = "on" /\ drain' = [drain EXCEPT ![s] = "end"]
      /\ \/ unread[s] = 0 /\ pipes = {} /\ failed' = failed
         \/ failed' = [failed EXCEPT ![s] = TRUE]
  BY DEF DrainEnd, clientVars, mainVars
<1>2. Alive("launcher")' => "launcher" \in pipes'
  BY <1>1 DEF StreamInv, Alive
<1> QED
  BY <1>1, <1>2 DEF StreamInv

LEMMA MainKeepsStreams ==
  ASSUME RunTyped, ProofInv, StreamInv, Main
  PROVE  StreamInv'
<1> USE DEF RunTyped
<1>1. UNCHANGED <<sent, unread, stored, exceeded, failed, writing>>
  BY DEF Main, StartScope, FindCgroup, PollLauncher, StartThreads, TakeEvent, Look, Judge,
     CleanupNow, SignalTerm, WaitTerm, SignalKill, WaitKill, Wait, Reap, Conclude, StopWith,
     Return, Goto, Fail, Exit, clientVars, drainVars
<1>2. "launcher" \in Procs
  BY DEF Procs
<1>3. pc' # "start"
  BY DEF Main, StartScope, FindCgroup, PollLauncher, StartThreads, TakeEvent, Look, Judge,
     CleanupNow, SignalTerm, WaitTerm, SignalKill, WaitKill, Wait, Reap, Conclude, StopWith,
     Return, Goto, Fail
<1>4. Alive("launcher")' => "launcher" \in pipes'
  <2>1. CASE UNCHANGED <<procs, pipes>>
    BY <2>1 DEF StreamInv, Alive
  <2>2. CASE StartScope \/ Reap
    BY <1>2, <2>2 DEF StreamInv, Alive, StartScope, Reap, Exit, Return, Goto, Fail, clientVars
  <2> QED
    BY <2>1, <2>2 DEF Main, FindCgroup, PollLauncher, StartThreads, TakeEvent, Look,
       Judge, CleanupNow, SignalTerm, WaitTerm, SignalKill, WaitKill, Wait, Conclude, StopWith,
       Return, Goto, Fail, clientVars
<1>5. pipes = {} => pipes' = {} \/ pc = "start"
  BY DEF Main, StartScope, FindCgroup, PollLauncher, StartThreads, TakeEvent, Look, Judge,
     CleanupNow, SignalTerm, WaitTerm, SignalKill, WaitKill, Wait, Reap, Conclude, StopWith,
     Return, Goto, Fail, Exit, clientVars
<1>6. CASE StartThreads
  <2>1. \A s \in Streams : drain'[s] = drain[s] \/ (pc # "start" /\ drain'[s] = "on")
    BY <1>6 DEF StartThreads
  <2>2. pc' \in {"watch", "look"} => \A s \in Streams : drain'[s] # "off"
    BY <1>6 DEF StartThreads
  <2> QED
    BY <1>1, <1>3, <1>4, <1>5, <2>1, <2>2, StreamsUntouched
<1>7. CASE ~StartThreads
  <2>1. drain' = drain
    BY <1>7 DEF Main, StartScope, FindCgroup, PollLauncher, TakeEvent, Look, Judge,
       CleanupNow, SignalTerm, WaitTerm, SignalKill, WaitKill, Wait, Reap, Conclude, StopWith,
       Return, Goto, Fail, drainVars
  <2>2. pc' \in {"watch", "look"} => pc \in {"watch", "look"}
    BY <1>7 DEF Main, StartScope, FindCgroup, PollLauncher, TakeEvent, Look, Judge,
       CleanupNow, SignalTerm, WaitTerm, SignalKill, WaitKill, Wait, Reap, Conclude, StopWith,
       Return, Goto, Fail
  <2> QED
    BY <1>1, <1>3, <1>4, <1>5, <2>1, <2>2, StreamsUntouched
<1> QED
  BY <1>6, <1>7

-----------------------------------------------------------------------------
(* What is said of the run.                                                *)

LEMMA OutcomesDiffer ==
  /\ \A s, t \in Streams : LimitOutcome[s] = LimitOutcome[t] => s = t
  /\ \A s \in Streams : LimitOutcome[s] \in Posted
                        /\ LimitOutcome[s] \notin {"boundary-failure", "timeout", "completed",
                                                   NoOutcome}
BY LimitOutcomes DEF Streams, NoOutcome, Posted

LEMMA ClientKeepsCause ==
  ASSUME RunTyped, StreamInv, CauseInv, Client \/ RuntimePasses \/ UNCHANGED runVars
  PROVE  CauseInv'
<1>1. /\ UNCHANGED <<pc, events, pending, result, exceeded, failed, stored>>
      /\ overtime => overtime'
  BY DEF Client, RuntimePasses, JoinScope, Fork, Escape, ProcessExits, RemoveCgroup,
     Write, runVars, mainVars, drainVars
<1>2. pipes = {} => pipes' = {} /\ UNCHANGED <<sent, unread>>
  <2>1. "launcher" \in Procs
    BY DEF Procs
  <2> QED
    BY <2>1 DEF StreamInv, Alive, Client, RuntimePasses, JoinScope, Fork, Escape, ProcessExits,
       Exit, RemoveCgroup, Write, runVars, clientVars
<1> QED
  BY <1>1, <1>2 DEF CauseInv

\* A thread names a cause, and the cause is there.
LEMMA DrainKeepsCause ==
  ASSUME RunTyped, StreamInv, CauseInv, NEW s \in Streams, DrainChunk(s) \/ DrainEnd(s)
  PROVE  CauseInv'
<1>1. pc # "end" /\ UNCHANGED <<pc, pending, result, overtime>>
  BY DEF DrainChunk, DrainEnd, mainVars
<1>2. result.outcome = NoOutcome
  BY <1>1 DEF CauseInv
<1>3. \A t \in Streams : exceeded[t] => exceeded'[t]
  BY DEF RunTyped, DrainChunk, DrainEnd, KeepChunk
<1>4. \/ events' = events
      \/ events' = Append(events, "boundary-failure")
      \/ events' = Append(events, LimitOutcome[s]) /\ exceeded'[s]
  BY DEF RunTyped, DrainChunk, DrainEnd, KeepChunk, Post
<1>5. "boundary-failure" \in Posted /\ LimitOutcome[s] \in Posted
  BY OutcomesDiffer DEF Posted
<1>6. \A e \in Posted : ToSet(Append(events, e)) = ToSet(events) \cup {e}
  BY PostAdds DEF RunTyped
<1>7. \/ ToSet(events') = ToSet(events) \cup {"boundary-failure"}
      \/ ToSet(events') = ToSet(events)
      \/ ToSet(events') = ToSet(events) \cup {LimitOutcome[s]} /\ exceeded'[s]
  BY <1>4, <1>5, <1>6
<1>8. \A t \in Streams : LimitOutcome[t] \in ToSet(events') => exceeded'[t]
  BY <1>3, <1>7, OutcomesDiffer DEF CauseInv
<1>9. \A t \in Streams : LimitOutcome[t] \in {pending, result.outcome} => exceeded'[t]
  BY <1>3 DEF CauseInv
<1>10. ToSet(events') \subseteq Posted
  BY <1>5, <1>7 DEF CauseInv
<1>11. ToSet(events)' = ToSet(events')
  BY DEF ToSet
<1> QED
  BY <1>1, <1>2, <1>8, <1>9, <1>10, <1>11 DEF CauseInv, NoOutcome

\* The main thread goes on, having taken up a cause that is there.
LEMMA CauseTaken ==
  ASSUME CauseInv, pc # "end", UNCHANGED <<exceeded, result, overtime>>,
         events' = events \/ events' = <<>>,
         \/ pending' \in {pending, "boundary-failure"} \cup ToSet(events)
         \/ pending' = "timeout" /\ overtime
         \/ \E s \in Streams : pending' = LimitOutcome[s] /\ exceeded[s],
         pc' # "end"
  PROVE  CauseInv'
<1>1. result.outcome = NoOutcome
  BY DEF CauseInv
<1>2. ToSet(events)' \subseteq ToSet(events)
  <2>1. ToSet(<<>>) = {}
    BY DEF ToSet
  <2>2. CASE events' = events
    BY <2>2 DEF ToSet
  <2>3. CASE events' = <<>>
    <3>1. ToSet(events)' = ToSet(<<>>)
      BY <2>3 DEF ToSet
    <3> QED
      BY <2>1, <3>1
  <2> QED
    BY <2>2, <2>3
<1>3. pending' \in Posted \cup {"timeout", NoOutcome}
  BY OutcomesDiffer DEF CauseInv, Posted
<1>4. \A s \in Streams : LimitOutcome[s] = pending' => exceeded[s]
  BY OutcomesDiffer DEF CauseInv
<1>5. pending' = "timeout" => overtime
  BY LimitOutcomes, OutcomesDiffer DEF CauseInv, Posted
<1> QED
  BY <1>1, <1>2, <1>3, <1>4, <1>5, OutcomesDiffer DEF CauseInv, NoOutcome

LEMMA MainKeepsCause ==
  ASSUME RunTyped, ProofInv, StreamInv, CauseInv, Main
  PROVE  CauseInv'
<1>1. pc # "end"
  BY DEF Main, StartScope, FindCgroup, PollLauncher, StartThreads, TakeEvent, Look,
     CleanupNow, SignalTerm, WaitTerm, SignalKill, WaitKill, Wait, Reap, Conclude
<1>2. result.outcome = NoOutcome
  BY <1>1 DEF CauseInv
<1>3. UNCHANGED <<sent, unread, stored, exceeded, failed, overtime>>
  BY DEF Main, StartScope, FindCgroup, PollLauncher, StartThreads, TakeEvent, Look, Judge,
     CleanupNow, SignalTerm, WaitTerm, SignalKill, WaitKill, Wait, Reap, Conclude, StopWith,
     Return, Goto, Fail, Exit, clientVars, drainVars
<1>4. CASE StartScope
  <2>1. CASE Return("boundary-failure", FALSE)
    <3>1. pc' = "end" /\ result'.outcome = "boundary-failure"
      BY <2>1, ReturnGives
    <3>2. UNCHANGED <<events, pending, pipes>>
      BY <2>1 DEF Return, Goto, drainVars, clientVars
    <3> QED
      BY <1>3, <3>1, <3>2, OutcomesDiffer DEF CauseInv, NoOutcome, ToSet
  <2>2. CASE ~Return("boundary-failure", FALSE)
    <3>1. pc' = "find" /\ UNCHANGED <<events, pending, result>>
      BY <1>4, <2>2 DEF StartScope, drainVars
    <3> QED
      BY <1>1, <1>3, <3>1, CauseTaken
  <2> QED
    BY <2>1, <2>2
<1>5. CASE FindCgroup \/ PollLauncher \/ StartThreads
  <2>1. UNCHANGED <<events, result>> /\ pc' # "end"
    BY <1>5 DEF FindCgroup, PollLauncher, StartThreads, Goto, Fail, drainVars
  <2>2. pending' = pending \/ (pending' = "timeout" /\ overtime)
    BY <1>5 DEF FindCgroup, PollLauncher, StartThreads, Goto, Fail
  <2> QED
    BY <1>1, <1>3, <2>1, <2>2, CauseTaken
<1>6. CASE TakeEvent
  <2>1. result' = result /\ pc' # "end"
    BY <1>6 DEF TakeEvent, Goto
  <2>2. /\ events' = events \/ events' = <<>>
        /\ pending' = pending \/ (pending' = NextEvent /\ events # <<>>)
    BY <1>6 DEF TakeEvent, Goto, drainVars
  <2>3. pending' \in {pending} \cup ToSet(events)
    BY <2>2, TakenIsPosted DEF RunTyped
  <2> QED
    BY <1>1, <1>3, <2>1, <2>2, <2>3, CauseTaken
<1>7. CASE Look
  <2>1. ASSUME NEW outcome, StopWith(outcome),
               \/ outcome = "boundary-failure"
               \/ outcome = "timeout" /\ overtime
               \/ \E s \in Streams : outcome = LimitOutcome[s] /\ exceeded[s]
        PROVE  CauseInv'
    <3>1. UNCHANGED <<events, result>> /\ pc' # "end" /\ pending' = outcome
      BY <2>1 DEF StopWith, Goto, drainVars
    <3> QED
      BY <1>1, <1>3, <2>1, <3>1, CauseTaken
  <2>2. CASE Goto("watch") /\ UNCHANGED <<found, pending, boundaryFailed, proved, result>>
    <3>1. UNCHANGED <<events, result, pending>> /\ pc' # "end"
      BY <2>2 DEF Goto, drainVars
    <3> QED
      BY <1>1, <1>3, <3>1, CauseTaken
  <2>3. CASE /\ Return("completed", TRUE) /\ Finished /\ \A s \in Streams : ~failed[s]
             /\ ~exceeded["transcript"] /\ ~exceeded["stderr"]
    <3>1. /\ pc' = "end" /\ result'.outcome \in {"completed", "boundary-failure"}
          /\ result'.outcome # "boundary-failure" => result'.proved = TRUE
      BY <2>3, ReturnGives
    <3>2. UNCHANGED <<events, pending, pipes>>
      BY <2>3 DEF Return, Goto, drainVars, clientVars
    <3>3. ASSUME NEW s \in Streams
          PROVE  stored[s] = sent[s] /\ unread[s] = 0 /\ pipes = {}
      <4>1. drain[s] = "end"
        BY <1>7, <2>3 DEF Look, Finished, StreamInv, RunTyped
      <4>2. ~failed[s] /\ ~exceeded[s]
        BY <2>3 DEF Streams
      <4>3. sent[s] = unread[s] + stored[s] /\ unread[s] = 0 /\ pipes = {}
        BY <4>1, <4>2 DEF StreamInv
      <4> QED
        BY <4>3 DEF RunTyped
    <3>4. pipes = {}
      BY <3>3 DEF Streams
    <3> QED
      BY <1>3, <2>3, <3>1, <3>2, <3>3, <3>4, OutcomesDiffer DEF CauseInv, ToSet, NoOutcome
  <2>4. "transcript" \in Streams /\ "stderr" \in Streams
    BY DEF Streams
  <2>5. CASE overtime /\ StopWith("timeout")
    BY <2>1, <2>5
  <2>6. CASE StopWith("boundary-failure")
    BY <2>1, <2>6
  <2>7. CASE Finished /\ Judge
    BY <2>1, <2>2, <2>3, <2>4, <2>6, <2>7, LimitOutcomes DEF Judge
  <2> QED
    BY <1>7, <2>2, <2>5, <2>6, <2>7 DEF Look
<1>8. CASE CleanupNow \/ SignalTerm \/ WaitTerm \/ SignalKill \/ WaitKill \/ Reap
  <2>1. UNCHANGED <<events, result, pending>> /\ pc' # "end"
    BY <1>8 DEF CleanupNow, SignalTerm, WaitTerm, SignalKill, WaitKill, Wait, Reap, Goto, Fail,
       drainVars
  <2> QED
    BY <1>1, <1>3, <2>1, CauseTaken
<1>9. CASE Conclude
  <2>1. CASE Return("boundary-failure", proved)
    <3>1. /\ pc' = "end" /\ UNCHANGED <<events, pending, pipes>>
          /\ result'.outcome = "boundary-failure"
      BY <2>1 DEF Return, Goto, drainVars, clientVars
    <3> QED
      BY <1>3, <3>1, OutcomesDiffer DEF CauseInv, NoOutcome, ToSet
  <2>2. CASE /\ Return(pending, proved) /\ proved /\ \A s \in Streams : ~failed[s]
    <3>1. /\ pc' = "end" /\ UNCHANGED <<events, pending, pipes>>
          /\ result'.outcome \in {pending, "boundary-failure"}
      BY <2>2 DEF Return, Goto, drainVars, clientVars
    <3>2. PICK o, c : /\ result' = [outcome |-> o, proved |-> c]
                      /\ c = proved \/ o = "boundary-failure"
      BY <2>2 DEF Return
    <3>3. result'.outcome # "boundary-failure" => result'.proved
      <4>1. result'.outcome = o /\ result'.proved = c
        BY <3>2
      <4>2. c = proved => result'.proved
        BY <2>2, <4>1, Zenon
      <4> QED
        BY <3>2, <4>1, <4>2
    <3>4. result'.outcome # "completed"
      BY <3>1, LimitOutcomes DEF CauseInv, Posted, NoOutcome
    <3> QED
      BY <1>3, <2>2, <3>1, <3>3, <3>4, OutcomesDiffer DEF CauseInv, NoOutcome, ToSet
  <2> QED
    BY <1>9, <2>1, <2>2 DEF Conclude
<1> QED
  BY <1>4, <1>5, <1>6, <1>7, <1>8, <1>9 DEF Main

-----------------------------------------------------------------------------
RunInv == RunTyped /\ ProofInv /\ StreamInv /\ CauseInv

LEMMA RunIsKept ==
  ASSUME RunInv, [RunNext]_runVars
  PROVE  RunInv'
<1> USE DEF RunInv
<1>1. RunTyped'
  BY RunStaysTyped
<1>2. CASE Client \/ RuntimePasses \/ UNCHANGED runVars
  BY <1>1, <1>2, OthersKeepProof, ClientKeepsStreams, ClientKeepsCause
<1>3. ASSUME NEW s \in Streams, DrainChunk(s) \/ DrainEnd(s) PROVE RunInv'
  <2>1. ProofInv'
    BY <1>3, OthersKeepProof DEF Drain
  <2> QED
    BY <1>1, <1>3, <2>1, ChunkKeepsStreams, EndKeepsStreams, DrainKeepsCause
<1>4. CASE Main
  BY <1>1, <1>4, MainKeepsProof, MainKeepsStreams, MainKeepsCause
<1> QED
  BY <1>2, <1>3, <1>4 DEF RunNext, Drain

LEMMA RunAlways == RunSpec => []RunInv
<1>1. RunInit => RunInv
  BY RunInitial DEF RunInv
<1>2. RunInv /\ [RunNext]_runVars => RunInv'
  BY RunIsKept
<1> QED
  BY <1>1, <1>2, PTL DEF RunSpec

\* Whatever the client writes, forks and closes, and whichever thread is late: a run
\* that is reported complete has kept all of both streams.  (run_bounded_agent,
\* drain_stream)
THEOREM CompletedRunsAreWhole == RunSpec => []CompletedIsWhole
<1>1. RunInv => CompletedIsWhole
  BY DEF RunInv, CauseInv, CompletedIsWhole, Ended
<1> QED
  BY <1>1, RunAlways, PTL

\* A proof of cleanup stays true: nothing comes back to a scope that was seen empty,
\* and nothing more is read.  (_cleanup_now, _wait_for_cleanup, _reap_local_launcher)
THEOREM ProofsHold == RunSpec => []ProofHolds
<1>1. RunInv => ProofHolds
  BY DEF RunInv, ProofInv, ProofHolds
<1> QED
  BY <1>1, RunAlways, PTL

\* What is reported is the cause, and it comes with the proof.  (run_bounded_agent,
\* _stop_and_prove)
THEOREM OutcomesAreTrue == RunSpec => []OutcomeIsTrue
<1>1. RunInv => OutcomeIsTrue
  <2> SUFFICES ASSUME RunInv, pc = "end" PROVE OutcomeIsTrue
    BY DEF OutcomeIsTrue
  <2>1. ASSUME NEW s \in Streams, result.outcome = LimitOutcome[s]
        PROVE  sent[s] > StreamLimit /\ stored[s] = StreamLimit
    <3>1. exceeded[s]
      BY <2>1 DEF RunInv, CauseInv
    <3>2. stored[s] = StreamLimit /\ sent[s] >= unread[s] + stored[s] + 1
      BY <3>1 DEF RunInv, StreamInv
    <3> QED
      BY <3>2, BoundedRunAssumption DEF RunInv, RunTyped
  <2>2. result.outcome # "boundary-failure" => result.proved /\ \A s \in Streams : ~failed[s]
    BY DEF RunInv, CauseInv
  <2>3. result.outcome = "timeout" => overtime
    BY DEF RunInv, CauseInv
  <2> QED
    BY <2>1, <2>2, <2>3 DEF OutcomeIsTrue, Ended
<1> QED
  BY <1>1, RunAlways, PTL
=============================================================================
