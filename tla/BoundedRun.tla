------------------------------ MODULE BoundedRun ------------------------------
(***************************************************************************)
(* pylib/agent_runner.py: run_bounded_agent starts one agent client in a   *)
(* systemd scope, drains its two output streams with a thread each, stops  *)
(* the scope when something is over, and reports what it could prove.      *)
(* Signals are requests: a process may ignore SIGTERM, and only a process  *)
(* in the scope is sent any.  Everything that polls may see an error.      *)
(***************************************************************************)
EXTENDS Naturals, Sequences, SequencesExt

CONSTANTS
  StreamLimit,  \* stream_limit_bytes, in chunks
  PipeSize,     \* chunks a pipe holds
  MaxOutput     \* bound: chunks the clients write to each stream

ASSUME BoundedRunAssumption == {StreamLimit, PipeSize, MaxOutput} \subseteq Nat

Streams == {"transcript", "stderr"}
Procs   == {"launcher", "helper"}   \* the command, and a process it forks
NoOutcome == "none"
NoResult  == [outcome |-> NoOutcome, proved |-> FALSE]

LimitOutcome == [s \in Streams |-> IF s = "transcript" THEN "transcript-limit"
                                                       ELSE "stderr-limit"]

VARIABLES
  \* the processes
  procs,    \* where each one is: "none", "outside" (of the scope), "scope", "dead"
  pipes,    \* the ones that hold the write ends of the streams
  doomed,   \* the ones that were sent SIGKILL
  scope,    \* the scope's cgroup: "none", "live", "gone"
  sent,     \* chunks written to each stream
  unread,   \* of these, the ones still in the pipe
  \* the drain threads
  drain,    \* "off", "on", "end"
  stored,   \* stored_bytes
  exceeded, failed,
  writing,  \* write_enabled
  events,   \* the queue
  \* the main thread
  pc,
  overtime,         \* the runtime deadline has passed
  found,            \* cgroup_path is not None
  pending,          \* pending_outcome
  boundaryFailed,
  proved,           \* cleanup_proved
  result            \* what is returned

clientVars == <<procs, pipes, doomed, scope, sent>>
drainVars  == <<drain, stored, exceeded, failed, writing, events>>
mainVars   == <<pc, found, pending, boundaryFailed, proved, result>>
runVars    == <<clientVars, unread, drainVars, mainVars, overtime>>

Alive(p)  == procs[p] \in {"outside", "scope"}
Populated == \E p \in Procs : procs[p] = "scope"

-----------------------------------------------------------------------------
(* The client and the system (external).                                   *)

JoinScope == /\ procs["launcher"] = "outside" /\ scope = "none"
             /\ procs' = [procs EXCEPT !["launcher"] = "scope"]
             /\ scope' = "live"
             /\ UNCHANGED <<pipes, doomed, sent, unread, drainVars, mainVars,
                            overtime>>

Write(p, s) == /\ Alive(p) /\ p \in pipes
               /\ sent[s] < MaxOutput /\ unread[s] < PipeSize
               /\ sent' = [sent EXCEPT ![s] = @ + 1]
               /\ unread' = [unread EXCEPT ![s] = @ + 1]
               /\ UNCHANGED <<procs, pipes, doomed, scope, drainVars, mainVars,
                              overtime>>

Fork == /\ procs["launcher"] = "scope" /\ procs["helper"] = "none"
        /\ procs' = [procs EXCEPT !["helper"] = "scope"]
        /\ pipes' \in {pipes, pipes \cup {"helper"}}
        /\ UNCHANGED <<doomed, scope, sent, unread, drainVars, mainVars, overtime>>

\* The helper has itself moved to another unit.
Escape == /\ procs["helper"] = "scope" /\ "helper" \notin doomed
          /\ procs' = [procs EXCEPT !["helper"] = "outside"]
          /\ UNCHANGED <<pipes, doomed, scope, sent, unread, drainVars, mainVars,
                         overtime>>

Exit(P) == /\ procs' = [p \in Procs |-> IF p \in P THEN "dead" ELSE procs[p]]
           /\ pipes' = pipes \ P
           /\ UNCHANGED <<doomed, scope, sent>>

\* A process ends by itself, of SIGTERM, or of SIGKILL.
ProcessExits == /\ \E p \in Procs : Alive(p) /\ Exit({p})
                /\ UNCHANGED <<unread, drainVars, mainVars, overtime>>

RemoveCgroup == /\ scope = "live" /\ ~Populated
                /\ scope' = "gone"
                /\ UNCHANGED <<procs, pipes, doomed, sent, unread, drainVars,
                               mainVars, overtime>>

RuntimePasses == /\ pc # "start" /\ ~overtime
                 /\ overtime' = TRUE
                 /\ UNCHANGED <<clientVars, unread, drainVars, mainVars>>

-----------------------------------------------------------------------------
(* A drain thread, until its source ends, fails or the run has returned.   *)

Post(outcome) == events' = Append(events, outcome)

KeepChunk(s) ==
  \/ /\ stored[s] < StreamLimit /\ writing[s]
     /\ \/ /\ stored' = [stored EXCEPT ![s] = @ + 1]
           /\ UNCHANGED <<writing, failed, exceeded, events>>
        \/ /\ writing' = [writing EXCEPT ![s] = FALSE]
           /\ failed' = [failed EXCEPT ![s] = TRUE]
           /\ Post("boundary-failure")
           /\ UNCHANGED <<stored, exceeded>>
  \/ /\ stored[s] < StreamLimit /\ ~writing[s]
     /\ UNCHANGED <<stored, writing, failed, exceeded, events>>
  \/ /\ stored[s] = StreamLimit
     /\ exceeded' = [exceeded EXCEPT ![s] = TRUE]
     /\ IF exceeded[s] THEN UNCHANGED events ELSE Post(LimitOutcome[s])
     /\ UNCHANGED <<stored, writing, failed>>

DrainChunk(s) == /\ drain[s] = "on" /\ pc # "end" /\ unread[s] > 0
                 /\ unread' = [unread EXCEPT ![s] = @ - 1]
                 /\ KeepChunk(s)
                 /\ UNCHANGED <<clientVars, drain, mainVars, overtime>>

\* The end of the stream, or a read or a close that fails.
DrainEnd(s) ==
  /\ drain[s] = "on" /\ pc # "end"
  /\ drain' = [drain EXCEPT ![s] = "end"]
  /\ \/ /\ unread[s] = 0 /\ pipes = {}
        /\ UNCHANGED <<failed, events>>
     \/ /\ failed' = [failed EXCEPT ![s] = TRUE]
        /\ Post("boundary-failure")
  /\ UNCHANGED <<clientVars, unread, stored, exceeded, writing, mainVars, overtime>>

-----------------------------------------------------------------------------
(* What the main thread asks for.                                          *)

Finished == procs["launcher"] = "dead" /\ \A s \in Streams : drain[s] # "on"

\* cgroup_empty: the answers it may give.
CgroupEmpty == (IF Populated THEN {"populated"} ELSE {"empty"})
               \cup (IF Populated \/ scope = "gone" THEN {} ELSE {"removal"})
               \cup {"error"}

NextEvent == IF "boundary-failure" \in ToSet(events) THEN "boundary-failure"
                                                      ELSE Head(events)

Goto(label) == pc' = label /\ UNCHANGED <<clientVars, unread, drainVars, overtime>>

Fail(label) == /\ Goto(label)
               /\ boundaryFailed' = TRUE
               /\ UNCHANGED <<found, pending, proved, result>>

Return(outcome, clean) ==
  /\ Goto("end")
  /\ \E o \in {outcome, "boundary-failure"}, c \in {clean, FALSE} :
       /\ c = clean \/ o = "boundary-failure"
       /\ result' = [outcome |-> o, proved |-> c]
  /\ UNCHANGED <<found, pending, boundaryFailed, proved>>

-----------------------------------------------------------------------------
(* The main thread.                                                        *)

\* Checks, private outputs, systemd-run.
StartScope ==
  /\ pc = "start"
  /\ \/ Return("boundary-failure", FALSE)
     \/ /\ pc' = "find"
        /\ procs' = [procs EXCEPT !["launcher"] = "outside"]
        /\ pipes' = {"launcher"}
        /\ UNCHANGED <<doomed, scope, sent, unread, drainVars, overtime, found,
                       pending, boundaryFailed, proved, result>>

FindCgroup ==
  /\ pc = "find"
  /\ \/ /\ overtime
        /\ Goto("threads") /\ pending' = "timeout"
        /\ UNCHANGED <<found, boundaryFailed, proved, result>>
     \/ ~overtime /\ Fail("threads")
     \/ /\ ~overtime /\ scope = "live"
        /\ Goto("threads") /\ found' = TRUE
        /\ UNCHANGED <<pending, boundaryFailed, proved, result>>
     \/ /\ ~overtime
        /\ Goto("poll") /\ UNCHANGED <<found, pending, boundaryFailed, proved, result>>

\* There was no path yet.
PollLauncher ==
  /\ pc = "poll"
  /\ \/ Fail("threads")
     \/ /\ Alive("launcher")
        /\ Goto("find") /\ UNCHANGED <<found, pending, boundaryFailed, proved, result>>

StartThreads ==
  /\ pc = "threads"
  /\ UNCHANGED <<clientVars, unread, overtime, stored, exceeded, failed, writing,
                 events, found, pending, proved, result>>
  /\ \/ /\ drain' = [s \in Streams |-> "on"]
        /\ pc' = IF found THEN "watch" ELSE "stop"
        /\ UNCHANGED boundaryFailed
     \/ /\ \/ UNCHANGED drain
           \/ drain' = [drain EXCEPT !["transcript"] = "on"]
        /\ pc' = "stop"
        /\ boundaryFailed' = TRUE

TakeEvent ==
  /\ pc = "watch"
  /\ IF events = <<>>
     THEN Goto("look") /\ UNCHANGED <<found, pending, boundaryFailed, proved, result>>
     ELSE /\ pc' = "stop"
          /\ events' = <<>>
          /\ pending' = NextEvent
          /\ boundaryFailed' = (NextEvent = "boundary-failure")
          /\ UNCHANGED <<clientVars, unread, drain, stored, exceeded, failed,
                         writing, overtime, found, proved, result>>

StopWith(outcome) == /\ Goto("stop") /\ pending' = outcome
                     /\ boundaryFailed' = (outcome = "boundary-failure")
                     /\ UNCHANGED <<found, proved, result>>

\* Mutant: the streams' state is not looked at again once the threads have ended.
TrustEvents ==
  \/ /\ "empty" \in CgroupEmpty /\ Return("completed", TRUE)
  \/ StopWith("boundary-failure")
  \/ /\ CgroupEmpty \cap {"populated", "removal"} # {}
     /\ Goto("watch")
     /\ UNCHANGED <<found, pending, boundaryFailed, proved, result>>

\* Nothing runs and nothing is left to read: what is it, then?
Judge ==
  IF \E s \in Streams : failed[s] THEN StopWith("boundary-failure")
  ELSE IF exceeded["transcript"] THEN StopWith("transcript-limit")
  ELSE IF exceeded["stderr"] THEN StopWith("stderr-limit")
  ELSE \/ /\ "empty" \in CgroupEmpty /\ Return("completed", TRUE)
       \/ StopWith("boundary-failure")
       \/ /\ CgroupEmpty \cap {"populated", "removal"} # {}
          /\ Goto("watch")
          /\ UNCHANGED <<found, pending, boundaryFailed, proved, result>>

\* Mutant: the deadline is looked at only while the launcher runs.
LookPatiently ==
  /\ pc = "look"
  /\ \/ overtime /\ Alive("launcher") /\ StopWith("timeout")
     \/ Finished /\ Judge
     \/ /\ ~Finished
        /\ Goto("watch")
        /\ UNCHANGED <<found, pending, boundaryFailed, proved, result>>

Look ==
  /\ pc = "look"
  /\ \/ overtime /\ StopWith("timeout")
     \/ ~overtime /\ StopWith("boundary-failure")   \* poll failed
     \/ ~overtime /\ Finished /\ Judge
     \/ /\ ~overtime /\ ~Finished
        /\ Goto("watch")
        /\ UNCHANGED <<found, pending, boundaryFailed, proved, result>>

\* _stop_and_prove begins with a look: it may be clean already.
CleanupNow ==
  /\ pc = "stop"
  /\ \/ /\ Finished /\ found /\ "empty" \in CgroupEmpty
        /\ Goto("final") /\ proved' = TRUE
        /\ UNCHANGED <<found, pending, boundaryFailed, result>>
     \/ Fail("term")
     \/ /\ ~Finished \/ (found /\ CgroupEmpty \cap {"populated", "removal"} # {})
        /\ Goto("term")
        /\ UNCHANGED <<found, pending, boundaryFailed, proved, result>>

\* SIGTERM to the scope, if systemd takes the request.
SignalTerm ==
  /\ pc = "term"
  /\ \/ Fail(IF found THEN "wait-term" ELSE "reap")
     \/ /\ Goto(IF found THEN "wait-term" ELSE "reap")
        /\ UNCHANGED <<found, pending, boundaryFailed, proved, result>>

\* _wait_for_cleanup: an empty cgroup leads to the launcher, an error is kept;
\* at the deadline only a cgroup known to be populated is worth a SIGKILL.
Wait(label, populated) ==
  /\ pc = label
  /\ \/ /\ "empty" \in CgroupEmpty
        /\ Goto("reap")
        /\ UNCHANGED <<found, pending, boundaryFailed, proved, result>>
     \/ Fail(label)
     \/ Fail("final")
     \/ /\ "populated" \in CgroupEmpty
        /\ populated

WaitTerm == Wait("wait-term",
                 /\ Goto("kill")
                 /\ UNCHANGED <<found, pending, boundaryFailed, proved, result>>)

SignalKill ==
  /\ pc = "kill"
  /\ \/ Fail("wait-kill")
     \/ /\ pc' = "wait-kill"
        /\ doomed' = {p \in Procs : procs[p] = "scope"}
        /\ UNCHANGED <<procs, pipes, scope, sent, unread, drainVars, overtime,
                       found, pending, boundaryFailed, proved, result>>

WaitKill == Wait("wait-kill", Fail("final"))

\* Mutant: the threads are not waited for.
ReapLauncher ==
  /\ pc = "reap"
  /\ \/ /\ procs["launcher"] = "dead" /\ found
        /\ Goto("final") /\ proved' = TRUE
        /\ UNCHANGED <<found, pending, boundaryFailed, result>>
     \/ Fail("final")

\* _reap_local_launcher: at the deadline the launcher is terminated, and the
\* threads are given a moment.
Reap ==
  /\ pc = "reap"
  /\ \/ /\ Finished /\ found
        /\ Goto("final") /\ proved' = TRUE
        /\ UNCHANGED <<found, pending, boundaryFailed, result>>
     \/ Fail("final")
     \/ /\ Alive("launcher")
        /\ pc' = "reap" /\ Exit({"launcher"})
        /\ UNCHANGED <<unread, drainVars, overtime, found, pending, boundaryFailed,
                       proved, result>>

\* Mutant: what the threads met while the scope was stopped is not looked at.
ConcludeEarly ==
  /\ pc = "final"
  /\ IF boundaryFailed \/ ~proved THEN Return("boundary-failure", proved)
                                  ELSE Return(pending, proved)

Conclude ==
  /\ pc = "final"
  /\ IF \/ boundaryFailed \/ ~proved
        \/ \E s \in Streams : failed[s]
     THEN Return("boundary-failure", proved)
     ELSE Return(pending, proved)

-----------------------------------------------------------------------------
RunInit ==
  /\ procs = [p \in Procs |-> "none"] /\ pipes = {} /\ doomed = {}
  /\ scope = "none"
  /\ sent = [s \in Streams |-> 0] /\ unread = [s \in Streams |-> 0]
  /\ drain = [s \in Streams |-> "off"] /\ stored = [s \in Streams |-> 0]
  /\ exceeded = [s \in Streams |-> FALSE] /\ failed = [s \in Streams |-> FALSE]
  /\ writing = [s \in Streams |-> TRUE] /\ events = <<>>
  /\ pc = "start" /\ overtime = FALSE /\ found = FALSE /\ pending = NoOutcome
  /\ boundaryFailed = FALSE /\ proved = FALSE /\ result = NoResult

Client == \/ JoinScope \/ Fork \/ Escape \/ ProcessExits \/ RemoveCgroup
          \/ \E p \in Procs, s \in Streams : Write(p, s)

Drain == \E s \in Streams : DrainChunk(s) \/ DrainEnd(s)

Main == \/ StartScope \/ FindCgroup \/ PollLauncher \/ StartThreads \/ TakeEvent
        \/ Look \/ CleanupNow \/ SignalTerm \/ WaitTerm \/ SignalKill \/ WaitKill
        \/ Reap \/ Conclude

RunNext == Client \/ RuntimePasses \/ Drain \/ Main

RunSpec == RunInit /\ [][RunNext]_runVars

\* Every wait of the main thread has a deadline, and time passes.
FairRunSpec == RunSpec /\ WF_runVars(Main) /\ WF_runVars(RuntimePasses)

-----------------------------------------------------------------------------
Labels == {"start", "find", "poll", "threads", "watch", "look", "stop", "term",
           "wait-term", "kill", "wait-kill", "reap", "final", "end"}

Limits == {LimitOutcome[s] : s \in Streams}
Outcomes == Limits \cup {"completed", "timeout", "boundary-failure"}

\* Type correctness; no stream keeps more than its limit.
RunTypeOK ==
  /\ procs \in [Procs -> {"none", "outside", "scope", "dead"}]
  /\ pipes \in SUBSET Procs /\ doomed \in SUBSET Procs
  /\ scope \in {"none", "live", "gone"}
  /\ sent \in [Streams -> Nat] /\ unread \in [Streams -> Nat]
  /\ drain \in [Streams -> {"off", "on", "end"}]
  /\ stored \in [Streams -> 0 .. StreamLimit]
  /\ exceeded \in [Streams -> BOOLEAN] /\ failed \in [Streams -> BOOLEAN]
  /\ writing \in [Streams -> BOOLEAN]
  /\ events \in Seq(Outcomes)
  /\ pc \in Labels /\ overtime \in BOOLEAN /\ found \in BOOLEAN
  /\ pending \in Outcomes \cup {NoOutcome}
  /\ boundaryFailed \in BOOLEAN /\ proved \in BOOLEAN
  /\ result \in [outcome : Outcomes \cup {NoOutcome}, proved : BOOLEAN]

Ended(outcome) == pc = "end" /\ result.outcome = outcome

\* A completed run has kept every chunk the client wrote, and nobody is left who
\* could write another: no truncated transcript passes for a whole one.
\* (run_bounded_agent, the look at the drain states after the threads ended)
CompletedIsWhole ==
  Ended("completed") =>
    /\ \A s \in Streams : stored[s] = sent[s] /\ unread[s] = 0
    /\ pipes = {}

\* A proof of cleanup stands: from the return on there is no process in the
\* scope, the launcher is gone and no thread reads.  (_cleanup_now,
\* _wait_for_cleanup, _reap_local_launcher)
ProofHolds ==
  pc = "end" /\ result.proved => ~Populated /\ Finished

\* An outcome other than boundary-failure says why the run was stopped and
\* comes with the proof; a limit is reported of a stream that met it and kept
\* exactly that much.
OutcomeIsTrue ==
  pc = "end" =>
    /\ result.outcome # "boundary-failure" =>
         result.proved /\ \A s \in Streams : ~failed[s]
    /\ \A s \in Streams :
         Ended(LimitOutcome[s]) => sent[s] > StreamLimit /\ stored[s] = StreamLimit
    /\ Ended("timeout") => overtime

\* Every run returns, whatever the client does.
RunEnds == <>(pc = "end")
=============================================================================
