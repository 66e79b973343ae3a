---------------------------- MODULE JournalReader ----------------------------
(***************************************************************************)
(* The journal feed of the idle gate: JournalctlReader in                  *)
(* pylib/omniroute_activity.py.  A finite journalctl call tells the newest *)
(* line of the container (the barrier); a follower started after the first *)
(* barrier (the seed) prints every later line into a pipe; a poll reads    *)
(* lines until it meets the barrier or runs out of time.                   *)
(*                                                                         *)
(* The pipe is read through a buffered file, but waited for with select:   *)
(* a line that is in the buffer and no longer in the pipe wakes nobody.    *)
(* journalctl writes whole blocks, so a line may arrive in two pieces; the *)
(* non-blocking readline then returns each piece as a line of its own.     *)
(***************************************************************************)
EXTENDS Naturals, Sequences, FiniteSets, FiniteSetsExt

CONSTANTS
  MaxLines,     \* bound: access-log lines of the container
  MaxRetained,  \* cursors kept (10000)
  Torn,         \* whether lines may arrive in two pieces
  Nowhere

ASSUME ReaderAssumption ==
  /\ {MaxLines, MaxRetained} \subseteq Nat \ {0}
  /\ Torn \in BOOLEAN
  /\ Nowhere \notin Nat

VARIABLES
  journal,   \* the container's lines so far; a cursor is an index
  follower,  \* "none", "running" or "dead"
  printed,   \* lines the follower has printed, and whether half of the next
  pipe,      \* pieces of lines in the pipe ...
  buffer,    \* ... and in the reader's buffer
  seed,      \* seed_cursor, or Nowhere
  retained,  \* cursors of lines read
  poll,      \* the poll under way
  batch,     \* the last JournalBatch, or Nowhere
  \* history
  read,      \* lines that became records
  torn,      \* lines of which a piece was read as a line
  spoiled    \* an earlier batch reported overflow or lost continuity

external == <<journal, follower, printed, pipe>>
reader   == <<buffer, seed, retained, poll, batch>>
feedHistory  == <<read, torn, spoiled>>
feedVars     == <<external, reader, feedHistory>>

-----------------------------------------------------------------------------
(* The container, journald and the follower (external).                    *)

\* Lines of an earlier boot are there from the start.
Log ==
  /\ Len(journal) < MaxLines
  /\ \E long \in BOOLEAN :
       journal' = Append(journal, [boot |-> 1, long |-> long])
  /\ UNCHANGED <<follower, printed, pipe, reader, feedHistory>>

Piece(part) == [line |-> printed.lines + 1, part |-> part]

PrintLine ==
  /\ follower = "running"
  /\ printed.lines < Len(journal)
  /\ \/ /\ ~printed.half
        /\ pipe' = Append(pipe, Piece("whole"))
        /\ printed' = [printed EXCEPT !.lines = @ + 1]
     \/ /\ Torn /\ ~printed.half
        /\ pipe' = Append(pipe, Piece("head"))
        /\ printed' = [printed EXCEPT !.half = TRUE]
     \/ /\ printed.half
        /\ pipe' = Append(pipe, Piece("tail"))
        /\ printed' = [lines |-> printed.lines + 1, half |-> FALSE]
  /\ UNCHANGED <<journal, follower, reader, feedHistory>>

FollowerDies ==
  /\ follower = "running"
  /\ follower' = "dead"
  /\ UNCHANGED <<journal, printed, pipe, reader, feedHistory>>

-----------------------------------------------------------------------------
(* JournalctlReader.poll.                                                  *)

Publish(result) ==
  /\ batch' = result
  /\ spoiled' = (spoiled \/ result.overflow \/ ~result.continuous)

Failed(ready, continuous) ==
  [barrier |-> Nowhere, ready |-> ready, seen |-> FALSE,
   continuous |-> continuous, overflow |-> FALSE]

\* No barrier: journalctl cannot run, or the container has logged nothing.
SeedFails ==
  /\ poll.pc = "idle"
  /\ Publish(Failed(FALSE, seed # Nowhere))
  /\ UNCHANGED <<external, buffer, seed, retained, poll, read, torn>>

Barrier == Len(journal)

BootChanged ==
  /\ poll.pc = "idle" /\ Barrier > 0
  /\ seed # Nowhere /\ journal[Barrier].boot # journal[seed].boot
  /\ Publish(Failed(TRUE, FALSE))
  /\ UNCHANGED <<external, buffer, seed, retained, poll, read, torn>>

\* The first barrier is the seed.  A follower that cannot be started is tried
\* again by the next poll; one that died is not.
BeginPoll ==
  /\ poll.pc = "idle" /\ Barrier > 0
  /\ IF seed = Nowhere
     THEN seed' = Barrier
     ELSE /\ journal[Barrier].boot = journal[seed].boot
          /\ UNCHANGED seed
  /\ \/ /\ follower = "none"
        /\ follower' = "running"
        /\ printed' = [printed EXCEPT !.lines = seed']
     \/ UNCHANGED <<follower, printed>>
  /\ poll' = [pc |-> "reading", barrier |-> Barrier, consumed |-> FALSE,
              continuous |-> TRUE, overflow |-> FALSE]
  /\ UNCHANGED <<journal, pipe, buffer, retained, batch, feedHistory>>

\* A line is whole, or joined from two pieces that are both in the buffer.
Joined(b)  == Len(b) > 1 /\ b[1].part = "head"
HasLine(b) == b # <<>> /\ (b[1].part # "head" \/ Joined(b))

\* select wakes for data in the pipe and for the end of the file.
Awake == /\ poll.pc = "reading" /\ ~poll.consumed
         /\ pipe # <<>> \/ (follower = "dead" /\ buffer # <<>>)

Retain(line) ==
  IF Cardinality(retained) < MaxRetained
  THEN retained \cup {line}
  ELSE (retained \ {Min(retained)}) \cup {line}

\* One line that parses.  It counts as read also when its MESSAGE is no record of
\* the access log, which the code passes over: its cursor is kept all the same,
\* and there is no request in it to miss.
Take(line) ==
  IF journal[line].long
  THEN /\ poll' = [poll EXCEPT !.overflow = TRUE]
       /\ UNCHANGED <<retained, read>>
  ELSE /\ poll' =
            [poll EXCEPT
               !.continuous = @ /\ journal[line].boot = journal[seed].boot,
               !.consumed = line = poll.barrier \/ line \in retained,
               !.overflow = @ \/ Cardinality(retained) >= MaxRetained]
       /\ retained' = Retain(line)
       /\ read' = read \cup {line}

\* One readline: of the buffer if it has a line, else everything in the pipe is
\* fetched first.  (What is in the pipe and not fetched is as good as not yet
\* printed.)  A piece is no JSON and is skipped.
ReadLine ==
  /\ Awake
  /\ LET fetched == IF HasLine(buffer) THEN buffer ELSE buffer \o pipe
         line    == fetched[1].line
     IN /\ pipe' = IF HasLine(buffer) THEN pipe ELSE <<>>
        /\ buffer' = SubSeq(fetched, IF Joined(fetched) THEN 3 ELSE 2,
                            Len(fetched))
        /\ IF fetched[1].part = "whole" \/ Joined(fetched)
           THEN Take(line) /\ UNCHANGED torn
           ELSE torn' = torn \cup {line} /\ UNCHANGED <<poll, retained, read>>
  /\ UNCHANGED <<journal, follower, printed, seed, batch, spoiled>>

\* Mutant: a reader that could be started counts as caught up.
CaughtUpAnyway == follower # "none"

\* The barrier counts as consumed even when nothing was read for it now.
CaughtUp ==
  poll.consumed \/ poll.barrier = seed \/ poll.barrier \in retained

\* The barrier was met, the file has ended, or nothing woke the reader for the
\* rest of its time.
EndPoll ==
  /\ poll.pc = "reading" /\ ~Awake
  /\ Publish([barrier |-> poll.barrier, ready |-> TRUE, seen |-> CaughtUp,
              continuous |-> poll.continuous, overflow |-> poll.overflow])
  /\ poll' = [poll EXCEPT !.pc = "idle"]
  /\ UNCHANGED <<external, buffer, seed, retained, read, torn>>

-----------------------------------------------------------------------------
FeedInit ==
  /\ journal \in {<<>>} \cup {<<[boot |-> b, long |-> FALSE]>> : b \in {0, 1}}
  /\ follower = "none"
  /\ printed = [lines |-> 0, half |-> FALSE]
  /\ pipe = <<>> /\ buffer = <<>>
  /\ seed = Nowhere /\ retained = {}
  /\ poll = [pc |-> "idle", barrier |-> 0, consumed |-> FALSE,
             continuous |-> TRUE, overflow |-> FALSE]
  /\ batch = Nowhere
  /\ read = {} /\ torn = {} /\ spoiled = FALSE

Poll == SeedFails \/ BootChanged \/ BeginPoll \/ ReadLine \/ EndPoll

FeedNext == Log \/ PrintLine \/ FollowerDies \/ Poll

FeedSpec == FeedInit /\ [][FeedNext]_feedVars

-----------------------------------------------------------------------------
Pieces == [line : 1 .. MaxLines, part : {"whole", "head", "tail"}]

FeedTypeOK ==
  /\ journal \in Seq([boot : {0, 1}, long : BOOLEAN])
  /\ Len(journal) <= MaxLines
  /\ follower \in {"none", "running", "dead"}
  /\ printed \in [lines : 0 .. MaxLines, half : BOOLEAN]
  /\ {pipe, buffer} \subseteq Seq(Pieces)
  /\ seed \in (1 .. MaxLines) \cup {Nowhere}
  /\ retained \subseteq 1 .. MaxLines
  /\ Cardinality(retained) <= MaxRetained
  /\ poll \in [pc : {"idle", "reading"}, barrier : 0 .. MaxLines,
               consumed : BOOLEAN, continuous : BOOLEAN, overflow : BOOLEAN]
  /\ batch \in {Nowhere} \cup
       [barrier : (1 .. MaxLines) \cup {Nowhere}, ready : BOOLEAN,
        seen : BOOLEAN, continuous : BOOLEAN, overflow : BOOLEAN]
  /\ {read, torn} \subseteq SUBSET (1 .. MaxLines)
  /\ spoiled \in BOOLEAN

\* What _first_failure makes of a batch.
Healthy(b) == b # Nowhere /\ b.ready /\ b.seen /\ b.continuous /\ ~b.overflow

\* A healthy batch accounts for every line up to its barrier: each became a
\* record of this boot, in this poll or an earlier one, or reached the reader
\* in pieces.  Neither a line too long to read, a follower that died or did not
\* start, nor a retained set over its cap passes for silence.
\* (JournalctlReader.poll; holds until a batch has reported a failure, at
\* which the run defers.)
HealthyFeedIsComplete ==
  Healthy(batch) /\ ~spoiled =>
    \A line \in (seed + 1) .. batch.barrier :
      /\ line \in read \cup torn
      /\ journal[line].boot = journal[seed].boot

\* docs/superpowers/specs/2026-10-18-omniroute-idle-aware-update-design.md:91,
\* "Silence with a valid unchanged cursor barrier is healthy": a poll that finds
\* the barrier of the batch before it, after the follower has printed all there
\* is, has seen it.
SilenceIsHealthy ==
  [][EndPoll /\ batch # Nowhere /\ batch.barrier = poll.barrier
     /\ follower = "running" /\ printed.lines = Len(journal) /\ ~spoiled'
       => batch'.seen]_feedVars

\* The same paragraph: "dropped/suppressed records ... means unknown".  A
\* healthy batch has lost no line.
LossIsUnknown ==
  Healthy(batch) /\ ~spoiled =>
    \A line \in (seed + 1) .. batch.barrier : line \in read
=============================================================================
