---------------------------- MODULE PhoenixTrial ----------------------------
(***************************************************************************)
(* The Phoenix trial: scripts/phoenix-trial.sh with pylib/phoenix_trial.py. *)
(* A seed prepares a run on disk, marks the attempt, posts the run's spans  *)
(* once and reads them back; a verification only reads back.  Phoenix       *)
(* stores what it accepted later, span by span, and may lose or expire it.  *)
(* A power failure takes whatever was not synced; a killed script leaves    *)
(* its sender container behind, without the lock.                           *)
(***************************************************************************)
EXTENDS Naturals, FiniteSets

CONSTANTS
  Actors,      \* invocations of the script or of llmenv phoenix-trial
  Runs,        \* run ids
  Spans,       \* the spans the fixture gives every run
  NoOne, NoRun,
  PageSize,    \* records of a page
  MaxPages,    \* pages of a walk, 20
  MaxTime,     \* bound: clock ticks within a deadline
  MaxFaults,   \* bound: power failures and killed scripts
  MaxStrays    \* bound: records others store

ASSUME PhoenixAssumption ==
  /\ NoOne \notin Actors /\ NoRun \notin Runs
  /\ PageSize \in Nat \ {0} /\ MaxPages \in Nat \ {0}
  /\ MaxTime \in Nat \ {0} /\ MaxFaults \in Nat /\ MaxStrays \in Nat

Artifacts == {"expected", "prepared", "attempt", "result"}

VARIABLES
  \* the host's state directory
  disk,     \* what a process finds of each run: "none", "torn", "whole"
  synced,   \* the artifacts of each run that outlive a power failure
  lock,     \* lifecycle.lock
  \* the actors
  pc, run,
  left,     \* ticks until an actor's deadline
  cursor,   \* where its page walk is
  pages, got,
  \* Phoenix
  inbox,    \* spans it has accepted and not stored
  store,    \* records [id, run, span, shape]
  nextId,
  faults, strays,
  \* history
  posts,       \* POSTs of each run that left the sender
  wasThere,    \* spans of its run stored at some time of an actor's reading
  throughout   \* records stored since before an actor's last walk

diskVars  == <<disk, synced, lock>>
actorVars == <<pc, run, left, cursor, pages, got>>
storeVars == <<inbox, store, nextId>>
history   == <<posts, wasThere, throughout>>
phoenixVars == <<diskVars, actorVars, storeVars, faults, strays, history>>

Goto(a, s) == pc' = [pc EXCEPT ![a] = s]

\* An invocation is over; the next one may be anything.
End(a) ==
  /\ Goto(a, "idle")
  /\ run' = [run EXCEPT ![a] = NoRun] /\ left' = [left EXCEPT ![a] = 0]
  /\ cursor' = [cursor EXCEPT ![a] = 0] /\ pages' = [pages EXCEPT ![a] = 0]
  /\ got' = [got EXCEPT ![a] = {}]
  /\ wasThere' = [wasThere EXCEPT ![a] = {}]
  /\ throughout' = [throughout EXCEPT ![a] = {}]

\* So ends an invocation that fails, and the lock is free when it was the
\* script that held it.
Fail(a) == End(a) /\ lock' = IF lock = a THEN NoOne ELSE lock

GoOn(a, s) == /\ Goto(a, s)
              /\ UNCHANGED <<lock, run, left, cursor, pages, got, wasThere, throughout>>

\* validate_expected: an artifact is taken only when it is what version 1 of
\* the fixture makes for its run.
ValidExpected(r) == disk[r]["expected"] = "whole"

-----------------------------------------------------------------------------
(* Preparing a run (under the lock).                                       *)

StartSeed(a) ==
  /\ pc[a] = "idle" /\ lock = NoOne
  /\ \E r \in Runs :
       /\ disk[r] = [f \in Artifacts |-> "none"] /\ \A b \in Actors : run[b] # r
       /\ run' = [run EXCEPT ![a] = r]
  /\ lock' = a
  /\ Goto(a, "expected")
  /\ UNCHANGED <<disk, synced, left, cursor, pages, got, storeVars, faults, strays,
                 history>>

\* _write_durable: create exclusively, write, sync the contents.
Write(a, f, from, to) ==
  /\ pc[a] = from
  /\ \/ /\ disk[run[a]][f] = "none"
        /\ disk' = [disk EXCEPT ![run[a]][f] = "whole"]
        /\ GoOn(a, to)
     \/ /\ disk[run[a]][f] = "none"
        /\ disk' = [disk EXCEPT ![run[a]][f] = "torn"]
        /\ Fail(a)
     \/ disk[run[a]][f] # "none" /\ Fail(a) /\ UNCHANGED disk
  /\ UNCHANGED <<synced, storeVars, faults, strays, posts>>

\* The directory's entries, up to the state directory.
SyncRun(a) ==
  /\ pc[a] = "sync"
  /\ synced' = [synced EXCEPT ![run[a]] = @ \cup {"expected", "prepared"}]
  /\ Goto(a, "look")
  /\ UNCHANGED <<disk, lock, run, left, cursor, pages, got, storeVars, faults,
                 strays, history>>

Prepare(a) == \/ StartSeed(a)
              \/ Write(a, "expected", "expected", "prepared")
              \/ Write(a, "prepared", "prepared", "sync")
              \/ SyncRun(a)

-----------------------------------------------------------------------------
(* Marking the attempt.                                                    *)

\* By hand, for a run whose preparation returned a receipt.
MarkByHand(a) ==
  /\ pc[a] = "idle"
  /\ \E r \in Runs : /\ "prepared" \in synced[r]
                     /\ run' = [run EXCEPT ![a] = r]
  /\ Goto(a, "look")
  /\ UNCHANGED <<diskVars, left, cursor, pages, got, storeVars, faults, strays,
                 history>>

LookForMark(a) ==
  /\ pc[a] = "look"
  /\ IF ValidExpected(run[a]) /\ disk[run[a]]["attempt"] = "none"
     THEN GoOn(a, "mark") ELSE Fail(a)
  /\ UNCHANGED <<disk, synced, storeVars, faults, strays, posts>>

\* Mutant: the marker is opened without O_EXCL.
OverwriteMark(a) ==
  /\ pc[a] = "mark"
  /\ disk' = [disk EXCEPT ![run[a]]["attempt"] = "whole"]
  /\ Goto(a, "marked")
  /\ UNCHANGED <<synced, lock, run, left, cursor, pages, got, storeVars, faults,
                 strays, history>>

WriteMark(a) == Write(a, "attempt", "mark", "marked")

\* Mutant: the marker's directory entry is not synced.
KeepMarkUnsynced(a) ==
  /\ pc[a] = "marked"
  /\ Goto(a, "post")
  /\ UNCHANGED <<diskVars, run, left, cursor, pages, got, storeVars, faults,
                 strays, history>>

SyncMark(a) ==
  /\ pc[a] = "marked"
  /\ synced' = [synced EXCEPT ![run[a]] = @ \cup {"attempt"}]
  /\ Goto(a, "post")
  /\ UNCHANGED <<disk, lock, run, left, cursor, pages, got, storeVars, faults,
                 strays, history>>

Mark(a) == MarkByHand(a) \/ LookForMark(a) \/ WriteMark(a) \/ SyncMark(a)

-----------------------------------------------------------------------------
(* Sending and reading back.                                               *)

NewWalk(a) == /\ cursor' = [cursor EXCEPT ![a] = 0]
              /\ pages' = [pages EXCEPT ![a] = 0]
              /\ got' = [got EXCEPT ![a] = {}]
              /\ throughout' = [throughout EXCEPT ![a] = store]

StoredSpans(r) == {x.span : x \in {y \in store : y.run = r /\ y.shape = "good"}}

StartReading(a, r) ==
  /\ Goto(a, "walk")
  /\ left' = [left EXCEPT ![a] = MaxTime]
  /\ wasThere' = [wasThere EXCEPT ![a] = StoredSpans(r)]
  /\ NewWalk(a)

\* seed_spans, of the sender the script starts once it has marked the attempt:
\* one POST.  It may fail on the way, be refused, or be accepted
\* with an answer that is lost; only an answer that counts every span goes on.
Post(a) ==
  /\ pc[a] = "post"
  /\ posts' = [posts EXCEPT ![run[a]] = @ + 1]
  /\ \E reached \in BOOLEAN, answered \in BOOLEAN :
       /\ inbox' = IF reached THEN inbox \cup ({run[a]} \X Spans) ELSE inbox
       /\ IF reached /\ answered
          THEN StartReading(a, run[a]) /\ UNCHANGED <<run, lock>>
          ELSE Fail(a)
  /\ UNCHANGED <<disk, synced, store, nextId, faults, strays>>

\* llmenv phoenix-trial verify; verify-persistence begins with one.
StartVerify(a) ==
  /\ pc[a] = "idle"
  /\ \E r \in Runs : /\ ValidExpected(r)
                     /\ run' = [run EXCEPT ![a] = r]
                     /\ StartReading(a, r)
  /\ UNCHANGED <<diskVars, storeVars, faults, strays, posts>>

\* The records that are, or claim to be, of the run.
Selected(G, r) == {x \in G : x.run = r}

\* Mutant: totals are compared.
CountsAgree(G, r) ==
  /\ \A x \in G : x.shape # "malformed"
  /\ Cardinality(Selected(G, r)) = Cardinality(Spans)

\* compare_run: each expected span once, as it was sent, and no other.
Exact(G, r) ==
  /\ \A x \in G : x.shape # "malformed"
  /\ \A x \in Selected(G, r) : x.shape = "good"
  /\ \A x, y \in Selected(G, r) : x.span = y.span => x = y
  /\ {x.span : x \in Selected(G, r)} = Spans

\* _readback_is_incomplete: nothing wrong so far, and some are missing.
Incomplete(G, r) ==
  /\ \A x \in G : x.shape # "malformed"
  /\ \A x \in Selected(G, r) : x.shape = "good" /\ x.span \in Spans
  /\ \A x, y \in Selected(G, r) : x.span = y.span => x = y
  /\ {x.span : x \in Selected(G, r)} # Spans

\* Only the script that still runs keeps the receipt, and gives the lock back.
Verified(a) ==
  /\ Goto(a, "verified")
  /\ IF lock = a THEN /\ disk' = [disk EXCEPT ![run[a]]["result"] = "whole"]
                      /\ lock' = NoOne
                 ELSE UNCHANGED <<disk, lock>>
  /\ UNCHANGED <<run, left, cursor, pages, got, wasThere, throughout>>

WalkAgain(a) == NewWalk(a) /\ UNCHANGED <<pc, run, left, disk, lock, wasThere>>

Rest(a) == {x \in store : x.id > cursor[a]}

Page(a) == {x \in Rest(a) : Cardinality({y \in Rest(a) : y.id < x.id}) < PageSize}

Judge(a, G) == \/ Exact(G, run[a]) /\ Verified(a)
               \/ ~Exact(G, run[a]) /\ Incomplete(G, run[a]) /\ WalkAgain(a)
               \/ ~Exact(G, run[a]) /\ ~Incomplete(G, run[a]) /\ Fail(a) /\ UNCHANGED disk

\* A page, in the order of the ids; after the last one the run is compared.
ReadPage(a) ==
  /\ pc[a] = "walk" /\ left[a] > 0
  /\ IF Rest(a) = Page(a) THEN Judge(a, got[a] \cup Page(a))
     ELSE IF pages[a] + 1 = MaxPages THEN Fail(a) /\ UNCHANGED disk
     ELSE /\ got' = [got EXCEPT ![a] = @ \cup Page(a)]
          /\ cursor' = [cursor EXCEPT ![a] =
                          CHOOSE n \in {x.id : x \in Page(a)} :
                            \A x \in Page(a) : x.id <= n]
          /\ pages' = [pages EXCEPT ![a] = @ + 1]
          /\ UNCHANGED <<pc, run, left, wasThere, throughout, disk, lock>>
  /\ UNCHANGED <<synced, storeVars, faults, strays, posts>>

\* No answer, 404 and 503 are retried, any other answer is the end.
PageFails(a) ==
  /\ pc[a] = "walk" /\ left[a] > 0
  /\ WalkAgain(a) \/ (Fail(a) /\ UNCHANGED disk)
  /\ UNCHANGED <<synced, storeVars, faults, strays, posts>>

\* Mutant: the deadline ends the walk, and another one begins.
WalkPastDeadline(a) ==
  /\ pc[a] = "walk" /\ left[a] = 0
  /\ WalkAgain(a)
  /\ UNCHANGED <<synced, storeVars, faults, strays, posts>>

DeadlineExpires(a) ==
  /\ pc[a] = "walk" /\ left[a] = 0
  /\ Fail(a)
  /\ UNCHANGED <<disk, synced, storeVars, faults, strays, posts>>

\* The monotonic clock (external).
Tick(a) == /\ pc[a] = "walk" /\ left[a] > 0
           /\ left' = [left EXCEPT ![a] = @ - 1]
           /\ UNCHANGED <<diskVars, pc, run, cursor, pages, got, storeVars, faults,
                          strays, history>>

Read(a) == StartVerify(a) \/ ReadPage(a) \/ PageFails(a) \/ DeadlineExpires(a)

-----------------------------------------------------------------------------
(* Phoenix and its other clients (external).                               *)

Add(r, k, shape) ==
  /\ store' = store \cup {[id |-> nextId, run |-> r, span |-> k, shape |-> shape]}
  /\ nextId' = nextId + 1
  /\ wasThere' = [a \in Actors |->
                    IF pc[a] = "walk" /\ run[a] = r /\ shape = "good"
                    THEN wasThere[a] \cup {k} ELSE wasThere[a]]

Ingest == /\ \E x \in inbox : /\ inbox' = inbox \ {x}
                              /\ Add(x[1], x[2], "good")
          /\ UNCHANGED <<diskVars, actorVars, faults, strays, posts, throughout>>

LoseAccepted == /\ \E x \in inbox : inbox' = inbox \ {x}
                /\ UNCHANGED <<diskVars, actorVars, store, nextId, faults, strays,
                               history>>

Expire == /\ \E x \in store :
               /\ store' = store \ {x}
               /\ throughout' = [a \in Actors |-> throughout[a] \ {x}]
          /\ UNCHANGED <<diskVars, actorVars, inbox, nextId, faults, strays, posts,
                         wasThere>>

\* A span of another run, one that claims to be of this one, one that cannot be
\* read.
Stray == /\ strays < MaxStrays
         /\ strays' = strays + 1
         /\ \/ \E r \in Runs, k \in Spans : Add(r, k, "changed")
            \/ \E shape \in {"good", "malformed"} : Add(NoRun, NoRun, shape)
         /\ UNCHANGED <<diskVars, actorVars, inbox, faults, posts, throughout>>

-----------------------------------------------------------------------------
(* Faults.                                                                 *)

\* The script is gone and its lock with it; a sender it has started goes on.
KillScript(a) ==
  /\ lock = a /\ faults < MaxFaults
  /\ faults' = faults + 1
  /\ \/ /\ pc[a] \in {"post", "walk"}
        /\ lock' = NoOne
        /\ UNCHANGED <<actorVars, wasThere, throughout>>
     \/ pc[a] \notin {"post", "walk"} /\ Fail(a)
  /\ UNCHANGED <<disk, synced, storeVars, strays, posts>>

\* Nothing runs any longer; what was not synced is there, torn or gone.
PowerFailure ==
  /\ faults < MaxFaults
  /\ faults' = faults + 1
  /\ \E after \in {"none", "torn", "whole"} :
       disk' = [r \in Runs |-> [f \in Artifacts |->
                  IF f \in synced[r] \/ disk[r][f] = "none" THEN disk[r][f]
                                                            ELSE after]]
  /\ lock' = NoOne
  /\ pc' = [a \in Actors |-> "idle"] /\ run' = [a \in Actors |-> NoRun]
  /\ left' = [a \in Actors |-> 0] /\ cursor' = [a \in Actors |-> 0]
  /\ pages' = [a \in Actors |-> 0] /\ got' = [a \in Actors |-> {}]
  /\ wasThere' = [a \in Actors |-> {}] /\ throughout' = [a \in Actors |-> {}]
  /\ inbox' = {}
  /\ UNCHANGED <<synced, store, nextId, strays, posts>>

Return(a) == /\ pc[a] = "verified"
             /\ End(a)
             /\ UNCHANGED <<diskVars, storeVars, faults, strays, posts>>

-----------------------------------------------------------------------------
PhoenixInit ==
  /\ disk = [r \in Runs |-> [f \in Artifacts |-> "none"]]
  /\ synced = [r \in Runs |-> {}] /\ lock = NoOne
  /\ pc = [a \in Actors |-> "idle"] /\ run = [a \in Actors |-> NoRun]
  /\ left = [a \in Actors |-> 0] /\ cursor = [a \in Actors |-> 0]
  /\ pages = [a \in Actors |-> 0] /\ got = [a \in Actors |-> {}]
  /\ inbox = {} /\ store = {} /\ nextId = 1
  /\ faults = 0 /\ strays = 0
  /\ posts = [r \in Runs |-> 0]
  /\ wasThere = [a \in Actors |-> {}] /\ throughout = [a \in Actors |-> {}]

PhoenixNext ==
  \/ \E a \in Actors : \/ Prepare(a) \/ Mark(a) \/ Post(a) \/ Read(a) \/ Return(a)
                       \/ Tick(a) \/ KillScript(a)
  \/ Ingest \/ LoseAccepted \/ Expire \/ Stray \/ PowerFailure

PhoenixSpec == PhoenixInit /\ [][PhoenixNext]_phoenixVars

\* Time passes, and every GET has a timeout.
FairPhoenixSpec ==
  /\ PhoenixSpec
  /\ \A a \in Actors : WF_phoenixVars(Tick(a)) /\ WF_phoenixVars(DeadlineExpires(a))

-----------------------------------------------------------------------------
\* A run is posted at most once, by whichever script and however often it is
\* tried, with scripts killed and power lost in between.  A sender that is run by
\* hand without mark-attempt is outside of this.  (docker/phoenix-trial/README.md,
\* "exactly one POST"; mark_attempt)
PostedOnce == \A r \in Runs : posts[r] <= 1

\* What has been posted is marked, and the mark outlives a power failure, as
\* does the artifact that tells what to look for.  (_write_durable, _fsync_dir)
PostIsRemembered ==
  \A r \in Runs : posts[r] > 0 => {"expected", "prepared", "attempt"} \subseteq synced[r]

\* A verified run: each of its spans was stored while it was read, and nothing
\* wrong of that run was there all the while, although pages are read at
\* different moments and Phoenix stores and expires records in between.
\* (compare_run, _page_walk)
VerifiedIsExact ==
  \A a \in Actors : pc[a] = "verified" =>
    /\ wasThere[a] = Spans
    /\ \A x \in throughout[a] : x.run = run[a] => x.shape = "good"

\* A reading ends, whatever Phoenix answers and however often it is retried.
\* (verify_run, "a bounded deadline")
ReadingEnds == \A a \in Actors : pc[a] = "walk" ~> pc[a] # "walk"
=============================================================================
