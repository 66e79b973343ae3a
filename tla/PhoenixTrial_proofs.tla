------------------------ MODULE PhoenixTrial_proofs ------------------------
(***************************************************************************)
(* A run of the Phoenix trial is posted once and remembered, for any number *)
(* of invocations, runs, killed scripts and power failures.  The marker is  *)
(* created exclusively, so between marking and posting an actor is alone    *)
(* with its run; its sync comes before the POST, so no power failure can    *)
(* take away the marker of a run that was posted.  A run that was verified  *)
(* was there: the pages of a walk leave nothing out up to its cursor.       *)
(***************************************************************************)
EXTENDS PhoenixTrial, NumberFacts, FiniteSetTheorems, TLAPS

Places == {"idle", "expected", "prepared", "sync", "look", "mark", "marked", "post",
           "walk", "verified"}

PostTyped ==
  /\ disk \in [Runs -> [Artifacts -> {"none", "torn", "whole"}]]
  /\ synced \in [Runs -> SUBSET Artifacts]
  /\ posts \in [Runs -> Nat]
  /\ pc \in [Actors -> Places] /\ run \in [Actors -> Runs \cup {NoRun}]

\* The states of an actor on its way to a POST, and of one that has the marker.
Marking == {"look", "mark", "marked", "post"}
Marked  == {"marked", "post"}

ActorsHaveRuns == \A a \in Actors : pc[a] # "idle" => run[a] \in Runs

\* What is kept of a run is kept in order.
SyncedInOrder ==
  \A r \in Runs : /\ "prepared" \in synced[r] => "expected" \in synced[r]
                  /\ "attempt" \in synced[r] => disk[r]["attempt"] # "none"

PreparedFirst ==
  \A a \in Actors :
    /\ pc[a] \in Marking => {"expected", "prepared"} \subseteq synced[run[a]]
    /\ pc[a] = "post" => "attempt" \in synced[run[a]]

\* Who has the marker has the run, and has not posted it.
MarkIsExclusive ==
  \A a \in Actors : pc[a] \in Marked =>
    /\ disk[run[a]]["attempt"] # "none"
    /\ posts[run[a]] = 0
    /\ \A b \in Actors : pc[b] \in Marked /\ run[b] = run[a] => b = a

PostInv == /\ PostTyped /\ ActorsHaveRuns /\ SyncedInOrder /\ PreparedFirst
           /\ MarkIsExclusive /\ PostedOnce /\ PostIsRemembered

LEMMA PostInitial == PhoenixInit => PostInv
BY DEF PhoenixInit, PostInv, PostTyped, Places, ActorsHaveRuns, SyncedInOrder, PreparedFirst,
       MarkIsExclusive, PostedOnce, PostIsRemembered, Marking, Marked

LEMMA NothingHere == PostInv /\ UNCHANGED <<disk, synced, posts, pc, run>> => PostInv'
BY DEF PostInv, PostTyped, Places, ActorsHaveRuns, SyncedInOrder, PreparedFirst,
       MarkIsExclusive, PostedOnce, PostIsRemembered, Marking, Marked

\* An actor goes where nothing is marked or posted, and leaves the markers alone.
LEMMA Elsewhere ==
  ASSUME PostInv, NEW a \in Actors, NEW s \in Places, s \notin Marking,
         NEW q \in Runs \cup {NoRun}, s = "idle" \/ q \in Runs,
         pc' = [pc EXCEPT ![a] = s], run' = [run EXCEPT ![a] = q],
         disk' \in [Runs -> [Artifacts -> {"none", "torn", "whole"}]],
         \A r \in Runs : disk'[r]["attempt"] = disk[r]["attempt"],
         UNCHANGED <<synced, posts>>
  PROVE  PostInv'
<1> USE DEF PostInv, PostTyped, Places
<1>1. PostTyped' /\ ActorsHaveRuns'
  BY DEF ActorsHaveRuns
<1>2. SyncedInOrder' /\ PostedOnce' /\ PostIsRemembered'
  BY DEF SyncedInOrder, PostedOnce, PostIsRemembered
<1>3. PreparedFirst'
  BY DEF PreparedFirst, Marking
<1>4. MarkIsExclusive'
  BY DEF MarkIsExclusive, ActorsHaveRuns, Marking, Marked
<1> QED
  BY <1>1, <1>2, <1>3, <1>4

\* A write of an artifact that is not the marker.
LEMMA OtherArtifact ==
  ASSUME PostInv, NEW r \in Runs, NEW f \in Artifacts, f # "attempt",
         NEW w \in {"torn", "whole"}, disk' = [disk EXCEPT ![r][f] = w]
  PROVE  /\ disk' \in [Runs -> [Artifacts -> {"none", "torn", "whole"}]]
         /\ \A q \in Runs : disk'[q]["attempt"] = disk[q]["attempt"]
BY DEF PostInv, PostTyped, Places, Artifacts

LEMMA EndSteps ==
  ASSUME PostInv, NEW a \in Actors, End(a), UNCHANGED <<disk, synced, posts>>
  PROVE  PostInv'
<1>1. pc' = [pc EXCEPT ![a] = "idle"] /\ run' = [run EXCEPT ![a] = NoRun]
  BY DEF End, Goto
<1> QED
  BY <1>1, Elsewhere DEF PostInv, PostTyped, Places, Marking

LEMMA PrepareStep ==
  ASSUME PostInv, NEW a \in Actors, Prepare(a)
  PROVE  PostInv'
<1>1. CASE StartSeed(a)
  <2>1. PICK r \in Runs : run' = [run EXCEPT ![a] = r]
    BY <1>1 DEF StartSeed
  <2>2. pc' = [pc EXCEPT ![a] = "expected"] /\ UNCHANGED <<disk, synced, posts>>
    BY <1>1 DEF StartSeed, Goto, history
  <2> QED
    BY <2>1, <2>2, Elsewhere DEF PostInv, PostTyped, Places, Marking
<1>2. ASSUME NEW f \in {"expected", "prepared"}, NEW from \in {"expected", "prepared"},
             NEW to \in {"prepared", "sync"}, Write(a, f, from, to)
      PROVE  PostInv'
  <2>1. run[a] \in Runs /\ f \in Artifacts /\ f # "attempt" /\ UNCHANGED <<synced, posts>>
    BY <1>2 DEF Write, PostInv, ActorsHaveRuns, Artifacts
  <2>2. CASE disk' = [disk EXCEPT ![run[a]][f] = "whole"] /\ GoOn(a, to)
    <3>1. pc' = [pc EXCEPT ![a] = to] /\ run' = [run EXCEPT ![a] = run[a]]
      BY <2>2 DEF GoOn, Goto, PostInv, PostTyped, Places
    <3>2. to \in Places /\ to \notin Marking /\ run[a] \in Runs \cup {NoRun}
      BY <2>1 DEF Places, Marking
    <3>3. /\ disk' \in [Runs -> [Artifacts -> {"none", "torn", "whole"}]]
          /\ \A q \in Runs : disk'[q]["attempt"] = disk[q]["attempt"]
      BY <2>1, <2>2, OtherArtifact
    <3> QED
      BY <2>1, <3>1, <3>2, <3>3, Elsewhere
  <2>3. CASE disk' = [disk EXCEPT ![run[a]][f] = "torn"] /\ Fail(a)
    <3>1. pc' = [pc EXCEPT ![a] = "idle"] /\ run' = [run EXCEPT ![a] = NoRun]
      BY <2>3 DEF Fail, End, Goto
    <3>2. "idle" \in Places \ Marking /\ NoRun \in Runs \cup {NoRun}
      BY DEF Places, Marking
    <3>3. /\ disk' \in [Runs -> [Artifacts -> {"none", "torn", "whole"}]]
          /\ \A q \in Runs : disk'[q]["attempt"] = disk[q]["attempt"]
      BY <2>1, <2>3, OtherArtifact
    <3> QED
      BY <2>1, <3>1, <3>2, <3>3, Elsewhere
  <2>4. CASE Fail(a) /\ UNCHANGED disk
    BY <2>1, <2>4, EndSteps DEF Fail
  <2> QED
    BY <1>2, <2>2, <2>3, <2>4 DEF Write
<1>3. CASE SyncRun(a)
  <2> USE DEF PostInv, PostTyped, Places
  <2>1. /\ run[a] \in Runs
        /\ synced' = [synced EXCEPT ![run[a]] = @ \cup {"expected", "prepared"}]
        /\ pc' = [pc EXCEPT ![a] = "look"]
        /\ UNCHANGED <<disk, run, posts>>
    BY <1>3 DEF SyncRun, Goto, history, ActorsHaveRuns
  <2>2. \A r \in Runs : /\ synced[r] \subseteq synced'[r]
                        /\ "attempt" \in synced'[r] => "attempt" \in synced[r]
    BY <2>1
  <2>3. PostTyped' /\ ActorsHaveRuns' /\ PostedOnce'
    BY <2>1 DEF Artifacts, ActorsHaveRuns, PostedOnce
  <2>4. SyncedInOrder' /\ PreparedFirst' /\ PostIsRemembered'
    BY <2>1, <2>2 DEF SyncedInOrder, PreparedFirst, PostIsRemembered, ActorsHaveRuns, Marking
  <2>5. MarkIsExclusive'
    BY <2>1 DEF MarkIsExclusive, Marked
  <2> QED
    BY <2>3, <2>4, <2>5
<1> QED
  BY <1>1, <1>2, <1>3 DEF Prepare

\* Who looks finds a run that was prepared; who writes the marker is the first.
LEMMA MarkStep ==
  ASSUME PostInv, NEW a \in Actors, Mark(a)
  PROVE  PostInv'
<1> USE DEF PostInv, PostTyped, Places
<1>1. CASE MarkByHand(a)
  <2>1. PICK r \in Runs : "prepared" \in synced[r] /\ run' = [run EXCEPT ![a] = r]
    BY <1>1 DEF MarkByHand
  <2>2. /\ pc[a] = "idle" /\ pc' = [pc EXCEPT ![a] = "look"]
        /\ UNCHANGED <<disk, synced, posts>>
    BY <1>1 DEF MarkByHand, Goto, diskVars, history
  <2>3. PostTyped' /\ ActorsHaveRuns' /\ SyncedInOrder' /\ PostedOnce' /\ PostIsRemembered'
    BY <2>1, <2>2 DEF ActorsHaveRuns, SyncedInOrder, PostedOnce, PostIsRemembered
  <2>4. PreparedFirst' /\ MarkIsExclusive'
    BY <2>1, <2>2 DEF SyncedInOrder, PreparedFirst, MarkIsExclusive, Marking, Marked
  <2> QED
    BY <2>3, <2>4
<1>2. CASE LookForMark(a)
  <2>1. UNCHANGED <<disk, synced, posts>>
    BY <1>2 DEF LookForMark
  <2>2. CASE Fail(a)
    BY <2>1, <2>2, EndSteps DEF Fail
  <2>3. CASE GoOn(a, "mark")
    <3>1. pc[a] = "look" /\ pc' = [pc EXCEPT ![a] = "mark"] /\ UNCHANGED run
      BY <1>2, <2>3 DEF LookForMark, GoOn, Goto
    <3>2. PostTyped' /\ ActorsHaveRuns' /\ SyncedInOrder' /\ PostedOnce' /\ PostIsRemembered'
      BY <2>1, <3>1 DEF ActorsHaveRuns, SyncedInOrder, PostedOnce, PostIsRemembered
    <3>3. PreparedFirst' /\ MarkIsExclusive'
      BY <2>1, <3>1 DEF PreparedFirst, MarkIsExclusive, Marking, Marked
    <3> QED
      BY <3>2, <3>3
  <2> QED
    BY <1>2, <2>2, <2>3 DEF LookForMark
<1>3. CASE WriteMark(a)
  <2>1. pc[a] = "mark" /\ run[a] \in Runs /\ UNCHANGED <<synced, posts>>
    BY <1>3 DEF WriteMark, Write, ActorsHaveRuns
  <2>2. CASE Fail(a) /\ UNCHANGED disk
    BY <2>1, <2>2, EndSteps DEF Fail
  <2>3. ASSUME NEW w \in {"torn", "whole"}, disk[run[a]]["attempt"] = "none",
               disk' = [disk EXCEPT ![run[a]]["attempt"] = w]
        PROVE  /\ disk' \in [Runs -> [Artifacts -> {"none", "torn", "whole"}]]
               /\ \A r \in Runs : disk[r]["attempt"] # "none" => disk'[r]["attempt"] # "none"
               /\ disk'[run[a]]["attempt"] # "none"
               /\ posts[run[a]] = 0
               /\ \A b \in Actors : pc[b] \in Marked => run[b] # run[a]
    <3>1. disk' \in [Runs -> [Artifacts -> {"none", "torn", "whole"}]]
      BY <2>3 DEF Artifacts
    <3>2. \A r \in Runs : disk[r]["attempt"] # "none" => disk'[r]["attempt"] # "none"
      BY <2>1, <2>3 DEF Artifacts
    <3>3. disk'[run[a]]["attempt"] # "none"
      BY <2>1, <2>3 DEF Artifacts
    <3>4. posts[run[a]] = 0 /\ \A b \in Actors : pc[b] \in Marked => run[b] # run[a]
      BY <2>1, <2>3 DEF SyncedInOrder, PostIsRemembered, MarkIsExclusive
    <3> QED
      BY <3>1, <3>2, <3>3, <3>4
  <2>4. CASE /\ disk[run[a]]["attempt"] = "none" /\ GoOn(a, "marked")
             /\ disk' = [disk EXCEPT ![run[a]]["attempt"] = "whole"]
    <3>1. pc' = [pc EXCEPT ![a] = "marked"] /\ UNCHANGED run
      BY <2>4 DEF GoOn, Goto
    <3>2. PostTyped' /\ ActorsHaveRuns' /\ SyncedInOrder' /\ PostedOnce' /\ PostIsRemembered'
      BY <2>1, <2>3, <2>4, <3>1
         DEF ActorsHaveRuns, SyncedInOrder, PostedOnce, PostIsRemembered
    <3>3. PreparedFirst'
      BY <2>1, <3>1 DEF PreparedFirst, Marking
    <3>4. MarkIsExclusive'
      BY <2>1, <2>3, <2>4, <3>1 DEF MarkIsExclusive, ActorsHaveRuns, Marked
    <3> QED
      BY <3>2, <3>3, <3>4
  <2>5. CASE /\ disk[run[a]]["attempt"] = "none" /\ Fail(a)
             /\ disk' = [disk EXCEPT ![run[a]]["attempt"] = "torn"]
    <3>1. pc' = [pc EXCEPT ![a] = "idle"] /\ run' = [run EXCEPT ![a] = NoRun]
      BY <2>5 DEF Fail, End, Goto
    <3>2. PostTyped' /\ ActorsHaveRuns' /\ SyncedInOrder' /\ PostedOnce' /\ PostIsRemembered'
      BY <2>1, <2>3, <2>5, <3>1
         DEF ActorsHaveRuns, SyncedInOrder, PostedOnce, PostIsRemembered
    <3>3. PreparedFirst'
      BY <2>1, <3>1 DEF PreparedFirst, Marking
    <3>4. MarkIsExclusive'
      BY <2>1, <2>3, <2>5, <3>1 DEF MarkIsExclusive, ActorsHaveRuns, Marked
    <3> QED
      BY <3>2, <3>3, <3>4
  <2> QED
    BY <1>3, <2>2, <2>4, <2>5 DEF WriteMark, Write
<1>4. CASE SyncMark(a)
  <2>1. /\ pc[a] = "marked" /\ run[a] \in Runs
        /\ synced' = [synced EXCEPT ![run[a]] = @ \cup {"attempt"}]
        /\ pc' = [pc EXCEPT ![a] = "post"]
        /\ UNCHANGED <<disk, run, posts>>
    BY <1>4 DEF SyncMark, Goto, history, ActorsHaveRuns
  <2>2. disk[run[a]]["attempt"] # "none"
    BY <2>1 DEF MarkIsExclusive, Marked
  <2>3. PostTyped' /\ ActorsHaveRuns' /\ PostedOnce'
    BY <2>1 DEF Artifacts, ActorsHaveRuns, PostedOnce
  <2>4. SyncedInOrder' /\ PreparedFirst' /\ PostIsRemembered'
    BY <2>1, <2>2 DEF SyncedInOrder, PreparedFirst, PostIsRemembered, ActorsHaveRuns, Marking
  <2>5. MarkIsExclusive'
    BY <2>1 DEF MarkIsExclusive, Marked
  <2> QED
    BY <2>3, <2>4, <2>5
<1> QED
  BY <1>1, <1>2, <1>3, <1>4 DEF Mark

\* The POST uses up the marker.
LEMMA PostStep ==
  ASSUME PostInv, NEW a \in Actors, Post(a)
  PROVE  PostInv'
<1> USE DEF PostInv, PostTyped, Places
<1>1. /\ pc[a] = "post" /\ run[a] \in Runs
      /\ posts' = [posts EXCEPT ![run[a]] = @ + 1]
      /\ UNCHANGED <<disk, synced>>
  BY DEF Post, ActorsHaveRuns
<1>2. posts[run[a]] = 0 /\ {"expected", "prepared", "attempt"} \subseteq synced[run[a]]
  BY <1>1 DEF MarkIsExclusive, PreparedFirst, Marking, Marked
<1>3. PICK s \in {"walk", "idle"} :
        /\ pc' = [pc EXCEPT ![a] = s]
        /\ run' = IF s = "walk" THEN run ELSE [run EXCEPT ![a] = NoRun]
  BY DEF Post, StartReading, Fail, End, Goto
<1>4. PostTyped' /\ ActorsHaveRuns' /\ SyncedInOrder'
  BY <1>1, <1>3 DEF ActorsHaveRuns, SyncedInOrder
<1>5. PostedOnce' /\ PostIsRemembered'
  BY <1>1, <1>2 DEF PostedOnce, PostIsRemembered
<1>6. PreparedFirst'
  BY <1>1, <1>3 DEF PreparedFirst, Marking
<1>7. MarkIsExclusive'
  <2>1. \A b \in Actors : b # a /\ pc[b] \in Marked => run[b] # run[a]
    BY <1>1 DEF MarkIsExclusive, Marked
  <2> QED
    BY <1>1, <1>3, <2>1 DEF MarkIsExclusive, ActorsHaveRuns, Marked
<1> QED
  BY <1>4, <1>5, <1>6, <1>7

LEMMA ReadStep ==
  ASSUME PostInv, NEW a \in Actors, Read(a) \/ Return(a)
  PROVE  PostInv'
<1>1. UNCHANGED <<synced, posts>>
  BY DEF Read, Return, StartVerify, ReadPage, PageFails, DeadlineExpires, diskVars
<1>2. CASE Fail(a) /\ UNCHANGED disk
  BY <1>1, <1>2, EndSteps DEF Fail
<1>3. CASE WalkAgain(a)
  BY <1>1, <1>3, NothingHere DEF WalkAgain
<1>4. CASE StartVerify(a)
  <2>1. PICK r \in Runs : run' = [run EXCEPT ![a] = r] /\ pc' = [pc EXCEPT ![a] = "walk"]
    BY <1>4 DEF StartVerify, StartReading, Goto
  <2>2. UNCHANGED disk /\ "walk" \notin Marking
    BY <1>4 DEF StartVerify, diskVars, Marking
  <2> QED
    BY <1>1, <2>1, <2>2, Elsewhere DEF PostInv, PostTyped, Places
<1>5. CASE pc[a] = "walk" /\ Verified(a)
  <2>1. pc' = [pc EXCEPT ![a] = "verified"] /\ run' = [run EXCEPT ![a] = run[a]]
    BY <1>5 DEF Verified, Goto, PostInv, PostTyped, Places
  <2>2. /\ run[a] \in Runs /\ run[a] \in Runs \cup {NoRun}
        /\ "verified" \in Places \ Marking /\ "result" \in Artifacts
    BY <1>5 DEF PostInv, ActorsHaveRuns, Marking, Artifacts, Places
  <2>3. CASE UNCHANGED disk
    BY <1>1, <2>1, <2>2, <2>3, Elsewhere DEF PostInv, PostTyped, Places
  <2>4. CASE disk' = [disk EXCEPT ![run[a]]["result"] = "whole"]
    <3>1. /\ disk' \in [Runs -> [Artifacts -> {"none", "torn", "whole"}]]
          /\ \A q \in Runs : disk'[q]["attempt"] = disk[q]["attempt"]
      BY <2>2, <2>4, OtherArtifact
    <3> QED
      BY <1>1, <2>1, <2>2, <3>1, Elsewhere
  <2> QED
    BY <1>5, <2>3, <2>4 DEF Verified
<1>6. CASE ReadPage(a)
  <2>1. CASE Judge(a, got[a] \cup Page(a))
    BY <1>2, <1>3, <1>5, <1>6, <2>1 DEF ReadPage, Judge
  <2>2. CASE UNCHANGED <<pc, run, disk>>
    BY <1>1, <2>2, NothingHere
  <2> QED
    BY <1>2, <1>6, <2>1, <2>2 DEF ReadPage
<1>7. CASE PageFails(a)
  BY <1>2, <1>3, <1>7 DEF PageFails
<1>8. CASE DeadlineExpires(a)
  BY <1>2, <1>8 DEF DeadlineExpires
<1>9. CASE Return(a)
  BY <1>1, <1>9, EndSteps DEF Return, diskVars
<1> QED
  BY <1>4, <1>6, <1>7, <1>8, <1>9 DEF Read

\* A sender outlives its script with the marker it has; a power failure leaves
\* nobody on the way and every marker that was synced.
LEMMA FaultStep ==
  ASSUME PostInv, PowerFailure \/ \E a \in Actors : KillScript(a)
  PROVE  PostInv'
<1>1. ASSUME NEW a \in Actors, KillScript(a) PROVE PostInv'
  BY <1>1, EndSteps, NothingHere DEF KillScript, Fail, actorVars
<1>2. CASE PowerFailure
  <2> USE DEF PostInv, PostTyped, Places
  <2>1. PICK after \in {"none", "torn", "whole"} :
          disk' = [r \in Runs |-> [f \in Artifacts |->
                     IF f \in synced[r] \/ disk[r][f] = "none" THEN disk[r][f] ELSE after]]
    BY <1>2 DEF PowerFailure
  <2>2. /\ pc' = [a \in Actors |-> "idle"] /\ run' = [a \in Actors |-> NoRun]
        /\ UNCHANGED <<synced, posts>>
    BY <1>2 DEF PowerFailure
  <2>3. PostTyped' /\ ActorsHaveRuns'
    BY <2>1, <2>2 DEF ActorsHaveRuns
  <2>4. SyncedInOrder'
    BY <2>1, <2>2 DEF SyncedInOrder, Artifacts
  <2>5. PostedOnce' /\ PostIsRemembered' /\ PreparedFirst' /\ MarkIsExclusive'
    BY <2>2 DEF PostedOnce, PostIsRemembered, PreparedFirst, MarkIsExclusive, Marking, Marked
  <2> QED
    BY <2>3, <2>4, <2>5
<1> QED
  BY <1>1, <1>2

LEMMA PostInvIsKept == PostInv /\ [PhoenixNext]_phoenixVars => PostInv'
<1> SUFFICES ASSUME PostInv, [PhoenixNext]_phoenixVars PROVE PostInv'
  OBVIOUS
<1>1. CASE UNCHANGED phoenixVars
  BY <1>1, NothingHere DEF phoenixVars, diskVars, actorVars, history
<1>2. CASE Ingest \/ LoseAccepted \/ Expire \/ Stray
  BY <1>2, NothingHere DEF Ingest, LoseAccepted, Expire, Stray, diskVars, actorVars, history
<1>3. ASSUME NEW a \in Actors, Tick(a) PROVE PostInv'
  BY <1>3, NothingHere DEF Tick, diskVars, history
<1>4. ASSUME NEW a \in Actors,
             Prepare(a) \/ Mark(a) \/ Post(a) \/ Read(a) \/ Return(a)
      PROVE  PostInv'
  BY <1>4, PrepareStep, MarkStep, PostStep, ReadStep
<1>5. CASE PowerFailure \/ \E a \in Actors : KillScript(a)
  BY <1>5, FaultStep
<1> QED
  BY <1>1, <1>2, <1>3, <1>4, <1>5 DEF PhoenixNext

\* No run is posted twice, whoever tries and whatever is killed or loses power.
\* (mark_attempt, seed_spans)
THEOREM NeverPostedTwice == PhoenixSpec => []PostedOnce
<1>1. PostInv => PostedOnce
  BY DEF PostInv
<1> QED
  BY <1>1, PostInitial, PostInvIsKept, PTL DEF PhoenixSpec

\* A run that was posted can be looked for, and is known to have been tried, after
\* any power failure.  (_write_durable, _fsync_dir)
THEOREM PostOutlivesPower == PhoenixSpec => []PostIsRemembered
<1>1. PostInv => PostIsRemembered
  BY DEF PostInv
<1> QED
  BY <1>1, PostInitial, PostInvIsKept, PTL DEF PhoenixSpec

-----------------------------------------------------------------------------
(* A verified run.  A walk has, up to its cursor, every record that has been *)
(* there since before it began, because a page leaves no record out below   *)
(* its last one; what it has of its run was in the store while it read.     *)

Record == [id : Nat, run : Runs \cup {NoRun}, span : Spans \cup {NoRun},
           shape : {"good", "changed", "malformed"}]

ReadTyped ==
  /\ inbox \subseteq Runs \X Spans
  /\ nextId \in Nat \ {0}
  /\ store \subseteq Record /\ IsFiniteSet(store)
  /\ \A x \in store : /\ 0 < x.id /\ x.id < nextId
                      /\ x.shape = "good" /\ x.run \in Runs => x.span \in Spans
  /\ cursor \in [Actors -> Nat]
  /\ got \in [Actors -> SUBSET Record]
  /\ wasThere \in [Actors -> SUBSET Spans]
  /\ throughout \in [Actors -> SUBSET store]

\* The good records of the actor's run in S.
GoodOf(a, S) == {x \in S : x.run = run[a] /\ x.shape = "good"}

Witnessed(a) == \A x \in GoodOf(a, store \cup got[a]) : x.span \in wasThere[a]

NothingSkipped(a) == \A x \in throughout[a] : x.id <= cursor[a] => x \in got[a]

ReceiptHolds(a) == /\ wasThere[a] = Spans
                   /\ \A x \in throughout[a] : x.run = run[a] => x.shape = "good"

ReadInv ==
  /\ ReadTyped
  /\ \A a \in Actors : /\ pc[a] = "walk" => Witnessed(a) /\ NothingSkipped(a)
                       /\ pc[a] = "verified" => ReceiptHolds(a)

\* A page that is not the last has a last record, and everything of the store
\* between the cursor and that record is on it.
LEMMA PageIsPrefix ==
  ASSUME PhoenixAssumption, ReadTyped, NEW a \in Actors, Rest(a) # Page(a),
         NEW last, last = CHOOSE n \in {x.id : x \in Page(a)} : \A x \in Page(a) : x.id <= n
  PROVE  /\ last \in Nat
         /\ \A x \in Rest(a) : x.id <= last => x \in Page(a)
<1> DEFINE Before(i) == {y \in Rest(a) : y.id < i}
<1>1. Rest(a) \subseteq store /\ Page(a) \subseteq Rest(a) /\ cursor[a] \in Nat
  BY DEF Rest, Page, ReadTyped
<1>2. \A x \in store : x.id \in Nat /\ x.id < nextId
  BY DEF ReadTyped, Record
<1>3. \A i : IsFiniteSet(Before(i)) /\ Cardinality(Before(i)) \in Nat
  <2> SUFFICES ASSUME NEW i PROVE IsFiniteSet(Before(i))
    BY FS_CardinalityType
  <2>1. Before(i) \in SUBSET store
    BY <1>1
  <2> QED
    BY <2>1, FS_Subset DEF ReadTyped
<1>4. Page(a) # {}
  <2> DEFINE S == {x.id : x \in Rest(a)}
  <2>1. S \in SUBSET Nat /\ S # {}
    BY <1>1, <1>2
  <2>2. PICK m \in S : \A n \in S : m <= n
    BY <2>1, LeastNumber
  <2>3. PICK x \in Rest(a) : x.id = m
    BY <2>2
  <2>4. \A y \in Rest(a) : x.id <= y.id
    BY <2>2, <2>3
  <2>5. Before(x.id) = {}
    BY <1>1, <1>2, <2>4
  <2>6. Cardinality(Before(x.id)) = 0
    <3> HIDE DEF Before
    <3> QED
      BY <2>5, FS_EmptySet
  <2> QED
    BY <2>6 DEF Page, PhoenixAssumption
<1>5. last \in {x.id : x \in Page(a)} /\ \A x \in Page(a) : x.id <= last
  <2> DEFINE S == {x.id : x \in Page(a)}
  <2>1. S \in SUBSET Nat /\ S # {} /\ \A n \in S : n < nextId
    BY <1>1, <1>2, <1>4
  <2>2. PICK m \in S : \A n \in S : n <= m
    BY <2>1, GreatestNumber DEF ReadTyped
  <2>3. m \in {x.id : x \in Page(a)} /\ \A x \in Page(a) : x.id <= m
    BY <2>2
  <2> QED
    BY <2>3
<1>6. PICK z \in Page(a) : z.id = last
  BY <1>5
<1>7. ASSUME NEW x \in Rest(a), x.id <= last
      PROVE  x \in Page(a)
  <2>1. Before(x.id) \in SUBSET Before(z.id)
    <3>1. \A y \in Rest(a) : y.id \in Nat
      BY <1>1, <1>2
    <3>2. x.id \in Nat /\ z.id \in Nat /\ x.id <= z.id
      BY <1>1, <1>6, <1>7, <3>1
    <3>3. \A y \in Rest(a) : y.id < x.id => y.id < z.id
      BY <3>1, <3>2
    <3> QED
      BY <3>3
  <2>2. Cardinality(Before(x.id)) <= Cardinality(Before(z.id))
    BY <1>3, <2>1, FS_Subset
  <2>3. Cardinality(Before(z.id)) < PageSize
    BY <1>6 DEF Page
  <2>4. Cardinality(Before(x.id)) < PageSize
    <3> HIDE DEF Before
    <3> QED
      BY <1>3, <2>2, <2>3 DEF PhoenixAssumption
  <2> QED
    BY <2>4 DEF Page
<1> QED
  BY <1>1, <1>2, <1>5, <1>6, <1>7

LEMMA ReadInitial == PhoenixInit => ReadInv
BY FS_EmptySet DEF PhoenixInit, ReadInv, ReadTyped, Record

\* Everything a walk or a receipt speaks of stays as it is.
LEMMA ReadStays ==
  ASSUME ReadInv, UNCHANGED <<pc, run, cursor, got, store, wasThere, throughout>>,
         UNCHANGED nextId, inbox' \subseteq Runs \X Spans
  PROVE  ReadInv'
BY DEF ReadInv, ReadTyped, Record, GoodOf, Witnessed, NothingSkipped, ReceiptHolds

\* An actor goes somewhere else, and what is recorded of the others stays.
LEMMA ReadElsewhere ==
  ASSUME ReadInv, PostTyped, NEW a \in Actors, NEW s \in Places \ {"walk", "verified"},
         NEW q \in Runs \cup {NoRun},
         pc' = [pc EXCEPT ![a] = s], run' = [run EXCEPT ![a] = q],
         \/ UNCHANGED <<cursor, got, wasThere, throughout>>
         \/ /\ cursor' = [cursor EXCEPT ![a] = 0] /\ got' = [got EXCEPT ![a] = {}]
            /\ wasThere' = [wasThere EXCEPT ![a] = {}]
            /\ throughout' = [throughout EXCEPT ![a] = {}],
         UNCHANGED <<store, nextId>>, inbox' \subseteq Runs \X Spans
  PROVE  ReadInv'
<1>1. ReadTyped'
  BY DEF ReadInv, ReadTyped, Record
<1>2. pc'[a] \notin {"walk", "verified"}
  BY DEF PostTyped
<1>3. ASSUME NEW b \in Actors, b # a
      PROVE  /\ pc'[b] = "walk" => Witnessed(b)' /\ NothingSkipped(b)'
             /\ pc'[b] = "verified" => ReceiptHolds(b)'
  <2>1. /\ pc'[b] = pc[b] /\ run'[b] = run[b] /\ cursor'[b] = cursor[b]
        /\ got'[b] = got[b] /\ wasThere'[b] = wasThere[b] /\ throughout'[b] = throughout[b]
    BY <1>3 DEF PostTyped, ReadInv, ReadTyped
  <2> QED
    BY <1>3, <2>1 DEF ReadInv, GoodOf, Witnessed, NothingSkipped, ReceiptHolds
<1> QED
  BY <1>1, <1>2, <1>3 DEF ReadInv

LEMMA ReadEnds ==
  ASSUME ReadInv, PostTyped, NEW a \in Actors, End(a), UNCHANGED <<store, nextId>>,
         inbox' \subseteq Runs \X Spans
  PROVE  ReadInv'
<1>1. "idle" \in Places \ {"walk", "verified"}
  BY DEF Places
<1> QED
  BY <1>1, ReadElsewhere DEF End, Goto

LEMMA ReadGoesOn ==
  ASSUME ReadInv, PostTyped, NEW a \in Actors, NEW s \in Places \ {"walk", "verified"},
         GoOn(a, s), UNCHANGED <<store, nextId>>, inbox' \subseteq Runs \X Spans
  PROVE  ReadInv'
<1>1. run' = [run EXCEPT ![a] = run[a]] /\ run[a] \in Runs \cup {NoRun}
  BY DEF GoOn, PostTyped
<1> QED
  BY <1>1, ReadElsewhere DEF GoOn, Goto

LEMMA ReadPreparing ==
  ASSUME ReadInv, PostInv, NEW a \in Actors, Prepare(a) \/ Mark(a)
  PROVE  ReadInv'
<1> USE DEF PostInv
<1>1. UNCHANGED <<store, nextId, inbox>> /\ inbox' \subseteq Runs \X Spans
  BY DEF Prepare, Mark, StartSeed, Write, SyncRun, MarkByHand, LookForMark, WriteMark,
         SyncMark, storeVars, ReadInv, ReadTyped
<1>2. {"expected", "prepared", "sync", "look", "mark", "marked", "post"}
        \subseteq Places \ {"walk", "verified"}
  BY DEF Places
<1>3. CASE Fail(a)
  BY <1>1, <1>3, ReadEnds DEF Fail
<1>4. ASSUME NEW s \in {"prepared", "sync", "mark", "marked"}, GoOn(a, s) PROVE ReadInv'
  BY <1>1, <1>2, <1>4, ReadGoesOn
<1>5. CASE StartSeed(a) \/ MarkByHand(a)
  <2>1. PICK r \in Runs : run' = [run EXCEPT ![a] = r]
    BY <1>5 DEF StartSeed, MarkByHand
  <2>2. PICK s \in {"expected", "look"} : pc' = [pc EXCEPT ![a] = s]
    BY <1>5 DEF StartSeed, MarkByHand, Goto
  <2>3. UNCHANGED <<cursor, got, wasThere, throughout>>
    BY <1>5 DEF StartSeed, MarkByHand, history
  <2> QED
    BY <1>1, <1>2, <2>1, <2>2, <2>3, ReadElsewhere
<1>6. CASE SyncRun(a) \/ SyncMark(a)
  <2>1. PICK s \in {"look", "post"} : GoOn(a, s)
    BY <1>6 DEF SyncRun, SyncMark, GoOn, history
  <2> QED
    BY <1>1, <1>2, <2>1, ReadGoesOn
<1> QED
  BY <1>3, <1>4, <1>5, <1>6 DEF Prepare, Mark, Write, WriteMark, LookForMark

\* A reading begins with what is there.
LEMMA ReadBegins ==
  ASSUME ReadInv, PostTyped, NEW a \in Actors, NEW r \in Runs, StartReading(a, r),
         run' = [run EXCEPT ![a] = r], UNCHANGED <<store, nextId>>,
         inbox' \subseteq Runs \X Spans
  PROVE  ReadInv'
<1>1. StoredSpans(r) \in SUBSET Spans
  BY DEF StoredSpans, ReadInv, ReadTyped
<1>2. ReadTyped'
  BY <1>1 DEF StartReading, NewWalk, ReadInv, ReadTyped, Record
<1>3. /\ pc'[a] = "walk" /\ run'[a] = r /\ cursor'[a] = 0 /\ got'[a] = {}
      /\ wasThere'[a] = StoredSpans(r) /\ throughout'[a] = store
      /\ UNCHANGED store
  BY DEF StartReading, NewWalk, Goto, PostTyped, ReadInv, ReadTyped
<1>4. Witnessed(a)'
  BY <1>3 DEF Witnessed, GoodOf, StoredSpans
<1>5. NothingSkipped(a)'
  BY <1>3 DEF NothingSkipped, ReadInv, ReadTyped, Record
<1>6. ASSUME NEW b \in Actors, b # a
      PROVE  /\ pc'[b] = "walk" => Witnessed(b)' /\ NothingSkipped(b)'
             /\ pc'[b] = "verified" => ReceiptHolds(b)'
  <2>1. /\ pc'[b] = pc[b] /\ run'[b] = run[b] /\ cursor'[b] = cursor[b]
        /\ got'[b] = got[b] /\ wasThere'[b] = wasThere[b] /\ throughout'[b] = throughout[b]
    BY <1>6 DEF StartReading, NewWalk, Goto, PostTyped, ReadInv, ReadTyped
  <2> QED
    BY <1>6, <2>1 DEF ReadInv, GoodOf, Witnessed, NothingSkipped, ReceiptHolds
<1> QED
  BY <1>2, <1>3, <1>4, <1>5, <1>6 DEF ReadInv

LEMMA ReadWalksAgain ==
  ASSUME ReadInv, PostTyped, NEW a \in Actors, pc[a] = "walk", WalkAgain(a),
         UNCHANGED <<store, nextId, inbox>>
  PROVE  ReadInv'
<1>1. ReadTyped'
  BY DEF WalkAgain, NewWalk, ReadInv, ReadTyped, Record
<1>2. /\ UNCHANGED <<pc, run, wasThere, store>>
      /\ cursor'[a] = 0 /\ got'[a] = {} /\ throughout'[a] = store
  BY DEF WalkAgain, NewWalk, ReadInv, ReadTyped
<1>3. NothingSkipped(a)'
  BY <1>2 DEF NothingSkipped, ReadInv, ReadTyped, Record
<1>4. pc[a] = "walk" => Witnessed(a)'
  BY <1>2 DEF Witnessed, GoodOf, ReadInv
<1>5. ASSUME NEW b \in Actors, b # a
      PROVE  /\ pc'[b] = "walk" => Witnessed(b)' /\ NothingSkipped(b)'
             /\ pc'[b] = "verified" => ReceiptHolds(b)'
  <2>1. /\ cursor'[b] = cursor[b] /\ got'[b] = got[b] /\ throughout'[b] = throughout[b]
    BY <1>5 DEF WalkAgain, NewWalk, ReadInv, ReadTyped
  <2> QED
    BY <1>2, <1>5, <2>1 DEF ReadInv, GoodOf, Witnessed, NothingSkipped, ReceiptHolds
<1> QED
  BY <1>1, <1>2, <1>3, <1>4, <1>5 DEF ReadInv

\* A page is read, and the cursor is on its last record.
LEMMA ReadTurns ==
  ASSUME ReadInv, PhoenixAssumption, NEW a \in Actors, pc[a] = "walk", Rest(a) # Page(a),
         got' = [got EXCEPT ![a] = @ \cup Page(a)],
         cursor' = [cursor EXCEPT ![a] = CHOOSE n \in {x.id : x \in Page(a)} :
                                           \A x \in Page(a) : x.id <= n],
         UNCHANGED <<pc, run, wasThere, throughout, store, nextId, inbox>>
  PROVE  ReadInv'
<1> DEFINE last == CHOOSE n \in {x.id : x \in Page(a)} : \A x \in Page(a) : x.id <= n
<1>1. last \in Nat /\ \A x \in Rest(a) : x.id <= last => x \in Page(a)
  BY PageIsPrefix DEF ReadInv
<1>2. cursor' = [cursor EXCEPT ![a] = last]
  OBVIOUS
<1> HIDE DEF last
<1>3. Page(a) \subseteq store
  BY DEF Page, Rest
<1>4. ReadTyped'
  BY <1>1, <1>2, <1>3 DEF ReadInv, ReadTyped, Record
<1>5. cursor'[a] = last /\ got'[a] = got[a] \cup Page(a)
  BY <1>2 DEF ReadInv, ReadTyped
<1>6. Witnessed(a)'
  BY <1>3, <1>5 DEF Witnessed, GoodOf, ReadInv
<1>7. NothingSkipped(a)'
  <2>1. ASSUME NEW x \in throughout[a], x.id <= last PROVE x \in got[a] \cup Page(a)
    <3>1. x \in store /\ x.id \in Nat /\ cursor[a] \in Nat
      BY DEF ReadInv, ReadTyped, Record
    <3>2. CASE x.id <= cursor[a]
      BY <3>2 DEF ReadInv, NothingSkipped
    <3>3. CASE x.id > cursor[a]
      BY <1>1, <2>1, <3>1, <3>3 DEF Rest
    <3> QED
      BY <3>1, <3>2, <3>3
  <2> QED
    BY <1>5, <2>1 DEF NothingSkipped
<1>8. ASSUME NEW b \in Actors, b # a
      PROVE  /\ pc'[b] = "walk" => Witnessed(b)' /\ NothingSkipped(b)'
             /\ pc'[b] = "verified" => ReceiptHolds(b)'
  <2>1. cursor'[b] = cursor[b] /\ got'[b] = got[b]
    BY <1>2, <1>8 DEF ReadInv, ReadTyped
  <2> QED
    BY <1>8, <2>1 DEF ReadInv, GoodOf, Witnessed, NothingSkipped, ReceiptHolds
<1> QED
  BY <1>4, <1>6, <1>7, <1>8 DEF ReadInv

\* After the last page everything that was there throughout has been read, and
\* everything of the run that was read has been there.
LEMMA ReadVerifies ==
  ASSUME ReadInv, PostInv, NEW a \in Actors, pc[a] = "walk", Rest(a) = Page(a),
         Exact(got[a] \cup Page(a), run[a]), Verified(a),
         UNCHANGED <<store, nextId, inbox>>
  PROVE  ReadInv'
<1> DEFINE G == got[a] \cup Page(a)
<1>1. /\ pc' = [pc EXCEPT ![a] = "verified"]
      /\ UNCHANGED <<run, cursor, got, wasThere, throughout>>
  BY DEF Verified, Goto
<1>2. run[a] \in Runs /\ pc \in [Actors -> Places]
  BY DEF PostInv, PostTyped, ActorsHaveRuns
<1>3. Page(a) \subseteq store
  BY DEF Page, Rest
<1>4. wasThere[a] = Spans
  <2>1. \A x \in Selected(G, run[a]) : x.span \in wasThere[a]
    BY <1>3 DEF Exact, Selected, ReadInv, Witnessed, GoodOf
  <2>2. {x.span : x \in Selected(G, run[a])} = Spans
    BY DEF Exact
  <2>3. wasThere[a] \subseteq Spans
    BY DEF ReadInv, ReadTyped
  <2> QED
    BY <2>1, <2>2, <2>3
<1>5. throughout[a] \subseteq G
  <2> SUFFICES ASSUME NEW x \in throughout[a], x \notin got[a] PROVE x \in Rest(a)
    OBVIOUS
  <2>1. x \in store /\ x.id \in Nat /\ cursor[a] \in Nat
    BY DEF ReadInv, ReadTyped, Record
  <2>2. ~ (x.id <= cursor[a])
    BY DEF ReadInv, NothingSkipped
  <2> QED
    BY <2>1, <2>2 DEF Rest
<1>6. ReceiptHolds(a)'
  BY <1>1, <1>4, <1>5 DEF ReceiptHolds, Exact, Selected
<1>7. ReadTyped'
  BY <1>1 DEF ReadInv, ReadTyped, Record
<1> QED
  BY <1>1, <1>2, <1>6, <1>7
     DEF ReadInv, GoodOf, Witnessed, NothingSkipped, ReceiptHolds

LEMMA ReadReading ==
  ASSUME ReadInv, PostInv, PhoenixAssumption, NEW a \in Actors, Read(a) \/ Return(a)
  PROVE  ReadInv'
<1>1. UNCHANGED <<store, nextId, inbox>> /\ inbox' \subseteq Runs \X Spans
  BY DEF Read, Return, StartVerify, ReadPage, PageFails, DeadlineExpires, storeVars,
         ReadInv, ReadTyped
<1>2. CASE Fail(a)
  BY <1>1, <1>2, ReadEnds DEF Fail, PostInv
<1>3. CASE StartVerify(a)
  <2>1. PICK r \in Runs : run' = [run EXCEPT ![a] = r] /\ StartReading(a, r)
    BY <1>3 DEF StartVerify
  <2> QED
    BY <1>1, <2>1, ReadBegins DEF PostInv
<1>4. CASE pc[a] = "walk" /\ WalkAgain(a)
  BY <1>1, <1>4, ReadWalksAgain DEF PostInv
<1>5. CASE ReadPage(a)
  <2>1. CASE Rest(a) = Page(a) /\ Judge(a, got[a] \cup Page(a))
    BY <1>1, <1>2, <1>4, <1>5, <2>1, ReadVerifies DEF ReadPage, Judge
  <2>2. CASE /\ Rest(a) # Page(a)
             /\ got' = [got EXCEPT ![a] = @ \cup Page(a)]
             /\ cursor' = [cursor EXCEPT ![a] =
                             CHOOSE n \in {x.id : x \in Page(a)} :
                               \A x \in Page(a) : x.id <= n]
             /\ UNCHANGED <<pc, run, wasThere, throughout>>
    BY <1>1, <1>5, <2>2, ReadTurns DEF ReadPage
  <2> QED
    BY <1>2, <1>5, <2>1, <2>2 DEF ReadPage
<1>6. CASE PageFails(a)
  BY <1>2, <1>4, <1>6 DEF PageFails
<1>7. CASE DeadlineExpires(a)
  BY <1>2, <1>7 DEF DeadlineExpires
<1>8. CASE Return(a)
  BY <1>1, <1>8, ReadEnds DEF Return, PostInv
<1> QED
  BY <1>3, <1>5, <1>6, <1>7, <1>8 DEF Read

LEMMA ReadPosting ==
  ASSUME ReadInv, PostInv, NEW a \in Actors, Post(a)
  PROVE  ReadInv'
<1>1. run[a] \in Runs /\ PostTyped
  BY DEF Post, PostInv, ActorsHaveRuns
<1>2. UNCHANGED <<store, nextId>> /\ inbox' \subseteq Runs \X Spans
  BY <1>1 DEF Post, ReadInv, ReadTyped
<1>3. CASE StartReading(a, run[a]) /\ UNCHANGED run
  <2>1. run' = [run EXCEPT ![a] = run[a]]
    BY <1>1, <1>3 DEF PostTyped
  <2> QED
    BY <1>1, <1>2, <1>3, <2>1, ReadBegins
<1>4. CASE Fail(a)
  BY <1>1, <1>2, <1>4, ReadEnds DEF Fail
<1> QED
  BY <1>3, <1>4 DEF Post

\* A record is added: whoever reads that run has seen its span come.
LEMMA ReadAdds ==
  ASSUME ReadInv, NEW r \in Runs \cup {NoRun}, NEW k \in Spans \cup {NoRun},
         NEW shape \in {"good", "changed", "malformed"},
         shape = "good" /\ r \in Runs => k \in Spans,
         \A a \in Actors : pc[a] = "walk" => run[a] \in Runs,
         Add(r, k, shape), inbox' \subseteq Runs \X Spans,
         UNCHANGED <<pc, run, cursor, got, throughout>>
  PROVE  ReadInv'
<1> DEFINE new == [id |-> nextId, run |-> r, span |-> k, shape |-> shape]
<1>1. /\ store' = store \cup {new} /\ nextId' = nextId + 1
      /\ new \in Record /\ new.id = nextId /\ new.run = r /\ new.span = k
      /\ new.shape = shape
  BY DEF Add, Record, ReadInv, ReadTyped
<1>2. \A a \in Actors : /\ wasThere'[a] \subseteq Spans /\ wasThere[a] \subseteq wasThere'[a]
                        /\ pc[a] = "walk" /\ run[a] = r /\ shape = "good"
                             => k \in wasThere'[a]
                        /\ pc[a] # "walk" => wasThere'[a] = wasThere[a]
  BY DEF Add, ReadInv, ReadTyped
<1> HIDE DEF new
<1>3. ReadTyped'
  <2>1. IsFiniteSet(store')
    BY <1>1, FS_AddElement DEF ReadInv, ReadTyped
  <2>2. wasThere' \in [Actors -> SUBSET Spans]
    BY <1>2 DEF Add
  <2>3. \A x \in store' : /\ 0 < x.id /\ x.id < nextId'
                          /\ x.shape = "good" /\ x.run \in Runs => x.span \in Spans
    <3>1. \A x \in store : x.id \in Nat /\ x.id < nextId + 1
      BY DEF ReadInv, ReadTyped, Record
    <3> QED
      BY <1>1, <3>1 DEF ReadInv, ReadTyped
  <2> QED
    BY <1>1, <2>1, <2>2, <2>3 DEF ReadInv, ReadTyped, Record
<1>4. ASSUME NEW a \in Actors, pc[a] = "walk" PROVE Witnessed(a)' /\ NothingSkipped(a)'
  <2>1. NothingSkipped(a)'
    BY <1>4 DEF NothingSkipped, ReadInv
  <2>2. \A x \in GoodOf(a, store \cup got[a]) : x.span \in wasThere'[a]
    BY <1>2, <1>4 DEF Witnessed, ReadInv
  <2>3. new.run = run[a] /\ new.shape = "good" => new.span \in wasThere'[a]
    BY <1>1, <1>2, <1>4
  <2> QED
    BY <1>1, <2>1, <2>2, <2>3 DEF Witnessed, GoodOf
<1>5. ASSUME NEW a \in Actors, pc[a] = "verified" PROVE ReceiptHolds(a)'
  BY <1>2, <1>5 DEF ReceiptHolds, ReadInv
<1> QED
  BY <1>3, <1>4, <1>5 DEF ReadInv

LEMMA ReadStoring ==
  ASSUME ReadInv, PostInv, PhoenixAssumption, Ingest \/ LoseAccepted \/ Expire \/ Stray
  PROVE  ReadInv'
<1>1. \A a \in Actors : pc[a] = "walk" => run[a] \in Runs
  BY DEF PostInv, ActorsHaveRuns
<1>2. CASE Ingest
  <2>1. PICK x \in inbox : inbox' = inbox \ {x} /\ Add(x[1], x[2], "good")
    BY <1>2 DEF Ingest
  <2>2. x[1] \in Runs /\ x[2] \in Spans /\ inbox' \subseteq Runs \X Spans
    BY <2>1 DEF ReadInv, ReadTyped
  <2>3. UNCHANGED <<pc, run, cursor, got, throughout>>
    BY <1>2 DEF Ingest, actorVars
  <2> QED
    BY <1>1, <2>1, <2>2, <2>3, ReadAdds
<1>3. CASE Stray
  <2>1. UNCHANGED <<pc, run, cursor, got, throughout>> /\ inbox' \subseteq Runs \X Spans
    BY <1>3 DEF Stray, actorVars, ReadInv, ReadTyped
  <2>2. CASE \E r \in Runs, k \in Spans : Add(r, k, "changed")
    BY <1>1, <2>1, <2>2, ReadAdds
  <2>3. CASE \E shape \in {"good", "malformed"} : Add(NoRun, NoRun, shape)
    BY <1>1, <2>1, <2>3, ReadAdds DEF PhoenixAssumption
  <2> QED
    BY <1>3, <2>2, <2>3 DEF Stray
<1>4. CASE LoseAccepted
  <2>1. UNCHANGED <<pc, run, cursor, got, store, wasThere, throughout, nextId>>
    BY <1>4 DEF LoseAccepted, actorVars, history
  <2>2. inbox' \subseteq Runs \X Spans
    BY <1>4 DEF LoseAccepted, ReadInv, ReadTyped
  <2> QED
    BY <2>1, <2>2, ReadStays
<1>5. CASE Expire
  <2>1. PICK x \in store : /\ store' = store \ {x}
                           /\ throughout' = [a \in Actors |-> throughout[a] \ {x}]
    BY <1>5 DEF Expire
  <2>2. UNCHANGED <<pc, run, cursor, got, wasThere, inbox, nextId>>
    BY <1>5 DEF Expire, actorVars
  <2>3. IsFiniteSet(store')
    BY <2>1, FS_RemoveElement DEF ReadInv, ReadTyped
  <2>4. ReadTyped'
    BY <2>1, <2>2, <2>3 DEF ReadInv, ReadTyped, Record
  <2> QED
    BY <2>1, <2>2, <2>4 DEF ReadInv, GoodOf, Witnessed, NothingSkipped, ReceiptHolds
<1> QED
  BY <1>2, <1>3, <1>4, <1>5

LEMMA ReadFaults ==
  ASSUME ReadInv, PostInv, PowerFailure \/ \E a \in Actors : KillScript(a)
  PROVE  ReadInv'
<1>1. CASE PowerFailure
  BY <1>1 DEF PowerFailure, ReadInv, ReadTyped, Record
<1>2. ASSUME NEW a \in Actors, KillScript(a) PROVE ReadInv'
  <2>1. UNCHANGED <<store, nextId, inbox>> /\ inbox' \subseteq Runs \X Spans
    BY <1>2 DEF KillScript, storeVars, ReadInv, ReadTyped
  <2>2. CASE Fail(a)
    BY <2>1, <2>2, ReadEnds DEF Fail, PostInv
  <2>3. CASE UNCHANGED <<actorVars, wasThere, throughout>>
    BY <2>1, <2>3, ReadStays DEF actorVars
  <2> QED
    BY <1>2, <2>2, <2>3 DEF KillScript
<1> QED
  BY <1>1, <1>2

LEMMA ReadInvIsKept ==
  PhoenixAssumption /\ PostInv /\ ReadInv /\ [PhoenixNext]_phoenixVars => ReadInv'
<1> SUFFICES ASSUME PhoenixAssumption, PostInv, ReadInv, [PhoenixNext]_phoenixVars
             PROVE  ReadInv'
  OBVIOUS
<1>1. inbox \subseteq Runs \X Spans
  BY DEF ReadInv, ReadTyped
<1>2. CASE UNCHANGED phoenixVars
  BY <1>1, <1>2, ReadStays DEF phoenixVars, actorVars, storeVars, history
<1>3. ASSUME NEW a \in Actors, Tick(a) PROVE ReadInv'
  BY <1>1, <1>3, ReadStays DEF Tick, storeVars, history
<1>4. ASSUME NEW a \in Actors,
             Prepare(a) \/ Mark(a) \/ Post(a) \/ Read(a) \/ Return(a)
      PROVE  ReadInv'
  BY <1>4, ReadPreparing, ReadPosting, ReadReading
<1>5. CASE Ingest \/ LoseAccepted \/ Expire \/ Stray
  BY <1>5, ReadStoring
<1>6. CASE PowerFailure \/ \E a \in Actors : KillScript(a)
  BY <1>6, ReadFaults
<1> QED
  BY <1>2, <1>3, <1>4, <1>5, <1>6 DEF PhoenixNext

\* A receipt says no more than was the case: every span of the run was stored
\* while it was read, and nothing wrong of it was there all the while, for any
\* page size and any storing and expiring in between.  (compare_run, _page_walk)
THEOREM ReceiptIsExact == PhoenixSpec => []VerifiedIsExact
<1>1. ReadInv => VerifiedIsExact
  BY DEF ReadInv, ReceiptHolds, VerifiedIsExact
<1> QED
  BY <1>1, PostInitial, PostInvIsKept, ReadInitial, ReadInvIsKept, PhoenixAssumption, PTL
     DEF PhoenixSpec
=============================================================================
