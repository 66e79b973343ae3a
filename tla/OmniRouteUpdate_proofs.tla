------------------------ MODULE OmniRouteUpdate_proofs ------------------------
(***************************************************************************)
(* Safety of the updater for any number of runs, changes and signals: type *)
(* correctness, exclusion of committers, verdicts and files that belong to *)
(* the run, no container touched but its own, and the refinement of        *)
(* UpdatePromise.                                                          *)
(***************************************************************************)
EXTENDS OmniRouteUpdate, TLAPS

(* Type correctness, one part of the state at a time.                      *)

\* No action takes the containers, the tag or the counters out of their types.
LEMMA BackendTyped == ASSUME TypeOK, [Next]_vars PROVE BackendOK'
<1> USE DEF TypeOK, BackendOK
<1>1. ASSUME NEW u \in Updaters, Shell(u) PROVE BackendOK'
  BY <1>1 DEF Shell, Start, TakeLock, Refuse, Preflight, Resolve, Apply,
     StartObserver, Poll, PollDeadline, PollWait, PollReady, Rebaseline,
     PollDefer, PollSilence, PrepareCommit, DropTraps, SpawnWorker, Reap, Goto,
     ExitShell, backend
<1>2. ASSUME NEW u \in Updaters, Observer(u) \/ Signals(u) \/ DeadlinePasses(u)
      PROVE  BackendOK'
  BY <1>2 DEF Observer, Sample, Orphaned, ObserverFails, Signals, Kill,
     Terminate, ExitShell, DeadlinePasses, backend
<1>3. ASSUME NEW u \in Updaters, Worker(u) PROVE BackendOK'
  <2>1. CASE Tag(u)
    BY <2>1 DEF Tag, TypeOK, Jobs
  <2>2. CASE Stop(u) \/ Remove(u)
    BY <2>2 DEF Stop, Remove, IsBaseline, Containers
  <2>3. CASE Up(u)
    <3>1. job[u].img \in Images
      BY DEF Jobs
    <3>2. target' \in Containers /\ stamp' \in Nat
      <4>1. CASE target = None
        BY <2>3, <3>1, <4>1 DEF Up, Containers
      <4>2. CASE target # None
        <5> DEFINE since == IF target.up THEN target.started ELSE stamp
        <5>1. target \in Containers /\ since \in Nat
          BY <4>2 DEF Containers
        <5>2. target' = [target EXCEPT !.up = TRUE, !.started = since]
          BY <2>3, <4>2, <5>1 DEF Up, Containers
        <5>3. stamp' \in Nat
          BY <2>3 DEF Up
        <5> HIDE DEF since
        <5> QED BY <5>1, <5>2, <5>3 DEF Containers
      <4> QED BY <4>1, <4>2
    <3> QED BY <2>3, <3>2 DEF Up
  <2>4. CASE \/ CheckBudget(u) \/ Recheck(u) \/ LastLook(u) \/ CheckName(u)
             \/ Verify(u) \/ FailStage(u) \/ Timeout(u)
    BY <2>4 DEF CheckBudget, Recheck, LastLook, GiveUp,
                CheckName, Verify, FailStage,
       Timeout, backend
  <2> QED BY <1>3, <2>1, <2>2, <2>3, <2>4 DEF Worker
<1>4. CASE Others
  <2>1. ASSUME target # None PROVE [target EXCEPT !.up = FALSE] \in Containers
    BY <2>1 DEF Containers
  <2>2. ASSUME target # None PROVE Restarted \in Containers
    BY <2>2 DEF Restarted, Containers
  <2>3. MayChange => changes' \in 0 .. MaxChanges
    BY UpdateAssumption DEF MayChange
  <2>4. CASE StuckRestart
    BY <2>2, <2>3, <2>4 DEF StuckRestart
  <2>5. CASE LockForRecycle \/ Recycle
    BY <2>2, <2>3, <2>5 DEF LockForRecycle, Recycle
  <2>6. CASE Operator
    <3>1. [id |-> stamp, img |-> tag, started |-> stamp, up |-> TRUE] \in Containers
      BY DEF Containers
    <3>2. target' \in Containers \cup {None}
      BY <2>1, <2>6, <3>1 DEF Operator
    <3> QED BY <2>3, <2>6, <3>2 DEF Operator
  <2> QED BY <1>4, <2>4, <2>5, <2>6 DEF Others
<1>5. CASE UNCHANGED vars
  BY <1>5 DEF vars, backend
<1> QED BY <1>1, <1>2, <1>3, <1>4, <1>5 DEF Next

\* The lock is held by a run, by the healer or by nobody, through known
\* descriptors.
LEMMA LockTyped == ASSUME TypeOK, [Next]_vars PROVE LockOK'
<1> USE DEF TypeOK, LockOK
<1>1. ASSUME NEW u \in Updaters, Shell(u) PROVE LockOK'
  <2>1. CASE SpawnWorker(u) \/ TakeLock(u)
    BY <2>1 DEF SpawnWorker, TakeLock, ExitShell, Close, locking
  <2>2. CASE \/ Refuse(u) \/ Resolve(u) \/ PollDeadline(u) \/ PollDefer(u)
             \/ PollSilence(u) \/ Reap(u)
    BY <2>2 DEF Refuse, Resolve, PollDeadline, PollDefer, PollSilence, Reap,
       ExitShell, Close, locking
  <2>3. CASE \/ Start(u) \/ Preflight(u) \/ Apply(u) \/ StartObserver(u)
             \/ PollWait(u) \/ PollReady(u) \/ Rebaseline(u)
             \/ PrepareCommit(u) \/ DropTraps(u)
    BY <2>3 DEF Start, Preflight, Apply, StartObserver, PollWait, PollReady,
       Rebaseline, PrepareCommit, DropTraps, locking
  <2> QED BY <1>1, <2>1, <2>2, <2>3 DEF Shell, Poll
<1>2. ASSUME NEW u \in Updaters, Observer(u) \/ Signals(u) \/ DeadlinePasses(u)
      PROVE  LockOK'
  BY <1>2 DEF Observer, Sample, Orphaned, ObserverFails, Signals, Kill,
     Terminate, ExitShell, DeadlinePasses, Close, locking
<1>3. ASSUME NEW u \in Updaters, Worker(u) PROVE LockOK'
  BY <1>3 DEF Worker, CheckBudget, Recheck, LastLook, GiveUp,
              Tag, Stop, Remove,
     CheckName, Up, Verify, FailStage, Timeout, Advance, EndWorker, Close,
     locking
<1>4. CASE Others
  BY <1>4 DEF Others, StuckRestart, LockForRecycle, Recycle, Operator, Close,
     locking
<1>5. CASE UNCHANGED vars
  BY <1>5 DEF vars, locking
<1> QED BY <1>1, <1>2, <1>3, <1>4, <1>5 DEF Next

\* Shells, observers and workers stay at known program counters.
LEMMA ProcsTyped == ASSUME TypeOK, [Next]_vars PROVE ProcsOK'
<1> USE DEF TypeOK, ProcsOK, ShellPCs, WorkerPCs, Stages
<1>1. ASSUME NEW u \in Updaters, Shell(u) PROVE ProcsOK'
  <2>1. CASE \/ Start(u) \/ Preflight(u) \/ Apply(u) \/ StartObserver(u)
             \/ Rebaseline(u) \/ PrepareCommit(u) \/ DropTraps(u)
    BY <2>1 DEF Start, Preflight, Apply, StartObserver, Rebaseline,
       PrepareCommit, DropTraps, Goto
  <2>2. CASE \/ TakeLock(u) \/ Refuse(u) \/ Resolve(u) \/ PollDeadline(u)
             \/ PollDefer(u) \/ PollSilence(u)
    BY <2>2 DEF TakeLock, Refuse, Resolve, PollDeadline, PollDefer,
       PollSilence, ExitShell, Goto
  <2>3. CASE PollWait(u) \/ PollReady(u) \/ SpawnWorker(u) \/ Reap(u)
    BY <2>3 DEF PollWait, PollReady, SpawnWorker, Reap, Goto, procs
  <2> QED BY <1>1, <2>1, <2>2, <2>3 DEF Shell, Poll
<1>2. ASSUME NEW u \in Updaters, Observer(u) \/ Signals(u) \/ DeadlinePasses(u)
      PROVE  ProcsOK'
  BY <1>2 DEF Observer, Sample, Orphaned, ObserverFails, Signals, Kill,
     Terminate, ExitShell, DeadlinePasses, procs
<1>3. ASSUME NEW u \in Updaters, Worker(u) PROVE ProcsOK'
  <2>1. CASE \/ CheckBudget(u) \/ Recheck(u) \/ LastLook(u)
    BY <2>1 DEF CheckBudget, Recheck, LastLook, GiveUp, Advance, EndWorker
  <2>2. CASE Tag(u) \/ Stop(u) \/ Remove(u) \/ CheckName(u) \/ Up(u)
    BY <2>2 DEF Tag, Stop, Remove, CheckName, Up, Advance
  <2>3. CASE Verify(u) \/ FailStage(u) \/ Timeout(u)
    BY <2>3 DEF Verify, FailStage, Timeout, EndWorker
  <2> QED BY <1>3, <2>1, <2>2, <2>3 DEF Worker
<1>4. CASE Others
  BY <1>4 DEF Others, StuckRestart, LockForRecycle, Recycle, Operator, procs
<1>5. CASE UNCHANGED vars
  BY <1>5 DEF vars, procs
<1> QED BY <1>1, <1>2, <1>3, <1>4, <1>5 DEF Next

\* Result lines are among Outcomes.
LEMMA ResultsTyped == ASSUME TypeOK, [Next]_vars PROVE ResultsOK'
<1> USE DEF TypeOK, ResultsOK, Outcomes
<1>1. ASSUME NEW u \in Updaters, Shell(u) PROVE ResultsOK'
  <2>1. CASE \/ Start(u) \/ Preflight(u) \/ Apply(u) \/ StartObserver(u)
             \/ Rebaseline(u) \/ PrepareCommit(u) \/ DropTraps(u)
             \/ PollWait(u) \/ PollReady(u) \/ SpawnWorker(u) \/ Reap(u)
    BY <2>1 DEF Start, Preflight, Apply, StartObserver, Rebaseline,
       PrepareCommit, DropTraps, PollWait, PollReady, SpawnWorker, Reap, Goto,
       data
  <2>2. CASE \/ TakeLock(u) \/ Refuse(u) \/ Resolve(u) \/ PollDeadline(u)
             \/ PollDefer(u) \/ PollSilence(u)
    BY <2>2 DEF TakeLock, Refuse, Resolve, PollDeadline, PollDefer,
       PollSilence, ExitShell, Goto
  <2> QED BY <1>1, <2>1, <2>2 DEF Shell, Poll
<1>2. ASSUME NEW u \in Updaters, Observer(u) \/ Signals(u) \/ DeadlinePasses(u)
      PROVE  ResultsOK'
  BY <1>2 DEF Observer, Sample, Orphaned, ObserverFails, Signals, Kill,
     Terminate, ExitShell, DeadlinePasses, data
<1>3. ASSUME NEW u \in Updaters, Worker(u) PROVE ResultsOK'
  <2>1. CASE \/ CheckBudget(u) \/ Recheck(u) \/ LastLook(u)
    BY <2>1 DEF CheckBudget, Recheck, LastLook, GiveUp,
                Advance, EndWorker, data
  <2>2. CASE Tag(u) \/ Stop(u) \/ Remove(u) \/ CheckName(u) \/ Up(u)
    BY <2>2 DEF Tag, Stop, Remove, CheckName, Up, Advance, Touch, data
  <2>3. CASE Verify(u) \/ FailStage(u) \/ Timeout(u)
    BY <2>3 DEF Verify, FailStage, Timeout, EndWorker, Touch
  <2> QED BY <1>3, <2>1, <2>2, <2>3 DEF Worker
<1>4. CASE Others
  BY <1>4 DEF Others, StuckRestart, LockForRecycle, Recycle, Operator, data
<1>5. CASE UNCHANGED vars
  BY <1>5 DEF vars, data
<1> QED BY <1>1, <1>2, <1>3, <1>4, <1>5 DEF Next

\* A run re-baselines at most once, on inventories that exist.
LEMMA JobsTyped == ASSUME TypeOK, [Next]_vars PROVE (job \in [Updaters -> Jobs])'
<1> USE DEF TypeOK
<1>1. ASSUME NEW u \in Updaters, Shell(u) PROVE (job \in [Updaters -> Jobs])'
  <2>1. CASE Preflight(u)
    <3>1. [target |-> target, peers |-> peers] \in Baselines
      BY DEF BackendOK, Baselines
    <3> QED BY <2>1, <3>1 DEF Preflight, Jobs
  <2>2. CASE Resolve(u)
    BY <2>2 DEF Resolve, ExitShell, Jobs
  <2>3. CASE Apply(u)
    BY <2>3 DEF Apply, Budget, Jobs
  <2>4. CASE Rebaseline(u)
    BY <2>4 DEF Rebaseline, MayRebaseline, Jobs
  <2>5. CASE \/ Start(u) \/ TakeLock(u) \/ Refuse(u) \/ StartObserver(u)
             \/ PollDeadline(u) \/ PollWait(u) \/ PollReady(u)
             \/ PollDefer(u) \/ PollSilence(u) \/ PrepareCommit(u)
             \/ DropTraps(u) \/ SpawnWorker(u) \/ Reap(u)
    BY <2>5 DEF Start, TakeLock, Refuse, StartObserver, PollDeadline, PollWait,
       PollReady, PollDefer, PollSilence, PrepareCommit, DropTraps,
       SpawnWorker, Reap, ExitShell, data
  <2> QED BY <1>1, <2>1, <2>2, <2>3, <2>4, <2>5 DEF Shell, Poll
<1>2. ASSUME NEW u \in Updaters, Observer(u) \/ Signals(u)
      PROVE  (job \in [Updaters -> Jobs])'
  BY <1>2 DEF Observer, Sample, Orphaned, ObserverFails, Signals, Kill,
     Terminate, ExitShell, data
<1>3. ASSUME NEW u \in Updaters, DeadlinePasses(u)
      PROVE  (job \in [Updaters -> Jobs])'
  BY <1>3 DEF DeadlinePasses, Jobs
<1>4. ASSUME NEW u \in Updaters, Worker(u) PROVE (job \in [Updaters -> Jobs])'
  BY <1>4 DEF Worker, CheckBudget, Recheck, LastLook, GiveUp,
              Tag, Stop, Remove,
     CheckName, Up, Verify, FailStage, Timeout, Advance, EndWorker, data
<1>5. CASE Others
  BY <1>5 DEF Others, StuckRestart, LockForRecycle, Recycle, Operator, data
<1>6. CASE UNCHANGED vars
  BY <1>6 DEF vars, data
<1> QED BY <1>1, <1>2, <1>3, <1>4, <1>5, <1>6 DEF Next

\* latest.json holds a verdict of one of the two rounds.
LEMMA FilesTyped ==
  ASSUME TypeOK, [Next]_vars PROVE (files \in [Updaters -> Files])'
<1> USE DEF TypeOK
<1>0. NoFiles \in Files
  BY DEF NoFiles, Files
<1>1. ASSUME NEW u \in Updaters, Shell(u) PROVE (files \in [Updaters -> Files])'
  <2>1. CASE Start(u) \/ Apply(u) \/ PrepareCommit(u)
    BY <2>1 DEF Start, Apply, PrepareCommit, Files
  <2>2. CASE PollWait(u) \/ PollReady(u)
    <3>1. files[u].latest \in Latests
      BY <2>2 DEF PollWait, PollReady, Verdict, Files
    <3>2. [files[u].latest EXCEPT !.fresh = FALSE] \in Latests
      BY <3>1 DEF Latests
    <3>3. Read(files[u]) \in Files
      BY <3>2 DEF Read, Files
    <3> QED BY <2>2, <3>3 DEF PollWait, PollReady
  <2>3. CASE Rebaseline(u)
    BY <2>3 DEF Rebaseline, Files
  <2>4. CASE \/ TakeLock(u) \/ Refuse(u) \/ Resolve(u) \/ PollDeadline(u)
             \/ PollDefer(u) \/ PollSilence(u) \/ Reap(u)
    BY <1>0, <2>4 DEF TakeLock, Refuse, Resolve, PollDeadline, PollDefer,
       PollSilence, Reap, ExitShell
  <2>5. CASE Preflight(u) \/ StartObserver(u) \/ DropTraps(u) \/ SpawnWorker(u)
    BY <2>5 DEF Preflight, StartObserver, DropTraps, SpawnWorker, data
  <2> QED BY <1>1, <2>1, <2>2, <2>3, <2>4, <2>5 DEF Shell, Poll
<1>2. ASSUME NEW u \in Updaters, Sample(u) PROVE (files \in [Updaters -> Files])'
  <2>1. PICK verdict \in Verdicts(u) :
          files' = [files EXCEPT ![u].latest =
                      [verdict |-> verdict, fresh |-> TRUE,
                       round |-> job[u].round]]
    BY <1>2 DEF Sample
  <2>2. [verdict |-> verdict, fresh |-> TRUE, round |-> job[u].round] \in Latests
    BY DEF Verdicts, Jobs, Latests
  <2> QED BY <2>1, <2>2 DEF Files
<1>3. ASSUME NEW u \in Updaters,
             Orphaned(u) \/ ObserverFails(u) \/ Signals(u) \/ DeadlinePasses(u)
      PROVE  (files \in [Updaters -> Files])'
  BY <1>0, <1>3 DEF Orphaned, ObserverFails, Signals, Kill, Terminate,
     ExitShell, DeadlinePasses, data
<1>4. ASSUME NEW u \in Updaters, Worker(u)
      PROVE  (files \in [Updaters -> Files])'
  BY <1>0, <1>4 DEF Worker, CheckBudget, Recheck, LastLook, GiveUp,
                    Tag, Stop, Remove,
     CheckName, Up, Verify, FailStage, Timeout, Advance, EndWorker, data
<1>5. CASE Others
  BY <1>5 DEF Others, StuckRestart, LockForRecycle, Recycle, Operator, data
<1>6. CASE UNCHANGED vars
  BY <1>6 DEF vars, data
<1> QED BY <1>1, <1>2, <1>3, <1>4, <1>5, <1>6 DEF Next, Observer

\* TypeOK is inductive: no action of the shells, observers, workers or others
\* takes a variable out of its type.
THEOREM UpdateTyped == Spec => []TypeOK
<1>1. Init => TypeOK
  BY UpdateAssumption
     DEF Init, TypeOK, BackendOK, LockOK, ProcsOK, ResultsOK, Containers,
         Baselines, Jobs, Files, NoFiles, ShellPCs, WorkerPCs
<1>2. TypeOK /\ [Next]_vars => TypeOK'
  BY BackendTyped, LockTyped, ProcsTyped, ResultsTyped, JobsTyped, FilesTyped
     DEF TypeOK
<1> QED BY <1>1, <1>2, PTL DEF Spec
-----------------------------------------------------------------------------
(* Exclusion.  OneCommitter is not inductive: that the lock is the run's    *)
(* own follows from which of its processes still have it open.             *)

Locking(u) == shell[u] \notin {"new", "lock", "ended", "killed"}
Active(u)  == worker[u] \notin {"none", "ended"}

LockFollows ==
  /\ lock = Healer => fds = {"healer"}
  /\ \A u \in Updaters :
       /\ Locking(u) => lock = u /\ "shell" \in fds
       /\ Active(u)  => lock = u /\ "worker" \in fds

\* No process of a run closes what another process of it still needs.
LEMMA ShellLetsGo ==
  ASSUME TypeOK, LockFollows, NEW u \in Updaters, Close(u, "shell"),
         ~Locking(u)', \A v \in Updaters : v # u => shell'[v] = shell[v],
         UNCHANGED worker
  PROVE  LockFollows'
<1>1. CASE lock = u
  BY <1>1, UpdateAssumption DEF LockFollows, Locking, Active, Close, TypeOK, LockOK
<1>2. CASE lock # u
  BY <1>2, UpdateAssumption DEF LockFollows, Locking, Active, Close, locking
<1> QED BY <1>1, <1>2

\* A worker that ends closes its own descriptor of the lock only.
LEMMA WorkerLetsGo ==
  ASSUME TypeOK, LockFollows, NEW u \in Updaters, Close(u, "worker"),
         ~Active(u)', \A v \in Updaters : v # u => worker'[v] = worker[v],
         UNCHANGED shell
  PROVE  LockFollows'
<1>1. CASE lock = u
  BY <1>1, UpdateAssumption DEF LockFollows, Locking, Active, Close, TypeOK, LockOK
<1>2. CASE lock # u
  BY <1>2, UpdateAssumption DEF LockFollows, Locking, Active, Close, locking
<1> QED BY <1>1, <1>2

\* A shell that exits by itself is Locking no more.
LEMMA ExitLetsGo ==
  ASSUME TypeOK, LockFollows, NEW u \in Updaters, NEW result,
         ExitShell(u, result)
  PROVE  LockFollows'
BY ShellLetsGo DEF ExitShell, TypeOK, ProcsOK, Locking

\* A worker that ends by itself is Active no more.
LEMMA EndLetsGo ==
  ASSUME TypeOK, LockFollows, NEW u \in Updaters, NEW result,
         EndWorker(u, result)
  PROVE  LockFollows'
BY WorkerLetsGo DEF EndWorker, TypeOK, ProcsOK, Active

\* No step of a shell loses the lock its run still needs.
LEMMA ShellKeepsLock ==
  ASSUME TypeOK, LockFollows, NEW u \in Updaters, Shell(u)
  PROVE  LockFollows'
<1> USE DEF TypeOK, ProcsOK
<1>1. CASE \/ Start(u) \/ Preflight(u) \/ Apply(u) \/ StartObserver(u)
           \/ PollWait(u) \/ PollReady(u) \/ Rebaseline(u)
           \/ PrepareCommit(u) \/ DropTraps(u)
  BY <1>1 DEF LockFollows, Locking, Active, Start, Preflight, Apply,
     StartObserver, PollWait, PollReady, Verdict, Rebaseline, PrepareCommit,
     DropTraps, Goto, locking, procs
<1>2. CASE \/ Refuse(u) \/ PollDeadline(u) \/ PollDefer(u) \/ PollSilence(u)
  BY <1>2, ExitLetsGo DEF Refuse, PollDeadline, PollDefer, PollSilence
<1>3. CASE TakeLock(u)
  <2>1. CASE lock = None
    BY <1>3, <2>1, UpdateAssumption
       DEF TakeLock, Goto, LockFollows, Locking, Active
  <2>2. CASE lock # None
    BY <1>3, <2>2, ExitLetsGo DEF TakeLock
  <2> QED BY <2>1, <2>2
<1>4. CASE Resolve(u)
  <2>1. PICK img \in Images, drift \in BOOLEAN :
          IF UpToDate(u, img, drift)
          THEN ExitShell(u, "unchanged")
          ELSE Goto(u, "apply") /\ UNCHANGED locking
    BY <1>4 DEF Resolve
  <2>2. CASE UpToDate(u, img, drift)
    BY <2>1, <2>2, ExitLetsGo
  <2>3. CASE ~UpToDate(u, img, drift)
    BY <1>4, <2>1, <2>3
       DEF Resolve, Goto, LockFollows, Locking, Active, locking
  <2> QED BY <2>2, <2>3
<1>5. CASE SpawnWorker(u)
  BY <1>5, UpdateAssumption DEF SpawnWorker, LockFollows, Locking, Active
<1>6. CASE Reap(u)
  BY <1>6, ShellLetsGo DEF Reap, Locking
<1> QED BY <1>1, <1>2, <1>3, <1>4, <1>5, <1>6 DEF Shell, Poll

\* No step of a worker loses the lock its run still needs.
LEMMA WorkerKeepsLock ==
  ASSUME TypeOK, LockFollows, NEW u \in Updaters, Worker(u)
  PROVE  LockFollows'
<1> USE DEF TypeOK, ProcsOK
<1>1. ASSUME NEW pc, Active(u), Advance(u, pc) PROVE LockFollows'
  BY <1>1 DEF Advance, LockFollows, Locking, Active, locking
<1>2. CASE CheckBudget(u) \/ Recheck(u) \/ LastLook(u)
  BY <1>1, <1>2, EndLetsGo DEF CheckBudget, Recheck, LastLook, GiveUp, Active
<1>3. CASE Tag(u) \/ Stop(u) \/ Remove(u) \/ CheckName(u) \/ Up(u)
  BY <1>1, <1>3 DEF Tag, Stop, Remove, CheckName, Up, Active
<1>4. CASE Verify(u) \/ FailStage(u)
  BY <1>4, EndLetsGo DEF Verify, FailStage
<1>5. CASE Timeout(u)
  BY <1>5, WorkerLetsGo DEF Timeout, Active
<1> QED BY <1>2, <1>3, <1>4, <1>5 DEF Worker

\* LockFollows is inductive: a run that is past its lock and not over holds
\* the lock, by the process that is alive.
LEMMA LockInvariant == Spec => []LockFollows
<1>1. Init => LockFollows
  BY UpdateAssumption DEF Init, LockFollows, Locking, Active
<1>2. TypeOK /\ LockFollows /\ [Next]_vars => LockFollows'
  <2> SUFFICES ASSUME TypeOK, LockFollows, [Next]_vars PROVE LockFollows'
    OBVIOUS
  <2> USE DEF TypeOK, ProcsOK
  <2>1. ASSUME NEW u \in Updaters, Observer(u) \/ DeadlinePasses(u)
        PROVE  LockFollows'
    BY <2>1 DEF Observer, Sample, Orphaned, ObserverFails, DeadlinePasses,
       LockFollows, Locking, Active, locking, procs
  <2>2. ASSUME NEW u \in Updaters, Signals(u) PROVE LockFollows'
    <3>1. CASE Kill(u)
      BY <3>1, ShellLetsGo DEF Kill, Locking
    <3>2. CASE Terminate(u)
      BY <3>2, ExitLetsGo DEF Terminate
    <3> QED BY <2>2, <3>1, <3>2 DEF Signals
  <2>3. CASE Others
    <3>1. CASE StuckRestart \/ Operator
      BY <3>1 DEF StuckRestart, Operator, LockFollows, Locking, Active, locking,
         procs
    <3>2. CASE LockForRecycle \/ Recycle
      BY <3>2, UpdateAssumption
         DEF LockForRecycle, Recycle, Close, LockFollows, Locking, Active, procs
    <3> QED BY <2>3, <3>1, <3>2 DEF Others
  <2>4. CASE UNCHANGED vars
    BY <2>4 DEF vars, LockFollows, Locking, Active, locking, procs
  <2> QED BY <2>1, <2>2, <2>3, <2>4, ShellKeepsLock, WorkerKeepsLock DEF Next
<1> QED BY <1>1, <1>2, UpdateTyped, PTL DEF Spec

\* Whatever happens to the shells, at most one run changes the deployment at a
\* time, and none does while the healer recycles.
THEOREM Exclusive == Spec => []OneCommitter
<1>1. LockFollows => OneCommitter
  BY UpdateAssumption DEF LockFollows, OneCommitter, Committing, Stages, Active
<1> QED BY <1>1, LockInvariant, PTL
-----------------------------------------------------------------------------
(* What a run has done and what it reports.                                *)

Refusals == {"unchanged", "deferred", "terminated"}

ReportOK(u) ==
  /\ worker[u] # "none" => shell[u] \in {"waiting", "ended", "killed"}
  /\ touched[u] => worker[u] \in Stages \cup {"ended"}
  /\ outcome[u] # None => \/ worker[u] = "ended"
                          \/ worker[u] = "none" /\ shell[u] = "ended"
  /\ outcome[u] = "updated" => worker[u] = "ended"
  /\ outcome[u] \in Refusals => ~touched[u]

ReportsFollow == \A u \in Updaters : ReportOK(u)

\* What ReportOK, Status and the lock look at, of one run.
Report(u) == <<shell[u], worker[u], outcome[u], touched[u]>>

\* A step of one run leaves the reports of the others alone.
LEMMA OneRunAtATime ==
  ASSUME TypeOK, NEW u \in Updaters,
         Shell(u) \/ Observer(u) \/ Worker(u) \/ Signals(u) \/ DeadlinePasses(u),
         NEW v \in Updaters, v # u
  PROVE  UNCHANGED Report(v)
<1> USE DEF TypeOK, ProcsOK, ResultsOK, Report
<1>1. CASE Shell(u)
  <2>1. CASE \/ TakeLock(u) \/ Refuse(u) \/ Resolve(u) \/ PollDeadline(u)
             \/ PollDefer(u) \/ PollSilence(u)
    BY <2>1 DEF TakeLock, Refuse, Resolve, PollDeadline, PollDefer,
       PollSilence, ExitShell, Goto
  <2>2. CASE \/ Start(u) \/ Preflight(u) \/ Apply(u) \/ StartObserver(u)
             \/ PollWait(u) \/ PollReady(u) \/ Rebaseline(u)
             \/ PrepareCommit(u) \/ DropTraps(u) \/ SpawnWorker(u) \/ Reap(u)
    BY <2>2 DEF Start, Preflight, Apply, StartObserver, PollWait, PollReady,
       Rebaseline, PrepareCommit, DropTraps, SpawnWorker, Reap, Goto, procs,
       data
  <2> QED BY <1>1, <2>1, <2>2 DEF Shell, Poll
<1>2. CASE Observer(u) \/ Signals(u) \/ DeadlinePasses(u)
  BY <1>2 DEF Observer, Sample, Orphaned, ObserverFails, Signals, Kill,
     Terminate, ExitShell, DeadlinePasses, procs, data
<1>3. CASE Worker(u)
  <2>1. CASE \/ CheckBudget(u) \/ Recheck(u) \/ LastLook(u) \/ Tag(u)
             \/ Stop(u) \/ Remove(u) \/ CheckName(u) \/ Up(u)
    BY <2>1 DEF CheckBudget, Recheck, LastLook, GiveUp,
                Tag, Stop, Remove, CheckName,
       Up, Advance, EndWorker, Touch, data
  <2>2. CASE Verify(u) \/ FailStage(u) \/ Timeout(u)
    BY <2>2 DEF Verify, FailStage, Timeout, EndWorker, Touch
  <2> QED BY <1>3, <2>1, <2>2 DEF Worker
<1> QED BY <1>1, <1>2, <1>3

\* A shell that exits by itself has not started a worker.
LEMMA ExitReports ==
  ASSUME TypeOK, NEW u \in Updaters, ReportOK(u),
         NEW result \in Outcomes \ {"updated"}, ExitShell(u, result),
         shell[u] \notin {"waiting", "ended", "killed"}
  PROVE  ReportOK(u)'
BY DEF ReportOK, ExitShell, TypeOK, ProcsOK, ResultsOK, Stages, Refusals,
       Outcomes

\* No step of a shell reports a refusal of a run that touched something.
LEMMA ShellReports ==
  ASSUME TypeOK, NEW u \in Updaters, ReportOK(u), Shell(u)
  PROVE  ReportOK(u)'
<1> USE DEF TypeOK, ProcsOK, ResultsOK
<1>1. CASE \/ Start(u) \/ Preflight(u) \/ Apply(u) \/ StartObserver(u)
           \/ PollWait(u) \/ PollReady(u) \/ Rebaseline(u)
           \/ PrepareCommit(u) \/ DropTraps(u)
  BY <1>1, UpdateAssumption DEF ReportOK, Start, Preflight, Apply,
     StartObserver, PollWait, PollReady, Verdict, Rebaseline, PrepareCommit,
     DropTraps, Goto, procs, Stages
<1>2. CASE \/ Refuse(u) \/ PollDeadline(u) \/ PollDefer(u) \/ PollSilence(u)
  BY <1>2, ExitReports DEF Refuse, PollDeadline, PollDefer, PollSilence,
     Verdict, Outcomes
<1>3. CASE TakeLock(u)
  BY <1>3, ExitReports DEF TakeLock, Goto, ReportOK, Outcomes, Stages
<1>4. CASE Resolve(u)
  BY <1>4, ExitReports DEF Resolve, Goto, ReportOK, Outcomes, Stages
<1>5. CASE SpawnWorker(u) \/ Reap(u)
  BY <1>5 DEF SpawnWorker, Reap, ReportOK, Stages, data
<1> QED BY <1>1, <1>2, <1>3, <1>4, <1>5 DEF Shell, Poll

\* A worker that has touched something reports an error or "updated".
LEMMA WorkerReports ==
  ASSUME TypeOK, NEW u \in Updaters, ReportOK(u), Worker(u)
  PROVE  ReportOK(u)'
<1> USE DEF TypeOK, ProcsOK, ResultsOK, ReportOK, Stages, Refusals
<1>1. CASE CheckBudget(u) \/ Recheck(u) \/ LastLook(u)
  <2>1. worker[u] \in {"budget", "recheck", "look", "last-budget"}
    BY <1>1 DEF CheckBudget, Recheck, LastLook, GiveUp
  <2>2. ~touched[u] /\ outcome[u] = None
    BY <2>1
  <2>3. shell'[u] = shell[u] /\ touched'[u] = touched[u]
    BY <1>1 DEF CheckBudget, Recheck, LastLook, GiveUp, Advance, EndWorker
  <2>4. \/ worker'[u] = "ended" /\ outcome'[u] \in {"deferred", "error"}
        \/ worker'[u] \in {"recheck", "look", "last-budget", "tag"}
           /\ outcome'[u] = None
    BY <1>1, <2>2 DEF CheckBudget, Recheck, LastLook, GiveUp,
                      Advance, EndWorker, data
  <2> QED BY <2>1, <2>2, <2>3, <2>4, UpdateAssumption
<1>2. CASE Tag(u) \/ Stop(u) \/ Remove(u) \/ CheckName(u) \/ Up(u)
  <2>0. None \notin Refusals \cup {"updated"}
    BY UpdateAssumption DEF Outcomes
  <2>1. worker[u] \in Stages /\ outcome[u] = None
    BY <1>2 DEF Tag, Stop, Remove, CheckName, Up
  <2>2. worker'[u] \in Stages /\ outcome' = outcome /\ shell' = shell
    BY <1>2 DEF Tag, Stop, Remove, CheckName, Up, Advance, data
  <2> QED BY <2>0, <2>1, <2>2
<1>3. CASE Verify(u) \/ FailStage(u) \/ Timeout(u)
  BY <1>3 DEF Verify, FailStage, Timeout, EndWorker, Touch
<1> QED BY <1>1, <1>2, <1>3 DEF Worker

\* ReportsFollow is inductive.
LEMMA ReportsInvariant == Spec => []ReportsFollow
<1>1. Init => ReportsFollow
  BY UpdateAssumption
     DEF Init, ReportsFollow, ReportOK, Stages, Refusals, Outcomes
<1>2. TypeOK /\ ReportsFollow /\ [Next]_vars => ReportsFollow'
  <2> SUFFICES ASSUME TypeOK, ReportsFollow, [Next]_vars PROVE ReportsFollow'
    OBVIOUS
  <2>1. ASSUME NEW u \in Updaters, UNCHANGED Report(u) PROVE ReportOK(u)'
    BY <2>1 DEF Report, ReportsFollow, ReportOK
  <2>2. ASSUME NEW u \in Updaters,
               \/ Shell(u) \/ Observer(u) \/ Worker(u) \/ Signals(u)
               \/ DeadlinePasses(u)
        PROVE  ReportsFollow'
    <3>1. \A v \in Updaters : v # u => ReportOK(v)'
      BY <2>1, <2>2, OneRunAtATime
    <3> SUFFICES ReportOK(u)'
      BY <3>1 DEF ReportsFollow
    <3>2. CASE Shell(u)
      BY <3>2, ShellReports DEF ReportsFollow
    <3>3. CASE Worker(u)
      BY <3>3, WorkerReports DEF ReportsFollow
    <3>4. CASE Signals(u)
      BY <3>4, ExitReports
         DEF Signals, Kill, Terminate, Trapped, ReportsFollow, ReportOK,
             TypeOK, ProcsOK, ResultsOK, Outcomes, data
    <3>5. CASE Observer(u) \/ DeadlinePasses(u)
      BY <2>1, <3>5 DEF Observer, Sample, Orphaned, ObserverFails,
         DeadlinePasses, Report, procs, data
    <3> QED BY <2>2, <3>2, <3>3, <3>4, <3>5
  <2>3. CASE Others \/ UNCHANGED vars
    BY <2>1, <2>3 DEF Others, StuckRestart, LockForRecycle, Recycle, Operator,
       Report, ReportsFollow, vars, procs, data
  <2> QED BY <2>2, <2>3 DEF Next
<1> QED BY <1>1, <1>2, UpdateTyped, PTL DEF Spec

\* A deferral, "unchanged" and a termination are reported of runs that have
\* changed nothing.
THEOREM RefusalsClean == Spec => []RefusalIsClean
<1>1. ReportsFollow => RefusalIsClean
  BY DEF ReportsFollow, ReportOK, RefusalIsClean, Refusals
<1> QED BY <1>1, ReportsInvariant, PTL
-----------------------------------------------------------------------------
(* Verdicts and what a run leaves behind.                                  *)

VerdictOK(u) == files[u].latest # None => files[u].latest.round = job[u].round

\* From the hand-off on nobody observes any longer, so nothing appears in a
\* directory that has been removed.
LeftoverOK(u) ==
  /\ shell[u] \in {"prepared", "untrapped", "waiting", "ended"}
       => observer[u] # "running"
  /\ shell[u] = "ended" => files[u] = NoFiles

LeavesFollow == \A u \in Updaters : VerdictOK(u) /\ LeftoverOK(u)

\* What VerdictOK and LeftoverOK look at, of one run.
Leavings(u) == <<shell[u], observer[u], files[u], job[u]>>

\* A step of one run leaves the observers, files and jobs of the others alone.
LEMMA OthersKeepLeavings ==
  ASSUME TypeOK, NEW u \in Updaters,
         Shell(u) \/ Observer(u) \/ Worker(u) \/ Signals(u) \/ DeadlinePasses(u),
         NEW v \in Updaters, v # u
  PROVE  UNCHANGED Leavings(v)
<1> USE DEF TypeOK, ProcsOK, Leavings
<1>1. CASE Shell(u)
  <2>1. CASE \/ TakeLock(u) \/ Refuse(u) \/ Resolve(u) \/ PollDeadline(u)
             \/ PollDefer(u) \/ PollSilence(u)
    BY <2>1 DEF TakeLock, Refuse, Resolve, PollDeadline, PollDefer, PollSilence,
       ExitShell, Goto
  <2>2. CASE \/ Start(u) \/ Preflight(u) \/ Apply(u) \/ StartObserver(u)
             \/ PollWait(u) \/ PollReady(u) \/ Rebaseline(u) \/ PrepareCommit(u)
             \/ DropTraps(u) \/ SpawnWorker(u) \/ Reap(u)
    BY <2>2 DEF Start, Preflight, Apply, StartObserver, PollWait, PollReady,
       Rebaseline, PrepareCommit, DropTraps, SpawnWorker, Reap, Goto, procs, data
  <2> QED BY <1>1, <2>1, <2>2 DEF Shell, Poll
<1>2. CASE Worker(u)
  BY <1>2 DEF Worker, CheckBudget, Recheck, LastLook, GiveUp,
              Tag, Stop, Remove,
     CheckName, Up, Verify, FailStage, Timeout, Advance, EndWorker, data
<1>3. CASE Observer(u) \/ Signals(u) \/ DeadlinePasses(u)
  BY <1>3 DEF Observer, Sample, Orphaned, ObserverFails, Signals, Kill,
     Terminate, ExitShell, DeadlinePasses, procs, data
<1> QED BY <1>1, <1>2, <1>3

\* A shell that exits leaves no observer and no files.
LEMMA ExitLeavesNothing ==
  ASSUME TypeOK, NEW u \in Updaters, NEW result, ExitShell(u, result)
  PROVE  VerdictOK(u)' /\ LeftoverOK(u)'
<1>1. files'[u] = NoFiles /\ observer'[u] # "running"
  BY DEF ExitShell, TypeOK, ProcsOK
<1> QED BY <1>1 DEF VerdictOK, LeftoverOK, NoFiles

\* A second round starts without a verdict, a hand-off without an observer.
LEMMA ShellLeaves ==
  ASSUME TypeOK, NEW u \in Updaters, VerdictOK(u), LeftoverOK(u), Shell(u)
  PROVE  VerdictOK(u)' /\ LeftoverOK(u)'
<1> USE DEF TypeOK, ProcsOK
<1>1. CASE \/ Refuse(u) \/ PollDeadline(u) \/ PollDefer(u) \/ PollSilence(u)
  BY <1>1, ExitLeavesNothing DEF Refuse, PollDeadline, PollDefer, PollSilence
<1>2. CASE TakeLock(u)
  BY <1>2, ExitLeavesNothing DEF TakeLock, Goto, VerdictOK, LeftoverOK
<1>3. CASE Resolve(u)
  <2>1. PICK img \in Images, drift \in BOOLEAN :
          IF UpToDate(u, img, drift)
          THEN ExitShell(u, "unchanged")
          ELSE /\ job' = [job EXCEPT ![u].img = img]
               /\ Goto(u, "apply")
               /\ UNCHANGED <<locking, observer, files>>
    BY <1>3 DEF Resolve
  <2>2. CASE UpToDate(u, img, drift)
    BY <2>1, <2>2, ExitLeavesNothing
  <2>3. CASE ~UpToDate(u, img, drift)
    <3>1. job'[u].round = job[u].round
      BY <2>1, <2>3 DEF Jobs
    <3> QED BY <2>1, <2>3, <3>1 DEF Goto, VerdictOK, LeftoverOK
  <2> QED BY <2>2, <2>3
<1>4. CASE Start(u) \/ Preflight(u) \/ Apply(u) \/ PrepareCommit(u)
  <2>1. files'[u].latest = files[u].latest
    BY <1>4 DEF Start, Preflight, Apply, PrepareCommit, Files
  <2>2. job'[u].round = job[u].round
    BY <1>4 DEF Start, Preflight, Apply, PrepareCommit, Jobs
  <2>3. /\ shell'[u] \in {"lock", "resolve", "launch", "handoff", "prepared"}
        /\ shell'[u] = "prepared" => observer'[u] # "running"
    BY <1>4 DEF Start, Preflight, Apply, PrepareCommit, Goto
  <2> QED BY <2>1, <2>2, <2>3 DEF VerdictOK, LeftoverOK
<1>5. CASE PollWait(u) \/ PollReady(u)
  <2>1. files[u].latest \in Latests /\ files[u] \in Files
    BY <1>5 DEF PollWait, PollReady, Verdict, Files
  <2>2. files'[u].latest.round = files[u].latest.round
    <3>1. files'[u] = Read(files[u])
      BY <1>5 DEF PollWait, PollReady
    <3>2. Read(files[u]).latest = [files[u].latest EXCEPT !.fresh = FALSE]
      BY <2>1 DEF Read, Files
    <3>3. [files[u].latest EXCEPT !.fresh = FALSE].round = files[u].latest.round
      BY <2>1 DEF Latests
    <3> QED BY <3>1, <3>2, <3>3
  <2>3. UNCHANGED job /\ shell'[u] \in {"observe", "handoff"}
    BY <1>5 DEF PollWait, PollReady, Verdict, Goto, procs
  <2>4. files[u].latest # None
    BY <1>5 DEF PollWait, PollReady, Verdict
  <2> QED BY <2>2, <2>3, <2>4 DEF VerdictOK, LeftoverOK
<1>6. CASE Rebaseline(u)
  <2>1. files'[u].latest = None /\ shell'[u] = "preflight"
    BY <1>6 DEF Rebaseline, Goto, Files
  <2> QED BY <2>1 DEF VerdictOK, LeftoverOK
<1>7. CASE StartObserver(u) \/ DropTraps(u) \/ SpawnWorker(u)
  BY <1>7 DEF StartObserver, DropTraps, SpawnWorker, Goto, VerdictOK, LeftoverOK,
     data
<1>8. CASE Reap(u)
  <2>1. files'[u] = NoFiles /\ observer'[u] # "running"
    BY <1>8 DEF Reap, LeftoverOK
  <2> QED BY <2>1 DEF VerdictOK, LeftoverOK, NoFiles
<1> QED BY <1>1, <1>2, <1>3, <1>4, <1>5, <1>6, <1>7, <1>8 DEF Shell, Poll

\* LeavesFollow is inductive.
LEMMA LeavesInvariant == Spec => []LeavesFollow
<1>1. Init => LeavesFollow
  BY DEF Init, LeavesFollow, VerdictOK, LeftoverOK, NoFiles
<1>2. TypeOK /\ LeavesFollow /\ [Next]_vars => LeavesFollow'
  <2> SUFFICES ASSUME TypeOK, LeavesFollow, [Next]_vars PROVE LeavesFollow'
    OBVIOUS
  <2>1. ASSUME NEW u \in Updaters, UNCHANGED Leavings(u)
        PROVE  VerdictOK(u)' /\ LeftoverOK(u)'
    BY <2>1 DEF Leavings, LeavesFollow, VerdictOK, LeftoverOK
  <2>2. ASSUME NEW u \in Updaters,
               \/ Shell(u) \/ Observer(u) \/ Worker(u) \/ Signals(u)
               \/ DeadlinePasses(u)
        PROVE  LeavesFollow'
    <3>1. \A v \in Updaters : v # u => VerdictOK(v)' /\ LeftoverOK(v)'
      BY <2>1, <2>2, OthersKeepLeavings
    <3>2. VerdictOK(u) /\ LeftoverOK(u)
      BY DEF LeavesFollow
    <3> SUFFICES VerdictOK(u)' /\ LeftoverOK(u)'
      BY <3>1 DEF LeavesFollow
    <3> USE DEF TypeOK, ProcsOK
    <3>3. CASE Shell(u)
      BY <3>2, <3>3, ShellLeaves
    <3>4. CASE Sample(u)
      <4>1. PICK verdict \in Verdicts(u) :
              files' = [files EXCEPT ![u].latest =
                          [verdict |-> verdict, fresh |-> TRUE,
                           round |-> job[u].round]]
        BY <3>4 DEF Sample
      <4>2. files'[u].latest.round = job[u].round
        BY <4>1 DEF Files
      <4> QED BY <3>2, <3>4, <4>2 DEF Sample, VerdictOK, LeftoverOK, procs
    <3>5. CASE Orphaned(u) \/ ObserverFails(u) \/ Kill(u)
      BY <3>2, <3>5
         DEF Orphaned, ObserverFails, Kill, VerdictOK, LeftoverOK, NoFiles, data
    <3>6. CASE Terminate(u)
      BY <3>6, ExitLeavesNothing DEF Terminate
    <3>7. CASE DeadlinePasses(u)
      <4>1. job'[u].round = job[u].round
        BY <3>7 DEF DeadlinePasses, Jobs
      <4> QED BY <3>2, <3>7, <4>1 DEF DeadlinePasses, VerdictOK, LeftoverOK, procs
    <3>8. CASE Worker(u)
      <4>1. files'[u] \in {files[u], NoFiles}
        BY <3>8 DEF Worker, CheckBudget, Recheck, LastLook, GiveUp,
                    Tag, Stop, Remove,
           CheckName, Up, Verify, FailStage, Timeout, Advance, EndWorker, data
      <4>2. UNCHANGED <<shell, observer, job>>
        BY <3>8 DEF Worker, CheckBudget, Recheck, LastLook, GiveUp,
                    Tag, Stop, Remove,
           CheckName, Up, Verify, FailStage, Timeout, Advance, EndWorker, data
      <4>3. NoFiles.latest = None
        BY DEF NoFiles
      <4>4. CASE files'[u] = files[u]
        BY <3>2, <4>2, <4>4 DEF VerdictOK, LeftoverOK
      <4>5. CASE files'[u] = NoFiles
        BY <3>2, <4>2, <4>3, <4>5 DEF VerdictOK, LeftoverOK
      <4> QED BY <4>1, <4>4, <4>5
    <3> QED BY <2>2, <3>3, <3>4, <3>5, <3>6, <3>7, <3>8 DEF Observer, Signals
  <2>3. CASE Others \/ UNCHANGED vars
    BY <2>1, <2>3 DEF Others, StuckRestart, LockForRecycle, Recycle, Operator,
       Leavings, LeavesFollow, vars, procs, data
  <2> QED BY <2>2, <2>3 DEF Next
<1> QED BY <1>1, <1>2, UpdateTyped, PTL DEF Spec

\* What the shell reads in latest.json was written for the round it is in.
THEOREM VerdictsAreCurrent == Spec => []VerdictIsCurrent
<1>1. LeavesFollow => VerdictIsCurrent
  BY DEF LeavesFollow, VerdictOK, VerdictIsCurrent
<1> QED BY <1>1, LeavesInvariant, PTL

\* A shell that ends by itself leaves no directory and no password.
THEOREM NothingIsLeft == Spec => []EndLeavesNothing
<1>1. LeavesFollow => EndLeavesNothing
  BY DEF LeavesFollow, LeftoverOK, EndLeavesNothing
<1> QED BY <1>1, LeavesInvariant, PTL
-----------------------------------------------------------------------------
(* Whose container a worker changes.                                       *)

\* A step of a worker that changes a container goes by the baseline's id, or
\* starts what is there.
LEMMA WorkerKnowsItsTarget ==
  ASSUME TypeOK, NEW u \in Updaters, Worker(u), target # None, target' # target
  PROVE  IF target' # None /\ target'.up
         THEN target'.id = target.id
         ELSE ~Absent(u) /\ target.id = job[u].base.target.id
<1>0. target \in Containers
  BY DEF TypeOK, BackendOK
<1>1. CASE Stop(u)
  <2>1. ~target'.up
    BY <1>0, <1>1 DEF Stop, Containers
  <2>2. ~Absent(u) /\ target.id = job[u].base.target.id
    BY <1>1 DEF Stop, IsBaseline, Replaced, Absent
  <2> QED BY <2>1, <2>2
<1>2. CASE Remove(u)
  BY <1>2 DEF Remove, IsBaseline, Replaced, Absent
<1>3. CASE Up(u)
  <2> DEFINE since == IF target.up THEN target.started ELSE stamp
  <2>1. target' = [target EXCEPT !.up = TRUE, !.started = since]
    BY <1>0, <1>3 DEF Up, Containers
  <2> HIDE DEF since
  <2>2. target' # None /\ target'.up /\ target'.id = target.id
    <3>1. target'.up /\ target'.id = target.id
      BY <1>0, <2>1 DEF Containers
    <3>2. target' # None
      <4>1. stamp \in Nat /\ target.started \in Nat
        BY <1>0 DEF TypeOK, BackendOK, Containers
      <4>2. target' \in Containers
        BY <1>0, <2>1, <4>1 DEF Containers, since
      <4> QED BY <4>2, NoneIsNoContainer
    <3> QED BY <3>1, <3>2
  <2> QED BY <2>2
<1>4. CASE \/ CheckBudget(u) \/ Recheck(u) \/ LastLook(u) \/ Tag(u)
           \/ CheckName(u) \/ Verify(u) \/ FailStage(u) \/ Timeout(u)
  BY <1>4 DEF CheckBudget, Recheck, LastLook, GiveUp,
              Tag, CheckName, Verify, FailStage,
     Timeout, backend
<1> QED BY <1>1, <1>2, <1>3, <1>4 DEF Worker

\* A container that somebody has put in the place of the baseline's is neither
\* stopped nor removed by a run.
THEOREM OnlyOwnTarget == Spec => OnlyItsOwnTarget
<1>1. TypeOK /\ [Next]_vars
        => [\A u \in Updaters :
              Worker(u) /\ target # None /\ target' # target
                => IF target' # None /\ target'.up
                   THEN target'.id = target.id
                   ELSE ~Absent(u) /\ target.id = job[u].base.target.id]_vars
  BY WorkerKnowsItsTarget
<1> QED BY <1>1, UpdateTyped, PTL DEF Spec, OnlyItsOwnTarget
-----------------------------------------------------------------------------
(* The refinement of UpdatePromise.                                        *)

Recycling == lock = Healer

\* Every step of run u moves its own status along the promise, or not at all.
StatusMoves(u) ==
  \/ Status(u)' = Status(u)
  \/ Status(u) = "pending" /\ Status(u)' = "clean"
  \/ /\ Status(u) = "pending" /\ Status(u)' = "committing"
     /\ worker[u] = "last-budget"
  \/ Status(u) = "committing" /\ Status(u)' \in {"updated", "failed"}

\* Before its worker commits a run is pending.
LEMMA EarlyIsPending ==
  ASSUME TypeOK, NEW u \in Updaters, ReportOK(u),
         \/ worker[u] \in {"budget", "recheck", "look", "last-budget"}
         \/ worker[u] = "none" /\ shell[u] \notin {"ended", "killed"}
  PROVE  Status(u) = "pending"
BY UpdateAssumption
   DEF Status, Committing, ReportOK, Stages, Outcomes

\* A run whose shell or worker has ended and that touched nothing is clean.
LEMMA ExitMoves ==
  ASSUME TypeOK, NEW u \in Updaters, ReportOK(u),
         NEW result \in Outcomes \ {"updated"}, ExitShell(u, result),
         shell[u] \notin {"waiting", "ended", "killed"}
  PROVE  StatusMoves(u)
<1>1. worker[u] = "none" /\ ~touched[u]
  BY DEF ReportOK, TypeOK, ProcsOK, WorkerPCs, Stages
<1>2. Status(u) = "pending"
  BY <1>1, EarlyIsPending
<1>3. Status(u)' = "clean"
  BY <1>1 DEF ExitShell, Status, Committing, Stages, TypeOK, ProcsOK, ResultsOK
<1> QED BY <1>2, <1>3 DEF StatusMoves

\* A step of the shell leaves its run's status alone or ends it clean.
LEMMA ShellMoves ==
  ASSUME TypeOK, NEW u \in Updaters, ReportOK(u), Shell(u)
  PROVE  StatusMoves(u)
<1> USE DEF TypeOK, ProcsOK, ResultsOK
<1>1. CASE \/ Start(u) \/ Preflight(u) \/ Apply(u) \/ StartObserver(u)
           \/ PollWait(u) \/ PollReady(u) \/ Rebaseline(u)
           \/ PrepareCommit(u) \/ DropTraps(u)
  BY <1>1 DEF StatusMoves, Status, Committing, Start, Preflight, Apply,
     StartObserver, PollWait, PollReady, Verdict, Rebaseline, PrepareCommit,
     DropTraps, Goto, procs
<1>2. CASE \/ Refuse(u) \/ PollDeadline(u) \/ PollDefer(u) \/ PollSilence(u)
  BY <1>2, ExitMoves DEF Refuse, PollDeadline, PollDefer, PollSilence,
     Verdict, Outcomes
<1>3. CASE TakeLock(u)
  BY <1>3, ExitMoves
     DEF TakeLock, Goto, StatusMoves, Status, Committing, Outcomes
<1>4. CASE Resolve(u)
  BY <1>4, ExitMoves
     DEF Resolve, Goto, StatusMoves, Status, Committing, Outcomes
<1>5. CASE SpawnWorker(u)
  <2>1. worker[u] = "none" /\ worker'[u] = "budget" /\ shell[u] = "untrapped"
    BY <1>5 DEF SpawnWorker, ReportOK
  <2>2. UNCHANGED <<outcome, touched>>
    BY <1>5 DEF SpawnWorker, data
  <2> QED BY <2>1, <2>2 DEF StatusMoves, Status, Committing, Stages
<1>6. CASE Reap(u)
  BY <1>6 DEF Reap, StatusMoves, Status, Committing
<1> QED BY <1>1, <1>2, <1>3, <1>4, <1>5, <1>6 DEF Shell, Poll

\* A step of the worker begins or ends the commit, or ends the run clean.
LEMMA WorkerMoves ==
  ASSUME TypeOK, NEW u \in Updaters, ReportOK(u), Worker(u)
  PROVE  StatusMoves(u)
<1> USE DEF TypeOK, ProcsOK, ResultsOK
<1>1. CASE CheckBudget(u) \/ Recheck(u) \/ LastLook(u)
  <2>1. worker[u] \in {"budget", "recheck", "look", "last-budget"}
    BY <1>1 DEF CheckBudget, Recheck, LastLook, GiveUp
  <2>2. ~touched[u] /\ outcome[u] = None /\ Status(u) = "pending"
    BY <2>1, EarlyIsPending DEF ReportOK, Stages
  <2>3. shell'[u] = shell[u] /\ touched'[u] = touched[u]
    BY <1>1 DEF CheckBudget, Recheck, LastLook, GiveUp, Advance, EndWorker
  <2>4. CASE worker'[u] = "ended" /\ outcome'[u] \in {"deferred", "error"}
    BY <2>2, <2>3, <2>4 DEF StatusMoves, Status, Committing, Stages
  <2>5. CASE /\ worker'[u] \in {"recheck", "look", "last-budget"}
             /\ outcome'[u] = None
    BY <2>2, <2>3, <2>5, UpdateAssumption
       DEF StatusMoves, Status, Committing, Stages, Outcomes
  <2>6. CASE worker[u] = "last-budget" /\ worker'[u] = "tag"
    BY <2>2, <2>6 DEF StatusMoves, Status, Committing, Stages
  <2> QED BY <1>1, <2>2, <2>4, <2>5, <2>6
          DEF CheckBudget, Recheck, LastLook, GiveUp, Advance, EndWorker, data
<1>2. CASE Tag(u) \/ Stop(u) \/ Remove(u) \/ CheckName(u) \/ Up(u)
  <2>1. worker[u] \in Stages /\ worker'[u] \in Stages
    BY <1>2 DEF Tag, Stop, Remove, CheckName, Up, Advance, Stages
  <2> QED BY <2>1 DEF StatusMoves, Status, Committing
<1>3. CASE Verify(u) \/ FailStage(u)
  <2>1. worker[u] \in Stages /\ worker'[u] = "ended"
    BY <1>3 DEF Verify, FailStage, EndWorker, Stages
  <2>2. outcome'[u] = "updated" \/ touched'[u]
    BY <1>3 DEF Verify, FailStage, EndWorker, Touch
  <2> QED BY <2>1, <2>2 DEF StatusMoves, Status, Committing, Stages
<1>4. CASE Timeout(u)
  <2>1. worker'[u] = "ended" /\ outcome'[u] = "error"
    BY <1>4 DEF Timeout
  <2>2. CASE worker[u] \in Stages
    BY <1>4, <2>1, <2>2
       DEF Timeout, Touch, StatusMoves, Status, Committing, Stages
  <2>3. CASE worker[u] \notin Stages
    <3>1. worker[u] \in {"budget", "recheck", "look", "last-budget"}
      BY <1>4, <2>3 DEF Timeout, WorkerPCs
    <3>2. ~touched[u] /\ Status(u) = "pending"
      BY <3>1, EarlyIsPending DEF ReportOK, Stages
    <3>3. touched'[u] = touched[u]
      BY <1>4, <2>3 DEF Timeout
    <3> QED BY <2>1, <3>2, <3>3 DEF StatusMoves, Status, Committing, Stages
  <2> QED BY <2>2, <2>3
<1> QED BY <1>1, <1>2, <1>3, <1>4 DEF Worker

\* A signal ends a run that is pending, or leaves its status to the worker.
LEMMA SignalMoves ==
  ASSUME TypeOK, NEW u \in Updaters, ReportOK(u), Signals(u)
  PROVE  StatusMoves(u)
<1> USE DEF TypeOK, ProcsOK, ResultsOK
<1>1. CASE Terminate(u)
  BY <1>1, ExitMoves DEF Terminate, Trapped, Outcomes
<1>2. CASE Kill(u)
  <2>1. UNCHANGED <<worker, outcome, touched>> /\ shell'[u] = "killed"
    BY <1>2 DEF Kill, data
  <2>2. CASE worker[u] = "none"
    <3>1. Status(u) = "pending" /\ ~touched[u] /\ outcome[u] # "updated"
      BY <1>2, <2>2, EarlyIsPending DEF Kill, ReportOK, Stages
    <3> QED BY <2>1, <2>2, <3>1 DEF StatusMoves, Status, Committing, Stages
  <2>3. CASE worker[u] # "none"
    BY <2>1, <2>3 DEF StatusMoves, Status, Committing
  <2> QED BY <2>2, <2>3
<1> QED BY <1>1, <1>2 DEF Signals

\* No run takes the lock from the healer, or takes it as the healer.
LEMMA RunsLeaveRecycling ==
  ASSUME TypeOK, NEW u \in Updaters,
         \/ Shell(u) \/ Observer(u) \/ Worker(u) \/ Signals(u)
         \/ DeadlinePasses(u)
  PROVE  Recycling' <=> Recycling
<1> USE UpdateAssumption DEF Recycling, locking
<1>1. ASSUME NEW proc, Close(u, proc) PROVE Recycling' <=> Recycling
  BY <1>1 DEF Close
<1>2. CASE Shell(u)
  <2>1. CASE \/ Refuse(u) \/ PollDeadline(u) \/ PollDefer(u) \/ PollSilence(u)
             \/ Reap(u) \/ TakeLock(u) \/ Resolve(u)
    BY <1>1, <2>1 DEF Refuse, PollDeadline, PollDefer, PollSilence, Reap,
       TakeLock, Resolve, ExitShell
  <2>2. CASE \/ Start(u) \/ Preflight(u) \/ Apply(u) \/ StartObserver(u)
             \/ PollWait(u) \/ PollReady(u) \/ Rebaseline(u)
             \/ PrepareCommit(u) \/ DropTraps(u) \/ SpawnWorker(u)
    BY <2>2 DEF Start, Preflight, Apply, StartObserver, PollWait, PollReady,
       Rebaseline, PrepareCommit, DropTraps, SpawnWorker
  <2> QED BY <1>2, <2>1, <2>2 DEF Shell, Poll
<1>3. CASE Worker(u)
  BY <1>1, <1>3 DEF Worker, CheckBudget, Recheck, LastLook, GiveUp,
                    Tag, Stop, Remove,
     CheckName, Up, Verify, FailStage, Timeout, Advance, EndWorker
<1>4. CASE Observer(u) \/ Signals(u) \/ DeadlinePasses(u)
  BY <1>1, <1>4 DEF Observer, Sample, Orphaned, ObserverFails, Signals, Kill,
     Terminate, ExitShell, DeadlinePasses
<1> QED BY <1>2, <1>3, <1>4

\* The promise's view of the runs.
View == [u \in Updaters |-> Status(u)]

\* A step of a run is a step of the promise, or none.
LEMMA RunStep ==
  ASSUME TypeOK, LockFollows, ReportsFollow, NEW u \in Updaters,
         \/ Shell(u) \/ Observer(u) \/ Worker(u) \/ Signals(u)
         \/ DeadlinePasses(u)
  PROVE  [Promise!Next]_(Promise!vars)
<1>1. StatusMoves(u)
  <2>1. CASE Observer(u) \/ DeadlinePasses(u)
    BY <2>1 DEF Observer, Sample, Orphaned, ObserverFails, DeadlinePasses,
       StatusMoves, Status, Committing, procs, data
  <2> QED BY <2>1, ShellMoves, WorkerMoves, SignalMoves DEF ReportsFollow
<1>2. \A v \in Updaters : v # u => Status(v)' = Status(v)
  <2>1. \A v \in Updaters : v # u => UNCHANGED Report(v)
    BY OneRunAtATime
  <2> QED BY <2>1 DEF Report, Status, Committing
<1>3. View' = [View EXCEPT ![u] = Status(u)']
  BY <1>2 DEF View
<1>4. Recycling' <=> Recycling
  BY RunsLeaveRecycling
<1>5. CASE Status(u)' = Status(u)
  BY <1>3, <1>4, <1>5 DEF Promise!vars, View, Recycling
<1>6. CASE Status(u) = "pending" /\ Status(u)' = "clean"
  <2>1. Promise!EndClean(u)
    BY <1>3, <1>4, <1>6 DEF Promise!EndClean, View, Recycling
  <2> QED BY <2>1 DEF Promise!Next
<1>7. CASE /\ Status(u) = "pending" /\ Status(u)' = "committing"
           /\ worker[u] = "last-budget"
  <2>1. lock = u
    BY <1>7 DEF LockFollows, Active
  <2>2. \A v \in Updaters : Status(v) # "committing"
    BY <1>7, <2>1 DEF LockFollows, Active, Status, Committing, Stages
  <2>3. ~Recycling
    BY <2>1, UpdateAssumption DEF Recycling
  <2>4. Promise!BeginCommit(u)
    BY <1>3, <1>4, <1>7, <2>2, <2>3
       DEF Promise!BeginCommit, View, Recycling
  <2> QED BY <2>4 DEF Promise!Next
<1>8. CASE Status(u) = "committing" /\ Status(u)' \in {"updated", "failed"}
  <2>1. Promise!EndCommit(u)
    BY <1>3, <1>4, <1>8 DEF Promise!EndCommit, View, Recycling
  <2> QED BY <2>1 DEF Promise!Next
<1> QED BY <1>1, <1>5, <1>6, <1>7, <1>8 DEF StatusMoves

\* A step of anybody else is a recycle's begin or end, or none.
LEMMA OthersStep ==
  ASSUME LockFollows, Others \/ UNCHANGED vars
  PROVE  [Promise!Next]_(Promise!vars)
<1>1. View' = View
  BY DEF Others, StuckRestart, LockForRecycle, Recycle, Operator, vars, procs,
     data, View, Status, Committing
<1>2. CASE StuckRestart \/ Operator \/ UNCHANGED vars
  BY <1>1, <1>2 DEF StuckRestart, Operator, vars, locking, View, Promise!vars
<1>3. CASE LockForRecycle
  <2>1. \A u \in Updaters : Status(u) # "committing"
    BY <1>3, UpdateAssumption
       DEF LockForRecycle, LockFollows, Active, Status, Committing, Stages
  <2>2. Promise!BeginRecycle
    BY <1>1, <1>3, <2>1, UpdateAssumption
       DEF LockForRecycle, Promise!BeginRecycle, View
  <2> QED BY <2>2 DEF Promise!Next
<1>4. CASE Recycle
  <2>1. lock' = None
    BY <1>4 DEF Recycle, Close, LockFollows
  <2>2. Promise!EndRecycle
    BY <1>1, <1>4, <2>1, UpdateAssumption DEF Recycle, Promise!EndRecycle, View
  <2> QED BY <2>2 DEF Promise!Next
<1> QED BY <1>2, <1>3, <1>4 DEF Others

\* The updater implements its promise: a run changes nothing, or it is the only
\* one changing the deployment until it has reported "updated" or an error.
THEOREM Implements == Spec => KeepsPromise
<1>1. Init => Promise!Init
  BY UpdateAssumption
     DEF Init, Promise!Init, Status, Committing, Stages, Outcomes
<1>2. TypeOK /\ LockFollows /\ ReportsFollow /\ [Next]_vars
        => [Promise!Next]_(Promise!vars)
  BY RunStep, OthersStep DEF Next
<1> QED BY <1>1, <1>2, UpdateTyped, LockInvariant, ReportsInvariant, PTL
        DEF Spec, KeepsPromise, Promise!Spec
=============================================================================
