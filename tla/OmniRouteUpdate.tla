--------------------------- MODULE OmniRouteUpdate ---------------------------
(***************************************************************************)
(* Runs of the OmniRoute updater against one container backend: the shell  *)
(* (scripts/update-omniroute.sh, omniroute-apply-when-idle.sh), the        *)
(* observer it starts (pylib/omniroute_observer.py), the detached commit   *)
(* worker (omniroute-commit-worker.sh), the flock'ed update lock the shell *)
(* and the worker share, and everybody else who touches the container: the *)
(* healer, which takes the lock for a memory recycle and not for a stuck   *)
(* lease, and the operator.  Shells may be terminated or killed anywhere.  *)
(*                                                                         *)
(* What the observer's verdicts rest on is IdleObservation's subject; here *)
(* a verdict of "wait" or "ready" is free as long as the inventory agrees. *)
(***************************************************************************)
EXTENDS Naturals, FiniteSets

CONSTANTS
  Updaters,    \* runs of the updater
  Healer,      \* a healer run that wants a memory recycle
  Images,      \* image config ids
  MaxChanges,  \* bound: changes made by others
  MaxSignals,  \* bound: signals sent to updater shells
  None

Outcomes == {"unchanged", "updated", "deferred", "error", "terminated"}

ASSUME UpdateAssumption ==
  /\ Healer \notin Updaters
  /\ None \notin Updaters \cup {Healer} \cup Images \cup Outcomes
  /\ {MaxChanges, MaxSignals} \subseteq Nat

VARIABLES
  \* the backend
  target,    \* the container named omniroute, or None
  peers,     \* version of the other relevant containers
  tag,       \* the image the configured tag names locally
  changes,   \* changes made by others so far
  stamp,     \* source of container ids and start times
  \* the update lock: who locked the open file, and which processes of that
  \* run still have it open (FD 9; the healer's FD 8)
  lock, fds,
  \* per run
  shell,     \* program counter of the updater shell
  observer,  \* "none", "running" or "ended"
  worker,    \* program counter of the commit worker
  job,       \* baseline, resolved image, wait deadline, round
  files,     \* the work directory, its password files and latest.json
  outcome,   \* the result line, or None
  touched    \* history: the run has tried to change the deployment

backend == <<target, peers, tag, changes, stamp>>
locking == <<lock, fds>>
procs   == <<shell, observer, worker>>
data    == <<job, files, outcome>>
vars    == <<backend, locking, procs, data, touched>>

Containers == [id : Nat, img : Images, started : Nat, up : BOOLEAN]

ASSUME NoneIsNoContainer == None \notin Containers

Baselines  == [target : Containers \cup {None}, peers : Nat]
Jobs       == [base : Baselines, img : Images,
               deadline : {"unset", "left", "over"}, round : {1, 2}]
Latests    == [verdict : {"wait", "ready", "unknown", "deadline", "changed",
                          "replaced"},
               fresh : BOOLEAN, round : {1, 2}]
Files      == [work : BOOLEAN, pw : BOOLEAN, latest : Latests \cup {None}]

-----------------------------------------------------------------------------
(* Vocabulary.                                                             *)

\* The open file of the lock is shared: flock lets go when its last descriptor
\* is closed.
Close(run, proc) ==
  IF lock = run
  THEN /\ fds' = fds \ {proc}
       /\ lock' = IF fds' = {} THEN None ELSE lock
  ELSE UNCHANGED locking

\* The recorded inventory and the present one, with start times: recheck and
\* assert_unchanged.  Whether a container is up is not part of it.
Identity(c)  == IF c = None THEN None ELSE [c EXCEPT !.up = TRUE]
Unchanged(u) == /\ Identity(target) = Identity(job[u].base.target)
                /\ peers = job[u].base.peers
Replaced(u)  == /\ job[u].base.target # None
                /\ target # None => target.id # job[u].base.target.id

Absent(u)  == job[u].base.target = None
Running(u) == ~Absent(u) /\ job[u].base.target.up

NoFiles == [work |-> FALSE, pw |-> FALSE, latest |-> None]

\* Every exit of the shell but SIGKILL: the EXIT trap stops the observer and
\* removes the work directory; FD 9 closes.
ExitShell(u, result) ==
  /\ shell' = [shell EXCEPT ![u] = "ended"]
  /\ observer' = [observer EXCEPT ![u] = IF @ = "running" THEN "ended" ELSE @]
  /\ files' = [files EXCEPT ![u] = NoFiles]
  /\ outcome' = [outcome EXCEPT ![u] = result]
  /\ Close(u, "shell")
  /\ UNCHANGED <<backend, worker, job, touched>>

\* A step of the shell that goes on.
Goto(u, pc) == /\ shell' = [shell EXCEPT ![u] = pc]
               /\ UNCHANGED <<backend, worker, outcome, touched>>

-----------------------------------------------------------------------------
(* The updater shell, up to the hand-off.                                  *)

\* mktemp and the traps.  A signal between the two ends the shell as Kill does.
Start(u) ==
  /\ shell[u] = "new"
  /\ files' = [files EXCEPT ![u].work = TRUE]
  /\ Goto(u, "lock")
  /\ UNCHANGED <<locking, observer, job>>

TakeLock(u) ==
  /\ shell[u] = "lock"
  /\ \/ /\ lock = None
        /\ lock' = u /\ fds' = {"shell"}
        /\ Goto(u, "preflight")
        /\ UNCHANGED <<observer, job, files>>
     \/ /\ lock # None
        /\ ExitShell(u, "deferred")

\* Every step may refuse (75) or fail (1) on what this model leaves out; at the
\* hand-off, writing the passwords or commit.env may fail.
Refuse(u) ==
  \/ /\ shell[u] \in {"lock", "preflight", "resolve", "apply"}
     /\ \E result \in {"deferred", "error"} : ExitShell(u, result)
  \/ /\ shell[u] \in {"handoff", "prepared"}
     /\ ExitShell(u, "error")

\* The relevant inventory is read.
Preflight(u) ==
  /\ shell[u] = "preflight"
  /\ job' = [job EXCEPT ![u].base = [target |-> target, peers |-> peers]]
  /\ Goto(u, "resolve")
  /\ UNCHANGED <<locking, observer, files>>

\* Characterize, resolve, pull and verify.  Whether the rendered service differs
\* from the container (drift) and what the reference resolves to is open.
UpToDate(u, img, drift) ==
  ~Absent(u) /\ img = job[u].base.target.img /\ ~drift

Resolve(u) ==
  /\ shell[u] = "resolve"
  /\ \E img \in Images, drift \in BOOLEAN :
       IF UpToDate(u, img, drift)
       THEN ExitShell(u, "unchanged")
       ELSE /\ job' = [job EXCEPT ![u].img = img]
            /\ Goto(u, "apply")
            /\ UNCHANGED <<locking, observer, files>>

\* apply_when_idle up to the observer's start.  A running target is observed,
\* with its password in the work directory; the wait budget starts once.

Budget(d) == IF d = "unset" THEN "left" ELSE d

Apply(u) ==
  /\ shell[u] = "apply"
  /\ job' = [job EXCEPT ![u].deadline = Budget(@)]
  /\ IF Running(u)
     THEN /\ files' = [files EXCEPT ![u].pw = TRUE]
          /\ Goto(u, "launch")
     ELSE /\ UNCHANGED files
          /\ Goto(u, "handoff")
  /\ UNCHANGED <<locking, observer>>

StartObserver(u) ==
  /\ shell[u] = "launch"
  /\ observer' = [observer EXCEPT ![u] = "running"]
  /\ Goto(u, "observe")
  /\ UNCHANGED <<locking, job, files>>

\* One turn of the poll loop: the deadline, then a verdict not seen yet, then
\* an observer that is gone or has been silent for too long.
PollDeadline(u) ==
  /\ shell[u] = "observe" /\ job[u].deadline = "over"
  /\ ExitShell(u, "deferred")

Verdict(u) == /\ shell[u] = "observe"
              /\ job[u].deadline # "over"
              /\ files[u].latest # None /\ files[u].latest.fresh

\* Its first verdict says the observer has read the password.
Read(f) == [f EXCEPT !.pw = FALSE, !.latest = [@ EXCEPT !.fresh = FALSE]]

PollWait(u) ==
  /\ Verdict(u) /\ files[u].latest.verdict = "wait"
  /\ files' = [files EXCEPT ![u] = Read(@)]
  /\ UNCHANGED <<backend, locking, procs, job, outcome, touched>>

PollReady(u) ==
  /\ Verdict(u) /\ files[u].latest.verdict = "ready"
  /\ files' = [files EXCEPT ![u] = Read(@)]
  /\ Goto(u, "handoff")
  /\ UNCHANGED <<locking, observer, job>>

\* A relevant change (not a replacement) starts over, once.

MayRebaseline(u) == files[u].latest.verdict = "changed" /\ job[u].round = 1

\* Mutant: latest.json of the first observer stays.
RebaselineOnOldVerdict(u) ==
  /\ Verdict(u) /\ MayRebaseline(u)
  /\ observer' = [observer EXCEPT ![u] = "ended"]
  /\ files' = [files EXCEPT ![u].pw = FALSE]
  /\ job' = [job EXCEPT ![u].round = @ + 1]
  /\ Goto(u, "preflight")
  /\ UNCHANGED locking

Rebaseline(u) ==
  /\ Verdict(u) /\ MayRebaseline(u)
  /\ observer' = [observer EXCEPT ![u] = "ended"]
  /\ files' = [files EXCEPT ![u].pw = FALSE, ![u].latest = None]
  /\ job' = [job EXCEPT ![u].round = @ + 1]
  /\ Goto(u, "preflight")
  /\ UNCHANGED locking

PollDefer(u) ==
  /\ Verdict(u) /\ files[u].latest.verdict \notin {"wait", "ready"}
  /\ ~MayRebaseline(u)
  /\ ExitShell(u, "deferred")

PollSilence(u) ==
  /\ shell[u] = "observe" /\ job[u].deadline # "over"
  /\ files[u].latest # None => ~files[u].latest.fresh
  /\ ExitShell(u, "deferred")

-----------------------------------------------------------------------------
(* The hand-off.  The shell stops the observer, writes the passwords again, *)
(* gives up its traps -- the worker owns the directory from then on -- and  *)
(* starts the worker, which inherits FD 9.                                  *)

PrepareCommit(u) ==
  /\ shell[u] = "handoff"
  /\ observer' = [observer EXCEPT ![u] = IF @ = "running" THEN "ended" ELSE @]
  /\ files' = [files EXCEPT ![u].pw = TRUE]
  /\ Goto(u, "prepared")
  /\ UNCHANGED <<locking, job>>

DropTraps(u) ==
  /\ shell[u] = "prepared"
  /\ Goto(u, "untrapped")
  /\ UNCHANGED <<locking, observer, job, files>>

\* Mutant: the worker does not inherit FD 9.
SpawnWorkerUnlocked(u) ==
  /\ shell[u] = "untrapped"
  /\ shell' = [shell EXCEPT ![u] = "waiting"]
  /\ worker' = [worker EXCEPT ![u] = "budget"]
  /\ UNCHANGED <<backend, locking, observer, data, touched>>

SpawnWorker(u) ==
  /\ shell[u] = "untrapped"
  /\ shell' = [shell EXCEPT ![u] = "waiting"]
  /\ worker' = [worker EXCEPT ![u] = "budget"]
  /\ fds' = fds \cup {"worker"}
  /\ UNCHANGED <<backend, lock, observer, data, touched>>

\* Mutant: the shell leaves the directory to the worker.
ReapNothing(u) ==
  /\ shell[u] = "waiting" /\ worker[u] = "ended"
  /\ shell' = [shell EXCEPT ![u] = "ended"]
  /\ Close(u, "shell")
  /\ UNCHANGED <<backend, observer, worker, data, touched>>

\* The worker is gone: remove what it could not, and exit as it did.
Reap(u) ==
  /\ shell[u] = "waiting" /\ worker[u] = "ended"
  /\ shell' = [shell EXCEPT ![u] = "ended"]
  /\ files' = [files EXCEPT ![u] = NoFiles]
  /\ Close(u, "shell")
  /\ UNCHANGED <<backend, observer, worker, job, outcome, touched>>

\* Signals, at most MaxSignals of them: SIGKILL, wherever the shell is.
MaySignal ==
  Cardinality({u \in Updaters : shell[u] = "killed"
                                \/ outcome[u] = "terminated"}) < MaxSignals

Kill(u) ==
  /\ MaySignal
  /\ shell[u] \notin {"new", "ended", "killed"}
  /\ shell' = [shell EXCEPT ![u] = "killed"]
  /\ Close(u, "shell")
  /\ UNCHANGED <<backend, observer, worker, data, touched>>

\* TERM, HUP or INT: through the EXIT trap as long as there is one.
Trapped(u) == shell[u] \notin {"new", "untrapped", "waiting", "ended", "killed"}

Terminate(u) == MaySignal /\ Trapped(u) /\ ExitShell(u, "terminated")

-----------------------------------------------------------------------------
(* The observer: one action per sample and verdict.                        *)

\* The inventory is rechecked in every sample, so "ready" says it agreed; the
\* gate says nothing but a deferral once the budget is over.
Verdicts(u) ==
  IF ~Unchanged(u) THEN {IF Replaced(u) THEN "replaced" ELSE "changed"}
  ELSE IF job[u].deadline = "over" THEN {"deadline"}
  ELSE IF target.up THEN {"wait", "ready", "unknown"}
  ELSE {"wait", "unknown"}

Sample(u) ==
  /\ observer[u] = "running" /\ files[u].work
  /\ \E verdict \in Verdicts(u) :
       files' = [files EXCEPT ![u].latest =
                   [verdict |-> verdict, fresh |-> TRUE,
                    round |-> job[u].round]]
  /\ UNCHANGED <<backend, locking, procs, job, outcome, touched>>

\* Mutant: the observer only exits.
OrphanedLeavesFiles(u) ==
  /\ observer[u] = "running" /\ shell[u] = "killed"
  /\ observer' = [observer EXCEPT ![u] = "ended"]
  /\ UNCHANGED <<backend, locking, shell, worker, data, touched>>

\* The lease died: the shell was killed, and nobody else removes its directory.
Orphaned(u) ==
  /\ observer[u] = "running" /\ shell[u] = "killed"
  /\ files' = [files EXCEPT ![u] = NoFiles]
  /\ observer' = [observer EXCEPT ![u] = "ended"]
  /\ UNCHANGED <<backend, locking, shell, worker, job, outcome, touched>>

\* latest.json cannot be written (exit 74), whoever is still there.
ObserverFails(u) ==
  /\ observer[u] = "running"
  /\ observer' = [observer EXCEPT ![u] = "failed"]
  /\ UNCHANGED <<backend, locking, shell, worker, data, touched>>

-----------------------------------------------------------------------------
(* The commit worker.                                                      *)

\* Mutant: a container monitor that outlives the worker inherited FD 9.
EndWorkerLocked(u, result) ==
  /\ worker' = [worker EXCEPT ![u] = "ended"]
  /\ files' = [files EXCEPT ![u] = NoFiles]
  /\ outcome' = [outcome EXCEPT ![u] = result]
  /\ UNCHANGED <<locking, shell, observer, job>>

\* Every end of the worker: its EXIT trap removes the directory, FD 9 closes.
EndWorker(u, result) ==
  /\ worker' = [worker EXCEPT ![u] = "ended"]
  /\ files' = [files EXCEPT ![u] = NoFiles]
  /\ outcome' = [outcome EXCEPT ![u] = result]
  /\ Close(u, "worker")
  /\ UNCHANGED <<shell, observer, job>>

\* A step of the worker that goes on.
Advance(u, pc) == /\ worker' = [worker EXCEPT ![u] = pc]
                  /\ UNCHANGED <<locking, shell, observer, data>>

\* The exclusive deadline is looked at first and, again, last.
CheckBudget(u) ==
  /\ worker[u] \in {"budget", "last-budget"}
  /\ \/ job[u].deadline = "over" /\ EndWorker(u, "deferred")
     \/ EndWorker(u, "error")
     \/ /\ job[u].deadline # "over"
        /\ Advance(u, IF worker[u] = "budget" THEN "recheck" ELSE "tag")
  /\ UNCHANGED <<backend, touched>>

\* A command before the first mutation that says no: the worker exits as it did,
\* with 75 or with a failure of its own.
GiveUp(u) == \E result \in {"deferred", "error"} : EndWorker(u, result)

\* preflight --recheck: any relevant change, or a command that fails, ends it.
Recheck(u) ==
  /\ worker[u] = "recheck"
  /\ \/ Unchanged(u) /\ Advance(u, "look")
     \/ GiveUp(u)
  /\ UNCHANGED <<backend, touched>>

\* The last look, at a target that was running: activity, an unknown sample or
\* no answer ends it.
LastLook(u) ==
  /\ worker[u] = "look"
  /\ \/ /\ Running(u) => target # None /\ target.up
        /\ Advance(u, "last-budget")
     \/ Running(u) /\ GiveUp(u)
  /\ UNCHANGED <<backend, touched>>

\* From here on a step that fails ends the worker with an error.
Stages   == {"tag", "stop", "rm", "name", "up", "verify"}
Touch(u) == touched' = [touched EXCEPT ![u] = TRUE]

\* A pinned reference names its image already.
Tag(u) ==
  /\ worker[u] = "tag"
  /\ \/ Touch(u) /\ tag' = job[u].img
     \/ tag = job[u].img /\ UNCHANGED <<tag, touched>>
  /\ Advance(u, IF Absent(u) THEN "name" ELSE "stop")
  /\ UNCHANGED <<target, peers, changes, stamp>>

HasTheName(u) == target # None  \* mutant: stop and rm by name

\* podman stop and podman rm name the container by its id.
IsBaseline(u) == ~Absent(u) /\ target # None /\ ~Replaced(u)

Stop(u) ==
  /\ worker[u] = "stop" /\ Touch(u)
  /\ IsBaseline(u)
  /\ target' = [target EXCEPT !.up = FALSE]
  /\ Advance(u, "rm")
  /\ UNCHANGED <<peers, tag, changes, stamp>>

Remove(u) ==
  /\ worker[u] = "rm" /\ Touch(u)
  /\ IsBaseline(u) /\ ~target.up
  /\ target' = None
  /\ Advance(u, "name")
  /\ UNCHANGED <<peers, tag, changes, stamp>>

CheckName(u) ==
  /\ worker[u] = "name"
  /\ target = None
  /\ Advance(u, "up")
  /\ UNCHANGED <<backend, touched>>

\* up --no-recreate: a container that took the name meanwhile is only started.
\* The projection names the resolved image, the deployed file the tag.
Up(u) ==
  /\ worker[u] = "up" /\ Touch(u)
  /\ stamp' = stamp + 1
  /\ target' = IF target # None
               THEN [target EXCEPT !.up = TRUE,
                                   !.started = IF target.up THEN @ ELSE stamp]
               ELSE [id |-> stamp, started |-> stamp, up |-> TRUE,
                     img |-> IF Absent(u) THEN tag ELSE job[u].img]
  /\ Advance(u, "verify")
  /\ UNCHANGED <<peers, tag, changes>>

Verify(u) ==
  /\ worker[u] = "verify"
  /\ target # None /\ ~IsBaseline(u)
  /\ target.img = job[u].img /\ target.up
  /\ peers = job[u].base.peers
  /\ EndWorker(u, "updated")
  /\ UNCHANGED <<backend, touched>>

\* Mutant: a stage that fails exits 75.
DeferStage(u) ==
  /\ worker[u] \in Stages
  /\ Touch(u)
  /\ EndWorker(u, "deferred")
  /\ UNCHANGED backend

FailStage(u) ==
  /\ worker[u] \in Stages
  /\ Touch(u)
  /\ EndWorker(u, "error")
  /\ UNCHANGED backend

\* timeout(1) ends a worker over its time budget: TERM, which its trap sees,
\* or KILL, which leaves the directory to the shell.
Timeout(u) ==
  /\ worker[u] \notin {"none", "ended"}
  /\ IF worker[u] \in Stages THEN Touch(u) ELSE UNCHANGED touched
  /\ worker' = [worker EXCEPT ![u] = "ended"]
  /\ files' \in {files, [files EXCEPT ![u] = NoFiles]}
  /\ outcome' = [outcome EXCEPT ![u] = "error"]
  /\ Close(u, "worker")
  /\ UNCHANGED <<backend, shell, observer, job>>

-----------------------------------------------------------------------------
(* Everybody else, at most MaxChanges times.                               *)

\* Nobody looks at the deadline of a run that is over.
DeadlinePasses(u) ==
  /\ job[u].deadline = "left"
  /\ \/ shell[u] \notin {"ended", "killed"}
     \/ worker[u] \notin {"none", "ended"}
     \/ observer[u] = "running"
  /\ job' = [job EXCEPT ![u].deadline = "over"]
  /\ UNCHANGED <<backend, locking, procs, files, outcome, touched>>

MayChange == changes < MaxChanges /\ changes' = changes + 1

Restarted == [target EXCEPT !.up = TRUE, !.started = stamp]

\* heal-omniroute-admission.sh, stuck lease: podman restart, without the lock.
StuckRestart ==
  /\ MayChange /\ target # None
  /\ target' = Restarted /\ stamp' = stamp + 1
  /\ UNCHANGED <<peers, tag, locking, procs, data, touched>>

\* The same script, memory recycle: under the update lock, or not at all.
\* Mutant: the answer of flock is not looked at.
RecycleAnyway ==
  /\ MayChange /\ lock # Healer
  /\ lock' = Healer /\ fds' = {"healer"}
  /\ UNCHANGED <<target, peers, tag, stamp, procs, data, touched>>

LockForRecycle ==
  /\ MayChange /\ lock = None
  /\ lock' = Healer /\ fds' = {"healer"}
  /\ UNCHANGED <<target, peers, tag, stamp, procs, data, touched>>

Recycle ==
  /\ lock = Healer
  /\ IF target = None
     THEN UNCHANGED <<target, stamp>>
     ELSE target' = Restarted /\ stamp' = stamp + 1
  /\ Close(Healer, "healer")
  /\ UNCHANGED <<peers, tag, changes, procs, data, touched>>

\* The operator stops, removes or creates the container (make stop, make start)
\* or something restarts one of its peers.
Operator ==
  /\ MayChange
  /\ \/ /\ target # None /\ target.up
        /\ target' = [target EXCEPT !.up = FALSE]
        /\ UNCHANGED <<peers, stamp>>
     \/ /\ target # None
        /\ target' = None
        /\ UNCHANGED <<peers, stamp>>
     \/ /\ target = None
        /\ target' = [id |-> stamp, img |-> tag, started |-> stamp, up |-> TRUE]
        /\ stamp' = stamp + 1
        /\ UNCHANGED peers
     \/ /\ peers' = peers + 1
        /\ UNCHANGED <<target, stamp>>
  /\ UNCHANGED <<tag, locking, procs, data, touched>>

-----------------------------------------------------------------------------
Init ==
  /\ tag \in Images
  /\ target \in {None} \cup
       [id : {0}, img : {tag}, started : {0}, up : BOOLEAN]
  /\ peers = 0 /\ changes = 0 /\ stamp = 1
  /\ lock = None /\ fds = {}
  /\ shell = [u \in Updaters |-> "new"]
  /\ observer = [u \in Updaters |-> "none"]
  /\ worker = [u \in Updaters |-> "none"]
  /\ job = [u \in Updaters |->
              [base |-> [target |-> None, peers |-> 0], img |-> tag,
               deadline |-> "unset", round |-> 1]]
  /\ files = [u \in Updaters |-> NoFiles]
  /\ outcome = [u \in Updaters |-> None]
  /\ touched = [u \in Updaters |-> FALSE]

Poll(u) == \/ PollDeadline(u) \/ PollWait(u) \/ PollReady(u)
           \/ Rebaseline(u) \/ PollDefer(u) \/ PollSilence(u)

Shell(u) == \/ Start(u) \/ TakeLock(u) \/ Refuse(u) \/ Preflight(u)
            \/ Resolve(u) \/ Apply(u) \/ StartObserver(u) \/ Poll(u)
            \/ PrepareCommit(u) \/ DropTraps(u) \/ SpawnWorker(u) \/ Reap(u)

Observer(u) == Sample(u) \/ Orphaned(u) \/ ObserverFails(u)

Worker(u) == \/ CheckBudget(u) \/ Recheck(u) \/ LastLook(u) \/ Tag(u)
             \/ Stop(u) \/ Remove(u) \/ CheckName(u) \/ Up(u)
             \/ Verify(u) \/ FailStage(u) \/ Timeout(u)

Signals(u) == Kill(u) \/ Terminate(u)

Others == StuckRestart \/ LockForRecycle \/ Recycle \/ Operator

Next ==
  \/ \E u \in Updaters :
       Shell(u) \/ Observer(u) \/ Worker(u) \/ Signals(u) \/ DeadlinePasses(u)
  \/ Others

Spec == Init /\ [][Next]_vars

\* What the operating system and the scripts' own timeouts see to: a worker and
\* a waiting shell go on, and an orphaned observer notices (0.2 s poll).
Fairness ==
  \A u \in Updaters :
    WF_vars(Timeout(u)) /\ WF_vars(Reap(u)) /\ WF_vars(Orphaned(u))

FairSpec == Spec /\ Fairness
-----------------------------------------------------------------------------
ShellPCs  == {"new", "lock", "preflight", "resolve", "apply", "launch",
              "observe", "handoff", "prepared", "untrapped", "waiting",
              "ended", "killed"}
WorkerPCs == {"none", "budget", "recheck", "look", "last-budget", "ended"}
               \cup Stages

BackendOK == /\ target \in Containers \cup {None}
             /\ tag \in Images
             /\ {peers, stamp} \subseteq Nat
             /\ changes \in 0 .. MaxChanges
LockOK    == /\ lock \in Updaters \cup {Healer, None}
             /\ fds \subseteq {"shell", "worker", "healer"}
ProcsOK   == /\ shell \in [Updaters -> ShellPCs]
             /\ observer \in [Updaters -> {"none", "running", "ended", "failed"}]
             /\ worker \in [Updaters -> WorkerPCs]
ResultsOK == /\ outcome \in [Updaters -> Outcomes \cup {None}]
             /\ touched \in [Updaters -> BOOLEAN]

\* Type correctness.
TypeOK == /\ BackendOK /\ LockOK /\ ProcsOK /\ ResultsOK
          /\ job \in [Updaters -> Jobs]
          /\ files \in [Updaters -> Files]

\* A run is changing the deployment: its worker is past the last check.
Committing(u) == worker[u] \in Stages

\* At most one of the parties that take the update lock changes the deployment
\* at a time, a memory recycle included, whatever happens to the shells: the
\* worker of a shell that was killed keeps the lock until it ends. (FD 9
\* inherited by the commit worker, FD 8 of the healer.)
OneCommitter ==
  \A u \in Updaters :
    Committing(u) => /\ lock # Healer
                     /\ \A v \in Updaters : Committing(v) => v = u

\* What a run amounts to, seen from outside: UpdatePromise's view of it.
Status(u) ==
  IF Committing(u) THEN "committing"
  ELSE IF outcome[u] = "updated" THEN "updated"
  ELSE IF touched[u] THEN "failed"
  ELSE IF worker[u] = "ended" \/ (/\ worker[u] = "none"
                                 /\ shell[u] \in {"ended", "killed"})
       THEN "clean"
  ELSE "pending"

Promise == INSTANCE UpdatePromise
             WITH Runs <- Updaters,
                  status <- [u \in Updaters |-> Status(u)],
                  recycling <- (lock = Healer)

\* The whole pipeline of shell, observer and worker, with its signals, lost
\* shells and timeouts, is one exclusive, all-or-reported step per run.
KeepsPromise == Promise!Spec

\* A run that reports a deferral, "unchanged" or its termination has changed
\* nothing: 75 is the safe outcome, also when it comes from the worker.
\* (README "Deferral is the normal safe outcome")
RefusalIsClean ==
  \A u \in Updaters :
    outcome[u] \in {"unchanged", "deferred", "terminated"} => ~touched[u]

\* A verdict is only ever read by the observation it was made for: after a
\* re-baseline nothing of the first observer is left. (Rebaseline in
\* apply_when_idle: stop_observer, rm latest.json)
VerdictIsCurrent ==
  \A u \in Updaters :
    shell[u] = "observe" /\ files[u].latest # None
      => files[u].latest.round = job[u].round

\* A shell that ends by itself leaves no work directory and no password, even
\* if its worker was killed.  (EXIT traps, the rm -rf after the worker)
EndLeavesNothing ==
  \A u \in Updaters : shell[u] = "ended" => files[u] = NoFiles

\* A worker changes no container but the one its baseline recorded: a container
\* that someone else has put in its place is neither stopped nor removed.
\* (podman stop and rm by id, the name check, --no-recreate)
OnlyItsOwnTarget ==
  [][\A u \in Updaters :
       Worker(u) /\ target # None /\ target' # target
         => IF target' # None /\ target'.up
            THEN target'.id = target.id
            ELSE ~Absent(u) /\ target.id = job[u].base.target.id]_vars

\* Once handed over, the lock comes back: whatever the worker or a command of
\* it does, and whether or not the shell survives. (timeout --kill-after, and
\* no child inherits FD 9)
CommitReleasesLock ==
  \A u \in Updaters : worker[u] \notin {"none", "ended"} ~> lock = None

\* A shell killed while its observer runs leaves no directory behind unless the
\* observer cannot write there. (supervise, orphaned)
OrphanCleansUp ==
  \A u \in Updaters :
    shell[u] = "killed" /\ observer[u] = "running"
      ~> files[u] = NoFiles \/ observer[u] = "failed"
=============================================================================
