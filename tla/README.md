# A verification of llm-env

llm-env turns a GPU workstation into a local LLM server: `llmenv.py` and the
scripts render a compose file, start model servers and the OmniRoute router in
front of them, hand client configuration to other machines, and keep the router
up to date and healthy. Most of the repository renders, probes or measures. The
part where several processes act on shared state over time is the OmniRoute
update: a shell, a Python observer, a detached worker, a timer-driven healer and
the operator, all with the power to stop the same container. That part
is modelled most closely. The rest of the project follows the other places where
something is decided from what was read earlier, repeated after a failure, or
shared: the agent runner with its threads and signals, the service that hands out
keys, the tools that write to OmniRoute, the trial that may post once, and the
arithmetic of limits and budgets, over every configuration of small instances.

All paths are relative to `src/`.

## Inventory

| component | state it keeps | operations | interacts with |
| --- | --- | --- | --- |
| idle gate (`pylib/omniroute_activity.py`, `IdleGate`) | first health timestamp, whether it has advanced, quiet window and its generations, resampling flag, start of an unknown run | `step(sample, now)` | called by the observer for every sample |
| activity sampling (`Collector`, `JournalctlReader`, `classify`) | journal seed, retained cursors, arrival and row generations, last call-log rows, admin token | `sample`, `poll`, `_call_logs`, `reset_token` | journalctl, OmniRoute's admin API, podman |
| observer (`pylib/omniroute_observer.py`) | parent lease, `latest.json` | `observe_loop`, `supervise`, orphan clean-up | writes verdicts for the updater shell |
| updater shell (`scripts/update-omniroute.sh`, `omniroute-apply-when-idle.sh`) | work directory, baseline, wait deadline, observer pid, traps, FD 9 | preflight, characterize, resolve, apply, hand-off | starts observer and worker, holds the lock |
| commit worker (`scripts/omniroute-commit-worker.sh`) | inherited FD 9, work directory | budget, recheck, last look, tag, stop, rm, up, verify | podman, compose |
| update lock (`tools/lib.sh`) | flock on one file | take, inherit, close | updater, worker, healer |
| healer (`scripts/heal-omniroute-admission.sh`) | shed counter, strikes, memory restarts in a state file | detect, strike, restart | journal, admin API, update lock |
| inventory and projection (`pylib/omniroute_update.py`) | baseline file | snapshot, recheck, classify, resolve, verify | podman, registry |
| bounded agent runner (`pylib/agent_runner.py`) | the scope's cgroup, two pipes, an event queue, stored chunks | start, drain (two threads), poll, TERM, KILL, prove the cgroup empty, conclude | the client it runs, systemd |
| remote setup service (`pylib/remote_setup.py`) | the flight (one fetch at a time), a worker per fetch, the key cache with its lock, the script's saved master key | `GET /config`, `ensure_api_key`, the installer script | client machines, OmniRoute |
| z.ai weekly reset (`pylib/zai_reset.py`) | windows redeemed, in a state file | `check` per connection: read the usage, POST with an idempotency key, record | z.ai, timer and operator |
| provisioning (`pylib/omniroute.py`, `omniroute_combos.py`) | a backup file | provision, import a Codex sign-in, ensure the local combo, back up and restore combos | OmniRoute, its dashboard |
| capacity and budget (`capacity.py`, `budget.py`, `resources.py`) | capacity cards | limits, overrides, budget; measure, file and use a card | `models.yml`, clients |
| configuration (`config.py`, `presets.py`, `dotenv.py`, `llmenv.py`) | `models.yml`, presets, `.env` | validate, edit | everything |
| Phoenix trial (`pylib/phoenix_trial.py`, `scripts/phoenix-trial.sh`) | per run: expected spans, preparation, attempt marker, receipt; a lock | prepare, mark, post, read back page by page, compare | Phoenix |
| interference gate (`pylib/interference.py`) | two snapshots of the services' counters | snapshot, evaluate | cgroups, podman |
| profile characterization (`pylib/omniroute_characterize.py`) | disposable containers | build a profile | podman |
| compose, detection, benchmarks | files | render, probe, measure | podman |

What is hard here: a sample is assembled from reads at different moments while
clients go on; verdicts travel through a file that holds only the last one; the
process that took the lock may be killed and its child must keep it; a change
by somebody else can fall between any check and the command that relies on it;
`timeout` may kill the worker anywhere in a sequence that cannot be rolled back.
`PROJECT.json` lists these hazards with their lines.

What makes each part correct:

* gate: `ready` only after `min_wait` seconds of confirmed, undisturbed quiet,
  before the deadline; unknown samples are sat out for a bounded time only;
* feed: a batch that looks healthy has accounted for every line;
* observation: a hand-off means the clients really had been quiet;
* pipeline: one committer at a time, refusals that changed nothing, verdicts and
  files that belong to the run, no container touched but the recorded one, a
  lock that comes back;
* healer: bounded and spaced restarts, attempts recorded before they happen;
* runner: a run that is reported complete kept all its output, a proof of an empty
  cgroup is true, and every run ends;
* remote setup: one fetch at a time, one API key, every request answered, no
  refused master key kept;
* reset: at most one card per weekly window;
* provisioning: no tokens overwritten that OmniRoute tells to be another account's,
  nothing made twice, a restore whole;
* trial: one POST per run, remembered; a verified receipt is an exact readback;
* planners: a limit is a limit, what is said to fit fits, what a client is told was
  measured;
* interference gate: a restart within the window is seen.

## Modules

| module | models | state and actions |
| --- | --- | --- |
| `IdleGate` | `IdleGate.step` | the gate's fields; one operator per way through `step`, each with the guards of the branches before it. History variables record what the samples said. |
| `IdleObservation` | `Collector.sample`, `classify`, `observe_loop`, the shell's poll of `latest.json`; instantiates `IdleGate` for the gate's step | a clock, client requests with start and end, unread log lines, the sample under way, the collector's generations, `latest.json`. A sample is `PollJournal`, `ReadHealth`, `ReadHistory` and `ReadRows`, or ends early in `SampleFails`; requests begin and end in between. |
| `MissedVerdict` | the same, EXTENDS `IdleObservation` | a history: whether the gate has deferred. |
| `JournalReader` | `JournalctlReader.poll` with journald and the follower | log, follower, pipe, reader's buffer, seed, retained cursors, the poll under way and its batch. `ReadLine` is one turn of the loop (select, readline, parse, retain). |
| `OmniRouteUpdate` | the updater shell, observer, worker, lock, healer's two restarts, operator | per run: program counters of shell, observer and worker, the job (baseline, image, deadline, round), the work files, the result; shared: target container, peers, tag, lock and the processes that hold it open. |
| `UpdatePromise` | nothing of the code: what a run promises seen from outside | `pending`, `committing` and the ways a run ends; memory recycles. |
| `AdmissionHealer` | `scripts/heal-omniroute-admission.sh`, one run at a time | the clock, the router's `shedTotal`, the state file, the run under way with its shell variables. `ReadHealth`, `Compare` (strike and first save), then `RestartLease` and `ClearStrikes`, or `NoBloat`/`Bloat` (memory strikes) and `Record`, `Recycle`; `Die` anywhere. History variables count the recycles and what the measurements found. |
| `BoundedRun` | `run_bounded_agent` with `_StreamDrain`, the event queue, `_Cgroup` and `_cleanup_now` | the client's processes (in the scope, outside, dead) and the pipes they hold, per stream what was written, read and stored, the main thread's program counter, deadlines, the result. The client forks, leaves the scope, writes, ignores TERM; every look at systemd may fail. |
| `KeyIssuance` | `ensure_api_key` under `_key_issuance_lock` and the cache file's lock | OmniRoute's keys per name, the cache files, the locks, each caller's step and key. Answers may be lost, callers die, the dashboard revokes. |
| `RemoteConfig` | the `/config` handler, `_fetch_config_inputs` and the installer script; EXTENDS `KeyIssuance`, whose `Issue` is the worker's first half | per client: script, saved and offered master key, request, worker, answer; the flight; the server's master key. A join that times out leaves its worker at work. |
| `PhoenixTrial` | `phoenix_trial.py` with `phoenix-trial.sh` | artifacts on disk and what of them was synced, the lock, actors with their page walks, Phoenix's inbox and store. `Post` has a lost, a refused and a lost-answer outcome; `PowerFailure` and `KillScript`. |
| `QuotaReset` | `zai_reset.check` | windows and quota per connection, keys the provider has honoured, the state file (read and written whole), passes. |
| `Provisioning` | `provision`, `import_codex_auth`, `ensure_local_combo`, `backup_combos`, `restore_combos` | OmniRoute's connections and combos, the backup file, the tool at work with its listing. Every request can fail before or after its effect. |
| `ResourceBudget` | `compute_resource_limits`, `validate_overrides`, the override commands, `compute_budget`, `cmd_budget`'s RAM check, the offloaded experts of `gguf.py` | `models.yml` as a record that commands and hands change, and the last answer. |
| `CapacityCard` | `capacity.py` (file, fingerprint, `usable`), `compute_combo_context`, `_build_unified_models` | the entry, the card, sweeps, commands under way, the last listing. A gate is `StartGate`, `EndGate`, `FileReport`, `SaveCard`, a sweep's filing `FileSweep`, `SaveCard`; edits fall in between and commands overlap. History variables record which entries a gate that passed had begun with. |
| `InterferenceGate` | `snapshot_services`, `evaluate` and the order of `model-interference.sh` | services with their lives and counters, two snapshots, the verdict. |
| `MCWatch`, `MCTools` and the other `MC` modules | instances | `MCWatch` and `MCTools` put models that share no state side by side: a behaviour is one of them at work. |
| `Watch_proofs` (gate, feed, healer), `IdleObservation_proofs`, `OmniRouteUpdate_proofs`, `BoundedRun_proofs`, `RemoteConfig_proofs` (with the key cache), `PhoenixTrial_proofs`, `Tools_proofs` (reset, provisioning, budget, card) | the theorems | |
| `NumberFacts` | nothing of the code: least and greatest numbers of a set | lemmas the proofs share |

How the models fit together: `IdleObservation` uses the gate itself, and what it
assumes of a journal batch (`PollJournal`: a batch that looks healthy leaves no
line behind) is what `JournalReader` shows (`HealthyFeedIsComplete`). Both ends are
proved, so the chain from journal lines to the hand-off holds for every instance,
but for the torn line of `torn_line`.
`OmniRouteUpdate` treats the observer as one that may answer `wait` or `ready`
freely while the inventory agrees; what `ready` means for clients is
`IdleObservation`'s result, and its healer is the outside of `AdmissionHealer`:
a lease restart without the lock, a recycle with it. `OmniRouteUpdate` implements
`UpdatePromise` under the mapping `Status`. `RemoteConfig` runs the actions of
`KeyIssuance` inside its workers, and `RemoteConfig_proofs` uses for them the lemmas it
proves of the key cache first. `CapacityCard` takes a configuration entry as a build
(file and flags) with a context; which of them are valid is `ResourceBudget`'s.

Abstractions worth knowing: time in the gate is a set of instants; an inventory
is the target container (id, image, start time, whether it is up) and one
version number for everything else that is relevant; projection, password and
digests are presence or equality only; a step of the shell that may fail for
reasons outside the model (a command that fails, a registry that does not
answer) is `Refuse`, `FailStage` or a failing recheck, possible at every point
where the code runs one. A container monitor (conmon) does not inherit the
lock because the script closes FD 9 for every command it starts, the worker
excepted. In `BoundedRun` a chunk stands for any number of bytes below the read
size; in `PhoenixTrial` a record has a shape (as sent, changed, unreadable) instead of
attributes; in `QuotaReset` the provider honours an idempotency key once, which is
what the POST's header asks of it and nothing in `src/` can show; in the planners a
size is a small number with the units of the code, and the roundings are kept.

## Runs

| run | instance | shows |
| --- | --- | --- |
| `watch` | the gate over all sequences of samples of eight instants; the feed with five lines, two retained cursors, long and torn lines, a change of boot; the healer with cooldown 2, day 5, clock up to 9 | `ReadyMeansQuiet`, `UnknownIsBounded`, with samples that repeat an instant, unknown runs longer than their budget and steps after a deferral; `HealthyFeedIsComplete`; `RecyclesSpaced`, `RecyclesCapped`, `RecycleEarned`, whatever dies and whoever else restarts the router |
| `observation` | two requests, `min_wait` 2, four ticks, no tolerance for future traces, one transient and one structural reason | `HandoffAfterQuiet`: at a hand-off every request that started before the confirming sample had been over for `min_wait`, less the time a sample may take |
| `missed_verdict` (violation) | the same, one request | a deferral is overwritten before the shell reads it |
| `feed_silence` (violation) | four lines, none torn | a silent feed reported as broken |
| `torn_line` (violation) | four lines | a lost line in a healthy batch |
| `update_exclusion` | two runs, one change by others, one signal | `OneCommitter`, `KeepsPromise` |
| `update_long_wait` | one run, two images, three changes, one signal, with fairness | `RefusalIsClean`, `VerdictIsCurrent`, `EndLeavesNothing`, `OnlyItsOwnTarget`; `CommitReleasesLock`, `OrphanCleansUp` |
| `bounded_run` | streams of at most two chunks with a limit of one, pipes of one, with fairness | `CompletedIsWhole`, `ProofHolds`, `OutcomeIsTrue`; `RunEnds` |
| `remote_config` | two clients, a right and a wrong master key (the server may have either or none), two keys, one restart, with fairness | `OneFetch`, `AnswerIsLive`, `SavedWasAccepted`; `RequestsEnd` |
| `phoenix_trial` | two actors, one run of two spans, pages of one record, one fault, one stray, with fairness | `PostedOnce`, `PostIsRemembered`, `VerifiedIsExact`; `ReadingEnds` |
| `tools` | see `MCTools` | `OneKeyPerCache`, `OneCardPerWindow`, `KnownOthersKeepTokens`, `NothingTwice`, `RestoreIsWhole`, `CapsNeverVanish`, `BudgetIsRight`, `UsableIsMeasured`, `ClientsStayWithin` |
| `hidden_restart` (violation) | two services, two ticks | a counter reset that is not seen |

Runs of models that share no state are merged, so that each run is one question
with as many properties as it takes; the type invariants are not part of a run
where room was needed, hold on the same instances, and are proved as parts of the
inductive invariants.

**Bounds.** The gate's outcome depends on differences between instants, so eight
instants around `min_wait` 2, unknown budget 1 and deadline 7 contain every
order of window, unknown run and deadline. Two requests are what it takes for
one to hide the other in the newest trace. Five lines and two retained cursors
let the cap be reached and the barrier fall out of the retained set. Exclusion
needs two contenders and a third party (the healer); a longer history of one
run is explored separately, with the three changes that a re-baseline, its
second round and the commit can each meet. A clock of
nine against a day of five and a cooldown of two gives time for the capped two
recycles, for the first of them to be forgotten and for a third. One chunk over
the limit is what tells a truncated stream from a whole one. Two clients are one
that fetches and one that meets the flight; three keys (`tools`) let a key be made,
revoked, made again and lost. Two actors are a repetition and the sender that
outlived its script, or a verification beside a seed; two spans on pages of one
let a walk see half. Two windows tell a second card for one from the first for the
next. Two accounts with three connections contain a preferred name that is
somebody else's. The hosts of `ResourceBudget` lie just below, at and well above
the floors. `MaxChanges`, `MaxSignals`, `MaxLines`, `MaxTime`, `MaxHealth`,
`MaxShed`, `MaxHeavy`, `MaxOutput`, `MaxKeys`, `MaxRestarts`, `MaxFaults`,
`MaxStrays`, `MaxPasses`, `MaxWindows`, `MaxId`, `MaxEdits`, `MaxWrites`, `MaxSet`,
`MaxClock`, `MaxPressure` and `MaxStarts` are the only bounds that are not in the
code. Deadlock is not checked: every one of these systems may stop (runs end,
clocks and counters reach their bound).

**Fairness.** Assumed only where a liveness property needs it, and only of what
the code or the kernel keeps going:

* `FairSpec` (`OmniRouteUpdate`): `Timeout` (the worker runs under
  `timeout --kill-after`), `Reap` (a shell in `wait` is woken when its child ends)
  and `Orphaned` (`supervise` looks at its lease every 0.2 s). Nothing is assumed
  of the shell's commands, of podman or of the worker's own progress.
* `FairRunSpec` (`BoundedRun`): the main thread runs, since each of its waits has a
  timeout, and its clock advances. Nothing is assumed of the client, of systemd or
  of the drain threads, which may hang on a pipe somebody else holds.
* `FairRemoteSpec` (`RemoteConfig`): a request's thread runs; its join has a
  deadline. OmniRoute and with it a worker may never come back.
* `FairPhoenixSpec` (`PhoenixTrial`): time passes for a reader, and its deadline,
  checked before each request, takes effect because each request has a timeout.

## What the runs found

* **A deferral may be missed** (`missed_verdict`). `observe_loop` goes on after
  a deferral and overwrites `latest.json`, which the shell reads once a second:
  `defer-unknown` followed by a confirmed quiet ends in a hand-off, where
  README.md says an unknown reason defers at once. `HandoffAfterQuiet` still
  holds, so no client is cut off by it.
* **A silent feed can look broken** (`feed_silence`). The reader waits with
  `select` on a pipe it reads through a buffered file; a line left in the buffer
  wakes nobody until another arrives, and the barrier counts as not seen. The
  outcome is safe (the update defers) but not what the design says of silence.
* **A torn line is lost** (`torn_line`). A line written in two pieces is read as
  two lines, neither of which parses; the batch still counts as healthy.
* **A restart can hide from the interference gate** (`hidden_restart`). A reset is
  inferred from an uptime that went down; a service that was young at the first
  snapshot and restarts is older at the second. Starting times would tell.

Seen in the models and kept as observations, without a run of their own:

* a password stays behind when the updater shell is killed between writing it and
  starting its reader (README.md:506-508 admits to less; `OmniRouteUpdate`);
* the healer accepts a cooldown of up to 9999 hours and remembers restarts for 24, for
  the cap and for the cooldown both, so README.md:536-537 ("at least
  `OMNIROUTE_HEAL_MEMORY_COOLDOWN_HOURS` apart") holds up to a day only.
  `RecyclesSpaced` says what the code keeps; its strict form fails as soon as
  `Cooldown` exceeds `Day`;
* `model-interference.sh` reads `models.yml`, loads the model for minutes and then runs
  `capacity write`, which stamps the report with the configuration of that moment: an
  edit in between gets the pass of the entry before it, and clients get an entry no
  gate was begun with, although only "a passed interference gate may feed the combo"
  (`llmenv.py:631`). `UsableIsMeasured` allows for such entries by name (`untested`);
  without them TLC finds the edit in nine states. The model takes a gate to measure
  the entry it began with; the llm-server it loads may have been started with another;
* an import goes by the email OmniRoute tells (`_codex_name_owned_by_other_email`,
  `pylib/omniroute.py:246-247`): a connection of the wanted name without one is
  overwritten, also when its session is another account's. The docstring's "whenever
  possible" (line 327) leaves room for it, and `KnownOthersKeepTokens` does not
  promise more;
* a member that a restore had to leave without a connection is written so into the
  next backup and stays so through every later restore, although a connection of its
  label may be back (`pylib/omniroute_combos.py:132-134`); `RestoreIsWhole` says so;
* two commands that file into one card each replace it as a whole: a depth filing
  that read the card before a gate's failed verdict was saved puts the earlier pass
  back (`CapacityCard`);
* the healer's strike compares `shedTotal` with the last sample's and never
  `activeHeavy`, which may have come down in between (script line 133 against its
  header, lines 13-19);
* a z.ai connection whose usage does not tell when the window ends has one
  idempotency key for all windows, so a second card waits until the
  provider has forgotten the first (`Untold` in `QuotaReset`); and a window may end between the
  reading and the POST, which then pays for the next one under the old key;
* a backup file may name two combos alike, if two had one name when it was written;
  a restore then finds the last of those listed (`existing_by_name`,
  `pylib/omniroute_combos.py:182`), creates the combo twice or writes both records into one, and nothing says
  which it was. `NothingTwice` and `RestoreIsWhole` are about names the file has
  once; the condition came out of a proof attempt;
* the characterization's containers are removed best-effort, so a killed run or a
  failing `podman rm` leaves them (not modelled).

## What is proved

Every safety invariant and safety action property that a passing run checks is
a theorem, for every value of the constants that the modules' `ASSUME`s allow.
None of them is inductive as it stands; what follows names the strengthening and
says why it is needed.

`Watch_proofs`, the gate: for all instants, generation counters, timestamps and
bounds, `ReadyIsQuiet` (`ReadyMeansQuiet`), `WindowUndisturbed`, `UnknownBounded`
(`UnknownIsBounded`) and `ReadyConfirmed`. `GateInv` adds that the window starts no
earlier than the last disturbance and carries the last generations, that a resampling
gate has a window, that the gate's `unknownSince` is the true start of the run of
unknown samples, and what each verdict says about the clock. All parts but the
type are conditional on no deferral having been answered: afterwards the gate
keeps a window it no longer maintains, which is harmless because nobody uses it
then except in `missed_verdict`. One lemma per way through `step` shows that it
keeps `GateInv`.

`Watch_proofs`, the feed: for any log, any cap on the retained cursors and any number
of torn lines, `HealthyFeeds` (`HealthyFeedIsComplete`), from `FeedInv`:
* `StreamOrdered`: the reader's buffer followed by the pipe is the rest of what
  was printed, in order, so the next line is known;
* `LinesAccounted`: every line after the seed and before the next one was read or
  torn, or there is trouble that will show in the batch;
* `PollBarrier`: the barrier is a line of the seed's boot, and a barrier that was met
  was read;
* `NotFollowing`: without a follower nothing was read.
The property is about the finished batch only; how a line got lost must be
visible from the moment it is.

`Watch_proofs`, the healer: for any thresholds, cooldown, cap and clock,
* `HealerTyped`: type correctness, which includes that the state file never
  remembers more restarts than the cap or more strikes than `MemorySamples`;
  a run past its checks still has what it checked (`ChecksHold`);
* `Spaced` and `CappedPerDay` (`RecyclesSpaced`, `RecyclesCapped`), from
  `Remembered`: every recycle of the last day is in the state file, or in the
  variables of the run that is about to write it. This holds across deaths
  because the attempt is written before the restart. Neither assumes
  anything of the cooldown: one longer than a day is kept for a day. Both
  count recycles since the state file was last lost (`LoseFile` starts the
  history over, because the code then counts from zero, as README.md says), and
  the clock never goes back;
* `Earned` (`RecycleEarned`), from `StrikesEarned`: the strikes in the file and
  in the run are no more than the measurements since the last recycle.

`IdleObservation_proofs`: for any requests, waits, pace, tolerance and unread lines,
`HandoffsAreQuiet` (`HandoffAfterQuiet`), from `QuietInv`: as long as no new
call-log row was counted since the window opened, the requests up to the newest
trace were over when it opened, give or take a sample (`WindowCovers`); a
published `ready` says so of its sample (`ReadyCovers`), and who hands off has read
one (`HandedReady`). The argument rests on the newest row of the call log alone:
journal arrivals make the gate more careful and are not needed for this.

`OmniRouteUpdate_proofs`: for any number of runs, images, changes and signals,
* `UpdateTyped`: type correctness, by one lemma per group of variables;
* `Exclusive` (`OneCommitter`), from `LockFollows`: whoever is past the lock in
  the shell, or alive in the worker, is the owner of the lock and has it open.
  The property alone does not say why the lock of a killed shell is still held;
* `RefusalsClean` (`RefusalIsClean`), from `ReportsFollow`: a run that has
  touched something has a worker, and the worker's result is the run's;
* `VerdictsAreCurrent` and `NothingIsLeft` (`VerdictIsCurrent`,
  `EndLeavesNothing`), from `LeavesFollow`: nobody observes from the hand-off on, so
  no verdict appears for a round that is over, nor a file in a directory that is gone;
* `OnlyOwnTarget` (`OnlyItsOwnTarget`): a worker's step that changes a container
  goes by the baseline's id, or starts what is there;
* `Implements` (`KeepsPromise`): every step is one step of `UpdatePromise` under
  `Status`, or a stutter; it rests on `Exclusive` and `RefusalsClean`.

`BoundedRun_proofs`: for any limit of the streams, size of the pipes and output,
`CompletedRunsAreWhole` (`CompletedIsWhole`), `ProofsHold` (`ProofHolds`) and
`OutcomesAreTrue` (`OutcomeIsTrue`), from `RunInv`:
* `ProofInv`: a scope that was found empty stays empty, because only its members
  fork into it; a proof stays one to the end of the run;
* `StreamInv`: the launcher, while it lives, holds the pipes open, so a stream
  cannot end before its client; what was sent was stored or is unread, unless the
  stream failed or exceeded its limit;
* `CauseInv`: a cause waits in the queue, or is reported, only if it came to pass.

`RemoteConfig_proofs`, the key cache: for any callers, caches and keys,
* `OneKey` (`OneKeyPerCache`), from `KeyInv`: who is inside the locks holds them;
  the file names the only key that counts unless a writer is about to write it
  down, who then has it; who is about to create one has found none. The property
  says nothing of files.

`RemoteConfig_proofs`, the service: for any clients and restarts, on top of `KeyInv`,
* `NoFetchOverlaps` (`OneFetch`) and `ServiceKeepsOneKey` (`OneKeyPerCache` of the
  service), from `KeyWorkOnly`: only a worker at its key is within `ensure_api_key`,
  so whatever happens to requests and answers happens outside the locks;
* `OnlyAcceptedIsSaved` (`SavedWasAccepted`), from `OfferStands`: an offer being
  fetched for, or answered with success, is a key the server has had;
* `AnswersAreLive` (`AnswerIsLive`), from `HeldIsLive`: a worker whose request waits
  for it has seen its key alive since the request came in.

`PhoenixTrial_proofs`: for any actors, runs, spans and faults,
* `NeverPostedTwice` and `PostOutlivesPower` (`PostedOnce`, `PostIsRemembered`),
  from `MarkIsExclusive` (between marking and posting an actor is alone with its
  run, which was not posted), `SyncedInOrder` and `PreparedFirst` (what a POST needs
  was synced before it). Neither property says who may post next;
* `ReceiptIsExact` (`VerifiedIsExact`), from `ReadInv`: a walk has every record up to
  its cursor that has been there since before it began, by the lemma that a page
  leaves no record out below its last one, and each good record of its run that it
  has was in the store while it read.

`Tools_proofs`:
* reset, for any passes, connections and windows: `CardsSpared` (`OneCardPerWindow`),
  from `KeysRemember`: a card redeemed for a window whose end is known has left the
  window's key with the provider, which honours it once. The state file is not part of
  the argument: passes overwrite each other's entries, and it saves requests only;
* provisioning, for any accounts, names and combos: `TokensKept`
  (`KnownOthersKeepTokens`), from `ListingStands` (until it writes, what the tool has
  listed is what OmniRoute has) and the lemma that `resolve_codex_import_name` settles
  on no name that a connection told to be another account's has; `NothingIsDoubled` and `RestoresAreWhole`
  (`NothingTwice`, `RestoreIsWhole`), from `RestoreInv`: ids are given once and name
  one combo, each combo of the file is dealt with or is as it was found;
* budget, for any services, policies, hosts and models: `CapsStay` (`CapsNeverVanish`) and
  `BudgetsAreRight` (`BudgetIsRight`), from `BudgetInv` (an answer is about the file as
  it is) and lemmas on what the answer is computed from: sums over sets
  (`TotalWithout`, `TotalOfPart`, `TotalAgrees`), the dearest n models, which exist
  and cost no less than any other n (`DearestExist`, `DearestIsMost`, by exchanging one
  model for another), rounding (`Rounded`, `CeilCovers`) and the limits (`FloorsAre`,
  `LlmMemoryIs`, `LlmCpusIs`);
* card, for any configurations, catalogs and combos: `CardIsMeasured`
  (`UsableIsMeasured`), from `CardInv`: the depth of every
  card, saved or about to be, was swept in the build it is stamped with, and a passed
  gate in it was begun with the entry it is stamped with or found another one when it
  was filed (`untested`); `ClientsFit`
  (`ClientsStayWithin`), from lemmas on what the catalog's folds return.

`NumberFacts`: a set of numbers has a least one, and one with a bound a greatest. It
also stands in for induction: the library's induction theorems take an operator as
a parameter and cannot be used here, so what holds of every finite set (a sum,
say, or the existence of the function a fold is) is shown by a smallest
counterexample.

**Assumed**: the `ASSUME`s of the modules, which TLC evaluates in the runs. Besides
bounds being numbers and names being distinct: a key cache of every caller
(`KeyAssumption`); no container is the value for none (`NoneIsNoContainer`,
`ObservationAssumption` likewise); token counts of catalogs and sweeps are numbers,
and the tools correct no window of a local model (`CardAssumption`); default policies
are positive, as they are in `DEFAULT_POLICY`, the host keeps some memory, and a
percentage lies in 1 .. 100 (`BudgetAssumption`); the routed experts of a
model are no larger than its file (`CostsAssumption`). Nothing is assumed about the environment but what the models
say of it.

**Model-checked only**: liveness (`CommitReleasesLock`, `OrphanCleansUp`, `RunEnds`,
`RequestsEnd`, `ReadingEnds`), which with `ENABLED` is outside the prover's reach;
`InterferenceGate`, whose only property here is the one that fails; what `KvMib`
and `OffloadMib` add up to from a model's layers and experts (the proofs
take the sizes as they come).

## Not modelled

* Rendering of compose files, presets, `.env` files, reports and scripts; YAML, GGUF
  headers, HTTP and JSON helpers; argument parsing; GPU and host probing: pure
  conversions and I/O, without state over time.
* `omniroute_characterize.py`: a sequence of disposable containers whose results are
  data; its one question of order, the removal of what it started, is best-effort
  by design.
* Benchmarks, load generation, the fake server, comparisons and the advice on
  quantizations: measurements and arithmetic without a promise to check.
* `llmenv phoenix-trial seed` run by hand: it posts without looking for the
  attempt marker, so `PostedOnce` is about the sender `phoenix-trial.sh` starts
  after `mark-attempt`, and about marks made by hand for a run that was prepared.
* The trace observer in the Phoenix image, `migrate-remote-setup.sh`,
  `backup-connections` and `fix-codex-context`: one-off or straight-line tools.
* The paging of `_call_logs` and the renewal of the admin token in `Collector`; what a
  digest, fingerprint or compose projection contains: equality is enough here.
* Two healers at once (one by hand beside the timer's).

## Plan

Done, in this order: `IdleGate`, `IdleObservation`, `JournalReader`,
`OmniRouteUpdate` with `UpdatePromise`, `AdmissionHealer`, `BoundedRun`,
`KeyIssuance` and `RemoteConfig`, `PhoenixTrial`, `QuotaReset`, `Provisioning`,
`ResourceBudget`, `CapacityCard`, `InterferenceGate`; proofs of every safety property
the passing runs check.

What would come next:

1. Refinements that say in one sentence what a component promises, beside
   `UpdatePromise`: the healer (at most so many recycles, each earned), the bounded
   run (one outcome, then a proof) and the remote setup's flight, each with its steps
   proved from the invariants above.
2. The composition of feed and observation in one module, with the batch of
   `JournalReader` in the place of `PollJournal`.
3. `AdmissionHealer` with overlapping runs, and with the identity of the container
   it has measured, composed with `OmniRouteUpdate`.
4. `_call_logs` against a reference definition over bounded logs.
5. The characterization's life of containers.
