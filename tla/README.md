# LoopGraph Supervisor: specification, model checking and proofs

LoopGraph puts a durable control plane around an agent: runs are driven through
a small graph (execute, verify, human decision, promote, rollback), every
transition is one SQLite transaction that writes a projection, events and a
checkpoint, calls to agents and verifiers happen between transactions, and
versions that pass are released on channels by compare-and-swap. This directory
says in TLA+ what that control plane does, together with the journal it writes, the
event stream that is read from it and the experiments that are run on it; checks
it with TLC on small instances; and proves most of its safety properties with
TLAPS for every number of runs, threads, workers, versions and channels.

Paths below are relative to the repository (`src/loopgraph/...`, `docs/...`).

## 1. Inventory

| Component | State | Operations | Interacts with |
|---|---|---|---|
| Supervisor (`supervisor.py`) | none of its own but `worker_id`; locals of a running `drive()` | `create_run`, `drive`, `pause`, `resume`, `decide`, `request_rollback`, `cancel`, `inspect` | repository (one transaction per operation or step), harness and verifier (calls outside transactions), a heartbeat thread per `drive()` |
| Graph (`graph.py`) | a constant edge table | `route` | supervisor |
| Run projection and leases (`storage.py`) | `runs`: `state_json`, `lease_owner`, `lease_until` | `create_run`, `apply`, `acquire_lease`, `extend_lease`, `release_lease`, `restore_run` | supervisor |
| Release registry (`storage.py`) | `versions`, `channels`, `channel_history` | insert, update, promote, roll back, all inside `apply` | supervisor, RSI experiment (reads) |
| Journal (`storage.py`) | `events` (hash chain), `checkpoints` | `_append_events`, `_write_checkpoint`, `verify_integrity` | every transition; `restore_run` at the start of `drive` |
| RSI experiment (`rsi.py`) | metadata frozen in a run; `SKILL.md` | `start`, `drive`, `rollback`, `materialize_active_skill`, `act`, `report` | supervisor, registry, file system |
| Scaffold guard, benchmark (`rsi.py`) | none | validate, evaluate, act | RSI verifier and adapter |
| API and event stream (`api.py`) | one supervisor shared by all request threads; a cursor per stream | commands, queries, SSE | supervisor, repository, RSI experiment |
| CLI (`cli.py`) | none; every call is a new process with a new worker id | the same commands | supervisor, RSI experiment |
| Dashboard (`dashboard.py`, `static/`) | none; `replay.js` keeps a simulated run | snapshots; simulated commands | API |
| Adapters, verifiers | none | `execute`, `verify` | called by the supervisor |

What is hard, and what makes each component correct:

- **Supervisor.** Between any two transactions of a `drive()` an operator, a
  second driver or a crash may intervene; the step functions use what they read
  earlier. Correct: a call is never answered twice nor silently repeated, a
  pause stops before the next call, nothing is released around the gate, an
  interrupted call is put before a human, terminal runs stay terminal, a running
  run comes to rest.
- **Leases.** A lease is re-entrant for one worker id, may lapse while its
  holder is suspended, and is revived by a late heartbeat. Correct: with a live
  heartbeat two workers never drive one run; without one, nothing that was
  committed is overwritten.
- **Registry.** Promotions and rollbacks of several runs meet on one channel.
  Correct: no release disappears under another, what goes out without a human's
  approval replaces the version it was made from, the version marked active is the
  one the channel names.
- **Journal.** Verification reads events and checkpoint in separate snapshots.
  Correct: an undamaged journal always verifies, a damaged one never does, and
  restoring repairs the projection.
- **RSI.** `start` reads, seeds, evaluates and creates in separate steps, and
  several processes write one `SKILL.md`. Correct: a candidate is released only if
  better than the version it replaces; the file ends up showing the active one.
- **Event stream.** Reads events and status separately. Correct: a client that
  follows a run to its end receives every event once and in order.
- **Hosted replay.** A scripted demonstration over data of its own, in one browser
  thread; its operations have none of the supervisor's guards.

## 2. Modules

| Module | Contents |
|---|---|
| `LoopGraph` | statuses, nodes, the edge table |
| `ReleaseRegistry` | the three registry tables; the writes of `apply`; as `RegistrySpec`, the abstract specification of a registry |
| `Supervisor` | runs, leases, drivers, operators and faults; uses the registry's writes inside its transactions |
| `SupervisorProperties` | invariants, action properties, the inductive invariant, fairness and liveness, what the documents say and the code does not |
| `RunLifecycle` | the abstract specification of a run's life: one call at a time, answered once or resolved, pauses, decisions, releases; no threads, leases or graph |
| `Journal` | the tables of one run: projection, event chain, checkpoints; transitions, `verify_integrity` and `restore_run` in their separate transactions, damaged rows |
| `DurableRun` | the abstract specification of those tables, which `Journal` implements |
| `EventStream` | the API's event stream and a reconnecting client, over `Journal` |
| `RsiExperiment` | processes that start, drive, approve, roll back and export experiments, and the generic commands given to their runs, over the whole of `Supervisor` |
| `RsiProperties` | what an experiment promises |
| `MCSupervisor`, `MCJournal`, `MCRsi` | constants for TLC |
| `ReleaseRegistryProofs`, `SupervisorProofs`, `LeaseProofs`, `ActiveMarkProofs`, `JournalProofs`, `EventStreamProofs`, `RsiProofs`, `ExperimentProofs` | theorems and proofs |

The modules compose in two ways. `RsiExperiment` extends `Supervisor`, which extends
`LoopGraph` and `ReleaseRegistry`: every step of an experiment is a supervisor action
with the call's own bookkeeping, or touches nothing of the supervisor. `EventStream`
extends `Journal`. The two towers meet in `apply`: what `Supervisor` calls one
transaction is `Apply` in `Journal`, which keeps of it only how many events it emits
and whether the run is terminal after it; so `Journal` allows every sequence of
transitions a supervisor can make, and more.

### How the model corresponds to the code

`SQLiteRepository.apply` runs `BEGIN IMMEDIATE`, so **one transaction is one
action**, and what happens between two transactions is a value of the driver's
`pc`. A transform that raises commits nothing.

| Model | Code |
|---|---|
| `run[r]` | `runs.state_json`: status, node, iteration, base, candidate, pending step and owner, reason, pause flag, rollback target. `"absent"` before `create_run`. |
| `lease[r]` | `lease_owner`, and whether `lease_until` has passed. Time itself is left out: `LeaseLapse` lets it pass. |
| `thr[t]` | a caller of `drive()`: where it is, the step it opened, and in `held` and `from` what it read and uses later (the candidate whose artifact it read or that it promotes, the rollback target, the version a rollback event calls replaced) |
| `stepLog[s]` | what the journal says of a step id: run, node, and the last event that names it |
| `approved` | candidates named by an approving `hitl.resolved` |
| `asking[r]` | the target `request_rollback` has read and not yet written |
| `crashed` | dead processes; a restart is another worker |
| `ver`, `active`, `history` | tables `versions`, `channels`, `channel_history`; `ver[v].madeOn` is history: the base that the agent's request for `v` named, where the table's `parent_version_id` is the run's last candidate, if it had one |

A `drive()` is `Acquire`, `Restore` (lease, journal check, test for a step left
open), then either `MarkRecoveryRequired` or turns of the loop: `Dispatch` is the
read of the state and the choice of the node; the node's transactions follow
(`BeginExternalStep`, then one of `CompleteExecute`, `CompleteVerify`,
`FailExternalStep`; `RequestHuman`; `PromoteCandidate` or `PromotionConflict` and
`RecordConflict`; `ReadRollbackTarget`, `ReadRollbackFrom`, `CommitRollback`;
`PauseAtBoundary`); `Release` is the `finally`. Every condition under which the
code raises is a disjunct of `Refused`, and `Raise` takes the exception to
`Release`. After a completed step the loop goes on or, for any `max_steps`, stops
(the choice in `CommitStep`). Operators take one action per command at any time,
except that `request_rollback` takes two, as in the code.

Two kinds of callers are instances of one constant: `WorkerOf` gives each process
(CLI) a worker id of its own, and all threads of an API server the same one.

Faults, each a member of the constant `Faults`:

- `crash`: a process dies anywhere; what it committed and its lease stay.
- `abort`: a driver is interrupted anywhere by what `except Exception` does not
  catch or by an error of SQLite or the journal check; its supervisor lives on.
- `interrupt`: `abort`, only inside a call or at the commit of its result.
- `lapse`: a lease expires under a live driver: a suspended process, or a
  heartbeat thread ended by an `sqlite3.OperationalError` (it catches `RunBusy`).
- `unserved`: the supervisor that drives has not registered the run's adapter or
  verifier and raises `UnknownAdapter` before it opens the step.

Abstractions: artifacts, goals, feedback, messages and timestamps are left out
(no guard reads them); a call's result is nondeterministic (answer, verdict,
exception, or never). The two "exhausted" reasons are one. `create_run` reads the
channel and inserts in one action, since nobody knows the new id in between.
`restore_run` on an undamaged database rewrites the projection with itself
(`RestoringChangesNothing`, checked and proved of `Journal`); that it may refuse one (see
the hazards) is part of `abort`. `pause` on a paused run
writes only an event, which is a stuttering step. New ids are the first
unused of a finite pool (`CHOOSE`), which loses nothing as ids are only compared.

### Journal and event stream

| Model | Code |
|---|---|
| `projection`, `events`, `checkpoints` | one run's row of `runs` and its rows of `events` and `checkpoints`, by sequence number |
| `Digest` | SHA-256 over an event's canonical JSON, as the sequence of everything it covers: equal digests mean equal contents |
| `Apply` | `apply`: the state after the projection's, one to three events linked to the newest one (two stand for three), a checkpoint at the last of them. The guard on the checkpoint's key is the table's UNIQUE constraint |
| `ReadEvents`, `CheckTail`, `WriteProjection` | `list_events` inside `verify_integrity`; its loop and its query for the newest checkpoint, a second snapshot; `restore_run`'s own transaction |
| `Finish` | the caller stops after the verification, or gets the exception |
| `Damage` | storage changes the projection or an event's contents, or loses an event or a checkpoint; nothing in the code does |
| `emitted`, `written` | history variables: the bodies last emitted by sequence number, and each journal a transaction left |
| `server`, `pipe`, `got` | the request thread with its cursor, what is on the connection, what the client has |
| `StreamBatch`, `StreamStatus` | `_stream_events`: `list_events` with its limit, then `get_state`; a terminal status closes the stream, the 30 seconds may |
| `Drop`, `Reconnect` | the connection breaks and loses what is on it; the client asks again with `?after=` the last event it has |

### Experiments

A `call` is one invocation of `RsiExperiment` in a process of its own (CLI) or a
request (dashboard, API), which makes an experiment and a supervisor of its own; its
`pc` is the place between two operations. The runs of an experiment, seed runs
included, are also open to the generic commands, whose supervisor has neither the
experiment's adapters nor its benchmark and which leave `SKILL.md` alone: `POST
/runs/{id}/drive` and `/rollback` (`api.py:100-101`, `113-117`) and, for a seed run,
`loopgraph drive` and `rollback`, since `_sync_rsi_skill` returns at once
(`cli.py:28-29`, `207-210`, `235-238`). These are calls of their own; the commands that
drive nothing are `OperateDirectly`.

| Model | Code |
|---|---|
| `Begin` with `"start"`, `"drive"`, `"run"`, `"step"`, `"approve"`, `"rollback"`, `"export"` | `start`; `drive(auto_approve=True)`; `drive`; the dashboard's single step; its approval, a decision and a drive; `rollback`; `materialize_active_skill` alone |
| `Begin` with `"apiDrive"`, `"apiRollback"` | the generic drive, with or without `max_steps`, and rollback; `Unserved` is where they raise for want of an adapter or verifier, except at a seed run's verification, whose `always_pass` is built in |
| `ReadChannel`, `CreateSeed`, then a drive, `CreateEvolver` | `start`: `get_channel`, the seed run and its drive, the evolver run with its frozen baseline |
| `BeginDrive`, `DriveStep`, `DriveRaises`, `DriveReturns` | `supervisor.drive()` inside a call: the supervisor's own actions, except that the adapter's result has a scorecard and the verdict is the benchmark's (`Eligible`) |
| `Decide`, `DecideRefused` | the approval, automatic or of the `"approve"` call, on the run as it is by then |
| `Ask`, `Request` | `request_rollback` in its two steps |
| `ReadActive`, `ReplaceSkill`, `MaterializeRaises` | `materialize_active_skill`: reads the channel, evaluates, replaces the file; or fails on the way |
| `OperateDirectly` | a generic `pause`, `resume`, decision of any kind or `cancel` (`Steer`) on an experiment's run |
| `score[v]` | the scorecard of the source of version `v`: the benchmark is deterministic |
| `baseline[r]` | `baseline_version_id` of the frozen metadata, which fixes the baseline scores |
| `skill`, `behind` | the version `SKILL.md` shows; history: what happened since it was last replaced by the active version: a replacement was *overtaken*, a call that owed one *failed* or died, a generic command moved the channel (*commanded*) |
| `made` | history: how many calls and commands there have been |

## 3. What the runs check

Bounds are constants: `Step` and `Version` bound the calls and candidates of a
behaviour (a run that needs more stops there), `IterationCap` the revisions humans
ask for, `MaxHistory` the length of a channel's history up to which they ask for
rollbacks, `Crash` leaves one worker alive, `MaxCalls` the calls of all processes,
`MaxCommands` the commands operators give to their runs besides,
`MaxSeq` and `MaxRevision` the transitions of a run, `MaxDamage` damaged rows,
`MaxDrops` broken connections. Deadlock checking is on except in `rsi`,
`baseline` and `unsynced`: a driver always has a next step, even when it can only raise, and a
journal can always be read; but where all calls an experiment may make have been
made and its processes rest, nothing is left to do.

| Run | Instance | Shows |
|---|---|---|
| `faults` (1.27M states) | 1 run, 2 workers, 4 steps, 2 versions, approval required, `crash`, `abort`, `lapse`, every command, any version as rollback target | `TypeOK`; `OpenCallIsPending`; `PausedAtBoundary`; `ReleaseGate`; `OutcomesAreFinal`; `VerdictsAreFinal`; the inductive invariant `Inductive` |
| `lease` (0.72M) | 1 run, 2 workers, 6 steps, 3 versions, 2 iterations, no approval, `crash`, `abort` | `OneDriver`; `StatusMatchesStep`; `VerdictOnExaminedArtifact`; `AnswersAreTaken`; `RaisesHaveCauses`; `RecoveryNeedsDecision`; `PauseBeforeNextCall`; `EndedRunsStayOrRollBack`; the refinement `LifecycleSpec` |
| `rebase` (0.88M) | 2 runs made from one base, 2 workers, no approval, 3 versions, 6 steps, a revision each, no rollback | `UnapprovedReleasesAreFresh`; the refinement `RegistrySpec` |
| `live` (57k) | 1 run, 2 workers of which one may crash, fair drivers, every command, any version as rollback target | `RunsComeToRest`; `StrandedCallsSurface`; `RegistrySpec`, here of rollbacks |
| `journal` (226k) | 1 run of up to 4 events in up to 3 transitions, a restoring reader, a stream with its client; one row damaged, one connection broken, `verify_integrity` reads 3 events and a batch has 2 | `TypeOK`; `AcceptedJournalsWereWritten`; `FalseAlarmsNeedARace`; `RestoringChangesNothing`; `ReceivedInOrder`; the refinement `RestoresNewest`; `EventsArrive` |
| `rsi` (0.91M) | 2 processes with a seed run and an evolver run each on one channel, 3 calls of any kind, generic ones included, and one decision or rollback decision by an operator, 3 versions, a crash, two scorecards better than the seed of which one fails the holdout threshold | `RsiTypeOK`; `SkillWasReleased`; `AutoApprovalFacesTheGate`; `ReleasesBeatTheirBaseline`; `SkillShowsActive`; and of the channel's tables `HistoryChain`, `ActiveIsMarked` |
| `baseline` | as `rsi`, calls of `start` and automatic `drive` only, 4 versions, no fault | `PromotedOverBaseline` is violated |
| `cancelled` | 1 run, 1 driver, no fault | `CancelledIsNotReleased` is violated |
| `terminal` | 1 run, 1 driver, no fault | `TerminalIsFinal` is violated |
| `shared` | 1 run, 2 threads of one supervisor, no fault | `VerdictOnExaminedArtifact` is violated |
| `interrupt` | 1 run, 1 driver that may be interrupted in a call, fair | `StrandedCallsSurface` is violated |
| `unsynced` | as `rsi`, calls of `start`, automatic `drive` and the generic rollback only | `SkillFollowsChannel` is violated |

Why the bounds are enough: a late result needs two workers, a step that was
resolved and a second one, so 2 workers and 4 steps; the interesting collisions of a
channel need two runs: a stale base, a conflict, a revision on the new base and a
second attempt are in `rebase`, a rollback over another run's release, with a history
of two, in `rsi`, where four runs share a channel; two iterations are needed for a candidate to be
replaced. A third worker or run repeats these pairwise interactions, and for the
properties of `faults` and the registry the proofs remove the bounds. The two workers
of `faults`, `lease` and `rebase` are interchangeable, each with its thread, and in
`rebase` the two runs as well, which is the symmetry those runs use; `live` and
`interrupt` use none.

In `journal` three transitions are two before a reader's first snapshot or between its
two and one after, a transition of two events makes a checkpoint that covers more than
one event, four events are one more than a verification reads and twice a batch, and
one lost row makes a gap, a short tail or a missing checkpoint. More damage is left
to the proof, which allows any number of damaged rows for
`AcceptedJournalsWereWritten`. In `rsi` the two processes are interchangeable with
their runs. Three calls are two `start`s that race for the empty channel and a
drive, or a `start` and two calls that race for the released version and for
`SKILL.md`; three versions are a seed and a candidate that is revised, or two seeds
and a candidate; `baseline` needs two seeds and two candidates. The operator's one
command is a decision; `Commands` with `"pause"` and `"cancel"` as well takes twice as
long and finds nothing more, and the theorems of `RsiProofs` and `ExperimentProofs` hold
for all commands.

`ReleaseGate` deserves a word: no approval is a property of the *run*, so a
version that failed verification may be released by a run that needs approval if a
human approves it (after an exhausted iteration), and the property says so.

### Fairness

`FairSpec` adds weak fairness of `Drive(t)`: a driver that has begun goes on (a
call returns or raises: adapters and verifiers have timeouts or are assumed to);
of `Acquire(t, r)`: somebody calls `drive()` again; and of `LeaseLapse(r)`: time
passes. Nothing is assumed of operators: no human ever has to decide, resume or
refrain. `RunsComeToRest` therefore says that a running run stops running without
help, and excuses by name, in `Wedged`, the states that no `drive()` leaves because
each raises: an approved run without any candidate, a rollback of a channel that
has nothing to go back to, and a run that was cancelled between `drive()`'s look and
`_pause_at_boundary`, then resumed.

`StreamFairness`, in `journal`, is weak fairness of the request thread's two steps, of
the client's reads and of its reconnections: threads are scheduled, bytes arrive,
and a client that wants all events asks again, as `docs/failure-semantics.md`
prescribes. No transition, no reader and no damage has to happen. `EventsArrive`
needs it and a broken connection is bounded by `MaxDrops`, or it could break for ever.

### Where the code and the documents disagree

1. `cancelled`: `_promote` looks neither at status nor at node, so a run
   cancelled after `drive()` read it is released and becomes `succeeded`
   (`docs/architecture.md:43`, "Terminal without promotion").
2. `terminal`: `request_rollback` revives `failed`, `cancelled` and `rolled_back`
   runs (`docs/architecture.md:42-43`, valid exit "terminal"). What does hold is
   `EndedRunsStayOrRollBack`: nothing else revives a run that succeeded, failed or was
   rolled back.
3. `shared`: two request threads of one API server hold one lease, and
   `_verify` reads the artifact before it opens its step: the verdict on one
   candidate is recorded for the next (`docs/architecture.md:32-33`, "The agent cannot
   skip verification").
4. `interrupt`: a call interrupted in a supervisor that lives on is never reported
   as `recovery_required`: every later `drive()` raises, and the run stays `running`
   (`docs/failure-semantics.md:22-23`).
5. `baseline`: the baseline a run's candidates are compared with is what `start` read
   from the channel; the base its promotion is compared with is what `create_run`
   reads later. When another process releases in between, a candidate is
   promoted over a version it was never compared with (`docs/rsi-design.md:91`, "the
   active channel still matches the recorded baseline version"). What does hold, and is
   proved, is `ReleasesBeatTheirBaseline`: such a candidate beat the baseline its run
   recorded, if it passed verification at all.
6. `unsynced`: the generic commands move the channel and leave `SKILL.md` behind; after
   the API's rollback of an experiment's run the file shows what was given up
   (`docs/rsi-design.md:116-118`, "rollback replaces it with the restored one";
   `README.md:114-115`, "rollback restores the old skill"). What does hold, and is proved,
   is `SkillShowsActive`: these commands, an overtaken replacement and a call that
   failed before its own are the only causes.

Behaviour worth knowing that no document denies. The models contain it, and where a
property excuses it this is said:

- A damaged projection is overwritten by the next restore, but a command that comes
  before it makes its new state of the damaged one and saves that: from then on
  the damage verifies.
- When the newest event is lost but not its checkpoint, a transition that emits one
  event collides with the checkpoint's key and fails, and one that emits two
  succeeds and hides the loss of the old tail behind a chain that verifies.
- A journal of more than a million events is always refused, and with it every
  `drive()` of its run.
- A run revised after a promotion conflict is based on the new version, but its
  candidates are still compared with the scores frozen at its creation.
- Two `start`s on an empty channel may both release their seeds: seed runs need no
  approval, so a second one created after the first's release replaces it.
- A human may approve a candidate that failed, after the last iteration; after a conflict
  and a revision that brought nothing, that is the candidate of before, made from
  a base that was replaced (`UnapprovedReleasesAreFresh` excepts what a human approved).
- `drive(auto_approve=True)` decides on the run as it is by then. If a human revised it and
  another process drove it on since `drive()` returned, the candidate it approves may have
  failed verification, and the decision's feedback still speaks of a "positive
  holdout-gated improvement" (`rsi.py:656-664`). `AutoApprovalFacesTheGate` excepts this
  case by name.
- `request_rollback` without a target aims at the version that was previous when it
  looked; releases in between make that an older one, and the rollback is carried out all
  the same. Nothing here says otherwise: the history stays well formed.
- The states in `Wedged` (below *Fairness*) raise for ever; no property finds fault with them.

## 4. What is proved

For all values of the constants that satisfy `RegistryAssumption` (every run has
a channel; `None` is no version) and `SupervisorAssumption` (each thread has a
worker; the per-run configuration is well typed; `max_iterations` is positive, as
`RunConfig.__post_init__` enforces; `None` is neither a step nor a worker). Threads,
workers, runs, steps, versions and channels may be any sets, and `Faults` any
faults: the theorems of `ReleaseRegistryProofs` and `SupervisorProofs` need no lease.

`ReleaseRegistryProofs`, about `RegistrySpec` alone: `RegistryTypes`;
`RegistryHistory` (`HistoryChain`, inductive as it stands with the types); `RegistryOwnership`
(`ReleasesAreOwn`: a promotion's row names a version of the run that made it, which needs
that versions never cease to exist and keep their run).

`SupervisorProofs`, about `Spec`:

| Theorem | Statement |
|---|---|
| `InductiveInvariant` | `[](TypeOK /\ Inductive)` |
| `Types`, `OneOpenCall`, `PauseWaits`, `Gate` | `TypeOK`, `OpenCallIsPending`, `PausedAtBoundary`, `ReleaseGate` always |
| `LateResultsAreRefused`, `VerdictsAreRecordedOnce` | `OutcomesAreFinal`, `VerdictsAreFinal` |
| `Implements` | `Spec => RegistrySpec` |
| `ReleaseHistory` | `HistoryChain`, carried over from the registry |

The argument. None of the properties is inductive. `OpenCallIsPending` needs the
converse, that a pending step is open in the journal under its own run
(`PendingIsOpen`), or resolving one step could close another. `ReleaseGate` is
about the past of a version, so something must connect the run's node with it: a run at
the promote node has a candidate that passed the gate, and so has what a driver
about to promote has read, however long ago (`PromotableIsGated`). That in turn needs
verdicts never to be overwritten: a candidate has none while its run is at
the verify node or a verify call is open (`UnverifiedAtVerify`), which needs
candidates to belong to their runs (`CandidatesAreOwn`) and a verifying driver to wait
for a verify step (`VerifiersWait`). `Inductive` is the conjunction; TLC checks
it in `faults`.

Most actions are *quiet*: they touch no version, no step and no candidate and move
a run to a node that promises no more. `QuietInductive` deals with all of them
at once; the nine others (`PromoteCandidate`, `CommitRollback`, `Approve`, `Dispatch`,
`BeginExternalStep`, `CompleteExecute`, `CompleteVerify`, `FailExternalStep`,
`ResolveRecovery`) have a lemma each, and `Steps` combines them. The action
properties and the refinement follow from the invariant and a second look at the
actions that write the journal or the registry.

### With the lease honoured

`LeaseProofs` assumes `LeaseHonoured` in addition: `lapse` is not among the faults (a
lease lapses only when nobody drives under it), and every worker id has one thread.
Crashes and interrupted drivers remain. The runs `shared` and `faults` show that
without it the properties fail or are not claimed.

| Theorem | Statement |
|---|---|
| `LeaseInvariant` | `[](TypeOK /\ Inductive /\ LeaseInductive)` |
| `OneDriverPerRun`, `StatusTellsOfCalls`, `VerdictsAreOfTheExamined` | `OneDriver`, `StatusMatchesStep`, `VerdictOnExaminedArtifact` always |
| `HumansResolveRecovery`, `PausesComeFirst` | `RecoveryNeedsDecision`, `PauseBeforeNextCall` |
| `LifecycleImplemented` | `Spec => LifecycleSpec`: the supervisor implements `RunLifecycle` |
| `ResultsAreAccepted` | `[]AnswersAreTaken`: no result of a call is thrown away |
| `EndedRunsAreLeftAlone` | `EndedRunsStayOrRollBack` |
| `DrivesRaiseForAReason` | `[]RaisesHaveCauses`: when `drive()` may raise |

The argument: since nobody else drives the run, only operators can change it between
a driver's reads and its writes. `Knows` says, for each place of a driver, what
survives every operator command: no call is open while it promotes or rolls back, the
candidate is still the one whose artifact it read, a step it opened is still at its
node if it is still open. `CommandsFit` shows the commands respect it, `DriversFit`
that each step of a driver establishes it for the next.

`LifecycleImplemented` says of all of them together what a user sees. The mapping forgets
threads, leases, nodes and versions' marks and keeps a run's status, its open call, the
wish for a pause, what became of each call and what each channel has released. Answers and
resolutions are covered by `Inductive` and `Knows`; what needs more is a driver that
writes between calls by a status it read earlier, since `_promote`, `record_conflict`,
`_rollback` and `_pause_at_boundary` do not look again. `LateDrivers` bounds how late it
can be: no command takes a run that somebody drives to any status but `running`, `paused`
and `cancelled` between calls, so a driver on its way to such a write finds one of the three. That
is why `RunLifecycle` allows a pause, a question to the human and a release from exactly
these (`Driven`), which is the honest form of the state machine in
`docs/architecture.md`; the runs `cancelled` and `terminal` show the difference. That no
ended run is among the three is what `EndedRunsAreLeftAlone` rests on.

`RaisesHaveCauses` is the safety half of `RunsComeToRest`: it goes through every guard that
can fail in `drive()` and says why it failed. Its invariant, `Courses`, says for each place
of a driver what an operator can have made of the run since (`OnCourse`): a call's step is
still its own, which is `AnswersAreTaken`; between calls the run is at the node the driver
read, at its end, or at a rollback that was asked for; and a rollback target the driver
found itself is a version that exists (`FoundTarget`), since the version before any channel's
active one does. `CommandsSteer` reduces the commands to the four ways in which they change a
run (`Steers`), and `SteeredOnCourse` checks these against the places.

`ActiveMarkProofs` proves `ActiveVersionsAreMarked` (`[]ActiveIsMarked`) under
`LeaseHonoured` and `~AnyTarget`: rollbacks name versions their channel released.
Both are needed: a late verdict could overwrite the mark of a version that was released
meanwhile, and a rollback to another channel's version would make one version active on
two. The invariant adds that released versions belong to runs of
their channel and bear a released mark (`ReleasedAreOwn`), that a candidate waiting for
its verdict was never released (`FreshAtVerify`), and that rollbacks aim at released
versions from the moment they are asked for (`TargetsReleased`).

It also proves `ReleasesReplaceWhatTheyWereMadeOn` (`Spec =>
[]UnapprovedReleasesAreFresh`) under `LeaseHonoured`. The registry compares a promotion with
the *run's* base, which a revision after a conflict moves on; that this is also the base
the *candidate* was made from is nowhere compared. The invariant, `PutUpFresh`, says it of
every candidate at the verify or the promote node that nobody approved, and of what a
driver about to promote has read. Rebasing is what could break it, and the proof is that
it comes with a return to the execute node, which the run leaves again only with a new
candidate or, when the iterations are used up, into the hands of a human.

### Journal, stream and experiments

`JournalProofs`, for any contents, readers, limits and damage allowed by
`JournalAssumption`:

| Theorem | Statement |
|---|---|
| `JournalInvariant`, `JournalTypes` | types, and what digests stand for |
| `VerificationIsSound` | `[]AcceptedJournalsWereWritten`, for any number of damaged rows |
| `RefusalsAreExplained` | `[]FalseAlarmsNeedARace` |
| `RestoreIsIdentity` | `[]RestoringChangesNothing`: on an undamaged database a restore changes nothing |
| `RestoreIsDurable` | `MaxDamage <= 1 => (Spec => RestoresNewest)` |

The first two rest on `DigestsOK`: every digest in an event, a checkpoint or a reader's
memory is the digest of everything emitted up to its place (`Form`), and a checkpoint's
was left by a whole transaction. A chain that verifies then spells out the
emitted bodies, and a tail that a checkpoint covers is the end of a
transaction. For an undamaged database `Undamaged` adds that the chain has no gap and
the newest checkpoint is at its end. `RestoreIsDurable` needs the newest checkpoint
never to be overtaken from below: `Lag` bounds by the damage how far a lost event sets
the chain back, and with two lost rows a transition could save its state under an
older checkpoint's number.

`EventStreamProofs` proves that streams implement the journal (`StreamsOnlyRead`), so that
all of this holds with clients attached (`StreamedJournal`), and that
`ClientsReceiveInOrder` (`[]ReceivedInOrder`). Its invariant is about `Due`, what the client
has followed by what is on the connection: it is sorted and ends at the server's cursor
(`InOrder`), and on an undamaged database it is `1, 2, ...` with the cursor at its end
(`Gapless`). A broken connection cuts `Due` back to `got`, and the cursor that comes with
the reconnection is its last element. The rows of a batch are sorted by `Ascending`,
which is defined by what it returns and not by how. `AscendingSorts` proves that every
finite set has such a sequence, each member at the place that is its rank, and
`AscendingInterval` that an interval's has each number where it must be, from the least
place where it would not. `MCJournal` assumes that `Ascending` is the library's sort, and TLC
evaluates that.

`RsiProofs`: `RsiInvariant` and `RsiTypes`; `RsiImplements`, that every behaviour of
experiments is one of `Spec`, so that `RsiReleases` carries the release gate and the
history over (`RsiImplements` is proved only: checked together with everything else in `rsi`
it would triple the run's time); and `SkillShowsReleases` (`[]SkillWasReleased`), from an invariant over what
calls have read of the channel, since a released version stays released.

`ExperimentProofs` proves the other promises of an experiment:

| Theorem | Statement |
|---|---|
| `SkillIsBroughtUpToDate` | `[]SkillShowsActive`, if there is a process at all |
| `AutomaticApprovalsAreEarned` | `[]AutoApprovalFacesTheGate`, under `LeaseHonoured`: while the run is still in the iteration in which `drive()` returned |
| `VerifiedReleasesBeatTheBaseline` | `[]ReleasesBeatTheirBaseline`, under `LeaseHonoured` |
| `ExperimentsKeepTheLease` | what `LeaseProofs` proves of the supervisor, of experiments |

`SkillShowsActive` speaks of the end of all calls, so its invariant, `SomebodySyncs`, says
what holds before: while the file is behind the channel and none of the three causes has
occurred, some call is still to refresh it (`WillSync`: it drives and has promoted or
rolled back, or is on its way to `materialize_active_skill`). The channel is moved only by the
last transaction of a drive (`MoversSync`); that the call of that drive then goes on to the
refresh needs that it drives its own run and has not raised (`CallsDrive`), which is why a call
that raises can only have failed before it moved anything. It needs no lease: generic
commands, operators, crashes and lapses are all in it.

`AutoApprovalFacesTheGate` relates a candidate to a baseline over three transactions and a
benchmark. `Beaten` says that whatever passed in an evolver run beat that run's
baseline; baselines are versions that exist from the moment `start` reads them
(`BasedOn`); and what `drive()` returned is still so or the run went to another iteration
(`Waited`). A run that waits for an approval has a candidate that passed (`Settled`, in
`LeaseProofs`). The lease is needed because a verdict is given on the
artifact the driver read: without it the verdict could be recorded for another candidate.

`ReleasesBeatTheirBaseline` needs no invariant of its own. `Beaten` speaks of versions and
the run that made them, the history of versions and the run that released them, and
`ReleasesAreOwn`, which experiments inherit from the registry through both refinements,
says that the two runs are one.

Every invariant and action property of the passing runs, and each of their three
refinements (`RegistrySpec`, `LifecycleSpec`, `RestoresNewest`), is a theorem. Only
model-checked is liveness (`RunsComeToRest`, `StrandedCallsSurface`, `EventsArrive`),
which is beyond the proof system.

## 5. Not modelled

- The AST guard and the benchmark's subprocess (`rsi.py`): deterministic functions of
  program text without state; their result, a scorecard, is an arbitrary input here.
- Adapters and verifiers (`adapters/`, `verifiers.py`): code outside the database that
  answers, raises or never returns, which is how the supervisor's actions treat it.
- The hosted replay (`static/replay.js`): it shares no state, code or guard with the
  supervisor, persists nothing and runs in one thread.
- Argument parsing, HTTP routing, JSON, rendering of the dashboard and of `SKILL.md`,
  `report`, `act`, `export_events`, `inspect`: they read and format.
- Time: leases and streams end by a step that may be taken, not by a clock; that
  `acquire_lease` computes the expiry before it waits for the write lock is
  part of a lease lapsing early.
- The one worker id that all request threads of an API server share, on the runs of an
  experiment: `Supervisor` has it (`shared`), in `RsiExperiment` every thread has an id of
  its own. The theorems of `ExperimentProofs` that need `LeaseHonoured` say so;
  `SkillIsBroughtUpToDate` and those of `RsiProofs` allow shared ids.

## 6. Running

```
tlc -workers 2 -config MCSupervisor_faults.cfg MCSupervisor
tlc -workers 2 -config MCJournal_journal.cfg MCJournal
tlc -workers 2 -config MCRsi_rsi.cfg MCRsi
tlapm SupervisorProofs.tla
```

and likewise for the other configurations and the other modules named `...Proofs`.
