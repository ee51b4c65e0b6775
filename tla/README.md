# Formal model of rosetta_reality

`rosetta_reality` trains and evaluates robot policies (SmolVLA, and a frozen
vision-language backbone with an action head) for the ALOHA simulator.  Most of
its lines are numerical.  What can go wrong in them without any test noticing is
not: long jobs supervised by processes that watch each other, results handed to a
machine that may not answer, staged gates over shared evidence files, a planner
behind a pipe, functions of a third-party trainer replaced and put back, training
runs that are killed and resumed, caches that racing commands fill and derive from
each other, teachers that may pass many stages on one observation, trajectories
retained over steps that change what they were planned for.  This directory models those parts in TLA+,
checks them with TLC and proves what matters most of eight of them with TLAPS.

Contents: [the system](#the-system) ·
[how the parts interact](#how-the-parts-interact) ·
[modules and code](#modules-and-code) · [the runs](#the-runs) ·
[fairness](#fairness) · [proofs](#proofs) · [findings](#findings) ·
[what is not modelled](#what-is-not-modelled) · [plan](#plan) ·
[running](#running)

Paths below are relative to the repository; `vla/`, `sim/`, `features/` stand for
`src/rosetta_reality/vla/` and so on.

## The system

| Component | State it keeps | Operations | What makes it correct |
|---|---|---|---|
| **Iris furnace** `scripts/run_iris_furnace.py`, `iris_stage.py`, `iris_protocol.py`, `iris_delivery.py`, `iris_runtime.py`, `receive_iris_from_wsl.sh` | locals of `supervise()` and `watch()`; files of the job directory: `registration.json`, `active-child.json`, `<stage>.done.json`, `worker-exited.json`, manifest, archive, `package.json`, `transfer-receipt.json`, `shutdown-request.json`; the processes; the clock | supervise a stage after the other, stop at the deadline, package, wait for a receipt, power off; verify and run a stage; fetch, extract and confirm the package | stages alone and in order on complete evidence; the report is true; a receipt vouches for exactly what was packaged; one process powers off; the decision to is reached unless both processes die |
| **Teacher gate** `scripts/run_teacher_gate.py`, `sim/teacher_gate.py` | numbered create-only reports per stage; the workspace's code identity | `register`, `g0` probe, `g1`/`g2` rollouts, `g5` audit; `g3`/`g4` locked | evidence never overwritten; a stage rests on passing earlier stages; an audit lists what its verdict rests on |
| **MoveIt planner client** `sim/moveit_aloha_planner.py`, `integration/aloha_moveit2/` | request number, queue of lines, reader thread, sidecar process, pipes | construct (identity), `plan`, `close`; the thread's loop; the sidecar's loop | an answer belongs to its request; every call ends unless a pipe blocks it; after `close()` the sidecar is gone or killed |
| **Training feature stack** `vla/training/features.py`, `scripts/train_smolvla_v2.py` | functions of the upstream trainer with their wrappers, `installed`, module markers, the pending exception | install in plan order, roll back, train, restore in reverse, finish tracking | the trainer is left as it was found, except by an interrupt of the installation; a failing restore harms nobody else; the first error is the one reported |
| **M2 training** `scripts/train_m2.py` over `features/cache.py` | epoch reports, checkpoints, training manifest (all create-only); best epoch, patience counter | start, resume, train an epoch, report, save, stop, seal | one line of training through any kills and resumes; the best epoch is kept; the manifest is true |
| **Feature cache** `features/cache.py`, `scripts/cache_features.py` | one directory per identity: identity, normalisation, tensor shards, manifest with a checksum per shard | build, build-visible, compose, derive, derive-visible, load for training | a complete manifest names shards that exist with the recorded content; a derived cache holds what its sources had recorded; a race leaves a sealed cache |
| **Visual coverage job** `scripts/run_visual_coverage_job.py` | locals of `supervise()` and `worker()`; `watchdog.json`, a report per wrapped stage, `closure.json`, `supervisor-exit.json`, `shutdown-request.json`; the process group, its signals, the clock | launch the worker, wait for it until the deadline, terminate its group, power off; run a list of stages, wrapped ones under a memory monitor, and close | the files agree with each other and with the exit codes; both processes end; stages alone and in order |
| Hestia jobs `run_hestia_*.py` | as the coverage job | as the coverage job | as the coverage job, with fewer stages |
| Training plan and launcher `vla/training/plan.py`, `launch.py`, `observed_launch.py`, `scripts/run_smolvla_v2.py` | a validated plan; the process of the trainer and the observations of it | validate, compare, launch | a launch happens only for a plan that matches; the observer reports the child's end |
| **Scripted and geometric teachers** `sim/scripted_teacher.py`, `geometric_teacher.py` | stage, captured references, selected candidate, stall history and escapes | `reset`, `decide` | a decision returns a target whose references it has; references frozen at the end of the transport stay; an escape rests on the window of its own stage |
| **Geometry teacher** `sim/geometry_teacher.py` and recovery oracle `recovery_oracle.py` | phase, best reward, captured grasp and alignment targets | `reset`, `decide` | phases advance in order, on references that were captured |
| **Teacher evaluation** `scripts/evaluate_aloha_geometry_teacher.py`, with the executor of `sim/moveit_aloha_planner.py` | planner log and report of each stage; per rollout the teacher, the retained plan and the counters | evaluate the stages exact, tuning, full; in each step decide, solve, retain or replace a plan, feed forward, step | a stage is evaluated once and in order; commands follow references of the present phase; plans are kept until they are complete; counters agree with the executor |
| Data pipeline `data/*`, `scripts/prepare_data.py`, `clean_data.py` | datasets, manifests, splits | download, clean, split, normalise | split and provenance of every episode |
| Samplers, checkpoint selection, image cache `vla/*` | epoch orders, ranked checkpoints | sample, select | deterministic, order independent |
| Simulation gates `scripts/sim_gate.py`, `smolvla_sim_gate.py` | episode reports | roll out a policy | outcome of each episode |
| Action contract and simulator bindings `sim/*`, `integration/action_plan.py` | none shared | convert and clip actions | bounds of the action space |
| Models `models/*` | weights | forward | numerical |
| Tracking, configurations, containers, tests | — | — | — |

`PROJECT.json` has one entry for each, with the files and the status.

### Behaviours that are hard to test

* **Two processes and a signal.**  `watch()` reads a file, acts on it five seconds
  later, and interrupts `supervise()` at whatever statement it has reached, the
  `finally` block included.
* **Processes nobody names.**  Between the fork of a stage and the assignments of
  `child` and `identity` an exception leaves a process that no handler knows.
* **Read twice.**  `package()` hashes files and reads them again for the archive,
  while a lost stage may be writing.
* **Check, then create.**  The gate tests `exists()` and then opens for writing.
* **Late answers.**  A timeout of the MoveIt client does not take the late line
  out of the queue.
* **Half done.**  A kill between open and the end of a JSON dump, between two
  assignments of an install, after its marker is set and before it is listed, between
  a checkpoint and the manifest; a derived cache whose sources are refused when its
  directory is there.
* **Writes that fail.**  Any file of a supervisor's `finally` block may not get
  written, and the processes after it must not wait for it for ever.
* **Pipes.**  A write to a full pipe and the closing of a stream another thread reads
  have no timeout.
* **Resume.**  State restored from a checkpoint which later epochs have overtaken.
* **Two timeouts at one moment.**  The worker's timeout of its last stage and the
  supervisor's timeout of the worker fall due together, and the signal may reach a
  wrapper inside its `finally` block.
* **Racing builders.**  Two commands fill one cache directory, refuse each other at
  any file, and what they compute need not agree; a source is removed and rebuilt
  under a cache derived from it.
* **Many stages in one decision.**  A teacher's loop goes on until a test fails; each
  stage it passes must leave what the later ones read, and a stall window may belong
  to the stage before.
* **Retained plans.**  A trajectory is kept over many steps while the phase changes,
  the local solver fails again, and its completion is reported by whoever solves next.

The `hazards` of `PROJECT.json` list each at its line with the properties that
would catch it going wrong, and a note where nothing in the repository promises an
outcome.

## How the parts interact

```
 supervise()  ---- launches, SIGTERM <----  watch()          files only; both may
     |    \________ shutdown-request.json ______/            call shutdown()
     | fork, done.json, active-child.json
  iris_stage (27 in a row)  -- reads done.json of the earlier, is the watchdog alive?
     | evidence files
  package() -> manifest, archive, package.json -> receiver -> transfer-receipt.json

 supervise() -- SIGTERM, SIGKILL to the group --> worker -> stage after stage, two of
     | one deadline for both                              them in a wrapper with monitor
     |__ supervisor-exit.json, shutdown()                 closure.json, stage reports

 gate command (one process each) -> shared directory of reports <- gate command

 gate rollout -> InsertionTeacher: reset(), decide() per step

 stage of the evaluation -> teacher.decide() -> Mink | retained plan | planner
                         -> environment.step() -> observation and reward of the next step
 caller -> _request() -> stdin | sidecar | stdout -> reader thread -> queue -> caller

 train_smolvla_v2 -> install_all() -> functions of lerobot_train -> restore_all()

 cache command (several at once) -> create_json(), save_tensor_shard() -> directories
                                 -> compose, derive -> CachedFeatureDataset -> train_m2
 train_m2 (one process after another) -> create_json(), save_tensor_shard() -> files
```

## Modules and code

| Module | Models |
|---|---|
| `IrisFurnace` | supervisor, watchdog, stages, packaging, receiver, shutdown, clock |
| `IrisCampaign` | abstract: what a protected run promises, whoever carries it out |
| `IrisFurnace_proofs` | nine theorems about `IrisFurnace`, the inductive invariant and the refinement among them |
| `TeacherGate` | gate commands over their report files |
| `TeacherGate_proofs` | four theorems about `TeacherGate`, two of them for commands that do not overlap, and five about `InsertionTeacher` |
| `MoveItClient` | caller, reader thread, sidecar |
| `MoveItClient_proofs` | six theorems about `MoveItClient` |
| `FeatureStack` | install, train, restore |
| `FeatureStack_proofs` | five theorems about `FeatureStack` |
| `M2Training` | a run id and the processes that follow each other on it |
| `M2Training_proofs` | four theorems about `M2Training` |
| `FeatureCache` | commands over shared cache directories, faults at rest |
| `FeatureCache_proofs` | five theorems about `FeatureCache` |
| `InsertionTeacher` | the two scripted teachers of the gate |
| `VisualCoverageJob` | supervisor, worker, wrapped stages; also implements `IrisCampaign` |
| `VisualCoverageJob_proofs` | four theorems about `VisualCoverageJob`, the refinement among them |
| `TeacherEvaluation` | commands over the stages of a plan; geometry teacher, executor, rollout |
| `TeacherEvaluation_proofs` | six theorems about `TeacherEvaluation` |

An operator whose comment says *wrong on purpose* is used by no specification: it
is the mutated form of the definition next to it, and `PROJECT.json` pairs the two
with the property that notices the difference.  Each of the properties has one.

### IrisFurnace

`pc` is the statement each of the two processes is at; the supervisor's labels are
grouped as the code is (`Before` its handler is installed, the `Try` block, the
`except` block, the `Finally` block), because `TakeSignal`, the handler
`deadline_signal`, acts differently in each: it leaves the `try` block for the
`except` block, that one for the `finally` block, and the `finally` block for
good.  One statement that another process can observe or interrupt is one action:
`Popen`, `AssignChild` and `IdentifyChild` are three since the handler may run
between them.  A signal sent is pending (`sigterm`) until the supervisor takes it,
and no statement of the supervisor starts while it is.

`proc` and `output` are the stage processes and their evidence.  Pid and start
ticks name one process for ever, so an identity is the stage it was taken from,
and `Terminate(pid, ticks)` stops nothing when the two disagree, as `alive()`
compares them.  A stage starts in three steps: `StageReadClock` (`main()` samples the
time before it calls `verify_stage()`), `StageReadEvidence` (`done.json` of all the
earlier stages, hashes) and `StageFindWatchdog`; the deadline is compared with the
first, however long the others take.  A stage may fail at any point and does not
have to finish; a GPU stage holds its context while it is at `"gpu"`.  The receiver
is one run of the script, any command of which may fail.  `manifest` and `archive`
are sets with at most one element, the state of all evidence files when each was
made.

Every write and call of the two processes may raise: `LaunchWatchdog`,
`RecordWatchdog`, `Popen`, `SaveDone`, `OpenExited` and `SaveExited` (the two moments
of `worker-exited.json`, which the watchdog looks for while it is torn), `HashFiles`,
`WriteArchive`, `SavePackage`, `SaveRequest`, `Exec`, the watchdog's signals to a
process that has ended.  In the `try` block that leads to the `except` block, in the
`finally` block and in the watchdog it ends the process.  Only reading `/proc` for one's own child and
assignments are taken not to fail.

The clock counts the moments the code compares against, the deadline and the
shutdown deadline; processes can be delayed for any time, so the seconds between
are the same state.  `shutdown()` appears once, parameterised by its caller.  Its
assertions about Trash, terminal sessions and other processes are `ForeignWork`,
which may refuse at any time.

`IrisCampaign` says in six variables what a protected run promises: stages one at a time and in order,
none after one is lost, one verdict, one delivery, nothing after the power is off.
`IrisFurnace` implements it under the mapping at its end: a stage is at work while
its process lives, lost when it failed or was killed, complete when its evidence is
final.  `VisualCoverageJob` implements the same campaign with other processes and
files.

### TeacherGate

A report is absent, torn (opened, which empties it, and not yet written) or whole.
Each command is an actor of `Runners` that goes through the statements at which it
touches the directory: the guard (`Opens`: `_stage_guard()` reads the reports of
every earlier stage in order up to the first that passed; a torn one raises), the
work, the number of the attempt, the code identity (`Claim`, taken after the work
as in the code), `Check`, `Create` and `Fill`.  The audit reads one stage per step.
Verdicts are chosen freely; `Kill` ends a command anywhere and `Edit` changes the
workspace under it.

### MoveItClient

A line is the number of the request it answers.  `Begin`, `Write` or `BrokenPipe`,
and `Receive`, `Refuse` or `Late` are the statements of `_request()` between which
the sidecar can exit and the reader thread can run; `Fails` is what each caller does with
`MoveItAlohaPlannerError`: the constructor closes, `plan()` raises, `close()`
terminates.  `Close`, `Wait`, `WaitKilled`, `Finally` and `CloseStdout` are `close()`.
A `Write` waits as long as `PipeCapacity` requests lie unread and the sidecar lives,
and `CloseStdout` as long as the reader thread is inside a read of a silent pipe
(`InRead`): neither has a timeout in the code.  The thread ends (`ReadEnd`) at the end
of the output, or at any moment by an exception, since output need not be UTF-8 and
`close()` may have closed the stream; its `None` is then in the queue while the sidecar
still lives and writes.  The sidecar
answers in order, reports an error without a number, prints something else, or exits.
`accepted` and `missed` record what was returned and whether some request ended
without its line; no guard reads them.

### FeatureStack

`Slots` lists for fifteen features the functions of the trainer they replace, in
the order of their assignments; `layers` is the stack of wrappers on each function.  The features differ in
how they recognise themselves when they are restored, and the differences matter:
`Strict` features look for their own wrapper on top and raise when another one is
there, the others trust a module marker and follow `_rosetta_v2_original` one layer
down from whatever is there; two put back the function they saved (`Saved`).
`Legal` is `_validate_features()`.  An install is its assignments (`Assign`), its marker
(`Mark`) and, when it has returned, its entry in the list (`Installed`).  `InstallFails`
is an install that raises, by itself before its first assignment, or interrupted after
any statement, the marker included; `install_all()` then rolls back the features listed
so far.  `Abandon` is an interrupt between two installs, or between the return of one
and its entry, which nothing catches: the process ends and restores nothing.  `Drift` is
other code replacing a function while the trainer runs.

### M2Training

The disk and one process at a time.  `StartFresh` and `StartResumed(e)` are the two
heads of `train()` (with any `--stop-after-epoch`), then an epoch is `Train`
(its metric is any value, also when the epoch is repeated), the report
(`create_json()`: created, filled, or compared with what is there), `Save`
(`save_tensor_shard()` gives a complete file its name at once, or refuses),
and `NextEpoch`; the end loads the best checkpoint and creates the manifest.
`Kill` ends the process at any statement, also inside a JSON dump, which leaves a
torn file.

### FeatureCache

`disk` is a function from identities to directories.  The identity of a derived cache
contains the manifests it was derived from, as their checksums do in the code, so a
rebuilt source with other features gives another target.  A shard is the sequence of
the features it concatenates; the checksum is injective, and a recorded shard stands
for it.  `CheckJson`, `OpenJson` and `DumpJson` are the three moments of
`create_json()` for each of the three JSON files; `BuildShard` or `DeriveShard` is
the loop body up to the file, `LinkShard` the hard link that makes a shard appear
whole, or fails because another process was first (`Lose`).  What the backbone
computes for an episode is any of `Features`, each time.  Every command is an actor
of `Procs` and may be killed anywhere.  `Refuse` is a command whose sources are not as
its target wants them, before it has made anything.  That a source covers the scope
(`Fits`) is looked at only when the directory and two of its files exist: a visible cache
passes for a whole one until then, in `compose` and in `derive`.  `RefuseSources` is this
refusal, and the one of a shard whose other tensors or count differ, which is free.
`abandoned` is history: the directories of which a command was killed or refused in this
way.  Between commands `Change` replaces a shard on
the disk and `RemoveCache` a whole directory.  `made` keeps the manifests of the commands that
returned 0.

### InsertionTeacher

Every test of an observation is free, so that one decision may pass any number of
stages.  `Engage` is the head of the geometric teacher's `decide()` (stall history,
escapes of the align and transport stages), `Observe` the
validation, `CaptureHome` the first capture, then one action per stage of `_advance()`,
which either goes to the next stage and continues the loop or returns; `Command` is
the command layer, which may refuse.  `captured` holds for each reference the
episode it was captured in.  `inPhase`, `unlock` and `recaptured` are history: how
long the teacher has been in its stage, on which window an unlock rested, which
references were captured a second time.

### VisualCoverageJob

`sup` and `worker` are the statements of `supervise()` and `worker()`; `signal` the
signal pending for each process, the stages included.  A stage outside the wrapper
runs until it ends or a signal kills it; in a wrapped one SIGTERM raises out of the script or out of
its `finally` block (`OpenReport`, `FillReport`, `WrapperEnds`), so a report may be
torn or may say *passed* of a process that fails.  `capped` marks a
stage whose monitor has sent the signal itself, `left` the stages with descendants
that outlive them.  `TimeIsUp` and `Expire` both compare with the deadline.  The
mapping to `IrisCampaign` at the end: a stage is complete when it ended with code
zero, at work while its process lives, the verdict is `closure.json`.

### TeacherEvaluation

`log` and `report` are the files of the stages, `cmd` the running commands, and per
command the `teacher`, the `executor` and the counters of the `seed` it is at.  A step
of the rollout is three actions: `Decide`, the whole loop of the geometry teacher in
one (`Reaches`: the phases it may end in, given the reward so far, every geometric
test being free; what it passes leaves its references); one of `Follow`, `Latch`,
`SolveLocally`, `PlanPath` and `GiveUp`, which are the ways through `_ik_action()`;
and `Act`, the feedforward near the table and the simulator's step.  `Retained` is
the head of `_ik_action()`: a plan of another phase is dropped, and one whose
terminal control is complete is released.  `Counted` is what the report of the seed
adds up; its `releases`, `lost` and `installs` are history.  The distances that decide
whether a waypoint is reached (`near`) or the goal is (`done`) are free, as is whether
Mink or the planner finds anything.  `Settings` and `Construct` are the two moments
at which the log of a stage is looked for and created.

## The runs

Each module's `TypeOK` is checked by its (first) passing run as well.  Between them the
passing runs take every action and every disjunct of the next-state relations.

| Run | Checks | Shows |
|---|---|---|
| `iris_safety` | `OneShutdown`, `ReportIsTrue`, `ExitLeavesNoStage`, `ReceiptIsExact`, `NoLateAdmission`, `ImplementsCampaign`, `OneDecides` | either process killed at any statement, stages lost at any point, transfer failing at any command; any write failing; the decision to power off is taken or refused by its guard unless both die |
| `iris_transfer` | `TransferPreserved`, violated | finding 1 |
| `gate_chain` | `ChainIsOrdered`, `EvidenceKept` | one command at a time, killed anywhere, the workspace edited under it |
| `gate_overwrite` | `AttemptsKept`, violated | finding 2: what `EvidenceKept` says of the numbered attempts, when two commands overlap |
| `moveit_safety` | `Matched`, `CloseEnds`, `OneMissIsFinal`, `CallReturns` | no sidecar, however late, talkative or dead, mixes up answers; a caller is held only by a full pipe or a silent one that stays open |
| `features_restore` | `CleanExit`, `Independent`, `PrimaryErrorKept` | every legal plan, any install failing or interrupted at any statement, one function replaced by others |
| `m2_chain` | `ChainIsOne`, `ManifestIsTrue` | four processes fresh or resumed from anywhere, killed anywhere |
| `m2_terminal` | `TerminalResumes`, violated | finding 3 |
| `cache_chain` | `ManifestIsTrue`, `Provenance`, `RaceHasWinner` | racing builders and derivations, each killed anywhere or refusing its sources late, a shard changed or a cache removed and rebuilt between them |
| `teacher_safety` | `DecisionReturns`, `ReferencesFrozen`, `EscapesOwnWindow` | every sequence of observations over two episodes of either teacher |
| `coverage_safety` | `FilesAgree`, `BothEnd`, `ImplementsCampaign` | both timeouts at one deadline, memory caps, descendants, signals into the wrapper, either process killed |
| `evaluation_safety` | `ReferenceIsCurrent`, `KeptUntilComplete`, `CountsAreTrue`, `OnceInOrder` | two commands killed anywhere, every answer of teacher, solver, planner and simulator |

### Bounds

* **Iris.**  `Deadline = 1`, `ShutdownDeadline = 2`, `Patience = 1`: the code only
  compares times, and these leave room before, between and after the two deadlines
  and for a wait that its own limit or the shutdown deadline cuts short.  Three
  stages: the first, one with both neighbours and on the GPU, the last.  At most one of the two processes is killed, but any of their
  writes may fail, so that both may end: with both gone nobody is left to do anything.  One transfer attempt: a second one starts from
  nothing and the receipt is delivered at most once.
* **Gate.**  One command at a time with two attempts of each stage, one audit and
  one edit (1.4 million states); two commands with one attempt each for the races,
  which need no more.
* **MoveIt.**  Five requests (identity, three plans, shutdown) and two lines that
  answer nothing: a request late by one and by two answers, before and after each
  kind of request.  `PipeCapacity = 2` requests unread in stdin, so that the pipe is empty,
  partly filled and full, and a write after two missed answers waits.
* **Features.**  Plans of up to four of eight features, which contain every pair
  that shares a function of the trainer in both orders, features with one and two
  assignments, strict, marking and saving ones; one function replaced by others and
  one interrupt of the installation.  Of the other seven, two replace a function that
  `state_robustness_jitter` replaces in the same way and exclude it, and five replace
  functions that no legal plan shares among features.
* **M2.**  Four epochs, patience for two, a checkpoint every third, three metric
  values (better, equal, worse), four processes: long enough for a best epoch that
  is not due by its period, an early stop before the last epoch and a run resumed
  from a checkpoint that was overtaken.
* **Cache.**  Two episodes, one of them hidden, two features, two processes, four
  commands and one fault: two builders of one cache, then a derivation racing another
  command; a composition or a rebind whose sources are refused late, and one that races it; or a cache built, derived from, removed and built again.  Processes and
  features are interchangeable (symmetry); all properties are invariants.
* **Teacher.**  A stall window of three decisions and two episodes: histories
  that are too short, full, and carried over from a stage or an episode.
* **Coverage.**  Four stages, the second and third wrapped, the second and fourth
  followed by an `accept()`, the third with a larger minimum of remaining time; a
  deadline at three, so that time runs out before, in and after each of them.
* **Evaluation.**  Two commands, two seeds, five steps, plans of two or three waypoints:
  a plan needs a step to be installed, one to latch and one to be complete, which
  leaves two for what comes before or after.

Deadlock checking is off, except for the teacher, because each system really stops:
the instance goes off, the client is closed, the commands have ended.

## Fairness

* **Iris**: weak fairness of the supervisor's statements, the watchdog's, each
  caller's `shutdown()` and of time.  The operating system schedules both processes
  and both loops sleep for bounded times.  A step that may fail is fair as a whole, so
  that nothing is assumed of how it ends.  Nothing is assumed of stages (they may
  hang), of the receiver, of a stage's memory, or of foreign work.
* **MoveIt**: weak fairness of the caller's own statements.  Its waits for an answer and
  for the process carry a timeout, so that `Late`, `Wait` and `WaitKilled` are always
  enabled in the end.  `Write` and `CloseStdout` are not enabled while a pipe blocks them
  (`Blocked`), and `CallReturns` says that a call ends unless it is blocked for ever.
  Nothing is assumed of the sidecar or of the reader thread.
* **Coverage job**: weak fairness of the supervisor, of the worker and of its death by
  a signal, of the death of a stage by SIGKILL, and of time.  Nothing is assumed of
  stages, their wrappers or their descendants.
* The gate, the feature stack, M2, the caches, the teachers and the evaluation are
  checked for safety only: commands are run by hand, no statement of the code
  promises that anybody runs the next, and loops over stages and steps are bounded
  (`DecisionReturns` says so of a decision).

## Proofs

TLAPS checks the eight proof modules to the last leaf.  Each theorem holds for every
value of the constants that satisfies the assumption its module states
(`IrisAssumption`, `ClientAssumption`, `TeacherAssumption`, ...), which ask no more
than that bounds are numbers, that there is at least one stage, epoch or episode (two
requests for the client, a stall window of two decisions, plans of two waypoints) and
that the deadlines are in order.  The one further hypothesis is `InTurn` of two theorems
about the gate: no two of its commands overlap in time.

Every module has the same shape.  The properties are not inductive, because they do
not say what the processes know at each statement; `IInv` adds it.  TLC checked `IInv`
as an invariant of the module's run before it was proved.  `IInvInit` and `IInvStep`
prove it, the latter from one lemma per action; `Inductive` is the theorem, and the
others follow from it.

| Theorem | States |
|---|---|
| `IrisFurnace_proofs`: `TypeCorrect`, `SingleShutdown`, `TrueReport`, `NoStageLeft`, `ExactReceipt`, `NoLostStageAdmitted`, `RefinesCampaign` | `TypeOK`, `OneShutdown`, `ReportIsTrue`, `ExitLeavesNoStage`, `ReceiptIsExact`, `NoLateAdmission`, `ImplementsCampaign` |
| `MoveItClient_proofs`: `TypeCorrect`, `NeverMixedUp`, `CloseIsFinal`, `OneMissEndsAll` | `TypeOK`, `Matched`, `CloseEnds`, `OneMissIsFinal` |
| `TeacherGate_proofs`: `TypeCorrect`, `OrderedInTurn`, `EvidenceKeptInTurn` | `TypeOK`; `ChainIsOrdered` and `EvidenceKept` while no two commands overlap |
| `VisualCoverageJob_proofs`: `TypeCorrect`, `FilesTellOneStory`, `RefinesCampaign` | `TypeOK`, `FilesAgree`, `ImplementsCampaign` |
| `FeatureStack_proofs`: `TypeCorrect`, `EndsClean`, `FailuresStayLocal`, `FirstErrorKept` | `TypeOK`, `CleanExit`, `Independent`, `PrimaryErrorKept` |
| `M2Training_proofs`: `TypeCorrect`, `OneLineOfTraining`, `TrueManifest` | `TypeOK`, `ChainIsOne`, `ManifestIsTrue` |
| `FeatureCache_proofs`: `TypeCorrect`, `SealedIsTrue`, `DerivedFromSources`, `SomebodySeals` | `TypeOK`, `ManifestIsTrue`, `Provenance`, `RaceHasWinner` |
| of the teachers, in the same module: `TeacherTypeCorrect`, `NoAssertionFails`, `CapturedOnce`, `EscapesRestOnWindow` | `TeacherTypeOK`, `DecisionReturns`, `ReferencesFrozen`, `EscapesOwnWindow` |
| `TeacherEvaluation_proofs`: `TypeCorrect`, `ReferencesAreCurrent`, `CountersAreTrue`, `EvaluatedOnceInOrder`, `PlansAreKept` | `TypeOK`, `ReferenceIsCurrent`, `CountsAreTrue`, `OnceInOrder`, `KeptUntilComplete` |

**`IrisFurnace_proofs`**.  What `IInv` adds is where `supervise()` is: `Located` (what
the locals name at each statement, and that stages from the current one on are
untouched), `Progressed` (stages before it are complete), `Reported` (the report belongs
to the `finally` block), `Unstopped` (as long as the watchdog has not interfered the only
live stage is the one the variables name), `Sealed` (what each state of the receiver
implies of the package).  `NoLostStageAdmitted` is an action property: a
lost stage reads its clock (`StartsInTime`) only before the deadline, and `IInv` says that
a watchdog that has interfered, or a supervisor that has reported with a process lost,
leaves none that could.  It says no more, since a lost stage that had read its clock before
may go on to work.
`RefinesCampaign` maps every step to one of `IrisCampaign` or to none; it needs of the
package that there is at most one manifest and one archive (`Packed`).

**`MoveItClient_proofs`**.  Any number of requests and of stray lines.
The difficult one is `OneMissEndsAll`: after one miss no later request is ever
answered.  The lines under way are spread over `queue`, `stdout` and `stdin`, each
holding what the one before it will become.  `Pipeline` says of the three, read in
that order: one response is under way for a request that waits, and exactly after a
miss there is one more, for ever (`Counted`); nothing is under way for a request that
is not yet written (`Earlier`); the response to the request that waits is the last
(`Latter`).  With a response too many in front, the line taken next never belongs to
the request that waits.  That the thread's `None` is the last line it puts (`EndKept`) is part of
`TypeOK`.  The lemmas `AtTheEnd`, `AtTheHead` and `OfLines` say what
appending to a queue and taking from it does to these predicates; `ClientKept` and
`PipelineKept` treat each action once.

**`TeacherGate_proofs`**.  For any number of overlapping commands: reports are
numbered without a gap (`Numbered`), and the number of a command about to write follows
one that is taken (`Sound`).  More cannot hold, since finding 2 breaks it.  While no two
commands are at work at the same time (`InTurn`), however many there are and wherever
they are killed, the path that was tested is still vacant when it is opened (`Reserved`).
So a report that is whole stays, what a guard has read still stands when the report that
rests on it is written (`Rested`), and the findings of an audit are in the order of the
stages (`Audited`).

**`VisualCoverageJob_proofs`**.  Any stages, wrapped or not.  A stage that has ended
keeps its end and its report (`Wrapped`); the statement `worker()` is at says how many
have ended well and which evidence is accepted (`Ordered`, `Evidence`); only the worker
writes a closure and what it writes is true (`Closing`); the supervisor knows the
worker's exit code or is still waiting for it (`Supervised`); and no signal or timeout
is pending for a process that is gone (`Pending`).  `RefinesCampaign` uses it step by
step (`StepsMap`).

**`FeatureStack_proofs`**.  Any legal plan of the fifteen features, any number of
interrupts and foreign replacements.  Until the cleanup is over the installed features
are the first of the plan and those that could not be restored come after them
(`Progress`); of a feature whose install was interrupted after its marker only the marker
is left (`CutOff`), and what `Abandon` leaves is what it found (`AbandonedKept`).  A function is `Safe` when nobody disturbed it nor a function that shares a
feature with it; its wrappers are then exactly those of its installed features, in the
order of the plan (`Exact`), so the feature popped last is on top of all it replaced and
`restore()` takes off its own wrapper.  That is no longer so of other functions, where a
feature that trusts its marker may take off what is not its own; there `Layered` says that
no feature wraps a function twice, and `Listed` that the wrapper of a feature that looks
for its own stays no longer than the feature is listed.  `Untouched` says that a feature is
missed only after a disturbance.  Two facts of the table carry the argument, and a new
feature would have to keep them: where a feature that looks for
its own wrapper replaces two functions, the others on them replace nothing else
(`StrictShares`), and a function that is put back as saved belongs to one feature
(`SavedAlone`).  What `RemoveAt`,
`Append`, `Front` and `Reverse` do to a sequence without repetition is stated in lemmas
about sequences of any length (`Appended`, `Popped`, `Reversed`).

**`M2Training_proofs`**.  What a process holds in memory at each statement of `train()`
describes complete reports on the disk (`Process`, with `Seen` for the best epoch and
the patience of a prefix of the reports and `Pending` for the epoch at work).  Complete
files never change (`Grows`), so neither does what a checkpoint hands to a later
process (`ChainLasts`, `ManifestLasts`).

**`FeatureCache_proofs`**.  Any number of processes.  While a command runs nothing
changes at rest; a file that is complete and a shard that is linked are never written
again (`Grows`), and a torn file has at most one writer (`OneWriter`).  So what a
process has recorded is still on the disk when it seals the directory (`Working`), which
gives `ManifestIsTrue` and `Provenance`; the latter needs of `FlattenSeq` only what it
does to one and to two shards.  `RaceHasWinner` needs a leader: in a directory that is
neither sealed nor abandoned, some process is at a statement that nothing another process
has done can make it end at (`Leads`).  It goes on, or the file it was to write is being
written by a process that leads then.  A command that is killed or refuses its sources
takes away the leader of its own directory only (`GivenUp`).

**The teachers** (second part of `TeacherGate_proofs`; `TeacherInit`, `TeacherNext` and
`TeacherSpec` are named so that one module can extend both specifications).  The stages are passed in one direction, so the place of
the present one says what was captured and in which episode (`Ledger`), how often the
loop can have run (`Progress`), and which stage the stall history can belong to
(`Windows`).

**`TeacherEvaluation_proofs`**.  What a command knows of its own rollout is an invariant
of that command alone (`Local`: the counters bounded by the steps, a plan followed to
its end before its terminal reference is latched, the references and the counts as the
properties have them), kept by every step of the others.  That a stage is evaluated once
and in order rests on the files they share: a log is written before its report, and
whoever created the log of a stage without a report is alone at a rollout (`Alone`).

`StagesInOrder` and `SilentAfterClose` are only proved (`OrderedStages`,
`ClosedIsSilent`).  Only model-checked:

* the liveness properties `OneDecides`, `CallReturns` and `BothEnd`: liveness under
  fairness is beyond the prover.

## Findings

1. **A finished worker is interrupted in its transfer** (`iris_transfer`).  The
   watchdog looks for `worker-exited.json`, then terminates the active child, which
   may take five seconds, then signals without looking again.  A supervisor that
   finished meanwhile is interrupted in its `finally` block, where the handler's
   exception ends `package()` or the wait for the receipt: the result is not handed
   over.
2. **Evidence can be overwritten** (`gate_overwrite`).  Two overlapping runs of one
   stage take the same number from `_next_attempt()`, both find the path free, and the
   second truncates the report of the first.
3. **A terminal checkpoint that cannot be resumed** (`m2_terminal`).  A process
   killed after its last checkpoint and before the manifest leaves a run nobody can
   finish: resuming it is refused as beyond the target, resuming an earlier checkpoint
   ends when the last one is saved again.

Each is quoted with file and line in `PROJECT.json`.

### Observations without a run

* `_stage_guard()` asks for any passing report of an earlier stage, so a later attempt
  that failed is ignored, where `run_teacher_gate.py:6` says that a failed stage stops
  the gate.
* The audit `g5` compares code identities only and reads stage after stage: when stages
  overlap it, it may pass with a finding of `g1` and none of `g0`.
* Patience is tested only after an epoch: a run that was killed after its early stop and
  resumed trains on and may seal another result.
* An install of the feature stack that is interrupted before it is listed leaves its
  wrapper behind, and its marker when it was set (`features.py:768`); `CleanExit` excepts
  that case, and `Independent` says how far the damage goes: to functions that share a
  feature with the half-installed ones.  An interrupt between two installs, or before
  `installed.append` (`features.py:1193`), rolls nothing back; the process ends.
* A stage that the supervisor lost and that read its clock in time may begin its work
  after the deadline: `iris_stage.py:385` samples the time before the evidence is read
  and hashed.  `NoLateAdmission` speaks of those that read it later.
* The decision to power off is not reached when both processes of a furnace run end, by
  a kill or by an error of a write in the `finally` block or in the watchdog.
* A call of the MoveIt client has no limit of time while its pipe is full
  (`moveit_aloha_planner.py:444`) or while it closes a stdout that stays open and silent
  (`moveit_aloha_planner.py:1142`); `CallReturns` admits exactly these.
* A composition or a rebind whose sources lack episodes is refused after its directory
  and two of its files are made (`cache_features.py:1176`, `1317`), which stay.
* The stall history of the geometric teacher is cleared by the next `decide()` only, so
  the decision that enters the transport tests the unlock on the window of the stage
  it came from (`geometric_teacher.py:263`); `EscapesOwnWindow` admits exactly this.
* A completed terminal control whose step the backoff of Mink solves is not counted in
  the report (`evaluate_aloha_geometry_teacher.py:4346`), although a stage may need a
  minimum of them; `CountsAreTrue` admits exactly these.
* `steps_executed` of a rollout counts a step whose decision was refused.
* A stage of the evaluation whose command was killed stays closed for its plan, since
  its log exists.

## What is not modelled

* Numerical work: what a stage, an epoch, a rollout or a wrapper computes is a
  nondeterministic outcome.
* In `IrisFurnace`: the contents of plans and of the 27 stages, disk and byte limits
  beyond "holds or raises", the zip and hash formats.
* In `TeacherGate`: the audit reads the reports of one stage in one step; the
  criteria of a verdict.
* In `MoveItClient`: the validation of a plan's numbers; planning itself; the closing of streams after a broken pipe (recorded by
  `raised`, but nothing promises it).
* In `FeatureStack`: `image_key_scene_regularization` with coefficient 0; the
  assignments of one restore are one step and not interrupted; what the wrappers do, saving of metric
  snapshots among it.
* In `M2Training`: the acceptance status in the manifest, the smoke and overfit
  stages, temporary files a killed `save_tensor_shard()` leaves behind, and two processes on one
  run id at the same time.
* In `FeatureCache`: the backbone, the benchmark command, the loading of
  configurations; states, actions and frames, whose agreement is a free choice.
* In `InsertionTeacher`: poses, the solver and the diagnostics of the command layer.
* In `VisualCoverageJob`: `prepare()`, the argument lists of the stages, the contents of
  the comparisons between them, pids that are used again.
* In `TeacherEvaluation`: kinematics, trust regions, the validation of a plan, criteria
  other than successes, refusals and completions (they may fail at any time); the branch
  for `coarse_align` in the feedforward's error handler, which no valid plan reaches;
  plans without a MoveIt fallback; the sidecar, which is in `MoveItClient`.
* Components without a module, see the table above: neural networks, simulator
  bindings and batch data jobs have no shared state whose interleavings a model could
  explore; the others are in the plan.

## Plan

Done: `IrisFurnace`, `VisualCoverageJob` (both refine `IrisCampaign`), `TeacherGate`,
`MoveItClient`, `M2Training`, `FeatureCache`, `InsertionTeacher`, `TeacherEvaluation`,
`FeatureStack`, each with its proofs.

Next, in this order:

1. **ObservedLaunch** and the checkpoint snapshot: a checkpoint without its metric
   row after a kill, the observer's report against the child's end.
2. **Selection**: sampler and checkpoint selection as operators against reference
   definitions over bounded inputs.
3. **Hestia jobs**: supervisors of the same shape, once more on `IrisCampaign`.

Abstract specifications: `IrisCampaign` (done); an append-only evidence log that the
gate implements while its commands do not overlap; a request-response channel that `MoveItClient`
implements; a create-once store under `M2Training` and `FeatureCache`.

Theorems: what of the order of the chain survives overlapping commands.

## Running

```
tlc -workers 2 -config IrisFurnace_safety.cfg IrisFurnace
tlc -workers 2 -config TeacherGate_chain.cfg TeacherGate
tlc -workers 2 -config FeatureCache_chain.cfg FeatureCache
tlc -workers 2 -config InsertionTeacher_safety.cfg InsertionTeacher
tlc -workers 2 -config VisualCoverageJob_safety.cfg VisualCoverageJob
tlc -workers 2 -config TeacherEvaluation_safety.cfg TeacherEvaluation
for module in *_proofs.tla; do tlapm $module; done
```
