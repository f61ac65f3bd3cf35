# Verification of codex-agy-worker

TLA+ models of the runtime in `skills/agy-worker/runtime` and of the update notifier, the TLC
runs that check them on small instances, and TLAPS proofs of their safety properties for every
value of the constants. Paths below are relative to the repository; `scripts/` stands for
`skills/agy-worker/runtime/scripts/`.

1. [The system](#the-system)
2. [Modules](#modules)
3. [Reconciliation](#reconciliation) · [JobLifecycle](#joblifecycle) · [DispatchJob](#dispatchjob)
   · [ScopedStage](#scopedstage) · [WorktreeScan](#worktreescan) · [WorkflowFacade](#workflowfacade)
   · [EvidenceReceipt](#evidencereceipt) · [UpdateNotifier](#updatenotifier)
4. [Runs](#runs) · [Fairness](#fairness) · [What the runs found](#what-the-runs-found) · [Observations](#observations)
5. [Proofs](#proofs)
6. [What is not modelled](#what-is-not-modelled) · [Plan](#plan)

## The system

The program lets a driver delegate a task to a provider CLI, `agy`, in a Git worktree of its own,
and makes sure that what comes back is judged before anything relies on it. It is a set of
commands that share private state files; nothing runs between commands except a dispatch
controller and the provider it watches.

| Component | State | Operations | What is hard | What makes it correct |
|---|---|---|---|---|
| Job lifecycle (`scripts/job_lifecycle.py`) | `job.json`: phase, cleanup step, digests of the evidence, approvals by SHA-256; Git's worktree, registration and branch | init, verify, record-dispatch-failure, rollback-ready, cleanup, abort, status | signals, kills and failing Git calls between any two steps; edits by the user; controllers that run beside it | nothing is destroyed without persisted progress, current evidence and an unspent approval; no state claims what Git does not show; interrupted commands can be finished |
| Dispatch controller (`scripts/agy_dispatch.py`) | `dispatch-state.json`; the lifecycle lock (`flock`) and the short state lock; controller and provider processes | start, resume, restart, continue, cancel, extend, finalize, status, wait, result | five kinds of process write one record; cancellation against launch, extension against deadline, kill against publication | one provider at a time; an approved cancellation wins; a candidate is bound to its own worktree; no lease beyond the budget; every attempt ends |
| Scoped staging (`scripts/agy_dispatch_worktree.py`, `agy_dispatch.py`) | the approved transmission, the stage directory, the lineage of a repair in the record | validate, scan, copy, revalidate, scan again, reconcile, clean up, derive | edits of the worktree at any moment; the stage under other processes; attempts that end anywhere | only approved or recorded content is sent; only the write scope is written; no stage is forgotten |
| Reconciliation (`scripts/agy_dispatch_worktree.py`) | marker file, backup directory, ledger in memory | prepare, apply, commit, roll back, recover | a transaction over many paths with kills, failing calls and other writers | all or nothing, or a marker that says so |
| Transmission preview, worktree scans (`scripts/transmission_preview.py`, `agy_dispatch_worktree.py`) | none | list and digest a worktree without a lock on it | files and names that change between any two reads | what is accepted is one state of the worktree |
| Self-verification (`scripts/agy_dispatch_verification.py`) | fields of the dispatch record; a copy of the candidate | self-verify; recovery by status | killed while checks run; the budget shared with the provider | once per candidate, charged, always ends |
| Provider containment (`scripts/agy_dispatch_containment.py`) | none | build argument vectors, probe the host | the host | a fixed shape |
| Workflow facade, launch authority, delegation worker (`scripts/workflow.py`, `launch_authority.py`, `agy-worker.sh`) | `workflow.json`, `job.json`, the dispatch directory, a lock that only some steps hold | run: find or make the job, preview, bind, approve, launch; take down what failed | invocations that interleave; the worker works without the lock | one dispatch, of what was approved; a rollback takes only its own |
| Evidence receipt, quality gate (`scripts/evidence_receipt.py`, `qa-gate.sh`, `verify-job.sh`) | receipt file, private copies | snapshot, gate, publish, undo | edits while the gate runs; signals and failing calls; another publication | a receipt speaks of the bytes the gate saw; nothing is left |
| Candidate state (`scripts/candidate_state.py`) | none | digest a worktree | limits, races of the traversal | same bytes, same digest |
| Model selection, recommendation, policy (`scripts/model_selection.py`, …) | a cached catalog, an append-only record | choose, record, evaluate | little: sequential | rule tables |
| Update notifier (repository's `scripts/update_notifier.py`, `update_notifier_child.py`) | ledger, tombstone, installed files, last result; launchd's label | install, uninstall, refresh, run; an update child with probes | a kill or a login between any two phases; replaced files | what launchd has is owned; a clean uninstall is clean; an answer counts when its probes closed |
| Reports, validators, CI helpers, installers | none or files they own | read and render | little | — |

How they interact. The facade calls the lifecycle, the dispatch and the receipt as commands and
reads their state files. `verify` runs the gate and binds its receipt. `record-dispatch-failure`
and `abort` read the dispatch state, and take its lifecycle lock so that no controller writes the
candidate meanwhile. The controller of a scoped job copies approved content to a stage, and the
provider's changes back into the worktree through the reconciliation before it binds the candidate.
Previews, approvals and candidates all rest on scans of a worktree that anybody may edit. The
driver's approvals are SHA-256 values of state files: a command acts only on the state its approval
was given for.

`PROJECT.json` lists all components with their status, and the hazards of the code line by line
with the properties that cover each.

## Modules

| Module | What it is | Instance for TLC | Theorems |
|---|---|---|---|
| `Reconciliation` | the transaction that publishes a stage into the source worktree; it implements `AtomicTree`, a tree replaced as a whole | `MCReconciliation` | `ReconciliationProofs` |
| `JobLifecycle` | the commands of one job, Git's reality, and who else writes them | `MCJobLifecycle` | `JobLifecycleProofs` |
| `DispatchJob` | the dispatch record of one job and the processes that write it | itself | `DispatchJobProofs` |
| `ScopedStage` | a scoped launch around its stage, with the lineage of a repair | `MCScopedStage` | `ScopedStageProofs` |
| `WorktreeScan` | the three scans of a worktree that may be edited | `MCWorktreeScan` | `WorktreeScanProofs` |
| `WorkflowFacade` | invocations of `run` that share one job root | `MCWorkflowFacade` | `WorkflowFacadeProofs` |
| `EvidenceReceipt` | verify-finalize, verify-job and the gate | `MCEvidenceReceipt` | `EvidenceReceiptProofs` |
| `UpdateNotifier` | the LaunchAgent, its lifecycle and its daily run | `MCUpdateNotifier` | `UpdateNotifierProofs` |

A definition whose comment starts with "Mutant" is no part of a model: it is the plausible mistake
that shows that a property can fail.

How the modules fit. Each takes its neighbour's promise as one step, and the neighbour's run and
theorem are what justify it:
- a snapshot or scan of the worktree is one step in `ScopedStage`, `WorkflowFacade` and
  `DispatchJob`: `WorktreeScan!ScanAtomic`;
- a reconciliation is one step in `ScopedStage`: `Reconciliation!Recoverable` and
  `ImplementsAtomicTree`;
- the dispatch of `JobLifecycle` is a lock, a run number and a final status, which is what
  `DispatchJob` provides (`LockFree`, `s.attempt`, `s.status`); the controller of `ScopedStage` is
  that of `DispatchJob` with its stage in the foreground and its clock left out;
- the job of `WorkflowFacade` is that of `JobLifecycle` between init and rollback-ready;
- a verdict of `JobLifecycle` is the answer of `EvidenceReceipt`'s gate.

## Reconciliation

**Source.** `_scan_stage_mutations` to `_recover_reconciliation` in
`scripts/agy_dispatch_worktree.py`.

**State.** The source tree `src`, the marker file `disk` and the backups `backupDir`, `bfiles` are
durable. The control state `pc`, the operation index `k` and the ledger in memory `led` are lost by
a kill. Every action is one change of what a path holds, one replacement of the marker, or one
change of the backups. A path's entry carries a generation beside its content, because the code
recognises its own work by device, inode and times as well as by bytes.

**Actions.** `StartReconcile` begins a call: it first recovers what an earlier one left
(`Recover`), and then checks the manifest against the source. `Begin`, `Prepare` and `Publish`
make the backup directory, the backups and the marker. `Announce`, `Apply`, `ApplySwap`, `Observe`
and `Settle` carry out one operation: write ahead, change, look, record. `FinishFiles`,
`FinishDir` and `FinishMarker` remove the evidence of a decided transaction. `RequireRollback` and
`Require` turn a failure into a rollback; `UndoCreate…`, `RestoreDirectory`, `MakeDirectory`,
`ModeDirectory`, `MadeDirectory`, `RestoreFile…` and `VerifyRollback` are the rollback, which writes ahead too.
`Crash` is a kill, `Fault` a failing system call, `Drift` a write of another process.

**Abstractions.**
- The check of an identity and the rename that relies on it are one step, so `Drift` cannot fall
  between them: lessons_learned says of that window "Finite snapshots are observations, not tamper
  resistance". `ForeignPreserved` therefore speaks of entries the ledger has not recorded as its own.
- The writes of one backup are one step; directories do not drift. mkdir and the fchmod after it are
  two: the umask of 077 may take bits from the mode in between.
- `_recover_reconciliation` is called inside a reconciliation in production; `StartRecover`, a call
  on its own, is what `tests/agy_worker_remediation_recovery_cases.py` does after a kill.

**Abstract specification.** `AtomicTree` says what a caller may rely on: a tree is open or it is
all old or all new, until somebody else writes it (`Interfere`). `ImplementsAtomicTree` maps `seen` to
the source when no marker is on disk, and to `Busy` while there is one, and `alone` to
`drifted = {}`; TLC checks it and `RefinesAtomicTree` proves it.

## JobLifecycle

**Source.** `command_*` of `scripts/job_lifecycle.py` with their error handlers.

**State.** `file` is `job.json` as far as commands decide by it. `tree`, `registered` and `ref` are
Git's reality: the worktree directory, its registration, the branch. `dispatch` is the dispatch
state. `cmd`, `at`, `noted`, `own`, `grant`, `verdict` are the running command, its place and its
local variables; `held` is a history of edits during a verify. `shown`, `fresh` are what the operator saw and whether the state is still that one.

**Actions.** One per step between two effects: `StartInit`, `AddWorktree`, `RecordReady` … for init;
`StartVerify`, `GateFinal`, `GateDecides`, `CompareReceipt`, `BindReceipt` for verify, an edit being
possible between any two of them; `Entry`, `Reconcile`, `Check`, `Recheck`,
`RemoveWorktree`, `RecordRemoval`, `CheckRef`, `DeleteRef`, `Finish` for cleanup and abort, which
share their code. `Stop` is a kill, `Signal…` a signal in a place that handles it, `GitFails` and
`GitRefuses` a failing call, `RemovalCut`, `AddCut`, `ChildCut` a Git child that stops or goes on
half-way. `Edit`, `MoveBranch`, `Repair`, `StartDispatch`, `EndDispatch` are the environment.

**Abstractions.**
- The SHA-256 of the state is abstracted to `fresh`: bytes never recur. A mistyped approval takes
  the path of a stale one.
- One command at a time: the lock is taken without waiting, and a command that finds it busy does
  nothing. A Git child orphaned by a kill finishes before the next command.
- The receipt has a fresh path for each verify, and nobody tampers with receipt, dispatch state or
  job state. Jobs are those the facade creates (schema 2).
- The user does not edit between the last comparison and the removal (the same sentence on finite
  snapshots as above); the controller's provider may write at any moment its attempt runs.
- The two writes of one reconciliation with Git are one step: no effect on the worktree or the branch
  lies between them.
- While `abort` holds the dispatch lock its later rebinding cannot fail, so no attempt can start
  until the command ends.
- "failed" stands for every unsuccessful end of a dispatch that `record-dispatch-failure` accepts,
  cancelled ones included.

**What a state file must satisfy.** `Consistent` is `_validate_phase_fields`: for each phase, which
steps, failures and bindings may stand beside it. The code runs it before every write and after
every read, and its failure would stop a command between two destructions, or lock the operator
out. It is no guard of the model: `StateAccepted` says that it never fails.

## DispatchJob

**Source.** `create_state`, `spawn`, `controller` and everything it calls, `command_control`,
`command_finalize`, `command_status` in `scripts/agy_dispatch.py`, and `command_self_verify` in
`scripts/agy_dispatch_verification.py`.

**State.**

| Variable | In the code |
|---|---|
| `s` | `dispatch-state.json`: attempt, origin, status and reason; `cancel_requested`; whether `controller_pid` and `started_epoch` are set; the three numbers of the budget (`elapsed_seconds`, `hard_seconds`, `self_verification_elapsed_seconds`); the candidate (whose report, which worktree, its source, whether it is available and decided on); `resume_available`, `continue_available`; the self-verification's fields |
| `spawner` | where `spawn` is: record created, waiting for the handshake, about to record a start failure, done |
| `ctl` | the controller: its step, `_ControllerOutcome`, the worktree snapshot, the latched signal, how many writes of others its copy of the record has missed |
| `checker` | a self-verify process runs |
| `live`, `wt` | attempts whose provider runs; whose provider wrote the worktree last |
| `clock` | ticks since the provider, or the self-verification, started |
| `popen`, `left`, `ran` | history for the properties |
| `strays` | history: attempts whose provider a failure left behind, alive (see `Kill` and `Recover` below) |

An action is one critical section of the state lock, or one step of a process between two of them.
`LockFree` is the lifecycle lock: `spawn` takes it, the controller inherits the descriptor, and it is
free when both, and any self-verification, are gone.

**The life of an attempt.** `Create` (or `Init`) queues it and `StartController` starts the
controller; `Claim`, `Bind` and `Launch` follow, the last being one critical section with the last
look at `cancel_requested`. `Poll`, `Progress`, `Notice`, `IdleTimeout`, `StreamsEnd` are the
monitor; `Reap` ends the provider; `Freeze` stops the clock and judges the deadline again;
`Observe` parses what was said; `ObserveCancel` closes the streams with signals blocked and looks
for a cancellation; `Reconcile` binds the worktree outside the locks; `Publish` reads the record
again, lets a cancellation win and writes the terminal record. `Cancel`, `Extend` and `Finalize`
need only the state lock and come at any moment. `Recover` is the controller's error path; `Kill`
leaves a provider behind; `Orphan`, `StartFailure` and `QueuedSignal` end records that nobody owns.

Two failures leave a provider behind whose record then offers another launch. `Recover` suppresses the
error of its second attempt to terminate the provider (5892). And the handshake's timeout is judged by
a reading of the record that a claim, and a launch, may have overtaken: the command then kills a
controller that works (`HandshakeTimeout`, `Kill`), or finds it killed by somebody else
(`ControllerLost`), and `StartFailure` writes "failed" over the attempt. `strays` remembers these
attempts, and `Reaped` and `CandidateBound` except them by that name; nothing in the model makes the
two failures rarer than the code does.

**Abstractions.**
- Native isolation of the whole worktree: the provider writes the worktree itself, and only
  providers write it. The stage of a scoped job is `ScopedStage`'s.
- A digest is the attempt that wrote last; a conversation is whether one is known; time is ticks.
  A clock that passed `max_seconds` stops, as no comparison could tell the difference.
- An approval by SHA-256 acts on the current record or does nothing, so a control is an action on
  the current state.
- The caller of a command that starts an attempt waits for it to return (`spawner = "idle"` in
  `Create`).
- The TERM of a handshake that timed out is a `Signal`, or a `Die` of a controller without its
  handlers yet; its KILL is a `Die` or a `Kill`. None has to come: the controller may end before.
- The provider that a failing termination left behind may be one in a scoped stage, which is where
  termination can fail; the model lets it write the worktree, which is worse.
- A failing launch proof, stream or binding is a choice of the action, with the reason it records.
  Reasons that the code treats alike are one value: "failed" stands for every reason of an
  unclassified, malformed or non-zero end, "unavailable" for `status_unavailable`.
- Launch limits and provider quota times are left out: they add fields that restrict `continue`
  further. So does the repair lineage of scoped jobs, which is in `ScopedStage`.
- After a boundary failure that a cancellation overtook, the code also sets the phase of a prior
  candidate to "blocked"; the model leaves it reviewable, which allows more.
- A signal is latched at the last moment before the controller looks: at the launch, at a poll,
  before signals are blocked.

**What a record must satisfy.** `CandidateAccepted` and `ChecksAccepted` are the parts of
`_validate_candidate_lifecycle` and `_validate_self_verification_state` about the fields the model
has; `phase`, `assurance` and `next_action`, which are functions of those fields, are left out. They
are no guards either: `StateAccepted` says that they never refuse a record.

## ScopedStage

**Source.** The scope functions and `_materialize_stage`, `_scan_stage_mutations`, `_cleanup_stage`
in `scripts/agy_dispatch_worktree.py`; `create_state`, `initial_state`, the controller from claim
to publication and `_require_scoped_transmission_authority` in `scripts/agy_dispatch.py`.

**State.** `source` is the worktree, `approved` the transmission the owner approved, `job` the fields
of `dispatch-state.json` that scoped launches read, `maker` the command that creates an attempt
with the baseline it took, `c` the controller with its manifest, its narrow snapshot, its outcome
and its candidate, `stage` what is at the attempt's stage path and whose it is. `given`, `sealed`
and `made` are history: what a provider was last started on, what was last recorded for a repair,
what a stage held when the worktree was last found equal to it.

**Actions.** `BeginInitial`/`Begin`, `TakeBaseline`, `Record`/`RefuseRecord` create an attempt;
`Claim`, `CheckBaseline`, `ScanScope`, `TakeNarrow`, `MakeStage`, `CopyFile`, `Rescan`, `Launch` are
the controller before the provider, `GiveUpStage` and `AbandonStage` the removal of a stage it could
not fill; `CompareNarrow`, `ScanMutations`, `Reconcile`, `MatchStage`, `CleanStage`, `RemoveStage`,
`ObserveCancel`, `TakeCandidate`, `Derive`, `Publish` come after it; `Kill` and `Break` are the ends
that are none. `Edit` is anybody's edit of the worktree, `Meddle` another process at the stage,
`ProviderWrites` and `ProviderEnds` the provider.

A removal is two steps, as `_cleanup_stage` makes it: the directory at the path is opened, compared
with the one that was made and emptied through that descriptor (`CleanStage`, `GiveUpStage`), and
then `os.rmdir` names the path again (`RemoveStage`, `AbandonStage`). Another directory may be there
by then: the rmdir fails on it if it holds anything and takes it if it is empty. `OthersKept` says
that nothing else of a foreign directory is ever taken.

**Abstractions.** A snapshot, a scan and a reconciliation are one step each; the revalidation of the
stage and the start of the process are one step, so a change between them is one made while the
provider runs; limits of size and time, and the reasons that merely forbid a continuation, are left
out; what a removal unlinked before it met a symlink is not followed. A foreign directory at the
stage's path holds as much as ours did, nothing, or something that is no file, and stays there until
the attempt after this one, whose path is another.

## WorktreeScan

**Source.** `readable_path_manifest`, `whole_worktree_content_manifest`, `_worktree_snapshot_raw` and
the walks and reads they call in `scripts/agy_dispatch_worktree.py`.

**State.** `tree`, `tracked` and the bindings `fs`, `ds`, `ix` are the worktree; the rest is one scan:
the pass it is in, how far the walk is with each directory, the file that is open, what this pass
and the one before collected, what Git listed. `mid` is history: the worktree at the moment between
the two collects.

**Actions.** One per system call that can see a different worktree: a directory opened, listed,
checked again and closed; a file looked at, opened, read, checked; the index listed and the
untracked names listed, in two calls; the comparisons between the passes. `Edit` writes, creates,
deletes, stages or unstages a path between any two of them.

**Abstractions.** Every change gives an object a binding it never had: two changes within the
granularity of the clock are told apart neither by the code nor by the model, which the model makes
an assumption. Git's own walk for untracked names is one step. Deadlines and limits only refuse.
Symlinks, Git's authority files, paths that only HEAD has and edits of `.gitignore` are left out.

## WorkflowFacade

**Source.** `_ordinary_run`, `_rollback_facade_ready`, `WorkflowStateStore` of `scripts/workflow.py`;
`command_init` and `command_rollback_ready` of `scripts/job_lifecycle.py`; the launch path of
`agy-worker.sh`; `scripts/launch_authority.py`.

**State.** The job root: `job` (job.json), `facade` (workflow.json), `tree`, `ref`, `dir` (the dispatch
directory), `lock`. `run[p]` is one invocation: its step, its task and approval, whether it made the
job, the digests and inodes it kept. `shown` is what operators have seen and may approve,
`launches` the dispatches that were started.

**Actions.** `Begin`, `InitRecord`, `InitAdd`, `InitReady`, `Snapshot` find or make the job; `Open`,
`Preview`, `Bind` preview and bind it under the lock; `CheckRecord`, `MakeDir`, `Select`, `Repreview`,
`Match`, `Launch` are agy-worker.sh, without the lock; `Failed`, `UndoRead` … `UndoState`, `Discard`
take the job down. `Kill` ends an invocation with its child, or leaves the child to go on alone.

**Abstractions.** A preview is one read of the worktree; a digest is what it covers; every option of
a launch but the content is its task; the base commit does not change. Left out: the advanced form of
`run`, which has no job to make or take down, and job.sh called by the operator meanwhile.

## EvidenceReceipt

**Source.** verify-finalize in `scripts/workflow.py`, `scripts/evidence_receipt.py`, `qa-gate.sh` in
evidence mode, the digest of `scripts/candidate_state.py`.

**State.** `cand` and `envelope` are what others edit; `target`, `receipt`, `private`, `evidence` are
files; `w`, `g`, `caller` the three processes; `snap` the six digests taken. `seen`, `newest` and
`undone` are history: the contents the verifiers ran on, the newest of each part, and whether a part
was given a content that it had before.

**Actions.** The caller's `Capture`, `CallVerify`, `Judge`, `Recheck`, `Decide`; the wrapper from
`Validate` over `Spawn`, `Adopt`, `Answer`, `WriteTemp`, `Register`, `Link` to `Finally` and `Return`,
with `Undo` and `Unwind`; the gate from `Workspace` over its digests, `Claims`, `RunVerifier` to
`Emit` and `Clean`. `Signal`, `Kill`, `CallFails`, `GateKilled`, `Occupy` (somebody else publishes) and
the edits (`Edit` gives a part a new content, `Restore` an earlier one) come between any two.
`CallFails` follows each failure to its handler: publish_receipt undoes what it did and returns 74,
but a temporary receipt that cannot be read back goes to the finally of verify_main with 64, and one
that cannot be written there with 1.

**Abstractions.** A digest is two reads, the diff and then the untracked files, of contents only, as
in the code: a candidate that was changed and restored has the digest it had. What the properties say
of the contents the verifiers saw therefore holds until a content is put back (`undone`), the rest
always; `MutationRejected` is about contents put back. The envelope is the kind the gate makes
of it. Deadlines are left out, and so is the unlinking of private files that fails.

## UpdateNotifier

**Source.** `scripts/update_notifier.py` and `scripts/update_notifier_child.py` of the repository.

**State.** `ledger` (state.json), `tomb` (uninstall.json), `files`, `result` (last-result.json) are
durable; `loaded` is what launchd has under the label: the installation's job, another one or none; `cmd`, `at`, `item`, `kept`, `found`, `prior` the running command;
`child` the update child, its shim and its probe with the bytes that acknowledge them. `late` and
`shown` are history: what was replaced after an uninstall looked, what was displayed.

**Actions.** `StartInstall`, `Prepare`, `CopySnapshot`, `CopyLauncher`, `WritePlist`, `Bootstrapping`,
`Bootstrap`, `MarkLoaded`; `StartUninstall`, `Unload`, `Look`, `Unlink`, `Processed`, `Confirm`,
`Retire`; `StartRun` with `ProbeStarts`, `ProbeCloses`, `Acknowledge`, `ShimDies`, `ChildEnds`,
`Collect`, `Record`, `Notify`. `Reopen` is an install over a completed uninstall, where a refresh goes
on. `Die` cuts a command anywhere, in the middle of a plain write too. `Login` loads whatever list is
at the path, and so does `Bootstrap`: launchd compares no digest, and `_install_locked` does not look at
the list again before `launchctl bootstrap`. The owner and the project act meanwhile: `Replace` puts an
unrelated file, a list that keeps the label or something unreadable at an installed path. What
`_hash_file` refuses to read ends the uninstall in `Look`, at every repetition, until it is cleared.

**Abstractions.** A digest is the content. The source files are one item, the launcher and its shim
another, so a directory in which one file is replaced and the others removed is "replaced". `Prepare`
reads the source once; the code reads it twice (540, 542), and an edit between the two makes the
installation fail as `Die` does there, with a shim whose digest no file has. Whether launchd takes a
list the commands refuse to read is left open (`Loadable`). A probe that a killed run left is not
followed.

## Runs

| Run | Instance | Expected | Properties and what they show |
|---|---|---|---|
| `recon_safe` | two nested directories with a file; 3 calls, 2 kills, 1 failing call, 1 write of another process; two contents | pass | `TypeOK`; `ImplementsAtomicTree`; `Recoverable`: without a marker all or nothing, answers that match the tree, backups while they are needed; `RollbackResumes`: a recovery that is killed again and again gets through, if the transaction created nothing and no kill fell between a mkdir and its fchmod; `ForeignPreserved`: an entry not recorded as its own is not destroyed |
| `recon_killed_finish` | a directory, a file in it, a path beside it; 2 calls, 1 kill | violation | see below |
| `job_all` | two edits, 2 dispatch attempts, 2 signals, kills or Git failures | pass | `TypeOK`; `DestructionExact`: what must hold before something is destroyed; `StateTrue`: "absent", "cleaned" and "aborted" are true of Git, and no command is refused its own write or the file the one before left; `EvidenceKept`: a verdict names a candidate held since the gate answered, and stays; `Resumes`: commands return, an interrupted cleanup or abort is finished by fresh ones, and a job whose verify was killed can be verified again (one stopped by a signal cannot) |
| `dispatch_safe` | 2 attempts, a lease of 1 tick, a budget of 2 | pass | `TypeOK`; `Reaped`: one provider in the worktree, and none when another launch is offered, but for the two failures of `strays`; `RecordTrue`: a cancellation wins, the candidate's worktree is its own, what was launched is said, and no process is refused its own write or the record another left; `BudgetKept`: deadlines, leases and checks; `TerminalStays`: no late writer changes a terminal record |
| `dispatch_ends` | the same with a budget of 1 (no extension, and a second attempt only when the first took no time) | pass | `Ends`: every attempt and every self-verification |
| `dispatch_late_cancel` | as `dispatch_safe` | violation | see below |
| `scoped_safe` | a readable, a writable and an outside path, two bodies, 2 attempts, 1 edit or change of the stage, 1 path changed by a provider at a time | pass | `TypeOK`; `SentIsRecorded`: what is sent was approved or recorded; `OthersKept`: only the write scope is written, over what was there at the launch, and a foreign directory at the stage's path is taken only if it is empty and came there before the last rmdir; `StageAccounted`: a stage left behind shows; `QuietCandidate`: the candidate is what the provider left, if nobody edited; `LaunchAsRecorded`: the check before the record and the check before the launch agree |
| `scan_atomic` | a file in the root and one in a directory, two bodies, 3 edits, each of the three scans | pass | `TypeOK`; `ScanAtomic`: what is accepted is one state of the worktree; `RefusedOnlyIfEdited`: a worktree at rest is accepted |
| `facade_safe` | 3 invocations for one job, 2 tasks, 1 edit, 1 kill, every call failing | pass | `TypeOK` with the lock's holder; `LaunchExact`: one dispatch, of what was approved, whose job stays recorded; `RollbackExact`: an invocation takes down only what it made, in order, under the lock |
| `receipt_safe` | 2 verifiers, 2 edits, 1 kill, failing call, signal or publication of others | pass | `TypeOK`; `ReceiptHonest`: the receipt says what the gate answered, on the bytes it names unless a content was put back; `VerifiedIsAccepted`; `NothingLeft`; `ForeignKept`; `InterruptReturns` |
| `notifier_safe` | 2 installations, 2 versions, 1 release, 1 probe, 1 edit, 3 faults | pass | `TypeOK`; `LoadedOwned`: launchd has no job of an installation the ledger disowns, and after a completed uninstall another under the label only if its list was reported or came later; `CleanSlate`: an uninstall that preserved nothing left nothing; `CheckHonest`: an answer is recorded when its probes closed, and shown once; `UninstallResumes`: an undisturbed uninstall finishes what the earlier ones left, unless it meets what it refuses to read |
| `notifier_repeat` | one version and one release | violation | see below |

Several properties are conjunctions of named parts (`DestructionExact`, `EvidenceKept`, `Resumes`,
`StateTrue`, `RecordTrue`, `BudgetKept`, `Ends`, `Recoverable`, `CheckHonest`, `LaunchExact`, `ScanAtomic`): the
parts are defined and explained beside them.

**Why the bounds are enough.**
- Reconciliation: what operations can do to each other depends on whether one path lies in another,
  and two nested directories with a path in them have each order a manifest keeps: parents before
  children, files between directories, children before parents. The manifest is any pair of trees
  over them, so creates, replaces and deletes mix; paths beside each other, and any number of them,
  are left to the theorems, which cover every property of the run. Two kills interrupt a recovery of a recovery; one
  failing call inside a killed transaction is the deepest nesting of the error paths.
- Job lifecycle: two faults interrupt a command and the command that resumes it, or its handler. Two
  attempts are a recorded failure and a repair.
- Dispatch and `ScopedStage`: a second attempt is every kind of later attempt (resume, restart,
  continue), since a record looks back one attempt only. A budget of two ticks with a lease of one
  lets a lease be extended once, be capped by the budget, and be spent by checks. The three paths of
  the scope are one of each kind the code distinguishes, and two bodies are "as it was" and "changed".
  One touch comes between any two steps; the theorems are for any number.
- `WorktreeScan`: an edit, its undoing by name, and one of the index are three; two paths are one whose
  directory is the root, which stays open, and one whose directory the walk opens and closes.
- `WorkflowFacade`: a maker of the job, one that uses it, and one that makes it again after a
  rollback are three invocations.
- `EvidenceReceipt`: two edits fall into two parts of one digest, or on either side of a verifier, and one may undo the other.
- `UpdateNotifier`: two installations put an old tombstone beside a new ledger; three faults interrupt
  an uninstall and its resumption, or load the label in between. One edit or replacement is enough to
  tell the two contents of a path apart; the theorems are for any number.

`CHECK_DEADLOCK FALSE` everywhere: the numbers of calls, faults, edits and attempts are bounded
(`MaxCalls`, `MaxCrashes`, `MaxFaults`, `MaxDrifts`, `MaxRuns`, `MaxTouches`, `MaxChanges`, `MaxEdits`,
`MaxKills`, `MaxInstalls`, `MaxProbes`, `MaxVerifiers`), so every behaviour ends. `MaxCycles`,
`HardSeconds` and `MaxSeconds` are the program's own limits; the others are bounds of the model.
`SYMMETRY` is used in `recon_safe` only, which checks no liveness.

## Fairness

- Job lifecycle: the running command takes its steps (weak). The operator reads the state, approves
  it for cleanup or abort, and repairs what a stopped `git worktree` left, whenever that is possible
  again and again (strong), and tries a verify that is refused (weak): a liveness property of a
  command-line tool can only say that somebody who keeps trying gets through. Faults are never fair.
- Dispatch: the processes that exist take their steps, time passes, and the caller asks for the
  status again and again (all weak). Nothing is assumed of the provider: it need not write, speak
  or exit. Controls, kills and signals are not fair.
- Evidence receipt: the caller, the wrapper and the gate take their steps (weak). A verifier need
  not end (`VerifierEnds` is not fair), nor does anybody send a signal.
- Update notifier: the running command and the update child take their steps, and a probe's group
  closes (weak). `UninstallResumes` speaks of an uninstall that no fault hits; the kills before it
  are arbitrary.
- `Reconciliation`, `ScopedStage`, `WorkflowFacade` and `WorktreeScan` state safety only and assume no fairness.

## What the runs found

Each is a run that TLC must find violated, with a quotation in `PROJECT.json`.

1. `recon_killed_finish`: a kill between removing the backup directory and removing the marker
   makes a decided transaction unrecoverable.
2. `dispatch_late_cancel`: a cancellation between the worktree's binding and the publication drops
   the new report and keeps the new worktree: the record pairs the earlier report with it.
3. `notifier_repeat`: a run that suppresses a repeated notification records that it attempted none,
   so the run after it displays the same fingerprint again.

## Observations

Divergences that a property of a module states and that do not hold; TLC finds a counterexample when
the property replaces the invariants of the run named.

- `DirectoriesRecreated` (`recon_safe`): a kill between the mkdir of a rollback
  (`agy_dispatch_worktree.py:4027`), which the wrapper's umask of 077 cuts (`agy-worker.sh:27`), and the
  fchmod that repairs the mode (4032) leaves a directory recorded as 0755 as 0700 with its mark, and
  every later recovery compares the mode (4069) and refuses, although the rollback means to "restore
  deleted empty directories shallow-first, preserving their mode" (4010).
- `ReapedFirst` (`dispatch_safe`): a provider that two attempts to terminate did not end is alive when
  the record says "failed" and offers a restart. The second termination, of which
  `agy_dispatch.py:5887-5890` says "Reap first, … then publish one fail-closed terminal projection", is
  suppressed when it fails too (5892), and the process is forgotten (5897). TLC finds the same
  without a failing termination after a handshake that timed out on an old reading.
- `MutationRejected` (`receipt_safe`): a verifier, or anyone while it runs, changes the candidate and
  puts it back; the digests are of contents only (`candidate_state.py:207-287`), so they are equal and the
  candidate is accepted, although "a verifier that mutates the candidate invalidates the exercised
  state" (TROUBLESHOOTING.md:150).
- `NoPartialReceipt` (`receipt_safe`): a temporary receipt that cannot be read back
  (`evidence_receipt.py:862`) is left beside the receipt's path, because the handler at 889-894 does not
  name `UsageFailure` and the finally at 1430 removes the other two files only.
- `FailureCode` (`receipt_safe`): that read-back returns 64, and an error of writing the temporary receipt
  (`evidence_receipt.py:734`) is caught by nobody and ends the command with 1, where "validation or
  publication failure returns 74" (docs/PROJECT_WORKFLOW.md:522).
- `RestoredIsRecognised` (`recon_safe` without its failing call and its foreign write): a rollback
  of a manifest that creates a directory with something in it ends "uncertain" although the source
  is back in its staged state (`agy_dispatch_worktree.py:3906`).
- `CleanupExact` (`job_all`): cleanup does not hold the dispatch lock, so a repair attempt that starts
  after the last comparison loses its writes (`job_lifecycle.py:1828`; docs/PROJECT_WORKFLOW.md:488:
  "digest-mismatched states are retained for manual recovery").
- `AbortResumes` with an operator who never passes `--discard-unverified` (`job_all` with `Discards`
  {FALSE} and fairness of that abort): an abort of an empty candidate that is interrupted after the
  worktree is gone is never finished by the same command (`job_lifecycle.py:1923`).
- `ControlsHarmless` (`dispatch_safe`): two controls between two polls (`CONTROL_POLL`, 0.2 s) end the
  attempt as `status_unavailable` (`agy_dispatch.py:4586`).
- `DriftIsNotSent` (`scoped_safe`): an edit of a selected path after the reconciliation was compared
  with the stage and before the derived scan is recorded with the candidate and sent by the next
  `continue` (`agy_dispatch.py:5501`), although "external drift or changed grants reject before another
  turn" (docs/PROJECT_LIFECYCLE_AND_VERIFICATION.md:286-287).
- `RepairGoesOn` (`scoped_safe`): a repair attempt that ends without a report keeps the candidate
  readable and `continue_available` set (`agy_dispatch.py:5787`), but its lineage is of the attempt
  before, so `_continue_from_facts` refuses it (1958), and a restart is refused because the
  worktree is no longer what was approved: attempts remain and none can be made.
- `LaunchKeepsTree` (`facade_safe`): an invocation whose preview failed looks for the dispatch
  directory for the last time before `git worktree remove` (`job_lifecycle.py:1733`); an approved
  invocation may claim it and start in between, and its worktree goes. The branch and job.json stay
  (`LaunchExact`), because each of their removals is preceded by another look.
- `InstalledRuns` (`notifier_safe`): after a kill and a login `install` reports "already installed and
  loaded" (`update_notifier.py:530`) while the ledger is in an earlier phase, and every `run` refuses.

Observations that no property states, because no document speaks of them or they need what the model
leaves out:

- A transaction that fails while it prepares leaves its backup directory, on which every later
  transaction of the job fails; a temporary file may outlive a rollback; ancestors made private on
  the way to a target stay so (`Reconciliation`: `backupDir`, `litter`, `mode`).
- What is put at an installed path and cannot be hashed (a symbolic link, a directory, a file writable
  by the group) makes the uninstall raise at every repetition (`update_notifier.py:281`), where any other
  replacement is preserved and reported; and a preserved property list that keeps the label is loaded at
  the next login, after which `status` and `install` refuse (522, 600) until another uninstall unloads it.
- `rollback-ready` persists nothing: killed after the removal it leaves a job "ready" without a
  worktree, which no command accepts. `verify-interrupted`, which a signal during the gate leaves, is
  refused by verify, cleanup and abort.
- `record-dispatch-failure` takes the candidate's digest before it takes the dispatch lock.
- Once an interrupted abort has persisted "abort-in-progress", a further attempt of the dispatch makes
  the recorded binding stale, and neither abort nor record-dispatch-failure accepts the job any more;
  `AbortResumes` excepts it.
- `finalize` is offered for an orphaned continuation and always refused, although
  `_candidate_actions_are_bound` keeps actions "as strict as their mutating commands".
- `restart` accepts a succeeded dispatch, although its message says "only a terminal unsuccessful
  dispatch can continue".
- A cleanup failure replaces the reason `permission_required`, after which `resume` is available
  although "denied_actions … stops provider reuse" (TROUBLESHOOTING.md).
- A scoped job's cancelled candidate that changed the worktree cannot be restarted
  (docs/PROJECT_WORKFLOW.md:270 offers "an explicit fresh restart"). A cancellation observed after
  the cleanup clears its failure, so a stage left behind shows only as "cancelled".
- A job.json that is gone while workflow.json is there (a rollback of a failed preview, or a kill
  before the discard) makes every later `run` refuse, although USAGE.md:173 promises that "a corrected
  invocation can retry safely". An invocation may discard a workflow.json that another made.
- A half-written file that `install` left is preserved by the uninstall as a replacement, and the
  next install then fails on it.
- A signal after the wrapper let go of its publication returns 70 with the receipt in place, and one
  while the gate is being started leaves the gate running (`NothingLeft` names both).

## Proofs

TLAPS proves, for every value of the constants that meets the named assumptions:

`ReconciliationProofs`, from `ConstantsAssumption` (finitely many paths, a transitive and
irreflexive ancestor relation, `Foreign` a content). `TypeInv` is `TypeOK` with the bounds of the
operation index. `ControlInv` says what the marker, the ledger and the backups are at each place of
a call; `TreeInv` how many operations have been applied there and which tree a decided marker
vouches for. Neither `Atomicity` nor `ReportTruthful` is inductive alone: that a marker may be
removed depends on the decision, which depends on the verification of every path, which depends
on how far the operations got. The three together are inductive (`SafeSpec`), and give
`TypeCorrect`, `AtomicityHolds`, `ReportTruthfulHolds`, `BackupsKeptHolds` and their conjunction
`RecoverableHolds`. Three more rest on these:
- `RollbackResumesHolds`. `ResumeInv` holds as long as nothing drifted or failed and the manifest
  creates nothing (`Alone`): every path of an undecided transaction is as the ledger bound it, as the
  ledger recorded it, as the active operation may leave it, or marked as being restored (`Known`);
  a restored path stays restored (`Back`); what exists lies in a directory (`Rooted`). A recovery
  refuses a path only when none of these is the case, or when a directory that it marked has not its
  mode (`Modes`): the one state a killed recovery leaves that the next one refuses, `HalfMade`.
- `ForeignPreservedHolds`. By `ForeignInv` an entry of another process is younger than every identity
  the ledger bound, so a comparison with a bound identity fails on it, and the window of a
  replacement never opens on it unless the ledger recorded it.
- `RefinesAtomicTree`: until another process writes the tree (from then on `AtomicTree` promises
  nothing), whatever is killed or fails, each step maps to a step of `AtomicTree` or to none. The
  marker opens the update (`Publish`), its
  status decides it (the last `Announce`, `VerifyRollback`), its removal closes it, and the tree
  changes only under a marker.

`JobLifecycleProofs`, from `ContentAssumption` and `BoundAssumption`. `IInv` is `TypeOK`, the
soundness of the state file against Git's reality (`FileInv`), and what holds at each place of each
command (`PlaceInv`): which approval it carries, whether it removed the worktree itself, and
that no attempt runs under an abort. It gives `TypeCorrect`, `DestructionIsExact`,
`TerminalTruthHolds` and the action property `EvidenceAlwaysKept`. `StatesAreAccepted` adds that every
state accepted by the validator is followed by one: `AcceptedInv` also needs that a verdict is bound
only to a candidate that was noted, and `IInv` for what a place may find in the file. `StateIsTrue` is the
conjunction the run checks. `EvidenceAlwaysKept` rests on `EvidenceInv`: a comparison that succeeded saw a
candidate held since the gate answered, and a command that binds evidence runs on a state without any.

`DispatchJobProofs`, from `DispatchAssumption` (at least one attempt, a lease of at least one tick,
no longer than the budget). Four properties are about a race between two processes, and none of
them is inductive alone. `IInv` has one part per question:
- `LockInv`: who holds the lifecycle lock, and which statuses the record can have meanwhile;
- `LiveInv`: a provider that lives and is no stray is that of the current attempt, and it is watched,
  or the record is active with no controller, or orphaned (`OneLive`); and whenever the provider of
  the current attempt may live, the record does not say how it ended (`AliveEnd`);
- `RecordInv` and `ReportInv`: a candidate keeps the worktree of its own provider, because from the
  reaping to the publication nobody writes the worktree but a stray, which needs `LiveInv`;
- `LeaseInv`: the controller's "deadline" agrees with the record's lease from the moment the clock
  stops, because no extension is possible after that;
- `ChecksInv` and `EndInv`: the action of a candidate is spent before its checks run, and what a
  cancelled record may say.

`LockNext` to `EndNext` show that every action keeps each part. They give `TypeCorrect`,
`AlwaysReaped`, `CandidateAlwaysTrue` and `BudgetAlwaysKept` (the conjunctions of the six theorems
before them), the action property `TerminalAlwaysStays`, and `RecordsAreAccepted`. The last needs
`FoundInv` beside `IInv`: what the controller found has a source exactly when there is a report, and
only a failed binding is called bad, so whatever it publishes agrees with itself. `RecordIsTrue` joins
it to `CandidateAlwaysTrue`. These are all the safety properties of `dispatch_safe`.

`ScopedStageProofs`, from `ScopeAssumption`, `BodiesAssumption` and `BoundsAssumption`. `SentIsRecorded`
is a chain of equalities made at different moments, and `IInv` has a link for each: under a repair
grant the bound content is the one last recorded (`BoundSealed`), so a scan that is covered finds
approved or recorded content (`ManifestOK`), and the stage is revalidated against it (`GivenOK`).
`Fresh` and `Reported` follow a stage of ours from its making to the record that accounts for it;
`Handled` says that a failure at the stage is on its way through the two steps of the cleanup, `Counted` that an attempt
being created is within the bound. The effect of each controller step is stated once, field by field,
in a lemma of its own (`CheckBaselineMoves` to `PublishMoves`), and the parts cite those. Theorems:
`TypeCorrect`, `SentIsAlwaysRecorded`, `StageIsAccounted`, `OthersAreKept`.

Two more theorems compare an attempt with what happened around it, and `JInv` carries them on top of
`IInv`. For `CandidateIsQuiet` it follows a worktree that nobody edited from the match with the
stage (`Matched`) over the candidate and the derived scan (`Taken`) to the record (`Kept`). For
`LaunchedAsRecorded` it follows an attempt nobody touched from the command that checked it
(`Eligible`, `Based`) over the record (`Queued`, `Unmade`) to the finished copy (`Copying`): each of
the controller's checks finds again what the command found. Both need that a lineage is older than
the attempt under way (`Aged`) and that a record is made only between two controllers (`Turns`).

`WorktreeScanProofs`, from `PathsAssumption` and `EditsAssumption`. Bindings only grow, so two equal
bindings pin the object between the two reads; the parts of the invariant say which objects each
pass has pinned, and up to which moment. The moment between the two collects lies inside every
interval, which makes what is accepted the state of that moment. Theorems: `TypeCorrect`,
`SweepsAreAtomic`, `SnapshotsAreAtomic`, `ScansAreAtomic`, `QuietIsAccepted`.

`WorkflowFacadeProofs`, from `RunsAssumption`, `TasksAssumption` and `BoundsAssumption`. Invocations are
numbered, and a job that an invocation made carries its number until job.json is gone (`Numbers`,
`Owners`); a worktree is that of the recorded job and has its branch (`Places`); once the dispatch
directory is claimed the removals of branch and job.json are disabled, and one invocation at a time
works in it (`Claims`); what is launched was shown, approved and measured again (`Approvals`);
`LockHeld` and `Makers` say who holds the lock and whose workflow.json it is. Theorems: `TypeCorrect`,
`LaunchIsExact`, `RollbackIsExact`.

`EvidenceReceiptProofs`, from `ReceiptAssumption`. Until a content is put back, contents only grow
(`EditGrows`), so two equal digests pin the candidate between them, although each is two reads:
`Between` relates every digest to the contents at its moments, under that condition, `Answers` says what the gate's line and code vouch for, `Owns` which files the wrapper
would remove at each place, `Calls` where each process can be. Theorems: `TypeCorrect`,
`ReceiptAlwaysHonest`, `NothingIsLeft`, `ForeignAlwaysKept`, `AcceptedIsVerified`.

`UpdateNotifierProofs`, from `NotifierAssumption`. `Owned` says which phases of ledger and tombstone go
with each place of a command; `Disowned` that a disowned installation is not loaded and has no
property list a login could load, and that another job under the label comes from a path the uninstall
reported or a list that came later; `Clean` that what the phases count as processed is settled; `Paired`
that the acknowledged bytes account for an open probe; `Recorded` that what was displayed is what
the result says. Theorems: `TypeCorrect`, `LoadedIsOwned`, `UninstallIsClean`, `AnswerIsClosed`,
`NoRepeatAfterKill` and their conjunction `CheckIsHonest`.

Every invariant and every action property that a passing run checks is stated by one of these
theorems, and so is the refinement. Only model-checked is liveness under fairness (`Resumes`,
`Ends`, `UninstallResumes`, `InterruptReturns`), which is beyond this prover: it has no
rules for `ENABLED`. What the violated runs and the observations name does not hold, and a
counterexample on a small instance is its proof.

No theorem has a hypothesis about the code beyond the named assumptions on the constants. The bounds of the runs (`MaxCalls`, `MaxTouches` and the
like) are arbitrary natural numbers in the theorems.

## What is not modelled

- Byte-level work: parsing, digests, bubblewrap arguments. Digests and identities are abstracted as
  said above, and parsers to the outcomes that their callers distinguish.
- Durability below the file system calls (fsync): a write that returned is there after a kill.
- Tampering with private files by the same user, beyond what `Drift`, `Edit`, `Meddle` and `Occupy` do.
- Limits of size and time where they only refuse.
- The components that `PROJECT.json` lists as `not_modelled`, each with its reason: containment,
  model selection and recommendation, policy, report, envelope validation, updates, CI helpers, the
  conformance runner, installers and repository hygiene. They are sequential or pure, or test
  tooling; what could be said of them in TLA+ would restate them.

## Plan

What would add most next:

1. The abstract specification of a dispatch (queued, running, one terminal record) with `DispatchJob`
   as its implementation, proved from `IInv` as `RefinesAtomicTree` is.
2. The advanced form of `run`, and the operator's own job.sh calls beside `WorkflowFacade`.
3. The rest of `validate_state` (`phase`, `assurance`, `next_action`) in `StateAccepted`.
