---------------------------- MODULE JobLifecycle ----------------------------
(***************************************************************************)
(* job_lifecycle.py: the private state file of one isolated job, and the   *)
(* commands that create its worktree and branch, judge its candidate and,  *)
(* with an operator's approval, destroy both.                              *)
(*                                                                         *)
(* One command runs at a time: StateStore takes LOCK_EX|LOCK_NB on the     *)
(* state directory and a second command gives up.  Every command is cut    *)
(* into the steps between which another actor may act, a signal may arrive *)
(* or the process may be killed.  The other actors are the dispatch        *)
(* controller (which writes the worktree while it holds the dispatch lock),*)
(* the user (who edits the worktree and moves the branch) and the operator *)
(* (who reads a state and approves a command with its SHA-256).            *)
(*                                                                         *)
(* The SHA-256 of the state is not kept as a value: the bytes chain a      *)
(* sequence number and the previous SHA, so they never recur, and it is    *)
(* enough to know whether they changed since they were shown (`fresh').    *)
(***************************************************************************)
EXTENDS Naturals

CONSTANTS
    Clean,      \* the worktree as Git checks it out from the base
    Edits,      \* other contents a worktree may hold
    Discards,   \* the values of --discard-unverified the operator uses
    MaxRuns,    \* dispatch attempts made in the worktree
    MaxFaults   \* signals, kills and Git failures, together

Contents == {Clean} \cup Edits
Trees == Contents \cup {"partial", "gone"}

ASSUME ContentAssumption ==
    Clean \notin Edits /\ {"partial", "gone", "moved", "none"} \cap Contents = {}
ASSUME BoundAssumption ==
    Discards \subseteq BOOLEAN /\ MaxRuns \in Nat /\ MaxFaults \in Nat

VARIABLES
    file,       \* job.json: the fields of the state the commands decide by
    tree,       \* what the worktree path holds
    registered, \* whether Git lists the worktree
    ref,        \* the job's branch
    dispatch,   \* the dispatch job: attempts made, and the last one's status
    shown,      \* the cleanup step in the state last shown to the operator
    fresh,      \* whether the state file still has the bytes that were shown
    cmd,        \* the command that holds the state lock
    at,         \* where it is
    noted,      \* the candidate digest it holds in memory
    verdict,    \* the gate's answer it holds in memory
    grant,      \* the cleanup step the operator had seen when approving it
    own,        \* whether this command itself removed the worktree
    held,       \* history: whether the worktree held the noted candidate at some
                \* moment since the gate answered
    faults

disk == <<file, tree, registered, ref>>
proc == <<cmd, at, noted, verdict, grant, own, held>>
view == <<shown, fresh>>
vars == <<disk, dispatch, view, proc, faults>>

Phases == {"absent", "initializing", "ready", "init-failed", "init-interrupted",
           "verifying", "verify-failed", "verify-interrupted",
           "verified-gate-passed", "verified-rejected", "verified-routed",
           "dispatch-failed", "cleanup-in-progress", "cleaned",
           "abort-in-progress", "aborted"}
CleanupSteps == {"none", "worktree-removed", "branch-removed"}
Verdicts == {"gate-passed", "rejected", "routed"}
Failures == {"none", "init-failed", "interrupted", "verify-failed",
             "dispatch-failed", "cleanup-failed"}
Digests == Trees \cup {"moved", "none"}
Places == {"none", "add", "ready", "gate", "publish", "bind", "accept", "lock",
           "reconcile", "check", "recheck", "remove", "removed", "ref", "delete", "deleted", "show",
           "fail", "giterror", "signalled", "report"}

(* A state file: the receipt binding is (verdict, digest), the dispatch      *)
(* binding (run, digest); "absent" stands for a path with no file.           *)
Files == [phase : Phases, step : CleanupSteps, verdict : Verdicts \cup {"none"},
          run : Nat, digest : Digests, failure : Failures]
Bare(phase, failure) ==
    [phase |-> phase, step |-> "none", verdict |-> "none", run |-> 0,
     digest |-> "none", failure |-> failure]
Absent == Bare("absent", "none")

Busy(c) == IF c = "abort" THEN "abort-in-progress" ELSE "cleanup-in-progress"
Terminal(c) == IF c = "abort" THEN "aborted" ELSE "cleaned"
Origin(c) == IF c = "abort" THEN "dispatch-failed" ELSE "verified-rejected"
Destroyers == {"cleanup", "abort"}

-----------------------------------------------------------------------------
(* _validate_phase_fields: what each phase lets the other fields be.  A state  *)
(* is refused when it is read and before it is written if it breaks them.      *)

Attempted == {"dispatch-failed", "abort-in-progress", "aborted"}
ReceiptOf(phase) ==
    CASE phase = "verified-gate-passed" -> "gate-passed"
      [] phase = "verified-routed"      -> "routed"
      [] phase \in {"verified-rejected", "cleanup-in-progress", "cleaned"} -> "rejected"
      [] OTHER                          -> "none"
StepsOf(phase) ==
    CASE phase \in {"cleanup-in-progress", "abort-in-progress"} -> {"none", "worktree-removed"}
      [] phase \in {"cleaned", "aborted"} -> {"branch-removed"}
      [] OTHER                            -> {"none"}
FailuresOf(phase) ==
    CASE phase \in {"init-failed", "init-interrupted"}     -> {"init-failed", "interrupted"}
      [] phase \in {"verify-failed", "verify-interrupted"} -> {"verify-failed", "interrupted"}
      [] phase = "dispatch-failed" -> {"dispatch-failed"}
      [] phase \in {"cleanup-in-progress", "abort-in-progress"}
                                  -> {"none", "interrupted", "cleanup-failed"}
      [] OTHER                    -> {"none"}

\* _validate_result_bindings: a binding names the candidate it was made for.
Bound(f) == f.verdict # "none" \/ f.run > 0 => f.digest # "none"
Consistent(f) ==
    /\ f.verdict = ReceiptOf(f.phase)
    /\ f.run > 0 <=> f.phase \in Attempted
    /\ f.step \in StepsOf(f.phase)
    /\ f.failure \in FailuresOf(f.phase)
    /\ Bound(f)

-----------------------------------------------------------------------------
(* Observations of Git and of the dispatch job. *)

\* validate_ready_state: one registered worktree, on the job's branch, at base.
Ready == tree \in Contents /\ registered /\ ref = "base"
\* candidate_state_digest covers the worktree and the commit HEAD points at.
Digest == IF ref = "base" THEN tree ELSE "moved"
\* candidate_state_is_empty: nothing committable, HEAD at base.
Empty == tree = Clean /\ ref = "base"
Removed == tree = "gone" /\ ~registered
DispatchAbsent == dispatch.run = 0
\* The dispatch lock is free and the dispatch state is the recorded failure.
DispatchBound == dispatch.status = "failed" /\ dispatch.run = file.run
\* Mutant: the approved SHA-256 is not compared.
ApprovedAny == TRUE

\* The three approvals match: job, candidate and the state's current SHA-256.
Approved == fresh

\* Mutant: a resumed command takes nothing from Git's reality.
ReconciledNothing(c) == file

\* _cleanup_reconcile: what Git's reality lets the state record.
Reconciled(c) ==
    LET step == IF file.step = "none" /\ Removed THEN "worktree-removed"
                                                 ELSE file.step
    IN  IF step = "worktree-removed" /\ ref = "absent"
        THEN [file EXCEPT !.step = "branch-removed", !.phase = Terminal(c),
                          !.failure = "none"]
        ELSE [file EXCEPT !.step = step]
\* Mutant: the failure is noted in a fresh state.
FailedAfresh(f, c, failure) ==
    IF f.phase = Busy(c) THEN [Bare(f.phase, failure) EXCEPT !.step = f.step] ELSE f

Failed(f, c, failure) ==
    IF f.phase = Busy(c) THEN [f EXCEPT !.failure = failure] ELSE f

-----------------------------------------------------------------------------
(* The state file and the running command. *)

Init ==
    /\ file = Absent /\ tree = "gone" /\ registered = FALSE /\ ref = "absent"
    /\ dispatch = [run |-> 0, status |-> "none"]
    /\ shown = "none" /\ fresh = FALSE
    /\ cmd = "none" /\ at = "none" /\ noted = "none" /\ verdict = "none"
    /\ grant = "none" /\ own = FALSE /\ held = FALSE
    /\ faults = 0

\* StateStore.update (and create): new bytes, so what was shown is out of date.
Write(f) == file' = f /\ fresh' = FALSE
KeepFile == UNCHANGED <<file, fresh>>
Git == <<tree, registered, ref>>
Goto(p) == at' = p /\ UNCHANGED <<cmd, noted, verdict, grant, own, held>>
End == /\ cmd' = "none" /\ at' = "none" /\ noted' = "none" /\ verdict' = "none"
       /\ grant' = "none" /\ own' = FALSE /\ held' = FALSE
Begin(c, p, d) ==
    /\ cmd = "none"
    /\ cmd' = c /\ at' = p /\ noted' = d /\ verdict' = "none"
    /\ grant' = shown /\ own' = FALSE /\ held' = FALSE
Fault == faults < MaxFaults /\ faults' = faults + 1
Quiet == UNCHANGED <<dispatch, shown, faults>>
Only(c, p) == cmd \in c /\ at = p

\* output_state: the operator sees the state and its SHA-256.  At "report" it
\* runs in an exception handler, where no signal is caught.
Show ==
    /\ at \in {"show", "report"}
    /\ shown' = file.step /\ fresh' = (file # Absent)
    /\ End
    /\ UNCHANGED <<disk, dispatch, faults>>

-----------------------------------------------------------------------------
(* init *)

StartInit ==
    /\ file = Absent /\ ref = "absent" /\ tree = "gone"
    /\ Begin("init", "add", "none")
    /\ Write(Bare("initializing", "none"))
    /\ UNCHANGED Git /\ Quiet

\* What a `git worktree add -b' that was stopped may leave behind.
AddCut ==
    \/ UNCHANGED Git
    \/ ref' = "base" /\ tree' \in {"gone", "partial", Clean} /\ registered' \in BOOLEAN

AddWorktree ==
    /\ Only({"init"}, "add")
    /\ tree' = Clean /\ registered' = TRUE /\ ref' = "base"
    /\ Goto("ready") /\ KeepFile /\ Quiet

RecordReady ==
    /\ Only({"init"}, "ready")
    /\ IF Ready
       THEN Write(Bare("ready", "none")) /\ Goto("show")
       ELSE Write(Bare("init-failed", "init-failed")) /\ Goto("report")
    /\ UNCHANGED Git /\ Quiet

-----------------------------------------------------------------------------
(* verify *)

StartVerify ==
    /\ file.phase \in {"ready", "verify-failed"}
    /\ Ready
    /\ Begin("verify", "gate", "none")
    /\ Write(Bare("verifying", "none"))
    /\ UNCHANGED Git /\ Quiet

\* Mutant: a refused verify leaves the state as it is.
RefuseVerifyOnly ==
    /\ cmd = "none" /\ file.phase = "verifying"
    /\ UNCHANGED vars

\* The handler of a refused verify turns a state that a killed verify left
\* "verifying" into one that may be verified again.
RefuseVerify ==
    /\ cmd = "none" /\ file.phase = "verifying"
    /\ Write(Bare("verify-failed", "verify-failed"))
    /\ UNCHANGED <<tree, registered, ref, proc>> /\ Quiet

\* verify-job.sh takes the candidate digest it ends on,
GateFinal ==
    /\ Only({"verify"}, "gate")
    /\ noted' = Digest /\ at' = "publish"
    /\ UNCHANGED <<cmd, verdict, grant, own, held>>
    /\ KeepFile /\ UNCHANGED Git /\ Quiet

\* publishes a receipt that names it, and exits with its answer.
GateDecides(v) ==
    /\ Only({"verify"}, "publish")
    /\ verdict' = v /\ at' = "bind" /\ held' = (Digest = noted)
    /\ UNCHANGED <<cmd, noted, grant, own>>
    /\ KeepFile /\ UNCHANGED Git /\ Quiet

\* A gate that failed after it published is refused ("left an unbound receipt").
GateFails ==
    /\ cmd = "verify" /\ at \in {"gate", "publish"}
    /\ Write(Bare("verify-failed", "verify-failed"))
    /\ Goto("show") \/ (at = "publish" /\ End)
    /\ UNCHANGED Git /\ Quiet

\* Mutant: the candidate is not looked at again once the gate has answered.
CompareNothing ==
    /\ Only({"verify"}, "bind")
    /\ Goto("accept")
    /\ KeepFile /\ UNCHANGED Git /\ Quiet

\* The receipt must name the candidate that is there now;
CompareReceipt ==
    /\ Only({"verify"}, "bind")
    /\ Digest = noted
    /\ Goto("accept")
    /\ KeepFile /\ UNCHANGED Git /\ Quiet

ReceiptUnbound ==
    /\ Only({"verify"}, "bind")
    /\ Digest # noted
    /\ Write(Bare("verify-failed", "verify-failed"))
    /\ End /\ UNCHANGED Git /\ Quiet

\* Mutant: the verdict is stored as the phase.
JudgedRaw(v) == v

Judged(v) == CASE v = "gate-passed" -> "verified-gate-passed"
               [] v = "routed"      -> "verified-routed"
               [] OTHER             -> "verified-rejected"

\* what is written after that comparison no longer looks at it.
BindReceipt ==
    /\ Only({"verify"}, "accept")
    /\ Write([Bare(Judged(verdict), "none") EXCEPT !.verdict = verdict, !.digest = noted])
    /\ Goto("show") /\ UNCHANGED Git /\ Quiet

-----------------------------------------------------------------------------
(* record-dispatch-failure *)

StartRecord ==
    /\ file.phase = "ready" /\ Approved /\ Ready
    /\ Begin("record", "lock", Digest)
    /\ KeepFile /\ UNCHANGED Git /\ Quiet

\* _dispatch_binding reads the dispatch state under the controller's lock.
BindDispatch ==
    /\ Only({"record"}, "lock")
    /\ dispatch.status = "failed"
    /\ Write([Bare("dispatch-failed", "dispatch-failed")
                EXCEPT !.run = dispatch.run, !.digest = noted])
    /\ Goto("show") /\ UNCHANGED Git /\ Quiet

DispatchUnbound ==
    /\ Only({"record"}, "lock")
    /\ dispatch.status # "failed"
    /\ End /\ KeepFile /\ UNCHANGED Git /\ Quiet

-----------------------------------------------------------------------------
(* rollback-ready, cleanup and abort: the three commands that destroy. *)

StartRollback ==
    /\ file.phase = "ready" /\ Approved /\ DispatchAbsent /\ Ready /\ Empty
    /\ Begin("rollback", "recheck", Clean)
    /\ KeepFile /\ UNCHANGED Git /\ Quiet

\* Mutant: a resumed command does not reconcile first.
EntryAgain(c, allowed) == IF Approved /\ allowed THEN "check" ELSE "fail"

Entry(c, allowed) ==
    IF ~(Approved /\ allowed) THEN "fail"
    ELSE IF file.phase = Busy(c) THEN "reconcile" ELSE "check"

StartCleanup ==
    /\ file.phase \in {"verified-rejected", "cleanup-in-progress"}
    /\ Begin("cleanup", Entry("cleanup", TRUE), file.digest)
    /\ KeepFile /\ UNCHANGED Git /\ Quiet

\* The dispatch lock is taken before the binding is read, and held to the end.
StartAbort(discard) ==
    /\ file.phase \in {"dispatch-failed", "abort-in-progress"}
    /\ Begin("abort", Entry("abort", DispatchBound /\ (discard \/ Empty)), file.digest)
    /\ KeepFile /\ UNCHANGED Git /\ Quiet

\* A resumed command records what Git shows; if that changed the bytes, the
\* approval is spent and the new state is only shown.
Reconcile ==
    /\ Only(Destroyers, "reconcile")
    /\ LET f == Reconciled(cmd) IN
       IF f = file
       THEN KeepFile /\ Goto(IF file.step = "none" THEN "check" ELSE "ref")
       ELSE Write(f) /\ Goto("show")
    /\ UNCHANGED Git /\ Quiet

Untouched == Ready /\ tree = noted

\* Mutant: progress is not persisted before the removal.
CheckOnly ==
    /\ Only(Destroyers, "check")
    /\ Goto(IF Untouched THEN "recheck" ELSE "fail")
    /\ KeepFile /\ UNCHANGED Git /\ Quiet

\* Mutant: the failure that was recorded stays when the destruction starts.
CheckKeepsFailure ==
    /\ Only(Destroyers, "check")
    /\ IF Untouched
       THEN /\ Goto("recheck")
            /\ IF file.phase = Busy(cmd) THEN KeepFile
               ELSE Write([file EXCEPT !.phase = Busy(cmd)])
       ELSE Goto("fail") /\ KeepFile
    /\ UNCHANGED Git /\ Quiet

Check ==
    /\ Only(Destroyers, "check")
    /\ IF Untouched
       THEN /\ Goto("recheck")
            /\ IF file.phase = Busy(cmd) THEN KeepFile
               ELSE Write([file EXCEPT !.phase = Busy(cmd), !.failure = "none"])
       ELSE Goto("fail") /\ KeepFile
    /\ UNCHANGED Git /\ Quiet

\* Mutant: the candidate is compared once, before progress is persisted.
RecheckReady ==
    /\ Only(Destroyers, "recheck")
    /\ Goto(IF Ready THEN "remove" ELSE "fail")
    /\ KeepFile /\ UNCHANGED Git /\ Quiet

Recheck ==
    /\ Only(Destroyers, "recheck")
    /\ Goto(IF Untouched THEN "remove" ELSE "fail")
    /\ KeepFile /\ UNCHANGED Git /\ Quiet

RecheckRollback ==
    /\ Only({"rollback"}, "recheck")
    /\ Goto(IF Untouched /\ DispatchAbsent THEN "remove" ELSE "fail")
    /\ KeepFile /\ UNCHANGED Git /\ Quiet

\* `git worktree remove --force', whole or stopped part-way.
RemovalCut ==
    \/ UNCHANGED <<tree, registered>>
    \/ tree' \in Edits \cup {"partial"} /\ registered' = TRUE
    \/ tree' = "gone" /\ registered' \in BOOLEAN

RemoveWorktree ==
    /\ at = "remove"
    /\ tree' = "gone" /\ registered' = FALSE
    /\ own' = TRUE /\ at' = "removed"
    /\ UNCHANGED <<cmd, noted, verdict, grant, held>>
    /\ KeepFile /\ UNCHANGED ref /\ Quiet

RecordRemoval ==
    /\ at = "removed"
    /\ IF cmd = "rollback" THEN KeepFile
       ELSE Write([file EXCEPT !.step = "worktree-removed"])
    /\ Goto("ref") /\ UNCHANGED Git /\ Quiet

CheckRef ==
    /\ at = "ref"
    /\ Goto(IF /\ Removed /\ ref = "base"
               /\ cmd = "rollback" => DispatchAbsent
            THEN "delete" ELSE "fail")
    /\ KeepFile /\ UNCHANGED Git /\ Quiet

\* `git update-ref -d REF BASE' compares before it deletes.
DeleteRef ==
    /\ at = "delete"
    /\ ref = "base" /\ ref' = "absent"
    /\ Goto("deleted") /\ KeepFile /\ UNCHANGED <<tree, registered>> /\ Quiet

\* Mutant: the exit status of update-ref is ignored.
DeleteIgnored ==
    /\ at = "delete"
    /\ ref # "base"
    /\ Goto("deleted") /\ KeepFile /\ UNCHANGED Git /\ Quiet

DeleteRefused ==
    /\ at = "delete"
    /\ ref # "base"
    /\ Goto("fail") /\ KeepFile /\ UNCHANGED Git /\ Quiet

\* rollback-ready ends by deleting the state file if its bytes are unchanged.
Finish ==
    /\ at = "deleted"
    /\ IF cmd = "rollback"
       THEN (IF DispatchAbsent THEN Write(Absent) ELSE KeepFile)
       ELSE Write([file EXCEPT !.step = "branch-removed", !.phase = Terminal(cmd),
                               !.failure = "none"])
    /\ IF cmd = "rollback" THEN End ELSE Goto("show")
    /\ UNCHANGED Git /\ Quiet

\* Mutant: the failed command tries again by itself.
FailAgain ==
    /\ at = "fail"
    /\ Goto(IF cmd \in Destroyers THEN "check" ELSE "recheck")
    /\ KeepFile /\ UNCHANGED Git /\ Quiet

\* except JobError: reconcile, then note the failure; the error is raised.
Fail ==
    /\ at = "fail"
    /\ IF cmd \in Destroyers /\ file.phase = Busy(cmd)
       THEN Write(Failed(Reconciled(cmd), cmd, "cleanup-failed"))
       ELSE KeepFile
    /\ End /\ UNCHANGED Git /\ Quiet

\* except GitError: an observation that failed proves nothing.
FailGit ==
    /\ at = "giterror"
    /\ IF cmd \in Destroyers /\ file.phase = Busy(cmd)
       THEN Write(Failed(file, cmd, "cleanup-failed"))
       ELSE KeepFile
    /\ End /\ UNCHANGED Git /\ Quiet

\* except JobSignal: reconcile with signals blocked, and show the state.
Signalled ==
    /\ at = "signalled"
    /\ IF file.phase = Busy(cmd)
       THEN Write(Failed(Reconciled(cmd), cmd, "interrupted"))
       ELSE KeepFile
    /\ Goto("report") /\ UNCHANGED Git /\ Quiet

-----------------------------------------------------------------------------
(* Faults: Git fails, a signal arrives, the process is killed. *)

Destroying == {"rollback", "cleanup", "abort"}

\* The Git child of the current step was stopped at some point of its work.
ChildCut ==
    CASE at = "add"    -> AddCut
      [] at = "remove" -> RemovalCut /\ UNCHANGED ref
      [] at = "delete" -> /\ (UNCHANGED ref \/ (ref = "base" /\ ref' = "absent"))
                          /\ UNCHANGED <<tree, registered>>
      [] OTHER         -> UNCHANGED Git

\* init: `worktree add' exits non-zero part-way (shown inside the `try'), or a
\* Git command times out or cannot be read (shown by the handler).
AddFails ==
    /\ cmd = "init" /\ at \in {"add", "ready"}
    /\ Fault /\ ChildCut
    /\ Write(Bare("init-failed", "init-failed"))
    /\ Goto("report") \/ (at = "add" /\ Goto("show"))
    /\ UNCHANGED <<dispatch, shown>>

\* A Git command of a destroying command times out or cannot be read.
GitFails ==
    /\ cmd \in Destroying
    /\ at \in {"reconcile", "check", "recheck", "remove", "removed", "ref",
               "delete", "deleted"}
    /\ Fault /\ ChildCut
    /\ Goto("giterror") /\ KeepFile /\ UNCHANGED <<dispatch, shown>>

\* The removal or the deletion itself reports an error.
GitRefuses ==
    /\ cmd \in Destroying /\ at \in {"remove", "delete"}
    /\ Fault
    /\ Goto("fail") /\ KeepFile /\ UNCHANGED Git /\ UNCHANGED <<dispatch, shown>>

\* verify: the receipt or the candidate cannot be read, or the state not written.
BindFails ==
    /\ cmd = "verify" /\ at \in {"bind", "accept"}
    /\ Fault
    /\ Write(Bare("verify-failed", "verify-failed"))
    /\ End /\ UNCHANGED Git /\ UNCHANGED <<dispatch, shown>>

\* The first signal: what it leaves depends on which `try' it lands in.
SignalInit ==
    /\ cmd = "init" /\ at \in {"add", "ready", "show"}
    /\ Fault /\ ChildCut
    /\ Write(Bare("init-interrupted", "interrupted"))
    /\ Goto("report") /\ UNCHANGED <<dispatch, shown>>

SignalGate ==
    /\ cmd = "verify" /\ at \in {"gate", "publish"}
    /\ Fault
    /\ Write(Bare("verify-interrupted", "interrupted"))
    /\ Goto("report") /\ UNCHANGED Git /\ UNCHANGED <<dispatch, shown>>

SignalDestroyer ==
    /\ cmd \in Destroyers /\ at \notin {"fail", "giterror", "signalled", "report"}
    /\ Fault /\ ChildCut
    /\ Goto("signalled") /\ KeepFile /\ UNCHANGED <<dispatch, shown>>

\* Git fails while the signal's handler reconciles: the state stays as it is.
HandlerFails ==
    /\ at = "signalled"
    /\ Fault
    /\ Goto("report") /\ KeepFile /\ UNCHANGED Git /\ UNCHANGED <<dispatch, shown>>

\* SIGKILL, or a signal that no handler of the command expects.
Stop ==
    /\ cmd # "none"
    /\ Fault /\ ChildCut
    /\ End /\ KeepFile /\ UNCHANGED <<dispatch, shown>>

-----------------------------------------------------------------------------
(* The other actors. *)

Others == UNCHANGED <<proc, faults>>
\* A change of the candidate may bring back the one that the gate answered about.
Hold ==
    /\ held' = (held \/ (at \in {"bind", "accept"} /\ Digest' = noted))
    /\ UNCHANGED <<cmd, at, noted, verdict, grant, own, faults>>

\* status: the operator reads the state and its SHA-256.
Look ==
    /\ cmd = "none" /\ file # Absent /\ ~fresh
    /\ shown' = file.step /\ fresh' = TRUE
    /\ UNCHANGED <<disk, dispatch>> /\ Others

\* The user edits at any time but between the last check and the removal
\* (finite snapshots are observations); the controller's worker at any time.
Edit(c) ==
    /\ tree \in Contents
    /\ dispatch.status = "running" \/ at # "remove"
    /\ tree' = c
    /\ UNCHANGED <<file, registered, ref, dispatch, view>> /\ Hold

MoveBranch ==
    /\ ref = "base" /\ ref' = "moved"
    /\ UNCHANGED <<file, tree, registered, dispatch, view>> /\ Hold

\* The user removes by hand what a stopped `git worktree' left unusable.
Repair ==
    /\ cmd = "none"
    /\ tree = "partial" \/ (tree = "gone" /\ registered)
    /\ tree' = "gone" /\ registered' = FALSE
    /\ UNCHANGED <<file, ref, dispatch, view>> /\ Others

\* Mutant: abort lets go of the dispatch lock once it has read the binding.
StartDispatchUnlocked ==
    /\ dispatch.status # "running" /\ dispatch.run < MaxRuns
    /\ tree \in Contents
    /\ dispatch' = [run |-> dispatch.run + 1, status |-> "running"]
    /\ UNCHANGED <<disk, view>> /\ Others

\* A controller starts an attempt once it has the dispatch lock.
StartDispatch ==
    /\ dispatch.status # "running" /\ dispatch.run < MaxRuns
    /\ tree \in Contents
    /\ cmd # "abort"
    /\ dispatch' = [run |-> dispatch.run + 1, status |-> "running"]
    /\ UNCHANGED <<disk, view>> /\ Others

EndDispatch(status) ==
    /\ dispatch.status = "running"
    /\ dispatch' = [dispatch EXCEPT !.status = status]
    /\ UNCHANGED <<disk, view>> /\ Others

-----------------------------------------------------------------------------
Step ==
    \/ AddWorktree \/ RecordReady
    \/ GateFinal \/ (\E v \in Verdicts : GateDecides(v)) \/ GateFails
    \/ CompareReceipt \/ BindReceipt \/ ReceiptUnbound
    \/ BindDispatch \/ DispatchUnbound
    \/ Reconcile \/ Check \/ Recheck \/ RecheckRollback \/ RemoveWorktree
    \/ RecordRemoval \/ CheckRef \/ DeleteRef \/ DeleteRefused \/ Finish
    \/ Fail \/ FailGit \/ Signalled \/ Show
Commands ==
    \/ StartInit \/ StartVerify \/ RefuseVerify \/ StartRecord \/ StartRollback \/ StartCleanup
    \/ \E d \in Discards : StartAbort(d)
Faults ==
    \/ AddFails \/ GitFails \/ GitRefuses \/ BindFails
    \/ SignalInit \/ SignalGate \/ SignalDestroyer \/ HandlerFails \/ Stop
Environment ==
    \/ Look \/ (\E c \in Contents : Edit(c)) \/ MoveBranch \/ Repair
    \/ StartDispatch \/ (\E s \in {"failed", "completed"} : EndDispatch(s))

Next == Step \/ Commands \/ Faults \/ Environment
Spec == Init /\ [][Next]_vars

-----------------------------------------------------------------------------
(* Properties *)

TypeOK ==
    /\ file \in Files
    /\ tree \in Trees /\ registered \in BOOLEAN /\ ref \in {"absent", "base", "moved"}
    /\ dispatch \in [run : Nat, status : {"none", "running", "failed", "completed"}]
    /\ shown \in CleanupSteps /\ fresh \in BOOLEAN
    /\ cmd \in {"none", "init", "verify", "record", "rollback", "cleanup", "abort"}
    /\ at \in Places /\ (cmd = "none" <=> at = "none")
    /\ noted \in Digests /\ verdict \in Verdicts \cup {"none"}
    /\ grant \in CleanupSteps /\ own \in BOOLEAN /\ held \in BOOLEAN
    /\ faults \in Nat

\* Progress is persisted before each destructive step: when cleanup or abort is
\* about to remove the worktree, the state says so and holds the evidence that
\* condemns the candidate; when it is about to delete the branch, the state
\* records that the worktree is gone, and it is (command_cleanup, command_abort).
ProgressFirst ==
    cmd \in Destroyers =>
        /\ at = "remove" => /\ file.phase = Busy(cmd) /\ file.step = "none"
                            /\ cmd = "cleanup" => file.verdict = "rejected"
                            /\ cmd = "abort" => file.run > 0
        /\ at = "delete" => /\ file.phase = Busy(cmd)
                            /\ file.step = "worktree-removed" /\ Removed

\* An approval is never spent twice: the branch is deleted either by the command
\* that removed the worktree itself, or under an approval given after the
\* operator was shown that the worktree was gone.
ApprovalUnspent ==
    at = "delete" /\ cmd \in Destroyers => own \/ grant = "worktree-removed"

\* The worktree abort removes holds exactly the candidate recorded with the
\* failed dispatch: no controller writes it meanwhile, because abort holds the
\* dispatch lock from before its first check until it ends.
AbortExact == cmd = "abort" /\ at = "remove" => tree = file.digest

\* Every command that removes a worktree removes the candidate it compared, as
\* long as no controller ever wrote it.
RemovalExact == at = "remove" /\ dispatch.run = 0 => tree = noted

\* What cleanup, abort and rollback-ready destroy was condemned, recorded and
\* approved: progress is persisted before each destructive step, no approval is
\* spent twice, and the worktree that goes is the one that was compared.
DestructionExact == ProgressFirst /\ ApprovalUnspent /\ AbortExact /\ RemovalExact

\* The same for cleanup, with a controller about: "digest-mismatched states are
\* retained for manual recovery" (docs/PROJECT_WORKFLOW.md).  Not kept: see the
\* observations in README.md.
CleanupExact == cmd = "cleanup" /\ at = "remove" => tree = file.digest

\* A state says that a job is gone (rolled back, cleaned or aborted) only when
\* its worktree, its registration and its branch are.
TerminalTruth ==
    file.phase \in {"absent", "cleaned", "aborted"} => Removed /\ ref = "absent"

\* No command is refused a write half-way through a destruction, and no state
\* it leaves is refused by the next one: whatever was interrupted, failed or
\* reconciled, the fields of job.json agree with its phase
\* (_validate_phase_fields, in StateStore.load and StateStore.update).
StateAccepted == file # Absent => Consistent(file)

\* job.json can be relied on: it can be read, and an end it records has come,
\* wherever a destruction was interrupted.
StateTrue == TerminalTruth /\ StateAccepted

\* A verdict is only bound to a candidate that the worktree held at some moment
\* after the gate answered: an edit made while the gate takes its last digest,
\* publishes and exits is never covered by it.  (An edit between that comparison
\* and the write is not seen, job_lifecycle.py:1393-1403; later commands compare.)
VerdictHeld ==
    [][file'.verdict # file.verdict => file'.verdict = "none" \/ held]_vars

\* The evidence that condemns or clears a candidate, a receipt or a failed
\* dispatch, is never dropped or exchanged once it is bound: no handler, failure,
\* reconciliation or later command changes it.
EvidenceStays ==
    [][file.digest # "none" =>
        /\ file'.verdict = file.verdict
        /\ file'.run = file.run
        /\ file'.digest = file.digest]_vars

\* What decides over the candidate is about that candidate and stays.
EvidenceKept == VerdictHeld /\ EvidenceStays

\* An operator who reads the state, approves it, in the end with
\* --discard-unverified, and repairs what a stopped Git
\* left, again and again; and commands that get to take their steps.
Fairness ==
    /\ WF_vars(Step)
    /\ SF_vars(Look) /\ SF_vars(Repair)
    /\ SF_vars(fresh /\ StartCleanup)
    /\ SF_vars(fresh /\ TRUE \in Discards /\ StartAbort(TRUE))
    /\ WF_vars(RefuseVerify)
FairSpec == Spec /\ Fairness

\* Every command returns.
CommandsReturn == cmd # "none" ~> cmd = "none"

\* The candidate is no longer the one the state condemned.
Drifted == ref = "moved" \/ (tree \in Contents /\ tree # file.digest)

\* A cleanup that was interrupted anywhere is finished by fresh commands,
\* unless the candidate or the branch drifted.
CleanupResumes ==
    file.phase = "cleanup-in-progress" ~> (file.phase = "cleaned" \/ Drifted)

\* The same for the abort of a candidate that was empty when it was recorded
\* ("interrupted-action recovery", docs/REPO_MAP.md), unless a later attempt
\* made the recorded dispatch stale.
AbortResumes ==
    (file.phase = "abort-in-progress" /\ file.digest = Clean)
        ~> (file.phase = "aborted" \/ Drifted \/ ~DispatchBound)

\* A verify that was killed leaves a job that can be verified again: the next
\* verify refuses the state "verifying" and turns it into "verify-failed".  (One
\* that a signal stopped is recorded as "verify-interrupted", which every command
\* but status refuses: it is not finished by fresh commands.)
KilledVerifyReturns ==
    (file.phase = "verifying" /\ cmd = "none") ~> file.phase = "verify-failed"

\* Every command returns; a cleanup or abort that was interrupted is finished by
\* fresh approved commands, and a job whose verify was killed can be verified again.
Resumes == CommandsReturn /\ CleanupResumes /\ AbortResumes /\ KilledVerifyReturns
=============================================================================
