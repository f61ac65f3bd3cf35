--------------------------- MODULE WorkflowFacade ---------------------------
(***************************************************************************)
(* `workflow.sh run' in its ordinary form: several invocations for one job *)
(* ID that share one directory, the job root.  An invocation looks for     *)
(* job.json; if there is none it has `job.sh init' make the worktree, the  *)
(* branch and job.json.  It then previews the worktree, binds the preview  *)
(* in workflow.json (or compares it with what is bound), and, given the    *)
(* operator's approval, hands over to agy-worker.sh, which checks the      *)
(* record, claims the dispatch directory with one mkdir, selects a model,  *)
(* previews the worktree again, matches the record, and starts the         *)
(* dispatcher.  When that fails before a dispatch directory exists, the    *)
(* invocation that made the job takes it down again with `job.sh           *)
(* rollback-ready' and then discards workflow.json.                        *)
(*                                                                         *)
(* The flock on the job root is held only around the preview, during init  *)
(* and rollback-ready, and around the discard: agy-worker.sh works without *)
(* it.  Invocations interleave between any two of the steps below, may be  *)
(* killed (with or without their child), and the worktree is edited by     *)
(* others.                                                                 *)
(*                                                                         *)
(* Abstracted: a preview is one read of the worktree (what makes it one is *)
(* module WorktreeScan); a digest is what it covers; every option of the   *)
(* launch but the content is the `task'; the base commit and the           *)
(* repository do not change.  Left out: the advanced form of `run', which  *)
(* has no job to make or take down, and the operator's own job.sh calls.   *)
(***************************************************************************)
EXTENDS Naturals, FiniteSets

CONSTANTS Runs,         \* processes that can run `workflow.sh run'
          NoRun,        \* the holder of a free lock
          Tasks,        \* a task together with every launch option
          NoTask,       \* the task of no authority
          MaxContent,   \* worktree contents are 0 .. MaxContent, 0 the base commit's
          MaxCalls,     \* bound on invocations
          MaxEdits,     \* bound on edits of the worktree
          MaxKills      \* bound on kills

ASSUME RunsAssumption == NoRun \notin Runs
ASSUME TasksAssumption == NoTask \notin Tasks
ASSUME BoundsAssumption == {MaxContent, MaxCalls, MaxEdits, MaxKills} \subseteq Nat

VARIABLES
  job,       \* job.json: its phase, and the invocation whose init made it
  tree,      \* the worktree: the invocation that made it (0: absent), its content
  ref,       \* the branch: "none", or "base" when it is there
  facade,    \* workflow.json: its maker (0: absent), the job and worktree it binds, the authority
  dir,       \* the dispatch directory: "none", "made", or "started"
  lock,      \* the holder of the flock on the job root
  run,       \* what each process is doing
  shown,     \* authorities an operator has been shown and may approve
  launches,  \* the dispatches started: by which call, of which authority, approved as what
  calls, edits, kills

vars == <<job, tree, ref, facade, dir, lock, run, shown, launches, calls, edits, kills>>

-----------------------------------------------------------------------------
(* What the job root can hold.                                             *)

Authority(k, t) == [content |-> k, task |-> t]
NoAuthority == Authority(0, NoTask)
Contents == 0 .. MaxContent
Authorities == [content : Contents, task : Tasks]

NoJob == [phase |-> "none", gen |-> 0]
NoTree == [gen |-> 0, content |-> 0]
NoFacade == [id |-> 0, job |-> 0, tree |-> 0, authority |-> NoAuthority]

InitPcs == {"init", "adding", "readying"}
LaunchPcs == {"check", "mkdir", "select", "repreview", "match", "launch"}
UndoPcs == {"undo-lock", "undo-inspect", "undo-tree", "undo-ref", "undo-state"}
\* Steps taken by a child process that survives the invocation alone.
ChildPcs == InitPcs \union LaunchPcs \union UndoPcs
Pcs == ChildPcs \union {"idle", "snapshot", "open", "preview", "bind", "failed",
                        "undo-read", "discard"}

Idle == [pc |-> "idle", call |-> 0, task |-> NoTask, approval |-> NoAuthority,
         made |-> "no", job |-> 0, bound |-> NoFacade, found |-> "no",
         seen |-> NoAuthority, owns |-> 0, alone |-> "no"]

Init == /\ job = NoJob /\ tree = NoTree /\ ref = "none" /\ facade = NoFacade /\ dir = "none"
        /\ lock = NoRun
        /\ run = [p \in Runs |-> Idle]
        \* The digest covers nothing of an earlier job of the same ID but its paths, so an
        \* approval of the base commit's content outlives that job.
        /\ shown = {Authority(0, t) : t \in Tasks}
        /\ launches = {}
        /\ calls = 0 /\ edits = 0 /\ kills = 0

Put(p, r) == run' = [run EXCEPT ![p] = r]
\* The end of a child process: an invocation that was killed does not go on.
Resume(p, r) == Put(p, IF run[p].alone = "yes" THEN Idle ELSE r)
At(p, pc) == run[p].pc = pc
To(p, pc) == [run[p] EXCEPT !.pc = pc]

\* job.json is "ready" and the worktree is the one whose identity it records.
JobBound == job.phase = "ready" /\ tree.gen = job.gen
Ready == JobBound /\ ref = "base"

-----------------------------------------------------------------------------
(* Finding or making the job.                                              *)

Start(p, pc, t, a) ==
  Put(p, [run[p] EXCEPT !.pc = pc, !.call = calls + 1, !.task = t, !.approval = a])

\* No job.json: the other paths must be free too, and init is run.
Begin(p, t, a) ==
  /\ At(p, "idle") /\ calls < MaxCalls
  /\ calls' = calls + 1
  /\ \/ job = NoJob /\ facade = NoFacade /\ tree = NoTree /\ Start(p, "init", t, a)
     \/ job = NoJob /\ (facade # NoFacade \/ tree # NoTree) /\ UNCHANGED run
     \/ job # NoJob /\ Start(p, "snapshot", t, a)
  /\ UNCHANGED <<job, tree, ref, facade, dir, lock, shown, launches, edits, kills>>

\* init takes the lock and creates job.json exclusively before it makes anything.
InitRecord(p) ==
  /\ At(p, "init")
  /\ \/ /\ lock = NoRun /\ tree = NoTree /\ job = NoJob
        /\ lock' = p
        /\ job' = [phase |-> "initializing", gen |-> run[p].call]
        /\ Put(p, To(p, "adding"))
     \/ /\ (lock # NoRun \/ tree # NoTree \/ job # NoJob)
        /\ Put(p, Idle) /\ UNCHANGED <<lock, job>>
  /\ UNCHANGED <<tree, ref, facade, dir, shown, launches, calls, edits, kills>>

\* `git worktree add -b', which may fail with only the branch made, or nothing.
InitAdd(p) ==
  /\ At(p, "adding")
  /\ \/ /\ ref = "none" /\ ref' = "base" /\ tree' = [gen |-> run[p].call, content |-> 0]
        /\ Put(p, To(p, "readying")) /\ UNCHANGED <<job, lock>>
     \/ /\ ref' \in {ref, "base"} /\ UNCHANGED tree
        /\ job' = [job EXCEPT !.phase = "failed"]
        /\ lock' = NoRun /\ Put(p, Idle)
  /\ UNCHANGED <<facade, dir, shown, launches, calls, edits, kills>>

InitReady(p) ==
  /\ At(p, "readying")
  /\ lock' = NoRun
  /\ \/ /\ job' = [job EXCEPT !.phase = "ready"]
        /\ Resume(p, [run[p] EXCEPT !.pc = "snapshot", !.made = "yes"])
     \/ /\ job' = [job EXCEPT !.phase = "failed"]
        /\ Put(p, Idle)
  /\ UNCHANGED <<tree, ref, facade, dir, shown, launches, calls, edits, kills>>

Found == IF facade = NoFacade THEN "no" ELSE "yes"

\* Reads job.json without the lock, and looks whether workflow.json exists.
Snapshot(p) ==
  /\ At(p, "snapshot")
  /\ IF Ready
       THEN Put(p, [run[p] EXCEPT !.pc = "open", !.job = job.gen, !.found = Found])
       ELSE Put(p, Idle)
  /\ UNCHANGED <<job, tree, ref, facade, dir, lock, shown, launches, calls, edits, kills>>

-----------------------------------------------------------------------------
(* Preview and approval, under the lock.                                   *)

\* A workflow.json that was found is loaded; one that appeared since is not.
Loaded(p) == IF run[p].found = "yes" THEN facade ELSE NoFacade

Open(p) ==
  /\ At(p, "open")
  /\ IF lock = NoRun /\ (run[p].found = "yes" => facade # NoFacade)
       THEN /\ lock' = p
            /\ Put(p, [run[p] EXCEPT !.pc = "preview", !.bound = Loaded(p)])
       ELSE Put(p, Idle) /\ UNCHANGED lock
  /\ UNCHANGED <<job, tree, ref, facade, dir, shown, launches, calls, edits, kills>>

\* The authority that a preview of the worktree computes for this invocation's options.
Measured(p) == Authority(tree.content, run[p].task)

\* Mutant: the store stays open when the preview fails.
PreviewOpen(p) ==
  /\ At(p, "preview")
  /\ \/ /\ tree # NoTree
        /\ Put(p, [run[p] EXCEPT !.pc = "bind", !.seen = Measured(p)])
     \/ Put(p, IF run[p].made = "yes" THEN To(p, "undo-read") ELSE Idle)
  /\ UNCHANGED <<job, tree, ref, facade, dir, lock, shown, launches, calls, edits, kills>>

\* A failed preview closes the store and takes down a job made by this invocation.
Preview(p) ==
  /\ At(p, "preview")
  /\ \/ /\ tree # NoTree
        /\ Put(p, [run[p] EXCEPT !.pc = "bind", !.seen = Measured(p)])
        /\ UNCHANGED lock
     \/ /\ lock' = NoRun
        /\ Put(p, IF run[p].made = "yes" THEN To(p, "undo-read") ELSE Idle)
  /\ UNCHANGED <<job, tree, ref, facade, dir, shown, launches, calls, edits, kills>>

\* What workflow.json must say for this invocation to go on.
Binding(p) == [job |-> run[p].job, tree |-> tree.gen, authority |-> run[p].seen]
Bound(f) == [job |-> f.job, tree |-> f.tree, authority |-> f.authority]

\* With the state written or found equal: show the preview, refuse a stale approval, or launch.
Decide(p, id) ==
  \/ /\ run[p].approval = NoAuthority
     /\ shown' = shown \union {run[p].seen}
     /\ Put(p, Idle)
  \/ /\ run[p].approval # NoAuthority
     /\ UNCHANGED shown
     /\ IF run[p].approval = run[p].seen
          THEN Put(p, [run[p] EXCEPT !.pc = "check", !.owns = id])
          ELSE Put(p, Idle)

Bind(p) ==
  /\ At(p, "bind")
  /\ lock' = NoRun
  /\ \/ /\ run[p].bound = NoFacade /\ facade = NoFacade /\ tree # NoTree
        /\ facade' = [id |-> run[p].call, job |-> run[p].job, tree |-> tree.gen,
                      authority |-> run[p].seen]
        /\ Decide(p, run[p].call)
     \/ /\ run[p].bound # NoFacade /\ Bound(run[p].bound) = Binding(p)
        /\ Decide(p, run[p].bound.id)
        /\ UNCHANGED facade
     \/ /\ IF run[p].bound = NoFacade THEN facade # NoFacade \/ tree = NoTree
                                      ELSE Bound(run[p].bound) # Binding(p)
        /\ Put(p, Idle)
        /\ UNCHANGED <<facade, shown>>
  /\ UNCHANGED <<job, tree, ref, dir, launches, calls, edits, kills>>

-----------------------------------------------------------------------------
(* agy-worker.sh, without the lock.                                        *)

\* The record's authority must be the one whose digest the operator approved.
RecordApproved(p) == facade # NoFacade /\ facade.authority = run[p].approval

CheckRecord(p) ==
  /\ At(p, "check")
  /\ IF RecordApproved(p) THEN Put(p, To(p, "mkdir")) ELSE Resume(p, To(p, "failed"))
  /\ UNCHANGED <<job, tree, ref, facade, dir, lock, shown, launches, calls, edits, kills>>

MakeDir(p) ==
  /\ At(p, "mkdir")
  /\ IF dir = "none"
       THEN dir' = "made" /\ Put(p, To(p, "select"))
       ELSE Resume(p, To(p, "failed")) /\ UNCHANGED dir
  /\ UNCHANGED <<job, tree, ref, facade, lock, shown, launches, calls, edits, kills>>

\* A model that cannot be selected is the one failure that removes the directory again.
Select(p) ==
  /\ At(p, "select")
  /\ \/ Put(p, To(p, "repreview")) /\ UNCHANGED dir
     \/ dir' = "none" /\ Resume(p, To(p, "failed"))
  /\ UNCHANGED <<job, tree, ref, facade, lock, shown, launches, calls, edits, kills>>

Repreview(p) ==
  /\ At(p, "repreview")
  /\ \/ /\ tree # NoTree
        /\ Put(p, [run[p] EXCEPT !.pc = "match", !.seen = Measured(p)])
     \/ Resume(p, To(p, "failed"))
  /\ UNCHANGED <<job, tree, ref, facade, dir, lock, shown, launches, calls, edits, kills>>

Match(p) ==
  /\ At(p, "match")
  /\ IF RecordApproved(p) /\ facade.authority = run[p].seen
       THEN Put(p, To(p, "launch"))
       ELSE Resume(p, To(p, "failed"))
  /\ UNCHANGED <<job, tree, ref, facade, dir, lock, shown, launches, calls, edits, kills>>

\* agy_dispatch.py takes over with the preview it was given, or fails; the directory stays.
Launch(p) ==
  /\ At(p, "launch")
  /\ \/ /\ dir' = "started"
        /\ launches' = launches \union {[call |-> run[p].call, authority |-> run[p].seen,
                                         approved |-> run[p].approval]}
        /\ Put(p, Idle)
     \/ Resume(p, To(p, "failed")) /\ UNCHANGED <<dir, launches>>
  /\ UNCHANGED <<job, tree, ref, facade, lock, shown, calls, edits, kills>>

-----------------------------------------------------------------------------
(* Taking the job down again.                                              *)

\* Mutant: also a job that was there before this invocation.
FailedAny(p) ==
  /\ At(p, "failed")
  /\ IF dir = "none" THEN Put(p, To(p, "undo-read")) ELSE Put(p, Idle)
  /\ UNCHANGED <<job, tree, ref, facade, dir, lock, shown, launches, calls, edits, kills>>

\* Only for a job this invocation made, and only without a dispatch directory.
Failed(p) ==
  /\ At(p, "failed")
  /\ IF run[p].made = "yes" /\ dir = "none" THEN Put(p, To(p, "undo-read")) ELSE Put(p, Idle)
  /\ UNCHANGED <<job, tree, ref, facade, dir, lock, shown, launches, calls, edits, kills>>

\* job.json is read anew, and its digest is what rollback-ready is to approve.
UndoRead(p) ==
  /\ At(p, "undo-read")
  /\ IF JobBound THEN Put(p, [run[p] EXCEPT !.pc = "undo-lock", !.job = job.gen]) ELSE Put(p, Idle)
  /\ UNCHANGED <<job, tree, ref, facade, dir, lock, shown, launches, calls, edits, kills>>

UndoLock(p) ==
  /\ At(p, "undo-lock")
  /\ IF lock = NoRun /\ job = [phase |-> "ready", gen |-> run[p].job] /\ dir = "none"
       THEN lock' = p /\ Put(p, To(p, "undo-inspect"))
       ELSE Put(p, Idle) /\ UNCHANGED lock
  /\ UNCHANGED <<job, tree, ref, facade, dir, shown, launches, calls, edits, kills>>

\* The last look for a dispatch directory before the removal; then the candidate must be empty.
UndoInspect(p) ==
  /\ At(p, "undo-inspect")
  /\ IF dir = "none" /\ Ready /\ tree.content = 0
       THEN Put(p, To(p, "undo-tree")) /\ UNCHANGED lock
       ELSE Put(p, Idle) /\ lock' = NoRun
  /\ UNCHANGED <<job, tree, ref, facade, dir, shown, launches, calls, edits, kills>>

\* `git worktree remove --force', or its failure.
UndoTree(p) ==
  /\ At(p, "undo-tree")
  /\ \/ tree' = NoTree /\ Put(p, To(p, "undo-ref")) /\ UNCHANGED lock
     \/ Put(p, Idle) /\ lock' = NoRun /\ UNCHANGED tree
  /\ UNCHANGED <<job, ref, facade, dir, shown, launches, calls, edits, kills>>

\* Mutant: the dispatch directory is not looked for again before the branch goes.
UndoRefBlind(p) ==
  /\ At(p, "undo-ref")
  /\ \/ ref = "base" /\ ref' = "none" /\ Put(p, To(p, "undo-state")) /\ UNCHANGED lock
     \/ Put(p, Idle) /\ lock' = NoRun /\ UNCHANGED ref
  /\ UNCHANGED <<job, tree, facade, dir, shown, launches, calls, edits, kills>>

\* The branch, compared with the base commit, after another look for a dispatch directory.
UndoRef(p) ==
  /\ At(p, "undo-ref")
  /\ \/ /\ dir = "none" /\ ref = "base"
        /\ ref' = "none" /\ Put(p, To(p, "undo-state")) /\ UNCHANGED lock
     \/ Put(p, Idle) /\ lock' = NoRun /\ UNCHANGED ref
  /\ UNCHANGED <<job, tree, facade, dir, shown, launches, calls, edits, kills>>

UndoState(p) ==
  /\ At(p, "undo-state")
  /\ lock' = NoRun
  /\ \/ /\ dir = "none" /\ job' = NoJob
        /\ IF run[p].owns # 0 THEN Resume(p, To(p, "discard")) ELSE Put(p, Idle)
     \/ Put(p, Idle) /\ UNCHANGED job
  /\ UNCHANGED <<tree, ref, facade, dir, shown, launches, calls, edits, kills>>

\* workflow.json goes last, if it is still the file whose digest and inode were kept.
Discard(p) ==
  /\ At(p, "discard")
  /\ IF lock = NoRun /\ facade.id = run[p].owns THEN facade' = NoFacade ELSE UNCHANGED facade
  /\ Put(p, Idle)
  /\ UNCHANGED <<job, tree, ref, dir, lock, shown, launches, calls, edits, kills>>

-----------------------------------------------------------------------------
(* What others do.                                                         *)

Edit(k) ==
  /\ tree # NoTree /\ edits < MaxEdits /\ k # tree.content
  /\ tree' = [tree EXCEPT !.content = k]
  /\ edits' = edits + 1
  /\ UNCHANGED <<job, ref, facade, dir, lock, run, shown, launches, calls, kills>>

\* The invocation dies with its child, or its child goes on alone.
Kill(p) ==
  /\ ~At(p, "idle") /\ kills < MaxKills
  /\ kills' = kills + 1
  /\ \/ Put(p, Idle) /\ lock' = IF lock = p THEN NoRun ELSE lock
     \/ /\ run[p].pc \in ChildPcs /\ run[p].alone = "no"
        /\ Put(p, [run[p] EXCEPT !.alone = "yes"])
        /\ UNCHANGED lock
  /\ UNCHANGED <<job, tree, ref, facade, dir, shown, launches, calls, edits>>

Next ==
  \/ \E p \in Runs :
       \/ \E t \in Tasks, a \in shown \union {NoAuthority} : Begin(p, t, a)
       \/ InitRecord(p) \/ InitAdd(p) \/ InitReady(p) \/ Snapshot(p)
       \/ Open(p) \/ Preview(p) \/ Bind(p)
       \/ CheckRecord(p) \/ MakeDir(p) \/ Select(p) \/ Repreview(p) \/ Match(p) \/ Launch(p)
       \/ Failed(p) \/ UndoRead(p) \/ UndoLock(p) \/ UndoInspect(p) \/ UndoTree(p)
       \/ UndoRef(p) \/ UndoState(p) \/ Discard(p)
       \/ Kill(p)
  \/ \E k \in Contents : Edit(k)

Spec == Init /\ [][Next]_vars

-----------------------------------------------------------------------------
(* Properties.                                                             *)

Facades == [id : 0 .. MaxCalls, job : 0 .. MaxCalls, tree : 0 .. MaxCalls,
            authority : Authorities \union {NoAuthority}]
RunStates == [pc : Pcs, call : 0 .. MaxCalls, task : Tasks \union {NoTask},
              approval : Authorities \union {NoAuthority}, made : {"yes", "no"},
              job : 0 .. MaxCalls, bound : Facades, found : {"yes", "no"},
              seen : Authorities \union {NoAuthority}, owns : 0 .. MaxCalls,
              alone : {"yes", "no"}]

LockedPcs == {"adding", "readying", "preview", "bind", "undo-inspect", "undo-tree", "undo-ref",
              "undo-state"}

\* Every variable stays within the shapes above, every launch was approved as something an
\* operator was shown, and the lock is held by exactly the invocation that is between taking
\* and releasing it: an invocation that goes on to roll back has closed its own store before.
TypeOK ==
  /\ job \in [phase : {"none", "initializing", "ready", "failed"}, gen : 0 .. MaxCalls]
  /\ tree \in [gen : 0 .. MaxCalls, content : Contents]
  /\ ref \in {"none", "base"}
  /\ facade \in Facades
  /\ dir \in {"none", "made", "started"}
  /\ lock \in Runs \union {NoRun}
  /\ run \in [Runs -> RunStates]
  /\ shown \subseteq Authorities
  /\ launches \subseteq [call : 0 .. MaxCalls, authority : Authorities, approved : shown]
  /\ calls \in 0 .. MaxCalls /\ edits \in 0 .. MaxEdits /\ kills \in 0 .. MaxKills
  /\ \A p \in Runs : lock = p <=> run[p].pc \in LockedPcs

\* What was started is what the second preview saw, and that is what the operator approved.
LaunchAuthorized == \A l \in launches : l.authority = l.approved
\* One dispatch is started in the dispatch directory of a job, whoever asked for it.
OneLaunch == \A l, m \in launches : l = m
\* The branch and job.json of a started dispatch are still there, although a rollback by
\* another invocation may be under way, which learns of the dispatch only by its directory.
LaunchRecorded ==
  launches # {} => dir = "started" /\ job # NoJob /\ ref = "base"

\* A dispatch that was started is the one that was approved, the only one, and its job is
\* still recorded (agy-worker.sh's record checks and mkdir; rollback-ready's repeated looks
\* for the dispatch directory).
LaunchExact == LaunchAuthorized /\ OneLaunch /\ LaunchRecorded

\* The worktree and job.json are removed only by the invocation whose init made them, under
\* the lock; job.json only after the worktree and the branch; workflow.json never while the
\* job it binds is recorded; and the directory of a started dispatch by nobody
\* (_rollback_facade_ready, command_rollback_ready).
RollbackExact ==
  [][/\ tree # NoTree /\ tree' = NoTree => \E p \in Runs : lock = p /\ run[p].call = tree.gen
     /\ job # NoJob /\ job' = NoJob =>
          /\ \E p \in Runs : lock = p /\ run[p].call = job.gen
          /\ tree' = NoTree /\ ref' = "none"
     /\ facade # NoFacade /\ facade' = NoFacade => job = NoJob \/ job.gen # facade.job
     /\ dir = "started" => dir' = "started"]_vars

\* docs/PROJECT_WORKFLOW.md:108-111 makes the absence of every dispatch artifact mandatory for
\* a rollback: the worktree of a started dispatch is not taken away.  Not kept: see the
\* observations in README.md.
LaunchKeepsTree == dir = "started" => tree # NoTree
=============================================================================
