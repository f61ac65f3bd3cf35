------------------------ MODULE WorkflowFacadeProofs ------------------------
(***************************************************************************)
(* Proofs about WorkflowFacade, for any number of invocations, edits and   *)
(* kills.                                                                  *)
(***************************************************************************)
EXTENDS WorkflowFacade, TLAPS

(***************************************************************************)
(* The type invariant in parts.                                            *)
(***************************************************************************)
JobOK == job \in [phase : {"none", "initializing", "ready", "failed"}, gen : 0 .. MaxCalls]
TreeOK == tree \in [gen : 0 .. MaxCalls, content : Contents] /\ ref \in {"none", "base"}
FacadeOK == facade \in Facades
RunOK == run \in [Runs -> RunStates]
LockOK == lock \in Runs \union {NoRun} /\ dir \in {"none", "made", "started"}
ShownOK ==
  /\ shown \subseteq Authorities
  /\ launches \subseteq [call : 0 .. MaxCalls, authority : Authorities, approved : shown]
CountOK == calls \in 0 .. MaxCalls /\ edits \in 0 .. MaxEdits /\ kills \in 0 .. MaxKills
LockHeld == \A p \in Runs : lock = p <=> run[p].pc \in LockedPcs

Types == JobOK /\ TreeOK /\ FacadeOK /\ RunOK /\ LockOK /\ ShownOK /\ CountOK /\ LockHeld

\* The parts are the type invariant.
LEMMA TypeParts == TypeOK <=> Types
  BY DEF TypeOK, Types, JobOK, TreeOK, FacadeOK, RunOK, LockOK, ShownOK, CountOK, LockHeld

-----------------------------------------------------------------------------
(***************************************************************************)
(* The inductive invariant.  No two invocations under way have the same    *)
(* number; the one that made the job owns it until job.json is gone; and   *)
(* from the second preview on a dispatch directory exists, so that neither *)
(* the branch nor job.json can be removed any more.                        *)
(***************************************************************************)
\* Invocations under way have numbers of their own.
Numbers ==
  /\ \A p \in Runs : run[p].pc # "idle" => 1 <= run[p].call /\ run[p].call <= calls
  /\ \A p \in Runs : run[p].pc = "idle" => run[p].made = "no" /\ run[p].owns = 0
  /\ \A p, q \in Runs : p # q /\ run[p].pc # "idle" /\ run[q].pc # "idle" =>
                          run[p].call # run[q].call

\* The job that an invocation made is its own until it has removed job.json.
Owners ==
  \A p \in Runs :
    /\ run[p].made = "yes" /\ run[p].pc # "discard" => job.gen = run[p].call
    /\ run[p].pc \in {"adding", "readying"} => job.gen = run[p].call
    /\ run[p].pc \in InitPcs => run[p].made = "no"
    /\ run[p].pc \in UndoPcs \union {"undo-read", "discard"} => run[p].made = "yes"
    /\ run[p].pc \in {"open", "preview", "bind"} /\ run[p].made = "yes" => run[p].job = run[p].call
    /\ run[p].pc = "discard" => run[p].owns # 0 /\ job.gen # run[p].call

\* Nothing is in place that job.json does not record.
Places ==
  /\ job.phase = "none" <=> job.gen = 0
  /\ job.gen <= calls
  /\ tree.gen = 0 => tree = NoTree
  /\ tree.gen # 0 => tree.gen = job.gen /\ ref = "base"
  /\ ref = "base" => job.gen # 0
  /\ \A p \in Runs : run[p].pc \in {"adding", "undo-ref", "undo-state"} => tree.gen = 0
  /\ \A p \in Runs : run[p].pc = "undo-state" => ref = "none"

Early == {"init", "adding", "readying", "snapshot", "open", "preview", "bind"}

\* workflow.json is known by its maker; an invocation that makes it makes it once.
Makers ==
  /\ facade.id <= calls /\ (facade.id = 0 => facade = NoFacade)
  /\ \A p \in Runs :
       /\ run[p].owns <= calls
       /\ run[p].pc \in {"preview", "bind"} /\ run[p].bound # NoFacade => facade = run[p].bound
       /\ run[p].made = "yes" /\ run[p].owns # 0 /\ facade.id = run[p].owns =>
            facade.job = run[p].call
       /\ run[p].pc \in Early =>
            /\ facade.id # run[p].call
            /\ run[p].owns = 0
            /\ \A q \in Runs : run[q].owns # run[p].call

DirPcs == {"select", "repreview", "match", "launch"}

\* One invocation at a time works in the dispatch directory, and for good once it launched.
Claims ==
  /\ \A p \in Runs : run[p].pc \in DirPcs => dir = "made"
  /\ \A p, q \in Runs : run[p].pc \in DirPcs /\ run[q].pc \in DirPcs => p = q
  /\ launches # {} => dir = "started" /\ job.gen # 0 /\ ref = "base"
  /\ \A l, m \in launches : l = m
  /\ \A p \in Runs : run[p].pc \in {"match", "launch"} => job.gen # 0 /\ ref = "base"

\* An approval was shown, and a launch is of what was approved.
Approvals ==
  /\ \A p \in Runs :
       /\ run[p].approval \in shown \union {NoAuthority}
       /\ run[p].pc # "idle" => run[p].task \in Tasks
       /\ run[p].pc \in {"bind", "match"} => run[p].seen \in Authorities
       /\ run[p].pc \in LaunchPcs => run[p].approval \in shown
       /\ run[p].pc = "launch" => run[p].seen = run[p].approval
  /\ \A l \in launches : l.authority = l.approved

IInv == Types /\ Numbers /\ Owners /\ Places /\ Makers /\ Claims /\ Approvals

-----------------------------------------------------------------------------
(***************************************************************************)
(* Steps that set several fields of an invocation's record, field by field.*)
(***************************************************************************)
Others(p) == \A q \in Runs : q # p => run'[q] = run[q]
Moves(p, pc) == Others(p) /\ run'[p].pc = pc
Ends(p) == Others(p) /\ run'[p] = Idle
Asked(p) ==
  run'[p].call = run[p].call /\ run'[p].task = run[p].task /\ run'[p].approval = run[p].approval
Owned(p) ==
  run'[p].made = run[p].made /\ run'[p].owns = run[p].owns /\ run'[p].alone = run[p].alone
Knows(p) == run'[p].job = run[p].job /\ run'[p].bound = run[p].bound /\ run'[p].seen = run[p].seen

BeginMove(p, t, a) ==
  /\ run[p].pc = "idle" /\ calls < MaxCalls /\ calls' = calls + 1
  /\ \/ UNCHANGED run
     \/ /\ job = NoJob /\ facade = NoFacade /\ tree = NoTree /\ Moves(p, "init")
        /\ run'[p].call = calls + 1 /\ run'[p].task = t /\ run'[p].approval = a
        /\ Owned(p) /\ Knows(p)
     \/ /\ job # NoJob /\ Moves(p, "snapshot")
        /\ run'[p].call = calls + 1 /\ run'[p].task = t /\ run'[p].approval = a
        /\ Owned(p) /\ Knows(p)
  /\ UNCHANGED <<job, tree, ref, facade, dir, lock, shown, launches, edits, kills>>

InitReadyMove(p) ==
  /\ run[p].pc = "readying" /\ lock' = NoRun
  /\ \/ /\ job' = [job EXCEPT !.phase = "ready"]
        /\ \/ Ends(p)
           \/ /\ Moves(p, "snapshot") /\ run'[p].made = "yes" /\ run'[p].owns = run[p].owns
              /\ run'[p].alone = run[p].alone /\ Asked(p) /\ Knows(p)
     \/ job' = [job EXCEPT !.phase = "failed"] /\ Ends(p)
  /\ UNCHANGED <<tree, ref, facade, dir, shown, launches, calls, edits, kills>>

SnapshotMove(p) ==
  /\ run[p].pc = "snapshot"
  /\ \/ /\ Ready /\ Moves(p, "open") /\ run'[p].job = job.gen /\ run'[p].bound = run[p].bound
        /\ run'[p].seen = run[p].seen /\ Asked(p) /\ Owned(p)
     \/ Ends(p)
  /\ UNCHANGED <<job, tree, ref, facade, dir, lock, shown, launches, calls, edits, kills>>

OpenMove(p) ==
  /\ run[p].pc = "open"
  /\ \/ /\ lock = NoRun /\ lock' = p
        /\ Moves(p, "preview") /\ run'[p].bound \in {facade, NoFacade} /\ run'[p].job = run[p].job
        /\ run'[p].seen = run[p].seen /\ Asked(p) /\ Owned(p)
     \/ Ends(p) /\ UNCHANGED lock
  /\ UNCHANGED <<job, tree, ref, facade, dir, shown, launches, calls, edits, kills>>

PreviewMove(p) ==
  /\ run[p].pc = "preview"
  /\ \/ /\ tree # NoTree /\ Moves(p, "bind") /\ run'[p].seen = Measured(p)
        /\ run'[p].job = run[p].job /\ run'[p].bound = run[p].bound /\ Asked(p) /\ Owned(p)
        /\ UNCHANGED lock
     \/ /\ lock' = NoRun /\ run[p].made = "yes"
        /\ Moves(p, "undo-read") /\ Asked(p) /\ Owned(p) /\ Knows(p)
     \/ lock' = NoRun /\ Ends(p)
  /\ UNCHANGED <<job, tree, ref, facade, dir, shown, launches, calls, edits, kills>>

\* The invocation shows what it saw, refuses a stale approval, or goes on to launch.
DecideMove(p, id) ==
  \/ /\ run[p].approval = NoAuthority /\ shown' = shown \union {run[p].seen} /\ Ends(p)
  \/ UNCHANGED shown /\ Ends(p)
  \/ /\ run[p].approval # NoAuthority /\ run[p].approval = run[p].seen /\ UNCHANGED shown
     /\ Moves(p, "check") /\ run'[p].owns = id /\ run'[p].made = run[p].made
     /\ run'[p].alone = run[p].alone /\ Asked(p) /\ Knows(p)

BindMove(p) ==
  /\ run[p].pc = "bind" /\ lock' = NoRun
  /\ \/ /\ facade = NoFacade
        /\ facade' = [id |-> run[p].call, job |-> run[p].job, tree |-> tree.gen,
                      authority |-> run[p].seen]
        /\ DecideMove(p, run[p].call)
     \/ /\ run[p].bound # NoFacade /\ run[p].bound.job = run[p].job
        /\ DecideMove(p, run[p].bound.id) /\ UNCHANGED facade
     \/ Ends(p) /\ UNCHANGED <<facade, shown>>
  /\ UNCHANGED <<job, tree, ref, dir, launches, calls, edits, kills>>

RepreviewMove(p) ==
  /\ run[p].pc = "repreview"
  /\ \/ /\ tree # NoTree /\ Moves(p, "match") /\ run'[p].seen = Measured(p)
        /\ run'[p].job = run[p].job /\ run'[p].bound = run[p].bound /\ Asked(p) /\ Owned(p)
     \/ Ends(p)
     \/ Moves(p, "failed") /\ Asked(p) /\ Owned(p) /\ Knows(p)
  /\ UNCHANGED <<job, tree, ref, facade, dir, lock, shown, launches, calls, edits, kills>>

UndoReadMove(p) ==
  /\ run[p].pc = "undo-read"
  /\ \/ /\ JobBound /\ Moves(p, "undo-lock") /\ run'[p].job = job.gen
        /\ run'[p].bound = run[p].bound /\ run'[p].seen = run[p].seen /\ Asked(p) /\ Owned(p)
     \/ Ends(p)
  /\ UNCHANGED <<job, tree, ref, facade, dir, lock, shown, launches, calls, edits, kills>>
-----------------------------------------------------------------------------
\* The record of no invocation, and no workflow.json, are of their types.
LEMMA IdleType == Idle \in RunStates /\ NoFacade \in Facades
  BY BoundsAssumption
     DEF Idle, NoFacade, RunStates, Facades, Pcs, NoAuthority

\* Moving on keeps a record's type.
LEMMA ToType ==
  ASSUME RunOK, NEW p \in Runs, NEW x \in Pcs
  PROVE  To(p, x) \in RunStates
  <1>1. run[p] \in RunStates
    BY DEF RunOK
  <1> QED
    BY <1>1 DEF RunStates, To

\* What the start of an invocation does to its record.
LEMMA BeginMoves ==
  ASSUME RunOK, CountOK, ShownOK, NEW p \in Runs, NEW t \in Tasks, NEW a \in shown \union
         {NoAuthority},
         Begin(p, t, a)
  PROVE  BeginMove(p, t, a) /\ RunOK'
  <1>1. calls + 1 \in 0 .. MaxCalls /\ a \in Authorities \union {NoAuthority}
    BY BoundsAssumption DEF Begin, CountOK, ShownOK
  <1>2. run[p] \in RunStates /\ Idle \in RunStates
    BY IdleType DEF RunOK
  <1>3. PICK r : r = [run[p] EXCEPT !.pc = "init", !.call = calls + 1, !.task = t, !.approval = a]
    OBVIOUS
  <1>4. /\ r.pc = "init" /\ r.call = calls + 1 /\ r.task = t
        /\ r.approval = a /\ r.made = run[p].made /\ r.owns = run[p].owns
        /\ r.alone = run[p].alone /\ r.job = run[p].job
        /\ r.bound = run[p].bound /\ r.seen = run[p].seen
    BY <1>3, <1>2 DEF RunStates
  <1>5. r \in RunStates
    BY <1>3, <1>2, <1>1 DEF RunStates, Pcs, ChildPcs, InitPcs, LaunchPcs, UndoPcs
  <1>6. Put(p, r) => run'[p] = r /\ Others(p) /\ RunOK'
    BY <1>5, <1>2 DEF Put, RunOK, Others
  <1>7. PICK s : s = [run[p] EXCEPT !.pc = "snapshot", !.call = calls + 1, !.task = t, !.approval = a]
    OBVIOUS
  <1>8. /\ s.pc = "snapshot" /\ s.call = calls + 1 /\ s.task = t
        /\ s.approval = a /\ s.made = run[p].made /\ s.owns = run[p].owns
        /\ s.alone = run[p].alone /\ s.job = run[p].job
        /\ s.bound = run[p].bound /\ s.seen = run[p].seen
    BY <1>7, <1>2 DEF RunStates
  <1>9. s \in RunStates
    BY <1>7, <1>2, <1>1 DEF RunStates, Pcs, ChildPcs, InitPcs, LaunchPcs, UndoPcs
  <1>10. Put(p, s) => run'[p] = s /\ Others(p) /\ RunOK'
    BY <1>9, <1>2 DEF Put, RunOK, Others
  <1>11. Put(p, Idle) => Ends(p) /\ RunOK'
    BY <1>2 DEF Put, RunOK, Others, Ends
  <1>12. UNCHANGED run => RunOK'
    BY <1>2 DEF RunOK
  <1>13. /\ run[p].pc = "idle" /\ calls < MaxCalls /\ calls' = calls + 1
         /\ \/ job = NoJob /\ facade = NoFacade /\ tree = NoTree /\ Put(p, r)
            \/ UNCHANGED run
            \/ job # NoJob /\ Put(p, s)
         /\ UNCHANGED <<job, tree, ref, facade, dir, lock, shown, launches, edits, kills>>
    BY <1>3, <1>7 DEF Begin, At, Put, Start
  <1> QED
    BY <1>4, <1>6, <1>8, <1>10, <1>11, <1>12, <1>13, <1>1 DEF BeginMove, Moves, Ends,
       Asked, Owned, Knows

\* What the end of init does.
LEMMA InitReadyMoves ==
  ASSUME RunOK, NEW p \in Runs, InitReady(p)
  PROVE  InitReadyMove(p) /\ RunOK'
  <1>1. run[p] \in RunStates /\ Idle \in RunStates
    BY IdleType DEF RunOK
  <1>2. PICK r : r = [run[p] EXCEPT !.pc = "snapshot", !.made = "yes"]
    OBVIOUS
  <1>3. /\ r.pc = "snapshot" /\ r.made = "yes" /\ r.call = run[p].call
        /\ r.task = run[p].task /\ r.approval = run[p].approval
        /\ r.owns = run[p].owns /\ r.alone = run[p].alone
        /\ r.job = run[p].job /\ r.bound = run[p].bound
        /\ r.seen = run[p].seen
    BY <1>2, <1>1 DEF RunStates
  <1>4. r \in RunStates
    BY <1>2, <1>1 DEF RunStates, Pcs, ChildPcs, InitPcs, LaunchPcs, UndoPcs
  <1>5. Put(p, r) => run'[p] = r /\ Others(p) /\ RunOK'
    BY <1>4, <1>1 DEF Put, RunOK, Others
  <1>6. Put(p, Idle) => Ends(p) /\ RunOK'
    BY <1>1 DEF Put, RunOK, Others, Ends
  <1>7. /\ run[p].pc = "readying" /\ lock' = NoRun
        /\ \/ job' = [job EXCEPT !.phase = "ready"] /\ (Put(p, r) \/ Put(p, Idle))
           \/ job' = [job EXCEPT !.phase = "failed"] /\ Put(p, Idle)
        /\ UNCHANGED <<tree, ref, facade, dir, shown, launches, calls, edits, kills>>
    BY <1>2 DEF InitReady, At, Put, Resume
  <1> QED
    BY <1>3, <1>5, <1>6, <1>7 DEF InitReadyMove, Moves, Ends, Asked, Owned, Knows

\* What reading job.json does.
LEMMA SnapshotMoves ==
  ASSUME RunOK, JobOK, NEW p \in Runs, Snapshot(p)
  PROVE  SnapshotMove(p) /\ RunOK'
  <1>1. job.gen \in 0 .. MaxCalls /\ Found \in {"yes", "no"}
    BY DEF JobOK, Found
  <1>2. run[p] \in RunStates /\ Idle \in RunStates
    BY IdleType DEF RunOK
  <1>3. PICK r : r = [run[p] EXCEPT !.pc = "open", !.job = job.gen, !.found = Found]
    OBVIOUS
  <1>4. /\ r.pc = "open" /\ r.job = job.gen /\ r.call = run[p].call
        /\ r.task = run[p].task /\ r.approval = run[p].approval
        /\ r.made = run[p].made /\ r.owns = run[p].owns
        /\ r.alone = run[p].alone /\ r.bound = run[p].bound
        /\ r.seen = run[p].seen
    BY <1>3, <1>2 DEF RunStates
  <1>5. r \in RunStates
    BY <1>3, <1>2, <1>1 DEF RunStates, Pcs, ChildPcs, InitPcs, LaunchPcs, UndoPcs
  <1>6. Put(p, r) => run'[p] = r /\ Others(p) /\ RunOK'
    BY <1>5, <1>2 DEF Put, RunOK, Others
  <1>7. Put(p, Idle) => Ends(p) /\ RunOK'
    BY <1>2 DEF Put, RunOK, Others, Ends
  <1>8. /\ run[p].pc = "snapshot"
        /\ (Ready /\ Put(p, r)) \/ Put(p, Idle)
        /\ UNCHANGED <<job, tree, ref, facade, dir, lock, shown, launches, calls, edits, kills>>
    BY <1>3 DEF Snapshot, At, Put
  <1> QED
    BY <1>4, <1>6, <1>7, <1>8, <1>1 DEF SnapshotMove, Moves, Ends, Asked, Owned, Knows

\* What opening the store does.
LEMMA OpenMoves ==
  ASSUME RunOK, FacadeOK, NEW p \in Runs, Open(p)
  PROVE  OpenMove(p) /\ RunOK'
  <1>1. Loaded(p) \in Facades /\ Loaded(p) \in {facade, NoFacade}
    BY IdleType DEF FacadeOK, Loaded
  <1>2. run[p] \in RunStates /\ Idle \in RunStates
    BY IdleType DEF RunOK
  <1>3. PICK r : r = [run[p] EXCEPT !.pc = "preview", !.bound = Loaded(p)]
    OBVIOUS
  <1>4. /\ r.pc = "preview" /\ r.bound = Loaded(p) /\ r.call = run[p].call
        /\ r.task = run[p].task /\ r.approval = run[p].approval
        /\ r.made = run[p].made /\ r.owns = run[p].owns
        /\ r.alone = run[p].alone /\ r.job = run[p].job
        /\ r.seen = run[p].seen
    BY <1>3, <1>2 DEF RunStates
  <1>5. r \in RunStates
    BY <1>3, <1>2, <1>1 DEF RunStates, Pcs, ChildPcs, InitPcs, LaunchPcs, UndoPcs
  <1>6. Put(p, r) => run'[p] = r /\ Others(p) /\ RunOK'
    BY <1>5, <1>2 DEF Put, RunOK, Others
  <1>7. Put(p, Idle) => Ends(p) /\ RunOK'
    BY <1>2 DEF Put, RunOK, Others, Ends
  <1>8. /\ run[p].pc = "open"
        /\ \/ lock = NoRun /\ lock' = p /\ Put(p, r)
           \/ Put(p, Idle) /\ UNCHANGED lock
        /\ UNCHANGED <<job, tree, ref, facade, dir, shown, launches, calls, edits, kills>>
    BY <1>3 DEF Open, At, Put
  <1> QED
    BY <1>4, <1>6, <1>7, <1>8, <1>1 DEF OpenMove, Moves, Ends, Asked, Owned, Knows

\* What the preview under the lock does.
LEMMA PreviewMoves ==
  ASSUME RunOK, TreeOK, Approvals, NEW p \in Runs, Preview(p)
  PROVE  PreviewMove(p) /\ RunOK'
  <1>1. Measured(p) \in Authorities
    BY DEF TreeOK, Approvals, Measured, Authority, Authorities, Preview, At
  <1>2. run[p] \in RunStates /\ Idle \in RunStates
    BY IdleType DEF RunOK
  <1>3. PICK r : r = [run[p] EXCEPT !.pc = "bind", !.seen = Measured(p)]
    OBVIOUS
  <1>4. /\ r.pc = "bind" /\ r.seen = Measured(p) /\ r.call = run[p].call
        /\ r.task = run[p].task /\ r.approval = run[p].approval
        /\ r.made = run[p].made /\ r.owns = run[p].owns
        /\ r.alone = run[p].alone /\ r.job = run[p].job
        /\ r.bound = run[p].bound
    BY <1>3, <1>2 DEF RunStates
  <1>5. r \in RunStates
    BY <1>3, <1>2, <1>1 DEF RunStates, Pcs, ChildPcs, InitPcs, LaunchPcs, UndoPcs
  <1>6. Put(p, r) => run'[p] = r /\ Others(p) /\ RunOK'
    BY <1>5, <1>2 DEF Put, RunOK, Others
  <1>7. PICK s : s = [run[p] EXCEPT !.pc = "undo-read"]
    OBVIOUS
  <1>8. /\ s.pc = "undo-read" /\ s.call = run[p].call /\ s.task = run[p].task
        /\ s.approval = run[p].approval /\ s.made = run[p].made
        /\ s.owns = run[p].owns /\ s.alone = run[p].alone
        /\ s.job = run[p].job /\ s.bound = run[p].bound
        /\ s.seen = run[p].seen
    BY <1>7, <1>2 DEF RunStates
  <1>9. s \in RunStates
    BY <1>7, <1>2, <1>1 DEF RunStates, Pcs, ChildPcs, InitPcs, LaunchPcs, UndoPcs
  <1>10. Put(p, s) => run'[p] = s /\ Others(p) /\ RunOK'
    BY <1>9, <1>2 DEF Put, RunOK, Others
  <1>11. Put(p, Idle) => Ends(p) /\ RunOK'
    BY <1>2 DEF Put, RunOK, Others, Ends
  <1>12. /\ run[p].pc = "preview"
         /\ \/ tree # NoTree /\ Put(p, r) /\ UNCHANGED lock
            \/ lock' = NoRun /\ run[p].made = "yes" /\ Put(p, s)
            \/ lock' = NoRun /\ Put(p, Idle)
         /\ UNCHANGED <<job, tree, ref, facade, dir, shown, launches, calls, edits, kills>>
    BY <1>3, <1>7 DEF Preview, At, Put, To
  <1> QED
    BY <1>4, <1>6, <1>8, <1>10, <1>11, <1>12, <1>1 DEF PreviewMove, Moves, Ends, Asked,
       Owned, Knows

\* What agy-worker.sh's preview does.
LEMMA RepreviewMoves ==
  ASSUME RunOK, TreeOK, Approvals, NEW p \in Runs, Repreview(p)
  PROVE  RepreviewMove(p) /\ RunOK'
  <1>1. Measured(p) \in Authorities
    BY DEF TreeOK, Approvals, Measured, Authority, Authorities, Repreview, At
  <1>2. run[p] \in RunStates /\ Idle \in RunStates
    BY IdleType DEF RunOK
  <1>3. PICK r : r = [run[p] EXCEPT !.pc = "match", !.seen = Measured(p)]
    OBVIOUS
  <1>4. /\ r.pc = "match" /\ r.seen = Measured(p) /\ r.call = run[p].call
        /\ r.task = run[p].task /\ r.approval = run[p].approval
        /\ r.made = run[p].made /\ r.owns = run[p].owns
        /\ r.alone = run[p].alone /\ r.job = run[p].job
        /\ r.bound = run[p].bound
    BY <1>3, <1>2 DEF RunStates
  <1>5. r \in RunStates
    BY <1>3, <1>2, <1>1 DEF RunStates, Pcs, ChildPcs, InitPcs, LaunchPcs, UndoPcs
  <1>6. Put(p, r) => run'[p] = r /\ Others(p) /\ RunOK'
    BY <1>5, <1>2 DEF Put, RunOK, Others
  <1>7. PICK s : s = [run[p] EXCEPT !.pc = "failed"]
    OBVIOUS
  <1>8. /\ s.pc = "failed" /\ s.call = run[p].call /\ s.task = run[p].task
        /\ s.approval = run[p].approval /\ s.made = run[p].made
        /\ s.owns = run[p].owns /\ s.alone = run[p].alone
        /\ s.job = run[p].job /\ s.bound = run[p].bound
        /\ s.seen = run[p].seen
    BY <1>7, <1>2 DEF RunStates
  <1>9. s \in RunStates
    BY <1>7, <1>2, <1>1 DEF RunStates, Pcs, ChildPcs, InitPcs, LaunchPcs, UndoPcs
  <1>10. Put(p, s) => run'[p] = s /\ Others(p) /\ RunOK'
    BY <1>9, <1>2 DEF Put, RunOK, Others
  <1>11. Put(p, Idle) => Ends(p) /\ RunOK'
    BY <1>2 DEF Put, RunOK, Others, Ends
  <1>12. /\ run[p].pc = "repreview"
         /\ (tree # NoTree /\ Put(p, r)) \/ Put(p, s) \/ Put(p, Idle)
         /\ UNCHANGED <<job, tree, ref, facade, dir, lock, shown, launches, calls, edits, kills>>
    BY <1>3, <1>7 DEF Repreview, At, Put, To, Resume
  <1> QED
    BY <1>4, <1>6, <1>8, <1>10, <1>11, <1>12, <1>1 DEF RepreviewMove, Moves, Ends, Asked,
       Owned, Knows

\* What binding the preview does.
LEMMA BindMoves ==
  ASSUME RunOK, FacadeOK, NEW p \in Runs, Bind(p)
  PROVE  BindMove(p) /\ RunOK'
  <1>1. run[p].call \in 0 .. MaxCalls /\ run[p].bound.id \in 0 .. MaxCalls
    BY DEF RunOK, RunStates, Facades
  <1>2. run[p] \in RunStates /\ Idle \in RunStates
    BY IdleType DEF RunOK
  <1>3. PICK r : r = [run[p] EXCEPT !.pc = "check", !.owns = run[p].call]
    OBVIOUS
  <1>4. /\ r.pc = "check" /\ r.owns = run[p].call /\ r.call = run[p].call
        /\ r.task = run[p].task /\ r.approval = run[p].approval
        /\ r.made = run[p].made /\ r.alone = run[p].alone
        /\ r.job = run[p].job /\ r.bound = run[p].bound
        /\ r.seen = run[p].seen
    BY <1>3, <1>2 DEF RunStates
  <1>5. r \in RunStates
    BY <1>3, <1>2, <1>1 DEF RunStates, Pcs, ChildPcs, InitPcs, LaunchPcs, UndoPcs
  <1>6. Put(p, r) => run'[p] = r /\ Others(p) /\ RunOK'
    BY <1>5, <1>2 DEF Put, RunOK, Others
  <1>7. PICK s : s = [run[p] EXCEPT !.pc = "check", !.owns = run[p].bound.id]
    OBVIOUS
  <1>8. /\ s.pc = "check" /\ s.owns = run[p].bound.id /\ s.call = run[p].call
        /\ s.task = run[p].task /\ s.approval = run[p].approval
        /\ s.made = run[p].made /\ s.alone = run[p].alone
        /\ s.job = run[p].job /\ s.bound = run[p].bound
        /\ s.seen = run[p].seen
    BY <1>7, <1>2 DEF RunStates
  <1>9. s \in RunStates
    BY <1>7, <1>2, <1>1 DEF RunStates, Pcs, ChildPcs, InitPcs, LaunchPcs, UndoPcs
  <1>10. Put(p, s) => run'[p] = s /\ Others(p) /\ RunOK'
    BY <1>9, <1>2 DEF Put, RunOK, Others
  <1>11. Put(p, Idle) => Ends(p) /\ RunOK'
    BY <1>2 DEF Put, RunOK, Others, Ends
  <1>12. /\ run[p].pc = "bind" /\ lock' = NoRun
         /\ \/ /\ facade = NoFacade
               /\ facade' = [id |-> run[p].call, job |-> run[p].job, tree |-> tree.gen,
                             authority |-> run[p].seen]
               /\ \/ run[p].approval = NoAuthority /\ shown' = shown \union {run[p].seen} /\ Put(p, Idle)
                  \/ /\ run[p].approval # NoAuthority /\ run[p].approval = run[p].seen
                     /\ UNCHANGED shown /\ Put(p, r)
                  \/ UNCHANGED shown /\ Put(p, Idle)
            \/ /\ run[p].bound # NoFacade /\ run[p].bound.job = run[p].job /\ UNCHANGED facade
               /\ \/ run[p].approval = NoAuthority /\ shown' = shown \union {run[p].seen} /\ Put(p, Idle)
                  \/ /\ run[p].approval # NoAuthority /\ run[p].approval = run[p].seen
                     /\ UNCHANGED shown /\ Put(p, s)
                  \/ UNCHANGED shown /\ Put(p, Idle)
            \/ UNCHANGED <<facade, shown>> /\ Put(p, Idle)
         /\ UNCHANGED <<job, tree, ref, dir, launches, calls, edits, kills>>
    BY <1>3, <1>7 DEF Bind, At, Put, Decide, Binding, Bound
  <1> QED
    BY <1>4, <1>6, <1>8, <1>10, <1>11, <1>12, <1>1 DEF BindMove, Moves, Ends, Asked,
       Owned, Knows, DecideMove

\* What the second reading of job.json does.
LEMMA UndoReadMoves ==
  ASSUME RunOK, JobOK, NEW p \in Runs, UndoRead(p)
  PROVE  UndoReadMove(p) /\ RunOK'
  <1>1. job.gen \in 0 .. MaxCalls
    BY DEF JobOK
  <1>2. run[p] \in RunStates /\ Idle \in RunStates
    BY IdleType DEF RunOK
  <1>3. PICK r : r = [run[p] EXCEPT !.pc = "undo-lock", !.job = job.gen]
    OBVIOUS
  <1>4. /\ r.pc = "undo-lock" /\ r.job = job.gen /\ r.call = run[p].call
        /\ r.task = run[p].task /\ r.approval = run[p].approval
        /\ r.made = run[p].made /\ r.owns = run[p].owns
        /\ r.alone = run[p].alone /\ r.bound = run[p].bound
        /\ r.seen = run[p].seen
    BY <1>3, <1>2 DEF RunStates
  <1>5. r \in RunStates
    BY <1>3, <1>2, <1>1 DEF RunStates, Pcs, ChildPcs, InitPcs, LaunchPcs, UndoPcs
  <1>6. Put(p, r) => run'[p] = r /\ Others(p) /\ RunOK'
    BY <1>5, <1>2 DEF Put, RunOK, Others
  <1>7. Put(p, Idle) => Ends(p) /\ RunOK'
    BY <1>2 DEF Put, RunOK, Others, Ends
  <1>8. /\ run[p].pc = "undo-read"
        /\ (JobBound /\ Put(p, r)) \/ Put(p, Idle)
        /\ UNCHANGED <<job, tree, ref, facade, dir, lock, shown, launches, calls, edits, kills>>
    BY <1>3 DEF UndoRead, At, Put
  <1> QED
    BY <1>4, <1>6, <1>7, <1>8, <1>1 DEF UndoReadMove, Moves, Ends, Asked, Owned, Knows


\* A step that only moves an invocation on, or ends it.
LEMMA ToMoves ==
  ASSUME RunOK, NEW p \in Runs, NEW x, run' = [run EXCEPT ![p] = To(p, x)]
  PROVE  Moves(p, x) /\ Asked(p) /\ Owned(p) /\ Knows(p)
  <1>1. run[p] \in RunStates
    BY DEF RunOK
  <1>2. run'[p] = To(p, x) /\ Others(p)
    BY DEF RunOK, Others
  <1>3. PICK r : r = To(p, x)
    OBVIOUS
  <1>4. /\ r.pc = x /\ r.call = run[p].call /\ r.task = run[p].task
        /\ r.approval = run[p].approval /\ r.made = run[p].made /\ r.owns = run[p].owns
        /\ r.alone = run[p].alone /\ r.job = run[p].job /\ r.bound = run[p].bound
        /\ r.seen = run[p].seen
    BY <1>1, <1>3 DEF To, RunStates
  <1> QED
    BY <1>2, <1>3, <1>4 DEF Moves, Asked, Owned, Knows

\* A kill ends an invocation or leaves its child alone.
LEMMA KillMoves ==
  ASSUME RunOK, NEW p \in Runs, Kill(p)
  PROVE  \/ Ends(p)
         \/ Moves(p, run[p].pc) /\ Asked(p) /\ Knows(p)
            /\ run'[p].made = run[p].made /\ run'[p].owns = run[p].owns
  <1>1. PICK r : r = [run[p] EXCEPT !.alone = "yes"]
    OBVIOUS
  <1>2. run[p] \in RunStates
    BY DEF RunOK
  <1>3. /\ r.pc = run[p].pc /\ r.call = run[p].call /\ r.task = run[p].task
        /\ r.approval = run[p].approval /\ r.made = run[p].made /\ r.owns = run[p].owns
        /\ r.job = run[p].job /\ r.bound = run[p].bound /\ r.seen = run[p].seen
    BY <1>1, <1>2 DEF RunStates
  <1>4. Put(p, Idle) \/ Put(p, r)
    BY <1>1 DEF Kill, Put
  <1>5. Put(p, r) => run'[p] = r /\ Others(p)
    BY DEF Put, RunOK, Others
  <1>6. Put(p, Idle) => Ends(p)
    BY DEF Put, RunOK, Others, Ends
  <1> QED
    BY <1>3, <1>4, <1>5, <1>6 DEF Moves, Asked, Knows

\* The end of an invocation leaves workflow.json known by its maker.
LEMMA EndsMakers ==
  ASSUME Makers, Numbers, RunOK, FacadeOK, CountOK, NEW p \in Runs, Ends(p),
         UNCHANGED <<facade, calls>>
  PROVE  Makers'
  <1>1. run'[p].pc = "idle" /\ run'[p].owns = 0 /\ run'[p].made = "no"
    BY DEF Ends, Idle
  <1>2. "idle" \notin Early \union {"preview", "bind"}
    BY DEF Early
  <1>3. \A q \in Runs : run[q].pc \in Early => run[q].call # 0
    <2>1. \A q \in Runs : run[q].call \in Nat
      BY BoundsAssumption DEF RunOK, RunStates
    <2> QED
      BY <2>1 DEF Numbers, Early
  <1>4. calls \in Nat
    BY BoundsAssumption DEF CountOK
  <1>5. ASSUME NEW q \in Runs, q # p
        PROVE  /\ run[q].owns <= calls
               /\ run[q].pc \in {"preview", "bind"} /\ run[q].bound # NoFacade =>
                    facade = run[q].bound
               /\ run[q].made = "yes" /\ run[q].owns # 0 /\ facade.id = run[q].owns =>
                    facade.job = run[q].call
               /\ run[q].pc \in Early =>
                    /\ facade.id # run[q].call /\ run[q].owns = 0
                    /\ \A o \in Runs : run'[o].owns # run[q].call
    <2>1. run[q].pc \in Early => \A o \in Runs : run'[o].owns # run[q].call
      BY <1>1, <1>3 DEF Makers, Ends, Others
    <2> QED
      BY <2>1 DEF Makers
  <1>6. facade'.id <= calls' /\ (facade'.id = 0 => facade' = NoFacade)
    BY DEF Makers
  <1>7. \A q \in Runs : q # p => run'[q] = run[q]
    BY DEF Ends, Others
  <1>8. run'[p].owns <= calls'
    BY <1>1, <1>4
  <1> QED
    BY <1>1, <1>2, <1>5, <1>6, <1>7, <1>8 DEF Makers

-----------------------------------------------------------------------------
\* job.json stays of its type.
LEMMA JobTypes ==
  ASSUME Approvals, JobOK, RunOK, TreeOK, FacadeOK, ShownOK, CountOK, [Next]_vars
  PROVE  JobOK'
<1>1. ASSUME NEW p \in Runs, NEW t \in Tasks, NEW a \in shown \union {NoAuthority},
            Begin(p, t, a)
     PROVE  JobOK'
  <2>1. BeginMove(p, t, a)
    BY <1>1, BeginMoves
  <2> QED
    BY <2>1, BoundsAssumption DEF BeginMove, Others, Moves, Ends, Idle, Asked, Owned,
       Knows, JobOK, RunOK, RunStates, NoJob
<1>2. ASSUME NEW p \in Runs, InitRecord(p) PROVE JobOK'
  BY <1>2, BoundsAssumption DEF InitRecord, Put, At, To, Idle, JobOK, RunOK, RunStates,
     NoJob
<1>3. ASSUME NEW p \in Runs, InitAdd(p) PROVE JobOK'
  BY <1>3, BoundsAssumption DEF InitAdd, Put, At, To, Idle, JobOK, RunOK, RunStates, NoJob
<1>4. ASSUME NEW p \in Runs, InitReady(p) PROVE JobOK'
  <2>1. InitReadyMove(p)
    BY <1>4, InitReadyMoves
  <2> QED
    BY <2>1, BoundsAssumption DEF InitReadyMove, Others, Moves, Ends, Idle, Asked, Owned,
       Knows, JobOK, RunOK, RunStates, NoJob
<1>5. ASSUME NEW p \in Runs, Snapshot(p) PROVE JobOK'
  <2>1. SnapshotMove(p)
    BY <1>5, SnapshotMoves
  <2> QED
    BY <2>1, BoundsAssumption DEF SnapshotMove, Ready, JobBound, Others, Moves, Ends,
       Idle, Asked, Owned, Knows, JobOK, RunOK, RunStates, NoJob
<1>6. ASSUME NEW p \in Runs, Open(p) PROVE JobOK'
  <2>1. OpenMove(p)
    BY <1>6, OpenMoves
  <2> QED
    BY <2>1, BoundsAssumption DEF OpenMove, Others, Moves, Ends, Idle, Asked, Owned,
       Knows, JobOK, RunOK, RunStates, NoJob
<1>7. ASSUME NEW p \in Runs, Preview(p) PROVE JobOK'
  <2>1. PreviewMove(p)
    BY <1>7, PreviewMoves
  <2> QED
    BY <2>1, BoundsAssumption DEF PreviewMove, Measured, Others, Moves, Ends, Idle, Asked,
       Owned, Knows, JobOK, RunOK, RunStates, NoJob
<1>8. ASSUME NEW p \in Runs, Bind(p) PROVE JobOK'
  <2>1. BindMove(p)
    BY <1>8, BindMoves
  <2> QED
    BY <2>1, BoundsAssumption DEF BindMove, DecideMove, Others, Moves, Ends, Idle, Asked,
       Owned, Knows, JobOK, RunOK, RunStates, NoJob
<1>9. ASSUME NEW p \in Runs, CheckRecord(p) PROVE JobOK'
  BY <1>9, BoundsAssumption DEF CheckRecord, Resume, RecordApproved, Put, At, To, Idle,
     JobOK, RunOK, RunStates, NoJob
<1>10. ASSUME NEW p \in Runs, MakeDir(p) PROVE JobOK'
  BY <1>10, BoundsAssumption DEF MakeDir, Resume, Put, At, To, Idle, JobOK, RunOK,
     RunStates, NoJob
<1>11. ASSUME NEW p \in Runs, Select(p) PROVE JobOK'
  BY <1>11, BoundsAssumption DEF Select, Resume, Put, At, To, Idle, JobOK, RunOK,
     RunStates, NoJob
<1>12. ASSUME NEW p \in Runs, Repreview(p) PROVE JobOK'
  <2>1. RepreviewMove(p)
    BY <1>12, RepreviewMoves
  <2> QED
    BY <2>1, BoundsAssumption DEF RepreviewMove, Measured, Others, Moves, Ends, Idle,
       Asked, Owned, Knows, JobOK, RunOK, RunStates, NoJob
<1>13. ASSUME NEW p \in Runs, Match(p) PROVE JobOK'
  BY <1>13, BoundsAssumption DEF Match, Resume, RecordApproved, Put, At, To, Idle, JobOK,
     RunOK, RunStates, NoJob
<1>14. ASSUME NEW p \in Runs, Launch(p) PROVE JobOK'
  BY <1>14, BoundsAssumption DEF Launch, Resume, Put, At, To, Idle, JobOK, RunOK,
     RunStates, NoJob
<1>15. ASSUME NEW p \in Runs, Failed(p) PROVE JobOK'
  BY <1>15, BoundsAssumption DEF Failed, Put, At, To, Idle, JobOK, RunOK, RunStates, NoJob
<1>16. ASSUME NEW p \in Runs, UndoRead(p) PROVE JobOK'
  <2>1. UndoReadMove(p)
    BY <1>16, UndoReadMoves
  <2> QED
    BY <2>1, BoundsAssumption DEF UndoReadMove, JobBound, Others, Moves, Ends, Idle,
       Asked, Owned, Knows, JobOK, RunOK, RunStates, NoJob
<1>17. ASSUME NEW p \in Runs, UndoLock(p) PROVE JobOK'
  BY <1>17, BoundsAssumption DEF UndoLock, Put, At, To, Idle, JobOK, RunOK, RunStates,
     NoJob
<1>18. ASSUME NEW p \in Runs, UndoInspect(p) PROVE JobOK'
  BY <1>18, BoundsAssumption DEF UndoInspect, Ready, JobBound, Put, At, To, Idle, JobOK,
     RunOK, RunStates, NoJob
<1>19. ASSUME NEW p \in Runs, UndoTree(p) PROVE JobOK'
  BY <1>19, BoundsAssumption DEF UndoTree, Put, At, To, Idle, JobOK, RunOK, RunStates,
     NoJob
<1>20. ASSUME NEW p \in Runs, UndoRef(p) PROVE JobOK'
  BY <1>20, BoundsAssumption DEF UndoRef, Put, At, To, Idle, JobOK, RunOK, RunStates,
     NoJob
<1>21. ASSUME NEW p \in Runs, UndoState(p) PROVE JobOK'
  BY <1>21, BoundsAssumption DEF UndoState, Resume, Put, At, To, Idle, JobOK, RunOK,
     RunStates, NoJob
<1>22. ASSUME NEW p \in Runs, Discard(p) PROVE JobOK'
  BY <1>22, BoundsAssumption DEF Discard, Put, At, To, Idle, JobOK, RunOK, RunStates,
     NoJob
<1>23. ASSUME NEW p \in Runs, Kill(p) PROVE JobOK'
  BY <1>23, BoundsAssumption DEF Kill, ChildPcs, Put, At, To, Idle, JobOK, RunOK,
     RunStates, NoJob
<1>24. ASSUME NEW k \in Contents, Edit(k) PROVE JobOK'
  BY <1>24, BoundsAssumption DEF Edit, JobOK, RunOK, RunStates, NoJob
<1>25. CASE UNCHANGED vars
  BY <1>25 DEF vars, JobOK, RunOK, RunStates, NoJob
<1> QED
  BY <1>1, <1>2, <1>3, <1>4, <1>5, <1>6, <1>7, <1>8, <1>9, <1>10, <1>11, <1>12, <1>13,
     <1>14, <1>15, <1>16, <1>17, <1>18, <1>19, <1>20, <1>21, <1>22, <1>23, <1>24, <1>25
     DEF Next

\* The worktree and the branch stay of their types.
LEMMA TreeTypes ==
  ASSUME TreeOK, RunOK, JobOK, FacadeOK, ShownOK, CountOK, Approvals, [Next]_vars
  PROVE  TreeOK'
<1>1. ASSUME NEW p \in Runs, NEW t \in Tasks, NEW a \in shown \union {NoAuthority},
            Begin(p, t, a)
     PROVE  TreeOK'
  <2>1. BeginMove(p, t, a)
    BY <1>1, BeginMoves
  <2> QED
    BY <2>1, BoundsAssumption DEF BeginMove, Others, Moves, Ends, Idle, Asked, Owned,
       Knows, TreeOK, RunOK, RunStates, NoTree, Contents
<1>2. ASSUME NEW p \in Runs, InitRecord(p) PROVE TreeOK'
  BY <1>2, BoundsAssumption DEF InitRecord, Put, At, To, Idle, TreeOK, RunOK, RunStates,
     NoTree, Contents
<1>3. ASSUME NEW p \in Runs, InitAdd(p) PROVE TreeOK'
  BY <1>3, BoundsAssumption DEF InitAdd, Put, At, To, Idle, TreeOK, RunOK, RunStates,
     NoTree, Contents
<1>4. ASSUME NEW p \in Runs, InitReady(p) PROVE TreeOK'
  <2>1. InitReadyMove(p)
    BY <1>4, InitReadyMoves
  <2> QED
    BY <2>1, BoundsAssumption DEF InitReadyMove, Others, Moves, Ends, Idle, Asked, Owned,
       Knows, TreeOK, RunOK, RunStates, NoTree, Contents
<1>5. ASSUME NEW p \in Runs, Snapshot(p) PROVE TreeOK'
  <2>1. SnapshotMove(p)
    BY <1>5, SnapshotMoves
  <2> QED
    BY <2>1, BoundsAssumption DEF SnapshotMove, Ready, JobBound, Others, Moves, Ends,
       Idle, Asked, Owned, Knows, TreeOK, RunOK, RunStates, NoTree, Contents
<1>6. ASSUME NEW p \in Runs, Open(p) PROVE TreeOK'
  <2>1. OpenMove(p)
    BY <1>6, OpenMoves
  <2> QED
    BY <2>1, BoundsAssumption DEF OpenMove, Others, Moves, Ends, Idle, Asked, Owned,
       Knows, TreeOK, RunOK, RunStates, NoTree, Contents
<1>7. ASSUME NEW p \in Runs, Preview(p) PROVE TreeOK'
  <2>1. PreviewMove(p)
    BY <1>7, PreviewMoves
  <2> QED
    BY <2>1, BoundsAssumption DEF PreviewMove, Measured, Others, Moves, Ends, Idle, Asked,
       Owned, Knows, TreeOK, RunOK, RunStates, NoTree, Contents
<1>8. ASSUME NEW p \in Runs, Bind(p) PROVE TreeOK'
  <2>1. BindMove(p)
    BY <1>8, BindMoves
  <2> QED
    BY <2>1, BoundsAssumption DEF BindMove, DecideMove, Others, Moves, Ends, Idle, Asked,
       Owned, Knows, TreeOK, RunOK, RunStates, NoTree, Contents
<1>9. ASSUME NEW p \in Runs, CheckRecord(p) PROVE TreeOK'
  BY <1>9, BoundsAssumption DEF CheckRecord, Resume, RecordApproved, Put, At, To, Idle,
     TreeOK, RunOK, RunStates, NoTree, Contents
<1>10. ASSUME NEW p \in Runs, MakeDir(p) PROVE TreeOK'
  BY <1>10, BoundsAssumption DEF MakeDir, Resume, Put, At, To, Idle, TreeOK, RunOK,
     RunStates, NoTree, Contents
<1>11. ASSUME NEW p \in Runs, Select(p) PROVE TreeOK'
  BY <1>11, BoundsAssumption DEF Select, Resume, Put, At, To, Idle, TreeOK, RunOK,
     RunStates, NoTree, Contents
<1>12. ASSUME NEW p \in Runs, Repreview(p) PROVE TreeOK'
  <2>1. RepreviewMove(p)
    BY <1>12, RepreviewMoves
  <2> QED
    BY <2>1, BoundsAssumption DEF RepreviewMove, Measured, Others, Moves, Ends, Idle,
       Asked, Owned, Knows, TreeOK, RunOK, RunStates, NoTree, Contents
<1>13. ASSUME NEW p \in Runs, Match(p) PROVE TreeOK'
  BY <1>13, BoundsAssumption DEF Match, Resume, RecordApproved, Put, At, To, Idle, TreeOK,
     RunOK, RunStates, NoTree, Contents
<1>14. ASSUME NEW p \in Runs, Launch(p) PROVE TreeOK'
  BY <1>14, BoundsAssumption DEF Launch, Resume, Put, At, To, Idle, TreeOK, RunOK,
     RunStates, NoTree, Contents
<1>15. ASSUME NEW p \in Runs, Failed(p) PROVE TreeOK'
  BY <1>15, BoundsAssumption DEF Failed, Put, At, To, Idle, TreeOK, RunOK, RunStates,
     NoTree, Contents
<1>16. ASSUME NEW p \in Runs, UndoRead(p) PROVE TreeOK'
  <2>1. UndoReadMove(p)
    BY <1>16, UndoReadMoves
  <2> QED
    BY <2>1, BoundsAssumption DEF UndoReadMove, JobBound, Others, Moves, Ends, Idle,
       Asked, Owned, Knows, TreeOK, RunOK, RunStates, NoTree, Contents
<1>17. ASSUME NEW p \in Runs, UndoLock(p) PROVE TreeOK'
  BY <1>17, BoundsAssumption DEF UndoLock, Put, At, To, Idle, TreeOK, RunOK, RunStates,
     NoTree, Contents
<1>18. ASSUME NEW p \in Runs, UndoInspect(p) PROVE TreeOK'
  BY <1>18, BoundsAssumption DEF UndoInspect, Ready, JobBound, Put, At, To, Idle, TreeOK,
     RunOK, RunStates, NoTree, Contents
<1>19. ASSUME NEW p \in Runs, UndoTree(p) PROVE TreeOK'
  BY <1>19, BoundsAssumption DEF UndoTree, Put, At, To, Idle, TreeOK, RunOK, RunStates,
     NoTree, Contents
<1>20. ASSUME NEW p \in Runs, UndoRef(p) PROVE TreeOK'
  BY <1>20, BoundsAssumption DEF UndoRef, Put, At, To, Idle, TreeOK, RunOK, RunStates,
     NoTree, Contents
<1>21. ASSUME NEW p \in Runs, UndoState(p) PROVE TreeOK'
  BY <1>21, BoundsAssumption DEF UndoState, Resume, Put, At, To, Idle, TreeOK, RunOK,
     RunStates, NoTree, Contents
<1>22. ASSUME NEW p \in Runs, Discard(p) PROVE TreeOK'
  BY <1>22, BoundsAssumption DEF Discard, Put, At, To, Idle, TreeOK, RunOK, RunStates,
     NoTree, Contents
<1>23. ASSUME NEW p \in Runs, Kill(p) PROVE TreeOK'
  BY <1>23, BoundsAssumption DEF Kill, ChildPcs, Put, At, To, Idle, TreeOK, RunOK,
     RunStates, NoTree, Contents
<1>24. ASSUME NEW k \in Contents, Edit(k) PROVE TreeOK'
  BY <1>24, BoundsAssumption DEF Edit, TreeOK, RunOK, RunStates, NoTree, Contents
<1>25. CASE UNCHANGED vars
  BY <1>25 DEF vars, TreeOK, RunOK, RunStates, NoTree, Contents
<1> QED
  BY <1>1, <1>2, <1>3, <1>4, <1>5, <1>6, <1>7, <1>8, <1>9, <1>10, <1>11, <1>12, <1>13,
     <1>14, <1>15, <1>16, <1>17, <1>18, <1>19, <1>20, <1>21, <1>22, <1>23, <1>24, <1>25
     DEF Next

\* workflow.json stays of its type.
LEMMA FacadeTypes ==
  ASSUME FacadeOK, TreeOK, RunOK, JobOK, ShownOK, CountOK, Approvals, [Next]_vars
  PROVE  FacadeOK'
<1>1. ASSUME NEW p \in Runs, NEW t \in Tasks, NEW a \in shown \union {NoAuthority},
            Begin(p, t, a)
     PROVE  FacadeOK'
  <2>1. BeginMove(p, t, a)
    BY <1>1, BeginMoves
  <2> QED
    BY <2>1, BoundsAssumption DEF BeginMove, Others, Moves, Ends, Idle, Asked, Owned,
       Knows, FacadeOK, Facades, RunOK, RunStates, TreeOK, NoFacade
<1>2. ASSUME NEW p \in Runs, InitRecord(p) PROVE FacadeOK'
  BY <1>2, BoundsAssumption DEF InitRecord, Put, At, To, Idle, FacadeOK, Facades, RunOK,
     RunStates, TreeOK, NoFacade
<1>3. ASSUME NEW p \in Runs, InitAdd(p) PROVE FacadeOK'
  BY <1>3, BoundsAssumption DEF InitAdd, Put, At, To, Idle, FacadeOK, Facades, RunOK,
     RunStates, TreeOK, NoFacade
<1>4. ASSUME NEW p \in Runs, InitReady(p) PROVE FacadeOK'
  <2>1. InitReadyMove(p)
    BY <1>4, InitReadyMoves
  <2> QED
    BY <2>1, BoundsAssumption DEF InitReadyMove, Others, Moves, Ends, Idle, Asked, Owned,
       Knows, FacadeOK, Facades, RunOK, RunStates, TreeOK, NoFacade
<1>5. ASSUME NEW p \in Runs, Snapshot(p) PROVE FacadeOK'
  <2>1. SnapshotMove(p)
    BY <1>5, SnapshotMoves
  <2> QED
    BY <2>1, BoundsAssumption DEF SnapshotMove, Ready, JobBound, Others, Moves, Ends,
       Idle, Asked, Owned, Knows, FacadeOK, Facades, RunOK, RunStates, TreeOK, NoFacade
<1>6. ASSUME NEW p \in Runs, Open(p) PROVE FacadeOK'
  <2>1. OpenMove(p)
    BY <1>6, OpenMoves
  <2> QED
    BY <2>1, BoundsAssumption DEF OpenMove, Others, Moves, Ends, Idle, Asked, Owned,
       Knows, FacadeOK, Facades, RunOK, RunStates, TreeOK, NoFacade
<1>7. ASSUME NEW p \in Runs, Preview(p) PROVE FacadeOK'
  <2>1. PreviewMove(p)
    BY <1>7, PreviewMoves
  <2> QED
    BY <2>1, BoundsAssumption DEF PreviewMove, Measured, Others, Moves, Ends, Idle, Asked,
       Owned, Knows, FacadeOK, Facades, RunOK, RunStates, TreeOK, NoFacade
<1>8. ASSUME NEW p \in Runs, Bind(p) PROVE FacadeOK'
  <2>1. BindMove(p)
    BY <1>8, BindMoves
  <2> QED
    BY <2>1, BoundsAssumption DEF BindMove, DecideMove, Others, Moves, Ends, Idle, Asked,
       Owned, Knows, FacadeOK, Facades, RunOK, RunStates, TreeOK, NoFacade
<1>9. ASSUME NEW p \in Runs, CheckRecord(p) PROVE FacadeOK'
  BY <1>9, BoundsAssumption DEF CheckRecord, Resume, RecordApproved, Put, At, To, Idle,
     FacadeOK, Facades, RunOK, RunStates, TreeOK, NoFacade
<1>10. ASSUME NEW p \in Runs, MakeDir(p) PROVE FacadeOK'
  BY <1>10, BoundsAssumption DEF MakeDir, Resume, Put, At, To, Idle, FacadeOK, Facades,
     RunOK, RunStates, TreeOK, NoFacade
<1>11. ASSUME NEW p \in Runs, Select(p) PROVE FacadeOK'
  BY <1>11, BoundsAssumption DEF Select, Resume, Put, At, To, Idle, FacadeOK, Facades,
     RunOK, RunStates, TreeOK, NoFacade
<1>12. ASSUME NEW p \in Runs, Repreview(p) PROVE FacadeOK'
  <2>1. RepreviewMove(p)
    BY <1>12, RepreviewMoves
  <2> QED
    BY <2>1, BoundsAssumption DEF RepreviewMove, Measured, Others, Moves, Ends, Idle,
       Asked, Owned, Knows, FacadeOK, Facades, RunOK, RunStates, TreeOK, NoFacade
<1>13. ASSUME NEW p \in Runs, Match(p) PROVE FacadeOK'
  BY <1>13, BoundsAssumption DEF Match, Resume, RecordApproved, Put, At, To, Idle,
     FacadeOK, Facades, RunOK, RunStates, TreeOK, NoFacade
<1>14. ASSUME NEW p \in Runs, Launch(p) PROVE FacadeOK'
  BY <1>14, BoundsAssumption DEF Launch, Resume, Put, At, To, Idle, FacadeOK, Facades,
     RunOK, RunStates, TreeOK, NoFacade
<1>15. ASSUME NEW p \in Runs, Failed(p) PROVE FacadeOK'
  BY <1>15, BoundsAssumption DEF Failed, Put, At, To, Idle, FacadeOK, Facades, RunOK,
     RunStates, TreeOK, NoFacade
<1>16. ASSUME NEW p \in Runs, UndoRead(p) PROVE FacadeOK'
  <2>1. UndoReadMove(p)
    BY <1>16, UndoReadMoves
  <2> QED
    BY <2>1, BoundsAssumption DEF UndoReadMove, JobBound, Others, Moves, Ends, Idle,
       Asked, Owned, Knows, FacadeOK, Facades, RunOK, RunStates, TreeOK, NoFacade
<1>17. ASSUME NEW p \in Runs, UndoLock(p) PROVE FacadeOK'
  BY <1>17, BoundsAssumption DEF UndoLock, Put, At, To, Idle, FacadeOK, Facades, RunOK,
     RunStates, TreeOK, NoFacade
<1>18. ASSUME NEW p \in Runs, UndoInspect(p) PROVE FacadeOK'
  BY <1>18, BoundsAssumption DEF UndoInspect, Ready, JobBound, Put, At, To, Idle,
     FacadeOK, Facades, RunOK, RunStates, TreeOK, NoFacade
<1>19. ASSUME NEW p \in Runs, UndoTree(p) PROVE FacadeOK'
  BY <1>19, BoundsAssumption DEF UndoTree, Put, At, To, Idle, FacadeOK, Facades, RunOK,
     RunStates, TreeOK, NoFacade
<1>20. ASSUME NEW p \in Runs, UndoRef(p) PROVE FacadeOK'
  BY <1>20, BoundsAssumption DEF UndoRef, Put, At, To, Idle, FacadeOK, Facades, RunOK,
     RunStates, TreeOK, NoFacade
<1>21. ASSUME NEW p \in Runs, UndoState(p) PROVE FacadeOK'
  BY <1>21, BoundsAssumption DEF UndoState, Resume, Put, At, To, Idle, FacadeOK, Facades,
     RunOK, RunStates, TreeOK, NoFacade
<1>22. ASSUME NEW p \in Runs, Discard(p) PROVE FacadeOK'
  BY <1>22, BoundsAssumption DEF Discard, Put, At, To, Idle, FacadeOK, Facades, RunOK,
     RunStates, TreeOK, NoFacade
<1>23. ASSUME NEW p \in Runs, Kill(p) PROVE FacadeOK'
  BY <1>23, BoundsAssumption DEF Kill, ChildPcs, Put, At, To, Idle, FacadeOK, Facades,
     RunOK, RunStates, TreeOK, NoFacade
<1>24. ASSUME NEW k \in Contents, Edit(k) PROVE FacadeOK'
  BY <1>24, BoundsAssumption DEF Edit, FacadeOK, Facades, RunOK, RunStates, TreeOK,
     NoFacade
<1>25. CASE UNCHANGED vars
  BY <1>25 DEF vars, FacadeOK, Facades, RunOK, RunStates, TreeOK, NoFacade
<1> QED
  BY <1>1, <1>2, <1>3, <1>4, <1>5, <1>6, <1>7, <1>8, <1>9, <1>10, <1>11, <1>12, <1>13,
     <1>14, <1>15, <1>16, <1>17, <1>18, <1>19, <1>20, <1>21, <1>22, <1>23, <1>24, <1>25
     DEF Next

\* What an invocation knows stays of its type.
LEMMA RunTypes ==
  ASSUME RunOK, JobOK, TreeOK, FacadeOK, ShownOK, CountOK, Approvals, [Next]_vars
  PROVE  RunOK'
<1>1. ASSUME NEW p \in Runs, NEW t \in Tasks, NEW a \in shown \union {NoAuthority},
            Begin(p, t, a)
     PROVE  RunOK'
  BY <1>1, BeginMoves
<1>2. ASSUME NEW p \in Runs, InitRecord(p) PROVE RunOK'
  BY <1>2, IdleType, ToType DEF InitRecord, Put, RunOK, Pcs, ChildPcs, InitPcs, LaunchPcs,
     UndoPcs
<1>3. ASSUME NEW p \in Runs, InitAdd(p) PROVE RunOK'
  BY <1>3, IdleType, ToType DEF InitAdd, Put, RunOK, Pcs, ChildPcs, InitPcs, LaunchPcs,
     UndoPcs
<1>4. ASSUME NEW p \in Runs, InitReady(p) PROVE RunOK'
  BY <1>4, InitReadyMoves
<1>5. ASSUME NEW p \in Runs, Snapshot(p) PROVE RunOK'
  BY <1>5, SnapshotMoves
<1>6. ASSUME NEW p \in Runs, Open(p) PROVE RunOK'
  BY <1>6, OpenMoves
<1>7. ASSUME NEW p \in Runs, Preview(p) PROVE RunOK'
  BY <1>7, PreviewMoves
<1>8. ASSUME NEW p \in Runs, Bind(p) PROVE RunOK'
  BY <1>8, BindMoves
<1>9. ASSUME NEW p \in Runs, CheckRecord(p) PROVE RunOK'
  BY <1>9, IdleType, ToType DEF CheckRecord, Resume, Put, RunOK, Pcs, ChildPcs, InitPcs,
     LaunchPcs, UndoPcs
<1>10. ASSUME NEW p \in Runs, MakeDir(p) PROVE RunOK'
  BY <1>10, IdleType, ToType DEF MakeDir, Resume, Put, RunOK, Pcs, ChildPcs, InitPcs,
     LaunchPcs, UndoPcs
<1>11. ASSUME NEW p \in Runs, Select(p) PROVE RunOK'
  BY <1>11, IdleType, ToType DEF Select, Resume, Put, RunOK, Pcs, ChildPcs, InitPcs,
     LaunchPcs, UndoPcs
<1>12. ASSUME NEW p \in Runs, Repreview(p) PROVE RunOK'
  BY <1>12, RepreviewMoves
<1>13. ASSUME NEW p \in Runs, Match(p) PROVE RunOK'
  BY <1>13, IdleType, ToType DEF Match, Resume, Put, RunOK, Pcs, ChildPcs, InitPcs,
     LaunchPcs, UndoPcs
<1>14. ASSUME NEW p \in Runs, Launch(p) PROVE RunOK'
  BY <1>14, IdleType, ToType DEF Launch, Resume, Put, RunOK, Pcs, ChildPcs, InitPcs,
     LaunchPcs, UndoPcs
<1>15. ASSUME NEW p \in Runs, Failed(p) PROVE RunOK'
  BY <1>15, IdleType, ToType DEF Failed, Put, RunOK, Pcs, ChildPcs, InitPcs, LaunchPcs,
     UndoPcs
<1>16. ASSUME NEW p \in Runs, UndoRead(p) PROVE RunOK'
  BY <1>16, UndoReadMoves
<1>17. ASSUME NEW p \in Runs, UndoLock(p) PROVE RunOK'
  BY <1>17, IdleType, ToType DEF UndoLock, Put, RunOK, Pcs, ChildPcs, InitPcs, LaunchPcs,
     UndoPcs
<1>18. ASSUME NEW p \in Runs, UndoInspect(p) PROVE RunOK'
  BY <1>18, IdleType, ToType DEF UndoInspect, Put, RunOK, Pcs, ChildPcs, InitPcs, LaunchPcs,
     UndoPcs
<1>19. ASSUME NEW p \in Runs, UndoTree(p) PROVE RunOK'
  BY <1>19, IdleType, ToType DEF UndoTree, Put, RunOK, Pcs, ChildPcs, InitPcs, LaunchPcs,
     UndoPcs
<1>20. ASSUME NEW p \in Runs, UndoRef(p) PROVE RunOK'
  BY <1>20, IdleType, ToType DEF UndoRef, Put, RunOK, Pcs, ChildPcs, InitPcs, LaunchPcs,
     UndoPcs
<1>21. ASSUME NEW p \in Runs, UndoState(p) PROVE RunOK'
  BY <1>21, IdleType, ToType DEF UndoState, Resume, Put, RunOK, Pcs, ChildPcs, InitPcs,
     LaunchPcs, UndoPcs
<1>22. ASSUME NEW p \in Runs, Discard(p) PROVE RunOK'
  BY <1>22, IdleType, ToType DEF Discard, Put, RunOK, Pcs, ChildPcs, InitPcs, LaunchPcs,
     UndoPcs
<1>23. ASSUME NEW p \in Runs, Kill(p) PROVE RunOK'
  <2>1. PICK r : r = [run[p] EXCEPT !.alone = "yes"]
    OBVIOUS
  <2>2. run[p] \in RunStates
    BY DEF RunOK
  <2>3. r \in RunStates
    BY <2>1, <2>2 DEF RunStates
  <2>4. Put(p, Idle) \/ Put(p, r)
    BY <1>23, <2>1 DEF Kill, Put
  <2> QED
    BY <2>3, <2>4, IdleType DEF Put, RunOK
<1>24. ASSUME NEW k \in Contents, Edit(k) PROVE RunOK'
  BY <1>24 DEF Edit, RunOK
<1>25. CASE UNCHANGED vars
  BY <1>25 DEF vars, RunOK
<1> QED
  BY <1>1, <1>2, <1>3, <1>4, <1>5, <1>6, <1>7, <1>8, <1>9, <1>10, <1>11, <1>12, <1>13,
     <1>14, <1>15, <1>16, <1>17, <1>18, <1>19, <1>20, <1>21, <1>22, <1>23, <1>24, <1>25
     DEF Next

\* The lock and the dispatch directory stay of their types.
LEMMA LockTypes ==
  ASSUME LockOK, RunOK, JobOK, TreeOK, FacadeOK, ShownOK, CountOK, Approvals, [Next]_vars
  PROVE  LockOK'
<1>1. ASSUME NEW p \in Runs, NEW t \in Tasks, NEW a \in shown \union {NoAuthority},
            Begin(p, t, a)
     PROVE  LockOK'
  <2>1. BeginMove(p, t, a)
    BY <1>1, BeginMoves
  <2> QED
    BY <2>1 DEF BeginMove, Others, Moves, Ends, Idle, Asked, Owned, Knows, LockOK
<1>2. ASSUME NEW p \in Runs, InitRecord(p) PROVE LockOK'
  BY <1>2 DEF InitRecord, Put, At, To, Idle, LockOK
<1>3. ASSUME NEW p \in Runs, InitAdd(p) PROVE LockOK'
  BY <1>3 DEF InitAdd, Put, At, To, Idle, LockOK
<1>4. ASSUME NEW p \in Runs, InitReady(p) PROVE LockOK'
  <2>1. InitReadyMove(p)
    BY <1>4, InitReadyMoves
  <2> QED
    BY <2>1 DEF InitReadyMove, Others, Moves, Ends, Idle, Asked, Owned, Knows, LockOK
<1>5. ASSUME NEW p \in Runs, Snapshot(p) PROVE LockOK'
  <2>1. SnapshotMove(p)
    BY <1>5, SnapshotMoves
  <2> QED
    BY <2>1 DEF SnapshotMove, Ready, JobBound, Others, Moves, Ends, Idle, Asked, Owned,
       Knows, LockOK
<1>6. ASSUME NEW p \in Runs, Open(p) PROVE LockOK'
  <2>1. OpenMove(p)
    BY <1>6, OpenMoves
  <2> QED
    BY <2>1 DEF OpenMove, Others, Moves, Ends, Idle, Asked, Owned, Knows, LockOK
<1>7. ASSUME NEW p \in Runs, Preview(p) PROVE LockOK'
  <2>1. PreviewMove(p)
    BY <1>7, PreviewMoves
  <2> QED
    BY <2>1 DEF PreviewMove, Measured, Others, Moves, Ends, Idle, Asked, Owned, Knows,
       LockOK
<1>8. ASSUME NEW p \in Runs, Bind(p) PROVE LockOK'
  <2>1. BindMove(p)
    BY <1>8, BindMoves
  <2> QED
    BY <2>1 DEF BindMove, DecideMove, Others, Moves, Ends, Idle, Asked, Owned, Knows,
       LockOK
<1>9. ASSUME NEW p \in Runs, CheckRecord(p) PROVE LockOK'
  BY <1>9 DEF CheckRecord, Resume, RecordApproved, Put, At, To, Idle, LockOK
<1>10. ASSUME NEW p \in Runs, MakeDir(p) PROVE LockOK'
  BY <1>10 DEF MakeDir, Resume, Put, At, To, Idle, LockOK
<1>11. ASSUME NEW p \in Runs, Select(p) PROVE LockOK'
  BY <1>11 DEF Select, Resume, Put, At, To, Idle, LockOK
<1>12. ASSUME NEW p \in Runs, Repreview(p) PROVE LockOK'
  <2>1. RepreviewMove(p)
    BY <1>12, RepreviewMoves
  <2> QED
    BY <2>1 DEF RepreviewMove, Measured, Others, Moves, Ends, Idle, Asked, Owned, Knows,
       LockOK
<1>13. ASSUME NEW p \in Runs, Match(p) PROVE LockOK'
  BY <1>13 DEF Match, Resume, RecordApproved, Put, At, To, Idle, LockOK
<1>14. ASSUME NEW p \in Runs, Launch(p) PROVE LockOK'
  BY <1>14 DEF Launch, Resume, Put, At, To, Idle, LockOK
<1>15. ASSUME NEW p \in Runs, Failed(p) PROVE LockOK'
  BY <1>15 DEF Failed, Put, At, To, Idle, LockOK
<1>16. ASSUME NEW p \in Runs, UndoRead(p) PROVE LockOK'
  <2>1. UndoReadMove(p)
    BY <1>16, UndoReadMoves
  <2> QED
    BY <2>1 DEF UndoReadMove, JobBound, Others, Moves, Ends, Idle, Asked, Owned, Knows,
       LockOK
<1>17. ASSUME NEW p \in Runs, UndoLock(p) PROVE LockOK'
  BY <1>17 DEF UndoLock, Put, At, To, Idle, LockOK
<1>18. ASSUME NEW p \in Runs, UndoInspect(p) PROVE LockOK'
  BY <1>18 DEF UndoInspect, Ready, JobBound, Put, At, To, Idle, LockOK
<1>19. ASSUME NEW p \in Runs, UndoTree(p) PROVE LockOK'
  BY <1>19 DEF UndoTree, Put, At, To, Idle, LockOK
<1>20. ASSUME NEW p \in Runs, UndoRef(p) PROVE LockOK'
  BY <1>20 DEF UndoRef, Put, At, To, Idle, LockOK
<1>21. ASSUME NEW p \in Runs, UndoState(p) PROVE LockOK'
  BY <1>21 DEF UndoState, Resume, Put, At, To, Idle, LockOK
<1>22. ASSUME NEW p \in Runs, Discard(p) PROVE LockOK'
  BY <1>22 DEF Discard, Put, At, To, Idle, LockOK
<1>23. ASSUME NEW p \in Runs, Kill(p) PROVE LockOK'
  BY <1>23 DEF Kill, ChildPcs, Put, At, To, Idle, LockOK
<1>24. ASSUME NEW k \in Contents, Edit(k) PROVE LockOK'
  BY <1>24 DEF Edit, LockOK
<1>25. CASE UNCHANGED vars
  BY <1>25 DEF vars, LockOK
<1> QED
  BY <1>1, <1>2, <1>3, <1>4, <1>5, <1>6, <1>7, <1>8, <1>9, <1>10, <1>11, <1>12, <1>13,
     <1>14, <1>15, <1>16, <1>17, <1>18, <1>19, <1>20, <1>21, <1>22, <1>23, <1>24, <1>25
     DEF Next

\* What was shown, approved and launched stays of its type.
LEMMA ShownTypes ==
  ASSUME ShownOK, RunOK, Approvals, JobOK, TreeOK, FacadeOK, CountOK, [Next]_vars
  PROVE  ShownOK'
<1>1. ASSUME NEW p \in Runs, NEW t \in Tasks, NEW a \in shown \union {NoAuthority},
            Begin(p, t, a)
     PROVE  ShownOK'
  <2>1. BeginMove(p, t, a)
    BY <1>1, BeginMoves
  <2> QED
    BY <2>1 DEF BeginMove, Others, Moves, Ends, Idle, Asked, Owned, Knows, ShownOK, RunOK,
       RunStates, Approvals, LaunchPcs
<1>2. ASSUME NEW p \in Runs, InitRecord(p) PROVE ShownOK'
  BY <1>2 DEF InitRecord, Put, At, To, Idle, ShownOK, RunOK, RunStates, Approvals,
     LaunchPcs
<1>3. ASSUME NEW p \in Runs, InitAdd(p) PROVE ShownOK'
  BY <1>3 DEF InitAdd, Put, At, To, Idle, ShownOK, RunOK, RunStates, Approvals, LaunchPcs
<1>4. ASSUME NEW p \in Runs, InitReady(p) PROVE ShownOK'
  <2>1. InitReadyMove(p)
    BY <1>4, InitReadyMoves
  <2> QED
    BY <2>1 DEF InitReadyMove, Others, Moves, Ends, Idle, Asked, Owned, Knows, ShownOK,
       RunOK, RunStates, Approvals, LaunchPcs
<1>5. ASSUME NEW p \in Runs, Snapshot(p) PROVE ShownOK'
  <2>1. SnapshotMove(p)
    BY <1>5, SnapshotMoves
  <2> QED
    BY <2>1 DEF SnapshotMove, Ready, JobBound, Others, Moves, Ends, Idle, Asked, Owned,
       Knows, ShownOK, RunOK, RunStates, Approvals, LaunchPcs
<1>6. ASSUME NEW p \in Runs, Open(p) PROVE ShownOK'
  <2>1. OpenMove(p)
    BY <1>6, OpenMoves
  <2> QED
    BY <2>1 DEF OpenMove, Others, Moves, Ends, Idle, Asked, Owned, Knows, ShownOK, RunOK,
       RunStates, Approvals, LaunchPcs
<1>7. ASSUME NEW p \in Runs, Preview(p) PROVE ShownOK'
  <2>1. PreviewMove(p)
    BY <1>7, PreviewMoves
  <2> QED
    BY <2>1 DEF PreviewMove, Measured, Others, Moves, Ends, Idle, Asked, Owned, Knows,
       ShownOK, RunOK, RunStates, Approvals, LaunchPcs
<1>8. ASSUME NEW p \in Runs, Bind(p) PROVE ShownOK'
  <2>1. BindMove(p)
    BY <1>8, BindMoves
  <2> QED
    BY <2>1 DEF BindMove, DecideMove, Others, Moves, Ends, Idle, Asked, Owned, Knows,
       ShownOK, RunOK, RunStates, Approvals, LaunchPcs
<1>9. ASSUME NEW p \in Runs, CheckRecord(p) PROVE ShownOK'
  BY <1>9 DEF CheckRecord, Resume, RecordApproved, Put, At, To, Idle, ShownOK, RunOK,
     RunStates, Approvals, LaunchPcs
<1>10. ASSUME NEW p \in Runs, MakeDir(p) PROVE ShownOK'
  BY <1>10 DEF MakeDir, Resume, Put, At, To, Idle, ShownOK, RunOK, RunStates, Approvals,
     LaunchPcs
<1>11. ASSUME NEW p \in Runs, Select(p) PROVE ShownOK'
  BY <1>11 DEF Select, Resume, Put, At, To, Idle, ShownOK, RunOK, RunStates, Approvals,
     LaunchPcs
<1>12. ASSUME NEW p \in Runs, Repreview(p) PROVE ShownOK'
  <2>1. RepreviewMove(p)
    BY <1>12, RepreviewMoves
  <2> QED
    BY <2>1 DEF RepreviewMove, Measured, Others, Moves, Ends, Idle, Asked, Owned, Knows,
       ShownOK, RunOK, RunStates, Approvals, LaunchPcs
<1>13. ASSUME NEW p \in Runs, Match(p) PROVE ShownOK'
  BY <1>13 DEF Match, Resume, RecordApproved, Put, At, To, Idle, ShownOK, RunOK,
     RunStates, Approvals, LaunchPcs
<1>14. ASSUME NEW p \in Runs, Launch(p) PROVE ShownOK'
  BY <1>14 DEF Launch, Resume, Put, At, To, Idle, ShownOK, RunOK, RunStates, Approvals,
     LaunchPcs
<1>15. ASSUME NEW p \in Runs, Failed(p) PROVE ShownOK'
  BY <1>15 DEF Failed, Put, At, To, Idle, ShownOK, RunOK, RunStates, Approvals, LaunchPcs
<1>16. ASSUME NEW p \in Runs, UndoRead(p) PROVE ShownOK'
  <2>1. UndoReadMove(p)
    BY <1>16, UndoReadMoves
  <2> QED
    BY <2>1 DEF UndoReadMove, JobBound, Others, Moves, Ends, Idle, Asked, Owned, Knows,
       ShownOK, RunOK, RunStates, Approvals, LaunchPcs
<1>17. ASSUME NEW p \in Runs, UndoLock(p) PROVE ShownOK'
  BY <1>17 DEF UndoLock, Put, At, To, Idle, ShownOK, RunOK, RunStates, Approvals,
     LaunchPcs
<1>18. ASSUME NEW p \in Runs, UndoInspect(p) PROVE ShownOK'
  BY <1>18 DEF UndoInspect, Ready, JobBound, Put, At, To, Idle, ShownOK, RunOK, RunStates,
     Approvals, LaunchPcs
<1>19. ASSUME NEW p \in Runs, UndoTree(p) PROVE ShownOK'
  BY <1>19 DEF UndoTree, Put, At, To, Idle, ShownOK, RunOK, RunStates, Approvals,
     LaunchPcs
<1>20. ASSUME NEW p \in Runs, UndoRef(p) PROVE ShownOK'
  BY <1>20 DEF UndoRef, Put, At, To, Idle, ShownOK, RunOK, RunStates, Approvals, LaunchPcs
<1>21. ASSUME NEW p \in Runs, UndoState(p) PROVE ShownOK'
  BY <1>21 DEF UndoState, Resume, Put, At, To, Idle, ShownOK, RunOK, RunStates, Approvals,
     LaunchPcs
<1>22. ASSUME NEW p \in Runs, Discard(p) PROVE ShownOK'
  BY <1>22 DEF Discard, Put, At, To, Idle, ShownOK, RunOK, RunStates, Approvals, LaunchPcs
<1>23. ASSUME NEW p \in Runs, Kill(p) PROVE ShownOK'
  BY <1>23 DEF Kill, ChildPcs, Put, At, To, Idle, ShownOK, RunOK, RunStates, Approvals,
     LaunchPcs
<1>24. ASSUME NEW k \in Contents, Edit(k) PROVE ShownOK'
  BY <1>24 DEF Edit, ShownOK, RunOK, RunStates, Approvals, LaunchPcs
<1>25. CASE UNCHANGED vars
  BY <1>25 DEF vars, ShownOK, RunOK, RunStates, Approvals, LaunchPcs
<1> QED
  BY <1>1, <1>2, <1>3, <1>4, <1>5, <1>6, <1>7, <1>8, <1>9, <1>10, <1>11, <1>12, <1>13,
     <1>14, <1>15, <1>16, <1>17, <1>18, <1>19, <1>20, <1>21, <1>22, <1>23, <1>24, <1>25
     DEF Next

\* The counters stay within their bounds.
LEMMA CountTypes ==
  ASSUME CountOK, RunOK, JobOK, TreeOK, FacadeOK, ShownOK, Approvals, [Next]_vars
  PROVE  CountOK'
<1>1. ASSUME NEW p \in Runs, NEW t \in Tasks, NEW a \in shown \union {NoAuthority},
            Begin(p, t, a)
     PROVE  CountOK'
  <2>1. BeginMove(p, t, a)
    BY <1>1, BeginMoves
  <2> QED
    BY <2>1, BoundsAssumption DEF BeginMove, Others, Moves, Ends, Idle, Asked, Owned,
       Knows, CountOK
<1>2. ASSUME NEW p \in Runs, InitRecord(p) PROVE CountOK'
  BY <1>2, BoundsAssumption DEF InitRecord, Put, At, To, Idle, CountOK
<1>3. ASSUME NEW p \in Runs, InitAdd(p) PROVE CountOK'
  BY <1>3, BoundsAssumption DEF InitAdd, Put, At, To, Idle, CountOK
<1>4. ASSUME NEW p \in Runs, InitReady(p) PROVE CountOK'
  <2>1. InitReadyMove(p)
    BY <1>4, InitReadyMoves
  <2> QED
    BY <2>1, BoundsAssumption DEF InitReadyMove, Others, Moves, Ends, Idle, Asked, Owned,
       Knows, CountOK
<1>5. ASSUME NEW p \in Runs, Snapshot(p) PROVE CountOK'
  <2>1. SnapshotMove(p)
    BY <1>5, SnapshotMoves
  <2> QED
    BY <2>1, BoundsAssumption DEF SnapshotMove, Ready, JobBound, Others, Moves, Ends,
       Idle, Asked, Owned, Knows, CountOK
<1>6. ASSUME NEW p \in Runs, Open(p) PROVE CountOK'
  <2>1. OpenMove(p)
    BY <1>6, OpenMoves
  <2> QED
    BY <2>1, BoundsAssumption DEF OpenMove, Others, Moves, Ends, Idle, Asked, Owned,
       Knows, CountOK
<1>7. ASSUME NEW p \in Runs, Preview(p) PROVE CountOK'
  <2>1. PreviewMove(p)
    BY <1>7, PreviewMoves
  <2> QED
    BY <2>1, BoundsAssumption DEF PreviewMove, Measured, Others, Moves, Ends, Idle, Asked,
       Owned, Knows, CountOK
<1>8. ASSUME NEW p \in Runs, Bind(p) PROVE CountOK'
  <2>1. BindMove(p)
    BY <1>8, BindMoves
  <2> QED
    BY <2>1, BoundsAssumption DEF BindMove, DecideMove, Others, Moves, Ends, Idle, Asked,
       Owned, Knows, CountOK
<1>9. ASSUME NEW p \in Runs, CheckRecord(p) PROVE CountOK'
  BY <1>9, BoundsAssumption DEF CheckRecord, Resume, RecordApproved, Put, At, To, Idle,
     CountOK
<1>10. ASSUME NEW p \in Runs, MakeDir(p) PROVE CountOK'
  BY <1>10, BoundsAssumption DEF MakeDir, Resume, Put, At, To, Idle, CountOK
<1>11. ASSUME NEW p \in Runs, Select(p) PROVE CountOK'
  BY <1>11, BoundsAssumption DEF Select, Resume, Put, At, To, Idle, CountOK
<1>12. ASSUME NEW p \in Runs, Repreview(p) PROVE CountOK'
  <2>1. RepreviewMove(p)
    BY <1>12, RepreviewMoves
  <2> QED
    BY <2>1, BoundsAssumption DEF RepreviewMove, Measured, Others, Moves, Ends, Idle,
       Asked, Owned, Knows, CountOK
<1>13. ASSUME NEW p \in Runs, Match(p) PROVE CountOK'
  BY <1>13, BoundsAssumption DEF Match, Resume, RecordApproved, Put, At, To, Idle, CountOK
<1>14. ASSUME NEW p \in Runs, Launch(p) PROVE CountOK'
  BY <1>14, BoundsAssumption DEF Launch, Resume, Put, At, To, Idle, CountOK
<1>15. ASSUME NEW p \in Runs, Failed(p) PROVE CountOK'
  BY <1>15, BoundsAssumption DEF Failed, Put, At, To, Idle, CountOK
<1>16. ASSUME NEW p \in Runs, UndoRead(p) PROVE CountOK'
  <2>1. UndoReadMove(p)
    BY <1>16, UndoReadMoves
  <2> QED
    BY <2>1, BoundsAssumption DEF UndoReadMove, JobBound, Others, Moves, Ends, Idle,
       Asked, Owned, Knows, CountOK
<1>17. ASSUME NEW p \in Runs, UndoLock(p) PROVE CountOK'
  BY <1>17, BoundsAssumption DEF UndoLock, Put, At, To, Idle, CountOK
<1>18. ASSUME NEW p \in Runs, UndoInspect(p) PROVE CountOK'
  BY <1>18, BoundsAssumption DEF UndoInspect, Ready, JobBound, Put, At, To, Idle, CountOK
<1>19. ASSUME NEW p \in Runs, UndoTree(p) PROVE CountOK'
  BY <1>19, BoundsAssumption DEF UndoTree, Put, At, To, Idle, CountOK
<1>20. ASSUME NEW p \in Runs, UndoRef(p) PROVE CountOK'
  BY <1>20, BoundsAssumption DEF UndoRef, Put, At, To, Idle, CountOK
<1>21. ASSUME NEW p \in Runs, UndoState(p) PROVE CountOK'
  BY <1>21, BoundsAssumption DEF UndoState, Resume, Put, At, To, Idle, CountOK
<1>22. ASSUME NEW p \in Runs, Discard(p) PROVE CountOK'
  BY <1>22, BoundsAssumption DEF Discard, Put, At, To, Idle, CountOK
<1>23. ASSUME NEW p \in Runs, Kill(p) PROVE CountOK'
  BY <1>23, BoundsAssumption DEF Kill, ChildPcs, Put, At, To, Idle, CountOK
<1>24. ASSUME NEW k \in Contents, Edit(k) PROVE CountOK'
  BY <1>24, BoundsAssumption DEF Edit, CountOK
<1>25. CASE UNCHANGED vars
  BY <1>25 DEF vars, CountOK
<1> QED
  BY <1>1, <1>2, <1>3, <1>4, <1>5, <1>6, <1>7, <1>8, <1>9, <1>10, <1>11, <1>12, <1>13,
     <1>14, <1>15, <1>16, <1>17, <1>18, <1>19, <1>20, <1>21, <1>22, <1>23, <1>24, <1>25
     DEF Next

\* The lock is held by the invocation between taking and releasing it.
LEMMA LockHeldStep ==
  ASSUME LockHeld, RunOK, LockOK, JobOK, TreeOK, FacadeOK, ShownOK, CountOK, Approvals,
         [Next]_vars
  PROVE  LockHeld'
<1>1. ASSUME NEW p \in Runs, NEW t \in Tasks, NEW a \in shown \union {NoAuthority},
            Begin(p, t, a)
     PROVE  LockHeld'
  <2>1. BeginMove(p, t, a)
    BY <1>1, BeginMoves
  <2> QED
    BY <2>1, RunsAssumption DEF BeginMove, Others, Moves, Ends, Idle, Asked, Owned, Knows,
       LockHeld, RunOK, RunStates, LockOK, LockedPcs
<1>2. ASSUME NEW p \in Runs, InitRecord(p) PROVE LockHeld'
  BY <1>2, RunsAssumption DEF InitRecord, Put, At, To, Idle, LockHeld, RunOK, RunStates,
     LockOK, LockedPcs
<1>3. ASSUME NEW p \in Runs, InitAdd(p) PROVE LockHeld'
  BY <1>3, RunsAssumption DEF InitAdd, Put, At, To, Idle, LockHeld, RunOK, RunStates,
     LockOK, LockedPcs
<1>4. ASSUME NEW p \in Runs, InitReady(p) PROVE LockHeld'
  <2>1. InitReadyMove(p)
    BY <1>4, InitReadyMoves
  <2> QED
    BY <2>1, RunsAssumption DEF InitReadyMove, Others, Moves, Ends, Idle, Asked, Owned,
       Knows, LockHeld, RunOK, RunStates, LockOK, LockedPcs
<1>5. ASSUME NEW p \in Runs, Snapshot(p) PROVE LockHeld'
  <2>1. SnapshotMove(p)
    BY <1>5, SnapshotMoves
  <2> QED
    BY <2>1, RunsAssumption DEF SnapshotMove, Ready, JobBound, Others, Moves, Ends, Idle,
       Asked, Owned, Knows, LockHeld, RunOK, RunStates, LockOK, LockedPcs
<1>6. ASSUME NEW p \in Runs, Open(p) PROVE LockHeld'
  <2>1. OpenMove(p)
    BY <1>6, OpenMoves
  <2> QED
    BY <2>1, RunsAssumption DEF OpenMove, Others, Moves, Ends, Idle, Asked, Owned, Knows,
       LockHeld, RunOK, RunStates, LockOK, LockedPcs
<1>7. ASSUME NEW p \in Runs, Preview(p) PROVE LockHeld'
  <2>1. PreviewMove(p)
    BY <1>7, PreviewMoves
  <2> QED
    BY <2>1, RunsAssumption DEF PreviewMove, Measured, Others, Moves, Ends, Idle, Asked,
       Owned, Knows, LockHeld, RunOK, RunStates, LockOK, LockedPcs
<1>8. ASSUME NEW p \in Runs, Bind(p) PROVE LockHeld'
  <2>1. BindMove(p)
    BY <1>8, BindMoves
  <2> QED
    BY <2>1, RunsAssumption DEF BindMove, DecideMove, Others, Moves, Ends, Idle, Asked,
       Owned, Knows, LockHeld, RunOK, RunStates, LockOK, LockedPcs
<1>9. ASSUME NEW p \in Runs, CheckRecord(p) PROVE LockHeld'
  BY <1>9, RunsAssumption DEF CheckRecord, Resume, RecordApproved, Put, At, To, Idle,
     LockHeld, RunOK, RunStates, LockOK, LockedPcs
<1>10. ASSUME NEW p \in Runs, MakeDir(p) PROVE LockHeld'
  BY <1>10, RunsAssumption DEF MakeDir, Resume, Put, At, To, Idle, LockHeld, RunOK,
     RunStates, LockOK, LockedPcs
<1>11. ASSUME NEW p \in Runs, Select(p) PROVE LockHeld'
  BY <1>11, RunsAssumption DEF Select, Resume, Put, At, To, Idle, LockHeld, RunOK,
     RunStates, LockOK, LockedPcs
<1>12. ASSUME NEW p \in Runs, Repreview(p) PROVE LockHeld'
  <2>1. RepreviewMove(p)
    BY <1>12, RepreviewMoves
  <2> QED
    BY <2>1, RunsAssumption DEF RepreviewMove, Measured, Others, Moves, Ends, Idle, Asked,
       Owned, Knows, LockHeld, RunOK, RunStates, LockOK, LockedPcs
<1>13. ASSUME NEW p \in Runs, Match(p) PROVE LockHeld'
  BY <1>13, RunsAssumption DEF Match, Resume, RecordApproved, Put, At, To, Idle, LockHeld,
     RunOK, RunStates, LockOK, LockedPcs
<1>14. ASSUME NEW p \in Runs, Launch(p) PROVE LockHeld'
  BY <1>14, RunsAssumption DEF Launch, Resume, Put, At, To, Idle, LockHeld, RunOK,
     RunStates, LockOK, LockedPcs
<1>15. ASSUME NEW p \in Runs, Failed(p) PROVE LockHeld'
  BY <1>15, RunsAssumption DEF Failed, Put, At, To, Idle, LockHeld, RunOK, RunStates,
     LockOK, LockedPcs
<1>16. ASSUME NEW p \in Runs, UndoRead(p) PROVE LockHeld'
  <2>1. UndoReadMove(p)
    BY <1>16, UndoReadMoves
  <2> QED
    BY <2>1, RunsAssumption DEF UndoReadMove, JobBound, Others, Moves, Ends, Idle, Asked,
       Owned, Knows, LockHeld, RunOK, RunStates, LockOK, LockedPcs
<1>17. ASSUME NEW p \in Runs, UndoLock(p) PROVE LockHeld'
  BY <1>17, RunsAssumption DEF UndoLock, Put, At, To, Idle, LockHeld, RunOK, RunStates,
     LockOK, LockedPcs
<1>18. ASSUME NEW p \in Runs, UndoInspect(p) PROVE LockHeld'
  BY <1>18, RunsAssumption DEF UndoInspect, Ready, JobBound, Put, At, To, Idle, LockHeld,
     RunOK, RunStates, LockOK, LockedPcs
<1>19. ASSUME NEW p \in Runs, UndoTree(p) PROVE LockHeld'
  BY <1>19, RunsAssumption DEF UndoTree, Put, At, To, Idle, LockHeld, RunOK, RunStates,
     LockOK, LockedPcs
<1>20. ASSUME NEW p \in Runs, UndoRef(p) PROVE LockHeld'
  BY <1>20, RunsAssumption DEF UndoRef, Put, At, To, Idle, LockHeld, RunOK, RunStates,
     LockOK, LockedPcs
<1>21. ASSUME NEW p \in Runs, UndoState(p) PROVE LockHeld'
  BY <1>21, RunsAssumption DEF UndoState, Resume, Put, At, To, Idle, LockHeld, RunOK,
     RunStates, LockOK, LockedPcs
<1>22. ASSUME NEW p \in Runs, Discard(p) PROVE LockHeld'
  BY <1>22, RunsAssumption DEF Discard, Put, At, To, Idle, LockHeld, RunOK, RunStates,
     LockOK, LockedPcs
<1>23. ASSUME NEW p \in Runs, Kill(p) PROVE LockHeld'
  BY <1>23, RunsAssumption DEF Kill, ChildPcs, Put, At, To, Idle, LockHeld, RunOK,
     RunStates, LockOK, LockedPcs
<1>24. ASSUME NEW k \in Contents, Edit(k) PROVE LockHeld'
  BY <1>24, RunsAssumption DEF Edit, LockHeld, RunOK, RunStates, LockOK, LockedPcs
<1>25. CASE UNCHANGED vars
  BY <1>25 DEF vars, LockHeld, RunOK, RunStates, LockOK, LockedPcs
<1> QED
  BY <1>1, <1>2, <1>3, <1>4, <1>5, <1>6, <1>7, <1>8, <1>9, <1>10, <1>11, <1>12, <1>13,
     <1>14, <1>15, <1>16, <1>17, <1>18, <1>19, <1>20, <1>21, <1>22, <1>23, <1>24, <1>25
     DEF Next

\* Invocations under way have numbers of their own.
LEMMA NumbersStep ==
  ASSUME Numbers, RunOK, CountOK, JobOK, TreeOK, FacadeOK, ShownOK, Approvals, [Next]_vars
  PROVE  Numbers'
<1>1. ASSUME NEW p \in Runs, NEW t \in Tasks, NEW a \in shown \union {NoAuthority},
            Begin(p, t, a)
     PROVE  Numbers'
  <2>1. BeginMove(p, t, a)
    BY <1>1, BeginMoves
  <2> QED
    BY <2>1, BoundsAssumption DEF BeginMove, Others, Moves, Ends, Idle, Asked, Owned,
       Knows, Numbers, RunOK, RunStates, CountOK
<1>2. ASSUME NEW p \in Runs, InitRecord(p) PROVE Numbers'
  BY <1>2, BoundsAssumption DEF InitRecord, Put, At, To, Idle, Numbers, RunOK, RunStates,
     CountOK
<1>3. ASSUME NEW p \in Runs, InitAdd(p) PROVE Numbers'
  BY <1>3, BoundsAssumption DEF InitAdd, Put, At, To, Idle, Numbers, RunOK, RunStates,
     CountOK
<1>4. ASSUME NEW p \in Runs, InitReady(p) PROVE Numbers'
  <2>1. InitReadyMove(p)
    BY <1>4, InitReadyMoves
  <2> QED
    BY <2>1, BoundsAssumption DEF InitReadyMove, Others, Moves, Ends, Idle, Asked, Owned,
       Knows, Numbers, RunOK, RunStates, CountOK
<1>5. ASSUME NEW p \in Runs, Snapshot(p) PROVE Numbers'
  <2>1. SnapshotMove(p)
    BY <1>5, SnapshotMoves
  <2> QED
    BY <2>1, BoundsAssumption DEF SnapshotMove, Ready, JobBound, Others, Moves, Ends,
       Idle, Asked, Owned, Knows, Numbers, RunOK, RunStates, CountOK
<1>6. ASSUME NEW p \in Runs, Open(p) PROVE Numbers'
  <2>1. OpenMove(p)
    BY <1>6, OpenMoves
  <2> QED
    BY <2>1, BoundsAssumption DEF OpenMove, Others, Moves, Ends, Idle, Asked, Owned,
       Knows, Numbers, RunOK, RunStates, CountOK
<1>7. ASSUME NEW p \in Runs, Preview(p) PROVE Numbers'
  <2>1. PreviewMove(p)
    BY <1>7, PreviewMoves
  <2> QED
    BY <2>1, BoundsAssumption DEF PreviewMove, Measured, Others, Moves, Ends, Idle, Asked,
       Owned, Knows, Numbers, RunOK, RunStates, CountOK
<1>8. ASSUME NEW p \in Runs, Bind(p) PROVE Numbers'
  <2>1. BindMove(p)
    BY <1>8, BindMoves
  <2> QED
    BY <2>1, BoundsAssumption DEF BindMove, DecideMove, Others, Moves, Ends, Idle, Asked,
       Owned, Knows, Numbers, RunOK, RunStates, CountOK
<1>9. ASSUME NEW p \in Runs, CheckRecord(p) PROVE Numbers'
  BY <1>9, BoundsAssumption DEF CheckRecord, Resume, RecordApproved, Put, At, To, Idle,
     Numbers, RunOK, RunStates, CountOK
<1>10. ASSUME NEW p \in Runs, MakeDir(p) PROVE Numbers'
  BY <1>10, BoundsAssumption DEF MakeDir, Resume, Put, At, To, Idle, Numbers, RunOK,
     RunStates, CountOK
<1>11. ASSUME NEW p \in Runs, Select(p) PROVE Numbers'
  BY <1>11, BoundsAssumption DEF Select, Resume, Put, At, To, Idle, Numbers, RunOK,
     RunStates, CountOK
<1>12. ASSUME NEW p \in Runs, Repreview(p) PROVE Numbers'
  <2>1. RepreviewMove(p)
    BY <1>12, RepreviewMoves
  <2> QED
    BY <2>1, BoundsAssumption DEF RepreviewMove, Measured, Others, Moves, Ends, Idle,
       Asked, Owned, Knows, Numbers, RunOK, RunStates, CountOK
<1>13. ASSUME NEW p \in Runs, Match(p) PROVE Numbers'
  BY <1>13, BoundsAssumption DEF Match, Resume, RecordApproved, Put, At, To, Idle,
     Numbers, RunOK, RunStates, CountOK
<1>14. ASSUME NEW p \in Runs, Launch(p) PROVE Numbers'
  BY <1>14, BoundsAssumption DEF Launch, Resume, Put, At, To, Idle, Numbers, RunOK,
     RunStates, CountOK
<1>15. ASSUME NEW p \in Runs, Failed(p) PROVE Numbers'
  BY <1>15, BoundsAssumption DEF Failed, Put, At, To, Idle, Numbers, RunOK, RunStates,
     CountOK
<1>16. ASSUME NEW p \in Runs, UndoRead(p) PROVE Numbers'
  <2>1. UndoReadMove(p)
    BY <1>16, UndoReadMoves
  <2> QED
    BY <2>1, BoundsAssumption DEF UndoReadMove, JobBound, Others, Moves, Ends, Idle,
       Asked, Owned, Knows, Numbers, RunOK, RunStates, CountOK
<1>17. ASSUME NEW p \in Runs, UndoLock(p) PROVE Numbers'
  BY <1>17, BoundsAssumption DEF UndoLock, Put, At, To, Idle, Numbers, RunOK, RunStates,
     CountOK
<1>18. ASSUME NEW p \in Runs, UndoInspect(p) PROVE Numbers'
  BY <1>18, BoundsAssumption DEF UndoInspect, Ready, JobBound, Put, At, To, Idle, Numbers,
     RunOK, RunStates, CountOK
<1>19. ASSUME NEW p \in Runs, UndoTree(p) PROVE Numbers'
  BY <1>19, BoundsAssumption DEF UndoTree, Put, At, To, Idle, Numbers, RunOK, RunStates,
     CountOK
<1>20. ASSUME NEW p \in Runs, UndoRef(p) PROVE Numbers'
  BY <1>20, BoundsAssumption DEF UndoRef, Put, At, To, Idle, Numbers, RunOK, RunStates,
     CountOK
<1>21. ASSUME NEW p \in Runs, UndoState(p) PROVE Numbers'
  BY <1>21, BoundsAssumption DEF UndoState, Resume, Put, At, To, Idle, Numbers, RunOK,
     RunStates, CountOK
<1>22. ASSUME NEW p \in Runs, Discard(p) PROVE Numbers'
  BY <1>22, BoundsAssumption DEF Discard, Put, At, To, Idle, Numbers, RunOK, RunStates,
     CountOK
<1>23. ASSUME NEW p \in Runs, Kill(p) PROVE Numbers'
  BY <1>23, BoundsAssumption DEF Kill, ChildPcs, Put, At, To, Idle, Numbers, RunOK,
     RunStates, CountOK
<1>24. ASSUME NEW k \in Contents, Edit(k) PROVE Numbers'
  BY <1>24, BoundsAssumption DEF Edit, Numbers, RunOK, RunStates, CountOK
<1>25. CASE UNCHANGED vars
  BY <1>25 DEF vars, Numbers, RunOK, RunStates, CountOK
<1> QED
  BY <1>1, <1>2, <1>3, <1>4, <1>5, <1>6, <1>7, <1>8, <1>9, <1>10, <1>11, <1>12, <1>13,
     <1>14, <1>15, <1>16, <1>17, <1>18, <1>19, <1>20, <1>21, <1>22, <1>23, <1>24, <1>25
     DEF Next

\* The job an invocation made is its own until it has removed job.json.
LEMMA OwnersStep ==
  ASSUME Owners, Numbers, Places, RunOK, JobOK, LockHeld, LockOK, CountOK, TreeOK, FacadeOK,
         ShownOK, Approvals, [Next]_vars
  PROVE  Owners'
<1>1. ASSUME NEW p \in Runs, NEW t \in Tasks, NEW a \in shown \union {NoAuthority},
            Begin(p, t, a)
     PROVE  Owners'
  <2>1. BeginMove(p, t, a)
    BY <1>1, BeginMoves
  <2> QED
    BY <2>1, RunsAssumption, BoundsAssumption DEF BeginMove, Others, Moves, Ends, Idle,
       Asked, Owned, Knows, Owners, Numbers, Places, RunOK, RunStates, JobOK, LockHeld,
       LockedPcs, NoJob, InitPcs, UndoPcs, CountOK
<1>2. ASSUME NEW p \in Runs, InitRecord(p) PROVE Owners'
  BY <1>2, RunsAssumption, BoundsAssumption DEF InitRecord, Put, At, To, Idle, Owners,
     Numbers, Places, RunOK, RunStates, JobOK, LockHeld, LockedPcs, NoJob, InitPcs,
     UndoPcs, CountOK
<1>3. ASSUME NEW p \in Runs, InitAdd(p) PROVE Owners'
  BY <1>3, RunsAssumption, BoundsAssumption DEF InitAdd, Put, At, To, Idle, Owners,
     Numbers, Places, RunOK, RunStates, JobOK, LockHeld, LockedPcs, NoJob, InitPcs,
     UndoPcs, CountOK
<1>4. ASSUME NEW p \in Runs, InitReady(p) PROVE Owners'
  <2>1. InitReadyMove(p)
    BY <1>4, InitReadyMoves
  <2> QED
    BY <2>1, RunsAssumption, BoundsAssumption DEF InitReadyMove, Others, Moves, Ends,
       Idle, Asked, Owned, Knows, Owners, Numbers, Places, RunOK, RunStates, JobOK,
       LockHeld, LockedPcs, NoJob, InitPcs, UndoPcs, CountOK
<1>5. ASSUME NEW p \in Runs, Snapshot(p) PROVE Owners'
  <2>1. SnapshotMove(p)
    BY <1>5, SnapshotMoves
  <2> QED
    BY <2>1, RunsAssumption, BoundsAssumption DEF SnapshotMove, Ready, JobBound, Others,
       Moves, Ends, Idle, Asked, Owned, Knows, Owners, Numbers, Places, RunOK, RunStates,
       JobOK, LockHeld, LockedPcs, NoJob, InitPcs, UndoPcs, CountOK
<1>6. ASSUME NEW p \in Runs, Open(p) PROVE Owners'
  <2>1. OpenMove(p)
    BY <1>6, OpenMoves
  <2> QED
    BY <2>1, RunsAssumption, BoundsAssumption DEF OpenMove, Others, Moves, Ends, Idle,
       Asked, Owned, Knows, Owners, Numbers, Places, RunOK, RunStates, JobOK, LockHeld,
       LockedPcs, NoJob, InitPcs, UndoPcs, CountOK
<1>7. ASSUME NEW p \in Runs, Preview(p) PROVE Owners'
  <2>1. PreviewMove(p)
    BY <1>7, PreviewMoves
  <2> QED
    BY <2>1, RunsAssumption, BoundsAssumption DEF PreviewMove, Measured, Others, Moves,
       Ends, Idle, Asked, Owned, Knows, Owners, Numbers, Places, RunOK, RunStates, JobOK,
       LockHeld, LockedPcs, NoJob, InitPcs, UndoPcs, CountOK
<1>8. ASSUME NEW p \in Runs, Bind(p) PROVE Owners'
  <2>1. BindMove(p)
    BY <1>8, BindMoves
  <2> QED
    BY <2>1, RunsAssumption, BoundsAssumption DEF BindMove, DecideMove, Others, Moves,
       Ends, Idle, Asked, Owned, Knows, Owners, Numbers, Places, RunOK, RunStates, JobOK,
       LockHeld, LockedPcs, NoJob, InitPcs, UndoPcs, CountOK
<1>9. ASSUME NEW p \in Runs, CheckRecord(p) PROVE Owners'
  BY <1>9, RunsAssumption, BoundsAssumption DEF CheckRecord, Resume, RecordApproved, Put,
     At, To, Idle, Owners, Numbers, Places, RunOK, RunStates, JobOK, LockHeld, LockedPcs,
     NoJob, InitPcs, UndoPcs, CountOK
<1>10. ASSUME NEW p \in Runs, MakeDir(p) PROVE Owners'
  BY <1>10, RunsAssumption, BoundsAssumption DEF MakeDir, Resume, Put, At, To, Idle,
     Owners, Numbers, Places, RunOK, RunStates, JobOK, LockHeld, LockedPcs, NoJob,
     InitPcs, UndoPcs, CountOK
<1>11. ASSUME NEW p \in Runs, Select(p) PROVE Owners'
  BY <1>11, RunsAssumption, BoundsAssumption DEF Select, Resume, Put, At, To, Idle,
     Owners, Numbers, Places, RunOK, RunStates, JobOK, LockHeld, LockedPcs, NoJob,
     InitPcs, UndoPcs, CountOK
<1>12. ASSUME NEW p \in Runs, Repreview(p) PROVE Owners'
  <2>1. RepreviewMove(p)
    BY <1>12, RepreviewMoves
  <2> QED
    BY <2>1, RunsAssumption, BoundsAssumption DEF RepreviewMove, Measured, Others, Moves,
       Ends, Idle, Asked, Owned, Knows, Owners, Numbers, Places, RunOK, RunStates, JobOK,
       LockHeld, LockedPcs, NoJob, InitPcs, UndoPcs, CountOK
<1>13. ASSUME NEW p \in Runs, Match(p) PROVE Owners'
  BY <1>13, RunsAssumption, BoundsAssumption DEF Match, Resume, RecordApproved, Put, At,
     To, Idle, Owners, Numbers, Places, RunOK, RunStates, JobOK, LockHeld, LockedPcs,
     NoJob, InitPcs, UndoPcs, CountOK
<1>14. ASSUME NEW p \in Runs, Launch(p) PROVE Owners'
  BY <1>14, RunsAssumption, BoundsAssumption DEF Launch, Resume, Put, At, To, Idle,
     Owners, Numbers, Places, RunOK, RunStates, JobOK, LockHeld, LockedPcs, NoJob,
     InitPcs, UndoPcs, CountOK
<1>15. ASSUME NEW p \in Runs, Failed(p) PROVE Owners'
  BY <1>15, RunsAssumption, BoundsAssumption DEF Failed, Put, At, To, Idle, Owners,
     Numbers, Places, RunOK, RunStates, JobOK, LockHeld, LockedPcs, NoJob, InitPcs,
     UndoPcs, CountOK
<1>16. ASSUME NEW p \in Runs, UndoRead(p) PROVE Owners'
  <2>1. UndoReadMove(p)
    BY <1>16, UndoReadMoves
  <2> QED
    BY <2>1, RunsAssumption, BoundsAssumption DEF UndoReadMove, JobBound, Others, Moves,
       Ends, Idle, Asked, Owned, Knows, Owners, Numbers, Places, RunOK, RunStates, JobOK,
       LockHeld, LockedPcs, NoJob, InitPcs, UndoPcs, CountOK
<1>17. ASSUME NEW p \in Runs, UndoLock(p) PROVE Owners'
  BY <1>17, RunsAssumption, BoundsAssumption DEF UndoLock, Put, At, To, Idle, Owners,
     Numbers, Places, RunOK, RunStates, JobOK, LockHeld, LockedPcs, NoJob, InitPcs,
     UndoPcs, CountOK
<1>18. ASSUME NEW p \in Runs, UndoInspect(p) PROVE Owners'
  BY <1>18, RunsAssumption, BoundsAssumption DEF UndoInspect, Ready, JobBound, Put, At,
     To, Idle, Owners, Numbers, Places, RunOK, RunStates, JobOK, LockHeld, LockedPcs,
     NoJob, InitPcs, UndoPcs, CountOK
<1>19. ASSUME NEW p \in Runs, UndoTree(p) PROVE Owners'
  BY <1>19, RunsAssumption, BoundsAssumption DEF UndoTree, Put, At, To, Idle, Owners,
     Numbers, Places, RunOK, RunStates, JobOK, LockHeld, LockedPcs, NoJob, InitPcs,
     UndoPcs, CountOK
<1>20. ASSUME NEW p \in Runs, UndoRef(p) PROVE Owners'
  BY <1>20, RunsAssumption, BoundsAssumption DEF UndoRef, Put, At, To, Idle, Owners,
     Numbers, Places, RunOK, RunStates, JobOK, LockHeld, LockedPcs, NoJob, InitPcs,
     UndoPcs, CountOK
<1>21. ASSUME NEW p \in Runs, UndoState(p) PROVE Owners'
  BY <1>21, RunsAssumption, BoundsAssumption DEF UndoState, Resume, Put, At, To, Idle,
     Owners, Numbers, Places, RunOK, RunStates, JobOK, LockHeld, LockedPcs, NoJob,
     InitPcs, UndoPcs, CountOK
<1>22. ASSUME NEW p \in Runs, Discard(p) PROVE Owners'
  BY <1>22, RunsAssumption, BoundsAssumption DEF Discard, Put, At, To, Idle, Owners,
     Numbers, Places, RunOK, RunStates, JobOK, LockHeld, LockedPcs, NoJob, InitPcs,
     UndoPcs, CountOK
<1>23. ASSUME NEW p \in Runs, Kill(p) PROVE Owners'
  BY <1>23, RunsAssumption, BoundsAssumption DEF Kill, ChildPcs, Put, At, To, Idle,
     Owners, Numbers, Places, RunOK, RunStates, JobOK, LockHeld, LockedPcs, NoJob,
     InitPcs, UndoPcs, CountOK
<1>24. ASSUME NEW k \in Contents, Edit(k) PROVE Owners'
  BY <1>24, RunsAssumption, BoundsAssumption DEF Edit, Owners, Numbers, Places, RunOK,
     RunStates, JobOK, LockHeld, LockedPcs, NoJob, InitPcs, UndoPcs, CountOK
<1>25. CASE UNCHANGED vars
  BY <1>25 DEF vars, Owners, Numbers, Places, RunOK, RunStates, JobOK, LockHeld,
     LockedPcs, NoJob, InitPcs, UndoPcs, CountOK
<1> QED
  BY <1>1, <1>2, <1>3, <1>4, <1>5, <1>6, <1>7, <1>8, <1>9, <1>10, <1>11, <1>12, <1>13,
     <1>14, <1>15, <1>16, <1>17, <1>18, <1>19, <1>20, <1>21, <1>22, <1>23, <1>24, <1>25
     DEF Next

\* Nothing is in place that job.json does not record.
LEMMA PlacesStep ==
  ASSUME Places, Owners, Numbers, RunOK, JobOK, TreeOK, LockHeld, LockOK, CountOK, FacadeOK,
         ShownOK, Approvals, [Next]_vars
  PROVE  Places'
<1>1. ASSUME NEW p \in Runs, NEW t \in Tasks, NEW a \in shown \union {NoAuthority},
            Begin(p, t, a)
     PROVE  Places'
  <2>1. BeginMove(p, t, a)
    BY <1>1, BeginMoves
  <2> QED
    BY <2>1, RunsAssumption, BoundsAssumption DEF BeginMove, Others, Moves, Ends, Idle,
       Asked, Owned, Knows, Places, Owners, Numbers, RunOK, RunStates, JobOK, TreeOK,
       LockHeld, LockedPcs, NoJob, NoTree, UndoPcs, CountOK
<1>2. ASSUME NEW p \in Runs, InitRecord(p) PROVE Places'
  BY <1>2, RunsAssumption, BoundsAssumption DEF InitRecord, Put, At, To, Idle, Places,
     Owners, Numbers, RunOK, RunStates, JobOK, TreeOK, LockHeld, LockedPcs, NoJob, NoTree,
     UndoPcs, CountOK
<1>3. ASSUME NEW p \in Runs, InitAdd(p) PROVE Places'
  BY <1>3, RunsAssumption, BoundsAssumption DEF InitAdd, Put, At, To, Idle, Places,
     Owners, Numbers, RunOK, RunStates, JobOK, TreeOK, LockHeld, LockedPcs, NoJob, NoTree,
     UndoPcs, CountOK
<1>4. ASSUME NEW p \in Runs, InitReady(p) PROVE Places'
  <2>1. InitReadyMove(p)
    BY <1>4, InitReadyMoves
  <2> QED
    BY <2>1, RunsAssumption, BoundsAssumption DEF InitReadyMove, Others, Moves, Ends,
       Idle, Asked, Owned, Knows, Places, Owners, Numbers, RunOK, RunStates, JobOK,
       TreeOK, LockHeld, LockedPcs, NoJob, NoTree, UndoPcs, CountOK
<1>5. ASSUME NEW p \in Runs, Snapshot(p) PROVE Places'
  <2>1. SnapshotMove(p)
    BY <1>5, SnapshotMoves
  <2> QED
    BY <2>1, RunsAssumption, BoundsAssumption DEF SnapshotMove, Ready, JobBound, Others,
       Moves, Ends, Idle, Asked, Owned, Knows, Places, Owners, Numbers, RunOK, RunStates,
       JobOK, TreeOK, LockHeld, LockedPcs, NoJob, NoTree, UndoPcs, CountOK
<1>6. ASSUME NEW p \in Runs, Open(p) PROVE Places'
  <2>1. OpenMove(p)
    BY <1>6, OpenMoves
  <2> QED
    BY <2>1, RunsAssumption, BoundsAssumption DEF OpenMove, Others, Moves, Ends, Idle,
       Asked, Owned, Knows, Places, Owners, Numbers, RunOK, RunStates, JobOK, TreeOK,
       LockHeld, LockedPcs, NoJob, NoTree, UndoPcs, CountOK
<1>7. ASSUME NEW p \in Runs, Preview(p) PROVE Places'
  <2>1. PreviewMove(p)
    BY <1>7, PreviewMoves
  <2> QED
    BY <2>1, RunsAssumption, BoundsAssumption DEF PreviewMove, Measured, Others, Moves,
       Ends, Idle, Asked, Owned, Knows, Places, Owners, Numbers, RunOK, RunStates, JobOK,
       TreeOK, LockHeld, LockedPcs, NoJob, NoTree, UndoPcs, CountOK
<1>8. ASSUME NEW p \in Runs, Bind(p) PROVE Places'
  <2>1. BindMove(p)
    BY <1>8, BindMoves
  <2> QED
    BY <2>1, RunsAssumption, BoundsAssumption DEF BindMove, DecideMove, Others, Moves,
       Ends, Idle, Asked, Owned, Knows, Places, Owners, Numbers, RunOK, RunStates, JobOK,
       TreeOK, LockHeld, LockedPcs, NoJob, NoTree, UndoPcs, CountOK
<1>9. ASSUME NEW p \in Runs, CheckRecord(p) PROVE Places'
  BY <1>9, RunsAssumption, BoundsAssumption DEF CheckRecord, Resume, RecordApproved, Put,
     At, To, Idle, Places, Owners, Numbers, RunOK, RunStates, JobOK, TreeOK, LockHeld,
     LockedPcs, NoJob, NoTree, UndoPcs, CountOK
<1>10. ASSUME NEW p \in Runs, MakeDir(p) PROVE Places'
  BY <1>10, RunsAssumption, BoundsAssumption DEF MakeDir, Resume, Put, At, To, Idle,
     Places, Owners, Numbers, RunOK, RunStates, JobOK, TreeOK, LockHeld, LockedPcs, NoJob,
     NoTree, UndoPcs, CountOK
<1>11. ASSUME NEW p \in Runs, Select(p) PROVE Places'
  BY <1>11, RunsAssumption, BoundsAssumption DEF Select, Resume, Put, At, To, Idle,
     Places, Owners, Numbers, RunOK, RunStates, JobOK, TreeOK, LockHeld, LockedPcs, NoJob,
     NoTree, UndoPcs, CountOK
<1>12. ASSUME NEW p \in Runs, Repreview(p) PROVE Places'
  <2>1. RepreviewMove(p)
    BY <1>12, RepreviewMoves
  <2> QED
    BY <2>1, RunsAssumption, BoundsAssumption DEF RepreviewMove, Measured, Others, Moves,
       Ends, Idle, Asked, Owned, Knows, Places, Owners, Numbers, RunOK, RunStates, JobOK,
       TreeOK, LockHeld, LockedPcs, NoJob, NoTree, UndoPcs, CountOK
<1>13. ASSUME NEW p \in Runs, Match(p) PROVE Places'
  BY <1>13, RunsAssumption, BoundsAssumption DEF Match, Resume, RecordApproved, Put, At,
     To, Idle, Places, Owners, Numbers, RunOK, RunStates, JobOK, TreeOK, LockHeld,
     LockedPcs, NoJob, NoTree, UndoPcs, CountOK
<1>14. ASSUME NEW p \in Runs, Launch(p) PROVE Places'
  BY <1>14, RunsAssumption, BoundsAssumption DEF Launch, Resume, Put, At, To, Idle,
     Places, Owners, Numbers, RunOK, RunStates, JobOK, TreeOK, LockHeld, LockedPcs, NoJob,
     NoTree, UndoPcs, CountOK
<1>15. ASSUME NEW p \in Runs, Failed(p) PROVE Places'
  BY <1>15, RunsAssumption, BoundsAssumption DEF Failed, Put, At, To, Idle, Places,
     Owners, Numbers, RunOK, RunStates, JobOK, TreeOK, LockHeld, LockedPcs, NoJob, NoTree,
     UndoPcs, CountOK
<1>16. ASSUME NEW p \in Runs, UndoRead(p) PROVE Places'
  <2>1. UndoReadMove(p)
    BY <1>16, UndoReadMoves
  <2> QED
    BY <2>1, RunsAssumption, BoundsAssumption DEF UndoReadMove, JobBound, Others, Moves,
       Ends, Idle, Asked, Owned, Knows, Places, Owners, Numbers, RunOK, RunStates, JobOK,
       TreeOK, LockHeld, LockedPcs, NoJob, NoTree, UndoPcs, CountOK
<1>17. ASSUME NEW p \in Runs, UndoLock(p) PROVE Places'
  BY <1>17, RunsAssumption, BoundsAssumption DEF UndoLock, Put, At, To, Idle, Places,
     Owners, Numbers, RunOK, RunStates, JobOK, TreeOK, LockHeld, LockedPcs, NoJob, NoTree,
     UndoPcs, CountOK
<1>18. ASSUME NEW p \in Runs, UndoInspect(p) PROVE Places'
  BY <1>18, RunsAssumption, BoundsAssumption DEF UndoInspect, Ready, JobBound, Put, At,
     To, Idle, Places, Owners, Numbers, RunOK, RunStates, JobOK, TreeOK, LockHeld,
     LockedPcs, NoJob, NoTree, UndoPcs, CountOK
<1>19. ASSUME NEW p \in Runs, UndoTree(p) PROVE Places'
  BY <1>19, RunsAssumption, BoundsAssumption DEF UndoTree, Put, At, To, Idle, Places,
     Owners, Numbers, RunOK, RunStates, JobOK, TreeOK, LockHeld, LockedPcs, NoJob, NoTree,
     UndoPcs, CountOK
<1>20. ASSUME NEW p \in Runs, UndoRef(p) PROVE Places'
  BY <1>20, RunsAssumption, BoundsAssumption DEF UndoRef, Put, At, To, Idle, Places,
     Owners, Numbers, RunOK, RunStates, JobOK, TreeOK, LockHeld, LockedPcs, NoJob, NoTree,
     UndoPcs, CountOK
<1>21. ASSUME NEW p \in Runs, UndoState(p) PROVE Places'
  BY <1>21, RunsAssumption, BoundsAssumption DEF UndoState, Resume, Put, At, To, Idle,
     Places, Owners, Numbers, RunOK, RunStates, JobOK, TreeOK, LockHeld, LockedPcs, NoJob,
     NoTree, UndoPcs, CountOK
<1>22. ASSUME NEW p \in Runs, Discard(p) PROVE Places'
  BY <1>22, RunsAssumption, BoundsAssumption DEF Discard, Put, At, To, Idle, Places,
     Owners, Numbers, RunOK, RunStates, JobOK, TreeOK, LockHeld, LockedPcs, NoJob, NoTree,
     UndoPcs, CountOK
<1>23. ASSUME NEW p \in Runs, Kill(p) PROVE Places'
  BY <1>23, RunsAssumption, BoundsAssumption DEF Kill, ChildPcs, Put, At, To, Idle,
     Places, Owners, Numbers, RunOK, RunStates, JobOK, TreeOK, LockHeld, LockedPcs, NoJob,
     NoTree, UndoPcs, CountOK
<1>24. ASSUME NEW k \in Contents, Edit(k) PROVE Places'
  BY <1>24, RunsAssumption, BoundsAssumption DEF Edit, Places, Owners, Numbers, RunOK,
     RunStates, JobOK, TreeOK, LockHeld, LockedPcs, NoJob, NoTree, UndoPcs, CountOK
<1>25. CASE UNCHANGED vars
  BY <1>25 DEF vars, Places, Owners, Numbers, RunOK, RunStates, JobOK, TreeOK, LockHeld,
     LockedPcs, NoJob, NoTree, UndoPcs, CountOK
<1> QED
  BY <1>1, <1>2, <1>3, <1>4, <1>5, <1>6, <1>7, <1>8, <1>9, <1>10, <1>11, <1>12, <1>13,
     <1>14, <1>15, <1>16, <1>17, <1>18, <1>19, <1>20, <1>21, <1>22, <1>23, <1>24, <1>25
     DEF Next

\* workflow.json is known by its maker.
LEMMA MakersStep ==
  ASSUME Makers, Owners, Numbers, RunOK, FacadeOK, LockHeld, LockOK, CountOK, JobOK, TreeOK,
         ShownOK, Approvals, [Next]_vars
  PROVE  Makers'
<1>1. ASSUME NEW p \in Runs, NEW t \in Tasks, NEW a \in shown \union {NoAuthority},
            Begin(p, t, a)
     PROVE  Makers'
  <2>1. BeginMove(p, t, a)
    BY <1>1, BeginMoves
  <2> QED
    BY <2>1, RunsAssumption, BoundsAssumption DEF BeginMove, Others, Moves, Ends, Idle,
       Asked, Owned, Knows, Makers, Owners, Numbers, RunOK, RunStates, FacadeOK, Facades,
       LockHeld, LockedPcs, NoFacade, Early, UndoPcs, CountOK
<1>2. ASSUME NEW p \in Runs, InitRecord(p) PROVE Makers'
  BY <1>2, RunsAssumption, BoundsAssumption, SMTT(30) DEF InitRecord, Put, At, To, Idle, Makers,
     Owners, Numbers, RunOK, RunStates, FacadeOK, Facades, LockHeld, LockedPcs, NoFacade,
     Early, UndoPcs, CountOK
<1>3. ASSUME NEW p \in Runs, InitAdd(p) PROVE Makers'
  BY <1>3, RunsAssumption, BoundsAssumption, SMTT(30) DEF InitAdd, Put, At, To, Idle, Makers,
     Owners, Numbers, RunOK, RunStates, FacadeOK, Facades, LockHeld, LockedPcs, NoFacade,
     Early, UndoPcs, CountOK
<1>4. ASSUME NEW p \in Runs, InitReady(p) PROVE Makers'
  <2>1. InitReadyMove(p)
    BY <1>4, InitReadyMoves
  <2> QED
    BY <2>1, RunsAssumption, BoundsAssumption DEF InitReadyMove, Others, Moves, Ends,
       Idle, Asked, Owned, Knows, Makers, Owners, Numbers, RunOK, RunStates, FacadeOK,
       Facades, LockHeld, LockedPcs, NoFacade, Early, UndoPcs, CountOK
<1>5. ASSUME NEW p \in Runs, Snapshot(p) PROVE Makers'
  <2>1. SnapshotMove(p)
    BY <1>5, SnapshotMoves
  <2> QED
    BY <2>1, RunsAssumption, BoundsAssumption DEF SnapshotMove, Ready, JobBound, Others,
       Moves, Ends, Idle, Asked, Owned, Knows, Makers, Owners, Numbers, RunOK, RunStates,
       FacadeOK, Facades, LockHeld, LockedPcs, NoFacade, Early, UndoPcs, CountOK
<1>6. ASSUME NEW p \in Runs, Open(p) PROVE Makers'
  <2>1. OpenMove(p)
    BY <1>6, OpenMoves
  <2> QED
    BY <2>1, RunsAssumption, BoundsAssumption DEF OpenMove, Others, Moves, Ends, Idle,
       Asked, Owned, Knows, Makers, Owners, Numbers, RunOK, RunStates, FacadeOK, Facades,
       LockHeld, LockedPcs, NoFacade, Early, UndoPcs, CountOK
<1>7. ASSUME NEW p \in Runs, Preview(p) PROVE Makers'
  <2>1. PreviewMove(p)
    BY <1>7, PreviewMoves
  <2> QED
    BY <2>1, RunsAssumption, BoundsAssumption DEF PreviewMove, Measured, Others, Moves,
       Ends, Idle, Asked, Owned, Knows, Makers, Owners, Numbers, RunOK, RunStates,
       FacadeOK, Facades, LockHeld, LockedPcs, NoFacade, Early, UndoPcs, CountOK
<1>8. ASSUME NEW p \in Runs, Bind(p) PROVE Makers'
  <2>1. BindMove(p)
    BY <1>8, BindMoves
  <2> QED
    BY <2>1, RunsAssumption, BoundsAssumption DEF BindMove, DecideMove, Others, Moves,
       Ends, Idle, Asked, Owned, Knows, Makers, Owners, Numbers, RunOK, RunStates,
       FacadeOK, Facades, LockHeld, LockedPcs, NoFacade, Early, UndoPcs, CountOK
<1>9. ASSUME NEW p \in Runs, CheckRecord(p) PROVE Makers'
  BY <1>9, RunsAssumption, BoundsAssumption DEF CheckRecord, Resume, RecordApproved, Put,
     At, To, Idle, Makers, Owners, Numbers, RunOK, RunStates, FacadeOK, Facades, LockHeld,
     LockedPcs, NoFacade, Early, UndoPcs, CountOK
<1>10. ASSUME NEW p \in Runs, MakeDir(p) PROVE Makers'
  BY <1>10, RunsAssumption, BoundsAssumption DEF MakeDir, Resume, Put, At, To, Idle,
     Makers, Owners, Numbers, RunOK, RunStates, FacadeOK, Facades, LockHeld, LockedPcs,
     NoFacade, Early, UndoPcs, CountOK
<1>11. ASSUME NEW p \in Runs, Select(p) PROVE Makers'
  BY <1>11, RunsAssumption, BoundsAssumption, SMTT(30) DEF Select, Resume, Put, At, To, Idle,
     Makers, Owners, Numbers, RunOK, RunStates, FacadeOK, Facades, LockHeld, LockedPcs,
     NoFacade, Early, UndoPcs, CountOK
<1>12. ASSUME NEW p \in Runs, Repreview(p) PROVE Makers'
  <2>1. RepreviewMove(p)
    BY <1>12, RepreviewMoves
  <2> QED
    BY <2>1, RunsAssumption, BoundsAssumption DEF RepreviewMove, Measured, Others, Moves,
       Ends, Idle, Asked, Owned, Knows, Makers, Owners, Numbers, RunOK, RunStates,
       FacadeOK, Facades, LockHeld, LockedPcs, NoFacade, Early, UndoPcs, CountOK
<1>13. ASSUME NEW p \in Runs, Match(p) PROVE Makers'
  BY <1>13, RunsAssumption, BoundsAssumption DEF Match, Resume, RecordApproved, Put, At,
     To, Idle, Makers, Owners, Numbers, RunOK, RunStates, FacadeOK, Facades, LockHeld,
     LockedPcs, NoFacade, Early, UndoPcs, CountOK
<1>14. ASSUME NEW p \in Runs, Launch(p) PROVE Makers'
  <2>1. /\ run[p].pc = "launch"
        /\ UNCHANGED <<job, tree, ref, facade, lock, shown, calls, edits, kills>>
    BY <1>14 DEF Launch, At
  <2>2. \/ run' = [run EXCEPT ![p] = Idle]
        \/ run' = [run EXCEPT ![p] = To(p, "failed")]
    BY <1>14 DEF Launch, Resume, Put
  <2>3. CASE run' = [run EXCEPT ![p] = Idle]
    <3>1. Ends(p)
      BY <2>3 DEF Ends, Others, RunOK
    <3> QED
      BY <2>1, <3>1, EndsMakers
  <2>4. CASE run' = [run EXCEPT ![p] = To(p, "failed")]
    <3>1. Moves(p, "failed") /\ Asked(p) /\ Owned(p) /\ Knows(p)
      BY <2>4, ToMoves
    <3> QED
      BY <2>1, <2>4, <3>1 DEF Moves, Others, Asked, Owned, Knows, Makers, Numbers, RunOK,
         RunStates, FacadeOK, Facades, Early
  <2> QED
    BY <2>2, <2>3, <2>4
<1>15. ASSUME NEW p \in Runs, Failed(p) PROVE Makers'
  BY <1>15, RunsAssumption, BoundsAssumption, SMTT(30) DEF Failed, Put, At, To, Idle, Makers,
     Owners, Numbers, RunOK, RunStates, FacadeOK, Facades, LockHeld, LockedPcs, NoFacade,
     Early, UndoPcs, CountOK
<1>16. ASSUME NEW p \in Runs, UndoRead(p) PROVE Makers'
  <2>1. UndoReadMove(p)
    BY <1>16, UndoReadMoves
  <2> QED
    BY <2>1, RunsAssumption, BoundsAssumption DEF UndoReadMove, JobBound, Others, Moves,
       Ends, Idle, Asked, Owned, Knows, Makers, Owners, Numbers, RunOK, RunStates,
       FacadeOK, Facades, LockHeld, LockedPcs, NoFacade, Early, UndoPcs, CountOK
<1>17. ASSUME NEW p \in Runs, UndoLock(p) PROVE Makers'
  BY <1>17, RunsAssumption, BoundsAssumption DEF UndoLock, Put, At, To, Idle, Makers,
     Owners, Numbers, RunOK, RunStates, FacadeOK, Facades, LockHeld, LockedPcs, NoFacade,
     Early, UndoPcs, CountOK
<1>18. ASSUME NEW p \in Runs, UndoInspect(p) PROVE Makers'
  <2>1. /\ run[p].pc = "undo-inspect"
        /\ UNCHANGED <<job, tree, ref, facade, dir, shown, launches, calls, edits, kills>>
    BY <1>18 DEF UndoInspect, At
  <2>2. \/ run' = [run EXCEPT ![p] = Idle]
        \/ run' = [run EXCEPT ![p] = To(p, "undo-tree")]
    BY <1>18 DEF UndoInspect, Put
  <2>3. CASE run' = [run EXCEPT ![p] = Idle]
    <3>1. Ends(p)
      BY <2>3 DEF Ends, Others, RunOK
    <3> QED
      BY <2>1, <3>1, EndsMakers
  <2>4. CASE run' = [run EXCEPT ![p] = To(p, "undo-tree")]
    <3>1. Moves(p, "undo-tree") /\ Asked(p) /\ Owned(p) /\ Knows(p)
      BY <2>4, ToMoves
    <3> QED
      BY <2>1, <2>4, <3>1 DEF Moves, Others, Asked, Owned, Knows, Makers, Numbers, RunOK,
         RunStates, FacadeOK, Facades, Early
  <2> QED
    BY <2>2, <2>3, <2>4
<1>19. ASSUME NEW p \in Runs, UndoTree(p) PROVE Makers'
  BY <1>19, RunsAssumption, BoundsAssumption DEF UndoTree, Put, At, To, Idle, Makers,
     Owners, Numbers, RunOK, RunStates, FacadeOK, Facades, LockHeld, LockedPcs, NoFacade,
     Early, UndoPcs, CountOK
<1>20. ASSUME NEW p \in Runs, UndoRef(p) PROVE Makers'
  BY <1>20, RunsAssumption, BoundsAssumption DEF UndoRef, Put, At, To, Idle, Makers,
     Owners, Numbers, RunOK, RunStates, FacadeOK, Facades, LockHeld, LockedPcs, NoFacade,
     Early, UndoPcs, CountOK
<1>21. ASSUME NEW p \in Runs, UndoState(p) PROVE Makers'
  BY <1>21, RunsAssumption, BoundsAssumption DEF UndoState, Resume, Put, At, To, Idle,
     Makers, Owners, Numbers, RunOK, RunStates, FacadeOK, Facades, LockHeld, LockedPcs,
     NoFacade, Early, UndoPcs, CountOK
<1>22. ASSUME NEW p \in Runs, Discard(p) PROVE Makers'
  BY <1>22, RunsAssumption, BoundsAssumption DEF Discard, Put, At, To, Idle, Makers,
     Owners, Numbers, RunOK, RunStates, FacadeOK, Facades, LockHeld, LockedPcs, NoFacade,
     Early, UndoPcs, CountOK
<1>23. ASSUME NEW p \in Runs, Kill(p) PROVE Makers'
  <2>1. \/ Ends(p)
        \/ Moves(p, run[p].pc) /\ Asked(p) /\ Knows(p)
           /\ run'[p].made = run[p].made /\ run'[p].owns = run[p].owns
    BY <1>23, KillMoves
  <2>2. UNCHANGED <<facade, calls>>
    BY <1>23 DEF Kill
  <2>3. CASE Ends(p)
    BY <2>2, <2>3, EndsMakers
  <2>4. CASE Moves(p, run[p].pc) /\ Asked(p) /\ Knows(p)
             /\ run'[p].made = run[p].made /\ run'[p].owns = run[p].owns
    BY <2>2, <2>4 DEF Moves, Others, Asked, Knows, Makers
  <2> QED
    BY <2>1, <2>3, <2>4
<1>24. ASSUME NEW k \in Contents, Edit(k) PROVE Makers'
  BY <1>24, RunsAssumption, BoundsAssumption DEF Edit, Makers, Owners, Numbers, RunOK,
     RunStates, FacadeOK, Facades, LockHeld, LockedPcs, NoFacade, Early, UndoPcs, CountOK
<1>25. CASE UNCHANGED vars
  BY <1>25 DEF vars, Makers, Owners, Numbers, RunOK, RunStates, FacadeOK, Facades,
     LockHeld, LockedPcs, NoFacade, Early, UndoPcs, CountOK
<1> QED
  BY <1>1, <1>2, <1>3, <1>4, <1>5, <1>6, <1>7, <1>8, <1>9, <1>10, <1>11, <1>12, <1>13,
     <1>14, <1>15, <1>16, <1>17, <1>18, <1>19, <1>20, <1>21, <1>22, <1>23, <1>24, <1>25
     DEF Next

\* One invocation at a time works in the dispatch directory.
LEMMA ClaimsStep ==
  ASSUME Claims, Places, Numbers, RunOK, JobOK, TreeOK, CountOK, LockOK, FacadeOK, ShownOK,
         Approvals, [Next]_vars
  PROVE  Claims'
<1>1. ASSUME NEW p \in Runs, NEW t \in Tasks, NEW a \in shown \union {NoAuthority},
            Begin(p, t, a)
     PROVE  Claims'
  <2>1. BeginMove(p, t, a)
    BY <1>1, BeginMoves
  <2> QED
    BY <2>1, BoundsAssumption DEF BeginMove, Others, Moves, Ends, Idle, Asked, Owned,
       Knows, Claims, Places, RunOK, RunStates, JobOK, TreeOK, NoJob, NoTree, DirPcs,
       Numbers, CountOK
<1>2. ASSUME NEW p \in Runs, InitRecord(p) PROVE Claims'
  BY <1>2, BoundsAssumption DEF InitRecord, Put, At, To, Idle, Claims, Places, RunOK,
     RunStates, JobOK, TreeOK, NoJob, NoTree, DirPcs, Numbers, CountOK
<1>3. ASSUME NEW p \in Runs, InitAdd(p) PROVE Claims'
  <2>1. /\ run[p].pc = "adding" /\ ref' \in {ref, "base"} /\ job'.gen = job.gen
        /\ UNCHANGED <<dir, launches>>
    BY <1>3 DEF InitAdd, At, JobOK
  <2>2. \/ run' = [run EXCEPT ![p] = Idle]
        \/ run' = [run EXCEPT ![p] = To(p, "readying")]
    BY <1>3 DEF InitAdd, Put
  <2>3. CASE run' = [run EXCEPT ![p] = Idle]
    <3>1. Ends(p)
      BY <2>3 DEF Ends, Others, RunOK
    <3> QED
      BY <2>1, <3>1 DEF Ends, Others, Idle, Claims, DirPcs
  <2>4. CASE run' = [run EXCEPT ![p] = To(p, "readying")]
    <3>1. Moves(p, "readying")
      BY <2>4, ToMoves
    <3> QED
      BY <2>1, <3>1 DEF Moves, Others, Claims, DirPcs
  <2> QED
    BY <2>2, <2>3, <2>4
<1>4. ASSUME NEW p \in Runs, InitReady(p) PROVE Claims'
  <2>1. InitReadyMove(p)
    BY <1>4, InitReadyMoves
  <2> QED
    BY <2>1, BoundsAssumption DEF InitReadyMove, Others, Moves, Ends, Idle, Asked, Owned,
       Knows, Claims, Places, RunOK, RunStates, JobOK, TreeOK, NoJob, NoTree, DirPcs,
       Numbers, CountOK
<1>5. ASSUME NEW p \in Runs, Snapshot(p) PROVE Claims'
  <2>1. SnapshotMove(p)
    BY <1>5, SnapshotMoves
  <2> QED
    BY <2>1, BoundsAssumption DEF SnapshotMove, Ready, JobBound, Others, Moves, Ends,
       Idle, Asked, Owned, Knows, Claims, Places, RunOK, RunStates, JobOK, TreeOK, NoJob,
       NoTree, DirPcs, Numbers, CountOK
<1>6. ASSUME NEW p \in Runs, Open(p) PROVE Claims'
  <2>1. OpenMove(p)
    BY <1>6, OpenMoves
  <2> QED
    BY <2>1, BoundsAssumption DEF OpenMove, Others, Moves, Ends, Idle, Asked, Owned,
       Knows, Claims, Places, RunOK, RunStates, JobOK, TreeOK, NoJob, NoTree, DirPcs,
       Numbers, CountOK
<1>7. ASSUME NEW p \in Runs, Preview(p) PROVE Claims'
  <2>1. PreviewMove(p)
    BY <1>7, PreviewMoves
  <2> QED
    BY <2>1, BoundsAssumption DEF PreviewMove, Measured, Others, Moves, Ends, Idle, Asked,
       Owned, Knows, Claims, Places, RunOK, RunStates, JobOK, TreeOK, NoJob, NoTree,
       DirPcs, Numbers, CountOK
<1>8. ASSUME NEW p \in Runs, Bind(p) PROVE Claims'
  <2>1. BindMove(p)
    BY <1>8, BindMoves
  <2> QED
    BY <2>1, BoundsAssumption DEF BindMove, DecideMove, Others, Moves, Ends, Idle, Asked,
       Owned, Knows, Claims, Places, RunOK, RunStates, JobOK, TreeOK, NoJob, NoTree,
       DirPcs, Numbers, CountOK
<1>9. ASSUME NEW p \in Runs, CheckRecord(p) PROVE Claims'
  BY <1>9, BoundsAssumption DEF CheckRecord, Resume, RecordApproved, Put, At, To, Idle,
     Claims, Places, RunOK, RunStates, JobOK, TreeOK, NoJob, NoTree, DirPcs, Numbers,
     CountOK
<1>10. ASSUME NEW p \in Runs, MakeDir(p) PROVE Claims'
  BY <1>10, BoundsAssumption DEF MakeDir, Resume, Put, At, To, Idle, Claims, Places,
     RunOK, RunStates, JobOK, TreeOK, NoJob, NoTree, DirPcs, Numbers, CountOK
<1>11. ASSUME NEW p \in Runs, Select(p) PROVE Claims'
  BY <1>11, BoundsAssumption DEF Select, Resume, Put, At, To, Idle, Claims, Places, RunOK,
     RunStates, JobOK, TreeOK, NoJob, NoTree, DirPcs, Numbers, CountOK
<1>12. ASSUME NEW p \in Runs, Repreview(p) PROVE Claims'
  <2>1. RepreviewMove(p)
    BY <1>12, RepreviewMoves
  <2> QED
    BY <2>1, BoundsAssumption DEF RepreviewMove, Measured, Others, Moves, Ends, Idle,
       Asked, Owned, Knows, Claims, Places, RunOK, RunStates, JobOK, TreeOK, NoJob,
       NoTree, DirPcs, Numbers, CountOK
<1>13. ASSUME NEW p \in Runs, Match(p) PROVE Claims'
  <2>1. /\ run[p].pc = "match"
        /\ UNCHANGED <<job, tree, ref, facade, dir, lock, shown, launches, calls, edits, kills>>
    BY <1>13 DEF Match, At
  <2>2. \/ run' = [run EXCEPT ![p] = Idle]
        \/ run' = [run EXCEPT ![p] = To(p, "launch")]
        \/ run' = [run EXCEPT ![p] = To(p, "failed")]
    BY <1>13 DEF Match, Resume, Put
  <2>3. CASE run' = [run EXCEPT ![p] = Idle]
    <3>1. Ends(p)
      BY <2>3 DEF Ends, Others, RunOK
    <3> QED
      BY <2>1, <3>1 DEF Ends, Others, Idle, Claims, RunOK, RunStates, DirPcs
  <2>4. CASE run' = [run EXCEPT ![p] = To(p, "launch")]
    <3>1. Moves(p, "launch") /\ Asked(p) /\ Owned(p) /\ Knows(p)
      BY <2>4, ToMoves
    <3> QED
      BY <2>1, <2>4, <3>1 DEF Moves, Others, Asked, Owned, Knows, Claims, RunOK,
         RunStates, DirPcs
  <2>5. CASE run' = [run EXCEPT ![p] = To(p, "failed")]
    <3>1. Moves(p, "failed") /\ Asked(p) /\ Owned(p) /\ Knows(p)
      BY <2>5, ToMoves
    <3> QED
      BY <2>1, <2>5, <3>1 DEF Moves, Others, Asked, Owned, Knows, Claims, RunOK,
         RunStates, DirPcs
  <2> QED
    BY <2>2, <2>3, <2>4, <2>5
<1>14. ASSUME NEW p \in Runs, Launch(p) PROVE Claims'
  BY <1>14, BoundsAssumption DEF Launch, Resume, Put, At, To, Idle, Claims, Places, RunOK,
     RunStates, JobOK, TreeOK, NoJob, NoTree, DirPcs, Numbers, CountOK
<1>15. ASSUME NEW p \in Runs, Failed(p) PROVE Claims'
  BY <1>15, BoundsAssumption DEF Failed, Put, At, To, Idle, Claims, Places, RunOK,
     RunStates, JobOK, TreeOK, NoJob, NoTree, DirPcs, Numbers, CountOK
<1>16. ASSUME NEW p \in Runs, UndoRead(p) PROVE Claims'
  <2>1. UndoReadMove(p)
    BY <1>16, UndoReadMoves
  <2> QED
    BY <2>1, BoundsAssumption DEF UndoReadMove, JobBound, Others, Moves, Ends, Idle,
       Asked, Owned, Knows, Claims, Places, RunOK, RunStates, JobOK, TreeOK, NoJob,
       NoTree, DirPcs, Numbers, CountOK
<1>17. ASSUME NEW p \in Runs, UndoLock(p) PROVE Claims'
  <2>1. /\ run[p].pc = "undo-lock"
        /\ UNCHANGED <<job, tree, ref, facade, dir, shown, launches, calls, edits, kills>>
    BY <1>17 DEF UndoLock, At
  <2>2. \/ run' = [run EXCEPT ![p] = Idle]
        \/ run' = [run EXCEPT ![p] = To(p, "undo-inspect")]
    BY <1>17 DEF UndoLock, Put
  <2>3. CASE run' = [run EXCEPT ![p] = Idle]
    <3>1. Ends(p)
      BY <2>3 DEF Ends, Others, RunOK
    <3> QED
      BY <2>1, <3>1 DEF Ends, Others, Idle, Claims, RunOK, RunStates, DirPcs
  <2>4. CASE run' = [run EXCEPT ![p] = To(p, "undo-inspect")]
    <3>1. Moves(p, "undo-inspect") /\ Asked(p) /\ Owned(p) /\ Knows(p)
      BY <2>4, ToMoves
    <3> QED
      BY <2>1, <2>4, <3>1 DEF Moves, Others, Asked, Owned, Knows, Claims, RunOK,
         RunStates, DirPcs
  <2> QED
    BY <2>2, <2>3, <2>4
<1>18. ASSUME NEW p \in Runs, UndoInspect(p) PROVE Claims'
  BY <1>18, BoundsAssumption DEF UndoInspect, Ready, JobBound, Put, At, To, Idle, Claims,
     Places, RunOK, RunStates, JobOK, TreeOK, NoJob, NoTree, DirPcs, Numbers, CountOK
<1>19. ASSUME NEW p \in Runs, UndoTree(p) PROVE Claims'
  BY <1>19, BoundsAssumption DEF UndoTree, Put, At, To, Idle, Claims, Places, RunOK,
     RunStates, JobOK, TreeOK, NoJob, NoTree, DirPcs, Numbers, CountOK
<1>20. ASSUME NEW p \in Runs, UndoRef(p) PROVE Claims'
  BY <1>20, BoundsAssumption DEF UndoRef, Put, At, To, Idle, Claims, Places, RunOK,
     RunStates, JobOK, TreeOK, NoJob, NoTree, DirPcs, Numbers, CountOK
<1>21. ASSUME NEW p \in Runs, UndoState(p) PROVE Claims'
  BY <1>21, BoundsAssumption, SMTT(30) DEF UndoState, Resume, Put, At, To, Idle, Claims, Places,
     RunOK, RunStates, JobOK, TreeOK, NoJob, NoTree, DirPcs, Numbers, CountOK
<1>22. ASSUME NEW p \in Runs, Discard(p) PROVE Claims'
  BY <1>22, BoundsAssumption DEF Discard, Put, At, To, Idle, Claims, Places, RunOK,
     RunStates, JobOK, TreeOK, NoJob, NoTree, DirPcs, Numbers, CountOK
<1>23. ASSUME NEW p \in Runs, Kill(p) PROVE Claims'
  BY <1>23, BoundsAssumption DEF Kill, ChildPcs, Put, At, To, Idle, Claims, Places, RunOK,
     RunStates, JobOK, TreeOK, NoJob, NoTree, DirPcs, Numbers, CountOK
<1>24. ASSUME NEW k \in Contents, Edit(k) PROVE Claims'
  BY <1>24, BoundsAssumption DEF Edit, Claims, Places, RunOK, RunStates, JobOK, TreeOK,
     NoJob, NoTree, DirPcs, Numbers, CountOK
<1>25. CASE UNCHANGED vars
  BY <1>25 DEF vars, Claims, Places, RunOK, RunStates, JobOK, TreeOK, NoJob, NoTree,
     DirPcs, Numbers, CountOK
<1> QED
  BY <1>1, <1>2, <1>3, <1>4, <1>5, <1>6, <1>7, <1>8, <1>9, <1>10, <1>11, <1>12, <1>13,
     <1>14, <1>15, <1>16, <1>17, <1>18, <1>19, <1>20, <1>21, <1>22, <1>23, <1>24, <1>25
     DEF Next

\* An approval was shown, and a launch is of what was approved.
LEMMA ApprovalsStep ==
  ASSUME Approvals, RunOK, TreeOK, ShownOK, JobOK, FacadeOK, CountOK, [Next]_vars
  PROVE  Approvals'
<1>1. ASSUME NEW p \in Runs, NEW t \in Tasks, NEW a \in shown \union {NoAuthority},
            Begin(p, t, a)
     PROVE  Approvals'
  <2>1. BeginMove(p, t, a)
    BY <1>1, BeginMoves
  <2> QED
    BY <2>1, TasksAssumption DEF BeginMove, Others, Moves, Ends, Idle, Asked, Owned,
       Knows, Approvals, RunOK, RunStates, TreeOK, ShownOK, Authority, Authorities,
       LaunchPcs
<1>2. ASSUME NEW p \in Runs, InitRecord(p) PROVE Approvals'
  BY <1>2, TasksAssumption DEF InitRecord, Put, At, To, Idle, Approvals, RunOK, RunStates,
     TreeOK, ShownOK, Authority, Authorities, LaunchPcs
<1>3. ASSUME NEW p \in Runs, InitAdd(p) PROVE Approvals'
  BY <1>3, TasksAssumption DEF InitAdd, Put, At, To, Idle, Approvals, RunOK, RunStates,
     TreeOK, ShownOK, Authority, Authorities, LaunchPcs
<1>4. ASSUME NEW p \in Runs, InitReady(p) PROVE Approvals'
  <2>1. InitReadyMove(p)
    BY <1>4, InitReadyMoves
  <2> QED
    BY <2>1, TasksAssumption DEF InitReadyMove, Others, Moves, Ends, Idle, Asked, Owned,
       Knows, Approvals, RunOK, RunStates, TreeOK, ShownOK, Authority, Authorities,
       LaunchPcs
<1>5. ASSUME NEW p \in Runs, Snapshot(p) PROVE Approvals'
  <2>1. SnapshotMove(p)
    BY <1>5, SnapshotMoves
  <2> QED
    BY <2>1, TasksAssumption DEF SnapshotMove, Ready, JobBound, Others, Moves, Ends, Idle,
       Asked, Owned, Knows, Approvals, RunOK, RunStates, TreeOK, ShownOK, Authority,
       Authorities, LaunchPcs
<1>6. ASSUME NEW p \in Runs, Open(p) PROVE Approvals'
  <2>1. OpenMove(p)
    BY <1>6, OpenMoves
  <2> QED
    BY <2>1, TasksAssumption DEF OpenMove, Others, Moves, Ends, Idle, Asked, Owned, Knows,
       Approvals, RunOK, RunStates, TreeOK, ShownOK, Authority, Authorities, LaunchPcs
<1>7. ASSUME NEW p \in Runs, Preview(p) PROVE Approvals'
  <2>1. PreviewMove(p)
    BY <1>7, PreviewMoves
  <2> QED
    BY <2>1, TasksAssumption DEF PreviewMove, Measured, Others, Moves, Ends, Idle, Asked,
       Owned, Knows, Approvals, RunOK, RunStates, TreeOK, ShownOK, Authority, Authorities,
       LaunchPcs
<1>8. ASSUME NEW p \in Runs, Bind(p) PROVE Approvals'
  <2>1. BindMove(p)
    BY <1>8, BindMoves
  <2> QED
    BY <2>1, TasksAssumption DEF BindMove, DecideMove, Others, Moves, Ends, Idle, Asked,
       Owned, Knows, Approvals, RunOK, RunStates, TreeOK, ShownOK, Authority, Authorities,
       LaunchPcs
<1>9. ASSUME NEW p \in Runs, CheckRecord(p) PROVE Approvals'
  BY <1>9, TasksAssumption DEF CheckRecord, Resume, RecordApproved, Put, At, To, Idle,
     Approvals, RunOK, RunStates, TreeOK, ShownOK, Authority, Authorities, LaunchPcs
<1>10. ASSUME NEW p \in Runs, MakeDir(p) PROVE Approvals'
  BY <1>10, TasksAssumption DEF MakeDir, Resume, Put, At, To, Idle, Approvals, RunOK,
     RunStates, TreeOK, ShownOK, Authority, Authorities, LaunchPcs
<1>11. ASSUME NEW p \in Runs, Select(p) PROVE Approvals'
  BY <1>11, TasksAssumption DEF Select, Resume, Put, At, To, Idle, Approvals, RunOK,
     RunStates, TreeOK, ShownOK, Authority, Authorities, LaunchPcs
<1>12. ASSUME NEW p \in Runs, Repreview(p) PROVE Approvals'
  <2>1. RepreviewMove(p)
    BY <1>12, RepreviewMoves
  <2> QED
    BY <2>1, TasksAssumption DEF RepreviewMove, Measured, Others, Moves, Ends, Idle,
       Asked, Owned, Knows, Approvals, RunOK, RunStates, TreeOK, ShownOK, Authority,
       Authorities, LaunchPcs
<1>13. ASSUME NEW p \in Runs, Match(p) PROVE Approvals'
  BY <1>13, TasksAssumption DEF Match, Resume, RecordApproved, Put, At, To, Idle,
     Approvals, RunOK, RunStates, TreeOK, ShownOK, Authority, Authorities, LaunchPcs
<1>14. ASSUME NEW p \in Runs, Launch(p) PROVE Approvals'
  BY <1>14, TasksAssumption DEF Launch, Resume, Put, At, To, Idle, Approvals, RunOK,
     RunStates, TreeOK, ShownOK, Authority, Authorities, LaunchPcs
<1>15. ASSUME NEW p \in Runs, Failed(p) PROVE Approvals'
  BY <1>15, TasksAssumption DEF Failed, Put, At, To, Idle, Approvals, RunOK, RunStates,
     TreeOK, ShownOK, Authority, Authorities, LaunchPcs
<1>16. ASSUME NEW p \in Runs, UndoRead(p) PROVE Approvals'
  <2>1. UndoReadMove(p)
    BY <1>16, UndoReadMoves
  <2> QED
    BY <2>1, TasksAssumption DEF UndoReadMove, JobBound, Others, Moves, Ends, Idle, Asked,
       Owned, Knows, Approvals, RunOK, RunStates, TreeOK, ShownOK, Authority, Authorities,
       LaunchPcs
<1>17. ASSUME NEW p \in Runs, UndoLock(p) PROVE Approvals'
  BY <1>17, TasksAssumption DEF UndoLock, Put, At, To, Idle, Approvals, RunOK, RunStates,
     TreeOK, ShownOK, Authority, Authorities, LaunchPcs
<1>18. ASSUME NEW p \in Runs, UndoInspect(p) PROVE Approvals'
  BY <1>18, TasksAssumption DEF UndoInspect, Ready, JobBound, Put, At, To, Idle,
     Approvals, RunOK, RunStates, TreeOK, ShownOK, Authority, Authorities, LaunchPcs
<1>19. ASSUME NEW p \in Runs, UndoTree(p) PROVE Approvals'
  BY <1>19, TasksAssumption DEF UndoTree, Put, At, To, Idle, Approvals, RunOK, RunStates,
     TreeOK, ShownOK, Authority, Authorities, LaunchPcs
<1>20. ASSUME NEW p \in Runs, UndoRef(p) PROVE Approvals'
  BY <1>20, TasksAssumption DEF UndoRef, Put, At, To, Idle, Approvals, RunOK, RunStates,
     TreeOK, ShownOK, Authority, Authorities, LaunchPcs
<1>21. ASSUME NEW p \in Runs, UndoState(p) PROVE Approvals'
  BY <1>21, TasksAssumption DEF UndoState, Resume, Put, At, To, Idle, Approvals, RunOK,
     RunStates, TreeOK, ShownOK, Authority, Authorities, LaunchPcs
<1>22. ASSUME NEW p \in Runs, Discard(p) PROVE Approvals'
  BY <1>22, TasksAssumption DEF Discard, Put, At, To, Idle, Approvals, RunOK, RunStates,
     TreeOK, ShownOK, Authority, Authorities, LaunchPcs
<1>23. ASSUME NEW p \in Runs, Kill(p) PROVE Approvals'
  BY <1>23, TasksAssumption DEF Kill, ChildPcs, Put, At, To, Idle, Approvals, RunOK,
     RunStates, TreeOK, ShownOK, Authority, Authorities, LaunchPcs
<1>24. ASSUME NEW k \in Contents, Edit(k) PROVE Approvals'
  BY <1>24, TasksAssumption DEF Edit, Approvals, RunOK, RunStates, TreeOK, ShownOK,
     Authority, Authorities, LaunchPcs
<1>25. CASE UNCHANGED vars
  BY <1>25 DEF vars, Approvals, RunOK, RunStates, TreeOK, ShownOK, Authority, Authorities,
     LaunchPcs
<1> QED
  BY <1>1, <1>2, <1>3, <1>4, <1>5, <1>6, <1>7, <1>8, <1>9, <1>10, <1>11, <1>12, <1>13,
     <1>14, <1>15, <1>16, <1>17, <1>18, <1>19, <1>20, <1>21, <1>22, <1>23, <1>24, <1>25
     DEF Next

-----------------------------------------------------------------------------
(***************************************************************************)
(* The theorems.                                                           *)
(***************************************************************************)
\* The invariant holds before the first invocation.
LEMMA InitIInv == ASSUME Init PROVE IInv
  <1>1. JobOK /\ TreeOK /\ FacadeOK /\ LockOK /\ CountOK
    BY IdleType, BoundsAssumption
       DEF Init, JobOK, TreeOK, FacadeOK, LockOK, CountOK, NoJob, NoTree, Contents
  <1>2. RunOK
    BY IdleType DEF Init, RunOK
  <1>3. ShownOK
    BY BoundsAssumption DEF Init, ShownOK, Authority, Authorities, Contents
  <1>4. \A p \in Runs : run[p] = Idle
    BY DEF Init
  <1>5. LockHeld
    BY <1>4, RunsAssumption DEF Init, LockHeld, Idle, LockedPcs
  <1>6. Numbers /\ Owners /\ Places /\ Claims
    BY <1>4, BoundsAssumption
       DEF Init, Numbers, Owners, Places, Claims, Idle, NoJob, NoTree, InitPcs, UndoPcs, DirPcs
  <1>7. Makers
    BY <1>4 DEF Init, Makers, Idle, NoFacade, Early
  <1>8. Approvals
    BY <1>4 DEF Init, Approvals, Idle, LaunchPcs
  <1> QED
    BY <1>1, <1>2, <1>3, <1>5, <1>6, <1>7, <1>8 DEF IInv, Types

\* Every step keeps the invariant.
LEMMA StepIInv == ASSUME IInv, [Next]_vars PROVE IInv'
  <1>1. /\ JobOK /\ TreeOK /\ FacadeOK /\ RunOK /\ LockOK /\ ShownOK /\ CountOK /\ LockHeld
        /\ Numbers /\ Owners /\ Places /\ Makers /\ Claims /\ Approvals
    BY DEF IInv, Types
  <1>2. JobOK'
    BY <1>1, JobTypes
  <1>3. TreeOK'
    BY <1>1, TreeTypes
  <1>4. FacadeOK'
    BY <1>1, FacadeTypes
  <1>5. RunOK'
    BY <1>1, RunTypes
  <1>6. LockOK'
    BY <1>1, LockTypes
  <1>7. ShownOK'
    BY <1>1, ShownTypes
  <1>8. CountOK'
    BY <1>1, CountTypes
  <1>9. LockHeld'
    BY <1>1, LockHeldStep
  <1>10. Numbers'
    BY <1>1, NumbersStep
  <1>11. Owners'
    BY <1>1, OwnersStep
  <1>12. Places'
    BY <1>1, PlacesStep
  <1>13. Makers'
    BY <1>1, MakersStep
  <1>14. Claims'
    BY <1>1, ClaimsStep
  <1>15. Approvals'
    BY <1>1, ApprovalsStep
  <1> QED
    BY <1>2, <1>3, <1>4, <1>5, <1>6, <1>7, <1>8, <1>9, <1>10, <1>11, <1>12, <1>13, <1>14,
       <1>15 DEF IInv, Types

\* The invariant holds in every state of every behaviour.
LEMMA Invariance == Spec => []IInv
  <1>1. Init => IInv
    BY InitIInv
  <1>2. IInv /\ [Next]_vars => IInv'
    BY StepIInv
  <1> QED
    BY <1>1, <1>2, PTL DEF Spec

\* Every variable stays within its type, and the lock on the job root is held by exactly the
\* invocation that is between taking and releasing it (WorkflowStateStore, locked_job_root).
THEOREM TypeCorrect == Spec => []TypeOK
  <1>1. IInv => TypeOK
    BY TypeParts DEF IInv
  <1> QED
    BY <1>1, Invariance, PTL

\* However many invocations run for one job ID, the dispatch that was started is the approved
\* one and the only one, and its job.json and branch are still there.
THEOREM LaunchIsExact == Spec => []LaunchExact
  <1>1. ASSUME IInv PROVE LaunchExact
    <2>1. Claims /\ Approvals
      BY <1>1 DEF IInv
    <2>2. LaunchAuthorized
      BY <2>1 DEF Approvals, LaunchAuthorized
    <2>3. OneLaunch
      BY <2>1 DEF Claims, OneLaunch
    <2>4. LaunchRecorded
      BY <2>1 DEF Claims, LaunchRecorded, NoJob
    <2> QED
      BY <2>2, <2>3, <2>4 DEF LaunchExact
  <1> QED
    BY <1>1, Invariance, PTL

-----------------------------------------------------------------------------
(***************************************************************************)
(* What a step may remove.                                                 *)
(***************************************************************************)
TreeExact == tree # NoTree /\ tree' = NoTree => \E p \in Runs : lock = p /\ run[p].call = tree.gen
JobExact ==
  job # NoJob /\ job' = NoJob =>
    /\ \E p \in Runs : lock = p /\ run[p].call = job.gen
    /\ tree' = NoTree /\ ref' = "none"
FacadeExact == facade # NoFacade /\ facade' = NoFacade => job = NoJob \/ job.gen # facade.job
DirExact == dir = "started" => dir' = "started"

\* The worktree is removed by its maker under the lock.
LEMMA TreeExactStep ==
  ASSUME TreeOK, Places, Owners, LockHeld, Numbers, RunOK, JobOK, FacadeOK, ShownOK, CountOK,
         Approvals, [Next]_vars
  PROVE  TreeExact
<1>1. ASSUME NEW p \in Runs, NEW t \in Tasks, NEW a \in shown \union {NoAuthority},
            Begin(p, t, a)
     PROVE  TreeExact
  <2>1. BeginMove(p, t, a)
    BY <1>1, BeginMoves
  <2> QED
    BY <2>1, BoundsAssumption DEF BeginMove, Others, Moves, Ends, Idle, Asked, Owned,
       Knows, TreeExact, NoTree, TreeOK, Places, Owners, LockHeld, LockedPcs, UndoPcs,
       Numbers, RunOK, RunStates
<1>2. ASSUME NEW p \in Runs, InitRecord(p) PROVE TreeExact
  BY <1>2, BoundsAssumption DEF InitRecord, Put, At, To, Idle, TreeExact, NoTree, TreeOK,
     Places, Owners, LockHeld, LockedPcs, UndoPcs, Numbers, RunOK, RunStates
<1>3. ASSUME NEW p \in Runs, InitAdd(p) PROVE TreeExact
  BY <1>3, BoundsAssumption DEF InitAdd, Put, At, To, Idle, TreeExact, NoTree, TreeOK,
     Places, Owners, LockHeld, LockedPcs, UndoPcs, Numbers, RunOK, RunStates
<1>4. ASSUME NEW p \in Runs, InitReady(p) PROVE TreeExact
  <2>1. InitReadyMove(p)
    BY <1>4, InitReadyMoves
  <2> QED
    BY <2>1, BoundsAssumption DEF InitReadyMove, Others, Moves, Ends, Idle, Asked, Owned,
       Knows, TreeExact, NoTree, TreeOK, Places, Owners, LockHeld, LockedPcs, UndoPcs,
       Numbers, RunOK, RunStates
<1>5. ASSUME NEW p \in Runs, Snapshot(p) PROVE TreeExact
  <2>1. SnapshotMove(p)
    BY <1>5, SnapshotMoves
  <2> QED
    BY <2>1, BoundsAssumption DEF SnapshotMove, Ready, JobBound, Others, Moves, Ends,
       Idle, Asked, Owned, Knows, TreeExact, NoTree, TreeOK, Places, Owners, LockHeld,
       LockedPcs, UndoPcs, Numbers, RunOK, RunStates
<1>6. ASSUME NEW p \in Runs, Open(p) PROVE TreeExact
  <2>1. OpenMove(p)
    BY <1>6, OpenMoves
  <2> QED
    BY <2>1, BoundsAssumption DEF OpenMove, Others, Moves, Ends, Idle, Asked, Owned,
       Knows, TreeExact, NoTree, TreeOK, Places, Owners, LockHeld, LockedPcs, UndoPcs,
       Numbers, RunOK, RunStates
<1>7. ASSUME NEW p \in Runs, Preview(p) PROVE TreeExact
  <2>1. PreviewMove(p)
    BY <1>7, PreviewMoves
  <2> QED
    BY <2>1, BoundsAssumption DEF PreviewMove, Measured, Others, Moves, Ends, Idle, Asked,
       Owned, Knows, TreeExact, NoTree, TreeOK, Places, Owners, LockHeld, LockedPcs,
       UndoPcs, Numbers, RunOK, RunStates
<1>8. ASSUME NEW p \in Runs, Bind(p) PROVE TreeExact
  <2>1. BindMove(p)
    BY <1>8, BindMoves
  <2> QED
    BY <2>1, BoundsAssumption DEF BindMove, DecideMove, Others, Moves, Ends, Idle, Asked,
       Owned, Knows, TreeExact, NoTree, TreeOK, Places, Owners, LockHeld, LockedPcs,
       UndoPcs, Numbers, RunOK, RunStates
<1>9. ASSUME NEW p \in Runs, CheckRecord(p) PROVE TreeExact
  BY <1>9, BoundsAssumption DEF CheckRecord, Resume, RecordApproved, Put, At, To, Idle,
     TreeExact, NoTree, TreeOK, Places, Owners, LockHeld, LockedPcs, UndoPcs, Numbers,
     RunOK, RunStates
<1>10. ASSUME NEW p \in Runs, MakeDir(p) PROVE TreeExact
  BY <1>10, BoundsAssumption DEF MakeDir, Resume, Put, At, To, Idle, TreeExact, NoTree,
     TreeOK, Places, Owners, LockHeld, LockedPcs, UndoPcs, Numbers, RunOK, RunStates
<1>11. ASSUME NEW p \in Runs, Select(p) PROVE TreeExact
  BY <1>11, BoundsAssumption DEF Select, Resume, Put, At, To, Idle, TreeExact, NoTree,
     TreeOK, Places, Owners, LockHeld, LockedPcs, UndoPcs, Numbers, RunOK, RunStates
<1>12. ASSUME NEW p \in Runs, Repreview(p) PROVE TreeExact
  <2>1. RepreviewMove(p)
    BY <1>12, RepreviewMoves
  <2> QED
    BY <2>1, BoundsAssumption DEF RepreviewMove, Measured, Others, Moves, Ends, Idle,
       Asked, Owned, Knows, TreeExact, NoTree, TreeOK, Places, Owners, LockHeld,
       LockedPcs, UndoPcs, Numbers, RunOK, RunStates
<1>13. ASSUME NEW p \in Runs, Match(p) PROVE TreeExact
  BY <1>13, BoundsAssumption DEF Match, Resume, RecordApproved, Put, At, To, Idle,
     TreeExact, NoTree, TreeOK, Places, Owners, LockHeld, LockedPcs, UndoPcs, Numbers,
     RunOK, RunStates
<1>14. ASSUME NEW p \in Runs, Launch(p) PROVE TreeExact
  BY <1>14, BoundsAssumption DEF Launch, Resume, Put, At, To, Idle, TreeExact, NoTree,
     TreeOK, Places, Owners, LockHeld, LockedPcs, UndoPcs, Numbers, RunOK, RunStates
<1>15. ASSUME NEW p \in Runs, Failed(p) PROVE TreeExact
  BY <1>15, BoundsAssumption DEF Failed, Put, At, To, Idle, TreeExact, NoTree, TreeOK,
     Places, Owners, LockHeld, LockedPcs, UndoPcs, Numbers, RunOK, RunStates
<1>16. ASSUME NEW p \in Runs, UndoRead(p) PROVE TreeExact
  <2>1. UndoReadMove(p)
    BY <1>16, UndoReadMoves
  <2> QED
    BY <2>1, BoundsAssumption DEF UndoReadMove, JobBound, Others, Moves, Ends, Idle,
       Asked, Owned, Knows, TreeExact, NoTree, TreeOK, Places, Owners, LockHeld,
       LockedPcs, UndoPcs, Numbers, RunOK, RunStates
<1>17. ASSUME NEW p \in Runs, UndoLock(p) PROVE TreeExact
  BY <1>17, BoundsAssumption DEF UndoLock, Put, At, To, Idle, TreeExact, NoTree, TreeOK,
     Places, Owners, LockHeld, LockedPcs, UndoPcs, Numbers, RunOK, RunStates
<1>18. ASSUME NEW p \in Runs, UndoInspect(p) PROVE TreeExact
  BY <1>18, BoundsAssumption DEF UndoInspect, Ready, JobBound, Put, At, To, Idle,
     TreeExact, NoTree, TreeOK, Places, Owners, LockHeld, LockedPcs, UndoPcs, Numbers,
     RunOK, RunStates
<1>19. ASSUME NEW p \in Runs, UndoTree(p) PROVE TreeExact
  BY <1>19, BoundsAssumption DEF UndoTree, Put, At, To, Idle, TreeExact, NoTree, TreeOK,
     Places, Owners, LockHeld, LockedPcs, UndoPcs, Numbers, RunOK, RunStates
<1>20. ASSUME NEW p \in Runs, UndoRef(p) PROVE TreeExact
  BY <1>20, BoundsAssumption DEF UndoRef, Put, At, To, Idle, TreeExact, NoTree, TreeOK,
     Places, Owners, LockHeld, LockedPcs, UndoPcs, Numbers, RunOK, RunStates
<1>21. ASSUME NEW p \in Runs, UndoState(p) PROVE TreeExact
  BY <1>21, BoundsAssumption DEF UndoState, Resume, Put, At, To, Idle, TreeExact, NoTree,
     TreeOK, Places, Owners, LockHeld, LockedPcs, UndoPcs, Numbers, RunOK, RunStates
<1>22. ASSUME NEW p \in Runs, Discard(p) PROVE TreeExact
  BY <1>22, BoundsAssumption DEF Discard, Put, At, To, Idle, TreeExact, NoTree, TreeOK,
     Places, Owners, LockHeld, LockedPcs, UndoPcs, Numbers, RunOK, RunStates
<1>23. ASSUME NEW p \in Runs, Kill(p) PROVE TreeExact
  BY <1>23, BoundsAssumption DEF Kill, ChildPcs, Put, At, To, Idle, TreeExact, NoTree,
     TreeOK, Places, Owners, LockHeld, LockedPcs, UndoPcs, Numbers, RunOK, RunStates
<1>24. ASSUME NEW k \in Contents, Edit(k) PROVE TreeExact
  BY <1>24, BoundsAssumption DEF Edit, TreeExact, NoTree, TreeOK, Places, Owners,
     LockHeld, LockedPcs, UndoPcs, Numbers, RunOK, RunStates
<1>25. CASE UNCHANGED vars
  BY <1>25 DEF vars, TreeExact, NoTree, TreeOK, Places, Owners, LockHeld, LockedPcs,
     UndoPcs, Numbers, RunOK, RunStates
<1> QED
  BY <1>1, <1>2, <1>3, <1>4, <1>5, <1>6, <1>7, <1>8, <1>9, <1>10, <1>11, <1>12, <1>13,
     <1>14, <1>15, <1>16, <1>17, <1>18, <1>19, <1>20, <1>21, <1>22, <1>23, <1>24, <1>25
     DEF Next

\* job.json is removed by its maker, last, under the lock.
LEMMA JobExactStep ==
  ASSUME JobOK, TreeOK, Places, Owners, LockHeld, Numbers, RunOK, FacadeOK, ShownOK, CountOK,
         Approvals, [Next]_vars
  PROVE  JobExact
<1>1. ASSUME NEW p \in Runs, NEW t \in Tasks, NEW a \in shown \union {NoAuthority},
            Begin(p, t, a)
     PROVE  JobExact
  <2>1. BeginMove(p, t, a)
    BY <1>1, BeginMoves
  <2> QED
    BY <2>1, BoundsAssumption DEF BeginMove, Others, Moves, Ends, Idle, Asked, Owned,
       Knows, JobExact, NoJob, NoTree, JobOK, TreeOK, Places, Owners, LockHeld, LockedPcs,
       UndoPcs, Numbers, RunOK, RunStates
<1>2. ASSUME NEW p \in Runs, InitRecord(p) PROVE JobExact
  BY <1>2, BoundsAssumption DEF InitRecord, Put, At, To, Idle, JobExact, NoJob, NoTree,
     JobOK, TreeOK, Places, Owners, LockHeld, LockedPcs, UndoPcs, Numbers, RunOK,
     RunStates
<1>3. ASSUME NEW p \in Runs, InitAdd(p) PROVE JobExact
  BY <1>3, BoundsAssumption DEF InitAdd, Put, At, To, Idle, JobExact, NoJob, NoTree,
     JobOK, TreeOK, Places, Owners, LockHeld, LockedPcs, UndoPcs, Numbers, RunOK,
     RunStates
<1>4. ASSUME NEW p \in Runs, InitReady(p) PROVE JobExact
  <2>1. InitReadyMove(p)
    BY <1>4, InitReadyMoves
  <2> QED
    BY <2>1, BoundsAssumption DEF InitReadyMove, Others, Moves, Ends, Idle, Asked, Owned,
       Knows, JobExact, NoJob, NoTree, JobOK, TreeOK, Places, Owners, LockHeld, LockedPcs,
       UndoPcs, Numbers, RunOK, RunStates
<1>5. ASSUME NEW p \in Runs, Snapshot(p) PROVE JobExact
  <2>1. SnapshotMove(p)
    BY <1>5, SnapshotMoves
  <2> QED
    BY <2>1, BoundsAssumption DEF SnapshotMove, Ready, JobBound, Others, Moves, Ends,
       Idle, Asked, Owned, Knows, JobExact, NoJob, NoTree, JobOK, TreeOK, Places, Owners,
       LockHeld, LockedPcs, UndoPcs, Numbers, RunOK, RunStates
<1>6. ASSUME NEW p \in Runs, Open(p) PROVE JobExact
  <2>1. OpenMove(p)
    BY <1>6, OpenMoves
  <2> QED
    BY <2>1, BoundsAssumption DEF OpenMove, Others, Moves, Ends, Idle, Asked, Owned,
       Knows, JobExact, NoJob, NoTree, JobOK, TreeOK, Places, Owners, LockHeld, LockedPcs,
       UndoPcs, Numbers, RunOK, RunStates
<1>7. ASSUME NEW p \in Runs, Preview(p) PROVE JobExact
  <2>1. PreviewMove(p)
    BY <1>7, PreviewMoves
  <2> QED
    BY <2>1, BoundsAssumption DEF PreviewMove, Measured, Others, Moves, Ends, Idle, Asked,
       Owned, Knows, JobExact, NoJob, NoTree, JobOK, TreeOK, Places, Owners, LockHeld,
       LockedPcs, UndoPcs, Numbers, RunOK, RunStates
<1>8. ASSUME NEW p \in Runs, Bind(p) PROVE JobExact
  <2>1. BindMove(p)
    BY <1>8, BindMoves
  <2> QED
    BY <2>1, BoundsAssumption DEF BindMove, DecideMove, Others, Moves, Ends, Idle, Asked,
       Owned, Knows, JobExact, NoJob, NoTree, JobOK, TreeOK, Places, Owners, LockHeld,
       LockedPcs, UndoPcs, Numbers, RunOK, RunStates
<1>9. ASSUME NEW p \in Runs, CheckRecord(p) PROVE JobExact
  BY <1>9, BoundsAssumption DEF CheckRecord, Resume, RecordApproved, Put, At, To, Idle,
     JobExact, NoJob, NoTree, JobOK, TreeOK, Places, Owners, LockHeld, LockedPcs, UndoPcs,
     Numbers, RunOK, RunStates
<1>10. ASSUME NEW p \in Runs, MakeDir(p) PROVE JobExact
  BY <1>10, BoundsAssumption DEF MakeDir, Resume, Put, At, To, Idle, JobExact, NoJob,
     NoTree, JobOK, TreeOK, Places, Owners, LockHeld, LockedPcs, UndoPcs, Numbers, RunOK,
     RunStates
<1>11. ASSUME NEW p \in Runs, Select(p) PROVE JobExact
  BY <1>11, BoundsAssumption DEF Select, Resume, Put, At, To, Idle, JobExact, NoJob,
     NoTree, JobOK, TreeOK, Places, Owners, LockHeld, LockedPcs, UndoPcs, Numbers, RunOK,
     RunStates
<1>12. ASSUME NEW p \in Runs, Repreview(p) PROVE JobExact
  <2>1. RepreviewMove(p)
    BY <1>12, RepreviewMoves
  <2> QED
    BY <2>1, BoundsAssumption DEF RepreviewMove, Measured, Others, Moves, Ends, Idle,
       Asked, Owned, Knows, JobExact, NoJob, NoTree, JobOK, TreeOK, Places, Owners,
       LockHeld, LockedPcs, UndoPcs, Numbers, RunOK, RunStates
<1>13. ASSUME NEW p \in Runs, Match(p) PROVE JobExact
  BY <1>13, BoundsAssumption DEF Match, Resume, RecordApproved, Put, At, To, Idle,
     JobExact, NoJob, NoTree, JobOK, TreeOK, Places, Owners, LockHeld, LockedPcs, UndoPcs,
     Numbers, RunOK, RunStates
<1>14. ASSUME NEW p \in Runs, Launch(p) PROVE JobExact
  BY <1>14, BoundsAssumption DEF Launch, Resume, Put, At, To, Idle, JobExact, NoJob,
     NoTree, JobOK, TreeOK, Places, Owners, LockHeld, LockedPcs, UndoPcs, Numbers, RunOK,
     RunStates
<1>15. ASSUME NEW p \in Runs, Failed(p) PROVE JobExact
  BY <1>15, BoundsAssumption DEF Failed, Put, At, To, Idle, JobExact, NoJob, NoTree,
     JobOK, TreeOK, Places, Owners, LockHeld, LockedPcs, UndoPcs, Numbers, RunOK,
     RunStates
<1>16. ASSUME NEW p \in Runs, UndoRead(p) PROVE JobExact
  <2>1. UndoReadMove(p)
    BY <1>16, UndoReadMoves
  <2> QED
    BY <2>1, BoundsAssumption DEF UndoReadMove, JobBound, Others, Moves, Ends, Idle,
       Asked, Owned, Knows, JobExact, NoJob, NoTree, JobOK, TreeOK, Places, Owners,
       LockHeld, LockedPcs, UndoPcs, Numbers, RunOK, RunStates
<1>17. ASSUME NEW p \in Runs, UndoLock(p) PROVE JobExact
  BY <1>17, BoundsAssumption DEF UndoLock, Put, At, To, Idle, JobExact, NoJob, NoTree,
     JobOK, TreeOK, Places, Owners, LockHeld, LockedPcs, UndoPcs, Numbers, RunOK,
     RunStates
<1>18. ASSUME NEW p \in Runs, UndoInspect(p) PROVE JobExact
  BY <1>18, BoundsAssumption DEF UndoInspect, Ready, JobBound, Put, At, To, Idle,
     JobExact, NoJob, NoTree, JobOK, TreeOK, Places, Owners, LockHeld, LockedPcs, UndoPcs,
     Numbers, RunOK, RunStates
<1>19. ASSUME NEW p \in Runs, UndoTree(p) PROVE JobExact
  BY <1>19, BoundsAssumption DEF UndoTree, Put, At, To, Idle, JobExact, NoJob, NoTree,
     JobOK, TreeOK, Places, Owners, LockHeld, LockedPcs, UndoPcs, Numbers, RunOK,
     RunStates
<1>20. ASSUME NEW p \in Runs, UndoRef(p) PROVE JobExact
  BY <1>20, BoundsAssumption DEF UndoRef, Put, At, To, Idle, JobExact, NoJob, NoTree,
     JobOK, TreeOK, Places, Owners, LockHeld, LockedPcs, UndoPcs, Numbers, RunOK,
     RunStates
<1>21. ASSUME NEW p \in Runs, UndoState(p) PROVE JobExact
  BY <1>21, BoundsAssumption DEF UndoState, Resume, Put, At, To, Idle, JobExact, NoJob,
     NoTree, JobOK, TreeOK, Places, Owners, LockHeld, LockedPcs, UndoPcs, Numbers, RunOK,
     RunStates
<1>22. ASSUME NEW p \in Runs, Discard(p) PROVE JobExact
  BY <1>22, BoundsAssumption DEF Discard, Put, At, To, Idle, JobExact, NoJob, NoTree,
     JobOK, TreeOK, Places, Owners, LockHeld, LockedPcs, UndoPcs, Numbers, RunOK,
     RunStates
<1>23. ASSUME NEW p \in Runs, Kill(p) PROVE JobExact
  BY <1>23, BoundsAssumption DEF Kill, ChildPcs, Put, At, To, Idle, JobExact, NoJob,
     NoTree, JobOK, TreeOK, Places, Owners, LockHeld, LockedPcs, UndoPcs, Numbers, RunOK,
     RunStates
<1>24. ASSUME NEW k \in Contents, Edit(k) PROVE JobExact
  BY <1>24, BoundsAssumption DEF Edit, JobExact, NoJob, NoTree, JobOK, TreeOK, Places,
     Owners, LockHeld, LockedPcs, UndoPcs, Numbers, RunOK, RunStates
<1>25. CASE UNCHANGED vars
  BY <1>25 DEF vars, JobExact, NoJob, NoTree, JobOK, TreeOK, Places, Owners, LockHeld,
     LockedPcs, UndoPcs, Numbers, RunOK, RunStates
<1> QED
  BY <1>1, <1>2, <1>3, <1>4, <1>5, <1>6, <1>7, <1>8, <1>9, <1>10, <1>11, <1>12, <1>13,
     <1>14, <1>15, <1>16, <1>17, <1>18, <1>19, <1>20, <1>21, <1>22, <1>23, <1>24, <1>25
     DEF Next

\* workflow.json is removed after the job it binds.
LEMMA FacadeExactStep ==
  ASSUME FacadeOK, Owners, Makers, Numbers, RunOK, JobOK, TreeOK, ShownOK, CountOK, Approvals,
         [Next]_vars
  PROVE  FacadeExact
<1>1. ASSUME NEW p \in Runs, NEW t \in Tasks, NEW a \in shown \union {NoAuthority},
            Begin(p, t, a)
     PROVE  FacadeExact
  <2>1. BeginMove(p, t, a)
    BY <1>1, BeginMoves
  <2> QED
    BY <2>1, BoundsAssumption DEF BeginMove, Others, Moves, Ends, Idle, Asked, Owned,
       Knows, FacadeExact, NoFacade, FacadeOK, Facades, Owners, Makers, UndoPcs, Numbers,
       RunOK, RunStates
<1>2. ASSUME NEW p \in Runs, InitRecord(p) PROVE FacadeExact
  BY <1>2, BoundsAssumption DEF InitRecord, Put, At, To, Idle, FacadeExact, NoFacade,
     FacadeOK, Facades, Owners, Makers, UndoPcs, Numbers, RunOK, RunStates
<1>3. ASSUME NEW p \in Runs, InitAdd(p) PROVE FacadeExact
  BY <1>3, BoundsAssumption DEF InitAdd, Put, At, To, Idle, FacadeExact, NoFacade,
     FacadeOK, Facades, Owners, Makers, UndoPcs, Numbers, RunOK, RunStates
<1>4. ASSUME NEW p \in Runs, InitReady(p) PROVE FacadeExact
  <2>1. InitReadyMove(p)
    BY <1>4, InitReadyMoves
  <2> QED
    BY <2>1, BoundsAssumption DEF InitReadyMove, Others, Moves, Ends, Idle, Asked, Owned,
       Knows, FacadeExact, NoFacade, FacadeOK, Facades, Owners, Makers, UndoPcs, Numbers,
       RunOK, RunStates
<1>5. ASSUME NEW p \in Runs, Snapshot(p) PROVE FacadeExact
  <2>1. SnapshotMove(p)
    BY <1>5, SnapshotMoves
  <2> QED
    BY <2>1, BoundsAssumption DEF SnapshotMove, Ready, JobBound, Others, Moves, Ends,
       Idle, Asked, Owned, Knows, FacadeExact, NoFacade, FacadeOK, Facades, Owners,
       Makers, UndoPcs, Numbers, RunOK, RunStates
<1>6. ASSUME NEW p \in Runs, Open(p) PROVE FacadeExact
  <2>1. OpenMove(p)
    BY <1>6, OpenMoves
  <2> QED
    BY <2>1, BoundsAssumption DEF OpenMove, Others, Moves, Ends, Idle, Asked, Owned,
       Knows, FacadeExact, NoFacade, FacadeOK, Facades, Owners, Makers, UndoPcs, Numbers,
       RunOK, RunStates
<1>7. ASSUME NEW p \in Runs, Preview(p) PROVE FacadeExact
  <2>1. PreviewMove(p)
    BY <1>7, PreviewMoves
  <2> QED
    BY <2>1, BoundsAssumption DEF PreviewMove, Measured, Others, Moves, Ends, Idle, Asked,
       Owned, Knows, FacadeExact, NoFacade, FacadeOK, Facades, Owners, Makers, UndoPcs,
       Numbers, RunOK, RunStates
<1>8. ASSUME NEW p \in Runs, Bind(p) PROVE FacadeExact
  <2>1. BindMove(p)
    BY <1>8, BindMoves
  <2> QED
    BY <2>1, BoundsAssumption DEF BindMove, DecideMove, Others, Moves, Ends, Idle, Asked,
       Owned, Knows, FacadeExact, NoFacade, FacadeOK, Facades, Owners, Makers, UndoPcs,
       Numbers, RunOK, RunStates
<1>9. ASSUME NEW p \in Runs, CheckRecord(p) PROVE FacadeExact
  BY <1>9, BoundsAssumption DEF CheckRecord, Resume, RecordApproved, Put, At, To, Idle,
     FacadeExact, NoFacade, FacadeOK, Facades, Owners, Makers, UndoPcs, Numbers, RunOK,
     RunStates
<1>10. ASSUME NEW p \in Runs, MakeDir(p) PROVE FacadeExact
  BY <1>10, BoundsAssumption DEF MakeDir, Resume, Put, At, To, Idle, FacadeExact,
     NoFacade, FacadeOK, Facades, Owners, Makers, UndoPcs, Numbers, RunOK, RunStates
<1>11. ASSUME NEW p \in Runs, Select(p) PROVE FacadeExact
  BY <1>11, BoundsAssumption DEF Select, Resume, Put, At, To, Idle, FacadeExact, NoFacade,
     FacadeOK, Facades, Owners, Makers, UndoPcs, Numbers, RunOK, RunStates
<1>12. ASSUME NEW p \in Runs, Repreview(p) PROVE FacadeExact
  <2>1. RepreviewMove(p)
    BY <1>12, RepreviewMoves
  <2> QED
    BY <2>1, BoundsAssumption DEF RepreviewMove, Measured, Others, Moves, Ends, Idle,
       Asked, Owned, Knows, FacadeExact, NoFacade, FacadeOK, Facades, Owners, Makers,
       UndoPcs, Numbers, RunOK, RunStates
<1>13. ASSUME NEW p \in Runs, Match(p) PROVE FacadeExact
  BY <1>13, BoundsAssumption DEF Match, Resume, RecordApproved, Put, At, To, Idle,
     FacadeExact, NoFacade, FacadeOK, Facades, Owners, Makers, UndoPcs, Numbers, RunOK,
     RunStates
<1>14. ASSUME NEW p \in Runs, Launch(p) PROVE FacadeExact
  BY <1>14, BoundsAssumption DEF Launch, Resume, Put, At, To, Idle, FacadeExact, NoFacade,
     FacadeOK, Facades, Owners, Makers, UndoPcs, Numbers, RunOK, RunStates
<1>15. ASSUME NEW p \in Runs, Failed(p) PROVE FacadeExact
  BY <1>15, BoundsAssumption DEF Failed, Put, At, To, Idle, FacadeExact, NoFacade,
     FacadeOK, Facades, Owners, Makers, UndoPcs, Numbers, RunOK, RunStates
<1>16. ASSUME NEW p \in Runs, UndoRead(p) PROVE FacadeExact
  <2>1. UndoReadMove(p)
    BY <1>16, UndoReadMoves
  <2> QED
    BY <2>1, BoundsAssumption DEF UndoReadMove, JobBound, Others, Moves, Ends, Idle,
       Asked, Owned, Knows, FacadeExact, NoFacade, FacadeOK, Facades, Owners, Makers,
       UndoPcs, Numbers, RunOK, RunStates
<1>17. ASSUME NEW p \in Runs, UndoLock(p) PROVE FacadeExact
  BY <1>17, BoundsAssumption DEF UndoLock, Put, At, To, Idle, FacadeExact, NoFacade,
     FacadeOK, Facades, Owners, Makers, UndoPcs, Numbers, RunOK, RunStates
<1>18. ASSUME NEW p \in Runs, UndoInspect(p) PROVE FacadeExact
  BY <1>18, BoundsAssumption DEF UndoInspect, Ready, JobBound, Put, At, To, Idle,
     FacadeExact, NoFacade, FacadeOK, Facades, Owners, Makers, UndoPcs, Numbers, RunOK,
     RunStates
<1>19. ASSUME NEW p \in Runs, UndoTree(p) PROVE FacadeExact
  BY <1>19, BoundsAssumption DEF UndoTree, Put, At, To, Idle, FacadeExact, NoFacade,
     FacadeOK, Facades, Owners, Makers, UndoPcs, Numbers, RunOK, RunStates
<1>20. ASSUME NEW p \in Runs, UndoRef(p) PROVE FacadeExact
  BY <1>20, BoundsAssumption DEF UndoRef, Put, At, To, Idle, FacadeExact, NoFacade,
     FacadeOK, Facades, Owners, Makers, UndoPcs, Numbers, RunOK, RunStates
<1>21. ASSUME NEW p \in Runs, UndoState(p) PROVE FacadeExact
  BY <1>21, BoundsAssumption DEF UndoState, Resume, Put, At, To, Idle, FacadeExact,
     NoFacade, FacadeOK, Facades, Owners, Makers, UndoPcs, Numbers, RunOK, RunStates
<1>22. ASSUME NEW p \in Runs, Discard(p) PROVE FacadeExact
  BY <1>22, BoundsAssumption DEF Discard, Put, At, To, Idle, FacadeExact, NoFacade,
     FacadeOK, Facades, Owners, Makers, UndoPcs, Numbers, RunOK, RunStates
<1>23. ASSUME NEW p \in Runs, Kill(p) PROVE FacadeExact
  BY <1>23, BoundsAssumption DEF Kill, ChildPcs, Put, At, To, Idle, FacadeExact, NoFacade,
     FacadeOK, Facades, Owners, Makers, UndoPcs, Numbers, RunOK, RunStates
<1>24. ASSUME NEW k \in Contents, Edit(k) PROVE FacadeExact
  BY <1>24, BoundsAssumption DEF Edit, FacadeExact, NoFacade, FacadeOK, Facades, Owners,
     Makers, UndoPcs, Numbers, RunOK, RunStates
<1>25. CASE UNCHANGED vars
  BY <1>25 DEF vars, FacadeExact, NoFacade, FacadeOK, Facades, Owners, Makers, UndoPcs,
     Numbers, RunOK, RunStates
<1> QED
  BY <1>1, <1>2, <1>3, <1>4, <1>5, <1>6, <1>7, <1>8, <1>9, <1>10, <1>11, <1>12, <1>13,
     <1>14, <1>15, <1>16, <1>17, <1>18, <1>19, <1>20, <1>21, <1>22, <1>23, <1>24, <1>25
     DEF Next

\* The directory of a started dispatch stays.
LEMMA DirExactStep ==
  ASSUME Claims, LockOK, RunOK, JobOK, TreeOK, FacadeOK, ShownOK, CountOK, Approvals, [Next]_vars
  PROVE  DirExact
<1>1. ASSUME NEW p \in Runs, NEW t \in Tasks, NEW a \in shown \union {NoAuthority},
            Begin(p, t, a)
     PROVE  DirExact
  <2>1. BeginMove(p, t, a)
    BY <1>1, BeginMoves
  <2> QED
    BY <2>1 DEF BeginMove, Others, Moves, Ends, Idle, Asked, Owned, Knows, DirExact,
       Claims, DirPcs, LockOK, RunOK, RunStates
<1>2. ASSUME NEW p \in Runs, InitRecord(p) PROVE DirExact
  BY <1>2 DEF InitRecord, Put, At, To, Idle, DirExact, Claims, DirPcs, LockOK, RunOK,
     RunStates
<1>3. ASSUME NEW p \in Runs, InitAdd(p) PROVE DirExact
  BY <1>3 DEF InitAdd, Put, At, To, Idle, DirExact, Claims, DirPcs, LockOK, RunOK,
     RunStates
<1>4. ASSUME NEW p \in Runs, InitReady(p) PROVE DirExact
  <2>1. InitReadyMove(p)
    BY <1>4, InitReadyMoves
  <2> QED
    BY <2>1 DEF InitReadyMove, Others, Moves, Ends, Idle, Asked, Owned, Knows, DirExact,
       Claims, DirPcs, LockOK, RunOK, RunStates
<1>5. ASSUME NEW p \in Runs, Snapshot(p) PROVE DirExact
  <2>1. SnapshotMove(p)
    BY <1>5, SnapshotMoves
  <2> QED
    BY <2>1 DEF SnapshotMove, Ready, JobBound, Others, Moves, Ends, Idle, Asked, Owned,
       Knows, DirExact, Claims, DirPcs, LockOK, RunOK, RunStates
<1>6. ASSUME NEW p \in Runs, Open(p) PROVE DirExact
  <2>1. OpenMove(p)
    BY <1>6, OpenMoves
  <2> QED
    BY <2>1 DEF OpenMove, Others, Moves, Ends, Idle, Asked, Owned, Knows, DirExact,
       Claims, DirPcs, LockOK, RunOK, RunStates
<1>7. ASSUME NEW p \in Runs, Preview(p) PROVE DirExact
  <2>1. PreviewMove(p)
    BY <1>7, PreviewMoves
  <2> QED
    BY <2>1 DEF PreviewMove, Measured, Others, Moves, Ends, Idle, Asked, Owned, Knows,
       DirExact, Claims, DirPcs, LockOK, RunOK, RunStates
<1>8. ASSUME NEW p \in Runs, Bind(p) PROVE DirExact
  <2>1. BindMove(p)
    BY <1>8, BindMoves
  <2> QED
    BY <2>1 DEF BindMove, DecideMove, Others, Moves, Ends, Idle, Asked, Owned, Knows,
       DirExact, Claims, DirPcs, LockOK, RunOK, RunStates
<1>9. ASSUME NEW p \in Runs, CheckRecord(p) PROVE DirExact
  BY <1>9 DEF CheckRecord, Resume, RecordApproved, Put, At, To, Idle, DirExact, Claims,
     DirPcs, LockOK, RunOK, RunStates
<1>10. ASSUME NEW p \in Runs, MakeDir(p) PROVE DirExact
  BY <1>10 DEF MakeDir, Resume, Put, At, To, Idle, DirExact, Claims, DirPcs, LockOK,
     RunOK, RunStates
<1>11. ASSUME NEW p \in Runs, Select(p) PROVE DirExact
  BY <1>11 DEF Select, Resume, Put, At, To, Idle, DirExact, Claims, DirPcs, LockOK, RunOK,
     RunStates
<1>12. ASSUME NEW p \in Runs, Repreview(p) PROVE DirExact
  <2>1. RepreviewMove(p)
    BY <1>12, RepreviewMoves
  <2> QED
    BY <2>1 DEF RepreviewMove, Measured, Others, Moves, Ends, Idle, Asked, Owned, Knows,
       DirExact, Claims, DirPcs, LockOK, RunOK, RunStates
<1>13. ASSUME NEW p \in Runs, Match(p) PROVE DirExact
  BY <1>13 DEF Match, Resume, RecordApproved, Put, At, To, Idle, DirExact, Claims, DirPcs,
     LockOK, RunOK, RunStates
<1>14. ASSUME NEW p \in Runs, Launch(p) PROVE DirExact
  BY <1>14 DEF Launch, Resume, Put, At, To, Idle, DirExact, Claims, DirPcs, LockOK, RunOK,
     RunStates
<1>15. ASSUME NEW p \in Runs, Failed(p) PROVE DirExact
  BY <1>15 DEF Failed, Put, At, To, Idle, DirExact, Claims, DirPcs, LockOK, RunOK,
     RunStates
<1>16. ASSUME NEW p \in Runs, UndoRead(p) PROVE DirExact
  <2>1. UndoReadMove(p)
    BY <1>16, UndoReadMoves
  <2> QED
    BY <2>1 DEF UndoReadMove, JobBound, Others, Moves, Ends, Idle, Asked, Owned, Knows,
       DirExact, Claims, DirPcs, LockOK, RunOK, RunStates
<1>17. ASSUME NEW p \in Runs, UndoLock(p) PROVE DirExact
  BY <1>17 DEF UndoLock, Put, At, To, Idle, DirExact, Claims, DirPcs, LockOK, RunOK,
     RunStates
<1>18. ASSUME NEW p \in Runs, UndoInspect(p) PROVE DirExact
  BY <1>18 DEF UndoInspect, Ready, JobBound, Put, At, To, Idle, DirExact, Claims, DirPcs,
     LockOK, RunOK, RunStates
<1>19. ASSUME NEW p \in Runs, UndoTree(p) PROVE DirExact
  BY <1>19 DEF UndoTree, Put, At, To, Idle, DirExact, Claims, DirPcs, LockOK, RunOK,
     RunStates
<1>20. ASSUME NEW p \in Runs, UndoRef(p) PROVE DirExact
  BY <1>20 DEF UndoRef, Put, At, To, Idle, DirExact, Claims, DirPcs, LockOK, RunOK,
     RunStates
<1>21. ASSUME NEW p \in Runs, UndoState(p) PROVE DirExact
  BY <1>21 DEF UndoState, Resume, Put, At, To, Idle, DirExact, Claims, DirPcs, LockOK,
     RunOK, RunStates
<1>22. ASSUME NEW p \in Runs, Discard(p) PROVE DirExact
  BY <1>22 DEF Discard, Put, At, To, Idle, DirExact, Claims, DirPcs, LockOK, RunOK,
     RunStates
<1>23. ASSUME NEW p \in Runs, Kill(p) PROVE DirExact
  BY <1>23 DEF Kill, ChildPcs, Put, At, To, Idle, DirExact, Claims, DirPcs, LockOK, RunOK,
     RunStates
<1>24. ASSUME NEW k \in Contents, Edit(k) PROVE DirExact
  BY <1>24 DEF Edit, DirExact, Claims, DirPcs, LockOK, RunOK, RunStates
<1>25. CASE UNCHANGED vars
  BY <1>25 DEF vars, DirExact, Claims, DirPcs, LockOK, RunOK, RunStates
<1> QED
  BY <1>1, <1>2, <1>3, <1>4, <1>5, <1>6, <1>7, <1>8, <1>9, <1>10, <1>11, <1>12, <1>13,
     <1>14, <1>15, <1>16, <1>17, <1>18, <1>19, <1>20, <1>21, <1>22, <1>23, <1>24, <1>25
     DEF Next

\* The worktree and job.json are removed only by the invocation whose init made them, under
\* the lock, job.json last; workflow.json never while the job it binds is recorded; and the
\* directory of a started dispatch by nobody (_rollback_facade_ready, command_rollback_ready).
THEOREM RollbackIsExact == Spec => RollbackExact
  <1>1. IInv /\ [Next]_vars => TreeExact /\ JobExact /\ FacadeExact /\ DirExact
    BY TreeExactStep, JobExactStep, FacadeExactStep, DirExactStep DEF IInv, Types
  <1>2. (TreeExact /\ JobExact /\ FacadeExact /\ DirExact) =>
          [/\ tree # NoTree /\ tree' = NoTree =>
                \E p \in Runs : lock = p /\ run[p].call = tree.gen
           /\ job # NoJob /\ job' = NoJob =>
                /\ \E p \in Runs : lock = p /\ run[p].call = job.gen
                /\ tree' = NoTree /\ ref' = "none"
           /\ facade # NoFacade /\ facade' = NoFacade => job = NoJob \/ job.gen # facade.job
           /\ dir = "started" => dir' = "started"]_vars
    BY DEF TreeExact, JobExact, FacadeExact, DirExact
  <1> QED
    BY <1>1, <1>2, Invariance, PTL DEF Spec, RollbackExact
=============================================================================
