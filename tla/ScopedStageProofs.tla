-------------------------- MODULE ScopedStageProofs --------------------------
(***************************************************************************)
(* Proofs about ScopedStage, for any scope, any bodies and any number of   *)
(* attempts and of edits.                                                  *)
(***************************************************************************)
EXTENDS ScopedStage, TLAPS

(***************************************************************************)
(* The type invariant in parts.                                            *)
(***************************************************************************)
SourceOK == source \in Trees /\ approved \in Sights
JobTyped == job \in Jobs /\ job.failure # "stage"
MakerOK == maker \in [pc : {"none", "base", "scope"}, origin : Origins, base : StageTrees]
ControllerOK == c \in Controllers
StageOK == stage \in [dir : {"none", "ours", "other"}, body : StageTrees]
HistoryOK ==
  given \in StageTrees /\ sealed \in Sights /\ made \in [Read -> Bodies \cup {Absent, Link}]
CountOK == touches \in 0..MaxTouches /\ quiet \in Flags

Types == SourceOK /\ JobTyped /\ MakerOK /\ ControllerOK /\ StageOK /\ HistoryOK /\ CountOK

\* The parts are the type invariant.
LEMMA TypeParts == TypeOK <=> Types
  BY DEF TypeOK, Types, SourceOK, JobTyped, MakerOK, ControllerOK, StageOK, HistoryOK, CountOK

\* A tree may be staged, is seen as a sight, and is not the tree that stands for none.
LEMMA TreeTypes ==
  /\ NoTree \in StageTrees /\ Empty \in Trees /\ Empty \in StageTrees
  /\ \A t \in Trees : t \in StageTrees /\ Selected(t) \in Contents /\ Seen(t) \in Sights
                      /\ Seen(t).content = Selected(t) /\ t # NoTree
  <1>1. NoTree \in StageTrees /\ Empty \in Trees /\ Empty \in StageTrees
    BY DEF NoTree, StageTrees, Empty, Trees
  <1>2. ASSUME NEW t \in Trees
        PROVE  /\ t \in StageTrees /\ Selected(t) \in Contents
               /\ Seen(t) \in Sights /\ Seen(t).content = Selected(t)
    <2>1. t \in StageTrees
      BY DEF Trees, StageTrees
    <2>2. Selected(t) \in Contents
      BY DEF Trees, Selected, Contents, Paths
    <2> QED
      BY <2>1, <2>2 DEF Seen, Sights
  <1>3. ASSUME NEW t \in Trees PROVE t # NoTree
    <2>1. PICK p \in Paths : TRUE
      BY ScopeAssumption DEF Paths
    <2>2. t[p] \in Bodies \cup {Absent} /\ NoTree[p] = Link
      BY DEF Trees, NoTree
    <2> QED
      BY <2>2, BodiesAssumption
  <1> QED
    BY <1>1, <1>2, <1>3

-----------------------------------------------------------------------------
(***************************************************************************)
(* The inductive invariant: what a provider is started on was approved or  *)
(* recorded, step by step back to the scan; and what becomes of a stage.   *)
(***************************************************************************)
\* A failure at the stage is on its way to the cleanup.
Handled == c.failure = "stage" => c.pc \in {"clean", "rmdir"}

\* An attempt that is being created is within the bound.
Counted ==
  /\ maker.pc # "none" => job.attempt < MaxCycles
  /\ job.status = "none" => job.attempt = 0

\* Under a repair grant the content bound in the record is the one last recorded for a repair.
BoundSealed == job.lineage # 0 => job.bound = sealed

CopyPcs == {"narrow", "mkdir", "copy", "launch", "running"}

\* What is to be copied was approved or recorded.
ManifestOK == c.pc \in CopyPcs => c.manifest \in {approved.content, sealed.content}

\* The provider was started on what was to be copied.
GivenOK ==
  c.pc = "running" => Selected(given) = c.manifest /\ \A p \in Outside : given[p] = Absent

\* A stage of ours is there only once this attempt's controller has made it.
Fresh ==
  /\ job.status \in {"none", "queued"} /\ c.pc = "none" => stage.dir # "ours"
  /\ c.pc \in {"baseline", "scope", "narrow", "mkdir"} => stage.dir # "ours"
  /\ c.pc = "mkdir" => c.narrow # NoTree
  /\ c.pc \notin {"none", "baseline", "scope", "narrow"} /\ stage.dir = "ours" =>
       c.narrow # NoTree

\* A stage of ours that the cleanup left is the controller's failure or its cancellation.
Reported ==
  /\ c.pc = "observe" /\ stage.dir = "ours" => c.failure = "binding" /\ c.report = "none"
  /\ c.pc \in {"candidate", "publish"} /\ stage.dir = "ours" =>
        c.report = "none" /\ (c.failure = "binding" \/ c.status = "cancelled")
  /\ c.pc = "derive" => stage.dir # "ours"
  /\ StageAccounted

IInv ==
  Types /\ Handled /\ Counted /\ BoundSealed /\ ManifestOK /\ GivenOK /\ Fresh /\ Reported

-----------------------------------------------------------------------------
(***************************************************************************)
(* What the steps of a controller write, field by field.                   *)
(***************************************************************************)
Held == c'.manifest = c.manifest /\ c'.narrow = c.narrow
Told ==
  c'.report = c.report /\ c'.status = c.status /\ c'.failure = c.failure /\ c'.own = c.own
Bears == job'.attempt = job.attempt /\ job'.bound = job.bound /\ job'.lineage = job.lineage

Todo == {p \in Read : c.manifest[p] # Absent}
Copied(q) ==
  IF stage.dir = "ours" THEN [stage EXCEPT !.body[q] = c.manifest[q]] ELSE stage
Puts == {p \in Changed : stage.body[p] # Absent}
Dels == {p \in Changed : stage.body[p] = Absent}

\* A controller that is not there is of its type.
LEMMA NoControllerType == NoController \in Controllers
  BY TreeTypes DEF NoController, Controllers, Steps, Flags, Failures, Terminal

CheckBaselineMove ==
  /\ c.pc = "baseline"
  /\ \/ /\ c'.pc = "scope" /\ Held /\ Told
     \/ /\ c'.pc = "ended" /\ c'.failure = "binding" /\ Held /\ c'.report = c.report
        /\ c'.status = c.status /\ c'.own = c.own
  /\ UNCHANGED <<source, approved, job, maker, stage, given, sealed, made, touches, quiet>>

ScanScopeMove ==
  /\ c.pc = "scope"
  /\ \/ /\ Covered(source, job.origin) /\ c'.pc = "narrow" /\ c'.manifest = Selected(source)
        /\ c'.narrow = c.narrow /\ Told
     \/ /\ c'.pc = "ended" /\ Held /\ Told
  /\ UNCHANGED <<source, approved, job, maker, stage, given, sealed, made, touches, quiet>>

TakeNarrowMove ==
  /\ c.pc = "narrow"
  /\ \/ /\ c'.pc = "mkdir" /\ c'.narrow = source /\ c'.manifest = c.manifest /\ Told
  /\ UNCHANGED <<source, approved, job, maker, stage, given, sealed, made, touches, quiet>>

MakeStageMove ==
  /\ c.pc = "mkdir"
  /\ \/ /\ stage.dir = "none" /\ c'.pc = "copy" /\ Held /\ Told
        /\ stage' = [dir |-> "ours", body |-> Empty]
     \/ /\ stage.dir # "none" /\ c'.pc = "ended" /\ Held /\ Told /\ UNCHANGED stage
  /\ UNCHANGED <<source, approved, job, maker, given, sealed, made, touches, quiet>>

CopyFileMove(q) ==
  /\ c.pc = "copy"
  /\ \/ /\ Held /\ Told /\ c'.pc = "copy" /\ stage'.dir = stage.dir
     \/ /\ c'.pc = "giveup" /\ Held /\ Told /\ UNCHANGED stage
  /\ UNCHANGED <<source, approved, job, maker, given, sealed, made, touches, quiet>>

RescanMove ==
  /\ c.pc = "copy"
  /\ \/ /\ c'.pc = "launch" /\ c'.own = "yes" /\ Held /\ c'.report = c.report
        /\ c'.status = c.status /\ c'.failure = c.failure /\ UNCHANGED stage
     \/ /\ c'.pc = "giveup" /\ Held /\ Told /\ UNCHANGED stage
  /\ UNCHANGED <<source, approved, job, maker, given, sealed, made, touches, quiet>>

GiveUpStageMove ==
  /\ c.pc = "giveup" /\ c'.pc \in {"abandon", "ended"} /\ Held /\ Told
  /\ stage'.dir = stage.dir
  /\ UNCHANGED <<source, approved, job, maker, given, sealed, made, touches, quiet>>

AbandonStageMove ==
  /\ c.pc = "abandon" /\ c'.pc = "ended" /\ Held /\ Told
  /\ stage'.dir \in {"none", stage.dir}
  /\ UNCHANGED <<source, approved, job, maker, given, sealed, made, touches, quiet>>

CompareNarrowMove ==
  /\ c.pc = "ended"
  /\ \/ /\ (c.narrow = NoTree \/ stage.dir = "none") /\ c'.pc = "observe" /\ Held /\ Told
     \/ /\ c'.pc = "mutations" /\ Held /\ Told
     \/ /\ c'.pc = "clean" /\ c'.failure = "stage" /\ Held /\ c'.report = c.report
        /\ c'.status = c.status /\ c'.own = c.own
  /\ UNCHANGED <<source, approved, job, maker, stage, given, sealed, made, touches, quiet>>

ScanMutationsMove ==
  /\ c.pc = "mutations"
  /\ \/ /\ c'.pc = "clean" /\ Held /\ Told
     \/ /\ Authorized /\ c'.pc = "reconcile" /\ Held /\ Told
     \/ /\ c'.pc = "clean" /\ c'.failure = "stage" /\ Held /\ c'.report = c.report
        /\ c'.status = c.status /\ c'.own = c.own
  /\ UNCHANGED <<source, approved, job, maker, stage, given, sealed, made, touches, quiet>>

ReconcileMove ==
  /\ c.pc = "reconcile"
  /\ \/ /\ c'.pc = "match" /\ Held /\ Told /\ NotDrifted
     \/ /\ c'.pc = "clean" /\ c'.failure = "stage" /\ Held /\ c'.report = c.report
        /\ c'.status = c.status /\ c'.own = c.own /\ UNCHANGED source
  /\ UNCHANGED <<approved, job, maker, stage, given, sealed, made, touches, quiet>>

MatchStageMove ==
  /\ c.pc = "match"
  /\ \/ /\ c'.pc = "clean" /\ Held /\ Told
     \/ /\ c'.pc = "clean" /\ c'.failure = "stage" /\ Held /\ c'.report = c.report
        /\ c'.status = c.status /\ c'.own = c.own
  /\ UNCHANGED <<source, approved, job, maker, stage, given, sealed, touches, quiet>>

CleanStageMove ==
  /\ c.pc = "clean"
  /\ \/ /\ c'.pc = "rmdir" /\ Held /\ Told
     \/ /\ c'.pc = "observe" /\ c'.report = "none" /\ c'.status = "failed"
        /\ c'.failure = "binding" /\ Held /\ c'.own = c.own
  /\ stage'.dir = stage.dir
  /\ UNCHANGED <<source, approved, job, maker, given, sealed, made, touches, quiet>>

RemoveStageMove ==
  /\ c.pc = "rmdir"
  /\ \/ /\ CleanupFailed /\ c'.pc = "observe" /\ c'.report = "none" /\ c'.status = "failed"
        /\ c'.failure = "binding" /\ Held /\ c'.own = c.own
        /\ stage'.dir \in {"none", stage.dir}
     \/ /\ ~CleanupFailed /\ c'.pc = "observe" /\ Held /\ Told /\ stage'.dir = "none"
  /\ UNCHANGED <<source, approved, job, maker, given, sealed, made, touches, quiet>>

ObserveCancelMove ==
  /\ c.pc = "observe"
  /\ \/ /\ c'.pc = "candidate" /\ c'.report = "none" /\ c'.status = "cancelled"
        /\ c'.failure = "none" /\ Held /\ c'.own = c.own
     \/ /\ c'.pc = "candidate" /\ Held /\ Told
  /\ UNCHANGED <<source, approved, job, maker, stage, given, sealed, made, touches, quiet>>

TakeCandidateMove ==
  /\ c.pc = "candidate"
  /\ \/ /\ c.report = "none" /\ c'.pc = "publish" /\ Held /\ Told
     \/ /\ c.report # "none" /\ c'.pc = "publish" /\ Held /\ Told
     \/ /\ c.report # "none" /\ c'.pc = "derive" /\ Held /\ Told
  /\ UNCHANGED <<source, approved, job, maker, stage, given, sealed, made, touches, quiet>>

DeriveMove ==
  /\ c.pc = "derive"
  /\ \/ /\ c'.pc = "publish" /\ Held /\ Told
     \/ /\ c'.pc = "publish" /\ Held /\ Told
  /\ UNCHANGED <<source, approved, job, maker, stage, given, sealed, made, touches, quiet>>

LaunchMove ==
  /\ c.pc = "launch"
  /\ \/ /\ c'.pc = "ended" /\ c'.status = "cancelled" /\ Held /\ c'.report = c.report
        /\ c'.failure = c.failure /\ c'.own = c.own /\ UNCHANGED <<job, given>>
     \/ /\ c'.pc = "ended" /\ Held /\ Told /\ job'.status = "running"
        /\ job'.failure = job.failure /\ Bears /\ UNCHANGED given
     \/ /\ c'.pc = "running" /\ Held /\ Told /\ job'.status = "running"
        /\ job'.failure = job.failure /\ Bears /\ StageExact /\ given' = stage.body
  /\ UNCHANGED <<source, approved, maker, stage, sealed, made, touches>>

ProviderEndsMove(r, s, d) ==
  /\ c.pc = "running"
  /\ \/ /\ c'.pc = "ended" /\ c'.report = r /\ c'.status = s /\ Held
        /\ c'.failure = c.failure /\ c'.own = c.own /\ job'.status = job.status
        /\ job'.failure = job.failure /\ Bears
  /\ UNCHANGED <<source, approved, maker, stage, given, sealed, made, touches, quiet>>

KillMove ==
  /\ c.pc # "none"
  /\ \/ /\ c' = NoController /\ job'.status = "orphaned" /\ job'.failure = job.failure
        /\ Bears
  /\ UNCHANGED <<source, approved, maker, stage, given, sealed, made, touches, quiet>>

BreakMove ==
  /\ c.launched = "yes"
  /\ \/ /\ c' = NoController /\ job'.status = "cancelled" /\ job'.failure = "none" /\ Bears
     \/ /\ c' = NoController /\ job'.status = "failed" /\ job'.failure = "binding" /\ Bears
  /\ UNCHANGED <<source, approved, maker, stage, given, sealed, made, touches, quiet>>

ClaimMove ==
  /\ job.status = "queued" /\ c.pc = "none"
  /\ \/ /\ job'.status = "cancelled" /\ job'.failure = "none" /\ Bears /\ UNCHANGED c
     \/ /\ job'.status = "failed" /\ job'.failure = "binding" /\ Bears /\ UNCHANGED c
     \/ /\ c'.pc = "baseline" /\ c'.failure = "none" /\ UNCHANGED job
  /\ UNCHANGED <<source, approved, maker, stage, given, sealed, made, touches, quiet>>

CancelMove ==
  /\ job.status \in {"queued", "running"}
  /\ \/ /\ job'.status = job.status /\ job'.failure = job.failure /\ Bears
  /\ UNCHANGED <<source, approved, maker, c, stage, given, sealed, made, touches, quiet>>

\* What CheckBaseline does, and that what it writes is well formed.
LEMMA CheckBaselineMoves ==
  ASSUME ControllerOK, CheckBaseline
  PROVE  CheckBaselineMove /\ ControllerOK'
  <1>1. PICK r1 : r1 = [c EXCEPT !.pc = "scope"]
    OBVIOUS
  <1>2. /\ r1.pc = "scope" /\ r1.manifest = c.manifest /\ r1.narrow = c.narrow
        /\ r1.report = c.report /\ r1.status = c.status /\ r1.failure = c.failure
        /\ r1.own = c.own
    BY <1>1 DEF ControllerOK, Controllers
  <1>3. /\ "scope" \in Steps
    BY DEF Steps, Failures, Terminal, Flags
  <1>4. r1 \in Controllers
    BY <1>1, <1>3 DEF ControllerOK, Controllers
  <1>5. PICK r2 : r2 = [c EXCEPT !.pc = "ended", !.failure = "binding"]
    OBVIOUS
  <1>6. /\ r2.pc = "ended" /\ r2.failure = "binding" /\ r2.manifest = c.manifest
        /\ r2.narrow = c.narrow /\ r2.report = c.report /\ r2.status = c.status
        /\ r2.own = c.own
    BY <1>5 DEF ControllerOK, Controllers
  <1>7. /\ "ended" \in Steps /\ "binding" \in Failures
    BY DEF Steps, Failures, Terminal, Flags
  <1>8. r2 \in Controllers
    BY <1>5, <1>7 DEF ControllerOK, Controllers
  <1>9. /\ c.pc = "baseline"
        /\ \/ c' = r1
           \/ c' = r2
        /\ UNCHANGED <<source, approved, job, maker, stage, given, sealed, made, touches, quiet>>
    BY <1>1, <1>5 DEF CheckBaseline, Goes
  <1> QED
    BY <1>2, <1>4, <1>6, <1>8, <1>9 DEF CheckBaselineMove, ControllerOK, Held, Told

\* What ScanScope does, and that what it writes is well formed.
LEMMA ScanScopeMoves ==
  ASSUME ControllerOK, SourceOK, ScanScope
  PROVE  ScanScopeMove /\ ControllerOK'
  <1>1. Selected(source) \in Contents
    BY TreeTypes DEF SourceOK
  <1>2. PICK r1 : r1 = [c EXCEPT !.pc = "narrow", !.manifest = Selected(source)]
    OBVIOUS
  <1>3. /\ r1.pc = "narrow" /\ r1.manifest = Selected(source) /\ r1.narrow = c.narrow
        /\ r1.report = c.report /\ r1.status = c.status /\ r1.failure = c.failure
        /\ r1.own = c.own
    BY <1>2 DEF ControllerOK, Controllers
  <1>4. /\ "narrow" \in Steps
    BY DEF Steps, Failures, Terminal, Flags
  <1>5. r1 \in Controllers
    BY <1>2, <1>4, <1>1 DEF ControllerOK, Controllers
  <1>6. PICK r2 : r2 = [c EXCEPT !.pc = "ended"]
    OBVIOUS
  <1>7. /\ r2.pc = "ended" /\ r2.manifest = c.manifest /\ r2.narrow = c.narrow
        /\ r2.report = c.report /\ r2.status = c.status /\ r2.failure = c.failure
        /\ r2.own = c.own
    BY <1>6 DEF ControllerOK, Controllers
  <1>8. /\ "ended" \in Steps
    BY DEF Steps, Failures, Terminal, Flags
  <1>9. r2 \in Controllers
    BY <1>6, <1>8, <1>1 DEF ControllerOK, Controllers
  <1>10. /\ c.pc = "scope"
         /\ \/ Covered(source, job.origin) /\ c' = r1
            \/ c' = r2
         /\ UNCHANGED <<source, approved, job, maker, stage, given, sealed, made, touches, quiet>>
    BY <1>2, <1>6 DEF ScanScope
  <1> QED
    BY <1>3, <1>5, <1>7, <1>9, <1>10 DEF ScanScopeMove, ControllerOK, Held, Told

\* What TakeNarrow does, and that what it writes is well formed.
LEMMA TakeNarrowMoves ==
  ASSUME ControllerOK, SourceOK, TakeNarrow
  PROVE  TakeNarrowMove /\ ControllerOK'
  <1>1. source \in StageTrees
    BY TreeTypes DEF SourceOK
  <1>2. PICK r : r = [c EXCEPT !.pc = "mkdir", !.narrow = source]
    OBVIOUS
  <1>3. /\ r.pc = "mkdir" /\ r.narrow = source /\ r.manifest = c.manifest
        /\ r.report = c.report /\ r.status = c.status /\ r.failure = c.failure
        /\ r.own = c.own
    BY <1>2 DEF ControllerOK, Controllers
  <1>4. /\ "mkdir" \in Steps
    BY DEF Steps, Failures, Terminal, Flags
  <1>5. r \in Controllers
    BY <1>2, <1>4, <1>1 DEF ControllerOK, Controllers
  <1>6. /\ c.pc = "narrow"
        /\ \/ c' = r
        /\ UNCHANGED <<source, approved, job, maker, stage, given, sealed, made, touches, quiet>>
    BY <1>2 DEF TakeNarrow
  <1> QED
    BY <1>3, <1>5, <1>6 DEF TakeNarrowMove, ControllerOK, Held, Told

\* What MakeStage does, and that what it writes is well formed.
LEMMA MakeStageMoves ==
  ASSUME ControllerOK, MakeStage
  PROVE  MakeStageMove /\ ControllerOK'
  <1>1. Todo \in SUBSET Read
    BY DEF Todo
  <1>2. PICK r1 : r1 = [c EXCEPT !.pc = "copy", !.todo = Todo]
    OBVIOUS
  <1>3. /\ r1.pc = "copy" /\ r1.manifest = c.manifest /\ r1.narrow = c.narrow
        /\ r1.report = c.report /\ r1.status = c.status /\ r1.failure = c.failure
        /\ r1.own = c.own
    BY <1>2 DEF ControllerOK, Controllers
  <1>4. /\ "copy" \in Steps
    BY DEF Steps, Failures, Terminal, Flags
  <1>5. r1 \in Controllers
    BY <1>2, <1>4, <1>1 DEF ControllerOK, Controllers
  <1>6. PICK r2 : r2 = [c EXCEPT !.pc = "ended"]
    OBVIOUS
  <1>7. /\ r2.pc = "ended" /\ r2.manifest = c.manifest /\ r2.narrow = c.narrow
        /\ r2.report = c.report /\ r2.status = c.status /\ r2.failure = c.failure
        /\ r2.own = c.own
    BY <1>6 DEF ControllerOK, Controllers
  <1>8. /\ "ended" \in Steps
    BY DEF Steps, Failures, Terminal, Flags
  <1>9. r2 \in Controllers
    BY <1>6, <1>8, <1>1 DEF ControllerOK, Controllers
  <1>10. /\ c.pc = "mkdir"
         /\ \/ stage.dir = "none" /\ c' = r1 /\ stage' = [dir |-> "ours", body |-> Empty]
            \/ stage.dir # "none" /\ c' = r2 /\ UNCHANGED stage
         /\ UNCHANGED <<source, approved, job, maker, given, sealed, made, touches, quiet>>
    BY <1>2, <1>6 DEF MakeStage, Todo
  <1> QED
    BY <1>3, <1>5, <1>7, <1>9, <1>10 DEF MakeStageMove, ControllerOK, Held, Told

\* What CopyFile does, and that what it writes is well formed.
LEMMA CopyFileMoves ==
  ASSUME ControllerOK, StageOK, NEW q \in Read, CopyFile(q)
  PROVE  CopyFileMove(q) /\ ControllerOK'
  <1>1. c.todo \ {q} \in SUBSET Read /\ {} \in SUBSET Read
    BY DEF ControllerOK, Controllers
  <1>2. Copied(q).dir = stage.dir
    BY DEF Copied, StageOK
  <1>3. PICK r1 : r1 = [c EXCEPT !.todo = c.todo \ {q}]
    OBVIOUS
  <1>4. /\ r1.pc = c.pc /\ r1.manifest = c.manifest /\ r1.narrow = c.narrow
        /\ r1.report = c.report /\ r1.status = c.status /\ r1.failure = c.failure
        /\ r1.own = c.own
    BY <1>3 DEF ControllerOK, Controllers
  <1>5. r1 \in Controllers
    BY <1>3, <1>1, <1>2 DEF ControllerOK, Controllers
  <1>6. PICK r2 : r2 = [c EXCEPT !.pc = "giveup", !.todo = {}]
    OBVIOUS
  <1>7. /\ r2.pc = "giveup" /\ r2.manifest = c.manifest /\ r2.narrow = c.narrow
        /\ r2.report = c.report /\ r2.status = c.status /\ r2.failure = c.failure
        /\ r2.own = c.own
    BY <1>6 DEF ControllerOK, Controllers
  <1>8. /\ "giveup" \in Steps
    BY DEF Steps, Failures, Terminal, Flags
  <1>9. r2 \in Controllers
    BY <1>6, <1>8, <1>1, <1>2 DEF ControllerOK, Controllers
  <1>10. /\ c.pc = "copy"
         /\ \/ c' = r1 /\ stage' = Copied(q)
            \/ c' = r2 /\ UNCHANGED stage
         /\ UNCHANGED <<source, approved, job, maker, given, sealed, made, touches, quiet>>
    BY <1>3, <1>6 DEF CopyFile, GivesUp, StageOK, Copied
  <1> QED
    BY <1>4, <1>5, <1>7, <1>9, <1>10, <1>2 DEF CopyFileMove, ControllerOK, Held, Told

\* What Rescan does, and that what it writes is well formed.
LEMMA RescanMoves ==
  ASSUME ControllerOK, StageOK, Rescan
  PROVE  RescanMove /\ ControllerOK'
  <1>1. {} \in SUBSET Read
    OBVIOUS
  <1>2. PICK r1 : r1 = [c EXCEPT !.pc = "launch", !.own = "yes"]
    OBVIOUS
  <1>3. /\ r1.pc = "launch" /\ r1.own = "yes" /\ r1.manifest = c.manifest
        /\ r1.narrow = c.narrow /\ r1.report = c.report /\ r1.status = c.status
        /\ r1.failure = c.failure
    BY <1>2 DEF ControllerOK, Controllers
  <1>4. /\ "launch" \in Steps /\ "yes" \in Flags
    BY DEF Steps, Failures, Terminal, Flags
  <1>5. r1 \in Controllers
    BY <1>2, <1>4, <1>1 DEF ControllerOK, Controllers
  <1>6. PICK r2 : r2 = [c EXCEPT !.pc = "giveup", !.todo = {}]
    OBVIOUS
  <1>7. /\ r2.pc = "giveup" /\ r2.manifest = c.manifest /\ r2.narrow = c.narrow
        /\ r2.report = c.report /\ r2.status = c.status /\ r2.failure = c.failure
        /\ r2.own = c.own
    BY <1>6 DEF ControllerOK, Controllers
  <1>8. /\ "giveup" \in Steps
    BY DEF Steps, Failures, Terminal, Flags
  <1>9. r2 \in Controllers
    BY <1>6, <1>8, <1>1 DEF ControllerOK, Controllers
  <1>10. /\ c.pc = "copy"
         /\ \/ c' = r1 /\ UNCHANGED stage
            \/ c' = r2 /\ UNCHANGED stage
         /\ UNCHANGED <<source, approved, job, maker, given, sealed, made, touches, quiet>>
    BY <1>2, <1>6 DEF Rescan, GivesUp, StageOK
  <1> QED
    BY <1>3, <1>5, <1>7, <1>9, <1>10 DEF RescanMove, ControllerOK, Held, Told

\* What GiveUpStage does, and that what it writes is well formed.
LEMMA GiveUpStageMoves ==
  ASSUME ControllerOK, StageOK, GiveUpStage
  PROVE  GiveUpStageMove /\ ControllerOK'
  <1>1. PICK r1 : r1 = [c EXCEPT !.pc = "abandon"]
    OBVIOUS
  <1>2. /\ r1.pc = "abandon" /\ r1.manifest = c.manifest /\ r1.narrow = c.narrow
        /\ r1.report = c.report /\ r1.status = c.status /\ r1.failure = c.failure
        /\ r1.own = c.own
    BY <1>1 DEF ControllerOK, Controllers
  <1>3. r1 \in Controllers
    BY <1>1 DEF ControllerOK, Controllers, Steps
  <1>4. PICK r2 : r2 = [c EXCEPT !.pc = "ended"]
    OBVIOUS
  <1>5. /\ r2.pc = "ended" /\ r2.manifest = c.manifest /\ r2.narrow = c.narrow
        /\ r2.report = c.report /\ r2.status = c.status /\ r2.failure = c.failure
        /\ r2.own = c.own
    BY <1>4 DEF ControllerOK, Controllers
  <1>6. r2 \in Controllers
    BY <1>4 DEF ControllerOK, Controllers, Steps
  <1>7. /\ c.pc = "giveup" /\ c' \in {r1, r2} /\ stage'.dir = stage.dir
        /\ UNCHANGED <<source, approved, job, maker, given, sealed, made, touches, quiet>>
    BY <1>1, <1>4 DEF GiveUpStage, Emptied, StageOK
  <1> QED
    BY <1>2, <1>3, <1>5, <1>6, <1>7 DEF GiveUpStageMove, ControllerOK, Held, Told

\* What AbandonStage does, and that what it writes is well formed.
LEMMA AbandonStageMoves ==
  ASSUME ControllerOK, StageOK, AbandonStage
  PROVE  AbandonStageMove /\ ControllerOK'
  <1>1. PICK r : r = [c EXCEPT !.pc = "ended"]
    OBVIOUS
  <1>2. /\ r.pc = "ended" /\ r.manifest = c.manifest /\ r.narrow = c.narrow
        /\ r.report = c.report /\ r.status = c.status /\ r.failure = c.failure
        /\ r.own = c.own
    BY <1>1 DEF ControllerOK, Controllers
  <1>3. r \in Controllers
    BY <1>1 DEF ControllerOK, Controllers, Steps
  <1>4. /\ c.pc = "abandon" /\ c' = r /\ stage'.dir \in {"none", stage.dir}
        /\ UNCHANGED <<source, approved, job, maker, given, sealed, made, touches, quiet>>
    BY <1>1 DEF AbandonStage, RemovedAtPath, NoStage, StageOK
  <1> QED
    BY <1>2, <1>3, <1>4 DEF AbandonStageMove, ControllerOK, Held, Told

\* What CompareNarrow does, and that what it writes is well formed.
LEMMA CompareNarrowMoves ==
  ASSUME ControllerOK, CompareNarrow
  PROVE  CompareNarrowMove /\ ControllerOK'
  <1>1. PICK r1 : r1 = [c EXCEPT !.pc = "observe"]
    OBVIOUS
  <1>2. /\ r1.pc = "observe" /\ r1.manifest = c.manifest /\ r1.narrow = c.narrow
        /\ r1.report = c.report /\ r1.status = c.status /\ r1.failure = c.failure
        /\ r1.own = c.own
    BY <1>1 DEF ControllerOK, Controllers
  <1>3. /\ "observe" \in Steps
    BY DEF Steps, Failures, Terminal, Flags
  <1>4. r1 \in Controllers
    BY <1>1, <1>3 DEF ControllerOK, Controllers
  <1>5. PICK r2 : r2 = [c EXCEPT !.pc = "mutations"]
    OBVIOUS
  <1>6. /\ r2.pc = "mutations" /\ r2.manifest = c.manifest /\ r2.narrow = c.narrow
        /\ r2.report = c.report /\ r2.status = c.status /\ r2.failure = c.failure
        /\ r2.own = c.own
    BY <1>5 DEF ControllerOK, Controllers
  <1>7. /\ "mutations" \in Steps
    BY DEF Steps, Failures, Terminal, Flags
  <1>8. r2 \in Controllers
    BY <1>5, <1>7 DEF ControllerOK, Controllers
  <1>9. PICK r3 : r3 = [c EXCEPT !.pc = "clean", !.failure = "stage"]
    OBVIOUS
  <1>10. /\ r3.pc = "clean" /\ r3.failure = "stage" /\ r3.manifest = c.manifest
         /\ r3.narrow = c.narrow /\ r3.report = c.report /\ r3.status = c.status
         /\ r3.own = c.own
    BY <1>9 DEF ControllerOK, Controllers
  <1>11. /\ "clean" \in Steps /\ "stage" \in Failures
    BY DEF Steps, Failures, Terminal, Flags
  <1>12. r3 \in Controllers
    BY <1>9, <1>11 DEF ControllerOK, Controllers
  <1>13. /\ c.pc = "ended"
         /\ \/ (c.narrow = NoTree \/ stage.dir = "none") /\ c' = r1
            \/ c' = r2
            \/ c' = r3
         /\ UNCHANGED <<source, approved, job, maker, stage, given, sealed, made, touches, quiet>>
    BY <1>1, <1>5, <1>9 DEF CompareNarrow, FailStage, StageAtPath
  <1> QED
    BY <1>2, <1>4, <1>6, <1>8, <1>10, <1>12, <1>13 DEF CompareNarrowMove, ControllerOK,
       Held, Told

\* What ScanMutations does, and that what it writes is well formed.
LEMMA ScanMutationsMoves ==
  ASSUME ControllerOK, ScanMutations
  PROVE  ScanMutationsMove /\ ControllerOK'
  <1>1. Authorized => Puts \in SUBSET Write /\ Dels \in SUBSET Write
    BY DEF Authorized, Puts, Dels
  <1>2. PICK r1 : r1 = [c EXCEPT !.pc = "clean", !.recon = "yes"]
    OBVIOUS
  <1>3. /\ r1.pc = "clean" /\ r1.manifest = c.manifest /\ r1.narrow = c.narrow
        /\ r1.report = c.report /\ r1.status = c.status /\ r1.failure = c.failure
        /\ r1.own = c.own
    BY <1>2 DEF ControllerOK, Controllers
  <1>4. /\ "clean" \in Steps /\ "yes" \in Flags
    BY DEF Steps, Failures, Terminal, Flags
  <1>5. r1 \in Controllers
    BY <1>2, <1>4, <1>1 DEF ControllerOK, Controllers
  <1>6. PICK r2 : r2 = [c EXCEPT !.pc = "reconcile", !.puts = Puts, !.dels = Dels]
    OBVIOUS
  <1>7. /\ r2.pc = "reconcile" /\ r2.manifest = c.manifest /\ r2.narrow = c.narrow
        /\ r2.report = c.report /\ r2.status = c.status /\ r2.failure = c.failure
        /\ r2.own = c.own
    BY <1>6 DEF ControllerOK, Controllers
  <1>8. /\ "reconcile" \in Steps
    BY DEF Steps, Failures, Terminal, Flags
  <1>9. Authorized => r2 \in Controllers
    BY <1>6, <1>8, <1>1 DEF ControllerOK, Controllers
  <1>10. PICK r3 : r3 = [c EXCEPT !.pc = "clean", !.failure = "stage"]
    OBVIOUS
  <1>11. /\ r3.pc = "clean" /\ r3.failure = "stage" /\ r3.manifest = c.manifest
         /\ r3.narrow = c.narrow /\ r3.report = c.report /\ r3.status = c.status
         /\ r3.own = c.own
    BY <1>10 DEF ControllerOK, Controllers
  <1>12. /\ "clean" \in Steps /\ "stage" \in Failures
    BY DEF Steps, Failures, Terminal, Flags
  <1>13. r3 \in Controllers
    BY <1>10, <1>12, <1>1 DEF ControllerOK, Controllers
  <1>14. /\ c.pc = "mutations"
         /\ \/ c' = r1
            \/ Authorized /\ c' = r2
            \/ c' = r3
         /\ UNCHANGED <<source, approved, job, maker, stage, given, sealed, made, touches, quiet>>
    BY <1>2, <1>6, <1>10 DEF ScanMutations, FailStage, Puts, Dels
  <1> QED
    BY <1>3, <1>5, <1>7, <1>9, <1>11, <1>13, <1>14 DEF ScanMutationsMove, ControllerOK,
       Held, Told

\* What Reconcile does, and that what it writes is well formed.
LEMMA ReconcileMoves ==
  ASSUME ControllerOK, Reconcile
  PROVE  ReconcileMove /\ ControllerOK'
  <1>1. PICK r1 : r1 = [c EXCEPT !.pc = "match", !.recon = "yes"]
    OBVIOUS
  <1>2. /\ r1.pc = "match" /\ r1.manifest = c.manifest /\ r1.narrow = c.narrow
        /\ r1.report = c.report /\ r1.status = c.status /\ r1.failure = c.failure
        /\ r1.own = c.own
    BY <1>1 DEF ControllerOK, Controllers
  <1>3. /\ "match" \in Steps /\ "yes" \in Flags
    BY DEF Steps, Failures, Terminal, Flags
  <1>4. r1 \in Controllers
    BY <1>1, <1>3 DEF ControllerOK, Controllers
  <1>5. PICK r2 : r2 = [c EXCEPT !.pc = "clean", !.failure = "stage"]
    OBVIOUS
  <1>6. /\ r2.pc = "clean" /\ r2.failure = "stage" /\ r2.manifest = c.manifest
        /\ r2.narrow = c.narrow /\ r2.report = c.report /\ r2.status = c.status
        /\ r2.own = c.own
    BY <1>5 DEF ControllerOK, Controllers
  <1>7. /\ "clean" \in Steps /\ "stage" \in Failures
    BY DEF Steps, Failures, Terminal, Flags
  <1>8. r2 \in Controllers
    BY <1>5, <1>7 DEF ControllerOK, Controllers
  <1>9. /\ c.pc = "reconcile"
        /\ \/ c' = r1 /\ NotDrifted
           \/ c' = r2 /\ UNCHANGED source
        /\ UNCHANGED <<approved, job, maker, stage, given, sealed, made, touches, quiet>>
    BY <1>1, <1>5 DEF Reconcile, FailStage
  <1> QED
    BY <1>2, <1>4, <1>6, <1>8, <1>9 DEF ReconcileMove, ControllerOK, Held, Told

\* What MatchStage does, and that what it writes is well formed.
LEMMA MatchStageMoves ==
  ASSUME ControllerOK, MatchStage
  PROVE  MatchStageMove /\ ControllerOK'
  <1>1. PICK r1 : r1 = [c EXCEPT !.pc = "clean"]
    OBVIOUS
  <1>2. /\ r1.pc = "clean" /\ r1.manifest = c.manifest /\ r1.narrow = c.narrow
        /\ r1.report = c.report /\ r1.status = c.status /\ r1.failure = c.failure
        /\ r1.own = c.own
    BY <1>1 DEF ControllerOK, Controllers
  <1>3. /\ "clean" \in Steps
    BY DEF Steps, Failures, Terminal, Flags
  <1>4. r1 \in Controllers
    BY <1>1, <1>3 DEF ControllerOK, Controllers
  <1>5. PICK r2 : r2 = [c EXCEPT !.pc = "clean", !.failure = "stage"]
    OBVIOUS
  <1>6. /\ r2.pc = "clean" /\ r2.failure = "stage" /\ r2.manifest = c.manifest
        /\ r2.narrow = c.narrow /\ r2.report = c.report /\ r2.status = c.status
        /\ r2.own = c.own
    BY <1>5 DEF ControllerOK, Controllers
  <1>7. /\ "clean" \in Steps /\ "stage" \in Failures
    BY DEF Steps, Failures, Terminal, Flags
  <1>8. r2 \in Controllers
    BY <1>5, <1>7 DEF ControllerOK, Controllers
  <1>9. /\ c.pc = "match"
        /\ \/ c' = r1
           \/ c' = r2
        /\ UNCHANGED <<source, approved, job, maker, stage, given, sealed, touches, quiet>>
    BY <1>1, <1>5 DEF MatchStage, FailStage
  <1> QED
    BY <1>2, <1>4, <1>6, <1>8, <1>9 DEF MatchStageMove, ControllerOK, Held, Told

\* What a failed cleanup writes.
LEMMA CleanupFailsMoves ==
  ASSUME ControllerOK, CleanupFails
  PROVE  /\ c'.pc = "observe" /\ c'.report = "none" /\ c'.status = "failed"
         /\ c'.failure = "binding" /\ Held /\ c'.own = c.own /\ ControllerOK'
  <1>1. PICK r : r = [c EXCEPT !.pc = "observe", !.report = "none", !.status = "failed",
           !.failure = "binding"]
    OBVIOUS
  <1>2. /\ r.pc = "observe" /\ r.report = "none" /\ r.status = "failed"
        /\ r.failure = "binding" /\ r.manifest = c.manifest /\ r.narrow = c.narrow
        /\ r.own = c.own
    BY <1>1 DEF ControllerOK, Controllers
  <1>3. /\ "observe" \in Steps /\ "binding" \in Failures /\ "failed" \in Terminal
        /\ "none" \in Reports \cup {"none"}
    BY DEF Steps, Failures, Terminal
  <1>4. r \in Controllers
    BY <1>1, <1>3 DEF ControllerOK, Controllers
  <1>5. c' = r
    BY <1>1 DEF CleanupFails
  <1> QED
    BY <1>2, <1>4, <1>5 DEF ControllerOK, Held

\* What CleanStage does, and that what it writes is well formed.
LEMMA CleanStageMoves ==
  ASSUME ControllerOK, StageOK, CleanStage
  PROVE  CleanStageMove /\ ControllerOK'
  <1>1. PICK r : r = [c EXCEPT !.pc = "rmdir"]
    OBVIOUS
  <1>2. /\ r.pc = "rmdir" /\ r.manifest = c.manifest /\ r.narrow = c.narrow
        /\ r.report = c.report /\ r.status = c.status /\ r.failure = c.failure
        /\ r.own = c.own
    BY <1>1 DEF ControllerOK, Controllers
  <1>3. r \in Controllers
    BY <1>1 DEF ControllerOK, Controllers, Steps
  <1>4. /\ c.pc = "clean" /\ (c' = r \/ CleanupFails) /\ stage'.dir = stage.dir
        /\ UNCHANGED <<source, approved, job, maker, given, sealed, made, touches, quiet>>
    BY <1>1 DEF CleanStage, Emptied, StageOK
  <1> QED
    BY <1>2, <1>3, <1>4, CleanupFailsMoves DEF CleanStageMove, ControllerOK, Held, Told

\* What RemoveStage does, and that what it writes is well formed.
LEMMA RemoveStageMoves ==
  ASSUME ControllerOK, StageOK, RemoveStage
  PROVE  RemoveStageMove /\ ControllerOK'
  <1>1. PICK r : r = [c EXCEPT !.pc = "observe"]
    OBVIOUS
  <1>2. /\ r.pc = "observe" /\ r.manifest = c.manifest /\ r.narrow = c.narrow
        /\ r.report = c.report /\ r.status = c.status /\ r.failure = c.failure
        /\ r.own = c.own
    BY <1>1 DEF ControllerOK, Controllers
  <1>3. r \in Controllers
    BY <1>1 DEF ControllerOK, Controllers, Steps
  <1>4. /\ c.pc = "rmdir"
        /\ \/ CleanupFailed /\ CleanupFails /\ stage'.dir \in {"none", stage.dir}
           \/ ~CleanupFailed /\ c' = r /\ stage'.dir = "none"
        /\ UNCHANGED <<source, approved, job, maker, given, sealed, made, touches, quiet>>
    BY <1>1 DEF RemoveStage, RemovedAtPath, NoStage, StageOK, CleanupFailed
  <1> QED
    BY <1>2, <1>3, <1>4, CleanupFailsMoves DEF RemoveStageMove, ControllerOK, Held, Told

\* What ObserveCancel does, and that what it writes is well formed.
LEMMA ObserveCancelMoves ==
  ASSUME ControllerOK, ObserveCancel
  PROVE  ObserveCancelMove /\ ControllerOK'
  <1>1. PICK r1 : r1 = [c EXCEPT !.report = "none", !.status = "cancelled", !.failure =
           "none", !.pc = "candidate"]
    OBVIOUS
  <1>2. /\ r1.report = "none" /\ r1.status = "cancelled" /\ r1.failure = "none"
        /\ r1.pc = "candidate" /\ r1.manifest = c.manifest /\ r1.narrow = c.narrow
        /\ r1.own = c.own
    BY <1>1 DEF ControllerOK, Controllers
  <1>3. /\ "candidate" \in Steps /\ "none" \in Failures /\ "cancelled" \in Terminal
        /\ "none" \in Reports \cup {"none"}
    BY DEF Steps, Failures, Terminal, Flags
  <1>4. r1 \in Controllers
    BY <1>1, <1>3 DEF ControllerOK, Controllers
  <1>5. PICK r2 : r2 = [c EXCEPT !.pc = "candidate"]
    OBVIOUS
  <1>6. /\ r2.pc = "candidate" /\ r2.manifest = c.manifest /\ r2.narrow = c.narrow
        /\ r2.report = c.report /\ r2.status = c.status /\ r2.failure = c.failure
        /\ r2.own = c.own
    BY <1>5 DEF ControllerOK, Controllers
  <1>7. /\ "candidate" \in Steps
    BY DEF Steps, Failures, Terminal, Flags
  <1>8. r2 \in Controllers
    BY <1>5, <1>7 DEF ControllerOK, Controllers
  <1>9. /\ c.pc = "observe"
        /\ \/ c' = r1
           \/ c' = r2
        /\ UNCHANGED <<source, approved, job, maker, stage, given, sealed, made, touches, quiet>>
    BY <1>1, <1>5 DEF ObserveCancel, Cancelled
  <1> QED
    BY <1>2, <1>4, <1>6, <1>8, <1>9 DEF ObserveCancelMove, ControllerOK, Held, Told

\* What TakeCandidate does, and that what it writes is well formed.
LEMMA TakeCandidateMoves ==
  ASSUME ControllerOK, SourceOK, TakeCandidate
  PROVE  TakeCandidateMove /\ ControllerOK'
  <1>1. source \in StageTrees
    BY TreeTypes DEF SourceOK
  <1>2. PICK r1 : r1 = [c EXCEPT !.pc = "publish"]
    OBVIOUS
  <1>3. /\ r1.pc = "publish" /\ r1.manifest = c.manifest /\ r1.narrow = c.narrow
        /\ r1.report = c.report /\ r1.status = c.status /\ r1.failure = c.failure
        /\ r1.own = c.own
    BY <1>2 DEF ControllerOK, Controllers
  <1>4. /\ "publish" \in Steps
    BY DEF Steps, Failures, Terminal, Flags
  <1>5. r1 \in Controllers
    BY <1>2, <1>4, <1>1 DEF ControllerOK, Controllers
  <1>6. PICK r2 : r2 = [c EXCEPT !.pc = "publish", !.cand = source]
    OBVIOUS
  <1>7. /\ r2.pc = "publish" /\ r2.manifest = c.manifest /\ r2.narrow = c.narrow
        /\ r2.report = c.report /\ r2.status = c.status /\ r2.failure = c.failure
        /\ r2.own = c.own
    BY <1>6 DEF ControllerOK, Controllers
  <1>8. /\ "publish" \in Steps
    BY DEF Steps, Failures, Terminal, Flags
  <1>9. r2 \in Controllers
    BY <1>6, <1>8, <1>1 DEF ControllerOK, Controllers
  <1>10. PICK r3 : r3 = [c EXCEPT !.pc = "derive", !.cand = source]
    OBVIOUS
  <1>11. /\ r3.pc = "derive" /\ r3.manifest = c.manifest /\ r3.narrow = c.narrow
         /\ r3.report = c.report /\ r3.status = c.status /\ r3.failure = c.failure
         /\ r3.own = c.own
    BY <1>10 DEF ControllerOK, Controllers
  <1>12. /\ "derive" \in Steps
    BY DEF Steps, Failures, Terminal, Flags
  <1>13. r3 \in Controllers
    BY <1>10, <1>12, <1>1 DEF ControllerOK, Controllers
  <1>14. /\ c.pc = "candidate"
         /\ \/ c.report = "none" /\ c' = r1
            \/ c.report # "none" /\ c' = r2
            \/ c.report # "none" /\ c' = r3
         /\ UNCHANGED <<source, approved, job, maker, stage, given, sealed, made, touches, quiet>>
    BY <1>2, <1>6, <1>10 DEF TakeCandidate
  <1> QED
    BY <1>3, <1>5, <1>7, <1>9, <1>11, <1>13, <1>14 DEF TakeCandidateMove, ControllerOK,
       Held, Told

\* What Derive does, and that what it writes is well formed.
LEMMA DeriveMoves ==
  ASSUME ControllerOK, SourceOK, Derive
  PROVE  DeriveMove /\ ControllerOK'
  <1>1. Seen(source) \in Sights
    BY TreeTypes DEF SourceOK
  <1>2. PICK r1 : r1 = [c EXCEPT !.pc = "publish", !.derived = "yes", !.seen = Seen(source)]
    OBVIOUS
  <1>3. /\ r1.pc = "publish" /\ r1.manifest = c.manifest /\ r1.narrow = c.narrow
        /\ r1.report = c.report /\ r1.status = c.status /\ r1.failure = c.failure
        /\ r1.own = c.own
    BY <1>2 DEF ControllerOK, Controllers
  <1>4. /\ "publish" \in Steps /\ "yes" \in Flags
    BY DEF Steps, Failures, Terminal, Flags
  <1>5. r1 \in Controllers
    BY <1>2, <1>4, <1>1 DEF ControllerOK, Controllers
  <1>6. PICK r2 : r2 = [c EXCEPT !.pc = "publish"]
    OBVIOUS
  <1>7. /\ r2.pc = "publish" /\ r2.manifest = c.manifest /\ r2.narrow = c.narrow
        /\ r2.report = c.report /\ r2.status = c.status /\ r2.failure = c.failure
        /\ r2.own = c.own
    BY <1>6 DEF ControllerOK, Controllers
  <1>8. /\ "publish" \in Steps
    BY DEF Steps, Failures, Terminal, Flags
  <1>9. r2 \in Controllers
    BY <1>6, <1>8, <1>1 DEF ControllerOK, Controllers
  <1>10. /\ c.pc = "derive"
         /\ \/ c' = r1
            \/ c' = r2
         /\ UNCHANGED <<source, approved, job, maker, stage, given, sealed, made, touches, quiet>>
    BY <1>2, <1>6 DEF Derive
  <1> QED
    BY <1>3, <1>5, <1>7, <1>9, <1>10 DEF DeriveMove, ControllerOK, Held, Told

\* What Launch does, and that what it writes is well formed.
LEMMA LaunchMoves ==
  ASSUME ControllerOK, JobTyped, Launch
  PROVE  LaunchMove /\ ControllerOK' /\ JobTyped'
  <1>1. PICK r1 : r1 = [c EXCEPT !.pc = "ended", !.status = "cancelled"]
    OBVIOUS
  <1>2. /\ r1.pc = "ended" /\ r1.status = "cancelled" /\ r1.manifest = c.manifest
        /\ r1.narrow = c.narrow /\ r1.report = c.report /\ r1.failure = c.failure
        /\ r1.own = c.own
    BY <1>1 DEF ControllerOK, Controllers
  <1>3. /\ "ended" \in Steps /\ "cancelled" \in Terminal
    BY DEF Steps, Failures, Terminal, Flags
  <1>4. r1 \in Controllers
    BY <1>1, <1>3 DEF ControllerOK, Controllers
  <1>5. PICK r2 : r2 = [c EXCEPT !.pc = "ended"]
    OBVIOUS
  <1>6. /\ r2.pc = "ended" /\ r2.manifest = c.manifest /\ r2.narrow = c.narrow
        /\ r2.report = c.report /\ r2.status = c.status /\ r2.failure = c.failure
        /\ r2.own = c.own
    BY <1>5 DEF ControllerOK, Controllers
  <1>7. /\ "ended" \in Steps
    BY DEF Steps, Failures, Terminal, Flags
  <1>8. r2 \in Controllers
    BY <1>5, <1>7 DEF ControllerOK, Controllers
  <1>9. PICK j2 : j2 = [job EXCEPT !.status = "running"]
    OBVIOUS
  <1>10. /\ j2.status = "running" /\ j2.failure = job.failure /\ j2.attempt = job.attempt
         /\ j2.bound = job.bound /\ j2.lineage = job.lineage
    BY <1>9 DEF JobTyped, Jobs
  <1>11. /\ "running" \in Terminal \cup {"none", "queued", "running"}
    BY DEF Failures, Terminal, Flags
  <1>12. j2 \in Jobs
    BY <1>9, <1>11 DEF JobTyped, Jobs
  <1>13. PICK r3 : r3 = [c EXCEPT !.pc = "running", !.launched = "yes"]
    OBVIOUS
  <1>14. /\ r3.pc = "running" /\ r3.manifest = c.manifest /\ r3.narrow = c.narrow
         /\ r3.report = c.report /\ r3.status = c.status /\ r3.failure = c.failure
         /\ r3.own = c.own
    BY <1>13 DEF ControllerOK, Controllers
  <1>15. /\ "running" \in Steps /\ "yes" \in Flags
    BY DEF Steps, Failures, Terminal, Flags
  <1>16. r3 \in Controllers
    BY <1>13, <1>15 DEF ControllerOK, Controllers
  <1>17. /\ c.pc = "launch"
         /\ \/ c' = r1 /\ UNCHANGED <<job, given>>
            \/ c' = r2 /\ job' = j2 /\ UNCHANGED given
            \/ c' = r3 /\ job' = j2 /\ StageExact /\ given' = stage.body
         /\ UNCHANGED <<source, approved, maker, stage, sealed, made, touches>>
    BY <1>1, <1>5, <1>9, <1>13 DEF Launch
  <1> QED
    BY <1>2, <1>4, <1>6, <1>8, <1>10, <1>12, <1>14, <1>16, <1>17 DEF LaunchMove,
       ControllerOK, Held, Told, Bears, JobTyped

\* What ProviderEnds does, and that what it writes is well formed.
LEMMA ProviderEndsMoves ==
  ASSUME ControllerOK, JobTyped, NEW r \in Reports \cup {"none"}, NEW s \in Terminal, NEW d
         \in {"exact", "wrong"}, ProviderEnds(r, s, d)
  PROVE  ProviderEndsMove(r, s, d) /\ ControllerOK' /\ JobTyped'
  <1>1. (IF r # "none" THEN "yes" ELSE job.conv) \in Flags
    BY DEF JobTyped, Jobs, Flags
  <1>2. PICK n : n = [c EXCEPT !.pc = "ended", !.report = r, !.status = s, !.declared = d]
    OBVIOUS
  <1>3. /\ n.pc = "ended" /\ n.report = r /\ n.status = s /\ n.manifest = c.manifest
        /\ n.narrow = c.narrow /\ n.failure = c.failure /\ n.own = c.own
    BY <1>2 DEF ControllerOK, Controllers
  <1>4. /\ "ended" \in Steps
    BY DEF Steps, Failures, Terminal, Flags
  <1>5. n \in Controllers
    BY <1>2, <1>4, <1>1 DEF ControllerOK, Controllers
  <1>6. PICK j1 : j1 = [job EXCEPT !.conv = IF r # "none" THEN "yes" ELSE job.conv]
    OBVIOUS
  <1>7. /\ j1.status = job.status /\ j1.failure = job.failure /\ j1.attempt = job.attempt
        /\ j1.bound = job.bound /\ j1.lineage = job.lineage
    BY <1>6 DEF JobTyped, Jobs
  <1>8. j1 \in Jobs
    BY <1>6, <1>1 DEF JobTyped, Jobs
  <1>9. /\ c.pc = "running"
        /\ \/ c' = n /\ job' = j1
        /\ UNCHANGED <<source, approved, maker, stage, given, sealed, made, touches, quiet>>
    BY <1>2, <1>6 DEF ProviderEnds
  <1> QED
    BY <1>3, <1>5, <1>7, <1>8, <1>9 DEF ProviderEndsMove, ControllerOK, Held, Told, Bears,
       JobTyped

\* What Kill does, and that what it writes is well formed.
LEMMA KillMoves ==
  ASSUME ControllerOK, JobTyped, Kill
  PROVE  KillMove /\ ControllerOK' /\ JobTyped'
  <1>1. PICK j1 : j1 = [job EXCEPT !.status = "orphaned", !.cont = "no", !.cancel = "no"]
    OBVIOUS
  <1>2. /\ j1.status = "orphaned" /\ j1.failure = job.failure /\ j1.attempt = job.attempt
        /\ j1.bound = job.bound /\ j1.lineage = job.lineage
    BY <1>1 DEF JobTyped, Jobs
  <1>3. /\ "orphaned" \in Terminal \cup {"none", "queued", "running"} /\ "no" \in Flags
        /\ "no" \in Flags
    BY DEF Failures, Terminal, Flags
  <1>4. j1 \in Jobs
    BY <1>1, <1>3 DEF JobTyped, Jobs
  <1>5. /\ c.pc # "none"
        /\ \/ c' = NoController /\ job' = j1
        /\ UNCHANGED <<source, approved, maker, stage, given, sealed, made, touches, quiet>>
    BY <1>1 DEF Kill
  <1> QED
    BY <1>2, <1>4, <1>5, NoControllerType DEF KillMove, ControllerOK, Held, Told, Bears,
       JobTyped

\* What Break does, and that what it writes is well formed.
LEMMA BreakMoves ==
  ASSUME ControllerOK, JobTyped, Break
  PROVE  BreakMove /\ ControllerOK' /\ JobTyped'
  <1>1. (IF "none" = "binding" THEN "no" ELSE job.available) \in Flags
        /\ (IF "binding" = "binding" THEN "no" ELSE job.available) \in Flags
    BY DEF JobTyped, Jobs, Flags
  <1>2. PICK j1 : j1 = [job EXCEPT !.status = "cancelled", !.failure = "none", !.cancel =
           "no", !.cont = "no", !.available = (IF "none" = "binding" THEN "no" ELSE
           job.available)]
    OBVIOUS
  <1>3. /\ j1.status = "cancelled" /\ j1.failure = "none" /\ j1.attempt = job.attempt
        /\ j1.bound = job.bound /\ j1.lineage = job.lineage
    BY <1>2 DEF JobTyped, Jobs
  <1>4. /\ "cancelled" \in Terminal \cup {"none", "queued", "running"}
        /\ "none" \in Failures /\ "no" \in Flags /\ "no" \in Flags
    BY DEF Failures, Terminal, Flags
  <1>5. j1 \in Jobs
    BY <1>2, <1>4, <1>1 DEF JobTyped, Jobs
  <1>6. PICK j2 : j2 = [job EXCEPT !.status = "failed", !.failure = "binding", !.cancel =
           "no", !.cont = "no", !.available = (IF "binding" = "binding" THEN "no" ELSE
           job.available)]
    OBVIOUS
  <1>7. /\ j2.status = "failed" /\ j2.failure = "binding" /\ j2.attempt = job.attempt
        /\ j2.bound = job.bound /\ j2.lineage = job.lineage
    BY <1>6 DEF JobTyped, Jobs
  <1>8. /\ "failed" \in Terminal \cup {"none", "queued", "running"}
        /\ "binding" \in Failures /\ "no" \in Flags /\ "no" \in Flags
    BY DEF Failures, Terminal, Flags
  <1>9. j2 \in Jobs
    BY <1>6, <1>8, <1>1 DEF JobTyped, Jobs
  <1>10. /\ c.launched = "yes"
         /\ \/ c' = NoController /\ job' = j1
            \/ c' = NoController /\ job' = j2
         /\ UNCHANGED <<source, approved, maker, stage, given, sealed, made, touches, quiet>>
    BY <1>2, <1>6 DEF Break, SideEnd
  <1> QED
    BY <1>3, <1>5, <1>7, <1>9, <1>10, NoControllerType DEF BreakMove, ControllerOK, Held,
       Told, Bears, JobTyped

\* What Claim does, and that what it writes is well formed.
LEMMA ClaimMoves ==
  ASSUME ControllerOK, JobTyped, Claim
  PROVE  ClaimMove /\ ControllerOK' /\ JobTyped'
  <1>1. (IF "none" = "binding" THEN "no" ELSE job.available) \in Flags
        /\ (IF "binding" = "binding" THEN "no" ELSE job.available) \in Flags
    BY DEF JobTyped, Jobs, Flags
  <1>2. PICK j1 : j1 = [job EXCEPT !.status = "cancelled", !.failure = "none", !.cancel =
           "no", !.cont = "no", !.available = (IF "none" = "binding" THEN "no" ELSE
           job.available)]
    OBVIOUS
  <1>3. /\ j1.status = "cancelled" /\ j1.failure = "none" /\ j1.attempt = job.attempt
        /\ j1.bound = job.bound /\ j1.lineage = job.lineage
    BY <1>2 DEF JobTyped, Jobs
  <1>4. /\ "cancelled" \in Terminal \cup {"none", "queued", "running"}
        /\ "none" \in Failures /\ "no" \in Flags /\ "no" \in Flags
    BY DEF Failures, Terminal, Flags
  <1>5. j1 \in Jobs
    BY <1>2, <1>4, <1>1 DEF JobTyped, Jobs
  <1>6. PICK j2 : j2 = [job EXCEPT !.status = "failed", !.failure = "binding", !.cancel =
           "no", !.cont = "no", !.available = (IF "binding" = "binding" THEN "no" ELSE
           job.available)]
    OBVIOUS
  <1>7. /\ j2.status = "failed" /\ j2.failure = "binding" /\ j2.attempt = job.attempt
        /\ j2.bound = job.bound /\ j2.lineage = job.lineage
    BY <1>6 DEF JobTyped, Jobs
  <1>8. /\ "failed" \in Terminal \cup {"none", "queued", "running"}
        /\ "binding" \in Failures /\ "no" \in Flags /\ "no" \in Flags
    BY DEF Failures, Terminal, Flags
  <1>9. j2 \in Jobs
    BY <1>6, <1>8, <1>1 DEF JobTyped, Jobs
  <1>10. PICK r : r = [NoController EXCEPT !.pc = "baseline"]
    OBVIOUS
  <1>11. r.pc = "baseline" /\ r.failure = "none" /\ r \in Controllers
    BY <1>10, NoControllerType DEF NoController, Controllers, Steps
  <1>12. /\ job.status = "queued" /\ c.pc = "none"
         /\ \/ job' = j1 /\ UNCHANGED c
            \/ job' = j2 /\ UNCHANGED c
            \/ c' = r /\ UNCHANGED job
         /\ UNCHANGED <<source, approved, maker, stage, given, sealed, made, touches, quiet>>
    BY <1>2, <1>6, <1>10 DEF Claim, SideEnd
  <1> QED
    BY <1>3, <1>5, <1>7, <1>9, <1>11, <1>12 DEF ClaimMove, ControllerOK, Held, Told,
       Bears, JobTyped

\* What Cancel does, and that what it writes is well formed.
LEMMA CancelMoves ==
  ASSUME ControllerOK, JobTyped, Cancel
  PROVE  CancelMove /\ ControllerOK' /\ JobTyped'
  <1>1. PICK j1 : j1 = [job EXCEPT !.cancel = "yes"]
    OBVIOUS
  <1>2. /\ j1.status = job.status /\ j1.failure = job.failure /\ j1.attempt = job.attempt
        /\ j1.bound = job.bound /\ j1.lineage = job.lineage
    BY <1>1 DEF JobTyped, Jobs
  <1>3. /\ "yes" \in Flags
    BY DEF Failures, Terminal, Flags
  <1>4. j1 \in Jobs
    BY <1>1, <1>3 DEF JobTyped, Jobs
  <1>5. /\ job.status \in {"queued", "running"}
        /\ \/ job' = j1
        /\ UNCHANGED <<source, approved, maker, c, stage, given, sealed, made, touches, quiet>>
    BY <1>1 DEF Cancel
  <1> QED
    BY <1>2, <1>4, <1>5 DEF CancelMove, ControllerOK, Held, Told, Bears, JobTyped

RecordMove ==
  /\ maker.pc = "scope" /\ ScopeHolds /\ maker' = NoMaker /\ stage' = NoStage
  /\ job'.status = "queued" /\ job'.attempt = job.attempt + 1 /\ job'.failure = "none"
  /\ \/ job'.lineage = 0
     \/ /\ maker.origin = "continue" /\ job'.bound = Seen(source)
        /\ job'.lineage = job.lineage
  /\ UNCHANGED <<source, approved, c, given, sealed, made, touches, quiet>>

\* What the record of a new attempt says.
LEMMA RecordMoves ==
  ASSUME SourceOK, JobTyped, MakerOK, Counted, Record
  PROVE  RecordMove /\ JobTyped'
  <1>1. /\ Seen(source) \in Sights /\ NoTree \in StageTrees /\ maker.base \in StageTrees
        /\ maker.origin \in Origins /\ Seen(Empty) \in Sights
    BY TreeTypes DEF SourceOK, MakerOK
  <1>2. job.attempt \in 0..MaxCycles /\ job.attempt < MaxCycles
    BY DEF Record, Counted, JobTyped, Jobs
  <1>3. job.attempt + 1 \in 0..MaxCycles /\ 0 \in 0..MaxCycles
    BY <1>2, BoundsAssumption
  <1>4. /\ "yes" \in Flags /\ "no" \in Flags /\ "none" \in Failures
        /\ "initial" \in Origins /\ "continue" \in Origins
    BY DEF Flags, Failures, Origins
  <1>5. NoJob \in Jobs
    BY <1>1, <1>3, <1>4 DEF NoJob, Jobs
  <1>6. PICK f : f = [NoJob EXCEPT !.status = "queued", !.attempt = job.attempt + 1,
                        !.origin = maker.origin, !.base = maker.base, !.bound = Seen(source)]
    OBVIOUS
  <1>7. f \in Jobs
    BY <1>1, <1>3, <1>5, <1>6 DEF Jobs
  <1>8. f.status = "queued" /\ f.attempt = job.attempt + 1 /\ f.failure = "none" /\ f.lineage = 0
    BY <1>6 DEF NoJob
  <1>9. PICK g : g = [f EXCEPT !.conv = "yes"]
    OBVIOUS
  <1>10. g \in Jobs
    BY <1>4, <1>7, <1>9 DEF Jobs
  <1>11. g.status = "queued" /\ g.attempt = job.attempt + 1 /\ g.failure = "none" /\ g.lineage = 0
    BY <1>7, <1>8, <1>9 DEF Jobs
  <1>12. PICK h : h = [job EXCEPT !.status = "queued", !.attempt = job.attempt + 1,
                         !.origin = "continue", !.base = maker.base, !.bound = Seen(source),
                         !.cont = "no", !.cancel = "no", !.failure = "none"]
    OBVIOUS
  <1>13. h \in Jobs
    BY <1>1, <1>3, <1>4, <1>12 DEF JobTyped, Jobs
  <1>14. /\ h.status = "queued" /\ h.attempt = job.attempt + 1 /\ h.failure = "none"
         /\ h.bound = Seen(source) /\ h.lineage = job.lineage
    BY <1>12 DEF JobTyped, Jobs
  <1>15. /\ maker.pc = "scope" /\ ScopeHolds /\ maker' = NoMaker /\ stage' = NoStage
         /\ \/ maker.origin = "continue" /\ job' = h
            \/ job' = g
            \/ job' = f
         /\ UNCHANGED <<source, approved, c, given, sealed, made, touches, quiet>>
    BY <1>6, <1>9, <1>12 DEF Record
  <1> QED
    BY <1>7, <1>8, <1>10, <1>11, <1>13, <1>14, <1>15 DEF RecordMove, JobTyped

\* What is published with a report.
LEMMA WithReportFields ==
  ASSUME NEW j \in Jobs, NEW f \in Controllers, f.report # "none"
  PROVE  /\ WithReport(j, f) \in Jobs /\ WithReport(j, f).attempt = j.attempt
         /\ WithReport(j, f).status = f.status /\ WithReport(j, f).failure = f.failure
         /\ WithReport(j, f).lineage # 0 =>
              Repairs = "yes" /\ f.derived = "yes" /\ WithReport(j, f).bound = f.seen
  <1>1. PICK l : l = IF Repairs = "yes" /\ f.derived = "yes" THEN j.attempt ELSE 0
    OBVIOUS
  <1>2. l \in 0..MaxCycles /\ (l # 0 => Repairs = "yes" /\ f.derived = "yes")
    BY <1>1, BoundsAssumption DEF Jobs
  <1>3. PICK b : b = Bound(j, f)
    OBVIOUS
  <1>4. b \in Sights /\ (f.derived = "yes" => b = f.seen)
    BY <1>3 DEF Bound, Jobs, Controllers
  <1>5. PICK k : k = IF /\ f.status \in {"succeeded", "failed"} /\ f.report # "cancelled"
                        /\ j.conv = "yes" /\ j.attempt < MaxCycles
                        /\ (f.derived = "yes" /\ f.seen = approved) \/ l # 0
                     THEN "yes" ELSE "no"
    OBVIOUS
  <1>6. k \in Flags /\ "yes" \in Flags /\ "no" \in Flags
    BY <1>5 DEF Flags
  <1>7. /\ f.status \in Terminal /\ f.report \in Reports \cup {"none"} /\ f.cand \in StageTrees
        /\ f.recon \in Flags /\ f.failure \in Failures
    BY DEF Controllers
  <1>8. PICK i : i = [j EXCEPT !.status = f.status, !.result = f.report, !.available = "yes",
                        !.cand = f.cand, !.recon = f.recon]
    OBVIOUS
  <1>9. /\ i \in Jobs /\ i.attempt = j.attempt /\ i.status = f.status
    BY <1>6, <1>7, <1>8 DEF Jobs
  <1>10. PICK r : r = [i EXCEPT !.lineage = l, !.bound = b, !.failure = f.failure,
                         !.cancel = "no", !.cont = k]
    OBVIOUS
  <1>11. r \in Jobs
    BY <1>2, <1>4, <1>6, <1>7, <1>9, <1>10 DEF Jobs
  <1>12. /\ r.attempt = j.attempt /\ r.status = f.status /\ r.failure = f.failure
         /\ r.lineage = l /\ r.bound = b
    BY <1>9, <1>10 DEF Jobs
  <1>13. WithReport(j, f) = r
    BY <1>1, <1>3, <1>5, <1>8, <1>10 DEF WithReport
  <1> QED
    BY <1>2, <1>4, <1>11, <1>12, <1>13

\* What is published without one.
LEMMA WithoutReportFields ==
  ASSUME NEW j \in Jobs, NEW f \in Controllers
  PROVE  /\ WithoutReport(j, f) \in Jobs /\ WithoutReport(j, f).attempt = j.attempt
         /\ WithoutReport(j, f).lineage = j.lineage /\ WithoutReport(j, f).bound = j.bound
         /\ WithoutReport(j, f).status \in Terminal
         /\ WithoutReport(j, f).failure \in {"binding", f.failure}
         /\ \/ WithoutReport(j, f).failure = "binding"
            \/ WithoutReport(j, f).status = f.status
  <1> DEFINE prior == j.origin = "continue" /\ j.result # "none"
  <1>1. PICK x : x = IF prior /\ j.available = "no" THEN "binding" ELSE f.failure
    OBVIOUS
  <1>2. PICK s : s = IF prior /\ j.available = "no" THEN "failed" ELSE f.status
    OBVIOUS
  <1>3. PICK q : q = IF prior THEN j.recon ELSE f.recon
    OBVIOUS
  <1>4. PICK v : v = IF prior /\ x # "binding" THEN "yes" ELSE "no"
    OBVIOUS
  <1>5. PICK k : k = IF /\ prior /\ x # "binding" /\ j.result # "cancelled"
                        /\ s = "failed" /\ j.conv = "yes" /\ j.attempt < MaxCycles
                        /\ j.bound = approved \/ j.lineage # 0
                     THEN "yes" ELSE "no"
    OBVIOUS
  <1>6. /\ x \in Failures /\ s \in Terminal /\ q \in Flags /\ v \in Flags /\ k \in Flags
        /\ x \in {"binding", f.failure} /\ (x = "binding" \/ s = f.status) /\ "no" \in Flags
    BY <1>1, <1>2, <1>3, <1>4, <1>5 DEF Controllers, Jobs, Flags, Failures, Terminal
  <1>7. PICK r : r = [j EXCEPT !.status = s, !.failure = x, !.cancel = "no", !.recon = q,
                        !.available = v, !.cont = k]
    OBVIOUS
  <1>8. r \in Jobs
    BY <1>6, <1>7 DEF Jobs
  <1>9. /\ r.attempt = j.attempt /\ r.status = s /\ r.failure = x /\ r.lineage = j.lineage
        /\ r.bound = j.bound
    BY <1>7 DEF Jobs
  <1>10. WithoutReport(j, f) = r
    BY <1>1, <1>2, <1>3, <1>4, <1>5, <1>7 DEF WithoutReport
  <1> QED
    BY <1>6, <1>8, <1>9, <1>10

PublishMove ==
  /\ c.pc = "publish" /\ c' = NoController
  /\ job'.attempt = job.attempt /\ job'.status \in Terminal
  /\ \/ /\ c.report # "none" /\ (job'.lineage # 0 => job'.bound = sealed')
        /\ job'.status = c.status /\ job'.failure = c.failure
     \/ /\ job'.lineage = job.lineage /\ job'.bound = job.bound /\ UNCHANGED sealed
        /\ \/ job'.failure = "binding" \/ job'.status = "cancelled"
           \/ job'.status = c.status /\ job'.failure = c.failure
  /\ UNCHANGED <<source, approved, maker, stage, given, made, touches, quiet>>

\* What the publication of an attempt's end does.
LEMMA PublishMoves ==
  ASSUME ControllerOK, JobTyped, Handled, Publish
  PROVE  PublishMove /\ ControllerOK' /\ JobTyped'
  <1>1. c \in Controllers /\ job \in Jobs /\ c.failure # "stage" /\ c.pc = "publish"
    BY DEF ControllerOK, JobTyped, Handled, Publish
  <1>2. PICK f : f = IF job.cancel = "yes" THEN Cancelled ELSE c
    OBVIOUS
  <1>3. Cancelled \in Controllers /\ Cancelled.report = "none" /\ Cancelled.status = "cancelled"
        /\ Cancelled.failure = "none"
    <2>1. "cancelled" \in Terminal /\ "none" \in Failures
      BY DEF Terminal, Failures
    <2> QED
      BY <1>1, <2>1 DEF Cancelled, Controllers
  <1>4. f \in Controllers /\ f.failure # "stage"
        /\ (f = c \/ (f.report = "none" /\ f.status = "cancelled"))
    <2>1. CASE job.cancel = "yes"
      <3>1. f = Cancelled
        BY <1>2, <2>1
      <3> QED
        BY <1>3, <3>1
    <2>2. CASE job.cancel # "yes"
      <3>1. f = c
        BY <1>2, <2>2
      <3> QED
        BY <1>1, <3>1
    <2> QED
      BY <2>1, <2>2
  <1>5. /\ job' = IF f.report # "none" THEN WithReport(job, f) ELSE WithoutReport(job, f)
        /\ c' = NoController
        /\ sealed' = IF f.report # "none" /\ Repairs = "yes" /\ f.derived = "yes"
                     THEN f.seen ELSE sealed
        /\ UNCHANGED <<source, approved, maker, stage, given, made, touches, quiet>>
    BY <1>2 DEF Publish
  <1>6. f.status \in Terminal
    BY <1>4 DEF Controllers
  <1>7. CASE f.report # "none"
    <2>1. f = c /\ job' = WithReport(job, c)
      BY <1>4, <1>5, <1>7
    <2>2. /\ job' \in Jobs /\ job'.attempt = job.attempt /\ job'.status = c.status
          /\ job'.failure = c.failure
          /\ job'.lineage # 0 =>
               Repairs = "yes" /\ c.derived = "yes" /\ job'.bound = c.seen
      BY <1>1, <1>7, <2>1, WithReportFields
    <2>3. job'.lineage # 0 => job'.bound = sealed'
      BY <1>5, <1>7, <2>1, <2>2
    <2> QED
      BY <1>1, <1>5, <1>6, <1>7, <2>1, <2>2, <2>3, NoControllerType
         DEF PublishMove, ControllerOK, JobTyped
  <1>8. CASE f.report = "none"
    <2>1. job' = WithoutReport(job, f) /\ UNCHANGED sealed
      BY <1>5, <1>8
    <2>2. /\ job' \in Jobs /\ job'.attempt = job.attempt /\ job'.lineage = job.lineage
          /\ job'.bound = job.bound /\ job'.status \in Terminal
          /\ job'.failure \in {"binding", f.failure}
          /\ job'.failure = "binding" \/ job'.status = f.status
      BY <1>1, <1>4, <2>1, WithoutReportFields
    <2> QED
      BY <1>1, <1>4, <1>5, <2>1, <2>2, NoControllerType DEF PublishMove, ControllerOK, JobTyped
  <1> QED
    BY <1>7, <1>8

-----------------------------------------------------------------------------
\* The worktree stays of its type.
LEMMA SourceTypes ==
  ASSUME SourceOK, ControllerOK, StageOK, [Next]_vars
  PROVE  SourceOK'
<1>1. ASSUME NEW q \in Paths, NEW b \in Bodies \cup {Absent}, Edit(q, b) PROVE SourceOK'
  BY <1>1 DEF Edit, SourceOK, Trees
<1>2. ASSUME Meddle PROVE SourceOK'
  BY <1>2 DEF Meddle, SourceOK, Trees
<1>3. ASSUME BeginInitial PROVE SourceOK'
  BY <1>3 DEF BeginInitial, SourceOK, Trees
<1>4. ASSUME NEW o \in Origins, Begin(o) PROVE SourceOK'
  BY <1>4 DEF Begin, SourceOK, Trees
<1>5. ASSUME TakeBaseline PROVE SourceOK'
  BY <1>5 DEF TakeBaseline, SourceOK, Trees
<1>6. ASSUME Record PROVE SourceOK'
  BY <1>6 DEF Record, SourceOK, Trees
<1>7. ASSUME RefuseRecord PROVE SourceOK'
  BY <1>7 DEF RefuseRecord, SourceOK, Trees
<1>8. ASSUME Cancel PROVE SourceOK'
  BY <1>8 DEF Cancel, SourceOK, Trees
<1>9. ASSUME Claim PROVE SourceOK'
  BY <1>9 DEF Claim, SideEnd, SourceOK, Trees
<1>10. ASSUME CheckBaseline PROVE SourceOK'
  BY <1>10 DEF CheckBaseline, Goes, SourceOK, Trees
<1>11. ASSUME ScanScope PROVE SourceOK'
  BY <1>11 DEF ScanScope, SourceOK, Trees
<1>12. ASSUME TakeNarrow PROVE SourceOK'
  BY <1>12 DEF TakeNarrow, SourceOK, Trees
<1>13. ASSUME MakeStage PROVE SourceOK'
  BY <1>13 DEF MakeStage, SourceOK, Trees
<1>14. ASSUME NEW q \in Read, CopyFile(q) PROVE SourceOK'
  BY <1>14 DEF CopyFile, GivesUp, SourceOK, Trees
<1>15. ASSUME Rescan PROVE SourceOK'
  BY <1>15 DEF Rescan, GivesUp, SourceOK, Trees
<1>16. ASSUME GiveUpStage PROVE SourceOK'
  BY <1>16 DEF GiveUpStage, SourceOK, Trees
<1>17. ASSUME AbandonStage PROVE SourceOK'
  BY <1>17 DEF AbandonStage, SourceOK, Trees
<1>18. ASSUME Launch PROVE SourceOK'
  BY <1>18 DEF Launch, SourceOK, Trees
<1>19. ASSUME NEW q \in Paths, NEW b \in Bodies \cup {Absent, Link}, ProviderWrites(q, b)
       PROVE SourceOK'
  BY <1>19 DEF ProviderWrites, SourceOK, Trees
<1>20. ASSUME NEW r \in Reports \cup {"none"}, NEW s \in Terminal, NEW d \in {"exact", "wrong"},
            ProviderEnds(r, s, d) PROVE SourceOK'
  BY <1>20 DEF ProviderEnds, SourceOK, Trees
<1>21. ASSUME CompareNarrow PROVE SourceOK'
  BY <1>21 DEF CompareNarrow, FailStage, SourceOK, Trees
<1>22. ASSUME ScanMutations PROVE SourceOK'
  BY <1>22 DEF ScanMutations, FailStage, SourceOK, Trees
<1>23. ASSUME Reconcile PROVE SourceOK'
  BY <1>23 DEF Reconcile, FailStage, ControllerOK, Controllers, StageOK, StageTrees,
     SourceOK, Trees
<1>24. ASSUME MatchStage PROVE SourceOK'
  BY <1>24 DEF MatchStage, FailStage, SourceOK, Trees
<1>25. ASSUME CleanStage PROVE SourceOK'
  BY <1>25 DEF CleanStage, SourceOK, Trees
<1>26. ASSUME RemoveStage PROVE SourceOK'
  BY <1>26 DEF RemoveStage, SourceOK, Trees
<1>27. ASSUME ObserveCancel PROVE SourceOK'
  BY <1>27 DEF ObserveCancel, Cancelled, SourceOK, Trees
<1>28. ASSUME TakeCandidate PROVE SourceOK'
  BY <1>28 DEF TakeCandidate, SourceOK, Trees
<1>29. ASSUME Derive PROVE SourceOK'
  BY <1>29 DEF Derive, SourceOK, Trees
<1>30. ASSUME Publish PROVE SourceOK'
  BY <1>30 DEF Publish, Cancelled, SourceOK, Trees
<1>31. ASSUME Kill PROVE SourceOK'
  BY <1>31 DEF Kill, SourceOK, Trees
<1>32. ASSUME Break PROVE SourceOK'
  BY <1>32 DEF Break, SideEnd, SourceOK, Trees
<1>33. CASE UNCHANGED vars
  BY <1>33 DEF vars, SourceOK, Trees
<1> QED
  BY <1>1, <1>2, <1>3, <1>4, <1>5, <1>6, <1>7, <1>8, <1>9, <1>10, <1>11, <1>12, <1>13,
     <1>14, <1>15, <1>16, <1>17, <1>18, <1>19, <1>20, <1>21, <1>22, <1>23, <1>24, <1>25,
     <1>26, <1>27, <1>28, <1>29, <1>30, <1>31, <1>32, <1>33 DEF Next

\* The counters stay within their bounds.
LEMMA CountTypes ==
  ASSUME CountOK, [Next]_vars
  PROVE  CountOK'
<1>1. ASSUME NEW q \in Paths, NEW b \in Bodies \cup {Absent}, Edit(q, b) PROVE CountOK'
  BY <1>1, BoundsAssumption DEF Edit, CountOK, Flags
<1>2. ASSUME Meddle PROVE CountOK'
  BY <1>2, BoundsAssumption DEF Meddle, CountOK, Flags
<1>3. ASSUME BeginInitial PROVE CountOK'
  BY <1>3, BoundsAssumption DEF BeginInitial, CountOK, Flags
<1>4. ASSUME NEW o \in Origins, Begin(o) PROVE CountOK'
  BY <1>4, BoundsAssumption DEF Begin, CountOK, Flags
<1>5. ASSUME TakeBaseline PROVE CountOK'
  BY <1>5, BoundsAssumption DEF TakeBaseline, CountOK, Flags
<1>6. ASSUME Record PROVE CountOK'
  BY <1>6, BoundsAssumption DEF Record, CountOK, Flags
<1>7. ASSUME RefuseRecord PROVE CountOK'
  BY <1>7, BoundsAssumption DEF RefuseRecord, CountOK, Flags
<1>8. ASSUME Cancel PROVE CountOK'
  BY <1>8, BoundsAssumption DEF Cancel, CountOK, Flags
<1>9. ASSUME Claim PROVE CountOK'
  BY <1>9, BoundsAssumption DEF Claim, SideEnd, CountOK, Flags
<1>10. ASSUME CheckBaseline PROVE CountOK'
  BY <1>10, BoundsAssumption DEF CheckBaseline, Goes, CountOK, Flags
<1>11. ASSUME ScanScope PROVE CountOK'
  BY <1>11, BoundsAssumption DEF ScanScope, CountOK, Flags
<1>12. ASSUME TakeNarrow PROVE CountOK'
  BY <1>12, BoundsAssumption DEF TakeNarrow, CountOK, Flags
<1>13. ASSUME MakeStage PROVE CountOK'
  BY <1>13, BoundsAssumption DEF MakeStage, CountOK, Flags
<1>14. ASSUME NEW q \in Read, CopyFile(q) PROVE CountOK'
  BY <1>14, BoundsAssumption DEF CopyFile, GivesUp, CountOK, Flags
<1>15. ASSUME Rescan PROVE CountOK'
  BY <1>15, BoundsAssumption DEF Rescan, GivesUp, CountOK, Flags
<1>16. ASSUME GiveUpStage PROVE CountOK'
  BY <1>16, BoundsAssumption DEF GiveUpStage, CountOK, Flags
<1>17. ASSUME AbandonStage PROVE CountOK'
  BY <1>17, BoundsAssumption DEF AbandonStage, CountOK, Flags
<1>18. ASSUME Launch PROVE CountOK'
  BY <1>18, BoundsAssumption DEF Launch, CountOK, Flags
<1>19. ASSUME NEW q \in Paths, NEW b \in Bodies \cup {Absent, Link}, ProviderWrites(q, b)
       PROVE CountOK'
  BY <1>19, BoundsAssumption DEF ProviderWrites, CountOK, Flags
<1>20. ASSUME NEW r \in Reports \cup {"none"}, NEW s \in Terminal, NEW d \in {"exact", "wrong"},
            ProviderEnds(r, s, d) PROVE CountOK'
  BY <1>20, BoundsAssumption DEF ProviderEnds, CountOK, Flags
<1>21. ASSUME CompareNarrow PROVE CountOK'
  BY <1>21, BoundsAssumption DEF CompareNarrow, FailStage, CountOK, Flags
<1>22. ASSUME ScanMutations PROVE CountOK'
  BY <1>22, BoundsAssumption DEF ScanMutations, FailStage, CountOK, Flags
<1>23. ASSUME Reconcile PROVE CountOK'
  BY <1>23, BoundsAssumption DEF Reconcile, FailStage, CountOK, Flags
<1>24. ASSUME MatchStage PROVE CountOK'
  BY <1>24, BoundsAssumption DEF MatchStage, FailStage, CountOK, Flags
<1>25. ASSUME CleanStage PROVE CountOK'
  BY <1>25, BoundsAssumption DEF CleanStage, CountOK, Flags
<1>26. ASSUME RemoveStage PROVE CountOK'
  BY <1>26, BoundsAssumption DEF RemoveStage, CountOK, Flags
<1>27. ASSUME ObserveCancel PROVE CountOK'
  BY <1>27, BoundsAssumption DEF ObserveCancel, Cancelled, CountOK, Flags
<1>28. ASSUME TakeCandidate PROVE CountOK'
  BY <1>28, BoundsAssumption DEF TakeCandidate, CountOK, Flags
<1>29. ASSUME Derive PROVE CountOK'
  BY <1>29, BoundsAssumption DEF Derive, CountOK, Flags
<1>30. ASSUME Publish PROVE CountOK'
  BY <1>30, BoundsAssumption DEF Publish, Cancelled, CountOK, Flags
<1>31. ASSUME Kill PROVE CountOK'
  BY <1>31, BoundsAssumption DEF Kill, CountOK, Flags
<1>32. ASSUME Break PROVE CountOK'
  BY <1>32, BoundsAssumption DEF Break, SideEnd, CountOK, Flags
<1>33. CASE UNCHANGED vars
  BY <1>33 DEF vars, CountOK, Flags
<1> QED
  BY <1>1, <1>2, <1>3, <1>4, <1>5, <1>6, <1>7, <1>8, <1>9, <1>10, <1>11, <1>12, <1>13,
     <1>14, <1>15, <1>16, <1>17, <1>18, <1>19, <1>20, <1>21, <1>22, <1>23, <1>24, <1>25,
     <1>26, <1>27, <1>28, <1>29, <1>30, <1>31, <1>32, <1>33 DEF Next

\* The command that creates an attempt stays of its type.
LEMMA MakerTypes ==
  ASSUME MakerOK, SourceOK, [Next]_vars
  PROVE  MakerOK'
<1>1. ASSUME NEW q \in Paths, NEW b \in Bodies \cup {Absent}, Edit(q, b) PROVE MakerOK'
  BY <1>1, TreeTypes DEF Edit, MakerOK, NoMaker, Origins
<1>2. ASSUME Meddle PROVE MakerOK'
  BY <1>2, TreeTypes DEF Meddle, MakerOK, NoMaker, Origins
<1>3. ASSUME BeginInitial PROVE MakerOK'
  BY <1>3, TreeTypes DEF BeginInitial, MakerOK, NoMaker, Origins
<1>4. ASSUME NEW o \in Origins, Begin(o) PROVE MakerOK'
  BY <1>4, TreeTypes DEF Begin, MakerOK, NoMaker, Origins
<1>5. ASSUME TakeBaseline PROVE MakerOK'
  BY <1>5, TreeTypes DEF TakeBaseline, SourceOK, MakerOK, NoMaker, Origins
<1>6. ASSUME Record PROVE MakerOK'
  BY <1>6, TreeTypes DEF Record, MakerOK, NoMaker, Origins
<1>7. ASSUME RefuseRecord PROVE MakerOK'
  BY <1>7, TreeTypes DEF RefuseRecord, MakerOK, NoMaker, Origins
<1>8. ASSUME Cancel PROVE MakerOK'
  BY <1>8, TreeTypes DEF Cancel, MakerOK, NoMaker, Origins
<1>9. ASSUME Claim PROVE MakerOK'
  BY <1>9, TreeTypes DEF Claim, SideEnd, MakerOK, NoMaker, Origins
<1>10. ASSUME CheckBaseline PROVE MakerOK'
  BY <1>10, TreeTypes DEF CheckBaseline, Goes, MakerOK, NoMaker, Origins
<1>11. ASSUME ScanScope PROVE MakerOK'
  BY <1>11, TreeTypes DEF ScanScope, MakerOK, NoMaker, Origins
<1>12. ASSUME TakeNarrow PROVE MakerOK'
  BY <1>12, TreeTypes DEF TakeNarrow, MakerOK, NoMaker, Origins
<1>13. ASSUME MakeStage PROVE MakerOK'
  BY <1>13, TreeTypes DEF MakeStage, MakerOK, NoMaker, Origins
<1>14. ASSUME NEW q \in Read, CopyFile(q) PROVE MakerOK'
  BY <1>14, TreeTypes DEF CopyFile, GivesUp, MakerOK, NoMaker, Origins
<1>15. ASSUME Rescan PROVE MakerOK'
  BY <1>15, TreeTypes DEF Rescan, GivesUp, MakerOK, NoMaker, Origins
<1>16. ASSUME GiveUpStage PROVE MakerOK'
  BY <1>16, TreeTypes DEF GiveUpStage, MakerOK, NoMaker, Origins
<1>17. ASSUME AbandonStage PROVE MakerOK'
  BY <1>17, TreeTypes DEF AbandonStage, MakerOK, NoMaker, Origins
<1>18. ASSUME Launch PROVE MakerOK'
  BY <1>18, TreeTypes DEF Launch, MakerOK, NoMaker, Origins
<1>19. ASSUME NEW q \in Paths, NEW b \in Bodies \cup {Absent, Link}, ProviderWrites(q, b)
       PROVE MakerOK'
  BY <1>19, TreeTypes DEF ProviderWrites, MakerOK, NoMaker, Origins
<1>20. ASSUME NEW r \in Reports \cup {"none"}, NEW s \in Terminal, NEW d \in {"exact", "wrong"},
            ProviderEnds(r, s, d) PROVE MakerOK'
  BY <1>20, TreeTypes DEF ProviderEnds, MakerOK, NoMaker, Origins
<1>21. ASSUME CompareNarrow PROVE MakerOK'
  BY <1>21, TreeTypes DEF CompareNarrow, FailStage, MakerOK, NoMaker, Origins
<1>22. ASSUME ScanMutations PROVE MakerOK'
  BY <1>22, TreeTypes DEF ScanMutations, FailStage, MakerOK, NoMaker, Origins
<1>23. ASSUME Reconcile PROVE MakerOK'
  BY <1>23, TreeTypes DEF Reconcile, FailStage, MakerOK, NoMaker, Origins
<1>24. ASSUME MatchStage PROVE MakerOK'
  BY <1>24, TreeTypes DEF MatchStage, FailStage, MakerOK, NoMaker, Origins
<1>25. ASSUME CleanStage PROVE MakerOK'
  BY <1>25, TreeTypes DEF CleanStage, MakerOK, NoMaker, Origins
<1>26. ASSUME RemoveStage PROVE MakerOK'
  BY <1>26, TreeTypes DEF RemoveStage, MakerOK, NoMaker, Origins
<1>27. ASSUME ObserveCancel PROVE MakerOK'
  BY <1>27, TreeTypes DEF ObserveCancel, Cancelled, MakerOK, NoMaker, Origins
<1>28. ASSUME TakeCandidate PROVE MakerOK'
  BY <1>28, TreeTypes DEF TakeCandidate, MakerOK, NoMaker, Origins
<1>29. ASSUME Derive PROVE MakerOK'
  BY <1>29, TreeTypes DEF Derive, MakerOK, NoMaker, Origins
<1>30. ASSUME Publish PROVE MakerOK'
  BY <1>30, TreeTypes DEF Publish, Cancelled, MakerOK, NoMaker, Origins
<1>31. ASSUME Kill PROVE MakerOK'
  BY <1>31, TreeTypes DEF Kill, MakerOK, NoMaker, Origins
<1>32. ASSUME Break PROVE MakerOK'
  BY <1>32, TreeTypes DEF Break, SideEnd, MakerOK, NoMaker, Origins
<1>33. CASE UNCHANGED vars
  BY <1>33 DEF vars, MakerOK, NoMaker, Origins
<1> QED
  BY <1>1, <1>2, <1>3, <1>4, <1>5, <1>6, <1>7, <1>8, <1>9, <1>10, <1>11, <1>12, <1>13,
     <1>14, <1>15, <1>16, <1>17, <1>18, <1>19, <1>20, <1>21, <1>22, <1>23, <1>24, <1>25,
     <1>26, <1>27, <1>28, <1>29, <1>30, <1>31, <1>32, <1>33 DEF Next

\* The stage stays of its type.
LEMMA StageTypes ==
  ASSUME StageOK, ControllerOK, [Next]_vars
  PROVE  StageOK'
<1>1. ASSUME NEW q \in Paths, NEW b \in Bodies \cup {Absent}, Edit(q, b) PROVE StageOK'
  BY <1>1, BodiesAssumption DEF Edit, StageOK, NoStage, Empty, StageTrees
<1>2. ASSUME Meddle PROVE StageOK'
  BY <1>2, BodiesAssumption DEF Meddle, StageOK, NoStage, NoTree, Empty, StageTrees
<1>3. ASSUME BeginInitial PROVE StageOK'
  BY <1>3, BodiesAssumption DEF BeginInitial, StageOK, NoStage, Empty, StageTrees
<1>4. ASSUME NEW o \in Origins, Begin(o) PROVE StageOK'
  BY <1>4, BodiesAssumption DEF Begin, StageOK, NoStage, Empty, StageTrees
<1>5. ASSUME TakeBaseline PROVE StageOK'
  BY <1>5, BodiesAssumption DEF TakeBaseline, StageOK, NoStage, Empty, StageTrees
<1>6. ASSUME Record PROVE StageOK'
  BY <1>6, BodiesAssumption DEF Record, StageOK, NoStage, Empty, StageTrees
<1>7. ASSUME RefuseRecord PROVE StageOK'
  BY <1>7, BodiesAssumption DEF RefuseRecord, StageOK, NoStage, Empty, StageTrees
<1>8. ASSUME Cancel PROVE StageOK'
  BY <1>8, BodiesAssumption DEF Cancel, StageOK, NoStage, Empty, StageTrees
<1>9. ASSUME Claim PROVE StageOK'
  BY <1>9, BodiesAssumption DEF Claim, SideEnd, StageOK, NoStage, Empty, StageTrees
<1>10. ASSUME CheckBaseline PROVE StageOK'
  BY <1>10, BodiesAssumption DEF CheckBaseline, Goes, StageOK, NoStage, Empty, StageTrees
<1>11. ASSUME ScanScope PROVE StageOK'
  BY <1>11, BodiesAssumption DEF ScanScope, StageOK, NoStage, Empty, StageTrees
<1>12. ASSUME TakeNarrow PROVE StageOK'
  BY <1>12, BodiesAssumption DEF TakeNarrow, StageOK, NoStage, Empty, StageTrees
<1>13. ASSUME MakeStage PROVE StageOK'
  BY <1>13, BodiesAssumption DEF MakeStage, StageOK, NoStage, Empty, StageTrees
<1>14. ASSUME NEW q \in Read, CopyFile(q) PROVE StageOK'
  BY <1>14, BodiesAssumption DEF CopyFile, GivesUp, ControllerOK, Controllers,
     Contents, Paths, StageOK, NoStage, Empty, StageTrees
<1>15. ASSUME Rescan PROVE StageOK'
  BY <1>15, BodiesAssumption DEF Rescan, GivesUp, StageOK, NoStage, Empty, StageTrees
<1>16. ASSUME GiveUpStage PROVE StageOK'
  BY <1>16, BodiesAssumption DEF GiveUpStage, Emptied, StageOK, NoStage, Empty, StageTrees
<1>17. ASSUME AbandonStage PROVE StageOK'
  BY <1>17, BodiesAssumption DEF AbandonStage, RemovedAtPath, StageOK, NoStage, Empty, StageTrees
<1>18. ASSUME Launch PROVE StageOK'
  BY <1>18, BodiesAssumption DEF Launch, StageOK, NoStage, Empty, StageTrees
<1>19. ASSUME NEW q \in Paths, NEW b \in Bodies \cup {Absent, Link}, ProviderWrites(q, b)
       PROVE StageOK'
  BY <1>19, BodiesAssumption DEF ProviderWrites, StageOK, NoStage, Empty, StageTrees
<1>20. ASSUME NEW r \in Reports \cup {"none"}, NEW s \in Terminal, NEW d \in {"exact", "wrong"},
            ProviderEnds(r, s, d) PROVE StageOK'
  BY <1>20, BodiesAssumption DEF ProviderEnds, StageOK, NoStage, Empty, StageTrees
<1>21. ASSUME CompareNarrow PROVE StageOK'
  BY <1>21, BodiesAssumption DEF CompareNarrow, FailStage, StageOK, NoStage, Empty,
     StageTrees
<1>22. ASSUME ScanMutations PROVE StageOK'
  BY <1>22, BodiesAssumption DEF ScanMutations, FailStage, StageOK, NoStage, Empty,
     StageTrees
<1>23. ASSUME Reconcile PROVE StageOK'
  BY <1>23, BodiesAssumption DEF Reconcile, FailStage, StageOK, NoStage, Empty, StageTrees
<1>24. ASSUME MatchStage PROVE StageOK'
  BY <1>24, BodiesAssumption DEF MatchStage, FailStage, StageOK, NoStage, Empty,
     StageTrees
<1>25. ASSUME CleanStage PROVE StageOK'
  BY <1>25, BodiesAssumption DEF CleanStage, Emptied, StageOK, NoStage, Empty, StageTrees
<1>26. ASSUME RemoveStage PROVE StageOK'
  BY <1>26, BodiesAssumption DEF RemoveStage, RemovedAtPath, StageOK, NoStage, Empty, StageTrees
<1>27. ASSUME ObserveCancel PROVE StageOK'
  BY <1>27, BodiesAssumption DEF ObserveCancel, Cancelled, StageOK, NoStage, Empty,
     StageTrees
<1>28. ASSUME TakeCandidate PROVE StageOK'
  BY <1>28, BodiesAssumption DEF TakeCandidate, StageOK, NoStage, Empty, StageTrees
<1>29. ASSUME Derive PROVE StageOK'
  BY <1>29, BodiesAssumption DEF Derive, StageOK, NoStage, Empty, StageTrees
<1>30. ASSUME Publish PROVE StageOK'
  BY <1>30, BodiesAssumption DEF Publish, Cancelled, StageOK, NoStage, Empty, StageTrees
<1>31. ASSUME Kill PROVE StageOK'
  BY <1>31, BodiesAssumption DEF Kill, StageOK, NoStage, Empty, StageTrees
<1>32. ASSUME Break PROVE StageOK'
  BY <1>32, BodiesAssumption DEF Break, SideEnd, StageOK, NoStage, Empty, StageTrees
<1>33. CASE UNCHANGED vars
  BY <1>33 DEF vars, StageOK, NoStage, Empty, StageTrees
<1> QED
  BY <1>1, <1>2, <1>3, <1>4, <1>5, <1>6, <1>7, <1>8, <1>9, <1>10, <1>11, <1>12, <1>13,
     <1>14, <1>15, <1>16, <1>17, <1>18, <1>19, <1>20, <1>21, <1>22, <1>23, <1>24, <1>25,
     <1>26, <1>27, <1>28, <1>29, <1>30, <1>31, <1>32, <1>33 DEF Next

\* The history stays of its type.
LEMMA HistoryTypes ==
  ASSUME HistoryOK, StageOK, ControllerOK, [Next]_vars
  PROVE  HistoryOK'
<1>1. ASSUME NEW q \in Paths, NEW b \in Bodies \cup {Absent}, Edit(q, b) PROVE HistoryOK'
  BY <1>1 DEF Edit, HistoryOK
<1>2. ASSUME Meddle PROVE HistoryOK'
  BY <1>2 DEF Meddle, HistoryOK
<1>3. ASSUME BeginInitial PROVE HistoryOK'
  BY <1>3 DEF BeginInitial, HistoryOK
<1>4. ASSUME NEW o \in Origins, Begin(o) PROVE HistoryOK'
  BY <1>4 DEF Begin, HistoryOK
<1>5. ASSUME TakeBaseline PROVE HistoryOK'
  BY <1>5 DEF TakeBaseline, HistoryOK
<1>6. ASSUME Record PROVE HistoryOK'
  BY <1>6 DEF Record, HistoryOK
<1>7. ASSUME RefuseRecord PROVE HistoryOK'
  BY <1>7 DEF RefuseRecord, HistoryOK
<1>8. ASSUME Cancel PROVE HistoryOK'
  BY <1>8 DEF Cancel, HistoryOK
<1>9. ASSUME Claim PROVE HistoryOK'
  BY <1>9 DEF Claim, SideEnd, HistoryOK
<1>10. ASSUME CheckBaseline PROVE HistoryOK'
  BY <1>10 DEF CheckBaseline, Goes, HistoryOK
<1>11. ASSUME ScanScope PROVE HistoryOK'
  BY <1>11 DEF ScanScope, HistoryOK
<1>12. ASSUME TakeNarrow PROVE HistoryOK'
  BY <1>12 DEF TakeNarrow, HistoryOK
<1>13. ASSUME MakeStage PROVE HistoryOK'
  BY <1>13 DEF MakeStage, HistoryOK
<1>14. ASSUME NEW q \in Read, CopyFile(q) PROVE HistoryOK'
  BY <1>14 DEF CopyFile, GivesUp, HistoryOK
<1>15. ASSUME Rescan PROVE HistoryOK'
  BY <1>15 DEF Rescan, GivesUp, HistoryOK
<1>16. ASSUME GiveUpStage PROVE HistoryOK'
  BY <1>16 DEF GiveUpStage, HistoryOK
<1>17. ASSUME AbandonStage PROVE HistoryOK'
  BY <1>17 DEF AbandonStage, HistoryOK
<1>18. ASSUME Launch PROVE HistoryOK'
  BY <1>18 DEF Launch, StageOK, HistoryOK
<1>19. ASSUME NEW q \in Paths, NEW b \in Bodies \cup {Absent, Link}, ProviderWrites(q, b)
       PROVE HistoryOK'
  BY <1>19 DEF ProviderWrites, HistoryOK
<1>20. ASSUME NEW r \in Reports \cup {"none"}, NEW s \in Terminal, NEW d \in {"exact", "wrong"},
            ProviderEnds(r, s, d) PROVE HistoryOK'
  BY <1>20 DEF ProviderEnds, HistoryOK
<1>21. ASSUME CompareNarrow PROVE HistoryOK'
  BY <1>21 DEF CompareNarrow, FailStage, HistoryOK
<1>22. ASSUME ScanMutations PROVE HistoryOK'
  BY <1>22 DEF ScanMutations, FailStage, HistoryOK
<1>23. ASSUME Reconcile PROVE HistoryOK'
  BY <1>23 DEF Reconcile, FailStage, HistoryOK
<1>24. ASSUME MatchStage PROVE HistoryOK'
  BY <1>24 DEF MatchStage, FailStage, StageOK, Selected, StageTrees, Paths, HistoryOK
<1>25. ASSUME CleanStage PROVE HistoryOK'
  BY <1>25 DEF CleanStage, HistoryOK
<1>26. ASSUME RemoveStage PROVE HistoryOK'
  BY <1>26 DEF RemoveStage, HistoryOK
<1>27. ASSUME ObserveCancel PROVE HistoryOK'
  BY <1>27 DEF ObserveCancel, Cancelled, HistoryOK
<1>28. ASSUME TakeCandidate PROVE HistoryOK'
  BY <1>28 DEF TakeCandidate, HistoryOK
<1>29. ASSUME Derive PROVE HistoryOK'
  BY <1>29 DEF Derive, HistoryOK
<1>30. ASSUME Publish PROVE HistoryOK'
  BY <1>30 DEF Publish, Cancelled, ControllerOK, Controllers, HistoryOK
<1>31. ASSUME Kill PROVE HistoryOK'
  BY <1>31 DEF Kill, HistoryOK
<1>32. ASSUME Break PROVE HistoryOK'
  BY <1>32 DEF Break, SideEnd, HistoryOK
<1>33. CASE UNCHANGED vars
  BY <1>33 DEF vars, HistoryOK
<1> QED
  BY <1>1, <1>2, <1>3, <1>4, <1>5, <1>6, <1>7, <1>8, <1>9, <1>10, <1>11, <1>12, <1>13,
     <1>14, <1>15, <1>16, <1>17, <1>18, <1>19, <1>20, <1>21, <1>22, <1>23, <1>24, <1>25,
     <1>26, <1>27, <1>28, <1>29, <1>30, <1>31, <1>32, <1>33 DEF Next

\* What a controller knows stays of its type.
LEMMA ControllerTypes ==
  ASSUME ControllerOK, SourceOK, JobTyped, MakerOK, StageOK, Handled, Counted, [Next]_vars
  PROVE  ControllerOK'
<1>1. ASSUME NEW q \in Paths, NEW b \in Bodies \cup {Absent}, Edit(q, b) PROVE ControllerOK'
  BY <1>1 DEF Edit, ControllerOK
<1>2. ASSUME Meddle PROVE ControllerOK'
  BY <1>2 DEF Meddle, ControllerOK
<1>3. ASSUME BeginInitial PROVE ControllerOK'
  BY <1>3 DEF BeginInitial, ControllerOK
<1>4. ASSUME NEW o \in Origins, Begin(o) PROVE ControllerOK'
  BY <1>4 DEF Begin, ControllerOK
<1>5. ASSUME TakeBaseline PROVE ControllerOK'
  BY <1>5 DEF TakeBaseline, ControllerOK
<1>6. ASSUME Record PROVE ControllerOK'
  <2>1. RecordMove
    BY <1>6, RecordMoves
  <2> QED
    BY <2>1 DEF RecordMove, Held, Told, Bears, ControllerOK
<1>7. ASSUME RefuseRecord PROVE ControllerOK'
  BY <1>7 DEF RefuseRecord, ControllerOK
<1>8. ASSUME Cancel PROVE ControllerOK'
  BY <1>8, CancelMoves
<1>9. ASSUME Claim PROVE ControllerOK'
  BY <1>9, ClaimMoves
<1>10. ASSUME CheckBaseline PROVE ControllerOK'
  BY <1>10, CheckBaselineMoves
<1>11. ASSUME ScanScope PROVE ControllerOK'
  BY <1>11, ScanScopeMoves
<1>12. ASSUME TakeNarrow PROVE ControllerOK'
  BY <1>12, TakeNarrowMoves
<1>13. ASSUME MakeStage PROVE ControllerOK'
  BY <1>13, MakeStageMoves
<1>14. ASSUME NEW q \in Read, CopyFile(q) PROVE ControllerOK'
  BY <1>14, CopyFileMoves
<1>15. ASSUME Rescan PROVE ControllerOK'
  BY <1>15, RescanMoves
<1>16. ASSUME GiveUpStage PROVE ControllerOK'
  BY <1>16, GiveUpStageMoves
<1>17. ASSUME AbandonStage PROVE ControllerOK'
  BY <1>17, AbandonStageMoves
<1>18. ASSUME Launch PROVE ControllerOK'
  BY <1>18, LaunchMoves
<1>19. ASSUME NEW q \in Paths, NEW b \in Bodies \cup {Absent, Link}, ProviderWrites(q, b)
       PROVE ControllerOK'
  BY <1>19 DEF ProviderWrites, ControllerOK
<1>20. ASSUME NEW r \in Reports \cup {"none"}, NEW s \in Terminal, NEW d \in {"exact", "wrong"},
            ProviderEnds(r, s, d) PROVE ControllerOK'
  BY <1>20, ProviderEndsMoves
<1>21. ASSUME CompareNarrow PROVE ControllerOK'
  BY <1>21, CompareNarrowMoves
<1>22. ASSUME ScanMutations PROVE ControllerOK'
  BY <1>22, ScanMutationsMoves
<1>23. ASSUME Reconcile PROVE ControllerOK'
  BY <1>23, ReconcileMoves
<1>24. ASSUME MatchStage PROVE ControllerOK'
  BY <1>24, MatchStageMoves
<1>25. ASSUME CleanStage PROVE ControllerOK'
  BY <1>25, CleanStageMoves
<1>26. ASSUME RemoveStage PROVE ControllerOK'
  BY <1>26, RemoveStageMoves
<1>27. ASSUME ObserveCancel PROVE ControllerOK'
  BY <1>27, ObserveCancelMoves
<1>28. ASSUME TakeCandidate PROVE ControllerOK'
  BY <1>28, TakeCandidateMoves
<1>29. ASSUME Derive PROVE ControllerOK'
  BY <1>29, DeriveMoves
<1>30. ASSUME Publish PROVE ControllerOK'
  BY <1>30, PublishMoves
<1>31. ASSUME Kill PROVE ControllerOK'
  BY <1>31, KillMoves
<1>32. ASSUME Break PROVE ControllerOK'
  BY <1>32, BreakMoves
<1>33. CASE UNCHANGED vars
  BY <1>33 DEF vars, ControllerOK
<1> QED
  BY <1>1, <1>2, <1>3, <1>4, <1>5, <1>6, <1>7, <1>8, <1>9, <1>10, <1>11, <1>12, <1>13,
     <1>14, <1>15, <1>16, <1>17, <1>18, <1>19, <1>20, <1>21, <1>22, <1>23, <1>24, <1>25,
     <1>26, <1>27, <1>28, <1>29, <1>30, <1>31, <1>32, <1>33 DEF Next

\* dispatch-state.json stays of its type.
LEMMA JobTypes ==
  ASSUME JobTyped, SourceOK, MakerOK, ControllerOK, StageOK, Handled, Counted, [Next]_vars
  PROVE  JobTyped'
<1>1. ASSUME NEW q \in Paths, NEW b \in Bodies \cup {Absent}, Edit(q, b) PROVE JobTyped'
  BY <1>1 DEF Edit, JobTyped
<1>2. ASSUME Meddle PROVE JobTyped'
  BY <1>2 DEF Meddle, JobTyped
<1>3. ASSUME BeginInitial PROVE JobTyped'
  BY <1>3 DEF BeginInitial, JobTyped
<1>4. ASSUME NEW o \in Origins, Begin(o) PROVE JobTyped'
  BY <1>4 DEF Begin, JobTyped
<1>5. ASSUME TakeBaseline PROVE JobTyped'
  BY <1>5 DEF TakeBaseline, JobTyped
<1>6. ASSUME Record PROVE JobTyped'
  BY <1>6, RecordMoves
<1>7. ASSUME RefuseRecord PROVE JobTyped'
  BY <1>7 DEF RefuseRecord, JobTyped
<1>8. ASSUME Cancel PROVE JobTyped'
  BY <1>8, CancelMoves
<1>9. ASSUME Claim PROVE JobTyped'
  BY <1>9, ClaimMoves
<1>10. ASSUME CheckBaseline PROVE JobTyped'
  <2>1. CheckBaselineMove
    BY <1>10, CheckBaselineMoves
  <2> QED
    BY <2>1 DEF CheckBaselineMove, Held, Told, JobTyped
<1>11. ASSUME ScanScope PROVE JobTyped'
  <2>1. ScanScopeMove
    BY <1>11, ScanScopeMoves
  <2> QED
    BY <2>1 DEF ScanScopeMove, Held, Told, JobTyped
<1>12. ASSUME TakeNarrow PROVE JobTyped'
  <2>1. TakeNarrowMove
    BY <1>12, TakeNarrowMoves
  <2> QED
    BY <2>1 DEF TakeNarrowMove, Held, Told, JobTyped
<1>13. ASSUME MakeStage PROVE JobTyped'
  <2>1. MakeStageMove
    BY <1>13, MakeStageMoves
  <2> QED
    BY <2>1 DEF MakeStageMove, Held, Told, JobTyped
<1>14. ASSUME NEW q \in Read, CopyFile(q) PROVE JobTyped'
  <2>1. CopyFileMove(q)
    BY <1>14, CopyFileMoves
  <2> QED
    BY <2>1 DEF CopyFileMove, Held, Told, JobTyped
<1>15. ASSUME Rescan PROVE JobTyped'
  <2>1. RescanMove
    BY <1>15, RescanMoves
  <2> QED
    BY <2>1 DEF RescanMove, Held, Told, JobTyped
<1>16. ASSUME GiveUpStage PROVE JobTyped'
  <2>1. GiveUpStageMove
    BY <1>16, GiveUpStageMoves
  <2> QED
    BY <2>1 DEF GiveUpStageMove, Held, Told, JobTyped
<1>17. ASSUME AbandonStage PROVE JobTyped'
  <2>1. AbandonStageMove
    BY <1>17, AbandonStageMoves
  <2> QED
    BY <2>1 DEF AbandonStageMove, Held, Told, JobTyped
<1>18. ASSUME Launch PROVE JobTyped'
  BY <1>18, LaunchMoves
<1>19. ASSUME NEW q \in Paths, NEW b \in Bodies \cup {Absent, Link}, ProviderWrites(q, b)
       PROVE JobTyped'
  BY <1>19 DEF ProviderWrites, JobTyped
<1>20. ASSUME NEW r \in Reports \cup {"none"}, NEW s \in Terminal, NEW d \in {"exact", "wrong"},
            ProviderEnds(r, s, d) PROVE JobTyped'
  BY <1>20, ProviderEndsMoves
<1>21. ASSUME CompareNarrow PROVE JobTyped'
  <2>1. CompareNarrowMove
    BY <1>21, CompareNarrowMoves
  <2> QED
    BY <2>1 DEF CompareNarrowMove, Held, Told, JobTyped
<1>22. ASSUME ScanMutations PROVE JobTyped'
  <2>1. ScanMutationsMove
    BY <1>22, ScanMutationsMoves
  <2> QED
    BY <2>1 DEF ScanMutationsMove, Held, Told, JobTyped
<1>23. ASSUME Reconcile PROVE JobTyped'
  <2>1. ReconcileMove
    BY <1>23, ReconcileMoves
  <2> QED
    BY <2>1 DEF ReconcileMove, Held, Told, JobTyped
<1>24. ASSUME MatchStage PROVE JobTyped'
  <2>1. MatchStageMove
    BY <1>24, MatchStageMoves
  <2> QED
    BY <2>1 DEF MatchStageMove, Held, Told, JobTyped
<1>25. ASSUME CleanStage PROVE JobTyped'
  <2>1. CleanStageMove
    BY <1>25, CleanStageMoves
  <2> QED
    BY <2>1 DEF CleanStageMove, Held, Told, JobTyped
<1>26. ASSUME RemoveStage PROVE JobTyped'
  <2>1. RemoveStageMove
    BY <1>26, RemoveStageMoves
  <2> QED
    BY <2>1 DEF RemoveStageMove, Held, Told, JobTyped
<1>27. ASSUME ObserveCancel PROVE JobTyped'
  <2>1. ObserveCancelMove
    BY <1>27, ObserveCancelMoves
  <2> QED
    BY <2>1 DEF ObserveCancelMove, Held, Told, JobTyped
<1>28. ASSUME TakeCandidate PROVE JobTyped'
  <2>1. TakeCandidateMove
    BY <1>28, TakeCandidateMoves
  <2> QED
    BY <2>1 DEF TakeCandidateMove, Held, Told, JobTyped
<1>29. ASSUME Derive PROVE JobTyped'
  <2>1. DeriveMove
    BY <1>29, DeriveMoves
  <2> QED
    BY <2>1 DEF DeriveMove, Held, Told, JobTyped
<1>30. ASSUME Publish PROVE JobTyped'
  BY <1>30, PublishMoves
<1>31. ASSUME Kill PROVE JobTyped'
  BY <1>31, KillMoves
<1>32. ASSUME Break PROVE JobTyped'
  BY <1>32, BreakMoves
<1>33. CASE UNCHANGED vars
  BY <1>33 DEF vars, JobTyped
<1> QED
  BY <1>1, <1>2, <1>3, <1>4, <1>5, <1>6, <1>7, <1>8, <1>9, <1>10, <1>11, <1>12, <1>13,
     <1>14, <1>15, <1>16, <1>17, <1>18, <1>19, <1>20, <1>21, <1>22, <1>23, <1>24, <1>25,
     <1>26, <1>27, <1>28, <1>29, <1>30, <1>31, <1>32, <1>33 DEF Next

\* A failure at the stage is handled by the cleanup.
LEMMA HandledStep ==
  ASSUME Handled, SourceOK, JobTyped, MakerOK, ControllerOK, StageOK, Counted, [Next]_vars
  PROVE  Handled'
<1>1. ASSUME NEW q \in Paths, NEW b \in Bodies \cup {Absent}, Edit(q, b) PROVE Handled'
  BY <1>1 DEF Edit, Handled
<1>2. ASSUME Meddle PROVE Handled'
  BY <1>2 DEF Meddle, Handled
<1>3. ASSUME BeginInitial PROVE Handled'
  BY <1>3 DEF BeginInitial, Handled
<1>4. ASSUME NEW o \in Origins, Begin(o) PROVE Handled'
  BY <1>4 DEF Begin, Handled
<1>5. ASSUME TakeBaseline PROVE Handled'
  BY <1>5 DEF TakeBaseline, Handled
<1>6. ASSUME Record PROVE Handled'
  <2>1. RecordMove
    BY <1>6, RecordMoves
  <2> QED
    BY <2>1 DEF RecordMove, Held, Told, Bears, Handled
<1>7. ASSUME RefuseRecord PROVE Handled'
  BY <1>7 DEF RefuseRecord, Handled
<1>8. ASSUME Cancel PROVE Handled'
  <2>1. CancelMove
    BY <1>8, CancelMoves
  <2> QED
    BY <2>1 DEF CancelMove, Held, Told, Bears, Handled
<1>9. ASSUME Claim PROVE Handled'
  <2>1. ClaimMove
    BY <1>9, ClaimMoves
  <2> QED
    BY <2>1 DEF ClaimMove, Held, Told, Bears, Handled
<1>10. ASSUME CheckBaseline PROVE Handled'
  <2>1. CheckBaselineMove
    BY <1>10, CheckBaselineMoves
  <2> QED
    BY <2>1 DEF CheckBaselineMove, Held, Told, Handled
<1>11. ASSUME ScanScope PROVE Handled'
  <2>1. ScanScopeMove
    BY <1>11, ScanScopeMoves
  <2> QED
    BY <2>1 DEF ScanScopeMove, Held, Told, Handled
<1>12. ASSUME TakeNarrow PROVE Handled'
  <2>1. TakeNarrowMove
    BY <1>12, TakeNarrowMoves
  <2> QED
    BY <2>1 DEF TakeNarrowMove, Held, Told, Handled
<1>13. ASSUME MakeStage PROVE Handled'
  <2>1. MakeStageMove
    BY <1>13, MakeStageMoves
  <2> QED
    BY <2>1 DEF MakeStageMove, Held, Told, Handled
<1>14. ASSUME NEW q \in Read, CopyFile(q) PROVE Handled'
  <2>1. CopyFileMove(q)
    BY <1>14, CopyFileMoves
  <2> QED
    BY <2>1 DEF CopyFileMove, Held, Told, Handled
<1>15. ASSUME Rescan PROVE Handled'
  <2>1. RescanMove
    BY <1>15, RescanMoves
  <2> QED
    BY <2>1 DEF RescanMove, Held, Told, Handled
<1>16. ASSUME GiveUpStage PROVE Handled'
  <2>1. GiveUpStageMove
    BY <1>16, GiveUpStageMoves
  <2> QED
    BY <2>1 DEF GiveUpStageMove, Held, Told, Handled
<1>17. ASSUME AbandonStage PROVE Handled'
  <2>1. AbandonStageMove
    BY <1>17, AbandonStageMoves
  <2> QED
    BY <2>1 DEF AbandonStageMove, Held, Told, Handled
<1>18. ASSUME Launch PROVE Handled'
  <2>1. LaunchMove
    BY <1>18, LaunchMoves
  <2> QED
    BY <2>1 DEF LaunchMove, Held, Told, Bears, Handled
<1>19. ASSUME NEW q \in Paths, NEW b \in Bodies \cup {Absent, Link}, ProviderWrites(q, b)
       PROVE Handled'
  BY <1>19 DEF ProviderWrites, Handled
<1>20. ASSUME NEW r \in Reports \cup {"none"}, NEW s \in Terminal, NEW d \in {"exact", "wrong"},
            ProviderEnds(r, s, d) PROVE Handled'
  <2>1. ProviderEndsMove(r, s, d)
    BY <1>20, ProviderEndsMoves
  <2> QED
    BY <2>1 DEF ProviderEndsMove, Held, Told, Bears, Handled
<1>21. ASSUME CompareNarrow PROVE Handled'
  <2>1. CompareNarrowMove
    BY <1>21, CompareNarrowMoves
  <2> QED
    BY <2>1 DEF CompareNarrowMove, Held, Told, Handled
<1>22. ASSUME ScanMutations PROVE Handled'
  <2>1. ScanMutationsMove
    BY <1>22, ScanMutationsMoves
  <2> QED
    BY <2>1 DEF ScanMutationsMove, Held, Told, Handled
<1>23. ASSUME Reconcile PROVE Handled'
  <2>1. ReconcileMove
    BY <1>23, ReconcileMoves
  <2> QED
    BY <2>1 DEF ReconcileMove, Held, Told, Handled
<1>24. ASSUME MatchStage PROVE Handled'
  <2>1. MatchStageMove
    BY <1>24, MatchStageMoves
  <2> QED
    BY <2>1 DEF MatchStageMove, Held, Told, Handled
<1>25. ASSUME CleanStage PROVE Handled'
  <2>1. CleanStageMove
    BY <1>25, CleanStageMoves
  <2> QED
    BY <2>1 DEF CleanStageMove, Held, Told, Handled
<1>26. ASSUME RemoveStage PROVE Handled'
  <2>1. RemoveStageMove
    BY <1>26, RemoveStageMoves
  <2> QED
    BY <2>1 DEF RemoveStageMove, Held, Told, CleanupFailed, Handled
<1>27. ASSUME ObserveCancel PROVE Handled'
  <2>1. ObserveCancelMove
    BY <1>27, ObserveCancelMoves
  <2> QED
    BY <2>1 DEF ObserveCancelMove, Held, Told, Handled
<1>28. ASSUME TakeCandidate PROVE Handled'
  <2>1. TakeCandidateMove
    BY <1>28, TakeCandidateMoves
  <2> QED
    BY <2>1 DEF TakeCandidateMove, Held, Told, Handled
<1>29. ASSUME Derive PROVE Handled'
  <2>1. DeriveMove
    BY <1>29, DeriveMoves
  <2> QED
    BY <2>1 DEF DeriveMove, Held, Told, Handled
<1>30. ASSUME Publish PROVE Handled'
  <2>1. PublishMove
    BY <1>30, PublishMoves
  <2> QED
    BY <2>1 DEF PublishMove, Held, Told, Bears, NoController, Handled
<1>31. ASSUME Kill PROVE Handled'
  <2>1. KillMove
    BY <1>31, KillMoves
  <2> QED
    BY <2>1 DEF KillMove, Held, Told, Bears, NoController, Handled
<1>32. ASSUME Break PROVE Handled'
  <2>1. BreakMove
    BY <1>32, BreakMoves
  <2> QED
    BY <2>1 DEF BreakMove, Held, Told, Bears, NoController, Handled
<1>33. CASE UNCHANGED vars
  BY <1>33 DEF vars, Handled
<1> QED
  BY <1>1, <1>2, <1>3, <1>4, <1>5, <1>6, <1>7, <1>8, <1>9, <1>10, <1>11, <1>12, <1>13,
     <1>14, <1>15, <1>16, <1>17, <1>18, <1>19, <1>20, <1>21, <1>22, <1>23, <1>24, <1>25,
     <1>26, <1>27, <1>28, <1>29, <1>30, <1>31, <1>32, <1>33 DEF Next

\* An attempt is created only within the bound.
LEMMA CountedStep ==
  ASSUME Counted, SourceOK, JobTyped, MakerOK, ControllerOK, StageOK, Handled, [Next]_vars
  PROVE  Counted'
<1>1. ASSUME NEW q \in Paths, NEW b \in Bodies \cup {Absent}, Edit(q, b) PROVE Counted'
  BY <1>1, BoundsAssumption DEF Edit, Counted
<1>2. ASSUME Meddle PROVE Counted'
  BY <1>2, BoundsAssumption DEF Meddle, Counted
<1>3. ASSUME BeginInitial PROVE Counted'
  BY <1>3, BoundsAssumption DEF BeginInitial, NoMaker, Counted
<1>4. ASSUME NEW o \in Origins, Begin(o) PROVE Counted'
  BY <1>4, BoundsAssumption DEF Begin, RestartEligible, ResumeEligible, ContinueEligible,
     Terminal, Counted
<1>5. ASSUME TakeBaseline PROVE Counted'
  BY <1>5, BoundsAssumption DEF TakeBaseline, MakerOK, Counted
<1>6. ASSUME Record PROVE Counted'
  <2>1. RecordMove
    BY <1>6, RecordMoves
  <2> QED
    BY <2>1, BoundsAssumption DEF RecordMove, Held, Told, Bears, NoMaker, JobTyped, Jobs,
       Counted
<1>7. ASSUME RefuseRecord PROVE Counted'
  BY <1>7, BoundsAssumption DEF RefuseRecord, NoMaker, Counted
<1>8. ASSUME Cancel PROVE Counted'
  <2>1. CancelMove
    BY <1>8, CancelMoves
  <2> QED
    BY <2>1, BoundsAssumption DEF CancelMove, Held, Told, Bears, Counted
<1>9. ASSUME Claim PROVE Counted'
  <2>1. ClaimMove
    BY <1>9, ClaimMoves
  <2> QED
    BY <2>1, BoundsAssumption DEF ClaimMove, Held, Told, Bears, Counted
<1>10. ASSUME CheckBaseline PROVE Counted'
  <2>1. CheckBaselineMove
    BY <1>10, CheckBaselineMoves
  <2> QED
    BY <2>1, BoundsAssumption DEF CheckBaselineMove, Held, Told, Counted
<1>11. ASSUME ScanScope PROVE Counted'
  <2>1. ScanScopeMove
    BY <1>11, ScanScopeMoves
  <2> QED
    BY <2>1, BoundsAssumption DEF ScanScopeMove, Held, Told, Counted
<1>12. ASSUME TakeNarrow PROVE Counted'
  <2>1. TakeNarrowMove
    BY <1>12, TakeNarrowMoves
  <2> QED
    BY <2>1, BoundsAssumption DEF TakeNarrowMove, Held, Told, Counted
<1>13. ASSUME MakeStage PROVE Counted'
  <2>1. MakeStageMove
    BY <1>13, MakeStageMoves
  <2> QED
    BY <2>1, BoundsAssumption DEF MakeStageMove, Held, Told, Counted
<1>14. ASSUME NEW q \in Read, CopyFile(q) PROVE Counted'
  <2>1. CopyFileMove(q)
    BY <1>14, CopyFileMoves
  <2> QED
    BY <2>1, BoundsAssumption DEF CopyFileMove, Held, Told, Counted
<1>15. ASSUME Rescan PROVE Counted'
  <2>1. RescanMove
    BY <1>15, RescanMoves
  <2> QED
    BY <2>1, BoundsAssumption DEF RescanMove, Held, Told, Counted
<1>16. ASSUME GiveUpStage PROVE Counted'
  <2>1. GiveUpStageMove
    BY <1>16, GiveUpStageMoves
  <2> QED
    BY <2>1, BoundsAssumption DEF GiveUpStageMove, Held, Told, Counted
<1>17. ASSUME AbandonStage PROVE Counted'
  <2>1. AbandonStageMove
    BY <1>17, AbandonStageMoves
  <2> QED
    BY <2>1, BoundsAssumption DEF AbandonStageMove, Held, Told, Counted
<1>18. ASSUME Launch PROVE Counted'
  <2>1. LaunchMove
    BY <1>18, LaunchMoves
  <2> QED
    BY <2>1, BoundsAssumption DEF LaunchMove, Held, Told, Bears, Counted
<1>19. ASSUME NEW q \in Paths, NEW b \in Bodies \cup {Absent, Link}, ProviderWrites(q, b)
       PROVE Counted'
  BY <1>19, BoundsAssumption DEF ProviderWrites, Counted
<1>20. ASSUME NEW r \in Reports \cup {"none"}, NEW s \in Terminal, NEW d \in {"exact", "wrong"},
            ProviderEnds(r, s, d) PROVE Counted'
  <2>1. ProviderEndsMove(r, s, d)
    BY <1>20, ProviderEndsMoves
  <2> QED
    BY <2>1, BoundsAssumption DEF ProviderEndsMove, Held, Told, Bears, Counted
<1>21. ASSUME CompareNarrow PROVE Counted'
  <2>1. CompareNarrowMove
    BY <1>21, CompareNarrowMoves
  <2> QED
    BY <2>1, BoundsAssumption DEF CompareNarrowMove, Held, Told, Counted
<1>22. ASSUME ScanMutations PROVE Counted'
  <2>1. ScanMutationsMove
    BY <1>22, ScanMutationsMoves
  <2> QED
    BY <2>1, BoundsAssumption DEF ScanMutationsMove, Held, Told, Counted
<1>23. ASSUME Reconcile PROVE Counted'
  <2>1. ReconcileMove
    BY <1>23, ReconcileMoves
  <2> QED
    BY <2>1, BoundsAssumption DEF ReconcileMove, Held, Told, Counted
<1>24. ASSUME MatchStage PROVE Counted'
  <2>1. MatchStageMove
    BY <1>24, MatchStageMoves
  <2> QED
    BY <2>1, BoundsAssumption DEF MatchStageMove, Held, Told, Counted
<1>25. ASSUME CleanStage PROVE Counted'
  <2>1. CleanStageMove
    BY <1>25, CleanStageMoves
  <2> QED
    BY <2>1, BoundsAssumption DEF CleanStageMove, Held, Told, Counted
<1>26. ASSUME RemoveStage PROVE Counted'
  <2>1. RemoveStageMove
    BY <1>26, RemoveStageMoves
  <2> QED
    BY <2>1, BoundsAssumption DEF RemoveStageMove, Held, Told, Counted
<1>27. ASSUME ObserveCancel PROVE Counted'
  <2>1. ObserveCancelMove
    BY <1>27, ObserveCancelMoves
  <2> QED
    BY <2>1, BoundsAssumption DEF ObserveCancelMove, Held, Told, Counted
<1>28. ASSUME TakeCandidate PROVE Counted'
  <2>1. TakeCandidateMove
    BY <1>28, TakeCandidateMoves
  <2> QED
    BY <2>1, BoundsAssumption DEF TakeCandidateMove, Held, Told, Counted
<1>29. ASSUME Derive PROVE Counted'
  <2>1. DeriveMove
    BY <1>29, DeriveMoves
  <2> QED
    BY <2>1, BoundsAssumption DEF DeriveMove, Held, Told, Counted
<1>30. ASSUME Publish PROVE Counted'
  <2>1. PublishMove
    BY <1>30, PublishMoves
  <2> QED
    BY <2>1, BoundsAssumption DEF PublishMove, Held, Told, Bears, Terminal, Counted
<1>31. ASSUME Kill PROVE Counted'
  <2>1. KillMove
    BY <1>31, KillMoves
  <2> QED
    BY <2>1, BoundsAssumption DEF KillMove, Held, Told, Bears, JobTyped, Jobs, Counted
<1>32. ASSUME Break PROVE Counted'
  <2>1. BreakMove
    BY <1>32, BreakMoves
  <2> QED
    BY <2>1, BoundsAssumption DEF BreakMove, Held, Told, Bears, Counted
<1>33. CASE UNCHANGED vars
  BY <1>33 DEF vars, Counted
<1> QED
  BY <1>1, <1>2, <1>3, <1>4, <1>5, <1>6, <1>7, <1>8, <1>9, <1>10, <1>11, <1>12, <1>13,
     <1>14, <1>15, <1>16, <1>17, <1>18, <1>19, <1>20, <1>21, <1>22, <1>23, <1>24, <1>25,
     <1>26, <1>27, <1>28, <1>29, <1>30, <1>31, <1>32, <1>33 DEF Next

\* Under a repair grant the bound content is the one last recorded.
LEMMA RecordedStep ==
  ASSUME BoundSealed, SourceOK, JobTyped, MakerOK, ControllerOK, StageOK, Handled, Counted,
         [Next]_vars
  PROVE  BoundSealed'
<1>1. ASSUME NEW q \in Paths, NEW b \in Bodies \cup {Absent}, Edit(q, b) PROVE BoundSealed'
  BY <1>1 DEF Edit, BoundSealed
<1>2. ASSUME Meddle PROVE BoundSealed'
  BY <1>2 DEF Meddle, BoundSealed
<1>3. ASSUME BeginInitial PROVE BoundSealed'
  BY <1>3 DEF BeginInitial, BoundSealed
<1>4. ASSUME NEW o \in Origins, Begin(o) PROVE BoundSealed'
  BY <1>4 DEF Begin, BoundSealed
<1>5. ASSUME TakeBaseline PROVE BoundSealed'
  BY <1>5 DEF TakeBaseline, BoundSealed
<1>6. ASSUME Record PROVE BoundSealed'
  <2>1. RecordMove
    BY <1>6, RecordMoves
  <2> QED
    BY <2>1 DEF RecordMove, Held, Told, Bears, ScopeHolds, Covered, Recorded, BoundSealed
<1>7. ASSUME RefuseRecord PROVE BoundSealed'
  BY <1>7 DEF RefuseRecord, BoundSealed
<1>8. ASSUME Cancel PROVE BoundSealed'
  <2>1. CancelMove
    BY <1>8, CancelMoves
  <2> QED
    BY <2>1 DEF CancelMove, Held, Told, Bears, BoundSealed
<1>9. ASSUME Claim PROVE BoundSealed'
  <2>1. ClaimMove
    BY <1>9, ClaimMoves
  <2> QED
    BY <2>1 DEF ClaimMove, Held, Told, Bears, BoundSealed
<1>10. ASSUME CheckBaseline PROVE BoundSealed'
  <2>1. CheckBaselineMove
    BY <1>10, CheckBaselineMoves
  <2> QED
    BY <2>1 DEF CheckBaselineMove, Held, Told, BoundSealed
<1>11. ASSUME ScanScope PROVE BoundSealed'
  <2>1. ScanScopeMove
    BY <1>11, ScanScopeMoves
  <2> QED
    BY <2>1 DEF ScanScopeMove, Held, Told, BoundSealed
<1>12. ASSUME TakeNarrow PROVE BoundSealed'
  <2>1. TakeNarrowMove
    BY <1>12, TakeNarrowMoves
  <2> QED
    BY <2>1 DEF TakeNarrowMove, Held, Told, BoundSealed
<1>13. ASSUME MakeStage PROVE BoundSealed'
  <2>1. MakeStageMove
    BY <1>13, MakeStageMoves
  <2> QED
    BY <2>1 DEF MakeStageMove, Held, Told, BoundSealed
<1>14. ASSUME NEW q \in Read, CopyFile(q) PROVE BoundSealed'
  <2>1. CopyFileMove(q)
    BY <1>14, CopyFileMoves
  <2> QED
    BY <2>1 DEF CopyFileMove, Held, Told, BoundSealed
<1>15. ASSUME Rescan PROVE BoundSealed'
  <2>1. RescanMove
    BY <1>15, RescanMoves
  <2> QED
    BY <2>1 DEF RescanMove, Held, Told, BoundSealed
<1>16. ASSUME GiveUpStage PROVE BoundSealed'
  <2>1. GiveUpStageMove
    BY <1>16, GiveUpStageMoves
  <2> QED
    BY <2>1 DEF GiveUpStageMove, Held, Told, BoundSealed
<1>17. ASSUME AbandonStage PROVE BoundSealed'
  <2>1. AbandonStageMove
    BY <1>17, AbandonStageMoves
  <2> QED
    BY <2>1 DEF AbandonStageMove, Held, Told, BoundSealed
<1>18. ASSUME Launch PROVE BoundSealed'
  <2>1. LaunchMove
    BY <1>18, LaunchMoves
  <2> QED
    BY <2>1 DEF LaunchMove, Held, Told, Bears, BoundSealed
<1>19. ASSUME NEW q \in Paths, NEW b \in Bodies \cup {Absent, Link}, ProviderWrites(q, b)
       PROVE BoundSealed'
  BY <1>19 DEF ProviderWrites, BoundSealed
<1>20. ASSUME NEW r \in Reports \cup {"none"}, NEW s \in Terminal, NEW d \in {"exact", "wrong"},
            ProviderEnds(r, s, d) PROVE BoundSealed'
  <2>1. ProviderEndsMove(r, s, d)
    BY <1>20, ProviderEndsMoves
  <2> QED
    BY <2>1 DEF ProviderEndsMove, Held, Told, Bears, BoundSealed
<1>21. ASSUME CompareNarrow PROVE BoundSealed'
  <2>1. CompareNarrowMove
    BY <1>21, CompareNarrowMoves
  <2> QED
    BY <2>1 DEF CompareNarrowMove, Held, Told, BoundSealed
<1>22. ASSUME ScanMutations PROVE BoundSealed'
  <2>1. ScanMutationsMove
    BY <1>22, ScanMutationsMoves
  <2> QED
    BY <2>1 DEF ScanMutationsMove, Held, Told, BoundSealed
<1>23. ASSUME Reconcile PROVE BoundSealed'
  <2>1. ReconcileMove
    BY <1>23, ReconcileMoves
  <2> QED
    BY <2>1 DEF ReconcileMove, Held, Told, BoundSealed
<1>24. ASSUME MatchStage PROVE BoundSealed'
  <2>1. MatchStageMove
    BY <1>24, MatchStageMoves
  <2> QED
    BY <2>1 DEF MatchStageMove, Held, Told, BoundSealed
<1>25. ASSUME CleanStage PROVE BoundSealed'
  <2>1. CleanStageMove
    BY <1>25, CleanStageMoves
  <2> QED
    BY <2>1 DEF CleanStageMove, Held, Told, BoundSealed
<1>26. ASSUME RemoveStage PROVE BoundSealed'
  <2>1. RemoveStageMove
    BY <1>26, RemoveStageMoves
  <2> QED
    BY <2>1 DEF RemoveStageMove, Held, Told, BoundSealed
<1>27. ASSUME ObserveCancel PROVE BoundSealed'
  <2>1. ObserveCancelMove
    BY <1>27, ObserveCancelMoves
  <2> QED
    BY <2>1 DEF ObserveCancelMove, Held, Told, BoundSealed
<1>28. ASSUME TakeCandidate PROVE BoundSealed'
  <2>1. TakeCandidateMove
    BY <1>28, TakeCandidateMoves
  <2> QED
    BY <2>1 DEF TakeCandidateMove, Held, Told, BoundSealed
<1>29. ASSUME Derive PROVE BoundSealed'
  <2>1. DeriveMove
    BY <1>29, DeriveMoves
  <2> QED
    BY <2>1 DEF DeriveMove, Held, Told, BoundSealed
<1>30. ASSUME Publish PROVE BoundSealed'
  <2>1. PublishMove
    BY <1>30, PublishMoves
  <2> QED
    BY <2>1 DEF PublishMove, Held, Told, Bears, BoundSealed
<1>31. ASSUME Kill PROVE BoundSealed'
  <2>1. KillMove
    BY <1>31, KillMoves
  <2> QED
    BY <2>1 DEF KillMove, Held, Told, Bears, BoundSealed
<1>32. ASSUME Break PROVE BoundSealed'
  <2>1. BreakMove
    BY <1>32, BreakMoves
  <2> QED
    BY <2>1 DEF BreakMove, Held, Told, Bears, BoundSealed
<1>33. CASE UNCHANGED vars
  BY <1>33 DEF vars, BoundSealed
<1> QED
  BY <1>1, <1>2, <1>3, <1>4, <1>5, <1>6, <1>7, <1>8, <1>9, <1>10, <1>11, <1>12, <1>13,
     <1>14, <1>15, <1>16, <1>17, <1>18, <1>19, <1>20, <1>21, <1>22, <1>23, <1>24, <1>25,
     <1>26, <1>27, <1>28, <1>29, <1>30, <1>31, <1>32, <1>33 DEF Next

\* What is copied to the stage was approved or recorded.
LEMMA ManifestStep ==
  ASSUME ManifestOK, BoundSealed, SourceOK, JobTyped, MakerOK, ControllerOK, StageOK,
         Handled, Counted, [Next]_vars
  PROVE  ManifestOK'
<1>1. ASSUME NEW q \in Paths, NEW b \in Bodies \cup {Absent}, Edit(q, b) PROVE ManifestOK'
  BY <1>1 DEF Edit, ManifestOK, CopyPcs
<1>2. ASSUME Meddle PROVE ManifestOK'
  BY <1>2 DEF Meddle, ManifestOK, CopyPcs
<1>3. ASSUME BeginInitial PROVE ManifestOK'
  BY <1>3 DEF BeginInitial, ManifestOK, CopyPcs
<1>4. ASSUME NEW o \in Origins, Begin(o) PROVE ManifestOK'
  BY <1>4 DEF Begin, ManifestOK, CopyPcs
<1>5. ASSUME TakeBaseline PROVE ManifestOK'
  BY <1>5 DEF TakeBaseline, ManifestOK, CopyPcs
<1>6. ASSUME Record PROVE ManifestOK'
  <2>1. RecordMove
    BY <1>6, RecordMoves
  <2> QED
    BY <2>1 DEF RecordMove, Held, Told, Bears, ManifestOK, CopyPcs
<1>7. ASSUME RefuseRecord PROVE ManifestOK'
  BY <1>7 DEF RefuseRecord, ManifestOK, CopyPcs
<1>8. ASSUME Cancel PROVE ManifestOK'
  <2>1. CancelMove
    BY <1>8, CancelMoves
  <2> QED
    BY <2>1 DEF CancelMove, Held, Told, Bears, ManifestOK, CopyPcs
<1>9. ASSUME Claim PROVE ManifestOK'
  <2>1. ClaimMove
    BY <1>9, ClaimMoves
  <2> QED
    BY <2>1 DEF ClaimMove, Held, Told, Bears, ManifestOK, CopyPcs
<1>10. ASSUME CheckBaseline PROVE ManifestOK'
  <2>1. CheckBaselineMove
    BY <1>10, CheckBaselineMoves
  <2> QED
    BY <2>1 DEF CheckBaselineMove, Held, Told, ManifestOK, CopyPcs
<1>11. ASSUME ScanScope PROVE ManifestOK'
  <2>1. ScanScopeMove
    BY <1>11, ScanScopeMoves
  <2> QED
    BY <2>1, TreeTypes DEF ScanScopeMove, Held, Told, Covered, Recorded, Lineage,
       BoundSealed, SourceOK, ManifestOK, CopyPcs
<1>12. ASSUME TakeNarrow PROVE ManifestOK'
  <2>1. TakeNarrowMove
    BY <1>12, TakeNarrowMoves
  <2> QED
    BY <2>1 DEF TakeNarrowMove, Held, Told, ManifestOK, CopyPcs
<1>13. ASSUME MakeStage PROVE ManifestOK'
  <2>1. MakeStageMove
    BY <1>13, MakeStageMoves
  <2> QED
    BY <2>1 DEF MakeStageMove, Held, Told, ManifestOK, CopyPcs
<1>14. ASSUME NEW q \in Read, CopyFile(q) PROVE ManifestOK'
  <2>1. CopyFileMove(q)
    BY <1>14, CopyFileMoves
  <2> QED
    BY <2>1 DEF CopyFileMove, Held, Told, ManifestOK, CopyPcs
<1>15. ASSUME Rescan PROVE ManifestOK'
  <2>1. RescanMove
    BY <1>15, RescanMoves
  <2> QED
    BY <2>1 DEF RescanMove, Held, Told, ManifestOK, CopyPcs
<1>16. ASSUME GiveUpStage PROVE ManifestOK'
  <2>1. GiveUpStageMove
    BY <1>16, GiveUpStageMoves
  <2> QED
    BY <2>1 DEF GiveUpStageMove, Held, Told, ManifestOK, CopyPcs
<1>17. ASSUME AbandonStage PROVE ManifestOK'
  <2>1. AbandonStageMove
    BY <1>17, AbandonStageMoves
  <2> QED
    BY <2>1 DEF AbandonStageMove, Held, Told, ManifestOK, CopyPcs
<1>18. ASSUME Launch PROVE ManifestOK'
  <2>1. LaunchMove
    BY <1>18, LaunchMoves
  <2> QED
    BY <2>1 DEF LaunchMove, Held, Told, Bears, ManifestOK, CopyPcs
<1>19. ASSUME NEW q \in Paths, NEW b \in Bodies \cup {Absent, Link}, ProviderWrites(q, b)
       PROVE ManifestOK'
  BY <1>19 DEF ProviderWrites, ManifestOK, CopyPcs
<1>20. ASSUME NEW r \in Reports \cup {"none"}, NEW s \in Terminal, NEW d \in {"exact", "wrong"},
            ProviderEnds(r, s, d) PROVE ManifestOK'
  <2>1. ProviderEndsMove(r, s, d)
    BY <1>20, ProviderEndsMoves
  <2> QED
    BY <2>1 DEF ProviderEndsMove, Held, Told, Bears, ManifestOK, CopyPcs
<1>21. ASSUME CompareNarrow PROVE ManifestOK'
  <2>1. CompareNarrowMove
    BY <1>21, CompareNarrowMoves
  <2> QED
    BY <2>1 DEF CompareNarrowMove, Held, Told, ManifestOK, CopyPcs
<1>22. ASSUME ScanMutations PROVE ManifestOK'
  <2>1. ScanMutationsMove
    BY <1>22, ScanMutationsMoves
  <2> QED
    BY <2>1 DEF ScanMutationsMove, Held, Told, ManifestOK, CopyPcs
<1>23. ASSUME Reconcile PROVE ManifestOK'
  <2>1. ReconcileMove
    BY <1>23, ReconcileMoves
  <2> QED
    BY <2>1 DEF ReconcileMove, Held, Told, ManifestOK, CopyPcs
<1>24. ASSUME MatchStage PROVE ManifestOK'
  <2>1. MatchStageMove
    BY <1>24, MatchStageMoves
  <2> QED
    BY <2>1 DEF MatchStageMove, Held, Told, ManifestOK, CopyPcs
<1>25. ASSUME CleanStage PROVE ManifestOK'
  <2>1. CleanStageMove
    BY <1>25, CleanStageMoves
  <2> QED
    BY <2>1 DEF CleanStageMove, Held, Told, ManifestOK, CopyPcs
<1>26. ASSUME RemoveStage PROVE ManifestOK'
  <2>1. RemoveStageMove
    BY <1>26, RemoveStageMoves
  <2> QED
    BY <2>1 DEF RemoveStageMove, Held, Told, ManifestOK, CopyPcs
<1>27. ASSUME ObserveCancel PROVE ManifestOK'
  <2>1. ObserveCancelMove
    BY <1>27, ObserveCancelMoves
  <2> QED
    BY <2>1 DEF ObserveCancelMove, Held, Told, ManifestOK, CopyPcs
<1>28. ASSUME TakeCandidate PROVE ManifestOK'
  <2>1. TakeCandidateMove
    BY <1>28, TakeCandidateMoves
  <2> QED
    BY <2>1 DEF TakeCandidateMove, Held, Told, ManifestOK, CopyPcs
<1>29. ASSUME Derive PROVE ManifestOK'
  <2>1. DeriveMove
    BY <1>29, DeriveMoves
  <2> QED
    BY <2>1 DEF DeriveMove, Held, Told, ManifestOK, CopyPcs
<1>30. ASSUME Publish PROVE ManifestOK'
  <2>1. PublishMove
    BY <1>30, PublishMoves
  <2> QED
    BY <2>1 DEF PublishMove, Held, Told, Bears, NoController, ManifestOK, CopyPcs
<1>31. ASSUME Kill PROVE ManifestOK'
  <2>1. KillMove
    BY <1>31, KillMoves
  <2> QED
    BY <2>1 DEF KillMove, Held, Told, Bears, NoController, ManifestOK, CopyPcs
<1>32. ASSUME Break PROVE ManifestOK'
  <2>1. BreakMove
    BY <1>32, BreakMoves
  <2> QED
    BY <2>1 DEF BreakMove, Held, Told, Bears, NoController, ManifestOK, CopyPcs
<1>33. CASE UNCHANGED vars
  BY <1>33 DEF vars, ManifestOK, CopyPcs
<1> QED
  BY <1>1, <1>2, <1>3, <1>4, <1>5, <1>6, <1>7, <1>8, <1>9, <1>10, <1>11, <1>12, <1>13,
     <1>14, <1>15, <1>16, <1>17, <1>18, <1>19, <1>20, <1>21, <1>22, <1>23, <1>24, <1>25,
     <1>26, <1>27, <1>28, <1>29, <1>30, <1>31, <1>32, <1>33 DEF Next

\* What the provider was started on is what was to be copied.
LEMMA GivenStep ==
  ASSUME GivenOK, SourceOK, JobTyped, MakerOK, ControllerOK, StageOK, Handled, Counted,
         [Next]_vars
  PROVE  GivenOK'
<1>1. ASSUME NEW q \in Paths, NEW b \in Bodies \cup {Absent}, Edit(q, b) PROVE GivenOK'
  BY <1>1 DEF Edit, GivenOK
<1>2. ASSUME Meddle PROVE GivenOK'
  BY <1>2 DEF Meddle, GivenOK
<1>3. ASSUME BeginInitial PROVE GivenOK'
  BY <1>3 DEF BeginInitial, GivenOK
<1>4. ASSUME NEW o \in Origins, Begin(o) PROVE GivenOK'
  BY <1>4 DEF Begin, GivenOK
<1>5. ASSUME TakeBaseline PROVE GivenOK'
  BY <1>5 DEF TakeBaseline, GivenOK
<1>6. ASSUME Record PROVE GivenOK'
  <2>1. RecordMove
    BY <1>6, RecordMoves
  <2> QED
    BY <2>1 DEF RecordMove, Held, Told, Bears, GivenOK
<1>7. ASSUME RefuseRecord PROVE GivenOK'
  BY <1>7 DEF RefuseRecord, GivenOK
<1>8. ASSUME Cancel PROVE GivenOK'
  <2>1. CancelMove
    BY <1>8, CancelMoves
  <2> QED
    BY <2>1 DEF CancelMove, Held, Told, Bears, GivenOK
<1>9. ASSUME Claim PROVE GivenOK'
  <2>1. ClaimMove
    BY <1>9, ClaimMoves
  <2> QED
    BY <2>1 DEF ClaimMove, Held, Told, Bears, GivenOK
<1>10. ASSUME CheckBaseline PROVE GivenOK'
  <2>1. CheckBaselineMove
    BY <1>10, CheckBaselineMoves
  <2> QED
    BY <2>1 DEF CheckBaselineMove, Held, Told, GivenOK
<1>11. ASSUME ScanScope PROVE GivenOK'
  <2>1. ScanScopeMove
    BY <1>11, ScanScopeMoves
  <2> QED
    BY <2>1 DEF ScanScopeMove, Held, Told, GivenOK
<1>12. ASSUME TakeNarrow PROVE GivenOK'
  <2>1. TakeNarrowMove
    BY <1>12, TakeNarrowMoves
  <2> QED
    BY <2>1 DEF TakeNarrowMove, Held, Told, GivenOK
<1>13. ASSUME MakeStage PROVE GivenOK'
  <2>1. MakeStageMove
    BY <1>13, MakeStageMoves
  <2> QED
    BY <2>1 DEF MakeStageMove, Held, Told, GivenOK
<1>14. ASSUME NEW q \in Read, CopyFile(q) PROVE GivenOK'
  <2>1. CopyFileMove(q)
    BY <1>14, CopyFileMoves
  <2> QED
    BY <2>1 DEF CopyFileMove, Held, Told, GivenOK
<1>15. ASSUME Rescan PROVE GivenOK'
  <2>1. RescanMove
    BY <1>15, RescanMoves
  <2> QED
    BY <2>1 DEF RescanMove, Held, Told, GivenOK
<1>16. ASSUME GiveUpStage PROVE GivenOK'
  <2>1. GiveUpStageMove
    BY <1>16, GiveUpStageMoves
  <2> QED
    BY <2>1 DEF GiveUpStageMove, Held, Told, GivenOK
<1>17. ASSUME AbandonStage PROVE GivenOK'
  <2>1. AbandonStageMove
    BY <1>17, AbandonStageMoves
  <2> QED
    BY <2>1 DEF AbandonStageMove, Held, Told, GivenOK
<1>18. ASSUME Launch PROVE GivenOK'
  <2>1. LaunchMove
    BY <1>18, LaunchMoves
  <2> QED
    BY <2>1, ScopeAssumption DEF LaunchMove, Held, Told, Bears, StageExact, Staged,
       Selected, Paths, ControllerOK, Controllers, Contents, GivenOK
<1>19. ASSUME NEW q \in Paths, NEW b \in Bodies \cup {Absent, Link}, ProviderWrites(q, b)
       PROVE GivenOK'
  BY <1>19 DEF ProviderWrites, GivenOK
<1>20. ASSUME NEW r \in Reports \cup {"none"}, NEW s \in Terminal, NEW d \in {"exact", "wrong"},
            ProviderEnds(r, s, d) PROVE GivenOK'
  <2>1. ProviderEndsMove(r, s, d)
    BY <1>20, ProviderEndsMoves
  <2> QED
    BY <2>1 DEF ProviderEndsMove, Held, Told, Bears, GivenOK
<1>21. ASSUME CompareNarrow PROVE GivenOK'
  <2>1. CompareNarrowMove
    BY <1>21, CompareNarrowMoves
  <2> QED
    BY <2>1 DEF CompareNarrowMove, Held, Told, GivenOK
<1>22. ASSUME ScanMutations PROVE GivenOK'
  <2>1. ScanMutationsMove
    BY <1>22, ScanMutationsMoves
  <2> QED
    BY <2>1 DEF ScanMutationsMove, Held, Told, GivenOK
<1>23. ASSUME Reconcile PROVE GivenOK'
  <2>1. ReconcileMove
    BY <1>23, ReconcileMoves
  <2> QED
    BY <2>1 DEF ReconcileMove, Held, Told, GivenOK
<1>24. ASSUME MatchStage PROVE GivenOK'
  <2>1. MatchStageMove
    BY <1>24, MatchStageMoves
  <2> QED
    BY <2>1 DEF MatchStageMove, Held, Told, GivenOK
<1>25. ASSUME CleanStage PROVE GivenOK'
  <2>1. CleanStageMove
    BY <1>25, CleanStageMoves
  <2> QED
    BY <2>1 DEF CleanStageMove, Held, Told, GivenOK
<1>26. ASSUME RemoveStage PROVE GivenOK'
  <2>1. RemoveStageMove
    BY <1>26, RemoveStageMoves
  <2> QED
    BY <2>1 DEF RemoveStageMove, Held, Told, GivenOK
<1>27. ASSUME ObserveCancel PROVE GivenOK'
  <2>1. ObserveCancelMove
    BY <1>27, ObserveCancelMoves
  <2> QED
    BY <2>1 DEF ObserveCancelMove, Held, Told, GivenOK
<1>28. ASSUME TakeCandidate PROVE GivenOK'
  <2>1. TakeCandidateMove
    BY <1>28, TakeCandidateMoves
  <2> QED
    BY <2>1 DEF TakeCandidateMove, Held, Told, GivenOK
<1>29. ASSUME Derive PROVE GivenOK'
  <2>1. DeriveMove
    BY <1>29, DeriveMoves
  <2> QED
    BY <2>1 DEF DeriveMove, Held, Told, GivenOK
<1>30. ASSUME Publish PROVE GivenOK'
  <2>1. PublishMove
    BY <1>30, PublishMoves
  <2> QED
    BY <2>1 DEF PublishMove, Held, Told, Bears, NoController, GivenOK
<1>31. ASSUME Kill PROVE GivenOK'
  <2>1. KillMove
    BY <1>31, KillMoves
  <2> QED
    BY <2>1 DEF KillMove, Held, Told, Bears, NoController, GivenOK
<1>32. ASSUME Break PROVE GivenOK'
  <2>1. BreakMove
    BY <1>32, BreakMoves
  <2> QED
    BY <2>1 DEF BreakMove, Held, Told, Bears, NoController, GivenOK
<1>33. CASE UNCHANGED vars
  BY <1>33 DEF vars, GivenOK
<1> QED
  BY <1>1, <1>2, <1>3, <1>4, <1>5, <1>6, <1>7, <1>8, <1>9, <1>10, <1>11, <1>12, <1>13,
     <1>14, <1>15, <1>16, <1>17, <1>18, <1>19, <1>20, <1>21, <1>22, <1>23, <1>24, <1>25,
     <1>26, <1>27, <1>28, <1>29, <1>30, <1>31, <1>32, <1>33 DEF Next

\* Before an attempt makes its stage, none of ours is there.
LEMMA FreshStep ==
  ASSUME Fresh, SourceOK, JobTyped, MakerOK, ControllerOK, StageOK, Handled, Counted,
         [Next]_vars
  PROVE  Fresh'
<1>1. ASSUME NEW q \in Paths, NEW b \in Bodies \cup {Absent}, Edit(q, b) PROVE Fresh'
  BY <1>1 DEF Edit, Fresh
<1>2. ASSUME Meddle PROVE Fresh'
  BY <1>2 DEF Meddle, StageOK, Fresh
<1>3. ASSUME BeginInitial PROVE Fresh'
  BY <1>3 DEF BeginInitial, Fresh
<1>4. ASSUME NEW o \in Origins, Begin(o) PROVE Fresh'
  BY <1>4 DEF Begin, Fresh
<1>5. ASSUME TakeBaseline PROVE Fresh'
  BY <1>5 DEF TakeBaseline, Fresh
<1>6. ASSUME Record PROVE Fresh'
  <2>1. RecordMove
    BY <1>6, RecordMoves
  <2> QED
    BY <2>1 DEF RecordMove, Held, Told, Bears, NoStage, Fresh
<1>7. ASSUME RefuseRecord PROVE Fresh'
  BY <1>7 DEF RefuseRecord, Fresh
<1>8. ASSUME Cancel PROVE Fresh'
  <2>1. CancelMove
    BY <1>8, CancelMoves
  <2> QED
    BY <2>1 DEF CancelMove, Held, Told, Bears, Fresh
<1>9. ASSUME Claim PROVE Fresh'
  <2>1. ClaimMove
    BY <1>9, ClaimMoves
  <2> QED
    BY <2>1 DEF ClaimMove, Held, Told, Bears, Fresh
<1>10. ASSUME CheckBaseline PROVE Fresh'
  <2>1. CheckBaselineMove
    BY <1>10, CheckBaselineMoves
  <2> QED
    BY <2>1 DEF CheckBaselineMove, Held, Told, Fresh
<1>11. ASSUME ScanScope PROVE Fresh'
  <2>1. ScanScopeMove
    BY <1>11, ScanScopeMoves
  <2> QED
    BY <2>1 DEF ScanScopeMove, Held, Told, Fresh
<1>12. ASSUME TakeNarrow PROVE Fresh'
  <2>1. TakeNarrowMove
    BY <1>12, TakeNarrowMoves
  <2> QED
    BY <2>1, TreeTypes DEF TakeNarrowMove, Held, Told, SourceOK, Fresh
<1>13. ASSUME MakeStage PROVE Fresh'
  <2>1. MakeStageMove
    BY <1>13, MakeStageMoves
  <2> QED
    BY <2>1 DEF MakeStageMove, Held, Told, Fresh
<1>14. ASSUME NEW q \in Read, CopyFile(q) PROVE Fresh'
  <2>1. CopyFileMove(q)
    BY <1>14, CopyFileMoves
  <2> QED
    BY <2>1 DEF CopyFileMove, Held, Told, Fresh
<1>15. ASSUME Rescan PROVE Fresh'
  <2>1. RescanMove
    BY <1>15, RescanMoves
  <2> QED
    BY <2>1 DEF RescanMove, Held, Told, Fresh
<1>16. ASSUME GiveUpStage PROVE Fresh'
  <2>1. GiveUpStageMove
    BY <1>16, GiveUpStageMoves
  <2> QED
    BY <2>1 DEF GiveUpStageMove, Held, Told, Fresh
<1>17. ASSUME AbandonStage PROVE Fresh'
  <2>1. AbandonStageMove
    BY <1>17, AbandonStageMoves
  <2> QED
    BY <2>1 DEF AbandonStageMove, Held, Told, Fresh
<1>18. ASSUME Launch PROVE Fresh'
  <2>1. LaunchMove
    BY <1>18, LaunchMoves
  <2> QED
    BY <2>1 DEF LaunchMove, Held, Told, Bears, Fresh
<1>19. ASSUME NEW q \in Paths, NEW b \in Bodies \cup {Absent, Link}, ProviderWrites(q, b)
       PROVE Fresh'
  BY <1>19 DEF ProviderWrites, Fresh
<1>20. ASSUME NEW r \in Reports \cup {"none"}, NEW s \in Terminal, NEW d \in {"exact", "wrong"},
            ProviderEnds(r, s, d) PROVE Fresh'
  <2>1. ProviderEndsMove(r, s, d)
    BY <1>20, ProviderEndsMoves
  <2> QED
    BY <2>1 DEF ProviderEndsMove, Held, Told, Bears, Fresh
<1>21. ASSUME CompareNarrow PROVE Fresh'
  <2>1. CompareNarrowMove
    BY <1>21, CompareNarrowMoves
  <2> QED
    BY <2>1 DEF CompareNarrowMove, Held, Told, Fresh
<1>22. ASSUME ScanMutations PROVE Fresh'
  <2>1. ScanMutationsMove
    BY <1>22, ScanMutationsMoves
  <2> QED
    BY <2>1 DEF ScanMutationsMove, Held, Told, Fresh
<1>23. ASSUME Reconcile PROVE Fresh'
  <2>1. ReconcileMove
    BY <1>23, ReconcileMoves
  <2> QED
    BY <2>1 DEF ReconcileMove, Held, Told, Fresh
<1>24. ASSUME MatchStage PROVE Fresh'
  <2>1. MatchStageMove
    BY <1>24, MatchStageMoves
  <2> QED
    BY <2>1 DEF MatchStageMove, Held, Told, Fresh
<1>25. ASSUME CleanStage PROVE Fresh'
  <2>1. CleanStageMove
    BY <1>25, CleanStageMoves
  <2> QED
    BY <2>1 DEF CleanStageMove, Held, Told, Fresh
<1>26. ASSUME RemoveStage PROVE Fresh'
  <2>1. RemoveStageMove
    BY <1>26, RemoveStageMoves
  <2> QED
    BY <2>1 DEF RemoveStageMove, Held, Told, Fresh
<1>27. ASSUME ObserveCancel PROVE Fresh'
  <2>1. ObserveCancelMove
    BY <1>27, ObserveCancelMoves
  <2> QED
    BY <2>1 DEF ObserveCancelMove, Held, Told, Fresh
<1>28. ASSUME TakeCandidate PROVE Fresh'
  <2>1. TakeCandidateMove
    BY <1>28, TakeCandidateMoves
  <2> QED
    BY <2>1 DEF TakeCandidateMove, Held, Told, Fresh
<1>29. ASSUME Derive PROVE Fresh'
  <2>1. DeriveMove
    BY <1>29, DeriveMoves
  <2> QED
    BY <2>1 DEF DeriveMove, Held, Told, Fresh
<1>30. ASSUME Publish PROVE Fresh'
  <2>1. PublishMove
    BY <1>30, PublishMoves
  <2> QED
    BY <2>1 DEF PublishMove, Held, Told, Bears, NoController, Terminal, Fresh
<1>31. ASSUME Kill PROVE Fresh'
  <2>1. KillMove
    BY <1>31, KillMoves
  <2> QED
    BY <2>1 DEF KillMove, Held, Told, Bears, NoController, Fresh
<1>32. ASSUME Break PROVE Fresh'
  <2>1. BreakMove
    BY <1>32, BreakMoves
  <2> QED
    BY <2>1 DEF BreakMove, Held, Told, Bears, NoController, Handled, Fresh
<1>33. CASE UNCHANGED vars
  BY <1>33 DEF vars, Fresh
<1> QED
  BY <1>1, <1>2, <1>3, <1>4, <1>5, <1>6, <1>7, <1>8, <1>9, <1>10, <1>11, <1>12, <1>13,
     <1>14, <1>15, <1>16, <1>17, <1>18, <1>19, <1>20, <1>21, <1>22, <1>23, <1>24, <1>25,
     <1>26, <1>27, <1>28, <1>29, <1>30, <1>31, <1>32, <1>33 DEF Next

\* A stage left behind is accounted for.
LEMMA ReportedStep ==
  ASSUME Reported, Fresh, SourceOK, JobTyped, MakerOK, ControllerOK, StageOK, Handled,
         Counted, [Next]_vars
  PROVE  Reported'
<1>1. ASSUME NEW q \in Paths, NEW b \in Bodies \cup {Absent}, Edit(q, b) PROVE Reported'
  BY <1>1 DEF Edit, Reported, StageAccounted, Fresh
<1>2. ASSUME Meddle PROVE Reported'
  BY <1>2 DEF Meddle, StageOK, Reported, StageAccounted, Fresh
<1>3. ASSUME BeginInitial PROVE Reported'
  BY <1>3 DEF BeginInitial, Reported, StageAccounted, Fresh
<1>4. ASSUME NEW o \in Origins, Begin(o) PROVE Reported'
  BY <1>4 DEF Begin, Reported, StageAccounted, Fresh
<1>5. ASSUME TakeBaseline PROVE Reported'
  BY <1>5 DEF TakeBaseline, Reported, StageAccounted, Fresh
<1>6. ASSUME Record PROVE Reported'
  <2>1. RecordMove
    BY <1>6, RecordMoves
  <2> QED
    BY <2>1 DEF RecordMove, Held, Told, Bears, NoStage, Reported, StageAccounted, Fresh
<1>7. ASSUME RefuseRecord PROVE Reported'
  BY <1>7 DEF RefuseRecord, Reported, StageAccounted, Fresh
<1>8. ASSUME Cancel PROVE Reported'
  <2>1. CancelMove
    BY <1>8, CancelMoves
  <2> QED
    BY <2>1 DEF CancelMove, Held, Told, Bears, Reported, StageAccounted, Fresh
<1>9. ASSUME Claim PROVE Reported'
  <2>1. ClaimMove
    BY <1>9, ClaimMoves
  <2> QED
    BY <2>1 DEF ClaimMove, Held, Told, Bears, Reported, StageAccounted, Fresh
<1>10. ASSUME CheckBaseline PROVE Reported'
  <2>1. CheckBaselineMove
    BY <1>10, CheckBaselineMoves
  <2> QED
    BY <2>1 DEF CheckBaselineMove, Held, Told, Reported, StageAccounted, Fresh
<1>11. ASSUME ScanScope PROVE Reported'
  <2>1. ScanScopeMove
    BY <1>11, ScanScopeMoves
  <2> QED
    BY <2>1 DEF ScanScopeMove, Held, Told, Reported, StageAccounted, Fresh
<1>12. ASSUME TakeNarrow PROVE Reported'
  <2>1. TakeNarrowMove
    BY <1>12, TakeNarrowMoves
  <2> QED
    BY <2>1 DEF TakeNarrowMove, Held, Told, Reported, StageAccounted, Fresh
<1>13. ASSUME MakeStage PROVE Reported'
  <2>1. MakeStageMove
    BY <1>13, MakeStageMoves
  <2> QED
    BY <2>1 DEF MakeStageMove, Held, Told, Reported, StageAccounted, Fresh
<1>14. ASSUME NEW q \in Read, CopyFile(q) PROVE Reported'
  <2>1. CopyFileMove(q)
    BY <1>14, CopyFileMoves
  <2> QED
    BY <2>1 DEF CopyFileMove, Held, Told, Reported, StageAccounted, Fresh
<1>15. ASSUME Rescan PROVE Reported'
  <2>1. RescanMove
    BY <1>15, RescanMoves
  <2> QED
    BY <2>1 DEF RescanMove, Held, Told, Reported, StageAccounted, Fresh
<1>16. ASSUME GiveUpStage PROVE Reported'
  <2>1. GiveUpStageMove
    BY <1>16, GiveUpStageMoves
  <2> QED
    BY <2>1 DEF GiveUpStageMove, Held, Told, Reported, StageAccounted, Fresh
<1>17. ASSUME AbandonStage PROVE Reported'
  <2>1. AbandonStageMove
    BY <1>17, AbandonStageMoves
  <2> QED
    BY <2>1 DEF AbandonStageMove, Held, Told, Reported, StageAccounted, Fresh
<1>18. ASSUME Launch PROVE Reported'
  <2>1. LaunchMove
    BY <1>18, LaunchMoves
  <2> QED
    BY <2>1 DEF LaunchMove, Held, Told, Bears, Reported, StageAccounted, Fresh
<1>19. ASSUME NEW q \in Paths, NEW b \in Bodies \cup {Absent, Link}, ProviderWrites(q, b)
       PROVE Reported'
  BY <1>19 DEF ProviderWrites, Reported, StageAccounted, Fresh
<1>20. ASSUME NEW r \in Reports \cup {"none"}, NEW s \in Terminal, NEW d \in {"exact", "wrong"},
            ProviderEnds(r, s, d) PROVE Reported'
  <2>1. ProviderEndsMove(r, s, d)
    BY <1>20, ProviderEndsMoves
  <2> QED
    BY <2>1 DEF ProviderEndsMove, Held, Told, Bears, Reported, StageAccounted, Fresh
<1>21. ASSUME CompareNarrow PROVE Reported'
  <2>1. CompareNarrowMove
    BY <1>21, CompareNarrowMoves
  <2> QED
    BY <2>1 DEF CompareNarrowMove, Held, Told, Reported, StageAccounted, Fresh
<1>22. ASSUME ScanMutations PROVE Reported'
  <2>1. ScanMutationsMove
    BY <1>22, ScanMutationsMoves
  <2> QED
    BY <2>1 DEF ScanMutationsMove, Held, Told, Reported, StageAccounted, Fresh
<1>23. ASSUME Reconcile PROVE Reported'
  <2>1. ReconcileMove
    BY <1>23, ReconcileMoves
  <2> QED
    BY <2>1 DEF ReconcileMove, Held, Told, Reported, StageAccounted, Fresh
<1>24. ASSUME MatchStage PROVE Reported'
  <2>1. MatchStageMove
    BY <1>24, MatchStageMoves
  <2> QED
    BY <2>1 DEF MatchStageMove, Held, Told, Reported, StageAccounted, Fresh
<1>25. ASSUME CleanStage PROVE Reported'
  <2>1. CleanStageMove
    BY <1>25, CleanStageMoves
  <2> QED
    BY <2>1 DEF CleanStageMove, Held, Told, Reported,
       StageAccounted, Fresh
<1>26. ASSUME RemoveStage PROVE Reported'
  <2>1. RemoveStageMove
    BY <1>26, RemoveStageMoves
  <2> QED
    BY <2>1 DEF RemoveStageMove, Held, Told, CleanupFailed, Reported,
       StageAccounted, Fresh
<1>27. ASSUME ObserveCancel PROVE Reported'
  <2>1. ObserveCancelMove
    BY <1>27, ObserveCancelMoves
  <2> QED
    BY <2>1 DEF ObserveCancelMove, Held, Told, Reported, StageAccounted, Fresh
<1>28. ASSUME TakeCandidate PROVE Reported'
  <2>1. TakeCandidateMove
    BY <1>28, TakeCandidateMoves
  <2> QED
    BY <2>1 DEF TakeCandidateMove, Held, Told, Reported, StageAccounted, Fresh
<1>29. ASSUME Derive PROVE Reported'
  <2>1. DeriveMove
    BY <1>29, DeriveMoves
  <2> QED
    BY <2>1 DEF DeriveMove, Held, Told, Reported, StageAccounted, Fresh
<1>30. ASSUME Publish PROVE Reported'
  <2>1. PublishMove
    BY <1>30, PublishMoves
  <2> QED
    BY <2>1 DEF PublishMove, Held, Told, Bears, NoController, Reported, StageAccounted,
       Fresh
<1>31. ASSUME Kill PROVE Reported'
  <2>1. KillMove
    BY <1>31, KillMoves
  <2> QED
    BY <2>1 DEF KillMove, Held, Told, Bears, NoController, Reported, StageAccounted, Fresh
<1>32. ASSUME Break PROVE Reported'
  <2>1. BreakMove
    BY <1>32, BreakMoves
  <2> QED
    BY <2>1 DEF BreakMove, Held, Told, Bears, NoController, Reported, StageAccounted,
       Fresh
<1>33. CASE UNCHANGED vars
  BY <1>33 DEF vars, Reported, StageAccounted, Fresh
<1> QED
  BY <1>1, <1>2, <1>3, <1>4, <1>5, <1>6, <1>7, <1>8, <1>9, <1>10, <1>11, <1>12, <1>13,
     <1>14, <1>15, <1>16, <1>17, <1>18, <1>19, <1>20, <1>21, <1>22, <1>23, <1>24, <1>25,
     <1>26, <1>27, <1>28, <1>29, <1>30, <1>31, <1>32, <1>33 DEF Next

-----------------------------------------------------------------------------
\* The invariant holds at the start.
LEMMA InitIInv == Init => IInv
  <1> SUFFICES ASSUME Init PROVE IInv
    OBVIOUS
  <1>1. /\ source \in Trees /\ approved = Seen(source) /\ Seen(source) \in Sights
        /\ Seen(Empty) \in Sights /\ NoTree \in StageTrees /\ Empty \in StageTrees
        /\ Selected(Empty) \in Contents
    BY TreeTypes DEF Init
  <1>2. SourceOK /\ CountOK
    BY <1>1, BoundsAssumption DEF Init, SourceOK, CountOK, Flags
  <1>3. NoJob \in Jobs
    BY <1>1, BoundsAssumption DEF NoJob, Jobs, Origins, Reports, Terminal, Flags, Failures
  <1>4. JobTyped /\ job.status = "none" /\ job.attempt = 0 /\ job.lineage = 0
    BY <1>3 DEF Init, JobTyped, NoJob
  <1>5. MakerOK /\ maker.pc = "none"
    BY <1>1 DEF Init, MakerOK, NoMaker, Origins
  <1>6. ControllerOK /\ c.pc = "none" /\ c.failure = "none"
    BY NoControllerType DEF Init, ControllerOK, NoController
  <1>7. StageOK /\ stage.dir = "none"
    BY <1>1 DEF Init, StageOK, NoStage
  <1>8. Selected(Empty) \in [Read -> Bodies \cup {Absent, Link}]
    BY <1>1 DEF Contents
  <1>9. HistoryOK
    BY <1>1, <1>8 DEF Init, HistoryOK
  <1>10. Types
    BY <1>2, <1>4, <1>5, <1>6, <1>7, <1>9 DEF Types
  <1> QED
    BY <1>4, <1>5, <1>6, <1>7, <1>10
       DEF IInv, Handled, Counted, BoundSealed, ManifestOK, CopyPcs, GivenOK, Fresh, Reported,
           StageAccounted

\* Every step keeps it.
LEMMA StepIInv == IInv /\ [Next]_vars => IInv'
  <1> SUFFICES ASSUME IInv, [Next]_vars PROVE IInv'
    OBVIOUS
  <1>1. /\ SourceOK /\ JobTyped /\ MakerOK /\ ControllerOK /\ StageOK /\ HistoryOK /\ CountOK
        /\ Handled /\ Counted /\ BoundSealed /\ ManifestOK /\ GivenOK /\ Fresh /\ Reported
    BY DEF IInv, Types
  <1>2. SourceOK' /\ CountOK' /\ MakerOK' /\ StageOK'
    BY <1>1, SourceTypes, CountTypes, MakerTypes, StageTypes
  <1>3. HistoryOK' /\ ControllerOK' /\ JobTyped'
    BY <1>1, HistoryTypes, ControllerTypes, JobTypes
  <1>4. Handled' /\ Counted' /\ BoundSealed' /\ ManifestOK'
    BY <1>1, HandledStep, CountedStep, RecordedStep, ManifestStep
  <1>5. GivenOK' /\ Fresh' /\ Reported'
    BY <1>1, GivenStep, FreshStep, ReportedStep
  <1> QED
    BY <1>2, <1>3, <1>4, <1>5 DEF IInv, Types

\* IInv is an invariant.
LEMMA Invariance == Spec => []IInv
  BY InitIInv, StepIInv, PTL DEF Spec

\* Every variable stays in its domain, and at rest no failure is half handled.
THEOREM TypeCorrect == Spec => []TypeOK
  <1>1. IInv => TypeOK
    BY TypeParts DEF IInv
  <1> QED
    BY <1>1, Invariance, PTL

\* A provider is started on the content the owner approved, or on the content recorded with the
\* candidate it continues, whatever is edited and wherever an attempt stops
\* (_require_scoped_transmission_authority, _create_provider_stage,
\* _revalidate_scoped_provider_stage).
THEOREM SentIsAlwaysRecorded == Spec => []SentIsRecorded
  <1>1. IInv => SentIsRecorded
    BY DEF IInv, ManifestOK, GivenOK, CopyPcs, SentIsRecorded
  <1> QED
    BY <1>1, Invariance, PTL

\* A stage that outlives its attempt is reported as a failed binding, a cancellation or a
\* controller that is gone (_cleanup_stage and the end of run_job).
THEOREM StageIsAccounted == Spec => []StageAccounted
  <1>1. IInv => StageAccounted
    BY DEF IInv, Reported
  <1> QED
    BY <1>1, Invariance, PTL

-----------------------------------------------------------------------------
(***************************************************************************)
(* What belongs to others is kept.                                         *)
(***************************************************************************)
WorktreeKept ==
  \A p \in Paths : source'[p] # source[p] => p \in Write /\ source[p] = Before(p)

StageKept ==
  stage.dir = "other" =>
    \/ stage' = stage \/ job'.attempt # job.attempt
    \/ stage.body = Empty /\ c.pc \in {"abandon", "rmdir"}

\* Only a reconciliation writes the worktree, in the scope and over what was there at launch.
LEMMA WorktreeStep ==
  ASSUME SourceOK, JobTyped, MakerOK, ControllerOK, StageOK, Handled, Counted, [Next]_vars
  PROVE  touches' = touches => WorktreeKept
<1>1. ASSUME NEW q \in Paths, NEW b \in Bodies \cup {Absent}, Edit(q, b)
      PROVE touches' = touches => WorktreeKept
  BY <1>1 DEF Edit, CountOK, WorktreeKept
<1>2. ASSUME Meddle PROVE touches' = touches => WorktreeKept
  BY <1>2 DEF Meddle, CountOK, WorktreeKept
<1>3. ASSUME BeginInitial PROVE touches' = touches => WorktreeKept
  BY <1>3 DEF BeginInitial, WorktreeKept
<1>4. ASSUME NEW o \in Origins, Begin(o) PROVE touches' = touches => WorktreeKept
  BY <1>4 DEF Begin, WorktreeKept
<1>5. ASSUME TakeBaseline PROVE touches' = touches => WorktreeKept
  BY <1>5 DEF TakeBaseline, WorktreeKept
<1>6. ASSUME Record PROVE touches' = touches => WorktreeKept
  <2>1. RecordMove
    BY <1>6, RecordMoves
  <2> QED
    BY <2>1 DEF RecordMove, Held, Told, Bears, WorktreeKept
<1>7. ASSUME RefuseRecord PROVE touches' = touches => WorktreeKept
  BY <1>7 DEF RefuseRecord, WorktreeKept
<1>8. ASSUME Cancel PROVE touches' = touches => WorktreeKept
  <2>1. CancelMove
    BY <1>8, CancelMoves
  <2> QED
    BY <2>1 DEF CancelMove, Held, Told, Bears, WorktreeKept
<1>9. ASSUME Claim PROVE touches' = touches => WorktreeKept
  <2>1. ClaimMove
    BY <1>9, ClaimMoves
  <2> QED
    BY <2>1 DEF ClaimMove, Held, Told, Bears, WorktreeKept
<1>10. ASSUME CheckBaseline PROVE touches' = touches => WorktreeKept
  <2>1. CheckBaselineMove
    BY <1>10, CheckBaselineMoves
  <2> QED
    BY <2>1 DEF CheckBaselineMove, Held, Told, WorktreeKept
<1>11. ASSUME ScanScope PROVE touches' = touches => WorktreeKept
  <2>1. ScanScopeMove
    BY <1>11, ScanScopeMoves
  <2> QED
    BY <2>1 DEF ScanScopeMove, Held, Told, WorktreeKept
<1>12. ASSUME TakeNarrow PROVE touches' = touches => WorktreeKept
  <2>1. TakeNarrowMove
    BY <1>12, TakeNarrowMoves
  <2> QED
    BY <2>1 DEF TakeNarrowMove, Held, Told, WorktreeKept
<1>13. ASSUME MakeStage PROVE touches' = touches => WorktreeKept
  <2>1. MakeStageMove
    BY <1>13, MakeStageMoves
  <2> QED
    BY <2>1 DEF MakeStageMove, Held, Told, WorktreeKept
<1>14. ASSUME NEW q \in Read, CopyFile(q) PROVE touches' = touches => WorktreeKept
  <2>1. CopyFileMove(q)
    BY <1>14, CopyFileMoves
  <2> QED
    BY <2>1 DEF CopyFileMove, Held, Told, WorktreeKept
<1>15. ASSUME Rescan PROVE touches' = touches => WorktreeKept
  <2>1. RescanMove
    BY <1>15, RescanMoves
  <2> QED
    BY <2>1 DEF RescanMove, Held, Told, WorktreeKept
<1>16. ASSUME GiveUpStage PROVE touches' = touches => WorktreeKept
  <2>1. GiveUpStageMove
    BY <1>16, GiveUpStageMoves
  <2> QED
    BY <2>1 DEF GiveUpStageMove, Held, Told, WorktreeKept
<1>17. ASSUME AbandonStage PROVE touches' = touches => WorktreeKept
  <2>1. AbandonStageMove
    BY <1>17, AbandonStageMoves
  <2> QED
    BY <2>1 DEF AbandonStageMove, Held, Told, WorktreeKept
<1>18. ASSUME Launch PROVE touches' = touches => WorktreeKept
  <2>1. LaunchMove
    BY <1>18, LaunchMoves
  <2> QED
    BY <2>1 DEF LaunchMove, Held, Told, Bears, WorktreeKept
<1>19. ASSUME NEW q \in Paths, NEW b \in Bodies \cup {Absent, Link}, ProviderWrites(q, b)
       PROVE touches' = touches => WorktreeKept
  BY <1>19 DEF ProviderWrites, WorktreeKept
<1>20. ASSUME NEW r \in Reports \cup {"none"}, NEW s \in Terminal, NEW d \in {"exact", "wrong"},
            ProviderEnds(r, s, d) PROVE touches' = touches => WorktreeKept
  <2>1. ProviderEndsMove(r, s, d)
    BY <1>20, ProviderEndsMoves
  <2> QED
    BY <2>1 DEF ProviderEndsMove, Held, Told, Bears, WorktreeKept
<1>21. ASSUME CompareNarrow PROVE touches' = touches => WorktreeKept
  <2>1. CompareNarrowMove
    BY <1>21, CompareNarrowMoves
  <2> QED
    BY <2>1 DEF CompareNarrowMove, Held, Told, WorktreeKept
<1>22. ASSUME ScanMutations PROVE touches' = touches => WorktreeKept
  <2>1. ScanMutationsMove
    BY <1>22, ScanMutationsMoves
  <2> QED
    BY <2>1 DEF ScanMutationsMove, Held, Told, WorktreeKept
<1>23. ASSUME Reconcile PROVE touches' = touches => WorktreeKept
  <2>1. c.puts \subseteq Write /\ c.dels \subseteq Write
    BY DEF ControllerOK, Controllers
  <2>2. CASE UNCHANGED source
    BY <2>2 DEF WorktreeKept
  <2>3. CASE /\ NotDrifted
             /\ source' = [p \in Paths |-> IF p \in c.puts THEN stage.body[p]
                                           ELSE IF p \in c.dels THEN Absent
                                           ELSE source[p]]
    <3>1. ASSUME NEW p \in Paths, source'[p] # source[p] PROVE p \in c.puts \cup c.dels
      BY <2>3, <3>1
    <3> QED
      BY <2>1, <2>3, <3>1 DEF NotDrifted, WorktreeKept
  <2> QED
    BY <1>23, <2>2, <2>3 DEF Reconcile
<1>24. ASSUME MatchStage PROVE touches' = touches => WorktreeKept
  <2>1. MatchStageMove
    BY <1>24, MatchStageMoves
  <2> QED
    BY <2>1 DEF MatchStageMove, Held, Told, WorktreeKept
<1>25. ASSUME CleanStage PROVE touches' = touches => WorktreeKept
  <2>1. CleanStageMove
    BY <1>25, CleanStageMoves
  <2> QED
    BY <2>1 DEF CleanStageMove, Held, Told, WorktreeKept
<1>26. ASSUME RemoveStage PROVE touches' = touches => WorktreeKept
  <2>1. RemoveStageMove
    BY <1>26, RemoveStageMoves
  <2> QED
    BY <2>1 DEF RemoveStageMove, Held, Told, WorktreeKept
<1>27. ASSUME ObserveCancel PROVE touches' = touches => WorktreeKept
  <2>1. ObserveCancelMove
    BY <1>27, ObserveCancelMoves
  <2> QED
    BY <2>1 DEF ObserveCancelMove, Held, Told, WorktreeKept
<1>28. ASSUME TakeCandidate PROVE touches' = touches => WorktreeKept
  <2>1. TakeCandidateMove
    BY <1>28, TakeCandidateMoves
  <2> QED
    BY <2>1 DEF TakeCandidateMove, Held, Told, WorktreeKept
<1>29. ASSUME Derive PROVE touches' = touches => WorktreeKept
  <2>1. DeriveMove
    BY <1>29, DeriveMoves
  <2> QED
    BY <2>1 DEF DeriveMove, Held, Told, WorktreeKept
<1>30. ASSUME Publish PROVE touches' = touches => WorktreeKept
  <2>1. PublishMove
    BY <1>30, PublishMoves
  <2> QED
    BY <2>1 DEF PublishMove, Held, Told, Bears, WorktreeKept
<1>31. ASSUME Kill PROVE touches' = touches => WorktreeKept
  <2>1. KillMove
    BY <1>31, KillMoves
  <2> QED
    BY <2>1 DEF KillMove, Held, Told, Bears, WorktreeKept
<1>32. ASSUME Break PROVE touches' = touches => WorktreeKept
  <2>1. BreakMove
    BY <1>32, BreakMoves
  <2> QED
    BY <2>1 DEF BreakMove, Held, Told, Bears, WorktreeKept
<1>33. CASE UNCHANGED vars
  BY <1>33 DEF vars, WorktreeKept
<1> QED
  BY <1>1, <1>2, <1>3, <1>4, <1>5, <1>6, <1>7, <1>8, <1>9, <1>10, <1>11, <1>12, <1>13,
     <1>14, <1>15, <1>16, <1>17, <1>18, <1>19, <1>20, <1>21, <1>22, <1>23, <1>24, <1>25,
     <1>26, <1>27, <1>28, <1>29, <1>30, <1>31, <1>32, <1>33 DEF Next

\* A directory that is not the controller's is left as it is.
LEMMA StageStep ==
  ASSUME SourceOK, JobTyped, MakerOK, Counted, [Next]_vars
  PROVE  touches' = touches => StageKept
<1>1. ASSUME NEW q \in Paths, NEW b \in Bodies \cup {Absent}, Edit(q, b)
      PROVE touches' = touches => StageKept
  BY <1>1 DEF Edit, CountOK, StageKept
<1>2. ASSUME Meddle PROVE touches' = touches => StageKept
  BY <1>2 DEF Meddle, CountOK, StageKept
<1>3. ASSUME BeginInitial PROVE touches' = touches => StageKept
  BY <1>3 DEF BeginInitial, StageKept
<1>4. ASSUME NEW o \in Origins, Begin(o) PROVE touches' = touches => StageKept
  BY <1>4 DEF Begin, StageKept
<1>5. ASSUME TakeBaseline PROVE touches' = touches => StageKept
  BY <1>5 DEF TakeBaseline, StageKept
<1>6. ASSUME Record PROVE touches' = touches => StageKept
  <2>1. RecordMove
    BY <1>6, RecordMoves
  <2>2. job.attempt \in 0..MaxCycles
    BY DEF JobTyped, Jobs
  <2> QED
    BY <2>1, <2>2, BoundsAssumption DEF RecordMove, StageKept
<1>7. ASSUME RefuseRecord PROVE touches' = touches => StageKept
  BY <1>7 DEF RefuseRecord, StageKept
<1>8. ASSUME Cancel PROVE touches' = touches => StageKept
  BY <1>8 DEF Cancel, StageKept
<1>9. ASSUME Claim PROVE touches' = touches => StageKept
  BY <1>9 DEF Claim, SideEnd, StageKept
<1>10. ASSUME CheckBaseline PROVE touches' = touches => StageKept
  BY <1>10 DEF CheckBaseline, Goes, StageKept
<1>11. ASSUME ScanScope PROVE touches' = touches => StageKept
  BY <1>11 DEF ScanScope, StageKept
<1>12. ASSUME TakeNarrow PROVE touches' = touches => StageKept
  BY <1>12 DEF TakeNarrow, StageKept
<1>13. ASSUME MakeStage PROVE touches' = touches => StageKept
  BY <1>13 DEF MakeStage, StageKept
<1>14. ASSUME NEW q \in Read, CopyFile(q) PROVE touches' = touches => StageKept
  BY <1>14 DEF CopyFile, GivesUp, StageKept
<1>15. ASSUME Rescan PROVE touches' = touches => StageKept
  BY <1>15 DEF Rescan, GivesUp, StageKept
<1>16. ASSUME GiveUpStage PROVE touches' = touches => StageKept
  BY <1>16 DEF GiveUpStage, Removable, StageKept
<1>17. ASSUME AbandonStage PROVE touches' = touches => StageKept
  BY <1>17 DEF AbandonStage, RemovedAtPath, EmptyAtPath, StageKept
<1>18. ASSUME Launch PROVE touches' = touches => StageKept
  BY <1>18 DEF Launch, StageKept
<1>19. ASSUME NEW q \in Paths, NEW b \in Bodies \cup {Absent, Link}, ProviderWrites(q, b)
       PROVE touches' = touches => StageKept
  BY <1>19 DEF ProviderWrites, StageKept
<1>20. ASSUME NEW r \in Reports \cup {"none"}, NEW s \in Terminal, NEW d \in {"exact", "wrong"},
            ProviderEnds(r, s, d) PROVE touches' = touches => StageKept
  BY <1>20 DEF ProviderEnds, StageKept
<1>21. ASSUME CompareNarrow PROVE touches' = touches => StageKept
  BY <1>21 DEF CompareNarrow, FailStage, StageKept
<1>22. ASSUME ScanMutations PROVE touches' = touches => StageKept
  BY <1>22 DEF ScanMutations, FailStage, StageKept
<1>23. ASSUME Reconcile PROVE touches' = touches => StageKept
  BY <1>23 DEF Reconcile, FailStage, StageKept
<1>24. ASSUME MatchStage PROVE touches' = touches => StageKept
  BY <1>24 DEF MatchStage, FailStage, StageKept
<1>25. ASSUME CleanStage PROVE touches' = touches => StageKept
  BY <1>25 DEF CleanStage, Removable, StageKept
<1>26. ASSUME RemoveStage PROVE touches' = touches => StageKept
  BY <1>26 DEF RemoveStage, RemovedAtPath, EmptyAtPath, StageKept
<1>27. ASSUME ObserveCancel PROVE touches' = touches => StageKept
  BY <1>27 DEF ObserveCancel, Cancelled, StageKept
<1>28. ASSUME TakeCandidate PROVE touches' = touches => StageKept
  BY <1>28 DEF TakeCandidate, StageKept
<1>29. ASSUME Derive PROVE touches' = touches => StageKept
  BY <1>29 DEF Derive, StageKept
<1>30. ASSUME Publish PROVE touches' = touches => StageKept
  BY <1>30 DEF Publish, Cancelled, StageKept
<1>31. ASSUME Kill PROVE touches' = touches => StageKept
  BY <1>31 DEF Kill, StageKept
<1>32. ASSUME Break PROVE touches' = touches => StageKept
  BY <1>32 DEF Break, SideEnd, StageKept
<1>33. CASE UNCHANGED vars
  BY <1>33 DEF vars, StageKept
<1> QED
  BY <1>1, <1>2, <1>3, <1>4, <1>5, <1>6, <1>7, <1>8, <1>9, <1>10, <1>11, <1>12, <1>13,
     <1>14, <1>15, <1>16, <1>17, <1>18, <1>19, <1>20, <1>21, <1>22, <1>23, <1>24, <1>25,
     <1>26, <1>27, <1>28, <1>29, <1>30, <1>31, <1>32, <1>33 DEF Next

\* The controller changes a path of the worktree only within the write scope and only as it was
\* at the launch; and of a directory that is not its own it takes nothing, the directory itself
\* only if it is empty and was put at the stage's path between the emptying of the stage and the
\* rmdir that names the path again (_reconcile_stage_to_source, _cleanup_stage).
THEOREM OthersAreKept == Spec => OthersKept
  <1>1. IInv /\ [Next]_vars => (touches' = touches => WorktreeKept /\ StageKept)
    BY WorktreeStep, StageStep DEF IInv, Types
  <1>2. (touches' = touches => WorktreeKept /\ StageKept) =>
          [touches' = touches =>
             /\ \A p \in Paths : source'[p] # source[p] => p \in Write /\ source[p] = Before(p)
             /\ stage.dir = "other" =>
                  \/ stage' = stage \/ job'.attempt # job.attempt
                  \/ stage.body = Empty /\ c.pc \in {"abandon", "rmdir"}]_vars
    BY DEF WorktreeKept, StageKept
  <1> QED
    BY <1>1, <1>2, Invariance, PTL DEF Spec, OthersKept

-----------------------------------------------------------------------------
(***************************************************************************)
(* The candidate of a quiet worktree, and the attempt that was recorded:   *)
(* a second inductive invariant, on top of the first.                      *)
(***************************************************************************)
\* An attempt is created while no controller is at work.
Turns ==
  /\ maker.pc # "none" => c.pc = "none" /\ job.status \notin {"queued", "running"}
  /\ c.pc # "none" => job.status \in {"queued", "running"}

\* The content recorded for a repair is of an earlier attempt while the present one lasts.
Aged ==
  /\ job.lineage <= job.attempt
  /\ job.status \in {"none", "queued", "running"} => job.lineage = 0 \/ job.lineage < job.attempt

\* A reconciliation is known only after it was made, and derived only from a report.
InOrder ==
  /\ c.pc \in CopyPcs \cup {"none", "baseline", "scope", "giveup", "abandon", "ended", "mutations",
                      "reconcile"} => c.recon = "no"
  /\ c.pc = "derive" => c.recon = "yes" /\ c.report # "none"
  /\ c.derived = "yes" => c.pc = "publish" /\ c.recon = "yes" /\ c.report # "none"

\* In a worktree left alone since the launch, what was matched is still there.
Matched ==
  quiet = "yes" /\ c.recon = "yes" /\ c.report # "none" =>
    /\ c.pc \in {"clean", "rmdir"} /\ c.failure # "stage" => made = Selected(source)
    /\ c.pc \in {"observe", "candidate", "derive", "publish"} => made = Selected(source)

\* And so is the candidate, with the content derived from it.
Taken ==
  quiet = "yes" =>
    /\ c.pc \in {"derive", "publish"} /\ c.report # "none" => c.cand = source
    /\ c.derived = "yes" => c.seen = Seen(source)

\* And what was published of it.
Kept ==
  c.pc = "none" /\ quiet = "yes" /\ job.lineage # 0 /\ job.lineage = job.attempt =>
    job.cand = source /\ job.bound = Seen(source) /\ Selected(source) = made

\* A continuation that is being created is of approved content or of the last attempt's record.
Eligible ==
  maker.pc # "none" /\ maker.origin = "continue" =>
    job.bound = approved \/ job.lineage = job.attempt

\* The baseline of an untouched worktree is the worktree.
Based == touches = 0 /\ maker.pc = "scope" => maker.base = source

\* Until its scope is scanned, a record covers an untouched worktree.
AwaitsScan == c.pc \in {"baseline", "scope"} \/ (job.status = "queued" /\ c.pc = "none")

Queued ==
  touches = 0 /\ AwaitsScan => Covered(source, job.origin) /\ job.base = source

\* And nobody is at the path of its stage until it is made.
Unmade ==
  touches = 0 /\ (AwaitsScan \/ c.pc \in {"narrow", "mkdir"}) => stage.dir = "none"

\* An untouched stage holds what was copied so far.
Written == [p \in Paths |-> IF p \in Read \ c.todo THEN c.manifest[p] ELSE Absent]

Copying ==
  touches = 0 =>
    /\ c.pc \in {"narrow", "mkdir", "copy", "launch"} => c.manifest = Selected(source)
    /\ c.pc = "copy" => stage.dir = "ours" /\ stage.body = Written
    /\ c.pc = "launch" => StageExact

Launched ==
  /\ c.pc = "running" => c.launched = "yes"
  /\ c.launched = "yes" => c.pc # "none"
  /\ c.pc \in {"giveup", "abandon"} => touches # 0
  /\ LaunchAsRecorded

JInv ==
  /\ Turns /\ Aged /\ InOrder /\ Matched /\ Taken /\ Kept
  /\ Eligible /\ Based /\ Queued /\ Unmade /\ Copying /\ Launched

-----------------------------------------------------------------------------
(***************************************************************************)
(* The fields those parts are about, step by step.                         *)
(***************************************************************************)
\* What a controller knows of the candidate stays.
Yields ==
  c'.recon = c.recon /\ c'.cand = c.cand /\ c'.derived = c.derived /\ c'.seen = c.seen

CheckBaselineRest ==
  /\ Yields
  /\ c'.pc = "ended" => source # job.base

\* What CheckBaseline does to them.
LEMMA CheckBaselineRests ==
  ASSUME ControllerOK, CheckBaseline
  PROVE  CheckBaselineRest
  BY DEF CheckBaselineRest, CheckBaseline, ControllerOK, Controllers, Yields, Goes

ScanScopeRest ==
  /\ Yields
  /\ c'.pc = "ended" => ~Covered(source, job.origin)

\* What ScanScope does to them.
LEMMA ScanScopeRests ==
  ASSUME ControllerOK, ScanScope
  PROVE  ScanScopeRest
  BY DEF ScanScopeRest, ScanScope, ControllerOK, Controllers, Yields

TakeNarrowRest == Yields

\* What TakeNarrow does to them.
LEMMA TakeNarrowRests ==
  ASSUME ControllerOK, TakeNarrow
  PROVE  TakeNarrowRest
  BY DEF TakeNarrowRest, TakeNarrow, ControllerOK, Controllers, Yields

MakeStageRest ==
  /\ Yields
  /\ c'.pc = "ended" => stage.dir # "none"
  /\ c'.pc = "copy" => c'.todo = Todo /\ stage' = [dir |-> "ours", body |-> Empty]

\* What MakeStage does to them.
LEMMA MakeStageRests ==
  ASSUME ControllerOK, MakeStage
  PROVE  MakeStageRest
  BY DEF MakeStageRest, MakeStage, ControllerOK, Controllers, Yields, Todo

CopyFileRest(q) ==
  /\ Yields
  /\ q \in c.todo
  /\ c'.pc = "copy" => c'.todo = c.todo \ {q} /\ stage' = Copied(q)
  /\ c'.pc = "giveup" =>
          ~(source[q] = c.manifest[q] /\ (stage.dir = "ours" => stage.body[q] = Absent))

\* What CopyFile does to them.
LEMMA CopyFileRests ==
  ASSUME ControllerOK, NEW q \in Read, CopyFile(q)
  PROVE  CopyFileRest(q)
  BY DEF CopyFileRest, CopyFile, ControllerOK, Controllers, Yields, GivesUp, Copied

RescanRest ==
  /\ Yields
  /\ c.todo = {}
  /\ c'.pc = "launch" => stage' = stage
  /\ c'.pc = "giveup" =>
          ~(Selected(stage.body) = c.manifest /\ \A p \in Paths : stage.body[p] # Link)

\* What Rescan does to them.
LEMMA RescanRests ==
  ASSUME ControllerOK, Rescan
  PROVE  RescanRest
  BY DEF RescanRest, Rescan, ControllerOK, Controllers, Yields, GivesUp

GiveUpStageRest == Yields

\* What GiveUpStage does to them.
LEMMA GiveUpStageRests ==
  ASSUME ControllerOK, GiveUpStage
  PROVE  GiveUpStageRest
  BY DEF GiveUpStageRest, GiveUpStage, ControllerOK, Controllers, Yields

AbandonStageRest == Yields

\* What AbandonStage does to them.
LEMMA AbandonStageRests ==
  ASSUME ControllerOK, AbandonStage
  PROVE  AbandonStageRest
  BY DEF AbandonStageRest, AbandonStage, ControllerOK, Controllers, Yields

LaunchRest ==
  /\ Yields
  /\ c'.pc = "running" => c'.launched = "yes"
  /\ job'.cancel = job.cancel
  /\ c'.pc = "ended" => job.cancel = "yes" \/ ~StageExact

\* What Launch does to them.
LEMMA LaunchRests ==
  ASSUME ControllerOK, JobTyped, Launch
  PROVE  LaunchRest
  BY ZenonT(30) DEF LaunchRest, Launch, ControllerOK, Controllers, Yields, JobTyped, Jobs

ProviderEndsRest(r, s, d) ==
  /\ Yields
  /\ c'.launched = c.launched

\* What ProviderEnds does to them.
LEMMA ProviderEndsRests ==
  ASSUME ControllerOK, NEW r \in Reports \cup {"none"}, NEW s \in Terminal, NEW d \in
         {"exact", "wrong"}, ProviderEnds(r, s, d)
  PROVE  ProviderEndsRest(r, s, d)
  BY DEF ProviderEndsRest, ProviderEnds, ControllerOK, Controllers, Yields

CompareNarrowRest == Yields

\* What CompareNarrow does to them.
LEMMA CompareNarrowRests ==
  ASSUME ControllerOK, CompareNarrow
  PROVE  CompareNarrowRest
  BY DEF CompareNarrowRest, CompareNarrow, ControllerOK, Controllers, Yields, FailStage

ScanMutationsRest ==
  /\ c'.derived = c.derived
  /\ c'.recon = c.recon \/ c.report = "none"
  /\ c'.pc = "reconcile" => c'.recon = c.recon

\* What ScanMutations does to them.
LEMMA ScanMutationsRests ==
  ASSUME ControllerOK, ScanMutations
  PROVE  ScanMutationsRest
  BY DEF ScanMutationsRest, ScanMutations, ControllerOK, Controllers, Yields, FailStage

ReconcileRest == c'.derived = c.derived

\* What Reconcile does to them.
LEMMA ReconcileRests ==
  ASSUME ControllerOK, Reconcile
  PROVE  ReconcileRest
  BY DEF ReconcileRest, Reconcile, ControllerOK, Controllers, Yields, FailStage

MatchStageRest ==
  /\ Yields
  /\ c'.failure = "stage" \/ made' = Selected(source)

\* What MatchStage does to them.
LEMMA MatchStageRests ==
  ASSUME ControllerOK, MatchStage
  PROVE  MatchStageRest
  BY DEF MatchStageRest, MatchStage, ControllerOK, Controllers, Yields, FailStage

CleanStageRest == Yields

\* What CleanStage does to them.
LEMMA CleanStageRests ==
  ASSUME ControllerOK, CleanStage
  PROVE  CleanStageRest
  BY DEF CleanStageRest, CleanStage, CleanupFails, ControllerOK, Controllers, Yields

RemoveStageRest == Yields

\* What RemoveStage does to them.
LEMMA RemoveStageRests ==
  ASSUME ControllerOK, RemoveStage
  PROVE  RemoveStageRest
  BY DEF RemoveStageRest, RemoveStage, CleanupFails, ControllerOK, Controllers, Yields

ObserveCancelRest == Yields

\* What ObserveCancel does to them.
LEMMA ObserveCancelRests ==
  ASSUME ControllerOK, ObserveCancel
  PROVE  ObserveCancelRest
  BY DEF ObserveCancelRest, ObserveCancel, ControllerOK, Controllers, Yields, Cancelled

TakeCandidateRest ==
  /\ c'.recon = c.recon /\ c'.derived = c.derived
  /\ c.report # "none" => c'.cand = source
  /\ c'.pc = "derive" => c.recon = "yes"

\* What TakeCandidate does to them.
LEMMA TakeCandidateRests ==
  ASSUME ControllerOK, TakeCandidate
  PROVE  TakeCandidateRest
  BY DEF TakeCandidateRest, TakeCandidate, ControllerOK, Controllers, Yields

DeriveRest ==
  /\ c'.recon = c.recon /\ c'.cand = c.cand
  /\ c'.derived = c.derived \/ c'.seen = Seen(source)

\* What Derive does to them.
LEMMA DeriveRests ==
  ASSUME ControllerOK, Derive
  PROVE  DeriveRest
  BY DEF DeriveRest, Derive, ControllerOK, Controllers, Yields

ClaimRest ==
  c'.pc # "none" => c'.recon = "no" /\ c'.derived = "no" /\ c'.launched = "no"

\* What Claim does to them.
LEMMA ClaimRests ==
  ASSUME Claim
  PROVE  ClaimRest
  BY DEF ClaimRest, Claim, NoController

CancelRest ==
  /\ job'.origin = job.origin /\ job'.base = job.base /\ job'.result = job.result
  /\ job'.available = job.available /\ job'.recon = job.recon /\ job'.cancel = "yes"

\* What Cancel does to them.
LEMMA CancelRests ==
  ASSUME JobTyped, Cancel
  PROVE  CancelRest
  BY DEF CancelRest, Cancel, JobTyped, Jobs

RecordRest ==
  /\ job'.base = maker.base /\ job'.bound = Seen(source) /\ job'.origin = maker.origin
  /\ maker.origin = "continue" =>
       /\ job'.result = job.result /\ job'.available = job.available
       /\ job'.recon = job.recon /\ job'.lineage = job.lineage

\* What Record does to them.
LEMMA RecordRests ==
  ASSUME JobTyped, Record
  PROVE  RecordRest
  <1>1. CASE maker.origin = "continue"
    <2>1. job' = [job EXCEPT !.status = "queued", !.attempt = @ + 1, !.origin = "continue",
                    !.base = maker.base, !.bound = Seen(source), !.cont = "no",
                    !.cancel = "no", !.failure = "none"]
      BY <1>1 DEF Record
    <2> QED
      BY <1>1, <2>1 DEF RecordRest, JobTyped, Jobs
  <1>2. CASE maker.origin # "continue"
    <2>1. PICK f : f = [NoJob EXCEPT !.status = "queued", !.attempt = job.attempt + 1,
                          !.origin = maker.origin, !.base = maker.base, !.bound = Seen(source)]
      OBVIOUS
    <2>2. f.base = maker.base /\ f.bound = Seen(source) /\ f.origin = maker.origin
      BY <2>1 DEF NoJob
    <2>3. PICK g : g = [f EXCEPT !.conv = "yes"]
      OBVIOUS
    <2>4. g.base = f.base /\ g.bound = f.bound /\ g.origin = f.origin
      BY <2>1, <2>3 DEF NoJob
    <2>5. job' = f \/ job' = g
      BY <1>2, <2>1, <2>3 DEF Record
    <2> QED
      BY <1>2, <2>2, <2>4, <2>5 DEF RecordRest
  <1> QED
    BY <1>1, <1>2

\* What WithReport writes of the candidate.
LEMMA WithReportCandidate ==
  ASSUME NEW j \in Jobs, NEW f \in Controllers
  PROVE  WithReport(j, f).lineage \in {0, j.attempt} /\ WithReport(j, f).cand = f.cand
  BY DEF WithReport, Jobs

PublishRest ==
  /\ job'.lineage \in {0, job.attempt, job.lineage}
  /\ job'.lineage # 0 =>
       \/ job'.lineage = job.lineage
       \/ /\ c.derived = "yes" /\ c.report # "none"
          /\ job'.cand = c.cand /\ job'.bound = c.seen

\* What Publish does to them.
LEMMA PublishRests ==
  ASSUME ControllerOK, JobTyped, Publish
  PROVE  PublishRest
  <1>1. c \in Controllers /\ job \in Jobs
    BY DEF ControllerOK, JobTyped
  <1>2. PICK f : f = IF job.cancel = "yes" THEN Cancelled ELSE c
    OBVIOUS
  <1>3. Cancelled \in Controllers /\ Cancelled.report = "none"
    <2>1. "cancelled" \in Terminal /\ "none" \in Failures
      BY DEF Terminal, Failures
    <2> QED
      BY <1>1, <2>1 DEF Cancelled, Controllers
  <1>4. f \in Controllers /\ (f.report # "none" => f = c)
    BY <1>1, <1>2, <1>3
  <1>5. job' = IF f.report # "none" THEN WithReport(job, f) ELSE WithoutReport(job, f)
    BY <1>2 DEF Publish
  <1>6. CASE f.report # "none"
    <2>1. job' = WithReport(job, c) /\ c.report # "none"
      BY <1>4, <1>5, <1>6
    <2>2. job'.lineage \in {0, job.attempt} /\ job'.cand = c.cand
      BY <1>1, <2>1, WithReportCandidate
    <2>3. job'.lineage # 0 => c.derived = "yes" /\ job'.bound = c.seen
      BY <1>1, <2>1, WithReportFields
    <2> QED
      BY <2>1, <2>2, <2>3 DEF PublishRest
  <1>7. CASE f.report = "none"
    <2>1. job' = WithoutReport(job, f)
      BY <1>5, <1>7
    <2>2. job'.lineage = job.lineage
      BY <1>1, <1>4, <2>1, WithoutReportFields
    <2> QED
      BY <2>2 DEF PublishRest
  <1> QED
    BY <1>6, <1>7

-----------------------------------------------------------------------------
\* A touch is counted.
LEMMA Touched ==
  ASSUME CountOK, touches' = touches + 1
  PROVE  touches' # 0
  <1>1. touches \in Nat
    BY BoundsAssumption DEF CountOK
  <1> QED
    BY <1>1

\* Until the copy begins, nothing is written; and each file is written once.
LEMMA NothingWritten ==
  ASSUME ControllerOK, c'.todo = Todo, c'.manifest = c.manifest
  PROVE  Empty = Written'
  BY DEF Empty, Written, Todo, Paths

LEMMA OneWritten ==
  ASSUME NEW q \in Read, c'.todo = c.todo \ {q}, c'.manifest = c.manifest,
         StageOK, stage.dir = "ours", stage.body = Written
  PROVE  Copied(q).dir = "ours" /\ Copied(q).body = Written'
  <1>1. /\ Copied(q).dir = "ours"
        /\ Copied(q).body = [stage.body EXCEPT ![q] = c.manifest[q]]
    BY DEF Copied, StageOK
  <1>2. [Written EXCEPT ![q] = c.manifest[q]] = Written'
    BY ScopeAssumption DEF Written, Paths
  <1> QED
    BY <1>1, <1>2

\* When all is copied, the stage holds the manifest.
LEMMA AllWritten ==
  ASSUME ControllerOK, stage.body = Written, c.todo = {}
  PROVE  Selected(stage.body) = c.manifest /\ \A p \in Paths : stage.body[p] # Link
  <1>1. c.manifest \in [Read -> Bodies \cup {Absent}]
    BY DEF ControllerOK, Controllers, Contents
  <1>2. \A p \in Paths : stage.body[p] = IF p \in Read THEN c.manifest[p] ELSE Absent
    BY DEF Written
  <1>3. Selected(stage.body) = c.manifest
    BY <1>1, <1>2, ScopeAssumption DEF Selected, Paths
  <1> QED
    BY <1>1, <1>2, <1>3, BodiesAssumption

\* An attempt is created while no controller is at work.
LEMMA TurnsStep ==
  ASSUME Turns, SourceOK, JobTyped, MakerOK, ControllerOK, StageOK, Handled, Counted,
         [Next]_vars
  PROVE  Turns'
<1>1. ASSUME NEW q \in Paths, NEW b \in Bodies \cup {Absent}, Edit(q, b) PROVE Turns'
  BY <1>1 DEF Edit, Turns
<1>2. ASSUME Meddle PROVE Turns'
  BY <1>2 DEF Meddle, Turns
<1>3. ASSUME BeginInitial PROVE Turns'
  BY <1>3 DEF BeginInitial, NoMaker, Turns
<1>4. ASSUME NEW o \in Origins, Begin(o) PROVE Turns'
  BY <1>4 DEF Begin, Inactive, Turns
<1>5. ASSUME TakeBaseline PROVE Turns'
  BY <1>5 DEF TakeBaseline, Turns
<1>6. ASSUME Record PROVE Turns'
  <2>1. RecordMove
    BY <1>6, RecordMoves
  <2>2. RecordRest
    BY <1>6, RecordRests
  <2> QED
    BY <2>1, <2>2 DEF RecordMove, RecordRest, Yields, Held, Told, Bears, NoMaker, Turns
<1>7. ASSUME RefuseRecord PROVE Turns'
  BY <1>7 DEF RefuseRecord, NoMaker, Turns
<1>8. ASSUME Cancel PROVE Turns'
  <2>1. CancelMove
    BY <1>8, CancelMoves
  <2>2. CancelRest
    BY <1>8, CancelRests
  <2> QED
    BY <2>1, <2>2 DEF CancelMove, CancelRest, Yields, Held, Told, Bears, Turns
<1>9. ASSUME Claim PROVE Turns'
  <2>1. ClaimMove
    BY <1>9, ClaimMoves
  <2>2. ClaimRest
    BY <1>9, ClaimRests
  <2> QED
    BY <2>1, <2>2 DEF ClaimMove, ClaimRest, Yields, Held, Told, Bears, Turns
<1>10. ASSUME CheckBaseline PROVE Turns'
  <2>1. CheckBaselineMove
    BY <1>10, CheckBaselineMoves
  <2>2. CheckBaselineRest
    BY <1>10, CheckBaselineRests
  <2> QED
    BY <2>1, <2>2 DEF CheckBaselineMove, CheckBaselineRest, Yields, Held, Told, Turns
<1>11. ASSUME ScanScope PROVE Turns'
  <2>1. ScanScopeMove
    BY <1>11, ScanScopeMoves
  <2>2. ScanScopeRest
    BY <1>11, ScanScopeRests
  <2> QED
    BY <2>1, <2>2 DEF ScanScopeMove, ScanScopeRest, Yields, Held, Told, Turns
<1>12. ASSUME TakeNarrow PROVE Turns'
  <2>1. TakeNarrowMove
    BY <1>12, TakeNarrowMoves
  <2>2. TakeNarrowRest
    BY <1>12, TakeNarrowRests
  <2> QED
    BY <2>1, <2>2 DEF TakeNarrowMove, TakeNarrowRest, Yields, Held, Told, Turns
<1>13. ASSUME MakeStage PROVE Turns'
  <2>1. MakeStageMove
    BY <1>13, MakeStageMoves
  <2>2. MakeStageRest
    BY <1>13, MakeStageRests
  <2> QED
    BY <2>1, <2>2 DEF MakeStageMove, MakeStageRest, Yields, Held, Told, Turns
<1>14. ASSUME NEW q \in Read, CopyFile(q) PROVE Turns'
  <2>1. CopyFileMove(q)
    BY <1>14, CopyFileMoves
  <2>2. CopyFileRest(q)
    BY <1>14, CopyFileRests
  <2> QED
    BY <2>1, <2>2 DEF CopyFileMove, CopyFileRest, Yields, Held, Told, Turns
<1>15. ASSUME Rescan PROVE Turns'
  <2>1. RescanMove
    BY <1>15, RescanMoves
  <2>2. RescanRest
    BY <1>15, RescanRests
  <2> QED
    BY <2>1, <2>2 DEF RescanMove, RescanRest, Yields, Held, Told, Turns
<1>16. ASSUME GiveUpStage PROVE Turns'
  <2>1. GiveUpStageMove
    BY <1>16, GiveUpStageMoves
  <2>2. GiveUpStageRest
    BY <1>16, GiveUpStageRests
  <2> QED
    BY <2>1, <2>2 DEF GiveUpStageMove, GiveUpStageRest, Yields, Held, Told, Turns
<1>17. ASSUME AbandonStage PROVE Turns'
  <2>1. AbandonStageMove
    BY <1>17, AbandonStageMoves
  <2>2. AbandonStageRest
    BY <1>17, AbandonStageRests
  <2> QED
    BY <2>1, <2>2 DEF AbandonStageMove, AbandonStageRest, Yields, Held, Told, Turns
<1>18. ASSUME Launch PROVE Turns'
  <2>1. LaunchMove
    BY <1>18, LaunchMoves
  <2>2. LaunchRest
    BY <1>18, LaunchRests
  <2> QED
    BY <2>1, <2>2 DEF LaunchMove, LaunchRest, Yields, Held, Told, Bears, Turns
<1>19. ASSUME NEW q \in Paths, NEW b \in Bodies \cup {Absent, Link}, ProviderWrites(q, b)
       PROVE Turns'
  BY <1>19 DEF ProviderWrites, Turns
<1>20. ASSUME NEW r \in Reports \cup {"none"}, NEW s \in Terminal, NEW d \in {"exact", "wrong"},
            ProviderEnds(r, s, d) PROVE Turns'
  <2>1. ProviderEndsMove(r, s, d)
    BY <1>20, ProviderEndsMoves
  <2>2. ProviderEndsRest(r, s, d)
    BY <1>20, ProviderEndsRests
  <2> QED
    BY <2>1, <2>2 DEF ProviderEndsMove, ProviderEndsRest, Yields, Held, Told, Bears, Turns
<1>21. ASSUME CompareNarrow PROVE Turns'
  <2>1. CompareNarrowMove
    BY <1>21, CompareNarrowMoves
  <2>2. CompareNarrowRest
    BY <1>21, CompareNarrowRests
  <2> QED
    BY <2>1, <2>2 DEF CompareNarrowMove, CompareNarrowRest, Yields, Held, Told, Turns
<1>22. ASSUME ScanMutations PROVE Turns'
  <2>1. ScanMutationsMove
    BY <1>22, ScanMutationsMoves
  <2>2. ScanMutationsRest
    BY <1>22, ScanMutationsRests
  <2> QED
    BY <2>1, <2>2 DEF ScanMutationsMove, ScanMutationsRest, Yields, Held, Told, Turns
<1>23. ASSUME Reconcile PROVE Turns'
  <2>1. ReconcileMove
    BY <1>23, ReconcileMoves
  <2>2. ReconcileRest
    BY <1>23, ReconcileRests
  <2> QED
    BY <2>1, <2>2 DEF ReconcileMove, ReconcileRest, Yields, Held, Told, Turns
<1>24. ASSUME MatchStage PROVE Turns'
  <2>1. MatchStageMove
    BY <1>24, MatchStageMoves
  <2>2. MatchStageRest
    BY <1>24, MatchStageRests
  <2> QED
    BY <2>1, <2>2 DEF MatchStageMove, MatchStageRest, Yields, Held, Told, Turns
<1>25. ASSUME CleanStage PROVE Turns'
  <2>1. CleanStageMove
    BY <1>25, CleanStageMoves
  <2>2. CleanStageRest
    BY <1>25, CleanStageRests
  <2> QED
    BY <2>1, <2>2 DEF CleanStageMove, CleanStageRest, Yields, Held, Told, Turns
<1>26. ASSUME RemoveStage PROVE Turns'
  <2>1. RemoveStageMove
    BY <1>26, RemoveStageMoves
  <2>2. RemoveStageRest
    BY <1>26, RemoveStageRests
  <2> QED
    BY <2>1, <2>2 DEF RemoveStageMove, RemoveStageRest, Yields, Held, Told, Turns
<1>27. ASSUME ObserveCancel PROVE Turns'
  <2>1. ObserveCancelMove
    BY <1>27, ObserveCancelMoves
  <2>2. ObserveCancelRest
    BY <1>27, ObserveCancelRests
  <2> QED
    BY <2>1, <2>2 DEF ObserveCancelMove, ObserveCancelRest, Yields, Held, Told, Turns
<1>28. ASSUME TakeCandidate PROVE Turns'
  <2>1. TakeCandidateMove
    BY <1>28, TakeCandidateMoves
  <2>2. TakeCandidateRest
    BY <1>28, TakeCandidateRests
  <2> QED
    BY <2>1, <2>2 DEF TakeCandidateMove, TakeCandidateRest, Yields, Held, Told, Turns
<1>29. ASSUME Derive PROVE Turns'
  <2>1. DeriveMove
    BY <1>29, DeriveMoves
  <2>2. DeriveRest
    BY <1>29, DeriveRests
  <2> QED
    BY <2>1, <2>2 DEF DeriveMove, DeriveRest, Yields, Held, Told, Turns
<1>30. ASSUME Publish PROVE Turns'
  <2>1. PublishMove
    BY <1>30, PublishMoves
  <2>2. PublishRest
    BY <1>30, PublishRests
  <2> QED
    BY <2>1, <2>2 DEF PublishMove, PublishRest, Yields, Held, Told, Bears, NoController,
       Terminal, Turns
<1>31. ASSUME Kill PROVE Turns'
  <2>1. KillMove
    BY <1>31, KillMoves
  <2> QED
    BY <2>1 DEF KillMove, Held, Told, Bears, NoController, Turns
<1>32. ASSUME Break PROVE Turns'
  <2>1. BreakMove
    BY <1>32, BreakMoves
  <2> QED
    BY <2>1 DEF BreakMove, Held, Told, Bears, NoController, Turns
<1>33. CASE UNCHANGED vars
  BY <1>33 DEF vars, Turns
<1> QED
  BY <1>1, <1>2, <1>3, <1>4, <1>5, <1>6, <1>7, <1>8, <1>9, <1>10, <1>11, <1>12, <1>13,
     <1>14, <1>15, <1>16, <1>17, <1>18, <1>19, <1>20, <1>21, <1>22, <1>23, <1>24, <1>25,
     <1>26, <1>27, <1>28, <1>29, <1>30, <1>31, <1>32, <1>33 DEF Next

\* The content recorded for a repair is of an earlier attempt while one lasts.
LEMMA AgedStep ==
  ASSUME Aged, Turns, SourceOK, JobTyped, MakerOK, ControllerOK, StageOK, Handled, Counted,
         [Next]_vars
  PROVE  Aged'
<1>1. ASSUME NEW q \in Paths, NEW b \in Bodies \cup {Absent}, Edit(q, b) PROVE Aged'
  BY <1>1, BoundsAssumption DEF Edit, Aged, JobTyped, Jobs
<1>2. ASSUME Meddle PROVE Aged'
  BY <1>2, BoundsAssumption DEF Meddle, Aged, JobTyped, Jobs
<1>3. ASSUME BeginInitial PROVE Aged'
  BY <1>3, BoundsAssumption DEF BeginInitial, Aged, JobTyped, Jobs
<1>4. ASSUME NEW o \in Origins, Begin(o) PROVE Aged'
  BY <1>4, BoundsAssumption DEF Begin, Aged, JobTyped, Jobs
<1>5. ASSUME TakeBaseline PROVE Aged'
  BY <1>5, BoundsAssumption DEF TakeBaseline, Aged, JobTyped, Jobs
<1>6. ASSUME Record PROVE Aged'
  <2>1. RecordMove
    BY <1>6, RecordMoves
  <2>2. RecordRest
    BY <1>6, RecordRests
  <2> QED
    BY <2>1, <2>2, BoundsAssumption DEF RecordMove, RecordRest, Yields, Held, Told, Bears,
       Counted, Aged, JobTyped, Jobs
<1>7. ASSUME RefuseRecord PROVE Aged'
  BY <1>7, BoundsAssumption DEF RefuseRecord, Aged, JobTyped, Jobs
<1>8. ASSUME Cancel PROVE Aged'
  <2>1. CancelMove
    BY <1>8, CancelMoves
  <2>2. CancelRest
    BY <1>8, CancelRests
  <2> QED
    BY <2>1, <2>2, BoundsAssumption DEF CancelMove, CancelRest, Yields, Held, Told, Bears,
       Aged, JobTyped, Jobs
<1>9. ASSUME Claim PROVE Aged'
  <2>1. ClaimMove
    BY <1>9, ClaimMoves
  <2>2. ClaimRest
    BY <1>9, ClaimRests
  <2> QED
    BY <2>1, <2>2, BoundsAssumption DEF ClaimMove, ClaimRest, Yields, Held, Told, Bears,
       Aged, JobTyped, Jobs
<1>10. ASSUME CheckBaseline PROVE Aged'
  <2>1. CheckBaselineMove
    BY <1>10, CheckBaselineMoves
  <2>2. CheckBaselineRest
    BY <1>10, CheckBaselineRests
  <2> QED
    BY <2>1, <2>2, BoundsAssumption DEF CheckBaselineMove, CheckBaselineRest, Yields,
       Held, Told, Aged, JobTyped, Jobs
<1>11. ASSUME ScanScope PROVE Aged'
  <2>1. ScanScopeMove
    BY <1>11, ScanScopeMoves
  <2>2. ScanScopeRest
    BY <1>11, ScanScopeRests
  <2> QED
    BY <2>1, <2>2, BoundsAssumption DEF ScanScopeMove, ScanScopeRest, Yields, Held, Told,
       Aged, JobTyped, Jobs
<1>12. ASSUME TakeNarrow PROVE Aged'
  <2>1. TakeNarrowMove
    BY <1>12, TakeNarrowMoves
  <2>2. TakeNarrowRest
    BY <1>12, TakeNarrowRests
  <2> QED
    BY <2>1, <2>2, BoundsAssumption DEF TakeNarrowMove, TakeNarrowRest, Yields, Held,
       Told, Aged, JobTyped, Jobs
<1>13. ASSUME MakeStage PROVE Aged'
  <2>1. MakeStageMove
    BY <1>13, MakeStageMoves
  <2>2. MakeStageRest
    BY <1>13, MakeStageRests
  <2> QED
    BY <2>1, <2>2, BoundsAssumption DEF MakeStageMove, MakeStageRest, Yields, Held, Told,
       Aged, JobTyped, Jobs
<1>14. ASSUME NEW q \in Read, CopyFile(q) PROVE Aged'
  <2>1. CopyFileMove(q)
    BY <1>14, CopyFileMoves
  <2>2. CopyFileRest(q)
    BY <1>14, CopyFileRests
  <2> QED
    BY <2>1, <2>2, BoundsAssumption DEF CopyFileMove, CopyFileRest, Yields, Held, Told,
       Aged, JobTyped, Jobs
<1>15. ASSUME Rescan PROVE Aged'
  <2>1. RescanMove
    BY <1>15, RescanMoves
  <2>2. RescanRest
    BY <1>15, RescanRests
  <2> QED
    BY <2>1, <2>2, BoundsAssumption DEF RescanMove, RescanRest, Yields, Held, Told, Aged,
       JobTyped, Jobs
<1>16. ASSUME GiveUpStage PROVE Aged'
  <2>1. GiveUpStageMove
    BY <1>16, GiveUpStageMoves
  <2>2. GiveUpStageRest
    BY <1>16, GiveUpStageRests
  <2> QED
    BY <2>1, <2>2, BoundsAssumption DEF GiveUpStageMove, GiveUpStageRest, Yields, Held, Told,
       Aged,
       JobTyped, Jobs
<1>17. ASSUME AbandonStage PROVE Aged'
  <2>1. AbandonStageMove
    BY <1>17, AbandonStageMoves
  <2>2. AbandonStageRest
    BY <1>17, AbandonStageRests
  <2> QED
    BY <2>1, <2>2, BoundsAssumption DEF AbandonStageMove, AbandonStageRest, Yields, Held, Told,
       Aged,
       JobTyped, Jobs
<1>18. ASSUME Launch PROVE Aged'
  <2>1. LaunchMove
    BY <1>18, LaunchMoves
  <2>2. LaunchRest
    BY <1>18, LaunchRests
  <2> QED
    BY <2>1, <2>2, BoundsAssumption DEF LaunchMove, LaunchRest, Yields, Held, Told, Bears,
       Turns, Aged, JobTyped, Jobs
<1>19. ASSUME NEW q \in Paths, NEW b \in Bodies \cup {Absent, Link}, ProviderWrites(q, b)
       PROVE Aged'
  BY <1>19, BoundsAssumption DEF ProviderWrites, Aged, JobTyped, Jobs
<1>20. ASSUME NEW r \in Reports \cup {"none"}, NEW s \in Terminal, NEW d \in {"exact", "wrong"},
            ProviderEnds(r, s, d) PROVE Aged'
  <2>1. ProviderEndsMove(r, s, d)
    BY <1>20, ProviderEndsMoves
  <2>2. ProviderEndsRest(r, s, d)
    BY <1>20, ProviderEndsRests
  <2> QED
    BY <2>1, <2>2, BoundsAssumption DEF ProviderEndsMove, ProviderEndsRest, Yields, Held,
       Told, Bears, Aged, JobTyped, Jobs
<1>21. ASSUME CompareNarrow PROVE Aged'
  <2>1. CompareNarrowMove
    BY <1>21, CompareNarrowMoves
  <2>2. CompareNarrowRest
    BY <1>21, CompareNarrowRests
  <2> QED
    BY <2>1, <2>2, BoundsAssumption DEF CompareNarrowMove, CompareNarrowRest, Yields,
       Held, Told, Aged, JobTyped, Jobs
<1>22. ASSUME ScanMutations PROVE Aged'
  <2>1. ScanMutationsMove
    BY <1>22, ScanMutationsMoves
  <2>2. ScanMutationsRest
    BY <1>22, ScanMutationsRests
  <2> QED
    BY <2>1, <2>2, BoundsAssumption DEF ScanMutationsMove, ScanMutationsRest, Yields,
       Held, Told, Aged, JobTyped, Jobs
<1>23. ASSUME Reconcile PROVE Aged'
  <2>1. ReconcileMove
    BY <1>23, ReconcileMoves
  <2>2. ReconcileRest
    BY <1>23, ReconcileRests
  <2> QED
    BY <2>1, <2>2, BoundsAssumption DEF ReconcileMove, ReconcileRest, Yields, Held, Told,
       Aged, JobTyped, Jobs
<1>24. ASSUME MatchStage PROVE Aged'
  <2>1. MatchStageMove
    BY <1>24, MatchStageMoves
  <2>2. MatchStageRest
    BY <1>24, MatchStageRests
  <2> QED
    BY <2>1, <2>2, BoundsAssumption DEF MatchStageMove, MatchStageRest, Yields, Held,
       Told, Aged, JobTyped, Jobs
<1>25. ASSUME CleanStage PROVE Aged'
  <2>1. CleanStageMove
    BY <1>25, CleanStageMoves
  <2>2. CleanStageRest
    BY <1>25, CleanStageRests
  <2> QED
    BY <2>1, <2>2, BoundsAssumption DEF CleanStageMove, CleanStageRest, Yields, Held,
       Told, Aged, JobTyped, Jobs
<1>26. ASSUME RemoveStage PROVE Aged'
  <2>1. RemoveStageMove
    BY <1>26, RemoveStageMoves
  <2>2. RemoveStageRest
    BY <1>26, RemoveStageRests
  <2> QED
    BY <2>1, <2>2, BoundsAssumption DEF RemoveStageMove, RemoveStageRest, Yields, Held,
       Told, Aged, JobTyped, Jobs
<1>27. ASSUME ObserveCancel PROVE Aged'
  <2>1. ObserveCancelMove
    BY <1>27, ObserveCancelMoves
  <2>2. ObserveCancelRest
    BY <1>27, ObserveCancelRests
  <2> QED
    BY <2>1, <2>2, BoundsAssumption DEF ObserveCancelMove, ObserveCancelRest, Yields,
       Held, Told, Aged, JobTyped, Jobs
<1>28. ASSUME TakeCandidate PROVE Aged'
  <2>1. TakeCandidateMove
    BY <1>28, TakeCandidateMoves
  <2>2. TakeCandidateRest
    BY <1>28, TakeCandidateRests
  <2> QED
    BY <2>1, <2>2, BoundsAssumption DEF TakeCandidateMove, TakeCandidateRest, Yields,
       Held, Told, Aged, JobTyped, Jobs
<1>29. ASSUME Derive PROVE Aged'
  <2>1. DeriveMove
    BY <1>29, DeriveMoves
  <2>2. DeriveRest
    BY <1>29, DeriveRests
  <2> QED
    BY <2>1, <2>2, BoundsAssumption DEF DeriveMove, DeriveRest, Yields, Held, Told, Aged,
       JobTyped, Jobs
<1>30. ASSUME Publish PROVE Aged'
  <2>1. PublishMove
    BY <1>30, PublishMoves
  <2>2. PublishRest
    BY <1>30, PublishRests
  <2> QED
    BY <2>1, <2>2, BoundsAssumption DEF PublishMove, PublishRest, Yields, Held, Told,
       Bears, NoController, Terminal, Aged, JobTyped, Jobs
<1>31. ASSUME Kill PROVE Aged'
  <2>1. KillMove
    BY <1>31, KillMoves
  <2> QED
    BY <2>1, BoundsAssumption DEF KillMove, Held, Told, Bears, NoController, Aged,
       JobTyped, Jobs
<1>32. ASSUME Break PROVE Aged'
  <2>1. BreakMove
    BY <1>32, BreakMoves
  <2> QED
    BY <2>1, BoundsAssumption DEF BreakMove, Held, Told, Bears, NoController, Aged,
       JobTyped, Jobs
<1>33. CASE UNCHANGED vars
  BY <1>33 DEF vars, Aged, JobTyped, Jobs
<1> QED
  BY <1>1, <1>2, <1>3, <1>4, <1>5, <1>6, <1>7, <1>8, <1>9, <1>10, <1>11, <1>12, <1>13,
     <1>14, <1>15, <1>16, <1>17, <1>18, <1>19, <1>20, <1>21, <1>22, <1>23, <1>24, <1>25,
     <1>26, <1>27, <1>28, <1>29, <1>30, <1>31, <1>32, <1>33 DEF Next

\* A reconciliation is known only after it was made.
LEMMA OrderStep ==
  ASSUME InOrder, SourceOK, JobTyped, MakerOK, ControllerOK, StageOK, Handled, Counted,
         [Next]_vars
  PROVE  InOrder'
<1>1. ASSUME NEW q \in Paths, NEW b \in Bodies \cup {Absent}, Edit(q, b) PROVE InOrder'
  BY <1>1 DEF Edit, InOrder, CopyPcs
<1>2. ASSUME Meddle PROVE InOrder'
  BY <1>2 DEF Meddle, InOrder, CopyPcs
<1>3. ASSUME BeginInitial PROVE InOrder'
  BY <1>3 DEF BeginInitial, InOrder, CopyPcs
<1>4. ASSUME NEW o \in Origins, Begin(o) PROVE InOrder'
  BY <1>4 DEF Begin, InOrder, CopyPcs
<1>5. ASSUME TakeBaseline PROVE InOrder'
  BY <1>5 DEF TakeBaseline, InOrder, CopyPcs
<1>6. ASSUME Record PROVE InOrder'
  <2>1. RecordMove
    BY <1>6, RecordMoves
  <2>2. RecordRest
    BY <1>6, RecordRests
  <2> QED
    BY <2>1, <2>2 DEF RecordMove, RecordRest, Yields, Held, Told, Bears, InOrder, CopyPcs
<1>7. ASSUME RefuseRecord PROVE InOrder'
  BY <1>7 DEF RefuseRecord, InOrder, CopyPcs
<1>8. ASSUME Cancel PROVE InOrder'
  <2>1. CancelMove
    BY <1>8, CancelMoves
  <2>2. CancelRest
    BY <1>8, CancelRests
  <2> QED
    BY <2>1, <2>2 DEF CancelMove, CancelRest, Yields, Held, Told, Bears, InOrder, CopyPcs
<1>9. ASSUME Claim PROVE InOrder'
  <2>1. ClaimMove
    BY <1>9, ClaimMoves
  <2>2. ClaimRest
    BY <1>9, ClaimRests
  <2> QED
    BY <2>1, <2>2 DEF ClaimMove, ClaimRest, Yields, Held, Told, Bears, InOrder, CopyPcs
<1>10. ASSUME CheckBaseline PROVE InOrder'
  <2>1. CheckBaselineMove
    BY <1>10, CheckBaselineMoves
  <2>2. CheckBaselineRest
    BY <1>10, CheckBaselineRests
  <2> QED
    BY <2>1, <2>2 DEF CheckBaselineMove, CheckBaselineRest, Yields, Held, Told, InOrder,
       CopyPcs
<1>11. ASSUME ScanScope PROVE InOrder'
  <2>1. ScanScopeMove
    BY <1>11, ScanScopeMoves
  <2>2. ScanScopeRest
    BY <1>11, ScanScopeRests
  <2> QED
    BY <2>1, <2>2 DEF ScanScopeMove, ScanScopeRest, Yields, Held, Told, InOrder, CopyPcs
<1>12. ASSUME TakeNarrow PROVE InOrder'
  <2>1. TakeNarrowMove
    BY <1>12, TakeNarrowMoves
  <2>2. TakeNarrowRest
    BY <1>12, TakeNarrowRests
  <2> QED
    BY <2>1, <2>2 DEF TakeNarrowMove, TakeNarrowRest, Yields, Held, Told, InOrder, CopyPcs
<1>13. ASSUME MakeStage PROVE InOrder'
  <2>1. MakeStageMove
    BY <1>13, MakeStageMoves
  <2>2. MakeStageRest
    BY <1>13, MakeStageRests
  <2> QED
    BY <2>1, <2>2 DEF MakeStageMove, MakeStageRest, Yields, Held, Told, InOrder, CopyPcs
<1>14. ASSUME NEW q \in Read, CopyFile(q) PROVE InOrder'
  <2>1. CopyFileMove(q)
    BY <1>14, CopyFileMoves
  <2>2. CopyFileRest(q)
    BY <1>14, CopyFileRests
  <2> QED
    BY <2>1, <2>2 DEF CopyFileMove, CopyFileRest, Yields, Held, Told, InOrder, CopyPcs
<1>15. ASSUME Rescan PROVE InOrder'
  <2>1. RescanMove
    BY <1>15, RescanMoves
  <2>2. RescanRest
    BY <1>15, RescanRests
  <2> QED
    BY <2>1, <2>2 DEF RescanMove, RescanRest, Yields, Held, Told, InOrder, CopyPcs
<1>16. ASSUME GiveUpStage PROVE InOrder'
  <2>1. GiveUpStageMove
    BY <1>16, GiveUpStageMoves
  <2>2. GiveUpStageRest
    BY <1>16, GiveUpStageRests
  <2> QED
    BY <2>1, <2>2 DEF GiveUpStageMove, GiveUpStageRest, Yields, Held, Told, InOrder, CopyPcs
<1>17. ASSUME AbandonStage PROVE InOrder'
  <2>1. AbandonStageMove
    BY <1>17, AbandonStageMoves
  <2>2. AbandonStageRest
    BY <1>17, AbandonStageRests
  <2> QED
    BY <2>1, <2>2 DEF AbandonStageMove, AbandonStageRest, Yields, Held, Told, InOrder, CopyPcs
<1>18. ASSUME Launch PROVE InOrder'
  <2>1. LaunchMove
    BY <1>18, LaunchMoves
  <2>2. LaunchRest
    BY <1>18, LaunchRests
  <2> QED
    BY <2>1, <2>2 DEF LaunchMove, LaunchRest, Yields, Held, Told, Bears, InOrder, CopyPcs
<1>19. ASSUME NEW q \in Paths, NEW b \in Bodies \cup {Absent, Link}, ProviderWrites(q, b)
       PROVE InOrder'
  BY <1>19 DEF ProviderWrites, InOrder, CopyPcs
<1>20. ASSUME NEW r \in Reports \cup {"none"}, NEW s \in Terminal, NEW d \in {"exact", "wrong"},
            ProviderEnds(r, s, d) PROVE InOrder'
  <2>1. ProviderEndsMove(r, s, d)
    BY <1>20, ProviderEndsMoves
  <2>2. ProviderEndsRest(r, s, d)
    BY <1>20, ProviderEndsRests
  <2> QED
    BY <2>1, <2>2 DEF ProviderEndsMove, ProviderEndsRest, Yields, Held, Told, Bears,
       InOrder, CopyPcs
<1>21. ASSUME CompareNarrow PROVE InOrder'
  <2>1. CompareNarrowMove
    BY <1>21, CompareNarrowMoves
  <2>2. CompareNarrowRest
    BY <1>21, CompareNarrowRests
  <2> QED
    BY <2>1, <2>2 DEF CompareNarrowMove, CompareNarrowRest, Yields, Held, Told, InOrder,
       CopyPcs
<1>22. ASSUME ScanMutations PROVE InOrder'
  <2>1. ScanMutationsMove
    BY <1>22, ScanMutationsMoves
  <2>2. ScanMutationsRest
    BY <1>22, ScanMutationsRests
  <2> QED
    BY <2>1, <2>2 DEF ScanMutationsMove, ScanMutationsRest, Yields, Held, Told, InOrder,
       CopyPcs
<1>23. ASSUME Reconcile PROVE InOrder'
  <2>1. ReconcileMove
    BY <1>23, ReconcileMoves
  <2>2. ReconcileRest
    BY <1>23, ReconcileRests
  <2> QED
    BY <2>1, <2>2 DEF ReconcileMove, ReconcileRest, Yields, Held, Told, InOrder, CopyPcs
<1>24. ASSUME MatchStage PROVE InOrder'
  <2>1. MatchStageMove
    BY <1>24, MatchStageMoves
  <2>2. MatchStageRest
    BY <1>24, MatchStageRests
  <2> QED
    BY <2>1, <2>2 DEF MatchStageMove, MatchStageRest, Yields, Held, Told, InOrder, CopyPcs
<1>25. ASSUME CleanStage PROVE InOrder'
  <2>1. CleanStageMove
    BY <1>25, CleanStageMoves
  <2>2. CleanStageRest
    BY <1>25, CleanStageRests
  <2> QED
    BY <2>1, <2>2 DEF CleanStageMove, CleanStageRest, Yields, Held, Told, InOrder, CopyPcs
<1>26. ASSUME RemoveStage PROVE InOrder'
  <2>1. RemoveStageMove
    BY <1>26, RemoveStageMoves
  <2>2. RemoveStageRest
    BY <1>26, RemoveStageRests
  <2> QED
    BY <2>1, <2>2 DEF RemoveStageMove, RemoveStageRest, Yields, Held, Told, InOrder, CopyPcs
<1>27. ASSUME ObserveCancel PROVE InOrder'
  <2>1. ObserveCancelMove
    BY <1>27, ObserveCancelMoves
  <2>2. ObserveCancelRest
    BY <1>27, ObserveCancelRests
  <2> QED
    BY <2>1, <2>2 DEF ObserveCancelMove, ObserveCancelRest, Yields, Held, Told, InOrder,
       CopyPcs
<1>28. ASSUME TakeCandidate PROVE InOrder'
  <2>1. TakeCandidateMove
    BY <1>28, TakeCandidateMoves
  <2>2. TakeCandidateRest
    BY <1>28, TakeCandidateRests
  <2> QED
    BY <2>1, <2>2 DEF TakeCandidateMove, TakeCandidateRest, Yields, Held, Told, InOrder,
       CopyPcs
<1>29. ASSUME Derive PROVE InOrder'
  <2>1. DeriveMove
    BY <1>29, DeriveMoves
  <2>2. DeriveRest
    BY <1>29, DeriveRests
  <2> QED
    BY <2>1, <2>2 DEF DeriveMove, DeriveRest, Yields, Held, Told, InOrder, CopyPcs
<1>30. ASSUME Publish PROVE InOrder'
  <2>1. PublishMove
    BY <1>30, PublishMoves
  <2>2. PublishRest
    BY <1>30, PublishRests
  <2> QED
    BY <2>1, <2>2 DEF PublishMove, PublishRest, Yields, Held, Told, Bears, NoController,
       InOrder, CopyPcs
<1>31. ASSUME Kill PROVE InOrder'
  <2>1. KillMove
    BY <1>31, KillMoves
  <2> QED
    BY <2>1 DEF KillMove, Held, Told, Bears, NoController, InOrder, CopyPcs
<1>32. ASSUME Break PROVE InOrder'
  <2>1. BreakMove
    BY <1>32, BreakMoves
  <2> QED
    BY <2>1 DEF BreakMove, Held, Told, Bears, NoController, InOrder, CopyPcs
<1>33. CASE UNCHANGED vars
  BY <1>33 DEF vars, InOrder, CopyPcs
<1> QED
  BY <1>1, <1>2, <1>3, <1>4, <1>5, <1>6, <1>7, <1>8, <1>9, <1>10, <1>11, <1>12, <1>13,
     <1>14, <1>15, <1>16, <1>17, <1>18, <1>19, <1>20, <1>21, <1>22, <1>23, <1>24, <1>25,
     <1>26, <1>27, <1>28, <1>29, <1>30, <1>31, <1>32, <1>33 DEF Next

\* What was matched in a worktree left alone is still there.
LEMMA MatchedStep ==
  ASSUME Matched, InOrder, SourceOK, JobTyped, MakerOK, ControllerOK, StageOK, Handled,
         Counted, [Next]_vars
  PROVE  Matched'
<1>1. ASSUME NEW q \in Paths, NEW b \in Bodies \cup {Absent}, Edit(q, b) PROVE Matched'
  BY <1>1 DEF Edit, Matched, InOrder, CopyPcs
<1>2. ASSUME Meddle PROVE Matched'
  BY <1>2 DEF Meddle, Matched, InOrder, CopyPcs
<1>3. ASSUME BeginInitial PROVE Matched'
  BY <1>3 DEF BeginInitial, Matched, InOrder, CopyPcs
<1>4. ASSUME NEW o \in Origins, Begin(o) PROVE Matched'
  BY <1>4 DEF Begin, Matched, InOrder, CopyPcs
<1>5. ASSUME TakeBaseline PROVE Matched'
  BY <1>5 DEF TakeBaseline, Matched, InOrder, CopyPcs
<1>6. ASSUME Record PROVE Matched'
  <2>1. RecordMove
    BY <1>6, RecordMoves
  <2>2. RecordRest
    BY <1>6, RecordRests
  <2> QED
    BY <2>1, <2>2 DEF RecordMove, RecordRest, Yields, Held, Told, Bears, Matched, InOrder,
       CopyPcs
<1>7. ASSUME RefuseRecord PROVE Matched'
  BY <1>7 DEF RefuseRecord, Matched, InOrder, CopyPcs
<1>8. ASSUME Cancel PROVE Matched'
  <2>1. CancelMove
    BY <1>8, CancelMoves
  <2>2. CancelRest
    BY <1>8, CancelRests
  <2> QED
    BY <2>1, <2>2 DEF CancelMove, CancelRest, Yields, Held, Told, Bears, Matched, InOrder,
       CopyPcs
<1>9. ASSUME Claim PROVE Matched'
  <2>1. ClaimMove
    BY <1>9, ClaimMoves
  <2>2. ClaimRest
    BY <1>9, ClaimRests
  <2> QED
    BY <2>1, <2>2 DEF ClaimMove, ClaimRest, Yields, Held, Told, Bears, Matched, InOrder,
       CopyPcs
<1>10. ASSUME CheckBaseline PROVE Matched'
  <2>1. CheckBaselineMove
    BY <1>10, CheckBaselineMoves
  <2>2. CheckBaselineRest
    BY <1>10, CheckBaselineRests
  <2> QED
    BY <2>1, <2>2 DEF CheckBaselineMove, CheckBaselineRest, Yields, Held, Told, Matched,
       InOrder, CopyPcs
<1>11. ASSUME ScanScope PROVE Matched'
  <2>1. ScanScopeMove
    BY <1>11, ScanScopeMoves
  <2>2. ScanScopeRest
    BY <1>11, ScanScopeRests
  <2> QED
    BY <2>1, <2>2 DEF ScanScopeMove, ScanScopeRest, Yields, Held, Told, Matched, InOrder,
       CopyPcs
<1>12. ASSUME TakeNarrow PROVE Matched'
  <2>1. TakeNarrowMove
    BY <1>12, TakeNarrowMoves
  <2>2. TakeNarrowRest
    BY <1>12, TakeNarrowRests
  <2> QED
    BY <2>1, <2>2 DEF TakeNarrowMove, TakeNarrowRest, Yields, Held, Told, Matched,
       InOrder, CopyPcs
<1>13. ASSUME MakeStage PROVE Matched'
  <2>1. MakeStageMove
    BY <1>13, MakeStageMoves
  <2>2. MakeStageRest
    BY <1>13, MakeStageRests
  <2> QED
    BY <2>1, <2>2 DEF MakeStageMove, MakeStageRest, Yields, Held, Told, Matched, InOrder,
       CopyPcs
<1>14. ASSUME NEW q \in Read, CopyFile(q) PROVE Matched'
  <2>1. CopyFileMove(q)
    BY <1>14, CopyFileMoves
  <2>2. CopyFileRest(q)
    BY <1>14, CopyFileRests
  <2> QED
    BY <2>1, <2>2 DEF CopyFileMove, CopyFileRest, Yields, Held, Told, Matched, InOrder,
       CopyPcs
<1>15. ASSUME Rescan PROVE Matched'
  <2>1. RescanMove
    BY <1>15, RescanMoves
  <2>2. RescanRest
    BY <1>15, RescanRests
  <2> QED
    BY <2>1, <2>2 DEF RescanMove, RescanRest, Yields, Held, Told, Matched, InOrder,
       CopyPcs
<1>16. ASSUME GiveUpStage PROVE Matched'
  <2>1. GiveUpStageMove
    BY <1>16, GiveUpStageMoves
  <2>2. GiveUpStageRest
    BY <1>16, GiveUpStageRests
  <2> QED
    BY <2>1, <2>2 DEF GiveUpStageMove, GiveUpStageRest, Yields, Held, Told, Matched, InOrder,
       CopyPcs
<1>17. ASSUME AbandonStage PROVE Matched'
  <2>1. AbandonStageMove
    BY <1>17, AbandonStageMoves
  <2>2. AbandonStageRest
    BY <1>17, AbandonStageRests
  <2> QED
    BY <2>1, <2>2 DEF AbandonStageMove, AbandonStageRest, Yields, Held, Told, Matched, InOrder,
       CopyPcs
<1>18. ASSUME Launch PROVE Matched'
  <2>1. LaunchMove
    BY <1>18, LaunchMoves
  <2>2. LaunchRest
    BY <1>18, LaunchRests
  <2> QED
    BY <2>1, <2>2 DEF LaunchMove, LaunchRest, Yields, Held, Told, Bears, Matched, InOrder,
       CopyPcs
<1>19. ASSUME NEW q \in Paths, NEW b \in Bodies \cup {Absent, Link}, ProviderWrites(q, b)
       PROVE Matched'
  BY <1>19 DEF ProviderWrites, Matched, InOrder, CopyPcs
<1>20. ASSUME NEW r \in Reports \cup {"none"}, NEW s \in Terminal, NEW d \in {"exact", "wrong"},
            ProviderEnds(r, s, d) PROVE Matched'
  <2>1. ProviderEndsMove(r, s, d)
    BY <1>20, ProviderEndsMoves
  <2>2. ProviderEndsRest(r, s, d)
    BY <1>20, ProviderEndsRests
  <2> QED
    BY <2>1, <2>2 DEF ProviderEndsMove, ProviderEndsRest, Yields, Held, Told, Bears,
       Matched, InOrder, CopyPcs
<1>21. ASSUME CompareNarrow PROVE Matched'
  <2>1. CompareNarrowMove
    BY <1>21, CompareNarrowMoves
  <2>2. CompareNarrowRest
    BY <1>21, CompareNarrowRests
  <2> QED
    BY <2>1, <2>2 DEF CompareNarrowMove, CompareNarrowRest, Yields, Held, Told, Matched,
       InOrder, CopyPcs
<1>22. ASSUME ScanMutations PROVE Matched'
  <2>1. ScanMutationsMove
    BY <1>22, ScanMutationsMoves
  <2>2. ScanMutationsRest
    BY <1>22, ScanMutationsRests
  <2> QED
    BY <2>1, <2>2 DEF ScanMutationsMove, ScanMutationsRest, Yields, Held, Told, Matched,
       InOrder, CopyPcs
<1>23. ASSUME Reconcile PROVE Matched'
  <2>1. ReconcileMove
    BY <1>23, ReconcileMoves
  <2>2. ReconcileRest
    BY <1>23, ReconcileRests
  <2> QED
    BY <2>1, <2>2 DEF ReconcileMove, ReconcileRest, Yields, Held, Told, Matched, InOrder,
       CopyPcs
<1>24. ASSUME MatchStage PROVE Matched'
  <2>1. MatchStageMove
    BY <1>24, MatchStageMoves
  <2>2. MatchStageRest
    BY <1>24, MatchStageRests
  <2> QED
    BY <2>1, <2>2 DEF MatchStageMove, MatchStageRest, Yields, Held, Told, Matched,
       InOrder, CopyPcs
<1>25. ASSUME CleanStage PROVE Matched'
  <2>1. CleanStageMove
    BY <1>25, CleanStageMoves
  <2>2. CleanStageRest
    BY <1>25, CleanStageRests
  <2> QED
    BY <2>1, <2>2 DEF CleanStageMove, CleanStageRest, Yields, Held, Told,
       Matched, InOrder, CopyPcs
<1>26. ASSUME RemoveStage PROVE Matched'
  <2>1. RemoveStageMove
    BY <1>26, RemoveStageMoves
  <2>2. RemoveStageRest
    BY <1>26, RemoveStageRests
  <2> QED
    BY <2>1, <2>2 DEF RemoveStageMove, RemoveStageRest, Yields, Held, Told, CleanupFailed,
       Matched, InOrder, CopyPcs
<1>27. ASSUME ObserveCancel PROVE Matched'
  <2>1. ObserveCancelMove
    BY <1>27, ObserveCancelMoves
  <2>2. ObserveCancelRest
    BY <1>27, ObserveCancelRests
  <2> QED
    BY <2>1, <2>2 DEF ObserveCancelMove, ObserveCancelRest, Yields, Held, Told, Matched,
       InOrder, CopyPcs
<1>28. ASSUME TakeCandidate PROVE Matched'
  <2>1. TakeCandidateMove
    BY <1>28, TakeCandidateMoves
  <2>2. TakeCandidateRest
    BY <1>28, TakeCandidateRests
  <2> QED
    BY <2>1, <2>2 DEF TakeCandidateMove, TakeCandidateRest, Yields, Held, Told, Matched,
       InOrder, CopyPcs
<1>29. ASSUME Derive PROVE Matched'
  <2>1. DeriveMove
    BY <1>29, DeriveMoves
  <2>2. DeriveRest
    BY <1>29, DeriveRests
  <2> QED
    BY <2>1, <2>2 DEF DeriveMove, DeriveRest, Yields, Held, Told, Matched, InOrder,
       CopyPcs
<1>30. ASSUME Publish PROVE Matched'
  <2>1. PublishMove
    BY <1>30, PublishMoves
  <2>2. PublishRest
    BY <1>30, PublishRests
  <2> QED
    BY <2>1, <2>2 DEF PublishMove, PublishRest, Yields, Held, Told, Bears, NoController,
       Matched, InOrder, CopyPcs
<1>31. ASSUME Kill PROVE Matched'
  <2>1. KillMove
    BY <1>31, KillMoves
  <2> QED
    BY <2>1 DEF KillMove, Held, Told, Bears, NoController, Matched, InOrder, CopyPcs
<1>32. ASSUME Break PROVE Matched'
  <2>1. BreakMove
    BY <1>32, BreakMoves
  <2> QED
    BY <2>1 DEF BreakMove, Held, Told, Bears, NoController, Matched, InOrder, CopyPcs
<1>33. CASE UNCHANGED vars
  BY <1>33 DEF vars, Matched, InOrder, CopyPcs
<1> QED
  BY <1>1, <1>2, <1>3, <1>4, <1>5, <1>6, <1>7, <1>8, <1>9, <1>10, <1>11, <1>12, <1>13,
     <1>14, <1>15, <1>16, <1>17, <1>18, <1>19, <1>20, <1>21, <1>22, <1>23, <1>24, <1>25,
     <1>26, <1>27, <1>28, <1>29, <1>30, <1>31, <1>32, <1>33 DEF Next

\* And so is the candidate.
LEMMA TakenStep ==
  ASSUME Taken, InOrder, SourceOK, JobTyped, MakerOK, ControllerOK, StageOK, Handled,
         Counted, [Next]_vars
  PROVE  Taken'
<1>1. ASSUME NEW q \in Paths, NEW b \in Bodies \cup {Absent}, Edit(q, b) PROVE Taken'
  BY <1>1 DEF Edit, Taken, InOrder, CopyPcs
<1>2. ASSUME Meddle PROVE Taken'
  BY <1>2 DEF Meddle, Taken, InOrder, CopyPcs
<1>3. ASSUME BeginInitial PROVE Taken'
  BY <1>3 DEF BeginInitial, Taken, InOrder, CopyPcs
<1>4. ASSUME NEW o \in Origins, Begin(o) PROVE Taken'
  BY <1>4 DEF Begin, Taken, InOrder, CopyPcs
<1>5. ASSUME TakeBaseline PROVE Taken'
  BY <1>5 DEF TakeBaseline, Taken, InOrder, CopyPcs
<1>6. ASSUME Record PROVE Taken'
  <2>1. RecordMove
    BY <1>6, RecordMoves
  <2>2. RecordRest
    BY <1>6, RecordRests
  <2> QED
    BY <2>1, <2>2 DEF RecordMove, RecordRest, Yields, Held, Told, Bears, Taken, InOrder,
       CopyPcs
<1>7. ASSUME RefuseRecord PROVE Taken'
  BY <1>7 DEF RefuseRecord, Taken, InOrder, CopyPcs
<1>8. ASSUME Cancel PROVE Taken'
  <2>1. CancelMove
    BY <1>8, CancelMoves
  <2>2. CancelRest
    BY <1>8, CancelRests
  <2> QED
    BY <2>1, <2>2 DEF CancelMove, CancelRest, Yields, Held, Told, Bears, Taken, InOrder,
       CopyPcs
<1>9. ASSUME Claim PROVE Taken'
  <2>1. ClaimMove
    BY <1>9, ClaimMoves
  <2>2. ClaimRest
    BY <1>9, ClaimRests
  <2> QED
    BY <2>1, <2>2 DEF ClaimMove, ClaimRest, Yields, Held, Told, Bears, Taken, InOrder,
       CopyPcs
<1>10. ASSUME CheckBaseline PROVE Taken'
  <2>1. CheckBaselineMove
    BY <1>10, CheckBaselineMoves
  <2>2. CheckBaselineRest
    BY <1>10, CheckBaselineRests
  <2> QED
    BY <2>1, <2>2 DEF CheckBaselineMove, CheckBaselineRest, Yields, Held, Told, Taken,
       InOrder, CopyPcs
<1>11. ASSUME ScanScope PROVE Taken'
  <2>1. ScanScopeMove
    BY <1>11, ScanScopeMoves
  <2>2. ScanScopeRest
    BY <1>11, ScanScopeRests
  <2> QED
    BY <2>1, <2>2 DEF ScanScopeMove, ScanScopeRest, Yields, Held, Told, Taken, InOrder,
       CopyPcs
<1>12. ASSUME TakeNarrow PROVE Taken'
  <2>1. TakeNarrowMove
    BY <1>12, TakeNarrowMoves
  <2>2. TakeNarrowRest
    BY <1>12, TakeNarrowRests
  <2> QED
    BY <2>1, <2>2 DEF TakeNarrowMove, TakeNarrowRest, Yields, Held, Told, Taken, InOrder,
       CopyPcs
<1>13. ASSUME MakeStage PROVE Taken'
  <2>1. MakeStageMove
    BY <1>13, MakeStageMoves
  <2>2. MakeStageRest
    BY <1>13, MakeStageRests
  <2> QED
    BY <2>1, <2>2 DEF MakeStageMove, MakeStageRest, Yields, Held, Told, Taken, InOrder,
       CopyPcs
<1>14. ASSUME NEW q \in Read, CopyFile(q) PROVE Taken'
  <2>1. CopyFileMove(q)
    BY <1>14, CopyFileMoves
  <2>2. CopyFileRest(q)
    BY <1>14, CopyFileRests
  <2> QED
    BY <2>1, <2>2 DEF CopyFileMove, CopyFileRest, Yields, Held, Told, Taken, InOrder,
       CopyPcs
<1>15. ASSUME Rescan PROVE Taken'
  <2>1. RescanMove
    BY <1>15, RescanMoves
  <2>2. RescanRest
    BY <1>15, RescanRests
  <2> QED
    BY <2>1, <2>2 DEF RescanMove, RescanRest, Yields, Held, Told, Taken, InOrder, CopyPcs
<1>16. ASSUME GiveUpStage PROVE Taken'
  <2>1. GiveUpStageMove
    BY <1>16, GiveUpStageMoves
  <2>2. GiveUpStageRest
    BY <1>16, GiveUpStageRests
  <2> QED
    BY <2>1, <2>2 DEF GiveUpStageMove, GiveUpStageRest, Yields, Held, Told, Taken, InOrder,
       CopyPcs
<1>17. ASSUME AbandonStage PROVE Taken'
  <2>1. AbandonStageMove
    BY <1>17, AbandonStageMoves
  <2>2. AbandonStageRest
    BY <1>17, AbandonStageRests
  <2> QED
    BY <2>1, <2>2 DEF AbandonStageMove, AbandonStageRest, Yields, Held, Told, Taken, InOrder,
       CopyPcs
<1>18. ASSUME Launch PROVE Taken'
  <2>1. LaunchMove
    BY <1>18, LaunchMoves
  <2>2. LaunchRest
    BY <1>18, LaunchRests
  <2> QED
    BY <2>1, <2>2 DEF LaunchMove, LaunchRest, Yields, Held, Told, Bears, Taken, InOrder,
       CopyPcs
<1>19. ASSUME NEW q \in Paths, NEW b \in Bodies \cup {Absent, Link}, ProviderWrites(q, b)
       PROVE Taken'
  BY <1>19 DEF ProviderWrites, Taken, InOrder, CopyPcs
<1>20. ASSUME NEW r \in Reports \cup {"none"}, NEW s \in Terminal, NEW d \in {"exact", "wrong"},
            ProviderEnds(r, s, d) PROVE Taken'
  <2>1. ProviderEndsMove(r, s, d)
    BY <1>20, ProviderEndsMoves
  <2>2. ProviderEndsRest(r, s, d)
    BY <1>20, ProviderEndsRests
  <2> QED
    BY <2>1, <2>2 DEF ProviderEndsMove, ProviderEndsRest, Yields, Held, Told, Bears,
       Taken, InOrder, CopyPcs
<1>21. ASSUME CompareNarrow PROVE Taken'
  <2>1. CompareNarrowMove
    BY <1>21, CompareNarrowMoves
  <2>2. CompareNarrowRest
    BY <1>21, CompareNarrowRests
  <2> QED
    BY <2>1, <2>2 DEF CompareNarrowMove, CompareNarrowRest, Yields, Held, Told, Taken,
       InOrder, CopyPcs
<1>22. ASSUME ScanMutations PROVE Taken'
  <2>1. ScanMutationsMove
    BY <1>22, ScanMutationsMoves
  <2>2. ScanMutationsRest
    BY <1>22, ScanMutationsRests
  <2> QED
    BY <2>1, <2>2 DEF ScanMutationsMove, ScanMutationsRest, Yields, Held, Told, Taken,
       InOrder, CopyPcs
<1>23. ASSUME Reconcile PROVE Taken'
  <2>1. ReconcileMove
    BY <1>23, ReconcileMoves
  <2>2. ReconcileRest
    BY <1>23, ReconcileRests
  <2> QED
    BY <2>1, <2>2 DEF ReconcileMove, ReconcileRest, Yields, Held, Told, Taken, InOrder,
       CopyPcs
<1>24. ASSUME MatchStage PROVE Taken'
  <2>1. MatchStageMove
    BY <1>24, MatchStageMoves
  <2>2. MatchStageRest
    BY <1>24, MatchStageRests
  <2> QED
    BY <2>1, <2>2 DEF MatchStageMove, MatchStageRest, Yields, Held, Told, Taken, InOrder,
       CopyPcs
<1>25. ASSUME CleanStage PROVE Taken'
  <2>1. CleanStageMove
    BY <1>25, CleanStageMoves
  <2>2. CleanStageRest
    BY <1>25, CleanStageRests
  <2> QED
    BY <2>1, <2>2 DEF CleanStageMove, CleanStageRest, Yields, Held, Told, Taken, InOrder,
       CopyPcs
<1>26. ASSUME RemoveStage PROVE Taken'
  <2>1. RemoveStageMove
    BY <1>26, RemoveStageMoves
  <2>2. RemoveStageRest
    BY <1>26, RemoveStageRests
  <2> QED
    BY <2>1, <2>2 DEF RemoveStageMove, RemoveStageRest, Yields, Held, Told, Taken, InOrder,
       CopyPcs
<1>27. ASSUME ObserveCancel PROVE Taken'
  <2>1. ObserveCancelMove
    BY <1>27, ObserveCancelMoves
  <2>2. ObserveCancelRest
    BY <1>27, ObserveCancelRests
  <2> QED
    BY <2>1, <2>2 DEF ObserveCancelMove, ObserveCancelRest, Yields, Held, Told, Taken,
       InOrder, CopyPcs
<1>28. ASSUME TakeCandidate PROVE Taken'
  <2>1. TakeCandidateMove
    BY <1>28, TakeCandidateMoves
  <2>2. TakeCandidateRest
    BY <1>28, TakeCandidateRests
  <2> QED
    BY <2>1, <2>2 DEF TakeCandidateMove, TakeCandidateRest, Yields, Held, Told, Taken,
       InOrder, CopyPcs
<1>29. ASSUME Derive PROVE Taken'
  <2>1. DeriveMove
    BY <1>29, DeriveMoves
  <2>2. DeriveRest
    BY <1>29, DeriveRests
  <2> QED
    BY <2>1, <2>2 DEF DeriveMove, DeriveRest, Yields, Held, Told, Taken, InOrder, CopyPcs
<1>30. ASSUME Publish PROVE Taken'
  <2>1. PublishMove
    BY <1>30, PublishMoves
  <2>2. PublishRest
    BY <1>30, PublishRests
  <2> QED
    BY <2>1, <2>2 DEF PublishMove, PublishRest, Yields, Held, Told, Bears, NoController,
       Taken, InOrder, CopyPcs
<1>31. ASSUME Kill PROVE Taken'
  <2>1. KillMove
    BY <1>31, KillMoves
  <2> QED
    BY <2>1 DEF KillMove, Held, Told, Bears, NoController, Taken, InOrder, CopyPcs
<1>32. ASSUME Break PROVE Taken'
  <2>1. BreakMove
    BY <1>32, BreakMoves
  <2> QED
    BY <2>1 DEF BreakMove, Held, Told, Bears, NoController, Taken, InOrder, CopyPcs
<1>33. CASE UNCHANGED vars
  BY <1>33 DEF vars, Taken, InOrder, CopyPcs
<1> QED
  BY <1>1, <1>2, <1>3, <1>4, <1>5, <1>6, <1>7, <1>8, <1>9, <1>10, <1>11, <1>12, <1>13,
     <1>14, <1>15, <1>16, <1>17, <1>18, <1>19, <1>20, <1>21, <1>22, <1>23, <1>24, <1>25,
     <1>26, <1>27, <1>28, <1>29, <1>30, <1>31, <1>32, <1>33 DEF Next

\* And what was published of it.
LEMMA KeptStep ==
  ASSUME Kept, InOrder, Matched, Taken, Turns, Aged, Launched, SourceOK, JobTyped, MakerOK,
         ControllerOK, StageOK, Handled, Counted, [Next]_vars
  PROVE  Kept'
<1>1. ASSUME NEW q \in Paths, NEW b \in Bodies \cup {Absent}, Edit(q, b) PROVE Kept'
  BY <1>1 DEF Edit, Kept
<1>2. ASSUME Meddle PROVE Kept'
  BY <1>2 DEF Meddle, Kept
<1>3. ASSUME BeginInitial PROVE Kept'
  BY <1>3 DEF BeginInitial, Kept
<1>4. ASSUME NEW o \in Origins, Begin(o) PROVE Kept'
  BY <1>4 DEF Begin, Kept
<1>5. ASSUME TakeBaseline PROVE Kept'
  BY <1>5 DEF TakeBaseline, Kept
<1>6. ASSUME Record PROVE Kept'
  <2>1. RecordMove
    BY <1>6, RecordMoves
  <2>2. RecordRest
    BY <1>6, RecordRests
  <2> QED
    BY <2>1, <2>2 DEF RecordMove, RecordRest, Yields, Held, Told, Bears, Aged, JobTyped,
       Jobs, Kept
<1>7. ASSUME RefuseRecord PROVE Kept'
  BY <1>7 DEF RefuseRecord, Kept
<1>8. ASSUME Cancel PROVE Kept'
  <2>1. CancelMove
    BY <1>8, CancelMoves
  <2>2. CancelRest
    BY <1>8, CancelRests
  <2> QED
    BY <2>1, <2>2 DEF CancelMove, CancelRest, Yields, Held, Told, Bears, Aged, JobTyped,
       Jobs, Kept
<1>9. ASSUME Claim PROVE Kept'
  <2>1. ClaimMove
    BY <1>9, ClaimMoves
  <2>2. ClaimRest
    BY <1>9, ClaimRests
  <2> QED
    BY <2>1, <2>2 DEF ClaimMove, ClaimRest, Yields, Held, Told, Bears, Aged, JobTyped,
       Jobs, Kept
<1>10. ASSUME CheckBaseline PROVE Kept'
  <2>1. CheckBaselineMove
    BY <1>10, CheckBaselineMoves
  <2>2. CheckBaselineRest
    BY <1>10, CheckBaselineRests
  <2> QED
    BY <2>1, <2>2 DEF CheckBaselineMove, CheckBaselineRest, Yields, Held, Told, Kept
<1>11. ASSUME ScanScope PROVE Kept'
  <2>1. ScanScopeMove
    BY <1>11, ScanScopeMoves
  <2>2. ScanScopeRest
    BY <1>11, ScanScopeRests
  <2> QED
    BY <2>1, <2>2 DEF ScanScopeMove, ScanScopeRest, Yields, Held, Told, Kept
<1>12. ASSUME TakeNarrow PROVE Kept'
  <2>1. TakeNarrowMove
    BY <1>12, TakeNarrowMoves
  <2>2. TakeNarrowRest
    BY <1>12, TakeNarrowRests
  <2> QED
    BY <2>1, <2>2 DEF TakeNarrowMove, TakeNarrowRest, Yields, Held, Told, Kept
<1>13. ASSUME MakeStage PROVE Kept'
  <2>1. MakeStageMove
    BY <1>13, MakeStageMoves
  <2>2. MakeStageRest
    BY <1>13, MakeStageRests
  <2> QED
    BY <2>1, <2>2 DEF MakeStageMove, MakeStageRest, Yields, Held, Told, Kept
<1>14. ASSUME NEW q \in Read, CopyFile(q) PROVE Kept'
  <2>1. CopyFileMove(q)
    BY <1>14, CopyFileMoves
  <2>2. CopyFileRest(q)
    BY <1>14, CopyFileRests
  <2> QED
    BY <2>1, <2>2 DEF CopyFileMove, CopyFileRest, Yields, Held, Told, Kept
<1>15. ASSUME Rescan PROVE Kept'
  <2>1. RescanMove
    BY <1>15, RescanMoves
  <2>2. RescanRest
    BY <1>15, RescanRests
  <2> QED
    BY <2>1, <2>2 DEF RescanMove, RescanRest, Yields, Held, Told, Kept
<1>16. ASSUME GiveUpStage PROVE Kept'
  <2>1. GiveUpStageMove
    BY <1>16, GiveUpStageMoves
  <2>2. GiveUpStageRest
    BY <1>16, GiveUpStageRests
  <2> QED
    BY <2>1, <2>2 DEF GiveUpStageMove, GiveUpStageRest, Yields, Held, Told, Kept
<1>17. ASSUME AbandonStage PROVE Kept'
  <2>1. AbandonStageMove
    BY <1>17, AbandonStageMoves
  <2>2. AbandonStageRest
    BY <1>17, AbandonStageRests
  <2> QED
    BY <2>1, <2>2 DEF AbandonStageMove, AbandonStageRest, Yields, Held, Told, Kept
<1>18. ASSUME Launch PROVE Kept'
  <2>1. LaunchMove
    BY <1>18, LaunchMoves
  <2>2. LaunchRest
    BY <1>18, LaunchRests
  <2> QED
    BY <2>1, <2>2 DEF LaunchMove, LaunchRest, Yields, Held, Told, Bears, Kept
<1>19. ASSUME NEW q \in Paths, NEW b \in Bodies \cup {Absent, Link}, ProviderWrites(q, b)
       PROVE Kept'
  BY <1>19 DEF ProviderWrites, Kept
<1>20. ASSUME NEW r \in Reports \cup {"none"}, NEW s \in Terminal, NEW d \in {"exact", "wrong"},
            ProviderEnds(r, s, d) PROVE Kept'
  <2>1. ProviderEndsMove(r, s, d)
    BY <1>20, ProviderEndsMoves
  <2>2. ProviderEndsRest(r, s, d)
    BY <1>20, ProviderEndsRests
  <2> QED
    BY <2>1, <2>2 DEF ProviderEndsMove, ProviderEndsRest, Yields, Held, Told, Bears, Kept
<1>21. ASSUME CompareNarrow PROVE Kept'
  <2>1. CompareNarrowMove
    BY <1>21, CompareNarrowMoves
  <2>2. CompareNarrowRest
    BY <1>21, CompareNarrowRests
  <2> QED
    BY <2>1, <2>2 DEF CompareNarrowMove, CompareNarrowRest, Yields, Held, Told, Kept
<1>22. ASSUME ScanMutations PROVE Kept'
  <2>1. ScanMutationsMove
    BY <1>22, ScanMutationsMoves
  <2>2. ScanMutationsRest
    BY <1>22, ScanMutationsRests
  <2> QED
    BY <2>1, <2>2 DEF ScanMutationsMove, ScanMutationsRest, Yields, Held, Told, Kept
<1>23. ASSUME Reconcile PROVE Kept'
  <2>1. ReconcileMove
    BY <1>23, ReconcileMoves
  <2>2. ReconcileRest
    BY <1>23, ReconcileRests
  <2> QED
    BY <2>1, <2>2 DEF ReconcileMove, ReconcileRest, Yields, Held, Told, Kept
<1>24. ASSUME MatchStage PROVE Kept'
  <2>1. MatchStageMove
    BY <1>24, MatchStageMoves
  <2>2. MatchStageRest
    BY <1>24, MatchStageRests
  <2> QED
    BY <2>1, <2>2 DEF MatchStageMove, MatchStageRest, Yields, Held, Told, Kept
<1>25. ASSUME CleanStage PROVE Kept'
  <2>1. CleanStageMove
    BY <1>25, CleanStageMoves
  <2>2. CleanStageRest
    BY <1>25, CleanStageRests
  <2> QED
    BY <2>1, <2>2 DEF CleanStageMove, CleanStageRest, Yields, Held, Told, Kept
<1>26. ASSUME RemoveStage PROVE Kept'
  <2>1. RemoveStageMove
    BY <1>26, RemoveStageMoves
  <2>2. RemoveStageRest
    BY <1>26, RemoveStageRests
  <2> QED
    BY <2>1, <2>2 DEF RemoveStageMove, RemoveStageRest, Yields, Held, Told, Kept
<1>27. ASSUME ObserveCancel PROVE Kept'
  <2>1. ObserveCancelMove
    BY <1>27, ObserveCancelMoves
  <2>2. ObserveCancelRest
    BY <1>27, ObserveCancelRests
  <2> QED
    BY <2>1, <2>2 DEF ObserveCancelMove, ObserveCancelRest, Yields, Held, Told, Kept
<1>28. ASSUME TakeCandidate PROVE Kept'
  <2>1. TakeCandidateMove
    BY <1>28, TakeCandidateMoves
  <2>2. TakeCandidateRest
    BY <1>28, TakeCandidateRests
  <2> QED
    BY <2>1, <2>2 DEF TakeCandidateMove, TakeCandidateRest, Yields, Held, Told, Kept
<1>29. ASSUME Derive PROVE Kept'
  <2>1. DeriveMove
    BY <1>29, DeriveMoves
  <2>2. DeriveRest
    BY <1>29, DeriveRests
  <2> QED
    BY <2>1, <2>2 DEF DeriveMove, DeriveRest, Yields, Held, Told, Kept
<1>30. ASSUME Publish PROVE Kept'
  <2>1. PublishMove
    BY <1>30, PublishMoves
  <2>2. PublishRest
    BY <1>30, PublishRests
  <2> QED
    BY <2>1, <2>2 DEF PublishMove, PublishRest, Yields, Held, Told, Bears, NoController,
       InOrder, Matched, Taken, Turns, Aged, JobTyped, Jobs, Kept
<1>31. ASSUME Kill PROVE Kept'
  <2>1. KillMove
    BY <1>31, KillMoves
  <2> QED
    BY <2>1 DEF KillMove, Held, Told, Bears, NoController, Turns, Aged, JobTyped, Jobs,
       Kept
<1>32. ASSUME Break PROVE Kept'
  <2>1. BreakMove
    BY <1>32, BreakMoves
  <2> QED
    BY <2>1 DEF BreakMove, Held, Told, Bears, NoController, Turns, Aged, Launched,
       JobTyped, Jobs, Kept
<1>33. CASE UNCHANGED vars
  BY <1>33 DEF vars, Kept
<1> QED
  BY <1>1, <1>2, <1>3, <1>4, <1>5, <1>6, <1>7, <1>8, <1>9, <1>10, <1>11, <1>12, <1>13,
     <1>14, <1>15, <1>16, <1>17, <1>18, <1>19, <1>20, <1>21, <1>22, <1>23, <1>24, <1>25,
     <1>26, <1>27, <1>28, <1>29, <1>30, <1>31, <1>32, <1>33 DEF Next

\* A continuation is of approved content or of the last attempt's record.
LEMMA EligibleStep ==
  ASSUME Eligible, Turns, SourceOK, JobTyped, MakerOK, ControllerOK, StageOK, Handled,
         Counted, [Next]_vars
  PROVE  Eligible'
<1>1. ASSUME NEW q \in Paths, NEW b \in Bodies \cup {Absent}, Edit(q, b) PROVE Eligible'
  BY <1>1 DEF Edit, Eligible, Turns
<1>2. ASSUME Meddle PROVE Eligible'
  BY <1>2 DEF Meddle, Eligible, Turns
<1>3. ASSUME BeginInitial PROVE Eligible'
  BY <1>3 DEF BeginInitial, NoMaker, Eligible, Turns
<1>4. ASSUME NEW o \in Origins, Begin(o) PROVE Eligible'
  BY <1>4 DEF Begin, NoMaker, ContinueEligible, Eligible, Turns
<1>5. ASSUME TakeBaseline PROVE Eligible'
  BY <1>5 DEF TakeBaseline, Eligible, Turns
<1>6. ASSUME Record PROVE Eligible'
  <2>1. RecordMove
    BY <1>6, RecordMoves
  <2>2. RecordRest
    BY <1>6, RecordRests
  <2> QED
    BY <2>1, <2>2 DEF RecordMove, RecordRest, Yields, Held, Told, Bears, NoMaker,
       Eligible, Turns
<1>7. ASSUME RefuseRecord PROVE Eligible'
  BY <1>7 DEF RefuseRecord, NoMaker, Eligible, Turns
<1>8. ASSUME Cancel PROVE Eligible'
  <2>1. CancelMove
    BY <1>8, CancelMoves
  <2>2. CancelRest
    BY <1>8, CancelRests
  <2> QED
    BY <2>1, <2>2 DEF CancelMove, CancelRest, Yields, Held, Told, Bears, Eligible, Turns
<1>9. ASSUME Claim PROVE Eligible'
  <2>1. ClaimMove
    BY <1>9, ClaimMoves
  <2>2. ClaimRest
    BY <1>9, ClaimRests
  <2> QED
    BY <2>1, <2>2 DEF ClaimMove, ClaimRest, Yields, Held, Told, Bears, Eligible, Turns
<1>10. ASSUME CheckBaseline PROVE Eligible'
  <2>1. CheckBaselineMove
    BY <1>10, CheckBaselineMoves
  <2>2. CheckBaselineRest
    BY <1>10, CheckBaselineRests
  <2> QED
    BY <2>1, <2>2 DEF CheckBaselineMove, CheckBaselineRest, Yields, Held, Told, Eligible,
       Turns
<1>11. ASSUME ScanScope PROVE Eligible'
  <2>1. ScanScopeMove
    BY <1>11, ScanScopeMoves
  <2>2. ScanScopeRest
    BY <1>11, ScanScopeRests
  <2> QED
    BY <2>1, <2>2 DEF ScanScopeMove, ScanScopeRest, Yields, Held, Told, Eligible, Turns
<1>12. ASSUME TakeNarrow PROVE Eligible'
  <2>1. TakeNarrowMove
    BY <1>12, TakeNarrowMoves
  <2>2. TakeNarrowRest
    BY <1>12, TakeNarrowRests
  <2> QED
    BY <2>1, <2>2 DEF TakeNarrowMove, TakeNarrowRest, Yields, Held, Told, Eligible, Turns
<1>13. ASSUME MakeStage PROVE Eligible'
  <2>1. MakeStageMove
    BY <1>13, MakeStageMoves
  <2>2. MakeStageRest
    BY <1>13, MakeStageRests
  <2> QED
    BY <2>1, <2>2 DEF MakeStageMove, MakeStageRest, Yields, Held, Told, Eligible, Turns
<1>14. ASSUME NEW q \in Read, CopyFile(q) PROVE Eligible'
  <2>1. CopyFileMove(q)
    BY <1>14, CopyFileMoves
  <2>2. CopyFileRest(q)
    BY <1>14, CopyFileRests
  <2> QED
    BY <2>1, <2>2 DEF CopyFileMove, CopyFileRest, Yields, Held, Told, Eligible, Turns
<1>15. ASSUME Rescan PROVE Eligible'
  <2>1. RescanMove
    BY <1>15, RescanMoves
  <2>2. RescanRest
    BY <1>15, RescanRests
  <2> QED
    BY <2>1, <2>2 DEF RescanMove, RescanRest, Yields, Held, Told, Eligible, Turns
<1>16. ASSUME GiveUpStage PROVE Eligible'
  <2>1. GiveUpStageMove
    BY <1>16, GiveUpStageMoves
  <2>2. GiveUpStageRest
    BY <1>16, GiveUpStageRests
  <2> QED
    BY <2>1, <2>2 DEF GiveUpStageMove, GiveUpStageRest, Yields, Held, Told, Eligible, Turns
<1>17. ASSUME AbandonStage PROVE Eligible'
  <2>1. AbandonStageMove
    BY <1>17, AbandonStageMoves
  <2>2. AbandonStageRest
    BY <1>17, AbandonStageRests
  <2> QED
    BY <2>1, <2>2 DEF AbandonStageMove, AbandonStageRest, Yields, Held, Told, Eligible, Turns
<1>18. ASSUME Launch PROVE Eligible'
  <2>1. LaunchMove
    BY <1>18, LaunchMoves
  <2>2. LaunchRest
    BY <1>18, LaunchRests
  <2> QED
    BY <2>1, <2>2 DEF LaunchMove, LaunchRest, Yields, Held, Told, Bears, Eligible, Turns
<1>19. ASSUME NEW q \in Paths, NEW b \in Bodies \cup {Absent, Link}, ProviderWrites(q, b)
       PROVE Eligible'
  BY <1>19 DEF ProviderWrites, Eligible, Turns
<1>20. ASSUME NEW r \in Reports \cup {"none"}, NEW s \in Terminal, NEW d \in {"exact", "wrong"},
            ProviderEnds(r, s, d) PROVE Eligible'
  <2>1. ProviderEndsMove(r, s, d)
    BY <1>20, ProviderEndsMoves
  <2>2. ProviderEndsRest(r, s, d)
    BY <1>20, ProviderEndsRests
  <2> QED
    BY <2>1, <2>2 DEF ProviderEndsMove, ProviderEndsRest, Yields, Held, Told, Bears,
       Eligible, Turns
<1>21. ASSUME CompareNarrow PROVE Eligible'
  <2>1. CompareNarrowMove
    BY <1>21, CompareNarrowMoves
  <2>2. CompareNarrowRest
    BY <1>21, CompareNarrowRests
  <2> QED
    BY <2>1, <2>2 DEF CompareNarrowMove, CompareNarrowRest, Yields, Held, Told, Eligible,
       Turns
<1>22. ASSUME ScanMutations PROVE Eligible'
  <2>1. ScanMutationsMove
    BY <1>22, ScanMutationsMoves
  <2>2. ScanMutationsRest
    BY <1>22, ScanMutationsRests
  <2> QED
    BY <2>1, <2>2 DEF ScanMutationsMove, ScanMutationsRest, Yields, Held, Told, Eligible,
       Turns
<1>23. ASSUME Reconcile PROVE Eligible'
  <2>1. ReconcileMove
    BY <1>23, ReconcileMoves
  <2>2. ReconcileRest
    BY <1>23, ReconcileRests
  <2> QED
    BY <2>1, <2>2 DEF ReconcileMove, ReconcileRest, Yields, Held, Told, Eligible, Turns
<1>24. ASSUME MatchStage PROVE Eligible'
  <2>1. MatchStageMove
    BY <1>24, MatchStageMoves
  <2>2. MatchStageRest
    BY <1>24, MatchStageRests
  <2> QED
    BY <2>1, <2>2 DEF MatchStageMove, MatchStageRest, Yields, Held, Told, Eligible, Turns
<1>25. ASSUME CleanStage PROVE Eligible'
  <2>1. CleanStageMove
    BY <1>25, CleanStageMoves
  <2>2. CleanStageRest
    BY <1>25, CleanStageRests
  <2> QED
    BY <2>1, <2>2 DEF CleanStageMove, CleanStageRest, Yields, Held, Told, Eligible, Turns
<1>26. ASSUME RemoveStage PROVE Eligible'
  <2>1. RemoveStageMove
    BY <1>26, RemoveStageMoves
  <2>2. RemoveStageRest
    BY <1>26, RemoveStageRests
  <2> QED
    BY <2>1, <2>2 DEF RemoveStageMove, RemoveStageRest, Yields, Held, Told, Eligible, Turns
<1>27. ASSUME ObserveCancel PROVE Eligible'
  <2>1. ObserveCancelMove
    BY <1>27, ObserveCancelMoves
  <2>2. ObserveCancelRest
    BY <1>27, ObserveCancelRests
  <2> QED
    BY <2>1, <2>2 DEF ObserveCancelMove, ObserveCancelRest, Yields, Held, Told, Eligible,
       Turns
<1>28. ASSUME TakeCandidate PROVE Eligible'
  <2>1. TakeCandidateMove
    BY <1>28, TakeCandidateMoves
  <2>2. TakeCandidateRest
    BY <1>28, TakeCandidateRests
  <2> QED
    BY <2>1, <2>2 DEF TakeCandidateMove, TakeCandidateRest, Yields, Held, Told, Eligible,
       Turns
<1>29. ASSUME Derive PROVE Eligible'
  <2>1. DeriveMove
    BY <1>29, DeriveMoves
  <2>2. DeriveRest
    BY <1>29, DeriveRests
  <2> QED
    BY <2>1, <2>2 DEF DeriveMove, DeriveRest, Yields, Held, Told, Eligible, Turns
<1>30. ASSUME Publish PROVE Eligible'
  <2>1. PublishMove
    BY <1>30, PublishMoves
  <2>2. PublishRest
    BY <1>30, PublishRests
  <2> QED
    BY <2>1, <2>2 DEF PublishMove, PublishRest, Yields, Held, Told, Bears, NoController,
       Eligible, Turns
<1>31. ASSUME Kill PROVE Eligible'
  <2>1. KillMove
    BY <1>31, KillMoves
  <2> QED
    BY <2>1 DEF KillMove, Held, Told, Bears, NoController, Eligible, Turns
<1>32. ASSUME Break PROVE Eligible'
  <2>1. BreakMove
    BY <1>32, BreakMoves
  <2> QED
    BY <2>1 DEF BreakMove, Held, Told, Bears, NoController, Eligible, Turns
<1>33. CASE UNCHANGED vars
  BY <1>33 DEF vars, Eligible, Turns
<1> QED
  BY <1>1, <1>2, <1>3, <1>4, <1>5, <1>6, <1>7, <1>8, <1>9, <1>10, <1>11, <1>12, <1>13,
     <1>14, <1>15, <1>16, <1>17, <1>18, <1>19, <1>20, <1>21, <1>22, <1>23, <1>24, <1>25,
     <1>26, <1>27, <1>28, <1>29, <1>30, <1>31, <1>32, <1>33 DEF Next

\* The baseline of an untouched worktree is the worktree.
LEMMA BasedStep ==
  ASSUME Based, Turns, CountOK, SourceOK, JobTyped, MakerOK, ControllerOK, StageOK, Handled,
         Counted, [Next]_vars
  PROVE  Based'
<1>1. ASSUME NEW q \in Paths, NEW b \in Bodies \cup {Absent}, Edit(q, b) PROVE Based'
  BY <1>1, Touched DEF Edit, Based
<1>2. ASSUME Meddle PROVE Based'
  BY <1>2, Touched DEF Meddle, Based
<1>3. ASSUME BeginInitial PROVE Based'
  BY <1>3 DEF BeginInitial, NoMaker, Based
<1>4. ASSUME NEW o \in Origins, Begin(o) PROVE Based'
  BY <1>4 DEF Begin, NoMaker, Based
<1>5. ASSUME TakeBaseline PROVE Based'
  BY <1>5 DEF TakeBaseline, Based
<1>6. ASSUME Record PROVE Based'
  <2>1. RecordMove
    BY <1>6, RecordMoves
  <2>2. RecordRest
    BY <1>6, RecordRests
  <2> QED
    BY <2>1, <2>2 DEF RecordMove, RecordRest, Yields, Held, Told, Bears, NoMaker, Based
<1>7. ASSUME RefuseRecord PROVE Based'
  BY <1>7 DEF RefuseRecord, NoMaker, Based
<1>8. ASSUME Cancel PROVE Based'
  <2>1. CancelMove
    BY <1>8, CancelMoves
  <2>2. CancelRest
    BY <1>8, CancelRests
  <2> QED
    BY <2>1, <2>2 DEF CancelMove, CancelRest, Yields, Held, Told, Bears, Based
<1>9. ASSUME Claim PROVE Based'
  <2>1. ClaimMove
    BY <1>9, ClaimMoves
  <2>2. ClaimRest
    BY <1>9, ClaimRests
  <2> QED
    BY <2>1, <2>2 DEF ClaimMove, ClaimRest, Yields, Held, Told, Bears, Based
<1>10. ASSUME CheckBaseline PROVE Based'
  <2>1. CheckBaselineMove
    BY <1>10, CheckBaselineMoves
  <2>2. CheckBaselineRest
    BY <1>10, CheckBaselineRests
  <2> QED
    BY <2>1, <2>2 DEF CheckBaselineMove, CheckBaselineRest, Yields, Held, Told, Based
<1>11. ASSUME ScanScope PROVE Based'
  <2>1. ScanScopeMove
    BY <1>11, ScanScopeMoves
  <2>2. ScanScopeRest
    BY <1>11, ScanScopeRests
  <2> QED
    BY <2>1, <2>2 DEF ScanScopeMove, ScanScopeRest, Yields, Held, Told, Based
<1>12. ASSUME TakeNarrow PROVE Based'
  <2>1. TakeNarrowMove
    BY <1>12, TakeNarrowMoves
  <2>2. TakeNarrowRest
    BY <1>12, TakeNarrowRests
  <2> QED
    BY <2>1, <2>2 DEF TakeNarrowMove, TakeNarrowRest, Yields, Held, Told, Based
<1>13. ASSUME MakeStage PROVE Based'
  <2>1. MakeStageMove
    BY <1>13, MakeStageMoves
  <2>2. MakeStageRest
    BY <1>13, MakeStageRests
  <2> QED
    BY <2>1, <2>2 DEF MakeStageMove, MakeStageRest, Yields, Held, Told, Based
<1>14. ASSUME NEW q \in Read, CopyFile(q) PROVE Based'
  <2>1. CopyFileMove(q)
    BY <1>14, CopyFileMoves
  <2>2. CopyFileRest(q)
    BY <1>14, CopyFileRests
  <2> QED
    BY <2>1, <2>2 DEF CopyFileMove, CopyFileRest, Yields, Held, Told, Based
<1>15. ASSUME Rescan PROVE Based'
  <2>1. RescanMove
    BY <1>15, RescanMoves
  <2>2. RescanRest
    BY <1>15, RescanRests
  <2> QED
    BY <2>1, <2>2 DEF RescanMove, RescanRest, Yields, Held, Told, Based
<1>16. ASSUME GiveUpStage PROVE Based'
  <2>1. GiveUpStageMove
    BY <1>16, GiveUpStageMoves
  <2>2. GiveUpStageRest
    BY <1>16, GiveUpStageRests
  <2> QED
    BY <2>1, <2>2 DEF GiveUpStageMove, GiveUpStageRest, Yields, Held, Told, Based
<1>17. ASSUME AbandonStage PROVE Based'
  <2>1. AbandonStageMove
    BY <1>17, AbandonStageMoves
  <2>2. AbandonStageRest
    BY <1>17, AbandonStageRests
  <2> QED
    BY <2>1, <2>2 DEF AbandonStageMove, AbandonStageRest, Yields, Held, Told, Based
<1>18. ASSUME Launch PROVE Based'
  <2>1. LaunchMove
    BY <1>18, LaunchMoves
  <2>2. LaunchRest
    BY <1>18, LaunchRests
  <2> QED
    BY <2>1, <2>2 DEF LaunchMove, LaunchRest, Yields, Held, Told, Bears, Based
<1>19. ASSUME NEW q \in Paths, NEW b \in Bodies \cup {Absent, Link}, ProviderWrites(q, b)
       PROVE Based'
  BY <1>19 DEF ProviderWrites, Based
<1>20. ASSUME NEW r \in Reports \cup {"none"}, NEW s \in Terminal, NEW d \in {"exact", "wrong"},
            ProviderEnds(r, s, d) PROVE Based'
  <2>1. ProviderEndsMove(r, s, d)
    BY <1>20, ProviderEndsMoves
  <2>2. ProviderEndsRest(r, s, d)
    BY <1>20, ProviderEndsRests
  <2> QED
    BY <2>1, <2>2 DEF ProviderEndsMove, ProviderEndsRest, Yields, Held, Told, Bears, Based
<1>21. ASSUME CompareNarrow PROVE Based'
  <2>1. CompareNarrowMove
    BY <1>21, CompareNarrowMoves
  <2>2. CompareNarrowRest
    BY <1>21, CompareNarrowRests
  <2> QED
    BY <2>1, <2>2 DEF CompareNarrowMove, CompareNarrowRest, Yields, Held, Told, Based
<1>22. ASSUME ScanMutations PROVE Based'
  <2>1. ScanMutationsMove
    BY <1>22, ScanMutationsMoves
  <2>2. ScanMutationsRest
    BY <1>22, ScanMutationsRests
  <2> QED
    BY <2>1, <2>2 DEF ScanMutationsMove, ScanMutationsRest, Yields, Held, Told, Based
<1>23. ASSUME Reconcile PROVE Based'
  <2>1. ReconcileMove
    BY <1>23, ReconcileMoves
  <2>2. ReconcileRest
    BY <1>23, ReconcileRests
  <2> QED
    BY <2>1, <2>2 DEF ReconcileMove, ReconcileRest, Yields, Held, Told, Turns, Based
<1>24. ASSUME MatchStage PROVE Based'
  <2>1. MatchStageMove
    BY <1>24, MatchStageMoves
  <2>2. MatchStageRest
    BY <1>24, MatchStageRests
  <2> QED
    BY <2>1, <2>2 DEF MatchStageMove, MatchStageRest, Yields, Held, Told, Based
<1>25. ASSUME CleanStage PROVE Based'
  <2>1. CleanStageMove
    BY <1>25, CleanStageMoves
  <2>2. CleanStageRest
    BY <1>25, CleanStageRests
  <2> QED
    BY <2>1, <2>2 DEF CleanStageMove, CleanStageRest, Yields, Held, Told, Based
<1>26. ASSUME RemoveStage PROVE Based'
  <2>1. RemoveStageMove
    BY <1>26, RemoveStageMoves
  <2>2. RemoveStageRest
    BY <1>26, RemoveStageRests
  <2> QED
    BY <2>1, <2>2 DEF RemoveStageMove, RemoveStageRest, Yields, Held, Told, Based
<1>27. ASSUME ObserveCancel PROVE Based'
  <2>1. ObserveCancelMove
    BY <1>27, ObserveCancelMoves
  <2>2. ObserveCancelRest
    BY <1>27, ObserveCancelRests
  <2> QED
    BY <2>1, <2>2 DEF ObserveCancelMove, ObserveCancelRest, Yields, Held, Told, Based
<1>28. ASSUME TakeCandidate PROVE Based'
  <2>1. TakeCandidateMove
    BY <1>28, TakeCandidateMoves
  <2>2. TakeCandidateRest
    BY <1>28, TakeCandidateRests
  <2> QED
    BY <2>1, <2>2 DEF TakeCandidateMove, TakeCandidateRest, Yields, Held, Told, Based
<1>29. ASSUME Derive PROVE Based'
  <2>1. DeriveMove
    BY <1>29, DeriveMoves
  <2>2. DeriveRest
    BY <1>29, DeriveRests
  <2> QED
    BY <2>1, <2>2 DEF DeriveMove, DeriveRest, Yields, Held, Told, Based
<1>30. ASSUME Publish PROVE Based'
  <2>1. PublishMove
    BY <1>30, PublishMoves
  <2>2. PublishRest
    BY <1>30, PublishRests
  <2> QED
    BY <2>1, <2>2 DEF PublishMove, PublishRest, Yields, Held, Told, Bears, NoController,
       Based
<1>31. ASSUME Kill PROVE Based'
  <2>1. KillMove
    BY <1>31, KillMoves
  <2> QED
    BY <2>1 DEF KillMove, Held, Told, Bears, NoController, Based
<1>32. ASSUME Break PROVE Based'
  <2>1. BreakMove
    BY <1>32, BreakMoves
  <2> QED
    BY <2>1 DEF BreakMove, Held, Told, Bears, NoController, Based
<1>33. CASE UNCHANGED vars
  BY <1>33 DEF vars, Based
<1> QED
  BY <1>1, <1>2, <1>3, <1>4, <1>5, <1>6, <1>7, <1>8, <1>9, <1>10, <1>11, <1>12, <1>13,
     <1>14, <1>15, <1>16, <1>17, <1>18, <1>19, <1>20, <1>21, <1>22, <1>23, <1>24, <1>25,
     <1>26, <1>27, <1>28, <1>29, <1>30, <1>31, <1>32, <1>33 DEF Next

\* A record covers an untouched worktree until its scope is scanned.
LEMMA QueuedStep ==
  ASSUME Queued, Based, Eligible, Turns, Counted, CountOK, SourceOK, JobTyped, MakerOK,
         ControllerOK, StageOK, Handled, [Next]_vars
  PROVE  Queued'
<1>1. ASSUME NEW q \in Paths, NEW b \in Bodies \cup {Absent}, Edit(q, b) PROVE Queued'
  BY <1>1, Touched DEF Edit, Queued, AwaitsScan, Covered, Recorded, Lineage
<1>2. ASSUME Meddle PROVE Queued'
  BY <1>2, Touched DEF Meddle, Queued, AwaitsScan, Covered, Recorded, Lineage
<1>3. ASSUME BeginInitial PROVE Queued'
  BY <1>3 DEF BeginInitial, Queued, AwaitsScan, Covered, Recorded, Lineage
<1>4. ASSUME NEW o \in Origins, Begin(o) PROVE Queued'
  BY <1>4 DEF Begin, Queued, AwaitsScan, Covered, Recorded, Lineage
<1>5. ASSUME TakeBaseline PROVE Queued'
  BY <1>5 DEF TakeBaseline, Queued, AwaitsScan, Covered, Recorded, Lineage
<1>6. ASSUME Record PROVE Queued'
  <2>1. RecordMove /\ RecordRest
    BY <1>6, RecordMoves, RecordRests
  <2>2. /\ ScopeHolds /\ source' = source /\ approved' = approved /\ touches' = touches
        /\ maker.pc = "scope" /\ c' = c /\ c.pc = "none"
        /\ job'.attempt = job.attempt + 1
    BY <2>1 DEF RecordMove, Turns
  <2>3. job'.origin = maker.origin /\ job'.base = maker.base /\ job'.bound = Seen(source)
    BY <2>1 DEF RecordRest
  <2>4. touches = 0 => job'.base = source'
    BY <2>2, <2>3 DEF Based
  <2>5. Covered(source, job.origin)'
    <3>1. Valid(source)
      BY <2>2 DEF ScopeHolds, Covered
    <3>2. CASE Seen(source) = approved
      BY <2>2, <2>3, <3>1, <3>2 DEF Covered
    <3>3. CASE Seen(source) # approved
      <4>1. maker.origin = "continue" /\ Recorded(source, "continue")
        BY <2>2, <3>3 DEF ScopeHolds, Covered
      <4>2. job.lineage = job.attempt /\ job.lineage # 0
        BY <2>2, <3>3, <4>1 DEF Eligible, Recorded, Lineage
      <4>3. job.attempt \in Nat
        BY BoundsAssumption DEF JobTyped, Jobs
      <4>4. job'.lineage = job'.attempt - 1 /\ job'.lineage # 0
        BY <2>1, <2>2, <4>1, <4>2, <4>3 DEF RecordRest
      <4>5. Recorded(source, job.origin)'
        BY <2>1, <2>2, <2>3, <4>1, <4>4 DEF RecordRest, Recorded, Lineage
      <4> QED
        BY <2>2, <3>1, <3>3, <4>5 DEF Covered
    <3> QED
      BY <3>2, <3>3
  <2> QED
    BY <2>2, <2>4, <2>5 DEF Queued
<1>7. ASSUME RefuseRecord PROVE Queued'
  BY <1>7 DEF RefuseRecord, Queued, AwaitsScan, Covered, Recorded, Lineage
<1>8. ASSUME Cancel PROVE Queued'
  <2>1. CancelMove
    BY <1>8, CancelMoves
  <2>2. CancelRest
    BY <1>8, CancelRests
  <2> QED
    BY <2>1, <2>2 DEF CancelMove, CancelRest, Yields, Held, Told, Bears, Queued,
       AwaitsScan, Covered, Recorded, Lineage
<1>9. ASSUME Claim PROVE Queued'
  <2>1. ClaimMove
    BY <1>9, ClaimMoves
  <2>2. ClaimRest
    BY <1>9, ClaimRests
  <2> QED
    BY <2>1, <2>2 DEF ClaimMove, ClaimRest, Yields, Held, Told, Bears, Queued, AwaitsScan,
       Covered, Recorded, Lineage
<1>10. ASSUME CheckBaseline PROVE Queued'
  <2>1. CheckBaselineMove
    BY <1>10, CheckBaselineMoves
  <2>2. CheckBaselineRest
    BY <1>10, CheckBaselineRests
  <2> QED
    BY <2>1, <2>2 DEF CheckBaselineMove, CheckBaselineRest, Yields, Held, Told, Queued,
       AwaitsScan, Covered, Recorded, Lineage
<1>11. ASSUME ScanScope PROVE Queued'
  <2>1. ScanScopeMove
    BY <1>11, ScanScopeMoves
  <2>2. ScanScopeRest
    BY <1>11, ScanScopeRests
  <2> QED
    BY <2>1, <2>2 DEF ScanScopeMove, ScanScopeRest, Yields, Held, Told, Queued,
       AwaitsScan, Covered, Recorded, Lineage
<1>12. ASSUME TakeNarrow PROVE Queued'
  <2>1. TakeNarrowMove
    BY <1>12, TakeNarrowMoves
  <2>2. TakeNarrowRest
    BY <1>12, TakeNarrowRests
  <2> QED
    BY <2>1, <2>2 DEF TakeNarrowMove, TakeNarrowRest, Yields, Held, Told, Queued,
       AwaitsScan, Covered, Recorded, Lineage
<1>13. ASSUME MakeStage PROVE Queued'
  <2>1. MakeStageMove
    BY <1>13, MakeStageMoves
  <2>2. MakeStageRest
    BY <1>13, MakeStageRests
  <2> QED
    BY <2>1, <2>2 DEF MakeStageMove, MakeStageRest, Yields, Held, Told, Queued,
       AwaitsScan, Covered, Recorded, Lineage
<1>14. ASSUME NEW q \in Read, CopyFile(q) PROVE Queued'
  <2>1. CopyFileMove(q)
    BY <1>14, CopyFileMoves
  <2>2. CopyFileRest(q)
    BY <1>14, CopyFileRests
  <2> QED
    BY <2>1, <2>2 DEF CopyFileMove, CopyFileRest, Yields, Held, Told, Queued, AwaitsScan,
       Covered, Recorded, Lineage
<1>15. ASSUME Rescan PROVE Queued'
  <2>1. RescanMove
    BY <1>15, RescanMoves
  <2>2. RescanRest
    BY <1>15, RescanRests
  <2> QED
    BY <2>1, <2>2 DEF RescanMove, RescanRest, Yields, Held, Told, Queued, AwaitsScan,
       Covered, Recorded, Lineage
<1>16. ASSUME GiveUpStage PROVE Queued'
  <2>1. GiveUpStageMove
    BY <1>16, GiveUpStageMoves
  <2>2. GiveUpStageRest
    BY <1>16, GiveUpStageRests
  <2> QED
    BY <2>1, <2>2 DEF GiveUpStageMove, GiveUpStageRest, Yields, Held, Told, Queued, AwaitsScan,
       Covered, Recorded, Lineage
<1>17. ASSUME AbandonStage PROVE Queued'
  <2>1. AbandonStageMove
    BY <1>17, AbandonStageMoves
  <2>2. AbandonStageRest
    BY <1>17, AbandonStageRests
  <2> QED
    BY <2>1, <2>2 DEF AbandonStageMove, AbandonStageRest, Yields, Held, Told, Queued, AwaitsScan,
       Covered, Recorded, Lineage
<1>18. ASSUME Launch PROVE Queued'
  <2>1. LaunchMove
    BY <1>18, LaunchMoves
  <2>2. LaunchRest
    BY <1>18, LaunchRests
  <2> QED
    BY <2>1, <2>2 DEF LaunchMove, LaunchRest, Yields, Held, Told, Bears, Queued,
       AwaitsScan, Covered, Recorded, Lineage
<1>19. ASSUME NEW q \in Paths, NEW b \in Bodies \cup {Absent, Link}, ProviderWrites(q, b)
       PROVE Queued'
  BY <1>19 DEF ProviderWrites, Queued, AwaitsScan, Covered, Recorded, Lineage
<1>20. ASSUME NEW r \in Reports \cup {"none"}, NEW s \in Terminal, NEW d \in {"exact", "wrong"},
            ProviderEnds(r, s, d) PROVE Queued'
  <2>1. ProviderEndsMove(r, s, d)
    BY <1>20, ProviderEndsMoves
  <2>2. ProviderEndsRest(r, s, d)
    BY <1>20, ProviderEndsRests
  <2> QED
    BY <2>1, <2>2 DEF ProviderEndsMove, ProviderEndsRest, Yields, Held, Told, Bears,
       Queued, AwaitsScan, Covered, Recorded, Lineage
<1>21. ASSUME CompareNarrow PROVE Queued'
  <2>1. CompareNarrowMove
    BY <1>21, CompareNarrowMoves
  <2>2. CompareNarrowRest
    BY <1>21, CompareNarrowRests
  <2> QED
    BY <2>1, <2>2 DEF CompareNarrowMove, CompareNarrowRest, Yields, Held, Told, Queued,
       AwaitsScan, Covered, Recorded, Lineage
<1>22. ASSUME ScanMutations PROVE Queued'
  <2>1. ScanMutationsMove
    BY <1>22, ScanMutationsMoves
  <2>2. ScanMutationsRest
    BY <1>22, ScanMutationsRests
  <2> QED
    BY <2>1, <2>2 DEF ScanMutationsMove, ScanMutationsRest, Yields, Held, Told, Queued,
       AwaitsScan, Covered, Recorded, Lineage
<1>23. ASSUME Reconcile PROVE Queued'
  <2>1. ReconcileMove
    BY <1>23, ReconcileMoves
  <2>2. ReconcileRest
    BY <1>23, ReconcileRests
  <2> QED
    BY <2>1, <2>2 DEF ReconcileMove, ReconcileRest, Yields, Held, Told, Queued,
       AwaitsScan, Covered, Recorded, Lineage
<1>24. ASSUME MatchStage PROVE Queued'
  <2>1. MatchStageMove
    BY <1>24, MatchStageMoves
  <2>2. MatchStageRest
    BY <1>24, MatchStageRests
  <2> QED
    BY <2>1, <2>2 DEF MatchStageMove, MatchStageRest, Yields, Held, Told, Queued,
       AwaitsScan, Covered, Recorded, Lineage
<1>25. ASSUME CleanStage PROVE Queued'
  <2>1. CleanStageMove
    BY <1>25, CleanStageMoves
  <2>2. CleanStageRest
    BY <1>25, CleanStageRests
  <2> QED
    BY <2>1, <2>2 DEF CleanStageMove, CleanStageRest, Yields, Held, Told, Queued,
       AwaitsScan, Covered, Recorded, Lineage
<1>26. ASSUME RemoveStage PROVE Queued'
  <2>1. RemoveStageMove
    BY <1>26, RemoveStageMoves
  <2>2. RemoveStageRest
    BY <1>26, RemoveStageRests
  <2> QED
    BY <2>1, <2>2 DEF RemoveStageMove, RemoveStageRest, Yields, Held, Told, Queued,
       AwaitsScan, Covered, Recorded, Lineage
<1>27. ASSUME ObserveCancel PROVE Queued'
  <2>1. ObserveCancelMove
    BY <1>27, ObserveCancelMoves
  <2>2. ObserveCancelRest
    BY <1>27, ObserveCancelRests
  <2> QED
    BY <2>1, <2>2 DEF ObserveCancelMove, ObserveCancelRest, Yields, Held, Told, Queued,
       AwaitsScan, Covered, Recorded, Lineage
<1>28. ASSUME TakeCandidate PROVE Queued'
  <2>1. TakeCandidateMove
    BY <1>28, TakeCandidateMoves
  <2>2. TakeCandidateRest
    BY <1>28, TakeCandidateRests
  <2> QED
    BY <2>1, <2>2 DEF TakeCandidateMove, TakeCandidateRest, Yields, Held, Told, Queued,
       AwaitsScan, Covered, Recorded, Lineage
<1>29. ASSUME Derive PROVE Queued'
  <2>1. DeriveMove
    BY <1>29, DeriveMoves
  <2>2. DeriveRest
    BY <1>29, DeriveRests
  <2> QED
    BY <2>1, <2>2 DEF DeriveMove, DeriveRest, Yields, Held, Told, Queued, AwaitsScan,
       Covered, Recorded, Lineage
<1>30. ASSUME Publish PROVE Queued'
  <2>1. PublishMove
    BY <1>30, PublishMoves
  <2>2. PublishRest
    BY <1>30, PublishRests
  <2> QED
    BY <2>1, <2>2 DEF PublishMove, PublishRest, Yields, Held, Told, Bears, NoController,
       Terminal, Queued, AwaitsScan, Covered, Recorded, Lineage
<1>31. ASSUME Kill PROVE Queued'
  <2>1. KillMove
    BY <1>31, KillMoves
  <2> QED
    BY <2>1 DEF KillMove, Held, Told, Bears, NoController, Queued, AwaitsScan, Covered,
       Recorded, Lineage
<1>32. ASSUME Break PROVE Queued'
  <2>1. BreakMove
    BY <1>32, BreakMoves
  <2> QED
    BY <2>1 DEF BreakMove, Held, Told, Bears, NoController, Queued, AwaitsScan, Covered,
       Recorded, Lineage
<1>33. CASE UNCHANGED vars
  BY <1>33 DEF vars, Queued, AwaitsScan, Covered, Recorded, Lineage
<1> QED
  BY <1>1, <1>2, <1>3, <1>4, <1>5, <1>6, <1>7, <1>8, <1>9, <1>10, <1>11, <1>12, <1>13,
     <1>14, <1>15, <1>16, <1>17, <1>18, <1>19, <1>20, <1>21, <1>22, <1>23, <1>24, <1>25,
     <1>26, <1>27, <1>28, <1>29, <1>30, <1>31, <1>32, <1>33 DEF Next

\* Nobody is at the path of its stage until it is made.
LEMMA UnmadeStep ==
  ASSUME Unmade, Turns, CountOK, SourceOK, JobTyped, MakerOK, ControllerOK, StageOK,
         Handled, Counted, [Next]_vars
  PROVE  Unmade'
<1>1. ASSUME NEW q \in Paths, NEW b \in Bodies \cup {Absent}, Edit(q, b) PROVE Unmade'
  BY <1>1, Touched DEF Edit, Unmade, AwaitsScan
<1>2. ASSUME Meddle PROVE Unmade'
  BY <1>2, Touched DEF Meddle, Unmade, AwaitsScan
<1>3. ASSUME BeginInitial PROVE Unmade'
  BY <1>3 DEF BeginInitial, Unmade, AwaitsScan
<1>4. ASSUME NEW o \in Origins, Begin(o) PROVE Unmade'
  BY <1>4 DEF Begin, Unmade, AwaitsScan
<1>5. ASSUME TakeBaseline PROVE Unmade'
  BY <1>5 DEF TakeBaseline, Unmade, AwaitsScan
<1>6. ASSUME Record PROVE Unmade'
  <2>1. RecordMove
    BY <1>6, RecordMoves
  <2>2. RecordRest
    BY <1>6, RecordRests
  <2> QED
    BY <2>1, <2>2 DEF RecordMove, RecordRest, Yields, Held, Told, Bears, NoStage, Unmade,
       AwaitsScan
<1>7. ASSUME RefuseRecord PROVE Unmade'
  BY <1>7 DEF RefuseRecord, Unmade, AwaitsScan
<1>8. ASSUME Cancel PROVE Unmade'
  <2>1. CancelMove
    BY <1>8, CancelMoves
  <2>2. CancelRest
    BY <1>8, CancelRests
  <2> QED
    BY <2>1, <2>2 DEF CancelMove, CancelRest, Yields, Held, Told, Bears, Unmade,
       AwaitsScan
<1>9. ASSUME Claim PROVE Unmade'
  <2>1. ClaimMove
    BY <1>9, ClaimMoves
  <2>2. ClaimRest
    BY <1>9, ClaimRests
  <2> QED
    BY <2>1, <2>2 DEF ClaimMove, ClaimRest, Yields, Held, Told, Bears, Unmade, AwaitsScan
<1>10. ASSUME CheckBaseline PROVE Unmade'
  <2>1. CheckBaselineMove
    BY <1>10, CheckBaselineMoves
  <2>2. CheckBaselineRest
    BY <1>10, CheckBaselineRests
  <2> QED
    BY <2>1, <2>2 DEF CheckBaselineMove, CheckBaselineRest, Yields, Held, Told, Unmade,
       AwaitsScan
<1>11. ASSUME ScanScope PROVE Unmade'
  <2>1. ScanScopeMove
    BY <1>11, ScanScopeMoves
  <2>2. ScanScopeRest
    BY <1>11, ScanScopeRests
  <2> QED
    BY <2>1, <2>2 DEF ScanScopeMove, ScanScopeRest, Yields, Held, Told, Unmade, AwaitsScan
<1>12. ASSUME TakeNarrow PROVE Unmade'
  <2>1. TakeNarrowMove
    BY <1>12, TakeNarrowMoves
  <2>2. TakeNarrowRest
    BY <1>12, TakeNarrowRests
  <2> QED
    BY <2>1, <2>2 DEF TakeNarrowMove, TakeNarrowRest, Yields, Held, Told, Unmade,
       AwaitsScan
<1>13. ASSUME MakeStage PROVE Unmade'
  <2>1. MakeStageMove
    BY <1>13, MakeStageMoves
  <2>2. MakeStageRest
    BY <1>13, MakeStageRests
  <2> QED
    BY <2>1, <2>2 DEF MakeStageMove, MakeStageRest, Yields, Held, Told, Unmade, AwaitsScan
<1>14. ASSUME NEW q \in Read, CopyFile(q) PROVE Unmade'
  <2>1. CopyFileMove(q)
    BY <1>14, CopyFileMoves
  <2>2. CopyFileRest(q)
    BY <1>14, CopyFileRests
  <2> QED
    BY <2>1, <2>2 DEF CopyFileMove, CopyFileRest, Yields, Held, Told, Unmade, AwaitsScan
<1>15. ASSUME Rescan PROVE Unmade'
  <2>1. RescanMove
    BY <1>15, RescanMoves
  <2>2. RescanRest
    BY <1>15, RescanRests
  <2> QED
    BY <2>1, <2>2 DEF RescanMove, RescanRest, Yields, Held, Told, Unmade, AwaitsScan
<1>16. ASSUME GiveUpStage PROVE Unmade'
  <2>1. GiveUpStageMove
    BY <1>16, GiveUpStageMoves
  <2>2. GiveUpStageRest
    BY <1>16, GiveUpStageRests
  <2> QED
    BY <2>1, <2>2 DEF GiveUpStageMove, GiveUpStageRest, Yields, Held, Told, Unmade, AwaitsScan
<1>17. ASSUME AbandonStage PROVE Unmade'
  <2>1. AbandonStageMove
    BY <1>17, AbandonStageMoves
  <2>2. AbandonStageRest
    BY <1>17, AbandonStageRests
  <2> QED
    BY <2>1, <2>2 DEF AbandonStageMove, AbandonStageRest, Yields, Held, Told, Unmade, AwaitsScan
<1>18. ASSUME Launch PROVE Unmade'
  <2>1. LaunchMove
    BY <1>18, LaunchMoves
  <2>2. LaunchRest
    BY <1>18, LaunchRests
  <2> QED
    BY <2>1, <2>2 DEF LaunchMove, LaunchRest, Yields, Held, Told, Bears, Unmade,
       AwaitsScan
<1>19. ASSUME NEW q \in Paths, NEW b \in Bodies \cup {Absent, Link}, ProviderWrites(q, b)
       PROVE Unmade'
  BY <1>19 DEF ProviderWrites, Unmade, AwaitsScan
<1>20. ASSUME NEW r \in Reports \cup {"none"}, NEW s \in Terminal, NEW d \in {"exact", "wrong"},
            ProviderEnds(r, s, d) PROVE Unmade'
  <2>1. ProviderEndsMove(r, s, d)
    BY <1>20, ProviderEndsMoves
  <2>2. ProviderEndsRest(r, s, d)
    BY <1>20, ProviderEndsRests
  <2> QED
    BY <2>1, <2>2 DEF ProviderEndsMove, ProviderEndsRest, Yields, Held, Told, Bears,
       Unmade, AwaitsScan
<1>21. ASSUME CompareNarrow PROVE Unmade'
  <2>1. CompareNarrowMove
    BY <1>21, CompareNarrowMoves
  <2>2. CompareNarrowRest
    BY <1>21, CompareNarrowRests
  <2> QED
    BY <2>1, <2>2 DEF CompareNarrowMove, CompareNarrowRest, Yields, Held, Told, Unmade,
       AwaitsScan
<1>22. ASSUME ScanMutations PROVE Unmade'
  <2>1. ScanMutationsMove
    BY <1>22, ScanMutationsMoves
  <2>2. ScanMutationsRest
    BY <1>22, ScanMutationsRests
  <2> QED
    BY <2>1, <2>2 DEF ScanMutationsMove, ScanMutationsRest, Yields, Held, Told, Unmade,
       AwaitsScan
<1>23. ASSUME Reconcile PROVE Unmade'
  <2>1. ReconcileMove
    BY <1>23, ReconcileMoves
  <2>2. ReconcileRest
    BY <1>23, ReconcileRests
  <2> QED
    BY <2>1, <2>2 DEF ReconcileMove, ReconcileRest, Yields, Held, Told, Unmade, AwaitsScan
<1>24. ASSUME MatchStage PROVE Unmade'
  <2>1. MatchStageMove
    BY <1>24, MatchStageMoves
  <2>2. MatchStageRest
    BY <1>24, MatchStageRests
  <2> QED
    BY <2>1, <2>2 DEF MatchStageMove, MatchStageRest, Yields, Held, Told, Unmade,
       AwaitsScan
<1>25. ASSUME CleanStage PROVE Unmade'
  <2>1. CleanStageMove
    BY <1>25, CleanStageMoves
  <2>2. CleanStageRest
    BY <1>25, CleanStageRests
  <2> QED
    BY <2>1, <2>2 DEF CleanStageMove, CleanStageRest, Yields, Held, Told, Unmade,
       AwaitsScan
<1>26. ASSUME RemoveStage PROVE Unmade'
  <2>1. RemoveStageMove
    BY <1>26, RemoveStageMoves
  <2>2. RemoveStageRest
    BY <1>26, RemoveStageRests
  <2> QED
    BY <2>1, <2>2 DEF RemoveStageMove, RemoveStageRest, Yields, Held, Told, Unmade,
       AwaitsScan
<1>27. ASSUME ObserveCancel PROVE Unmade'
  <2>1. ObserveCancelMove
    BY <1>27, ObserveCancelMoves
  <2>2. ObserveCancelRest
    BY <1>27, ObserveCancelRests
  <2> QED
    BY <2>1, <2>2 DEF ObserveCancelMove, ObserveCancelRest, Yields, Held, Told, Unmade,
       AwaitsScan
<1>28. ASSUME TakeCandidate PROVE Unmade'
  <2>1. TakeCandidateMove
    BY <1>28, TakeCandidateMoves
  <2>2. TakeCandidateRest
    BY <1>28, TakeCandidateRests
  <2> QED
    BY <2>1, <2>2 DEF TakeCandidateMove, TakeCandidateRest, Yields, Held, Told, Unmade,
       AwaitsScan
<1>29. ASSUME Derive PROVE Unmade'
  <2>1. DeriveMove
    BY <1>29, DeriveMoves
  <2>2. DeriveRest
    BY <1>29, DeriveRests
  <2> QED
    BY <2>1, <2>2 DEF DeriveMove, DeriveRest, Yields, Held, Told, Unmade, AwaitsScan
<1>30. ASSUME Publish PROVE Unmade'
  <2>1. PublishMove
    BY <1>30, PublishMoves
  <2>2. PublishRest
    BY <1>30, PublishRests
  <2> QED
    BY <2>1, <2>2 DEF PublishMove, PublishRest, Yields, Held, Told, Bears, NoController,
       Terminal, Unmade, AwaitsScan
<1>31. ASSUME Kill PROVE Unmade'
  <2>1. KillMove
    BY <1>31, KillMoves
  <2> QED
    BY <2>1 DEF KillMove, Held, Told, Bears, NoController, Unmade, AwaitsScan
<1>32. ASSUME Break PROVE Unmade'
  <2>1. BreakMove
    BY <1>32, BreakMoves
  <2> QED
    BY <2>1 DEF BreakMove, Held, Told, Bears, NoController, Unmade, AwaitsScan
<1>33. CASE UNCHANGED vars
  BY <1>33 DEF vars, Unmade, AwaitsScan
<1> QED
  BY <1>1, <1>2, <1>3, <1>4, <1>5, <1>6, <1>7, <1>8, <1>9, <1>10, <1>11, <1>12, <1>13,
     <1>14, <1>15, <1>16, <1>17, <1>18, <1>19, <1>20, <1>21, <1>22, <1>23, <1>24, <1>25,
     <1>26, <1>27, <1>28, <1>29, <1>30, <1>31, <1>32, <1>33 DEF Next

\* An untouched stage holds what was copied so far.
LEMMA CopyingStep ==
  ASSUME Copying, Turns, CountOK, SourceOK, JobTyped, MakerOK, ControllerOK, StageOK,
         Handled, Counted, [Next]_vars
  PROVE  Copying'
<1>1. ASSUME NEW q \in Paths, NEW b \in Bodies \cup {Absent}, Edit(q, b) PROVE Copying'
  BY <1>1, Touched DEF Edit, Copying, Written, StageExact, Staged, Selected
<1>2. ASSUME Meddle PROVE Copying'
  BY <1>2, Touched DEF Meddle, Copying, Written, StageExact, Staged, Selected
<1>3. ASSUME BeginInitial PROVE Copying'
  BY <1>3 DEF BeginInitial, Copying, Written, StageExact, Staged, Selected
<1>4. ASSUME NEW o \in Origins, Begin(o) PROVE Copying'
  BY <1>4 DEF Begin, Copying, Written, StageExact, Staged, Selected
<1>5. ASSUME TakeBaseline PROVE Copying'
  BY <1>5 DEF TakeBaseline, Copying, Written, StageExact, Staged, Selected
<1>6. ASSUME Record PROVE Copying'
  <2>1. RecordMove
    BY <1>6, RecordMoves
  <2>2. RecordRest
    BY <1>6, RecordRests
  <2> QED
    BY <2>1, <2>2 DEF RecordMove, RecordRest, Yields, Held, Told, Bears, Turns, Copying,
       Written, StageExact, Staged, Selected
<1>7. ASSUME RefuseRecord PROVE Copying'
  BY <1>7 DEF RefuseRecord, Copying, Written, StageExact, Staged, Selected
<1>8. ASSUME Cancel PROVE Copying'
  <2>1. CancelMove
    BY <1>8, CancelMoves
  <2>2. CancelRest
    BY <1>8, CancelRests
  <2> QED
    BY <2>1, <2>2 DEF CancelMove, CancelRest, Yields, Held, Told, Bears, Copying, Written,
       StageExact, Staged, Selected
<1>9. ASSUME Claim PROVE Copying'
  <2>1. ClaimMove
    BY <1>9, ClaimMoves
  <2>2. ClaimRest
    BY <1>9, ClaimRests
  <2> QED
    BY <2>1, <2>2 DEF ClaimMove, ClaimRest, Yields, Held, Told, Bears, Copying, Written,
       StageExact, Staged, Selected
<1>10. ASSUME CheckBaseline PROVE Copying'
  <2>1. CheckBaselineMove
    BY <1>10, CheckBaselineMoves
  <2>2. CheckBaselineRest
    BY <1>10, CheckBaselineRests
  <2> QED
    BY <2>1, <2>2 DEF CheckBaselineMove, CheckBaselineRest, Yields, Held, Told, Copying,
       Written, StageExact, Staged, Selected
<1>11. ASSUME ScanScope PROVE Copying'
  <2>1. ScanScopeMove
    BY <1>11, ScanScopeMoves
  <2>2. ScanScopeRest
    BY <1>11, ScanScopeRests
  <2> QED
    BY <2>1, <2>2 DEF ScanScopeMove, ScanScopeRest, Yields, Held, Told, Copying, Written,
       StageExact, Staged, Selected
<1>12. ASSUME TakeNarrow PROVE Copying'
  <2>1. TakeNarrowMove
    BY <1>12, TakeNarrowMoves
  <2>2. TakeNarrowRest
    BY <1>12, TakeNarrowRests
  <2> QED
    BY <2>1, <2>2 DEF TakeNarrowMove, TakeNarrowRest, Yields, Held, Told, Copying,
       Written, StageExact, Staged, Selected
<1>13. ASSUME MakeStage PROVE Copying'
  <2>1. MakeStageMove /\ MakeStageRest
    BY <1>13, MakeStageMoves, MakeStageRests
  <2>2. CASE c'.pc = "copy"
    <3>1. stage'.dir = "ours" /\ stage'.body = Empty
      BY <2>1, <2>2 DEF MakeStageRest
    <3>2. c'.todo = Todo /\ c'.manifest = c.manifest
      BY <2>1, <2>2 DEF MakeStageRest, MakeStageMove, Held
    <3>3. stage'.body = Written'
      BY <3>1, <3>2, NothingWritten
    <3> QED
      BY <2>1, <2>2, <3>1, <3>2, <3>3 DEF MakeStageMove, Copying
  <2>3. CASE c'.pc # "copy"
    BY <2>1, <2>3 DEF MakeStageMove, Copying
  <2> QED
    BY <2>2, <2>3
<1>14. ASSUME NEW q \in Read, CopyFile(q) PROVE Copying'
  <2>1. CopyFileMove(q) /\ CopyFileRest(q)
    BY <1>14, CopyFileMoves, CopyFileRests
  <2>2. CASE touches = 0 /\ c'.pc = "copy"
    <3>1. stage.dir = "ours" /\ stage.body = Written /\ c.manifest = Selected(source)
      BY <2>1, <2>2 DEF CopyFileMove, Copying
    <3>2. c'.todo = c.todo \ {q} /\ stage' = Copied(q) /\ c'.manifest = c.manifest
      BY <2>1, <2>2 DEF CopyFileRest, CopyFileMove, Held
    <3>3. stage'.dir = "ours" /\ stage'.body = Written'
      BY <3>1, <3>2, OneWritten
    <3> QED
      BY <2>1, <2>2, <3>1, <3>2, <3>3 DEF CopyFileMove, Copying
  <2>3. CASE ~(touches = 0 /\ c'.pc = "copy")
    BY <2>1, <2>3 DEF CopyFileMove, Copying
  <2> QED
    BY <2>2, <2>3
<1>15. ASSUME Rescan PROVE Copying'
  <2>1. RescanMove
    BY <1>15, RescanMoves
  <2>2. RescanRest
    BY <1>15, RescanRests
  <2> QED
    BY <2>1, <2>2 DEF RescanMove, RescanRest, Yields, Held, Told, Copying, Written,
       StageExact, Staged, Selected
<1>16. ASSUME GiveUpStage PROVE Copying'
  <2>1. GiveUpStageMove
    BY <1>16, GiveUpStageMoves
  <2>2. GiveUpStageRest
    BY <1>16, GiveUpStageRests
  <2> QED
    BY <2>1, <2>2 DEF GiveUpStageMove, GiveUpStageRest, Yields, Held, Told, Copying, Written,
       StageExact, Staged, Selected
<1>17. ASSUME AbandonStage PROVE Copying'
  <2>1. AbandonStageMove
    BY <1>17, AbandonStageMoves
  <2>2. AbandonStageRest
    BY <1>17, AbandonStageRests
  <2> QED
    BY <2>1, <2>2 DEF AbandonStageMove, AbandonStageRest, Yields, Held, Told, Copying, Written,
       StageExact, Staged, Selected
<1>18. ASSUME Launch PROVE Copying'
  <2>1. LaunchMove
    BY <1>18, LaunchMoves
  <2>2. LaunchRest
    BY <1>18, LaunchRests
  <2> QED
    BY <2>1, <2>2 DEF LaunchMove, LaunchRest, Yields, Held, Told, Bears, Copying, Written,
       StageExact, Staged, Selected
<1>19. ASSUME NEW q \in Paths, NEW b \in Bodies \cup {Absent, Link}, ProviderWrites(q, b)
       PROVE Copying'
  BY <1>19 DEF ProviderWrites, Copying, Written, StageExact, Staged, Selected
<1>20. ASSUME NEW r \in Reports \cup {"none"}, NEW s \in Terminal, NEW d \in {"exact", "wrong"},
            ProviderEnds(r, s, d) PROVE Copying'
  <2>1. ProviderEndsMove(r, s, d)
    BY <1>20, ProviderEndsMoves
  <2>2. ProviderEndsRest(r, s, d)
    BY <1>20, ProviderEndsRests
  <2> QED
    BY <2>1, <2>2 DEF ProviderEndsMove, ProviderEndsRest, Yields, Held, Told, Bears,
       Copying, Written, StageExact, Staged, Selected
<1>21. ASSUME CompareNarrow PROVE Copying'
  <2>1. CompareNarrowMove
    BY <1>21, CompareNarrowMoves
  <2>2. CompareNarrowRest
    BY <1>21, CompareNarrowRests
  <2> QED
    BY <2>1, <2>2 DEF CompareNarrowMove, CompareNarrowRest, Yields, Held, Told, Copying,
       Written, StageExact, Staged, Selected
<1>22. ASSUME ScanMutations PROVE Copying'
  <2>1. ScanMutationsMove
    BY <1>22, ScanMutationsMoves
  <2>2. ScanMutationsRest
    BY <1>22, ScanMutationsRests
  <2> QED
    BY <2>1, <2>2 DEF ScanMutationsMove, ScanMutationsRest, Yields, Held, Told, Copying,
       Written, StageExact, Staged, Selected
<1>23. ASSUME Reconcile PROVE Copying'
  <2>1. ReconcileMove
    BY <1>23, ReconcileMoves
  <2>2. ReconcileRest
    BY <1>23, ReconcileRests
  <2> QED
    BY <2>1, <2>2 DEF ReconcileMove, ReconcileRest, Yields, Held, Told, Copying, Written,
       StageExact, Staged, Selected
<1>24. ASSUME MatchStage PROVE Copying'
  <2>1. MatchStageMove
    BY <1>24, MatchStageMoves
  <2>2. MatchStageRest
    BY <1>24, MatchStageRests
  <2> QED
    BY <2>1, <2>2 DEF MatchStageMove, MatchStageRest, Yields, Held, Told, Copying,
       Written, StageExact, Staged, Selected
<1>25. ASSUME CleanStage PROVE Copying'
  <2>1. CleanStageMove
    BY <1>25, CleanStageMoves
  <2>2. CleanStageRest
    BY <1>25, CleanStageRests
  <2> QED
    BY <2>1, <2>2 DEF CleanStageMove, CleanStageRest, Yields, Held, Told, Copying,
       Written, StageExact, Staged, Selected
<1>26. ASSUME RemoveStage PROVE Copying'
  <2>1. RemoveStageMove
    BY <1>26, RemoveStageMoves
  <2>2. RemoveStageRest
    BY <1>26, RemoveStageRests
  <2> QED
    BY <2>1, <2>2 DEF RemoveStageMove, RemoveStageRest, Yields, Held, Told, Copying,
       Written, StageExact, Staged, Selected
<1>27. ASSUME ObserveCancel PROVE Copying'
  <2>1. ObserveCancelMove
    BY <1>27, ObserveCancelMoves
  <2>2. ObserveCancelRest
    BY <1>27, ObserveCancelRests
  <2> QED
    BY <2>1, <2>2 DEF ObserveCancelMove, ObserveCancelRest, Yields, Held, Told, Copying,
       Written, StageExact, Staged, Selected
<1>28. ASSUME TakeCandidate PROVE Copying'
  <2>1. TakeCandidateMove
    BY <1>28, TakeCandidateMoves
  <2>2. TakeCandidateRest
    BY <1>28, TakeCandidateRests
  <2> QED
    BY <2>1, <2>2 DEF TakeCandidateMove, TakeCandidateRest, Yields, Held, Told, Copying,
       Written, StageExact, Staged, Selected
<1>29. ASSUME Derive PROVE Copying'
  <2>1. DeriveMove
    BY <1>29, DeriveMoves
  <2>2. DeriveRest
    BY <1>29, DeriveRests
  <2> QED
    BY <2>1, <2>2 DEF DeriveMove, DeriveRest, Yields, Held, Told, Copying, Written,
       StageExact, Staged, Selected
<1>30. ASSUME Publish PROVE Copying'
  <2>1. PublishMove
    BY <1>30, PublishMoves
  <2>2. PublishRest
    BY <1>30, PublishRests
  <2> QED
    BY <2>1, <2>2 DEF PublishMove, PublishRest, Yields, Held, Told, Bears, NoController,
       Copying, Written, StageExact, Staged, Selected
<1>31. ASSUME Kill PROVE Copying'
  <2>1. KillMove
    BY <1>31, KillMoves
  <2> QED
    BY <2>1 DEF KillMove, Held, Told, Bears, NoController, Copying, Written, StageExact,
       Staged, Selected
<1>32. ASSUME Break PROVE Copying'
  <2>1. BreakMove
    BY <1>32, BreakMoves
  <2> QED
    BY <2>1 DEF BreakMove, Held, Told, Bears, NoController, Copying, Written, StageExact,
       Staged, Selected
<1>33. CASE UNCHANGED vars
  BY <1>33 DEF vars, Copying, Written, StageExact, Staged, Selected
<1> QED
  BY <1>1, <1>2, <1>3, <1>4, <1>5, <1>6, <1>7, <1>8, <1>9, <1>10, <1>11, <1>12, <1>13,
     <1>14, <1>15, <1>16, <1>17, <1>18, <1>19, <1>20, <1>21, <1>22, <1>23, <1>24, <1>25,
     <1>26, <1>27, <1>28, <1>29, <1>30, <1>31, <1>32, <1>33 DEF Next

\* An attempt whose record was written is launched.
LEMMA LaunchedStep ==
  ASSUME Launched, Queued, Unmade, Copying, Turns, CountOK, SourceOK, JobTyped, MakerOK,
         ControllerOK, StageOK, Handled, Counted, [Next]_vars
  PROVE  Launched'
<1>1. ASSUME NEW q \in Paths, NEW b \in Bodies \cup {Absent}, Edit(q, b) PROVE Launched'
  BY <1>1, Touched DEF Edit, Launched, LaunchAsRecorded
<1>2. ASSUME Meddle PROVE Launched'
  BY <1>2, Touched DEF Meddle, Launched, LaunchAsRecorded
<1>3. ASSUME BeginInitial PROVE Launched'
  BY <1>3 DEF BeginInitial, Launched, LaunchAsRecorded
<1>4. ASSUME NEW o \in Origins, Begin(o) PROVE Launched'
  BY <1>4 DEF Begin, Launched, LaunchAsRecorded
<1>5. ASSUME TakeBaseline PROVE Launched'
  BY <1>5 DEF TakeBaseline, Launched, LaunchAsRecorded
<1>6. ASSUME Record PROVE Launched'
  <2>1. RecordMove
    BY <1>6, RecordMoves
  <2>2. RecordRest
    BY <1>6, RecordRests
  <2> QED
    BY <2>1, <2>2 DEF RecordMove, RecordRest, Yields, Held, Told, Bears, Turns, Launched,
       LaunchAsRecorded
<1>7. ASSUME RefuseRecord PROVE Launched'
  BY <1>7 DEF RefuseRecord, Launched, LaunchAsRecorded
<1>8. ASSUME Cancel PROVE Launched'
  <2>1. CancelMove
    BY <1>8, CancelMoves
  <2>2. CancelRest
    BY <1>8, CancelRests
  <2> QED
    BY <2>1, <2>2 DEF CancelMove, CancelRest, Yields, Held, Told, Bears, Launched,
       LaunchAsRecorded
<1>9. ASSUME Claim PROVE Launched'
  <2>1. ClaimMove
    BY <1>9, ClaimMoves
  <2>2. ClaimRest
    BY <1>9, ClaimRests
  <2> QED
    BY <2>1, <2>2 DEF ClaimMove, ClaimRest, Yields, Held, Told, Bears, Launched,
       LaunchAsRecorded
<1>10. ASSUME CheckBaseline PROVE Launched'
  <2>1. CheckBaselineMove
    BY <1>10, CheckBaselineMoves
  <2>2. CheckBaselineRest
    BY <1>10, CheckBaselineRests
  <2> QED
    BY <2>1, <2>2 DEF CheckBaselineMove, CheckBaselineRest, Yields, Held, Told, Queued,
       AwaitsScan, Launched, LaunchAsRecorded
<1>11. ASSUME ScanScope PROVE Launched'
  <2>1. ScanScopeMove
    BY <1>11, ScanScopeMoves
  <2>2. ScanScopeRest
    BY <1>11, ScanScopeRests
  <2> QED
    BY <2>1, <2>2 DEF ScanScopeMove, ScanScopeRest, Yields, Held, Told, Queued,
       AwaitsScan, Launched, LaunchAsRecorded
<1>12. ASSUME TakeNarrow PROVE Launched'
  <2>1. TakeNarrowMove
    BY <1>12, TakeNarrowMoves
  <2>2. TakeNarrowRest
    BY <1>12, TakeNarrowRests
  <2> QED
    BY <2>1, <2>2 DEF TakeNarrowMove, TakeNarrowRest, Yields, Held, Told, Launched,
       LaunchAsRecorded
<1>13. ASSUME MakeStage PROVE Launched'
  <2>1. MakeStageMove
    BY <1>13, MakeStageMoves
  <2>2. MakeStageRest
    BY <1>13, MakeStageRests
  <2> QED
    BY <2>1, <2>2 DEF MakeStageMove, MakeStageRest, Yields, Held, Told, Unmade, Launched,
       LaunchAsRecorded
<1>14. ASSUME NEW q \in Read, CopyFile(q) PROVE Launched'
  <2>1. CopyFileMove(q) /\ CopyFileRest(q)
    BY <1>14, CopyFileMoves, CopyFileRests
  <2>2. CASE touches = 0
    <3>1. c.pc = "copy" /\ stage.body = Written /\ c.manifest = Selected(source) /\ q \in c.todo
      BY <2>1, <2>2 DEF CopyFileMove, CopyFileRest, Copying
    <3>2. source[q] = c.manifest[q] /\ stage.body[q] = Absent
      BY <3>1 DEF Selected, Written, Paths
    <3> QED
      BY <2>1, <3>1, <3>2 DEF CopyFileMove, CopyFileRest, Launched, LaunchAsRecorded
  <2>3. CASE touches # 0
    BY <2>1, <2>3 DEF CopyFileMove, CopyFileRest, Launched, LaunchAsRecorded
  <2> QED
    BY <2>2, <2>3
<1>15. ASSUME Rescan PROVE Launched'
  <2>1. RescanMove /\ RescanRest
    BY <1>15, RescanMoves, RescanRests
  <2>2. CASE touches = 0
    <3>1. c.pc = "copy" /\ stage.body = Written /\ c.todo = {}
      BY <2>1, <2>2 DEF RescanMove, RescanRest, Copying
    <3>2. c'.pc = "launch"
      BY <2>1, <3>1, AllWritten DEF RescanMove, RescanRest
    <3> QED
      BY <2>1, <3>1, <3>2 DEF RescanMove, RescanRest, Launched, LaunchAsRecorded
  <2>3. CASE touches # 0
    BY <2>1, <2>3 DEF RescanMove, RescanRest, Launched, LaunchAsRecorded
  <2> QED
    BY <2>2, <2>3
<1>16. ASSUME GiveUpStage PROVE Launched'
  <2>1. GiveUpStageMove
    BY <1>16, GiveUpStageMoves
  <2>2. touches # 0
    BY <2>1 DEF GiveUpStageMove, Launched
  <2> QED
    BY <2>1, <2>2 DEF GiveUpStageMove, Launched, LaunchAsRecorded
<1>17. ASSUME AbandonStage PROVE Launched'
  <2>1. AbandonStageMove
    BY <1>17, AbandonStageMoves
  <2>2. touches # 0
    BY <2>1 DEF AbandonStageMove, Launched
  <2> QED
    BY <2>1, <2>2 DEF AbandonStageMove, Launched, LaunchAsRecorded
<1>18. ASSUME Launch PROVE Launched'
  <2>1. LaunchMove
    BY <1>18, LaunchMoves
  <2>2. LaunchRest
    BY <1>18, LaunchRests
  <2> QED
    BY <2>1, <2>2 DEF LaunchMove, LaunchRest, Yields, Held, Told, Bears, Copying,
       Launched, LaunchAsRecorded
<1>19. ASSUME NEW q \in Paths, NEW b \in Bodies \cup {Absent, Link}, ProviderWrites(q, b)
       PROVE Launched'
  BY <1>19 DEF ProviderWrites, Launched, LaunchAsRecorded
<1>20. ASSUME NEW r \in Reports \cup {"none"}, NEW s \in Terminal, NEW d \in {"exact", "wrong"},
            ProviderEnds(r, s, d) PROVE Launched'
  <2>1. ProviderEndsMove(r, s, d)
    BY <1>20, ProviderEndsMoves
  <2>2. ProviderEndsRest(r, s, d)
    BY <1>20, ProviderEndsRests
  <2> QED
    BY <2>1, <2>2 DEF ProviderEndsMove, ProviderEndsRest, Yields, Held, Told, Bears,
       Launched, LaunchAsRecorded
<1>21. ASSUME CompareNarrow PROVE Launched'
  <2>1. CompareNarrowMove
    BY <1>21, CompareNarrowMoves
  <2>2. CompareNarrowRest
    BY <1>21, CompareNarrowRests
  <2> QED
    BY <2>1, <2>2 DEF CompareNarrowMove, CompareNarrowRest, Yields, Held, Told, Launched,
       LaunchAsRecorded
<1>22. ASSUME ScanMutations PROVE Launched'
  <2>1. ScanMutationsMove
    BY <1>22, ScanMutationsMoves
  <2>2. ScanMutationsRest
    BY <1>22, ScanMutationsRests
  <2> QED
    BY <2>1, <2>2 DEF ScanMutationsMove, ScanMutationsRest, Yields, Held, Told, Launched,
       LaunchAsRecorded
<1>23. ASSUME Reconcile PROVE Launched'
  <2>1. ReconcileMove
    BY <1>23, ReconcileMoves
  <2>2. ReconcileRest
    BY <1>23, ReconcileRests
  <2> QED
    BY <2>1, <2>2 DEF ReconcileMove, ReconcileRest, Yields, Held, Told, Launched,
       LaunchAsRecorded
<1>24. ASSUME MatchStage PROVE Launched'
  <2>1. MatchStageMove
    BY <1>24, MatchStageMoves
  <2>2. MatchStageRest
    BY <1>24, MatchStageRests
  <2> QED
    BY <2>1, <2>2 DEF MatchStageMove, MatchStageRest, Yields, Held, Told, Launched,
       LaunchAsRecorded
<1>25. ASSUME CleanStage PROVE Launched'
  <2>1. CleanStageMove
    BY <1>25, CleanStageMoves
  <2>2. CleanStageRest
    BY <1>25, CleanStageRests
  <2> QED
    BY <2>1, <2>2 DEF CleanStageMove, CleanStageRest, Yields, Held, Told, Launched,
       LaunchAsRecorded
<1>26. ASSUME RemoveStage PROVE Launched'
  <2>1. RemoveStageMove
    BY <1>26, RemoveStageMoves
  <2>2. RemoveStageRest
    BY <1>26, RemoveStageRests
  <2> QED
    BY <2>1, <2>2 DEF RemoveStageMove, RemoveStageRest, Yields, Held, Told, Launched,
       LaunchAsRecorded
<1>27. ASSUME ObserveCancel PROVE Launched'
  <2>1. ObserveCancelMove
    BY <1>27, ObserveCancelMoves
  <2>2. ObserveCancelRest
    BY <1>27, ObserveCancelRests
  <2> QED
    BY <2>1, <2>2 DEF ObserveCancelMove, ObserveCancelRest, Yields, Held, Told, Launched,
       LaunchAsRecorded
<1>28. ASSUME TakeCandidate PROVE Launched'
  <2>1. TakeCandidateMove
    BY <1>28, TakeCandidateMoves
  <2>2. TakeCandidateRest
    BY <1>28, TakeCandidateRests
  <2> QED
    BY <2>1, <2>2 DEF TakeCandidateMove, TakeCandidateRest, Yields, Held, Told, Launched,
       LaunchAsRecorded
<1>29. ASSUME Derive PROVE Launched'
  <2>1. DeriveMove
    BY <1>29, DeriveMoves
  <2>2. DeriveRest
    BY <1>29, DeriveRests
  <2> QED
    BY <2>1, <2>2 DEF DeriveMove, DeriveRest, Yields, Held, Told, Launched,
       LaunchAsRecorded
<1>30. ASSUME Publish PROVE Launched'
  <2>1. PublishMove
    BY <1>30, PublishMoves
  <2>2. PublishRest
    BY <1>30, PublishRests
  <2> QED
    BY <2>1, <2>2 DEF PublishMove, PublishRest, Yields, Held, Told, Bears, NoController,
       Launched, LaunchAsRecorded
<1>31. ASSUME Kill PROVE Launched'
  <2>1. KillMove
    BY <1>31, KillMoves
  <2> QED
    BY <2>1 DEF KillMove, Held, Told, Bears, NoController, Launched, LaunchAsRecorded
<1>32. ASSUME Break PROVE Launched'
  <2>1. BreakMove
    BY <1>32, BreakMoves
  <2> QED
    BY <2>1 DEF BreakMove, Held, Told, Bears, NoController, Launched, LaunchAsRecorded
<1>33. CASE UNCHANGED vars
  BY <1>33 DEF vars, Launched, LaunchAsRecorded
<1> QED
  BY <1>1, <1>2, <1>3, <1>4, <1>5, <1>6, <1>7, <1>8, <1>9, <1>10, <1>11, <1>12, <1>13,
     <1>14, <1>15, <1>16, <1>17, <1>18, <1>19, <1>20, <1>21, <1>22, <1>23, <1>24, <1>25,
     <1>26, <1>27, <1>28, <1>29, <1>30, <1>31, <1>32, <1>33 DEF Next

-----------------------------------------------------------------------------
\* The second invariant holds at the start.
LEMMA InitJInv == Init => JInv
  <1> SUFFICES ASSUME Init PROVE JInv
    OBVIOUS
  <1>1. /\ job.status = "none" /\ job.attempt = 0 /\ job.lineage = 0 /\ maker.pc = "none"
        /\ stage.dir = "none" /\ c.pc = "none" /\ c.recon = "no" /\ c.derived = "no"
        /\ c.launched = "no"
    BY DEF Init, NoJob, NoMaker, NoStage, NoController
  <1> QED
    BY <1>1 DEF JInv, Turns, Aged, InOrder, CopyPcs, Matched, Taken, Kept, Eligible, Based,
       Queued,
                AwaitsScan, Unmade, Copying, Launched, LaunchAsRecorded

\* Every step keeps it, the first invariant given.
LEMMA StepJInv == IInv /\ JInv /\ [Next]_vars => JInv'
  <1> SUFFICES ASSUME IInv, JInv, [Next]_vars PROVE JInv'
    OBVIOUS
  <1>1. SourceOK /\ JobTyped /\ MakerOK /\ ControllerOK /\ StageOK /\ CountOK /\ Handled /\ Counted
    BY DEF IInv, Types
  <1>2. /\ Turns /\ Aged /\ InOrder /\ Matched /\ Taken /\ Kept /\ Eligible /\ Based /\ Queued
        /\ Unmade /\ Copying /\ Launched
    BY DEF JInv
  <1>3. Turns' /\ Aged' /\ InOrder'
    BY <1>1, <1>2, TurnsStep, AgedStep, OrderStep
  <1>4. Matched' /\ Taken' /\ Kept'
    BY <1>1, <1>2, MatchedStep, TakenStep, KeptStep
  <1>5. Eligible' /\ Based' /\ Queued'
    BY <1>1, <1>2, EligibleStep, BasedStep, QueuedStep
  <1>6. Unmade' /\ Copying' /\ Launched'
    BY <1>1, <1>2, UnmadeStep, CopyingStep, LaunchedStep
  <1> QED
    BY <1>3, <1>4, <1>5, <1>6 DEF JInv

\* JInv is an invariant.
LEMMA QuietInvariance == Spec => []JInv
  BY Invariance, InitJInv, StepJInv, PTL DEF Spec

\* When nobody edited the worktree since the launch, the candidate that was published is what
\* the provider left on its stage, and the content bound for a repair is the candidate's
\* (_reconcile_stage_to_source, _controller_repair_lineage, _controller_terminal_updates).
THEOREM CandidateIsQuiet == Spec => []QuietCandidate
  <1>1. JInv => QuietCandidate
    BY DEF JInv, Kept, QuietCandidate
  <1> QED
    BY <1>1, QuietInvariance, PTL

\* An attempt whose record was written is launched, unless somebody edited the worktree, touched
\* the stage or asked for a cancellation: the checks of command_start, command_continue and
\* their kin agree with those of run_job before the launch.
THEOREM LaunchedAsRecorded == Spec => []LaunchAsRecorded
  <1>1. JInv => LaunchAsRecorded
    BY DEF JInv, Launched
  <1> QED
    BY <1>1, QuietInvariance, PTL
=============================================================================
