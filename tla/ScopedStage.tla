------------------------------ MODULE ScopedStage ------------------------------
(***************************************************************************)
(* A scoped launch of agy_dispatch.py: the owner approved the exact content*)
(* of some paths of a worktree, the controller copies them to a stage      *)
(* directory of its own, the provider works on the stage, and what it      *)
(* changed there within the write scope is reconciled into the worktree.   *)
(* With --allow-scoped-repair a further attempt may start from what the    *)
(* attempt before it reconciled.                                           *)
(*                                                                         *)
(* Somebody may edit the worktree at any moment, and a process of the same *)
(* user may touch the stage.  A snapshot or a scan of the worktree is one  *)
(* step (WorktreeScan shows what that rests on), and so is a reconciliation*)
(* (Reconciliation shows that it is all or nothing).  Limits of size and   *)
(* time only refuse, and are left out; so are the reasons that merely      *)
(* forbid a continuation (a denied permission, a failed preflight).        *)
(***************************************************************************)
EXTENDS Naturals, FiniteSets

CONSTANTS
  Read,              \* the paths the scope lets the provider read
  Named,             \* those among them that an entry of kind "file" names
  Write,             \* those the provider may create, change or delete
  Outside,           \* the other readable paths of the worktree
  Bodies,            \* what a file may hold
  Absent, Link,      \* no file there; a symlink, which only a stage can hold
  Repairs,           \* "yes" if the launch was approved with scoped repair
  MaxCycles,         \* attempts a job may make
  MaxTouches,        \* edits of the worktree and changes of the stage by others
  MaxChanges         \* paths a provider may have changed at once

ASSUME ScopeAssumption ==
  /\ Named \subseteq Read /\ Write \subseteq Read /\ Read \cap Outside = {}
  /\ Read \cup Outside # {}

ASSUME BodiesAssumption ==
  /\ Absent \notin Bodies /\ Link \notin Bodies /\ Absent # Link

ASSUME BoundsAssumption ==
  /\ Repairs \in {"yes", "no"}
  /\ MaxCycles \in Nat \ {0} /\ MaxTouches \in Nat /\ MaxChanges \in Nat

VARIABLES
  source,            \* the worktree: what each path holds
  approved,          \* the transmission the owner approved
  job,               \* dispatch-state.json
  maker,             \* the command that creates an attempt
  c,                 \* the controller of the attempt
  stage,             \* the directory at the attempt's stage path
  given,             \* history: the stage when a provider was last started
  sealed,            \* history: the content last recorded for a repair
  made,              \* history: the stage last seen equal to the worktree
  touches, quiet     \* a counter; was the worktree left alone since launch

vars == <<source, approved, job, maker, c, stage, given, sealed, made, touches, quiet>>

Paths == Read \cup Outside
Trees == [Paths -> Bodies \cup {Absent}]
StageTrees == [Paths -> Bodies \cup {Absent, Link}]
NoTree == [p \in Paths |-> Link]          \* where no tree is recorded
Empty == [p \in Paths |-> Absent]

Selected(t) == [p \in Read |-> t[p]]
Seen(t) == [names |-> {p \in Paths : t[p] # Absent}, content |-> Selected(t)]
Valid(t) == \A p \in Named : t[p] # Absent
Staged(m) == [p \in Paths |-> IF p \in Read THEN m[p] ELSE Absent]

Reports == {"success", "error", "cancelled"}
Terminal == {"succeeded", "failed", "cancelled", "orphaned"}
Origins == {"initial", "resume", "restart", "continue"}

NoStage == [dir |-> "none", body |-> Empty]

NoController ==
  [pc |-> "none", manifest |-> Selected(Empty), narrow |-> NoTree, own |-> "no",
   todo |-> {}, launched |-> "no", report |-> "none", declared |-> "wrong",
   status |-> "failed", failure |-> "none", puts |-> {}, dels |-> {},
   recon |-> "no", cand |-> NoTree, derived |-> "no", seen |-> Seen(Empty)]

NoMaker == [pc |-> "none", origin |-> "initial", base |-> NoTree]

NoJob ==
  [status |-> "none", attempt |-> 0, origin |-> "initial", base |-> NoTree,
   bound |-> Seen(Empty), result |-> "none", available |-> "no", cand |-> NoTree,
   recon |-> "no", lineage |-> 0, conv |-> "no", cont |-> "no", cancel |-> "no",
   failure |-> "none"]

Init ==
  /\ source \in Trees /\ Valid(source)
  /\ approved = Seen(source)
  /\ job = NoJob /\ maker = NoMaker /\ c = NoController /\ stage = NoStage
  /\ given = NoTree /\ sealed = approved /\ made = Selected(Empty)
  /\ touches = 0 /\ quiet = "yes"

-----------------------------------------------------------------------------
(* The owner's edits, and another process of the same user at the stage *)

Edit(p, b) ==
  /\ touches < MaxTouches /\ source[p] # b
  /\ source' = [source EXCEPT ![p] = b]
  /\ touches' = touches + 1 /\ quiet' = "no"
  /\ UNCHANGED <<approved, job, maker, c, stage, given, sealed, made>>

Meddle ==
  /\ touches < MaxTouches /\ c.pc # "none" /\ touches' = touches + 1
  /\ \/ /\ stage.dir = "none" /\ stage' = [stage EXCEPT !.dir = "other"]
     \/ /\ stage.dir = "ours"
        /\ \E t \in {stage.body, Empty, NoTree} : stage' = [dir |-> "other", body |-> t]
     \/ /\ stage.dir = "ours"
        /\ \E p \in Paths, b \in Bodies \cup {Absent, Link} :
              stage' = [stage EXCEPT !.body[p] = b]
  /\ UNCHANGED <<source, approved, job, maker, c, given, sealed, made, quiet>>

-----------------------------------------------------------------------------
(* What may be sent to a provider: what was approved, or, when an attempt  *)
(* continues a conversation under a repair grant, what the attempt before  *)
(* it recorded. *)

\* Mutant: the record must be of this attempt.
LineageNow == job.lineage # 0 /\ job.lineage = job.attempt

\* The record is of this attempt or, once the next is queued, of the one before.
Lineage == job.lineage # 0 /\ job.lineage \in {job.attempt, job.attempt - 1}

Recorded(t, origin) ==
  /\ origin = "continue" /\ Repairs = "yes" /\ Lineage
  /\ job.result # "none" /\ job.available = "yes" /\ job.recon = "yes"
  /\ job.bound = Seen(t)

\* Mutant: the record of the last attempt covers any selected content.
CoveredByNames(t, origin) ==
  /\ Valid(t)
  /\ Seen(t) = approved \/ (origin = "continue" /\ job.bound.names = Seen(t).names)

Covered(t, origin) ==
  /\ Valid(t)
  /\ IF Seen(t) = approved THEN job.bound = approved ELSE Recorded(t, origin)

ContinueEligible ==
  /\ job.status \in {"succeeded", "failed"} /\ job.cont = "yes"
  /\ job.result \in {"success", "error"} /\ job.available = "yes"
  /\ job.conv = "yes" /\ job.attempt < MaxCycles
  /\ \/ job.bound = approved
     \/ Repairs = "yes" /\ job.lineage # 0 /\ job.lineage = job.attempt

RestartEligible ==
  /\ job.status \in Terminal \ {"orphaned"} /\ job.attempt < MaxCycles

ResumeEligible ==
  /\ RestartEligible /\ job.status = "failed"
  /\ job.result = "none" /\ job.conv = "yes"

-----------------------------------------------------------------------------
(* Creating an attempt: the recovery guards and the bound inputs, then the *)
(* baseline of the worktree, then the scope and the record. *)

Inactive == job.status \notin {"queued", "running"} /\ c.pc = "none"

BeginInitial ==
  /\ maker.pc = "none" /\ job.status = "none"
  /\ maker' = [NoMaker EXCEPT !.pc = "base"]
  /\ UNCHANGED <<source, approved, job, c, stage, given, sealed, made, touches, quiet>>

Begin(origin) ==
  /\ maker.pc = "none" /\ Inactive
  /\ \/ origin = "resume" /\ ResumeEligible
     \/ origin = "restart" /\ RestartEligible
     \/ origin = "continue" /\ ContinueEligible /\ source = job.cand
  /\ Covered(source, "continue")      \* _bound_lifecycle_inputs names no origin
  /\ maker' = [NoMaker EXCEPT !.pc = "base", !.origin = origin]
  /\ UNCHANGED <<source, approved, job, c, stage, given, sealed, made, touches, quiet>>

TakeBaseline ==
  /\ maker.pc = "base"
  /\ maker' = [maker EXCEPT !.pc = "scope", !.base = source]
  /\ UNCHANGED <<source, approved, job, c, stage, given, sealed, made, touches, quiet>>

ScopeHolds ==
  IF maker.origin = "continue" THEN Covered(source, "continue")
  ELSE Valid(source) /\ Seen(source) = approved

Record ==
  LET fresh == [NoJob EXCEPT !.status = "queued", !.attempt = job.attempt + 1,
                             !.origin = maker.origin, !.base = maker.base,
                             !.bound = Seen(source)]
  IN /\ maker.pc = "scope" /\ ScopeHolds
     /\ \/ /\ maker.origin = "continue"
           /\ job' = [job EXCEPT !.status = "queued", !.attempt = @ + 1, !.origin = "continue",
                        !.base = maker.base, !.bound = Seen(source), !.cont = "no",
                        !.cancel = "no", !.failure = "none"]
        \/ maker.origin = "resume" /\ job' = [fresh EXCEPT !.conv = "yes"]
        \/ maker.origin \in {"initial", "restart"} /\ job' = fresh
     /\ maker' = NoMaker /\ stage' = NoStage   \* every attempt has a path of its own
     /\ UNCHANGED <<source, approved, c, given, sealed, made, touches, quiet>>

RefuseRecord ==
  /\ maker.pc = "scope" /\ ~ScopeHolds
  /\ maker' = NoMaker
  /\ UNCHANGED <<source, approved, job, c, stage, given, sealed, made, touches, quiet>>

Cancel ==
  /\ job.status \in {"queued", "running"} /\ job.cancel = "no"
  /\ job' = [job EXCEPT !.cancel = "yes"]
  /\ UNCHANGED <<source, approved, maker, c, stage, given, sealed, made, touches, quiet>>

-----------------------------------------------------------------------------
(* The controller before the provider *)

\* A path that ends without normal completion (_terminal_projection): a
\* candidate the attempt inherited stays, readable unless a binding failed.
SideEnd(status, failure) ==
  job' = [job EXCEPT !.status = status, !.failure = failure,
            !.cancel = "no", !.cont = "no",
            !.available = IF failure = "binding" THEN "no" ELSE @]

Claim ==
  /\ job.status = "queued" /\ c.pc = "none"
  /\ \/ job.cancel = "yes" /\ SideEnd("cancelled", "none") /\ UNCHANGED c
     \/ /\ job.cancel = "no" /\ job.origin = "continue" /\ source # job.cand
        /\ SideEnd("failed", "binding") /\ UNCHANGED c
     \/ /\ job.cancel = "no" /\ (job.origin = "continue" => source = job.cand)
        /\ c' = [NoController EXCEPT !.pc = "baseline"] /\ UNCHANGED job
  /\ UNCHANGED <<source, approved, maker, stage, given, sealed, made, touches, quiet>>

Goes(pc) ==
  /\ c' = [c EXCEPT !.pc = pc]
  /\ UNCHANGED <<source, approved, job, maker, stage, given, sealed, made, touches, quiet>>

CheckBaseline ==
  /\ c.pc = "baseline"
  /\ \/ source = job.base /\ Goes("scope")
     \/ /\ source # job.base /\ c' = [c EXCEPT !.pc = "ended", !.failure = "binding"]
        /\ UNCHANGED <<source, approved, job, maker, stage, given, sealed, made, touches, quiet>>

ScanScope ==
  /\ c.pc = "scope"
  /\ IF Covered(source, job.origin)
     THEN c' = [c EXCEPT !.pc = "narrow", !.manifest = Selected(source)]
     ELSE c' = [c EXCEPT !.pc = "ended"]
  /\ UNCHANGED <<source, approved, job, maker, stage, given, sealed, made, touches, quiet>>

TakeNarrow ==
  /\ c.pc = "narrow"
  /\ c' = [c EXCEPT !.pc = "mkdir", !.narrow = source]
  /\ UNCHANGED <<source, approved, job, maker, stage, given, sealed, made, touches, quiet>>

MakeStage ==
  /\ c.pc = "mkdir"
  /\ \/ /\ stage.dir = "none"
        /\ stage' = [dir |-> "ours", body |-> Empty]
        /\ c' = [c EXCEPT !.pc = "copy", !.todo = {p \in Read : c.manifest[p] # Absent}]
     \/ /\ stage.dir # "none" /\ c' = [c EXCEPT !.pc = "ended"] /\ UNCHANGED stage
  /\ UNCHANGED <<source, approved, job, maker, given, sealed, made, touches, quiet>>

\* Mutant: whatever directory is found at the path is emptied.
RemovableByName == stage.dir # "none" /\ \A p \in Paths : stage.body[p] # Link

\* A stage is emptied only if it is the directory this controller made, through
\* a descriptor of it, and not past a symlink (what such a removal unlinked
\* before it met one is left out).
Removable == stage.dir = "ours" /\ \A p \in Paths : stage.body[p] # Link

Emptied == [stage EXCEPT !.body = Empty]

\* The rmdir that follows names the path again: it takes whatever empty
\* directory is there by then.
EmptyAtPath == stage.dir # "none" /\ stage.body = Empty

RemovedAtPath == IF EmptyAtPath THEN NoStage ELSE stage

GivesUp ==
  /\ c' = [c EXCEPT !.pc = "giveup", !.todo = {}] /\ UNCHANGED stage

GiveUpStage ==
  /\ c.pc = "giveup"
  /\ IF Removable THEN stage' = Emptied /\ c' = [c EXCEPT !.pc = "abandon"]
     ELSE c' = [c EXCEPT !.pc = "ended"] /\ UNCHANGED stage
  /\ UNCHANGED <<source, approved, job, maker, given, sealed, made, touches, quiet>>

AbandonStage ==
  /\ c.pc = "abandon"
  /\ stage' = RemovedAtPath /\ c' = [c EXCEPT !.pc = "ended"]
  /\ UNCHANGED <<source, approved, job, maker, given, sealed, made, touches, quiet>>

\* The copy goes through a descriptor of the directory that was made.
CopyFile(p) ==
  /\ c.pc = "copy" /\ p \in c.todo
  /\ IF source[p] = c.manifest[p] /\ (stage.dir = "ours" => stage.body[p] = Absent)
     THEN /\ c' = [c EXCEPT !.todo = @ \ {p}]
          /\ stage' = IF stage.dir = "ours"
                      THEN [stage EXCEPT !.body[p] = c.manifest[p]] ELSE stage
     ELSE GivesUp
  /\ UNCHANGED <<source, approved, job, maker, given, sealed, made, touches, quiet>>

Rescan ==
  /\ c.pc = "copy" /\ c.todo = {}
  /\ IF /\ Selected(stage.body) = c.manifest
        /\ \A p \in Paths : stage.body[p] # Link
     THEN c' = [c EXCEPT !.pc = "launch", !.own = "yes"] /\ UNCHANGED stage
     ELSE GivesUp
  /\ UNCHANGED <<source, approved, job, maker, given, sealed, made, touches, quiet>>

\* _revalidate_scoped_provider_stage, next to the start of the process
StageExact == stage.dir = "ours" /\ stage.body = Staged(c.manifest)

Launch ==
  /\ c.pc = "launch"
  /\ \/ /\ job.cancel = "yes"
        /\ c' = [c EXCEPT !.pc = "ended", !.status = "cancelled"]
        /\ UNCHANGED <<job, given, quiet>>
     \/ /\ job.cancel = "no" /\ ~StageExact
        /\ job' = [job EXCEPT !.status = "running"]
        /\ c' = [c EXCEPT !.pc = "ended"]
        /\ UNCHANGED <<given, quiet>>
     \/ /\ job.cancel = "no" /\ StageExact
        /\ job' = [job EXCEPT !.status = "running"]
        /\ c' = [c EXCEPT !.pc = "running", !.launched = "yes"]
        /\ given' = stage.body
        /\ quiet' = "yes"
  /\ UNCHANGED <<source, approved, maker, stage, sealed, made, touches>>

-----------------------------------------------------------------------------
(* The provider works on the stage, reports or not, and is reaped. *)

Before(p) == IF p \in Read THEN c.manifest[p] ELSE Absent
Changed == {p \in Paths : stage.body[p] # Before(p)}

ProviderWrites(p, b) ==
  /\ c.pc = "running" /\ stage.dir = "ours" /\ stage.body[p] # b
  /\ b # Before(p) => Cardinality(Changed \cup {p}) <= MaxChanges
  /\ stage' = [stage EXCEPT !.body[p] = b]
  /\ UNCHANGED <<source, approved, job, maker, c, given, sealed, made, touches, quiet>>

ProviderEnds(report, status, declared) ==
  /\ c.pc = "running"
  /\ report = "success" => status \in {"succeeded", "failed"}
  /\ report = "error" => status = "failed"
  /\ report \in {"cancelled", "none"} => status \in {"cancelled", "failed"}
  /\ report = "none" => declared = "wrong"
  /\ c' = [c EXCEPT !.pc = "ended", !.report = report, !.status = status,
                    !.declared = declared]
  /\ job' = [job EXCEPT !.conv = IF report # "none" THEN "yes" ELSE @]
  /\ UNCHANGED <<source, approved, maker, stage, given, sealed, made, touches, quiet>>

-----------------------------------------------------------------------------
(* After the provider *)

\* Mutant: a path outside the scope may be created.
AuthorizedOutside ==
  /\ Changed \cap Read \subseteq Write
  /\ \A p \in Paths : stage.body[p] # Link

\* _scan_stage_mutations
Authorized ==
  /\ Changed \subseteq Write
  /\ \A p \in Paths : stage.body[p] # Link

FailStage == c' = [c EXCEPT !.pc = "clean", !.failure = "stage"]

StageAtPath == c.narrow # NoTree /\ stage.dir # "none"

CompareNarrow ==
  /\ c.pc = "ended"
  /\ \/ ~StageAtPath /\ c' = [c EXCEPT !.pc = "observe"]
     \/ StageAtPath /\ source = c.narrow /\ c' = [c EXCEPT !.pc = "mutations"]
     \/ StageAtPath /\ source # c.narrow /\ FailStage
  /\ UNCHANGED <<source, approved, job, maker, stage, given, sealed, made, touches, quiet>>

ScanMutations ==
  /\ c.pc = "mutations"
  /\ IF Authorized /\ (c.report # "none" => c.declared = "exact")
     THEN IF c.report = "none"
          THEN c' = [c EXCEPT !.pc = "clean", !.recon = "yes"]
          ELSE c' = [c EXCEPT !.pc = "reconcile",
                       !.puts = {p \in Changed : stage.body[p] # Absent},
                       !.dels = {p \in Changed : stage.body[p] = Absent}]
     ELSE FailStage
  /\ UNCHANGED <<source, approved, job, maker, stage, given, sealed, made, touches, quiet>>

\* Mutant: the reconciliation writes over whatever is there.
DriftIgnored == TRUE

\* The operations are those of the scan; the bytes are read from the stage now.
\* A path that is not as it was at the launch is refused.
NotDrifted == \A p \in c.puts \cup c.dels : source[p] = Before(p)

Reconcile ==
  /\ c.pc = "reconcile"
  /\ IF NotDrifted /\ \A p \in c.puts : stage.body[p] \in Bodies
     THEN /\ source' = [p \in Paths |-> IF p \in c.puts THEN stage.body[p]
                                       ELSE IF p \in c.dels THEN Absent
                                       ELSE source[p]]
          /\ c' = [c EXCEPT !.pc = "match", !.recon = "yes"]
     ELSE FailStage /\ UNCHANGED source
  /\ UNCHANGED <<approved, job, maker, stage, given, sealed, made, touches, quiet>>

MatchStage ==
  /\ c.pc = "match"
  /\ IF Selected(source) = Selected(stage.body)
     THEN c' = [c EXCEPT !.pc = "clean"] /\ made' = Selected(stage.body)
     ELSE FailStage /\ UNCHANGED made
  /\ UNCHANGED <<source, approved, job, maker, stage, given, sealed, touches, quiet>>

CleanupFails ==
  c' = [c EXCEPT !.pc = "observe", !.report = "none", !.status = "failed",
                 !.failure = "binding"]

CleanStage ==
  /\ c.pc = "clean"
  /\ IF c.own = "yes" /\ Removable
     THEN stage' = Emptied /\ c' = [c EXCEPT !.pc = "rmdir"]
     ELSE CleanupFails /\ UNCHANGED stage
  /\ UNCHANGED <<source, approved, job, maker, given, sealed, made, touches, quiet>>

\* Mutant: what the removal itself meets is not reported.
CleanupUnchecked == c.failure = "stage"

CleanupFailed == c.failure = "stage" \/ ~EmptyAtPath

RemoveStage ==
  /\ c.pc = "rmdir"
  /\ stage' = RemovedAtPath
  /\ IF CleanupFailed THEN CleanupFails ELSE c' = [c EXCEPT !.pc = "observe"]
  /\ UNCHANGED <<source, approved, job, maker, given, sealed, made, touches, quiet>>

Cancelled ==
  [c EXCEPT !.report = "none", !.status = "cancelled", !.failure = "none"]

ObserveCancel ==
  /\ c.pc = "observe"
  /\ c' = [(IF job.cancel = "yes" THEN Cancelled ELSE c) EXCEPT !.pc = "candidate"]
  /\ UNCHANGED <<source, approved, job, maker, stage, given, sealed, made, touches, quiet>>

TakeCandidate ==
  /\ c.pc = "candidate"
  /\ c' = IF c.report = "none" THEN [c EXCEPT !.pc = "publish"]
          ELSE [c EXCEPT !.pc = IF c.recon = "yes" THEN "derive" ELSE "publish",
                         !.cand = source]
  /\ UNCHANGED <<source, approved, job, maker, stage, given, sealed, made, touches, quiet>>

Derive ==
  /\ c.pc = "derive"
  /\ c' = IF Valid(source)
          THEN [c EXCEPT !.pc = "publish", !.derived = "yes", !.seen = Seen(source)]
          ELSE [c EXCEPT !.pc = "publish"]
  /\ UNCHANGED <<source, approved, job, maker, stage, given, sealed, made, touches, quiet>>

\* Mutant: the content a repair grant is bound to is not recorded anew.
BoundKept(j, f) == j.bound

\* The content recorded with a candidate, if the scope still holds of it.
Bound(j, f) == IF f.derived = "yes" THEN f.seen ELSE j.bound

\* _controller_repair_lineage and _controller_terminal_updates for a report
WithReport(j, f) ==
  LET lineage == IF Repairs = "yes" /\ f.derived = "yes" THEN j.attempt ELSE 0
  IN [j EXCEPT !.status = f.status, !.result = f.report, !.available = "yes",
        !.cand = f.cand, !.recon = f.recon, !.lineage = lineage,
        !.bound = Bound(j, f), !.failure = f.failure,
        !.cancel = "no",
        !.cont = IF /\ f.status \in {"succeeded", "failed"} /\ f.report # "cancelled"
                    /\ j.conv = "yes" /\ j.attempt < MaxCycles
                    /\ (f.derived = "yes" /\ f.seen = approved) \/ lineage # 0
                 THEN "yes" ELSE "no"]

\* Without a report: a candidate inherited by a continuation is preserved.
WithoutReport(j, f) ==
  LET prior == j.origin = "continue" /\ j.result # "none"
      failure == IF prior /\ j.available = "no" THEN "binding" ELSE f.failure
      status == IF prior /\ j.available = "no" THEN "failed" ELSE f.status
  IN [j EXCEPT !.status = status, !.failure = failure, !.cancel = "no",
        !.recon = IF prior THEN @ ELSE f.recon,
        !.available = IF prior /\ failure # "binding" THEN "yes" ELSE "no",
        !.cont = IF /\ prior /\ failure # "binding" /\ j.result # "cancelled"
                    /\ status = "failed" /\ j.conv = "yes" /\ j.attempt < MaxCycles
                    /\ j.bound = approved \/ j.lineage # 0
                 THEN "yes" ELSE "no"]

Publish ==
  LET f == IF job.cancel = "yes" THEN Cancelled ELSE c
  IN /\ c.pc = "publish"
     /\ job' = IF f.report # "none" THEN WithReport(job, f) ELSE WithoutReport(job, f)
     /\ c' = NoController
     /\ sealed' = IF f.report # "none" /\ Repairs = "yes" /\ f.derived = "yes"
                  THEN f.seen ELSE sealed
     /\ UNCHANGED <<source, approved, maker, stage, given, made, touches, quiet>>

\* The controller is killed, and the next status command finds nobody there;
\* or it fails after the launch and still terminalizes the job.
Kill ==
  /\ c.pc # "none" /\ c' = NoController
  /\ job' = [job EXCEPT !.status = "orphaned", !.cont = "no", !.cancel = "no"]
  /\ UNCHANGED <<source, approved, maker, stage, given, sealed, made, touches, quiet>>

Break ==
  /\ c.launched = "yes" /\ c' = NoController
  /\ IF job.cancel = "yes" THEN SideEnd("cancelled", "none")
     ELSE SideEnd("failed", "binding")
  /\ UNCHANGED <<source, approved, maker, stage, given, sealed, made, touches, quiet>>

Next ==
  \/ \E p \in Paths, b \in Bodies \cup {Absent} : Edit(p, b)
  \/ Meddle
  \/ BeginInitial \/ \E o \in Origins : Begin(o)
  \/ TakeBaseline \/ Record \/ RefuseRecord \/ Cancel
  \/ Claim \/ CheckBaseline \/ ScanScope \/ TakeNarrow \/ MakeStage
  \/ \E p \in Read : CopyFile(p)
  \/ Rescan \/ GiveUpStage \/ AbandonStage \/ Launch
  \/ \E p \in Paths, b \in Bodies \cup {Absent, Link} : ProviderWrites(p, b)
  \/ \E r \in Reports \cup {"none"}, s \in Terminal, d \in {"exact", "wrong"} :
        ProviderEnds(r, s, d)
  \/ CompareNarrow \/ ScanMutations \/ Reconcile \/ MatchStage
  \/ CleanStage \/ RemoveStage \/ ObserveCancel \/ TakeCandidate \/ Derive \/ Publish
  \/ Kill \/ Break

Spec == Init /\ [][Next]_vars
-----------------------------------------------------------------------------
(* Properties *)

Contents == [Read -> Bodies \cup {Absent}]
Sights == [names : SUBSET Paths, content : Contents]
Flags == {"yes", "no"}
Failures == {"none", "binding", "stage"}
Steps == {"none", "baseline", "scope", "narrow", "mkdir", "copy", "giveup", "abandon",
          "launch", "running", "ended", "mutations", "reconcile", "match", "clean", "rmdir",
          "observe", "candidate", "derive", "publish"}

Jobs ==
  [status : Terminal \cup {"none", "queued", "running"}, attempt : 0..MaxCycles,
   origin : Origins, base : StageTrees, bound : Sights,
   result : Reports \cup {"none"}, available : Flags, cand : StageTrees,
   recon : Flags, lineage : 0..MaxCycles, conv : Flags, cont : Flags,
   cancel : Flags, failure : Failures]

Controllers ==
  [pc : Steps, manifest : Contents, narrow : StageTrees, own : Flags,
   todo : SUBSET Read, launched : Flags, report : Reports \cup {"none"},
   declared : {"exact", "wrong"}, status : Terminal, failure : Failures,
   puts : SUBSET Write, dels : SUBSET Write, recon : Flags, cand : StageTrees,
   derived : Flags, seen : Sights]

\* Every variable stays in its domain, and at rest no failure is half handled.
TypeOK ==
  /\ source \in Trees /\ approved \in Sights
  /\ job \in Jobs /\ job.failure # "stage"
  /\ maker \in [pc : {"none", "base", "scope"}, origin : Origins, base : StageTrees]
  /\ c \in Controllers
  /\ stage \in [dir : {"none", "ours", "other"}, body : StageTrees]
  /\ given \in StageTrees /\ sealed \in Sights
  /\ made \in [Read -> Bodies \cup {Absent, Link}]
  /\ touches \in 0..MaxTouches /\ quiet \in Flags

\* A provider is started on the content the owner approved or, under a repair
\* grant, on the content recorded when the candidate it continues was
\* published (_require_scoped_transmission_authority), and on nothing else.
\* The revalidation of the stage and the start of the process are one step: a
\* change of the stage between them is one made while the provider runs.
SentIsRecorded ==
  c.pc = "running" =>
    /\ Selected(given) \in {approved.content, sealed.content}
    /\ \A p \in Outside : given[p] = Absent

\* The controller changes a path of the worktree only within the write scope
\* and only as it was at the launch; and of a directory that is not its own it
\* takes nothing, the directory itself only if it is empty and was put at the
\* stage's path between the emptying of the stage and the rmdir that names the
\* path again (_reconcile_stage_to_source, _cleanup_stage).
OthersKept ==
  [][touches' = touches =>
       /\ \A p \in Paths : source'[p] # source[p] =>
            p \in Write /\ source[p] = Before(p)
       /\ stage.dir = "other" =>
            \/ stage' = stage \/ job'.attempt # job.attempt
            \/ stage.body = Empty /\ c.pc \in {"abandon", "rmdir"}]_vars

\* A stage that outlives its attempt is reported: the job ended by a failed
\* binding, by a cancellation, or with its controller.
StageAccounted ==
  c.pc = "none" /\ stage.dir = "ours" =>
    job.failure = "binding" \/ job.status \in {"cancelled", "orphaned"}

\* When nobody edited the worktree since the launch, the candidate that was
\* published is what the provider left on its stage, and the content bound for
\* a repair is the candidate's.
QuietCandidate ==
  c.pc = "none" /\ quiet = "yes" /\ job.available = "yes"
  /\ job.lineage # 0 /\ job.lineage = job.attempt =>
    /\ job.cand = source /\ job.bound = Seen(source)
    /\ Selected(source) = made

\* An attempt whose record was written is launched, unless somebody edited the
\* worktree, touched the stage or asked for a cancellation: the checks before
\* the record and those before the launch agree.
LaunchAsRecorded ==
  c.pc = "ended" /\ touches = 0 /\ job.cancel = "no" =>
    c.launched = "yes"

\* "Covered candidate evolution can reuse that approval; external drift or
\* changed grants reject before another turn"
\* (PROJECT_LIFECYCLE_AND_VERIFICATION.md:286-287): a provider is sent what was
\* approved or what the provider before it left on its stage.  Not kept: see the
\* observations in README.md.
DriftIsNotSent ==
  c.pc = "running" => Selected(given) \in {approved.content, made}

\* "Verification finds a repairable gap: bind the exact current candidate and
\* request a same-conversation continue within the remaining attempt budget"
\* (PROJECT_WORKFLOW.md:577): under a repair grant, a readable candidate the
\* worktree still equals can be continued.  Not kept: see the observations in
\* README.md.
RepairGoesOn ==
  /\ c.pc = "none" /\ maker.pc = "none"
  /\ job.status \in {"succeeded", "failed"} /\ job.result \in {"success", "error"}
  /\ job.available = "yes" /\ job.cand = source /\ Valid(source)
  /\ Repairs = "yes" /\ quiet = "yes" /\ job.attempt < MaxCycles
  => ContinueEligible /\ Covered(source, "continue")
=============================================================================
