---------------------------- MODULE Reconciliation ----------------------------
(***************************************************************************)
(* The durable transaction that copies a provider's staged changes back    *)
(* into the source worktree (agy_dispatch_worktree.py).  A manifest of     *)
(* create / replace / delete operations is applied one operation at a time *)
(* under a ledger file (the "marker") kept in the job directory next to a  *)
(* directory of backups; a failed or interrupted transaction is undone     *)
(* from the ledger.                                                        *)
(*                                                                         *)
(* The source tree, the marker and the backups survive a crash; the        *)
(* program counter and the ledger in memory do not.  A step changes what   *)
(* at most one path holds, or replaces the marker, or writes or removes    *)
(* backups, together with the checks that guard the change.                *)
(***************************************************************************)
EXTENDS Naturals, Sequences, FiniteSets

CONSTANTS
  Path,        \* the relative paths of the source tree
  Anc,         \* Anc[p]: the proper ancestor directories of p below the root
  Content,     \* file contents that a reconciliation may read or write
  Foreign,     \* the content that another local process writes
  MaxCalls,    \* bound: calls of the two entry points
  MaxCrashes,  \* bound: kills of the controller inside a call
  MaxFaults,   \* bound: system calls that fail inside a call
  MaxDrifts    \* bound: paths that another local process changes

Shape == {"none", "dir"} \cup Content      \* what a path holds

ASSUME ConstantsAssumption ==
  /\ IsFiniteSet(Path)
  /\ Anc \in [Path -> SUBSET Path]
  /\ \A p \in Path : p \notin Anc[p] /\ \A q \in Anc[p] : Anc[q] \subseteq Anc[p]
  /\ Foreign \in Content /\ "none" \notin Content /\ "dir" \notin Content
  /\ {MaxCalls, MaxCrashes, MaxFaults, MaxDrifts} \subseteq Nat

VARIABLES
  before, after,  \* the source as staged, and the stage the provider left
  ops,            \* the operation manifest: the paths to change, in order
  src,            \* the source tree on disk
  litter,         \* targets whose temporary file was left beside them
  disk,           \* the marker file in the job directory
  backupDir,      \* does the backup directory exist?
  bfiles,         \* the paths with a backup file in it
  pc, k, led,     \* the call in progress: control, operation index, ledger
  then,           \* what the call does when its recovery is over
  report,         \* how the latest call ended
  clock,          \* source of fresh inode numbers and change times
  drifted,        \* ghost: paths another process changed
  calls, crashes, faults

fs      == <<src, litter>>
job     == <<disk, backupDir, bfiles>>
call    == <<pc, k, led, then, report>>
plan    == <<before, after, ops>>
budget  == <<drifted, calls, crashes, faults>>
vars    == <<plan, fs, job, call, clock, budget>>

-----------------------------------------------------------------------------
(* The manifest (_scan_stage_mutations) *)

WellFormed(t) == \A p \in Path : t[p] # "none" => \A q \in Anc[p] : t[q] = "dir"

\* What was staged is told apart from what another process writes later.
Trees == {t \in [Path -> Shape \ {Foreign}] : WellFormed(t)}

Changed == {p \in Path : before[p] # after[p]}
Op(p)   == IF before[p] = "none" THEN "create"
           ELSE IF after[p] = "none" THEN "delete" ELSE "replace"
IsDir(p) == "dir" \in {before[p], after[p]}

Depth(p) == Cardinality(Anc[p])
Deepest  == Cardinality(Path)

\* Created directories from the top, created files, replaced files, deleted
\* files, deleted directories from the bottom.
Rank(p) == CASE Op(p) = "create"  /\ IsDir(p)  -> Depth(p)
             [] Op(p) = "create"  /\ ~IsDir(p) -> Deepest + 1
             [] Op(p) = "replace"              -> Deepest + 2
             [] Op(p) = "delete"  /\ ~IsDir(p) -> Deepest + 3
             [] OTHER                          -> 2 * Deepest + 4 - Depth(p)

\* ops lists every changed path once, by rank.
IsManifest(s) ==
  /\ \A i \in 1 .. Len(s) : s[i] \in Changed
  /\ \A p \in Changed : \E i \in 1 .. Len(s) : s[i] = p
  /\ \A i, j \in 1 .. Len(s) : i < j => s[i] # s[j] /\ Rank(s[i]) <= Rank(s[j])

\* A path never changes between file and directory.
SameKind == \A p \in Path :
  before[p] # "none" /\ after[p] # "none" => (before[p] = "dir" <=> after[p] = "dir")

-----------------------------------------------------------------------------
(* The source tree.  ino stands for the fields of an entry's identity that *)
(* survive metadata changes, stamp for its size, times and link count.     *)
(* The mode of a directory that is deleted is the one the ledger records:  *)
(* only ancestors of what is written are made private, and those stay.     *)

NoEntry == [data |-> "none", ino |-> 0, stamp |-> 0, mode |-> "given"]
Entry   == [data : Shape, ino : Nat, stamp : Nat, mode : {"given", "private"}]

NoBinding  == <<0, 0>>
Binding(e) == IF e.data = "none" THEN NoBinding ELSE <<e.ino, e.stamp>>

Parents(p)      == {q \in Anc[p] : Anc[p] = Anc[q] \cup {q}}
Reachable(p)    == \A q \in Anc[p] : src[q].data = "dir"
Exists(p)       == src[p].data # "none"
EmptyDir(d)     == /\ \A p \in Path : d \in Anc[p] => ~Exists(p)
                   /\ \A p \in litter : d \notin Anc[p]
Fresh(d, m)     == [data |-> d, ino |-> clock, stamp |-> clock, mode |-> m]
SourceIs(t)     == \A p \in Path : src[p].data = t[p]

\* src after p becomes e: the parent directory of p changes with it.
Linked(s, p, e) ==
  [q \in Path |-> IF q = p THEN e
                  ELSE IF q \in Parents(p) THEN [s[q] EXCEPT !.stamp = clock]
                  ELSE s[q]]

\* src after fchmod(0700) of every ancestor of p.
Private(s, p) ==
  [q \in Path |-> IF q \in Anc[p] THEN [s[q] EXCEPT !.mode = "private", !.stamp = clock]
                  ELSE s[q]]

-----------------------------------------------------------------------------
(* The ledger *)

Statuses == {"absent", "prepared", "applying", "rollback-required",
             "rollback-restoring", "rolled-back-verified", "committed"}
\* Mutant: a rollback that was only begun counts as decided.
DecidedEarly == {"committed", "rolled-back-verified", "rollback-restoring"}
Decided      == {"committed", "rolled-back-verified"}

Bindings == [Path -> Nat \X Nat]
Unbound  == [p \in Path |-> NoBinding]
Ledger   == [status : Statuses, active : Nat, prior : Bindings, post : Bindings,
             rolled : Bindings, pending : SUBSET Path]
NoLedger == [status |-> "absent", active |-> 0, prior |-> Unbound,
             post |-> Unbound, rolled |-> Unbound, pending |-> {}]

\* _persist_reconciliation_ledger: the marker is replaced in one rename.
Persist(l) == led' = l /\ disk' = l

\* _refresh_reconciliation_directory_ancestors: the recorded bindings m of
\* the ancestors of p among D follow the change this transaction made below.
Refreshed(m, p, D) ==
  [q \in Path |-> IF q \in D \cap Anc[p] THEN Binding(src[q]) ELSE m[q]]
RefreshOK(m, p, D) == \A q \in D \cap Anc[p] : Exists(q) /\ src[q].ino = m[q][1]

CreatedDirs == {p \in Changed : Op(p) = "create" /\ IsDir(p)}
DeletedDirs == {p \in Changed : Op(p) = "delete" /\ IsDir(p)}
BackedUp    == {p \in Changed : Op(p) # "create" /\ ~IsDir(p)}

-----------------------------------------------------------------------------
TypeOK ==
  /\ before \in Trees /\ after \in Trees
  /\ ops \in Seq(Path) /\ IsManifest(ops)
  /\ src \in [Path -> Entry] /\ litter \subseteq Path
  /\ disk \in Ledger /\ led \in Ledger
  /\ backupDir \in BOOLEAN /\ bfiles \subseteq Path
  /\ pc \in {"idle", "recover", "undo", "undone", "redoDir", "makeDir", "modeDir", "madeDir",
             "redoFile", "backTemp", "backSwap", "backDone", "verify",
             "finishFiles", "finishDir", "finishMarker",
             "begin", "prepare", "publish", "announce",
             "apply", "swap", "observe", "settle", "require"}
  /\ k \in 0 .. Len(ops) + 1
  /\ then \in {"none", "recover", "reconcile", "rollback", "commit"}
  /\ report \in {"none", "nothing", "recovered", "committed", "rolledback",
                 "failed", "uncertain"}
  /\ clock \in Nat /\ drifted \subseteq Path
  /\ calls \in Nat /\ crashes \in Nat /\ faults \in Nat

Init ==
  /\ before \in Trees /\ after \in Trees /\ SameKind
  /\ ops \in UNION {[1 .. n -> Changed] : n \in {Cardinality(Changed)}}
  /\ IsManifest(ops)
  /\ src = [p \in Path |-> IF before[p] = "none" THEN NoEntry
                           ELSE [data |-> before[p], ino |-> 1, stamp |-> 1,
                                 mode |-> "given"]]
  /\ litter = {} /\ disk = NoLedger /\ backupDir = FALSE /\ bfiles = {}
  /\ pc = "idle" /\ k = 0 /\ led = NoLedger /\ then = "none" /\ report = "none"
  /\ clock = 2 /\ drifted = {} /\ calls = 0 /\ crashes = 0 /\ faults = 0

Return(r) == /\ pc' = "idle" /\ report' = r
             /\ k' = 0 /\ led' = NoLedger /\ then' = "none"

Goto(label, i) == pc' = label /\ k' = i /\ UNCHANGED <<then, report>>

At(label) == pc = label /\ UNCHANGED <<plan, budget>>

\* A recovery that raises: the marker and the backups stay for the next call.
Uncertain == Return("uncertain") /\ UNCHANGED <<fs, job, clock>>

Target == ops[k]

Tick == clock' = clock + 1

-----------------------------------------------------------------------------
(* Entry points *)

\* _recover_reconciliation as an entry point of its own.
StartRecover ==
  /\ pc = "idle" /\ calls < MaxCalls
  /\ calls' = calls + 1
  /\ pc' = "recover" /\ then' = "recover"
  /\ UNCHANGED <<plan, fs, job, k, led, report, clock, drifted, crashes, faults>>

\* _reconcile_stage_to_source, which its caller reaches only after the source
\* was compared with the tree that the stage was made from.
StartReconcile ==
  /\ pc = "idle" /\ calls < MaxCalls
  /\ SourceIs(before)
  /\ calls' = calls + 1
  /\ pc' = "recover" /\ then' = "reconcile"
  /\ UNCHANGED <<plan, fs, job, k, led, report, clock, drifted, crashes, faults>>

\* What follows once there is nothing left to recover.
AfterRecovery(nothing) ==
  IF then = "reconcile"
  THEN pc' = "begin" /\ k' = 0 /\ led' = NoLedger /\ UNCHANGED <<then, report>>
  ELSE Return(IF nothing THEN "nothing"
              ELSE CASE then = "recover"  -> "recovered"
                     [] then = "rollback" -> "rolledback"
                     [] OTHER             -> "committed")

-----------------------------------------------------------------------------
(* Recovery: _recover_reconciliation, _restore_reconciliation_prior *)

Recover ==
  /\ At("recover") /\ UNCHANGED <<fs, backupDir, bfiles, clock>>
  /\ \/ /\ disk.status = "absent"
        /\ AfterRecovery(TRUE) /\ UNCHANGED disk
     \/ /\ disk.status # "absent" /\ ~backupDir
        /\ Return("uncertain") /\ UNCHANGED disk
     \/ /\ disk.status \in Decided /\ backupDir
        /\ led' = disk /\ UNCHANGED disk
        /\ Goto("finishFiles", 0)
     \/ /\ disk.status \notin Decided \cup {"absent"} /\ backupDir
        /\ Persist([disk EXCEPT !.status = "rollback-restoring"])
        /\ Goto("undo", Len(ops))

\* Remove what the transaction created, the latest first, as long as the
\* entry is the one the ledger recorded after creating it.
UndoCreate ==
  /\ At("undo")
  /\ \/ /\ k = 0
        /\ Goto("redoDir", Len(ops)) /\ UNCHANGED <<fs, job, led, clock>>
     \/ /\ k > 0 /\ Op(Target) # "create"
        /\ Goto("undo", k - 1) /\ UNCHANGED <<fs, job, led, clock>>
     \/ /\ k > 0 /\ Op(Target) = "create" /\ ~Reachable(Target)
        /\ Uncertain
     \/ /\ k > 0 /\ Op(Target) = "create" /\ Reachable(Target) /\ ~Exists(Target)
        /\ Goto("undo", k - 1) /\ UNCHANGED <<fs, job, led, clock>>
     \/ /\ k > 0 /\ Op(Target) = "create" /\ Reachable(Target) /\ Exists(Target)
        /\ IF /\ Binding(src[Target]) = led.post[Target]
              /\ IsDir(Target) => EmptyDir(Target)
           THEN /\ src' = Linked(src, Target, NoEntry)
                /\ Tick /\ Goto("undone", k) /\ UNCHANGED <<litter, job, led>>
           ELSE Uncertain

UndoCreateDone ==
  /\ At("undone") /\ UNCHANGED <<fs, backupDir, bfiles, clock>>
  /\ LET D == CreatedDirs \cap {ops[j] : j \in 1 .. k - 1}
     IN  IF RefreshOK(led.post, Target, D)
         THEN /\ Persist([led EXCEPT !.post = Refreshed(led.post, Target, D)])
              /\ Goto("undo", k - 1)
         ELSE Return("uncertain") /\ UNCHANGED disk

\* Recreate deleted directories from the top.
RestoreDirectory ==
  /\ At("redoDir") /\ UNCHANGED <<fs, backupDir, bfiles, clock>>
  /\ \/ /\ k = 0
        /\ Goto("redoFile", 1) /\ UNCHANGED <<disk, led>>
     \/ /\ k > 0 /\ Target \notin DeletedDirs
        /\ Goto("redoDir", k - 1) /\ UNCHANGED <<disk, led>>
     \/ /\ k > 0 /\ Target \in DeletedDirs /\ Reachable(Target) /\ ~Exists(Target)
        /\ Persist([led EXCEPT !.pending = @ \cup {Target}])
        /\ Goto("makeDir", k)
     \/ /\ k > 0 /\ Target \in DeletedDirs
        /\ Reachable(Target) => Exists(Target)
        /\ IF /\ src[Target].data = "dir" /\ Reachable(Target)
              /\ src[Target].mode = "given"
              /\ IF Target \in led.pending THEN EmptyDir(Target)
                 ELSE src[Target].ino \in {led.prior[Target][1], led.rolled[Target][1]}
           THEN /\ Goto("redoDir", k - 1)
                /\ IF Target \in led.pending
                   THEN Persist([led EXCEPT !.pending = @ \ {Target},
                                            !.rolled[Target] = Binding(src[Target])])
                   ELSE UNCHANGED <<disk, led>>
           ELSE Return("uncertain") /\ UNCHANGED disk

\* mkdir gives the recorded mode less the bits of the umask, which the wrapper sets to 077.
MakeDirectory ==
  /\ At("makeDir")
  /\ IF Exists(Target) THEN Uncertain
     ELSE /\ \E m \in {"given", "private"} : src' = Linked(src, Target, Fresh("dir", m))
          /\ Tick /\ Goto("modeDir", k) /\ UNCHANGED <<litter, job, led>>

\* Mutant: the mark of the directory is cleared although its mode was never set.
ModeDirectoryForgotten ==
  /\ At("modeDir")
  /\ Goto("madeDir", k) /\ UNCHANGED <<fs, job, led, clock>>

ModeDirectory ==
  /\ At("modeDir")
  /\ src' = [src EXCEPT ![Target].mode = "given", ![Target].stamp = clock]
  /\ Tick /\ Goto("madeDir", k) /\ UNCHANGED <<litter, job, led>>

MadeDirectory ==
  /\ At("madeDir") /\ UNCHANGED <<fs, backupDir, bfiles, clock>>
  /\ Persist([led EXCEPT !.pending = @ \ {Target},
                         !.rolled[Target] = Binding(src[Target])])
  /\ Goto("redoDir", k - 1)

\* Mutant: the mark of an interrupted restore is not honoured.
MayRestoreNoPending(p) ==
  \/ ~Exists(p)
  \/ Binding(src[p]) \in {led.prior[p], led.post[p], led.rolled[p]}
  \/ led.active = k /\ src[p].data \in {before[p], after[p]} \ {"none", "dir"}

\* Is the file at p one that a restore may replace?
MayRestore(p) ==
  \/ ~Exists(p)
  \/ Binding(src[p]) \in {led.prior[p], led.post[p], led.rolled[p]}
  \/ led.active = k /\ src[p].data \in {before[p], after[p]} \ {"none", "dir"}
  \/ p \in led.pending /\ src[p].data = before[p]

\* Restore replaced and deleted files from their backups.
RestoreFile ==
  /\ At("redoFile") /\ UNCHANGED <<fs, backupDir, bfiles, clock>>
  /\ \/ /\ k > Len(ops)
        /\ Goto("verify", 0) /\ UNCHANGED <<disk, led>>
     \/ /\ k <= Len(ops) /\ Target \notin BackedUp
        /\ Goto("redoFile", k + 1) /\ UNCHANGED <<disk, led>>
     \/ /\ k <= Len(ops) /\ Target \in BackedUp
        /\ IF Target \in bfiles /\ Reachable(Target) /\ MayRestore(Target)
           THEN /\ Persist([led EXCEPT !.pending = @ \cup {Target}])
                /\ Goto("backTemp", k)
           ELSE Return("uncertain") /\ UNCHANGED disk

RestoreFileTemp ==
  /\ At("backTemp")
  /\ src' = Linked(src, Target, src[Target])
  /\ Tick /\ Goto("backSwap", k) /\ UNCHANGED <<litter, job, led>>

RestoreFileSwap ==
  /\ At("backSwap")
  /\ src' = Linked(src, Target, Fresh(before[Target], "given"))
  /\ Tick /\ Goto("backDone", k) /\ UNCHANGED <<litter, job, led>>

RestoreFileDone ==
  /\ At("backDone") /\ UNCHANGED <<fs, backupDir, bfiles, clock>>
  /\ Persist([led EXCEPT !.pending = @ \ {Target},
                         !.rolled[Target] = Binding(src[Target])])
  /\ Goto("redoFile", k + 1)

\* Evidence is cleared only after every manifest path was seen restored.
RestoredOK(p) ==
  /\ Reachable(p)
  /\ src[p].data = before[p]
  /\ p \in DeletedDirs =>
       /\ src[p].mode = "given"
       /\ src[p].ino \in {led.prior[p][1], led.rolled[p][1]}

VerifyRollback ==
  /\ At("verify") /\ UNCHANGED <<fs, backupDir, bfiles, clock>>
  /\ IF \A i \in 1 .. Len(ops) : RestoredOK(ops[i])
     THEN /\ Persist([led EXCEPT !.status = "rolled-back-verified", !.active = 0])
          /\ Goto("finishFiles", 0)
     ELSE Return("uncertain") /\ UNCHANGED disk

\* _finish_reconciliation_recovery, shared with a committed transaction.
FinishFiles ==
  /\ At("finishFiles") /\ UNCHANGED <<fs, disk, backupDir, led, clock>>
  /\ IF bfiles = {} THEN Goto("finishDir", 0) /\ UNCHANGED bfiles
     ELSE \E p \in bfiles : bfiles' = bfiles \ {p} /\ Goto("finishFiles", 0)

FinishDir ==
  /\ At("finishDir") /\ UNCHANGED <<fs, disk, bfiles, led, clock>>
  /\ backupDir' = FALSE
  /\ Goto("finishMarker", 0)

FinishMarker ==
  /\ At("finishMarker") /\ UNCHANGED <<fs, backupDir, bfiles, clock>>
  /\ disk' = NoLedger
  /\ AfterRecovery(FALSE)

-----------------------------------------------------------------------------
(* The transaction: _reconcile_stage_to_source *)

Begin ==
  /\ At("begin") /\ UNCHANGED <<fs, disk, bfiles, clock>>
  /\ \/ ops = <<>> /\ Return("nothing") /\ UNCHANGED backupDir
     \/ ops # <<>> /\ backupDir /\ Return("failed") /\ UNCHANGED backupDir
     \/ /\ ops # <<>> /\ ~backupDir
        /\ backupDir' = TRUE
        /\ Goto("prepare", 0) /\ UNCHANGED led

CanPrepare(p) ==
  IF Op(p) = "create"
  THEN ~Exists(p) /\ \A q \in Anc[p] : \/ src[q].data = "dir"
                                       \/ src[q].data = "none" /\ q \in CreatedDirs
  ELSE Reachable(p) /\ src[p].data = before[p]

\* _prepare_reconciliation_backups
Prepare ==
  /\ At("prepare") /\ UNCHANGED <<fs, disk, backupDir, clock>>
  /\ IF \A i \in 1 .. Len(ops) : CanPrepare(ops[i])
     THEN /\ bfiles' = BackedUp
          /\ led' = [NoLedger EXCEPT !.status = "prepared",
                       !.prior = [p \in Path |-> IF p \in Changed THEN Binding(src[p])
                                                 ELSE NoBinding]]
          /\ Goto("publish", 0)
     ELSE Return("failed") /\ UNCHANGED bfiles

Publish ==
  /\ At("publish") /\ UNCHANGED <<fs, backupDir, bfiles, led, clock>>
  /\ disk' = led
  /\ Goto("announce", 1)

\* Mutant: the last operation is not applied.
AnnounceShort ==
  /\ At("announce") /\ UNCHANGED <<fs, backupDir, bfiles, clock>>
  /\ IF k < Len(ops)
     THEN /\ Persist([led EXCEPT !.status = "applying", !.active = k])
          /\ Goto("apply", k)
     ELSE /\ Persist([led EXCEPT !.status = "committed", !.active = 0])
          /\ pc' = "finishFiles" /\ k' = 0 /\ then' = "commit" /\ UNCHANGED report

\* The operation is named in the durable ledger before it is applied.
Announce ==
  /\ At("announce") /\ UNCHANGED <<fs, backupDir, bfiles, clock>>
  /\ IF k <= Len(ops)
     THEN /\ Persist([led EXCEPT !.status = "applying", !.active = k])
          /\ Goto("apply", k)
     ELSE /\ Persist([led EXCEPT !.status = "committed", !.active = 0])
          /\ pc' = "finishFiles" /\ k' = 0 /\ then' = "commit" /\ UNCHANGED report

RequireRollback == Goto("require", k) /\ UNCHANGED <<fs, job, led, clock>>

\* Mutant: the target is not compared with the identity bound before.
TargetPresent(p) == Reachable(p) /\ (Op(p) = "create" <=> ~Exists(p))

TargetUnchanged(p) ==
  /\ Reachable(p)
  /\ IF Op(p) = "create" THEN ~Exists(p)
     ELSE Exists(p) /\ Binding(src[p]) = led.prior[p]

\* _apply_reconciliation_operation, up to its first change of the source.
Apply ==
  /\ At("apply")
  /\ \/ /\ ~TargetUnchanged(Target)
        /\ RequireRollback
     \/ /\ TargetUnchanged(Target) /\ Op(Target) = "create" /\ IsDir(Target)
        /\ src' = Linked(Private(src, Target), Target, Fresh("dir", "private"))
        /\ Tick /\ Goto("observe", k) /\ UNCHANGED <<litter, job, led>>
     \/ /\ TargetUnchanged(Target) /\ Op(Target) # "delete" /\ ~IsDir(Target)
        /\ src' = Private(src, Target)
        /\ Tick /\ Goto("swap", k) /\ UNCHANGED <<litter, job, led>>
     \/ /\ TargetUnchanged(Target) /\ Op(Target) = "delete"
        /\ IF IsDir(Target) => EmptyDir(Target)
           THEN /\ src' = Linked(src, Target, NoEntry)
                /\ Tick /\ Goto("observe", k) /\ UNCHANGED <<litter, job, led>>
           ELSE RequireRollback

\* The temporary file written beside the target takes its name.
ApplySwap ==
  /\ At("swap")
  /\ src' = Linked(src, Target, Fresh(after[Target], "given"))
  /\ Tick /\ Goto("observe", k) /\ UNCHANGED <<litter, job, led>>

Observe ==
  /\ At("observe")
  /\ IF Exists(Target) <=> Op(Target) # "delete"
     THEN /\ led' = [led EXCEPT !.post[Target] = Binding(src[Target])]
          /\ Goto("settle", k) /\ UNCHANGED <<fs, job, clock>>
     ELSE RequireRollback

\* Mutant: an operation is skipped after each one that was applied.
SettleTwice ==
  /\ At("settle") /\ UNCHANGED <<fs, backupDir, bfiles, clock>>
  /\ Persist([led EXCEPT !.active = 0])
  /\ Goto("announce", k + 2)

Settle ==
  /\ At("settle")
  /\ LET D == DeletedDirs \cap {ops[j] : j \in k + 1 .. Len(ops)}
     IN  IF RefreshOK(led.prior, Target, D)
         THEN /\ Persist([led EXCEPT !.active = 0,
                            !.prior = Refreshed(led.prior, Target, D)])
              /\ Goto("announce", k + 1) /\ UNCHANGED <<fs, backupDir, bfiles, clock>>
         ELSE RequireRollback

\* The except branch: note the failure in the ledger, then recover from disk.
Require ==
  /\ At("require") /\ UNCHANGED <<fs, backupDir, bfiles, clock>>
  /\ Persist([led EXCEPT !.status = "rollback-required"])
  /\ pc' = "recover" /\ then' = "rollback" /\ UNCHANGED <<k, report>>

Step ==
  \/ Recover \/ UndoCreate \/ UndoCreateDone
  \/ RestoreDirectory \/ MakeDirectory \/ ModeDirectory \/ MadeDirectory
  \/ RestoreFile \/ RestoreFileTemp \/ RestoreFileSwap \/ RestoreFileDone
  \/ VerifyRollback \/ FinishFiles \/ FinishDir \/ FinishMarker
  \/ Begin \/ Prepare \/ Publish \/ Announce
  \/ Apply \/ ApplySwap \/ Observe \/ Settle \/ Require

-----------------------------------------------------------------------------
(* The environment *)

\* A temporary file survives the call that was about to rename it.
Littered == litter' = IF pc \in {"swap", "backSwap"} THEN litter \cup {Target}
                      ELSE litter

\* The controller is killed.
Crash ==
  /\ pc # "idle" /\ crashes < MaxCrashes
  /\ crashes' = crashes + 1
  /\ Return("none") /\ Littered
  /\ UNCHANGED <<plan, src, job, clock, drifted, calls, faults>>

\* A system call of the step that is due raises instead.
Fault ==
  /\ pc # "idle" /\ faults < MaxFaults
  /\ faults' = faults + 1
  /\ Littered
  /\ IF pc \in {"announce", "apply", "swap", "observe", "settle"} /\ k <= Len(ops)
     THEN Goto("require", k) /\ UNCHANGED led
     ELSE Return(IF pc \in {"begin", "prepare", "publish", "announce"} \/ then = "commit"
                 THEN "failed" ELSE "uncertain")
  /\ UNCHANGED <<plan, src, job, clock, drifted, calls, crashes>>

\* Another process of the same user writes or removes a file.  It does not
\* slip between a check of the code and the rename that the check guards.
Drift ==
  /\ pc \notin {"swap", "backTemp", "backSwap"}
  /\ Cardinality(drifted) < MaxDrifts
  /\ \E p \in Path \ drifted :
       /\ Reachable(p) /\ src[p].data # "dir"
       /\ \E e \in {NoEntry, Fresh(Foreign, "given")} : src' = Linked(src, p, e)
       /\ drifted' = drifted \cup {p}
  /\ Tick
  /\ UNCHANGED <<plan, litter, job, call, calls, crashes, faults>>

Next == StartRecover \/ StartReconcile \/ Step \/ Crash \/ Fault \/ Drift

Spec == Init /\ [][Next]_vars

-----------------------------------------------------------------------------
(* Properties.  A path another process changed is out of the transaction's *)
(* hands; every other path is held to the promise.                         *)

HoldsOwn(t) == \A p \in Path \ drifted : src[p].data = t[p]

\* Without a marker the source is the staged tree or the whole new one: no
\* interleaving of operations, failures and kills leaves a mixture behind
\* that no marker vouches for.
Atomicity == disk.status = "absent" => HoldsOwn(before) \/ HoldsOwn(after)

\* The caller may believe the answer: a digest is returned only when the new
\* tree is in place, "rolled back" is said only of the staged tree, and a
\* plain failure never hides a half-applied tree without its marker.
ReportTruthful == pc = "idle" =>
  /\ report = "committed"  => HoldsOwn(after)  /\ disk.status = "absent"
  /\ report = "rolledback" => HoldsOwn(before) /\ disk.status = "absent"
  /\ report = "failed"     => HoldsOwn(before) \/ disk.status # "absent"

\* While a replaced or deleted file differs from its staged content and the
\* new tree is not complete, a marker asks for the rollback and the backup
\* that serves it is still there.
BackupsKept ==
  \A p \in BackedUp \ drifted :
    src[p].data # before[p] =>
      \/ HoldsOwn(after) /\ disk.status \in {"committed", "absent"}
      \/ disk.status \notin Decided \cup {"absent"} /\ p \in bfiles /\ backupDir

\* Whoever is killed and whatever fails, the tree is as staged, as the provider
\* left it, or a marker and its backups are there to undo what is in between;
\* and the answers say which.
Recoverable == Atomicity /\ ReportTruthful /\ BackupsKept

\* A directory that a killed recovery made and did not give its mode.  Every later
\* recovery refuses it.
HalfMade == \E p \in DeletedDirs \cap disk.pending : src[p].data = "dir" /\ src[p].mode # "given"

\* However often recovery is killed, calling it again gets through, as long
\* as nothing else fails or writes, the transaction created nothing, the
\* backup directory is there, and no kill fell between the mkdir of a deleted
\* directory and the fchmod that follows it.
RollbackResumes ==
  pc = "idle" /\ report = "uncertain" /\ drifted = {} /\ faults = 0 =>
    ~backupDir \/ HalfMade \/ \E p \in Changed : Op(p) = "create"

\* Another process's content is destroyed only where the ledger took the
\* entry for the transaction's own: the window between a rename and the
\* observation that records what it made.
Recorded(p) == Binding(src[p]) \in {led.post[p], led.rolled[p]}
ForeignPreserved ==
  [][drifted' = drifted =>
       \A p \in Path : src[p].data = Foreign /\ ~Recorded(p) =>
                         src'[p].data = Foreign]_vars

\* "Restore and verify the ledger's exact pre-reconciliation path state":
\* a source that is back in its staged state is not called uncertain.  Not kept:
\* see the observations in README.md.
RestoredIsRecognised ==
  pc = "idle" /\ report = "uncertain" /\ faults = 0 /\ drifted = {} /\ backupDir =>
    ~SourceIs(before)

\* "Recover a durable transaction; a second call is an idempotent no-op":
\* a transaction that is already decided is never uncertain.
DecidedRecovers ==
  pc = "idle" /\ report = "uncertain" /\ faults = 0 => disk.status \notin Decided

\* "Restore deleted empty directories shallow-first, preserving their mode": a
\* directory that a killed recovery was making is made by the next one.  Not kept:
\* see the observations in README.md.
DirectoriesRecreated ==
  pc = "idle" /\ report = "uncertain" /\ drifted = {} /\ faults = 0 => ~HalfMade

-----------------------------------------------------------------------------
(* The transaction implements an update of the tree as a whole. *)

Data(t)  == [p \in Path |-> t[p].data]
BusyTree == [p \in Path |-> "busy"]

Atomic == INSTANCE AtomicTree WITH
  Busy     <- BusyTree,
  old      <- before,
  new      <- after,
  seen     <- IF disk.status = "absent" THEN Data(src) ELSE BusyTree,
  decision <- CASE disk.status = "committed"            -> "commit"
                [] disk.status = "rolled-back-verified" -> "rollback"
                [] OTHER                                -> "none",
  alone    <- drifted = {}

\* Until another process writes the tree, the ledger's states are those of an update
\* that decides once and closes with the tree it decided for.
ImplementsAtomicTree == Atomic!AtomicSpec
=============================================================================
