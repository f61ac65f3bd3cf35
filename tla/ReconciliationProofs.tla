------------------------- MODULE ReconciliationProofs -------------------------
(***************************************************************************)
(* Proofs about Reconciliation, for every tree, manifest and bound: its    *)
(* type invariant, and the safety properties that its runs check.          *)
(***************************************************************************)
EXTENDS Reconciliation, FiniteSetTheorems, SequenceTheorems, TLAPS

-----------------------------------------------------------------------------
(* Types *)

\* Where the current operation is used, the index names one.
AtOperation == {"apply", "swap", "observe", "settle", "undone", "makeDir",
                "modeDir", "madeDir", "backTemp", "backSwap", "backDone"}
IndexOK == /\ pc \in AtOperation => k \in 1 .. Len(ops)
           /\ pc \in {"announce", "redoFile"} => k # 0
           /\ pc \in {"undo", "redoDir"} => k <= Len(ops)

TypeInv == TypeOK /\ IndexOK

LEMMA LinkedType ==
  ASSUME NEW s \in [Path -> Entry], NEW p, NEW e \in Entry, clock \in Nat
  PROVE  Linked(s, p, e) \in [Path -> Entry]
BY DEF Linked, Entry

LEMMA PrivateType ==
  ASSUME NEW s \in [Path -> Entry], NEW p, clock \in Nat
  PROVE  Private(s, p) \in [Path -> Entry]
BY DEF Private, Entry

LEMMA EntryType ==
  /\ NoEntry \in Entry
  /\ \A x \in Shape, m \in {"given", "private"} : clock \in Nat => Fresh(x, m) \in Entry
  /\ \A e \in Entry : Binding(e) \in Nat \X Nat
BY DEF NoEntry, Entry, Fresh, Shape, Binding, NoBinding

LEMMA RefreshedType ==
  ASSUME NEW m \in Bindings, NEW p, NEW D, src \in [Path -> Entry]
  PROVE  Refreshed(m, p, D) \in Bindings
BY EntryType DEF Refreshed, Bindings

LEMMA NoLedgerType == NoLedger \in Ledger
BY DEF NoLedger, Ledger, Statuses, Bindings, Unbound, NoBinding

LEMMA LedgerType ==
  ASSUME NEW l \in Ledger
  PROVE  /\ \A x \in Statuses : [l EXCEPT !.status = x] \in Ledger
         /\ \A x \in Statuses, n \in Nat : [l EXCEPT !.status = x, !.active = n] \in Ledger
         /\ \A m \in Bindings, n \in Nat : [l EXCEPT !.active = n, !.prior = m] \in Ledger
         /\ \A m \in Bindings : [l EXCEPT !.post = m] \in Ledger
         /\ \A p \in Path, b \in Nat \X Nat : [l EXCEPT !.post[p] = b] \in Ledger
         /\ \A D \in SUBSET Path : [l EXCEPT !.pending = D] \in Ledger
         /\ \A D \in SUBSET Path, p \in Path, b \in Nat \X Nat :
              [l EXCEPT !.pending = D, !.rolled[p] = b] \in Ledger
         /\ l.prior \in Bindings /\ l.post \in Bindings /\ l.pending \subseteq Path
BY DEF Ledger, Bindings

LEMMA TargetType ==
  ASSUME TypeOK, k \in 1 .. Len(ops)
  PROVE  /\ Target \in Path /\ Target \in Changed
         /\ before[Target] \in Shape /\ after[Target] \in Shape
BY DEF TypeOK, Target, IsManifest, Changed, Trees

LEMMA TypeInit == Init => TypeInv
<1> SUFFICES ASSUME Init PROVE TypeInv
  OBVIOUS
<1>1. Cardinality(Changed) \in Nat
  BY FS_Subset, FS_CardinalityType, ConstantsAssumption DEF Changed
<1>2. ops \in [1 .. Cardinality(Changed) -> Changed]
  BY DEF Init
<1>3. ops \in Seq(Path)
  <2>1. ops \in [1 .. Cardinality(Changed) -> Path]
    BY <1>2 DEF Changed
  <2> QED
    BY <1>1, <2>1, SeqDef
<1>4. src \in [Path -> Entry]
  BY EntryType DEF Init, Entry, Trees, Shape
<1>5. k \in 0 .. Len(ops) + 1
  <2>1. k = 0
    BY DEF Init
  <2> QED
    BY <1>3, <2>1
<1>6. /\ disk \in Ledger /\ led \in Ledger
      /\ litter \subseteq Path /\ bfiles \subseteq Path /\ drifted \subseteq Path
  BY NoLedgerType DEF Init
<1>7. TypeOK
  BY <1>3, <1>4, <1>5, <1>6 DEF Init, TypeOK
<1> QED
  BY <1>7 DEF Init, TypeInv, IndexOK, AtOperation

\* The constants of a plan keep what TypeOK says of them.
LEMMA PlanType ==
  ASSUME TypeOK, UNCHANGED plan
  PROVE  /\ before' \in Trees /\ after' \in Trees
         /\ ops' \in Seq(Path) /\ IsManifest(ops)'
         /\ Len(ops) \in Nat /\ Len(ops') = Len(ops)
BY DEF TypeOK, plan, IsManifest, Changed, Rank, Op, IsDir, Depth, Deepest

\* What is left of TypeInv when the plan stays as it is.
StateOK ==
  /\ src \in [Path -> Entry] /\ litter \subseteq Path
  /\ disk \in Ledger /\ led \in Ledger
  /\ backupDir \in BOOLEAN /\ bfiles \subseteq Path
  /\ pc \in {"idle", "recover", "undo", "undone", "redoDir", "makeDir", "modeDir", "madeDir",
             "redoFile", "backTemp", "backSwap", "backDone", "verify",
             "finishFiles", "finishDir", "finishMarker",
             "begin", "prepare", "publish", "announce",
             "apply", "swap", "observe", "settle", "require"}
  /\ k \in 0 .. Len(ops) + 1
  /\ then \in {"none", "recover", "reconcile", "rollback", "commit"}
  /\ report \in {"none", "nothing", "recovered", "committed", "rolledback",
                 "failed", "uncertain"}
  /\ clock \in Nat /\ drifted \subseteq Path
  /\ calls \in Nat /\ crashes \in Nat /\ faults \in Nat
  /\ IndexOK

LEMMA StateType == TypeInv => StateOK
BY DEF TypeInv, TypeOK, StateOK

LEMMA TypeParts ==
  ASSUME TypeInv, UNCHANGED plan, StateOK'
  PROVE  TypeInv'
BY PlanType DEF TypeInv, TypeOK, StateOK

LEMMA TypeNext == TypeInv /\ [Next]_vars => TypeInv'
<1> SUFFICES ASSUME TypeInv, [Next]_vars PROVE TypeInv'
  OBVIOUS
<1>1. /\ StateOK /\ IndexOK /\ Len(ops) \in Nat
      /\ led \in Ledger /\ disk \in Ledger /\ src \in [Path -> Entry]
      /\ clock \in Nat /\ k \in Nat
  BY StateType DEF TypeInv, TypeOK, StateOK
<1>2. TypeOK
  BY DEF TypeInv
<1>3. CASE UNCHANGED vars
  <2>1. UNCHANGED plan /\ StateOK'
    BY <1>1, <1>3 DEF vars, plan, fs, job, call, budget, StateOK, IndexOK
  <2> QED
    BY <2>1, TypeParts
<1>4. CASE StartRecover
  <2>1. StateOK'
    BY <1>1, <1>4 DEF StartRecover, fs, job, plan, StateOK, IndexOK, AtOperation
  <2> QED
    BY <1>4, <2>1, TypeParts DEF StartRecover
<1>5. CASE StartReconcile
  <2>1. StateOK'
    BY <1>1, <1>5 DEF StartReconcile, fs, job, plan, StateOK, IndexOK, AtOperation
  <2> QED
    BY <1>5, <2>1, TypeParts DEF StartReconcile
<1>6. CASE Step
  <2>1. CASE Recover
    <3>1. led' \in Ledger /\ disk' \in Ledger
      BY <1>1, <2>1, NoLedgerType, LedgerType
      DEF Recover, At, AfterRecovery, Return, Goto, Persist, Statuses
    <3>2. StateOK'
      BY <1>1, <2>1, <3>1
      DEF Recover, At, Persist, AfterRecovery, Return, Goto, fs, plan, budget, StateOK, IndexOK, AtOperation
    <3> QED
      BY <2>1, <3>2, TypeParts DEF Recover, At
  <2>2. CASE UndoCreate
    <3>1. src' \in [Path -> Entry]
      BY <1>1, <2>2, LinkedType, EntryType
      DEF UndoCreate, At, Uncertain, Tick, fs
    <3>2. led' \in Ledger /\ disk' \in Ledger
      BY <1>1, <2>2, NoLedgerType
      DEF UndoCreate, At, Uncertain, Return, Goto, job
    <3>3. StateOK'
      BY <1>1, <2>2, <3>1, <3>2
      DEF UndoCreate, At, Uncertain, Return, Goto, Tick, fs, job, plan, budget, StateOK, IndexOK, AtOperation
    <3> QED
      BY <2>2, <3>3, TypeParts DEF UndoCreate, At
  <2>3. CASE UndoCreateDone
    <3> DEFINE D == CreatedDirs \cap {ops[j] : j \in 1 .. k - 1}
    <3>1. [led EXCEPT !.post = Refreshed(led.post, Target, D)] \in Ledger
      BY <1>1, RefreshedType, LedgerType
    <3>2. led' \in Ledger /\ disk' \in Ledger
      BY <1>1, <2>3, <3>1, NoLedgerType DEF UndoCreateDone, At, Return, Persist
    <3>3. StateOK'
      BY <1>1, <2>3, <3>2
      DEF UndoCreateDone, At, Return, Goto, Persist, fs, plan, budget, StateOK, IndexOK, AtOperation
    <3> QED
      BY <2>3, <3>3, TypeParts DEF UndoCreateDone, At
  <2>4. CASE RestoreDirectory
    <3>1. ASSUME k > 0 /\ Target \in DeletedDirs
          PROVE  led' \in Ledger /\ disk' \in Ledger
      <4>1. Target \in Path
        BY <1>1, <1>2, <2>4, <3>1, TargetType DEF RestoreDirectory, At, IndexOK, TypeInv
      <4>2. [led EXCEPT !.pending = @ \cup {Target}] \in Ledger
        BY <1>1, <4>1, LedgerType
      <4>3. [led EXCEPT !.pending = @ \ {Target},
                        !.rolled[Target] = Binding(src[Target])] \in Ledger
        BY <1>1, <4>1, EntryType, LedgerType
      <4> QED
        BY <1>1, <2>4, <3>1, <4>2, <4>3, NoLedgerType
        DEF RestoreDirectory, At, Return, Goto, Persist
    <3>2. led' \in Ledger /\ disk' \in Ledger
      BY <1>1, <2>4, <3>1 DEF RestoreDirectory, At, Goto
    <3>3. StateOK'
      BY <1>1, <2>4, <3>2
      DEF RestoreDirectory, At, Return, Goto, Persist, fs, plan, budget, StateOK, IndexOK, AtOperation
    <3> QED
      BY <2>4, <3>3, TypeParts DEF RestoreDirectory, At
  <2>5. CASE MakeDirectory
    <3>1. src' \in [Path -> Entry]
      BY <1>1, <2>5, LinkedType, EntryType
      DEF MakeDirectory, At, Uncertain, Tick, fs, Shape
    <3>2. led' \in Ledger /\ disk' \in Ledger
      BY <1>1, <2>5, NoLedgerType
      DEF MakeDirectory, At, Uncertain, Return, Goto, job
    <3>3. StateOK'
      BY <1>1, <2>5, <3>1, <3>2
      DEF MakeDirectory, At, Uncertain, Return, Goto, Tick, fs, job, plan, budget, StateOK, IndexOK, AtOperation
    <3> QED
      BY <2>5, <3>3, TypeParts DEF MakeDirectory, At
  <2>5a. CASE ModeDirectory
    <3>1. src' \in [Path -> Entry]
      BY <1>1, <2>5a DEF ModeDirectory, Entry
    <3>2. StateOK'
      BY <1>1, <2>5a, <3>1
      DEF ModeDirectory, At, Goto, Tick, job, plan, budget, StateOK, IndexOK, AtOperation
    <3> QED
      BY <2>5a, <3>2, TypeParts DEF ModeDirectory, At
  <2>6. CASE MadeDirectory
    <3>1. Target \in Path
      BY <1>1, <1>2, <2>6, TargetType DEF MadeDirectory, At, IndexOK, AtOperation, TypeInv
    <3>2. led' \in Ledger /\ disk' \in Ledger
      BY <1>1, <2>6, <3>1, EntryType, LedgerType DEF MadeDirectory, At, Persist
    <3>3. StateOK'
      BY <1>1, <2>6, <3>2
      DEF MadeDirectory, At, Goto, Persist, fs, plan, budget, StateOK, IndexOK, AtOperation
    <3> QED
      BY <2>6, <3>3, TypeParts DEF MadeDirectory, At
  <2>7. CASE RestoreFile
    <3>1. ASSUME k <= Len(ops) /\ Target \in BackedUp
          PROVE  led' \in Ledger /\ disk' \in Ledger
      <4>1. [led EXCEPT !.pending = @ \cup {Target}] \in Ledger
        <5>1. Target \in Path
          BY <3>1 DEF BackedUp, Changed
        <5> QED
          BY <1>1, <5>1, LedgerType
      <4> QED
        BY <1>1, <2>7, <3>1, <4>1, NoLedgerType DEF RestoreFile, At, Return, Goto, Persist
    <3>2. led' \in Ledger /\ disk' \in Ledger
      BY <1>1, <2>7, <3>1 DEF RestoreFile, At, Goto
    <3>3. StateOK'
      BY <1>1, <2>7, <3>2
      DEF RestoreFile, At, Return, Goto, Persist, fs, plan, budget, StateOK, IndexOK, AtOperation
    <3> QED
      BY <2>7, <3>3, TypeParts DEF RestoreFile, At
  <2>8. CASE RestoreFileTemp
    <3>1. src' \in [Path -> Entry]
      BY <1>1, <1>2, <2>8, TargetType, LinkedType
      DEF RestoreFileTemp, At, Tick, TypeInv, IndexOK, AtOperation
    <3>2. StateOK'
      BY <1>1, <2>8, <3>1
      DEF RestoreFileTemp, At, Goto, Tick, job, plan, budget, StateOK, IndexOK, AtOperation
    <3> QED
      BY <2>8, <3>2, TypeParts DEF RestoreFileTemp, At
  <2>9. CASE RestoreFileSwap
    <3>1. src' \in [Path -> Entry]
      BY <1>1, <1>2, <2>9, TargetType, LinkedType, EntryType
      DEF RestoreFileSwap, At, Tick, TypeInv, IndexOK, AtOperation
    <3>2. StateOK'
      BY <1>1, <2>9, <3>1
      DEF RestoreFileSwap, At, Goto, Tick, job, plan, budget, StateOK, IndexOK, AtOperation
    <3> QED
      BY <2>9, <3>2, TypeParts DEF RestoreFileSwap, At
  <2>10. CASE RestoreFileDone
    <3>1. Target \in Path
      BY <1>1, <1>2, <2>10, TargetType DEF RestoreFileDone, At, IndexOK, AtOperation, TypeInv
    <3>2. led' \in Ledger /\ disk' \in Ledger
      BY <1>1, <2>10, <3>1, EntryType, LedgerType DEF RestoreFileDone, At, Persist
    <3>3. StateOK'
      BY <1>1, <2>10, <3>2
      DEF RestoreFileDone, At, Goto, Persist, fs, plan, budget, StateOK, IndexOK, AtOperation
    <3> QED
      BY <2>10, <3>3, TypeParts DEF RestoreFileDone, At
  <2>11. CASE VerifyRollback
    <3>1. [led EXCEPT !.status = "rolled-back-verified", !.active = 0] \in Ledger
      BY <1>1, LedgerType DEF Statuses
    <3>2. led' \in Ledger /\ disk' \in Ledger
      BY <1>1, <2>11, <3>1, NoLedgerType DEF VerifyRollback, At, Return, Goto, Persist
    <3>3. StateOK'
      BY <1>1, <2>11, <3>2
      DEF VerifyRollback, At, Return, Goto, Persist, fs, plan, budget, StateOK, IndexOK, AtOperation
    <3> QED
      BY <2>11, <3>3, TypeParts DEF VerifyRollback, At
  <2>12. CASE FinishFiles
    <3>1. StateOK'
      BY <1>1, <2>12
      DEF FinishFiles, At, Goto, fs, plan, budget, StateOK, IndexOK, AtOperation
    <3> QED
      BY <2>12, <3>1, TypeParts DEF FinishFiles, At
  <2>13. CASE FinishDir
    <3>1. backupDir' \in BOOLEAN
      BY <2>13, Zenon DEF FinishDir
    <3>2. StateOK'
      BY <1>1, <2>13, <3>1
      DEF FinishDir, At, Goto, fs, plan, budget, StateOK, IndexOK, AtOperation
    <3> QED
      BY <2>13, <3>2, TypeParts DEF FinishDir, At
  <2>14. CASE FinishMarker
    <3>1. led' \in Ledger /\ disk' \in Ledger
      BY <1>1, <2>14, NoLedgerType
      DEF FinishMarker, At, AfterRecovery, Return
    <3>2. StateOK'
      BY <1>1, <2>14, <3>1
      DEF FinishMarker, At, AfterRecovery, Return, fs, plan, budget, StateOK, IndexOK, AtOperation
    <3> QED
      BY <2>14, <3>2, TypeParts DEF FinishMarker, At
  <2>15. CASE Begin
    <3>1. led' \in Ledger /\ disk' \in Ledger
      BY <1>1, <2>15, NoLedgerType
      DEF Begin, At, Return
    <3>2. backupDir' \in BOOLEAN
      BY <1>1, <2>15, Zenon DEF Begin, StateOK
    <3>3. StateOK'
      BY <1>1, <2>15, <3>1, <3>2
      DEF Begin, At, Return, Goto, fs, plan, budget, StateOK, IndexOK, AtOperation
    <3> QED
      BY <2>15, <3>3, TypeParts DEF Begin, At
  <2>16. CASE Prepare
    <3>1. [p \in Path |-> IF p \in Changed THEN Binding(src[p]) ELSE NoBinding] \in Bindings
      BY <1>1, EntryType DEF Bindings, NoBinding
    <3>2. led' \in Ledger /\ disk' \in Ledger
      BY <1>1, <2>16, <3>1, NoLedgerType
      DEF Prepare, At, Return, Goto, Ledger, Statuses
    <3>3. StateOK'
      BY <1>1, <2>16, <3>2
      DEF Prepare, At, Return, Goto, fs, BackedUp, Changed, plan, budget, StateOK, IndexOK, AtOperation
    <3> QED
      BY <2>16, <3>3, TypeParts DEF Prepare, At
  <2>17. CASE Publish
    <3>1. StateOK'
      BY <1>1, <2>17
      DEF Publish, At, Goto, fs, plan, budget, StateOK, IndexOK, AtOperation
    <3> QED
      BY <2>17, <3>1, TypeParts DEF Publish, At
  <2>18. CASE Announce
    <3>1. /\ [led EXCEPT !.status = "applying", !.active = k] \in Ledger
          /\ [led EXCEPT !.status = "committed", !.active = 0] \in Ledger
      BY <1>1, LedgerType DEF Statuses
    <3>2. led' \in Ledger /\ disk' \in Ledger
      BY <1>1, <2>18, <3>1 DEF Announce, At, Persist
    <3>3. StateOK'
      BY <1>1, <2>18, <3>2
      DEF Announce, At, Goto, Persist, fs, plan, budget, StateOK, IndexOK, AtOperation
    <3> QED
      BY <2>18, <3>3, TypeParts DEF Announce, At
  <2>19. CASE Apply
    <3>1. Target \in Path
      BY <1>1, <1>2, <2>19, TargetType DEF Apply, At, IndexOK, AtOperation, TypeInv
    <3>2. /\ Private(src, Target) \in [Path -> Entry]
          /\ Linked(Private(src, Target), Target, Fresh("dir", "private")) \in [Path -> Entry]
          /\ Linked(src, Target, NoEntry) \in [Path -> Entry]
      BY <1>1, LinkedType, PrivateType, EntryType DEF Shape
    <3>3. src' \in [Path -> Entry]
      BY <1>1, <2>19, <3>2 DEF Apply, At, RequireRollback, fs
    <3>4. StateOK'
      BY <1>1, <2>19, <3>3
      DEF Apply, At, RequireRollback, Goto, Tick, fs, job, plan, budget, StateOK, IndexOK, AtOperation
    <3> QED
      BY <2>19, <3>4, TypeParts DEF Apply, At
  <2>20. CASE ApplySwap
    <3>1. src' \in [Path -> Entry]
      BY <1>1, <1>2, <2>20, TargetType, LinkedType, EntryType
      DEF ApplySwap, At, Tick, TypeInv, IndexOK, AtOperation
    <3>2. StateOK'
      BY <1>1, <2>20, <3>1
      DEF ApplySwap, At, Goto, Tick, job, plan, budget, StateOK, IndexOK, AtOperation
    <3> QED
      BY <2>20, <3>2, TypeParts DEF ApplySwap, At
  <2>21. CASE Observe
    <3>1. Target \in Path
      BY <1>1, <1>2, <2>21, TargetType DEF Observe, At, IndexOK, AtOperation, TypeInv
    <3>2. [led EXCEPT !.post[Target] = Binding(src[Target])] \in Ledger
      BY <1>1, <3>1, EntryType, LedgerType
    <3>3. led' \in Ledger /\ disk' \in Ledger
      BY <1>1, <2>21, <3>2 DEF Observe, At, RequireRollback, job
    <3>4. StateOK'
      BY <1>1, <2>21, <3>3
      DEF Observe, At, RequireRollback, Goto, fs, job, plan, budget, StateOK, IndexOK, AtOperation
    <3> QED
      BY <2>21, <3>4, TypeParts DEF Observe, At
  <2>22. CASE Settle
    <3> DEFINE D == DeletedDirs \cap {ops[j] : j \in k + 1 .. Len(ops)}
    <3>1. [led EXCEPT !.active = 0, !.prior = Refreshed(led.prior, Target, D)] \in Ledger
      BY <1>1, RefreshedType, LedgerType
    <3>2. led' \in Ledger /\ disk' \in Ledger
      BY <1>1, <2>22, <3>1 DEF Settle, At, RequireRollback, Persist, job
    <3>3. StateOK'
      BY <1>1, <2>22, <3>2
      DEF Settle, At, RequireRollback, Goto, Persist, fs, job, plan, budget, StateOK, IndexOK, AtOperation
    <3> QED
      BY <2>22, <3>3, TypeParts DEF Settle, At
  <2>23. CASE Require
    <3>1. led' \in Ledger /\ disk' \in Ledger
      BY <1>1, <2>23, LedgerType DEF Require, At, Persist, Statuses
    <3>2. StateOK'
      BY <1>1, <2>23, <3>1
      DEF Require, At, fs, plan, budget, StateOK, IndexOK, AtOperation
    <3> QED
      BY <2>23, <3>2, TypeParts DEF Require, At
  <2> QED
    BY <1>6, <2>1, <2>2, <2>3, <2>4, <2>5, <2>5a, <2>6, <2>7, <2>8, <2>9, <2>10, <2>11, <2>12, <2>13, <2>14, <2>15, <2>16, <2>17, <2>18, <2>19, <2>20, <2>21, <2>22, <2>23 DEF Step
<1>7. CASE Crash
  <2>1. litter' \subseteq Path
    BY <1>1, <1>2, <1>7, TargetType DEF Crash, Littered, StateOK, IndexOK, AtOperation
  <2>2. StateOK'
    BY <1>1, <1>7, <2>1, NoLedgerType DEF Crash, Return, job, plan, StateOK, IndexOK, AtOperation
  <2> QED
    BY <1>7, <2>2, TypeParts DEF Crash
<1>8. CASE Fault
  <2>1. litter' \subseteq Path
    BY <1>1, <1>2, <1>8, TargetType DEF Fault, Littered, StateOK, IndexOK, AtOperation
  <2>2. StateOK'
    BY <1>1, <1>8, <2>1, NoLedgerType
    DEF Fault, Goto, Return, job, plan, StateOK, IndexOK, AtOperation
  <2> QED
    BY <1>8, <2>2, TypeParts DEF Fault
<1>9. CASE Drift
  <2>1. Foreign \in Shape
    BY ConstantsAssumption DEF Shape
  <2>2. Fresh(Foreign, "given") \in Entry
    BY <1>1, <2>1, EntryType
  <2>3. src' \in [Path -> Entry]
    BY <1>1, <1>9, <2>2, EntryType, LinkedType, SMTT(30) DEF Drift
  <2>4. StateOK'
    BY <1>1, <1>9, <2>3 DEF Drift, Tick, call, job, plan, StateOK, IndexOK, AtOperation
  <2> QED
    BY <1>9, <2>4, TypeParts DEF Drift
<1> QED
  BY <1>3, <1>4, <1>5, <1>6, <1>7, <1>8, <1>9 DEF Next

\* Every variable keeps its type: in particular an index stays within the
\* manifest, and the ledger binds an identity to every path.
THEOREM TypeCorrect == Spec => []TypeOK
<1>1. TypeInv => TypeOK
  BY DEF TypeInv
<1> QED
  BY <1>1, TypeInit, TypeNext, PTL DEF Spec
-----------------------------------------------------------------------------
(* Control *)

Restoring == {"undo", "undone", "redoDir", "makeDir", "modeDir", "madeDir", "redoFile",
              "backTemp", "backSwap", "backDone", "verify"}
Finishing == {"finishFiles", "finishDir", "finishMarker"}
Preparing == {"begin", "prepare", "publish"}
Applying  == {"announce", "apply", "swap", "observe", "settle", "require"}

\* What the marker says wherever the call in progress may be, and the backups
\* that an undecided marker stands for.
ControlOK ==
  /\ pc # "idle" => then # "none"
  /\ pc \in Restoring => /\ disk.status = "rollback-restoring"
                         /\ led.status = "rollback-restoring"
  /\ pc \in Preparing => disk.status = "absent"
  /\ pc = "publish" => led.status = "prepared"
  /\ pc \in {"apply", "swap", "observe", "settle"} => led.status = "applying"
  /\ pc \in Applying => disk.status \in {"prepared", "applying"}
  /\ pc \in Preparing \cup Applying => then = "reconcile"
  /\ pc \in Finishing => disk.status \in Decided
  /\ then = "commit" => pc \in Finishing /\ disk.status = "committed"
  /\ then = "rollback" => disk.status \in {"rollback-required", "rollback-restoring",
                                          "rolled-back-verified"}

BackupsOK ==
  /\ disk.status \notin Decided \cup {"absent"} => backupDir = TRUE /\ bfiles = BackedUp
  /\ pc = "prepare" => backupDir = TRUE
  /\ pc = "publish" => backupDir = TRUE /\ bfiles = BackedUp

ControlInv == ControlOK /\ BackupsOK

LEMMA PlanKept ==
  ASSUME UNCHANGED plan
  PROVE  /\ BackedUp' = BackedUp /\ Changed' = Changed /\ DeletedDirs' = DeletedDirs
         /\ before' = before /\ after' = after /\ ops' = ops
BY DEF plan, BackedUp, DeletedDirs, Changed, Op, IsDir

LEMMA StepKeepsPlan == [Next]_vars => UNCHANGED plan
BY DEF Next, vars, Step, StartRecover, StartReconcile, Crash, Fault, Drift, At,
   Recover, UndoCreate, UndoCreateDone, RestoreDirectory, MakeDirectory, ModeDirectory,
   MadeDirectory, RestoreFile, RestoreFileTemp, RestoreFileSwap, RestoreFileDone,
   VerifyRollback, FinishFiles, FinishDir, FinishMarker, Begin, Prepare, Publish,
   Announce, Apply, ApplySwap, Observe, Settle, Require

LEMMA ControlInit == Init => ControlInv
BY DEF Init, ControlInv, ControlOK, BackupsOK, NoLedger, Decided,
       Restoring, Preparing, Applying, Finishing

LEMMA ControlNext == TypeInv /\ ControlInv /\ [Next]_vars => ControlInv'
<1> SUFFICES ASSUME TypeInv, ControlInv, [Next]_vars PROVE ControlInv'
  OBVIOUS
<1>1. /\ led \in Ledger /\ disk \in Ledger /\ NoLedger.status = "absent"
      /\ NoLedger \in Ledger
  BY NoLedgerType DEF TypeInv, TypeOK, NoLedger
<1>2. BackedUp' = BackedUp
  BY StepKeepsPlan, PlanKept
<1> USE DEF ControlInv, ControlOK, BackupsOK, Decided,
            Restoring, Preparing, Applying, Finishing
<1>3. CASE UNCHANGED vars
  BY <1>2, <1>3 DEF vars, job, call
<1>4. CASE StartRecover
  BY <1>2, <1>4 DEF StartRecover, job
<1>5. CASE StartReconcile
  BY <1>2, <1>5 DEF StartReconcile, job
<1>6. CASE Step
  <2>1. CASE Recover
    BY <1>1, <1>2, <2>1 DEF Recover, At, AfterRecovery, Return, Goto, Persist, Ledger
  <2>2. CASE UndoCreate
    BY <1>1, <1>2, <2>2 DEF UndoCreate, At, Uncertain, Return, Goto, job
  <2>3. CASE UndoCreateDone
    BY <1>1, <1>2, <2>3 DEF UndoCreateDone, At, Return, Goto, Persist, Ledger
  <2>4. CASE RestoreDirectory
    BY <1>1, <1>2, <2>4 DEF RestoreDirectory, At, Return, Goto, Persist, Ledger
  <2>5. CASE MakeDirectory
    BY <1>1, <1>2, <2>5 DEF MakeDirectory, At, Uncertain, Return, Goto, job
  <2>5a. CASE ModeDirectory
    BY <1>1, <1>2, <2>5a DEF ModeDirectory, At, Goto, job
  <2>6. CASE MadeDirectory
    BY <1>1, <1>2, <2>6 DEF MadeDirectory, At, Goto, Persist, Ledger
  <2>7. CASE RestoreFile
    BY <1>1, <1>2, <2>7 DEF RestoreFile, At, Return, Goto, Persist, Ledger
  <2>8. CASE RestoreFileTemp
    BY <1>1, <1>2, <2>8 DEF RestoreFileTemp, At, Goto, job
  <2>9. CASE RestoreFileSwap
    BY <1>1, <1>2, <2>9 DEF RestoreFileSwap, At, Goto, job
  <2>10. CASE RestoreFileDone
    BY <1>1, <1>2, <2>10 DEF RestoreFileDone, At, Goto, Persist, Ledger
  <2>11. CASE VerifyRollback
    BY <1>1, <1>2, <2>11 DEF VerifyRollback, At, Return, Goto, Persist, Ledger
  <2>12. CASE FinishFiles
    BY <1>1, <1>2, <2>12 DEF FinishFiles, At, Goto
  <2>13. CASE FinishDir
    BY <1>1, <1>2, <2>13 DEF FinishDir, At, Goto
  <2>14. CASE FinishMarker
    BY <1>1, <1>2, <2>14 DEF FinishMarker, At, AfterRecovery, Return
  <2>15. CASE Begin
    BY <1>1, <1>2, <2>15 DEF Begin, At, Return, Goto
  <2>16. CASE Prepare
    <3>1. \A m : [NoLedger EXCEPT !.status = "prepared", !.prior = m].status = "prepared"
      BY DEF NoLedger
    <3> QED
      BY <1>1, <1>2, <2>16, <3>1 DEF Prepare, At, Return, Goto
  <2>17. CASE Publish
    BY <1>1, <1>2, <2>17 DEF Publish, At, Goto
  <2>18. CASE Announce
    BY <1>1, <1>2, <2>18 DEF Announce, At, Goto, Persist, Ledger
  <2>19. CASE Apply
    BY <1>1, <1>2, <2>19 DEF Apply, At, RequireRollback, Goto, job
  <2>20. CASE ApplySwap
    BY <1>1, <1>2, <2>20 DEF ApplySwap, At, Goto, job
  <2>21. CASE Observe
    BY <1>1, <1>2, <2>21 DEF Observe, At, RequireRollback, Goto, job, Ledger
  <2>22. CASE Settle
    <3>1. \A m : [led EXCEPT !.active = 0, !.prior = m].status = led.status
      BY <1>1 DEF Ledger
    <3>2. CASE RequireRollback
      BY <1>2, <2>22, <3>2 DEF Settle, At, RequireRollback, Goto, job
    <3>3. CASE \E m : /\ Persist([led EXCEPT !.active = 0, !.prior = m])
                      /\ Goto("announce", k + 1) /\ UNCHANGED <<fs, backupDir, bfiles, clock>>
      BY <1>2, <2>22, <3>1, <3>3 DEF Settle, At, Persist, Goto
    <3> QED
      BY <2>22, <3>2, <3>3 DEF Settle
  <2>23. CASE Require
    BY <1>1, <1>2, <2>23 DEF Require, At, Persist, Ledger
  <2> QED
    BY <1>6, <2>1, <2>2, <2>3, <2>4, <2>5, <2>5a, <2>6, <2>7, <2>8, <2>9, <2>10, <2>11, <2>12, <2>13, <2>14, <2>15, <2>16, <2>17, <2>18, <2>19, <2>20, <2>21, <2>22, <2>23 DEF Step
<1>7. CASE Crash
  BY <1>1, <1>2, <1>7 DEF Crash, Return, job
<1>8. CASE Fault
  BY <1>1, <1>2, <1>8 DEF Fault, Goto, Return, job
<1>9. CASE Drift
  BY <1>2, <1>9 DEF Drift, call, job
<1> QED
  BY <1>3, <1>4, <1>5, <1>6, <1>7, <1>8, <1>9 DEF Next
-----------------------------------------------------------------------------
(* The tree *)

\* The paths the manifest does not name are as staged.
UnnamedKept == \A p \in Path \ drifted : p \notin Changed => src[p].data = before[p]

\* The operations before the current one are in place, and after its change so
\* is the current one.
Applied(n) == \A i \in 1 .. Len(ops) :
                i <= n /\ ops[i] \notin drifted => src[ops[i]].data = after[ops[i]]
Progress == /\ pc \in {"announce", "apply", "swap"} => Applied(k - 1)
            /\ pc \in {"observe", "settle"} => Applied(k)
            /\ pc = "makeDir" => Target \in DeletedDirs

DecisionHolds == /\ disk.status = "committed" => HoldsOwn(after)
                 /\ disk.status = "rolled-back-verified" => HoldsOwn(before)

\* A reconciliation that has not begun to apply works on the staged tree.
StagedUntilApplied == then = "reconcile" /\ pc \notin Applying => HoldsOwn(before)

TreeInv == /\ UnnamedKept /\ Progress /\ DecisionHolds /\ StagedUntilApplied
           /\ Atomicity /\ ReportTruthful

LEMMA LinkedData ==
  ASSUME NEW s \in [Path -> Entry], NEW p \in Path, NEW e \in Entry
  PROVE  \A q \in Path : Linked(s, p, e)[q].data = IF q = p THEN e.data ELSE s[q].data
BY DEF Linked, Entry

LEMMA PrivateData ==
  ASSUME NEW s \in [Path -> Entry], NEW p
  PROVE  \A q \in Path : Private(s, p)[q].data = s[q].data
BY DEF Private, Entry

\* What every reachable path holds when no step of this kind touches the tree.
LEMMA SameTree ==
  ASSUME UNCHANGED plan, UNCHANGED drifted,
         TypeInv, \A p \in Path : src'[p].data = src[p].data
  PROVE  /\ HoldsOwn(before)' = HoldsOwn(before) /\ HoldsOwn(after)' = HoldsOwn(after)
         /\ UnnamedKept' = UnnamedKept
         /\ \A n \in Nat : Applied(n)' = Applied(n)
BY PlanKept DEF HoldsOwn, UnnamedKept, Applied, TypeInv, TypeOK, IsManifest, Changed

LEMMA TreeInit == Init => TreeInv
BY DEF Init, TreeInv, UnnamedKept, Progress, DecisionHolds, StagedUntilApplied,
   Atomicity, ReportTruthful, HoldsOwn, NoLedger, NoEntry, Trees

\* One operation changes what its own path holds, and no other.
LEMMA OneTarget ==
  ASSUME TypeInv, UNCHANGED plan, UNCHANGED drifted, k \in 1 .. Len(ops), NEW x,
         \A q \in Path : src'[q].data = IF q = Target THEN x ELSE src[q].data
  PROVE  /\ UnnamedKept => UnnamedKept'
         /\ x = before[Target] => (HoldsOwn(before) => HoldsOwn(before)')
         /\ x = after[Target] /\ Applied(k - 1) =>
              \A i \in 1 .. Len(ops) :
                i <= k /\ ops[i] \notin drifted => src'[ops[i]].data = after[ops[i]]
<1>1. Target \in Changed /\ Target \in Path /\ \A i \in 1 .. Len(ops) : ops[i] \in Path
  BY TargetType DEF TypeInv, TypeOK, Changed, IsManifest
<1>2. UnnamedKept => UnnamedKept'
  BY <1>1, PlanKept DEF UnnamedKept
<1>3. x = before[Target] => (HoldsOwn(before) => HoldsOwn(before)')
  BY <1>1, PlanKept DEF HoldsOwn
<1>4. ASSUME x = after[Target], Applied(k - 1), NEW i \in 1 .. Len(ops),
             i <= k, ops[i] \notin drifted
      PROVE  src'[ops[i]].data = after[ops[i]]
  BY <1>1, <1>4 DEF Applied, TypeInv, TypeOK, Target
<1> QED
  BY <1>2, <1>3, <1>4

\* A complete or an undone manifest decides what the whole tree holds.
LEMMA WholeTree ==
  ASSUME TypeInv, UnnamedKept
  PROVE  /\ Applied(Len(ops)) => HoldsOwn(after)
         /\ (\A i \in 1 .. Len(ops) : src[ops[i]].data = before[ops[i]]) => HoldsOwn(before)
<1>1. \A p \in Changed : \E i \in 1 .. Len(ops) : ops[i] = p
  BY DEF TypeInv, TypeOK, IsManifest
<1>2. \A p \in Path : p \notin Changed => before[p] = after[p]
  BY DEF Changed
<1>3. Len(ops) \in Nat
  BY DEF TypeInv, TypeOK
<1> QED
  BY <1>1, <1>2, <1>3 DEF UnnamedKept, HoldsOwn, Applied

LEMMA TreeNext == TypeInv /\ ControlInv /\ TreeInv /\ [Next]_vars => TreeInv'
<1> SUFFICES ASSUME TypeInv, ControlInv, TreeInv, [Next]_vars PROVE TreeInv'
  OBVIOUS
<1>1. /\ led \in Ledger /\ disk \in Ledger /\ src \in [Path -> Entry]
      /\ NoLedger.status = "absent" /\ NoLedger \in Ledger
      /\ k \in Nat /\ Len(ops) \in Nat /\ IndexOK
  BY NoLedgerType DEF TypeInv, TypeOK, NoLedger
<1>2. /\ UNCHANGED plan /\ DeletedDirs' = DeletedDirs
      /\ before' = before /\ after' = after /\ ops' = ops
  BY StepKeepsPlan, PlanKept
<1> USE DEF TreeInv, Progress, DecisionHolds, StagedUntilApplied,
            ControlInv, ControlOK, Decided,
            Restoring, Preparing, Applying, Finishing
<1>3. CASE UNCHANGED vars
  <2>1. UNCHANGED <<src, drifted>>
    BY <1>3 DEF vars, fs, job, call, budget
  <2>2. /\ HoldsOwn(before)' = HoldsOwn(before) /\ HoldsOwn(after)' = HoldsOwn(after)
        /\ UnnamedKept' = UnnamedKept
    BY <1>2, <2>1, SameTree
  <2> QED
    BY <1>1, <1>2, <1>3, <2>1, <2>2
    DEF vars, call, job, budget, Applied, Target, Atomicity, ReportTruthful
<1>4. CASE StartRecover
  <2>1. UNCHANGED <<src, drifted>>
    BY <1>4 DEF StartRecover, fs, job
  <2>2. /\ HoldsOwn(before)' = HoldsOwn(before) /\ HoldsOwn(after)' = HoldsOwn(after)
        /\ UnnamedKept' = UnnamedKept
    BY <1>2, <2>1, SameTree
  <2> QED
    BY <1>1, <1>2, <1>4, <2>1, <2>2
    DEF StartRecover, fs, job, Applied, Atomicity, ReportTruthful
<1>5. CASE StartReconcile
  <2>1. UNCHANGED <<src, drifted>>
    BY <1>5 DEF StartReconcile, fs, job, SourceIs, HoldsOwn
  <2>2. /\ HoldsOwn(before)' = HoldsOwn(before) /\ HoldsOwn(after)' = HoldsOwn(after)
        /\ UnnamedKept' = UnnamedKept
    BY <1>2, <2>1, SameTree
  <2> QED
    BY <1>1, <1>2, <1>5, <2>1, <2>2
    DEF StartReconcile, fs, job, SourceIs, HoldsOwn, Applied, Atomicity, ReportTruthful
<1>6. CASE Recover
  <2>1. UNCHANGED <<src, drifted>>
    BY <1>6 DEF Recover, At, AfterRecovery, Return, Goto, Persist, Ledger, fs, budget
  <2>2. /\ HoldsOwn(before)' = HoldsOwn(before) /\ HoldsOwn(after)' = HoldsOwn(after)
        /\ UnnamedKept' = UnnamedKept
    BY <1>2, <2>1, SameTree
  <2> QED
    BY <1>1, <1>2, <1>6, <2>1, <2>2
    DEF Recover, At, AfterRecovery, Return, Goto, Persist, Ledger, fs, budget, Applied, Atomicity, ReportTruthful
<1>7. CASE UndoCreateDone
  <2>1. UNCHANGED <<src, drifted>>
    BY <1>7 DEF UndoCreateDone, At, Return, Goto, Persist, Ledger, fs, budget
  <2>2. /\ HoldsOwn(before)' = HoldsOwn(before) /\ HoldsOwn(after)' = HoldsOwn(after)
        /\ UnnamedKept' = UnnamedKept
    BY <1>2, <2>1, SameTree
  <2> QED
    BY <1>1, <1>2, <1>7, <2>1, <2>2
    DEF UndoCreateDone, At, Return, Goto, Persist, Ledger, fs, budget, Applied, Atomicity, ReportTruthful
<1>8. CASE RestoreDirectory
  <2>1. UNCHANGED <<src, drifted>>
    BY <1>8 DEF RestoreDirectory, At, Return, Goto, Persist, Ledger, fs, budget, Target
  <2>2. /\ HoldsOwn(before)' = HoldsOwn(before) /\ HoldsOwn(after)' = HoldsOwn(after)
        /\ UnnamedKept' = UnnamedKept
    BY <1>2, <2>1, SameTree
  <2>3. /\ disk'.status = "rollback-restoring"
        /\ pc' \notin Applying
        /\ pc' = "makeDir" => k' = k /\ Target \in DeletedDirs
        /\ pc' = "idle" => report' = "uncertain"
        /\ then' \in {then, "none"}
    BY <1>1, <1>8 DEF RestoreDirectory, At, Return, Goto, Persist, Ledger
  <2> QED
    BY <1>1, <1>2, <1>8, <2>2, <2>3 DEF Target, Atomicity, ReportTruthful, RestoreDirectory, At
<1>9. CASE MadeDirectory
  <2>1. UNCHANGED <<src, drifted>>
    BY <1>9 DEF MadeDirectory, At, Goto, Persist, Ledger, fs, budget
  <2>2. /\ HoldsOwn(before)' = HoldsOwn(before) /\ HoldsOwn(after)' = HoldsOwn(after)
        /\ UnnamedKept' = UnnamedKept
    BY <1>2, <2>1, SameTree
  <2> QED
    BY <1>1, <1>2, <1>9, <2>1, <2>2
    DEF MadeDirectory, At, Goto, Persist, Ledger, fs, budget, Applied, Atomicity, ReportTruthful
<1>10. CASE RestoreFile
  <2>1. UNCHANGED <<src, drifted>>
    BY <1>10 DEF RestoreFile, At, Return, Goto, Persist, Ledger, fs, budget
  <2>2. /\ HoldsOwn(before)' = HoldsOwn(before) /\ HoldsOwn(after)' = HoldsOwn(after)
        /\ UnnamedKept' = UnnamedKept
    BY <1>2, <2>1, SameTree
  <2> QED
    BY <1>1, <1>2, <1>10, <2>1, <2>2
    DEF RestoreFile, At, Return, Goto, Persist, Ledger, fs, budget, Applied, Atomicity, ReportTruthful
<1>11. CASE RestoreFileDone
  <2>1. UNCHANGED <<src, drifted>>
    BY <1>11 DEF RestoreFileDone, At, Goto, Persist, Ledger, fs, budget
  <2>2. /\ HoldsOwn(before)' = HoldsOwn(before) /\ HoldsOwn(after)' = HoldsOwn(after)
        /\ UnnamedKept' = UnnamedKept
    BY <1>2, <2>1, SameTree
  <2> QED
    BY <1>1, <1>2, <1>11, <2>1, <2>2
    DEF RestoreFileDone, At, Goto, Persist, Ledger, fs, budget, Applied, Atomicity, ReportTruthful
<1>12. CASE VerifyRollback
  <2>1. UNCHANGED <<src, drifted>>
    BY <1>12 DEF VerifyRollback, At, Return, Goto, Persist, Ledger, fs, budget, RestoredOK
  <2>2. /\ HoldsOwn(before)' = HoldsOwn(before) /\ HoldsOwn(after)' = HoldsOwn(after)
        /\ UnnamedKept' = UnnamedKept
    BY <1>2, <2>1, SameTree
  <2>3. CASE \A i \in 1 .. Len(ops) : RestoredOK(ops[i])
    <3>1. HoldsOwn(before)
      BY <2>3, WholeTree DEF RestoredOK
    <3>2. disk'.status = "rolled-back-verified" /\ pc' = "finishFiles"
      BY <1>1, <1>12, <2>3 DEF VerifyRollback, At, Persist, Goto, Ledger
    <3> QED
      BY <2>2, <3>1, <3>2 DEF Atomicity, ReportTruthful
  <2>4. CASE ~\A i \in 1 .. Len(ops) : RestoredOK(ops[i])
    BY <1>1, <1>2, <1>12, <2>2, <2>4
    DEF VerifyRollback, At, Return, Atomicity, ReportTruthful
  <2> QED
    BY <2>3, <2>4
<1>13. CASE FinishFiles
  <2>1. UNCHANGED <<src, drifted>>
    BY <1>13 DEF FinishFiles, At, Goto, fs, budget
  <2>2. /\ HoldsOwn(before)' = HoldsOwn(before) /\ HoldsOwn(after)' = HoldsOwn(after)
        /\ UnnamedKept' = UnnamedKept
    BY <1>2, <2>1, SameTree
  <2> QED
    BY <1>1, <1>2, <1>13, <2>1, <2>2
    DEF FinishFiles, At, Goto, fs, budget, Applied, Atomicity, ReportTruthful
<1>14. CASE FinishDir
  <2>1. UNCHANGED <<src, drifted>>
    BY <1>14 DEF FinishDir, At, Goto, fs, budget
  <2>2. /\ HoldsOwn(before)' = HoldsOwn(before) /\ HoldsOwn(after)' = HoldsOwn(after)
        /\ UnnamedKept' = UnnamedKept
    BY <1>2, <2>1, SameTree
  <2> QED
    BY <1>1, <1>2, <1>14, <2>1, <2>2
    DEF FinishDir, At, Goto, fs, budget, Applied, Atomicity, ReportTruthful
<1>15. CASE FinishMarker
  <2>1. UNCHANGED <<src, drifted>>
    BY <1>15 DEF FinishMarker, At, AfterRecovery, Return, fs, budget
  <2>2. /\ HoldsOwn(before)' = HoldsOwn(before) /\ HoldsOwn(after)' = HoldsOwn(after)
        /\ UnnamedKept' = UnnamedKept
    BY <1>2, <2>1, SameTree
  <2>3. disk'.status = "absent" /\ (HoldsOwn(before) \/ HoldsOwn(after))
    BY <1>1, <1>15 DEF FinishMarker, At
  <2>4. CASE then = "reconcile"
    BY <1>15, <2>2, <2>3, <2>4
    DEF FinishMarker, At, AfterRecovery, Atomicity, ReportTruthful
  <2>5. CASE then # "reconcile"
    <3>1. pc' = "idle" /\ then' = "none"
      BY <1>15, <2>5 DEF FinishMarker, At, AfterRecovery, Return
    <3>2. report' = "committed" => then = "commit"
      BY <1>1, <1>15, <2>5 DEF FinishMarker, At, AfterRecovery, Return, TypeInv, TypeOK
    <3>3. report' = "rolledback" => then = "rollback"
      BY <1>1, <1>15, <2>5 DEF FinishMarker, At, AfterRecovery, Return, TypeInv, TypeOK
    <3>4. report' # "failed"
      BY <1>1, <1>15, <2>5 DEF FinishMarker, At, AfterRecovery, Return, TypeInv, TypeOK
    <3> QED
      BY <1>15, <2>2, <2>3, <3>1, <3>2, <3>3, <3>4
      DEF FinishMarker, At, Atomicity, ReportTruthful
  <2> QED
    BY <2>4, <2>5
<1>16. CASE Begin
  <2>1. UNCHANGED <<src, drifted>>
    BY <1>16 DEF Begin, At, Return, Goto, fs, budget
  <2>2. /\ HoldsOwn(before)' = HoldsOwn(before) /\ HoldsOwn(after)' = HoldsOwn(after)
        /\ UnnamedKept' = UnnamedKept
    BY <1>2, <2>1, SameTree
  <2> QED
    BY <1>1, <1>2, <1>16, <2>1, <2>2
    DEF Begin, At, Return, Goto, fs, budget, Applied, Atomicity, ReportTruthful
<1>17. CASE Prepare
  <2>1. UNCHANGED <<src, drifted>>
    BY <1>17 DEF Prepare, At, Return, Goto, fs, budget
  <2>2. /\ HoldsOwn(before)' = HoldsOwn(before) /\ HoldsOwn(after)' = HoldsOwn(after)
        /\ UnnamedKept' = UnnamedKept
    BY <1>2, <2>1, SameTree
  <2> QED
    BY <1>1, <1>2, <1>17, <2>1, <2>2
    DEF Prepare, At, Return, Goto, fs, budget, Applied, Atomicity, ReportTruthful
<1>18. CASE Publish
  <2>1. UNCHANGED <<src, drifted>>
    BY <1>18 DEF Publish, At, Goto, fs, budget
  <2>2. /\ HoldsOwn(before)' = HoldsOwn(before) /\ HoldsOwn(after)' = HoldsOwn(after)
        /\ UnnamedKept' = UnnamedKept
    BY <1>2, <2>1, SameTree
  <2> QED
    BY <1>1, <1>2, <1>18, <2>1, <2>2
    DEF Publish, At, Goto, fs, budget, Applied, Atomicity, ReportTruthful
<1>19. CASE Announce
  <2>1. UNCHANGED <<src, drifted>>
    BY <1>19 DEF Announce, At, Goto, Persist, Ledger, fs, budget
  <2>2. /\ HoldsOwn(before)' = HoldsOwn(before) /\ HoldsOwn(after)' = HoldsOwn(after)
        /\ UnnamedKept' = UnnamedKept
    BY <1>2, <2>1, SameTree
  <2>3. CASE k <= Len(ops)
    <3>1. disk'.status = "applying" /\ pc' = "apply" /\ k' = k
      BY <1>1, <1>19, <2>3 DEF Announce, At, Persist, Goto, Ledger
    <3> QED
      BY <1>2, <1>19, <2>1, <2>2, <3>1 DEF Announce, At, Applied, Atomicity, ReportTruthful
  <2>4. CASE ~(k <= Len(ops))
    <3>1. k - 1 = Len(ops)
      BY <1>1, <2>4 DEF TypeInv, TypeOK
    <3>2. HoldsOwn(after)
      BY <1>19, <3>1, WholeTree DEF Announce, At
    <3>3. disk'.status = "committed" /\ pc' = "finishFiles" /\ then' = "commit"
      BY <1>1, <1>19, <2>4 DEF Announce, At, Persist, Ledger
    <3> QED
      BY <2>2, <3>2, <3>3 DEF Atomicity, ReportTruthful
  <2> QED
    BY <2>3, <2>4
<1>20. CASE Observe
  <2>1. UNCHANGED <<src, drifted>>
    BY <1>20 DEF Observe, At, RequireRollback, Goto, fs, job, budget, Ledger
  <2>2. /\ HoldsOwn(before)' = HoldsOwn(before) /\ HoldsOwn(after)' = HoldsOwn(after)
        /\ UnnamedKept' = UnnamedKept
    BY <1>2, <2>1, SameTree
  <2> QED
    BY <1>1, <1>2, <1>20, <2>1, <2>2
    DEF Observe, At, RequireRollback, Goto, fs, job, budget, Ledger, Applied, Atomicity, ReportTruthful
<1>21. CASE Settle
  <2>1. UNCHANGED <<src, drifted>>
    BY <1>21 DEF Settle, At, RequireRollback, Goto, Persist, fs, job, budget, Ledger
  <2>2. /\ HoldsOwn(before)' = HoldsOwn(before) /\ HoldsOwn(after)' = HoldsOwn(after)
        /\ UnnamedKept' = UnnamedKept
    BY <1>2, <2>1, SameTree
  <2>3. CASE RequireRollback
    BY <1>1, <1>2, <1>21, <2>2, <2>3
    DEF Settle, At, RequireRollback, Goto, job, Atomicity, ReportTruthful
  <2>4. CASE \E m : /\ Persist([led EXCEPT !.active = 0, !.prior = m])
                    /\ Goto("announce", k + 1) /\ UNCHANGED <<fs, backupDir, bfiles, clock>>
    <3>1. disk'.status = "applying" /\ pc' = "announce" /\ k' = k + 1 /\ then' = then
      BY <1>1, <1>21, <2>4 DEF Settle, At, Persist, Goto, Ledger
    <3> QED
      BY <1>1, <1>2, <1>21, <2>1, <2>2, <3>1 DEF Settle, At, Applied, Atomicity, ReportTruthful
  <2> QED
    BY <1>21, <2>3, <2>4 DEF Settle
<1>22. CASE Require
  <2>1. UNCHANGED <<src, drifted>>
    BY <1>22 DEF Require, At, Persist, Ledger, fs, budget
  <2>2. /\ HoldsOwn(before)' = HoldsOwn(before) /\ HoldsOwn(after)' = HoldsOwn(after)
        /\ UnnamedKept' = UnnamedKept
    BY <1>2, <2>1, SameTree
  <2> QED
    BY <1>1, <1>2, <1>22, <2>1, <2>2
    DEF Require, At, Persist, Ledger, fs, budget, Applied, Atomicity, ReportTruthful
<1>23. CASE Crash
  <2>1. UNCHANGED <<src, drifted>>
    BY <1>23 DEF Crash, Return, job, HoldsOwn
  <2>2. /\ HoldsOwn(before)' = HoldsOwn(before) /\ HoldsOwn(after)' = HoldsOwn(after)
        /\ UnnamedKept' = UnnamedKept
    BY <1>2, <2>1, SameTree
  <2> QED
    BY <1>1, <1>2, <1>23, <2>1, <2>2
    DEF Crash, Return, job, HoldsOwn, Applied, Atomicity, ReportTruthful
<1>24. CASE Fault
  <2>1. UNCHANGED <<src, drifted>>
    BY <1>24 DEF Fault, Goto, Return, job
  <2>2. /\ HoldsOwn(before)' = HoldsOwn(before) /\ HoldsOwn(after)' = HoldsOwn(after)
        /\ UnnamedKept' = UnnamedKept
    BY <1>2, <2>1, SameTree
  <2> QED
    BY <1>1, <1>2, <1>24, <2>1, <2>2
    DEF Fault, Goto, Return, job, Applied, Atomicity, ReportTruthful
<1>25. CASE UndoCreate
  <2>1. CASE UNCHANGED src
    <3>1. /\ HoldsOwn(before)' = HoldsOwn(before) /\ HoldsOwn(after)' = HoldsOwn(after)
          /\ UnnamedKept' = UnnamedKept
      BY <1>2, <1>25, <2>1, SameTree DEF UndoCreate, At, budget
    <3>2. /\ disk'.status = "rollback-restoring" /\ then' \in {then, "none"}
          /\ pc' \in Restoring \cup {"idle"} /\ pc' # "makeDir"
          /\ pc' = "idle" => report' = "uncertain"
      BY <1>25 DEF UndoCreate, At, Uncertain, Return, Goto, job
    <3> QED
      BY <1>25, <3>1, <3>2 DEF UndoCreate, At, Atomicity, ReportTruthful
  <2>2. CASE /\ k > 0 /\ Op(Target) = "create"
             /\ src' = Linked(src, Target, NoEntry) /\ Goto("undone", k) /\ UNCHANGED job
    <3>1. k \in 1 .. Len(ops)
      BY <1>1, <1>25, <2>2 DEF UndoCreate, At, IndexOK, TypeInv, TypeOK
    <3>2. Target \in Path /\ before[Target] = "none"
      BY <2>2, <3>1, TargetType DEF Op, TypeInv
    <3>3. \A q \in Path : src'[q].data = IF q = Target THEN "none" ELSE src[q].data
      BY <1>1, <2>2, <3>2, LinkedData, EntryType DEF NoEntry
    <3>4. UnnamedKept' /\ (HoldsOwn(before) => HoldsOwn(before)')
      BY <1>2, <1>25, <3>1, <3>2, <3>3, OneTarget DEF UndoCreate, At, budget
    <3> QED
      BY <1>25, <2>2, <3>4 DEF UndoCreate, At, Goto, job, Atomicity, ReportTruthful
  <2> QED
    BY <1>25, <2>1, <2>2 DEF UndoCreate, Uncertain, fs, job
<1>26. CASE MakeDirectory
  <2>1. CASE UNCHANGED src
    <3>1. /\ HoldsOwn(before)' = HoldsOwn(before) /\ HoldsOwn(after)' = HoldsOwn(after)
          /\ UnnamedKept' = UnnamedKept
      BY <1>2, <1>26, <2>1, SameTree DEF MakeDirectory, At, budget
    <3>2. /\ disk'.status = "rollback-restoring" /\ then' \in {then, "none"}
          /\ pc' \in {"modeDir", "idle"}
          /\ pc' = "idle" => report' = "uncertain"
      BY <1>26 DEF MakeDirectory, At, Uncertain, Return, Goto, job
    <3> QED
      BY <1>26, <3>1, <3>2 DEF MakeDirectory, At, Atomicity, ReportTruthful
  <2>2. ASSUME NEW m \in {"given", "private"}, src' = Linked(src, Target, Fresh("dir", m)),
               Goto("modeDir", k), UNCHANGED job
        PROVE  TreeInv'
    <3>1. k \in 1 .. Len(ops)
      BY <1>1, <1>26 DEF MakeDirectory, At, IndexOK, AtOperation
    <3>2. Target \in Path /\ before[Target] = "dir"
      BY <1>26, <3>1, TargetType DEF MakeDirectory, At, DeletedDirs, Op, IsDir, TypeInv
    <3>3. Fresh("dir", m) \in Entry /\ Fresh("dir", m).data = "dir"
      BY <1>1, EntryType DEF Fresh, Shape, TypeInv, TypeOK
    <3>4. \A q \in Path : src'[q].data = IF q = Target THEN "dir" ELSE src[q].data
      BY <1>1, <2>2, <3>2, <3>3, LinkedData
    <3>5. UnnamedKept' /\ (HoldsOwn(before) => HoldsOwn(before)')
      BY <1>2, <1>26, <3>1, <3>2, <3>4, OneTarget DEF MakeDirectory, At, budget
    <3> QED
      BY <1>26, <2>2, <3>5 DEF MakeDirectory, At, Goto, job, Atomicity, ReportTruthful
  <2> QED
    BY <1>26, <2>1, <2>2 DEF MakeDirectory, Uncertain, fs, job
<1>26a. CASE ModeDirectory
  <2>1. k \in 1 .. Len(ops) /\ Target \in Path
    BY <1>1, <1>26a, TargetType DEF ModeDirectory, At, IndexOK, AtOperation, TypeInv
  <2>2. \A q \in Path : src'[q].data = src[q].data
    BY <1>1, <1>26a, <2>1 DEF ModeDirectory, Entry
  <2>3. /\ HoldsOwn(before)' = HoldsOwn(before) /\ UnnamedKept' = UnnamedKept
    BY <1>2, <1>26a, <2>2, SameTree DEF ModeDirectory, At, budget
  <2> QED
    BY <1>26a, <2>3 DEF ModeDirectory, At, Goto, job, Atomicity, ReportTruthful
<1>27. CASE RestoreFileTemp
  <2>1. k \in 1 .. Len(ops) /\ Target \in Path
    BY <1>1, <1>27, TargetType DEF RestoreFileTemp, At, IndexOK, AtOperation, TypeInv
  <2>2. \A q \in Path : src'[q].data = src[q].data
    BY <1>1, <1>27, <2>1, LinkedData DEF RestoreFileTemp
  <2>3. /\ HoldsOwn(before)' = HoldsOwn(before) /\ UnnamedKept' = UnnamedKept
    BY <1>2, <1>27, <2>2, SameTree DEF RestoreFileTemp, At, budget
  <2> QED
    BY <1>27, <2>3 DEF RestoreFileTemp, At, Goto, job, Atomicity, ReportTruthful
<1>28. CASE RestoreFileSwap
  <2>1. k \in 1 .. Len(ops) /\ Target \in Path /\ before[Target] \in Shape
    BY <1>1, <1>28, TargetType DEF RestoreFileSwap, At, IndexOK, AtOperation, TypeInv
  <2>2. /\ Fresh(before[Target], "given") \in Entry
        /\ Fresh(before[Target], "given").data = before[Target]
    BY <1>1, <2>1, EntryType DEF Fresh, TypeInv, TypeOK
  <2>3. \A q \in Path : src'[q].data = IF q = Target THEN before[Target] ELSE src[q].data
    BY <1>1, <1>28, <2>1, <2>2, LinkedData DEF RestoreFileSwap
  <2>4. UnnamedKept' /\ (HoldsOwn(before) => HoldsOwn(before)')
    BY <1>2, <1>28, <2>1, <2>3, OneTarget DEF RestoreFileSwap, At, budget
  <2> QED
    BY <1>28, <2>4 DEF RestoreFileSwap, At, Goto, job, Atomicity, ReportTruthful
<1>29. CASE Apply
  <2>1. /\ k \in 1 .. Len(ops) /\ Target \in Path /\ Target \in Changed
        /\ pc = "apply" /\ Applied(k - 1) /\ drifted' = drifted
    BY <1>1, <1>29, TargetType DEF Apply, At, IndexOK, AtOperation, TypeInv, budget
  <2>2. /\ pc' \in {"require", "swap", "observe"} /\ k' = k /\ then' = then
        /\ disk' = disk /\ report' = report
    BY <1>29 DEF Apply, At, RequireRollback, Goto, job
  <2>3. CASE pc' # "observe"
    <3>1. \A q \in Path : src'[q].data = src[q].data
      BY <1>1, <1>29, <2>3, PrivateData DEF Apply, RequireRollback, Goto, fs
    <3>2. UnnamedKept' = UnnamedKept
      BY <1>2, <2>1, <3>1, SameTree
    <3> QED
      BY <1>1, <1>2, <2>1, <2>2, <2>3, <3>1, <3>2
      DEF Applied, Atomicity, ReportTruthful, TypeInv, TypeOK, Changed, IsManifest
  <2>4. CASE pc' = "observe"
    <3>1. /\ Fresh("dir", "private") \in Entry /\ Fresh("dir", "private").data = "dir"
          /\ NoEntry \in Entry /\ NoEntry.data = "none"
          /\ Private(src, Target) \in [Path -> Entry]
      BY <1>1, EntryType, PrivateType DEF Fresh, NoEntry, Shape, TypeInv, TypeOK
    <3>2. \/ src' = Linked(Private(src, Target), Target, Fresh("dir", "private")) /\ after[Target] = "dir"
          \/ src' = Linked(src, Target, NoEntry) /\ after[Target] = "none"
      BY <1>29, <2>1, <2>4 DEF Apply, RequireRollback, Goto, IsDir, Op, Changed
    <3>3. \A q \in Path : src'[q].data = IF q = Target THEN after[Target] ELSE src[q].data
      BY <1>1, <2>1, <3>1, <3>2, LinkedData, PrivateData
    <3>4. /\ UnnamedKept'
          /\ \A i \in 1 .. Len(ops) :
               i <= k /\ ops[i] \notin drifted => src'[ops[i]].data = after[ops[i]]
      BY <1>2, <2>1, <3>3, OneTarget
    <3> QED
      BY <1>1, <1>2, <2>1, <2>2, <2>4, <3>4 DEF Applied, Atomicity, ReportTruthful
  <2> QED
    BY <2>3, <2>4
<1>30. CASE ApplySwap
  <2>1. /\ k \in 1 .. Len(ops) /\ Target \in Path /\ after[Target] \in Shape
        /\ Applied(k - 1) /\ drifted' = drifted
    BY <1>1, <1>30, TargetType DEF ApplySwap, At, IndexOK, AtOperation, TypeInv, budget
  <2>2. /\ Fresh(after[Target], "given") \in Entry
        /\ Fresh(after[Target], "given").data = after[Target]
    BY <1>1, <2>1, EntryType DEF Fresh, TypeInv, TypeOK
  <2>3. \A q \in Path : src'[q].data = IF q = Target THEN after[Target] ELSE src[q].data
    BY <1>1, <1>30, <2>1, <2>2, LinkedData DEF ApplySwap
  <2>4. /\ UnnamedKept'
        /\ \A i \in 1 .. Len(ops) :
             i <= k /\ ops[i] \notin drifted => src'[ops[i]].data = after[ops[i]]
    BY <1>2, <2>1, <2>3, OneTarget
  <2> QED
    BY <1>1, <1>2, <1>30, <2>1, <2>4 DEF ApplySwap, At, Goto, job, Applied, Atomicity, ReportTruthful
<1>31. CASE Drift
  <2>1. PICK p \in Path, e \in {NoEntry, Fresh(Foreign, "given")} :
          src' = Linked(src, p, e) /\ drifted' = drifted \cup {p}
    BY <1>31 DEF Drift
  <2>2. e \in Entry
    <3>1. Foreign \in Shape /\ clock \in Nat
      BY ConstantsAssumption DEF Shape, TypeInv, TypeOK
    <3>2. Fresh(Foreign, "given") \in Entry /\ NoEntry \in Entry
      BY <3>1, EntryType
    <3> QED
      BY <2>1, <3>2
  <2>3. \A q \in Path : q # p => src'[q].data = src[q].data
    BY <1>1, <2>1, <2>2, LinkedData
  <2>4. /\ HoldsOwn(before) => HoldsOwn(before)'
        /\ HoldsOwn(after) => HoldsOwn(after)'
        /\ UnnamedKept'
    BY <1>2, <2>1, <2>3, PlanKept DEF HoldsOwn, UnnamedKept
  <2>5. \A i \in 1 .. Len(ops) : ops[i] \in Path
    BY DEF TypeInv, TypeOK
  <2> QED
    BY <1>1, <1>2, <1>31, <2>1, <2>3, <2>4, <2>5
    DEF Drift, call, job, Applied, Target, Atomicity, ReportTruthful
<1> QED
  BY <1>3, <1>4, <1>5, <1>6, <1>7, <1>8, <1>9, <1>10, <1>11, <1>12, <1>13, <1>14, <1>15, <1>16, <1>17, <1>18, <1>19, <1>20, <1>21, <1>22, <1>23, <1>24, <1>25, <1>26, <1>26a, <1>27, <1>28, <1>29, <1>30, <1>31 DEF Next, Step

\* The three invariants together are inductive.
THEOREM SafeSpec == Spec => [](TypeInv /\ ControlInv /\ TreeInv)
BY TypeInit, TypeNext, ControlInit, ControlNext, TreeInit, TreeNext, PTL DEF Spec

\* No schedule of failures, kills and foreign writes leaves a mixture of the
\* two trees in the source without the marker that says so.
THEOREM AtomicityHolds == Spec => []Atomicity
<1>1. TreeInv => Atomicity
  BY DEF TreeInv
<1> QED
  BY <1>1, SafeSpec, PTL

\* The answer of a call is never better than what is on disk.
THEOREM ReportTruthfulHolds == Spec => []ReportTruthful
<1>1. TreeInv => ReportTruthful
  BY DEF TreeInv
<1> QED
  BY <1>1, SafeSpec, PTL

\* A file that an undecided transaction changed can be restored.
THEOREM BackupsKeptHolds == Spec => []BackupsKept
<1>1. ControlInv /\ TreeInv => BackupsKept
  BY DEF ControlInv, BackupsOK, TreeInv, DecisionHolds, Atomicity, HoldsOwn,
         BackupsKept, BackedUp, Changed, Decided
<1> QED
  BY <1>1, SafeSpec, PTL

\* The disk is always whole or recoverable, and every answer says which.
THEOREM RecoverableHolds == Spec => []Recoverable
BY AtomicityHolds, ReportTruthfulHolds, BackupsKeptHolds, PTL DEF Recoverable
-----------------------------------------------------------------------------
(* What a recovery can always do again.  Where this program is alone with  *)
(* the tree, nothing fails and the manifest creates nothing, every path is *)
(* known to the ledger: a file is as it was bound, as it was recorded, as  *)
(* the operation that is under way may leave it, or marked as being        *)
(* restored; a deleted directory is gone, is the one that was bound or     *)
(* recreated, or is empty and marked.                                      *)

Alone == drifted = {} /\ faults = 0 /\ \A p \in Changed : Op(p) # "create"

\* What exists lies in directories, and so does a temporary file left behind.
Rooted == /\ \A p \in Path : Exists(p) => Reachable(p)
          /\ \A p \in litter : Reachable(p)

FileKnown(i) ==
  /\ src[ops[i]].data # "dir"
  /\ \/ ~Exists(ops[i])
     \/ Binding(src[ops[i]]) \in {disk.prior[ops[i]], disk.post[ops[i]], disk.rolled[ops[i]]}
     \/ disk.active = i /\ src[ops[i]].data \in {before[ops[i]], after[ops[i]]}
     \/ ops[i] \in disk.pending /\ src[ops[i]].data = before[ops[i]]

DirKnown(p) ==
  /\ src[p].data \in {"none", "dir"}
  /\ Exists(p) /\ p \in disk.pending => EmptyDir(p)
  /\ Exists(p) /\ p \notin disk.pending =>
       src[p].ino = disk.prior[p][1] \/ src[p].ino = disk.rolled[p][1]

FilesKnown == \A i \in 1 .. Len(ops) : ops[i] \in BackedUp => FileKnown(i)
DirsKnown  == \A p \in DeletedDirs : DirKnown(p)
Known == disk.status \notin Decided \cup {"absent"} => FilesKnown /\ DirsKnown

\* How far the recovery has come.
DirBack(p) == src[p].data = "dir" /\ p \notin disk.pending
DirsBack(n) == \A j \in 1 .. Len(ops) : j > n /\ ops[j] \in DeletedDirs => DirBack(ops[j])
FilesBack(n) ==
  \A j \in 1 .. Len(ops) : j < n /\ ops[j] \in BackedUp => src[ops[j]].data = before[ops[j]]

Back ==
  /\ pc # "undone"
  /\ pc \in {"redoDir", "makeDir", "modeDir", "madeDir"} => DirsBack(k)
  /\ pc \in {"makeDir", "modeDir", "madeDir"} => Target \in DeletedDirs
  /\ pc = "makeDir" => ~Exists(Target) /\ Reachable(Target) /\ Target \in disk.pending
  /\ pc \in {"modeDir", "madeDir"} => src[Target].data = "dir"
  /\ pc = "madeDir" => src[Target].mode = "given"
  /\ pc \in {"redoFile", "backTemp", "backSwap", "backDone", "verify"} => DirsBack(0)
  /\ pc \in {"redoFile", "backTemp", "backSwap", "backDone"} => FilesBack(k)
  /\ pc \in {"swap", "backTemp", "backSwap", "backDone"} => Target \in BackedUp
  /\ pc \in {"swap", "backTemp", "backSwap"} => Reachable(Target)
  /\ pc \in {"backTemp", "backSwap"} => Target \in disk.pending
  /\ pc = "backDone" => src[Target].data = before[Target]
  /\ pc = "verify" => FilesBack(Len(ops) + 1)

\* The ledger in memory is the one on disk, but for the identity just observed.
Posted == [disk EXCEPT !.post[Target] = Binding(src[Target])]
Ledgers ==
  /\ pc \in Restoring \cup {"announce", "apply", "swap", "observe"} => led = disk
  /\ pc = "settle" => led = Posted
  /\ pc = "require" => led \in {disk, Posted}
  /\ pc = "publish" =>
       led = [NoLedger EXCEPT !.status = "prepared",
                !.prior = [p \in Path |-> IF p \in Changed THEN Binding(src[p])
                                          ELSE NoBinding]]
  /\ pc \in Applying => disk.pending = {}
  /\ pc = "announce" => disk.active = 0
  /\ pc \in {"apply", "swap", "observe", "settle"} => disk.active = k
  /\ pc = "require" => k \in 1 .. Len(ops)

Said == report = "uncertain" => ~backupDir \/ pc # "idle" \/ HalfMade

\* A deleted directory that is there has its mode, unless a recovery is making it.
Modes ==
  \A p \in DeletedDirs : src[p].mode # "given" =>
    p \in disk.pending /\ disk.status \notin Decided \cup {"absent"}

ResumeInv == Rooted /\ Known /\ Back /\ Ledgers /\ Said

Ready == TypeInv /\ ControlInv /\ TreeInv /\ SameKind /\ Alone /\ ResumeInv /\ Modes

\* Under Alone the manifest replaces and deletes files and deletes directories, below
\* directories that it leaves or deletes.
LEMMA NoCreation ==
  ASSUME TypeInv, SameKind, Alone
  PROVE  /\ \A p \in Changed : p \in BackedUp \/ p \in DeletedDirs
         /\ \A p \in BackedUp : /\ p \in Path /\ p \notin DeletedDirs /\ before[p] \notin {"none", "dir"}
                                /\ after[p] # "dir" /\ ~IsDir(p) /\ p \in Changed
         /\ \A p \in DeletedDirs : /\ p \in Path /\ before[p] = "dir" /\ after[p] = "none"
                                   /\ IsDir(p) /\ Op(p) = "delete" /\ p \in Changed
         /\ \A p \in Changed, q \in Path :
              q \in Anc[p] => before[q] = "dir" /\ q \notin BackedUp
                              /\ (q \in Changed => q \in DeletedDirs)
  <1>1. /\ before \in Trees /\ after \in Trees
        /\ \A p \in Changed : p \in Path /\ before[p] # after[p] /\ before[p] # "none"
    BY DEF TypeInv, TypeOK, Changed, Alone, Op
  <1>2. \A p \in Changed : p \in BackedUp \/ p \in DeletedDirs
    BY <1>1 DEF BackedUp, DeletedDirs, Alone, Op, IsDir, SameKind
  <1>3. \A p \in BackedUp : /\ p \in Path /\ p \notin DeletedDirs /\ before[p] \notin {"none", "dir"}
                            /\ after[p] # "dir" /\ ~IsDir(p) /\ p \in Changed
    BY <1>1 DEF BackedUp, DeletedDirs, IsDir
  <1>4. \A p \in DeletedDirs : /\ p \in Path /\ before[p] = "dir" /\ after[p] = "none"
                               /\ IsDir(p) /\ Op(p) = "delete" /\ p \in Changed
    BY <1>1 DEF DeletedDirs, IsDir, Op
  <1>5. ASSUME NEW p \in Changed, NEW q \in Path, q \in Anc[p]
        PROVE  before[q] = "dir" /\ q \notin BackedUp /\ (q \in Changed => q \in DeletedDirs)
    <2>1. before[q] = "dir"
      BY <1>1, <1>5 DEF Trees, WellFormed
    <2> QED
      BY <1>2, <1>3, <2>1
  <1> QED
    BY <1>2, <1>3, <1>4, <1>5

\* A deleted directory comes after the deleted directories below it.
LEMMA DeepestFirst ==
  ASSUME TypeInv, SameKind, Alone,
         NEW i \in 1 .. Len(ops), NEW j \in 1 .. Len(ops),
         ops[i] \in DeletedDirs, ops[j] \in DeletedDirs, ops[j] \in Anc[ops[i]]
  PROVE  j > i
  <1> DEFINE p == ops[i]  q == ops[j]
  <1>1. p \in Path /\ q \in Path /\ p # q
    BY NoCreation, ConstantsAssumption
  <1>2. Anc[q] \subseteq Anc[p] /\ q \in Anc[p] /\ q \notin Anc[q] /\ Anc[p] \subseteq Path
    BY <1>1, ConstantsAssumption
  <1>3. IsFiniteSet(Anc[p]) /\ IsFiniteSet(Anc[q])
    BY <1>2, FS_Subset, ConstantsAssumption
  <1>4. Depth(p) \in Nat /\ Depth(q) \in Nat /\ Deepest \in Nat
    BY <1>3, FS_CardinalityType, ConstantsAssumption DEF Depth, Deepest
  <1>5. Depth(q) < Depth(p)
    BY <1>2, <1>3, <1>4, FS_Subset DEF Depth
  <1>6. Rank(p) = 2 * Deepest + 4 - Depth(p) /\ Rank(q) = 2 * Deepest + 4 - Depth(q)
    BY NoCreation DEF Rank
  <1>7. j < i => Rank(q) <= Rank(p)
    BY DEF TypeInv, TypeOK, IsManifest
  <1>8. i \in Nat /\ j \in Nat
    OBVIOUS
  <1>9. ~(j < i)
    <2> HIDE DEF p, q
    <2> QED
      BY <1>4, <1>5, <1>6, <1>7
  <1>10. j # i
    BY <1>1
  <1> QED
    BY <1>8, <1>9, <1>10

\* A changed path is within reach when the deleted directories above it are back.
LEMMA WithinReach ==
  ASSUME TypeInv, SameKind, Alone, UnnamedKept, NEW p \in Changed,
         \A q \in DeletedDirs : q \in Anc[p] => src[q].data = "dir"
  PROVE  Reachable(p)
  <1>1. p \in Path /\ Anc[p] \subseteq Path
    BY ConstantsAssumption DEF Changed
  <1>2. ASSUME NEW q \in Anc[p] PROVE src[q].data = "dir"
    <2>1. q \in Path /\ before[q] = "dir" /\ (q \in Changed => q \in DeletedDirs)
      BY <1>1, <1>2, NoCreation
    <2> QED
      BY <2>1, <1>2 DEF UnnamedKept, Alone
  <1> QED
    BY <1>2 DEF Reachable

\* Every changed path has its place in the manifest, and one only.
LEMMA Places ==
  ASSUME TypeInv
  PROVE  /\ \A p \in Changed : \E i \in 1 .. Len(ops) : ops[i] = p
         /\ \A i \in 1 .. Len(ops) : ops[i] \in Changed /\ ops[i] \in Path
         /\ \A i, j \in 1 .. Len(ops) : ops[i] = ops[j] => i = j
         /\ Len(ops) \in Nat
  <1>1. \A i, j \in 1 .. Len(ops) : i < j => ops[i] # ops[j]
    BY DEF TypeInv, TypeOK, IsManifest
  <1>2. Len(ops) \in Nat
    BY DEF TypeInv, TypeOK
  <1>3. \A i, j \in 1 .. Len(ops) : ops[i] = ops[j] => i = j
    BY <1>1, <1>2
  <1> QED
    BY <1>2, <1>3 DEF TypeInv, TypeOK, IsManifest, Changed

\* What an operation on the target leaves alone.
LEMMA LinkedFacts ==
  ASSUME TypeInv, SameKind, Alone, k \in 1 .. Len(ops), NEW e \in Entry,
         src' = Linked(src, Target, e)
  PROVE  /\ src'[Target] = e
         /\ \A q \in Path : q # Target => src'[q].data = src[q].data /\ src'[q].ino = src[q].ino
         /\ \A q \in BackedUp : q # Target => src'[q] = src[q]
  <1>1. Target \in Path /\ Target \in Changed /\ src \in [Path -> Entry]
    BY Places DEF Target, TypeInv, TypeOK
  <1>2. \A q \in BackedUp : q \notin Parents(Target) /\ q \in Path
    BY <1>1, NoCreation DEF Parents
  <1> QED
    BY <1>1, <1>2 DEF Linked, Entry

\* What fchmod of the directories above a path leaves alone.
LEMMA PrivateRest ==
  ASSUME NEW s \in [Path -> Entry], NEW p
  PROVE  \A q \in Path : /\ Private(s, p)[q].ino = s[q].ino
                         /\ q \notin Anc[p] => Private(s, p)[q] = s[q]
  BY DEF Private, Entry

\* So a replacement leaves every file in the manifest, and the identity of every directory.
LEMMA PrivateFacts ==
  ASSUME TypeInv, SameKind, Alone, k \in 1 .. Len(ops), src' = Private(src, Target)
  PROVE  /\ \A q \in Path : src'[q].data = src[q].data /\ src'[q].ino = src[q].ino
         /\ \A q \in BackedUp : src'[q] = src[q]
  <1>1. Target \in Path /\ Target \in Changed /\ src \in [Path -> Entry]
    BY Places DEF Target, TypeInv, TypeOK
  <1>2. \A q \in BackedUp : q \notin Anc[Target] /\ q \in Path
    BY <1>1, NoCreation
  <1> QED
    BY <1>1, <1>2, PrivateData, PrivateRest

\* What the updates of a ledger do, field by field.
LEMMA LedgerFields ==
  ASSUME NEW l \in Ledger, NEW p \in Path
  PROVE  /\ \A x \in Statuses :
              LET m == [l EXCEPT !.status = x]
              IN  m.active = l.active /\ m.prior = l.prior /\ m.post = l.post
                  /\ m.rolled = l.rolled /\ m.pending = l.pending /\ m.status = x
         /\ \A D : LET m == [l EXCEPT !.pending = D]
                   IN  m.active = l.active /\ m.prior = l.prior /\ m.post = l.post
                       /\ m.rolled = l.rolled /\ m.pending = D /\ m.status = l.status
         /\ \A D, b : LET m == [l EXCEPT !.pending = D, !.rolled[p] = b]
                      IN  m.active = l.active /\ m.prior = l.prior /\ m.post = l.post
                          /\ m.rolled = [l.rolled EXCEPT ![p] = b] /\ m.pending = D
                          /\ m.status = l.status
         /\ \A b : LET m == [l EXCEPT !.post[p] = b]
                   IN  m.active = l.active /\ m.prior = l.prior
                       /\ m.post = [l.post EXCEPT ![p] = b]
                       /\ m.rolled = l.rolled /\ m.pending = l.pending /\ m.status = l.status
         /\ \A x : LET m == [l EXCEPT !.active = 0, !.prior = x]
                   IN  m.active = 0 /\ m.prior = x /\ m.post = l.post
                       /\ m.rolled = l.rolled /\ m.pending = l.pending /\ m.status = l.status
         /\ \A x, y : LET m == [l EXCEPT !.status = x, !.active = y]
                      IN  m.active = y /\ m.prior = l.prior /\ m.post = l.post
                          /\ m.rolled = l.rolled /\ m.pending = l.pending /\ m.status = x
         /\ l.post \in Bindings /\ l.rolled \in Bindings /\ l.prior \in Bindings
  BY DEF Ledger

\* A step that leaves the tree and the ledger leaves what is known of them.
LEMMA RootedStays ==
  ASSUME Rooted, UNCHANGED <<src, litter>>
  PROVE  Rooted'
  BY DEF Rooted, Exists, Reachable

LEMMA KnownStays ==
  ASSUME Known, UNCHANGED plan, UNCHANGED <<src, litter, disk>>
  PROVE  Known'
  BY PlanKept DEF Known, FilesKnown, DirsKnown, FileKnown, DirKnown, EmptyDir, Exists

\* Nor does a change of the ledger's status or of the operation it names, where it named none.
LEMMA KnownNamed ==
  ASSUME FilesKnown, DirsKnown, UNCHANGED plan, UNCHANGED <<src, litter>>,
         disk'.prior = disk.prior, disk'.post = disk.post, disk'.rolled = disk.rolled,
         disk'.pending = disk.pending, disk'.active = disk.active \/ disk.active = 0
  PROVE  Known'
  BY PlanKept DEF Known, FilesKnown, DirsKnown, FileKnown, DirKnown, EmptyDir, Exists

\* The target is a changed path, and no other operation is about it.
LEMMA AtTarget ==
  ASSUME TypeInv, k \in 1 .. Len(ops)
  PROVE  /\ Target = ops[k] /\ Target \in Changed /\ Target \in Path
         /\ \A i \in 1 .. Len(ops) : ops[i] = Target => i = k
  BY Places DEF Target

\* The parts of Ready, and what no step changes.
LEMMA ReadyFacts ==
  ASSUME Ready, [Next]_vars
  PROVE  /\ TypeInv /\ SameKind /\ Alone /\ UnnamedKept /\ DecisionHolds /\ StagedUntilApplied
         /\ Progress /\ Modes
         /\ Rooted /\ Known /\ Back /\ Ledgers /\ Said /\ ControlOK /\ BackupsOK
         /\ disk \in Ledger /\ led \in Ledger /\ src \in [Path -> Entry] /\ litter \subseteq Path
         /\ Len(ops) \in Nat /\ IndexOK /\ k \in 0 .. Len(ops) + 1 /\ k \in Nat
         /\ UNCHANGED plan /\ ops' = ops /\ before' = before /\ after' = after
         /\ BackedUp' = BackedUp /\ DeletedDirs' = DeletedDirs /\ Changed' = Changed
  BY StepKeepsPlan, PlanKept DEF Ready, ResumeInv, TreeInv, TypeInv, TypeOK, ControlInv

\* The steps that leave the tree and the marker.
LEMMA QuietResume ==
  ASSUME Ready, [Next]_vars,
         \/ StartRecover \/ StartReconcile \/ UndoCreate \/ UndoCreateDone \/ FinishFiles
         \/ FinishDir \/ Begin \/ Prepare \/ Observe \/ UNCHANGED vars
  PROVE  ResumeInv'
  <1> USE ReadyFacts DEF Restoring, Applying
  <1>1. CASE StartRecover
    <2>1. Back' /\ Ledgers' /\ Said'
      BY <1>1 DEF StartRecover, job, Back, Ledgers, Said
    <2> QED
      BY <1>1, <2>1, RootedStays, KnownStays DEF StartRecover, fs, job, ResumeInv
  <1>2. CASE StartReconcile
    <2>1. Back' /\ Ledgers' /\ Said'
      BY <1>2 DEF StartReconcile, job, Back, Ledgers, Said
    <2> QED
      BY <1>2, <2>1, RootedStays, KnownStays DEF StartReconcile, fs, job, ResumeInv
  <1>3. CASE UndoCreate
    <2>1. k > 0 => Op(Target) # "create"
      BY <1>3, AtTarget DEF UndoCreate, At, IndexOK, Alone
    <2>2. /\ UNCHANGED <<fs, job, led>> /\ pc = "undo"
          /\ pc' = "undo" \/ (pc' = "redoDir" /\ k' = Len(ops))
      BY <1>3, <2>1 DEF UndoCreate, At, Goto
    <2>3. Back' /\ Ledgers' /\ Said'
      BY <2>2 DEF fs, job, Back, Ledgers, Said, DirsBack
    <2> QED
      BY <2>2, <2>3, RootedStays, KnownStays DEF fs, job, ResumeInv
  <1>4. CASE UndoCreateDone
    BY <1>4 DEF UndoCreateDone, At, Back
  <1>5. CASE FinishFiles
    <2>1. Back' /\ Ledgers' /\ Said'
      BY <1>5 DEF FinishFiles, At, Goto, Back, Ledgers, Said
    <2> QED
      BY <1>5, <2>1, RootedStays, KnownStays DEF FinishFiles, fs, ResumeInv
  <1>6. CASE FinishDir
    <2>1. Back' /\ Ledgers' /\ Said'
      BY <1>6 DEF FinishDir, At, Goto, Back, Ledgers, Said
    <2> QED
      BY <1>6, <2>1, RootedStays, KnownStays DEF FinishDir, fs, ResumeInv
  <1>7. CASE Begin
    <2>1. Back' /\ Ledgers' /\ Said'
      BY <1>7 DEF Begin, At, Goto, Return, Back, Ledgers, Said
    <2> QED
      BY <1>7, <2>1, RootedStays, KnownStays DEF Begin, fs, ResumeInv
  <1>8. CASE Prepare
    <2>1. Back' /\ Said' /\ UNCHANGED <<src, litter, disk>>
      BY <1>8 DEF Prepare, At, Goto, Return, Back, Said, fs
    <2>2. Ledgers'
      BY <1>8, <2>1 DEF Prepare, At, Goto, Return, Ledgers
    <2> QED
      BY <2>1, <2>2, RootedStays, KnownStays DEF ResumeInv
  <1>9. CASE Observe
    <2>1. UNCHANGED <<src, litter, disk, backupDir, k>> /\ pc = "observe"
      BY <1>9 DEF Observe, At, Goto, RequireRollback, fs, job
    <2>2. \/ pc' = "settle" /\ led' = [led EXCEPT !.post[Target] = Binding(src[Target])]
          \/ pc' = "require" /\ led' = led
      BY <1>9 DEF Observe, At, Goto, RequireRollback
    <2>3. Target' = Target /\ Posted' = Posted
      BY <2>1 DEF Target, Posted
    <2>4. Back' /\ Said'
      BY <2>1, <2>2, <2>3 DEF Back, Said
    <2>5. Ledgers'
      BY <2>1, <2>2, <2>3 DEF Ledgers, Posted, IndexOK, AtOperation
    <2> QED
      BY <2>1, <2>4, <2>5, RootedStays, KnownStays DEF ResumeInv
  <1>10. CASE UNCHANGED vars
    <2>1. UNCHANGED <<src, litter, disk, backupDir, k, pc, led, report>>
      BY <1>10 DEF vars, fs, job, call
    <2>2. Target' = Target /\ Posted' = Posted
      BY <2>1 DEF Target, Posted
    <2>3. Back' /\ Said'
      BY <2>1, <2>2 DEF Back, Said, HalfMade, DirsBack, FilesBack, DirBack, Exists, Reachable
    <2>4. Ledgers'
      BY <2>1, <2>2 DEF Ledgers
    <2> QED
      BY <2>1, <2>3, <2>4, RootedStays, KnownStays DEF ResumeInv
  <1> QED
    BY <1>1, <1>2, <1>3, <1>4, <1>5, <1>6, <1>7, <1>8, <1>9, <1>10

\* A kill leaves a temporary file within reach, and no directory that is marked above it.
LEMMA CrashResume ==
  ASSUME Ready, Crash, [Next]_vars
  PROVE  ResumeInv'
  <1> USE ReadyFacts DEF Restoring, Applying
  <1>1. UNCHANGED <<src, disk, backupDir>> /\ pc' = "idle" /\ report' = "none"
    BY DEF Crash, Return, job
  <1>2. Back' /\ Ledgers' /\ Said'
    BY <1>1 DEF Back, Ledgers, Said
  <1>3. CASE UNCHANGED litter
    BY <1>1, <1>2, <1>3, RootedStays, KnownStays DEF ResumeInv
  <1>4. CASE pc \in {"swap", "backSwap"} /\ litter' = litter \cup {Target}
    <2>1. Rooted'
      BY <1>1, <1>4 DEF Rooted, Back, Exists, Reachable
    <2>2. k \in 1 .. Len(ops)
      BY <1>4 DEF IndexOK, AtOperation
    <2>3. \A p \in DeletedDirs : p \notin disk.pending
      <3>1. CASE pc = "swap"
        BY <3>1 DEF Ledgers
      <3>2. CASE pc = "backSwap"
        <4>1. DirsBack(0)
          BY <3>2 DEF Back
        <4> QED
          BY <4>1, Places, NoCreation DEF DirsBack, DirBack
      <3> QED
        BY <1>4, <3>1, <3>2
    <2>4. Known'
      BY <1>1, <2>3 DEF Known, FilesKnown, DirsKnown, FileKnown, DirKnown, Exists
    <2> QED
      BY <1>2, <2>1, <2>4 DEF ResumeInv
  <1> QED
    BY <1>3, <1>4 DEF Crash, Littered

\* What follows a recovery is the transaction or an answer other than "uncertain".
LEMMA RecoveryEnds ==
  ASSUME NEW x \in BOOLEAN, AfterRecovery(x)
  PROVE  pc' = "begin" \/ (pc' = "idle" /\ report' # "uncertain")
  <1>1. CASE then = "reconcile"
    BY <1>1 DEF AfterRecovery
  <1>2. CASE then # "reconcile"
    <2>1. PICK r : r = CASE then = "recover" -> "recovered" [] then = "rollback" -> "rolledback"
                         [] OTHER -> "committed"
      OBVIOUS
    <2>2. r \in {"recovered", "rolledback", "committed"}
      BY <2>1
    <2>3. pc' = "idle" /\ report' \in {"nothing", r}
      BY <1>2, <2>1 DEF AfterRecovery, Return
    <2> QED
      BY <2>2, <2>3
  <1> QED
    BY <1>1, <1>2

\* The steps that change the marker's status or clear it.
LEMMA RecoverResume ==
  ASSUME Ready, Recover, [Next]_vars
  PROVE  ResumeInv'
  <1> USE ReadyFacts DEF Restoring, Applying
  <1>1. UNCHANGED <<src, litter, backupDir>>
    BY DEF Recover, fs
  <1>2. CASE \/ AfterRecovery(TRUE) /\ UNCHANGED disk
             \/ ~backupDir /\ Return("uncertain") /\ UNCHANGED disk
             \/ Goto("finishFiles", 0) /\ UNCHANGED disk
    <2>1. /\ UNCHANGED disk
          /\ \/ pc' \in {"begin", "finishFiles"}
             \/ pc' = "idle" /\ (report' = "uncertain" => ~backupDir)
      BY <1>2, RecoveryEnds DEF Return, Goto
    <2>2. Back' /\ Ledgers' /\ Said'
      BY <1>1, <2>1 DEF Back, Ledgers, Said
    <2> QED
      BY <1>1, <2>1, <2>2, RootedStays, KnownStays DEF ResumeInv
  <1>3. CASE /\ disk.status \notin Decided \cup {"absent"}
             /\ Persist([disk EXCEPT !.status = "rollback-restoring"])
             /\ Goto("undo", Len(ops))
    <2>1. Back' /\ Ledgers' /\ Said'
      BY <1>3 DEF Persist, Goto, Back, Ledgers, Said
    <2>2. Known'
      <3>1. FilesKnown /\ DirsKnown
        BY <1>3 DEF Known
      <3>2. /\ disk'.prior = disk.prior /\ disk'.post = disk.post /\ disk'.rolled = disk.rolled
            /\ disk'.pending = disk.pending /\ disk'.active = disk.active
        BY <1>3 DEF Persist, Ledger
      <3> QED
        BY <1>1, <3>1, <3>2, KnownNamed
    <2> QED
      BY <1>1, <2>1, <2>2, RootedStays DEF ResumeInv
  <1> QED
    BY <1>2, <1>3 DEF Recover

\* Without a marker nothing is left to know.
LEMMA MarkerResume ==
  ASSUME Ready, FinishMarker, [Next]_vars
  PROVE  ResumeInv'
  <1> USE ReadyFacts DEF Restoring, Applying
  <1>1. UNCHANGED <<src, litter>> /\ disk' = NoLedger
    BY DEF FinishMarker, fs
  <1>2. pc' = "begin" \/ (pc' = "idle" /\ report' # "uncertain")
    BY RecoveryEnds DEF FinishMarker
  <1>3. Back' /\ Ledgers' /\ Said'
    BY <1>2 DEF Back, Ledgers, Said
  <1>4. Known'
    BY <1>1 DEF Known, NoLedger
  <1> QED
    BY <1>1, <1>3, <1>4, RootedStays DEF ResumeInv

\* The transaction's own steps.
LEMMA PublishResume ==
  ASSUME Ready, Publish, [Next]_vars
  PROVE  ResumeInv'
  <1> USE ReadyFacts DEF Restoring, Applying
  <1>1. UNCHANGED <<src, litter, backupDir, led>> /\ pc = "publish" /\ pc' = "announce" /\ disk' = led
    BY DEF Publish, At, Goto, fs
  <1> DEFINE m == [p \in Path |-> IF p \in Changed THEN Binding(src[p]) ELSE NoBinding]
  <1>2. led = [NoLedger EXCEPT !.status = "prepared", !.prior = m]
    BY <1>1 DEF Ledgers
  <1>3. led.active = 0 /\ led.pending = {} /\ led.prior = m
    <2> HIDE DEF m
    <2> QED
      BY <1>2 DEF NoLedger
  <1>4. Back' /\ Ledgers' /\ Said'
    BY <1>1, <1>3 DEF Back, Ledgers, Said
  <1>5. \A p \in Path : src[p].data = before[p]
    <2>1. then = "reconcile"
      BY <1>1 DEF ControlOK, Preparing
    <2> QED
      BY <1>1, <2>1 DEF StagedUntilApplied, HoldsOwn, Alone
  <1>6. \A i \in 1 .. Len(ops) : ops[i] \in BackedUp => FileKnown(i)'
    <2> SUFFICES ASSUME NEW i \in 1 .. Len(ops), ops[i] \in BackedUp
                 PROVE  FileKnown(i)'
      OBVIOUS
    <2>1. ops[i] \in Path /\ ops[i] \in Changed /\ src[ops[i]].data # "dir"
      BY <1>5, NoCreation
    <2>2. Binding(src[ops[i]]) = led.prior[ops[i]]
      BY <1>3, <2>1
    <2> QED
      BY <1>1, <2>1, <2>2 DEF FileKnown
  <1>7. \A p \in DeletedDirs : DirKnown(p)'
    <2> SUFFICES ASSUME NEW p \in DeletedDirs
                 PROVE  DirKnown(p)'
      OBVIOUS
    <2>1. p \in Path /\ p \in Changed /\ src[p].data = "dir"
      BY <1>5, NoCreation
    <2>2. led.prior[p] = <<src[p].ino, src[p].stamp>>
      BY <1>3, <2>1 DEF Binding
    <2> QED
      BY <1>1, <1>3, <2>1, <2>2 DEF DirKnown
  <1>8. Known'
    BY <1>6, <1>7 DEF Known, FilesKnown, DirsKnown
  <1> QED
    BY <1>1, <1>4, <1>8, RootedStays DEF ResumeInv

\* The operation that is announced is the one that may then differ.
LEMMA AnnounceResume ==
  ASSUME Ready, Announce, [Next]_vars
  PROVE  ResumeInv'
  <1> USE ReadyFacts DEF Restoring, Applying
  <1>1. UNCHANGED <<src, litter, backupDir>> /\ pc = "announce" /\ led = disk /\ disk.active = 0
        /\ disk.pending = {} /\ disk.status \in {"prepared", "applying"}
    BY DEF Announce, At, fs, Ledgers, ControlOK
  <1>2. FilesKnown /\ DirsKnown
    BY <1>1 DEF Known, Decided
  <1>3. CASE k <= Len(ops)
    <2>1. /\ led' = disk' /\ pc' = "apply" /\ k' = k
          /\ disk' = [disk EXCEPT !.status = "applying", !.active = k]
      BY <1>1, <1>3 DEF Announce, Persist, Goto
    <2>2. /\ disk'.prior = disk.prior /\ disk'.post = disk.post /\ disk'.rolled = disk.rolled
          /\ disk'.pending = disk.pending /\ disk'.active = k
      BY <2>1 DEF Ledger
    <2>3. Known'
      BY <1>1, <1>2, <2>2 DEF Known, FilesKnown, DirsKnown, FileKnown, DirKnown, EmptyDir, Exists
    <2>4. Back' /\ Ledgers' /\ Said'
      BY <1>1, <2>1, <2>2 DEF Back, Ledgers, Said
    <2> QED
      BY <1>1, <2>3, <2>4, RootedStays DEF ResumeInv
  <1>4. CASE k > Len(ops)
    <2>1. pc' = "finishFiles" /\ disk' = [disk EXCEPT !.status = "committed", !.active = 0]
      BY <1>1, <1>4 DEF Announce, Persist
    <2>2. Known'
      BY <2>1 DEF Known, Decided, Ledger
    <2>3. Back' /\ Ledgers' /\ Said'
      BY <2>1 DEF Back, Ledgers, Said
    <2> QED
      BY <1>1, <2>2, <2>3, RootedStays DEF ResumeInv
  <1> QED
    BY <1>3, <1>4

\* What holds while an operation is applied.
LEMMA ApplyingFacts ==
  ASSUME Ready, [Next]_vars, pc \in {"apply", "swap", "observe", "settle"}
  PROVE  /\ k \in 1 .. Len(ops) /\ Target \in Path /\ Target \in Changed
         /\ \A i \in 1 .. Len(ops) : ops[i] = Target => i = k
         /\ disk.active = k /\ disk.pending = {} /\ FilesKnown /\ DirsKnown
  <1>1. k \in 1 .. Len(ops)
    BY ReadyFacts DEF IndexOK, AtOperation
  <1>2. disk.active = k /\ disk.pending = {} /\ disk.status \in {"prepared", "applying"}
    BY ReadyFacts DEF Ledgers, Applying, ControlOK
  <1> QED
    BY <1>1, <1>2, ReadyFacts, AtTarget DEF Known, Decided

\* A target leaves the tree only where the ledger names it as active.
LEMMA ApplyResume ==
  ASSUME Ready, Apply, [Next]_vars
  PROVE  ResumeInv'
  <1> USE ReadyFacts DEF Restoring, Applying
  <1>1. pc = "apply" /\ UNCHANGED backupDir
    BY DEF Apply, At, RequireRollback, job
  <1>2. /\ k \in 1 .. Len(ops) /\ Target \in Path /\ Target \in Changed /\ led = disk
        /\ \A i \in 1 .. Len(ops) : ops[i] = Target => i = k
        /\ disk.active = k /\ disk.pending = {} /\ FilesKnown /\ DirsKnown
    BY <1>1, ApplyingFacts DEF Ledgers
  <1>3. Op(Target) # "create"
    BY <1>2 DEF Alone
  <1>4. CASE RequireRollback
    <2>1. UNCHANGED <<src, litter, disk, k, led>> /\ pc' = "require"
      BY <1>4 DEF RequireRollback, Goto, fs, job
    <2>2. Back' /\ Ledgers' /\ Said'
      BY <1>2, <2>1 DEF Back, Ledgers, Said
    <2> QED
      BY <2>1, <2>2, RootedStays, KnownStays DEF ResumeInv
  <1>5. CASE /\ TargetUnchanged(Target) /\ Op(Target) # "delete" /\ ~IsDir(Target)
             /\ src' = Private(src, Target)
             /\ Tick /\ Goto("swap", k) /\ UNCHANGED <<litter, job, led>>
    <2>1. UNCHANGED <<litter, disk, k, led>> /\ pc' = "swap" /\ Target' = Target
      BY <1>5 DEF Goto, job, Target
    <2>2. /\ \A q \in Path : src'[q].data = src[q].data /\ src'[q].ino = src[q].ino
          /\ \A q \in BackedUp : src'[q] = src[q]
      BY <1>2, <1>5, PrivateFacts
    <2>3. Rooted' /\ Reachable(Target)'
      <3>1. Anc[Target] \subseteq Path /\ \A p \in Path : Anc[p] \subseteq Path
        BY <1>2, ConstantsAssumption
      <3> QED
        BY <1>2, <1>5, <2>1, <2>2, <3>1 DEF Rooted, Exists, Reachable, TargetUnchanged
    <2>4. Known'
      BY <1>2, <2>1, <2>2, NoCreation
      DEF Known, FilesKnown, DirsKnown, FileKnown, DirKnown, Exists
    <2>5. Target \in BackedUp
      BY <1>2, <1>5, NoCreation
    <2>6. Back' /\ Said'
      BY <2>1, <2>3, <2>5 DEF Back, Said
    <2>7. Ledgers'
      BY <1>2, <2>1 DEF Ledgers
    <2> QED
      BY <2>3, <2>4, <2>6, <2>7 DEF ResumeInv
  <1>6. CASE /\ Op(Target) = "delete" /\ TargetUnchanged(Target)
             /\ IsDir(Target) => EmptyDir(Target)
             /\ src' = Linked(src, Target, NoEntry)
             /\ Tick /\ Goto("observe", k) /\ UNCHANGED <<litter, job, led>>
    <2>1. UNCHANGED <<litter, disk, k, led>> /\ pc' = "observe" /\ Target' = Target
      BY <1>6 DEF Goto, job, Target
    <2>2. /\ src'[Target].data = "none"
          /\ \A q \in Path : q # Target => src'[q].data = src[q].data /\ src'[q].ino = src[q].ino
          /\ \A q \in BackedUp : q # Target => src'[q] = src[q]
      BY <1>2, <1>6, LinkedFacts, EntryType DEF NoEntry
    <2>3. ASSUME NEW p \in Path, Target \in Anc[p] PROVE ~Exists(p) /\ p \notin litter
      <3>1. CASE IsDir(Target)
        BY <1>6, <2>3, <3>1 DEF EmptyDir
      <3>2. CASE ~IsDir(Target)
        <4>1. Target \in BackedUp
          BY <1>2, <3>2, NoCreation
        <4>2. src[Target].data # "dir"
          BY <1>2, <4>1 DEF FilesKnown, FileKnown, Target
        <4> QED
          BY <2>3, <4>2 DEF Rooted, Reachable
      <3> QED
        BY <3>1, <3>2
    <2>4. Rooted'
      <3>1. \A p \in Path : Anc[p] \subseteq Path
        BY ConstantsAssumption
      <3> QED
        BY <1>2, <2>1, <2>2, <2>3, <3>1 DEF Rooted, Exists, Reachable
    <2>5. Known'
      BY <1>2, <2>1, <2>2, NoCreation
      DEF Known, FilesKnown, DirsKnown, FileKnown, DirKnown, Exists
    <2>6. Back' /\ Said'
      BY <2>1 DEF Back, Said
    <2>7. Ledgers'
      BY <1>2, <2>1 DEF Ledgers
    <2> QED
      BY <2>4, <2>5, <2>6, <2>7 DEF ResumeInv
  <1> QED
    BY <1>3, <1>4, <1>5, <1>6 DEF Apply

\* A replaced file holds what the active operation writes.
LEMMA SwapResume ==
  ASSUME Ready, ApplySwap, [Next]_vars
  PROVE  ResumeInv'
  <1> USE ReadyFacts DEF Restoring, Applying
  <1>1. pc = "swap" /\ UNCHANGED <<litter, disk, backupDir, k, led>> /\ pc' = "observe"
    BY DEF ApplySwap, At, Goto, job
  <1>2. /\ k \in 1 .. Len(ops) /\ Target \in Path /\ Target \in Changed /\ led = disk
        /\ \A i \in 1 .. Len(ops) : ops[i] = Target => i = k
        /\ disk.active = k /\ disk.pending = {} /\ FilesKnown /\ DirsKnown
        /\ Target \in BackedUp /\ Reachable(Target)
    BY <1>1, ApplyingFacts DEF Ledgers, Back
  <1>3. Fresh(after[Target], "given") \in Entry
    BY <1>2, EntryType, TargetType DEF TypeInv, TypeOK
  <1>4. /\ src'[Target].data = after[Target] /\ after[Target] # "dir"
        /\ \A q \in Path : q # Target => src'[q].data = src[q].data /\ src'[q].ino = src[q].ino
        /\ \A q \in BackedUp : q # Target => src'[q] = src[q]
    <2>1. src' = Linked(src, Target, Fresh(after[Target], "given"))
      BY DEF ApplySwap
    <2> QED
      BY <1>2, <1>3, <2>1, LinkedFacts, NoCreation DEF Fresh
  <1>5. src[Target].data # "dir"
    BY <1>2 DEF FilesKnown, FileKnown, Target
  <1>6. Rooted'
    <2>1. \A p \in Path : Anc[p] \subseteq Path /\ p \notin Anc[p]
      BY ConstantsAssumption
    <2> QED
      BY <1>1, <1>2, <1>4, <1>5, <2>1 DEF Rooted, Exists, Reachable
  <1>7. Known'
    BY <1>1, <1>2, <1>4, NoCreation
    DEF Known, FilesKnown, DirsKnown, FileKnown, DirKnown, Exists
  <1>8. Back' /\ Said'
    BY <1>1 DEF Back, Said
  <1>9. Ledgers'
    BY <1>1, <1>2 DEF Ledgers
  <1> QED
    BY <1>6, <1>7, <1>8, <1>9 DEF ResumeInv

\* An applied operation is recorded, and the directories above it with it.
LEMMA SettleResume ==
  ASSUME Ready, Settle, [Next]_vars
  PROVE  ResumeInv'
  <1> USE ReadyFacts DEF Restoring, Applying
  <1>1. pc = "settle" /\ UNCHANGED <<src, litter, backupDir>>
    BY DEF Settle, At, RequireRollback, fs, job
  <1>2. /\ k \in 1 .. Len(ops) /\ Target \in Path /\ Target \in Changed /\ led = Posted
        /\ \A i \in 1 .. Len(ops) : ops[i] = Target => i = k
        /\ disk.active = k /\ disk.pending = {} /\ FilesKnown /\ DirsKnown
    BY <1>1, ApplyingFacts DEF Ledgers
  <1>3. CASE RequireRollback
    <2>1. UNCHANGED <<disk, k, led>> /\ pc' = "require" /\ Posted' = Posted
      BY <1>1, <1>3 DEF RequireRollback, Goto, job, Posted, Target
    <2>2. Back' /\ Ledgers' /\ Said'
      BY <1>2, <2>1 DEF Back, Ledgers, Said
    <2> QED
      BY <1>1, <2>1, <2>2, RootedStays, KnownStays DEF ResumeInv
  <1>4. CASE ~RequireRollback
    <2> DEFINE D == DeletedDirs \cap {ops[j] : j \in k + 1 .. Len(ops)}
    <2>1. /\ disk' = [led EXCEPT !.active = 0, !.prior = Refreshed(led.prior, Target, D)]
          /\ led' = disk' /\ pc' = "announce"
      BY <1>4 DEF Settle, Persist, Goto
    <2>2. /\ led.prior = disk.prior /\ led.rolled = disk.rolled /\ led.pending = {}
          /\ led.post = [disk.post EXCEPT ![Target] = Binding(src[Target])]
          /\ disk.post \in Bindings
      BY <1>2, LedgerFields DEF Posted
    <2>3. /\ disk'.active = 0 /\ disk'.pending = {} /\ disk'.rolled = disk.rolled
          /\ disk'.prior = Refreshed(disk.prior, Target, D)
          /\ disk'.post = [disk.post EXCEPT ![Target] = Binding(src[Target])]
      BY <1>2, <2>1, <2>2, LedgerFields
    <2>4. \A i \in 1 .. Len(ops) : ops[i] \in BackedUp => FileKnown(i)'
      <3> SUFFICES ASSUME NEW i \in 1 .. Len(ops), ops[i] \in BackedUp
                   PROVE  FileKnown(i)'
        OBVIOUS
      <3>1. FileKnown(i) /\ ops[i] \in Path /\ ops[i] \notin DeletedDirs
        BY <1>2, NoCreation DEF FilesKnown
      <3>2. disk'.prior[ops[i]] = disk.prior[ops[i]]
        BY <2>3, <3>1 DEF Refreshed
      <3>3. CASE ops[i] = Target
        <4>1. disk'.post[ops[i]] = Binding(src[ops[i]])
          BY <2>2, <2>3, <3>3, <1>2 DEF Bindings
        <4> QED
          BY <1>1, <3>1, <4>1 DEF FileKnown
      <3>4. CASE ops[i] # Target
        <4>1. disk'.post[ops[i]] = disk.post[ops[i]]
          BY <2>2, <2>3, <3>1, <3>4 DEF Bindings
        <4>2. i # k
          BY <3>4 DEF Target
        <4> QED
          BY <1>1, <1>2, <2>3, <3>1, <3>2, <4>1, <4>2 DEF FileKnown, Exists
      <3> QED
        BY <3>3, <3>4
    <2>5. \A p \in DeletedDirs : DirKnown(p)'
      <3> SUFFICES ASSUME NEW p \in DeletedDirs
                   PROVE  DirKnown(p)'
        OBVIOUS
      <3>1. DirKnown(p) /\ p \in Path
        BY <1>2, NoCreation DEF DirsKnown
      <3>2. Exists(p) => disk'.prior[p][1] \in {disk.prior[p][1], src[p].ino}
        BY <2>3, <3>1 DEF Refreshed, Binding, Exists
      <3> QED
        BY <1>1, <1>2, <2>3, <3>1, <3>2 DEF DirKnown, Exists
    <2>6. Known'
      BY <2>4, <2>5 DEF Known, FilesKnown, DirsKnown
    <2>7. Back' /\ Said'
      BY <2>1 DEF Back, Said
    <2>8. Ledgers'
      BY <2>1, <2>3 DEF Ledgers
    <2> QED
      BY <1>1, <2>6, <2>7, <2>8, RootedStays DEF ResumeInv
  <1> QED
    BY <1>3, <1>4

\* A rollback begins with the ledger as it was last recorded.
LEMMA RequireResume ==
  ASSUME Ready, Require, [Next]_vars
  PROVE  ResumeInv'
  <1> USE ReadyFacts DEF Restoring, Applying
  <1>1. /\ UNCHANGED <<src, litter, backupDir>> /\ pc = "require" /\ pc' = "recover"
        /\ disk' = [led EXCEPT !.status = "rollback-required"]
    BY DEF Require, At, Persist, fs
  <1>2. k \in 1 .. Len(ops) /\ led \in {disk, Posted} /\ disk.status \in {"prepared", "applying"}
    BY <1>1 DEF Ledgers, ControlOK
  <1>3. Target \in Path /\ FilesKnown /\ DirsKnown
    BY <1>2, AtTarget DEF Known, Decided
  <1>4. /\ led.prior = disk.prior /\ led.rolled = disk.rolled /\ led.pending = disk.pending
        /\ led.active = disk.active /\ disk.post \in Bindings
        /\ \/ led.post = disk.post
           \/ led.post = [disk.post EXCEPT ![Target] = Binding(src[Target])]
    <2>1. disk.post \in Bindings
      BY <1>3, LedgerFields
    <2>2. CASE led = Posted
      BY <1>3, <2>1, <2>2, LedgerFields DEF Posted
    <2> QED
      BY <1>2, <2>1, <2>2
  <1>5. /\ disk'.prior = disk.prior /\ disk'.rolled = disk.rolled /\ disk'.pending = disk.pending
        /\ disk'.active = disk.active
        /\ \A p \in Path : disk'.post[p] = disk.post[p] \/ disk'.post[p] = Binding(src[p])
    <2>1. disk'.post = led.post /\ disk'.prior = led.prior /\ disk'.rolled = led.rolled
          /\ disk'.pending = led.pending /\ disk'.active = led.active
      BY <1>1 DEF Ledger
    <2> QED
      BY <1>3, <1>4, <2>1 DEF Bindings
  <1>6. FilesKnown'
    <2> SUFFICES ASSUME NEW i \in 1 .. Len(ops), ops[i] \in BackedUp
                 PROVE  FileKnown(i)'
      BY DEF FilesKnown
    <2>1. FileKnown(i) /\ ops[i] \in Path
      BY <1>3, NoCreation DEF FilesKnown
    <2> QED
      BY <1>1, <1>5, <2>1 DEF FileKnown, Exists
  <1>7. DirsKnown'
    BY <1>1, <1>3, <1>5 DEF DirsKnown, DirKnown, Exists, EmptyDir
  <1>8. Back' /\ Ledgers' /\ Said'
    BY <1>1 DEF Back, Ledgers, Said
  <1> QED
    BY <1>1, <1>6, <1>7, <1>8, RootedStays DEF ResumeInv, Known


\* What holds while a recovery restores, and where it stands at an operation.
LEMMA RestoringFacts ==
  ASSUME Ready, [Next]_vars, pc \in Restoring
  PROVE  /\ led = disk /\ FilesKnown /\ DirsKnown /\ bfiles = BackedUp
         /\ k \in 1 .. Len(ops) =>
              /\ Target = ops[k] /\ Target \in Path /\ Target \in Changed
              /\ \A i \in 1 .. Len(ops) : ops[i] = Target => i = k
  <1>1. led = disk
    BY ReadyFacts DEF Ledgers
  <1>2. disk.status = "rollback-restoring"
    BY ReadyFacts DEF ControlOK
  <1>3. FilesKnown /\ DirsKnown /\ bfiles = BackedUp
    BY <1>2, ReadyFacts DEF Known, BackupsOK, Decided
  <1> QED
    BY <1>1, <1>3, ReadyFacts, AtTarget

\* The deleted directories above a deleted directory are back before it.
LEMMA AboveBack ==
  ASSUME Ready, [Next]_vars, k \in 1 .. Len(ops), Target \in DeletedDirs, DirsBack(k)
  PROVE  /\ \A q \in DeletedDirs : q \in Anc[Target] => DirBack(q)
         /\ Reachable(Target)
  <1>1. ASSUME NEW q \in DeletedDirs, q \in Anc[Target] PROVE DirBack(q)
    <2>1. q \in Changed
      BY ReadyFacts, NoCreation
    <2>2. PICK j \in 1 .. Len(ops) : ops[j] = q
      BY <2>1, ReadyFacts, Places
    <2>3. j > k
      BY <1>1, <2>2, ReadyFacts, DeepestFirst DEF Target
    <2> QED
      BY <2>2, <2>3 DEF DirsBack
  <1>2. Target \in Changed
    BY ReadyFacts, AtTarget
  <1> QED
    BY <1>1, <1>2, ReadyFacts, WithinReach DEF DirBack

\* Every deleted directory is back once all of them have been visited.
LEMMA AllBack ==
  ASSUME Ready, [Next]_vars, DirsBack(0)
  PROVE  /\ \A q \in DeletedDirs : DirBack(q)
         /\ \A p \in Changed : Reachable(p)
  <1>1. \A q \in DeletedDirs : DirBack(q)
    BY ReadyFacts, NoCreation, Places DEF DirsBack
  <1> QED
    BY <1>1, ReadyFacts, WithinReach DEF DirBack

\* Marking the target, or clearing its mark with the identity it has, keeps what is known.
LEMMA MarkKnown ==
  ASSUME Ready, [Next]_vars, k \in 1 .. Len(ops), FilesKnown, DirsKnown,
         UNCHANGED <<src, litter>>, Target \in DeletedDirs => ~Exists(Target),
         disk' = [disk EXCEPT !.pending = @ \cup {Target}]
  PROVE  Known'
  <1> USE ReadyFacts
  <1>1. /\ disk'.prior = disk.prior /\ disk'.post = disk.post /\ disk'.rolled = disk.rolled
        /\ disk'.active = disk.active /\ disk'.pending = disk.pending \cup {Target}
    BY AtTarget, LedgerFields
  <1>2. FilesKnown'
    BY <1>1 DEF FilesKnown, FileKnown, Exists
  <1>3. DirsKnown'
    BY <1>1 DEF DirsKnown, DirKnown, Exists, EmptyDir
  <1> QED
    BY <1>2, <1>3 DEF Known

LEMMA UnmarkKnown ==
  ASSUME Ready, [Next]_vars, k \in 1 .. Len(ops), FilesKnown, DirsKnown,
         UNCHANGED <<src, litter>>,
         disk' = [disk EXCEPT !.pending = @ \ {Target}, !.rolled[Target] = Binding(src[Target])]
  PROVE  Known' /\ disk'.pending = disk.pending \ {Target}
  <1> USE ReadyFacts
  <1>1. Target \in Path /\ disk.rolled \in Bindings
    BY AtTarget, LedgerFields
  <1>2. /\ disk'.prior = disk.prior /\ disk'.post = disk.post
        /\ disk'.rolled = [disk.rolled EXCEPT ![Target] = Binding(src[Target])]
        /\ disk'.active = disk.active /\ disk'.pending = disk.pending \ {Target}
    BY <1>1, LedgerFields
  <1>3. disk'.rolled[Target] = Binding(src[Target])
        /\ \A p \in Path : p # Target => disk'.rolled[p] = disk.rolled[p]
    BY <1>1, <1>2 DEF Bindings
  <1>4. FilesKnown'
    <2> SUFFICES ASSUME NEW i \in 1 .. Len(ops), ops[i] \in BackedUp
                 PROVE  FileKnown(i)'
      BY DEF FilesKnown
    <2>1. FileKnown(i) /\ ops[i] \in Path
      BY NoCreation DEF FilesKnown
    <2> QED
      BY <1>2, <1>3, <2>1 DEF FileKnown, Exists
  <1>5. DirsKnown'
    <2> SUFFICES ASSUME NEW p \in DeletedDirs
                 PROVE  DirKnown(p)'
      BY DEF DirsKnown
    <2>1. DirKnown(p) /\ p \in Path
      BY NoCreation DEF DirsKnown
    <2> QED
      BY <1>2, <1>3, <2>1 DEF DirKnown, Exists, EmptyDir, Binding
  <1> QED
    BY <1>2, <1>4, <1>5 DEF Known

\* A deleted directory is absent, or is one that the ledger knows: it is never refused.
LEMMA RestoreDirectoryResume ==
  ASSUME Ready, RestoreDirectory, [Next]_vars
  PROVE  ResumeInv'
  <1> USE ReadyFacts DEF Restoring, Applying
  <1>1. pc = "redoDir" /\ UNCHANGED <<src, litter, backupDir>> /\ k <= Len(ops) /\ DirsBack(k)
    BY DEF RestoreDirectory, At, fs, IndexOK, Back
  <1>2. led = disk /\ FilesKnown /\ DirsKnown
    BY <1>1, RestoringFacts
  <1>3. CASE k = 0
    <2>1. UNCHANGED <<disk, led>> /\ pc' = "redoFile" /\ k' = 1
      BY <1>1, <1>3, AtTarget DEF RestoreDirectory, Goto
    <2>2. DirsBack(0)' /\ FilesBack(1)'
      BY <1>1, <1>3, <2>1 DEF DirsBack, DirBack, FilesBack
    <2>3. Back' /\ Ledgers' /\ Said'
      BY <1>2, <2>1, <2>2 DEF Back, Ledgers, Said
    <2> QED
      BY <1>1, <2>1, <2>3, RootedStays, KnownStays DEF ResumeInv
  <1>4. CASE k > 0 /\ Target \notin DeletedDirs
    <2>1. UNCHANGED <<disk, led>> /\ pc' = "redoDir" /\ k' = k - 1
      BY <1>1, <1>4 DEF RestoreDirectory, Goto
    <2>2. DirsBack(k)'
      BY <1>1, <1>4, <2>1 DEF DirsBack, DirBack, Target
    <2>3. Back' /\ Ledgers' /\ Said'
      BY <1>2, <2>1, <2>2 DEF Back, Ledgers, Said
    <2> QED
      BY <1>1, <2>1, <2>3, RootedStays, KnownStays DEF ResumeInv
  <1>5. CASE k > 0 /\ Target \in DeletedDirs
    <2>1. /\ k \in 1 .. Len(ops) /\ Target = ops[k] /\ Target \in Path
          /\ \A i \in 1 .. Len(ops) : ops[i] = Target => i = k
      BY <1>1, <1>5, RestoringFacts
    <2>2. Reachable(Target) /\ DirKnown(Target)
      BY <1>1, <1>2, <1>5, <2>1, AboveBack DEF DirsKnown
    <2>3. CASE ~Exists(Target)
      <3>1. /\ disk' = [disk EXCEPT !.pending = @ \cup {Target}] /\ led' = disk'
            /\ pc' = "makeDir" /\ k' = k
        <4>1. Persist([led EXCEPT !.pending = @ \cup {Target}]) /\ Goto("makeDir", k)
          <5>1. k # 0
            BY <1>5
          <5> QED
            BY <1>5, <2>2, <2>3, <5>1, Zenon DEF RestoreDirectory
        <4> QED
          BY <1>2, <4>1 DEF Persist, Goto
      <3>2. Known'
        BY <1>1, <1>2, <2>1, <2>3, <3>1, MarkKnown
      <3>3. disk'.pending = disk.pending \cup {Target}
        BY <2>1, <3>1, LedgerFields
      <3>4. DirsBack(k)'
        BY <1>1, <2>1, <3>1, <3>3 DEF DirsBack, DirBack
      <3>5. Target' = Target /\ ~Exists(Target)' /\ Reachable(Target)'
        BY <1>1, <2>2, <2>3, <3>1 DEF Target, Exists, Reachable
      <3>6. Back' /\ Ledgers' /\ Said'
        BY <1>5, <3>1, <3>3, <3>4, <3>5 DEF Back, Ledgers, Said
      <3> QED
        BY <1>1, <3>2, <3>6, RootedStays DEF ResumeInv
    <2>4a. CASE Exists(Target) /\ src[Target].mode # "given"
      <3>1. src[Target].data = "dir" /\ Target \in disk.pending
        BY <1>5, <2>2, <2>4a DEF DirKnown, Exists, Modes
      <3>2. pc' = "idle" /\ report' = "uncertain" /\ UNCHANGED disk
        BY <1>5, <2>2, <2>4a DEF RestoreDirectory, Return
      <3>3. HalfMade'
        BY <1>1, <1>5, <2>4a, <3>1, <3>2 DEF HalfMade
      <3>4. Back' /\ Ledgers' /\ Said'
        BY <3>2, <3>3 DEF Back, Ledgers, Said
      <3> QED
        BY <1>1, <3>2, <3>4, RootedStays, KnownStays DEF ResumeInv
    <2>4. CASE Exists(Target) /\ src[Target].mode = "given"
      <3>1. src[Target].data = "dir"
        BY <2>2, <2>4 DEF DirKnown, Exists
      <3>2. IF Target \in led.pending THEN EmptyDir(Target)
            ELSE src[Target].ino \in {led.prior[Target][1], led.rolled[Target][1]}
        BY <1>2, <2>2, <2>4 DEF DirKnown
      <3>3. /\ pc' = "redoDir" /\ k' = k - 1
            /\ IF Target \in led.pending
               THEN Persist([led EXCEPT !.pending = @ \ {Target},
                                        !.rolled[Target] = Binding(src[Target])])
               ELSE UNCHANGED <<disk, led>>
        BY <1>1, <1>5, <2>2, <2>4, <3>1, <3>2 DEF RestoreDirectory, Goto
      <3>4. /\ Known' /\ led' = disk' /\ disk'.pending = disk.pending \ {Target}
        <4>1. CASE Target \in disk.pending
          BY <1>1, <1>2, <2>1, <3>3, <4>1, UnmarkKnown DEF Persist
        <4>2. CASE Target \notin disk.pending
          BY <1>1, <1>2, <3>3, <4>2, KnownStays
        <4> QED
          BY <4>1, <4>2
      <3>5. DirsBack(k)'
        BY <1>1, <2>1, <3>1, <3>3, <3>4 DEF DirsBack, DirBack
      <3>6. Back' /\ Ledgers' /\ Said'
        BY <3>3, <3>4, <3>5 DEF Back, Ledgers, Said
      <3> QED
        BY <1>1, <3>4, <3>6, RootedStays DEF ResumeInv
    <2> QED
      BY <2>3, <2>4, <2>4a
  <1> QED
    BY <1>3, <1>4, <1>5

\* The directory is made empty: nothing was left below it.
LEMMA MakeDirectoryResume ==
  ASSUME Ready, MakeDirectory, [Next]_vars
  PROVE  ResumeInv'
  <1> USE ReadyFacts DEF Restoring, Applying
  <1>1. /\ pc = "makeDir" /\ k \in 1 .. Len(ops) /\ DirsBack(k) /\ Target \in DeletedDirs
        /\ ~Exists(Target) /\ Reachable(Target) /\ Target \in disk.pending
    BY DEF MakeDirectory, At, Back, IndexOK, AtOperation
  <1>2. /\ led = disk /\ FilesKnown /\ DirsKnown /\ Target = ops[k] /\ Target \in Path
        /\ \A i \in 1 .. Len(ops) : ops[i] = Target => i = k
    BY <1>1, RestoringFacts
  <1>3a. PICK m \in {"given", "private"} : src' = Linked(src, Target, Fresh("dir", m))
    BY <1>1 DEF MakeDirectory
  <1>3. /\ src' = Linked(src, Target, Fresh("dir", m))
        /\ UNCHANGED <<litter, disk, backupDir, led, k>> /\ pc' = "modeDir"
    BY <1>1, <1>3a DEF MakeDirectory, Goto, job
  <1>4. Fresh("dir", m) \in Entry
    BY EntryType DEF TypeInv, TypeOK, Shape
  <1>5. /\ src'[Target].data = "dir"
        /\ \A q \in Path : q # Target => src'[q].data = src[q].data /\ src'[q].ino = src[q].ino
        /\ \A q \in BackedUp : q # Target => src'[q] = src[q]
    BY <1>1, <1>3, <1>4, LinkedFacts DEF Fresh
  <1>6. Rooted' /\ EmptyDir(Target)'
    <2>1. \A p \in Path : Anc[p] \subseteq Path /\ p \notin Anc[p]
      BY ConstantsAssumption
    <2>2. Target' = Target
      BY <1>3 DEF Target
    <2>3. ASSUME NEW p \in Path, Target \in Anc[p] PROVE ~Exists(p) /\ p \notin litter
      BY <1>1, <2>3 DEF Rooted, Exists, Reachable
    <2>4. EmptyDir(Target)'
      <3>1. ASSUME NEW p \in Path, Target \in Anc[p] PROVE ~Exists(p)'
        BY <1>5, <2>1, <2>3, <3>1 DEF Exists
      <3> QED
        BY <1>3, <2>2, <2>3, <3>1 DEF EmptyDir
    <2>5. Rooted'
      BY <1>1, <1>2, <1>3, <1>5, <2>1 DEF Rooted, Exists, Reachable
    <2> QED
      BY <2>4, <2>5
  <1>7. FilesKnown'
    <2> SUFFICES ASSUME NEW i \in 1 .. Len(ops), ops[i] \in BackedUp
                 PROVE  FileKnown(i)'
      BY DEF FilesKnown
    <2>1. FileKnown(i) /\ ops[i] # Target
      BY <1>1, <1>2, NoCreation DEF FilesKnown
    <2>2. src'[ops[i]] = src[ops[i]]
      BY <1>5, <2>1
    <2> QED
      BY <1>3, <2>1, <2>2 DEF FileKnown, Exists
  <1>8. DirsKnown'
    <2> SUFFICES ASSUME NEW p \in DeletedDirs
                 PROVE  DirKnown(p)'
      BY DEF DirsKnown
    <2>1. p \in Path /\ DirKnown(p)
      BY <1>2, NoCreation DEF DirsKnown
    <2>2. CASE p = Target
      <3>1. Target' = Target
        BY <1>3 DEF Target
      <3>2. EmptyDir(p)'
        BY <1>6, <2>2, <3>1 DEF EmptyDir, Exists
      <3> QED
        BY <1>1, <1>3, <1>5, <2>2, <3>2 DEF DirKnown, Exists
    <2>3. CASE p # Target
      <3>1. src'[p].data = src[p].data /\ src'[p].ino = src[p].ino
        BY <1>5, <2>1, <2>3
      <3>2. CASE p \in Anc[Target]
        <4>1. p \notin disk.pending
          BY <1>1, <3>2, AboveBack DEF DirBack
        <4> QED
          BY <1>3, <2>1, <3>1, <4>1 DEF DirKnown, Exists
      <3>3. CASE p \notin Anc[Target]
        <4>1. \A q \in Path : p \in Anc[q] => q # Target
          BY <3>3
        <4>2. EmptyDir(p) => EmptyDir(p)'
          BY <1>3, <1>5, <4>1 DEF EmptyDir, Exists
        <4> QED
          BY <1>3, <2>1, <3>1, <4>2 DEF DirKnown, Exists
      <3> QED
        BY <3>2, <3>3
    <2> QED
      BY <2>2, <2>3
  <1>9. Back' /\ Said'
    <2>1. DirsBack(k)'
      BY <1>1, <1>2, <1>3, <1>5, Places DEF DirsBack, DirBack
    <2>2. Target' = Target
      BY <1>3 DEF Target
    <2>3. src'[Target'].data = "dir" /\ Target' \in DeletedDirs'
      BY <1>1, <1>5, <2>2
    <2> QED
      BY <1>3, <2>1, <2>3 DEF Back, Said
  <1>10. Ledgers'
    BY <1>2, <1>3 DEF Ledgers
  <1> QED
    BY <1>6, <1>7, <1>8, <1>9, <1>10 DEF ResumeInv, Known

\* The directory gets its mode and stays what it is.
LEMMA ModeDirectoryResume ==
  ASSUME Ready, ModeDirectory, [Next]_vars
  PROVE  ResumeInv'
  <1> USE ReadyFacts DEF Restoring, Applying
  <1>1. /\ pc = "modeDir" /\ k \in 1 .. Len(ops) /\ DirsBack(k) /\ Target \in DeletedDirs
        /\ src[Target].data = "dir" /\ UNCHANGED <<litter, disk, backupDir, led, k>>
        /\ pc' = "madeDir"
    BY DEF ModeDirectory, At, Goto, Back, IndexOK, AtOperation, job
  <1>2. led = disk /\ FilesKnown /\ DirsKnown /\ Target \in Path
    BY <1>1, RestoringFacts
  <1>3. /\ \A q \in Path : src'[q].data = src[q].data /\ src'[q].ino = src[q].ino
        /\ \A q \in Path : q # Target => src'[q] = src[q]
        /\ src'[Target].mode = "given"
    BY <1>2 DEF ModeDirectory, Entry
  <1>4. \A q \in Path : Anc[q] \subseteq Path
    BY ConstantsAssumption
  <1>5. Rooted'
    BY <1>1, <1>3, <1>4 DEF Rooted, Exists, Reachable
  <1>6. FilesKnown'
    <2> SUFFICES ASSUME NEW i \in 1 .. Len(ops), ops[i] \in BackedUp
                 PROVE  FileKnown(i)'
      BY DEF FilesKnown
    <2>1. FileKnown(i) /\ ops[i] # Target /\ ops[i] \in Path
      BY <1>1, <1>2, NoCreation DEF FilesKnown
    <2>2. src'[ops[i]] = src[ops[i]]
      BY <1>3, <2>1
    <2> QED
      BY <1>1, <2>1, <2>2 DEF FileKnown, Exists
  <1>7. DirsKnown'
    BY <1>1, <1>2, <1>3, NoCreation DEF DirsKnown, DirKnown, EmptyDir, Exists
  <1>8. DirsBack(k)' /\ Target' = Target
    BY <1>1, <1>3, Places, NoCreation DEF DirsBack, DirBack, Target
  <1>9. Back' /\ Said'
    BY <1>1, <1>2, <1>3, <1>8 DEF Back, Said
  <1>10. Ledgers'
    BY <1>1, <1>2 DEF Ledgers
  <1> QED
    BY <1>5, <1>6, <1>7, <1>9, <1>10 DEF ResumeInv, Known

\* A recreated directory is recorded as such.
LEMMA MadeDirectoryResume ==
  ASSUME Ready, MadeDirectory, [Next]_vars
  PROVE  ResumeInv'
  <1> USE ReadyFacts DEF Restoring, Applying
  <1>1. /\ pc = "madeDir" /\ k \in 1 .. Len(ops) /\ DirsBack(k) /\ Target \in DeletedDirs
        /\ src[Target].data = "dir" /\ UNCHANGED <<src, litter, backupDir>>
    BY DEF MadeDirectory, At, Back, IndexOK, AtOperation, fs
  <1>2. /\ led = disk /\ FilesKnown /\ DirsKnown /\ Target = ops[k] /\ Target \in Path
        /\ \A i \in 1 .. Len(ops) : ops[i] = Target => i = k
    BY <1>1, RestoringFacts
  <1>3. /\ disk' = [disk EXCEPT !.pending = @ \ {Target}, !.rolled[Target] = Binding(src[Target])]
        /\ led' = disk' /\ pc' = "redoDir" /\ k' = k - 1
    BY <1>2 DEF MadeDirectory, Persist, Goto
  <1>4. Known' /\ disk'.pending = disk.pending \ {Target}
    BY <1>1, <1>2, <1>3, UnmarkKnown
  <1>5. DirsBack(k)'
    BY <1>1, <1>2, <1>3, <1>4 DEF DirsBack, DirBack
  <1>6. Back' /\ Ledgers' /\ Said'
    BY <1>3, <1>4, <1>5 DEF Back, Ledgers, Said
  <1> QED
    BY <1>1, <1>4, <1>6, RootedStays DEF ResumeInv

\* Every file to restore is one that the ledger knows, with its directories back.
LEMMA RestoreFileResume ==
  ASSUME Ready, RestoreFile, [Next]_vars
  PROVE  ResumeInv'
  <1> USE ReadyFacts DEF Restoring, Applying
  <1>1. /\ pc = "redoFile" /\ UNCHANGED <<src, litter, backupDir>> /\ k \in 1 .. Len(ops) + 1
        /\ DirsBack(0) /\ FilesBack(k)
    BY DEF RestoreFile, At, fs, IndexOK, Back
  <1>2. led = disk /\ FilesKnown /\ DirsKnown /\ bfiles = BackedUp
    BY <1>1, RestoringFacts
  <1>3. CASE k > Len(ops)
    <2>1. UNCHANGED <<disk, led>> /\ pc' = "verify" /\ k = Len(ops) + 1
      BY <1>1, <1>3 DEF RestoreFile, Goto
    <2>2. DirsBack(0)' /\ FilesBack(Len(ops) + 1)'
      BY <1>1, <2>1 DEF DirsBack, DirBack, FilesBack
    <2>3. Back' /\ Ledgers' /\ Said'
      BY <1>2, <2>1, <2>2 DEF Back, Ledgers, Said
    <2> QED
      BY <1>1, <2>1, <2>3, RootedStays, KnownStays DEF ResumeInv
  <1>4. CASE k <= Len(ops) /\ Target \notin BackedUp
    <2>1. UNCHANGED <<disk, led>> /\ pc' = "redoFile" /\ k' = k + 1
      BY <1>1, <1>4 DEF RestoreFile, Goto
    <2>2. DirsBack(0)' /\ FilesBack(k)'
      BY <1>1, <1>4, <2>1 DEF DirsBack, DirBack, FilesBack, Target
    <2>3. Back' /\ Ledgers' /\ Said'
      BY <1>2, <2>1, <2>2 DEF Back, Ledgers, Said
    <2> QED
      BY <1>1, <2>1, <2>3, RootedStays, KnownStays DEF ResumeInv
  <1>5. CASE k <= Len(ops) /\ Target \in BackedUp
    <2>1. k \in 1 .. Len(ops) /\ Target = ops[k] /\ Target \in Path /\ Target \in Changed
      BY <1>1, <1>5, RestoringFacts
    <2>2. Reachable(Target) /\ Target \notin DeletedDirs
      BY <1>1, <1>5, <2>1, AllBack, NoCreation
    <2>3. FileKnown(k)
      BY <1>2, <1>5, <2>1 DEF FilesKnown
    <2>4. MayRestore(Target)
      BY <1>2, <2>1, <2>3 DEF MayRestore, FileKnown, Exists
    <2>5. /\ disk' = [disk EXCEPT !.pending = @ \cup {Target}] /\ led' = disk'
          /\ pc' = "backTemp" /\ k' = k
      <3>1. Persist([led EXCEPT !.pending = @ \cup {Target}]) /\ Goto("backTemp", k)
        <4>1. ~(k > Len(ops))
          BY <2>1
        <4> QED
          BY <1>2, <1>5, <2>2, <2>4, <4>1, Zenon DEF RestoreFile
      <3> QED
        BY <1>2, <3>1 DEF Persist, Goto
    <2>6. Known'
      BY <1>1, <1>2, <2>1, <2>2, <2>5, MarkKnown
    <2>7. disk'.pending = disk.pending \cup {Target}
      BY <2>1, <2>5, LedgerFields
    <2>8. DirsBack(0)' /\ FilesBack(k)' /\ Reachable(Target)' /\ Target' = Target
      BY <1>1, <2>2, <2>5, <2>7 DEF DirsBack, DirBack, FilesBack, Reachable, Target
    <2>9. Back' /\ Ledgers' /\ Said'
      BY <1>5, <2>5, <2>7, <2>8 DEF Back, Ledgers, Said
    <2> QED
      BY <1>1, <2>6, <2>9, RootedStays DEF ResumeInv
  <1> QED
    BY <1>1, <1>3, <1>4, <1>5

\* The temporary file changes the times of its directory, and nothing else.
LEMMA RestoreFileTempResume ==
  ASSUME Ready, RestoreFileTemp, [Next]_vars
  PROVE  ResumeInv'
  <1> USE ReadyFacts DEF Restoring, Applying
  <1>1. /\ pc = "backTemp" /\ k \in 1 .. Len(ops) /\ DirsBack(0) /\ FilesBack(k)
        /\ Target \in BackedUp /\ Reachable(Target) /\ Target \in disk.pending
    BY DEF RestoreFileTemp, At, Back, IndexOK, AtOperation
  <1>2. led = disk /\ FilesKnown /\ DirsKnown /\ Target \in Path
    BY <1>1, RestoringFacts
  <1>3. /\ src' = Linked(src, Target, src[Target])
        /\ UNCHANGED <<litter, disk, backupDir, led, k>> /\ pc' = "backSwap" /\ Target' = Target
    BY <1>1 DEF RestoreFileTemp, Goto, job, Target
  <1>4. /\ \A q \in Path : src'[q].data = src[q].data /\ src'[q].ino = src[q].ino
        /\ \A q \in BackedUp : src'[q] = src[q]
    <2>1. src[Target] \in Entry
      BY <1>2
    <2> QED
      BY <1>1, <1>2, <1>3, <2>1, LinkedFacts
  <1>5. Rooted' /\ Reachable(Target)'
    <2>1. \A p \in Path : Anc[p] \subseteq Path
      BY ConstantsAssumption
    <2> QED
      BY <1>1, <1>2, <1>3, <1>4, <2>1 DEF Rooted, Exists, Reachable
  <1>6. FilesKnown'
    BY <1>2, <1>3, <1>4 DEF FilesKnown, FileKnown, Exists
  <1>7. DirsKnown'
    <2>1. \A p \in Path : Exists(p)' = Exists(p)
      BY <1>4 DEF Exists
    <2>2. \A p \in Path : EmptyDir(p)' = EmptyDir(p)
      BY <1>3, <2>1 DEF EmptyDir
    <2> QED
      BY <1>2, <1>3, <1>4, <2>1, <2>2, NoCreation DEF DirsKnown, DirKnown
  <1>8. DirsBack(0)' /\ FilesBack(k)'
    BY <1>1, <1>3, <1>4, Places DEF DirsBack, DirBack, FilesBack
  <1>9. Back' /\ Ledgers' /\ Said'
    BY <1>1, <1>2, <1>3, <1>5, <1>8 DEF Back, Ledgers, Said
  <1> QED
    BY <1>5, <1>6, <1>7, <1>9 DEF ResumeInv, Known

\* The file takes its staged content, which its mark stands for.
LEMMA RestoreFileSwapResume ==
  ASSUME Ready, RestoreFileSwap, [Next]_vars
  PROVE  ResumeInv'
  <1> USE ReadyFacts DEF Restoring, Applying
  <1>1. /\ pc = "backSwap" /\ k \in 1 .. Len(ops) /\ DirsBack(0) /\ FilesBack(k)
        /\ Target \in BackedUp /\ Reachable(Target) /\ Target \in disk.pending
    BY DEF RestoreFileSwap, At, Back, IndexOK, AtOperation
  <1>2. led = disk /\ FilesKnown /\ DirsKnown /\ Target \in Path /\ Target = ops[k]
        /\ \A i \in 1 .. Len(ops) : ops[i] = Target => i = k
    BY <1>1, RestoringFacts
  <1>3. /\ src' = Linked(src, Target, Fresh(before[Target], "given"))
        /\ UNCHANGED <<litter, disk, backupDir, led, k>> /\ pc' = "backDone" /\ Target' = Target
    BY <1>1 DEF RestoreFileSwap, Goto, job, Target
  <1>4. Fresh(before[Target], "given") \in Entry
    BY <1>1, EntryType, TargetType DEF TypeInv, TypeOK
  <1>5. /\ src'[Target].data = before[Target] /\ before[Target] \notin {"none", "dir"}
        /\ \A q \in Path : q # Target => src'[q].data = src[q].data /\ src'[q].ino = src[q].ino
        /\ \A q \in BackedUp : q # Target => src'[q] = src[q]
    BY <1>1, <1>2, <1>3, <1>4, LinkedFacts, NoCreation DEF Fresh
  <1>6. src[Target].data # "dir"
    BY <1>1, <1>2 DEF FilesKnown, FileKnown
  <1>7. Rooted'
    <2>1. \A p \in Path : Anc[p] \subseteq Path /\ p \notin Anc[p]
      BY ConstantsAssumption
    <2> QED
      BY <1>1, <1>2, <1>3, <1>5, <1>6, <2>1 DEF Rooted, Exists, Reachable
  <1>8. FilesKnown'
    <2> SUFFICES ASSUME NEW i \in 1 .. Len(ops), ops[i] \in BackedUp
                 PROVE  FileKnown(i)'
      BY DEF FilesKnown
    <2>1. FileKnown(i)
      BY <1>2 DEF FilesKnown
    <2>2. CASE ops[i] = Target
      BY <1>1, <1>3, <1>5, <2>2 DEF FileKnown
    <2>3. CASE ops[i] # Target
      <3>1. src'[ops[i]] = src[ops[i]]
        BY <1>5, <2>3
      <3> QED
        BY <1>3, <2>1, <3>1 DEF FileKnown, Exists
    <2> QED
      BY <2>2, <2>3
  <1>9. DirsKnown'
    <2> SUFFICES ASSUME NEW p \in DeletedDirs
                 PROVE  DirKnown(p)'
      BY DEF DirsKnown
    <2>1. DirKnown(p) /\ p \in Path /\ p # Target /\ p \notin disk.pending
      BY <1>1, <1>2, AllBack, NoCreation DEF DirsKnown, DirBack
    <2>2. src'[p].data = src[p].data /\ src'[p].ino = src[p].ino
      BY <1>5, <2>1
    <2> QED
      BY <1>3, <2>1, <2>2 DEF DirKnown, Exists
  <1>10. DirsBack(0)' /\ FilesBack(k)'
    <2>1. \A i \in 1 .. Len(ops) : ops[i] \in DeletedDirs => ops[i] # Target
      BY <1>1, NoCreation
    <2> QED
      BY <1>1, <1>2, <1>3, <1>5, <2>1, Places DEF DirsBack, DirBack, FilesBack
  <1>11. Back' /\ Ledgers' /\ Said'
    BY <1>1, <1>2, <1>3, <1>5, <1>10 DEF Back, Ledgers, Said
  <1> QED
    BY <1>7, <1>8, <1>9, <1>11 DEF ResumeInv, Known

\* A restored file is recorded as such.
LEMMA RestoreFileDoneResume ==
  ASSUME Ready, RestoreFileDone, [Next]_vars
  PROVE  ResumeInv'
  <1> USE ReadyFacts DEF Restoring, Applying
  <1>1. /\ pc = "backDone" /\ k \in 1 .. Len(ops) /\ DirsBack(0) /\ FilesBack(k)
        /\ Target \in BackedUp /\ src[Target].data = before[Target]
        /\ UNCHANGED <<src, litter, backupDir>>
    BY DEF RestoreFileDone, At, Back, IndexOK, AtOperation, fs
  <1>2. led = disk /\ FilesKnown /\ DirsKnown /\ Target \in Path /\ Target = ops[k]
        /\ \A i \in 1 .. Len(ops) : ops[i] = Target => i = k
    BY <1>1, RestoringFacts
  <1>3. /\ disk' = [disk EXCEPT !.pending = @ \ {Target}, !.rolled[Target] = Binding(src[Target])]
        /\ led' = disk' /\ pc' = "redoFile" /\ k' = k + 1
    BY <1>2 DEF RestoreFileDone, Persist, Goto
  <1>4. Known' /\ disk'.pending = disk.pending \ {Target}
    <2>1. Target \notin DeletedDirs
      BY <1>1, NoCreation
    <2> QED
      BY <1>1, <1>2, <1>3, <2>1, UnmarkKnown
  <1>5. DirsBack(0)' /\ FilesBack(k)'
    BY <1>1, <1>2, <1>3, <1>4 DEF DirsBack, DirBack, FilesBack
  <1>6. Back' /\ Ledgers' /\ Said'
    BY <1>3, <1>4, <1>5 DEF Back, Ledgers, Said
  <1> QED
    BY <1>1, <1>4, <1>6, RootedStays DEF ResumeInv

\* Every manifest path is restored when the recovery comes to verify it.
LEMMA VerifyResume ==
  ASSUME Ready, VerifyRollback, [Next]_vars
  PROVE  ResumeInv'
  <1> USE ReadyFacts DEF Restoring, Applying
  <1>1. /\ pc = "verify" /\ UNCHANGED <<src, litter, backupDir>> /\ DirsBack(0)
        /\ FilesBack(Len(ops) + 1)
    BY DEF VerifyRollback, At, fs, Back
  <1>2. led = disk /\ DirsKnown
    BY <1>1, RestoringFacts
  <1>3. ASSUME NEW i \in 1 .. Len(ops) PROVE RestoredOK(ops[i])
    <2>1. ops[i] \in Changed /\ Reachable(ops[i])
      BY <1>1, AllBack, Places
    <2>2. CASE ops[i] \in BackedUp
      BY <1>1, <2>1, <2>2, NoCreation DEF FilesBack, RestoredOK
    <2>3. CASE ops[i] \in DeletedDirs
      <3>1. DirBack(ops[i]) /\ DirKnown(ops[i]) /\ before[ops[i]] = "dir"
        BY <1>1, <1>2, <2>3, AllBack, NoCreation DEF DirsKnown
      <3>2. src[ops[i]].mode = "given"
        BY <2>3, <3>1 DEF Modes, DirBack
      <3> QED
        BY <1>2, <2>1, <3>1, <3>2 DEF RestoredOK, DirBack, DirKnown, Exists
    <2> QED
      BY <2>1, <2>2, <2>3, NoCreation
  <1>4. pc' = "finishFiles" /\ disk' = [disk EXCEPT !.status = "rolled-back-verified", !.active = 0]
    BY <1>2, <1>3 DEF VerifyRollback, Persist, Goto
  <1>5. Known'
    BY <1>4 DEF Known, Decided, Ledger
  <1>6. Back' /\ Ledgers' /\ Said'
    BY <1>4 DEF Back, Ledgers, Said
  <1> QED
    BY <1>1, <1>5, <1>6, RootedStays DEF ResumeInv

\* What a step makes of the tree: one path is removed or made anew, and what the others
\* hold stays.
LEMMA TreeMoves ==
  ASSUME TypeInv, [Next]_vars, src' # src
  PROVE  /\ clock' = clock + 1 /\ UNCHANGED <<led, disk>>
         /\ \A p \in Path : \/ src'[p].data = src[p].data /\ src'[p].ino = src[p].ino
                            \/ src'[p].data = "none" /\ src'[p].ino = 0
                            \/ src'[p].ino = clock
<1> DEFINE Moved == \A p \in Path : \/ src'[p].data = src[p].data /\ src'[p].ino = src[p].ino
                                    \/ src'[p].data = "none" /\ src'[p].ino = 0
                                    \/ src'[p].ino = clock
<1>1. src \in [Path -> Entry] /\ clock \in Nat /\ IndexOK /\ Len(ops) \in Nat /\ k \in Nat
  BY DEF TypeInv, TypeOK
<1>2. ASSUME NEW s \in [Path -> Entry], NEW t, NEW e \in Entry,
             \A p \in Path : s[p].data = src[p].data /\ s[p].ino = src[p].ino,
             \/ t \in Path /\ e = src[t]
             \/ e = NoEntry
             \/ e.ino = clock,
             src' = Linked(s, t, e)
      PROVE  Moved
  BY <1>1, <1>2 DEF Linked, NoEntry, Entry
<1>3. CASE UndoCreate
  <2>1. src' = Linked(src, Target, NoEntry) /\ Tick /\ UNCHANGED <<job, led>>
    BY <1>3 DEF UndoCreate, Uncertain, fs
  <2> QED
    BY <1>1, <1>2, <2>1, EntryType DEF Tick, job
<1>4. CASE MakeDirectory
  <2>1. PICK m \in {"given", "private"} : src' = Linked(src, Target, Fresh("dir", m))
    BY <1>4 DEF MakeDirectory, Uncertain, fs
  <2>2. Tick /\ UNCHANGED <<job, led>>
    BY <1>4 DEF MakeDirectory, Uncertain, fs
  <2> QED
    BY <1>1, <1>2, <2>1, <2>2, EntryType DEF Tick, job, Fresh, Shape
<1>4a. CASE ModeDirectory
  <2>1. Moved
    BY <1>1, <1>4a DEF ModeDirectory, Entry
  <2> QED
    BY <1>4a, <2>1 DEF ModeDirectory, Tick, job
<1>5. CASE RestoreFileTemp
  <2>1. Target \in Path
    BY <1>5, TargetType DEF RestoreFileTemp, At, IndexOK, AtOperation, TypeInv
  <2>2. src[Target] \in Entry
    BY <1>1, <2>1
  <2> QED
    BY <1>1, <1>2, <1>5, <2>1, <2>2 DEF RestoreFileTemp, Tick, job
<1>6. CASE RestoreFileSwap
  <2>1. before[Target] \in Shape
    BY <1>6, TargetType DEF RestoreFileSwap, At, IndexOK, AtOperation, TypeInv
  <2> QED
    BY <1>1, <1>2, <1>6, <2>1, EntryType DEF RestoreFileSwap, Tick, job, Fresh
<1>7. CASE Apply
  <2>1. PICK s \in {src, Private(src, Target)} : 
          \/ src' = s
          \/ src' = Linked(s, Target, NoEntry)
          \/ src' = Linked(s, Target, Fresh("dir", "private"))
    BY <1>7 DEF Apply, RequireRollback, fs
  <2>2. s \in [Path -> Entry] /\ \A p \in Path : s[p].data = src[p].data /\ s[p].ino = src[p].ino
    BY <1>1, <2>1, PrivateType, PrivateData, PrivateRest
  <2>3. Moved
    <3>1. CASE src' = s
      BY <2>2, <3>1
    <3>2. CASE src' = Linked(s, Target, NoEntry)
      BY <1>2, <2>2, <3>2, EntryType
    <3>3. CASE src' = Linked(s, Target, Fresh("dir", "private"))
      BY <1>1, <1>2, <2>2, <3>3, EntryType DEF Fresh, Shape
    <3> QED
      BY <2>1, <3>1, <3>2, <3>3
  <2>4. Tick /\ UNCHANGED <<led, disk>>
    BY <1>7 DEF Apply, RequireRollback, fs, job
  <2> QED
    BY <2>3, <2>4 DEF Tick
<1>8. CASE ApplySwap
  <2>1. after[Target] \in Shape
    BY <1>8, TargetType DEF ApplySwap, At, IndexOK, AtOperation, TypeInv
  <2> QED
    BY <1>1, <1>2, <1>8, <2>1, EntryType DEF ApplySwap, Tick, job, Fresh
<1>9. CASE Drift
  <2>1. PICK p \in Path, e \in {NoEntry, Fresh(Foreign, "given")} : src' = Linked(src, p, e)
    BY <1>9 DEF Drift
  <2>2. Foreign \in Shape
    BY ConstantsAssumption DEF Shape
  <2>3. Moved
    BY <1>1, <1>2, <2>1, <2>2, EntryType DEF Fresh
  <2> QED
    BY <1>9, <2>3 DEF Drift, Tick, job, call
<1>10. UndoCreate \/ MakeDirectory \/ ModeDirectory \/ RestoreFileTemp \/ RestoreFileSwap \/ Apply \/ ApplySwap
       \/ Drift
  BY DEF Next, vars, fs, Step, StartRecover, StartReconcile, Crash, Fault, Recover,
     UndoCreateDone, RestoreDirectory, MadeDirectory, RestoreFile, RestoreFileDone,
     VerifyRollback, FinishFiles, FinishDir, FinishMarker, Begin, Prepare, Publish,
     Announce, Observe, Settle, Require, RequireRollback
<1> QED
  BY <1>3, <1>4, <1>4a, <1>5, <1>6, <1>7, <1>8, <1>9, <1>10

\* Where the tree changes, a deleted directory loses its mode only when it is being made.
LEMMA TreeModes ==
  ASSUME Ready, [Next]_vars, src' # src, ~Drift
  PROVE  Modes'
  <1> USE ReadyFacts DEF Restoring, Applying
  <1>1. UNCHANGED disk
    BY TreeMoves
  <1>2. \A p \in DeletedDirs : p \in Path
    BY NoCreation
  <1>3. ASSUME NEW s \in [Path -> Entry], NEW t, NEW e, src' = Linked(s, t, e),
               \A p \in DeletedDirs : s[p].mode = src[p].mode,
               e.mode = "given" \/ t \notin DeletedDirs \/ (t \in disk.pending /\
                 disk.status \notin Decided \cup {"absent"})
        PROVE  Modes'
    <2>1. ASSUME NEW p \in DeletedDirs, src'[p].mode # "given"
          PROVE  p \in disk.pending /\ disk.status \notin Decided \cup {"absent"}
      <3>1. CASE p = t
        BY <1>2, <1>3, <2>1, <3>1 DEF Linked
      <3>2. CASE p # t
        <4>1. src'[p].mode = s[p].mode
          BY <1>2, <1>3, <2>1, <3>2 DEF Linked, Entry
        <4> QED
          BY <1>3, <2>1, <4>1 DEF Modes
      <3> QED
        BY <3>1, <3>2
    <2> QED
      BY <1>1, <2>1 DEF Modes
  <1>4. CASE UndoCreate
    BY <1>3, <1>4 DEF UndoCreate, Uncertain, fs, NoEntry
  <1>5. CASE MakeDirectory
    <2>1. /\ pc = "makeDir" /\ Target \in disk.pending /\ disk.status = "rollback-restoring"
      BY <1>5 DEF MakeDirectory, At, Back, ControlOK
    <2>2. PICK m \in {"given", "private"} : src' = Linked(src, Target, Fresh("dir", m))
      BY <1>5 DEF MakeDirectory, Uncertain, fs
    <2> QED
      BY <1>3, <2>1, <2>2 DEF Decided
  <1>6. CASE ModeDirectory
    BY <1>1, <1>2, <1>6 DEF ModeDirectory, Modes, Entry
  <1>7. CASE RestoreFileTemp
    <2>1. Target \in BackedUp
      BY <1>7 DEF RestoreFileTemp, At, Back
    <2> QED
      BY <1>3, <1>7, <2>1, NoCreation DEF RestoreFileTemp
  <1>8. CASE RestoreFileSwap
    BY <1>3, <1>8 DEF RestoreFileSwap, Fresh
  <1>9. CASE Apply
    <2>1. /\ k \in 1 .. Len(ops) /\ Target \in Path /\ Target \in Changed
      BY <1>9, AtTarget DEF Apply, At, IndexOK, AtOperation
    <2>2. Op(Target) # "create"
      BY <2>1 DEF Alone
    <2>3. CASE src' = Linked(src, Target, NoEntry)
      BY <1>3, <2>3 DEF NoEntry
    <2>4. CASE src' = Private(src, Target) /\ Op(Target) # "delete"
      <3>1. after[Target] # "none" /\ after \in Trees
        BY <2>1, <2>2, <2>4 DEF Op, TypeInv, TypeOK
      <3>2. \A q \in Anc[Target] : after[q] = "dir"
        BY <2>1, <3>1 DEF Trees, WellFormed
      <3>3. \A q \in DeletedDirs : q \notin Anc[Target]
        BY <3>2, NoCreation
      <3>4. \A q \in DeletedDirs : src'[q] = src[q]
        BY <1>2, <2>1, <2>4, <3>3, PrivateRest
      <3> QED
        BY <1>1, <3>4 DEF Modes
    <2> QED
      BY <1>9, <2>2, <2>3, <2>4 DEF Apply, RequireRollback, fs
  <1>10. CASE ApplySwap
    BY <1>3, <1>10 DEF ApplySwap, Fresh
  <1>11. \/ UndoCreate \/ MakeDirectory \/ ModeDirectory \/ RestoreFileTemp \/ RestoreFileSwap
         \/ Apply \/ ApplySwap
    BY DEF Next, vars, fs, Step, StartRecover, StartReconcile, Crash, Fault, Recover,
       UndoCreateDone, RestoreDirectory, MadeDirectory, RestoreFile, RestoreFileDone,
       VerifyRollback, FinishFiles, FinishDir, FinishMarker, Begin, Prepare, Publish,
       Announce, Observe, Settle, Require, RequireRollback
  <1> QED
    BY <1>4, <1>5, <1>6, <1>7, <1>8, <1>9, <1>10, <1>11

\* Where the marker changes, a mark is cleared only from a directory that has its mode.
LEMMA MarkerModes ==
  ASSUME Ready, [Next]_vars, src' = src
  PROVE  Modes'
  <1> USE ReadyFacts DEF Restoring, Applying
  <1>1. CASE UNCHANGED disk
    BY <1>1 DEF Modes
  <1>2. CASE \A p \in DeletedDirs : src[p].mode = "given"
    BY <1>2 DEF Modes
  <1>3. ASSUME disk.status \in Decided \cup {"absent"} \/ disk.pending = {} PROVE Modes'
    BY <1>2, <1>3 DEF Modes
  <1>4. ASSUME NEW p \in DeletedDirs, src[p].mode # "given"
        PROVE  p \in disk.pending /\ disk.status \notin Decided \cup {"absent"}
    BY <1>4 DEF Modes
  <1>5. CASE Publish
    BY <1>3, <1>5 DEF Publish, At, ControlOK, Preparing
  <1>6. CASE FinishMarker
    BY <1>3, <1>6 DEF FinishMarker, At, ControlOK, Finishing
  <1>7. CASE pc \in Applying
    BY <1>3, <1>7 DEF Ledgers
  <1>8. CASE Recover
    <2>1. CASE UNCHANGED disk
      BY <1>1, <2>1
    <2>2. CASE disk' = [disk EXCEPT !.status = "rollback-restoring"]
      <3>1. disk'.pending = disk.pending /\ disk'.status = "rollback-restoring"
        BY <2>2 DEF Ledger
      <3> QED
        BY <1>4, <3>1 DEF Modes, Decided
    <2> QED
      BY <1>8, <2>1, <2>2 DEF Recover, Persist
  <1>9. CASE pc \in Restoring /\ disk' # disk
    <2>1. led = disk /\ disk.status = "rollback-restoring"
      BY <1>9, RestoringFacts DEF ControlOK
    <2>2. ASSUME NEW D, disk'.pending = D, disk'.status = disk.status,
                 \A p \in disk.pending \cap DeletedDirs : p \in D \/ src[p].mode = "given"
          PROVE  Modes'
      BY <1>4, <2>2 DEF Modes
    <2>3. CASE UndoCreateDone
      BY <2>3 DEF UndoCreateDone, At, Back
    <2>4. CASE RestoreDirectory
      <3>1. k \in 1 .. Len(ops) /\ Target \in Path
        BY <1>9, <2>4, AtTarget DEF RestoreDirectory, At, IndexOK
      <3>2. CASE disk' = [led EXCEPT !.pending = @ \cup {Target}]
        <4>1. disk'.pending = disk.pending \cup {Target} /\ disk'.status = disk.status
          BY <2>1, <3>1, <3>2, LedgerFields
        <4> QED
          BY <2>2, <4>1
      <3>3. CASE /\ disk' = [led EXCEPT !.pending = @ \ {Target},
                                        !.rolled[Target] = Binding(src[Target])]
                 /\ src[Target].mode = "given"
        <4>1. disk'.pending = disk.pending \ {Target} /\ disk'.status = disk.status
          BY <2>1, <3>1, <3>3, LedgerFields
        <4> QED
          BY <2>2, <3>3, <4>1
      <3> QED
        BY <1>9, <2>4, <3>2, <3>3, Zenon DEF RestoreDirectory, Persist
    <2>5. CASE MadeDirectory
      <3>1. k \in 1 .. Len(ops) /\ Target \in Path /\ src[Target].mode = "given"
        BY <2>5, AtTarget DEF MadeDirectory, At, IndexOK, AtOperation, Back
      <3>2. disk'.pending = disk.pending \ {Target} /\ disk'.status = disk.status
        BY <2>1, <2>5, <3>1, LedgerFields DEF MadeDirectory, Persist
      <3> QED
        BY <2>2, <3>1, <3>2
    <2>6. CASE RestoreFile
      <3>1. disk' = [led EXCEPT !.pending = @ \cup {Target}]
        BY <1>9, <2>6 DEF RestoreFile, Persist
      <3>2. disk'.pending = disk.pending \cup {Target} /\ disk'.status = disk.status
        BY <2>1, <3>1 DEF Ledger
      <3> QED
        BY <2>2, <3>2
    <2>7. CASE RestoreFileDone
      <3>1. k \in 1 .. Len(ops) /\ Target \in Path /\ Target \in BackedUp
        BY <2>7, AtTarget DEF RestoreFileDone, At, IndexOK, AtOperation, Back
      <3>2. disk'.pending = disk.pending \ {Target} /\ disk'.status = disk.status
        BY <2>1, <2>7, <3>1, LedgerFields DEF RestoreFileDone, Persist
      <3>3. Target \notin DeletedDirs
        BY <3>1, NoCreation
      <3> QED
        BY <2>2, <3>2, <3>3
    <2>8. CASE VerifyRollback
      <3>1. \A q \in DeletedDirs : DirBack(q)
        BY <2>8, AllBack DEF VerifyRollback, At, Back
      <3> QED
        BY <1>2, <1>4, <3>1 DEF DirBack
    <2>9. \/ UndoCreateDone \/ RestoreDirectory \/ MadeDirectory \/ RestoreFile
          \/ RestoreFileDone \/ VerifyRollback
      BY <1>9 DEF Next, vars, job, Step, StartRecover, StartReconcile, Crash, Fault, Recover, At,
         UndoCreate, MakeDirectory, ModeDirectory, RestoreFileTemp, RestoreFileSwap,
         FinishFiles, FinishDir, FinishMarker, Begin, Prepare, Publish, Announce, Apply,
         ApplySwap, Observe, Settle, Require, Uncertain, Drift
    <2> QED
      BY <2>3, <2>4, <2>5, <2>6, <2>7, <2>8, <2>9
  <1>10. CASE pc \notin Restoring \cup Applying /\ ~Publish /\ ~FinishMarker /\ ~Recover
    <2>1. UNCHANGED disk
      BY <1>10 DEF Next, vars, job, Step, StartRecover, StartReconcile, Crash, Fault, At,
         UndoCreate, UndoCreateDone, RestoreDirectory, MakeDirectory, ModeDirectory,
         MadeDirectory, RestoreFile, RestoreFileTemp, RestoreFileSwap, RestoreFileDone,
         VerifyRollback, FinishFiles, FinishDir, Begin, Prepare, Announce, Apply,
         ApplySwap, Observe, Settle, Require, Uncertain, Drift
    <2> QED
      BY <1>1, <2>1
  <1> QED
    BY <1>1, <1>5, <1>6, <1>7, <1>8, <1>9, <1>10

\* Together: where nothing drifted and nothing failed, ResumeInv is kept.
LEMMA ResumeNext ==
  TypeInv /\ ControlInv /\ TreeInv /\ SameKind /\ (Alone => ResumeInv /\ Modes) /\ [Next]_vars
    => SameKind' /\ (Alone' => ResumeInv' /\ Modes')
<1> SUFFICES ASSUME TypeInv, ControlInv, TreeInv, SameKind, Alone => ResumeInv /\ Modes,
                    [Next]_vars
             PROVE  SameKind' /\ (Alone' => ResumeInv' /\ Modes')
  OBVIOUS
<1>1. UNCHANGED plan /\ Changed' = Changed /\ \A p \in Changed : Op(p)' = Op(p)
  BY StepKeepsPlan, PlanKept DEF Op
<1>2. SameKind'
  BY <1>1, PlanKept DEF SameKind
<1>3. CASE Drift
  <2>1. drifted' # {}
    BY <1>3 DEF Drift
  <2> QED
    BY <1>2, <2>1 DEF Alone
<1>4. CASE Fault
  <2>1. faults \in Nat /\ faults' = faults + 1
    BY <1>4 DEF Fault, TypeInv, TypeOK
  <2>2. faults' # 0
    BY <2>1
  <2> QED
    BY <1>2, <2>2 DEF Alone
<1>5. CASE ~Drift /\ ~Fault
  <2>1. UNCHANGED <<drifted, faults>>
    BY <1>5 DEF Next, vars, budget, Step, StartRecover, StartReconcile, Crash, At,
       Recover, UndoCreate, UndoCreateDone, RestoreDirectory, MakeDirectory, ModeDirectory,
       MadeDirectory, RestoreFile, RestoreFileTemp, RestoreFileSwap, RestoreFileDone,
       VerifyRollback, FinishFiles, FinishDir, FinishMarker, Begin, Prepare, Publish,
       Announce, Apply, ApplySwap, Observe, Settle, Require
  <2>2. Alone' => Alone
    BY <1>1, <2>1 DEF Alone
  <2>3. SUFFICES ASSUME Alone PROVE ResumeInv' /\ Modes'
    BY <1>2, <2>2
  <2>4. Ready
    BY <2>3 DEF Ready
  <2>5. Modes'
    BY <1>5, <2>4, TreeModes, MarkerModes
  <2>6. ResumeInv'
    BY <1>5, <2>4, QuietResume, CrashResume, RecoverResume, MarkerResume, PublishResume,
       AnnounceResume, ApplyResume, SwapResume, SettleResume, RequireResume,
       RestoreDirectoryResume, MakeDirectoryResume, ModeDirectoryResume, MadeDirectoryResume, RestoreFileResume,
       RestoreFileTempResume, RestoreFileSwapResume, RestoreFileDoneResume, VerifyResume
    DEF Next, Step
  <2> QED
    BY <2>5, <2>6
<1> QED
  BY <1>3, <1>4, <1>5

LEMMA ResumeInit == Init => SameKind /\ ResumeInv /\ Modes
<1> SUFFICES ASSUME Init PROVE SameKind /\ ResumeInv /\ Modes
  OBVIOUS
<1>1. \A p \in Path : src[p].data = before[p]
  BY DEF Init, NoEntry
<1>2. Rooted
  BY <1>1, ConstantsAssumption DEF Init, Rooted, Exists, Reachable, Trees, WellFormed
<1>3. Known /\ Back /\ Ledgers /\ Said
  BY DEF Init, Known, Back, Ledgers, Said, NoLedger, Restoring, Applying
<1>4. Modes
  BY DEF Init, Modes, NoEntry, DeletedDirs, Changed
<1> QED
  BY <1>2, <1>3, <1>4 DEF Init, ResumeInv

\* However often a recovery is killed, calling it again gets through: where nothing else
\* fails or writes and nothing was created, it refuses no state it left behind but one, a
\* directory made and not yet given its mode.
THEOREM RollbackResumesHolds == Spec => []RollbackResumes
<1>1. Init => SameKind /\ (Alone => ResumeInv /\ Modes)
  BY ResumeInit
<1>2. Spec => [](SameKind /\ (Alone => ResumeInv /\ Modes))
  BY <1>1, SafeSpec, ResumeNext, PTL DEF Spec
<1>3. TypeInv /\ (Alone => ResumeInv /\ Modes) => RollbackResumes
  BY DEF Alone, ResumeInv, Said, RollbackResumes
<1> QED
  BY <1>2, <1>3, SafeSpec, PTL
-----------------------------------------------------------------------------
(* What another process wrote.  Its entry is younger than every identity   *)
(* that was bound before it, and the window in which a file is replaced    *)
(* opens only on an entry that was bound or that the ledger recorded.      *)

ForeignInv ==
  /\ clock > 0
  /\ \A p \in Path : led.prior[p][1] < clock /\ disk.prior[p][1] < clock /\ src[p].ino < clock
  /\ \A p \in Path : src[p].data = Foreign =>
       src[p].ino \notin {0, led.prior[p][1], disk.prior[p][1]}
  /\ pc = "swap" => src[Target].data # Foreign
  /\ pc \in {"backTemp", "backSwap"} => src[Target].data # Foreign \/ Recorded(Target)

\* The prior identities change only where they are first bound, and where a directory
\* keeps its inode.
LEMMA PriorMoves ==
  ASSUME TypeInv, [Next]_vars, ~Prepare, ~Settle
  PROVE  /\ led'.prior \in {led.prior, disk.prior, Unbound}
         /\ disk'.prior \in {led.prior, disk.prior, Unbound}
<1>1. led \in Ledger /\ disk \in Ledger /\ NoLedger.prior = Unbound /\ IndexOK /\ Len(ops) \in Nat
      /\ k \in 0 .. Len(ops) + 1
  BY DEF TypeInv, TypeOK, NoLedger
<1>2. /\ \A x \in Statuses : [disk EXCEPT !.status = x].prior = disk.prior
      /\ \A x \in Statuses : [led EXCEPT !.status = x].prior = led.prior
      /\ \A D : [led EXCEPT !.pending = D].prior = led.prior
      /\ \A D : [led EXCEPT !.post = D].prior = led.prior
      /\ \A D : \A b : \A p \in Path : [led EXCEPT !.pending = D, !.rolled[p] = b].prior = led.prior
      /\ \A b : \A p \in Path : [led EXCEPT !.post[p] = b].prior = led.prior
      /\ \A x \in Statuses : \A y : [led EXCEPT !.status = x, !.active = y].prior = led.prior
  BY <1>1 DEF Ledger
<1>3. CASE led' \in {led, disk, NoLedger} /\ disk' \in {led, disk, NoLedger}
  BY <1>1, <1>3
<1>4. CASE Recover
  BY <1>1, <1>2, <1>4 DEF Recover, AfterRecovery, Return, Goto, Persist, Statuses
<1>5. CASE UndoCreateDone
  <2>1. PICK D : \/ led' = NoLedger /\ disk' = disk
                 \/ led' = [led EXCEPT !.post = D] /\ disk' = led'
    BY <1>5 DEF UndoCreateDone, Return, Persist
  <2> QED
    BY <1>1, <1>2, <2>1
<1>6. CASE RestoreDirectory
  <2>1. CASE UNCHANGED <<led, disk>>
    BY <2>1
  <2>2. CASE Return("uncertain") /\ UNCHANGED disk
    BY <1>1, <2>2 DEF Return
  <2>3. CASE Persist([led EXCEPT !.pending = @ \cup {Target}])
    BY <1>1, <2>3 DEF Persist, Ledger
  <2>4. CASE Persist([led EXCEPT !.pending = @ \ {Target}, !.rolled[Target] = Binding(src[Target])])
    BY <1>1, <2>4 DEF Persist, Ledger
  <2> QED
    BY <1>6, <2>1, <2>2, <2>3, <2>4, Zenon DEF RestoreDirectory
<1>7. CASE MadeDirectory
  <2>1. Target \in Path
    BY <1>1, <1>7, TargetType DEF MadeDirectory, At, IndexOK, AtOperation, TypeInv
  <2> QED
    BY <1>1, <1>2, <1>7, <2>1 DEF MadeDirectory, Persist
<1>8. CASE RestoreFile
  <2>1. PICK D : \/ led' \in {led, NoLedger} /\ disk' = disk
                 \/ led' = [led EXCEPT !.pending = D] /\ disk' = led'
    BY <1>8 DEF RestoreFile, Return, Persist
  <2> QED
    BY <1>1, <1>2, <2>1
<1>9. CASE RestoreFileDone
  <2>1. Target \in Path
    BY <1>1, <1>9, TargetType DEF RestoreFileDone, At, IndexOK, AtOperation, TypeInv
  <2> QED
    BY <1>1, <1>2, <1>9, <2>1 DEF RestoreFileDone, Persist
<1>10. CASE VerifyRollback
  <2>1. \/ led' = NoLedger /\ disk' = disk
        \/ led' = [led EXCEPT !.status = "rolled-back-verified", !.active = 0] /\ disk' = led'
    BY <1>10 DEF VerifyRollback, Return, Persist
  <2> QED
    BY <1>1, <2>1 DEF Ledger
<1>11. CASE Announce
  <2>1. \/ led' = [led EXCEPT !.status = "applying", !.active = k] /\ disk' = led'
        \/ led' = [led EXCEPT !.status = "committed", !.active = 0] /\ disk' = led'
    BY <1>11 DEF Announce, Persist
  <2> QED
    BY <1>1, <2>1 DEF Ledger
<1>12. CASE Observe
  <2>1. Target \in Path
    BY <1>1, <1>12, TargetType DEF Observe, At, IndexOK, AtOperation, TypeInv
  <2> QED
    <3>1. /\ disk' = disk
          /\ led' = led \/ led' = [led EXCEPT !.post[Target] = Binding(src[Target])]
      BY <1>12 DEF Observe, RequireRollback, job
    <3> QED
      BY <1>1, <1>2, <2>1, <3>1
<1>13. CASE Require
  BY <1>1, <1>2, <1>13 DEF Require, Persist, Statuses
<1>14. CASE FinishMarker
  BY <1>1, <1>14 DEF FinishMarker, AfterRecovery, Return
<1>15. CASE \/ UNCHANGED vars \/ StartRecover \/ StartReconcile \/ UndoCreate \/ MakeDirectory \/ ModeDirectory
            \/ RestoreFileTemp \/ RestoreFileSwap \/ FinishFiles \/ FinishDir \/ Begin
            \/ Publish \/ Apply \/ ApplySwap \/ Crash \/ Fault \/ Drift
  <2>1. led' \in {led, NoLedger} /\ disk' \in {led, disk}
    BY <1>15 DEF vars, StartRecover, StartReconcile, UndoCreate, MakeDirectory, ModeDirectory, RestoreFileTemp,
       RestoreFileSwap, FinishFiles, FinishDir, Begin, Publish, Apply, ApplySwap, Crash, Fault,
       Drift, Uncertain, RequireRollback, Return, Goto, job, call
  <2> QED
    BY <1>3, <2>1
<1> QED
  BY <1>4, <1>5, <1>6, <1>7, <1>8, <1>9, <1>10, <1>11, <1>12, <1>13, <1>14, <1>15 DEF Next, Step

\* The entries that Prepare binds hold what was staged, and Settle keeps every inode.
LEMMA PriorKept ==
  ASSUME TypeInv, ForeignInv, [Next]_vars, NEW p \in Path
  PROVE  /\ led'.prior[p][1] < clock /\ disk'.prior[p][1] < clock
         /\ src[p].data = Foreign => src[p].ino \notin {led'.prior[p][1], disk'.prior[p][1]}
<1>1. /\ led \in Ledger /\ disk \in Ledger /\ src \in [Path -> Entry] /\ Unbound[p][1] = 0
      /\ clock \in Nat /\ NoLedger.prior = Unbound /\ Len(ops) \in Nat
  BY DEF TypeInv, TypeOK, NoLedger, Unbound, NoBinding
<1>2. CASE Prepare
  <2> DEFINE m == [q \in Path |-> IF q \in Changed THEN Binding(src[q]) ELSE NoBinding]
  <2>1. disk' = disk /\ (led'.prior = Unbound \/ led'.prior = m)
    <3>1. CASE \A i \in 1 .. Len(ops) : CanPrepare(ops[i])
      <4>1. led' = [NoLedger EXCEPT !.status = "prepared", !.prior = m] /\ disk' = disk
        BY <1>2, <3>1 DEF Prepare
      <4> HIDE DEF m
      <4> QED
        BY <4>1 DEF NoLedger
    <3>2. CASE ~\A i \in 1 .. Len(ops) : CanPrepare(ops[i])
      BY <1>1, <1>2, <3>2 DEF Prepare, Return
    <3> QED
      BY <3>1, <3>2
  <2>2. led'.prior = m => m[p][1] = 0 \/ (m[p][1] = src[p].ino /\ src[p].data # Foreign)
    <3>1. CASE p \in Changed /\ Exists(p) /\ led'.prior = m /\ m # Unbound
      <4>1. \A i \in 1 .. Len(ops) : CanPrepare(ops[i])
        <5>1. CASE ~\A i \in 1 .. Len(ops) : CanPrepare(ops[i])
          BY <1>1, <1>2, <3>1, <5>1 DEF Prepare, Return
        <5> QED
          BY <5>1
      <4>2. CanPrepare(p)
        BY <3>1, <4>1 DEF TypeInv, TypeOK, IsManifest
      <4>3. src[p].data = before[p] /\ before[p] # Foreign
        BY <3>1, <4>2 DEF CanPrepare, TypeInv, TypeOK, Trees
      <4> QED
        BY <3>1, <4>3 DEF Binding, Exists
    <3>2. CASE p \notin Changed \/ ~Exists(p) \/ m = Unbound
      BY <1>1, <3>2 DEF Binding, Exists, NoBinding
    <3> QED
      BY <3>1, <3>2
  <2> HIDE DEF m
  <2> QED
    BY <1>1, <2>1, <2>2 DEF ForeignInv
<1>3. CASE Settle
  <2> DEFINE D == DeletedDirs \cap {ops[j] : j \in k + 1 .. Len(ops)}
             m == Refreshed(led.prior, Target, D)
  <2>1. CASE RequireRollback
    BY <1>1, <2>1 DEF RequireRollback, job, ForeignInv
  <2>2. CASE ~RequireRollback
    <3>1. RefreshOK(led.prior, Target, D) /\ led' = [led EXCEPT !.active = 0, !.prior = m]
          /\ disk' = led'
      BY <1>3, <2>2 DEF Settle, Persist
    <3>2. m[p][1] = led.prior[p][1]
      BY <3>1 DEF Refreshed, RefreshOK, Binding, Exists
    <3>3. led'.prior = m /\ disk'.prior = m
      <4> HIDE DEF m, D
      <4> QED
        BY <1>1, <3>1 DEF Ledger
    <3> QED
      BY <3>2, <3>3 DEF ForeignInv
  <2> QED
    BY <2>1, <2>2
<1>4. CASE ~Prepare /\ ~Settle
  <2>1. /\ led'.prior \in {led.prior, disk.prior, Unbound}
        /\ disk'.prior \in {led.prior, disk.prior, Unbound}
    BY <1>4, PriorMoves
  <2> QED
    BY <1>1, <2>1 DEF ForeignInv
<1> QED
  BY <1>2, <1>3, <1>4

\* What guards the replacement of a file.
LEMMA SwapGuards ==
  ASSUME TypeInv, ForeignInv, [Next]_vars
  PROVE  /\ pc' = "swap" => src'[Target'].data # Foreign
         /\ pc' \in {"backTemp", "backSwap"} =>
              src'[Target'].data # Foreign \/ Recorded(Target)'
<1>1. /\ led \in Ledger /\ disk \in Ledger /\ src \in [Path -> Entry] /\ IndexOK
      /\ k \in 0 .. Len(ops) + 1 /\ Len(ops) \in Nat
      /\ UNCHANGED plan
  BY StepKeepsPlan DEF TypeInv, TypeOK
<1>2. ASSUME pc' \in {"swap", "backTemp", "backSwap"}, vars' # vars
      PROVE  \/ Apply /\ pc' = "swap" /\ src' = Private(src, Target)
                /\ TargetUnchanged(Target) /\ Op(Target) # "delete" /\ ~IsDir(Target)
             \/ RestoreFile /\ pc' = "backTemp"
             \/ RestoreFileTemp /\ pc' = "backSwap"
  <2>1. CASE Apply
    BY <1>2, <2>1 DEF Apply, RequireRollback, Goto
  <2>2. CASE ~Apply
    BY <1>2, <2>2 DEF Next, Step, StartRecover, StartReconcile, Recover, UndoCreate,
       UndoCreateDone, RestoreDirectory, MakeDirectory, ModeDirectory, MadeDirectory, RestoreFile,
       RestoreFileTemp, RestoreFileSwap, RestoreFileDone, VerifyRollback, FinishFiles,
       FinishDir, FinishMarker, Begin, Prepare, Publish, Announce, ApplySwap, Observe,
       Settle, Require, RequireRollback, Crash, Fault, Drift, AfterRecovery, Uncertain,
       Return, Goto, At, call
  <2> QED
    BY <2>1, <2>2
<1>3. CASE UNCHANGED vars
  <2>1. UNCHANGED <<src, led, pc, k, ops>>
    BY <1>3 DEF vars, fs, call, plan
  <2> QED
    BY <2>1 DEF ForeignInv, Recorded, Binding, Target
<1>4. CASE Apply /\ pc' = "swap" /\ src' = Private(src, Target)
           /\ TargetUnchanged(Target) /\ Op(Target) # "delete" /\ ~IsDir(Target)
  <2>1. pc = "apply" /\ k \in 1 .. Len(ops) /\ Target \in Path
    BY <1>1, <1>4, TargetType DEF Apply, At, IndexOK, AtOperation, TypeInv
  <2>2. Target' = Target
    BY <1>1, <1>4, PlanKept, <2>1 DEF Apply, Goto, Target, RequireRollback
  <2>3. src'[Target].data = src[Target].data
    BY <1>1, <1>4, <2>1, PrivateData
  <2>4. src[Target].data # Foreign
    BY <1>1, <1>4, <2>1, ConstantsAssumption DEF TargetUnchanged, Binding, Exists, ForeignInv
  <2> QED
    BY <1>4, <2>2, <2>3, <2>4
<1>5. CASE RestoreFile /\ pc' = "backTemp"
  <2>1. /\ MayRestore(Target) /\ Target \in BackedUp /\ UNCHANGED src /\ k' = k
        /\ led' = [led EXCEPT !.pending = @ \cup {Target}]
    BY <1>5 DEF RestoreFile, Return, Goto, Persist, fs
  <2>2. Target' = Target /\ led'.post = led.post /\ led'.rolled = led.rolled
    BY <1>1, <2>1, PlanKept DEF Target, Ledger
  <2>3. Target \in Path /\ before[Target] # Foreign /\ after[Target] # Foreign
    BY <2>1, ConstantsAssumption DEF BackedUp, Changed, TypeInv, TypeOK, Trees
  <2>4. src[Target].data # Foreign \/ Recorded(Target)
    BY <2>1, <2>3, ConstantsAssumption DEF MayRestore, Recorded, Binding, Exists, ForeignInv
  <2> QED
    BY <1>5, <2>1, <2>2, <2>4 DEF Recorded, Binding
<1>6. CASE RestoreFileTemp /\ pc' = "backSwap"
  <2>1. /\ pc = "backTemp" /\ k \in 1 .. Len(ops) /\ Target \in Path
        /\ src' = Linked(src, Target, src[Target]) /\ UNCHANGED <<led, k>>
    BY <1>1, <1>6, TargetType DEF RestoreFileTemp, At, Goto, IndexOK, AtOperation, TypeInv
  <2>2. Target' = Target /\ src'[Target] = src[Target]
    BY <1>1, <2>1, PlanKept DEF Target, Linked
  <2> QED
    BY <1>6, <2>1, <2>2 DEF ForeignInv, Recorded, Binding
<1> QED
  BY <1>2, <1>3, <1>4, <1>5, <1>6

LEMMA ForeignNext == TypeInv /\ ForeignInv /\ [Next]_vars => ForeignInv'
<1> SUFFICES ASSUME TypeInv, ForeignInv, [Next]_vars PROVE ForeignInv'
  OBVIOUS
<1>1. clock \in Nat /\ src \in [Path -> Entry]
  BY DEF TypeInv, TypeOK
<1>2. clock' \in {clock, clock + 1}
  BY DEF Next, vars, Step, StartRecover, StartReconcile, Crash, Fault, Drift, Tick, Uncertain,
     Recover, UndoCreate, UndoCreateDone, RestoreDirectory, MakeDirectory, ModeDirectory, RequireRollback,
     MadeDirectory, RestoreFile, RestoreFileTemp, RestoreFileSwap, RestoreFileDone,
     VerifyRollback, FinishFiles, FinishDir, FinishMarker, Begin, Prepare, Publish,
     Announce, Apply, ApplySwap, Observe, Settle, Require
<1>3. ASSUME NEW p \in Path
      PROVE  /\ led'.prior[p][1] < clock' /\ disk'.prior[p][1] < clock' /\ src'[p].ino < clock'
             /\ src'[p].data = Foreign =>
                  src'[p].ino \notin {0, led'.prior[p][1], disk'.prior[p][1]}
  <2>1. /\ led'.prior[p][1] < clock /\ disk'.prior[p][1] < clock
        /\ src[p].data = Foreign => src[p].ino \notin {led'.prior[p][1], disk'.prior[p][1]}
    BY PriorKept
  <2>2. led'.prior[p][1] \in Nat /\ disk'.prior[p][1] \in Nat /\ src[p].ino \in Nat
    BY <1>1, TypeNext DEF TypeInv, TypeOK, Ledger, Bindings, Entry
  <2>3. CASE src' = src
    BY <1>1, <1>2, <2>1, <2>2, <2>3 DEF ForeignInv
  <2>4. CASE src' # src
    <3>1. /\ clock' = clock + 1
          /\ \/ src'[p].data = src[p].data /\ src'[p].ino = src[p].ino
             \/ src'[p].data = "none" /\ src'[p].ino = 0
             \/ src'[p].ino = clock
      BY <2>4, TreeMoves
    <3> QED
      BY <1>1, <2>1, <2>2, <3>1, ConstantsAssumption DEF ForeignInv
  <2> QED
    BY <2>3, <2>4
<1>4. clock' > 0
  BY <1>1, <1>2 DEF ForeignInv
<1> QED
  BY <1>3, <1>4, SwapGuards DEF ForeignInv

LEMMA ForeignInit == Init => ForeignInv
BY ConstantsAssumption DEF Init, ForeignInv, NoLedger, Unbound, NoBinding, NoEntry, Trees

\* A step destroys another process's content only where the ledger took the entry for the
\* transaction's own.
LEMMA ForeignStep ==
  ASSUME TypeInv, ForeignInv, [Next]_vars, drifted' = drifted, NEW p \in Path,
         src[p].data = Foreign, ~Recorded(p)
  PROVE  src'[p].data = Foreign
<1>1. /\ src \in [Path -> Entry] /\ IndexOK /\ Foreign # "none" /\ Foreign # "dir"
      /\ clock \in Nat
  BY ConstantsAssumption DEF TypeInv, TypeOK
<1>2. CASE src' = src
  BY <1>2
<1>3. ASSUME Target # p, NEW s \in [Path -> Entry], s[p].data = src[p].data,
             NEW e, src' = Linked(s, Target, e)
      PROVE  src'[p].data = Foreign
  BY <1>1, <1>3 DEF Linked, Entry
<1>4. CASE UndoCreate
  BY <1>1, <1>3, <1>4 DEF UndoCreate, Uncertain, fs, Recorded
<1>5. CASE MakeDirectory
  BY <1>1, <1>3, <1>5 DEF MakeDirectory, Uncertain, fs, Exists
<1>5a. CASE ModeDirectory
  BY <1>1, <1>5a DEF ModeDirectory, Entry
<1>6. CASE RestoreFileTemp
  <2>1. CASE Target = p
    BY <1>1, <1>6, <2>1 DEF RestoreFileTemp, Linked
  <2> QED
    BY <1>1, <1>3, <1>6, <2>1 DEF RestoreFileTemp
<1>7. CASE RestoreFileSwap
  BY <1>1, <1>3, <1>7 DEF RestoreFileSwap, At, ForeignInv
<1>8. CASE Apply
  <2>1. CASE src' = Private(src, Target)
    BY <1>1, <2>1, PrivateData
  <2>2. CASE src' # Private(src, Target) /\ src' # src
    <3>1. TargetUnchanged(Target) /\ \E s \in {src, Private(src, Target)} :
            \E e : src' = Linked(s, Target, e)
      BY <1>8, <2>2 DEF Apply, RequireRollback, fs
    <3>2. Target # p
      BY <1>1, <3>1 DEF TargetUnchanged, Binding, Exists, ForeignInv
    <3>3. Private(src, Target) \in [Path -> Entry] /\ Private(src, Target)[p].data = src[p].data
      BY <1>1, PrivateType, PrivateData
    <3> QED
      BY <1>1, <1>3, <3>1, <3>2, <3>3
  <2> QED
    BY <1>2, <2>1, <2>2
<1>9. CASE ApplySwap
  BY <1>1, <1>3, <1>9 DEF ApplySwap, At, ForeignInv
<1>10. ~Drift
  BY DEF Drift
<1>11. \/ UndoCreate \/ MakeDirectory \/ ModeDirectory \/ RestoreFileTemp \/ RestoreFileSwap \/ Apply \/ ApplySwap
       \/ src' = src
  BY <1>10 DEF Next, vars, fs, Step, StartRecover, StartReconcile, Crash, Fault, Recover,
     UndoCreateDone, RestoreDirectory, MadeDirectory, RestoreFile, RestoreFileDone,
     VerifyRollback, FinishFiles, FinishDir, FinishMarker, Begin, Prepare, Publish,
     Announce, Observe, Settle, Require, RequireRollback
<1> QED
  BY <1>2, <1>4, <1>5, <1>5a, <1>6, <1>7, <1>8, <1>9, <1>11

\* Whatever another process writes is destroyed only in the window between a rename of the
\* transaction and the observation that takes the entry for its own.
THEOREM ForeignPreservedHolds == Spec => ForeignPreserved
<1>1. Spec => []ForeignInv
  BY ForeignInit, ForeignNext, SafeSpec, PTL DEF Spec
<1>2. TypeInv /\ ForeignInv /\ [Next]_vars =>
        [drifted' = drifted =>
           \A p \in Path : src[p].data = Foreign /\ ~Recorded(p) => src'[p].data = Foreign]_vars
  BY ForeignStep
<1> QED
  BY <1>1, <1>2, SafeSpec, PTL DEF Spec, ForeignPreserved
-----------------------------------------------------------------------------
(* The update as a whole.  Until another process writes the tree, every     *)
(* step maps to a step of AtomicTree or to none: the update opens with the *)
(* marker, is decided by its status, and closes when the marker goes.      *)

Undisturbed == drifted = {}

\* Only one step makes a marker, one removes it, and two decide.
LEMMA MarkerMoves ==
  ASSUME TypeInv, ControlInv, [Next]_vars
  PROVE  \/ UNCHANGED disk
         \/ Publish /\ disk' = led
         \/ FinishMarker /\ disk' = NoLedger
         \/ /\ disk.status \notin Decided \cup {"absent"}
            /\ disk'.status \in Statuses \ {"absent"}
<1>1. led \in Ledger /\ disk \in Ledger
  BY DEF TypeInv, TypeOK
<1> USE DEF ControlInv, ControlOK, Decided, Restoring, Applying, Statuses
<1>2. CASE Recover
  <2>1. CASE UNCHANGED disk
    BY <2>1
  <2>2. CASE disk.status \notin Decided \cup {"absent"}
             /\ Persist([disk EXCEPT !.status = "rollback-restoring"])
    BY <1>1, <2>2 DEF Persist, Ledger
  <2> QED
    BY <1>2, <2>1, <2>2 DEF Recover
<1>3. CASE UndoCreateDone
  BY <1>1, <1>3 DEF UndoCreateDone, At, Persist, Ledger
<1>4. CASE RestoreDirectory
  BY <1>1, <1>4 DEF RestoreDirectory, At, Persist, Ledger
<1>5. CASE MadeDirectory
  BY <1>1, <1>5 DEF MadeDirectory, At, Persist, Ledger
<1>6. CASE RestoreFile
  BY <1>1, <1>6 DEF RestoreFile, At, Persist, Ledger
<1>7. CASE RestoreFileDone
  BY <1>1, <1>7 DEF RestoreFileDone, At, Persist, Ledger
<1>8. CASE VerifyRollback
  BY <1>1, <1>8 DEF VerifyRollback, At, Persist, Ledger
<1>9. CASE Announce
  BY <1>1, <1>9 DEF Announce, At, Persist, Ledger
<1>10. CASE Settle
  <2>1. CASE RequireRollback
    BY <2>1 DEF RequireRollback, job
  <2>2. CASE ~RequireRollback
    <3> DEFINE D == DeletedDirs \cap {ops[j] : j \in k + 1 .. Len(ops)}
               m == Refreshed(led.prior, Target, D)
    <3>1. disk' = [led EXCEPT !.active = 0, !.prior = m]
      BY <1>10, <2>2 DEF Settle, Persist
    <3>2. disk'.status = led.status
      <4> HIDE DEF m
      <4> QED
        BY <1>1, <3>1 DEF Ledger
    <3> QED
      BY <1>10, <3>2 DEF Settle, At
  <2> QED
    BY <2>1, <2>2
<1>11. CASE Require
  BY <1>1, <1>11 DEF Require, At, Persist, Ledger
<1>12. CASE Publish
  BY <1>12 DEF Publish
<1>13. CASE FinishMarker
  BY <1>13 DEF FinishMarker
<1>14. CASE \/ UNCHANGED vars \/ StartRecover \/ StartReconcile \/ UndoCreate \/ MakeDirectory \/ ModeDirectory
            \/ RestoreFileTemp \/ RestoreFileSwap \/ FinishFiles \/ FinishDir \/ Begin
            \/ Prepare \/ Apply \/ ApplySwap \/ Observe \/ Crash \/ Fault \/ Drift
  BY <1>14 DEF vars, StartRecover, StartReconcile, UndoCreate, MakeDirectory, ModeDirectory, RestoreFileTemp,
     RestoreFileSwap, FinishFiles, FinishDir, Begin, Prepare, Apply, ApplySwap, Observe, Crash,
     Fault, Drift, Uncertain, RequireRollback, job
<1> QED
  BY <1>2, <1>3, <1>4, <1>5, <1>6, <1>7, <1>8, <1>9, <1>10, <1>11, <1>12, <1>13, <1>14
  DEF Next, Step

\* This program changes the tree under a marker only.
LEMMA ChangedUnderMarker ==
  ASSUME TypeInv, ControlInv, [Next]_vars, ~Drift, src' # src
  PROVE  disk.status # "absent" /\ UNCHANGED disk
<1>1. UNCHANGED disk
  BY TreeMoves
<1>2. pc \in Restoring \cup Applying
  BY DEF Next, vars, fs, Step, StartRecover, StartReconcile, Crash, Fault, Recover, At,
     UndoCreate, MakeDirectory, ModeDirectory, RestoreFileTemp, RestoreFileSwap, Apply, ApplySwap,
     UndoCreateDone, RestoreDirectory, MadeDirectory, RestoreFile, RestoreFileDone,
     VerifyRollback, FinishFiles, FinishDir, FinishMarker, Begin, Prepare, Publish,
     Announce, Observe, Settle, Require, RequireRollback, Restoring, Applying
<1> QED
  BY <1>1, <1>2 DEF ControlInv, ControlOK, Restoring, Applying

\* The tree that a reader may rely on is the one the update began or ended with.
LEMMA WholeData ==
  ASSUME TypeInv, Undisturbed
  PROVE  /\ HoldsOwn(before) => Data(src) = before
         /\ HoldsOwn(after) => Data(src) = after
<1>1. before \in [Path -> Shape] /\ after \in [Path -> Shape]
  BY DEF TypeInv, TypeOK, Trees
<1> QED
  BY <1>1 DEF Undisturbed, HoldsOwn, Data

\* While the tree is undisturbed no step is one of another process.
LEMMA StillUndisturbed ==
  ASSUME [Next]_vars, Undisturbed'
  PROVE  Undisturbed /\ ~Drift
<1>1. ~Drift
  BY DEF Drift, Undisturbed
<1>2. CASE UNCHANGED drifted
  BY <1>1, <1>2 DEF Undisturbed
<1> QED
  BY <1>1, <1>2 DEF Next, vars, budget, Step, StartRecover, StartReconcile, Crash,
     Fault, At, Recover, UndoCreate, UndoCreateDone, RestoreDirectory, MakeDirectory, ModeDirectory,
     MadeDirectory, RestoreFile, RestoreFileTemp, RestoreFileSwap, RestoreFileDone,
     VerifyRollback, FinishFiles, FinishDir, FinishMarker, Begin, Prepare, Publish,
     Announce, Apply, ApplySwap, Observe, Settle, Require

LEMMA AtomicStep ==
  ASSUME TypeInv, ControlInv, TreeInv, [Next]_vars
  PROVE  [Atomic!AtomicNext]_(Atomic!atomicVars)
<1> DEFINE seen == IF disk.status = "absent" THEN Data(src) ELSE BusyTree
           decision == CASE disk.status = "committed"            -> "commit"
                         [] disk.status = "rolled-back-verified" -> "rollback"
                         [] OTHER                                -> "none"
           alone == drifted = {}
<1>1. before' = before /\ after' = after
  BY StepKeepsPlan, PlanKept
<1>2. CASE ~Undisturbed'
  BY <1>1, <1>2 DEF Undisturbed, Atomic!AtomicNext, Atomic!Interfere
<1>3. CASE Undisturbed'
  <2>1. Undisturbed /\ ~Drift /\ alone' = alone
    BY <1>3, StillUndisturbed DEF Undisturbed
  <2>2. CASE UNCHANGED <<src, disk>>
    <3>1. seen' = seen /\ decision' = decision
      BY <2>2 DEF Data, BusyTree
    <3> QED
      BY <1>1, <2>1, <3>1 DEF Atomic!atomicVars
  <2>3. CASE src' # src
    <3>1. disk.status # "absent" /\ UNCHANGED disk
      BY <2>1, <2>3, ChangedUnderMarker
    <3>2. seen' = seen /\ decision' = decision
      BY <3>1 DEF BusyTree
    <3> QED
      BY <1>1, <2>1, <3>2 DEF Atomic!atomicVars
  <2>4. CASE Publish /\ disk' = led
    <3>1. disk.status = "absent" /\ then = "reconcile" /\ pc \notin Applying
          /\ disk'.status = "prepared"
      BY <2>4 DEF Publish, At, ControlInv, ControlOK, Preparing, Applying
    <3>2. HoldsOwn(before)
      BY <3>1 DEF TreeInv, StagedUntilApplied
    <3>3. seen = before /\ decision = "none" /\ seen' = BusyTree /\ decision' = "none"
      BY <2>1, <3>1, <3>2, WholeData DEF BusyTree
    <3> QED
      BY <1>1, <2>1, <3>3 DEF Atomic!AtomicNext, Atomic!Open
  <2>5. CASE FinishMarker /\ disk' = NoLedger /\ src' = src
    <3>1. disk.status \in Decided /\ disk'.status = "absent"
      BY <2>5 DEF FinishMarker, At, ControlInv, ControlOK, Finishing, NoLedger
    <3>2. /\ disk.status = "committed" => HoldsOwn(after)
          /\ disk.status = "rolled-back-verified" => HoldsOwn(before)
      BY DEF TreeInv, DecisionHolds
    <3>3. seen = BusyTree /\ seen' = Data(src) /\ decision' = "none" /\ decision # "none"
          /\ Data(src) = IF decision = "commit" THEN after ELSE before
      BY <2>1, <2>5, <3>1, <3>2, WholeData DEF Decided, Data
    <3> QED
      BY <1>1, <2>1, <3>3 DEF Atomic!AtomicNext, Atomic!Close
  <2>6. CASE /\ disk.status \notin Decided \cup {"absent"}
             /\ disk'.status \in Statuses \ {"absent"}
    <3>1. seen = BusyTree /\ seen' = BusyTree /\ decision = "none"
      BY <2>6 DEF Decided, BusyTree
    <3>2. CASE disk'.status \in Decided
      <4>1. decision' \in {"commit", "rollback"}
        BY <3>2 DEF Decided
      <4> QED
        BY <1>1, <2>1, <3>1, <4>1 DEF Atomic!AtomicNext, Atomic!Decide
    <3>3. CASE disk'.status \notin Decided
      <4>1. decision' = "none"
        BY <3>3 DEF Decided
      <4> QED
        BY <1>1, <2>1, <3>1, <4>1 DEF Atomic!atomicVars
    <3> QED
      BY <3>2, <3>3
  <2> QED
    BY <2>2, <2>3, <2>4, <2>5, <2>6, MarkerMoves
<1> QED
  BY <1>2, <1>3

LEMMA AtomicStart ==
  ASSUME Init
  PROVE  Atomic!AtomicInit
<1>1. before \in [Path -> Shape] /\ \A p \in Path : src[p].data = before[p]
  BY DEF Init, Trees, NoEntry
<1>2. Data(src) = before
  BY <1>1 DEF Data
<1> QED
  BY <1>2 DEF Init, NoLedger, Atomic!AtomicInit

\* A reconciliation replaces the tree as a whole, whoever is killed and whatever fails, for
\* as long as no other process writes the tree.
THEOREM RefinesAtomicTree == Spec => ImplementsAtomicTree
<1>1. Init => Atomic!AtomicInit
  BY AtomicStart
<1>2. TypeInv /\ ControlInv /\ TreeInv /\ [Next]_vars
        => [Atomic!AtomicNext]_(Atomic!atomicVars)
  BY AtomicStep
<1> QED
  BY <1>1, <1>2, SafeSpec, PTL DEF Spec, ImplementsAtomicTree, Atomic!AtomicSpec
=============================================================================
