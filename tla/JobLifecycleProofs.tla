------------------------- MODULE JobLifecycleProofs -------------------------
(***************************************************************************)
(* The job lifecycle for any candidate contents, any number of dispatch    *)
(* attempts and any number of faults.  ControlInv says what holds at each  *)
(* place of each command; with it the safety properties of JobLifecycle    *)
(* are inductive.                                                          *)
(***************************************************************************)
EXTENDS JobLifecycle, TLAPS

\* What a state's phase and step say about each other, about the evidence it
\* binds and about the worktree.
Sound(f) ==
    /\ f.phase \in {"verified-rejected", "dispatch-failed", "ready", "absent",
                    "initializing"} => f.step = "none"
    /\ f.phase \in {"cleanup-in-progress", "abort-in-progress"}
         => f.step \in {"none", "worktree-removed"}
    /\ f.step # "none" => Removed
    /\ f.phase \in {"verified-rejected", "cleanup-in-progress", "cleaned"}
         => f.verdict = "rejected"
    /\ f.phase \in {"dispatch-failed", "abort-in-progress", "aborted"} => f.run > 0
    /\ f.phase \in {"absent", "cleaned", "aborted"} => Removed /\ ref = "absent"

FileInv ==
    /\ Sound(file)
    /\ dispatch.status # "none" => dispatch.run > 0
    /\ fresh => shown = file.step

\* What holds at each place of the running command.
PlaceInv ==
    /\ at \in {"add", "ready"} => file.phase = "initializing"
    /\ at \in {"bind", "accept"} => verdict \in Verdicts
    /\ cmd = "rollback" => file.phase = "ready"
    /\ cmd \in Destroyers =>
         /\ file.phase \in {Origin(cmd), Busy(cmd), Terminal(cmd)}
         /\ noted = file.digest
         /\ at = "reconcile" => file.phase = Busy(cmd) /\ grant = file.step
         /\ at = "check" => file.phase # Terminal(cmd) /\ file.step = "none"
         /\ at \in {"recheck", "remove", "removed"}
              => file.phase = Busy(cmd) /\ file.step = "none"
         /\ at \in {"ref", "delete", "deleted"}
              => /\ file.phase = Busy(cmd) /\ file.step = "worktree-removed"
                 /\ own \/ grant = "worktree-removed"
    /\ at \in {"removed", "ref", "delete", "deleted", "remove", "recheck"} => cmd \in Destroying
    /\ at = "removed" => Removed /\ own
    /\ at \in {"delete", "deleted"} => Removed
    /\ at = "deleted" => ref = "absent"
    /\ cmd = "abort" /\ at # "fail" => dispatch.status # "running"
    /\ at = "add" => cmd = "init"
    /\ at = "signalled" => cmd \in Destroyers

IInv == TypeOK /\ FileInv /\ PlaceInv /\ AbortExact

\* The part of TypeOK that needs neither the file's fields nor Booleans.
RestType ==
    /\ tree \in Trees /\ ref \in {"absent", "base", "moved"}
    /\ dispatch \in [run : Nat, status : {"none", "running", "failed", "completed"}]
    /\ shown \in CleanupSteps
    /\ cmd \in {"none", "init", "verify", "record", "rollback", "cleanup", "abort"}
    /\ at \in Places /\ (cmd = "none" <=> at = "none")
    /\ noted \in Digests /\ verdict \in Verdicts \cup {"none"}
    /\ grant \in CleanupSteps
    /\ faults \in Nat

\* A state with no evidence is a state.
LEMMA BareType ==
    ASSUME NEW p \in Phases, NEW f \in Failures PROVE Bare(p, f) \in Files
BY DEF Bare, Files, CleanupSteps, Digests

\* So is a state whose cleanup step is overwritten,
LEMMA StepType ==
    ASSUME NEW f \in Files, NEW s \in CleanupSteps PROVE [f EXCEPT !.step = s] \in Files
BY DEF Files

\* or its phase and its failure (_start_cleanup),
LEMMA PhaseType ==
    ASSUME NEW f \in Files, NEW p \in Phases, NEW b \in Failures
    PROVE [f EXCEPT !.phase = p, !.failure = b] \in Files
BY DEF Files

\* or all three (the end of a cleanup),
LEMMA FinalType ==
    ASSUME NEW f \in Files, NEW s \in CleanupSteps, NEW p \in Phases, NEW b \in Failures
    PROVE [f EXCEPT !.step = s, !.phase = p, !.failure = b] \in Files
BY DEF Files

\* or its failure alone (an exception handler).
LEMMA FailureType ==
    ASSUME NEW f \in Files, NEW b \in Failures PROVE [f EXCEPT !.failure = b] \in Files
BY DEF Files

\* What _cleanup_reconcile returns is a state.
LEMMA ReconciledType == ASSUME file \in Files, NEW c PROVE Reconciled(c) \in Files
<1> DEFINE s == IF file.step = "none" /\ Removed THEN "worktree-removed" ELSE file.step
<1>1. s \in CleanupSteps
  BY DEF Files, CleanupSteps
<1>2. [file EXCEPT !.step = s] \in Files
  BY <1>1, StepType
<1>3. Terminal(c) \in Phases
  BY DEF Terminal, Phases
<1>4. [file EXCEPT !.step = "branch-removed", !.phase = Terminal(c), !.failure = "none"] \in Files
  <2>1. "branch-removed" \in CleanupSteps /\ "none" \in Failures
    BY DEF CleanupSteps, Failures
  <2>. QED
    BY <1>3, <2>1, FinalType
<1>. QED
  BY <1>2, <1>4 DEF Reconciled

\* What a failure handler writes is a state.
LEMMA FailedType ==
    ASSUME NEW f \in Files, NEW c, NEW b \in Failures PROVE Failed(f, c, b) \in Files
BY FailureType DEF Failed

\* A state with a receipt bound to it is a state.
LEMMA BoundType ==
    ASSUME NEW v \in Verdicts \cup {"none"}, NEW d \in Digests
    PROVE [Bare(Judged(v), "none") EXCEPT !.verdict = v, !.digest = d] \in Files
<1>1. Judged(v) \in Phases
  BY DEF Judged, Phases
<1>2. Bare(Judged(v), "none") \in Files
  BY <1>1, BareType DEF Failures
<1>. QED
  BY <1>2 DEF Files

\* A state with a failed dispatch bound to it is a state.
LEMMA DispatchType ==
    ASSUME NEW r \in Nat, NEW d \in Digests
    PROVE [Bare("dispatch-failed", "dispatch-failed") EXCEPT !.run = r, !.digest = d] \in Files
<1>1. Bare("dispatch-failed", "dispatch-failed") \in Files
  BY BareType DEF Phases, Failures
<1>. QED
  BY <1>1 DEF Files

\* Every step writes a well-typed job.json.
LEMMA FileStep == ASSUME TypeOK, [Next]_vars PROVE file' \in Files
<1>. USE DEF TypeOK, KeepFile, Quiet, Write, Phases, Failures
<1>1. CASE AddWorktree
  BY <1>1, TypeOK DEF AddWorktree
<1>2. CASE RecordReady
  BY <1>2, BareType DEF RecordReady
<1>3. ASSUME NEW v \in Verdicts, GateDecides(v) PROVE file' \in Files
  BY <1>3, TypeOK DEF GateDecides
<1>4. CASE GateFails
  BY <1>4, BareType DEF GateFails
<1>5. CASE BindReceipt
  BY <1>5, BareType, BoundType DEF BindReceipt, Judged, Only
<1>6. CASE ReceiptUnbound
  BY <1>6, BareType DEF ReceiptUnbound
<1>7. CASE BindDispatch
  BY <1>7, BareType, DispatchType DEF BindDispatch
<1>8. CASE DispatchUnbound
  BY <1>8, TypeOK DEF DispatchUnbound
<1>9. CASE Reconcile
  BY <1>9, TypeOK, ReconciledType DEF Reconcile
<1>10. CASE Check
  BY <1>10, TypeOK, PhaseType DEF Check, Busy
<1>11. CASE Recheck
  BY <1>11, TypeOK DEF Recheck
<1>12. CASE RecheckRollback
  BY <1>12, TypeOK DEF RecheckRollback
<1>13. CASE RemoveWorktree
  BY <1>13, TypeOK DEF RemoveWorktree
<1>14. CASE RecordRemoval
  BY <1>14, TypeOK, StepType DEF RecordRemoval, CleanupSteps
<1>15. CASE CheckRef
  BY <1>15, TypeOK DEF CheckRef
<1>16. CASE DeleteRef
  BY <1>16, TypeOK DEF DeleteRef
<1>17. CASE DeleteRefused
  BY <1>17, TypeOK DEF DeleteRefused
<1>18. CASE Finish
  <2>1. Absent \in Files
    BY BareType DEF Absent, Phases, Failures
  <2>2. ASSUME NEW f \in Files
        PROVE [f EXCEPT !.step = "branch-removed", !.phase = Terminal(cmd),
                        !.failure = "none"] \in Files
    BY FinalType DEF Terminal, CleanupSteps, Phases, Failures
  <2>. QED
    BY <1>18, <2>1, <2>2 DEF TypeOK, Finish, Write, KeepFile
<1>19. CASE Fail
  BY <1>19, TypeOK, ReconciledType, FailedType DEF Fail
<1>20. CASE FailGit
  BY <1>20, TypeOK, FailedType DEF FailGit
<1>21. CASE Signalled
  BY <1>21, TypeOK, ReconciledType, FailedType DEF Signalled
<1>22. CASE Show
  BY <1>22, TypeOK DEF Show, disk
<1>23. CASE StartInit
  BY <1>23, BareType DEF StartInit
<1>24. CASE StartVerify
  BY <1>24, BareType DEF StartVerify
<1>25. CASE RefuseVerify
  BY <1>25, BareType DEF RefuseVerify
<1>26. CASE StartRecord
  BY <1>26, TypeOK DEF StartRecord
<1>27. CASE StartRollback
  BY <1>27, TypeOK DEF StartRollback
<1>28. CASE StartCleanup
  BY <1>28, TypeOK DEF StartCleanup
<1>29. ASSUME NEW d \in Discards, StartAbort(d) PROVE file' \in Files
  BY <1>29, TypeOK DEF StartAbort
<1>30. CASE AddFails
  BY <1>30, BareType DEF AddFails
<1>31. CASE GitFails
  BY <1>31, TypeOK DEF GitFails
<1>32. CASE GitRefuses
  BY <1>32, TypeOK DEF GitRefuses
<1>33. CASE BindFails
  BY <1>33, BareType DEF BindFails
<1>34. CASE SignalInit
  BY <1>34, BareType DEF SignalInit
<1>35. CASE SignalGate
  BY <1>35, BareType DEF SignalGate
<1>36. CASE SignalDestroyer
  BY <1>36, TypeOK DEF SignalDestroyer
<1>37. CASE HandlerFails
  BY <1>37, TypeOK DEF HandlerFails
<1>38. CASE Stop
  BY <1>38, TypeOK DEF Stop
<1>39. CASE Look
  BY <1>39, TypeOK DEF Look, Others, disk
<1>40. ASSUME NEW c \in Contents, Edit(c) PROVE file' \in Files
  BY <1>40, TypeOK DEF Edit
<1>41. CASE MoveBranch
  BY <1>41, TypeOK DEF MoveBranch
<1>42. CASE Repair
  BY <1>42, TypeOK DEF Repair, Others
<1>43. CASE StartDispatch
  BY <1>43, TypeOK DEF StartDispatch, Others, disk
<1>44. ASSUME NEW s \in {"failed", "completed"}, EndDispatch(s) PROVE file' \in Files
  BY <1>44, TypeOK DEF EndDispatch, Others, disk
<1>46. CASE GateFinal
  BY <1>46, TypeOK DEF GateFinal
<1>47. CASE CompareReceipt
  BY <1>47, TypeOK DEF CompareReceipt
<1>45. CASE UNCHANGED vars
  BY <1>45 DEF vars, disk
<1>. QED
  BY <1>1, <1>2, <1>3, <1>4, <1>5, <1>6, <1>7, <1>8, <1>9, <1>10, <1>11, <1>12, <1>13,
     <1>14, <1>15, <1>16, <1>17, <1>18, <1>19, <1>20, <1>21, <1>22, <1>23, <1>24, <1>25,
     <1>26, <1>27, <1>28, <1>29, <1>30, <1>31, <1>32, <1>33, <1>34, <1>35, <1>36, <1>37,
     <1>38, <1>39, <1>40, <1>41, <1>42, <1>43, <1>44, <1>45, <1>46, <1>47 DEF Next, Step,
     Commands,
     Faults, Environment

\* Every step keeps the Boolean variables Boolean.
LEMMA FlagsStep ==
    ASSUME TypeOK, [Next]_vars
    PROVE  /\ registered' \in BOOLEAN /\ fresh' \in BOOLEAN /\ own' \in BOOLEAN
           /\ held' \in BOOLEAN
<1> DEFINE Goal == /\ registered' \in BOOLEAN /\ fresh' \in BOOLEAN
                   /\ own' \in BOOLEAN /\ held' \in BOOLEAN
<1>. SUFFICES Goal
  OBVIOUS
<1>. USE DEF TypeOK, Goto, KeepFile, Quiet, Git, Write
<1>1. CASE AddWorktree
  BY <1>1, Zenon DEF AddWorktree
<1>2. CASE RecordReady
  BY <1>2, Zenon DEF RecordReady
<1>3. ASSUME NEW v \in Verdicts, GateDecides(v) PROVE Goal
  BY <1>3, Zenon DEF GateDecides
<1>4. CASE GateFails
  BY <1>4, Zenon DEF GateFails, End
<1>5. CASE BindReceipt
  BY <1>5, Zenon DEF BindReceipt
<1>6. CASE ReceiptUnbound
  BY <1>6, Zenon DEF ReceiptUnbound, End
<1>7. CASE BindDispatch
  BY <1>7, Zenon DEF BindDispatch
<1>8. CASE DispatchUnbound
  BY <1>8, Zenon DEF DispatchUnbound, End
<1>9. CASE Reconcile
  BY <1>9, Zenon DEF Reconcile
<1>10. CASE Check
  BY <1>10, Zenon DEF Check
<1>11. CASE Recheck
  BY <1>11, Zenon DEF Recheck
<1>12. CASE RecheckRollback
  BY <1>12, Zenon DEF RecheckRollback
<1>13. CASE RemoveWorktree
  BY <1>13, Zenon DEF RemoveWorktree
<1>14. CASE RecordRemoval
  BY <1>14, Zenon DEF RecordRemoval
<1>15. CASE CheckRef
  BY <1>15, Zenon DEF CheckRef
<1>16. CASE DeleteRef
  BY <1>16, Zenon DEF DeleteRef
<1>17. CASE DeleteRefused
  BY <1>17, Zenon DEF DeleteRefused
<1>18. CASE Finish
  BY <1>18, Zenon DEF Finish, End
<1>19. CASE Fail
  BY <1>19, Zenon DEF Fail, End
<1>20. CASE FailGit
  BY <1>20, Zenon DEF FailGit, End
<1>21. CASE Signalled
  BY <1>21, Zenon DEF Signalled
<1>22. CASE Show
  BY <1>22, Zenon DEF Show, End, disk
<1>23. CASE StartInit
  BY <1>23, Zenon DEF StartInit, Begin
<1>24. CASE StartVerify
  BY <1>24, Zenon DEF StartVerify, Begin
<1>25. CASE RefuseVerify
  BY <1>25, Zenon DEF RefuseVerify, proc
<1>26. CASE StartRecord
  BY <1>26, Zenon DEF StartRecord, Begin
<1>27. CASE StartRollback
  BY <1>27, Zenon DEF StartRollback, Begin
<1>28. CASE StartCleanup
  BY <1>28, Zenon DEF StartCleanup, Begin
<1>29. ASSUME NEW d \in Discards, StartAbort(d) PROVE Goal
  BY <1>29, Zenon DEF StartAbort, Begin
<1>30. CASE AddFails
  BY <1>30, Zenon DEF AddFails, AddCut, ChildCut, RemovalCut, Fault
<1>31. CASE GitFails
  BY <1>31, Zenon DEF GitFails, AddCut, ChildCut, Fault, RemovalCut
<1>32. CASE GitRefuses
  BY <1>32, Zenon DEF GitRefuses, Fault
<1>33. CASE BindFails
  BY <1>33, Zenon DEF BindFails, End, Fault
<1>34. CASE SignalInit
  BY <1>34, Zenon DEF SignalInit, AddCut, ChildCut, Fault, RemovalCut
<1>35. CASE SignalGate
  BY <1>35, Zenon DEF SignalGate, Fault
<1>36. CASE SignalDestroyer
  BY <1>36, Zenon DEF SignalDestroyer, AddCut, ChildCut, Fault, RemovalCut
<1>37. CASE HandlerFails
  BY <1>37, Zenon DEF HandlerFails, Fault
<1>38. CASE Stop
  BY <1>38, Zenon DEF Stop, AddCut, ChildCut, End, Fault, RemovalCut
<1>39. CASE Look
  BY <1>39, Zenon DEF Look, Others, disk, proc
<1>40. ASSUME NEW c \in Contents, Edit(c) PROVE Goal
  BY <1>40, Zenon DEF Edit, Hold, proc, view
<1>41. CASE MoveBranch
  BY <1>41, Zenon DEF MoveBranch, Hold, proc, view
<1>42. CASE Repair
  BY <1>42, Zenon DEF Repair, Others, proc, view
<1>43. CASE StartDispatch
  BY <1>43, Zenon DEF StartDispatch, Others, disk, proc, view
<1>44. ASSUME NEW s \in {"failed", "completed"}, EndDispatch(s) PROVE Goal
  BY <1>44, Zenon DEF EndDispatch, Others, disk, proc, view
<1>46. CASE GateFinal
  BY <1>46, Zenon DEF GateFinal
<1>47. CASE CompareReceipt
  BY <1>47, Zenon DEF CompareReceipt
<1>45. CASE UNCHANGED vars
  BY <1>45, Zenon DEF vars, disk, view, proc
<1>. QED
  BY <1>1, <1>2, <1>3, <1>4, <1>5, <1>6, <1>7, <1>8, <1>9, <1>10, <1>11, <1>12, <1>13,
     <1>14, <1>15, <1>16, <1>17, <1>18, <1>19, <1>20, <1>21, <1>22, <1>23, <1>24, <1>25,
     <1>26, <1>27, <1>28, <1>29, <1>30, <1>31, <1>32, <1>33, <1>34, <1>35, <1>36, <1>37,
     <1>38, <1>39, <1>40, <1>41, <1>42, <1>43, <1>44, <1>45, <1>46, <1>47 DEF Next, Step,
     Commands,
     Faults, Environment

\* Every step keeps the types of the other variables.
LEMMA RestStep == ASSUME TypeOK, [Next]_vars PROVE RestType'
<1>. USE DEF TypeOK, RestType, Places, Trees, Contents, Goto, Only, Quiet, Git, Digests
<1>1. CASE AddWorktree
  BY <1>1 DEF AddWorktree
<1>2. CASE RecordReady
  BY <1>2 DEF RecordReady
<1>3. ASSUME NEW v \in Verdicts, GateDecides(v) PROVE RestType'
  BY <1>3 DEF Verdicts, GateDecides
<1>4. CASE GateFails
  BY <1>4 DEF CleanupSteps, GateFails, End
<1>5. CASE BindReceipt
  BY <1>5 DEF BindReceipt
<1>6. CASE ReceiptUnbound
  BY <1>6 DEF CleanupSteps, ReceiptUnbound, End
<1>7. CASE BindDispatch
  BY <1>7 DEF BindDispatch
<1>8. CASE DispatchUnbound
  BY <1>8 DEF CleanupSteps, DispatchUnbound, End
<1>9. CASE Reconcile
  BY <1>9 DEF Reconcile
<1>10. CASE Check
  BY <1>10 DEF Check
<1>11. CASE Recheck
  BY <1>11 DEF Recheck
<1>12. CASE RecheckRollback
  BY <1>12 DEF RecheckRollback
<1>13. CASE RemoveWorktree
  BY <1>13 DEF RemoveWorktree
<1>14. CASE RecordRemoval
  BY <1>14 DEF RecordRemoval
<1>15. CASE CheckRef
  BY <1>15 DEF CheckRef
<1>16. CASE DeleteRef
  BY <1>16 DEF DeleteRef
<1>17. CASE DeleteRefused
  BY <1>17 DEF DeleteRefused
<1>18. CASE Finish
  BY <1>18 DEF CleanupSteps, Finish, End
<1>19. CASE Fail
  BY <1>19 DEF CleanupSteps, Fail, End
<1>20. CASE FailGit
  BY <1>20 DEF CleanupSteps, FailGit, End
<1>21. CASE Signalled
  BY <1>21 DEF Signalled
<1>22. CASE Show
  BY <1>22 DEF Files, CleanupSteps, Show, End, disk
<1>23. CASE StartInit
  BY <1>23 DEF StartInit, Begin
<1>24. CASE StartVerify
  BY <1>24 DEF StartVerify, Begin
<1>25. CASE RefuseVerify
  BY <1>25 DEF RefuseVerify, proc
<1>26. CASE StartRecord
  BY <1>26 DEF StartRecord, Begin, Digest
<1>27. CASE StartRollback
  BY <1>27 DEF StartRollback, Begin
<1>28. CASE StartCleanup
  BY <1>28 DEF Files, StartCleanup, Begin, Entry
<1>29. ASSUME NEW d \in Discards, StartAbort(d) PROVE RestType'
  BY <1>29 DEF Files, StartAbort, Begin, Entry
<1>30. CASE AddFails
  BY <1>30 DEF AddFails, AddCut, ChildCut, RemovalCut, Fault
<1>31. CASE GitFails
  BY <1>31 DEF GitFails, AddCut, ChildCut, Fault, RemovalCut
<1>32. CASE GitRefuses
  BY <1>32 DEF GitRefuses, Fault
<1>33. CASE BindFails
  BY <1>33 DEF CleanupSteps, BindFails, End, Fault
<1>34. CASE SignalInit
  BY <1>34 DEF SignalInit, AddCut, ChildCut, Fault, RemovalCut
<1>35. CASE SignalGate
  BY <1>35 DEF SignalGate, Fault
<1>36. CASE SignalDestroyer
  BY <1>36 DEF SignalDestroyer, AddCut, ChildCut, Destroyers, Fault, RemovalCut
<1>37. CASE HandlerFails
  BY <1>37 DEF HandlerFails, Fault
<1>38. CASE Stop
  BY <1>38 DEF CleanupSteps, Stop, AddCut, ChildCut, End, Fault, RemovalCut
<1>39. CASE Look
  BY <1>39 DEF Files, Look, Others, disk, proc
<1>40. ASSUME NEW c \in Contents, Edit(c) PROVE RestType'
  BY <1>40 DEF Edit, Hold, proc, view
<1>41. CASE MoveBranch
  BY <1>41 DEF MoveBranch, Hold, proc, view
<1>42. CASE Repair
  BY <1>42 DEF Repair, Others, proc, view
<1>43. CASE StartDispatch
  BY <1>43 DEF StartDispatch, Others, disk, proc, view
<1>44. ASSUME NEW s \in {"failed", "completed"}, EndDispatch(s) PROVE RestType'
  BY <1>44 DEF EndDispatch, Others, disk, proc, view
<1>46. CASE GateFinal
  BY <1>46 DEF GateFinal, Digest
<1>47. CASE CompareReceipt
  BY <1>47 DEF CompareReceipt
<1>45. CASE UNCHANGED vars
  BY <1>45 DEF vars, disk, view, proc
<1>. QED
  BY <1>1, <1>2, <1>3, <1>4, <1>5, <1>6, <1>7, <1>8, <1>9, <1>10, <1>11, <1>12, <1>13,
     <1>14, <1>15, <1>16, <1>17, <1>18, <1>19, <1>20, <1>21, <1>22, <1>23, <1>24, <1>25,
     <1>26, <1>27, <1>28, <1>29, <1>30, <1>31, <1>32, <1>33, <1>34, <1>35, <1>36, <1>37,
     <1>38, <1>39, <1>40, <1>41, <1>42, <1>43, <1>44, <1>45, <1>46, <1>47 DEF Next, Step,
     Commands,
     Faults, Environment

\* Type correctness is inductive by itself.
LEMMA TypeStep == ASSUME TypeOK, [Next]_vars PROVE TypeOK'
BY FileStep, FlagsStep, RestStep DEF TypeOK, RestType

\* Reconciling a state in progress keeps it sound, and ends it only when the
\* worktree and the branch are gone.
LEMMA ReconciledSound ==
    ASSUME file \in Files, Sound(file), NEW c \in Destroyers, file.phase = Busy(c)
    PROVE  Sound(Reconciled(c))
<1> DEFINE s == IF file.step = "none" /\ Removed THEN "worktree-removed" ELSE file.step
           g == [file EXCEPT !.step = "branch-removed", !.phase = Terminal(c),
                             !.failure = "none"]
           h == [file EXCEPT !.step = s]
<1>1. s \in {"none", "worktree-removed"} /\ (s = "worktree-removed" => Removed)
  BY DEF Sound, Busy, Destroyers
<1>2. h.phase = file.phase /\ h.step = s /\ h.verdict = file.verdict /\ h.run = file.run
  BY DEF Files
<1>3. g.phase = Terminal(c) /\ g.step = "branch-removed" /\ g.verdict = file.verdict
      /\ g.run = file.run
  BY DEF Files
<1>4. Sound(h)
  BY <1>1, <1>2 DEF Sound, Busy, Destroyers
<1>5. ASSUME s = "worktree-removed", ref = "absent" PROVE Sound(g)
  BY <1>1, <1>3, <1>5 DEF Sound, Busy, Terminal, Destroyers
<1>. QED
  BY <1>4, <1>5 DEF Reconciled

\* Noting a failure in a sound state keeps it sound.
LEMMA FailedSound ==
    ASSUME NEW f \in Files, Sound(f), NEW c, NEW b PROVE Sound(Failed(f, c, b))
<1>1. [f EXCEPT !.failure = b].phase = f.phase /\ [f EXCEPT !.failure = b].step = f.step
      /\ [f EXCEPT !.failure = b].verdict = f.verdict /\ [f EXCEPT !.failure = b].run = f.run
  BY DEF Files
<1>. QED
  BY <1>1 DEF Sound, Failed

\* Every step keeps the state file true to Git and to its evidence.
LEMMA FileInvStep == ASSUME IInv, TypeOK', [Next]_vars PROVE FileInv'
<1>. USE DEF IInv, FileInv, Sound, PlaceInv, Removed, KeepFile, Only, Quiet, Bare, Git,
   Write
<1>1. CASE AddWorktree
  BY <1>1 DEF AddWorktree
<1>2. CASE RecordReady
  BY <1>2 DEF RecordReady
<1>3. ASSUME NEW v \in Verdicts, GateDecides(v) PROVE FileInv'
  BY <1>3 DEF GateDecides
<1>4. CASE GateFails
  BY <1>4 DEF GateFails
<1>5. CASE BindReceipt
  <2> DEFINE f == [Bare(Judged(verdict), "none") EXCEPT !.verdict = verdict, !.digest = noted]
  <2>1. f.phase = Judged(verdict) /\ f.step = "none" /\ f.verdict = verdict
    BY DEF Bare
  <2>2. f.phase \notin {"cleanup-in-progress", "cleaned", "dispatch-failed",
                       "abort-in-progress", "aborted", "absent"}
        /\ (f.phase = "verified-rejected" => verdict = "rejected")
    BY <1>5, <2>1 DEF Judged, BindReceipt, Only, IInv, PlaceInv, Verdicts
  <2>3. file' = f /\ fresh' = FALSE /\ UNCHANGED <<dispatch, shown>>
    BY <1>5 DEF BindReceipt, Write, Quiet
  <2>. QED
    BY <2>1, <2>2, <2>3 DEF IInv, FileInv, Sound
<1>6. CASE ReceiptUnbound
  BY <1>6 DEF ReceiptUnbound
<1>7. CASE BindDispatch
  BY <1>7 DEF BindDispatch
<1>8. CASE DispatchUnbound
  BY <1>8 DEF DispatchUnbound
<1>9. CASE Reconcile
  <2>1. Removed' = Removed /\ ref' = ref /\ UNCHANGED <<dispatch, shown>>
    BY <1>9 DEF Reconcile, Git, Quiet, Removed
  <2>2. file.phase = Busy(cmd) /\ cmd \in Destroyers
    BY <1>9 DEF Reconcile, Only, IInv, PlaceInv
  <2>3. Sound(Reconciled(cmd)) /\ Sound(file)
    BY <2>2, ReconciledSound DEF IInv, TypeOK, FileInv
  <2>4. UNCHANGED <<file, fresh>> \/ (file' = Reconciled(cmd) /\ fresh' = FALSE)
    BY <1>9 DEF Reconcile, KeepFile, Write
  <2>. QED
    BY <2>1, <2>3, <2>4 DEF IInv, FileInv, Sound
<1>10. CASE Check
  <2> DEFINE f == [file EXCEPT !.phase = Busy(cmd), !.failure = "none"]
  <2>1. Removed' = Removed /\ ref' = ref /\ UNCHANGED <<dispatch, shown>>
    BY <1>10 DEF Check, Git, Quiet, Removed
  <2>2. f.phase = Busy(cmd) /\ f.step = file.step /\ f.verdict = file.verdict
        /\ f.run = file.run
    BY DEF IInv, TypeOK, Files
  <2>3. cmd \in Destroyers /\ file.phase \in {Origin(cmd), Busy(cmd)} /\ file.step = "none"
    BY <1>10 DEF Check, Only, IInv, PlaceInv
  <2>4. Sound(f)
    BY <2>2, <2>3 DEF Sound, IInv, FileInv, Busy, Origin, Destroyers
  <2>5. UNCHANGED <<file, fresh>> \/ (file' = f /\ fresh' = FALSE)
    BY <1>10 DEF Check, KeepFile, Write
  <2> HIDE DEF f
  <2>. QED
    BY <2>1, <2>4, <2>5 DEF IInv, FileInv, Sound
<1>11. CASE Recheck
  BY <1>11 DEF Recheck
<1>12. CASE RecheckRollback
  BY <1>12 DEF RecheckRollback
<1>13. CASE RemoveWorktree
  BY <1>13 DEF RemoveWorktree
<1>14. CASE RecordRemoval
  BY <1>14 DEF TypeOK, Files, Busy, Terminal, Origin, Destroyers, Destroying, RecordRemoval,
     Goto
<1>15. CASE CheckRef
  BY <1>15 DEF CheckRef
<1>16. CASE DeleteRef
  BY <1>16 DEF DeleteRef
<1>17. CASE DeleteRefused
  BY <1>17 DEF DeleteRefused
<1>18. CASE Finish
  <2> DEFINE f == [file EXCEPT !.step = "branch-removed", !.phase = Terminal(cmd),
                               !.failure = "none"]
  <2>1. Removed' = Removed /\ ref' = ref /\ UNCHANGED <<dispatch, shown>>
    BY <1>18 DEF Finish, Git, Quiet, Removed
  <2>2. Removed /\ ref = "absent" /\ cmd \in Destroying
    BY <1>18 DEF Finish, IInv, PlaceInv
  <2>3. Sound(Absent)
    BY <2>2 DEF Sound, Absent, Bare
  <2>4. f.phase = Terminal(cmd) /\ f.step = "branch-removed" /\ f.verdict = file.verdict
        /\ f.run = file.run
    BY DEF IInv, TypeOK, Files
  <2>5. ASSUME cmd # "rollback" PROVE cmd \in Destroyers /\ file.phase = Busy(cmd)
    BY <1>18, <2>2, <2>5 DEF Finish, IInv, PlaceInv, Destroyers, Destroying
  <2>6. ASSUME cmd # "rollback" PROVE Sound(f)
    BY <2>2, <2>4, <2>5, <2>6 DEF Sound, IInv, FileInv, Busy, Terminal, Destroyers
  <2>7. CASE cmd = "rollback"
    <3>1. UNCHANGED <<file, fresh>> \/ (file' = Absent /\ fresh' = FALSE)
      BY <1>18, <2>7 DEF Finish, KeepFile, Write
    <3>. QED
      BY <2>1, <2>3, <3>1 DEF IInv, FileInv, Sound
  <2>8. CASE cmd # "rollback"
    <3>1. file' = f /\ fresh' = FALSE
      BY <1>18, <2>8 DEF Finish, Write
    <3>. QED
      BY <2>1, <2>6, <2>8, <3>1 DEF IInv, FileInv, Sound
  <2>. QED
    BY <2>7, <2>8
<1>19. CASE Fail
  <2>1. Removed' = Removed /\ ref' = ref /\ UNCHANGED <<dispatch, shown>>
    BY <1>19 DEF Fail, Git, Quiet, Removed
  <2>2. CASE cmd \in Destroyers /\ file.phase = Busy(cmd)
    <3>1. Sound(Reconciled(cmd)) /\ Reconciled(cmd) \in Files
      BY <2>2, ReconciledSound, ReconciledType DEF IInv, TypeOK, FileInv
    <3>2. Sound(Failed(Reconciled(cmd), cmd, "cleanup-failed"))
      BY <3>1, FailedSound
    <3>3. file' = Failed(Reconciled(cmd), cmd, "cleanup-failed") /\ fresh' = FALSE
      BY <1>19, <2>2 DEF Fail, Write
    <3>. QED
      BY <2>1, <3>2, <3>3 DEF IInv, FileInv, Sound
  <2>3. CASE ~(cmd \in Destroyers /\ file.phase = Busy(cmd))
    BY <1>19, <2>1, <2>3 DEF Fail, KeepFile, IInv, FileInv, Sound
  <2>. QED
    BY <2>2, <2>3
<1>20. CASE FailGit
  BY <1>20 DEF TypeOK, Files, Busy, Terminal, Origin, Destroyers, Destroying, FailGit, End,
     Failed
<1>21. CASE Signalled
  <2>1. Removed' = Removed /\ ref' = ref /\ UNCHANGED <<dispatch, shown>>
    BY <1>21 DEF Signalled, Git, Quiet, Removed
  <2>2. CASE cmd \in Destroyers /\ file.phase = Busy(cmd)
    <3>1. Sound(Reconciled(cmd)) /\ Reconciled(cmd) \in Files
      BY <2>2, ReconciledSound, ReconciledType DEF IInv, TypeOK, FileInv
    <3>2. Sound(Failed(Reconciled(cmd), cmd, "interrupted"))
      BY <3>1, FailedSound
    <3>3. file' = Failed(Reconciled(cmd), cmd, "interrupted") /\ fresh' = FALSE
      BY <1>21, <2>2 DEF Signalled, Write
    <3>. QED
      BY <2>1, <3>2, <3>3 DEF IInv, FileInv, Sound
  <2>3. CASE ~(cmd \in Destroyers /\ file.phase = Busy(cmd))
    BY <1>21, <2>1, <2>3 DEF Signalled, KeepFile, IInv, FileInv, Sound, PlaceInv, Destroyers
  <2>. QED
    BY <2>2, <2>3
<1>22. CASE Show
  BY <1>22 DEF Show, disk
<1>23. CASE StartInit
  BY <1>23 DEF StartInit, Absent
<1>24. CASE StartVerify
  BY <1>24 DEF StartVerify
<1>25. CASE RefuseVerify
  BY <1>25 DEF RefuseVerify
<1>26. CASE StartRecord
  BY <1>26 DEF StartRecord
<1>27. CASE StartRollback
  BY <1>27 DEF StartRollback
<1>28. CASE StartCleanup
  BY <1>28 DEF StartCleanup
<1>29. ASSUME NEW d \in Discards, StartAbort(d) PROVE FileInv'
  BY <1>29 DEF StartAbort
<1>30. CASE AddFails
  BY <1>30 DEF AddFails
<1>31. CASE GitFails
  BY <1>31 DEF Busy, Terminal, Origin, Destroyers, Destroying, GitFails, AddCut, ChildCut,
     Fault, Goto, RemovalCut
<1>32. CASE GitRefuses
  BY <1>32 DEF GitRefuses
<1>33. CASE BindFails
  BY <1>33 DEF BindFails
<1>34. CASE SignalInit
  BY <1>34 DEF SignalInit
<1>35. CASE SignalGate
  BY <1>35 DEF SignalGate
<1>36. CASE SignalDestroyer
  BY <1>36 DEF Busy, Terminal, Origin, Destroyers, Destroying, SignalDestroyer, AddCut,
     ChildCut, Fault, Goto, RemovalCut
<1>37. CASE HandlerFails
  BY <1>37 DEF HandlerFails
<1>38. CASE Stop
  BY <1>38 DEF Busy, Terminal, Origin, Destroyers, Destroying, Stop, AddCut, ChildCut, End,
     Fault, RemovalCut
<1>39. CASE Look
  BY <1>39 DEF Look, Others, disk
<1>40. ASSUME NEW c \in Contents, Edit(c) PROVE FileInv'
  BY <1>40, ContentAssumption DEF Edit, Hold, view
<1>41. CASE MoveBranch
  BY <1>41 DEF MoveBranch, Hold, view
<1>42. CASE Repair
  BY <1>42 DEF Repair, Others, view
<1>43. CASE StartDispatch
  BY <1>43 DEF TypeOK, StartDispatch, Contents, Others, disk, proc, view
<1>44. ASSUME NEW s \in {"failed", "completed"}, EndDispatch(s) PROVE FileInv'
  BY <1>44 DEF EndDispatch, Others, disk, view
<1>46. CASE GateFinal
  BY <1>46 DEF GateFinal
<1>47. CASE CompareReceipt
  BY <1>47 DEF CompareReceipt
<1>45. CASE UNCHANGED vars
  BY <1>45 DEF vars, disk, view
<1>. QED
  BY <1>1, <1>2, <1>3, <1>4, <1>5, <1>6, <1>7, <1>8, <1>9, <1>10, <1>11, <1>12, <1>13,
     <1>14, <1>15, <1>16, <1>17, <1>18, <1>19, <1>20, <1>21, <1>22, <1>23, <1>24, <1>25,
     <1>26, <1>27, <1>28, <1>29, <1>30, <1>31, <1>32, <1>33, <1>34, <1>35, <1>36, <1>37,
     <1>38, <1>39, <1>40, <1>41, <1>42, <1>43, <1>44, <1>45, <1>46, <1>47 DEF Next, Step,
     Commands,
     Faults, Environment

\* Every step leads a command to a place where its facts hold.
LEMMA PlaceInvStep == ASSUME IInv, TypeOK', [Next]_vars PROVE PlaceInv'
<1>. USE DEF IInv, PlaceInv, Removed, Destroyers, Destroying, Goto, KeepFile, Only, Quiet,
   Bare, Git, Write, FileInv, Sound, Busy, Terminal, Origin
<1>1. CASE AddWorktree
  BY <1>1 DEF AddWorktree
<1>2. CASE RecordReady
  BY <1>2 DEF RecordReady
<1>3. ASSUME NEW v \in Verdicts, GateDecides(v) PROVE PlaceInv'
  BY <1>3 DEF GateDecides
<1>4. CASE GateFails
  BY <1>4 DEF GateFails, End
<1>5. CASE BindReceipt
  BY <1>5 DEF BindReceipt
<1>6. CASE ReceiptUnbound
  BY <1>6 DEF ReceiptUnbound, End
<1>7. CASE BindDispatch
  BY <1>7 DEF BindDispatch
<1>8. CASE DispatchUnbound
  BY <1>8 DEF DispatchUnbound, End
<1>9. CASE Reconcile
  <2>1. cmd \in Destroyers /\ at = "reconcile" /\ cmd' = cmd /\ UNCHANGED Git
        /\ UNCHANGED <<noted, grant, own, verdict, dispatch>>
    BY <1>9 DEF Reconcile
  <2>2. cmd # "rollback" /\ file.phase = Busy(cmd) /\ grant = file.step /\ noted = file.digest
    BY <2>1
  <2>3. CASE Reconciled(cmd) = file
    <3>1. file' = file /\ at' = IF file.step = "none" THEN "check" ELSE "ref"
      BY <1>9, <2>3 DEF Reconcile
    <3>2. Busy(cmd) # Terminal(cmd)
      BY <2>1
    <3>3. file.step \in {"none", "worktree-removed"}
      BY <2>1, <2>2 DEF TypeOK, Files, CleanupSteps
    <3>. QED
      BY <2>1, <2>2, <3>1, <3>2, <3>3
  <2>4. CASE Reconciled(cmd) # file
    <3>1. file' = Reconciled(cmd) /\ at' = "show"
      BY <1>9, <2>4 DEF Reconcile
    <3>2. /\ Reconciled(cmd).phase \in {Busy(cmd), Terminal(cmd)}
          /\ Reconciled(cmd).digest = file.digest
      BY <2>2 DEF Reconciled, TypeOK, Files
    <3>. QED
      BY <2>1, <2>2, <3>1, <3>2
  <2>. QED
    BY <2>3, <2>4
<1>10. CASE Check
  BY <1>10 DEF TypeOK, Files, Check, Contents, Ready, Untouched
<1>11. CASE Recheck
  BY <1>11 DEF Recheck
<1>12. CASE RecheckRollback
  BY <1>12 DEF RecheckRollback
<1>13. CASE RemoveWorktree
  BY <1>13 DEF RemoveWorktree
<1>14. CASE RecordRemoval
  BY <1>14 DEF TypeOK, Files, RecordRemoval
<1>15. CASE CheckRef
  BY <1>15 DEF CheckRef
<1>16. CASE DeleteRef
  BY <1>16 DEF DeleteRef
<1>17. CASE DeleteRefused
  BY <1>17 DEF DeleteRefused
<1>18. CASE Finish
  BY <1>18, ZenonT(30) DEF TypeOK, Files, Finish, Absent, DispatchAbsent, End
<1>19. CASE Fail
  BY <1>19 DEF Fail, End
<1>20. CASE FailGit
  BY <1>20 DEF FailGit, End
<1>21. CASE Signalled
  BY <1>21, ZenonT(30) DEF TypeOK, Files, Signalled, Failed, Reconciled
<1>22. CASE Show
  BY <1>22 DEF Show, End, disk
<1>23. CASE StartInit
  BY <1>23 DEF StartInit, Begin
<1>24. CASE StartVerify
  BY <1>24 DEF StartVerify, Begin
<1>25. CASE RefuseVerify
  BY <1>25 DEF RefuseVerify, proc
<1>26. CASE StartRecord
  BY <1>26 DEF StartRecord, Approved, Begin
<1>27. CASE StartRollback
  BY <1>27 DEF StartRollback, Approved, Begin
<1>28. CASE StartCleanup
  BY <1>28 DEF StartCleanup, Approved, Begin, Entry
<1>29. ASSUME NEW d \in Discards, StartAbort(d) PROVE PlaceInv'
  BY <1>29 DEF StartAbort, Approved, Begin, DispatchBound, Entry
<1>30. CASE AddFails
  BY <1>30 DEF AddFails
<1>31. CASE GitFails
  BY <1>31 DEF GitFails
<1>32. CASE GitRefuses
  BY <1>32 DEF GitRefuses
<1>33. CASE BindFails
  BY <1>33 DEF BindFails, End
<1>34. CASE SignalInit
  BY <1>34 DEF SignalInit
<1>35. CASE SignalGate
  BY <1>35 DEF SignalGate
<1>36. CASE SignalDestroyer
  BY <1>36 DEF SignalDestroyer
<1>37. CASE HandlerFails
  BY <1>37 DEF HandlerFails
<1>38. CASE Stop
  BY <1>38 DEF Stop, End
<1>39. CASE Look
  BY <1>39 DEF Look, Others, disk, proc
<1>40. ASSUME NEW c \in Contents, Edit(c) PROVE PlaceInv'
  BY <1>40, ContentAssumption DEF Edit, Hold, proc, view
<1>41. CASE MoveBranch
  BY <1>41 DEF MoveBranch, Hold, proc, view
<1>42. CASE Repair
  BY <1>42 DEF Repair, Others, proc, view
<1>43. CASE StartDispatch
  BY <1>43 DEF StartDispatch, Others, disk, proc, view
<1>44. ASSUME NEW s \in {"failed", "completed"}, EndDispatch(s) PROVE PlaceInv'
  BY <1>44 DEF EndDispatch, Others, disk, proc, view
<1>46. CASE GateFinal
  BY <1>46 DEF GateFinal
<1>47. CASE CompareReceipt
  BY <1>47 DEF CompareReceipt
<1>45. CASE UNCHANGED vars
  BY <1>45 DEF vars, disk, view, proc
<1>. QED
  BY <1>1, <1>2, <1>3, <1>4, <1>5, <1>6, <1>7, <1>8, <1>9, <1>10, <1>11, <1>12, <1>13,
     <1>14, <1>15, <1>16, <1>17, <1>18, <1>19, <1>20, <1>21, <1>22, <1>23, <1>24, <1>25,
     <1>26, <1>27, <1>28, <1>29, <1>30, <1>31, <1>32, <1>33, <1>34, <1>35, <1>36, <1>37,
     <1>38, <1>39, <1>40, <1>41, <1>42, <1>43, <1>44, <1>45, <1>46, <1>47 DEF Next, Step,
     Commands,
     Faults, Environment

\* No step makes abort's worktree differ from the recorded candidate.
LEMMA AbortStep == ASSUME IInv, TypeOK', [Next]_vars PROVE AbortExact'
<1>1. CASE \/ AddWorktree \/ RecordReady \/ GateFails \/ BindReceipt
           \/ ReceiptUnbound \/ BindDispatch \/ DispatchUnbound \/ Reconcile \/ Check
  BY <1>1 DEF AddWorktree, RecordReady, GateFails, BindReceipt, ReceiptUnbound,
     BindDispatch, DispatchUnbound, Reconcile, Check, IInv, AbortExact, Goto, KeepFile,
     Write, End
<1>2. CASE \/ RemoveWorktree \/ RecordRemoval \/ CheckRef \/ DeleteRef \/ DeleteRefused
           \/ Finish \/ Fail \/ FailGit \/ Signalled \/ Show
  BY <1>2 DEF RemoveWorktree, RecordRemoval, CheckRef, DeleteRef, DeleteRefused, Finish,
     Fail, FailGit, Signalled, Show, IInv, AbortExact, KeepFile, Goto, Write, End, disk
<1>3. CASE \/ StartInit \/ StartVerify \/ RefuseVerify \/ StartRecord \/ StartRollback
           \/ StartCleanup
  BY <1>3 DEF StartInit, StartVerify, RefuseVerify, StartRecord, StartRollback,
     StartCleanup, IInv, AbortExact, Begin, Write, proc, KeepFile
<1>4. CASE \/ AddFails \/ GitFails \/ GitRefuses \/ BindFails \/ SignalInit
           \/ SignalGate \/ SignalDestroyer \/ HandlerFails \/ Stop
  BY <1>4 DEF AddFails, GitFails, GitRefuses, BindFails, SignalInit, SignalGate,
     SignalDestroyer, HandlerFails, Stop, IInv, AbortExact, Goto, Write, KeepFile, End
<1>5. CASE \/ Look \/ MoveBranch \/ Repair \/ StartDispatch
  BY <1>5 DEF Look, MoveBranch, Repair, StartDispatch, IInv, AbortExact, Others, Hold,
     disk, proc
<1>6. ASSUME NEW v \in Verdicts, GateDecides(v) PROVE AbortExact'
  BY <1>6 DEF IInv, AbortExact, GateDecides, KeepFile
<1>14. CASE GateFinal \/ CompareReceipt
  BY <1>14 DEF IInv, AbortExact, GateFinal, CompareReceipt, Goto, KeepFile
<1>7. CASE Recheck
  BY <1>7 DEF IInv, PlaceInv, AbortExact, Destroyers, Recheck, Contents, Git, Goto,
     KeepFile, Only, Quiet, Ready, Untouched
<1>8. CASE RecheckRollback
  BY <1>8 DEF IInv, PlaceInv, AbortExact, RecheckRollback, Goto, KeepFile, Only, Ready,
     Untouched
<1>9. ASSUME NEW d \in Discards, StartAbort(d) PROVE AbortExact'
  BY <1>9 DEF IInv, PlaceInv, AbortExact, StartAbort, Begin, Busy, Entry, KeepFile
<1>10. ASSUME NEW c \in Contents, Edit(c) PROVE AbortExact'
  BY <1>10 DEF IInv, PlaceInv, AbortExact, Edit, Hold
<1>11. ASSUME NEW s \in {"failed", "completed"}, EndDispatch(s) PROVE AbortExact'
  BY <1>11 DEF IInv, AbortExact, EndDispatch, Others, disk, proc
<1>12. CASE UNCHANGED vars
  BY <1>12 DEF IInv, AbortExact, vars, disk, proc
<1>. QED
  BY <1>1, <1>2, <1>3, <1>4, <1>5, <1>6, <1>7, <1>8, <1>9, <1>10, <1>11, <1>12, <1>14
     DEF Next, Step, Commands, Faults, Environment

\* The inductive invariant holds before the first command,
LEMMA InitInv == Init => IInv
<1>1. ASSUME Init PROVE TypeOK
  <2>1. file \in Files
    BY <1>1, BareType DEF Init, Absent, Phases, Failures
  <2>2. registered \in BOOLEAN /\ fresh \in BOOLEAN /\ own \in BOOLEAN /\ held \in BOOLEAN
    BY <1>1, Zenon DEF Init
  <2>3. RestType
    BY <1>1 DEF Init, RestType, Trees, CleanupSteps, Digests, Places
  <2>. QED
    BY <2>1, <2>2, <2>3 DEF TypeOK, RestType
<1>2. Init => FileInv /\ PlaceInv /\ AbortExact
  BY DEF Init, FileInv, Sound, PlaceInv, AbortExact, Absent, Bare, Removed, Destroyers, Destroying
<1>. QED
  BY <1>1, <1>2 DEF IInv

\* and every step keeps it.
LEMMA Induction == ASSUME IInv, [Next]_vars PROVE IInv'
<1>1. TypeOK'
  BY TypeStep DEF IInv
<1>. QED
  BY <1>1, FileInvStep, PlaceInvStep, AbortStep DEF IInv

\* What the proofs below rest on: IInv holds in every reachable state.
THEOREM Invariance == Spec => []IInv
BY InitInv, Induction, PTL DEF Spec

\* Every reachable state has the types TypeOK states.
THEOREM TypeCorrect == Spec => []TypeOK
<1>1. IInv => TypeOK
  BY DEF IInv
<1>. QED
  BY <1>1, Invariance, PTL

\* cleanup and abort persist each step before the next destruction.
THEOREM ProgressFirstHolds == Spec => []ProgressFirst
<1>1. IInv => ProgressFirst
  BY DEF IInv, ProgressFirst, FileInv, Sound, PlaceInv, Busy, Destroyers
<1>. QED
  BY <1>1, Invariance, PTL

\* The branch is never deleted under an approval given before the operator knew
\* that the worktree was gone, unless the same command removed it.
THEOREM ApprovalUnspentHolds == Spec => []ApprovalUnspent
<1>1. IInv => ApprovalUnspent
  BY DEF IInv, ApprovalUnspent, PlaceInv
<1>. QED
  BY <1>1, Invariance, PTL

\* What abort removes is the candidate recorded with the failed dispatch.
THEOREM AbortExactHolds == Spec => []AbortExact
<1>1. IInv => AbortExact
  BY DEF IInv
<1>. QED
  BY <1>1, Invariance, PTL

\* A job said to be gone is gone.
THEOREM TerminalTruthHolds == Spec => []TerminalTruth
<1>1. IInv => TerminalTruth
  BY DEF IInv, FileInv, Sound, TerminalTruth
<1>. QED
  BY <1>1, Invariance, PTL

\* Nobody but a controller changes a worktree between its comparison and its
\* removal.
LEMMA RemovalStep == ASSUME IInv, RemovalExact, TypeOK', [Next]_vars PROVE RemovalExact'
<1>1. CASE \/ AddWorktree \/ RecordReady \/ GateFails \/ BindReceipt
           \/ ReceiptUnbound \/ BindDispatch \/ DispatchUnbound \/ Reconcile \/ Check
  BY <1>1 DEF AddWorktree, RecordReady, GateFails, BindReceipt, ReceiptUnbound,
     BindDispatch, DispatchUnbound, Reconcile, Check, IInv, RemovalExact, Goto, KeepFile,
     Write, End
<1>2. CASE \/ RemoveWorktree \/ RecordRemoval \/ CheckRef \/ DeleteRef \/ DeleteRefused
           \/ Finish \/ Fail \/ FailGit \/ Signalled \/ Show
  BY <1>2 DEF RemoveWorktree, RecordRemoval, CheckRef, DeleteRef, DeleteRefused, Finish,
     Fail, FailGit, Signalled, Show, IInv, RemovalExact, KeepFile, Goto, Write, End, disk
<1>3. CASE \/ StartInit \/ StartVerify \/ RefuseVerify \/ StartRecord \/ StartRollback
           \/ StartCleanup
  BY <1>3 DEF StartInit, StartVerify, RefuseVerify, StartRecord, StartRollback,
     StartCleanup, RemovalExact, Begin, Entry, proc, Git, Quiet, Write, KeepFile
<1>4. CASE \/ AddFails \/ GitFails \/ GitRefuses \/ BindFails \/ SignalInit
           \/ SignalGate \/ SignalDestroyer \/ HandlerFails \/ Stop
  BY <1>4 DEF AddFails, GitFails, GitRefuses, BindFails, SignalInit, SignalGate,
     SignalDestroyer, HandlerFails, Stop, IInv, RemovalExact, Goto, Write, KeepFile, End
<1>5. CASE \/ Look \/ MoveBranch \/ Repair
  BY <1>5 DEF Look, MoveBranch, Repair, IInv, TypeOK, RemovalExact, Others, Hold, disk,
     proc
<1>13. CASE StartDispatch
  <2>1. dispatch.run \in Nat /\ dispatch'.run = dispatch.run + 1
    BY <1>13 DEF StartDispatch, IInv, TypeOK
  <2>. QED
    BY <2>1 DEF RemovalExact
<1>6. ASSUME NEW v \in Verdicts, GateDecides(v) PROVE RemovalExact'
  BY <1>6 DEF IInv, RemovalExact, GateDecides, KeepFile
<1>14. CASE GateFinal \/ CompareReceipt
  BY <1>14 DEF IInv, RemovalExact, GateFinal, CompareReceipt, Goto, KeepFile
<1>7. CASE Recheck
  BY <1>7 DEF IInv, PlaceInv, RemovalExact, Destroyers, Recheck, Contents, Git, Goto,
     KeepFile, Only, Quiet, Ready, Untouched
<1>8. CASE RecheckRollback
  BY <1>8 DEF RemovalExact, RecheckRollback, Goto, KeepFile, Only, Untouched, Git, Quiet,
     Others, disk, view
<1>9. ASSUME NEW d \in Discards, StartAbort(d) PROVE RemovalExact'
  BY <1>9 DEF IInv, PlaceInv, RemovalExact, StartAbort, Begin, Busy, Entry, KeepFile
<1>10. ASSUME NEW c \in Contents, Edit(c) PROVE RemovalExact'
  BY <1>10 DEF IInv, FileInv, RemovalExact, Edit, Hold, view
<1>11. ASSUME NEW s \in {"failed", "completed"}, EndDispatch(s) PROVE RemovalExact'
  BY <1>11 DEF IInv, RemovalExact, EndDispatch, Others, disk, proc
<1>12. CASE UNCHANGED vars
  BY <1>12 DEF IInv, RemovalExact, vars, disk, proc
<1>. QED
  BY <1>1, <1>2, <1>3, <1>4, <1>5, <1>6, <1>7, <1>8, <1>9, <1>10, <1>11, <1>12, <1>13,
     <1>14 DEF Next, Step, Commands, Faults, Environment

\* What a command removes is the candidate it compared, as long as no attempt
\* was ever made.
THEOREM RemovalExactHolds == Spec => []RemovalExact
<1>1. Init => RemovalExact
  BY DEF Init, RemovalExact
<1>. QED
  BY <1>1, RemovalStep, Invariance, TypeCorrect, PTL DEF Spec

\* Cleanup, abort and rollback-ready destroy what was condemned and approved.
THEOREM DestructionIsExact == Spec => []DestructionExact
BY ProgressFirstHolds, ApprovalUnspentHolds, AbortExactHolds, RemovalExactHolds, PTL
   DEF DestructionExact

-----------------------------------------------------------------------------
(* No state that a command writes is refused (_validate_phase_fields).        *)

\* The fields of the state agree with its phase, and a binding about to be
\* written has a candidate to name.
AcceptedInv ==
    /\ Consistent(file)
    /\ at \in {"publish", "bind", "accept", "lock"} => noted # "none"

\* The digest of a candidate is never the absent digest.
LEMMA DigestNamed == ASSUME tree \in Trees PROVE Digest # "none"
BY ContentAssumption DEF Digest, Trees

\* The states without evidence that the commands write are accepted.
LEMMA BareAccepted ==
    /\ Consistent(Absent)
    /\ Consistent(Bare("initializing", "none")) /\ Consistent(Bare("ready", "none"))
    /\ Consistent(Bare("verifying", "none"))
    /\ Consistent(Bare("init-failed", "init-failed"))
    /\ Consistent(Bare("init-interrupted", "interrupted"))
    /\ Consistent(Bare("verify-failed", "verify-failed"))
    /\ Consistent(Bare("verify-interrupted", "interrupted"))
BY DEF Consistent, Bound, ReceiptOf, StepsOf, FailuresOf, Attempted, Absent, Bare

\* So is a state with a receipt bound to it,
LEMMA ReceiptAccepted ==
    ASSUME NEW v \in Verdicts, NEW d, d # "none"
    PROVE  Consistent([Bare(Judged(v), "none") EXCEPT !.verdict = v, !.digest = d])
<1> DEFINE f == [Bare(Judged(v), "none") EXCEPT !.verdict = v, !.digest = d]
<1>1. f.phase = Judged(v) /\ f.step = "none" /\ f.verdict = v /\ f.run = 0
      /\ f.digest = d /\ f.failure = "none"
  BY DEF Bare
<1> HIDE DEF f
<1>2. Consistent(f)
  <2>1. CASE v = "gate-passed"
    BY <1>1, <2>1 DEF Judged, Consistent, Bound, ReceiptOf, StepsOf, FailuresOf, Attempted
  <2>2. CASE v = "routed"
    BY <1>1, <2>2 DEF Judged, Consistent, Bound, ReceiptOf, StepsOf, FailuresOf, Attempted
  <2>3. CASE v = "rejected"
    BY <1>1, <2>3 DEF Judged, Consistent, Bound, ReceiptOf, StepsOf, FailuresOf, Attempted
  <2>. QED
    BY <2>1, <2>2, <2>3 DEF Verdicts
<1>. QED
  BY <1>2 DEF f

\* or a failed dispatch.
LEMMA DispatchAccepted ==
    ASSUME NEW r \in Nat, r > 0, NEW d, d # "none"
    PROVE  Consistent([Bare("dispatch-failed", "dispatch-failed")
                         EXCEPT !.run = r, !.digest = d])
BY DEF Consistent, Bound, ReceiptOf, StepsOf, FailuresOf, Attempted, Bare

\* Starting the destruction of a condemned candidate forgets the recorded failure.
LEMMA BusyAccepted ==
    ASSUME NEW f \in Files, Consistent(f), NEW c \in Destroyers, f.phase = Origin(c)
    PROVE  Consistent([f EXCEPT !.phase = Busy(c), !.failure = "none"])
<1> DEFINE g == [f EXCEPT !.phase = Busy(c), !.failure = "none"]
<1>1. g.phase = Busy(c) /\ g.step = f.step /\ g.verdict = f.verdict /\ g.run = f.run
      /\ g.digest = f.digest /\ g.failure = "none"
  BY DEF Files
<1> HIDE DEF g
<1>2. Consistent(g)
  <2>1. CASE c = "abort"
    BY <1>1, <2>1 DEF Busy, Origin, Consistent, Bound, ReceiptOf, StepsOf, FailuresOf,
       Attempted
  <2>2. CASE c = "cleanup"
    BY <1>1, <2>2 DEF Busy, Origin, Consistent, Bound, ReceiptOf, StepsOf, FailuresOf,
       Attempted
  <2>. QED
    BY <2>1, <2>2 DEF Destroyers
<1>. QED
  BY <1>2 DEF g

\* A removal that is recorded,
LEMMA RemovedAccepted ==
    ASSUME NEW f \in Files, Consistent(f), NEW c \in Destroyers, f.phase = Busy(c),
           NEW s \in {"none", "worktree-removed"}
    PROVE  Consistent([f EXCEPT !.step = s])
<1> DEFINE g == [f EXCEPT !.step = s]
<1>1. g.phase = f.phase /\ g.step = s /\ g.verdict = f.verdict /\ g.run = f.run
      /\ g.digest = f.digest /\ g.failure = f.failure
  BY DEF Files
<1> HIDE DEF g
<1>2. Consistent(g)
  BY <1>1 DEF Busy, Consistent, Bound, StepsOf, Destroyers
<1>. QED
  BY <1>2 DEF g

\* a destruction that ends,
LEMMA EndAccepted ==
    ASSUME NEW f \in Files, Consistent(f), NEW c \in Destroyers, f.phase = Busy(c)
    PROVE  Consistent([f EXCEPT !.step = "branch-removed", !.phase = Terminal(c),
                                !.failure = "none"])
<1> DEFINE g == [f EXCEPT !.step = "branch-removed", !.phase = Terminal(c),
                          !.failure = "none"]
<1>1. g.phase = Terminal(c) /\ g.step = "branch-removed" /\ g.verdict = f.verdict
      /\ g.run = f.run /\ g.digest = f.digest /\ g.failure = "none"
  BY DEF Files
<1> HIDE DEF g
<1>2. Consistent(g)
  <2>1. CASE c = "abort"
    BY <1>1, <2>1 DEF Busy, Terminal, Consistent, Bound, ReceiptOf, StepsOf, FailuresOf,
       Attempted
  <2>2. CASE c = "cleanup"
    BY <1>1, <2>2 DEF Busy, Terminal, Consistent, Bound, ReceiptOf, StepsOf, FailuresOf,
       Attempted
  <2>. QED
    BY <2>1, <2>2 DEF Destroyers
<1>. QED
  BY <1>2 DEF g

\* and a failure that is noted in a destruction are accepted,
LEMMA FailureAccepted ==
    ASSUME NEW f \in Files, Consistent(f), NEW c \in Destroyers,
           NEW b \in {"interrupted", "cleanup-failed"}
    PROVE  Consistent(Failed(f, c, b))
<1> DEFINE g == [f EXCEPT !.failure = b]
<1>1. g.phase = f.phase /\ g.step = f.step /\ g.verdict = f.verdict /\ g.run = f.run
      /\ g.digest = f.digest /\ g.failure = b
  BY DEF Files
<1> HIDE DEF g
<1>2. ASSUME f.phase = Busy(c) PROVE Consistent(g)
  BY <1>1, <1>2 DEF Busy, Consistent, Bound, FailuresOf, Destroyers
<1>. QED
  BY <1>2 DEF Failed, g

\* and so is whatever Git's reality lets a destruction record.
LEMMA ReconciledAccepted ==
    ASSUME file \in Files, Consistent(file), NEW c \in Destroyers, file.phase = Busy(c)
    PROVE  Consistent(Reconciled(c))
<1> DEFINE s == IF file.step = "none" /\ Removed THEN "worktree-removed" ELSE file.step
<1>1. s \in {"none", "worktree-removed"}
  BY DEF Consistent, StepsOf, Busy, Destroyers
<1>2. Consistent([file EXCEPT !.step = s])
  BY <1>1, RemovedAccepted
<1>3. Consistent([file EXCEPT !.step = "branch-removed", !.phase = Terminal(c),
                              !.failure = "none"])
  BY EndAccepted
<1>. QED
  BY <1>2, <1>3 DEF Reconciled

\* Every step writes a state that is accepted.
LEMMA AcceptedStep ==
    ASSUME IInv, Consistent(file), [Next]_vars,
           at \in {"publish", "bind", "accept", "lock"} => noted # "none"
    PROVE  Consistent(file')
<1>. USE DEF KeepFile, Write
<1>1. CASE \/ AddWorktree \/ DispatchUnbound \/ Recheck \/ RecheckRollback
           \/ RemoveWorktree \/ CheckRef \/ DeleteRef \/ DeleteRefused
           \/ (\E v \in Verdicts : GateDecides(v)) \/ GateFinal \/ CompareReceipt
  BY <1>1 DEF AddWorktree, DispatchUnbound, Recheck, RecheckRollback, RemoveWorktree,
     CheckRef, DeleteRef, DeleteRefused, GateDecides, GateFinal, CompareReceipt
<1>2. CASE \/ RecordReady \/ GateFails \/ ReceiptUnbound \/ StartInit \/ StartVerify
           \/ RefuseVerify \/ AddFails \/ BindFails \/ SignalInit \/ SignalGate
  BY <1>2, BareAccepted DEF RecordReady, GateFails, ReceiptUnbound, StartInit, StartVerify,
     RefuseVerify, AddFails, BindFails, SignalInit, SignalGate
<1>3. CASE BindReceipt
  <2>1. verdict \in Verdicts /\ noted # "none"
    BY <1>3 DEF BindReceipt, Only, IInv, PlaceInv
  <2>. QED
    BY <1>3, <2>1, ReceiptAccepted DEF BindReceipt
<1>4. CASE BindDispatch
  <2>1. dispatch.run \in Nat /\ dispatch.run > 0 /\ noted # "none"
    BY <1>4 DEF BindDispatch, Only, IInv, FileInv, TypeOK
  <2>. QED
    BY <1>4, <2>1, DispatchAccepted DEF BindDispatch
<1>5. CASE Reconcile
  <2>1. cmd \in Destroyers /\ file.phase = Busy(cmd) /\ file \in Files
    BY <1>5 DEF Reconcile, Only, IInv, PlaceInv, TypeOK
  <2>. QED
    BY <1>5, <2>1, ReconciledAccepted DEF Reconcile
<1>6. CASE Check
  <2>1. /\ cmd \in Destroyers /\ file \in Files
        /\ file.phase # Busy(cmd) => file.phase = Origin(cmd)
    BY <1>6 DEF Check, Only, IInv, PlaceInv, TypeOK
  <2>. QED
    BY <1>6, <2>1, BusyAccepted DEF Check
<1>7. CASE RecordRemoval
  <2>1. /\ file \in Files
        /\ cmd # "rollback" => cmd \in Destroyers /\ file.phase = Busy(cmd)
    BY <1>7 DEF RecordRemoval, IInv, PlaceInv, TypeOK, Destroying, Destroyers
  <2>. QED
    BY <1>7, <2>1, RemovedAccepted DEF RecordRemoval
<1>8. CASE Finish
  <2>1. /\ file \in Files
        /\ cmd # "rollback" => cmd \in Destroyers /\ file.phase = Busy(cmd)
    BY <1>8 DEF Finish, IInv, PlaceInv, TypeOK, Destroying, Destroyers
  <2>. QED
    BY <1>8, <2>1, EndAccepted, BareAccepted DEF Finish
<1>9. CASE Fail
  <2>1. CASE cmd \in Destroyers /\ file.phase = Busy(cmd)
    <3>1. Reconciled(cmd) \in Files /\ Consistent(Reconciled(cmd))
      BY <2>1, ReconciledType, ReconciledAccepted DEF IInv, TypeOK
    <3>2. Consistent(Failed(Reconciled(cmd), cmd, "cleanup-failed"))
      BY <2>1, <3>1, FailureAccepted
    <3>. QED
      BY <1>9, <2>1, <3>2 DEF Fail
  <2>. QED
    BY <1>9, <2>1 DEF Fail
<1>10. CASE FailGit
  <2>1. CASE cmd \in Destroyers /\ file.phase = Busy(cmd)
    <3>1. Consistent(Failed(file, cmd, "cleanup-failed"))
      BY <2>1, FailureAccepted DEF IInv, TypeOK
    <3>. QED
      BY <1>10, <2>1, <3>1 DEF FailGit
  <2>. QED
    BY <1>10, <2>1 DEF FailGit
<1>11. CASE Signalled
  <2>1. cmd \in Destroyers /\ file \in Files
    BY <1>11 DEF Signalled, IInv, PlaceInv, TypeOK
  <2>2. CASE file.phase = Busy(cmd)
    <3>1. Reconciled(cmd) \in Files /\ Consistent(Reconciled(cmd))
      BY <2>1, <2>2, ReconciledType, ReconciledAccepted
    <3>2. Consistent(Failed(Reconciled(cmd), cmd, "interrupted"))
      BY <2>1, <3>1, FailureAccepted
    <3>. QED
      BY <1>11, <2>2, <3>2 DEF Signalled
  <2>. QED
    BY <1>11, <2>2 DEF Signalled
<1>12. CASE \/ StartRecord \/ StartRollback \/ StartCleanup \/ GitFails \/ GitRefuses
            \/ SignalDestroyer \/ HandlerFails \/ Stop \/ (\E d \in Discards : StartAbort(d))
  BY <1>12 DEF StartRecord, StartRollback, StartCleanup, GitFails, GitRefuses,
     SignalDestroyer, HandlerFails, Stop, StartAbort
<1>13. CASE \/ Show \/ Look \/ MoveBranch \/ Repair \/ StartDispatch
            \/ (\E c \in Contents : Edit(c))
            \/ (\E s \in {"failed", "completed"} : EndDispatch(s)) \/ UNCHANGED vars
  BY <1>13 DEF Show, Look, MoveBranch, Repair, StartDispatch, Edit, EndDispatch, disk, vars
<1>. QED
  BY <1>1, <1>2, <1>3, <1>4, <1>5, <1>6, <1>7, <1>8, <1>9, <1>10, <1>11, <1>12, <1>13
     DEF Next, Step, Commands, Faults, Environment

\* A command that goes to bind evidence holds the digest of a candidate.
LEMMA NotedStep ==
    ASSUME IInv, at \in {"publish", "bind", "accept", "lock"} => noted # "none", [Next]_vars
    PROVE  at' \in {"publish", "bind", "accept", "lock"} => noted' # "none"
<1> DEFINE Goal == at' \in {"publish", "bind", "accept", "lock"} => noted' # "none"
<1>. SUFFICES Goal
  OBVIOUS
<1>. USE DEF Goto, End
<1>1. CASE \/ AddWorktree \/ RecordReady \/ GateFails \/ BindReceipt \/ ReceiptUnbound
           \/ BindDispatch \/ DispatchUnbound \/ Reconcile \/ Check \/ Recheck
           \/ RecheckRollback
  BY <1>1 DEF AddWorktree, RecordReady, GateFails, BindReceipt, ReceiptUnbound,
     BindDispatch, DispatchUnbound, Reconcile, Check, Recheck, RecheckRollback
<1>2. CASE \/ RemoveWorktree \/ RecordRemoval \/ CheckRef \/ DeleteRef \/ DeleteRefused
           \/ Finish \/ Fail \/ FailGit \/ Signalled \/ Show
  BY <1>2 DEF RemoveWorktree, RecordRemoval, CheckRef, DeleteRef, DeleteRefused, Finish,
     Fail, FailGit, Signalled, Show
<1>3. ASSUME NEW v \in Verdicts, GateDecides(v) PROVE Goal
  BY <1>3 DEF GateDecides, Only
<1>9. CASE GateFinal \/ CompareReceipt
  BY <1>9, DigestNamed DEF GateFinal, CompareReceipt, Only, IInv, TypeOK
<1>4. CASE StartRecord
  BY <1>4, DigestNamed DEF StartRecord, Begin, IInv, TypeOK
<1>5. CASE StartInit \/ StartVerify \/ RefuseVerify \/ StartRollback \/ StartCleanup
  BY <1>5 DEF StartInit, StartVerify, RefuseVerify, StartRollback, StartCleanup, Begin,
     Entry, proc
<1>6. ASSUME NEW d \in Discards, StartAbort(d) PROVE Goal
  BY <1>6 DEF StartAbort, Begin, Entry
<1>7. CASE \/ AddFails \/ GitFails \/ GitRefuses \/ BindFails \/ SignalInit
           \/ SignalGate \/ SignalDestroyer \/ HandlerFails \/ Stop
  BY <1>7 DEF AddFails, GitFails, GitRefuses, BindFails, SignalInit, SignalGate,
     SignalDestroyer, HandlerFails, Stop
<1>8. CASE \/ Look \/ MoveBranch \/ Repair \/ StartDispatch
           \/ (\E c \in Contents : Edit(c))
           \/ (\E s \in {"failed", "completed"} : EndDispatch(s)) \/ UNCHANGED vars
  BY <1>8 DEF Look, MoveBranch, Repair, StartDispatch, Edit, EndDispatch, Others, Hold, proc,
     vars
<1>. QED
  BY <1>1, <1>2, <1>3, <1>4, <1>5, <1>6, <1>7, <1>8, <1>9 DEF Next, Step, Commands,
     Faults, Environment

\* No command is refused its own write, and none leaves a state the next one
\* cannot read, for any number of faults.
THEOREM StatesAreAccepted == Spec => []StateAccepted
<1>1. Init => IInv /\ AcceptedInv
  BY InitInv, BareAccepted DEF Init, AcceptedInv
<1>2. IInv /\ AcceptedInv /\ [Next]_vars => (IInv /\ AcceptedInv)'
  BY Induction, AcceptedStep, NotedStep DEF AcceptedInv
<1>3. IInv /\ AcceptedInv => StateAccepted
  BY DEF AcceptedInv, StateAccepted
<1>. QED
  BY <1>1, <1>2, <1>3, PTL DEF Spec

\* job.json can be relied on: it can be read, and an end it records has come.
THEOREM StateIsTrue == Spec => []StateTrue
BY TerminalTruthHolds, StatesAreAccepted, PTL DEF StateTrue

-----------------------------------------------------------------------------
(* Evidence: what it is bound to, and that it stays.                          *)

\* The phases whose state names a candidate.
Bearing == {"verified-gate-passed", "verified-routed", "verified-rejected",
            "dispatch-failed", "cleanup-in-progress", "cleaned", "abort-in-progress",
            "aborted"}

\* A receipt that passed its comparison names a candidate held since the gate
\* answered; only a command that starts on a state without evidence binds any.
EvidenceInv ==
    /\ at = "bind" /\ Digest = noted => held
    /\ at = "accept" => held
    /\ file.digest # "none" => file.phase \in Bearing
    /\ cmd = "verify" /\ at \in {"gate", "publish", "bind", "accept"}
         => file.phase = "verifying"
    /\ cmd = "record" /\ at = "lock" => file.phase = "ready"
    /\ cmd = "init" => file.phase \notin Bearing

\* The fields of a binding.
Evidence(f) == <<f.verdict, f.run, f.digest>>

\* Noting a failure keeps the binding,
LEMMA FailureKeeps ==
    ASSUME NEW f \in Files, NEW c, NEW b PROVE Evidence(Failed(f, c, b)) = Evidence(f)
BY DEF Evidence, Failed, Files

\* and so does reconciliation.
LEMMA ReconcileKeeps ==
    ASSUME file \in Files, NEW c PROVE Evidence(Reconciled(c)) = Evidence(file)
BY DEF Reconciled, Evidence, Files

\* A step binds evidence to a state that has none, clears none, or leaves it.
LEMMA EvidenceStep ==
    ASSUME IInv, EvidenceInv, [Next]_vars
    PROVE  \/ Evidence(file') = Evidence(file)
           \/ file.digest = "none" /\ (file'.verdict # "none" => held)
<1> DEFINE Goal == \/ Evidence(file') = Evidence(file)
                   \/ file.digest = "none" /\ (file'.verdict # "none" => held)
<1>. SUFFICES Goal
  OBVIOUS
<1>. USE DEF KeepFile, Write, Only
<1>1. CASE \/ AddWorktree \/ DispatchUnbound \/ Recheck \/ RecheckRollback
           \/ RemoveWorktree \/ CheckRef \/ DeleteRef \/ DeleteRefused
           \/ (\E v \in Verdicts : GateDecides(v)) \/ GateFinal \/ CompareReceipt
  BY <1>1 DEF AddWorktree, DispatchUnbound, Recheck, RecheckRollback, RemoveWorktree,
     CheckRef, DeleteRef, DeleteRefused, GateDecides, GateFinal, CompareReceipt
<1>2. CASE RecordReady \/ AddFails \/ SignalInit
  <2>1. file.digest = "none" /\ file'.verdict = "none"
    BY <1>2 DEF RecordReady, AddFails, SignalInit, EvidenceInv, IInv, PlaceInv, Bearing, Bare
  <2>. QED
    BY <2>1
<1>3. CASE GateFails \/ ReceiptUnbound \/ BindFails \/ SignalGate
  <2>1. file.digest = "none" /\ file'.verdict = "none"
    BY <1>3 DEF GateFails, ReceiptUnbound, BindFails, SignalGate, EvidenceInv, Bearing, Bare
  <2>. QED
    BY <2>1
<1>4. CASE StartInit \/ StartVerify \/ RefuseVerify
  <2>1. file.digest = "none" /\ file'.verdict = "none"
    BY <1>4 DEF StartInit, StartVerify, RefuseVerify, EvidenceInv, Bearing, Bare, Absent
  <2>. QED
    BY <2>1
<1>5. CASE BindReceipt
  <2>1. file.digest = "none" /\ held
    BY <1>5 DEF BindReceipt, EvidenceInv, Bearing
  <2>. QED
    BY <2>1
<1>6. CASE BindDispatch
  <2>1. file.digest = "none" /\ file'.verdict = "none"
    BY <1>6 DEF BindDispatch, EvidenceInv, Bearing, Bare
  <2>. QED
    BY <2>1
<1>7. CASE Reconcile
  BY <1>7, ReconcileKeeps DEF Reconcile, IInv, TypeOK
<1>8. CASE Check
  BY <1>8 DEF Check, IInv, TypeOK, Evidence, Files
<1>9. CASE RecordRemoval
  BY <1>9 DEF RecordRemoval, IInv, TypeOK, Evidence, Files
<1>10. CASE Finish
  <2>1. cmd = "rollback" => file.digest = "none"
    BY <1>10 DEF EvidenceInv, IInv, PlaceInv, Bearing
  <2>2. Absent.verdict = "none"
    BY DEF Absent, Bare
  <2>3. Evidence([file EXCEPT !.step = "branch-removed", !.phase = Terminal(cmd),
                              !.failure = "none"]) = Evidence(file)
    BY DEF IInv, TypeOK, Evidence, Files
  <2>. QED
    BY <1>10, <2>1, <2>2, <2>3 DEF Finish
<1>11. CASE Fail
  <2>1. Reconciled(cmd) \in Files /\ Evidence(Reconciled(cmd)) = Evidence(file)
    BY ReconciledType, ReconcileKeeps DEF IInv, TypeOK
  <2>2. Evidence(Failed(Reconciled(cmd), cmd, "cleanup-failed")) = Evidence(file)
    BY <2>1, FailureKeeps
  <2>. QED
    BY <1>11, <2>2 DEF Fail
<1>12. CASE FailGit
  BY <1>12, FailureKeeps DEF FailGit, IInv, TypeOK
<1>13. CASE Signalled
  <2>1. Reconciled(cmd) \in Files /\ Evidence(Reconciled(cmd)) = Evidence(file)
    BY ReconciledType, ReconcileKeeps DEF IInv, TypeOK
  <2>2. Evidence(Failed(Reconciled(cmd), cmd, "interrupted")) = Evidence(file)
    BY <2>1, FailureKeeps
  <2>. QED
    BY <1>13, <2>2 DEF Signalled
<1>14. CASE \/ StartRecord \/ StartRollback \/ StartCleanup \/ GitFails \/ GitRefuses
            \/ SignalDestroyer \/ HandlerFails \/ Stop \/ (\E d \in Discards : StartAbort(d))
  BY <1>14 DEF StartRecord, StartRollback, StartCleanup, GitFails, GitRefuses,
     SignalDestroyer, HandlerFails, Stop, StartAbort
<1>15. CASE \/ Show \/ Look \/ MoveBranch \/ Repair \/ StartDispatch
            \/ (\E c \in Contents : Edit(c))
            \/ (\E s \in {"failed", "completed"} : EndDispatch(s)) \/ UNCHANGED vars
  BY <1>15 DEF Show, Look, MoveBranch, Repair, StartDispatch, Edit, EndDispatch, disk, vars
<1>. QED
  BY <1>1, <1>2, <1>3, <1>4, <1>5, <1>6, <1>7, <1>8, <1>9, <1>10, <1>11, <1>12, <1>13,
     <1>14, <1>15 DEF Next, Step, Commands, Faults, Environment

\* Every step keeps the history true to the worktree.
LEMMA HeldStep ==
    ASSUME IInv, EvidenceInv, TypeOK', [Next]_vars
    PROVE  /\ at' = "bind" /\ Digest' = noted' => held'
           /\ at' = "accept" => held'
<1> DEFINE Goal == /\ at' = "bind" /\ Digest' = noted' => held'
                   /\ at' = "accept" => held'
<1>. SUFFICES Goal
  OBVIOUS
<1>. USE DEF Goto, End, Only
<1>1. CASE \/ AddWorktree \/ RecordReady \/ GateFails \/ BindReceipt \/ ReceiptUnbound
           \/ BindDispatch \/ DispatchUnbound \/ Reconcile \/ Check \/ Recheck
           \/ RecheckRollback \/ GateFinal
  BY <1>1 DEF AddWorktree, RecordReady, GateFails, BindReceipt, ReceiptUnbound,
     BindDispatch, DispatchUnbound, Reconcile, Check, Recheck, RecheckRollback, GateFinal
<1>2. CASE \/ RemoveWorktree \/ RecordRemoval \/ CheckRef \/ DeleteRef \/ DeleteRefused
           \/ Finish \/ Fail \/ FailGit \/ Signalled \/ Show
  BY <1>2 DEF RemoveWorktree, RecordRemoval, CheckRef, DeleteRef, DeleteRefused, Finish,
     Fail, FailGit, Signalled, Show
<1>3. ASSUME NEW v \in Verdicts, GateDecides(v) PROVE Goal
  <2>1. Digest' = Digest
    BY <1>3 DEF GateDecides, Digest, Git
  <2>. QED
    BY <1>3, <2>1 DEF GateDecides
<1>4. CASE CompareReceipt
  BY <1>4 DEF CompareReceipt, EvidenceInv
<1>5. CASE StartInit \/ StartVerify \/ StartRecord \/ StartRollback \/ StartCleanup
  BY <1>5 DEF StartInit, StartVerify, StartRecord, StartRollback, StartCleanup, Begin, Entry
<1>6. ASSUME NEW d \in Discards, StartAbort(d) PROVE Goal
  BY <1>6 DEF StartAbort, Begin, Entry
<1>7. CASE \/ AddFails \/ GitFails \/ GitRefuses \/ BindFails \/ SignalInit
           \/ SignalGate \/ SignalDestroyer \/ HandlerFails \/ Stop
  BY <1>7 DEF AddFails, GitFails, GitRefuses, BindFails, SignalInit, SignalGate,
     SignalDestroyer, HandlerFails, Stop
<1>8. CASE MoveBranch \/ (\E c \in Contents : Edit(c))
  BY <1>8 DEF MoveBranch, Edit, Hold, EvidenceInv
<1>9. CASE Repair \/ RefuseVerify \/ Look
  BY <1>9 DEF Repair, RefuseVerify, Look, Others, proc, IInv, TypeOK
<1>10. CASE StartDispatch \/ (\E s \in {"failed", "completed"} : EndDispatch(s))
  BY <1>10 DEF StartDispatch, EndDispatch, Others, proc, disk, Digest, EvidenceInv
<1>11. CASE UNCHANGED vars
  BY <1>11 DEF vars, proc, disk, Digest, EvidenceInv
<1>. QED
  BY <1>1, <1>2, <1>3, <1>4, <1>5, <1>6, <1>7, <1>8, <1>9, <1>10, <1>11 DEF Next, Step,
     Commands, Faults, Environment

\* Every step leaves evidence only in the phases that bear it, and every command
\* on a state of the phase it started from.
LEMMA BearingStep ==
    ASSUME IInv, EvidenceInv, TypeOK', [Next]_vars
    PROVE  /\ file'.digest # "none" => file'.phase \in Bearing
           /\ cmd' = "verify" /\ at' \in {"gate", "publish", "bind", "accept"}
                => file'.phase = "verifying"
           /\ cmd' = "record" /\ at' = "lock" => file'.phase = "ready"
           /\ cmd' = "init" => file'.phase \notin Bearing
<1> DEFINE Goal ==
      /\ file'.digest # "none" => file'.phase \in Bearing
      /\ cmd' = "verify" /\ at' \in {"gate", "publish", "bind", "accept"}
           => file'.phase = "verifying"
      /\ cmd' = "record" /\ at' = "lock" => file'.phase = "ready"
      /\ cmd' = "init" => file'.phase \notin Bearing
<1>. SUFFICES Goal
  OBVIOUS
<1>. USE DEF Goto, End, Only, KeepFile, Write, EvidenceInv, Bearing
<1>1. CASE \/ AddWorktree \/ DispatchUnbound \/ Recheck \/ RecheckRollback
           \/ RemoveWorktree \/ CheckRef \/ DeleteRef \/ DeleteRefused \/ Show
           \/ (\E v \in Verdicts : GateDecides(v)) \/ GateFinal \/ CompareReceipt
  BY <1>1 DEF AddWorktree, DispatchUnbound, Recheck, RecheckRollback, RemoveWorktree,
     CheckRef, DeleteRef, DeleteRefused, GateDecides, GateFinal, CompareReceipt, Show, disk
<1>2. CASE \/ RecordReady \/ AddFails \/ SignalInit \/ GateFails \/ ReceiptUnbound
           \/ BindFails \/ SignalGate
  BY <1>2 DEF RecordReady, AddFails, SignalInit, GateFails, ReceiptUnbound, BindFails,
     SignalGate, Bare
<1>3. CASE StartInit \/ StartVerify \/ RefuseVerify
  BY <1>3 DEF StartInit, StartVerify, RefuseVerify, Begin, Bare, proc, IInv, TypeOK
<1>4. CASE BindReceipt
  <2>1. file'.phase = Judged(verdict) /\ Judged(verdict) \in Bearing
    BY <1>4 DEF BindReceipt, Judged, Bare
  <2>. QED
    BY <1>4, <2>1 DEF BindReceipt
<1>5. CASE BindDispatch
  BY <1>5 DEF BindDispatch, Bare
<1>6. CASE Reconcile \/ Check \/ Signalled
  <2>1. cmd \in Destroyers /\ cmd' = cmd
        /\ file.phase \in {Origin(cmd), Busy(cmd), Terminal(cmd)}
    BY <1>6 DEF Reconcile, Check, Signalled, IInv, PlaceInv
  <2>2. file.phase \in Bearing
    BY <2>1 DEF Origin, Busy, Terminal, Destroyers
  <2>3. file'.phase \in {file.phase, Terminal(cmd), Busy(cmd)}
    BY <1>6 DEF Reconcile, Check, Signalled, Reconciled, Failed, IInv, TypeOK, Files
  <2>. QED
    BY <2>1, <2>2, <2>3 DEF Busy, Terminal, Destroyers
<1>7. CASE RecordRemoval
  BY <1>7 DEF RecordRemoval, IInv, PlaceInv, TypeOK, Files, Destroying
<1>8. CASE Finish
  <2>1. cmd \in Destroying
    BY <1>8 DEF Finish, IInv, PlaceInv
  <2>2. cmd = "rollback" => file.digest = "none"
    BY DEF IInv, PlaceInv
  <2>3. Absent.digest = "none"
    BY DEF Absent, Bare
  <2>4. [file EXCEPT !.step = "branch-removed", !.phase = Terminal(cmd),
                     !.failure = "none"].phase = Terminal(cmd)
    BY DEF IInv, TypeOK, Files
  <2>. QED
    BY <1>8, <2>1, <2>2, <2>3, <2>4 DEF Finish, Destroying, Terminal
<1>9. CASE Fail \/ FailGit
  <2>1. cmd' = "none"
    BY <1>9 DEF Fail, FailGit
  <2>2. \/ file' = file
        \/ cmd \in Destroyers /\ file'.phase \in {file.phase, Terminal(cmd)}
           /\ file.phase = Busy(cmd)
    BY <1>9 DEF Fail, FailGit, Reconciled, Failed, IInv, TypeOK, Files
  <2>. QED
    BY <2>1, <2>2 DEF Busy, Terminal, Destroyers
<1>10. CASE \/ StartRecord \/ StartRollback \/ StartCleanup
            \/ (\E d \in Discards : StartAbort(d))
  BY <1>10 DEF StartRecord, StartRollback, StartCleanup, StartAbort, Begin
<1>11. CASE GitFails \/ GitRefuses \/ SignalDestroyer \/ HandlerFails \/ Stop
  BY <1>11 DEF GitFails, GitRefuses, SignalDestroyer, HandlerFails, Stop
<1>12. CASE MoveBranch \/ (\E c \in Contents : Edit(c))
  BY <1>12 DEF MoveBranch, Edit, Hold
<1>13. CASE \/ Repair \/ Look \/ StartDispatch
            \/ (\E s \in {"failed", "completed"} : EndDispatch(s)) \/ UNCHANGED vars
  BY <1>13 DEF Repair, Look, StartDispatch, EndDispatch, Others, proc, disk, vars
<1>. QED
  BY <1>1, <1>2, <1>3, <1>4, <1>5, <1>6, <1>7, <1>8, <1>9, <1>10, <1>11, <1>12, <1>13
     DEF Next, Step, Commands, Faults, Environment

\* EvidenceInv holds in every reachable state.
THEOREM EvidenceInvariance == Spec => [](IInv /\ EvidenceInv)
<1>1. Init => IInv /\ EvidenceInv
  BY InitInv DEF Init, EvidenceInv, Absent, Bare
<1>2. IInv /\ EvidenceInv /\ [Next]_vars => (IInv /\ EvidenceInv)'
  <2>1. ASSUME IInv, EvidenceInv, [Next]_vars PROVE (IInv /\ EvidenceInv)'
    <3>1. IInv' /\ TypeOK'
      BY <2>1, Induction DEF IInv
    <3>. QED
      BY <2>1, <3>1, HeldStep, BearingStep DEF EvidenceInv
  <2>. QED
    BY <2>1
<1>. QED
  BY <1>1, <1>2, PTL DEF Spec

\* A verdict is bound to a candidate held since the gate answered, and no evidence
\* is dropped or exchanged.
THEOREM EvidenceAlwaysKept == Spec => EvidenceKept
<1>1. IInv /\ EvidenceInv /\ [Next]_vars
        => (file'.verdict # file.verdict => file'.verdict = "none" \/ held)
  BY EvidenceStep DEF Evidence
<1>2. IInv /\ EvidenceInv /\ [Next]_vars
        => (file.digest # "none" => /\ file'.verdict = file.verdict
                                    /\ file'.run = file.run
                                    /\ file'.digest = file.digest)
  BY EvidenceStep DEF Evidence
<1>. QED
  BY <1>1, <1>2, EvidenceInvariance, PTL
     DEF Spec, EvidenceKept, VerdictHeld, EvidenceStays
=============================================================================
