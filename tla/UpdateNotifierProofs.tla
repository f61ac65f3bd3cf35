------------------------ MODULE UpdateNotifierProofs ------------------------
(***************************************************************************)
(* Proofs about UpdateNotifier, for every set of source versions and       *)
(* releases and every number of installations, probes, edits and faults.   *)
(*                                                                         *)
(* The inductive invariant says, for every place a command can be at, what *)
(* the records on disk already claim (Claims), that the tombstone belongs  *)
(* to the ledger (Owned), that the paths it counts as processed are free   *)
(* of installed bytes (Processed paths are Settled), and what the protocol *)
(* around the probes and the record of notifications have in memory.       *)
(***************************************************************************)
EXTENDS UpdateNotifier, TLAPS

Installing == {"copy", "launch", "plist", "boot", "load", "mark"}
Removing == {"look", "unlink", "processed", "confirm", "retire", "unloaded", "unload"}
FilesDone == {"files-processed", "completed"}
PlistDone == {"plist-processed", "files-processed", "completed"}
Settled(i, k) == files[i] = "absent" \/ i \in late \/ k

\* The type invariant in three parts.
DiskOK ==
    /\ ledger \in [phase : LedgerPhases, gen : Nat, version : Versions \cup {"absent"}]
    /\ tomb \in [phase : TombPhases, kept : BOOLEAN, gen : Nat]
    /\ files \in [Items -> Contents]
    /\ source \in Versions /\ upstream \in Releases \cup {"same"} /\ late \subseteq Items
ProcOK ==
    /\ cmd \in Commands \cup {"none"} /\ at \in Places /\ item \in Items
    /\ kept \in BOOLEAN /\ loaded \in Jobs /\ hurt \in BOOLEAN
    /\ edits \in Nat /\ faults \in Nat
MemoOK ==
    /\ result \in Results /\ prior \in Results
    /\ found \in Fingerprints \cup {Nothing}
    /\ shown \in [fingerprint : Fingerprints \cup {Nothing}, again : BOOLEAN]
    /\ child \in [run : {"none", "up"}, shim : {"none", "up", "dead"},
                  probe : {"none", "up"}, begun : Nat, closed : Nat]

\* The records agree, and each place of a command has the phases it needs.
Owned ==
    /\ tomb.phase # "absent" => tomb.gen = ledger.gen /\ ledger.phase # "absent"
    /\ at \in Installing => /\ tomb.phase = "absent"
                            /\ ledger.phase \in {"preparing", "bootstrapping"}
    /\ at = "prepare" => tomb.phase = "absent" /\ ledger.phase \in {"absent", "uninstalled"}
    /\ at = "reopen" => ledger.phase = "uninstalled"
    /\ at \in Removing => tomb.phase # "absent" /\ ledger.phase # "absent"
    /\ at \in {"look", "unlink", "processed"} =>
         tomb.phase = IF item = "plist" THEN "unloaded" ELSE "plist-processed"
    /\ at = "processed" => item # "snapshot"
    /\ at = "confirm" => tomb.phase \in FilesDone
    /\ at = "retire" => tomb.phase = "completed"
    /\ cmd = "none" => at = "none"
    /\ ledger.phase = "absent" \/ ledger.version \in Versions

\* A disowned installation is not loaded and has no property list to load; what
\* else launchd loads after a completed uninstall comes from a settled path.
Disowned ==
    /\ ledger.phase \in {"absent", "uninstalled"} =>
         loaded # "installed" /\ files["plist"] # "plist"
    /\ loaded = "other" /\ ledger.phase = "uninstalled" /\ tomb.phase = "completed" =>
         tomb.kept \/ "plist" \in late
    /\ tomb.phase \in PlistDone => files["plist"] # "plist"
    /\ at = "processed" /\ item = "plist" => files["plist"] # "plist"
    /\ at = "retire" => loaded = "none"

\* What the phases count as processed is settled.
Clean ==
    /\ at \in Removing /\ tomb.kept => kept
    /\ tomb.phase \in PlistDone => Settled("plist", tomb.kept)
    /\ tomb.phase \in FilesDone => Settled("snapshot", tomb.kept) /\ Settled("launcher", tomb.kept)
    /\ at = "processed" => Settled(item, kept)
    /\ at \in {"look", "unlink", "processed"} /\ item = "launcher" => Settled("snapshot", kept)

\* The bytes acknowledged account for the shim that still owns a probe.
Paired ==
    /\ child.probe = "up" => child.shim # "none"
    /\ child.begun = child.closed + (IF child.shim = "none" THEN 0 ELSE 1)
    /\ at = "record" => child.run = "none" /\ child.shim = "none"

\* What was displayed and not yet observed again is what the result records.
Recorded ==
    /\ shown.fingerprint # Nothing /\ ~shown.again =>
         result = [fingerprint |-> shown.fingerprint, attempted |-> TRUE]
    /\ at \in {"child", "record"} => prior = result
    /\ at \in {"record", "notify"} => found # Nothing
    /\ at = "notify" => result = [fingerprint |-> found, attempted |-> TRUE]
    /\ ShownOnce

IInv == DiskOK /\ ProcOK /\ MemoOK /\ Owned /\ Disowned /\ Clean /\ Paired /\ Recorded

-----------------------------------------------------------------------------
\* Fingerprints are kept folded: what builds them returns them.
LEMMA FingerprintType ==
  /\ \A v, w \in Versions : Drifted(v, w) \in Fingerprints
  /\ Observed("same") \in Fingerprints /\ Observed("unavailable") \in Fingerprints
  /\ \A r \in Releases : Observed(r) \in Fingerprints
BY DEF Fingerprints, Notable, Maintenance

\* A recorded result is a result.
LEMMA ResultType ==
  /\ NoResult \in Results
  /\ \A f \in Fingerprints, b \in BOOLEAN :
       [fingerprint |-> f, attempted |-> b] \in Results
BY DEF Results, NoResult

\* Every action keeps the types of what is on disk.
LEMMA DiskTypeStep ==
  ASSUME DiskOK, ProcOK, MemoOK, [Next]_vars
  PROVE  DiskOK'
<1>1. CASE StartInstall
  BY <1>1, NotifierAssumption DEF StartInstall, Begin, Idle, NoRun, record,
     world, DiskOK, ProcOK, Items, Contents, LedgerPhases, TombPhases
<1>2. CASE Reopen
  <2>1. NoTomb \in [phase : TombPhases, kept : BOOLEAN, gen : Nat]
    BY DEF NoTomb, TombPhases
  <2>2. tomb' = NoTomb \/ tomb' = tomb
    BY <1>2 DEF Reopen
  <2>3. UNCHANGED <<ledger, files, source, upstream, late>>
    BY <1>2 DEF Reopen, Idle, world
  <2> QED
    BY <2>1, <2>2, <2>3 DEF DiskOK
<1>3. CASE Prepare
  BY <1>3, NotifierAssumption DEF Prepare, Goto, Idle, NoRun, record, world,
     DiskOK, ProcOK, Items, Contents, LedgerPhases, TombPhases
<1>4. CASE CopySnapshot
  <2>1. files' = files \/ files' = [files EXCEPT !["snapshot"] = source]
    BY <1>4 DEF CopySnapshot, Create, Stop
  <2>2. UNCHANGED <<ledger, tomb, source, upstream, late>>
    BY <1>4 DEF CopySnapshot, Create, Stop, record, Idle, world
  <2> QED
    BY <2>1, <2>2 DEF DiskOK, Items, Contents
<1>5. CASE CopyLauncher
  BY <1>5, NotifierAssumption DEF CopyLauncher, Create, Goto, End, Idle,
     NoRun, record, world, DiskOK, ProcOK, Items, Contents, LedgerPhases,
     TombPhases
<1>6. CASE WritePlist
  <2>1. files' = files \/ files' = [files EXCEPT !["plist"] = "plist"]
    BY <1>6 DEF WritePlist, Create, Stop
  <2>2. UNCHANGED <<ledger, tomb, source, upstream, late>>
    BY <1>6 DEF WritePlist, Create, Stop, record, Idle, world
  <2> QED
    BY <2>1, <2>2 DEF DiskOK, Items, Contents
<1>7. CASE Bootstrapping
  BY <1>7, NotifierAssumption DEF Bootstrapping, Goto, Idle, NoRun, record,
     world, DiskOK, ProcOK, Items, Contents, LedgerPhases, TombPhases
<1>8. CASE Bootstrap
  BY <1>8, NotifierAssumption DEF Bootstrap, Goto, End, Loadable, Jobs, Idle, NoRun, record,
     world, DiskOK, ProcOK, Items, Contents, LedgerPhases, TombPhases
<1>9. CASE MarkLoaded
  BY <1>9, NotifierAssumption DEF MarkLoaded, End, Idle, NoRun, record, world,
     DiskOK, ProcOK, Items, Contents, LedgerPhases, TombPhases
<1>10. CASE StartUninstall
  BY <1>10, NotifierAssumption DEF StartUninstall, Begin, Authentic, Idle,
     NoRun, record, world, DiskOK, ProcOK, Items, Contents, LedgerPhases,
     TombPhases
<1>11. CASE Unload
  BY <1>11, NotifierAssumption DEF Unload, Goto, Jobs, Idle, NoRun, record, world,
     DiskOK, ProcOK, Items, Contents, LedgerPhases, TombPhases
<1>12. CASE Unloaded
  BY <1>12, NotifierAssumption DEF Unloaded, Resume, WriteTomb, Idle, NoRun,
     record, world, DiskOK, ProcOK, Items, Contents, LedgerPhases, TombPhases
<1>13. CASE Look
  BY <1>13, NotifierAssumption DEF Look, NextItem, Bound, End, Idle, NoRun, record,
     world, DiskOK, ProcOK, Items, Contents, LedgerPhases, TombPhases
<1>14. CASE Unlink
  BY <1>14, NotifierAssumption DEF Unlink, NextItem, Idle, NoRun, record,
     world, DiskOK, ProcOK, Items, Contents, LedgerPhases, TombPhases
<1>15. CASE Processed
  BY <1>15, NotifierAssumption DEF Processed, WriteTomb, Idle, NoRun, record,
     world, DiskOK, ProcOK, Items, Contents, LedgerPhases, TombPhases
<1>16. CASE Confirm
  BY <1>16, NotifierAssumption DEF Confirm, WriteTomb, Goto, End, Idle, NoRun,
     record, world, DiskOK, ProcOK, Items, Contents, LedgerPhases, TombPhases
<1>17. CASE Retire
  BY <1>17, NotifierAssumption DEF Retire, Goto, End, Idle, NoRun, record,
     world, DiskOK, ProcOK, Items, Contents, LedgerPhases, TombPhases
<1>18. CASE StartRun
  BY <1>18, NotifierAssumption DEF StartRun, Begin, NoLifecycle, NoChild,
     Drifted, Idle, NoRun, record, world, DiskOK, ProcOK, Items, Contents,
     LedgerPhases, TombPhases
<1>19. CASE ProbeStarts
  BY <1>19, NotifierAssumption DEF ProbeStarts, Protocol, NoLifecycle, proc,
     Idle, NoRun, record, world, DiskOK, ProcOK, Items, Contents,
     LedgerPhases, TombPhases
<1>20. CASE ProbeCloses
  BY <1>20, NotifierAssumption DEF ProbeCloses, Protocol, NoLifecycle, proc,
     Idle, NoRun, record, world, DiskOK, ProcOK, Items, Contents,
     LedgerPhases, TombPhases
<1>21. CASE Acknowledge
  BY <1>21, NotifierAssumption DEF Acknowledge, Protocol, NoLifecycle, proc,
     Idle, NoRun, record, world, DiskOK, ProcOK, Items, Contents,
     LedgerPhases, TombPhases
<1>22. CASE ShimDies
  BY <1>22, NotifierAssumption DEF ShimDies, Protocol, NoLifecycle, proc,
     Idle, NoRun, record, world, DiskOK, ProcOK, Items, Contents,
     LedgerPhases, TombPhases
<1>23. CASE ChildEnds
  BY <1>23, NotifierAssumption DEF ChildEnds, Protocol, NoLifecycle, proc,
     Idle, NoRun, record, world, DiskOK, ProcOK, Items, Contents,
     LedgerPhases, TombPhases
<1>24. CASE Collect
  BY <1>24, NotifierAssumption DEF Collect, End, NoLifecycle, Idle, NoRun,
     record, world, DiskOK, ProcOK, Items, Contents, LedgerPhases, TombPhases
<1>25. CASE Record
  BY <1>25, NotifierAssumption DEF Record, Goto, End, NoLifecycle, Attempt,
     Idle, NoRun, record, world, DiskOK, ProcOK, Items, Contents,
     LedgerPhases, TombPhases
<1>26. CASE Notify
  BY <1>26, NotifierAssumption DEF Notify, End, NoLifecycle, Idle, NoRun,
     record, world, DiskOK, ProcOK, Items, Contents, LedgerPhases, TombPhases
<1>27. CASE Die
  BY <1>27, NotifierAssumption DEF Die, Cut, Writing, End, NoChild, Idle,
     NoRun, record, world, DiskOK, ProcOK, Items, Contents, LedgerPhases,
     TombPhases
<1>28. CASE Login
  BY <1>28, NotifierAssumption DEF Login, End, NoChild, Idle, NoRun, record,
     world, DiskOK, ProcOK, Items, Contents, LedgerPhases, TombPhases
<1>29. CASE EditSource
  BY <1>29, NotifierAssumption DEF EditSource, Edit, proc, Idle, NoRun,
     record, world, DiskOK, ProcOK, Items, Contents, LedgerPhases, TombPhases
<1>30. CASE Release
  BY <1>30, NotifierAssumption DEF Release, Edit, proc, Idle, NoRun, record,
     world, DiskOK, ProcOK, Items, Contents, LedgerPhases, TombPhases
<1>31. ASSUME NEW i \in Items, Replace(i) PROVE DiskOK'
  BY <1>31, NotifierAssumption DEF Replace, Edit, proc, Idle, NoRun, record,
     world, DiskOK, ProcOK, Items, Contents, LedgerPhases, TombPhases
<1>32. ASSUME NEW i \in Items, Clear(i) PROVE DiskOK'
  BY <1>32, NotifierAssumption DEF Clear, proc, Idle, NoRun, record, world,
     DiskOK, ProcOK, Items, Contents, LedgerPhases, TombPhases
<1>33. CASE UNCHANGED vars
  BY <1>33, NotifierAssumption DEF vars, DiskOK, ProcOK, Items, Contents,
     LedgerPhases, TombPhases
<1> QED
  BY <1>1, <1>2, <1>3, <1>4, <1>5, <1>6, <1>7, <1>8, <1>9, <1>10, <1>11,
     <1>12, <1>13, <1>14, <1>15, <1>16, <1>17, <1>18, <1>19, <1>20, <1>21,
     <1>22, <1>23, <1>24, <1>25, <1>26, <1>27, <1>28, <1>29, <1>30, <1>31,
     <1>32, <1>33 DEF Next, Command, ChildSteps, Owner

\* Every action keeps the types of what the command is doing.
LEMMA ProcTypeStep ==
  ASSUME DiskOK, ProcOK, MemoOK, [Next]_vars
  PROVE  ProcOK'
<1>1. CASE StartInstall
  BY <1>1 DEF StartInstall, Begin, Idle, NoRun, record, world, ProcOK, DiskOK,
     Items, Commands, Places
<1>2. CASE Reopen
  BY <1>2 DEF Reopen, Goto, End, Authentic, NoTomb, Idle, NoRun, record,
     world, ProcOK, DiskOK, Items, Commands, Places
<1>3. CASE Prepare
  BY <1>3 DEF Prepare, Goto, Idle, NoRun, record, world, ProcOK, DiskOK,
     Items, Commands, Places
<1>4. CASE CopySnapshot
  BY <1>4 DEF CopySnapshot, Create, Stop, Goto, End, Idle, NoRun, record,
     world, ProcOK, DiskOK, Items, Commands, Places
<1>5. CASE CopyLauncher
  BY <1>5 DEF CopyLauncher, Create, Goto, End, Idle, NoRun, record, world,
     ProcOK, DiskOK, Items, Commands, Places
<1>6. CASE WritePlist
  BY <1>6 DEF WritePlist, Create, Stop, Goto, End, Idle, NoRun, record, world,
     ProcOK, DiskOK, Items, Commands, Places
<1>7. CASE Bootstrapping
  BY <1>7 DEF Bootstrapping, Goto, Idle, NoRun, record, world, ProcOK, DiskOK,
     Items, Commands, Places
<1>8. CASE Bootstrap
  BY <1>8 DEF Bootstrap, Goto, End, Loadable, Jobs, Idle, NoRun, record, world, ProcOK,
     DiskOK, Items, Commands, Places
<1>9. CASE MarkLoaded
  BY <1>9 DEF MarkLoaded, End, Idle, NoRun, record, world, ProcOK, DiskOK,
     Items, Commands, Places
<1>10. CASE StartUninstall
  BY <1>10 DEF StartUninstall, Begin, Authentic, Idle, NoRun, record, world,
     ProcOK, DiskOK, Items, Commands, Places
<1>11. CASE Unload
  BY <1>11 DEF Unload, Goto, Jobs, Idle, NoRun, record, world, ProcOK, DiskOK,
     Items, Commands, Places
<1>12. CASE Unloaded
  BY <1>12 DEF Unloaded, Resume, WriteTomb, Idle, NoRun, record, world,
     ProcOK, DiskOK, Items, Commands, Places
<1>13. CASE Look
  BY <1>13 DEF Look, NextItem, Bound, End, Idle, NoRun, record, world, ProcOK,
     DiskOK, Items, Commands, Places
<1>14. CASE Unlink
  BY <1>14 DEF Unlink, NextItem, Idle, NoRun, record, world, ProcOK, DiskOK,
     Items, Commands, Places
<1>15. CASE Processed
  BY <1>15 DEF Processed, WriteTomb, Idle, NoRun, record, world, ProcOK,
     DiskOK, Items, Commands, Places
<1>16. CASE Confirm
  BY <1>16 DEF Confirm, WriteTomb, Goto, End, Idle, NoRun, record, world,
     ProcOK, DiskOK, Items, Commands, Places
<1>17. CASE Retire
  BY <1>17 DEF Retire, Goto, End, Idle, NoRun, record, world, ProcOK, DiskOK,
     Items, Commands, Places
<1>18. CASE StartRun
  BY <1>18 DEF StartRun, Begin, NoLifecycle, NoChild, Drifted, Idle, NoRun,
     record, world, ProcOK, DiskOK, Items, Commands, Places
<1>19. CASE ProbeStarts
  BY <1>19 DEF ProbeStarts, Protocol, NoLifecycle, proc, Idle, NoRun, record,
     world, ProcOK, DiskOK, Items, Commands, Places
<1>20. CASE ProbeCloses
  BY <1>20 DEF ProbeCloses, Protocol, NoLifecycle, proc, Idle, NoRun, record,
     world, ProcOK, DiskOK, Items, Commands, Places
<1>21. CASE Acknowledge
  BY <1>21 DEF Acknowledge, Protocol, NoLifecycle, proc, Idle, NoRun, record,
     world, ProcOK, DiskOK, Items, Commands, Places
<1>22. CASE ShimDies
  BY <1>22 DEF ShimDies, Protocol, NoLifecycle, proc, Idle, NoRun, record,
     world, ProcOK, DiskOK, Items, Commands, Places
<1>23. CASE ChildEnds
  BY <1>23 DEF ChildEnds, Protocol, NoLifecycle, proc, Idle, NoRun, record,
     world, ProcOK, DiskOK, Items, Commands, Places
<1>24. CASE Collect
  BY <1>24 DEF Collect, End, NoLifecycle, Idle, NoRun, record, world, ProcOK,
     DiskOK, Items, Commands, Places
<1>25. CASE Record
  BY <1>25 DEF Record, Goto, End, NoLifecycle, Attempt, Idle, NoRun, record,
     world, ProcOK, DiskOK, Items, Commands, Places
<1>26. CASE Notify
  BY <1>26 DEF Notify, End, NoLifecycle, Idle, NoRun, record, world, ProcOK,
     DiskOK, Items, Commands, Places
<1>27. CASE Die
  <2>1. UNCHANGED <<loaded, edits>> /\ faults' = faults + 1 /\ hurt' = TRUE
    BY <1>27 DEF Die, world
  <2>2. cmd' = "none" /\ at' = "none" /\ item' = "plist" /\ kept' = FALSE
    BY <1>27 DEF Die, End
  <2>3. faults' \in Nat /\ edits' \in Nat /\ loaded' \in Jobs
    BY <2>1 DEF ProcOK
  <2> QED
    BY <2>1, <2>2, <2>3 DEF ProcOK, Items, Places
<1>28. CASE Login
  <2>1. edits' = edits /\ faults' = faults + 1
    BY <1>28 DEF Login
  <2>2. loaded' \in Jobs /\ hurt' \in BOOLEAN
    BY <1>28 DEF Login, Loadable, Jobs, ProcOK
  <2>3. cmd' = "none" /\ at' = "none" /\ item' = "plist" /\ kept' = FALSE
    BY <1>28 DEF Login, End
  <2>4. faults' \in Nat /\ edits' \in Nat
    BY <2>1 DEF ProcOK
  <2> QED
    BY <2>2, <2>3, <2>4 DEF ProcOK, Items, Places
<1>29. CASE EditSource
  BY <1>29 DEF EditSource, Edit, proc, Idle, NoRun, record, world, ProcOK,
     DiskOK, Items, Commands, Places
<1>30. CASE Release
  BY <1>30 DEF Release, Edit, proc, Idle, NoRun, record, world, ProcOK,
     DiskOK, Items, Commands, Places
<1>31. ASSUME NEW i \in Items, Replace(i) PROVE ProcOK'
  BY <1>31 DEF Replace, Edit, proc, Idle, NoRun, record, world, ProcOK,
     DiskOK, Items, Commands, Places
<1>32. ASSUME NEW i \in Items, Clear(i) PROVE ProcOK'
  BY <1>32 DEF Clear, proc, Idle, NoRun, record, world, ProcOK, DiskOK, Items,
     Commands, Places
<1>33. CASE UNCHANGED vars
  BY <1>33 DEF vars, ProcOK, DiskOK, Items, Commands, Places
<1> QED
  BY <1>1, <1>2, <1>3, <1>4, <1>5, <1>6, <1>7, <1>8, <1>9, <1>10, <1>11,
     <1>12, <1>13, <1>14, <1>15, <1>16, <1>17, <1>18, <1>19, <1>20, <1>21,
     <1>22, <1>23, <1>24, <1>25, <1>26, <1>27, <1>28, <1>29, <1>30, <1>31,
     <1>32, <1>33 DEF Next, Command, ChildSteps, Owner

\* Every action keeps the types of the results and of the child.
LEMMA MemoTypeStep ==
  ASSUME DiskOK, ProcOK, MemoOK, Owned, [Next]_vars
  PROVE  MemoOK'
<1>1. CASE StartInstall
  BY <1>1, FingerprintType, ResultType DEF StartInstall, Begin, Idle, NoRun,
     record, world, MemoOK, DiskOK
<1>2. CASE Reopen
  BY <1>2, FingerprintType, ResultType DEF Reopen, Goto, End, Authentic,
     NoTomb, Idle, NoRun, record, world, MemoOK, DiskOK
<1>3. CASE Prepare
  BY <1>3, FingerprintType, ResultType DEF Prepare, Goto, Idle, NoRun, record,
     world, MemoOK, DiskOK
<1>4. CASE CopySnapshot
  BY <1>4, FingerprintType, ResultType DEF CopySnapshot, Create, Stop, Goto,
     End, Idle, NoRun, record, world, MemoOK, DiskOK
<1>5. CASE CopyLauncher
  BY <1>5, FingerprintType, ResultType DEF CopyLauncher, Create, Goto, End,
     Idle, NoRun, record, world, MemoOK, DiskOK
<1>6. CASE WritePlist
  BY <1>6, FingerprintType, ResultType DEF WritePlist, Create, Stop, Goto,
     End, Idle, NoRun, record, world, MemoOK, DiskOK
<1>7. CASE Bootstrapping
  BY <1>7, FingerprintType, ResultType DEF Bootstrapping, Goto, Idle, NoRun,
     record, world, MemoOK, DiskOK
<1>8. CASE Bootstrap
  BY <1>8, FingerprintType, ResultType DEF Bootstrap, Goto, End, Loadable, Jobs, Idle, NoRun,
     record, world, MemoOK, DiskOK
<1>9. CASE MarkLoaded
  BY <1>9, FingerprintType, ResultType DEF MarkLoaded, End, Idle, NoRun,
     record, world, MemoOK, DiskOK
<1>10. CASE StartUninstall
  BY <1>10, FingerprintType, ResultType DEF StartUninstall, Begin, Authentic,
     Idle, NoRun, record, world, MemoOK, DiskOK
<1>11. CASE Unload
  BY <1>11, FingerprintType, ResultType DEF Unload, Goto, Jobs, Idle, NoRun, record,
     world, MemoOK, DiskOK
<1>12. CASE Unloaded
  BY <1>12, FingerprintType, ResultType DEF Unloaded, Resume, WriteTomb, Idle,
     NoRun, record, world, MemoOK, DiskOK
<1>13. CASE Look
  BY <1>13, FingerprintType, ResultType DEF Look, NextItem, Bound, End, Idle,
     NoRun, record, world, MemoOK, DiskOK
<1>14. CASE Unlink
  BY <1>14, FingerprintType, ResultType DEF Unlink, NextItem, Idle, NoRun,
     record, world, MemoOK, DiskOK
<1>15. CASE Processed
  BY <1>15, FingerprintType, ResultType DEF Processed, WriteTomb, Idle, NoRun,
     record, world, MemoOK, DiskOK
<1>16. CASE Confirm
  BY <1>16, FingerprintType, ResultType DEF Confirm, WriteTomb, Goto, End,
     Idle, NoRun, record, world, MemoOK, DiskOK
<1>17. CASE Retire
  BY <1>17, FingerprintType, ResultType DEF Retire, Goto, End, Idle, NoRun,
     record, world, MemoOK, DiskOK
<1>18. CASE StartRun
  <2>1. found' \in Fingerprints \cup {Nothing}
    BY <1>18, FingerprintType DEF StartRun, DiskOK, Owned
  <2>2. child' = NoChild \/ child' = [NoChild EXCEPT !.run = "up"]
    BY <1>18 DEF StartRun
  <2>3. UNCHANGED <<result, shown>> /\ prior' = result
    BY <1>18 DEF StartRun
  <2> QED
    BY <2>1, <2>2, <2>3 DEF MemoOK, NoChild
<1>19. CASE ProbeStarts
  <2>1. UNCHANGED <<found, prior, result, shown>>
    BY <1>19 DEF ProbeStarts, Protocol, proc
  <2>2. child' = [child EXCEPT !.shim = "up", !.probe = "up", !.begun = @ + 1]
    BY <1>19 DEF ProbeStarts
  <2>3. child.begun + 1 \in Nat
    BY DEF MemoOK
  <2> QED
    BY <2>1, <2>2, <2>3 DEF MemoOK
<1>20. CASE ProbeCloses
  BY <1>20, FingerprintType, ResultType DEF ProbeCloses, Protocol,
     NoLifecycle, proc, Idle, NoRun, record, world, MemoOK, DiskOK
<1>21. CASE Acknowledge
  <2>1. UNCHANGED <<found, prior, result, shown>>
    BY <1>21 DEF Acknowledge, Protocol, proc
  <2>2. child' = [child EXCEPT !.shim = "none", !.closed = @ + 1]
    BY <1>21 DEF Acknowledge
  <2>3. child.closed + 1 \in Nat
    BY DEF MemoOK
  <2> QED
    BY <2>1, <2>2, <2>3 DEF MemoOK
<1>22. CASE ShimDies
  BY <1>22, FingerprintType, ResultType DEF ShimDies, Protocol, NoLifecycle,
     proc, Idle, NoRun, record, world, MemoOK, DiskOK
<1>23. CASE ChildEnds
  BY <1>23, FingerprintType, ResultType DEF ChildEnds, Protocol, NoLifecycle,
     proc, Idle, NoRun, record, world, MemoOK, DiskOK
<1>24. CASE Collect
  BY <1>24, FingerprintType, ResultType DEF Collect, End, NoLifecycle, Idle,
     NoRun, record, world, MemoOK, DiskOK
<1>25. CASE Record
  <2>1. UNCHANGED child /\ found' \in {found, Nothing} /\ prior' \in {prior, NoResult}
    BY <1>25 DEF Record, Goto, End
  <2>2. Attempt \in BOOLEAN
    BY DEF Attempt
  <2>3. /\ result' = [fingerprint |-> found, attempted |-> Attempt]
        /\ found \in Fingerprints \cup {Nothing}
    BY <1>25 DEF Record, MemoOK
  <2>4. result' \in Results
    <3>1. CASE Attempt
      BY <3>1, <2>3 DEF Results
    <3>2. CASE ~Attempt
      <4>1. result' = [fingerprint |-> found, attempted |-> FALSE]
        BY <3>2, <2>2, <2>3, Zenon
      <4> QED
        BY <4>1, <2>3 DEF Results
    <3> QED
      BY <3>1, <3>2
  <2>5. shown' \in [fingerprint : Fingerprints \cup {Nothing}, again : BOOLEAN]
    BY <1>25, <2>2 DEF Record, MemoOK
  <2> QED
    BY <2>1, <2>4, <2>5, ResultType DEF MemoOK
<1>26. CASE Notify
  BY <1>26, FingerprintType, ResultType DEF Notify, End, NoLifecycle, Idle,
     NoRun, record, world, MemoOK, DiskOK
<1>27. CASE Die
  BY <1>27, FingerprintType, ResultType DEF Die, Cut, Writing, End, NoChild,
     Idle, NoRun, record, world, MemoOK, DiskOK
<1>28. CASE Login
  BY <1>28, FingerprintType, ResultType DEF Login, End, NoChild, Idle, NoRun,
     record, world, MemoOK, DiskOK
<1>29. CASE EditSource
  BY <1>29, FingerprintType, ResultType DEF EditSource, Edit, proc, Idle,
     NoRun, record, world, MemoOK, DiskOK
<1>30. CASE Release
  BY <1>30, FingerprintType, ResultType DEF Release, Edit, proc, Idle, NoRun,
     record, world, MemoOK, DiskOK
<1>31. ASSUME NEW i \in Items, Replace(i) PROVE MemoOK'
  BY <1>31, FingerprintType, ResultType DEF Replace, Edit, proc, Idle, NoRun,
     record, world, MemoOK, DiskOK
<1>32. ASSUME NEW i \in Items, Clear(i) PROVE MemoOK'
  BY <1>32, FingerprintType, ResultType DEF Clear, proc, Idle, NoRun, record,
     world, MemoOK, DiskOK
<1>33. CASE UNCHANGED vars
  BY <1>33, FingerprintType, ResultType DEF vars, MemoOK, DiskOK
<1> QED
  BY <1>1, <1>2, <1>3, <1>4, <1>5, <1>6, <1>7, <1>8, <1>9, <1>10, <1>11,
     <1>12, <1>13, <1>14, <1>15, <1>16, <1>17, <1>18, <1>19, <1>20, <1>21,
     <1>22, <1>23, <1>24, <1>25, <1>26, <1>27, <1>28, <1>29, <1>30, <1>31,
     <1>32, <1>33 DEF Next, Command, ChildSteps, Owner

\* Every action keeps the records in agreement.
LEMMA OwnedStep ==
  ASSUME TypeOK, Owned, [Next]_vars
  PROVE  Owned'
<1>1. CASE StartInstall
  BY <1>1 DEF StartInstall, Begin, Idle, NoRun, record, world, TypeOK, Items,
     Contents, LedgerPhases, TombPhases, Results, Commands, Places, Owned,
     Installing, Removing, FilesDone
<1>2. CASE Reopen
  BY <1>2 DEF Reopen, Goto, End, Authentic, NoTomb, Idle, NoRun, record,
     world, TypeOK, Items, Contents, LedgerPhases, TombPhases, Results,
     Commands, Places, Owned, Installing, Removing, FilesDone
<1>3. CASE Prepare
  BY <1>3 DEF Prepare, Goto, Idle, NoRun, record, world, TypeOK, Items,
     Contents, LedgerPhases, TombPhases, Results, Commands, Places, Owned,
     Installing, Removing, FilesDone
<1>4. CASE CopySnapshot
  BY <1>4 DEF CopySnapshot, Create, Stop, Goto, End, Idle, NoRun, record,
     world, TypeOK, Items, Contents, LedgerPhases, TombPhases, Results,
     Commands, Places, Owned, Installing, Removing, FilesDone
<1>5. CASE CopyLauncher
  BY <1>5 DEF CopyLauncher, Create, Goto, End, Idle, NoRun, record, world,
     TypeOK, Items, Contents, LedgerPhases, TombPhases, Results, Commands,
     Places, Owned, Installing, Removing, FilesDone
<1>6. CASE WritePlist
  BY <1>6 DEF WritePlist, Create, Stop, Goto, End, Idle, NoRun, record, world,
     TypeOK, Items, Contents, LedgerPhases, TombPhases, Results, Commands,
     Places, Owned, Installing, Removing, FilesDone
<1>7. CASE Bootstrapping
  BY <1>7 DEF Bootstrapping, Goto, Idle, NoRun, record, world, TypeOK, Items,
     Contents, LedgerPhases, TombPhases, Results, Commands, Places, Owned,
     Installing, Removing, FilesDone
<1>8. CASE Bootstrap
  BY <1>8 DEF Bootstrap, Goto, End, Loadable, Jobs, Idle, NoRun, record, world, TypeOK, Items,
     Contents, LedgerPhases, TombPhases, Results, Commands, Places, Owned,
     Installing, Removing, FilesDone
<1>9. CASE MarkLoaded
  BY <1>9 DEF MarkLoaded, End, Idle, NoRun, record, world, TypeOK, Items,
     Contents, LedgerPhases, TombPhases, Results, Commands, Places, Owned,
     Installing, Removing, FilesDone
<1>10. CASE StartUninstall
  BY <1>10 DEF StartUninstall, Begin, Authentic, Idle, NoRun, record, world,
     TypeOK, Items, Contents, LedgerPhases, TombPhases, Results, Commands,
     Places, Owned, Installing, Removing, FilesDone
<1>11. CASE Unload
  BY <1>11 DEF Unload, Goto, Jobs, Idle, NoRun, record, world, TypeOK, Items,
     Contents, LedgerPhases, TombPhases, Results, Commands, Places, Owned,
     Installing, Removing, FilesDone
<1>12. CASE Unloaded
  BY <1>12 DEF Unloaded, Resume, WriteTomb, Idle, NoRun, record, world,
     TypeOK, Items, Contents, LedgerPhases, TombPhases, Results, Commands,
     Places, Owned, Installing, Removing, FilesDone
<1>13. CASE Look
  BY <1>13 DEF Look, NextItem, Bound, End, Idle, NoRun, record, world, TypeOK,
     Items, Contents, LedgerPhases, TombPhases, Results, Commands, Places,
     Owned, Installing, Removing, FilesDone
<1>14. CASE Unlink
  BY <1>14 DEF Unlink, NextItem, Idle, NoRun, record, world, TypeOK, Items,
     Contents, LedgerPhases, TombPhases, Results, Commands, Places, Owned,
     Installing, Removing, FilesDone
<1>15. CASE Processed
  BY <1>15 DEF Processed, WriteTomb, Idle, NoRun, record, world, TypeOK,
     Items, Contents, LedgerPhases, TombPhases, Results, Commands, Places,
     Owned, Installing, Removing, FilesDone
<1>16. CASE Confirm
  BY <1>16 DEF Confirm, WriteTomb, Goto, End, Idle, NoRun, record, world,
     TypeOK, Items, Contents, LedgerPhases, TombPhases, Results, Commands,
     Places, Owned, Installing, Removing, FilesDone
<1>17. CASE Retire
  BY <1>17 DEF Retire, Goto, End, Idle, NoRun, record, world, TypeOK, Items,
     Contents, LedgerPhases, TombPhases, Results, Commands, Places, Owned,
     Installing, Removing, FilesDone
<1>18. CASE StartRun
  BY <1>18 DEF StartRun, Begin, NoLifecycle, NoChild, Drifted, Idle, NoRun,
     record, world, TypeOK, Items, Contents, LedgerPhases, TombPhases,
     Results, Commands, Places, Owned, Installing, Removing, FilesDone
<1>19. CASE ProbeStarts
  BY <1>19 DEF ProbeStarts, Protocol, NoLifecycle, proc, Idle, NoRun, record,
     world, TypeOK, Items, Contents, LedgerPhases, TombPhases, Results,
     Commands, Places, Owned, Installing, Removing, FilesDone
<1>20. CASE ProbeCloses
  BY <1>20 DEF ProbeCloses, Protocol, NoLifecycle, proc, Idle, NoRun, record,
     world, TypeOK, Items, Contents, LedgerPhases, TombPhases, Results,
     Commands, Places, Owned, Installing, Removing, FilesDone
<1>21. CASE Acknowledge
  BY <1>21 DEF Acknowledge, Protocol, NoLifecycle, proc, Idle, NoRun, record,
     world, TypeOK, Items, Contents, LedgerPhases, TombPhases, Results,
     Commands, Places, Owned, Installing, Removing, FilesDone
<1>22. CASE ShimDies
  BY <1>22 DEF ShimDies, Protocol, NoLifecycle, proc, Idle, NoRun, record,
     world, TypeOK, Items, Contents, LedgerPhases, TombPhases, Results,
     Commands, Places, Owned, Installing, Removing, FilesDone
<1>23. CASE ChildEnds
  BY <1>23 DEF ChildEnds, Protocol, NoLifecycle, proc, Idle, NoRun, record,
     world, TypeOK, Items, Contents, LedgerPhases, TombPhases, Results,
     Commands, Places, Owned, Installing, Removing, FilesDone
<1>24. CASE Collect
  BY <1>24 DEF Collect, End, NoLifecycle, Idle, NoRun, record, world, TypeOK,
     Items, Contents, LedgerPhases, TombPhases, Results, Commands, Places,
     Owned, Installing, Removing, FilesDone
<1>25. CASE Record
  BY <1>25 DEF Record, Goto, End, NoLifecycle, Attempt, Idle, NoRun, record,
     world, TypeOK, Items, Contents, LedgerPhases, TombPhases, Results,
     Commands, Places, Owned, Installing, Removing, FilesDone
<1>26. CASE Notify
  BY <1>26 DEF Notify, End, NoLifecycle, Idle, NoRun, record, world, TypeOK,
     Items, Contents, LedgerPhases, TombPhases, Results, Commands, Places,
     Owned, Installing, Removing, FilesDone
<1>27. CASE Die
  BY <1>27 DEF Die, Cut, Writing, End, NoChild, Idle, NoRun, record, world,
     TypeOK, Items, Contents, LedgerPhases, TombPhases, Results, Commands,
     Places, Owned, Installing, Removing, FilesDone
<1>28. CASE Login
  BY <1>28 DEF Login, End, NoChild, Idle, NoRun, record, world, TypeOK, Items,
     Contents, LedgerPhases, TombPhases, Results, Commands, Places, Owned,
     Installing, Removing, FilesDone
<1>29. CASE EditSource
  BY <1>29 DEF EditSource, Edit, proc, Idle, NoRun, record, world, TypeOK,
     Items, Contents, LedgerPhases, TombPhases, Results, Commands, Places,
     Owned, Installing, Removing, FilesDone
<1>30. CASE Release
  BY <1>30 DEF Release, Edit, proc, Idle, NoRun, record, world, TypeOK, Items,
     Contents, LedgerPhases, TombPhases, Results, Commands, Places, Owned,
     Installing, Removing, FilesDone
<1>31. ASSUME NEW i \in Items, Replace(i) PROVE Owned'
  BY <1>31 DEF Replace, Edit, proc, Idle, NoRun, record, world, TypeOK, Items,
     Contents, LedgerPhases, TombPhases, Results, Commands, Places, Owned,
     Installing, Removing, FilesDone
<1>32. ASSUME NEW i \in Items, Clear(i) PROVE Owned'
  BY <1>32 DEF Clear, proc, Idle, NoRun, record, world, TypeOK, Items,
     Contents, LedgerPhases, TombPhases, Results, Commands, Places, Owned,
     Installing, Removing, FilesDone
<1>33. CASE UNCHANGED vars
  BY <1>33 DEF vars, TypeOK, Items, Contents, LedgerPhases, TombPhases,
     Results, Commands, Places, Owned, Installing, Removing, FilesDone
<1> QED
  BY <1>1, <1>2, <1>3, <1>4, <1>5, <1>6, <1>7, <1>8, <1>9, <1>10, <1>11,
     <1>12, <1>13, <1>14, <1>15, <1>16, <1>17, <1>18, <1>19, <1>20, <1>21,
     <1>22, <1>23, <1>24, <1>25, <1>26, <1>27, <1>28, <1>29, <1>30, <1>31,
     <1>32, <1>33 DEF Next, Command, ChildSteps, Owner

\* Every action keeps a disowned installation unloaded.
LEMMA DisownedStep ==
  ASSUME TypeOK, Owned, Disowned, Clean, [Next]_vars
  PROVE  Disowned'
<1>1. CASE StartInstall
  BY <1>1, NotifierAssumption DEF StartInstall, Begin, Idle, NoRun, record,
     world, TypeOK, Items, Contents, LedgerPhases, TombPhases, Results,
     Commands, Places, Owned, Disowned, Installing, Removing, FilesDone,
     PlistDone
<1>2. CASE Reopen
  BY <1>2, NotifierAssumption DEF Reopen, Goto, End, Authentic, NoTomb, Idle,
     NoRun, record, world, TypeOK, Items, Contents, LedgerPhases, TombPhases,
     Results, Commands, Places, Owned, Disowned, Installing, Removing,
     FilesDone, PlistDone
<1>3. CASE Prepare
  BY <1>3, NotifierAssumption DEF Prepare, Goto, Idle, NoRun, record, world,
     TypeOK, Items, Contents, LedgerPhases, TombPhases, Results, Commands,
     Places, Owned, Disowned, Installing, Removing, FilesDone, PlistDone
<1>4. CASE CopySnapshot
  BY <1>4, NotifierAssumption DEF CopySnapshot, Create, Stop, Goto, End, Idle,
     NoRun, record, world, TypeOK, Items, Contents, LedgerPhases, TombPhases,
     Results, Commands, Places, Owned, Disowned, Installing, Removing,
     FilesDone, PlistDone
<1>5. CASE CopyLauncher
  BY <1>5, NotifierAssumption DEF CopyLauncher, Create, Goto, End, Idle,
     NoRun, record, world, TypeOK, Items, Contents, LedgerPhases, TombPhases,
     Results, Commands, Places, Owned, Disowned, Installing, Removing,
     FilesDone, PlistDone
<1>6. CASE WritePlist
  BY <1>6, NotifierAssumption DEF WritePlist, Create, Stop, Goto, End, Idle,
     NoRun, record, world, TypeOK, Items, Contents, LedgerPhases, TombPhases,
     Results, Commands, Places, Owned, Disowned, Installing, Removing,
     FilesDone, PlistDone
<1>7. CASE Bootstrapping
  BY <1>7, NotifierAssumption DEF Bootstrapping, Goto, Idle, NoRun, record,
     world, TypeOK, Items, Contents, LedgerPhases, TombPhases, Results,
     Commands, Places, Owned, Disowned, Installing, Removing, FilesDone,
     PlistDone
<1>8. CASE Bootstrap
  BY <1>8, NotifierAssumption DEF Bootstrap, Goto, End, Loadable, Jobs, Idle, NoRun, record,
     world, TypeOK, Items, Contents, LedgerPhases, TombPhases, Results,
     Commands, Places, Owned, Disowned, Installing, Removing, FilesDone,
     PlistDone
<1>9. CASE MarkLoaded
  BY <1>9, NotifierAssumption DEF MarkLoaded, End, Idle, NoRun, record, world,
     TypeOK, Items, Contents, LedgerPhases, TombPhases, Results, Commands,
     Places, Owned, Disowned, Installing, Removing, FilesDone, PlistDone
<1>10. CASE StartUninstall
  BY <1>10, NotifierAssumption DEF StartUninstall, Begin, Authentic, Idle,
     NoRun, record, world, TypeOK, Items, Contents, LedgerPhases, TombPhases,
     Results, Commands, Places, Owned, Disowned, Installing, Removing,
     FilesDone, PlistDone
<1>11. CASE Unload
  BY <1>11, NotifierAssumption DEF Unload, Goto, Jobs, Idle, NoRun, record, world,
     TypeOK, Items, Contents, LedgerPhases, TombPhases, Results, Commands,
     Places, Owned, Disowned, Installing, Removing, FilesDone, PlistDone
<1>12. CASE Unloaded
  BY <1>12, NotifierAssumption DEF Unloaded, Resume, WriteTomb, Idle, NoRun,
     record, world, TypeOK, Items, Contents, LedgerPhases, TombPhases,
     Results, Commands, Places, Owned, Disowned, Installing, Removing,
     FilesDone, PlistDone
<1>13. CASE Look
  BY <1>13, NotifierAssumption DEF Look, NextItem, Bound, End, Idle, NoRun, record,
     world, TypeOK, Items, Contents, LedgerPhases, TombPhases, Results,
     Commands, Places, Owned, Disowned, Installing, Removing, FilesDone,
     PlistDone
<1>14. CASE Unlink
  BY <1>14, NotifierAssumption DEF Unlink, NextItem, Idle, NoRun, record,
     world, TypeOK, Items, Contents, LedgerPhases, TombPhases, Results,
     Commands, Places, Owned, Disowned, Installing, Removing, FilesDone,
     PlistDone
<1>15. CASE Processed
  BY <1>15, NotifierAssumption DEF Processed, WriteTomb, Idle, NoRun, record,
     world, TypeOK, Items, Contents, LedgerPhases, TombPhases, Results,
     Commands, Places, Owned, Disowned, Installing, Removing, FilesDone,
     PlistDone
<1>16. CASE Confirm
  BY <1>16, NotifierAssumption DEF Confirm, WriteTomb, Goto, End, Idle, NoRun,
     record, world, TypeOK, Items, Contents, LedgerPhases, TombPhases,
     Results, Commands, Places, Owned, Disowned, Installing, Removing,
     FilesDone, PlistDone
<1>17. CASE Retire
  BY <1>17, NotifierAssumption DEF Retire, Goto, End, Idle, NoRun, record,
     world, TypeOK, Items, Contents, LedgerPhases, TombPhases, Results,
     Commands, Places, Owned, Disowned, Installing, Removing, FilesDone,
     PlistDone
<1>18. CASE StartRun
  BY <1>18, NotifierAssumption DEF StartRun, Begin, NoLifecycle, NoChild,
     Drifted, Idle, NoRun, record, world, TypeOK, Items, Contents,
     LedgerPhases, TombPhases, Results, Commands, Places, Owned, Disowned,
     Installing, Removing, FilesDone, PlistDone
<1>19. CASE ProbeStarts
  BY <1>19, NotifierAssumption DEF ProbeStarts, Protocol, NoLifecycle, proc,
     Idle, NoRun, record, world, TypeOK, Items, Contents, LedgerPhases,
     TombPhases, Results, Commands, Places, Owned, Disowned, Installing,
     Removing, FilesDone, PlistDone
<1>20. CASE ProbeCloses
  BY <1>20, NotifierAssumption DEF ProbeCloses, Protocol, NoLifecycle, proc,
     Idle, NoRun, record, world, TypeOK, Items, Contents, LedgerPhases,
     TombPhases, Results, Commands, Places, Owned, Disowned, Installing,
     Removing, FilesDone, PlistDone
<1>21. CASE Acknowledge
  BY <1>21, NotifierAssumption DEF Acknowledge, Protocol, NoLifecycle, proc,
     Idle, NoRun, record, world, TypeOK, Items, Contents, LedgerPhases,
     TombPhases, Results, Commands, Places, Owned, Disowned, Installing,
     Removing, FilesDone, PlistDone
<1>22. CASE ShimDies
  BY <1>22, NotifierAssumption DEF ShimDies, Protocol, NoLifecycle, proc,
     Idle, NoRun, record, world, TypeOK, Items, Contents, LedgerPhases,
     TombPhases, Results, Commands, Places, Owned, Disowned, Installing,
     Removing, FilesDone, PlistDone
<1>23. CASE ChildEnds
  BY <1>23, NotifierAssumption DEF ChildEnds, Protocol, NoLifecycle, proc,
     Idle, NoRun, record, world, TypeOK, Items, Contents, LedgerPhases,
     TombPhases, Results, Commands, Places, Owned, Disowned, Installing,
     Removing, FilesDone, PlistDone
<1>24. CASE Collect
  BY <1>24, NotifierAssumption DEF Collect, End, NoLifecycle, Idle, NoRun,
     record, world, TypeOK, Items, Contents, LedgerPhases, TombPhases,
     Results, Commands, Places, Owned, Disowned, Installing, Removing,
     FilesDone, PlistDone
<1>25. CASE Record
  BY <1>25, NotifierAssumption DEF Record, Goto, End, NoLifecycle, Attempt,
     Idle, NoRun, record, world, TypeOK, Items, Contents, LedgerPhases,
     TombPhases, Results, Commands, Places, Owned, Disowned, Installing,
     Removing, FilesDone, PlistDone
<1>26. CASE Notify
  BY <1>26, NotifierAssumption DEF Notify, End, NoLifecycle, Idle, NoRun,
     record, world, TypeOK, Items, Contents, LedgerPhases, TombPhases,
     Results, Commands, Places, Owned, Disowned, Installing, Removing,
     FilesDone, PlistDone
<1>27. CASE Die
  BY <1>27, NotifierAssumption DEF Die, Cut, Writing, End, NoChild, Idle,
     NoRun, record, world, TypeOK, Items, Contents, LedgerPhases, TombPhases,
     Results, Commands, Places, Owned, Disowned, Installing, Removing,
     FilesDone, PlistDone
<1>28. CASE Login
  BY <1>28, NotifierAssumption DEF Login, Loadable, Clean, Settled, End, NoChild, Idle, NoRun, record,
     world, TypeOK, Items, Contents, LedgerPhases, TombPhases, Results,
     Commands, Places, Owned, Disowned, Installing, Removing, FilesDone,
     PlistDone
<1>29. CASE EditSource
  BY <1>29, NotifierAssumption DEF EditSource, Edit, proc, Idle, NoRun,
     record, world, TypeOK, Items, Contents, LedgerPhases, TombPhases,
     Results, Commands, Places, Owned, Disowned, Installing, Removing,
     FilesDone, PlistDone
<1>30. CASE Release
  BY <1>30, NotifierAssumption DEF Release, Edit, proc, Idle, NoRun, record,
     world, TypeOK, Items, Contents, LedgerPhases, TombPhases, Results,
     Commands, Places, Owned, Disowned, Installing, Removing, FilesDone,
     PlistDone
<1>31. ASSUME NEW i \in Items, Replace(i) PROVE Disowned'
  BY <1>31, NotifierAssumption DEF Replace, Edit, proc, Idle, NoRun, record,
     world, TypeOK, Items, Contents, LedgerPhases, TombPhases, Results,
     Commands, Places, Owned, Disowned, Installing, Removing, FilesDone,
     PlistDone
<1>32. ASSUME NEW i \in Items, Clear(i) PROVE Disowned'
  BY <1>32, NotifierAssumption DEF Clear, proc, Idle, NoRun, record, world,
     TypeOK, Items, Contents, LedgerPhases, TombPhases, Results, Commands,
     Places, Owned, Disowned, Installing, Removing, FilesDone, PlistDone
<1>33. CASE UNCHANGED vars
  BY <1>33, NotifierAssumption DEF vars, TypeOK, Items, Contents,
     LedgerPhases, TombPhases, Results, Commands, Places, Owned, Disowned,
     Installing, Removing, FilesDone, PlistDone
<1> QED
  BY <1>1, <1>2, <1>3, <1>4, <1>5, <1>6, <1>7, <1>8, <1>9, <1>10, <1>11,
     <1>12, <1>13, <1>14, <1>15, <1>16, <1>17, <1>18, <1>19, <1>20, <1>21,
     <1>22, <1>23, <1>24, <1>25, <1>26, <1>27, <1>28, <1>29, <1>30, <1>31,
     <1>32, <1>33 DEF Next, Command, ChildSteps, Owner

\* Every action keeps the processed paths settled.
LEMMA CleanStep ==
  ASSUME TypeOK, Owned, Clean, [Next]_vars
  PROVE  Clean'
<1>1. CASE StartInstall
  BY <1>1 DEF StartInstall, Begin, Idle, NoRun, record, world, TypeOK, Items,
     Contents, LedgerPhases, TombPhases, Results, Commands, Places, Owned,
     Clean, Settled, Installing, Removing, FilesDone, PlistDone
<1>2. CASE Reopen
  BY <1>2 DEF Reopen, Goto, End, Authentic, NoTomb, Idle, NoRun, record,
     world, TypeOK, Items, Contents, LedgerPhases, TombPhases, Results,
     Commands, Places, Owned, Clean, Settled, Installing, Removing, FilesDone,
     PlistDone
<1>3. CASE Prepare
  BY <1>3 DEF Prepare, Goto, Idle, NoRun, record, world, TypeOK, Items,
     Contents, LedgerPhases, TombPhases, Results, Commands, Places, Owned,
     Clean, Settled, Installing, Removing, FilesDone, PlistDone
<1>4. CASE CopySnapshot
  BY <1>4 DEF CopySnapshot, Create, Stop, Goto, End, Idle, NoRun, record,
     world, TypeOK, Items, Contents, LedgerPhases, TombPhases, Results,
     Commands, Places, Owned, Clean, Settled, Installing, Removing, FilesDone,
     PlistDone
<1>5. CASE CopyLauncher
  BY <1>5 DEF CopyLauncher, Create, Goto, End, Idle, NoRun, record, world,
     TypeOK, Items, Contents, LedgerPhases, TombPhases, Results, Commands,
     Places, Owned, Clean, Settled, Installing, Removing, FilesDone, PlistDone
<1>6. CASE WritePlist
  BY <1>6 DEF WritePlist, Create, Stop, Goto, End, Idle, NoRun, record, world,
     TypeOK, Items, Contents, LedgerPhases, TombPhases, Results, Commands,
     Places, Owned, Clean, Settled, Installing, Removing, FilesDone, PlistDone
<1>7. CASE Bootstrapping
  BY <1>7 DEF Bootstrapping, Goto, Idle, NoRun, record, world, TypeOK, Items,
     Contents, LedgerPhases, TombPhases, Results, Commands, Places, Owned,
     Clean, Settled, Installing, Removing, FilesDone, PlistDone
<1>8. CASE Bootstrap
  BY <1>8 DEF Bootstrap, Goto, End, Loadable, Jobs, Idle, NoRun, record, world, TypeOK, Items,
     Contents, LedgerPhases, TombPhases, Results, Commands, Places, Owned,
     Clean, Settled, Installing, Removing, FilesDone, PlistDone
<1>9. CASE MarkLoaded
  BY <1>9 DEF MarkLoaded, End, Idle, NoRun, record, world, TypeOK, Items,
     Contents, LedgerPhases, TombPhases, Results, Commands, Places, Owned,
     Clean, Settled, Installing, Removing, FilesDone, PlistDone
<1>10. CASE StartUninstall
  BY <1>10 DEF StartUninstall, Begin, Authentic, Idle, NoRun, record, world,
     TypeOK, Items, Contents, LedgerPhases, TombPhases, Results, Commands,
     Places, Owned, Clean, Settled, Installing, Removing, FilesDone, PlistDone
<1>11. CASE Unload
  BY <1>11 DEF Unload, Goto, Jobs, Idle, NoRun, record, world, TypeOK, Items,
     Contents, LedgerPhases, TombPhases, Results, Commands, Places, Owned,
     Clean, Settled, Installing, Removing, FilesDone, PlistDone
<1>12. CASE Unloaded
  BY <1>12 DEF Unloaded, Resume, WriteTomb, Idle, NoRun, record, world,
     TypeOK, Items, Contents, LedgerPhases, TombPhases, Results, Commands,
     Places, Owned, Clean, Settled, Installing, Removing, FilesDone, PlistDone
<1>13. CASE Look
  <2> USE DEF Items, Owned, Clean, Settled, Removing, FilesDone, PlistDone
  <2>1. tomb' = tomb /\ files' = files /\ ledger' = ledger /\ at = "look"
    BY <1>13 DEF Look, record
  <2>2. tomb.phase = IF item = "plist" THEN "unloaded" ELSE "plist-processed"
    BY <2>1
  <2>3. CASE files[item] = "unsafe"
    <3>1. at' = "none" /\ late' = late
      BY <1>13, <2>3 DEF Look, End
    <3> QED
      BY <2>1, <3>1
  <2>4. CASE files[item] # "unsafe"
    <3>1. late' = late \ {item}
      BY <1>13, <2>4 DEF Look
    <3>2. CASE files[item] = Bound(item)
      <4>1. at' = "unlink" /\ item' = item /\ kept' = kept
        BY <1>13, <2>4, <3>2 DEF Look
      <4> QED
        BY <2>1, <2>2, <3>1, <4>1 DEF TypeOK
    <3>3. CASE files[item] # Bound(item)
      <4>1. NextItem /\ kept' = (kept \/ files[item] # "absent")
        BY <1>13, <2>4, <3>3 DEF Look
      <4>2. CASE item = "snapshot"
        BY <2>1, <2>2, <3>1, <4>1, <4>2 DEF TypeOK, NextItem
      <4>3. CASE item # "snapshot"
        BY <2>1, <2>2, <3>1, <4>1, <4>3 DEF TypeOK, NextItem
      <4> QED
        BY <4>2, <4>3
    <3> QED
      BY <3>2, <3>3
  <2> QED
    BY <2>3, <2>4
<1>14. CASE Unlink
  BY <1>14 DEF Unlink, NextItem, Idle, NoRun, record, world, TypeOK, Items,
     Contents, LedgerPhases, TombPhases, Results, Commands, Places, Owned,
     Clean, Settled, Installing, Removing, FilesDone, PlistDone
<1>15. CASE Processed
  BY <1>15 DEF Processed, WriteTomb, Idle, NoRun, record, world, TypeOK,
     Items, Contents, LedgerPhases, TombPhases, Results, Commands, Places,
     Owned, Clean, Settled, Installing, Removing, FilesDone, PlistDone
<1>16. CASE Confirm
  BY <1>16 DEF Confirm, WriteTomb, Goto, End, Idle, NoRun, record, world,
     TypeOK, Items, Contents, LedgerPhases, TombPhases, Results, Commands,
     Places, Owned, Clean, Settled, Installing, Removing, FilesDone, PlistDone
<1>17. CASE Retire
  BY <1>17 DEF Retire, Goto, End, Idle, NoRun, record, world, TypeOK, Items,
     Contents, LedgerPhases, TombPhases, Results, Commands, Places, Owned,
     Clean, Settled, Installing, Removing, FilesDone, PlistDone
<1>18. CASE StartRun
  BY <1>18 DEF StartRun, Begin, NoLifecycle, NoChild, Drifted, Idle, NoRun,
     record, world, TypeOK, Items, Contents, LedgerPhases, TombPhases,
     Results, Commands, Places, Owned, Clean, Settled, Installing, Removing,
     FilesDone, PlistDone
<1>19. CASE ProbeStarts
  BY <1>19 DEF ProbeStarts, Protocol, NoLifecycle, proc, Idle, NoRun, record,
     world, TypeOK, Items, Contents, LedgerPhases, TombPhases, Results,
     Commands, Places, Owned, Clean, Settled, Installing, Removing, FilesDone,
     PlistDone
<1>20. CASE ProbeCloses
  BY <1>20 DEF ProbeCloses, Protocol, NoLifecycle, proc, Idle, NoRun, record,
     world, TypeOK, Items, Contents, LedgerPhases, TombPhases, Results,
     Commands, Places, Owned, Clean, Settled, Installing, Removing, FilesDone,
     PlistDone
<1>21. CASE Acknowledge
  BY <1>21 DEF Acknowledge, Protocol, NoLifecycle, proc, Idle, NoRun, record,
     world, TypeOK, Items, Contents, LedgerPhases, TombPhases, Results,
     Commands, Places, Owned, Clean, Settled, Installing, Removing, FilesDone,
     PlistDone
<1>22. CASE ShimDies
  BY <1>22 DEF ShimDies, Protocol, NoLifecycle, proc, Idle, NoRun, record,
     world, TypeOK, Items, Contents, LedgerPhases, TombPhases, Results,
     Commands, Places, Owned, Clean, Settled, Installing, Removing, FilesDone,
     PlistDone
<1>23. CASE ChildEnds
  BY <1>23 DEF ChildEnds, Protocol, NoLifecycle, proc, Idle, NoRun, record,
     world, TypeOK, Items, Contents, LedgerPhases, TombPhases, Results,
     Commands, Places, Owned, Clean, Settled, Installing, Removing, FilesDone,
     PlistDone
<1>24. CASE Collect
  BY <1>24 DEF Collect, End, NoLifecycle, Idle, NoRun, record, world, TypeOK,
     Items, Contents, LedgerPhases, TombPhases, Results, Commands, Places,
     Owned, Clean, Settled, Installing, Removing, FilesDone, PlistDone
<1>25. CASE Record
  BY <1>25 DEF Record, Goto, End, NoLifecycle, Attempt, Idle, NoRun, record,
     world, TypeOK, Items, Contents, LedgerPhases, TombPhases, Results,
     Commands, Places, Owned, Clean, Settled, Installing, Removing, FilesDone,
     PlistDone
<1>26. CASE Notify
  BY <1>26 DEF Notify, End, NoLifecycle, Idle, NoRun, record, world, TypeOK,
     Items, Contents, LedgerPhases, TombPhases, Results, Commands, Places,
     Owned, Clean, Settled, Installing, Removing, FilesDone, PlistDone
<1>27. CASE Die
  BY <1>27 DEF Die, Cut, Writing, End, NoChild, Idle, NoRun, record, world,
     TypeOK, Items, Contents, LedgerPhases, TombPhases, Results, Commands,
     Places, Owned, Clean, Settled, Installing, Removing, FilesDone, PlistDone
<1>28. CASE Login
  BY <1>28 DEF Login, End, NoChild, Idle, NoRun, record, world, TypeOK, Items,
     Contents, LedgerPhases, TombPhases, Results, Commands, Places, Owned,
     Clean, Settled, Installing, Removing, FilesDone, PlistDone
<1>29. CASE EditSource
  BY <1>29 DEF EditSource, Edit, proc, Idle, NoRun, record, world, TypeOK,
     Items, Contents, LedgerPhases, TombPhases, Results, Commands, Places,
     Owned, Clean, Settled, Installing, Removing, FilesDone, PlistDone
<1>30. CASE Release
  BY <1>30 DEF Release, Edit, proc, Idle, NoRun, record, world, TypeOK, Items,
     Contents, LedgerPhases, TombPhases, Results, Commands, Places, Owned,
     Clean, Settled, Installing, Removing, FilesDone, PlistDone
<1>31. ASSUME NEW i \in Items, Replace(i) PROVE Clean'
  BY <1>31 DEF Replace, Edit, proc, Idle, NoRun, record, world, TypeOK, Items,
     Contents, LedgerPhases, TombPhases, Results, Commands, Places, Owned,
     Clean, Settled, Installing, Removing, FilesDone, PlistDone
<1>32. ASSUME NEW i \in Items, Clear(i) PROVE Clean'
  BY <1>32 DEF Clear, proc, Idle, NoRun, record, world, TypeOK, Items,
     Contents, LedgerPhases, TombPhases, Results, Commands, Places, Owned,
     Clean, Settled, Installing, Removing, FilesDone, PlistDone
<1>33. CASE UNCHANGED vars
  BY <1>33 DEF vars, TypeOK, Items, Contents, LedgerPhases, TombPhases,
     Results, Commands, Places, Owned, Clean, Settled, Installing, Removing,
     FilesDone, PlistDone
<1> QED
  BY <1>1, <1>2, <1>3, <1>4, <1>5, <1>6, <1>7, <1>8, <1>9, <1>10, <1>11,
     <1>12, <1>13, <1>14, <1>15, <1>16, <1>17, <1>18, <1>19, <1>20, <1>21,
     <1>22, <1>23, <1>24, <1>25, <1>26, <1>27, <1>28, <1>29, <1>30, <1>31,
     <1>32, <1>33 DEF Next, Command, ChildSteps, Owner

\* Every action keeps the acknowledgement bytes paired.
LEMMA PairedStep ==
  ASSUME TypeOK, Owned, Paired, [Next]_vars
  PROVE  Paired'
<1>1. CASE StartInstall
  BY <1>1 DEF StartInstall, Begin, Idle, NoRun, record, world, TypeOK, Items,
     Contents, LedgerPhases, TombPhases, Results, Commands, Places, Owned,
     Installing, Removing, Paired, NoChild
<1>2. CASE Reopen
  BY <1>2 DEF Reopen, Goto, End, Authentic, NoTomb, Idle, NoRun, record,
     world, TypeOK, Items, Contents, LedgerPhases, TombPhases, Results,
     Commands, Places, Owned, Installing, Removing, Paired, NoChild
<1>3. CASE Prepare
  BY <1>3 DEF Prepare, Goto, Idle, NoRun, record, world, TypeOK, Items,
     Contents, LedgerPhases, TombPhases, Results, Commands, Places, Owned,
     Installing, Removing, Paired, NoChild
<1>4. CASE CopySnapshot
  BY <1>4 DEF CopySnapshot, Create, Stop, Goto, End, Idle, NoRun, record,
     world, TypeOK, Items, Contents, LedgerPhases, TombPhases, Results,
     Commands, Places, Owned, Installing, Removing, Paired, NoChild
<1>5. CASE CopyLauncher
  BY <1>5 DEF CopyLauncher, Create, Goto, End, Idle, NoRun, record, world,
     TypeOK, Items, Contents, LedgerPhases, TombPhases, Results, Commands,
     Places, Owned, Installing, Removing, Paired, NoChild
<1>6. CASE WritePlist
  BY <1>6 DEF WritePlist, Create, Stop, Goto, End, Idle, NoRun, record, world,
     TypeOK, Items, Contents, LedgerPhases, TombPhases, Results, Commands,
     Places, Owned, Installing, Removing, Paired, NoChild
<1>7. CASE Bootstrapping
  BY <1>7 DEF Bootstrapping, Goto, Idle, NoRun, record, world, TypeOK, Items,
     Contents, LedgerPhases, TombPhases, Results, Commands, Places, Owned,
     Installing, Removing, Paired, NoChild
<1>8. CASE Bootstrap
  BY <1>8 DEF Bootstrap, Goto, End, Loadable, Jobs, Idle, NoRun, record, world, TypeOK, Items,
     Contents, LedgerPhases, TombPhases, Results, Commands, Places, Owned,
     Installing, Removing, Paired, NoChild
<1>9. CASE MarkLoaded
  BY <1>9 DEF MarkLoaded, End, Idle, NoRun, record, world, TypeOK, Items,
     Contents, LedgerPhases, TombPhases, Results, Commands, Places, Owned,
     Installing, Removing, Paired, NoChild
<1>10. CASE StartUninstall
  BY <1>10 DEF StartUninstall, Begin, Authentic, Idle, NoRun, record, world,
     TypeOK, Items, Contents, LedgerPhases, TombPhases, Results, Commands,
     Places, Owned, Installing, Removing, Paired, NoChild
<1>11. CASE Unload
  BY <1>11 DEF Unload, Goto, Jobs, Idle, NoRun, record, world, TypeOK, Items,
     Contents, LedgerPhases, TombPhases, Results, Commands, Places, Owned,
     Installing, Removing, Paired, NoChild
<1>12. CASE Unloaded
  BY <1>12 DEF Unloaded, Resume, WriteTomb, Idle, NoRun, record, world,
     TypeOK, Items, Contents, LedgerPhases, TombPhases, Results, Commands,
     Places, Owned, Installing, Removing, Paired, NoChild
<1>13. CASE Look
  BY <1>13 DEF Look, NextItem, Bound, End, Idle, NoRun, record, world, TypeOK,
     Items, Contents, LedgerPhases, TombPhases, Results, Commands, Places,
     Owned, Installing, Removing, Paired, NoChild
<1>14. CASE Unlink
  BY <1>14 DEF Unlink, NextItem, Idle, NoRun, record, world, TypeOK, Items,
     Contents, LedgerPhases, TombPhases, Results, Commands, Places, Owned,
     Installing, Removing, Paired, NoChild
<1>15. CASE Processed
  BY <1>15 DEF Processed, WriteTomb, Idle, NoRun, record, world, TypeOK,
     Items, Contents, LedgerPhases, TombPhases, Results, Commands, Places,
     Owned, Installing, Removing, Paired, NoChild
<1>16. CASE Confirm
  BY <1>16 DEF Confirm, WriteTomb, Goto, End, Idle, NoRun, record, world,
     TypeOK, Items, Contents, LedgerPhases, TombPhases, Results, Commands,
     Places, Owned, Installing, Removing, Paired, NoChild
<1>17. CASE Retire
  BY <1>17 DEF Retire, Goto, End, Idle, NoRun, record, world, TypeOK, Items,
     Contents, LedgerPhases, TombPhases, Results, Commands, Places, Owned,
     Installing, Removing, Paired, NoChild
<1>18. CASE StartRun
  BY <1>18 DEF StartRun, Begin, NoLifecycle, NoChild, Drifted, Idle, NoRun,
     record, world, TypeOK, Items, Contents, LedgerPhases, TombPhases,
     Results, Commands, Places, Owned, Installing, Removing, Paired
<1>19. CASE ProbeStarts
  BY <1>19 DEF ProbeStarts, Protocol, NoLifecycle, proc, Idle, NoRun, record,
     world, TypeOK, Items, Contents, LedgerPhases, TombPhases, Results,
     Commands, Places, Owned, Installing, Removing, Paired, NoChild
<1>20. CASE ProbeCloses
  BY <1>20 DEF ProbeCloses, Protocol, NoLifecycle, proc, Idle, NoRun, record,
     world, TypeOK, Items, Contents, LedgerPhases, TombPhases, Results,
     Commands, Places, Owned, Installing, Removing, Paired, NoChild
<1>21. CASE Acknowledge
  BY <1>21 DEF Acknowledge, Protocol, NoLifecycle, proc, Idle, NoRun, record,
     world, TypeOK, Items, Contents, LedgerPhases, TombPhases, Results,
     Commands, Places, Owned, Installing, Removing, Paired, NoChild
<1>22. CASE ShimDies
  BY <1>22 DEF ShimDies, Protocol, NoLifecycle, proc, Idle, NoRun, record,
     world, TypeOK, Items, Contents, LedgerPhases, TombPhases, Results,
     Commands, Places, Owned, Installing, Removing, Paired, NoChild
<1>23. CASE ChildEnds
  BY <1>23 DEF ChildEnds, Protocol, NoLifecycle, proc, Idle, NoRun, record,
     world, TypeOK, Items, Contents, LedgerPhases, TombPhases, Results,
     Commands, Places, Owned, Installing, Removing, Paired, NoChild
<1>24. CASE Collect
  BY <1>24 DEF Collect, End, NoLifecycle, Idle, NoRun, record, world, TypeOK,
     Items, Contents, LedgerPhases, TombPhases, Results, Commands, Places,
     Owned, Installing, Removing, Paired, NoChild
<1>25. CASE Record
  BY <1>25 DEF Record, Goto, End, NoLifecycle, Attempt, Idle, NoRun, record,
     world, TypeOK, Items, Contents, LedgerPhases, TombPhases, Results,
     Commands, Places, Owned, Installing, Removing, Paired, NoChild
<1>26. CASE Notify
  BY <1>26 DEF Notify, End, NoLifecycle, Idle, NoRun, record, world, TypeOK,
     Items, Contents, LedgerPhases, TombPhases, Results, Commands, Places,
     Owned, Installing, Removing, Paired, NoChild
<1>27. CASE Die
  BY <1>27 DEF Die, Cut, Writing, End, NoChild, Idle, NoRun, record, world,
     TypeOK, Items, Contents, LedgerPhases, TombPhases, Results, Commands,
     Places, Owned, Installing, Removing, Paired
<1>28. CASE Login
  BY <1>28 DEF Login, End, NoChild, Idle, NoRun, record, world, TypeOK, Items,
     Contents, LedgerPhases, TombPhases, Results, Commands, Places, Owned,
     Installing, Removing, Paired
<1>29. CASE EditSource
  BY <1>29 DEF EditSource, Edit, proc, Idle, NoRun, record, world, TypeOK,
     Items, Contents, LedgerPhases, TombPhases, Results, Commands, Places,
     Owned, Installing, Removing, Paired, NoChild
<1>30. CASE Release
  BY <1>30 DEF Release, Edit, proc, Idle, NoRun, record, world, TypeOK, Items,
     Contents, LedgerPhases, TombPhases, Results, Commands, Places, Owned,
     Installing, Removing, Paired, NoChild
<1>31. ASSUME NEW i \in Items, Replace(i) PROVE Paired'
  BY <1>31 DEF Replace, Edit, proc, Idle, NoRun, record, world, TypeOK, Items,
     Contents, LedgerPhases, TombPhases, Results, Commands, Places, Owned,
     Installing, Removing, Paired, NoChild
<1>32. ASSUME NEW i \in Items, Clear(i) PROVE Paired'
  BY <1>32 DEF Clear, proc, Idle, NoRun, record, world, TypeOK, Items,
     Contents, LedgerPhases, TombPhases, Results, Commands, Places, Owned,
     Installing, Removing, Paired, NoChild
<1>33. CASE UNCHANGED vars
  BY <1>33 DEF vars, TypeOK, Items, Contents, LedgerPhases, TombPhases,
     Results, Commands, Places, Owned, Installing, Removing, Paired, NoChild
<1> QED
  BY <1>1, <1>2, <1>3, <1>4, <1>5, <1>6, <1>7, <1>8, <1>9, <1>10, <1>11,
     <1>12, <1>13, <1>14, <1>15, <1>16, <1>17, <1>18, <1>19, <1>20, <1>21,
     <1>22, <1>23, <1>24, <1>25, <1>26, <1>27, <1>28, <1>29, <1>30, <1>31,
     <1>32, <1>33 DEF Next, Command, ChildSteps, Owner

\* Nothing is not a fingerprint.
LEMMA NothingDistinct ==
  /\ \A v, w : Drifted(v, w) # Nothing
  /\ \A offer : Observed(offer) # Nothing
BY DEF Nothing, Observed, Drifted

\* Every action keeps what was displayed recorded.
LEMMA RecordedStep ==
  ASSUME TypeOK, Owned, Recorded, [Next]_vars
  PROVE  Recorded'
<1>1. CASE StartInstall
  BY <1>1, NothingDistinct DEF StartInstall, Begin, Idle, NoRun, record,
     world, TypeOK, Items, Contents, LedgerPhases, TombPhases, Results,
     Commands, Places, Owned, Installing, Removing, Recorded, ShownOnce,
     NoResult
<1>2. CASE Reopen
  BY <1>2, NothingDistinct DEF Reopen, Goto, End, Authentic, NoTomb, Idle,
     NoRun, record, world, TypeOK, Items, Contents, LedgerPhases, TombPhases,
     Results, Commands, Places, Owned, Installing, Removing, Recorded,
     ShownOnce, NoResult
<1>3. CASE Prepare
  BY <1>3, NothingDistinct DEF Prepare, Goto, Idle, NoRun, record, world,
     TypeOK, Items, Contents, LedgerPhases, TombPhases, Results, Commands,
     Places, Owned, Installing, Removing, Recorded, ShownOnce, NoResult
<1>4. CASE CopySnapshot
  BY <1>4, NothingDistinct DEF CopySnapshot, Create, Stop, Goto, End, Idle,
     NoRun, record, world, TypeOK, Items, Contents, LedgerPhases, TombPhases,
     Results, Commands, Places, Owned, Installing, Removing, Recorded,
     ShownOnce, NoResult
<1>5. CASE CopyLauncher
  BY <1>5, NothingDistinct DEF CopyLauncher, Create, Goto, End, Idle, NoRun,
     record, world, TypeOK, Items, Contents, LedgerPhases, TombPhases,
     Results, Commands, Places, Owned, Installing, Removing, Recorded,
     ShownOnce, NoResult
<1>6. CASE WritePlist
  BY <1>6, NothingDistinct DEF WritePlist, Create, Stop, Goto, End, Idle,
     NoRun, record, world, TypeOK, Items, Contents, LedgerPhases, TombPhases,
     Results, Commands, Places, Owned, Installing, Removing, Recorded,
     ShownOnce, NoResult
<1>7. CASE Bootstrapping
  BY <1>7, NothingDistinct DEF Bootstrapping, Goto, Idle, NoRun, record,
     world, TypeOK, Items, Contents, LedgerPhases, TombPhases, Results,
     Commands, Places, Owned, Installing, Removing, Recorded, ShownOnce,
     NoResult
<1>8. CASE Bootstrap
  BY <1>8, NothingDistinct DEF Bootstrap, Goto, End, Idle, NoRun, record,
     world, TypeOK, Items, Contents, LedgerPhases, TombPhases, Results,
     Commands, Places, Owned, Installing, Removing, Recorded, ShownOnce,
     NoResult
<1>9. CASE MarkLoaded
  BY <1>9, NothingDistinct DEF MarkLoaded, End, Idle, NoRun, record, world,
     TypeOK, Items, Contents, LedgerPhases, TombPhases, Results, Commands,
     Places, Owned, Installing, Removing, Recorded, ShownOnce, NoResult
<1>10. CASE StartUninstall
  BY <1>10, NothingDistinct DEF StartUninstall, Begin, Authentic, Idle, NoRun,
     record, world, TypeOK, Items, Contents, LedgerPhases, TombPhases,
     Results, Commands, Places, Owned, Installing, Removing, Recorded,
     ShownOnce, NoResult
<1>11. CASE Unload
  BY <1>11, NothingDistinct DEF Unload, Goto, Idle, NoRun, record, world,
     TypeOK, Items, Contents, LedgerPhases, TombPhases, Results, Commands,
     Places, Owned, Installing, Removing, Recorded, ShownOnce, NoResult
<1>12. CASE Unloaded
  BY <1>12, NothingDistinct DEF Unloaded, Resume, WriteTomb, Idle, NoRun,
     record, world, TypeOK, Items, Contents, LedgerPhases, TombPhases,
     Results, Commands, Places, Owned, Installing, Removing, Recorded,
     ShownOnce, NoResult
<1>13. CASE Look
  BY <1>13, NothingDistinct DEF Look, NextItem, Bound, End, Idle, NoRun, record,
     world, TypeOK, Items, Contents, LedgerPhases, TombPhases, Results,
     Commands, Places, Owned, Installing, Removing, Recorded, ShownOnce,
     NoResult
<1>14. CASE Unlink
  BY <1>14, NothingDistinct DEF Unlink, NextItem, Idle, NoRun, record, world,
     TypeOK, Items, Contents, LedgerPhases, TombPhases, Results, Commands,
     Places, Owned, Installing, Removing, Recorded, ShownOnce, NoResult
<1>15. CASE Processed
  BY <1>15, NothingDistinct DEF Processed, WriteTomb, Idle, NoRun, record,
     world, TypeOK, Items, Contents, LedgerPhases, TombPhases, Results,
     Commands, Places, Owned, Installing, Removing, Recorded, ShownOnce,
     NoResult
<1>16. CASE Confirm
  BY <1>16, NothingDistinct DEF Confirm, WriteTomb, Goto, End, Idle, NoRun,
     record, world, TypeOK, Items, Contents, LedgerPhases, TombPhases,
     Results, Commands, Places, Owned, Installing, Removing, Recorded,
     ShownOnce, NoResult
<1>17. CASE Retire
  BY <1>17, NothingDistinct DEF Retire, Goto, End, Idle, NoRun, record, world,
     TypeOK, Items, Contents, LedgerPhases, TombPhases, Results, Commands,
     Places, Owned, Installing, Removing, Recorded, ShownOnce, NoResult
<1>18. CASE StartRun
  BY <1>18, NothingDistinct DEF StartRun, Begin, NoLifecycle, NoChild,
     Drifted, Idle, NoRun, record, world, TypeOK, Items, Contents,
     LedgerPhases, TombPhases, Results, Commands, Places, Owned, Installing,
     Removing, Recorded, ShownOnce, NoResult
<1>19. CASE ProbeStarts
  BY <1>19, NothingDistinct DEF ProbeStarts, Protocol, NoLifecycle, proc,
     Idle, NoRun, record, world, TypeOK, Items, Contents, LedgerPhases,
     TombPhases, Results, Commands, Places, Owned, Installing, Removing,
     Recorded, ShownOnce, NoResult
<1>20. CASE ProbeCloses
  BY <1>20, NothingDistinct DEF ProbeCloses, Protocol, NoLifecycle, proc,
     Idle, NoRun, record, world, TypeOK, Items, Contents, LedgerPhases,
     TombPhases, Results, Commands, Places, Owned, Installing, Removing,
     Recorded, ShownOnce, NoResult
<1>21. CASE Acknowledge
  BY <1>21, NothingDistinct DEF Acknowledge, Protocol, NoLifecycle, proc,
     Idle, NoRun, record, world, TypeOK, Items, Contents, LedgerPhases,
     TombPhases, Results, Commands, Places, Owned, Installing, Removing,
     Recorded, ShownOnce, NoResult
<1>22. CASE ShimDies
  BY <1>22, NothingDistinct DEF ShimDies, Protocol, NoLifecycle, proc, Idle,
     NoRun, record, world, TypeOK, Items, Contents, LedgerPhases, TombPhases,
     Results, Commands, Places, Owned, Installing, Removing, Recorded,
     ShownOnce, NoResult
<1>23. CASE ChildEnds
  BY <1>23, NothingDistinct DEF ChildEnds, Protocol, NoLifecycle, proc, Idle,
     NoRun, record, world, TypeOK, Items, Contents, LedgerPhases, TombPhases,
     Results, Commands, Places, Owned, Installing, Removing, Recorded,
     ShownOnce, NoResult
<1>24. CASE Collect
  BY <1>24, NothingDistinct DEF Collect, End, NoLifecycle, Idle, NoRun,
     record, world, TypeOK, Items, Contents, LedgerPhases, TombPhases,
     Results, Commands, Places, Owned, Installing, Removing, Recorded,
     ShownOnce, NoResult
<1>25. CASE Record
  <2> USE <1>25 DEF Record, Recorded
  <2>1. found # Nothing /\ prior = result
    OBVIOUS
  <2>2. CASE Attempt
    <3>1. shown.fingerprint = found => shown.again
      BY <2>1, <2>2 DEF Attempt
    <3>2. result' = [fingerprint |-> found, attempted |-> TRUE]
      BY <2>2
    <3>3. at' = "notify" /\ found' = found
      BY <2>2 DEF Goto
    <3>4. \/ shown'.fingerprint = found /\ shown'.again
          \/ shown'.fingerprint = Nothing
      BY <3>1, <2>2 DEF TypeOK
    <3> QED
      BY <3>2, <3>3, <3>4, <2>1 DEF ShownOnce
  <2>3. CASE ~Attempt
    <3>1. \/ shown'.again
          \/ shown'.fingerprint = Nothing
      BY <2>3 DEF TypeOK
    <3>2. at' = "none"
      BY <2>3 DEF End
    <3> QED
      BY <3>1, <3>2 DEF ShownOnce
  <2> QED
    BY <2>2, <2>3
<1>26. CASE Notify
  BY <1>26, NothingDistinct DEF Notify, End, NoLifecycle, Idle, NoRun, record,
     world, TypeOK, Items, Contents, LedgerPhases, TombPhases, Results,
     Commands, Places, Owned, Installing, Removing, Recorded, ShownOnce,
     NoResult
<1>27. CASE Die
  BY <1>27, NothingDistinct DEF Die, Cut, Writing, End, NoChild, Idle, NoRun,
     record, world, TypeOK, Items, Contents, LedgerPhases, TombPhases,
     Results, Commands, Places, Owned, Installing, Removing, Recorded,
     ShownOnce, NoResult
<1>28. CASE Login
  BY <1>28, NothingDistinct DEF Login, End, NoChild, Idle, NoRun, record,
     world, TypeOK, Items, Contents, LedgerPhases, TombPhases, Results,
     Commands, Places, Owned, Installing, Removing, Recorded, ShownOnce,
     NoResult
<1>29. CASE EditSource
  BY <1>29, NothingDistinct DEF EditSource, Edit, proc, Idle, NoRun, record,
     world, TypeOK, Items, Contents, LedgerPhases, TombPhases, Results,
     Commands, Places, Owned, Installing, Removing, Recorded, ShownOnce,
     NoResult
<1>30. CASE Release
  BY <1>30, NothingDistinct DEF Release, Edit, proc, Idle, NoRun, record,
     world, TypeOK, Items, Contents, LedgerPhases, TombPhases, Results,
     Commands, Places, Owned, Installing, Removing, Recorded, ShownOnce,
     NoResult
<1>31. ASSUME NEW i \in Items, Replace(i) PROVE Recorded'
  BY <1>31, NothingDistinct DEF Replace, Edit, proc, Idle, NoRun, record,
     world, TypeOK, Items, Contents, LedgerPhases, TombPhases, Results,
     Commands, Places, Owned, Installing, Removing, Recorded, ShownOnce,
     NoResult
<1>32. ASSUME NEW i \in Items, Clear(i) PROVE Recorded'
  BY <1>32, NothingDistinct DEF Clear, proc, Idle, NoRun, record, world,
     TypeOK, Items, Contents, LedgerPhases, TombPhases, Results, Commands,
     Places, Owned, Installing, Removing, Recorded, ShownOnce, NoResult
<1>33. CASE UNCHANGED vars
  BY <1>33, NothingDistinct DEF vars, TypeOK, Items, Contents, LedgerPhases,
     TombPhases, Results, Commands, Places, Owned, Installing, Removing,
     Recorded, ShownOnce, NoResult, Results
<1> QED
  BY <1>1, <1>2, <1>3, <1>4, <1>5, <1>6, <1>7, <1>8, <1>9, <1>10, <1>11,
     <1>12, <1>13, <1>14, <1>15, <1>16, <1>17, <1>18, <1>19, <1>20, <1>21,
     <1>22, <1>23, <1>24, <1>25, <1>26, <1>27, <1>28, <1>29, <1>30, <1>31,
     <1>32, <1>33 DEF Next, Command, ChildSteps, Owner

-----------------------------------------------------------------------------
(* The invariant holds in every behaviour. *)

\* It holds initially.
LEMMA InitInv == Init => IInv
<1> SUFFICES ASSUME Init PROVE IInv
  OBVIOUS
<1>1. DiskOK
  BY DEF Init, DiskOK, NoLedger, NoTomb, LedgerPhases, TombPhases, Items, Contents
<1>2. ProcOK
  BY DEF Init, ProcOK, Places, Items, Jobs
<1>3. MemoOK
  BY ResultType DEF Init, MemoOK, NoChild
<1>4. Owned
  BY DEF Init, Owned, NoLedger, NoTomb, Installing, Removing
<1>5. Disowned
  BY DEF Init, Disowned, NoTomb, Items, PlistDone
<1>6. Clean
  BY DEF Init, Clean, NoTomb, PlistDone, FilesDone, Removing
<1>7. Paired
  BY DEF Init, Paired, NoChild
<1>8. Recorded
  BY DEF Init, Recorded, ShownOnce
<1> QED
  BY <1>1, <1>2, <1>3, <1>4, <1>5, <1>6, <1>7, <1>8 DEF IInv

\* Every step keeps it.
LEMMA StepInv == IInv /\ [Next]_vars => IInv'
<1> SUFFICES ASSUME IInv, [Next]_vars PROVE IInv'
  OBVIOUS
<1>1. TypeOK
  BY DEF IInv, DiskOK, ProcOK, MemoOK, TypeOK
<1>2. DiskOK' /\ ProcOK' /\ MemoOK'
  BY DiskTypeStep, ProcTypeStep, MemoTypeStep DEF IInv
<1>3. Owned' /\ Disowned' /\ Clean'
  BY <1>1, OwnedStep, DisownedStep, CleanStep DEF IInv
<1>4. Paired' /\ Recorded'
  BY <1>1, PairedStep, RecordedStep DEF IInv
<1> QED
  BY <1>2, <1>3, <1>4 DEF IInv

\* The inductive invariant holds in every reachable state.
LEMMA InvHolds == Spec => []IInv
BY InitInv, StepInv, PTL DEF Spec

\* Every variable of the notifier keeps its type.
THEOREM TypeCorrect == Spec => []TypeOK
<1>1. IInv => TypeOK
  BY DEF IInv, DiskOK, ProcOK, MemoOK, TypeOK
<1> QED
  BY <1>1, InvHolds, PTL

\* Whatever is cut off where and whichever login comes when, launchd has the job
\* of the installation only while the ledger owns it, and after a completed
\* uninstall no other under the label that was not reported or came later.
THEOREM LoadedIsOwned == Spec => []LoadedOwned
<1>1. IInv => LoadedOwned
  BY DEF IInv, Disowned, LoadedOwned
<1> QED
  BY <1>1, InvHolds, PTL

\* An uninstall that reports nothing preserved leaves nothing behind, however
\* often it was cut off and resumed.
THEOREM UninstallIsClean == Spec => []CleanSlate
<1>1. IInv => CleanSlate
  <2> SUFFICES ASSUME IInv, tomb.phase = "completed", ~tomb.kept, NEW i \in Items
               PROVE  files[i] = "absent" \/ i \in late
    BY DEF CleanSlate
  <2> QED
    BY DEF IInv, Clean, Settled, PlistDone, FilesDone, Items
<1> QED
  BY <1>1, InvHolds, PTL

\* The answer of an update check is recorded after every probe has closed.
THEOREM AnswerIsClosed == Spec => []AnswerClosed
<1>1. IInv => AnswerClosed
  BY DEF IInv, Paired, MemoOK, AnswerClosed
<1> QED
  BY <1>1, InvHolds, PTL

\* No kill makes the next run display what was just displayed.
THEOREM NoRepeatAfterKill == Spec => []ShownOnce
<1>1. IInv => ShownOnce
  BY DEF IInv, Recorded
<1> QED
  BY <1>1, InvHolds, PTL

\* A check records and shows what its probes answered.
THEOREM CheckIsHonest == Spec => []CheckHonest
BY AnswerIsClosed, NoRepeatAfterKill, PTL DEF CheckHonest
=============================================================================
