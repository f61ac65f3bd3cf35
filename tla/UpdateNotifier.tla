--------------------------- MODULE UpdateNotifier ---------------------------
(***************************************************************************)
(* scripts/update_notifier.py and update_notifier_child.py: the LaunchAgent *)
(* that looks for a new release once a day.  Its lifecycle commands write  *)
(* an installed copy under the authority of a private ledger, remove it    *)
(* again in phases that an authenticated tombstone records, and run the    *)
(* installed copy against the official releases.                           *)
(*                                                                         *)
(* One command at a time holds lifecycle_lock.  Around it act launchd (a   *)
(* login loads whatever property list is at the path), the owner, who edits *)
(* the source the installation was copied from, replaces installed files   *)
(* or clears what an uninstall preserved, and the official project.  A     *)
(* command may be killed, interrupted by a signal or fail in any call,     *)
(* between any two of its effects; a plain (not atomic) file write may be  *)
(* cut in the middle.                                                      *)
(*                                                                         *)
(* A digest is the content itself: a version of the source, the property  *)
(* list, or something else: an unrelated file ("foreign"), a list of       *)
(* somebody else that keeps the label ("relisted"), or what the commands   *)
(* refuse to read at all ("unsafe": a symbolic link, a directory, a file   *)
(* of another owner, writable by the group, or too large).  The source     *)
(* files are one item, the launcher and its shim another.  The secret of   *)
(* the ledger, which authenticates the tombstone, is the number of the     *)
(* installation.  A probe that a killed run leaves is not followed.        *)
(***************************************************************************)
EXTENDS Naturals

CONSTANTS
    Versions,    \* contents the live source may have
    Releases,    \* differing official releases that may be observed
    MaxInstalls, \* ledgers written
    MaxProbes,   \* nested probes one update check makes
    MaxEdits,    \* source edits, replaced files and new releases, together
    MaxFaults    \* kills, signals, failing calls and logins, together

ASSUME NotifierAssumption ==
    /\ Versions \cap {"absent", "partial", "foreign", "plist", "relisted", "unsafe"} = {}
    /\ Releases \cap {"none", "same", "unavailable"} = {}
    /\ MaxInstalls \in Nat /\ MaxProbes \in Nat
    /\ MaxEdits \in Nat /\ MaxFaults \in Nat

VARIABLES
    ledger,   \* state.json: phase, secret and bound source version
    tomb,     \* uninstall.json: phase, replacements preserved, secret
    files,    \* the installed items
    result,   \* last-result.json: fingerprint, notification attempted
    loaded,   \* what launchd has under the label: the job of the installation,
              \* another one, or none
    source,   \* the live source
    upstream, \* what the official project offers
    cmd,      \* the command that holds the lock
    at,       \* where it is
    item,     \* the installed item it looks at
    kept,     \* whether its replacements list has an entry
    found,    \* the fingerprint of this run
    prior,    \* the result this run read
    child,    \* update child, the shim around a probe, the probe, and the
              \* start and completion bytes acknowledged
    late,     \* items replaced since an uninstall last looked at them
    shown,    \* fingerprint last displayed, and whether a run that recorded
              \* it again came after
    hurt,     \* whether a fault hit the running command
    edits,
    faults

record == <<ledger, tomb>>
proc == <<cmd, at, item, kept, found, prior>>
world == <<loaded, source, upstream>>
vars == <<ledger, tomb, files, result, loaded, source, upstream, cmd, at, item,
          kept, found, prior, child, late, shown, hurt, edits, faults>>

Items == {"plist", "snapshot", "launcher"}
Contents == Versions \cup {"absent", "partial", "foreign", "plist", "relisted", "unsafe"}
Jobs == {"none", "installed", "other"}
LedgerPhases == {"absent", "preparing", "bootstrapping", "loaded", "uninstalled"}
TombPhases == {"absent", "started", "unloaded", "plist-processed",
               "files-processed", "completed"}
\* A fingerprint: what the official project was seen to offer, or the installed
\* and the live version of a source that must be maintained first.
Observed(offer) == <<"update", offer, "none">>
Drifted(installed, live) == <<"maintenance", installed, live>>
Nothing == <<"none", "none", "none">>
Maintenance == {Drifted(v, w) : v, w \in Versions}
Notable == {Observed(r) : r \in Releases} \cup Maintenance
Fingerprints == Notable \cup {Observed("same"), Observed("unavailable")}
Results == [fingerprint : Fingerprints \cup {Nothing}, attempted : BOOLEAN]
Commands == {"install", "uninstall", "refresh", "run"}
Places == {"none", "unload", "unloaded", "look", "unlink", "processed",
           "confirm", "retire", "reopen", "prepare", "copy", "launch", "plist",
           "boot", "load", "mark", "child", "record", "notify"}

NoLedger == [phase |-> "absent", gen |-> 0, version |-> "absent"]
NoTomb == [phase |-> "absent", kept |-> FALSE, gen |-> 0]
NoResult == [fingerprint |-> Nothing, attempted |-> FALSE]
NoChild == [run |-> "none", shim |-> "none", probe |-> "none", begun |-> 0, closed |-> 0]

\* The digest the ledger binds an item to.
Bound(i) == IF i = "plist" THEN "plist" ELSE ledger.version
\* _validate_installed_sources.
SourcesExact == \A i \in {"snapshot", "launcher"} : files[i] = ledger.version
\* What makes install report "already installed and loaded".
AlreadyInstalled ==
    /\ ledger.phase \notin {"absent", "uninstalled"}
    /\ ledger.version = source /\ loaded # "none"
    /\ files["plist"] = "plist" /\ SourcesExact
\* _validate_tombstone: the HMAC under the ledger's secret.
Authentic == tomb.gen = ledger.gen
\* What launchd may load from the path.  It compares no digest; whether it takes
\* a list the commands refuse to read is its own business.
Loadable == CASE files["plist"] = "plist" -> {"installed"}
              [] files["plist"] = "relisted" -> {"other"}
              [] files["plist"] = "unsafe" -> {"none", "other"}
              [] OTHER -> {"none"}

-----------------------------------------------------------------------------
(* The lock and the running command. *)

Init ==
    /\ ledger = NoLedger /\ tomb = NoTomb /\ result = NoResult
    /\ files = [i \in Items |-> "absent"]
    /\ loaded = "none" /\ source \in Versions /\ upstream = "same"
    /\ cmd = "none" /\ at = "none" /\ item = "plist" /\ kept = FALSE
    /\ found = Nothing /\ prior = NoResult /\ child = NoChild
    /\ late = {} /\ shown = [fingerprint |-> Nothing, again |-> FALSE]
    /\ hurt = FALSE /\ edits = 0 /\ faults = 0

Begin(c, p) == cmd = "none" /\ cmd' = c /\ at' = p /\ item' = "plist"
               /\ hurt' = FALSE
Goto(p) == at' = p /\ UNCHANGED <<cmd, item, kept, found, prior>>
End == /\ cmd' = "none" /\ at' = "none" /\ item' = "plist" /\ kept' = FALSE
       /\ found' = Nothing /\ prior' = NoResult
Idle == UNCHANGED <<world, edits, faults>>
NoRun == UNCHANGED <<result, child, shown>>

-----------------------------------------------------------------------------
(* install *)

\* install with a ledger: only a completed uninstall may be replaced; what is
\* reported as installed, or refused as incomplete, changes nothing.
StartInstall ==
    /\ Begin("install", IF ledger.phase = "absent" THEN "prepare" ELSE "reopen")
    /\ ledger.phase \in {"absent", "uninstalled"}
    /\ ledger.gen < MaxInstalls
    /\ UNCHANGED <<record, files, kept, found, prior, late>> /\ Idle /\ NoRun

\* The tombstone of the completed uninstall goes before the ledger is replaced.
Reopen ==
    /\ at = "reopen"
    /\ IF loaded = "none" /\ tomb.phase = "completed" /\ Authentic /\ ledger.gen < MaxInstalls
       THEN tomb' = NoTomb /\ Goto("prepare")
       ELSE End /\ UNCHANGED tomb
    /\ UNCHANGED <<ledger, files, late, hurt>> /\ Idle /\ NoRun

\* Ledger authority exists before the first installed file.
Prepare ==
    /\ at = "prepare"
    /\ ledger' = [phase |-> "preparing", gen |-> ledger.gen + 1, version |-> source]
    /\ Goto("copy")
    /\ UNCHANGED <<tomb, files, late, hurt>> /\ Idle /\ NoRun

\* O_EXCL: what is already at the path stays and the command fails.
Create(i, content, next) ==
    /\ IF files[i] = "absent"
       THEN files' = [files EXCEPT ![i] = content] /\ Goto(next)
       ELSE End /\ UNCHANGED files
    /\ UNCHANGED <<record, late, hurt>> /\ Idle /\ NoRun
Stop == End /\ UNCHANGED <<record, files, late, hurt>> /\ Idle /\ NoRun

CopySnapshot ==
    /\ at = "copy"
    /\ IF source = ledger.version THEN Create("snapshot", source, "launch") ELSE Stop
\* The launcher is copied from the live source as it is now; only afterwards is
\* its digest compared.
CopyLauncher == at = "launch" /\ Create("launcher", source, "plist")
WritePlist ==
    /\ at = "plist"
    /\ IF files["launcher"] = ledger.version THEN Create("plist", "plist", "boot") ELSE Stop
Bootstrapping ==
    /\ at = "boot"
    /\ ledger' = [ledger EXCEPT !.phase = "bootstrapping"]
    /\ Goto("load")
    /\ UNCHANGED <<tomb, files, late, hurt>> /\ Idle /\ NoRun
\* The sources are compared once more, the property list is not: what launchd
\* has under the label afterwards is taken for the installation.
Bootstrap ==
    /\ at = "load"
    /\ IF source = ledger.version /\ SourcesExact
       THEN /\ loaded' \in IF loaded = "none" THEN Loadable ELSE {loaded}
            /\ IF loaded' # "none" THEN Goto("mark") ELSE End
       ELSE End /\ UNCHANGED loaded
    /\ UNCHANGED <<record, files, late, hurt, source, upstream, edits, faults>> /\ NoRun
MarkLoaded ==
    /\ at = "mark"
    /\ ledger' = [ledger EXCEPT !.phase = "loaded"]
    /\ End
    /\ UNCHANGED <<tomb, files, late, hurt>> /\ Idle /\ NoRun

-----------------------------------------------------------------------------
(* uninstall, which refresh runs before it installs again *)

WriteTomb(phase) == tomb' = [phase |-> phase, kept |-> kept, gen |-> ledger.gen]

\* A tombstone that is there is resumed, whatever phase it stopped at.
StartUninstall ==
    /\ \E c \in {"uninstall", "refresh"} : Begin(c, "unload")
    /\ ledger.phase # "absent"
    /\ tomb.phase = "absent" \/ Authentic
    /\ kept' = tomb.kept
    /\ tomb' = IF tomb.phase = "absent"
               THEN [phase |-> "started", kept |-> FALSE, gen |-> ledger.gen] ELSE tomb
    /\ UNCHANGED <<ledger, files, found, prior, late>> /\ Idle /\ NoRun

\* Mutant: a label that is loaded again when an uninstall is resumed is refused.
UnloadFirst ==
    /\ at = "unload"
    /\ loaded' = IF tomb.phase = "started" THEN "none" ELSE loaded
    /\ IF loaded' # "none" THEN End ELSE Goto("unloaded")
    /\ UNCHANGED <<record, files, late, hurt, source, upstream, edits, faults>> /\ NoRun

\* Reconciled on every resumption: a login may have loaded the label again.
Unload ==
    /\ at = "unload"
    /\ loaded' = "none"
    /\ Goto("unloaded")
    /\ UNCHANGED <<record, files, late, hurt, source, upstream, edits, faults>> /\ NoRun

\* Mutant: the resumed phase is taken one too far.
ResumeLate(phase) ==
    CASE phase \in {"started", "unloaded"} -> <<"look", "snapshot">>
      [] phase = "plist-processed" -> <<"look", "snapshot">>
      [] OTHER -> <<"confirm", "plist">>

\* Where the recorded phase makes the command go on.
Resume(phase) ==
    CASE phase \in {"started", "unloaded"} -> <<"look", "plist">>
      [] phase = "plist-processed" -> <<"look", "snapshot">>
      [] OTHER -> <<"confirm", "plist">>
Unloaded ==
    /\ at = "unloaded"
    /\ IF tomb.phase = "started" THEN WriteTomb("unloaded") ELSE UNCHANGED tomb
    /\ at' = Resume(tomb.phase)[1] /\ item' = Resume(tomb.phase)[2]
    /\ UNCHANGED <<ledger, files, late, hurt, cmd, kept, found, prior>> /\ Idle /\ NoRun

NextItem == IF item = "snapshot" THEN at' = "look" /\ item' = "launcher"
                                 ELSE at' = "processed" /\ item' = item
\* Mutant: a file that does not match is not noted as a replacement.
ForgetLook ==
    /\ at = "look"
    /\ IF files[item] = "unsafe" THEN End /\ UNCHANGED late
       ELSE /\ late' = late \ {item}
            /\ IF files[item] = Bound(item)
               THEN at' = "unlink" /\ item' = item /\ kept' = kept
               ELSE NextItem /\ kept' = kept
            /\ UNCHANGED <<cmd, found, prior>>
    /\ UNCHANGED <<record, files, hurt>> /\ Idle /\ NoRun

\* _unlink_if_exact hashes first and unlinks then.  What _hash_file refuses to
\* read ends the command, and the phase stays what it was.
Look ==
    /\ at = "look"
    /\ IF files[item] = "unsafe" THEN End /\ UNCHANGED late
       ELSE /\ late' = late \ {item}
            /\ IF files[item] = Bound(item)
               THEN at' = "unlink" /\ item' = item /\ kept' = kept
               ELSE NextItem /\ kept' = (kept \/ files[item] # "absent")
            /\ UNCHANGED <<cmd, found, prior>>
    /\ UNCHANGED <<record, files, hurt>> /\ Idle /\ NoRun
Unlink ==
    /\ at = "unlink"
    /\ files' = [files EXCEPT ![item] = "absent"]
    /\ NextItem
    /\ UNCHANGED <<record, late, hurt, cmd, kept, found, prior>> /\ Idle /\ NoRun
Processed ==
    /\ at = "processed"
    /\ IF item = "plist"
       THEN WriteTomb("plist-processed") /\ at' = "look" /\ item' = "snapshot"
       ELSE WriteTomb("files-processed") /\ at' = "confirm" /\ item' = "plist"
    /\ UNCHANGED <<ledger, files, late, hurt, cmd, kept, found, prior>> /\ Idle /\ NoRun
Confirm ==
    /\ at = "confirm"
    /\ IF loaded # "none" THEN End /\ UNCHANGED tomb
                 ELSE WriteTomb("completed") /\ Goto("retire")
    /\ UNCHANGED <<ledger, files, late, hurt>> /\ Idle /\ NoRun
\* Mutant: the ledger takes the tombstone's word for its last phase.
RetireCompleted ==
    /\ at = "retire"
    /\ ledger' = [ledger EXCEPT !.phase = "completed"]
    /\ End
    /\ UNCHANGED <<tomb, files, late, hurt>> /\ Idle /\ NoRun

\* The ledger becomes inert last.  refresh goes on unless files were preserved.
Retire ==
    /\ at = "retire"
    /\ ledger' = [ledger EXCEPT !.phase = "uninstalled"]
    /\ IF cmd = "refresh" /\ ~kept THEN Goto("reopen") ELSE End
    /\ UNCHANGED <<tomb, files, late, hurt>> /\ Idle /\ NoRun

-----------------------------------------------------------------------------
(* run *)

NoLifecycle == UNCHANGED <<record, files, late>>

\* A run that does not prove the installation changes nothing.
StartRun ==
    /\ Begin("run", IF source = ledger.version THEN "child" ELSE "record")
    /\ ledger.phase = "loaded" /\ loaded # "none"
    /\ files["plist"] = "plist" /\ SourcesExact
    /\ prior' = result
    /\ found' = IF source = ledger.version THEN Nothing
                ELSE Drifted(ledger.version, source)
    /\ child' = IF source = ledger.version THEN [NoChild EXCEPT !.run = "up"] ELSE NoChild
    /\ UNCHANGED <<kept, result, shown>> /\ NoLifecycle /\ Idle

Protocol == /\ UNCHANGED <<proc, result, shown, hurt>> /\ NoLifecycle
\* python_shim: S, the probe in a group of its own, A when that group is closed.
ProbeStarts ==
    /\ child.run = "up" /\ child.shim = "none" /\ child.begun < MaxProbes
    /\ child' = [child EXCEPT !.shim = "up", !.probe = "up", !.begun = @ + 1]
    /\ Protocol /\ Idle
ProbeCloses ==
    /\ child.probe = "up"
    /\ child' = [child EXCEPT !.probe = "none"]
    /\ Protocol /\ Idle
Acknowledge ==
    /\ child.shim = "up" /\ child.probe = "none"
    /\ child' = [child EXCEPT !.shim = "none", !.closed = @ + 1]
    /\ Protocol /\ Idle
ShimDies ==
    /\ child.shim = "up" /\ faults < MaxFaults /\ faults' = faults + 1
    /\ child' = [child EXCEPT !.shim = "dead"]
    /\ Protocol /\ UNCHANGED <<world, edits>>
ChildEnds ==
    /\ child.run = "up" /\ child.shim # "up"
    /\ child' = [child EXCEPT !.run = "none"]
    /\ Protocol /\ Idle

\* Mutant: the completion bytes are not compared with the start bytes.
CollectUnpaired ==
    /\ at = "child" /\ child.run = "none"
    /\ IF child.begun > 0
       THEN /\ found' \in {Observed(upstream), Observed("unavailable")}
            /\ at' = "record" /\ UNCHANGED <<cmd, item, kept, prior>>
       ELSE End
    /\ UNCHANGED <<result, child, shown, hurt>> /\ NoLifecycle /\ Idle

\* _run_child accepts an answer when every start byte has its completion byte.
Collect ==
    /\ at = "child" /\ child.run = "none"
    /\ IF child.begun > 0 /\ child.begun = child.closed
       THEN /\ found' \in {Observed(upstream), Observed("unavailable")}
            /\ at' = "record" /\ UNCHANGED <<cmd, item, kept, prior>>
       ELSE End
    /\ UNCHANGED <<result, child, shown, hurt>> /\ NoLifecycle /\ Idle

Attempt == found \in Notable /\ ~(prior.fingerprint = found /\ prior.attempted)
\* Mutant: the notification is displayed before the attempt is committed.
ShowFirst ==
    /\ at = "record"
    /\ UNCHANGED result
    /\ shown' = IF Attempt THEN [fingerprint |-> found, again |-> FALSE]
                ELSE IF shown.fingerprint = found THEN [shown EXCEPT !.again = TRUE]
                ELSE [fingerprint |-> Nothing, again |-> FALSE]
    /\ IF Attempt THEN Goto("notify") ELSE End
    /\ UNCHANGED <<child, hurt>> /\ NoLifecycle /\ Idle

\* The attempt is committed before the side effect.
Record ==
    /\ at = "record"
    /\ result' = [fingerprint |-> found, attempted |-> Attempt]
    /\ shown' = IF shown.fingerprint = found
                THEN [shown EXCEPT !.again = @ \/ ~Attempt]
                ELSE [fingerprint |-> Nothing, again |-> FALSE]
    /\ IF Attempt THEN Goto("notify") ELSE End
    /\ UNCHANGED <<child, hurt>> /\ NoLifecycle /\ Idle
Notify ==
    /\ at = "notify"
    /\ shown' = [fingerprint |-> found, again |-> FALSE]
    /\ End
    /\ UNCHANGED <<result, child, hurt>> /\ NoLifecycle /\ Idle

-----------------------------------------------------------------------------
(* Faults, launchd and the owner *)

\* The file the command is writing, not atomically, when it is cut off.
Writing == CASE at = "copy" -> {"snapshot"} [] at = "launch" -> {"launcher"}
             [] at = "plist" -> {"plist"} [] OTHER -> {}
Cut == \/ UNCHANGED files
       \/ \E i \in Writing : /\ files[i] = "absent"
                             /\ files' = [files EXCEPT ![i] = "partial"]
Die ==
    /\ cmd # "none" /\ faults < MaxFaults /\ faults' = faults + 1
    /\ Cut /\ End /\ hurt' = TRUE
    /\ child' = IF cmd = "run" THEN NoChild ELSE child
    /\ UNCHANGED <<record, late, result, shown, world, edits>>
\* A login ends whatever ran in the session before.
Login ==
    /\ faults < MaxFaults /\ faults' = faults + 1
    /\ loaded' \in Loadable
    /\ End /\ hurt' = (hurt \/ cmd # "none") /\ child' = NoChild
    /\ UNCHANGED <<record, files, late, result, shown, source, upstream, edits>>

Edit == edits < MaxEdits /\ edits' = edits + 1
        /\ UNCHANGED <<record, proc, child, result, shown, hurt, faults, loaded>>
EditSource ==
    /\ Edit /\ source' \in Versions \ {source}
    /\ UNCHANGED <<files, late, upstream>>
Release ==
    /\ Edit /\ upstream' \in (Releases \cup {"same"}) \ {upstream}
    /\ UNCHANGED <<files, late, source>>
Replace(i) ==
    /\ Edit /\ late' = late \cup {i}
    /\ \E c \in {"foreign", "unsafe"} \cup (IF i = "plist" THEN {"relisted"} ELSE {}) :
         files' = [files EXCEPT ![i] = c]
    /\ UNCHANGED <<source, upstream>>
\* The owner reviews and removes what an uninstall preserved or refused to read.
Clear(i) ==
    /\ cmd = "none" /\ files[i] # "absent"
    /\ tomb.phase = "completed" \/ files[i] = "unsafe"
    /\ files' = [files EXCEPT ![i] = "absent"]
    /\ UNCHANGED <<record, proc, child, result, shown, late, hurt>> /\ Idle

Command == \/ Reopen \/ Prepare \/ CopySnapshot \/ CopyLauncher \/ WritePlist
           \/ Bootstrapping \/ Bootstrap \/ MarkLoaded
           \/ Unload \/ Unloaded \/ Look \/ Unlink \/ Processed \/ Confirm \/ Retire
           \/ Collect \/ Record \/ Notify
ChildSteps == ProbeStarts \/ ProbeCloses \/ Acknowledge \/ ChildEnds
Owner == \/ EditSource \/ Release
         \/ \E i \in Items : Replace(i) \/ Clear(i)
Next == \/ StartInstall \/ StartUninstall \/ StartRun \/ Command
        \/ ChildSteps \/ ShimDies \/ Die \/ Login \/ Owner

Spec == Init /\ [][Next]_vars
\* A command that runs goes on, and so does its child.
FairSpec == Spec /\ WF_vars(Command) /\ WF_vars(ProbeCloses)
                 /\ WF_vars(Acknowledge) /\ WF_vars(ChildEnds)

-----------------------------------------------------------------------------
TypeOK ==
    /\ ledger \in [phase : LedgerPhases, gen : Nat, version : Versions \cup {"absent"}]
    /\ tomb \in [phase : TombPhases, kept : BOOLEAN, gen : Nat]
    /\ files \in [Items -> Contents] /\ result \in Results
    /\ loaded \in Jobs /\ source \in Versions
    /\ upstream \in Releases \cup {"same"}
    /\ cmd \in Commands \cup {"none"} /\ at \in Places /\ item \in Items
    /\ kept \in BOOLEAN /\ found \in Fingerprints \cup {Nothing} /\ prior \in Results
    /\ child \in [run : {"none", "up"}, shim : {"none", "up", "dead"}, probe : {"none", "up"},
                  begun : Nat, closed : Nat]
    /\ late \subseteq Items
    /\ shown \in [fingerprint : Fingerprints \cup {Nothing}, again : BOOLEAN]
    /\ hurt \in BOOLEAN /\ edits \in Nat /\ faults \in Nat

\* launchd never has the job of the installation while the ledger disowns it:
\* whatever was cut off where, and whichever login came when, it can still be
\* removed with the authority on disk.  launchd loads other lists with the same
\* label too; one it has after a completed uninstall is one which that uninstall
\* reported as preserved, or which was put there after it looked.
LoadedOwned ==
    /\ loaded = "installed" => ledger.phase \notin {"absent", "uninstalled"}
    /\ loaded = "other" /\ ledger.phase = "uninstalled" /\ tomb.phase = "completed" =>
         tomb.kept \/ "plist" \in late

\* An uninstall that completes without reporting preserved files has left
\* nothing of the installation, however often it was cut off and resumed: what
\* is at an installed path was put there after the path was last looked at.
CleanSlate ==
    tomb.phase = "completed" /\ ~tomb.kept =>
        \A i \in Items : files[i] = "absent" \/ i \in late

\* The answer of an update check is recorded only after the group of every
\* probe has closed, also when the shim that owned the group was killed.
AnswerClosed ==
    at = "record" => child.probe = "none"

\* A kill between the record of an attempt and its display never makes the
\* next run display the same fingerprint again.
ShownOnce ==
    at = "notify" /\ shown.fingerprint = found => shown.again

\* What a check records and shows is what its probes, all of them closed,
\* answered, and it is committed before it is shown.
CheckHonest == AnswerClosed /\ ShownOnce

\* An uninstall that nothing disturbs ends with the installation retired, from
\* every state earlier commands were cut off in, unless it meets something at an
\* installed path which it refuses to read: then it stops in that path's phase.
UninstallResumes ==
    cmd = "uninstall" ~> /\ cmd = "none"
                         /\ \/ ledger.phase = "uninstalled" \/ hurt
                            \/ \E i \in Items :
                                 /\ files[i] = "unsafe"
                                 /\ tomb.phase = IF i = "plist" THEN "unloaded"
                                                               ELSE "plist-processed"

\* docs/OPERATIONS.md: a notification is displayed only when the fingerprint
\* changes.
NotifiedOnChange == at = "notify" => shown.fingerprint # found

\* An installation that install reports as installed and loaded is one whose
\* runs are accepted.  Not kept: see the observations in README.md.
InstalledRuns == cmd = "none" /\ AlreadyInstalled => ledger.phase = "loaded"
=============================================================================
