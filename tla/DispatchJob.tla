---------------------------- MODULE DispatchJob ----------------------------
(***************************************************************************)
(* One job of the dispatch supervisor (agy_dispatch.py): the private state *)
(* record and the processes that change it.                                *)
(*                                                                         *)
(*  - a command (start, resume, restart, continue) takes the lifecycle     *)
(*    lock, writes a queued attempt, starts the controller and waits for   *)
(*    its handshake: `spawner';                                            *)
(*  - the controller inherits the lock, claims the attempt, launches the   *)
(*    provider, watches it, reaps it and publishes a terminal record:      *)
(*    `ctl';                                                               *)
(*  - the provider runs in a session of its own and outlives a controller  *)
(*    that is killed: `live';                                              *)
(*  - cancel, extend and finalize take only the short state lock and act   *)
(*    at any moment; self-verify takes the lifecycle lock: `checker';      *)
(*  - status orphans an active record when the lifecycle lock is free.     *)
(*                                                                         *)
(* An action is one critical section of the state lock, or one step of a   *)
(* process between two of them.  The provider works in the worktree itself *)
(* (native isolation); the stage of a scoped job is module ScopedStage's,  *)
(* its reconciliation Reconciliation's.  A digest is the attempt           *)
(* that wrote last, a conversation whether one is known, the clock counts  *)
(* ticks since the provider, or the checks, started.                       *)
(***************************************************************************)
EXTENDS Integers, FiniteSets

CONSTANTS
    MaxCycles,      \* command["max_cycles"]
    HardSeconds,    \* command["hard_seconds"], the lease of one attempt
    MaxSeconds      \* command["max_seconds"], the budget of the whole job

ASSUME DispatchAssumption ==
    /\ MaxCycles \in Nat \ {0} /\ HardSeconds \in Nat \ {0}
    /\ MaxSeconds \in Nat /\ HardSeconds <= MaxSeconds

VARIABLES
    s,          \* dispatch-state.json
    spawner,    \* where the command that started the attempt is
    ctl,        \* the controller: its step and its local variables
    checker,    \* whether a self-verify process runs
    live,       \* attempts whose provider is alive
    clock,      \* ticks since the provider or the self-verification started
    wt,         \* the attempt whose provider wrote the worktree last
    popen,      \* whether the provider of this attempt was started
    left,       \* history: the worktree that an attempt's provider left, while it is needed
    ran,        \* history: how often the checks ran for an attempt
    strays      \* history: attempts whose provider a failure left alive behind it
vars == <<s, spawner, ctl, checker, live, clock, wt, popen, left, ran, strays>>
ghosts == <<popen, left, ran, strays>>

Attempts == 1..MaxCycles
NoTree == -1
Active == {"queued", "running", "cancel-requested"}
Terminal == {"succeeded", "failed", "cancelled", "orphaned"}
Sources == {"success", "error", "cancelled"}
Lower(a, b) == IF a < b THEN a ELSE b
Upper(a, b) == IF a < b THEN b ELSE a

(* Predicates of a record *)

\* Mutant: what the checks spent is not charged to the next attempt.
ProviderMaxGross(v) == MaxSeconds

ProviderMax(v) == Upper(0, MaxSeconds - v.spent)
LiveElapsed(v) ==
    IF v.status \in {"running", "cancel-requested"} /\ v.started
    THEN Upper(v.elapsed, v.base + clock) ELSE v.elapsed

\* A reason that forbids another launch in the same conversation.
Reusable(v) == v.reason \notin {"preflight", "permission"}

\* Mutant: the limit on attempts is not looked at.
RestartUnlimited(v) ==
    /\ v.status \in Terminal \ {"orphaned"} /\ v.reason # "preflight"
    /\ v.elapsed < ProviderMax(v) /\ ~v.verifying

RestartGuard(v) ==
    /\ v.status \in Terminal \ {"orphaned"} /\ v.reason # "preflight"
    /\ v.elapsed < ProviderMax(v) /\ ~v.verifying
    /\ v.attempt < MaxCycles

ResumeEligible(v) ==
    /\ v.status = "failed" /\ v.report = 0 /\ Reusable(v)
    /\ v.resume /\ v.conv /\ RestartGuard(v)

\* A bound candidate that the driver has not decided on.
Reviewable(v) ==
    /\ v.report # 0 /\ v.avail
    /\ v.status \in Terminal /\ ~v.verifying /\ ~v.decided

ContinueFacts(v) ==
    /\ Reviewable(v) /\ Reusable(v)
    /\ v.source # "cancelled" /\ v.status \in {"succeeded", "failed"}
    /\ v.conv /\ v.attempt < MaxCycles
    /\ v.elapsed + v.spent < MaxSeconds

\* The worktree is the one the candidate was bound to (_bound_current_candidate).
Bound(v) == v.tree = wt

ExtendEligible(v) ==
    /\ v.status \in Active /\ v.started /\ ~v.cancel /\ v.progress = "fresh"
    /\ LiveElapsed(v) + 1 <= v.hard
    /\ v.hard + 1 <= ProviderMax(v)

(* What validate_state accepts: a record is refused before it is written, and *)
(* whenever it is read, if its fields contradict each other.                  *)

Decisive == {"succeeded", "failed"}

\* _validate_candidate_lifecycle
CandidateAccepted(v) ==
    /\ v.report # 0 <=> v.source # "none"
    /\ v.avail => v.report # 0
    /\ v.report # 0 /\ ~v.avail =>
         v.status = "failed" /\ v.reason = "unavailable" /\ ~v.resume /\ ~v.decided
    /\ v.cont =>
         /\ v.avail /\ v.source # "cancelled" /\ v.attempt < MaxCycles
         /\ v.status \in Decisive /\ ~v.decided /\ ~v.verifying
    /\ v.status = "orphaned" => ~v.decided /\ ~v.resume

\* _validate_self_verification_state
ChecksAccepted(v) ==
    /\ v.checked <= v.attempt
    /\ v.verifying =>
         v.avail /\ v.status \in Decisive /\ ~v.decided /\ v.checked = v.attempt

(* Records *)

Fresh(n, origin, base, hard) ==
    [attempt |-> n, origin |-> origin, status |-> "queued", reason |-> "none",
     cancel |-> FALSE, pid |-> FALSE, started |-> FALSE, base |-> base, elapsed |-> base,
     hard |-> hard, progress |-> "none", conv |-> FALSE, resume |-> FALSE, cont |-> FALSE,
     report |-> 0, tree |-> NoTree, source |-> "none", avail |-> FALSE, decided |-> FALSE,
     verifying |-> FALSE, checked |-> 0, spent |-> 0, remote |-> FALSE]

\* The record of the next attempt: it keeps what was spent; a continuation also
\* keeps the candidate it repairs.
NextAttempt(v, origin) ==
    LET f == Fresh(v.attempt + 1, origin, v.elapsed,
                   Lower(ProviderMax(v), v.elapsed + HardSeconds))
        g == [f EXCEPT !.spent = v.spent, !.checked = v.checked,
                       !.conv = v.conv /\ origin # "restart",
                       !.resume = v.conv /\ origin # "restart"]
    IN IF origin = "continue"
       THEN [g EXCEPT !.report = v.report, !.tree = v.tree, !.source = v.source,
                      !.avail = v.avail]
       ELSE g

\* A terminal record for an end that no provider report explains: a candidate
\* that a continuation carries goes back to review, unless its binding failed.
Projection(v, status, reason, bad, remote, allow) ==
    [v EXCEPT
        !.status = status, !.reason = reason, !.pid = FALSE, !.remote = remote,
        !.avail = v.report # 0 /\ ~bad, !.decided = FALSE,
        !.cont = /\ allow /\ ~bad /\ v.report # 0 /\ v.origin = "continue"
                 /\ v.source # "cancelled" /\ v.conv /\ v.attempt < MaxCycles
                 /\ v.elapsed < ProviderMax(v) /\ status = "failed",
        !.resume = /\ v.report = 0 /\ status = "failed" /\ v.conv
                   /\ v.origin # "continue"]

\* Mutant: a cancellation after the launch claims that the provider obeyed.
OwnedClaiming(v, postlaunch) ==
    IF v.cancel
    THEN Projection(v, "cancelled", "cancelled", FALSE, FALSE, TRUE)
    ELSE Projection(v, "failed", "unavailable", TRUE, FALSE, FALSE)

\* What the controller publishes on its own paths: an approved cancellation wins.
Owned(v, postlaunch) ==
    IF v.cancel
    THEN Projection(v, "cancelled", "cancelled", FALSE, postlaunch, TRUE)
    ELSE Projection(v, "failed", "unavailable", TRUE, FALSE, FALSE)

\* The same when the worktree could not be scanned: a candidate with complete
\* bindings stays available.
OwnedUnscanned(v) ==
    [Projection(v, IF v.cancel THEN "cancelled" ELSE "failed",
                IF v.cancel THEN "cancelled" ELSE "unavailable",
                FALSE, v.cancel, FALSE) EXCEPT !.resume = FALSE]

(* The controller's own record *)

Controller(pc) ==
    [pc |-> pc, reason |-> "none", report |-> 0, source |-> "none", bad |-> FALSE,
     snap |-> NoTree, signal |-> FALSE, behind |-> 0, end |-> 0]
NoController == Controller("none")

\* What the controller knows of the attempt's end.
Found(reason, report, source, bad) ==
    [reason |-> reason, report |-> report, source |-> source, bad |-> bad]
Dropped(reason) == Found(reason, 0, "none", FALSE)

At(pc) == ctl.pc = pc
Goto(pc) == ctl' = [ctl EXCEPT !.pc = pc]
Take(pc, f) ==
    ctl' = [ctl EXCEPT !.pc = pc, !.reason = f.reason, !.report = f.report,
                       !.source = f.source, !.bad = f.bad, !.behind = 0]
Outcome(pc, reason) == ctl' = [ctl EXCEPT !.pc = pc, !.reason = reason, !.behind = 0]
Alive(n) == n \in live

\* The steps that follow a launch, up to the publication.
Watching == {"monitor", "reap", "freeze"}
Finishing == {"observe", "complete", "reconcile", "publish"}

\* flock on the lifecycle lock: the command holds it until its controller runs,
\* the controller until it exits, a self-verification while it runs.
LockFree == spawner # "created" /\ ctl.pc = "none" /\ ~checker

Status(reason) ==
    CASE reason = "none" -> "succeeded"
      [] reason \in {"cancelled", "interrupted", "provider_cancelled"} -> "cancelled"
      [] OTHER -> "failed"

\* A write of another process, as the controller's snapshot sees it.
Behind == ctl' = IF At("monitor") THEN [ctl EXCEPT !.behind = Lower(2, ctl.behind + 1)]
          ELSE ctl

Init ==
    /\ s = Fresh(1, "initial", 0, HardSeconds)
    /\ spawner = "created" /\ ctl = NoController /\ checker = FALSE
    /\ live = {} /\ clock = 0 /\ wt = 0
    /\ popen = FALSE /\ left = [n \in Attempts |-> NoTree]
    /\ ran = [n \in Attempts |-> 0] /\ strays = {}

(* The command that starts an attempt *)

Eligible(origin) ==
    CASE origin = "resume"  -> ResumeEligible(s)
      [] origin = "restart" -> RestartGuard(s)
      [] OTHER -> s.cont /\ ContinueFacts(s) /\ Bound(s) /\ s.elapsed < ProviderMax(s)

\* create_state under both locks.  The caller waits for the previous command.
Create(origin) ==
    /\ spawner = "idle" /\ LockFree
    /\ Eligible(origin)
    /\ s' = NextAttempt(s, origin)
    /\ spawner' = "created" /\ popen' = FALSE
    /\ left' = [n \in Attempts |-> IF n = s'.report THEN left[n] ELSE NoTree]
    /\ UNCHANGED <<ctl, checker, live, clock, wt, ran, strays>>

\* A signal that arrives before the controller process exists.
QueuedSignal ==
    /\ spawner = "created"
    /\ s' = IF s.status # "queued" THEN s
            ELSE Projection(s, IF s.report # 0 THEN "failed" ELSE "cancelled",
                            "interrupted", FALSE, TRUE, TRUE)
    /\ spawner' = "idle"
    /\ UNCHANGED <<ctl, checker, live, clock, wt, ghosts>>

StartController ==
    /\ spawner = "created"
    /\ spawner' = "handshake" /\ ctl' = Controller("claim")
    /\ UNCHANGED <<s, checker, live, clock, wt, ghosts>>

\* The command is killed, or cannot start the controller; the record stays.
AbandonStart ==
    /\ spawner \in {"created", "handshake", "startfail"}
    /\ spawner' = "idle"
    /\ UNCHANGED <<s, ctl, checker, live, clock, wt, ghosts>>

HandshakeDone ==
    /\ spawner = "handshake"
    /\ s.status \in Terminal \/ (s.pid /\ ctl.pc # "none")
    /\ spawner' = "idle"
    /\ UNCHANGED <<s, ctl, checker, live, clock, wt, ghosts>>

\* The controller exited before the command saw it claim the attempt, in a record
\* that may be an older one by now.
ControllerLost ==
    /\ spawner = "handshake" /\ ctl.pc = "none"
    /\ spawner' = "startfail"
    /\ UNCHANGED <<s, ctl, checker, live, clock, wt, ghosts>>

\* Five seconds without a claim: the command sends TERM (Signal, Die) and, after
\* a grace period, KILL (Die, Kill).  The record it looked at last may be an older
\* one: the controller may be anywhere by now.
HandshakeTimeout ==
    /\ spawner = "handshake" /\ ctl.pc # "none"
    /\ spawner' = "startfail"
    /\ UNCHANGED <<s, ctl, checker, live, clock, wt, ghosts>>

\* Mutant: the failure is recorded over whatever the record says by now.
StartFailureBlind ==
    /\ spawner = "startfail" /\ LockFree
    /\ s' = Projection(s, "failed", "unavailable", FALSE, FALSE, TRUE)
    /\ spawner' = "idle"
    /\ UNCHANGED <<ctl, checker, live, clock, wt, ghosts>>

\* It waits for the lifecycle lock and records the failure, if there is
\* still something to record: a controller that was killed may have left its
\* provider running.
StartFailure ==
    /\ spawner = "startfail" /\ LockFree
    /\ s' = IF s.status \in Terminal THEN s
            ELSE Projection(s, "failed", "unavailable", FALSE, FALSE, TRUE)
    /\ spawner' = "idle"
    /\ clock' = IF s.status \in Terminal THEN clock ELSE 0
    /\ UNCHANGED <<ctl, checker, live, wt, ghosts>>

(* The controller before the launch *)

Claim ==
    /\ At("claim")
    /\ IF s.cancel
       THEN s' = Owned(s, FALSE) /\ ctl' = Controller("exit")
       ELSE s' = [s EXCEPT !.pid = TRUE]
            /\ Goto("bind")
    /\ UNCHANGED <<spawner, checker, live, clock, wt, ghosts>>

\* The command, the schemas, the worktree and a continued candidate are bound.
Bind ==
    /\ At("bind")
    /\ s.origin = "continue" => Bound(s)
    /\ Goto("launch")
    /\ UNCHANGED <<s, spawner, checker, live, clock, wt, ghosts>>

BindFails ==
    /\ At("bind")
    /\ s' \in {Owned(s, FALSE), [OwnedUnscanned(s) EXCEPT !.remote = FALSE]}
    /\ ctl' = Controller("exit")
    /\ UNCHANGED <<spawner, checker, live, clock, wt, ghosts>>

\* A proof before the launch fails, or a signal was latched: no provider.
NoLaunch ==
    /\ At("launch")
    /\ \/ \E r \in {"unavailable", "preflight", "failed"}, bad \in BOOLEAN :
            /\ bad => r = "unavailable"
            /\ ctl' = [ctl EXCEPT !.pc = "observe", !.reason = r, !.bad = bad]
       \/ ctl.signal /\ Outcome("observe", "interrupted")
    /\ UNCHANGED <<s, spawner, checker, live, clock, wt, ghosts>>

\* The last look at the record and Popen are one critical section.
Launch ==
    /\ At("launch") /\ ~ctl.signal
    /\ s.elapsed < Lower(s.hard, ProviderMax(s))
    /\ IF s.cancel
       THEN Outcome("observe", "cancelled") /\ UNCHANGED <<s, live, clock, popen>>
       ELSE /\ s' = [s EXCEPT !.status = "running", !.started = TRUE, !.progress = "none"]
            /\ live' = live \cup {s.attempt} /\ clock' = 0
            /\ popen' = TRUE
            /\ Goto("monitor")
    /\ UNCHANGED <<spawner, checker, wt, left, ran, strays>>

\* Popen fails after the record was set to running.
LaunchFails ==
    /\ At("launch") /\ ~ctl.signal /\ ~s.cancel
    /\ s' = [s EXCEPT !.status = "running"]
    /\ Outcome("observe", "failed")
    /\ UNCHANGED <<spawner, checker, live, clock, wt, ghosts>>

(* The controller while the provider runs *)

Decision ==
    LET elapsed == s.base + clock IN
    CASE ctl.behind > 1 -> "unavailable"
      [] ctl.behind <= 1 /\ ctl.signal -> "interrupted"
      [] ctl.behind <= 1 /\ ~ctl.signal /\ s.cancel -> "cancelled"
      [] OTHER -> IF elapsed >= Lower(s.hard, ProviderMax(s)) THEN "deadline" ELSE "none"

\* One reading of the record and of the clocks.
Poll ==
    /\ At("monitor")
    /\ \/ Decision # "none" /\ Outcome("reap", Decision)
       \/ Decision = "none" /\ ctl' = [ctl EXCEPT !.behind = 0]
    /\ UNCHANGED <<s, spawner, checker, live, clock, wt, ghosts>>

\* No event for the idle lease.
IdleTimeout ==
    /\ At("monitor") /\ Decision = "none" /\ s.progress # "fresh"
    /\ clock > 0
    /\ Outcome("reap", "idle")
    /\ UNCHANGED <<s, spawner, checker, live, clock, wt, ghosts>>

\* An event of the provider, or a periodic notice, is recorded; a control that
\* landed first wins and is read instead (_controller_transition).
Note(update) ==
    /\ At("monitor")
    /\ IF ctl.behind = 0
       THEN s' = update /\ UNCHANGED ctl
       ELSE UNCHANGED s /\ ctl' = [ctl EXCEPT !.behind = 0]
    /\ UNCHANGED <<spawner, checker, live, clock, wt, ghosts>>
Progress ==
    \E known \in BOOLEAN :
        Note([s EXCEPT !.progress = "fresh", !.elapsed = s.base + clock,
                       !.conv = s.conv \/ known, !.resume = s.resume \/ known])
Notice == Note([s EXCEPT !.elapsed = s.base + clock])

\* The provider closed its streams, or sent bytes that end the attempt.
StreamsEnd ==
    /\ At("monitor")
    /\ \/ ~Alive(s.attempt) /\ Outcome("reap", "none")
       \/ Outcome("reap", "failed")
       \/ Take("reap", Found("unavailable", 0, "none", TRUE))
    /\ UNCHANGED <<s, spawner, checker, live, clock, wt, ghosts>>

\* Mutant: the streams are closed and nobody waits for the provider.
ReapNothing ==
    /\ At("reap")
    /\ left' = [left EXCEPT ![s.attempt] = wt]
    /\ ctl' = [ctl EXCEPT !.pc = "freeze", !.end = s.base + clock]
    /\ clock' = 0
    /\ UNCHANGED <<s, spawner, checker, live, wt, popen, ran, strays>>

\* The provider's process group is terminated and reaped.
Reap ==
    /\ At("reap")
    /\ live' = live \ {s.attempt}
    /\ left' = [left EXCEPT ![s.attempt] = wt]
    /\ ctl' = [ctl EXCEPT !.pc = "freeze", !.end = s.base + clock]
    /\ clock' = 0
    /\ UNCHANGED <<s, spawner, checker, wt, popen, ran, strays>>

\* Mutant: the deadline of the last poll stands although the lease was extended.
FreezeStale ==
    /\ At("freeze")
    /\ s' = [s EXCEPT !.elapsed = Upper(ctl.end, s.elapsed), !.started = FALSE]
    /\ ctl' = [ctl EXCEPT !.pc = "observe", !.end = 0]
    /\ UNCHANGED <<spawner, checker, live, clock, wt, ghosts>>

\* The clock stops, and the deadline is judged by the record of that moment.
Freeze ==
    /\ At("freeze")
    /\ LET elapsed == Upper(ctl.end, s.elapsed)
           late == ~s.cancel /\ elapsed >= Lower(s.hard, ProviderMax(s))
       IN /\ s' = [s EXCEPT !.elapsed = elapsed, !.started = FALSE]
          /\ ctl' = [ctl EXCEPT !.pc = "observe", !.end = 0,
                       !.reason = IF ctl.reason \notin {"none", "deadline"} THEN ctl.reason
                                  ELSE IF late THEN "deadline" ELSE "none"]
    /\ UNCHANGED <<spawner, checker, live, clock, wt, ghosts>>

(* The controller after the provider *)

\* What the reaped streams may hold, for a loop that ended with `reason'.  A
\* deadline keeps its reason and a report; an idle timeout keeps a report only
\* when the provider timed out by itself.
Findings(reason) ==
    LET n == s.attempt
        ended(source) == IF reason = "idle" THEN "failed"
                         ELSE IF reason # "none" THEN reason
                         ELSE CASE source = "success" -> "none"
                                [] source = "error" -> "provider_error"
                                [] OTHER -> "provider_cancelled"
    IN IF reason \notin {"none", "deadline", "idle"} THEN {Found(reason, 0, "none", ctl.bad)}
       ELSE {Found(ended(x), n, x, FALSE) : x \in Sources}
            \cup {Found("permission", n, x, FALSE) : x \in Sources}
            \cup {Found("permission", 0, "none", FALSE), Found("unavailable", 0, "none", TRUE)}
            \cup {Found(IF reason = "none" THEN "failed" ELSE reason, 0, "none", FALSE)}
            \cup (IF reason = "none" THEN {Found("failed", n, x, FALSE) : x \in Sources} ELSE {})

Observe ==
    /\ At("observe")
    /\ \E f \in Findings(ctl.reason) :
          Take("complete", f)
    /\ UNCHANGED <<s, spawner, checker, live, clock, wt, ghosts>>

\* Signals are blocked from here on; one that came before turns the end into an
\* interruption.
Completed ==
    IF ctl.signal THEN Dropped("interrupted")
    ELSE Found(ctl.reason, ctl.report, ctl.source, ctl.bad)

\* The streams are closed and every input is bound once more, or cannot be.
Cleaned == {Completed, Found("unavailable", 0, "none", TRUE)}

\* The last thing done before the worktree is read is a look for a cancellation.
ObserveCancel ==
    /\ At("complete")
    /\ \E f \in Cleaned : Take("reconcile", IF s.cancel THEN Dropped("cancelled") ELSE f)
    /\ UNCHANGED <<s, spawner, checker, live, clock, wt, ghosts>>

\* The worktree is bound to the report, outside of the locks; it may fail.
Reconcile ==
    /\ At("reconcile")
    /\ \E snap \in IF ctl.report = 0 THEN {NoTree} ELSE {wt, NoTree} :
          ctl' = [ctl EXCEPT !.pc = "publish", !.snap = snap]
    /\ UNCHANGED <<s, spawner, checker, live, clock, wt, ghosts>>

\* Mutant: the record is not read again when the worktree has been bound.
ClassifiedStale ==
    LET f == Found(ctl.reason, ctl.report, ctl.source, ctl.bad)
    IN IF f.report # 0 /\ ctl.snap = NoTree
       THEN [f EXCEPT !.reason = "unavailable", !.bad = TRUE] ELSE f

\* Mutant: a report is published although its worktree could not be bound.
ClassifiedUnbound ==
    IF s.cancel THEN Dropped("cancelled")
    ELSE Found(ctl.reason, ctl.report, ctl.source, ctl.bad)

\* A cancellation that came meanwhile wins; a report without a worktree, or a
\* prior candidate without its bindings, is unavailable.
Classified ==
    LET f == IF s.cancel THEN Dropped("cancelled")
             ELSE Found(ctl.reason, ctl.report, ctl.source, ctl.bad)
    IN IF f.report # 0 /\ ctl.snap = NoTree
       THEN [f EXCEPT !.reason = "unavailable", !.bad = TRUE] ELSE f

\* The terminal record for the finding f.
Published(f) ==
    LET keep   == f.report = 0 /\ s.origin = "continue" /\ s.report # 0
        report == IF keep THEN s.report ELSE f.report
        source == IF keep THEN s.source ELSE f.source
        status == Status(f.reason)
        avail  == report # 0 /\ ~f.bad
        reuse  == f.reason \notin {"preflight", "permission"}
    IN [s EXCEPT
          !.status = status, !.reason = f.reason, !.pid = FALSE,
          !.report = report, !.source = source,
          !.tree = IF ctl.snap # NoTree THEN ctl.snap ELSE IF keep THEN s.tree ELSE NoTree,
          !.avail = avail, !.decided = FALSE,
          !.resume = s.conv /\ report = 0 /\ status = "failed" /\ reuse,
          !.cont = /\ avail /\ status \in {"succeeded", "failed"} /\ reuse
                   /\ source # "cancelled" /\ s.conv /\ s.attempt < MaxCycles
                   /\ s.elapsed < ProviderMax(s),
          !.remote = f.reason \in {"cancelled", "interrupted"}]

Publish ==
    /\ At("publish")
    /\ s' = Published(Classified)
    /\ ctl' = Controller("exit")
    /\ UNCHANGED <<spawner, checker, live, clock, wt, ghosts>>

Exit ==
    /\ At("exit") /\ ctl' = NoController
    /\ UNCHANGED <<s, spawner, checker, live, clock, wt, ghosts>>

(* The controller's failures *)

\* An error after the launch: the provider is reaped, the clock stopped and one
\* terminal record published (_recover_controller_failure).  A provider that
\* cannot be terminated, or proved to be, is left behind: the error of the second
\* attempt to is suppressed.
Recover ==
    /\ ctl.pc \in Watching \cup Finishing /\ popen
    /\ LET stopped == [s EXCEPT !.started = FALSE,
                         !.elapsed = IF ctl.pc \in {"monitor", "reap"}
                                     THEN Upper(s.elapsed, s.base + clock)
                                     ELSE Upper(s.elapsed, ctl.end)]
       IN s' \in {Owned(stopped, TRUE), OwnedUnscanned(stopped)}
    /\ live' \in {live, live \ {s.attempt}}
    /\ strays' = strays \cup (live' \cap {s.attempt})
    /\ left' = [left EXCEPT ![s.attempt] = NoTree]
    /\ ctl' = Controller("exit") /\ clock' = 0
    /\ UNCHANGED <<spawner, checker, wt, popen, ran>>

\* An error before the launch leaves the record queued.
Die ==
    /\ \/ ctl.pc \in {"claim", "bind", "launch"}
       \/ ctl.pc \in Finishing /\ ~popen
    /\ ctl' = NoController
    /\ UNCHANGED <<s, spawner, checker, live, clock, wt, ghosts>>

\* The controller is killed, also by a command that gave up its handshake; its
\* provider goes on.  While that command is there, it takes the loss for a failed
\* start.
Kill ==
    /\ ctl.pc \in Watching \cup Finishing \cup {"exit"}
    /\ ctl' = NoController
    /\ strays' = IF spawner = "idle" THEN strays ELSE strays \cup (live \cap {s.attempt})
    /\ UNCHANGED <<s, spawner, checker, live, clock, wt, popen, left, ran>>

\* HUP, INT or TERM, sent to the controller or forwarded to it, at the latest moment
\* before it looks: at the launch, at a poll, or before signals are blocked.
Signal ==
    /\ ctl.pc \in {"launch", "monitor", "complete"}
    /\ ~ctl.signal
    /\ ctl' = [ctl EXCEPT !.signal = TRUE]
    /\ UNCHANGED <<s, spawner, checker, live, clock, wt, ghosts>>

(* The provider and the clock *)

Write(n) ==
    /\ Alive(n) /\ wt # n /\ wt' = n
    /\ UNCHANGED <<s, spawner, ctl, checker, live, clock, ghosts>>

ProviderExits(n) ==
    /\ Alive(n) /\ live' = live \ {n}
    /\ UNCHANGED <<s, spawner, ctl, checker, clock, wt, ghosts>>

Running(v) == v.status \in {"running", "cancel-requested"} /\ v.started
Tick ==
    /\ \/ Running(s) /\ s.base + clock < MaxSeconds
          /\ s' \in {s, [s EXCEPT !.progress = IF @ = "fresh" THEN "stale" ELSE @]}
       \/ s.verifying /\ clock < MaxSeconds /\ UNCHANGED s
    /\ clock' = clock + 1
    /\ UNCHANGED <<spawner, ctl, checker, live, wt, ghosts>>

(* Controls, under the state lock alone *)

Cancel ==
    /\ s.status \in Active /\ ~s.cancel
    /\ s' = [s EXCEPT !.cancel = TRUE, !.status = "cancel-requested"]
    /\ Behind
    /\ UNCHANGED <<spawner, checker, live, clock, wt, ghosts>>

Extend(seconds) ==
    /\ ExtendEligible(s) /\ s.hard + seconds <= ProviderMax(s)
    /\ s' = [s EXCEPT !.hard = s.hard + seconds]
    /\ Behind
    /\ UNCHANGED <<spawner, checker, live, clock, wt, ghosts>>

\* Mutant: a decided candidate is still offered for a continuation.
FinalizeOffered ==
    /\ Reviewable(s) /\ Bound(s) /\ s.status # "orphaned"
    /\ s' = [s EXCEPT !.decided = TRUE]
    /\ UNCHANGED <<spawner, ctl, checker, live, clock, wt, ghosts>>

\* The driver's decision.  An orphaned record is preserve-only.
Finalize ==
    /\ Reviewable(s) /\ Bound(s) /\ s.status # "orphaned"
    /\ s' = [s EXCEPT !.decided = TRUE, !.cont = FALSE]
    /\ UNCHANGED <<spawner, ctl, checker, live, clock, wt, ghosts>>

(* Status *)

\* Mutant: only a record whose controller claimed it is orphaned.
OrphanClaimed ==
    /\ s.status \in Active /\ LockFree /\ s.pid
    /\ s' = Projection(s, "orphaned", "unavailable", FALSE, FALSE, TRUE)
    /\ clock' = 0
    /\ UNCHANGED <<spawner, ctl, checker, live, wt, ghosts>>

Orphan ==
    /\ s.status \in Active /\ LockFree
    /\ s' = Projection(s, "orphaned", "unavailable", FALSE, FALSE, TRUE)
    /\ clock' = 0
    /\ UNCHANGED <<spawner, ctl, checker, live, wt, ghosts>>

(* Self-verification *)

Remaining(v) == Upper(0, MaxSeconds - v.elapsed - v.spent)

\* Mutant: the one action of a candidate is spent when its checks are over.
StartChecksUnspent ==
    /\ LockFree
    /\ Reviewable(s) /\ Bound(s) /\ s.status \in {"succeeded", "failed"}
    /\ s.checked < s.attempt /\ Remaining(s) > 0
    /\ s' = [s EXCEPT !.verifying = TRUE, !.cont = FALSE]
    /\ checker' = TRUE /\ clock' = 0
    /\ ran' = [ran EXCEPT ![s.attempt] = @ + 1]
    /\ UNCHANGED <<spawner, ctl, live, wt, popen, left, strays>>

\* The one action of this candidate is spent before the checks run.
StartChecks ==
    /\ LockFree
    /\ Reviewable(s) /\ Bound(s) /\ s.status \in {"succeeded", "failed"}
    /\ s.checked < s.attempt /\ Remaining(s) > 0
    /\ s' = [s EXCEPT !.verifying = TRUE, !.checked = s.attempt, !.cont = FALSE]
    /\ checker' = TRUE /\ clock' = 0
    /\ ran' = [ran EXCEPT ![s.attempt] = @ + 1]
    /\ UNCHANGED <<spawner, ctl, live, wt, popen, left, strays>>

\* The record when the checks are over: their time is charged.
Charged ==
    LET v == [s EXCEPT !.verifying = FALSE, !.spent = s.spent + Lower(clock, Remaining(s))]
    IN [v EXCEPT !.cont = ContinueFacts(v)]

EndChecks ==
    /\ checker /\ s.verifying
    /\ s' = Charged /\ checker' = FALSE /\ clock' = 0
    /\ UNCHANGED <<spawner, ctl, live, wt, ghosts>>

CheckerDies ==
    /\ checker /\ checker' = FALSE
    /\ UNCHANGED <<s, spawner, ctl, live, clock, wt, ghosts>>

\* Mutant: an interruption is recovered only while it leaves budget.
RecoverChecksInBudget ==
    /\ s.verifying /\ LockFree /\ clock < Remaining(s)
    /\ s' = Charged /\ clock' = 0
    /\ UNCHANGED <<spawner, ctl, checker, live, wt, ghosts>>

\* Status recovers an interrupted self-verification and never runs it again.
RecoverChecks ==
    /\ s.verifying /\ LockFree
    /\ s' = Charged /\ clock' = 0
    /\ UNCHANGED <<spawner, ctl, checker, live, wt, ghosts>>

Origins == {"resume", "restart", "continue"}

SpawnerStep == StartController \/ HandshakeDone \/ ControllerLost \/ StartFailure
ControllerStep ==
    \/ Claim \/ Bind \/ BindFails \/ NoLaunch \/ Launch \/ Poll \/ Reap \/ Freeze
    \/ Observe \/ ObserveCancel \/ Reconcile \/ Publish \/ Exit
Provider ==
    \/ Progress \/ Notice \/ IdleTimeout \/ StreamsEnd \/ Tick
    \/ \E n \in Attempts : Write(n) \/ ProviderExits(n)
Commands ==
    \/ \E o \in Origins : Create(o)
    \/ Cancel \/ (\E t \in 1..MaxSeconds : Extend(t)) \/ Finalize
    \/ Orphan \/ StartChecks \/ EndChecks \/ RecoverChecks
Faults ==
    \/ QueuedSignal \/ AbandonStart \/ HandshakeTimeout \/ LaunchFails
    \/ Recover \/ Die \/ Kill \/ Signal \/ CheckerDies
Next == SpawnerStep \/ ControllerStep \/ Provider \/ Commands \/ Faults

Spec == Init /\ [][Next]_vars

\* Processes that run take their steps, time passes, and the caller asks for
\* the status again and again.
FairSpec ==
    /\ Spec
    /\ WF_vars(SpawnerStep) /\ WF_vars(ControllerStep) /\ WF_vars(Tick)
    /\ WF_vars(EndChecks) /\ WF_vars(Orphan) /\ WF_vars(RecoverChecks)

-----------------------------------------------------------------------------
(* Properties *)

Reasons == {"none", "cancelled", "interrupted", "provider_cancelled", "provider_error",
            "deadline", "idle", "failed", "unavailable", "permission", "preflight"}
Candidates == 0..MaxCycles
Trees == {NoTree} \cup Candidates
Records ==
    [attempt : Attempts, origin : {"initial"} \cup Origins, status : Active \cup Terminal,
     reason : Reasons, cancel : BOOLEAN, pid : BOOLEAN, started : BOOLEAN,
     base : Nat, elapsed : Nat, hard : Nat, progress : {"none", "fresh", "stale"},
     conv : BOOLEAN, resume : BOOLEAN, cont : BOOLEAN,
     report : Candidates, tree : Trees, source : Sources \cup {"none"}, avail : BOOLEAN,
     decided : BOOLEAN, verifying : BOOLEAN, checked : Candidates, spent : Nat,
     remote : BOOLEAN]
Steps == {"none", "claim", "bind", "launch", "exit"} \cup Watching \cup Finishing

TypeOK ==
    /\ s \in Records
    /\ spawner \in {"idle", "created", "handshake", "startfail"}
    /\ ctl \in [pc : Steps, reason : Reasons, report : Candidates,
                source : Sources \cup {"none"}, bad : BOOLEAN, snap : Trees,
                signal : BOOLEAN, behind : 0..2, end : Nat]
    /\ checker \in BOOLEAN /\ live \subseteq Attempts /\ clock \in Nat /\ wt \in Candidates
    /\ popen \in BOOLEAN /\ left \in [Attempts -> Trees]
    /\ ran \in [Attempts -> Nat] /\ strays \subseteq Attempts

\* A record that offers another launch is published only when the provider of
\* its attempt is gone, so two providers do not work in one worktree; only an
\* orphaned record, which is preserve-only, leaves one behind.  There are two
\* exceptions, the attempts of `strays': a controller killed before the command
\* that started it has seen its claim, and a provider that two attempts to
\* terminate did not end.  The record says "unavailable" or "cancelled" then: one
\* that says how its provider ended never has it alive.
Reaped ==
    /\ s.status \in {"succeeded", "failed", "cancelled"} =>
         /\ live \subseteq strays
         /\ s.reason \notin {"unavailable", "cancelled"} => ~Alive(s.attempt)
    /\ Cardinality(live \ strays) <= 1

\* The same without exceptions: "Once Popen succeeds, no ordinary controller
\* exception may be left ... Reap first, ... then publish one fail-closed terminal
\* projection" (_recover_controller_failure).  Not kept: see the observations in
\* README.md.
ReapedFirst == s.status \in {"succeeded", "failed", "cancelled"} => ~Alive(s.attempt)

\* An approved cancellation is never overtaken: the attempt does not succeed,
\* and a report of its provider does not become the candidate.
CancelWins == s.cancel => s.status # "succeeded" /\ s.report # s.attempt

\* A candidate that can be reviewed is bound to the worktree that its own
\* provider left (all ends of an attempt but a cancellation), unless a failure
\* left a provider behind that still writes.
CandidateBound ==
    s.report # 0 /\ s.avail /\ s.status # "cancelled" /\ strays = {} =>
        s.tree = left[s.report]

\* The same for every end: "A continuation's prior candidate remains exact-bound
\* and unreviewed" (_reconcile_controller_candidate).
CandidateExact == s.report # 0 /\ s.avail => s.tree = left[s.report]

\* A deadline is recorded only when the frozen run time reached the lease that
\* the record granted in the end, every extension included; and a success only
\* when it did not.
DeadlineTrue ==
    /\ s.reason = "deadline" => s.elapsed >= s.hard
    /\ s.status = "succeeded" => s.elapsed < s.hard

\* The lease of an active attempt lies within what attempts and checks have left
\* of the job's budget, however attempts, extensions and checks alternate.
LeaseInBudget ==
    s.status \in Active => s.base < s.hard /\ s.hard + s.spent <= MaxSeconds

\* The checks of a candidate run once, whatever is killed while they run
\* ("never rerun a check", _recover_interrupted_self_verification).
ChecksOnce == \A n \in Attempts : ran[n] <= 1

\* A local cancellation makes no claim about a provider that was launched.
RemoteHonest ==
    s.status = "cancelled" /\ s.reason \in {"cancelled", "interrupted"}
        /\ popen => s.remote

\* A candidate offered for review is what it says: no report overtook a
\* cancellation, its worktree is the one its provider left, and a cancelled
\* provider is not said to have stopped.
CandidateTrue == CancelWins /\ CandidateBound /\ RemoteHonest

\* The budget is kept however attempts, extensions, deadlines and checks
\* alternate: leases stay within it, deadlines are judged by the last lease,
\* and the time of the checks is spent once.
BudgetKept == DeadlineTrue /\ LeaseInBudget /\ ChecksOnce

\* No process is refused its own write, and none leaves a record that the next
\* one refuses to read: however commands, controls, deaths and checks
\* alternate, what a record offers (a continuation, a resume, a review, an
\* action under way) agrees with the candidate it has (validate_state, in
\* load_state, create_state and _transition_locked).
StateAccepted == CandidateAccepted(s) /\ ChecksAccepted(s)

\* The record can be relied on: it can be read, and what it says of the candidate
\* is so, whichever of its writers came last.
RecordTrue == CandidateTrue /\ StateAccepted

\* No late writer (a controller, the command that started it, status, a control)
\* changes what a terminal record says: only the next attempt replaces it, and
\* a decision is not taken back.
TerminalStays ==
    [][s.status \in Terminal /\ s'.attempt = s.attempt =>
         /\ s'.status = s.status /\ s'.report = s.report /\ s'.tree = s.tree
         /\ s'.avail = s.avail /\ s.decided => s'.decided]_vars

\* An attempt is watched to its end because of controls that were approved, never
\* given up: "Do not turn a concurrent approved control into a controller
\* crash" (_controller_transition).  Not kept: see the observations in README.md.
ControlsHarmless == At("reap") /\ ctl.reason = "unavailable" => ctl.bad

\* Every attempt ends, whoever is killed.
Settles == s.status \in Active ~> s.status \in Terminal

\* A self-verification does not leave the record verifying.
ChecksEnd == s.verifying ~> ~s.verifying

\* Every attempt and every self-verification ends, whoever is killed.
Ends == Settles /\ ChecksEnd
=============================================================================
