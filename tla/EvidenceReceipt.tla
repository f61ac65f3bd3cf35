-------------------------- MODULE EvidenceReceipt --------------------------
(***************************************************************************)
(* How a candidate is verified: workflow.py verify-finalize runs verify-job *)
(* (evidence_receipt.py), which runs qa-gate.sh on a private copy of the   *)
(* envelope, and publishes what the gate answered as a receipt that is     *)
(* never overwritten.                                                      *)
(*                                                                         *)
(* Three processes run: the caller, the wrapper verify-job and the gate,   *)
(* which has a session of its own.  Meanwhile anyone may edit the candidate *)
(* or the envelope, and another invocation may publish at the same path.   *)
(* The wrapper may get a handled signal, once, and may be killed; any call *)
(* may fail.                                                               *)
(*                                                                         *)
(* The candidate is two parts that a digest reads one after the other      *)
(* (candidate_state.py): the diff against the base and the untracked files. *)
(* An edit gives a part a content it never had, the next number, or one    *)
(* that it had before: a digest is the pair of contents read and cannot    *)
(* tell a candidate that was changed and restored from one left alone.     *)
(* The envelope is known by what the gate makes of it.  Options, the       *)
(* schema and the selection records are checked before the first effect    *)
(* and are not followed; a gate that is not started in evidence mode       *)
(* neither.                                                                *)
(***************************************************************************)
EXTENDS Naturals

CONSTANTS
    Envelopes,    \* kinds of envelope that occur
    OutOfScope,   \* contents of the untracked part the path policy rejects
    MaxVerifiers, \* verifiers the driver names
    MaxEdits,     \* edits of the candidate or the envelope
    MaxFaults     \* calls that fail, kills and the publication of others

ASSUME ReceiptAssumption ==
    /\ Envelopes \subseteq {"good", "invalid", "escalated", "unchanged", "claims"}
    /\ OutOfScope \subseteq Nat
    /\ MaxVerifiers \in Nat \ {0} /\ MaxEdits \in Nat /\ MaxFaults \in Nat

VARIABLES
    cand,     \* the candidate: contents of its tracked and untracked parts
    newest,   \* the highest content each part ever had
    undone,   \* whether a part was given a content it had before
    envelope, \* the envelope file
    target,   \* what is at the receipt path
    receipt,  \* the receipt this wrapper built
    private,  \* private files of the wrapper that exist
    w,        \* wrapper: where it is, signal taken, gate group known, paths it
              \* would remove, publication registered, code it ends with
    copy,     \* the kind of envelope in the private snapshot
    g,        \* gate: where it is, half-read digest, verifiers run, one failed,
              \* workspace, code it ends with
    snap,     \* digests: the two of the caller and the four of the gate
    evidence, \* the line in the handoff file
    seen,     \* contents the verifiers ran on
    caller,   \* where the caller is, half-read digest
    edits,
    faults

vars == <<cand, newest, undone, envelope, target, receipt, private, w, copy, g, snap, evidence,
          seen, caller, edits, faults>>

Outcomes == {0, 10, 11, 12, 13, 14, 15}
Parts == [tracked : Nat, untracked : Nat]
NoHalf == MaxEdits + 1   \* no part read yet
Private == {"snapshot", "handoff", "temp"}
WrapperPlaces == {"none", "validate", "copy", "handoff", "spawn", "adopt", "wait",
                  "temp", "register", "link", "linked", "tidy", "undo", "undone",
                  "finally", "clear", "return", "unwind", "left"}
GatePlaces == {"none", "workspace", "initial", "validate", "scope", "claims",
               "before", "ready", "running", "after", "compare", "rescope",
               "final", "emit", "clean", "exited"}
CallerPlaces == {"capture", "check", "waiting", "judge", "compare", "accepted", "recorded", "refused"}
Digests == {"caller", "current", "initial", "before", "after", "final"}
Killed == 137
Zero == [tracked |-> 0, untracked |-> 0]
NoReceipt == [exit |-> 70, initial |-> Zero, final |-> Zero, envelope |-> "good"]

Init ==
    /\ cand = Zero /\ newest = Zero /\ undone = "no"
    /\ envelope \in Envelopes /\ target = "absent"
    /\ receipt = NoReceipt /\ private = {} /\ copy = "good"
    /\ w = [at |-> "none", signal |-> "none", group |-> "none", paths |-> {},
            published |-> "no", code |-> 70]
    /\ g = [at |-> "none", half |-> NoHalf, run |-> 0, failed |-> "no",
            dir |-> "none", code |-> 70]
    /\ snap = [s \in Digests |-> Zero]
    /\ evidence = NoReceipt /\ seen = {}
    /\ caller = [at |-> "capture", half |-> NoHalf]
    /\ edits = 0 /\ faults = 0

Candidate == <<cand, newest, undone, envelope, edits>>
Gate == <<g, evidence, seen>>
Fault == faults < MaxFaults /\ faults' = faults + 1
W(p) == w' = [w EXCEPT !.at = p]
Fail(c, p) == w' = [w EXCEPT !.at = p, !.code = c]

Whole(half) == [tracked |-> half, untracked |-> cand.untracked]

-----------------------------------------------------------------------------
(* workflow.py: command_verify_finalize *)

\* candidate_state_digest, read by the caller.
CallerDigest(p, s, q) ==
    /\ caller.at = p
    /\ IF caller.half = NoHalf
       THEN caller' = [caller EXCEPT !.half = cand.tracked] /\ UNCHANGED snap
       ELSE /\ snap' = [snap EXCEPT ![s] = Whole(caller.half)]
            /\ caller' = [at |-> q, half |-> NoHalf]
    /\ UNCHANGED <<Candidate, target, receipt, private, w, copy, Gate, faults>>
Capture == CallerDigest("capture", "caller", "check")

CallVerify ==
    /\ caller.at = "check"
    /\ IF target = "absent"
       THEN caller' = [caller EXCEPT !.at = "waiting"] /\ W("validate")
       ELSE caller' = [caller EXCEPT !.at = "refused"] /\ UNCHANGED w
    /\ UNCHANGED <<Candidate, target, receipt, private, copy, Gate, snap, faults>>

\* A gate outcome needs its receipt; any other code must have left none.
Judge ==
    /\ caller.at = "waiting" /\ w.at = "left"
    /\ caller' = [caller EXCEPT !.at = IF w.code \in Outcomes /\ target # "absent"
                                       THEN "judge" ELSE "refused"]
    /\ UNCHANGED <<Candidate, target, receipt, private, w, copy, Gate, snap, faults>>
Recheck == CallerDigest("judge", "current", "compare")

\* Mutant: only the receipt is compared with the candidate, not the digest the
\* caller began with.
DecideByReceipt ==
    /\ caller.at = "compare"
    /\ caller' = [caller EXCEPT !.at =
           IF target = "ours" /\ receipt.final = snap["current"]
           THEN IF w.code = 0 THEN "accepted" ELSE "recorded" ELSE "refused"]
    /\ UNCHANGED <<Candidate, target, receipt, private, w, copy, Gate, snap, faults>>

Decide ==
    /\ caller.at = "compare"
    /\ caller' = [caller EXCEPT !.at =
           IF /\ snap["current"] = snap["caller"]
              /\ target = "ours" /\ receipt.final = snap["current"]
           THEN IF w.code = 0 THEN "accepted" ELSE "recorded" ELSE "refused"]
    /\ UNCHANGED <<Candidate, target, receipt, private, w, copy, Gate, snap, faults>>

-----------------------------------------------------------------------------
(* verify-job: verify_main and publish_receipt *)

Quiet == UNCHANGED <<Candidate, snap, caller>>

Validate ==
    /\ w.at = "validate"
    /\ IF target = "absent" THEN W("copy") ELSE Fail(64, "left")
    /\ UNCHANGED <<target, receipt, private, copy, Gate, faults>> /\ Quiet

\* private_file creates and registers with signals blocked.
Make(p, next) ==
    /\ private' = private \cup {p}
    /\ w' = [w EXCEPT !.at = next, !.paths = @ \cup {p}]
CopyEnvelope ==
    /\ w.at = "copy" /\ Make("snapshot", "handoff") /\ copy' = envelope
    /\ UNCHANGED <<target, receipt, Gate, faults>> /\ Quiet
MakeHandoff ==
    /\ w.at = "handoff" /\ Make("handoff", "spawn")
    /\ UNCHANGED <<target, receipt, copy, Gate, faults>> /\ Quiet
\* The gate runs in a session of its own before its group is known.
Spawn ==
    /\ w.at = "spawn" /\ W("adopt") /\ g' = [g EXCEPT !.at = "workspace"]
    /\ UNCHANGED <<target, receipt, private, copy, evidence, seen, faults>> /\ Quiet
Adopt ==
    /\ w.at = "adopt" /\ w' = [w EXCEPT !.at = "wait", !.group = "known"]
    /\ UNCHANGED <<target, receipt, private, copy, Gate, faults>> /\ Quiet

\* Mutant: the line in the handoff file is trusted whatever the gate exits with.
TrustEvidence ==
    /\ w.at = "wait" /\ g.at = "exited"
    /\ w' = [w EXCEPT !.group = "none",
                      !.at = IF evidence.exit \in Outcomes THEN "temp" ELSE "finally",
                      !.code = IF g.code = 64 THEN 64 ELSE 70]
    /\ receipt' = IF w'.at = "temp" THEN evidence ELSE receipt
    /\ UNCHANGED <<target, private, copy, Gate, faults>> /\ Quiet

\* The exit code and the evidence line must agree.
Answer ==
    /\ w.at = "wait" /\ g.at = "exited"
    /\ w' = [w EXCEPT !.group = "none",
                      !.at = IF /\ g.code \in Outcomes /\ evidence.exit = g.code
                                /\ evidence.envelope = copy
                             THEN "temp" ELSE "finally",
                      !.code = IF g.code = 64 THEN 64 ELSE 70]
    /\ receipt' = IF w'.at = "temp" THEN evidence ELSE receipt
    /\ UNCHANGED <<target, private, copy, Gate, faults>> /\ Quiet

WriteTemp ==
    /\ w.at = "temp" /\ Make("temp", "register")
    /\ UNCHANGED <<target, receipt, copy, Gate, faults>> /\ Quiet
Register ==
    /\ w.at = "register" /\ w' = [w EXCEPT !.at = "link", !.published = "yes"]
    /\ UNCHANGED <<target, receipt, private, copy, Gate, faults>> /\ Quiet
\* os.link fails when the name is taken.
Link ==
    /\ w.at = "link"
    /\ IF target = "absent" THEN target' = "ours" /\ W("linked")
                            ELSE Fail(74, "undo") /\ UNCHANGED target
    /\ UNCHANGED <<receipt, private, copy, Gate, faults>> /\ Quiet
UnlinkTemp ==
    /\ w.at = "linked" /\ private' = private \ {"temp"}
    /\ w' = [w EXCEPT !.at = "tidy", !.paths = @ \ {"temp"}]
    /\ UNCHANGED <<target, receipt, copy, Gate, faults>> /\ Quiet
\* Mutant: what a failing step of publish_receipt did is not undone.
UndoNothing ==
    /\ Fault
    /\ \/ w.at = "validate" /\ Fail(64, "left")
       \/ w.at = "copy" /\ \E c \in {64, 74} : Fail(c, "finally")
       \/ w.at = "handoff" /\ Fail(74, "finally")
       \/ w.at = "spawn" /\ Fail(70, "finally")
       \/ w.at = "temp" /\ \E c \in {1, 74} : Fail(c, "finally")
       \/ w.at \in {"register", "link", "linked", "tidy"} /\ Fail(74, "finally")
    /\ UNCHANGED <<target, receipt, private, copy, Gate>> /\ Quiet

\* Mutant: the publication is let go of as soon as it is durable, before the
\* wrapper has cleaned up.
SyncedAndCleared ==
    /\ w.at = "tidy"
    /\ w' = [w EXCEPT !.at = "finally", !.code = receipt.exit, !.published = "no"]
    /\ UNCHANGED <<target, receipt, private, copy, Gate, faults>> /\ Quiet

Synced ==
    /\ w.at = "tidy" /\ Fail(receipt.exit, "finally")
    /\ UNCHANGED <<target, receipt, private, copy, Gate, faults>> /\ Quiet

\* Mutant: the registered publication is unlinked whatever is at its path.
UnlinkPublished ==
    /\ target' = IF w.published = "yes" THEN "absent" ELSE target
    /\ w' = [w EXCEPT !.published = "no", !.at = IF @ = "undo" THEN "undone" ELSE @]

\* remove_registered_publication unlinks the file it linked, known by its
\* device and inode.
RemovePublished ==
    /\ target' = IF w.published = "yes" /\ target = "ours" THEN "absent" ELSE target
    /\ w' = [w EXCEPT !.published = "no", !.at = IF @ = "undo" THEN "undone" ELSE @]
Undo ==
    /\ w.at = "undo" /\ RemovePublished
    /\ UNCHANGED <<receipt, private, copy, Gate, faults>> /\ Quiet
UndoTemp ==
    /\ w.at = "undone" /\ private' = private \ {"temp"}
    /\ w' = [w EXCEPT !.at = "finally", !.paths = @ \ {"temp"}]
    /\ UNCHANGED <<target, receipt, copy, Gate, faults>> /\ Quiet
\* verify_main removes the copy of the envelope and the handoff file; the
\* temporary receipt is publish_receipt's.
Finally ==
    /\ w.at = "finally"
    /\ IF private \subseteq {"temp"}
       THEN W(IF w.code \in Outcomes THEN "clear" ELSE "left") /\ UNCHANGED private
       ELSE \E p \in private \ {"temp"} :
                               /\ private' = private \ {p}
                               /\ w' = [w EXCEPT !.paths = @ \ {p}]
    /\ UNCHANGED <<target, receipt, copy, Gate, faults>> /\ Quiet
ClearPublication ==
    /\ w.at = "clear" /\ w' = [w EXCEPT !.at = "return", !.published = "no"]
    /\ UNCHANGED <<target, receipt, private, copy, Gate, faults>> /\ Quiet
Return ==
    /\ w.at = "return" /\ W("left")
    /\ UNCHANGED <<target, receipt, private, copy, Gate, faults>> /\ Quiet

\* Mutant: the interrupted wrapper waits for the gate however long it runs.
UnwindWaiting ==
    /\ w.at = "unwind" /\ g.at \in {"none", "exited"}
    /\ IF w.published = "yes" THEN RemovePublished /\ UNCHANGED private
       ELSE IF w.paths = {} THEN W("left") /\ UNCHANGED <<target, private>>
       ELSE /\ \E p \in w.paths : /\ private' = private \ {p}
                                  /\ w' = [w EXCEPT !.paths = @ \ {p}]
            /\ UNCHANGED target
    /\ UNCHANGED <<receipt, copy, Gate, faults>> /\ Quiet

\* cleanup_all; a second signal is ignored.
Unwind ==
    /\ w.at = "unwind"
    /\ IF w.published = "yes" THEN RemovePublished /\ UNCHANGED private
       ELSE IF w.paths = {} THEN W("left") /\ UNCHANGED <<target, private>>
       ELSE /\ \E p \in w.paths : /\ private' = private \ {p}
                                  /\ w' = [w EXCEPT !.paths = @ \ {p}]
            /\ UNCHANGED target
    /\ UNCHANGED <<receipt, copy, Gate, faults>> /\ Quiet

Alive == g.at \notin {"none", "exited"}
\* A killed gate may not come to its trap.
GateDies == /\ \E d \in {"none", g.dir} : g' = [g EXCEPT !.at = "exited", !.code = Killed,
                                                        !.dir = d, !.half = NoHalf]
            /\ UNCHANGED <<evidence, seen>>
Running == w.at \notin {"none", "unwind", "left"}
\* While the gate is being started its group is not known; when the publication
\* is cleared it is no longer removed.
Moment == CASE w.at = "adopt" -> "early" [] w.at = "return" -> "late" [] OTHER -> "taken"
\* HUP, INT or TERM: the gate's group is killed when it is known.
Signal ==
    /\ Running
    /\ w' = [w EXCEPT !.at = "unwind", !.signal = Moment, !.code = 70, !.group = "none"]
    /\ IF w.group = "known" /\ Alive THEN GateDies ELSE UNCHANGED Gate
    /\ UNCHANGED <<target, receipt, private, copy, faults>> /\ Quiet
Kill ==
    /\ w.at \notin {"none", "left"} /\ Fault
    /\ w' = [w EXCEPT !.at = "left", !.code = Killed]
    /\ UNCHANGED <<target, receipt, private, copy, Gate>> /\ Quiet
\* A call of the wrapper fails.  What publish_receipt did is undone, but for a
\* failure to read the temporary receipt back: that is an input error to
\* read_real_file, which no handler of publish_receipt names.
CallFails ==
    /\ Fault
    /\ \/ w.at = "validate" /\ Fail(64, "left")
       \/ w.at = "copy" /\ \E c \in {64, 74} : Fail(c, "finally")
       \/ w.at = "handoff" /\ Fail(74, "finally")
       \/ w.at = "spawn" /\ Fail(70, "finally")
       \/ w.at = "temp" /\ \E c \in {1, 74} : Fail(c, "finally")
       \/ w.at = "register" /\ Fail(64, "finally")
       \/ w.at \in {"register", "link", "linked", "tidy"} /\ Fail(74, "undo")
    /\ UNCHANGED <<target, receipt, private, copy, Gate>> /\ Quiet

-----------------------------------------------------------------------------
(* qa-gate.sh *)

NoWrapper == UNCHANGED <<Candidate, target, receipt, private, w, copy, caller>>
G(p) == g' = [g EXCEPT !.at = p]
\* gate_finish takes the last digest before it hands over its answer.
Finish(c) == g' = [g EXCEPT !.at = "final", !.code = c, !.half = NoHalf]
Stops(c) == g' = [g EXCEPT !.at = "exited", !.code = c, !.dir = "none", !.half = NoHalf]
GateDigest(p, s, q) ==
    /\ g.at = p
    /\ IF g.half = NoHalf
       THEN g' = [g EXCEPT !.half = cand.tracked] /\ UNCHANGED snap
       ELSE /\ snap' = [snap EXCEPT ![s] = Whole(g.half)]
            /\ g' = [g EXCEPT !.at = q, !.half = NoHalf]
    /\ UNCHANGED <<evidence, seen, faults>> /\ NoWrapper
Check(p, next) == /\ g.at = p /\ next
                  /\ UNCHANGED <<evidence, seen, snap, faults>> /\ NoWrapper
InScope == cand.untracked \notin OutOfScope

Workspace ==
    Check("workspace", IF "snapshot" \in private
                       THEN g' = [g EXCEPT !.at = "initial", !.dir = "made"] ELSE Stops(70))
Initial == GateDigest("initial", "initial", "validate")
ValidateEnvelope == Check("validate", IF copy = "invalid" THEN Finish(12) ELSE G("scope"))
Scope == Check("scope", IF InScope THEN G("claims") ELSE Finish(10))
Claims ==
    Check("claims", CASE copy = "escalated" -> Finish(15)
                      [] copy = "unchanged" -> Finish(13)
                      [] copy = "claims" -> Finish(11)
                      [] OTHER -> G("before"))
Before == GateDigest("before", "before", "ready")
\* Mutant: the loop over the verifiers runs one too many.
RunVerifierPast ==
    /\ g.at = "ready"
    /\ IF g.failed = "yes" \/ g.run > MaxVerifiers
       THEN G("after") /\ UNCHANGED seen
       ELSE G("running") /\ seen' = seen \cup {cand}
    /\ UNCHANGED <<evidence, snap, faults>> /\ NoWrapper

\* The verifiers run in order up to the first that fails.
RunVerifier ==
    /\ g.at = "ready"
    /\ IF g.failed = "yes" \/ g.run = MaxVerifiers
       THEN G("after") /\ UNCHANGED seen
       ELSE G("running") /\ seen' = seen \cup {cand}
    /\ UNCHANGED <<evidence, snap, faults>> /\ NoWrapper
VerifierEnds ==
    Check("running", \E f \in {"no", "yes"} :
                        g' = [g EXCEPT !.at = "ready", !.run = @ + 1, !.failed = f])
After == GateDigest("after", "after", "compare")
Compare ==
    Check("compare", IF snap["before"] # snap["after"] \/ g.failed = "yes"
                     THEN Finish(14) ELSE G("rescope"))
Rescope == Check("rescope", Finish(IF InScope THEN 0 ELSE 10))
Final == GateDigest("final", "final", "emit")
Emit ==
    /\ g.at = "emit" /\ G("clean")
    /\ evidence' = [exit |-> g.code, initial |-> snap["initial"],
                    final |-> snap["final"], envelope |-> copy]
    /\ UNCHANGED <<seen, snap, faults>> /\ NoWrapper
Clean == Check("clean", Stops(g.code))
\* A digest that is not available fails the verification or the gate itself.
GateFails ==
    /\ Fault
    /\ \/ g.at = "workspace" /\ \E c \in {64, 70} : Stops(c)
       \/ g.at \in {"initial", "final", "emit"} /\ Stops(70)
       \/ g.at \in {"before", "after"} /\ Finish(14)
       \/ g.at = "scope" /\ Finish(10)
       \/ g.at = "rescope" /\ Finish(10)
    /\ UNCHANGED <<evidence, seen, snap>> /\ NoWrapper
GateKilled ==
    /\ Alive /\ Fault /\ GateDies
    /\ UNCHANGED snap /\ NoWrapper

-----------------------------------------------------------------------------
(* Everyone else *)

\* A part gets content n; while a verifier runs it may be its own doing.
Write(part, n) ==
    /\ edits < MaxEdits /\ edits' = edits + 1
    /\ cand' = [cand EXCEPT ![part] = n]
    /\ seen' = IF g.at = "running" THEN seen \cup {cand'} ELSE seen
    /\ UNCHANGED <<envelope, target, receipt, private, w, copy, g, snap, evidence,
                   caller, faults>>
Edit(part) ==
    /\ Write(part, newest[part] + 1)
    /\ newest' = [newest EXCEPT ![part] = @ + 1] /\ UNCHANGED undone
Restore(part) ==
    /\ \E n \in 0..newest[part] : n # cand[part] /\ Write(part, n)
    /\ undone' = "yes" /\ UNCHANGED newest
EditEnvelope ==
    /\ edits < MaxEdits /\ edits' = edits + 1
    /\ envelope' \in Envelopes \ {envelope}
    /\ UNCHANGED <<cand, newest, undone, target, receipt, private, w, copy, Gate, snap, caller, faults>>
\* Another invocation publishes at the same path.
Occupy ==
    /\ Fault /\ target = "absent" /\ target' = "foreign"
    /\ UNCHANGED <<receipt, private, w, copy, Gate>> /\ Quiet

CallerStep == Capture \/ CallVerify \/ Judge \/ Recheck \/ Decide
WrapperStep ==
    \/ Validate \/ CopyEnvelope \/ MakeHandoff \/ Spawn \/ Adopt \/ Answer
    \/ WriteTemp \/ Register \/ Link \/ UnlinkTemp \/ Synced \/ Undo \/ UndoTemp
    \/ Finally \/ ClearPublication \/ Return \/ Unwind
GateStep ==
    \/ Workspace \/ Initial \/ ValidateEnvelope \/ Scope \/ Claims \/ Before
    \/ RunVerifier \/ After \/ Compare \/ Rescope \/ Final \/ Emit \/ Clean
Next ==
    \/ CallerStep \/ WrapperStep \/ GateStep \/ VerifierEnds
    \/ Signal \/ Kill \/ CallFails \/ GateFails \/ GateKilled
    \/ Edit("tracked") \/ Edit("untracked") \/ EditEnvelope \/ Occupy
    \/ Restore("tracked") \/ Restore("untracked")

Spec == Init /\ [][Next]_vars
\* Processes run; a verifier has no time limit and need not end.
FairSpec == Spec /\ WF_vars(CallerStep) /\ WF_vars(WrapperStep) /\ WF_vars(GateStep)

-----------------------------------------------------------------------------
(* Properties *)

\* Types of the state.
TypeOK ==
    /\ cand \in [tracked : 0..MaxEdits, untracked : 0..MaxEdits]
    /\ newest \in [tracked : 0..MaxEdits, untracked : 0..MaxEdits]
    /\ undone \in {"no", "yes"}
    /\ envelope \in Envelopes /\ copy \in Envelopes \cup {"good"}
    /\ target \in {"absent", "foreign", "ours"}
    /\ receipt \in [exit : Outcomes \cup {70}, initial : Parts, final : Parts,
                    envelope : Envelopes \cup {"good"}]
    /\ evidence \in [exit : Outcomes \cup {70}, initial : Parts, final : Parts,
                     envelope : Envelopes \cup {"good"}]
    /\ private \subseteq Private
    /\ w \in [at : WrapperPlaces, signal : {"none", "early", "taken", "late"},
             group : {"none", "known"}, paths : SUBSET Private,
             published : {"no", "yes"}, code : Outcomes \cup {1, 64, 70, 74, Killed}]
    /\ g \in [at : GatePlaces, half : 0..NoHalf, run : 0..MaxVerifiers,
             failed : {"no", "yes"}, dir : {"none", "made"},
             code : Outcomes \cup {64, 70, Killed}]
    /\ snap \in [Digests -> Parts] /\ seen \subseteq Parts
    /\ caller \in [at : CallerPlaces, half : 0..NoHalf]
    /\ edits \in 0..MaxEdits /\ faults \in 0..MaxFaults

\* A receipt at the path says what one gate answered that ended by itself, for
\* the envelope the wrapper copied; when it says gate-passed, every verifier
\* passed; and when its two digests are equal besides and nobody put back a
\* content, they ran on those contents and on no others, although each digest is
\* read in two parts while the candidate is edited (evidence_receipt.py
\* verify_main, qa-gate.sh).  MutationRejected is about contents put back.
ReceiptHonest ==
    target = "ours" =>
        /\ g.at = "exited" /\ g.code = receipt.exit /\ receipt.exit \in Outcomes
        /\ receipt.envelope = copy
        /\ receipt.exit = 0 =>
            /\ copy = "good" /\ g.failed = "no" /\ g.run = MaxVerifiers
            /\ undone = "no" /\ receipt.initial = receipt.final => seen = {receipt.final}

\* A wrapper that ends by itself leaves no private file, but for the temporary
\* receipt it could not read back; it leaves its receipt exactly when it returns
\* the code the receipt holds, but for a signal after it let go of the
\* publication; and no gate, but for a signal while the gate was being started.
Ended == w.at = "left" /\ w.code # Killed
Unread == private = {"temp"} /\ w.code = 64 /\ receipt.exit \in Outcomes
NothingLeft ==
    Ended =>
        /\ private = {} \/ Unread
        /\ w.code \in Outcomes => target = "ours" /\ receipt.exit = w.code
        /\ target = "ours" /\ w.code \notin Outcomes => w.signal = "late"
        /\ Alive => w.signal = "early"

\* A failure leaves no final or partial receipt
\* (tests/test-evidence-receipt.sh:1187).  Not kept: see the observations in README.md.
NoPartialReceipt == Ended /\ w.code \notin Outcomes => "temp" \notin private

\* Once the gate's evidence was good, what can fail is the validation or the
\* publication of the receipt, which returns 74 (docs/PROJECT_WORKFLOW.md:522).
\* Not kept: see the observations in README.md.
FailureCode ==
    Ended /\ receipt.exit \in Outcomes /\ w.signal = "none" => w.code \in Outcomes \cup {74}

\* Whatever fails, a receipt of someone else is neither replaced nor removed
\* (publish_receipt, remove_registered_publication).
ForeignKept == [][target = "foreign" => target' = "foreign"]_vars

\* What verify-finalize accepts or records is bound by its receipt to the digest
\* the command began with, and what it accepts passed every verifier; unless a
\* content was put back, the verifiers saw those contents and no others.
VerifiedIsAccepted ==
    caller.at \in {"accepted", "recorded"} =>
        /\ receipt.final = snap["caller"]
        /\ caller.at = "accepted" => g.failed = "no" /\ g.run = MaxVerifiers
        /\ undone = "no" =>
            /\ seen \subseteq {snap["caller"]}
            /\ caller.at = "accepted" => seen = {receipt.final}

\* A verifier that mutates the candidate invalidates the exercised state: what
\* is accepted was the same while the verifiers ran (references/TROUBLESHOOTING.md:150).
\* Not kept: see the observations in README.md.
MutationRejected == caller.at = "accepted" => seen \subseteq {receipt.final}

\* A handled signal ends the wrapper, though a verifier may run forever.
InterruptReturns == (w.signal # "none") ~> (w.at = "left")
=============================================================================
