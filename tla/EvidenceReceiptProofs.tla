------------------------ MODULE EvidenceReceiptProofs ------------------------
(***************************************************************************)
(* Proofs about EvidenceReceipt, for every set of envelopes, path policy,  *)
(* number of verifiers, edits and faults.                                  *)
(*                                                                         *)
(* Until somebody puts a content back, contents only grow: a digest lies   *)
(* between the contents at its first and at its last read, and two equal   *)
(* digests pin everything between them.                                    *)
(* The invariant says what the wrapper owns wherever it is (Owns), what is *)
(* known of the gate (Answers), that what the verifiers saw lies between   *)
(* the digests (Between), and what the caller compares (Calls).            *)
(***************************************************************************)
EXTENDS EvidenceReceipt, TLAPS

Le(a, b) == a.tracked <= b.tracked /\ a.untracked <= b.untracked
Early == {"none", "validate", "copy", "handoff", "spawn"}
Unlinked == Early \cup {"adopt", "wait", "temp", "register", "link", "undone"}
Publishing == {"temp", "register", "link", "linked", "tidy", "undo", "clear", "return"}
Verified == {"after", "compare", "rescope"}

\* The type invariant in parts, over folded sets.
GateCodes == Outcomes \cup {64, 70, Killed}
Codes == Outcomes \cup {1, 64, 70, 74, Killed}
Signals == {"none", "early", "taken", "late"}
Paths == SUBSET Private
Halves == 0..NoHalf
Runs == 0..MaxVerifiers
Contents == 0..MaxEdits
Kinds == Envelopes \cup {"good"}
ReceiptCodes == Outcomes \cup {70}
WTypes == [at : WrapperPlaces, signal : Signals, group : {"none", "known"},
           paths : Paths, published : {"no", "yes"}, code : Codes]
GTypes == [at : GatePlaces, half : Halves, run : Runs,
           failed : {"no", "yes"}, dir : {"none", "made"}, code : GateCodes]
CTypes == [at : CallerPlaces, half : Halves]
Receipts == [exit : ReceiptCodes, initial : Parts, final : Parts, envelope : Kinds]
Snaps == [Digests -> Parts]
WOK == w \in WTypes
GOK ==
    /\ g \in GTypes
    /\ g.at = "running" => g.run + 1 \in Runs
    /\ g.at \in {"final", "emit", "clean"} => g.code \in ReceiptCodes
DataOK ==
    /\ cand \in [tracked : Contents, untracked : Contents]
    /\ newest \in [tracked : Contents, untracked : Contents]
    /\ undone \in {"no", "yes"}
    /\ Le(cand, newest) /\ newest.tracked <= edits /\ newest.untracked <= edits
    /\ undone = "no" => cand = newest
    /\ envelope \in Envelopes /\ copy \in Kinds
    /\ target \in {"absent", "foreign", "ours"} /\ private \in Paths
    /\ receipt \in Receipts /\ evidence \in Receipts
    /\ snap \in Snaps /\ seen \in SUBSET Parts
    /\ caller \in CTypes
    /\ edits \in Contents /\ faults \in 0..MaxFaults

Passed == copy = "good" /\ g.failed = "no" /\ g.run = MaxVerifiers /\ seen # {}

\* What the wrapper owns, and would remove, wherever it is.
Owns ==
    /\ caller.at \in {"capture", "check"} => w.at = "none"
    /\ w.code = Killed => w.at = "left"
    /\ private \subseteq w.paths
    /\ w.at \in {"none", "validate", "copy", "clear", "return"} => private = {}
    /\ w.at = "left" /\ w.code # Killed => private = {} \/ Unread
    /\ w.at \in {"handoff", "spawn", "adopt", "wait", "temp"} => "temp" \notin private
    /\ w.at \in {"tidy", "clear", "return"} => "temp" \notin private
    /\ w.at = "finally" /\ "temp" \in private => w.code = 64 /\ receipt.exit \in Outcomes
    /\ w.at \in Unlinked => target # "ours"
    /\ w.at = "link" => w.published = "yes"
    /\ w.at \in {"linked", "tidy"} => target = "ours" /\ w.published = "yes"
    /\ w.at \in {"undo", "unwind", "undone"} => w.code \in {70, 74}
    /\ w.at = "undo" /\ target = "ours" => w.published = "yes"
    /\ w.at \in {"finally", "clear"} /\ w.code \in Outcomes =>
         target = "ours" /\ w.published = "yes" /\ receipt.exit = w.code
    /\ w.at = "finally" /\ w.code \notin Outcomes => target # "ours"
    /\ w.at = "clear" => w.code \in Outcomes
    /\ w.at = "return" => target = "ours" /\ w.code \in Outcomes /\ receipt.exit = w.code
    /\ w.at = "unwind" /\ target = "ours" => w.published = "yes" \/ w.signal = "late"
    /\ w.at = "left" /\ w.code \in Outcomes => target = "ours" /\ receipt.exit = w.code
    /\ w.at = "left" /\ w.code \notin Outcomes /\ w.code # Killed /\ target = "ours" =>
         w.signal = "late"

\* The gate is not outlived unless it was not known, and its answer is whole.
Answers ==
    /\ w.at \in Early => g.at = "none"
    /\ g.at = "none" => seen = {} /\ evidence.exit = 70
    /\ w.at \in {"adopt", "wait"} => g.at # "none"
    /\ w.at = "wait" => w.group = "known"
    /\ g.at \notin {"none", "exited"} => \/ w.at \in {"adopt", "wait"} \/ w.code = Killed
                                         \/ w.signal = "early" /\ w.at \in {"unwind", "left"}
    /\ w.at \in Publishing \/ target = "ours" =>
         /\ g.at = "exited" /\ receipt = evidence /\ receipt.exit = g.code
         /\ receipt.exit \in Outcomes /\ receipt.envelope = copy
    /\ evidence.exit # 70 => g.at \in {"clean", "exited"}
    /\ g.at \in {"scope", "claims"} => copy # "invalid"
    /\ g.at \in {"before", "ready", "running"} \cup Verified => copy = "good"
    /\ g.at \in Verified => g.failed = "yes" \/ g.run = MaxVerifiers
    /\ g.at = "rescope" => g.failed = "no"
    /\ g.at = "running" \/ g.run > 0 => seen # {}
    /\ g.at \in {"final", "emit", "clean"} /\ g.code = 0 => Passed
    /\ g.at = "clean" => evidence.exit = g.code
    /\ evidence.exit = 0 => Passed

\* Until a content is put back, what the verifiers saw lies between the digests
\* of the gate.
Growing ==
    /\ g.at = "initial" /\ g.half # NoHalf => g.half <= cand.tracked
    /\ g.at \notin {"none", "workspace", "initial", "exited"} => Le(snap["initial"], cand)
    /\ \A s \in seen : Le(snap["initial"], s) /\ Le(s, cand)
    /\ g.at = "final" /\ g.half # NoHalf => \A s \in seen : s.tracked <= g.half
    /\ g.at \in {"emit", "clean"} => \A s \in seen : Le(s, snap["final"])
    /\ evidence.exit # 70 => \A s \in seen : Le(s, evidence.final)
Between ==
    /\ g.at \in {"none", "workspace"} => g.half = NoHalf
    /\ g.at \in {"none", "workspace", "initial"} => seen = {}
    /\ evidence.exit # 70 =>
         evidence.initial = snap["initial"] /\ evidence.final = snap["final"]
    /\ undone = "no" => Growing

\* And the two digests of the caller lie around everything.
Around ==
    /\ caller.at = "capture" /\ caller.half # NoHalf => caller.half <= cand.tracked
    /\ caller.at # "capture" => Le(snap["caller"], cand)
    /\ \A s \in seen : Le(snap["caller"], s)
    /\ caller.at = "judge" /\ caller.half # NoHalf => \A s \in seen : s.tracked <= caller.half
    /\ caller.at = "compare" => \A s \in seen : Le(s, snap["current"])
Calls ==
    /\ caller.at \in {"check", "waiting"} => caller.half = NoHalf
    /\ caller.at \in {"judge", "compare", "accepted", "recorded"} =>
         w.at = "left" /\ w.code \in Outcomes
    /\ undone = "no" => Around
    /\ VerifiedIsAccepted

IInv == WOK /\ GOK /\ DataOK /\ Owns /\ Answers /\ Between /\ Calls

-----------------------------------------------------------------------------
\* What is in the sets of types, which the steps keep folded.
LEMMA WrapperSets ==
  /\ {"none", "validate", "copy", "handoff", "spawn", "adopt", "wait",
      "temp", "register", "link", "linked", "tidy", "undo", "undone",
      "finally", "clear", "return", "unwind", "left"} \subseteq
      WrapperPlaces
  /\ {0, 10, 11, 12, 13, 14, 15, 1, 64, 70, 74, Killed} \subseteq Codes
  /\ ReceiptCodes \subseteq Codes
  /\ {"none", "early", "taken", "late"} \subseteq Signals
  /\ \A s \in Paths, p \in {"snapshot", "handoff", "temp"} : s \cup {p} \in Paths
  /\ \A s \in Paths : \A p : s \ {p} \in Paths
BY DEF WrapperPlaces, Codes, ReceiptCodes, Outcomes, Signals, Paths, Private

\* The moment of a signal is one of them.
LEMMA MomentType == Moment \in Signals
BY DEF Moment, Signals

\* The same for the gate.
LEMMA GateSets ==
  /\ {"none", "workspace", "initial", "validate", "scope", "claims",
      "before", "ready", "running", "after", "compare", "rescope", "final",
      "emit", "clean", "exited"} \subseteq GatePlaces
  /\ {0, 10, 11, 12, 13, 14, 15, 64, 70, Killed} \subseteq GateCodes
  /\ {0, 10, 11, 12, 13, 14, 15} \subseteq ReceiptCodes
  /\ NoHalf \in Halves
  /\ cand \in [tracked : Contents, untracked : Contents] => cand.tracked \in Halves
BY ReceiptAssumption DEF GatePlaces, GateCodes, ReceiptCodes, Outcomes, Halves, NoHalf, Contents

\* The same for the digests and the caller.
LEMMA DataSets ==
  /\ {"capture", "check", "waiting", "judge", "compare", "accepted",
      "recorded", "refused"} \subseteq CallerPlaces
  /\ {"caller", "current", "initial", "before", "after", "final"} \subseteq Digests
  /\ NoHalf \in Halves
  /\ cand \in [tracked : Contents, untracked : Contents] =>
       /\ cand \in Parts /\ cand.tracked \in Halves
       /\ \A h \in Halves : Whole(h) \in Parts
BY ReceiptAssumption DEF CallerPlaces, Digests, Halves, NoHalf, Contents, Parts, Whole

\* Every action keeps the type of the wrapper.
LEMMA WrapperTypeStep ==
  ASSUME WOK, DataOK, [Next]_vars
  PROVE  WOK'
<1>1. CASE Capture
  BY <1>1, WrapperSets DEF Capture, CallerDigest, Whole, Candidate, Gate,
     Quiet, NoWrapper, WOK, DataOK, WTypes, Receipts
<1>2. CASE CallVerify
  BY <1>2, WrapperSets DEF CallVerify, W, Candidate, Gate, Quiet, NoWrapper,
     WOK, DataOK, WTypes, Receipts
<1>3. CASE Judge
  BY <1>3, WrapperSets DEF Judge, Candidate, Gate, Quiet, NoWrapper, WOK,
     DataOK, WTypes, Receipts
<1>4. CASE Recheck
  BY <1>4, WrapperSets DEF Recheck, CallerDigest, Whole, Candidate, Gate,
     Quiet, NoWrapper, WOK, DataOK, WTypes, Receipts
<1>5. CASE Decide
  BY <1>5, WrapperSets DEF Decide, Candidate, Gate, Quiet, NoWrapper, WOK,
     DataOK, WTypes, Receipts
<1>6. CASE Validate
  <2>1. \/ w' = [w EXCEPT !.at = "copy"]
        \/ w' = [w EXCEPT !.at = "left", !.code = 64]
    BY <1>6 DEF Validate, W, Fail
  <2> QED
    BY <2>1, WrapperSets, MomentType DEF WOK, WTypes
<1>7. CASE CopyEnvelope
  BY <1>7, WrapperSets DEF CopyEnvelope, Make, Candidate, Gate, Quiet,
     NoWrapper, WOK, DataOK, WTypes, Receipts
<1>8. CASE MakeHandoff
  BY <1>8, WrapperSets DEF MakeHandoff, Make, Candidate, Gate, Quiet,
     NoWrapper, WOK, DataOK, WTypes, Receipts
<1>9. CASE Spawn
  BY <1>9, WrapperSets DEF Spawn, W, Candidate, Gate, Quiet, NoWrapper, WOK,
     DataOK, WTypes, Receipts
<1>10. CASE Adopt
  BY <1>10, WrapperSets DEF Adopt, Candidate, Gate, Quiet, NoWrapper, WOK,
     DataOK, WTypes, Receipts
<1>11. CASE Answer
  <2>1. PICK p \in {"temp", "finally"}, c \in {64, 70} :
          w' = [w EXCEPT !.group = "none", !.at = p, !.code = c]
    <3>1. CASE g.code \in Outcomes /\ evidence.exit = g.code /\ evidence.envelope = copy
      BY <1>11, <3>1 DEF Answer
    <3>2. CASE ~(g.code \in Outcomes /\ evidence.exit = g.code /\ evidence.envelope = copy)
      BY <1>11, <3>2 DEF Answer
    <3> QED
      BY <3>1, <3>2
  <2>2. p \in WrapperPlaces /\ c \in Codes
    BY WrapperSets
  <2> QED
    BY <2>1, <2>2 DEF WOK, WTypes
<1>12. CASE WriteTemp
  BY <1>12, WrapperSets DEF WriteTemp, Make, Candidate, Gate, Quiet,
     NoWrapper, WOK, DataOK, WTypes, Receipts
<1>13. CASE Register
  BY <1>13, WrapperSets DEF Register, Candidate, Gate, Quiet, NoWrapper, WOK,
     DataOK, WTypes, Receipts
<1>14. CASE Link
  <2>1. \/ w' = [w EXCEPT !.at = "linked"]
        \/ w' = [w EXCEPT !.at = "undo", !.code = 74]
    BY <1>14 DEF Link, W, Fail
  <2> QED
    BY <2>1, WrapperSets, MomentType DEF WOK, WTypes
<1>15. CASE UnlinkTemp
  BY <1>15, WrapperSets DEF UnlinkTemp, Candidate, Gate, Quiet, NoWrapper,
     WOK, DataOK, WTypes, Receipts
<1>16. CASE Synced
  BY <1>16, WrapperSets DEF Synced, Fail, Candidate, Gate, Quiet, NoWrapper,
     WOK, DataOK, WTypes, Receipts
<1>17. CASE Undo
  BY <1>17, WrapperSets DEF Undo, RemovePublished, Candidate, Gate, Quiet,
     NoWrapper, WOK, DataOK, WTypes, Receipts
<1>18. CASE UndoTemp
  BY <1>18, WrapperSets DEF UndoTemp, Candidate, Gate, Quiet, NoWrapper, WOK,
     DataOK, WTypes, Receipts
<1>19. CASE Finally
  <2>1. \/ w' = [w EXCEPT !.at = "clear"]
        \/ w' = [w EXCEPT !.at = "left"]
        \/ \E p \in private : w' = [w EXCEPT !.paths = @ \ {p}]
    BY <1>19 DEF Finally, W
  <2> QED
    BY <2>1, WrapperSets DEF WOK, WTypes
<1>20. CASE ClearPublication
  BY <1>20, WrapperSets DEF ClearPublication, Candidate, Gate, Quiet,
     NoWrapper, WOK, DataOK, WTypes, Receipts
<1>21. CASE Return
  BY <1>21, WrapperSets DEF Return, W, Candidate, Gate, Quiet, NoWrapper, WOK,
     DataOK, WTypes, Receipts
<1>22. CASE Unwind
  <2>1. \/ w' = [w EXCEPT !.published = "no", !.at = "unwind"]
        \/ w' = [w EXCEPT !.at = "left"]
        \/ \E p \in w.paths : w' = [w EXCEPT !.paths = @ \ {p}]
    BY <1>22 DEF Unwind, RemovePublished, W, WOK, WTypes
  <2>2. CASE w' = [w EXCEPT !.published = "no", !.at = "unwind"]
    BY <2>2, WrapperSets DEF WOK, WTypes
  <2>3. CASE w' = [w EXCEPT !.at = "left"]
    BY <2>3, WrapperSets DEF WOK, WTypes
  <2>4. ASSUME NEW p \in w.paths, w' = [w EXCEPT !.paths = @ \ {p}] PROVE WOK'
    BY <2>4, WrapperSets DEF WOK, WTypes
  <2> QED
    BY <2>1, <2>2, <2>3, <2>4
<1>23. CASE Workspace
  BY <1>23, WrapperSets DEF Workspace, Check, Stops, Candidate, Gate, Quiet,
     NoWrapper, WOK, DataOK, WTypes, Receipts
<1>24. CASE Initial
  BY <1>24, WrapperSets DEF Initial, GateDigest, Whole, Candidate, Gate,
     Quiet, NoWrapper, WOK, DataOK, WTypes, Receipts
<1>25. CASE ValidateEnvelope
  BY <1>25, WrapperSets DEF ValidateEnvelope, Check, Finish, G, Candidate,
     Gate, Quiet, NoWrapper, WOK, DataOK, WTypes, Receipts
<1>26. CASE Scope
  BY <1>26, WrapperSets DEF Scope, Check, G, Finish, Candidate, Gate, Quiet,
     NoWrapper, WOK, DataOK, WTypes, Receipts
<1>27. CASE Claims
  BY <1>27, WrapperSets DEF Claims, Check, G, Finish, Candidate, Gate, Quiet,
     NoWrapper, WOK, DataOK, WTypes, Receipts
<1>28. CASE Before
  BY <1>28, WrapperSets DEF Before, GateDigest, Whole, Candidate, Gate, Quiet,
     NoWrapper, WOK, DataOK, WTypes, Receipts
<1>29. CASE RunVerifier
  BY <1>29, WrapperSets DEF RunVerifier, G, Candidate, Gate, Quiet, NoWrapper,
     WOK, DataOK, WTypes, Receipts
<1>30. CASE VerifierEnds
  BY <1>30, WrapperSets DEF VerifierEnds, Check, Candidate, Gate, Quiet,
     NoWrapper, WOK, DataOK, WTypes, Receipts
<1>31. CASE After
  BY <1>31, WrapperSets DEF After, GateDigest, Whole, Candidate, Gate, Quiet,
     NoWrapper, WOK, DataOK, WTypes, Receipts
<1>32. CASE Compare
  BY <1>32, WrapperSets DEF Compare, Check, Finish, G, Candidate, Gate, Quiet,
     NoWrapper, WOK, DataOK, WTypes, Receipts
<1>33. CASE Rescope
  BY <1>33, WrapperSets DEF Rescope, Check, Finish, Candidate, Gate, Quiet,
     NoWrapper, WOK, DataOK, WTypes, Receipts
<1>34. CASE Final
  BY <1>34, WrapperSets DEF Final, GateDigest, Whole, Candidate, Gate, Quiet,
     NoWrapper, WOK, DataOK, WTypes, Receipts
<1>35. CASE Emit
  BY <1>35, WrapperSets DEF Emit, G, Candidate, Gate, Quiet, NoWrapper, WOK,
     DataOK, WTypes, Receipts
<1>36. CASE Clean
  BY <1>36, WrapperSets DEF Clean, Check, Stops, Candidate, Gate, Quiet,
     NoWrapper, WOK, DataOK, WTypes, Receipts
<1>37. CASE Signal
  <2>1. w' = [w EXCEPT !.at = "unwind", !.signal = Moment, !.code = 70, !.group = "none"]
    BY <1>37 DEF Signal
  <2> QED
    BY <2>1, WrapperSets, MomentType DEF WOK, WTypes
<1>38. CASE Kill
  BY <1>38, WrapperSets DEF Kill, Fault, Candidate, Gate, Quiet, NoWrapper,
     WOK, DataOK, WTypes, Receipts
<1>39. CASE CallFails
  <2>1. \/ w' = [w EXCEPT !.at = "left", !.code = 64]
        \/ w' = [w EXCEPT !.at = "finally", !.code = 64]
        \/ w' = [w EXCEPT !.at = "finally", !.code = 74]
        \/ w' = [w EXCEPT !.at = "finally", !.code = 70]
        \/ w' = [w EXCEPT !.at = "finally", !.code = 1]
        \/ w' = [w EXCEPT !.at = "undo", !.code = 74]
    BY <1>39 DEF CallFails, Fail
  <2>2. CASE w' = [w EXCEPT !.at = "left", !.code = 64]
    BY <2>2, WrapperSets, MomentType DEF WOK, WTypes
  <2>3. CASE w' = [w EXCEPT !.at = "finally", !.code = 64]
    BY <2>3, WrapperSets, MomentType DEF WOK, WTypes
  <2>4. CASE w' = [w EXCEPT !.at = "finally", !.code = 74]
    BY <2>4, WrapperSets, MomentType DEF WOK, WTypes
  <2>5. CASE w' = [w EXCEPT !.at = "finally", !.code = 70]
    BY <2>5, WrapperSets, MomentType DEF WOK, WTypes
  <2>6. CASE w' = [w EXCEPT !.at = "finally", !.code = 1]
    BY <2>6, WrapperSets, MomentType DEF WOK, WTypes
  <2>7. CASE w' = [w EXCEPT !.at = "undo", !.code = 74]
    BY <2>7, WrapperSets, MomentType DEF WOK, WTypes
  <2> QED
    BY <2>1, <2>2, <2>3, <2>4, <2>5, <2>6, <2>7
<1>40. CASE GateFails
  BY <1>40, WrapperSets DEF GateFails, Fault, Stops, Finish, Candidate, Gate,
     Quiet, NoWrapper, WOK, DataOK, WTypes, Receipts
<1>41. CASE GateKilled
  BY <1>41, WrapperSets DEF GateKilled, Alive, Fault, GateDies, Candidate,
     Gate, Quiet, NoWrapper, WOK, DataOK, WTypes, Receipts
<1>42. ASSUME NEW p \in {"tracked", "untracked"}, Edit(p) PROVE WOK'
  BY <1>42, WrapperSets DEF Edit, Write, Candidate, Gate, Quiet, NoWrapper, WOK,
     DataOK, WTypes, Receipts
<1>43. CASE EditEnvelope
  BY <1>43, WrapperSets DEF EditEnvelope, Candidate, Gate, Quiet, NoWrapper,
     WOK, DataOK, WTypes, Receipts
<1>44. CASE Occupy
  BY <1>44, WrapperSets DEF Occupy, Fault, Candidate, Gate, Quiet, NoWrapper,
     WOK, DataOK, WTypes, Receipts
<1>45. CASE UNCHANGED vars
  BY <1>45, WrapperSets DEF vars, Gate, Candidate, WOK, DataOK, WTypes,
     Receipts
<1>46. ASSUME NEW p \in {"tracked", "untracked"}, Restore(p) PROVE WOK'
  BY <1>46, WrapperSets DEF Restore, Write, Candidate, Gate, Quiet, NoWrapper, WOK,
     DataOK, WTypes, Receipts
<1> QED
  BY <1>1, <1>2, <1>3, <1>4, <1>5, <1>6, <1>7, <1>8, <1>9, <1>10, <1>11,
     <1>12, <1>13, <1>14, <1>15, <1>16, <1>17, <1>18, <1>19, <1>20, <1>21,
     <1>22, <1>23, <1>24, <1>25, <1>26, <1>27, <1>28, <1>29, <1>30, <1>31,
     <1>32, <1>33, <1>34, <1>35, <1>36, <1>37, <1>38, <1>39, <1>40, <1>41,
     <1>42, <1>43, <1>44, <1>45, <1>46 DEF Next, CallerStep, WrapperStep, GateStep

\* Every action keeps the type of the gate.
LEMMA GateTypeStep ==
  ASSUME GOK, DataOK, [Next]_vars
  PROVE  GOK'
<1>1. CASE Capture
  BY <1>1, GateSets, ReceiptAssumption DEF Capture, CallerDigest, Whole,
     Candidate, Gate, Quiet, NoWrapper, GOK, DataOK, GTypes
<1>2. CASE CallVerify
  BY <1>2, GateSets, ReceiptAssumption DEF CallVerify, W, Candidate, Gate,
     Quiet, NoWrapper, GOK, DataOK, GTypes
<1>3. CASE Judge
  BY <1>3, GateSets, ReceiptAssumption DEF Judge, Candidate, Gate, Quiet,
     NoWrapper, GOK, DataOK, GTypes
<1>4. CASE Recheck
  BY <1>4, GateSets, ReceiptAssumption DEF Recheck, CallerDigest, Whole,
     Candidate, Gate, Quiet, NoWrapper, GOK, DataOK, GTypes
<1>5. CASE Decide
  BY <1>5, GateSets, ReceiptAssumption DEF Decide, Candidate, Gate, Quiet,
     NoWrapper, GOK, DataOK, GTypes
<1>6. CASE Validate
  BY <1>6, GateSets, ReceiptAssumption DEF Validate, W, Fail, Candidate, Gate,
     Quiet, NoWrapper, GOK, DataOK, GTypes
<1>7. CASE CopyEnvelope
  BY <1>7, GateSets, ReceiptAssumption DEF CopyEnvelope, Make, Candidate,
     Gate, Quiet, NoWrapper, GOK, DataOK, GTypes
<1>8. CASE MakeHandoff
  BY <1>8, GateSets, ReceiptAssumption DEF MakeHandoff, Make, Candidate, Gate,
     Quiet, NoWrapper, GOK, DataOK, GTypes
<1>9. CASE Spawn
  BY <1>9, GateSets, ReceiptAssumption DEF Spawn, W, Candidate, Gate, Quiet,
     NoWrapper, GOK, DataOK, GTypes
<1>10. CASE Adopt
  BY <1>10, GateSets, ReceiptAssumption DEF Adopt, Candidate, Gate, Quiet,
     NoWrapper, GOK, DataOK, GTypes
<1>11. CASE Answer
  BY <1>11, GateSets, ReceiptAssumption DEF Answer, Candidate, Gate, Quiet,
     NoWrapper, GOK, DataOK, GTypes
<1>12. CASE WriteTemp
  BY <1>12, GateSets, ReceiptAssumption DEF WriteTemp, Make, Candidate, Gate,
     Quiet, NoWrapper, GOK, DataOK, GTypes
<1>13. CASE Register
  BY <1>13, GateSets, ReceiptAssumption DEF Register, Candidate, Gate, Quiet,
     NoWrapper, GOK, DataOK, GTypes
<1>14. CASE Link
  BY <1>14, GateSets, ReceiptAssumption DEF Link, W, Fail, Candidate, Gate,
     Quiet, NoWrapper, GOK, DataOK, GTypes
<1>15. CASE UnlinkTemp
  BY <1>15, GateSets, ReceiptAssumption DEF UnlinkTemp, Candidate, Gate,
     Quiet, NoWrapper, GOK, DataOK, GTypes
<1>16. CASE Synced
  BY <1>16, GateSets, ReceiptAssumption DEF Synced, Fail, Candidate, Gate,
     Quiet, NoWrapper, GOK, DataOK, GTypes
<1>17. CASE Undo
  BY <1>17, GateSets, ReceiptAssumption DEF Undo, RemovePublished, Candidate,
     Gate, Quiet, NoWrapper, GOK, DataOK, GTypes
<1>18. CASE UndoTemp
  BY <1>18, GateSets, ReceiptAssumption DEF UndoTemp, Candidate, Gate, Quiet,
     NoWrapper, GOK, DataOK, GTypes
<1>19. CASE Finally
  BY <1>19, GateSets, ReceiptAssumption DEF Finally, W, Candidate, Gate,
     Quiet, NoWrapper, GOK, DataOK, GTypes
<1>20. CASE ClearPublication
  BY <1>20, GateSets, ReceiptAssumption DEF ClearPublication, Candidate, Gate,
     Quiet, NoWrapper, GOK, DataOK, GTypes
<1>21. CASE Return
  BY <1>21, GateSets, ReceiptAssumption DEF Return, W, Candidate, Gate, Quiet,
     NoWrapper, GOK, DataOK, GTypes
<1>22. CASE Unwind
  BY <1>22, GateSets, ReceiptAssumption DEF Unwind, RemovePublished, W,
     Candidate, Gate, Quiet, NoWrapper, GOK, DataOK, GTypes
<1>23. CASE Workspace
  <2>1. CASE "snapshot" \in private
    BY <1>23, <2>1, GateSets DEF Workspace, Check, GOK, GTypes
  <2>2. CASE "snapshot" \notin private
    <3>1. g' = [g EXCEPT !.at = "exited", !.code = 70, !.dir = "none", !.half = NoHalf]
      BY <1>23, <2>2 DEF Workspace, Check, Stops
    <3>2. 70 \in GateCodes /\ "exited" \in GatePlaces /\ NoHalf \in Halves
      BY GateSets
    <3> QED
      BY <3>1, <3>2 DEF GOK, GTypes
  <2> QED
    BY <2>1, <2>2
<1>24. CASE Initial
  <2>1. \/ g' = [g EXCEPT !.half = cand.tracked] /\ g.at = "initial"
        \/ g' = [g EXCEPT !.at = "validate", !.half = NoHalf] /\ g.at = "initial"
    BY <1>24 DEF Initial, GateDigest
  <2>2. cand.tracked \in Halves /\ NoHalf \in Halves /\ "validate" \in GatePlaces
    BY GateSets DEF DataOK
  <2> QED
    BY <2>1, <2>2 DEF GOK, GTypes
<1>25. CASE ValidateEnvelope
  <2>1. \/ g' = [g EXCEPT !.at = "final", !.code = 12, !.half = NoHalf]
        \/ g' = [g EXCEPT !.at = "scope"]
    BY <1>25 DEF ValidateEnvelope, Check, Finish, G
  <2> QED
    BY <2>1, GateSets DEF GOK, GTypes
<1>26. CASE Scope
  <2>1. \/ g' = [g EXCEPT !.at = "final", !.code = 10, !.half = NoHalf]
        \/ g' = [g EXCEPT !.at = "claims"]
    BY <1>26 DEF Scope, Check, Finish, G
  <2> QED
    BY <2>1, GateSets DEF GOK, GTypes
<1>27. CASE Claims
  <2>1. \/ g' = [g EXCEPT !.at = "final", !.code = 15, !.half = NoHalf]
        \/ g' = [g EXCEPT !.at = "final", !.code = 13, !.half = NoHalf]
        \/ g' = [g EXCEPT !.at = "final", !.code = 11, !.half = NoHalf]
        \/ g' = [g EXCEPT !.at = "before"]
    BY <1>27 DEF Claims, Check, Finish, G
  <2>2. CASE g' = [g EXCEPT !.at = "final", !.code = 15, !.half = NoHalf]
    BY <2>2, GateSets DEF GOK, GTypes
  <2>3. CASE g' = [g EXCEPT !.at = "final", !.code = 13, !.half = NoHalf]
    BY <2>3, GateSets DEF GOK, GTypes
  <2>4. CASE g' = [g EXCEPT !.at = "final", !.code = 11, !.half = NoHalf]
    BY <2>4, GateSets DEF GOK, GTypes
  <2>5. CASE g' = [g EXCEPT !.at = "before"]
    BY <2>5, GateSets DEF GOK, GTypes
  <2> QED
    BY <2>1, <2>2, <2>3, <2>4, <2>5
<1>28. CASE Before
  <2>1. \/ g' = [g EXCEPT !.half = cand.tracked] /\ g.at = "before"
        \/ g' = [g EXCEPT !.at = "ready", !.half = NoHalf] /\ g.at = "before"
    BY <1>28 DEF Before, GateDigest
  <2>2. cand.tracked \in Halves /\ NoHalf \in Halves /\ "ready" \in GatePlaces
    BY GateSets DEF DataOK
  <2> QED
    BY <2>1, <2>2 DEF GOK, GTypes
<1>29. CASE RunVerifier
  <2>1. \/ g' = [g EXCEPT !.at = "after"]
        \/ g' = [g EXCEPT !.at = "running"] /\ g.run # MaxVerifiers
    BY <1>29 DEF RunVerifier, G
  <2>2. g.run # MaxVerifiers => g.run + 1 \in Runs
    BY ReceiptAssumption DEF GOK, GTypes, Runs
  <2> QED
    BY <2>1, <2>2, GateSets DEF GOK, GTypes
<1>30. CASE VerifierEnds
  BY <1>30, GateSets, ReceiptAssumption DEF VerifierEnds, Check, Candidate,
     Gate, Quiet, NoWrapper, GOK, DataOK, GTypes
<1>31. CASE After
  <2>1. \/ g' = [g EXCEPT !.half = cand.tracked] /\ g.at = "after"
        \/ g' = [g EXCEPT !.at = "compare", !.half = NoHalf] /\ g.at = "after"
    BY <1>31 DEF After, GateDigest
  <2>2. cand.tracked \in Halves /\ NoHalf \in Halves /\ "compare" \in GatePlaces
    BY GateSets DEF DataOK
  <2> QED
    BY <2>1, <2>2 DEF GOK, GTypes
<1>32. CASE Compare
  <2>1. \/ g' = [g EXCEPT !.at = "final", !.code = 14, !.half = NoHalf]
        \/ g' = [g EXCEPT !.at = "rescope"]
    BY <1>32 DEF Compare, Check, Finish, G
  <2> QED
    BY <2>1, GateSets DEF GOK, GTypes
<1>33. CASE Rescope
  BY <1>33, GateSets, ReceiptAssumption DEF Rescope, Check, Finish, Candidate,
     Gate, Quiet, NoWrapper, GOK, DataOK, GTypes
<1>34. CASE Final
  <2>1. \/ g' = [g EXCEPT !.half = cand.tracked] /\ g.at = "final"
        \/ g' = [g EXCEPT !.at = "emit", !.half = NoHalf] /\ g.at = "final"
    BY <1>34 DEF Final, GateDigest
  <2>2. cand.tracked \in Halves /\ NoHalf \in Halves /\ "emit" \in GatePlaces
    BY GateSets DEF DataOK
  <2> QED
    BY <2>1, <2>2 DEF GOK, GTypes
<1>35. CASE Emit
  BY <1>35, GateSets, ReceiptAssumption DEF Emit, G, Candidate, Gate, Quiet,
     NoWrapper, GOK, DataOK, GTypes
<1>36. CASE Clean
  BY <1>36, GateSets, ReceiptAssumption DEF Clean, Check, Stops, Candidate,
     Gate, Quiet, NoWrapper, GOK, DataOK, GTypes
<1>37. CASE Signal
  <2>1. CASE g' = g
    BY <2>1 DEF GOK
  <2>2. CASE g' # g
    <3>1. PICK d \in {"none", g.dir} :
            g' = [g EXCEPT !.at = "exited", !.code = Killed, !.dir = d, !.half = NoHalf]
      BY <1>37, <2>2 DEF Signal, GateDies, Gate
    <3>2. Killed \in GateCodes /\ "exited" \in GatePlaces /\ NoHalf \in Halves
      BY GateSets
    <3> QED
      BY <3>1, <3>2 DEF GOK, GTypes
  <2> QED
    BY <2>1, <2>2
<1>38. CASE Kill
  BY <1>38, GateSets, ReceiptAssumption DEF Kill, Fault, Candidate, Gate,
     Quiet, NoWrapper, GOK, DataOK, GTypes
<1>39. CASE CallFails
  BY <1>39, GateSets, ReceiptAssumption DEF CallFails, Fault, Fail, Candidate,
     Gate, Quiet, NoWrapper, GOK, DataOK, GTypes
<1>40. CASE GateFails
  <2>1. \/ \E c \in {64, 70} : Stops(c)
        \/ \E c \in {10, 14} : Finish(c)
    BY <1>40 DEF GateFails
  <2>2. ASSUME NEW c \in {64, 70}, Stops(c) PROVE GOK'
    <3>1. c \in GateCodes /\ "exited" \in GatePlaces /\ NoHalf \in Halves
      BY GateSets
    <3> QED
      BY <2>2, <3>1 DEF Stops, GOK, GTypes
  <2>3. ASSUME NEW c \in {10, 14}, Finish(c) PROVE GOK'
    <3>1. c \in GateCodes /\ c \in ReceiptCodes /\ "final" \in GatePlaces /\ NoHalf \in Halves
      BY GateSets
    <3> QED
      BY <2>3, <3>1 DEF Finish, GOK, GTypes
  <2> QED
    BY <2>1, <2>2, <2>3
<1>41. CASE GateKilled
  <2>1. PICK d \in {"none", g.dir} :
          g' = [g EXCEPT !.at = "exited", !.code = Killed, !.dir = d, !.half = NoHalf]
    BY <1>41 DEF GateKilled, GateDies
  <2>2. Killed \in GateCodes /\ "exited" \in GatePlaces /\ NoHalf \in Halves
    BY GateSets
  <2> QED
    BY <2>1, <2>2 DEF GOK, GTypes
<1>42. ASSUME NEW p \in {"tracked", "untracked"}, Edit(p) PROVE GOK'
  BY <1>42, GateSets, ReceiptAssumption DEF Edit, Write, Candidate, Gate, Quiet,
     NoWrapper, GOK, DataOK, GTypes
<1>43. CASE EditEnvelope
  BY <1>43, GateSets, ReceiptAssumption DEF EditEnvelope, Candidate, Gate,
     Quiet, NoWrapper, GOK, DataOK, GTypes
<1>44. CASE Occupy
  BY <1>44, GateSets, ReceiptAssumption DEF Occupy, Fault, Candidate, Gate,
     Quiet, NoWrapper, GOK, DataOK, GTypes
<1>45. CASE UNCHANGED vars
  BY <1>45, GateSets, ReceiptAssumption DEF vars, Gate, Candidate, GOK,
     DataOK, GTypes
<1>46. ASSUME NEW p \in {"tracked", "untracked"}, Restore(p) PROVE GOK'
  BY <1>46, GateSets, ReceiptAssumption DEF Restore, Write, Candidate, Gate, Quiet,
     NoWrapper, GOK, DataOK, GTypes
<1> QED
  BY <1>1, <1>2, <1>3, <1>4, <1>5, <1>6, <1>7, <1>8, <1>9, <1>10, <1>11,
     <1>12, <1>13, <1>14, <1>15, <1>16, <1>17, <1>18, <1>19, <1>20, <1>21,
     <1>22, <1>23, <1>24, <1>25, <1>26, <1>27, <1>28, <1>29, <1>30, <1>31,
     <1>32, <1>33, <1>34, <1>35, <1>36, <1>37, <1>38, <1>39, <1>40, <1>41,
     <1>42, <1>43, <1>44, <1>45, <1>46 DEF Next, CallerStep, WrapperStep, GateStep

\* Every action keeps the types of the rest.
LEMMA DataTypeStep ==
  ASSUME WOK, GOK, DataOK, [Next]_vars
  PROVE  DataOK'
<1>1. CASE Capture
  BY <1>1, DataSets, WrapperSets, ReceiptAssumption DEF Capture, CallerDigest,
     Whole, Candidate, Gate, Quiet, NoWrapper, WOK, GOK, DataOK, CTypes,
     Receipts, GTypes, Snaps
<1>2. CASE CallVerify
  BY <1>2, DataSets, WrapperSets, ReceiptAssumption DEF CallVerify, W,
     Candidate, Gate, Quiet, NoWrapper, WOK, GOK, DataOK, CTypes, Receipts,
     GTypes, Snaps
<1>3. CASE Judge
  BY <1>3, DataSets, WrapperSets, ReceiptAssumption DEF Judge, Candidate,
     Gate, Quiet, NoWrapper, WOK, GOK, DataOK, CTypes, Receipts, GTypes, Snaps
<1>4. CASE Recheck
  BY <1>4, DataSets, WrapperSets, ReceiptAssumption DEF Recheck, CallerDigest,
     Whole, Candidate, Gate, Quiet, NoWrapper, WOK, GOK, DataOK, CTypes,
     Receipts, GTypes, Snaps
<1>5. CASE Decide
  BY <1>5, DataSets, WrapperSets, ReceiptAssumption DEF Decide, Candidate,
     Gate, Quiet, NoWrapper, WOK, GOK, DataOK, CTypes, Receipts, GTypes, Snaps
<1>6. CASE Validate
  BY <1>6, DataSets, WrapperSets, ReceiptAssumption DEF Validate, W, Fail,
     Candidate, Gate, Quiet, NoWrapper, WOK, GOK, DataOK, CTypes, Receipts,
     GTypes, Snaps
<1>7. CASE CopyEnvelope
  <2>1. UNCHANGED <<cand, newest, undone, envelope, target, receipt, evidence, snap, seen, caller, edits, faults>> /\ copy' = envelope
    BY <1>7 DEF CopyEnvelope, Gate, Quiet, Candidate
  <2>2. private' = private \cup {"snapshot"}
    BY <1>7 DEF CopyEnvelope, Make
  <2>3. envelope \in Kinds
    BY DEF DataOK, Kinds
  <2> QED
    BY <2>1, <2>2, <2>3, WrapperSets DEF DataOK, Le
<1>8. CASE MakeHandoff
  BY <1>8, DataSets, WrapperSets, ReceiptAssumption DEF MakeHandoff, Make,
     Candidate, Gate, Quiet, NoWrapper, WOK, GOK, DataOK, CTypes, Receipts,
     GTypes, Snaps
<1>9. CASE Spawn
  BY <1>9, DataSets, WrapperSets, ReceiptAssumption DEF Spawn, W, Candidate,
     Gate, Quiet, NoWrapper, WOK, GOK, DataOK, CTypes, Receipts, GTypes, Snaps
<1>10. CASE Adopt
  BY <1>10, DataSets, WrapperSets, ReceiptAssumption DEF Adopt, Candidate,
     Gate, Quiet, NoWrapper, WOK, GOK, DataOK, CTypes, Receipts, GTypes, Snaps
<1>11. CASE Answer
  BY <1>11, DataSets, WrapperSets, ReceiptAssumption DEF Answer, Candidate,
     Gate, Quiet, NoWrapper, WOK, GOK, DataOK, CTypes, Receipts, GTypes, Snaps
<1>12. CASE WriteTemp
  BY <1>12, DataSets, WrapperSets, ReceiptAssumption DEF WriteTemp, Make,
     Candidate, Gate, Quiet, NoWrapper, WOK, GOK, DataOK, CTypes, Receipts,
     GTypes, Snaps
<1>13. CASE Register
  BY <1>13, DataSets, WrapperSets, ReceiptAssumption DEF Register, Candidate,
     Gate, Quiet, NoWrapper, WOK, GOK, DataOK, CTypes, Receipts, GTypes, Snaps
<1>14. CASE Link
  BY <1>14, DataSets, WrapperSets, ReceiptAssumption DEF Link, W, Fail,
     Candidate, Gate, Quiet, NoWrapper, WOK, GOK, DataOK, CTypes, Receipts,
     GTypes, Snaps
<1>15. CASE UnlinkTemp
  BY <1>15, DataSets, WrapperSets, ReceiptAssumption DEF UnlinkTemp,
     Candidate, Gate, Quiet, NoWrapper, WOK, GOK, DataOK, CTypes, Receipts,
     GTypes, Snaps
<1>16. CASE Synced
  BY <1>16, DataSets, WrapperSets, ReceiptAssumption DEF Synced, Fail,
     Candidate, Gate, Quiet, NoWrapper, WOK, GOK, DataOK, CTypes, Receipts,
     GTypes, Snaps
<1>17. CASE Undo
  BY <1>17, DataSets, WrapperSets, ReceiptAssumption DEF Undo,
     RemovePublished, Candidate, Gate, Quiet, NoWrapper, WOK, GOK, DataOK,
     CTypes, Receipts, GTypes, Snaps
<1>18. CASE UndoTemp
  BY <1>18, DataSets, WrapperSets, ReceiptAssumption DEF UndoTemp, Candidate,
     Gate, Quiet, NoWrapper, WOK, GOK, DataOK, CTypes, Receipts, GTypes, Snaps
<1>19. CASE Finally
  <2>1. UNCHANGED <<cand, newest, undone, envelope, copy, target, receipt, evidence, snap, seen, caller, edits, faults>>
    BY <1>19 DEF Finally, Gate, Quiet, Candidate
  <2>2. private' = private \/ \E p \in private : private' = private \ {p}
    BY <1>19 DEF Finally
  <2> QED
    BY <2>1, <2>2, WrapperSets DEF DataOK, Le
<1>20. CASE ClearPublication
  BY <1>20, DataSets, WrapperSets, ReceiptAssumption DEF ClearPublication,
     Candidate, Gate, Quiet, NoWrapper, WOK, GOK, DataOK, CTypes, Receipts,
     GTypes, Snaps
<1>21. CASE Return
  BY <1>21, DataSets, WrapperSets, ReceiptAssumption DEF Return, W, Candidate,
     Gate, Quiet, NoWrapper, WOK, GOK, DataOK, CTypes, Receipts, GTypes, Snaps
<1>22. CASE Unwind
  <2>1. UNCHANGED <<cand, newest, undone, envelope, copy, receipt, evidence, snap, seen, caller, edits, faults>>
    BY <1>22 DEF Unwind, Gate, Quiet, Candidate
  <2>2. private' = private \/ \E p \in w.paths : private' = private \ {p}
    BY <1>22 DEF Unwind
  <2>3. target' \in {target, "absent"}
    BY <1>22 DEF Unwind, RemovePublished
  <2> QED
    BY <2>1, <2>2, <2>3, WrapperSets DEF DataOK, Le
<1>23. CASE Workspace
  BY <1>23, DataSets, WrapperSets, ReceiptAssumption DEF Workspace, Check,
     Stops, Candidate, Gate, Quiet, NoWrapper, WOK, GOK, DataOK, CTypes,
     Receipts, GTypes, Snaps
<1>24. CASE Initial
  BY <1>24, DataSets, WrapperSets, ReceiptAssumption DEF Initial, GateDigest,
     Whole, Candidate, Gate, Quiet, NoWrapper, WOK, GOK, DataOK, CTypes,
     Receipts, GTypes, Snaps
<1>25. CASE ValidateEnvelope
  BY <1>25, DataSets, WrapperSets, ReceiptAssumption DEF ValidateEnvelope,
     Check, Finish, G, Candidate, Gate, Quiet, NoWrapper, WOK, GOK, DataOK,
     CTypes, Receipts, GTypes, Snaps
<1>26. CASE Scope
  BY <1>26, DataSets, WrapperSets, ReceiptAssumption DEF Scope, Check, G,
     Finish, Candidate, Gate, Quiet, NoWrapper, WOK, GOK, DataOK, CTypes,
     Receipts, GTypes, Snaps
<1>27. CASE Claims
  BY <1>27, DataSets, WrapperSets, ReceiptAssumption DEF Claims, Check, G,
     Finish, Candidate, Gate, Quiet, NoWrapper, WOK, GOK, DataOK, CTypes,
     Receipts, GTypes, Snaps
<1>28. CASE Before
  BY <1>28, DataSets, WrapperSets, ReceiptAssumption DEF Before, GateDigest,
     Whole, Candidate, Gate, Quiet, NoWrapper, WOK, GOK, DataOK, CTypes,
     Receipts, GTypes, Snaps
<1>29. CASE RunVerifier
  BY <1>29, DataSets, WrapperSets, ReceiptAssumption DEF RunVerifier, G,
     Candidate, Gate, Quiet, NoWrapper, WOK, GOK, DataOK, CTypes, Receipts,
     GTypes, Snaps
<1>30. CASE VerifierEnds
  BY <1>30, DataSets, WrapperSets, ReceiptAssumption DEF VerifierEnds, Check,
     Candidate, Gate, Quiet, NoWrapper, WOK, GOK, DataOK, CTypes, Receipts,
     GTypes, Snaps
<1>31. CASE After
  BY <1>31, DataSets, WrapperSets, ReceiptAssumption DEF After, GateDigest,
     Whole, Candidate, Gate, Quiet, NoWrapper, WOK, GOK, DataOK, CTypes,
     Receipts, GTypes, Snaps
<1>32. CASE Compare
  BY <1>32, DataSets, WrapperSets, ReceiptAssumption DEF Compare, Check,
     Finish, G, Candidate, Gate, Quiet, NoWrapper, WOK, GOK, DataOK, CTypes,
     Receipts, GTypes, Snaps
<1>33. CASE Rescope
  BY <1>33, DataSets, WrapperSets, ReceiptAssumption DEF Rescope, Check,
     Finish, Candidate, Gate, Quiet, NoWrapper, WOK, GOK, DataOK, CTypes,
     Receipts, GTypes, Snaps
<1>34. CASE Final
  BY <1>34, DataSets, WrapperSets, ReceiptAssumption DEF Final, GateDigest,
     Whole, Candidate, Gate, Quiet, NoWrapper, WOK, GOK, DataOK, CTypes,
     Receipts, GTypes, Snaps
<1>35. CASE Emit
  <2>1. UNCHANGED <<cand, newest, undone, envelope, copy, target, private, receipt, snap, seen, caller, edits, faults>>
    BY <1>35 DEF Emit, NoWrapper, Candidate
  <2>2. evidence' = [exit |-> g.code, initial |-> snap["initial"], final |-> snap["final"], envelope |-> copy]
    BY <1>35 DEF Emit
  <2>3. snap["initial"] \in Parts /\ snap["final"] \in Parts
    BY DataSets DEF DataOK, Snaps
  <2>4. g.code \in ReceiptCodes
    BY <1>35 DEF Emit, GOK
  <2> QED
    BY <2>1, <2>2, <2>3, <2>4 DEF DataOK, Receipts, Le
<1>36. CASE Clean
  BY <1>36, DataSets, WrapperSets, ReceiptAssumption DEF Clean, Check, Stops,
     Candidate, Gate, Quiet, NoWrapper, WOK, GOK, DataOK, CTypes, Receipts,
     GTypes, Snaps
<1>37. CASE Signal
  BY <1>37, DataSets, WrapperSets, ReceiptAssumption DEF Signal, Running,
     Moment, Alive, GateDies, Candidate, Gate, Quiet, NoWrapper, WOK, GOK,
     DataOK, CTypes, Receipts, GTypes, Snaps
<1>38. CASE Kill
  BY <1>38, DataSets, WrapperSets, ReceiptAssumption DEF Kill, Fault,
     Candidate, Gate, Quiet, NoWrapper, WOK, GOK, DataOK, CTypes, Receipts,
     GTypes, Snaps
<1>39. CASE CallFails
  BY <1>39, DataSets, WrapperSets, ReceiptAssumption DEF CallFails, Fault,
     Fail, Candidate, Gate, Quiet, NoWrapper, WOK, GOK, DataOK, CTypes,
     Receipts, GTypes, Snaps
<1>40. CASE GateFails
  BY <1>40, DataSets, WrapperSets, ReceiptAssumption DEF GateFails, Fault,
     Stops, Finish, Candidate, Gate, Quiet, NoWrapper, WOK, GOK, DataOK,
     CTypes, Receipts, GTypes, Snaps
<1>41. CASE GateKilled
  BY <1>41, DataSets, WrapperSets, ReceiptAssumption DEF GateKilled, Alive,
     Fault, GateDies, Candidate, Gate, Quiet, NoWrapper, WOK, GOK, DataOK,
     CTypes, Receipts, GTypes, Snaps
<1>42. ASSUME NEW p \in {"tracked", "untracked"}, Edit(p) PROVE DataOK'
  <2>1. UNCHANGED <<undone, envelope, copy, target, private, receipt, evidence, snap, caller, faults>>
    BY <1>42 DEF Edit, Write
  <2>2. /\ edits < MaxEdits /\ edits' = edits + 1
        /\ cand' = [cand EXCEPT ![p] = newest[p] + 1]
        /\ newest' = [newest EXCEPT ![p] = newest[p] + 1]
        /\ seen' \in {seen, seen \cup {cand'}}
    BY <1>42 DEF Edit, Write
  <2>3. edits' \in Contents
    BY <2>2, ReceiptAssumption DEF DataOK, Contents
  <2>4. /\ newest[p] + 1 \in Contents /\ newest[p] \in Nat
        /\ newest.tracked <= edits + 1 /\ newest.untracked <= edits + 1
        /\ newest[p] + 1 <= edits + 1
    BY <2>2, ReceiptAssumption DEF DataOK, Contents
  <2>5. /\ cand' \in [tracked : Contents, untracked : Contents]
        /\ newest' \in [tracked : Contents, untracked : Contents]
    BY <2>2, <2>4 DEF DataOK
  <2>6. newest'.tracked <= edits' /\ newest'.untracked <= edits'
    BY <2>2, <2>4 DEF DataOK
  <2>7. Le(cand', newest')
    BY <2>2, <2>4, ReceiptAssumption DEF DataOK, Le, Contents
  <2>8. undone' = "no" => cand' = newest'
    BY <2>1, <2>2 DEF DataOK
  <2>9. cand' \in Parts
    BY <2>5, ReceiptAssumption DEF Contents, Parts
  <2>10. seen' \in SUBSET Parts
    BY <2>2, <2>9 DEF DataOK
  <2> QED
    BY <2>1, <2>3, <2>5, <2>6, <2>7, <2>8, <2>10 DEF DataOK, Le
<1>43. CASE EditEnvelope
  <2>1. UNCHANGED <<cand, newest, undone, copy, target, private, receipt, evidence, snap, seen, caller, faults>>
    BY <1>43 DEF EditEnvelope, Gate
  <2>2. edits' \in Contents
    BY <1>43, ReceiptAssumption DEF EditEnvelope, DataOK, Contents
  <2>3. envelope' \in Envelopes
    BY <1>43 DEF EditEnvelope
  <2>4. newest.tracked <= edits' /\ newest.untracked <= edits'
    BY <1>43, ReceiptAssumption DEF EditEnvelope, DataOK, Contents
  <2> QED
    BY <2>1, <2>2, <2>3, <2>4 DEF DataOK, Le
<1>44. CASE Occupy
  BY <1>44, DataSets, WrapperSets, ReceiptAssumption DEF Occupy, Fault,
     Candidate, Gate, Quiet, NoWrapper, WOK, GOK, DataOK, CTypes, Receipts,
     GTypes, Snaps
<1>45. CASE UNCHANGED vars
  BY <1>45, DataSets, WrapperSets, ReceiptAssumption DEF vars, Gate,
     Candidate, WOK, GOK, DataOK, CTypes, Receipts, GTypes, Snaps
<1>46. ASSUME NEW p \in {"tracked", "untracked"}, Restore(p) PROVE DataOK'
  <2>1. UNCHANGED <<newest, envelope, copy, target, private, receipt, evidence, snap, caller, faults>>
    BY <1>46 DEF Restore, Write
  <2>2. PICK n \in 0..newest[p] :
          /\ edits < MaxEdits /\ edits' = edits + 1 /\ undone' = "yes"
          /\ cand' = [cand EXCEPT ![p] = n]
          /\ seen' \in {seen, seen \cup {cand'}}
    BY <1>46 DEF Restore, Write
  <2>3. edits' \in Contents
    BY <2>2, ReceiptAssumption DEF DataOK, Contents
  <2>4. newest[p] \in Contents /\ n \in Contents /\ n <= newest[p]
    BY ReceiptAssumption DEF DataOK, Contents
  <2>5. cand' \in [tracked : Contents, untracked : Contents]
    BY <2>2, <2>4 DEF DataOK
  <2>6. newest.tracked <= edits' /\ newest.untracked <= edits'
    BY <2>2, ReceiptAssumption DEF DataOK, Contents
  <2>7. Le(cand', newest)
    BY <2>2, <2>4 DEF DataOK, Le
  <2>8. cand' \in Parts
    BY <2>5, ReceiptAssumption DEF Contents, Parts
  <2>9. seen' \in SUBSET Parts
    BY <2>2, <2>8 DEF DataOK
  <2> QED
    BY <2>1, <2>2, <2>3, <2>5, <2>6, <2>7, <2>9 DEF DataOK, Le
<1> QED
  BY <1>1, <1>2, <1>3, <1>4, <1>5, <1>6, <1>7, <1>8, <1>9, <1>10, <1>11,
     <1>12, <1>13, <1>14, <1>15, <1>16, <1>17, <1>18, <1>19, <1>20, <1>21,
     <1>22, <1>23, <1>24, <1>25, <1>26, <1>27, <1>28, <1>29, <1>30, <1>31,
     <1>32, <1>33, <1>34, <1>35, <1>36, <1>37, <1>38, <1>39, <1>40, <1>41,
     <1>42, <1>43, <1>44, <1>45, <1>46 DEF Next, CallerStep, WrapperStep, GateStep

\* Every action keeps what the wrapper owns.
LEMMA OwnsStep ==
  ASSUME WOK, DataOK, Owns, Answers, [Next]_vars
  PROVE  Owns'
<1>1. CASE Capture
  <2>1. UNCHANGED <<w, target, receipt, private>>
    BY <1>1 DEF Capture, CallerDigest
  <2>2. caller.at = "capture" /\ caller'.at \in {"capture", "check"}
    BY <1>1 DEF Capture, CallerDigest, DataOK, CTypes
  <2> QED
    BY <2>1, <2>2 DEF Owns, Unread, Early, Unlinked, Outcomes, Killed
<1>2. CASE CallVerify
  <2>1. UNCHANGED <<target, receipt, private>>
    BY <1>2 DEF CallVerify
  <2>2. CASE target = "absent"
    <3>1. caller'.at = "waiting" /\ w'.at = "validate"
      BY <1>2, <2>2 DEF CallVerify, W, WOK, WTypes, DataOK, CTypes
    <3>2. /\ w'.code = w.code /\ w'.signal = w.signal
          /\ w'.paths = w.paths /\ w'.published = w.published
      BY <1>2, <2>2 DEF CallVerify, W, WOK, WTypes
    <3> QED
      BY <1>2, <2>1, <3>1, <3>2 DEF CallVerify, Owns, Unread, Early, Unlinked, Outcomes, Killed
  <2>3. CASE target # "absent"
    <3>1. caller'.at = "refused" /\ w' = w
      BY <1>2, <2>3 DEF CallVerify, DataOK, CTypes
    <3> QED
      BY <2>1, <3>1 DEF Owns, Unread, Early, Unlinked, Outcomes, Killed
  <2> QED
    BY <2>2, <2>3
<1>3. CASE Judge
  BY <1>3 DEF Judge, Candidate, Gate, Quiet, NoWrapper, WOK, WTypes, DataOK,
     Owns, Unread, Answers, Early, Unlinked, Publishing, Outcomes, Killed
<1>4. CASE Recheck
  <2>1. UNCHANGED <<w, target, receipt, private>>
    BY <1>4 DEF Recheck, CallerDigest
  <2>2. caller.at = "judge" /\ caller'.at \in {"judge", "compare"}
    BY <1>4 DEF Recheck, CallerDigest, DataOK, CTypes
  <2> QED
    BY <2>1, <2>2 DEF Owns, Unread, Early, Unlinked, Outcomes, Killed
<1>5. CASE Decide
  BY <1>5 DEF Decide, Candidate, Gate, Quiet, NoWrapper, WOK, WTypes, DataOK,
     Owns, Unread, Answers, Early, Unlinked, Publishing, Outcomes, Killed
<1>6. CASE Validate
  <2>1. UNCHANGED <<target, receipt, private, caller>>
    BY <1>6 DEF Validate, W, Fail, Quiet, Gate
  <2>2. CASE target = "absent"
    <3>1. /\ w'.at = "copy"
            /\ w'.signal = w.signal /\ w'.group = w.group /\ w'.paths = w.paths /\ w'.published = w.published /\ w'.code = w.code
      BY <1>6, <2>2 DEF Validate, W, Fail, Quiet, Gate, WOK, WTypes
    <3> QED
      BY <1>6, <2>1, <2>2, <3>1 DEF Validate, Owns, Unread, Early, Unlinked, Outcomes, Killed
  <2>3. CASE target # "absent"
    <3>1. /\ w'.at = "left" /\ w'.code = 64
            /\ w'.signal = w.signal /\ w'.group = w.group /\ w'.paths = w.paths /\ w'.published = w.published
      BY <1>6, <2>3 DEF Validate, W, Fail, Quiet, Gate, WOK, WTypes
    <3> QED
      BY <1>6, <2>1, <2>3, <3>1 DEF Validate, Owns, Unread, Early, Unlinked, Outcomes, Killed
  <2> QED
    BY <1>6, <2>2, <2>3 DEF Validate, W, Fail, Quiet, Gate
<1>7. CASE CopyEnvelope
  BY <1>7 DEF CopyEnvelope, Make, Candidate, Gate, Quiet, NoWrapper, WOK,
     WTypes, DataOK, Owns, Unread, Answers, Early, Unlinked, Publishing, Outcomes,
     Killed
<1>8. CASE MakeHandoff
  BY <1>8 DEF MakeHandoff, Make, Candidate, Gate, Quiet, NoWrapper, WOK,
     WTypes, DataOK, Owns, Unread, Answers, Early, Unlinked, Publishing, Outcomes,
     Killed
<1>9. CASE Spawn
  BY <1>9 DEF Spawn, W, Candidate, Gate, Quiet, NoWrapper, WOK, WTypes,
     DataOK, Owns, Unread, Answers, Early, Unlinked, Publishing, Outcomes, Killed
<1>10. CASE Adopt
  BY <1>10 DEF Adopt, Candidate, Gate, Quiet, NoWrapper, WOK, WTypes, DataOK,
     Owns, Unread, Answers, Early, Unlinked, Publishing, Outcomes, Killed
<1>11. CASE Answer
  BY <1>11 DEF Answer, Candidate, Gate, Quiet, NoWrapper, WOK, WTypes, DataOK,
     Owns, Unread, Answers, Early, Unlinked, Publishing, Outcomes, Killed
<1>12. CASE WriteTemp
  BY <1>12 DEF WriteTemp, Make, Candidate, Gate, Quiet, NoWrapper, WOK,
     WTypes, DataOK, Owns, Unread, Answers, Early, Unlinked, Publishing, Outcomes,
     Killed
<1>13. CASE Register
  BY <1>13 DEF Register, Candidate, Gate, Quiet, NoWrapper, WOK, WTypes,
     DataOK, Owns, Unread, Answers, Early, Unlinked, Publishing, Outcomes, Killed
<1>14. CASE Link
  <2>1. UNCHANGED <<receipt, private, caller>>
    BY <1>14 DEF Link, W, Fail, Quiet, Gate
  <2>2. CASE target = "absent"
    <3>1. /\ w'.at = "linked"
            /\ w'.signal = w.signal /\ w'.group = w.group /\ w'.paths = w.paths /\ w'.published = w.published /\ w'.code = w.code
      BY <1>14, <2>2 DEF Link, W, Fail, Quiet, Gate, WOK, WTypes
    <3>2. target' = "ours"
      BY <1>14, <2>2 DEF Link, W, Fail, Quiet, Gate, WOK, WTypes
    <3> QED
      BY <1>14, <2>1, <2>2, <3>1, <3>2 DEF Link, Owns, Unread, Early, Unlinked, Outcomes, Killed
  <2>3. CASE target # "absent"
    <3>1. /\ w'.at = "undo" /\ w'.code = 74
            /\ w'.signal = w.signal /\ w'.group = w.group /\ w'.paths = w.paths /\ w'.published = w.published
      BY <1>14, <2>3 DEF Link, W, Fail, Quiet, Gate, WOK, WTypes
    <3>2. target' = target
      BY <1>14, <2>3 DEF Link, W, Fail, Quiet, Gate, WOK, WTypes
    <3> QED
      BY <1>14, <2>1, <2>3, <3>1, <3>2 DEF Link, Owns, Unread, Early, Unlinked, Outcomes, Killed
  <2> QED
    BY <1>14, <2>2, <2>3 DEF Link, W, Fail, Quiet, Gate
<1>15. CASE UnlinkTemp
  BY <1>15 DEF UnlinkTemp, Candidate, Gate, Quiet, NoWrapper, WOK, WTypes,
     DataOK, Owns, Unread, Answers, Early, Unlinked, Publishing, Outcomes, Killed
<1>16. CASE Synced
  BY <1>16 DEF Synced, Fail, Candidate, Gate, Quiet, NoWrapper, WOK, WTypes,
     DataOK, Owns, Unread, Answers, Early, Unlinked, Publishing, Outcomes, Killed
<1>17. CASE Undo
  BY <1>17 DEF Undo, RemovePublished, Candidate, Gate, Quiet, NoWrapper, WOK,
     WTypes, DataOK, Owns, Unread, Answers, Early, Unlinked, Publishing, Outcomes,
     Killed
<1>18. CASE UndoTemp
  BY <1>18 DEF UndoTemp, Candidate, Gate, Quiet, NoWrapper, WOK, WTypes,
     DataOK, Owns, Unread, Answers, Early, Unlinked, Publishing, Outcomes, Killed
<1>19. CASE Finally
  BY <1>19 DEF Finally, W, Candidate, Gate, Quiet, NoWrapper, WOK, WTypes,
     DataOK, Owns, Unread, Answers, Early, Unlinked, Publishing, Outcomes, Killed
<1>20. CASE ClearPublication
  BY <1>20 DEF ClearPublication, Candidate, Gate, Quiet, NoWrapper, WOK,
     WTypes, DataOK, Owns, Unread, Answers, Early, Unlinked, Publishing, Outcomes,
     Killed
<1>21. CASE Return
  BY <1>21 DEF Return, W, Candidate, Gate, Quiet, NoWrapper, WOK, WTypes,
     DataOK, Owns, Unread, Answers, Early, Unlinked, Publishing, Outcomes, Killed
<1>22. CASE Unwind
  <2>1. UNCHANGED <<receipt, caller>>
    BY <1>22 DEF Unwind, W, RemovePublished, Quiet, Gate
  <2>2. CASE w.published = "yes"
    <3>1. /\ w'.at = "unwind" /\ w'.published = "no"
            /\ w'.signal = w.signal /\ w'.group = w.group /\ w'.paths = w.paths /\ w'.code = w.code
      BY <1>22, <2>2 DEF Unwind, W, RemovePublished, Quiet, Gate, WOK, WTypes
    <3>2. target' # "ours" /\ private' = private
      BY <1>22, <2>2 DEF Unwind, W, RemovePublished, Quiet, Gate, WOK, WTypes
    <3> QED
      BY <1>22, <2>1, <2>2, <3>1, <3>2 DEF Unwind, Owns, Unread, Early, Unlinked, Outcomes, Killed
  <2>3. CASE w.published # "yes" /\ w.paths = {}
    <3>1. /\ w'.at = "left"
            /\ w'.signal = w.signal /\ w'.group = w.group /\ w'.paths = w.paths /\ w'.published = w.published /\ w'.code = w.code
      BY <1>22, <2>3 DEF Unwind, W, RemovePublished, Quiet, Gate, WOK, WTypes
    <3>2. UNCHANGED <<private, target>>
      BY <1>22, <2>3 DEF Unwind, W, RemovePublished, Quiet, Gate, WOK, WTypes
    <3> QED
      BY <1>22, <2>1, <2>3, <3>1, <3>2 DEF Unwind, Owns, Unread, Early, Unlinked, Outcomes, Killed
  <2>4. CASE w.published # "yes" /\ w.paths # {}
    <3>1. /\ w'.at = "unwind"
            /\ w'.signal = w.signal /\ w'.published = w.published /\ w'.code = w.code
            /\ target' = target /\ (private \subseteq w.paths => private' \subseteq w'.paths)
      BY <1>22, <2>4 DEF Unwind, W, RemovePublished, Quiet, Gate, WOK, WTypes
    <3> QED
      BY <1>22, <2>1, <2>4, <3>1 DEF Unwind, Owns, Unread, Early, Unlinked, Outcomes, Killed
  <2> QED
    BY <1>22, <2>2, <2>3, <2>4 DEF Unwind, W, RemovePublished, Quiet, Gate
<1>23. CASE Workspace
  BY <1>23 DEF Workspace, Check, Stops, Candidate, Gate, Quiet, NoWrapper,
     WOK, WTypes, DataOK, Owns, Unread, Answers, Early, Unlinked, Publishing,
     Outcomes, Killed
<1>24. CASE Initial
  BY <1>24 DEF Initial, GateDigest, Whole, Candidate, Gate, Quiet, NoWrapper,
     WOK, WTypes, DataOK, Owns, Unread, Answers, Early, Unlinked, Publishing,
     Outcomes, Killed
<1>25. CASE ValidateEnvelope
  BY <1>25 DEF ValidateEnvelope, Check, Finish, G, Candidate, Gate, Quiet,
     NoWrapper, WOK, WTypes, DataOK, Owns, Unread, Answers, Early, Unlinked,
     Publishing, Outcomes, Killed
<1>26. CASE Scope
  BY <1>26 DEF Scope, Check, G, Finish, Candidate, Gate, Quiet, NoWrapper,
     WOK, WTypes, DataOK, Owns, Unread, Answers, Early, Unlinked, Publishing,
     Outcomes, Killed
<1>27. CASE Claims
  BY <1>27 DEF Claims, Check, G, Finish, Candidate, Gate, Quiet, NoWrapper,
     WOK, WTypes, DataOK, Owns, Unread, Answers, Early, Unlinked, Publishing,
     Outcomes, Killed
<1>28. CASE Before
  BY <1>28 DEF Before, GateDigest, Whole, Candidate, Gate, Quiet, NoWrapper,
     WOK, WTypes, DataOK, Owns, Unread, Answers, Early, Unlinked, Publishing,
     Outcomes, Killed
<1>29. CASE RunVerifier
  BY <1>29 DEF RunVerifier, G, Candidate, Gate, Quiet, NoWrapper, WOK, WTypes,
     DataOK, Owns, Unread, Answers, Early, Unlinked, Publishing, Outcomes, Killed
<1>30. CASE VerifierEnds
  BY <1>30 DEF VerifierEnds, Check, Candidate, Gate, Quiet, NoWrapper, WOK,
     WTypes, DataOK, Owns, Unread, Answers, Early, Unlinked, Publishing, Outcomes,
     Killed
<1>31. CASE After
  BY <1>31 DEF After, GateDigest, Whole, Candidate, Gate, Quiet, NoWrapper,
     WOK, WTypes, DataOK, Owns, Unread, Answers, Early, Unlinked, Publishing,
     Outcomes, Killed
<1>32. CASE Compare
  BY <1>32 DEF Compare, Check, Finish, G, Candidate, Gate, Quiet, NoWrapper,
     WOK, WTypes, DataOK, Owns, Unread, Answers, Early, Unlinked, Publishing,
     Outcomes, Killed
<1>33. CASE Rescope
  BY <1>33 DEF Rescope, Check, Finish, Candidate, Gate, Quiet, NoWrapper, WOK,
     WTypes, DataOK, Owns, Unread, Answers, Early, Unlinked, Publishing, Outcomes,
     Killed
<1>34. CASE Final
  BY <1>34 DEF Final, GateDigest, Whole, Candidate, Gate, Quiet, NoWrapper,
     WOK, WTypes, DataOK, Owns, Unread, Answers, Early, Unlinked, Publishing,
     Outcomes, Killed
<1>35. CASE Emit
  BY <1>35 DEF Emit, G, Candidate, Gate, Quiet, NoWrapper, WOK, WTypes,
     DataOK, Owns, Unread, Answers, Early, Unlinked, Publishing, Outcomes, Killed
<1>36. CASE Clean
  BY <1>36 DEF Clean, Check, Stops, Candidate, Gate, Quiet, NoWrapper, WOK,
     WTypes, DataOK, Owns, Unread, Answers, Early, Unlinked, Publishing, Outcomes,
     Killed
<1>37. CASE Signal
  <2>1. UNCHANGED <<target, receipt, private, caller>>
    BY <1>37 DEF Signal, Quiet
  <2>2. /\ w'.at = "unwind" /\ w'.code = 70 /\ w'.signal = Moment
        /\ w'.paths = w.paths /\ w'.published = w.published
    BY <1>37 DEF Signal, WOK, WTypes
  <2>3. w.at = "return" => Moment = "late"
    BY DEF Moment
  <2>4. w.at \notin {"none", "unwind", "left"}
    BY <1>37 DEF Signal, Running
  <2>5. w.at \in WrapperPlaces
    BY DEF WOK, WTypes
  <2>6. target = "ours" => w.published = "yes" \/ w.at = "return"
    BY <2>4, <2>5 DEF WrapperPlaces, Owns, Unread, Early, Unlinked, Outcomes, Killed
  <2> QED
    BY <2>1, <2>2, <2>3, <2>4, <2>6 DEF Owns, Unread, Early, Unlinked, Outcomes, Killed
<1>38. CASE Kill
  BY <1>38 DEF Kill, Fault, Candidate, Gate, Quiet, NoWrapper, WOK, WTypes,
     DataOK, Owns, Unread, Answers, Early, Unlinked, Publishing, Outcomes, Killed
<1>39. CASE CallFails
  <2>1. UNCHANGED <<target, receipt, private, caller>>
    BY <1>39 DEF CallFails, Quiet
  <2>2. PICK c \in {1, 64, 70, 74}, p \in {"left", "finally", "undo"} :
          /\ Fail(c, p)
          /\ p = "left" => w.at = "validate"
          /\ p = "finally" => \/ w.at \in {"copy", "handoff", "spawn", "temp"}
                              \/ w.at = "register" /\ c = 64
          /\ p = "undo" => w.at \in {"register", "link", "linked", "tidy"} /\ c = 74
    BY <1>39 DEF CallFails
  <2>3. /\ w'.at = p /\ w'.code = c
        /\ w'.signal = w.signal /\ w'.paths = w.paths /\ w'.published = w.published
    BY <2>2 DEF Fail, WOK, WTypes
  <2>4. CASE p = "left"
    BY <2>1, <2>2, <2>3, <2>4 DEF Owns, Unread, Early, Unlinked, Outcomes, Killed
  <2>7. w.at = "register" => receipt.exit \in Outcomes
    BY DEF Answers, Publishing
  <2>5. CASE p = "finally"
    BY <2>1, <2>2, <2>3, <2>5, <2>7 DEF Owns, Unread, Early, Unlinked, Outcomes, Killed
  <2>6. CASE p = "undo"
    BY <2>1, <2>2, <2>3, <2>4, <2>6 DEF Owns, Unread, Early, Unlinked, Outcomes, Killed
  <2> QED
    BY <2>2, <2>4, <2>5, <2>6
<1>40. CASE GateFails
  BY <1>40 DEF GateFails, Fault, Stops, Finish, Candidate, Gate, Quiet,
     NoWrapper, WOK, WTypes, DataOK, Owns, Unread, Answers, Early, Unlinked,
     Publishing, Outcomes, Killed
<1>41. CASE GateKilled
  BY <1>41 DEF GateKilled, Alive, Fault, GateDies, Candidate, Gate, Quiet,
     NoWrapper, WOK, WTypes, DataOK, Owns, Unread, Answers, Early, Unlinked,
     Publishing, Outcomes, Killed
<1>42. ASSUME NEW p \in {"tracked", "untracked"}, Edit(p) PROVE Owns'
  BY <1>42 DEF Edit, Write, Candidate, Gate, Quiet, NoWrapper, WOK, WTypes, DataOK,
     Owns, Unread, Answers, Early, Unlinked, Publishing, Outcomes, Killed
<1>43. CASE EditEnvelope
  BY <1>43 DEF EditEnvelope, Candidate, Gate, Quiet, NoWrapper, WOK, WTypes,
     DataOK, Owns, Unread, Answers, Early, Unlinked, Publishing, Outcomes, Killed
<1>44. CASE Occupy
  BY <1>44 DEF Occupy, Fault, Candidate, Gate, Quiet, NoWrapper, WOK, WTypes,
     DataOK, Owns, Unread, Answers, Early, Unlinked, Publishing, Outcomes, Killed
<1>45. CASE UNCHANGED vars
  BY <1>45 DEF vars, Gate, Candidate, WOK, WTypes, DataOK, Owns, Unread, Answers,
     Early, Unlinked, Publishing, Outcomes, Killed
<1>46. ASSUME NEW p \in {"tracked", "untracked"}, Restore(p) PROVE Owns'
  BY <1>46 DEF Restore, Write, Candidate, Gate, Quiet, NoWrapper, WOK, WTypes, DataOK,
     Owns, Unread, Answers, Early, Unlinked, Publishing, Outcomes, Killed
<1> QED
  BY <1>1, <1>2, <1>3, <1>4, <1>5, <1>6, <1>7, <1>8, <1>9, <1>10, <1>11,
     <1>12, <1>13, <1>14, <1>15, <1>16, <1>17, <1>18, <1>19, <1>20, <1>21,
     <1>22, <1>23, <1>24, <1>25, <1>26, <1>27, <1>28, <1>29, <1>30, <1>31,
     <1>32, <1>33, <1>34, <1>35, <1>36, <1>37, <1>38, <1>39, <1>40, <1>41,
     <1>42, <1>43, <1>44, <1>45, <1>46 DEF Next, CallerStep, WrapperStep, GateStep

\* Every action keeps what is known of the gate.
LEMMA AnswersStep ==
  ASSUME WOK, GOK, DataOK, Owns, Answers, [Next]_vars
  PROVE  Answers'
<1>1. CASE Capture
  BY <1>1, ReceiptAssumption DEF Capture, CallerDigest, Whole, Candidate,
     Gate, Quiet, NoWrapper, WOK, WTypes, GOK, GTypes, DataOK, Receipts, Owns,
     Answers, Early, Unlinked, Publishing, Verified, Passed, Outcomes, Killed
<1>2. CASE CallVerify
  BY <1>2, ReceiptAssumption DEF CallVerify, W, Candidate, Gate, Quiet,
     NoWrapper, WOK, WTypes, GOK, GTypes, DataOK, Receipts, Owns, Answers,
     Early, Unlinked, Publishing, Verified, Passed, Outcomes, Killed
<1>3. CASE Judge
  BY <1>3, ReceiptAssumption DEF Judge, Candidate, Gate, Quiet, NoWrapper,
     WOK, WTypes, GOK, GTypes, DataOK, Receipts, Owns, Answers, Early,
     Unlinked, Publishing, Verified, Passed, Outcomes, Killed
<1>4. CASE Recheck
  BY <1>4, ReceiptAssumption DEF Recheck, CallerDigest, Whole, Candidate,
     Gate, Quiet, NoWrapper, WOK, WTypes, GOK, GTypes, DataOK, Receipts, Owns,
     Answers, Early, Unlinked, Publishing, Verified, Passed, Outcomes, Killed
<1>5. CASE Decide
  BY <1>5, ReceiptAssumption DEF Decide, Candidate, Gate, Quiet, NoWrapper,
     WOK, WTypes, GOK, GTypes, DataOK, Receipts, Owns, Answers, Early,
     Unlinked, Publishing, Verified, Passed, Outcomes, Killed
<1>6. CASE Validate
  <2>1. UNCHANGED <<g, target, receipt, copy, seen, evidence>>
    BY <1>6 DEF Validate, W, Fail, Gate, Quiet, NoWrapper, Candidate
  <2>2. CASE target = "absent"
    <3>1. /\ w.at = "validate"
            /\ w'.at = "copy"
            /\ w'.signal = w.signal /\ w'.group = w.group /\ w'.paths = w.paths /\ w'.published = w.published /\ w'.code = w.code
      BY <1>6, <2>2 DEF Validate, W, Fail, WOK, WTypes
    <3> QED
      BY <2>1, <2>2, <3>1 DEF Answers, Early, Publishing, Verified, Passed, Outcomes, Killed
  <2>3. CASE target # "absent"
    <3>1. /\ w.at = "validate"
            /\ w'.at = "left" /\ w'.code = 64
            /\ w'.signal = w.signal /\ w'.group = w.group /\ w'.paths = w.paths /\ w'.published = w.published
      BY <1>6, <2>3 DEF Validate, W, Fail, WOK, WTypes
    <3> QED
      BY <2>1, <2>3, <3>1 DEF Answers, Early, Publishing, Verified, Passed, Outcomes, Killed
  <2> QED
    BY <2>2, <2>3
<1>7. CASE CopyEnvelope
  BY <1>7, ReceiptAssumption DEF CopyEnvelope, Make, Candidate, Gate, Quiet,
     NoWrapper, WOK, WTypes, GOK, GTypes, DataOK, Receipts, Owns, Answers,
     Early, Unlinked, Publishing, Verified, Passed, Outcomes, Killed
<1>8. CASE MakeHandoff
  BY <1>8, ReceiptAssumption DEF MakeHandoff, Make, Candidate, Gate, Quiet,
     NoWrapper, WOK, WTypes, GOK, GTypes, DataOK, Receipts, Owns, Answers,
     Early, Unlinked, Publishing, Verified, Passed, Outcomes, Killed
<1>9. CASE Spawn
  BY <1>9, ReceiptAssumption DEF Spawn, W, Candidate, Gate, Quiet, NoWrapper,
     WOK, WTypes, GOK, GTypes, DataOK, Receipts, Owns, Answers, Early,
     Unlinked, Publishing, Verified, Passed, Outcomes, Killed
<1>10. CASE Adopt
  BY <1>10, ReceiptAssumption DEF Adopt, Candidate, Gate, Quiet, NoWrapper,
     WOK, WTypes, GOK, GTypes, DataOK, Receipts, Owns, Answers, Early,
     Unlinked, Publishing, Verified, Passed, Outcomes, Killed
<1>11. CASE Answer
  BY <1>11, ReceiptAssumption DEF Answer, Candidate, Gate, Quiet, NoWrapper,
     WOK, WTypes, GOK, GTypes, DataOK, Receipts, Owns, Answers, Early,
     Unlinked, Publishing, Verified, Passed, Outcomes, Killed
<1>12. CASE WriteTemp
  BY <1>12, ReceiptAssumption DEF WriteTemp, Make, Candidate, Gate, Quiet,
     NoWrapper, WOK, WTypes, GOK, GTypes, DataOK, Receipts, Owns, Answers,
     Early, Unlinked, Publishing, Verified, Passed, Outcomes, Killed
<1>13. CASE Register
  BY <1>13, ReceiptAssumption DEF Register, Candidate, Gate, Quiet, NoWrapper,
     WOK, WTypes, GOK, GTypes, DataOK, Receipts, Owns, Answers, Early,
     Unlinked, Publishing, Verified, Passed, Outcomes, Killed
<1>14. CASE Link
  <2>1. UNCHANGED <<g, receipt, copy, seen, evidence>>
    BY <1>14 DEF Link, Gate
  <2>2. CASE target = "absent"
    <3>1. /\ w.at = "link" /\ w'.at = "linked"
          /\ w'.group = w.group /\ w'.signal = w.signal /\ w'.code = w.code
      BY <1>14, <2>2 DEF Link, W, WOK, WTypes
    <3> QED
      BY <2>1, <3>1 DEF Answers, Early, Publishing, Verified, Passed, Outcomes, Killed
  <2>3. CASE target # "absent"
    <3>1. /\ w.at = "link" /\ w'.at = "undo" /\ target' = target
          /\ w'.group = w.group /\ w'.signal = w.signal /\ w'.code = 74
      BY <1>14, <2>3 DEF Link, Fail, WOK, WTypes
    <3>2. w.code # Killed
      BY <3>1 DEF Owns
    <3> QED
      BY <2>1, <3>1, <3>2 DEF Answers, Early, Publishing, Verified, Passed, Outcomes, Killed
  <2> QED
    BY <2>2, <2>3
<1>15. CASE UnlinkTemp
  BY <1>15, ReceiptAssumption DEF UnlinkTemp, Candidate, Gate, Quiet,
     NoWrapper, WOK, WTypes, GOK, GTypes, DataOK, Receipts, Owns, Answers,
     Early, Unlinked, Publishing, Verified, Passed, Outcomes, Killed
<1>16. CASE Synced
  BY <1>16, ReceiptAssumption DEF Synced, Fail, Candidate, Gate, Quiet,
     NoWrapper, WOK, WTypes, GOK, GTypes, DataOK, Receipts, Owns, Answers,
     Early, Unlinked, Publishing, Verified, Passed, Outcomes, Killed
<1>17. CASE Undo
  BY <1>17, ReceiptAssumption DEF Undo, RemovePublished, Candidate, Gate,
     Quiet, NoWrapper, WOK, WTypes, GOK, GTypes, DataOK, Receipts, Owns,
     Answers, Early, Unlinked, Publishing, Verified, Passed, Outcomes, Killed
<1>18. CASE UndoTemp
  BY <1>18, ReceiptAssumption DEF UndoTemp, Candidate, Gate, Quiet, NoWrapper,
     WOK, WTypes, GOK, GTypes, DataOK, Receipts, Owns, Answers, Early,
     Unlinked, Publishing, Verified, Passed, Outcomes, Killed
<1>19. CASE Finally
  BY <1>19, ReceiptAssumption DEF Finally, W, Candidate, Gate, Quiet,
     NoWrapper, WOK, WTypes, GOK, GTypes, DataOK, Receipts, Owns, Answers,
     Early, Unlinked, Publishing, Verified, Passed, Outcomes, Killed
<1>20. CASE ClearPublication
  BY <1>20, ReceiptAssumption DEF ClearPublication, Candidate, Gate, Quiet,
     NoWrapper, WOK, WTypes, GOK, GTypes, DataOK, Receipts, Owns, Answers,
     Early, Unlinked, Publishing, Verified, Passed, Outcomes, Killed
<1>21. CASE Return
  BY <1>21, ReceiptAssumption DEF Return, W, Candidate, Gate, Quiet,
     NoWrapper, WOK, WTypes, GOK, GTypes, DataOK, Receipts, Owns, Answers,
     Early, Unlinked, Publishing, Verified, Passed, Outcomes, Killed
<1>22. CASE Unwind
  <2>1. UNCHANGED <<g, receipt, copy, seen, evidence>>
    BY <1>22 DEF Unwind, Gate
  <2>2. /\ w.at = "unwind" /\ w'.at \in {"unwind", "left"} /\ target' \in {target, "absent"}
        /\ w'.group = w.group /\ w'.signal = w.signal /\ w'.code = w.code
    BY <1>22 DEF Unwind, RemovePublished, W, WOK, WTypes
  <2> QED
    BY <2>1, <2>2 DEF Answers, Early, Publishing, Verified, Passed, Outcomes, Killed
<1>23. CASE Workspace
  <2>1. UNCHANGED <<w, target, receipt, copy, seen, evidence>>
    BY <1>23 DEF Workspace, Check, Stops, Gate, Quiet, NoWrapper, Candidate
  <2>2. CASE "snapshot" \in private
    <3>1. /\ g.at = "workspace"
            /\ g'.at = "initial" /\ g'.dir = "made"
            /\ g'.half = g.half /\ g'.run = g.run /\ g'.failed = g.failed /\ g'.code = g.code
      BY <1>23, <2>2 DEF Workspace, Check, Stops, GOK, GTypes
    <3> QED
      BY <2>1, <2>2, <3>1 DEF Answers, Early, Publishing, Verified, Passed, Outcomes, Killed
  <2>3. CASE "snapshot" \notin private
    <3>1. /\ g.at = "workspace"
            /\ g'.at = "exited" /\ g'.code = 70 /\ g'.dir = "none" /\ g'.half = NoHalf
            /\ g'.run = g.run /\ g'.failed = g.failed
      BY <1>23, <2>3 DEF Workspace, Check, Stops, GOK, GTypes
    <3> QED
      BY <2>1, <2>3, <3>1 DEF Answers, Early, Publishing, Verified, Passed, Outcomes, Killed
  <2> QED
    BY <2>2, <2>3
<1>24. CASE Initial
  <2>1. UNCHANGED <<w, target, receipt, copy, seen, evidence>>
    BY <1>24 DEF Initial, GateDigest, Gate, Quiet, NoWrapper, Candidate
  <2>2. CASE g.half = NoHalf
    <3>1. /\ g.at = "initial"
            /\ g'.at = "initial" /\ g'.half = cand.tracked
            /\ g'.run = g.run /\ g'.failed = g.failed /\ g'.dir = g.dir /\ g'.code = g.code
      BY <1>24, <2>2 DEF Initial, GateDigest, GOK, GTypes
    <3> QED
      BY <2>1, <2>2, <3>1 DEF Answers, Early, Publishing, Verified, Passed, Outcomes, Killed
  <2>3. CASE g.half # NoHalf
    <3>1. /\ g.at = "initial"
            /\ g'.at = "validate" /\ g'.half = NoHalf
            /\ g'.run = g.run /\ g'.failed = g.failed /\ g'.dir = g.dir /\ g'.code = g.code
      BY <1>24, <2>3 DEF Initial, GateDigest, GOK, GTypes
    <3> QED
      BY <2>1, <2>3, <3>1 DEF Answers, Early, Publishing, Verified, Passed, Outcomes, Killed
  <2> QED
    BY <2>2, <2>3
<1>25. CASE ValidateEnvelope
  <2>1. UNCHANGED <<w, target, receipt, copy, seen, evidence>>
    BY <1>25 DEF ValidateEnvelope, Check, Finish, G, Gate, Quiet, NoWrapper, Candidate
  <2>2. CASE copy = "invalid"
    <3>1. /\ g.at = "validate"
            /\ g'.at = "final" /\ g'.code = 12 /\ g'.half = NoHalf
            /\ g'.run = g.run /\ g'.failed = g.failed /\ g'.dir = g.dir
      BY <1>25, <2>2 DEF ValidateEnvelope, Check, Finish, G, GOK, GTypes
    <3> QED
      BY <2>1, <2>2, <3>1 DEF Answers, Early, Publishing, Verified, Passed, Outcomes, Killed
  <2>3. CASE copy # "invalid"
    <3>1. /\ g.at = "validate"
            /\ g'.at = "scope"
            /\ g'.half = g.half /\ g'.run = g.run /\ g'.failed = g.failed /\ g'.dir = g.dir /\ g'.code = g.code
      BY <1>25, <2>3 DEF ValidateEnvelope, Check, Finish, G, GOK, GTypes
    <3> QED
      BY <2>1, <2>3, <3>1 DEF Answers, Early, Publishing, Verified, Passed, Outcomes, Killed
  <2> QED
    BY <2>2, <2>3
<1>26. CASE Scope
  <2>1. UNCHANGED <<w, target, receipt, copy, seen, evidence>>
    BY <1>26 DEF Scope, Check, Finish, G, Gate, Quiet, NoWrapper, Candidate
  <2>2. CASE InScope
    <3>1. /\ g.at = "scope"
            /\ g'.at = "claims"
            /\ g'.half = g.half /\ g'.run = g.run /\ g'.failed = g.failed /\ g'.dir = g.dir /\ g'.code = g.code
      BY <1>26, <2>2 DEF Scope, Check, Finish, G, GOK, GTypes
    <3> QED
      BY <2>1, <2>2, <3>1 DEF Answers, Early, Publishing, Verified, Passed, Outcomes, Killed
  <2>3. CASE ~InScope
    <3>1. /\ g.at = "scope"
            /\ g'.at = "final" /\ g'.code = 10 /\ g'.half = NoHalf
            /\ g'.run = g.run /\ g'.failed = g.failed /\ g'.dir = g.dir
      BY <1>26, <2>3 DEF Scope, Check, Finish, G, GOK, GTypes
    <3> QED
      BY <2>1, <2>3, <3>1 DEF Answers, Early, Publishing, Verified, Passed, Outcomes, Killed
  <2> QED
    BY <2>2, <2>3
<1>27. CASE Claims
  <2>1. UNCHANGED <<w, target, receipt, copy, seen, evidence>>
    BY <1>27 DEF Claims, Check, Finish, G, Gate, Quiet, NoWrapper, Candidate
  <2>6. copy \in {"good", "invalid", "escalated", "unchanged", "claims"}
    BY ReceiptAssumption DEF DataOK, Kinds
  <2>2. CASE copy = "escalated"
    <3>1. /\ g.at = "claims"
            /\ g'.at = "final" /\ g'.code = 15 /\ g'.half = NoHalf
            /\ g'.run = g.run /\ g'.failed = g.failed /\ g'.dir = g.dir
      BY <1>27, <2>2 DEF Claims, Check, Finish, G, GOK, GTypes
    <3> QED
      BY <2>1, <2>2, <3>1, <2>6 DEF Answers, Early, Publishing, Verified, Passed, Outcomes, Killed
  <2>3. CASE copy = "unchanged"
    <3>1. /\ g.at = "claims"
            /\ g'.at = "final" /\ g'.code = 13 /\ g'.half = NoHalf
            /\ g'.run = g.run /\ g'.failed = g.failed /\ g'.dir = g.dir
      BY <1>27, <2>3 DEF Claims, Check, Finish, G, GOK, GTypes
    <3> QED
      BY <2>1, <2>3, <3>1, <2>6 DEF Answers, Early, Publishing, Verified, Passed, Outcomes, Killed
  <2>4. CASE copy = "claims"
    <3>1. /\ g.at = "claims"
            /\ g'.at = "final" /\ g'.code = 11 /\ g'.half = NoHalf
            /\ g'.run = g.run /\ g'.failed = g.failed /\ g'.dir = g.dir
      BY <1>27, <2>4 DEF Claims, Check, Finish, G, GOK, GTypes
    <3> QED
      BY <2>1, <2>4, <3>1, <2>6 DEF Answers, Early, Publishing, Verified, Passed, Outcomes, Killed
  <2>5. CASE copy \notin {"escalated", "unchanged", "claims"}
    <3>1. /\ g.at = "claims"
            /\ g'.at = "before"
            /\ g'.half = g.half /\ g'.run = g.run /\ g'.failed = g.failed /\ g'.dir = g.dir /\ g'.code = g.code
      BY <1>27, <2>5 DEF Claims, Check, Finish, G, GOK, GTypes
    <3> QED
      BY <2>1, <2>5, <3>1, <2>6 DEF Answers, Early, Publishing, Verified, Passed, Outcomes, Killed
  <2> QED
    BY <2>2, <2>3, <2>4, <2>5
<1>28. CASE Before
  <2>1. UNCHANGED <<w, target, receipt, copy, seen, evidence>>
    BY <1>28 DEF Before, GateDigest, Gate, Quiet, NoWrapper, Candidate
  <2>2. CASE g.half = NoHalf
    <3>1. /\ g.at = "before"
            /\ g'.at = "before" /\ g'.half = cand.tracked
            /\ g'.run = g.run /\ g'.failed = g.failed /\ g'.dir = g.dir /\ g'.code = g.code
      BY <1>28, <2>2 DEF Before, GateDigest, GOK, GTypes
    <3> QED
      BY <2>1, <2>2, <3>1 DEF Answers, Early, Publishing, Verified, Passed, Outcomes, Killed
  <2>3. CASE g.half # NoHalf
    <3>1. /\ g.at = "before"
            /\ g'.at = "ready" /\ g'.half = NoHalf
            /\ g'.run = g.run /\ g'.failed = g.failed /\ g'.dir = g.dir /\ g'.code = g.code
      BY <1>28, <2>3 DEF Before, GateDigest, GOK, GTypes
    <3> QED
      BY <2>1, <2>3, <3>1 DEF Answers, Early, Publishing, Verified, Passed, Outcomes, Killed
  <2> QED
    BY <2>2, <2>3
<1>29. CASE RunVerifier
  BY <1>29, ReceiptAssumption DEF RunVerifier, G, Candidate, Gate, Quiet,
     NoWrapper, WOK, WTypes, GOK, GTypes, DataOK, Receipts, Owns, Answers,
     Early, Unlinked, Publishing, Verified, Passed, Outcomes, Killed
<1>30. CASE VerifierEnds
  BY <1>30, ReceiptAssumption DEF VerifierEnds, Check, Candidate, Gate, Quiet,
     NoWrapper, WOK, WTypes, GOK, GTypes, DataOK, Receipts, Owns, Answers,
     Early, Unlinked, Publishing, Verified, Passed, Outcomes, Killed
<1>31. CASE After
  <2>1. UNCHANGED <<w, target, receipt, copy, seen, evidence>>
    BY <1>31 DEF After, GateDigest, Gate, Quiet, NoWrapper, Candidate
  <2>2. CASE g.half = NoHalf
    <3>1. /\ g.at = "after"
            /\ g'.at = "after" /\ g'.half = cand.tracked
            /\ g'.run = g.run /\ g'.failed = g.failed /\ g'.dir = g.dir /\ g'.code = g.code
      BY <1>31, <2>2 DEF After, GateDigest, GOK, GTypes
    <3> QED
      BY <2>1, <2>2, <3>1 DEF Answers, Early, Publishing, Verified, Passed, Outcomes, Killed
  <2>3. CASE g.half # NoHalf
    <3>1. /\ g.at = "after"
            /\ g'.at = "compare" /\ g'.half = NoHalf
            /\ g'.run = g.run /\ g'.failed = g.failed /\ g'.dir = g.dir /\ g'.code = g.code
      BY <1>31, <2>3 DEF After, GateDigest, GOK, GTypes
    <3> QED
      BY <2>1, <2>3, <3>1 DEF Answers, Early, Publishing, Verified, Passed, Outcomes, Killed
  <2> QED
    BY <2>2, <2>3
<1>32. CASE Compare
  <2>1. UNCHANGED <<w, target, receipt, copy, seen, evidence>>
    BY <1>32 DEF Compare, Check, Finish, G, Gate, Quiet, NoWrapper, Candidate
  <2>2. CASE snap["before"] # snap["after"] \/ g.failed = "yes"
    <3>1. /\ g.at = "compare"
            /\ g'.at = "final" /\ g'.code = 14 /\ g'.half = NoHalf
            /\ g'.run = g.run /\ g'.failed = g.failed /\ g'.dir = g.dir
      BY <1>32, <2>2 DEF Compare, Check, Finish, G, GOK, GTypes
    <3> QED
      BY <2>1, <2>2, <3>1 DEF Answers, Early, Publishing, Verified, Passed, Outcomes, Killed
  <2>3. CASE ~(snap["before"] # snap["after"] \/ g.failed = "yes")
    <3>1. /\ g.at = "compare"
            /\ g'.at = "rescope"
            /\ g'.half = g.half /\ g'.run = g.run /\ g'.failed = g.failed /\ g'.dir = g.dir /\ g'.code = g.code
      BY <1>32, <2>3 DEF Compare, Check, Finish, G, GOK, GTypes
    <3>2. g.failed = "no"
      BY <2>3 DEF GOK, GTypes
    <3> QED
      BY <2>1, <3>1, <3>2 DEF Answers, Early, Publishing, Verified, Passed, Outcomes, Killed
  <2> QED
    BY <2>2, <2>3
<1>33. CASE Rescope
  BY <1>33, ReceiptAssumption DEF Rescope, Check, Finish, Candidate, Gate,
     Quiet, NoWrapper, WOK, WTypes, GOK, GTypes, DataOK, Receipts, Owns,
     Answers, Early, Unlinked, Publishing, Verified, Passed, Outcomes, Killed
<1>34. CASE Final
  <2>1. UNCHANGED <<w, target, receipt, copy, seen, evidence>>
    BY <1>34 DEF Final, GateDigest, Gate, Quiet, NoWrapper, Candidate
  <2>2. CASE g.half = NoHalf
    <3>1. /\ g.at = "final"
            /\ g'.at = "final" /\ g'.half = cand.tracked
            /\ g'.run = g.run /\ g'.failed = g.failed /\ g'.dir = g.dir /\ g'.code = g.code
      BY <1>34, <2>2 DEF Final, GateDigest, GOK, GTypes
    <3> QED
      BY <2>1, <2>2, <3>1 DEF Answers, Early, Publishing, Verified, Passed, Outcomes, Killed
  <2>3. CASE g.half # NoHalf
    <3>1. /\ g.at = "final"
            /\ g'.at = "emit" /\ g'.half = NoHalf
            /\ g'.run = g.run /\ g'.failed = g.failed /\ g'.dir = g.dir /\ g'.code = g.code
      BY <1>34, <2>3 DEF Final, GateDigest, GOK, GTypes
    <3> QED
      BY <2>1, <2>3, <3>1 DEF Answers, Early, Publishing, Verified, Passed, Outcomes, Killed
  <2> QED
    BY <2>2, <2>3
<1>35. CASE Emit
  BY <1>35, ReceiptAssumption DEF Emit, G, Candidate, Gate, Quiet, NoWrapper,
     WOK, WTypes, GOK, GTypes, DataOK, Receipts, Owns, Answers, Early,
     Unlinked, Publishing, Verified, Passed, Outcomes, Killed
<1>36. CASE Clean
  BY <1>36, ReceiptAssumption DEF Clean, Check, Stops, Candidate, Gate, Quiet,
     NoWrapper, WOK, WTypes, GOK, GTypes, DataOK, Receipts, Owns, Answers,
     Early, Unlinked, Publishing, Verified, Passed, Outcomes, Killed
<1>37. CASE Signal
  <2>1. UNCHANGED <<target, receipt, copy, seen, evidence>>
    BY <1>37 DEF Signal, Gate, GateDies, Quiet
  <2>2. /\ w.at \notin {"none", "unwind", "left"} /\ w'.at = "unwind"
        /\ w'.code = 70 /\ w'.signal = Moment
    BY <1>37 DEF Signal, Running, WOK, WTypes
  <2>3. w.at = "adopt" => Moment = "early"
    BY DEF Moment
  <2>4. w.code # Killed
    BY <2>2 DEF Owns
  <2>5. \/ UNCHANGED g /\ ~(w.group = "known" /\ Alive)
        \/ /\ Alive /\ g'.at = "exited" /\ g'.code = Killed
           /\ g'.failed = g.failed /\ g'.run = g.run
    BY <1>37 DEF Signal, Gate, GateDies, GOK, GTypes
  <2>6. CASE UNCHANGED g /\ ~(w.group = "known" /\ Alive)
    <3>1. ~Alive \/ w.at = "adopt"
      BY <2>4, <2>6, <2>2 DEF Answers, Alive
    <3> QED
      BY <2>1, <2>2, <2>3, <2>4, <2>6, <3>1 DEF Alive, Answers, Early, Publishing, Verified, Passed, Outcomes, Killed
  <2>7. CASE /\ Alive /\ g'.at = "exited" /\ g'.code = Killed
             /\ g'.failed = g.failed /\ g'.run = g.run
    BY <2>1, <2>2, <2>7 DEF Alive, Answers, Early, Publishing, Verified, Passed, Outcomes, Killed
  <2> QED
    BY <2>5, <2>6, <2>7
<1>38. CASE Kill
  BY <1>38, ReceiptAssumption DEF Kill, Fault, Candidate, Gate, Quiet,
     NoWrapper, WOK, WTypes, GOK, GTypes, DataOK, Receipts, Owns, Answers,
     Early, Unlinked, Publishing, Verified, Passed, Outcomes, Killed
<1>39. CASE CallFails
  <2>1. UNCHANGED <<g, target, receipt, copy, seen, evidence>>
    BY <1>39 DEF CallFails, Gate
  <2>2. PICK c \in {1, 64, 70, 74}, p \in {"left", "finally", "undo"} :
          /\ Fail(c, p)
          /\ p = "left" => w.at = "validate"
          /\ p = "finally" => w.at \in {"copy", "handoff", "spawn", "temp", "register"}
          /\ p = "undo" => w.at \in {"register", "link", "linked", "tidy"}
    BY <1>39 DEF CallFails
  <2>3. /\ w'.at = p /\ w'.code = c /\ w'.group = w.group /\ w'.signal = w.signal
        /\ c # Killed
    BY <2>2 DEF Fail, WOK, WTypes, Killed
  <2>4. w.code # Killed
    BY <2>2 DEF Owns
  <2> QED
    BY <2>1, <2>2, <2>3, <2>4 DEF Answers, Early, Publishing, Verified, Passed, Outcomes, Killed
<1>40. CASE GateFails
  <2>1. UNCHANGED <<w, target, receipt, copy, seen, evidence>>
    BY <1>40 DEF GateFails, NoWrapper
  <2>2. CASE \E c \in {64, 70} : Stops(c)
    <3>1. /\ g.at \notin {"none", "exited", "clean"} /\ g'.at = "exited"
          /\ g'.failed = g.failed /\ g'.run = g.run
      BY <1>40, <2>2 DEF GateFails, Stops, Finish, GOK, GTypes
    <3> QED
      BY <2>1, <3>1 DEF Answers, Early, Publishing, Verified, Passed, Outcomes, Killed
  <2>3. CASE \E c \in {10, 14} : Finish(c)
    <3>1. /\ g.at \notin {"none", "exited", "clean"} /\ g'.at = "final"
          /\ g'.failed = g.failed /\ g'.run = g.run /\ g'.code \in {10, 14}
      BY <1>40, <2>3 DEF GateFails, Stops, Finish, GOK, GTypes
    <3> QED
      BY <2>1, <3>1 DEF Answers, Early, Publishing, Verified, Passed, Outcomes, Killed
  <2> QED
    BY <1>40, <2>2, <2>3 DEF GateFails
<1>41. CASE GateKilled
  BY <1>41, ReceiptAssumption DEF GateKilled, Alive, Fault, GateDies,
     Candidate, Gate, Quiet, NoWrapper, WOK, WTypes, GOK, GTypes, DataOK,
     Receipts, Owns, Answers, Early, Unlinked, Publishing, Verified, Passed,
     Outcomes, Killed
<1>42. ASSUME NEW p \in {"tracked", "untracked"}, Edit(p) PROVE Answers'
  BY <1>42, ReceiptAssumption DEF Edit, Write, Candidate, Gate, Quiet, NoWrapper,
     WOK, WTypes, GOK, GTypes, DataOK, Receipts, Owns, Answers, Early,
     Unlinked, Publishing, Verified, Passed, Outcomes, Killed
<1>43. CASE EditEnvelope
  BY <1>43, ReceiptAssumption DEF EditEnvelope, Candidate, Gate, Quiet,
     NoWrapper, WOK, WTypes, GOK, GTypes, DataOK, Receipts, Owns, Answers,
     Early, Unlinked, Publishing, Verified, Passed, Outcomes, Killed
<1>44. CASE Occupy
  BY <1>44, ReceiptAssumption DEF Occupy, Fault, Candidate, Gate, Quiet,
     NoWrapper, WOK, WTypes, GOK, GTypes, DataOK, Receipts, Owns, Answers,
     Early, Unlinked, Publishing, Verified, Passed, Outcomes, Killed
<1>45. CASE UNCHANGED vars
  BY <1>45, ReceiptAssumption DEF vars, Gate, Candidate, WOK, WTypes, GOK,
     GTypes, DataOK, Receipts, Owns, Answers, Early, Unlinked, Publishing,
     Verified, Passed, Outcomes, Killed
<1>46. ASSUME NEW p \in {"tracked", "untracked"}, Restore(p) PROVE Answers'
  BY <1>46, ReceiptAssumption DEF Restore, Write, Candidate, Gate, Quiet, NoWrapper,
     WOK, WTypes, GOK, GTypes, DataOK, Receipts, Owns, Answers, Early,
     Unlinked, Publishing, Verified, Passed, Outcomes, Killed
<1> QED
  BY <1>1, <1>2, <1>3, <1>4, <1>5, <1>6, <1>7, <1>8, <1>9, <1>10, <1>11,
     <1>12, <1>13, <1>14, <1>15, <1>16, <1>17, <1>18, <1>19, <1>20, <1>21,
     <1>22, <1>23, <1>24, <1>25, <1>26, <1>27, <1>28, <1>29, <1>30, <1>31,
     <1>32, <1>33, <1>34, <1>35, <1>36, <1>37, <1>38, <1>39, <1>40, <1>41,
     <1>42, <1>43, <1>44, <1>45, <1>46 DEF Next, CallerStep, WrapperStep, GateStep

\* Until a content is put back, an edit only moves the candidate up.
LEMMA EditGrows ==
  ASSUME DataOK, undone = "no", NEW p \in {"tracked", "untracked"}, Edit(p)
  PROVE  /\ cand.tracked \in Nat /\ cand.untracked \in Nat
         /\ cand'.tracked \in Nat /\ cand'.untracked \in Nat
         /\ cand.tracked <= cand'.tracked /\ cand.untracked <= cand'.untracked
<1>1. cand = newest /\ cand \in [tracked : Contents, untracked : Contents]
  BY DEF DataOK
<1>2. cand' = [cand EXCEPT ![p] = cand[p] + 1]
  BY <1>1 DEF Edit, Write
<1> QED
  BY <1>1, <1>2, ReceiptAssumption DEF Contents

\* Every action keeps what was verified between the digests.
LEMMA BetweenStep ==
  ASSUME WOK, GOK, DataOK, Answers, Between, [Next]_vars
  PROVE  Between'
<1>1. CASE Capture
  <2>1. UNCHANGED <<cand, undone, seen, g, evidence>>
    BY <1>1 DEF Capture, CallerDigest, Gate, Candidate
  <2>2. snap'["initial"] = snap["initial"] /\ snap'["final"] = snap["final"]
    BY <1>1 DEF Capture, CallerDigest, DataOK, Snaps, Digests
  <2> QED
    BY <2>1, <2>2 DEF Between, Growing, Le
<1>2. CASE CallVerify
  BY <1>2, ReceiptAssumption DEF CallVerify, W, Candidate, Gate, Quiet,
     NoWrapper, GOK, GTypes, DataOK, Snaps, Answers, Between, Growing, Le, Early
<1>3. CASE Judge
  BY <1>3, ReceiptAssumption DEF Judge, Candidate, Gate, Quiet, NoWrapper,
     GOK, GTypes, DataOK, Snaps, Answers, Between, Growing, Le, Early
<1>4. CASE Recheck
  <2>1. UNCHANGED <<cand, undone, seen, g, evidence>>
    BY <1>4 DEF Recheck, CallerDigest, Gate, Candidate
  <2>2. snap'["initial"] = snap["initial"] /\ snap'["final"] = snap["final"]
    BY <1>4 DEF Recheck, CallerDigest, DataOK, Snaps, Digests
  <2> QED
    BY <2>1, <2>2 DEF Between, Growing, Le
<1>5. CASE Decide
  BY <1>5, ReceiptAssumption DEF Decide, Candidate, Gate, Quiet, NoWrapper,
     GOK, GTypes, DataOK, Snaps, Answers, Between, Growing, Le, Early
<1>6. CASE Validate
  BY <1>6, ReceiptAssumption DEF Validate, W, Fail, Candidate, Gate, Quiet,
     NoWrapper, GOK, GTypes, DataOK, Snaps, Answers, Between, Growing, Le, Early
<1>7. CASE CopyEnvelope
  BY <1>7, ReceiptAssumption DEF CopyEnvelope, Make, Candidate, Gate, Quiet,
     NoWrapper, GOK, GTypes, DataOK, Snaps, Answers, Between, Growing, Le, Early
<1>8. CASE MakeHandoff
  BY <1>8, ReceiptAssumption DEF MakeHandoff, Make, Candidate, Gate, Quiet,
     NoWrapper, GOK, GTypes, DataOK, Snaps, Answers, Between, Growing, Le, Early
<1>9. CASE Spawn
  BY <1>9, ReceiptAssumption DEF Spawn, W, Candidate, Gate, Quiet, NoWrapper,
     GOK, GTypes, DataOK, Snaps, Answers, Between, Growing, Le, Early
<1>10. CASE Adopt
  BY <1>10, ReceiptAssumption DEF Adopt, Candidate, Gate, Quiet, NoWrapper,
     GOK, GTypes, DataOK, Snaps, Answers, Between, Growing, Le, Early
<1>11. CASE Answer
  BY <1>11, ReceiptAssumption DEF Answer, Candidate, Gate, Quiet, NoWrapper,
     GOK, GTypes, DataOK, Snaps, Answers, Between, Growing, Le, Early
<1>12. CASE WriteTemp
  BY <1>12, ReceiptAssumption DEF WriteTemp, Make, Candidate, Gate, Quiet,
     NoWrapper, GOK, GTypes, DataOK, Snaps, Answers, Between, Growing, Le, Early
<1>13. CASE Register
  BY <1>13, ReceiptAssumption DEF Register, Candidate, Gate, Quiet, NoWrapper,
     GOK, GTypes, DataOK, Snaps, Answers, Between, Growing, Le, Early
<1>14. CASE Link
  BY <1>14, ReceiptAssumption DEF Link, W, Fail, Candidate, Gate, Quiet,
     NoWrapper, GOK, GTypes, DataOK, Snaps, Answers, Between, Growing, Le, Early
<1>15. CASE UnlinkTemp
  BY <1>15, ReceiptAssumption DEF UnlinkTemp, Candidate, Gate, Quiet,
     NoWrapper, GOK, GTypes, DataOK, Snaps, Answers, Between, Growing, Le, Early
<1>16. CASE Synced
  BY <1>16, ReceiptAssumption DEF Synced, Fail, Candidate, Gate, Quiet,
     NoWrapper, GOK, GTypes, DataOK, Snaps, Answers, Between, Growing, Le, Early
<1>17. CASE Undo
  BY <1>17, ReceiptAssumption DEF Undo, RemovePublished, Candidate, Gate,
     Quiet, NoWrapper, GOK, GTypes, DataOK, Snaps, Answers, Between, Growing, Le, Early
<1>18. CASE UndoTemp
  BY <1>18, ReceiptAssumption DEF UndoTemp, Candidate, Gate, Quiet, NoWrapper,
     GOK, GTypes, DataOK, Snaps, Answers, Between, Growing, Le, Early
<1>19. CASE Finally
  BY <1>19, ReceiptAssumption DEF Finally, W, Candidate, Gate, Quiet,
     NoWrapper, GOK, GTypes, DataOK, Snaps, Answers, Between, Growing, Le, Early
<1>20. CASE ClearPublication
  BY <1>20, ReceiptAssumption DEF ClearPublication, Candidate, Gate, Quiet,
     NoWrapper, GOK, GTypes, DataOK, Snaps, Answers, Between, Growing, Le, Early
<1>21. CASE Return
  BY <1>21, ReceiptAssumption DEF Return, W, Candidate, Gate, Quiet,
     NoWrapper, GOK, GTypes, DataOK, Snaps, Answers, Between, Growing, Le, Early
<1>22. CASE Unwind
  BY <1>22, ReceiptAssumption DEF Unwind, RemovePublished, W, Candidate, Gate,
     Quiet, NoWrapper, GOK, GTypes, DataOK, Snaps, Answers, Between, Growing, Le, Early
<1>23. CASE Workspace
  <2>1. UNCHANGED <<cand, undone, seen, snap, evidence>>
    BY <1>23 DEF Workspace, Check, Stops, Gate, Quiet, NoWrapper, Candidate
  <2>2. CASE "snapshot" \in private
    <3>1. /\ g.at = "workspace"
            /\ g'.at = "initial" /\ g'.half = g.half
      BY <1>23, <2>2 DEF Workspace, Check, Stops, GOK, GTypes
    <3> QED
      BY <2>1, <2>2, <3>1 DEF Between, Growing, Le
  <2>3. CASE "snapshot" \notin private
    <3>1. /\ g.at = "workspace"
            /\ g'.at = "exited" /\ g'.half = NoHalf
      BY <1>23, <2>3 DEF Workspace, Check, Stops, GOK, GTypes
    <3> QED
      BY <2>1, <2>3, <3>1 DEF Between, Growing, Le
  <2> QED
    BY <2>2, <2>3
<1>24. CASE Initial
  <2>1. UNCHANGED <<cand, undone, seen, evidence>>
    BY <1>24 DEF Initial, GateDigest, NoWrapper, Candidate
  <2>2. cand.tracked \in Nat /\ cand.untracked \in Nat /\ NoHalf \in Nat
    BY ReceiptAssumption DEF DataOK, Contents, NoHalf
  <2>3. \A s \in seen : s.tracked \in Nat /\ s.untracked \in Nat
    BY DEF DataOK, Parts
  <2>4. CASE g.half = NoHalf
    <3>1. g.at = "initial" /\ g'.at = "initial" /\ g'.half = cand.tracked /\ UNCHANGED snap
      BY <1>24, <2>4 DEF Initial, GateDigest, GOK, GTypes
    <3> QED
      BY <2>1, <2>2, <2>3, <2>4, <3>1 DEF Between, Growing, Le
  <2>5. CASE g.half # NoHalf
    <3>1. g.at = "initial" /\ g'.at = "validate" /\ g'.half = NoHalf
      BY <1>24, <2>5 DEF Initial, GateDigest, GOK, GTypes
    <3>2. snap'["initial"].tracked = g.half /\ snap'["initial"].untracked = cand.untracked
      BY <1>24, <2>5 DEF Initial, GateDigest, Whole, DataOK, Snaps, Digests
    <3>3. evidence.exit = 70
      BY <3>1 DEF Answers
    <3> QED
      BY <2>1, <2>2, <2>3, <2>5, <3>1, <3>2, <3>3 DEF Between, Growing, Le
  <2> QED
    BY <2>4, <2>5
<1>25. CASE ValidateEnvelope
  <2>1. UNCHANGED <<cand, undone, seen, snap, evidence>>
    BY <1>25 DEF ValidateEnvelope, Check, Finish, G, Gate, Quiet, NoWrapper, Candidate
  <2>2. CASE copy = "invalid"
    <3>1. /\ g.at = "validate"
            /\ g'.at = "final" /\ g'.half = NoHalf
      BY <1>25, <2>2 DEF ValidateEnvelope, Check, Finish, G, GOK, GTypes
    <3> QED
      BY <2>1, <2>2, <3>1 DEF Between, Growing, Le
  <2>3. CASE copy # "invalid"
    <3>1. /\ g.at = "validate"
            /\ g'.at = "scope" /\ g'.half = g.half
      BY <1>25, <2>3 DEF ValidateEnvelope, Check, Finish, G, GOK, GTypes
    <3> QED
      BY <2>1, <2>3, <3>1 DEF Between, Growing, Le
  <2> QED
    BY <2>2, <2>3
<1>26. CASE Scope
  <2>1. UNCHANGED <<cand, undone, seen, snap, evidence>>
    BY <1>26 DEF Scope, Check, Finish, G, Gate, Quiet, NoWrapper, Candidate
  <2>2. CASE InScope
    <3>1. /\ g.at = "scope"
            /\ g'.at = "claims"
            /\ g'.half = g.half
      BY <1>26, <2>2 DEF Scope, Check, Finish, G, GOK, GTypes
    <3> QED
      BY <2>1, <2>2, <3>1 DEF Between, Growing, Le
  <2>3. CASE ~InScope
    <3>1. /\ g.at = "scope"
            /\ g'.at = "final" /\ g'.half = NoHalf
      BY <1>26, <2>3 DEF Scope, Check, Finish, G, GOK, GTypes
    <3> QED
      BY <2>1, <2>3, <3>1 DEF Between, Growing, Le
  <2> QED
    BY <2>2, <2>3
<1>27. CASE Claims
  <2>1. UNCHANGED <<cand, undone, seen, snap, evidence>>
    BY <1>27 DEF Claims, Check, NoWrapper, Candidate
  <2>2. /\ g.at = "claims" /\ g'.half \in {g.half, NoHalf}
        /\ \/ g'.at = "final" /\ g'.half = NoHalf
           \/ g'.at = "before"
    BY <1>27 DEF Claims, Check, Finish, G, GOK, GTypes
  <2> QED
    BY <2>1, <2>2 DEF Between, Growing, Le
<1>28. CASE Before
  <2>1. UNCHANGED <<cand, undone, seen, evidence>>
    BY <1>28 DEF Before, GateDigest, NoWrapper, Candidate
  <2>2. cand.tracked \in Nat /\ cand.untracked \in Nat /\ NoHalf \in Nat
    BY ReceiptAssumption DEF DataOK, Contents, NoHalf
  <2>3. \A s \in seen : s.tracked \in Nat /\ s.untracked \in Nat
    BY DEF DataOK, Parts
  <2>4. CASE g.half = NoHalf
    <3>1. g.at = "before" /\ g'.at = "before" /\ g'.half = cand.tracked /\ UNCHANGED snap
      BY <1>28, <2>4 DEF Before, GateDigest, GOK, GTypes
    <3> QED
      BY <2>1, <2>2, <2>3, <2>4, <3>1 DEF Between, Growing, Le
  <2>5. CASE g.half # NoHalf
    <3>1. g.at = "before" /\ g'.at = "ready" /\ g'.half = NoHalf
      BY <1>28, <2>5 DEF Before, GateDigest, GOK, GTypes
    <3>2. snap'["initial"] = snap["initial"] /\ snap'["final"] = snap["final"]
      BY <1>28, <2>5 DEF Before, GateDigest, Whole, DataOK, Snaps, Digests
    <3>3. evidence.exit = 70
      BY <3>1 DEF Answers
    <3> QED
      BY <2>1, <2>2, <2>3, <2>5, <3>1, <3>2, <3>3 DEF Between, Growing, Le
  <2> QED
    BY <2>4, <2>5
<1>29. CASE RunVerifier
  <2>1. UNCHANGED <<cand, undone, snap, evidence>>
    BY <1>29 DEF RunVerifier, NoWrapper, Candidate
  <2>2. /\ g.at = "ready" /\ g'.at \in {"after", "running"} /\ g'.half = g.half
        /\ seen' \in {seen, seen \cup {cand}}
    BY <1>29 DEF RunVerifier, G, GOK, GTypes
  <2>3. evidence.exit = 70 /\ (undone = "no" => Le(snap["initial"], cand))
    BY <2>2 DEF Between, Growing, Answers
  <2>4. Le(cand, cand)
    BY ReceiptAssumption DEF Le, DataOK, Contents
  <2> QED
    BY <2>1, <2>2, <2>3, <2>4 DEF Between, Growing
<1>30. CASE VerifierEnds
  BY <1>30, ReceiptAssumption DEF VerifierEnds, Check, Candidate, Gate, Quiet,
     NoWrapper, GOK, GTypes, DataOK, Snaps, Answers, Between, Growing, Le, Early
<1>31. CASE After
  <2>1. UNCHANGED <<cand, undone, seen, evidence>>
    BY <1>31 DEF After, GateDigest, NoWrapper, Candidate
  <2>2. cand.tracked \in Nat /\ cand.untracked \in Nat /\ NoHalf \in Nat
    BY ReceiptAssumption DEF DataOK, Contents, NoHalf
  <2>3. \A s \in seen : s.tracked \in Nat /\ s.untracked \in Nat
    BY DEF DataOK, Parts
  <2>4. CASE g.half = NoHalf
    <3>1. g.at = "after" /\ g'.at = "after" /\ g'.half = cand.tracked /\ UNCHANGED snap
      BY <1>31, <2>4 DEF After, GateDigest, GOK, GTypes
    <3> QED
      BY <2>1, <2>2, <2>3, <2>4, <3>1 DEF Between, Growing, Le
  <2>5. CASE g.half # NoHalf
    <3>1. g.at = "after" /\ g'.at = "compare" /\ g'.half = NoHalf
      BY <1>31, <2>5 DEF After, GateDigest, GOK, GTypes
    <3>2. snap'["initial"] = snap["initial"] /\ snap'["final"] = snap["final"]
      BY <1>31, <2>5 DEF After, GateDigest, Whole, DataOK, Snaps, Digests
    <3>3. evidence.exit = 70
      BY <3>1 DEF Answers
    <3> QED
      BY <2>1, <2>2, <2>3, <2>5, <3>1, <3>2, <3>3 DEF Between, Growing, Le
  <2> QED
    BY <2>4, <2>5
<1>32. CASE Compare
  <2>1. UNCHANGED <<cand, undone, seen, snap, evidence>>
    BY <1>32 DEF Compare, Check, Finish, G, Gate, Quiet, NoWrapper, Candidate
  <2>2. CASE snap["before"] # snap["after"] \/ g.failed = "yes"
    <3>1. /\ g.at = "compare"
            /\ g'.at = "final" /\ g'.half = NoHalf
      BY <1>32, <2>2 DEF Compare, Check, Finish, G, GOK, GTypes
    <3> QED
      BY <2>1, <2>2, <3>1 DEF Between, Growing, Le
  <2>3. CASE ~(snap["before"] # snap["after"] \/ g.failed = "yes")
    <3>1. /\ g.at = "compare"
            /\ g'.at = "rescope"
            /\ g'.half = g.half
      BY <1>32, <2>3 DEF Compare, Check, Finish, G, GOK, GTypes
    <3> QED
      BY <2>1, <2>3, <3>1 DEF Between, Growing, Le
  <2> QED
    BY <2>2, <2>3
<1>33. CASE Rescope
  BY <1>33, ReceiptAssumption DEF Rescope, Check, Finish, Candidate, Gate,
     Quiet, NoWrapper, GOK, GTypes, DataOK, Snaps, Answers, Between, Growing, Le, Early
<1>34. CASE Final
  <2>1. UNCHANGED <<cand, undone, seen, evidence>>
    BY <1>34 DEF Final, GateDigest, NoWrapper, Candidate
  <2>2. cand.tracked \in Nat /\ cand.untracked \in Nat /\ NoHalf \in Nat
    BY ReceiptAssumption DEF DataOK, Contents, NoHalf
  <2>3. \A s \in seen : s.tracked \in Nat /\ s.untracked \in Nat
    BY DEF DataOK, Parts
  <2>4. CASE g.half = NoHalf
    <3>1. g.at = "final" /\ g'.at = "final" /\ g'.half = cand.tracked /\ UNCHANGED snap
      BY <1>34, <2>4 DEF Final, GateDigest, GOK, GTypes
    <3> QED
      BY <2>1, <2>2, <2>3, <2>4, <3>1 DEF Between, Growing, Le
  <2>5. CASE g.half # NoHalf
    <3>1. g.at = "final" /\ g'.at = "emit" /\ g'.half = NoHalf
      BY <1>34, <2>5 DEF Final, GateDigest, GOK, GTypes
    <3>2. /\ snap'["final"].tracked = g.half /\ snap'["final"].untracked = cand.untracked
          /\ snap'["initial"] = snap["initial"]
      BY <1>34, <2>5 DEF Final, GateDigest, Whole, DataOK, Snaps, Digests
    <3>3. evidence.exit = 70
      BY <3>1 DEF Answers
    <3> QED
      BY <2>1, <2>2, <2>3, <2>5, <3>1, <3>2, <3>3 DEF Between, Growing, Le
  <2> QED
    BY <2>4, <2>5
<1>35. CASE Emit
  BY <1>35, ReceiptAssumption DEF Emit, G, Candidate, Gate, Quiet, NoWrapper,
     GOK, GTypes, DataOK, Snaps, Answers, Between, Growing, Le, Early
<1>36. CASE Clean
  BY <1>36, ReceiptAssumption DEF Clean, Check, Stops, Candidate, Gate, Quiet,
     NoWrapper, GOK, GTypes, DataOK, Snaps, Answers, Between, Growing, Le, Early
<1>37. CASE Signal
  <2>1. UNCHANGED <<cand, undone, seen, snap, evidence>>
    BY <1>37 DEF Signal, Quiet, Candidate, Gate, GateDies
  <2>2. \/ g' = g
        \/ Alive /\ g'.at = "exited" /\ g'.half = NoHalf
    BY <1>37 DEF Signal, Gate, GateDies, GOK, GTypes
  <2> QED
    BY <2>1, <2>2 DEF Alive, Between, Growing, Le
<1>38. CASE Kill
  BY <1>38, ReceiptAssumption DEF Kill, Fault, Candidate, Gate, Quiet,
     NoWrapper, GOK, GTypes, DataOK, Snaps, Answers, Between, Growing, Le, Early
<1>39. CASE CallFails
  BY <1>39, ReceiptAssumption DEF CallFails, Fault, Fail, Candidate, Gate,
     Quiet, NoWrapper, GOK, GTypes, DataOK, Snaps, Answers, Between, Growing, Le, Early
<1>40. CASE GateFails
  <2>1. UNCHANGED <<cand, undone, seen, snap, evidence>>
    BY <1>40 DEF GateFails, NoWrapper, Candidate
  <2>2. /\ g.at \notin {"none", "exited"} /\ g'.half = NoHalf
        /\ \/ g'.at = "exited"
           \/ g'.at = "final" /\ g.at \notin {"workspace", "initial", "final", "emit", "clean"}
    BY <1>40 DEF GateFails, Stops, Finish, GOK, GTypes
  <2> QED
    BY <2>1, <2>2 DEF Between, Growing, Le
<1>41. CASE GateKilled
  BY <1>41, ReceiptAssumption DEF GateKilled, Alive, Fault, GateDies,
     Candidate, Gate, Quiet, NoWrapper, GOK, GTypes, DataOK, Snaps, Answers,
     Between, Growing, Le, Early
<1>42. ASSUME NEW p \in {"tracked", "untracked"}, Edit(p) PROVE Between'
  <2>1. UNCHANGED <<g, snap, evidence, undone>>
    BY <1>42 DEF Edit, Write
  <2>2. /\ seen' = IF g.at = "running" THEN seen \cup {cand'} ELSE seen
        /\ g.at \in {"none", "workspace", "initial"} => seen' = {}
    BY <1>42 DEF Edit, Write, Between
  <2>3. ASSUME undone = "no" PROVE Growing'
    <3>1. /\ cand.tracked \in Nat /\ cand.untracked \in Nat
          /\ cand'.tracked \in Nat /\ cand'.untracked \in Nat
          /\ cand.tracked <= cand'.tracked /\ cand.untracked <= cand'.untracked
      BY <1>42, <2>3, EditGrows
    <3>2. /\ snap["initial"].tracked \in Nat /\ snap["initial"].untracked \in Nat
          /\ \A s \in seen : s.tracked \in Nat /\ s.untracked \in Nat
      BY DEF DataOK, Snaps, Digests, Parts
    <3>3. Le(snap["initial"], cand) => Le(snap["initial"], cand')
      BY <3>1, <3>2 DEF Le
    <3>4. \A s \in seen : Le(s, cand) => Le(s, cand')
      BY <3>1, <3>2 DEF Le
    <3>5. Le(cand', cand')
      BY <3>1 DEF Le
    <3>6. Growing
      BY <2>3 DEF Between
    <3>7. CASE g.at = "running"
      <4>1. seen' = seen \cup {cand'} /\ evidence.exit = 70 /\ Le(snap["initial"], cand)
        BY <2>2, <3>6, <3>7 DEF Answers, Growing
      <4> QED
        BY <2>1, <3>3, <3>4, <3>5, <3>6, <3>7, <4>1 DEF Growing
    <3>8. CASE g.at # "running"
      <4>1. g.at = "initial" /\ g.half # NoHalf => g.half <= cand'.tracked
        <5>1. g.half \in Nat
          BY ReceiptAssumption DEF GOK, GTypes, Halves, NoHalf
        <5> QED
          BY <3>1, <3>6, <5>1 DEF Growing
      <4> QED
        BY <2>1, <2>2, <3>3, <3>4, <3>6, <3>8, <4>1 DEF Growing
    <3> QED
      BY <3>7, <3>8
  <2> QED
    BY <2>1, <2>2, <2>3 DEF Between
<1>43. CASE EditEnvelope
  BY <1>43, ReceiptAssumption DEF EditEnvelope, Candidate, Gate, Quiet,
     NoWrapper, GOK, GTypes, DataOK, Snaps, Answers, Between, Growing, Le, Early
<1>44. CASE Occupy
  BY <1>44, ReceiptAssumption DEF Occupy, Fault, Candidate, Gate, Quiet,
     NoWrapper, GOK, GTypes, DataOK, Snaps, Answers, Between, Growing, Le, Early
<1>45. CASE UNCHANGED vars
  BY <1>45, ReceiptAssumption DEF vars, Gate, Candidate, GOK, GTypes, DataOK,
     Snaps, Answers, Between, Growing, Le, Early
<1>46. ASSUME NEW p \in {"tracked", "untracked"}, Restore(p) PROVE Between'
  <2>1. UNCHANGED <<g, snap, evidence>> /\ undone' = "yes"
    BY <1>46 DEF Restore, Write
  <2>2. g.at \in {"none", "workspace", "initial"} => seen' = {}
    BY <1>46 DEF Restore, Write, Between
  <2> QED
    BY <2>1, <2>2 DEF Between
<1> QED
  BY <1>1, <1>2, <1>3, <1>4, <1>5, <1>6, <1>7, <1>8, <1>9, <1>10, <1>11,
     <1>12, <1>13, <1>14, <1>15, <1>16, <1>17, <1>18, <1>19, <1>20, <1>21,
     <1>22, <1>23, <1>24, <1>25, <1>26, <1>27, <1>28, <1>29, <1>30, <1>31,
     <1>32, <1>33, <1>34, <1>35, <1>36, <1>37, <1>38, <1>39, <1>40, <1>41,
     <1>42, <1>43, <1>44, <1>45, <1>46 DEF Next, CallerStep, WrapperStep, GateStep

\* Every action keeps what the caller compares.
LEMMA CallsStep ==
  ASSUME WOK, GOK, DataOK, Owns, Answers, Between, Calls, [Next]_vars
  PROVE  Calls'
<1>1. CASE Capture
  <2>1. /\ UNCHANGED <<cand, undone, seen, w, receipt, g>>
        /\ caller.at = "capture" /\ w.at = "none" /\ seen = {}
    BY <1>1 DEF Capture, CallerDigest, Gate, Candidate, Owns, Answers, Early
  <2>2. cand.tracked \in Nat /\ cand.untracked \in Nat
    BY ReceiptAssumption DEF DataOK, Contents
  <2>3. CASE caller.half = NoHalf
    <3>1. caller'.at = "capture" /\ caller'.half = cand.tracked
      BY <1>1, <2>3 DEF Capture, CallerDigest, DataOK, CTypes
    <3> QED
      BY <2>1, <2>2, <3>1 DEF Calls, Around, Le, VerifiedIsAccepted
  <2>4. CASE caller.half # NoHalf
    <3>1. caller'.at = "check" /\ caller'.half = NoHalf
      BY <1>1, <2>4 DEF Capture, CallerDigest
    <3>2. snap'["caller"].tracked = caller.half /\ snap'["caller"].untracked = cand.untracked
      BY <1>1, <2>4 DEF Capture, CallerDigest, Whole, DataOK, Snaps, Digests
    <3> QED
      BY <2>1, <2>2, <2>4, <3>1, <3>2 DEF Calls, Around, Le, VerifiedIsAccepted
  <2> QED
    BY <2>3, <2>4
<1>2. CASE CallVerify
  BY <1>2, ReceiptAssumption DEF CallVerify, W, Candidate, Gate, Quiet,
     NoWrapper, WOK, WTypes, DataOK, CTypes, Snaps, Killed, Owns, Answers,
     Between, Growing, Calls, Around, Le, VerifiedIsAccepted, Passed, Early
<1>3. CASE Judge
  BY <1>3, ReceiptAssumption DEF Judge, Candidate, Gate, Quiet, NoWrapper,
     WOK, WTypes, DataOK, CTypes, Snaps, Killed, Owns, Answers, Between, Growing,
     Calls, Around, Le, VerifiedIsAccepted, Passed, Early
<1>4. CASE Recheck
  <2>1. UNCHANGED <<cand, undone, seen, w, receipt, g>> /\ caller.at = "judge"
    BY <1>4 DEF Recheck, CallerDigest, Gate, Candidate
  <2>2. cand.tracked \in Nat /\ cand.untracked \in Nat
    BY ReceiptAssumption DEF DataOK, Contents
  <2>3. undone = "no" =>
          \A s \in seen : s.tracked <= cand.tracked /\ s.untracked <= cand.untracked
    BY DEF Between, Growing, Le
  <2>4. CASE caller.half = NoHalf
    <3>1. caller'.at = "judge" /\ caller'.half = cand.tracked /\ UNCHANGED snap
      BY <1>4, <2>4 DEF Recheck, CallerDigest, DataOK, CTypes
    <3> QED
      BY <2>1, <2>2, <2>3, <3>1 DEF Calls, Around, Le, VerifiedIsAccepted
  <2>5. CASE caller.half # NoHalf
    <3>1. caller'.at = "compare" /\ caller'.half = NoHalf
      BY <1>4, <2>5 DEF Recheck, CallerDigest
    <3>2. /\ snap'["current"].tracked = caller.half /\ snap'["current"].untracked = cand.untracked
          /\ snap'["caller"] = snap["caller"]
      BY <1>4, <2>5 DEF Recheck, CallerDigest, Whole, DataOK, Snaps, Digests
    <3> QED
      BY <2>1, <2>2, <2>3, <2>5, <3>1, <3>2 DEF Calls, Around, Le, VerifiedIsAccepted
  <2> QED
    BY <2>4, <2>5
<1>5. CASE Decide
  <2>1. UNCHANGED <<cand, undone, seen, snap, w, receipt, g, target>> /\ caller.at = "compare"
    BY <1>5 DEF Decide, Gate, Candidate
  <2>2. caller'.half = caller.half /\ caller'.at \in {"accepted", "recorded", "refused"}
    BY <1>5 DEF Decide, DataOK, CTypes
  <2>3. CASE caller'.at = "refused"
    BY <2>1, <2>2, <2>3 DEF Calls, Around, Le, VerifiedIsAccepted
  <2>4. CASE caller'.at # "refused"
    <3>1. /\ snap["current"] = snap["caller"] /\ target = "ours"
          /\ receipt.final = snap["current"] /\ (caller'.at = "accepted" => w.code = 0)
      BY <1>5, <2>2, <2>4 DEF Decide, DataOK, CTypes
    <3>2. ASSUME undone = "no", NEW s \in seen PROVE s = snap["caller"]
      <4>1. Le(snap["caller"], s) /\ Le(s, snap["caller"])
        BY <2>1, <3>1, <3>2 DEF Calls, Around
      <4>2. s \in Parts /\ snap["caller"] \in Parts
        BY DEF DataOK, Snaps, Digests
      <4> QED
        BY <4>1, <4>2 DEF Le, Parts
    <3>3. w.at = "left" /\ w.code \in Outcomes
      BY <2>1 DEF Calls, Around
    <3>4. w.code = 0 => Passed
      BY <2>1, <3>1, <3>3 DEF Answers, Owns
    <3>5. VerifiedIsAccepted'
      BY <2>1, <3>1, <3>2, <3>4 DEF VerifiedIsAccepted, Passed
    <3> QED
      BY <2>1, <2>2, <3>3, <3>5 DEF Calls, Around, Le
  <2> QED
    BY <2>3, <2>4
<1>6. CASE Validate
  BY <1>6, ReceiptAssumption DEF Validate, W, Fail, Candidate, Gate, Quiet,
     NoWrapper, WOK, WTypes, DataOK, CTypes, Snaps, Killed, Owns, Answers,
     Between, Growing, Calls, Around, Le, VerifiedIsAccepted, Passed, Early
<1>7. CASE CopyEnvelope
  BY <1>7, ReceiptAssumption DEF CopyEnvelope, Make, Candidate, Gate, Quiet,
     NoWrapper, WOK, WTypes, DataOK, CTypes, Snaps, Killed, Owns, Answers,
     Between, Growing, Calls, Around, Le, VerifiedIsAccepted, Passed, Early
<1>8. CASE MakeHandoff
  BY <1>8, ReceiptAssumption DEF MakeHandoff, Make, Candidate, Gate, Quiet,
     NoWrapper, WOK, WTypes, DataOK, CTypes, Snaps, Killed, Owns, Answers,
     Between, Growing, Calls, Around, Le, VerifiedIsAccepted, Passed, Early
<1>9. CASE Spawn
  BY <1>9, ReceiptAssumption DEF Spawn, W, Candidate, Gate, Quiet, NoWrapper,
     WOK, WTypes, DataOK, CTypes, Snaps, Killed, Owns, Answers, Between, Growing,
     Calls, Around, Le, VerifiedIsAccepted, Passed, Early
<1>10. CASE Adopt
  BY <1>10, ReceiptAssumption DEF Adopt, Candidate, Gate, Quiet, NoWrapper,
     WOK, WTypes, DataOK, CTypes, Snaps, Killed, Owns, Answers, Between, Growing,
     Calls, Around, Le, VerifiedIsAccepted, Passed, Early
<1>11. CASE Answer
  BY <1>11, ReceiptAssumption DEF Answer, Candidate, Gate, Quiet, NoWrapper,
     WOK, WTypes, DataOK, CTypes, Snaps, Killed, Owns, Answers, Between, Growing,
     Calls, Around, Le, VerifiedIsAccepted, Passed, Early
<1>12. CASE WriteTemp
  BY <1>12, ReceiptAssumption DEF WriteTemp, Make, Candidate, Gate, Quiet,
     NoWrapper, WOK, WTypes, DataOK, CTypes, Snaps, Killed, Owns, Answers,
     Between, Growing, Calls, Around, Le, VerifiedIsAccepted, Passed, Early
<1>13. CASE Register
  BY <1>13, ReceiptAssumption DEF Register, Candidate, Gate, Quiet, NoWrapper,
     WOK, WTypes, DataOK, CTypes, Snaps, Killed, Owns, Answers, Between, Growing,
     Calls, Around, Le, VerifiedIsAccepted, Passed, Early
<1>14. CASE Link
  BY <1>14, ReceiptAssumption DEF Link, W, Fail, Candidate, Gate, Quiet,
     NoWrapper, WOK, WTypes, DataOK, CTypes, Snaps, Killed, Owns, Answers,
     Between, Growing, Calls, Around, Le, VerifiedIsAccepted, Passed, Early
<1>15. CASE UnlinkTemp
  BY <1>15, ReceiptAssumption DEF UnlinkTemp, Candidate, Gate, Quiet,
     NoWrapper, WOK, WTypes, DataOK, CTypes, Snaps, Killed, Owns, Answers,
     Between, Growing, Calls, Around, Le, VerifiedIsAccepted, Passed, Early
<1>16. CASE Synced
  BY <1>16, ReceiptAssumption DEF Synced, Fail, Candidate, Gate, Quiet,
     NoWrapper, WOK, WTypes, DataOK, CTypes, Snaps, Killed, Owns, Answers,
     Between, Growing, Calls, Around, Le, VerifiedIsAccepted, Passed, Early
<1>17. CASE Undo
  BY <1>17, ReceiptAssumption DEF Undo, RemovePublished, Candidate, Gate,
     Quiet, NoWrapper, WOK, WTypes, DataOK, CTypes, Snaps, Killed, Owns,
     Answers, Between, Growing, Calls, Around, Le, VerifiedIsAccepted, Passed, Early
<1>18. CASE UndoTemp
  BY <1>18, ReceiptAssumption DEF UndoTemp, Candidate, Gate, Quiet, NoWrapper,
     WOK, WTypes, DataOK, CTypes, Snaps, Killed, Owns, Answers, Between, Growing,
     Calls, Around, Le, VerifiedIsAccepted, Passed, Early
<1>19. CASE Finally
  BY <1>19, ReceiptAssumption DEF Finally, W, Candidate, Gate, Quiet,
     NoWrapper, WOK, WTypes, DataOK, CTypes, Snaps, Killed, Owns, Answers,
     Between, Growing, Calls, Around, Le, VerifiedIsAccepted, Passed, Early
<1>20. CASE ClearPublication
  BY <1>20, ReceiptAssumption DEF ClearPublication, Candidate, Gate, Quiet,
     NoWrapper, WOK, WTypes, DataOK, CTypes, Snaps, Killed, Owns, Answers,
     Between, Growing, Calls, Around, Le, VerifiedIsAccepted, Passed, Early
<1>21. CASE Return
  BY <1>21, ReceiptAssumption DEF Return, W, Candidate, Gate, Quiet,
     NoWrapper, WOK, WTypes, DataOK, CTypes, Snaps, Killed, Owns, Answers,
     Between, Growing, Calls, Around, Le, VerifiedIsAccepted, Passed, Early
<1>22. CASE Unwind
  BY <1>22, ReceiptAssumption DEF Unwind, RemovePublished, W, Candidate, Gate,
     Quiet, NoWrapper, WOK, WTypes, DataOK, CTypes, Snaps, Killed, Owns,
     Answers, Between, Growing, Calls, Around, Le, VerifiedIsAccepted, Passed, Early
<1>23. CASE Workspace
  BY <1>23, ReceiptAssumption DEF Workspace, Check, Stops, Candidate, Gate,
     Quiet, NoWrapper, WOK, WTypes, DataOK, CTypes, Snaps, Killed, Owns,
     Answers, Between, Growing, Calls, Around, Le, VerifiedIsAccepted, Passed, Early
<1>24. CASE Initial
  <2>1. UNCHANGED <<cand, undone, seen, w, caller, receipt, g.failed, g.run>>
    BY <1>24 DEF Initial, GateDigest, NoWrapper, Candidate, GOK, GTypes
  <2>2. snap'["caller"] = snap["caller"] /\ snap'["current"] = snap["current"]
    BY <1>24 DEF Initial, GateDigest, DataOK, Snaps, Digests
  <2> QED
    BY <2>1, <2>2 DEF Calls, Around, Le, VerifiedIsAccepted
<1>25. CASE ValidateEnvelope
  BY <1>25, ReceiptAssumption DEF ValidateEnvelope, Check, Finish, G,
     Candidate, Gate, Quiet, NoWrapper, WOK, WTypes, DataOK, CTypes, Snaps,
     Killed, Owns, Answers, Between, Growing, Calls, Around, Le, VerifiedIsAccepted, Passed,
     Early
<1>26. CASE Scope
  BY <1>26, ReceiptAssumption DEF Scope, Check, G, Finish, Candidate, Gate,
     Quiet, NoWrapper, WOK, WTypes, DataOK, CTypes, Snaps, Killed, Owns,
     Answers, Between, Growing, Calls, Around, Le, VerifiedIsAccepted, Passed, Early
<1>27. CASE Claims
  BY <1>27, ReceiptAssumption DEF Claims, Check, G, Finish, Candidate, Gate,
     Quiet, NoWrapper, WOK, WTypes, DataOK, CTypes, Snaps, Killed, Owns,
     Answers, Between, Growing, Calls, Around, Le, VerifiedIsAccepted, Passed, Early
<1>28. CASE Before
  <2>1. UNCHANGED <<cand, undone, seen, w, caller, receipt, g.failed, g.run>>
    BY <1>28 DEF Before, GateDigest, NoWrapper, Candidate, GOK, GTypes
  <2>2. snap'["caller"] = snap["caller"] /\ snap'["current"] = snap["current"]
    BY <1>28 DEF Before, GateDigest, DataOK, Snaps, Digests
  <2> QED
    BY <2>1, <2>2 DEF Calls, Around, Le, VerifiedIsAccepted
<1>29. CASE RunVerifier
  BY <1>29, ReceiptAssumption DEF RunVerifier, G, Candidate, Gate, Quiet,
     NoWrapper, WOK, WTypes, DataOK, CTypes, Snaps, Killed, Owns, Answers,
     Between, Growing, Calls, Around, Le, VerifiedIsAccepted, Passed, Early
<1>30. CASE VerifierEnds
  BY <1>30, ReceiptAssumption DEF VerifierEnds, Check, Candidate, Gate, Quiet,
     NoWrapper, WOK, WTypes, DataOK, CTypes, Snaps, Killed, Owns, Answers,
     Between, Growing, Calls, Around, Le, VerifiedIsAccepted, Passed, Early
<1>31. CASE After
  <2>1. UNCHANGED <<cand, undone, seen, w, caller, receipt, g.failed, g.run>>
    BY <1>31 DEF After, GateDigest, NoWrapper, Candidate, GOK, GTypes
  <2>2. snap'["caller"] = snap["caller"] /\ snap'["current"] = snap["current"]
    BY <1>31 DEF After, GateDigest, DataOK, Snaps, Digests
  <2> QED
    BY <2>1, <2>2 DEF Calls, Around, Le, VerifiedIsAccepted
<1>32. CASE Compare
  BY <1>32, ReceiptAssumption DEF Compare, Check, Finish, G, Candidate, Gate,
     Quiet, NoWrapper, WOK, WTypes, DataOK, CTypes, Snaps, Killed, Owns,
     Answers, Between, Growing, Calls, Around, Le, VerifiedIsAccepted, Passed, Early
<1>33. CASE Rescope
  BY <1>33, ReceiptAssumption DEF Rescope, Check, Finish, Candidate, Gate,
     Quiet, NoWrapper, WOK, WTypes, DataOK, CTypes, Snaps, Killed, Owns,
     Answers, Between, Growing, Calls, Around, Le, VerifiedIsAccepted, Passed, Early
<1>34. CASE Final
  <2>1. UNCHANGED <<cand, undone, seen, w, caller, receipt, g.failed, g.run>>
    BY <1>34 DEF Final, GateDigest, NoWrapper, Candidate, GOK, GTypes
  <2>2. snap'["caller"] = snap["caller"] /\ snap'["current"] = snap["current"]
    BY <1>34 DEF Final, GateDigest, DataOK, Snaps, Digests
  <2> QED
    BY <2>1, <2>2 DEF Calls, Around, Le, VerifiedIsAccepted
<1>35. CASE Emit
  BY <1>35, ReceiptAssumption DEF Emit, G, Candidate, Gate, Quiet, NoWrapper,
     WOK, WTypes, DataOK, CTypes, Snaps, Killed, Owns, Answers, Between, Growing,
     Calls, Around, Le, VerifiedIsAccepted, Passed, Early
<1>36. CASE Clean
  BY <1>36, ReceiptAssumption DEF Clean, Check, Stops, Candidate, Gate, Quiet,
     NoWrapper, WOK, WTypes, DataOK, CTypes, Snaps, Killed, Owns, Answers,
     Between, Growing, Calls, Around, Le, VerifiedIsAccepted, Passed, Early
<1>37. CASE Signal
  BY <1>37, ReceiptAssumption DEF Signal, Running, Moment, Alive, GateDies,
     Candidate, Gate, Quiet, NoWrapper, WOK, WTypes, DataOK, CTypes, Snaps,
     Killed, Owns, Answers, Between, Growing, Calls, Around, Le, VerifiedIsAccepted, Passed,
     Early
<1>38. CASE Kill
  BY <1>38, ReceiptAssumption DEF Kill, Fault, Candidate, Gate, Quiet,
     NoWrapper, WOK, WTypes, DataOK, CTypes, Snaps, Killed, Owns, Answers,
     Between, Growing, Calls, Around, Le, VerifiedIsAccepted, Passed, Early
<1>39. CASE CallFails
  BY <1>39, ReceiptAssumption DEF CallFails, Fault, Fail, Candidate, Gate,
     Quiet, NoWrapper, WOK, WTypes, DataOK, CTypes, Snaps, Killed, Owns,
     Answers, Between, Growing, Calls, Around, Le, VerifiedIsAccepted, Passed, Early
<1>40. CASE GateFails
  BY <1>40, ReceiptAssumption DEF GateFails, Fault, Stops, Finish, Candidate,
     Gate, Quiet, NoWrapper, WOK, WTypes, DataOK, CTypes, Snaps, Killed, Owns,
     Answers, Between, Growing, Calls, Around, Le, VerifiedIsAccepted, Passed, Early
<1>41. CASE GateKilled
  BY <1>41, ReceiptAssumption DEF GateKilled, Alive, Fault, GateDies,
     Candidate, Gate, Quiet, NoWrapper, WOK, WTypes, DataOK, CTypes, Snaps,
     Killed, Owns, Answers, Between, Growing, Calls, Around, Le, VerifiedIsAccepted, Passed,
     Early
<1>42. ASSUME NEW p \in {"tracked", "untracked"}, Edit(p) PROVE Calls'
  <2>1. UNCHANGED <<g, snap, w, caller, receipt, undone>>
    BY <1>42 DEF Edit, Write
  <2>2. seen' = IF g.at = "running" THEN seen \cup {cand'} ELSE seen
    BY <1>42 DEF Edit, Write
  <2>3. g.at = "running" =>
          caller.at \notin {"capture", "check", "judge", "compare", "accepted", "recorded"}
    BY DEF Owns, Answers, Calls, Early
  <2>4. ASSUME undone = "no" PROVE Around'
    <3>1. /\ cand.tracked \in Nat /\ cand.untracked \in Nat
          /\ cand'.tracked \in Nat /\ cand'.untracked \in Nat
          /\ cand.tracked <= cand'.tracked /\ cand.untracked <= cand'.untracked
      BY <1>42, <2>4, EditGrows
    <3>2. /\ snap["caller"].tracked \in Nat /\ snap["caller"].untracked \in Nat
          /\ caller.half \in Nat
      BY ReceiptAssumption DEF DataOK, Snaps, Digests, Parts, CTypes, Halves, NoHalf
    <3>3. Le(snap["caller"], cand) => Le(snap["caller"], cand')
      BY <3>1, <3>2 DEF Le
    <3>4. caller.half <= cand.tracked => caller.half <= cand'.tracked
      BY <3>1, <3>2
    <3>5. Around
      BY <2>4 DEF Calls
    <3>6. \A s \in seen' : Le(snap["caller"], s)
      BY <2>2, <2>3, <3>3, <3>5 DEF Around
    <3> QED
      BY <2>1, <2>2, <2>3, <3>3, <3>4, <3>5, <3>6 DEF Around
  <2>5. VerifiedIsAccepted'
    BY <2>1, <2>2, <2>3 DEF Calls, VerifiedIsAccepted
  <2> QED
    BY <2>1, <2>4, <2>5 DEF Calls
<1>43. CASE EditEnvelope
  BY <1>43, ReceiptAssumption DEF EditEnvelope, Candidate, Gate, Quiet,
     NoWrapper, WOK, WTypes, DataOK, CTypes, Snaps, Killed, Owns, Answers,
     Between, Growing, Calls, Around, Le, VerifiedIsAccepted, Passed, Early
<1>44. CASE Occupy
  BY <1>44, ReceiptAssumption DEF Occupy, Fault, Candidate, Gate, Quiet,
     NoWrapper, WOK, WTypes, DataOK, CTypes, Snaps, Killed, Owns, Answers,
     Between, Growing, Calls, Around, Le, VerifiedIsAccepted, Passed, Early
<1>45. CASE UNCHANGED vars
  BY <1>45, ReceiptAssumption DEF vars, Gate, Candidate, WOK, WTypes, DataOK,
     CTypes, Snaps, Killed, Owns, Answers, Between, Growing, Calls, Around, Le,
     VerifiedIsAccepted, Passed, Early
<1>46. ASSUME NEW p \in {"tracked", "untracked"}, Restore(p) PROVE Calls'
  <2>1. UNCHANGED <<g, snap, w, caller, receipt>> /\ undone' = "yes"
    BY <1>46 DEF Restore, Write
  <2> QED
    BY <2>1 DEF Calls, VerifiedIsAccepted
<1> QED
  BY <1>1, <1>2, <1>3, <1>4, <1>5, <1>6, <1>7, <1>8, <1>9, <1>10, <1>11,
     <1>12, <1>13, <1>14, <1>15, <1>16, <1>17, <1>18, <1>19, <1>20, <1>21,
     <1>22, <1>23, <1>24, <1>25, <1>26, <1>27, <1>28, <1>29, <1>30, <1>31,
     <1>32, <1>33, <1>34, <1>35, <1>36, <1>37, <1>38, <1>39, <1>40, <1>41,
     <1>42, <1>43, <1>44, <1>45, <1>46 DEF Next, CallerStep, WrapperStep, GateStep

-----------------------------------------------------------------------------
(* The invariant holds in every behaviour. *)

\* The parts make up the type invariant.
LEMMA TypesAgree == WOK /\ GOK /\ DataOK => TypeOK
BY DEF TypeOK, WOK, GOK, DataOK, WTypes, GTypes, CTypes, Codes, GateCodes, Signals,
       Receipts, ReceiptCodes, Paths, Halves, Runs, Contents, Kinds, Snaps

\* It holds initially.
LEMMA InitInv == Init => IInv
<1> SUFFICES ASSUME Init PROVE IInv
  OBVIOUS
<1> USE ReceiptAssumption DEF Init, NoReceipt, Zero, NoHalf, Outcomes, Killed
<1>1. WOK /\ GOK /\ DataOK
  BY DEF WOK, GOK, DataOK, Parts, Private, WrapperPlaces, GatePlaces, CallerPlaces,
         Digests, Codes, GateCodes, Signals, Receipts, WTypes, GTypes, CTypes, Paths,
         Halves, Runs, Contents, Kinds, ReceiptCodes, Snaps, Le
<1>2. Owns
  BY DEF Owns, Unlinked, Early
<1>3. Answers
  BY DEF Answers, Publishing, Early, Verified
<1>4. Between
  BY DEF Between, Growing
<1>5. Calls
  BY DEF Calls, Around, VerifiedIsAccepted
<1> QED
  BY <1>1, <1>2, <1>3, <1>4, <1>5 DEF IInv

\* Every step keeps it.
LEMMA StepInv == IInv /\ [Next]_vars => IInv'
<1> SUFFICES ASSUME IInv, [Next]_vars PROVE IInv'
  OBVIOUS
<1>1. TypeOK
  BY TypesAgree DEF IInv
<1>2. WOK' /\ GOK' /\ DataOK'
  BY WrapperTypeStep, GateTypeStep, DataTypeStep DEF IInv
<1>3. Owns' /\ Answers'
  BY OwnsStep, AnswersStep DEF IInv
<1>4. Between' /\ Calls'
  BY <1>1, <1>2, BetweenStep, CallsStep DEF IInv
<1> QED
  BY <1>2, <1>3, <1>4 DEF IInv

\* The inductive invariant holds in every reachable state.
LEMMA InvHolds == Spec => []IInv
BY InitInv, StepInv, PTL DEF Spec

\* Every variable keeps its type.
THEOREM TypeCorrect == Spec => []TypeOK
<1>1. IInv => TypeOK
  BY TypesAgree DEF IInv
<1> QED
  BY <1>1, InvHolds, PTL

\* Whatever is killed or fails, a receipt at the path is the whole answer of one
\* gate, and a passing one with equal digests is about the contents verified.
THEOREM ReceiptAlwaysHonest == Spec => []ReceiptHonest
<1>1. IInv => ReceiptHonest
  <2> SUFFICES ASSUME IInv, target = "ours" PROVE ReceiptHonest
    BY DEF ReceiptHonest
  <2>1. /\ g.at = "exited" /\ receipt = evidence /\ receipt.exit = g.code
        /\ receipt.exit \in Outcomes /\ receipt.envelope = copy
    BY DEF IInv, Answers
  <2>2. receipt.exit = 0 => Passed
    BY <2>1 DEF IInv, Answers
  <2>3. ASSUME receipt.exit = 0, undone = "no", receipt.initial = receipt.final,
               NEW s \in seen
        PROVE  s = receipt.final
    <3>1. Le(receipt.initial, s) /\ Le(s, receipt.final)
      BY <2>1, <2>3 DEF IInv, Between, Growing
    <3>2. s \in Parts /\ receipt.final \in Parts
      BY DEF IInv, DataOK, Receipts
    <3> QED
      BY <3>1, <3>2, <2>3 DEF Le, Parts
  <2> QED
    BY <2>1, <2>2, <2>3 DEF ReceiptHonest, Passed
<1> QED
  BY <1>1, InvHolds, PTL

\* A wrapper that ends by itself has cleaned up and left its receipt exactly when
\* it returns the code the receipt holds.
THEOREM NothingIsLeft == Spec => []NothingLeft
<1>1. IInv => NothingLeft
  BY DEF IInv, Owns, Answers, NothingLeft, Ended, Unread, Alive
<1> QED
  BY <1>1, InvHolds, PTL

\* A receipt of someone else is never replaced or removed.
THEOREM ForeignAlwaysKept == Spec => ForeignKept
<1>1. ASSUME IInv, [Next]_vars PROVE target = "foreign" => target' = "foreign"
  <2>1. CASE Capture
    BY <2>1 DEF Capture, CallerDigest, Whole, Candidate, Gate, Quiet, NoWrapper
  <2>2. CASE CallVerify
    BY <2>2 DEF CallVerify, W, Candidate, Gate, Quiet, NoWrapper
  <2>3. CASE Judge
    BY <2>3 DEF Judge, Candidate, Gate, Quiet, NoWrapper
  <2>4. CASE Recheck
    BY <2>4 DEF Recheck, CallerDigest, Whole, Candidate, Gate, Quiet, NoWrapper
  <2>5. CASE Decide
    BY <2>5 DEF Decide, Candidate, Gate, Quiet, NoWrapper
  <2>6. CASE Validate
    BY <2>6 DEF Validate, W, Fail, Candidate, Gate, Quiet, NoWrapper
  <2>7. CASE CopyEnvelope
    BY <2>7 DEF CopyEnvelope, Make, Candidate, Gate, Quiet, NoWrapper
  <2>8. CASE MakeHandoff
    BY <2>8 DEF MakeHandoff, Make, Candidate, Gate, Quiet, NoWrapper
  <2>9. CASE Spawn
    BY <2>9 DEF Spawn, W, Candidate, Gate, Quiet, NoWrapper
  <2>10. CASE Adopt
    BY <2>10 DEF Adopt, Candidate, Gate, Quiet, NoWrapper
  <2>11. CASE Answer
    BY <2>11 DEF Answer, Candidate, Gate, Quiet, NoWrapper
  <2>12. CASE WriteTemp
    BY <2>12 DEF WriteTemp, Make, Candidate, Gate, Quiet, NoWrapper
  <2>13. CASE Register
    BY <2>13 DEF Register, Candidate, Gate, Quiet, NoWrapper
  <2>14. CASE Link
    BY <2>14 DEF Link, W, Fail, Candidate, Gate, Quiet, NoWrapper
  <2>15. CASE UnlinkTemp
    BY <2>15 DEF UnlinkTemp, Candidate, Gate, Quiet, NoWrapper
  <2>16. CASE Synced
    BY <2>16 DEF Synced, Fail, Candidate, Gate, Quiet, NoWrapper
  <2>17. CASE Undo
    BY <2>17 DEF Undo, RemovePublished, Candidate, Gate, Quiet, NoWrapper
  <2>18. CASE UndoTemp
    BY <2>18 DEF UndoTemp, Candidate, Gate, Quiet, NoWrapper
  <2>19. CASE Finally
    BY <2>19 DEF Finally, W, Candidate, Gate, Quiet, NoWrapper
  <2>20. CASE ClearPublication
    BY <2>20 DEF ClearPublication, Candidate, Gate, Quiet, NoWrapper
  <2>21. CASE Return
    BY <2>21 DEF Return, W, Candidate, Gate, Quiet, NoWrapper
  <2>22. CASE Unwind
    BY <2>22 DEF Unwind, RemovePublished, W, Candidate, Gate, Quiet, NoWrapper
  <2>23. CASE Workspace
    BY <2>23 DEF Workspace, Check, Stops, Candidate, Gate, Quiet, NoWrapper
  <2>24. CASE Initial
    BY <2>24 DEF Initial, GateDigest, Whole, Candidate, Gate, Quiet, NoWrapper
  <2>25. CASE ValidateEnvelope
    BY <2>25 DEF ValidateEnvelope, Check, Finish, G, Candidate, Gate, Quiet,
       NoWrapper
  <2>26. CASE Scope
    BY <2>26 DEF Scope, Check, G, Finish, Candidate, Gate, Quiet, NoWrapper
  <2>27. CASE Claims
    BY <2>27 DEF Claims, Check, G, Finish, Candidate, Gate, Quiet, NoWrapper
  <2>28. CASE Before
    BY <2>28 DEF Before, GateDigest, Whole, Candidate, Gate, Quiet, NoWrapper
  <2>29. CASE RunVerifier
    BY <2>29 DEF RunVerifier, G, Candidate, Gate, Quiet, NoWrapper
  <2>30. CASE VerifierEnds
    BY <2>30 DEF VerifierEnds, Check, Candidate, Gate, Quiet, NoWrapper
  <2>31. CASE After
    BY <2>31 DEF After, GateDigest, Whole, Candidate, Gate, Quiet, NoWrapper
  <2>32. CASE Compare
    BY <2>32 DEF Compare, Check, Finish, G, Candidate, Gate, Quiet, NoWrapper
  <2>33. CASE Rescope
    BY <2>33 DEF Rescope, Check, Finish, Candidate, Gate, Quiet, NoWrapper
  <2>34. CASE Final
    BY <2>34 DEF Final, GateDigest, Whole, Candidate, Gate, Quiet, NoWrapper
  <2>35. CASE Emit
    BY <2>35 DEF Emit, G, Candidate, Gate, Quiet, NoWrapper
  <2>36. CASE Clean
    BY <2>36 DEF Clean, Check, Stops, Candidate, Gate, Quiet, NoWrapper
  <2>37. CASE Signal
    BY <2>37 DEF Signal, Running, Moment, Alive, GateDies, Candidate, Gate,
       Quiet, NoWrapper
  <2>38. CASE Kill
    BY <2>38 DEF Kill, Fault, Candidate, Gate, Quiet, NoWrapper
  <2>39. CASE CallFails
    BY <2>39 DEF CallFails, Fault, Fail, Candidate, Gate, Quiet, NoWrapper
  <2>40. CASE GateFails
    BY <2>40 DEF GateFails, Fault, Stops, Finish, Candidate, Gate, Quiet,
       NoWrapper
  <2>41. CASE GateKilled
    BY <2>41 DEF GateKilled, Alive, Fault, GateDies, Candidate, Gate, Quiet,
       NoWrapper
  <2>42. ASSUME NEW p \in {"tracked", "untracked"}, Edit(p)
        PROVE  target = "foreign" => target' = "foreign"
    BY <2>42 DEF Edit, Write, Candidate, Gate, Quiet, NoWrapper
  <2>43. CASE EditEnvelope
    BY <2>43 DEF EditEnvelope, Candidate, Gate, Quiet, NoWrapper
  <2>44. CASE Occupy
    BY <2>44 DEF Occupy, Fault, Candidate, Gate, Quiet, NoWrapper
  <2>45. CASE UNCHANGED vars
    BY <2>45 DEF vars
  <2>46. ASSUME NEW p \in {"tracked", "untracked"}, Restore(p)
        PROVE  target = "foreign" => target' = "foreign"
    BY <2>46 DEF Restore, Write, Candidate, Gate, Quiet, NoWrapper
  <2> QED
    BY <1>1, <2>1, <2>2, <2>3, <2>4, <2>5, <2>6, <2>7, <2>8, <2>9, <2>10, <2>11,
       <2>12, <2>13, <2>14, <2>15, <2>16, <2>17, <2>18, <2>19, <2>20, <2>21,
       <2>22, <2>23, <2>24, <2>25, <2>26, <2>27, <2>28, <2>29, <2>30, <2>31,
       <2>32, <2>33, <2>34, <2>35, <2>36, <2>37, <2>38, <2>39, <2>40, <2>41,
       <2>42, <2>43, <2>44, <2>45, <2>46 DEF Next, CallerStep, WrapperStep, GateStep
<1> QED
  BY <1>1, InvHolds, PTL DEF Spec, ForeignKept

\* What verify-finalize accepts or records is about the contents the verifiers
\* ran on.
THEOREM AcceptedIsVerified == Spec => []VerifiedIsAccepted
<1>1. IInv => VerifiedIsAccepted
  BY DEF IInv, Calls
<1> QED
  BY <1>1, InvHolds, PTL
=============================================================================
