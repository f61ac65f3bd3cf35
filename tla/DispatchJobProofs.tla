------------------------- MODULE DispatchJobProofs -------------------------
(***************************************************************************)
(* Proofs about DispatchJob: its safety properties hold for every limit on *)
(* attempts, every lease and every budget, whoever is killed, however the  *)
(* commands interleave.                                                    *)
(*                                                                         *)
(* The first parts speak of no interleaving: what the operators that build *)
(* records return, and what each action does to the fields that matter.    *)
(* The inductive invariant IInv then has one part per question (who holds  *)
(* the lock, which provider lives, what the candidate is bound to, what    *)
(* the controller's finding may say, what the lease allows), and each part *)
(* is shown to be kept by every action in a lemma of its own.              *)
(***************************************************************************)
EXTENDS DispatchJob, TLAPS, FiniteSetTheorems

-----------------------------------------------------------------------------
(* Types *)

Controls == [pc : Steps, reason : Reasons, report : Candidates,
             source : Sources \cup {"none"}, bad : BOOLEAN, snap : Trees,
             signal : BOOLEAN, behind : 0..2, end : Nat]

\* Lower and Upper stay within the naturals.
LEMMA LimitType ==
  ASSUME NEW a \in Nat, NEW b \in Nat
  PROVE  Lower(a, b) \in Nat /\ Upper(a, b) \in Nat
BY DEF Lower, Upper

\* What is left of the budget is a natural number.
LEMMA ProviderMaxType == ASSUME NEW v \in Records PROVE ProviderMax(v) \in Nat
BY DispatchAssumption DEF ProviderMax, Upper, Records

\* Replacing one Boolean field keeps a record's type.
LEMMA FlagType ==
  ASSUME NEW v \in Records, NEW b \in BOOLEAN
  PROVE  /\ [v EXCEPT !.avail = b] \in Records
         /\ [v EXCEPT !.cont = b] \in Records
         /\ [v EXCEPT !.resume = b] \in Records
         /\ [v EXCEPT !.remote = b] \in Records
         /\ [v EXCEPT !.conv = b] \in Records
         /\ [v EXCEPT !.decided = b] \in Records
<1>1. [v EXCEPT !.avail = b] \in Records
  BY DEF Records
<1>2. [v EXCEPT !.cont = b] \in Records
  BY DEF Records
<1>3. [v EXCEPT !.resume = b] \in Records
  BY DEF Records
<1>4. [v EXCEPT !.remote = b] \in Records
  BY DEF Records
<1>5. [v EXCEPT !.conv = b] \in Records
  BY DEF Records
<1>6. [v EXCEPT !.decided = b] \in Records
  BY DEF Records
<1> QED
  BY <1>1, <1>2, <1>3, <1>4, <1>5, <1>6

\* A record that ends an attempt, with the values of the fields that it sets.
Ended(v, st, r, remote, avail, cont, resume) ==
    [v EXCEPT !.status = st, !.reason = r, !.pid = FALSE, !.remote = remote,
              !.avail = avail, !.decided = FALSE, !.cont = cont, !.resume = resume]

\* Such a record is a record.
LEMMA EndType ==
  ASSUME NEW v \in Records, NEW st \in Active \cup Terminal, NEW r \in Reasons,
         NEW remote \in BOOLEAN, NEW avail \in BOOLEAN, NEW cont \in BOOLEAN,
         NEW resume \in BOOLEAN
  PROVE  Ended(v, st, r, remote, avail, cont, resume) \in Records
<1> DEFINE w1 == [v EXCEPT !.status = st, !.reason = r, !.pid = FALSE]
           w2 == [w1 EXCEPT !.remote = remote]
           w3 == [w2 EXCEPT !.avail = avail]
           w4 == [w3 EXCEPT !.decided = FALSE]
           w5 == [w4 EXCEPT !.cont = cont]
<1>1. w1 \in Records
  BY DEF Records
<1>2. w2 \in Records
  BY <1>1, FlagType
<1>3. w3 \in Records
  BY <1>2, FlagType
<1>4. w4 \in Records
  BY <1>3, FlagType
<1>5. w5 \in Records
  BY <1>4, FlagType
<1>6. [w5 EXCEPT !.resume = resume] \in Records
  BY <1>5, FlagType
<1> QED
  BY <1>6 DEF Ended

\* A projection is a record (_interrupted_projection and its kin).
LEMMA ProjectionType ==
  ASSUME NEW v \in Records, NEW st \in Active \cup Terminal, NEW r \in Reasons,
         NEW bad \in BOOLEAN, NEW remote \in BOOLEAN, NEW allow \in BOOLEAN
  PROVE  Projection(v, st, r, bad, remote, allow) \in Records
<1> DEFINE avail  == v.report # 0 /\ ~bad
           cont   == /\ allow /\ ~bad /\ v.report # 0 /\ v.origin = "continue"
                     /\ v.source # "cancelled" /\ v.conv /\ v.attempt < MaxCycles
                     /\ v.elapsed < ProviderMax(v) /\ st = "failed"
           resume == /\ v.report = 0 /\ st = "failed" /\ v.conv
                     /\ v.origin # "continue"
<1>1. avail \in BOOLEAN /\ cont \in BOOLEAN /\ resume \in BOOLEAN
  OBVIOUS
<1>2. Projection(v, st, r, bad, remote, allow) = Ended(v, st, r, remote, avail, cont, resume)
  BY DEF Projection, Ended
<1> HIDE DEF avail, cont, resume
<1>3. Ended(v, st, r, remote, avail, cont, resume) \in Records
  BY <1>1, EndType
<1> QED
  BY <1>2, <1>3

\* What the controller publishes on its own paths is a record.
LEMMA OwnedType ==
  ASSUME NEW v \in Records, NEW b \in BOOLEAN
  PROVE  /\ Owned(v, b) \in Records
         /\ OwnedUnscanned(v) \in Records
         /\ [OwnedUnscanned(v) EXCEPT !.remote = FALSE] \in Records
<1>1. v.cancel \in BOOLEAN
  BY DEF Records
<1>2. /\ {"failed", "cancelled"} \subseteq Active \cup Terminal
      /\ {"unavailable", "cancelled"} \subseteq Reasons
  BY DEF Active, Terminal, Reasons
<1>3. Owned(v, b) \in Records
  BY <1>1, <1>2, ProjectionType DEF Owned
<1>4. OwnedUnscanned(v) \in Records
  BY <1>1, <1>2, ProjectionType, FlagType DEF OwnedUnscanned
<1> QED
  BY <1>3, <1>4, FlagType

\* The record of the next attempt is a record (create_state).
LEMMA NextAttemptType ==
  ASSUME NEW v \in Records, NEW origin \in Origins, v.attempt < MaxCycles
  PROVE  NextAttempt(v, origin) \in Records
<1> DEFINE hard == Lower(ProviderMax(v), v.elapsed + HardSeconds)
           f == Fresh(v.attempt + 1, origin, v.elapsed, hard)
           conv == v.conv /\ origin # "restart"
           g1 == [f EXCEPT !.spent = v.spent, !.checked = v.checked]
           g2 == [g1 EXCEPT !.conv = conv]
           g == [g2 EXCEPT !.resume = conv]
<1>1. v.attempt + 1 \in Attempts /\ v.elapsed \in Nat /\ hard \in Nat
  <2>1. v.attempt \in Attempts /\ v.elapsed \in Nat
    BY DEF Records
  <2>2. v.attempt + 1 \in Attempts
    BY <2>1, DispatchAssumption DEF Attempts
  <2>3. v.elapsed + HardSeconds \in Nat
    BY <2>1, DispatchAssumption
  <2>4. hard \in Nat
    BY <2>3, ProviderMaxType, LimitType
  <2> QED
    BY <2>1, <2>2, <2>4
<1>2. "queued" \in Active /\ "none" \in Reasons /\ NoTree \in Trees /\ 0 \in Candidates
  BY DispatchAssumption DEF Active, Reasons, Trees, Candidates
<1>3. f \in Records
  <2> HIDE DEF hard
  <2> QED
    BY <1>1, <1>2 DEF Fresh, Records
<1>4. v.spent \in Nat /\ v.checked \in Candidates
  BY DEF Records
<1>5. g1 \in Records
  <2> HIDE DEF f
  <2> QED
    BY <1>3, <1>4 DEF Records
<1>6. g \in Records
  <2>1. conv \in BOOLEAN
    OBVIOUS
  <2> HIDE DEF g1, conv
  <2> QED
    BY <2>1, <1>5, FlagType
<1>7. [g EXCEPT !.report = v.report, !.tree = v.tree, !.source = v.source,
                !.avail = v.avail] \in Records
  <2> HIDE DEF g
  <2>1. v.report \in Candidates /\ v.tree \in Trees /\ v.source \in Sources \cup {"none"}
    BY DEF Records
  <2>2. [g EXCEPT !.report = v.report, !.tree = v.tree, !.source = v.source] \in Records
    BY <1>6, <2>1 DEF Records
  <2>3. v.avail \in BOOLEAN
    BY DEF Records
  <2> QED
    BY <2>2, <2>3, FlagType
<1> QED
  BY <1>6, <1>7 DEF NextAttempt

\* What the constants and the record bound, for arithmetic.
LEMMA RecordNumbers ==
  ASSUME NEW v \in Records
  PROVE  /\ v.base \in Nat /\ v.elapsed \in Nat /\ v.hard \in Nat /\ v.spent \in Nat
         /\ v.attempt \in Attempts /\ v.attempt \in Nat /\ v.checked \in Candidates
         /\ v.report \in Candidates /\ v.tree \in Trees
         /\ v.source \in Sources \cup {"none"} /\ v.reason \in Reasons
         /\ v.cancel \in BOOLEAN /\ v.avail \in BOOLEAN /\ v.conv \in BOOLEAN
         /\ v.resume \in BOOLEAN /\ v.cont \in BOOLEAN
         /\ v.status \in Active \cup Terminal
BY DEF Records, Attempts

\* The clock stops: the record of an attempt whose provider is reaped.
LEMMA StoppedType ==
  ASSUME NEW v \in Records, NEW n \in Nat
  PROVE  [v EXCEPT !.elapsed = n, !.started = FALSE] \in Records
         /\ [v EXCEPT !.started = FALSE, !.elapsed = n] \in Records
BY DEF Records

\* The record after the checks is a record.
LEMMA ChargedType ==
  ASSUME s \in Records, clock \in Nat
  PROVE  Charged \in Records
<1> DEFINE n == s.spent + Lower(clock, Remaining(s))
           v == [s EXCEPT !.verifying = FALSE, !.spent = n]
           c == ContinueFacts(v)
<1>1. n \in Nat
  <2>1. Remaining(s) \in Nat
    BY RecordNumbers, DispatchAssumption DEF Remaining, Upper
  <2>2. Lower(clock, Remaining(s)) \in Nat
    BY <2>1, LimitType
  <2>3. s.spent \in Nat
    BY RecordNumbers
  <2> QED
    BY <2>2, <2>3
<1>2. v \in Records
  <2> HIDE DEF n
  <2> QED
    BY <1>1 DEF Records
<1>3. c \in BOOLEAN
  BY DEF ContinueFacts, Reviewable
<1>4. Charged = [v EXCEPT !.cont = c]
  BY DEF Charged
<1> HIDE DEF v, c
<1> QED
  BY <1>2, <1>3, <1>4, FlagType

\* What a controller finds.
FindingSet == [reason : Reasons, report : Candidates, source : Sources \cup {"none"},
               bad : BOOLEAN]

\* A finding of typed parts.
LEMMA FoundType ==
  ASSUME NEW r \in Reasons, NEW n \in Candidates, NEW x \in Sources \cup {"none"},
         NEW bad \in BOOLEAN
  PROVE  Found(r, n, x, bad) \in FindingSet
BY DEF Found, FindingSet

\* A finding without a report.
LEMMA DroppedType == ASSUME NEW r \in Reasons PROVE Dropped(r) \in FindingSet
<1>1. 0 \in Candidates /\ "none" \in Sources \cup {"none"} /\ FALSE \in BOOLEAN
  BY DispatchAssumption DEF Candidates
<1> QED
  BY <1>1, FoundType DEF Dropped

\* The reasons, for membership goals.
LEMMA ReasonNames ==
  {"none", "cancelled", "interrupted", "provider_cancelled", "provider_error", "deadline",
   "idle", "failed", "unavailable", "permission", "preflight"} = Reasons
BY DEF Reasons

\* Whatever the streams hold, the controller finds a reason, a report and a source.
LEMMA FindingsType ==
  ASSUME TypeOK, NEW f \in Findings(ctl.reason)
  PROVE  f \in FindingSet
<1>1. s.attempt \in Candidates /\ ctl.reason \in Reasons /\ ctl.bad \in BOOLEAN
      /\ 0 \in Candidates
  BY DispatchAssumption DEF TypeOK, Records, Attempts, Candidates
<1>2. Sources \subseteq Sources \cup {"none"} /\ "none" \in Sources \cup {"none"}
  OBVIOUS
<1>3. PICK r \in Reasons, n \in Candidates, x \in Sources \cup {"none"}, bad \in BOOLEAN :
        f = Found(r, n, x, bad)
  BY <1>1, <1>2, ReasonNames DEF Findings
<1> QED
  BY <1>3, FoundType

\* The same after the inputs and the record have been read once more.
LEMMA ClassifiedType ==
  ASSUME TypeOK
  PROVE  Classified \in FindingSet /\ Completed \in FindingSet
         /\ Cleaned \subseteq FindingSet
<1>1. /\ ctl.reason \in Reasons /\ ctl.report \in Candidates
      /\ ctl.source \in Sources \cup {"none"} /\ ctl.bad \in BOOLEAN
  BY DEF TypeOK
<1>2. Found(ctl.reason, ctl.report, ctl.source, ctl.bad) \in FindingSet
  BY <1>1, FoundType
<1>3. Dropped("cancelled") \in FindingSet /\ Dropped("interrupted") \in FindingSet
      /\ Found("unavailable", 0, "none", TRUE) \in FindingSet
  <2>1. {"cancelled", "interrupted", "unavailable"} \subseteq Reasons
    BY DEF Reasons
  <2>2. 0 \in Candidates /\ "none" \in Sources \cup {"none"}
    BY DispatchAssumption DEF Candidates
  <2>3. Found("unavailable", 0, "none", TRUE) \in FindingSet
    BY <2>1, <2>2, FoundType
  <2> QED
    BY <2>1, <2>3, DroppedType
<1>4. \A f \in FindingSet : [f EXCEPT !.reason = "unavailable", !.bad = TRUE] \in FindingSet
  BY ReasonNames DEF FindingSet
<1> QED
  BY <1>2, <1>3, <1>4 DEF Classified, Completed, Cleaned

\* What the controller publishes is a record.
LEMMA PublishedType ==
  ASSUME TypeOK, NEW f \in FindingSet
  PROVE  Published(f) \in Records
<1> DEFINE keep   == f.report = 0 /\ s.origin = "continue" /\ s.report # 0
           report == IF keep THEN s.report ELSE f.report
           source == IF keep THEN s.source ELSE f.source
           status == Status(f.reason)
           avail  == report # 0 /\ ~f.bad
           reuse  == f.reason \notin {"preflight", "permission"}
           tree   == IF ctl.snap # NoTree THEN ctl.snap ELSE IF keep THEN s.tree ELSE NoTree
           resume == s.conv /\ report = 0 /\ status = "failed" /\ reuse
           cont   == /\ avail /\ status \in {"succeeded", "failed"} /\ reuse
                     /\ source # "cancelled" /\ s.conv /\ s.attempt < MaxCycles
                     /\ s.elapsed < ProviderMax(s)
           remote == f.reason \in {"cancelled", "interrupted"}
           w1 == [s EXCEPT !.status = status, !.reason = f.reason, !.pid = FALSE]
           w2 == [w1 EXCEPT !.report = report, !.source = source, !.tree = tree]
           w3 == [w2 EXCEPT !.avail = avail]
           w4 == [w3 EXCEPT !.decided = FALSE]
           w5 == [w4 EXCEPT !.resume = resume]
           w6 == [w5 EXCEPT !.cont = cont]
           w7 == [w6 EXCEPT !.remote = remote]
<1>1. s \in Records /\ f.reason \in Reasons /\ f.report \in Candidates
      /\ f.source \in Sources \cup {"none"} /\ ctl.snap \in Trees /\ NoTree \in Trees
  BY DEF TypeOK, FindingSet, Trees
<1>2. report \in Candidates /\ source \in Sources \cup {"none"} /\ tree \in Trees
  BY <1>1, RecordNumbers
<1>3. status \in Active \cup Terminal
  BY DEF Status, Active, Terminal
<1>4. /\ avail \in BOOLEAN /\ resume \in BOOLEAN /\ cont \in BOOLEAN /\ remote \in BOOLEAN
  BY <1>1, RecordNumbers
<1>5. Published(f) =
        [s EXCEPT
          !.status = status, !.reason = f.reason, !.pid = FALSE, !.report = report,
          !.source = source, !.tree = tree, !.avail = avail, !.decided = FALSE,
          !.resume = resume, !.cont = cont, !.remote = remote]
  BY DEF Published
<1> HIDE DEF report, source, status, avail, tree, resume, cont, remote
<1>6. w1 \in Records
  BY <1>1, <1>3 DEF Records
<1>7. w2 \in Records
  <2> HIDE DEF w1
  <2> QED
    BY <1>2, <1>6 DEF Records
<1>8. w3 \in Records
  <2> HIDE DEF w2
  <2> QED
    BY <1>4, <1>7, FlagType
<1>9. w4 \in Records
  <2> HIDE DEF w3
  <2> QED
    BY <1>8, FlagType
<1>10. w5 \in Records
  <2> HIDE DEF w4
  <2> QED
    BY <1>4, <1>9, FlagType
<1>11. w6 \in Records
  <2> HIDE DEF w5
  <2> QED
    BY <1>4, <1>10, FlagType
<1>12. w7 \in Records
  <2> HIDE DEF w6
  <2> QED
    BY <1>4, <1>11, FlagType
<1> QED
  BY <1>5, <1>12

-----------------------------------------------------------------------------
(* The type invariant *)

\* The initial state has the types of TypeOK.
LEMMA TypeInit == Init => TypeOK
<1> SUFFICES ASSUME Init PROVE TypeOK
  OBVIOUS
<1>1. s \in Records
  BY DispatchAssumption
     DEF Init, Fresh, Records, Attempts, Candidates, Trees, Active, Reasons
<1>2. ctl \in Controls
  BY DispatchAssumption
     DEF Init, NoController, Controller, Controls, Steps, Reasons, Candidates, Trees
<1>3. wt \in Candidates /\ live \subseteq Attempts /\ clock \in Nat
  BY DispatchAssumption DEF Init, Candidates
<1>4. left \in [Attempts -> Trees] /\ ran \in [Attempts -> Nat]
  BY DEF Init, Trees
<1> QED
  BY <1>1, <1>2, <1>3, <1>4 DEF Init, TypeOK, Controls

\* What a step may write into the record.
LEMMA RecordStep == ASSUME TypeOK, Next PROVE s' \in Records
<1>1. s \in Records /\ clock \in Nat /\ ctl.end \in Nat
  BY DEF TypeOK
<1>2. CASE UNCHANGED s
  BY <1>1, <1>2
<1>3. CASE QueuedSignal \/ StartFailure \/ Orphan
  <2>1. {"failed", "cancelled", "orphaned"} \subseteq Active \cup Terminal
        /\ {"interrupted", "unavailable"} \subseteq Reasons
    BY DEF Active, Terminal, Reasons
  <2> QED
    BY <1>1, <1>3, <2>1, ProjectionType DEF QueuedSignal, StartFailure, Orphan
<1>4. CASE \E o \in Origins : Create(o)
  <2>1. PICK o \in Origins : Create(o)
    BY <1>4
  <2>2. s.attempt < MaxCycles
    BY <2>1 DEF Create, Eligible, Origins, ResumeEligible, RestartGuard, ContinueFacts
  <2> QED
    BY <1>1, <2>1, <2>2, NextAttemptType DEF Create
<1>5. CASE Claim
  <2>1. [s EXCEPT !.pid = TRUE] \in Records
    BY <1>1 DEF Records
  <2> QED
    BY <1>1, <1>5, <2>1, OwnedType DEF Claim
<1>6. CASE BindFails
  BY <1>1, <1>6, OwnedType DEF BindFails
<1>7. CASE Launch
  <2>1. [s EXCEPT !.status = "running", !.started = TRUE, !.progress = "none"] \in Records
    BY <1>1 DEF Records, Active
  <2> QED
    BY <1>1, <1>7, <2>1 DEF Launch
<1>8. CASE LaunchFails
  BY <1>1, <1>8 DEF LaunchFails, Records, Active
<1>9. CASE Freeze
  <2>1. Upper(ctl.end, s.elapsed) \in Nat
    BY <1>1, RecordNumbers, LimitType
  <2> QED
    BY <1>1, <1>9, <2>1, StoppedType DEF Freeze
<1>10. CASE Publish
  BY <1>10, ClassifiedType, PublishedType DEF Publish
<1>11. CASE Recover
  <2> DEFINE n == IF ctl.pc \in {"monitor", "reap"} THEN Upper(s.elapsed, s.base + clock)
                  ELSE Upper(s.elapsed, ctl.end)
             stopped == [s EXCEPT !.started = FALSE, !.elapsed = n]
  <2>1. s.base + clock \in Nat /\ s.elapsed \in Nat
    BY <1>1, RecordNumbers
  <2>2. n \in Nat
    BY <1>1, <2>1, LimitType
  <2>3. s' \in {Owned(stopped, TRUE), OwnedUnscanned(stopped)}
    BY <1>11 DEF Recover
  <2> HIDE DEF n
  <2>4. stopped \in Records
    BY <1>1, <2>2, StoppedType
  <2> HIDE DEF stopped
  <2> QED
    BY <2>3, <2>4, OwnedType
<1>12. CASE Progress
  <2>1. s.base + clock \in Nat
    BY <1>1, RecordNumbers
  <2>2. PICK known \in BOOLEAN :
          Note([s EXCEPT !.progress = "fresh", !.elapsed = s.base + clock,
                         !.conv = s.conv \/ known, !.resume = s.resume \/ known])
    BY <1>12 DEF Progress
  <2> DEFINE conv == s.conv \/ known
             resume == s.resume \/ known
             w1 == [s EXCEPT !.progress = "fresh", !.elapsed = s.base + clock]
             w2 == [w1 EXCEPT !.conv = conv]
  <2>3. s' = s \/ s' = [w2 EXCEPT !.resume = resume]
    BY <2>2 DEF Note
  <2>4. conv \in BOOLEAN /\ resume \in BOOLEAN
    OBVIOUS
  <2> HIDE DEF conv, resume
  <2>5. w1 \in Records
    BY <1>1, <2>1 DEF Records
  <2> HIDE DEF w1
  <2>6. w2 \in Records
    BY <2>4, <2>5, FlagType
  <2> HIDE DEF w2
  <2> QED
    BY <1>1, <2>3, <2>4, <2>6, FlagType
<1>13. CASE Notice
  <2>1. s.base + clock \in Nat
    BY <1>1, RecordNumbers
  <2> QED
    BY <1>1, <1>13, <2>1 DEF Notice, Note, Records
<1>14. CASE Tick
  BY <1>1, <1>14 DEF Tick, Records
<1>15. CASE Cancel
  BY <1>1, <1>15 DEF Cancel, Records, Active
<1>16. CASE \E t \in 1..MaxSeconds : Extend(t)
  <2>1. PICK t \in 1..MaxSeconds : Extend(t)
    BY <1>16
  <2>2. s.hard + t \in Nat
    BY <1>1, <2>1, RecordNumbers, DispatchAssumption
  <2> QED
    BY <1>1, <2>1, <2>2 DEF Extend, Records
<1>17. CASE Finalize
  <2> DEFINE w == [s EXCEPT !.decided = TRUE]
  <2>1. s' = [w EXCEPT !.cont = FALSE]
    BY <1>17 DEF Finalize
  <2>2. w \in Records
    BY <1>1, FlagType
  <2> HIDE DEF w
  <2> QED
    BY <2>1, <2>2, FlagType
<1>18. CASE StartChecks
  <2>1. s.attempt \in Candidates
    BY <1>1 DEF Records, Attempts, Candidates
  <2> DEFINE w == [s EXCEPT !.verifying = TRUE, !.checked = s.attempt]
  <2>2. s' = [w EXCEPT !.cont = FALSE]
    BY <1>18 DEF StartChecks
  <2>3. w \in Records
    BY <1>1, <2>1 DEF Records
  <2> HIDE DEF w
  <2> QED
    BY <2>2, <2>3, FlagType
<1>19. CASE EndChecks \/ RecoverChecks
  BY <1>1, <1>19, ChargedType DEF EndChecks, RecoverChecks
<1> QED
  BY <1>2, <1>3, <1>4, <1>5, <1>6, <1>7, <1>8, <1>9, <1>10, <1>11, <1>12, <1>13, <1>14,
     <1>15, <1>16, <1>17, <1>18, <1>19
     DEF Next, SpawnerStep, ControllerStep, Provider, Commands, Faults, StartController,
         HandshakeDone, ControllerLost, Bind, NoLaunch, Poll, Reap, Observe, ObserveCancel,
         Reconcile, Exit, IdleTimeout, StreamsEnd, Write, ProviderExits, AbandonStart,
         HandshakeTimeout, Die, Kill, Signal, CheckerDies

\* What a step may leave in the controller.
LEMMA ControllerType ==
  ASSUME NEW pc \in Steps
  PROVE  Controller(pc) \in Controls
BY DispatchAssumption DEF Controller, Controls, Reasons, Candidates, Trees

\* Taking a finding keeps the type of the controller.
LEMMA TakeType ==
  ASSUME ctl \in Controls, NEW pc \in Steps, NEW f \in FindingSet, Take(pc, f)
  PROVE  ctl' \in Controls
<1> DEFINE w1 == [ctl EXCEPT !.pc = pc, !.reason = f.reason]
           w2 == [w1 EXCEPT !.report = f.report, !.source = f.source]
           w3 == [w2 EXCEPT !.bad = f.bad]
<1>1. ctl' = [w3 EXCEPT !.behind = 0]
  BY DEF Take
<1>2. f.reason \in Reasons /\ f.report \in Candidates /\ f.source \in Sources \cup {"none"}
      /\ f.bad \in BOOLEAN
  BY DEF FindingSet
<1>3. w1 \in Controls
  BY <1>2 DEF Controls
<1> HIDE DEF w1
<1>4. w2 \in Controls
  BY <1>2, <1>3 DEF Controls
<1> HIDE DEF w2
<1>5. w3 \in Controls
  BY <1>2, <1>4 DEF Controls
<1> HIDE DEF w3
<1> QED
  BY <1>1, <1>5 DEF Controls

\* So does ending a step with a reason.
LEMMA OutcomeType ==
  ASSUME ctl \in Controls, NEW pc \in Steps, NEW r \in Reasons, Outcome(pc, r)
  PROVE  ctl' \in Controls
<1> DEFINE w == [ctl EXCEPT !.pc = pc, !.reason = r]
<1>1. ctl' = [w EXCEPT !.behind = 0]
  BY DEF Outcome
<1>2. w \in Controls
  BY DEF Controls
<1> HIDE DEF w
<1> QED
  BY <1>1, <1>2 DEF Controls

\* The steps, for membership goals.
LEMMA StepNames ==
  {"none", "claim", "bind", "launch", "exit", "monitor", "reap", "freeze", "observe",
   "complete", "reconcile", "publish"} = Steps
BY DEF Steps, Watching, Finishing

\* What any step leaves in the controller.
LEMMA ControllerStepType == ASSUME TypeOK, Next PROVE ctl' \in Controls
<1>1. ctl \in Controls /\ s \in Records /\ clock \in Nat
  BY DEF TypeOK, Controls
<1>2. CASE UNCHANGED ctl
  BY <1>1, <1>2
<1>3. CASE StartController \/ BindFails \/ Publish \/ Exit
           \/ Recover \/ Die \/ Kill
  BY <1>3, StepNames, ControllerType
     DEF StartController, BindFails, Publish, Exit, Recover, Die, Kill, NoController
<1>4. CASE Claim \/ Bind
  <2>1. CASE ctl' = Controller("exit")
    BY <2>1, StepNames, ControllerType
  <2>2. CASE Goto("bind") \/ Goto("launch")
    BY <1>1, <2>2, StepNames DEF Goto, Controls
  <2> QED
    BY <1>4, <2>1, <2>2 DEF Claim, Bind
<1>5. CASE NoLaunch
  <2>1. CASE Outcome("observe", "interrupted")
    BY <1>1, <2>1, StepNames, ReasonNames, OutcomeType
  <2>2. CASE \E r \in {"unavailable", "preflight", "failed"}, bad \in BOOLEAN :
               ctl' = [ctl EXCEPT !.pc = "observe", !.reason = r, !.bad = bad]
    <3>1. PICK r \in {"unavailable", "preflight", "failed"}, bad \in BOOLEAN :
               ctl' = [ctl EXCEPT !.pc = "observe", !.reason = r, !.bad = bad]
      BY <2>2
    <3>2. r \in Reasons /\ "observe" \in Steps
      BY StepNames, ReasonNames
    <3> QED
      BY <1>1, <3>1, <3>2 DEF Controls
  <2> QED
    BY <1>5, <2>1, <2>2 DEF NoLaunch
<1>6. CASE Launch \/ LaunchFails \/ Poll \/ IdleTimeout
  <2>1. Decision \in Reasons
    BY ReasonNames DEF Decision
  <2>2. CASE Outcome("observe", "cancelled") \/ Outcome("observe", "failed")
             \/ Outcome("reap", Decision) \/ Outcome("reap", "idle")
    BY <1>1, <2>1, <2>2, StepNames, ReasonNames, OutcomeType
  <2>3. CASE Goto("monitor")
    BY <1>1, <2>3, StepNames DEF Goto, Controls
  <2>4. CASE ctl' = [ctl EXCEPT !.behind = 0]
    BY <1>1, <2>4 DEF Controls
  <2> QED
    BY <1>6, <2>2, <2>3, <2>4 DEF Launch, LaunchFails, Poll, IdleTimeout
<1>7. CASE Progress \/ Notice
  <2>1. CASE ctl' = [ctl EXCEPT !.behind = 0]
    BY <1>1, <2>1 DEF Controls
  <2> QED
    BY <1>1, <1>7, <2>1 DEF Progress, Notice, Note
<1>8. CASE StreamsEnd
  <2>1. Found("unavailable", 0, "none", TRUE) \in FindingSet
    BY ClassifiedType DEF Cleaned
  <2> QED
    BY <1>1, <1>8, <2>1, StepNames, ReasonNames, TakeType, OutcomeType DEF StreamsEnd
<1>9. CASE Reap
  <2>1. s.base + clock \in Nat
    BY <1>1, RecordNumbers
  <2> QED
    BY <1>1, <1>9, <2>1, StepNames DEF Reap, Controls
<1>10. CASE Freeze
  <2> DEFINE r == IF ctl.reason \notin {"none", "deadline"} THEN ctl.reason
                  ELSE IF ~s.cancel /\ Upper(ctl.end, s.elapsed) >= Lower(s.hard, ProviderMax(s))
                       THEN "deadline" ELSE "none"
  <2>1. r \in Reasons
    BY <1>1, ReasonNames DEF Controls
  <2>2. ctl' = [ctl EXCEPT !.pc = "observe", !.end = 0, !.reason = r]
    BY <1>10 DEF Freeze
  <2> HIDE DEF r
  <2> QED
    BY <1>1, <2>1, <2>2, StepNames DEF Controls
<1>11. CASE Observe
  BY <1>1, <1>11, StepNames, FindingsType, TakeType DEF Observe
<1>12. CASE ObserveCancel
  <2>1. PICK f \in Cleaned :
          Take("reconcile", IF s.cancel THEN Dropped("cancelled") ELSE f)
    BY <1>12 DEF ObserveCancel
  <2>2. (IF s.cancel THEN Dropped("cancelled") ELSE f) \in FindingSet
    BY <2>1, ReasonNames, DroppedType, ClassifiedType
  <2> QED
    BY <1>1, <2>1, <2>2, StepNames, TakeType
<1>13. CASE Reconcile
  <2>1. PICK snap \in {wt, NoTree} : ctl' = [ctl EXCEPT !.pc = "publish", !.snap = snap]
    BY <1>13 DEF Reconcile
  <2>2. snap \in Trees
    BY DEF TypeOK, Trees
  <2> QED
    BY <1>1, <2>1, <2>2, StepNames DEF Controls
<1>14. CASE Signal
  BY <1>1, <1>14 DEF Signal, Controls
<1>15. CASE Cancel \/ \E t \in 1..MaxSeconds : Extend(t)
  <2>1. Lower(2, ctl.behind + 1) \in 0..2
    BY <1>1 DEF Lower, Controls
  <2>2. CASE ctl' = [ctl EXCEPT !.behind = Lower(2, ctl.behind + 1)]
    <3> DEFINE b == Lower(2, ctl.behind + 1)
    <3> HIDE DEF b
    <3> QED
      BY <1>1, <2>1, <2>2 DEF Controls, b
  <2> QED
    BY <1>1, <1>15, <2>2 DEF Cancel, Extend, Behind
<1> QED
  BY <1>2, <1>3, <1>4, <1>5, <1>6, <1>7, <1>8, <1>9, <1>10, <1>11, <1>12, <1>13, <1>14,
     <1>15
     DEF Next, SpawnerStep, ControllerStep, Provider, Commands, Faults, HandshakeDone,
         ControllerLost, StartFailure, Tick, Write, ProviderExits, Create, Finalize, Orphan,
         StartChecks, EndChecks, RecoverChecks, QueuedSignal, AbandonStart,
         HandshakeTimeout, CheckerDies

\* The rest of the state.
LEMMA RestStep ==
  ASSUME TypeOK, Next
  PROVE  /\ spawner' \in {"idle", "created", "handshake", "startfail"}
         /\ checker' \in BOOLEAN /\ live' \subseteq Attempts /\ clock' \in Nat
         /\ wt' \in Candidates /\ popen' \in BOOLEAN
         /\ left' \in [Attempts -> Trees] /\ ran' \in [Attempts -> Nat]
         /\ strays' \subseteq Attempts
<1>1. /\ spawner \in {"idle", "created", "handshake", "startfail"}
      /\ checker \in BOOLEAN /\ live \subseteq Attempts /\ clock \in Nat
      /\ wt \in Candidates /\ popen \in BOOLEAN
      /\ left \in [Attempts -> Trees] /\ ran \in [Attempts -> Nat]
      /\ strays \subseteq Attempts
      /\ s.attempt \in Attempts
  BY DEF TypeOK, Records
<1>2. CASE UNCHANGED <<checker, live, clock, wt, ghosts>>
  BY <1>1, <1>2
     DEF ghosts, Next, SpawnerStep, ControllerStep, Provider, Commands, Faults,
         StartController, HandshakeDone, ControllerLost, StartFailure, Claim, Bind,
         BindFails, NoLaunch, Launch, Poll, Reap, Freeze, Observe, ObserveCancel, Reconcile,
         Publish, Exit, Progress, Notice, Note, IdleTimeout, StreamsEnd, Tick, Write,
         ProviderExits, Create, Cancel, Extend, Finalize, Orphan, StartChecks, EndChecks,
         RecoverChecks, QueuedSignal, AbandonStart, HandshakeTimeout, LaunchFails, Recover,
         Die, Kill, Signal, CheckerDies
<1>3. CASE \E o \in Origins : Create(o)
  <2>1. left' \in [Attempts -> Trees]
    BY <1>1, <1>3 DEF Create, Trees
  <2> QED
    BY <1>1, <1>3, <2>1 DEF Create
<1>4. CASE Launch \/ Tick \/ Orphan \/ EndChecks \/ RecoverChecks \/ CheckerDies \/ StartFailure
  <2>1. /\ live' \in {live, live \cup {s.attempt}} /\ clock' \in {clock, clock + 1, 0}
        /\ popen' \in {popen, TRUE} /\ spawner' \in {spawner, "idle"}
        /\ checker' \in {checker, FALSE} /\ UNCHANGED <<wt, left, ran, strays>>
    BY <1>4
       DEF Launch, Tick, Orphan, EndChecks, RecoverChecks, CheckerDies, StartFailure, ghosts
  <2>2. live' \subseteq Attempts /\ clock' \in Nat
    BY <1>1, <2>1
  <2>3. popen' \in BOOLEAN /\ checker' \in BOOLEAN
    BY <1>1, <2>1
  <2> QED
    BY <1>1, <2>1, <2>2, <2>3
<1>5. CASE Reap
  <2>1. left' \in [Attempts -> Trees]
    BY <1>1, <1>5 DEF Reap, Trees
  <2> QED
    BY <1>1, <1>5, <2>1 DEF Reap
<1>6. CASE Recover
  <2>1. left' \in [Attempts -> Trees]
    BY <1>1, <1>6 DEF Recover, Trees
  <2>2. live' \subseteq Attempts /\ strays' \subseteq Attempts
    BY <1>1, <1>6 DEF Recover
  <2> QED
    BY <1>1, <1>6, <2>1, <2>2 DEF Recover
<1>9. CASE Kill
  <2>1. strays' \subseteq Attempts
    BY <1>1, <1>9 DEF Kill
  <2> QED
    BY <1>1, <1>9, <2>1 DEF Kill
<1>7. CASE \E n \in Attempts : Write(n) \/ ProviderExits(n)
  <2>1. PICK n \in Attempts : Write(n) \/ ProviderExits(n)
    BY <1>7
  <2>2. n \in Candidates
    BY DEF Attempts, Candidates
  <2> QED
    BY <1>1, <2>1, <2>2 DEF Write, ProviderExits, ghosts
<1>8. CASE StartChecks
  <2>1. ran' \in [Attempts -> Nat]
    BY <1>1, <1>8 DEF StartChecks
  <2> QED
    BY <1>1, <1>8, <2>1 DEF StartChecks
<1> QED
  BY <1>2, <1>3, <1>4, <1>5, <1>6, <1>7, <1>8, <1>9
     DEF Next, SpawnerStep, ControllerStep, Provider, Commands, Faults, StartController,
         HandshakeDone, ControllerLost, Claim, Bind, BindFails, NoLaunch,
         Poll, Freeze, Observe, ObserveCancel, Reconcile, Publish, Exit, Progress, Notice,
         Note, IdleTimeout, StreamsEnd, Cancel, Extend, Finalize, QueuedSignal, AbandonStart,
         HandshakeTimeout, LaunchFails, Die, Signal

\* Every step keeps the types.
LEMMA TypeNext == TypeOK /\ [Next]_vars => TypeOK'
<1>1. ASSUME TypeOK, Next PROVE TypeOK'
  <2>1. s' \in Records
    BY <1>1, RecordStep
  <2>2. ctl' \in Controls
    BY <1>1, ControllerStepType
  <2> QED
    BY <1>1, <2>1, <2>2, RestStep DEF TypeOK, Controls
<1>2. ASSUME TypeOK, UNCHANGED vars PROVE TypeOK'
  BY <1>2 DEF TypeOK, vars
<1> QED
  BY <1>1, <1>2

\* Every variable keeps its type.
THEOREM TypeCorrect == Spec => []TypeOK
BY TypeInit, TypeNext, PTL DEF Spec

-----------------------------------------------------------------------------
(* What the actions do, field by field *)

SameLease(v, w) ==
    /\ w.attempt = v.attempt /\ w.base = v.base /\ w.hard = v.hard
    /\ w.spent = v.spent /\ w.checked = v.checked
SameCandidate(v, w) == w.report = v.report /\ w.tree = v.tree /\ w.avail = v.avail
SameEnd(v, w) ==
    w.status = v.status /\ w.reason = v.reason /\ w.remote = v.remote /\ w.cancel = v.cancel
SameRun(v, w) ==
    w.started = v.started /\ w.elapsed = v.elapsed /\ w.verifying = v.verifying

\* The controller without a finding.
Blank(c, pc) == c.pc = pc /\ c.report = 0 /\ c.snap = NoTree /\ c.reason = "none"
SameFound(c, d) == d.report = c.report /\ d.snap = c.snap /\ d.reason = c.reason

\* A new controller has found nothing.
LEMMA BlankController == \A pc : Blank(Controller(pc), pc)
BY DEF Blank, Controller

\* The record w ends the attempt of the record v.
EndOf(v, w, st, r) ==
    /\ SameLease(v, w) /\ SameRun(v, w)
    /\ w.report = v.report /\ w.tree = v.tree /\ w.cancel = v.cancel
    /\ w.status = st /\ w.reason = r
OwnedEnd(v, w) ==
    /\ v.cancel => EndOf(v, w, "cancelled", "cancelled")
    /\ ~v.cancel => EndOf(v, w, "failed", "unavailable")

\* A projection ends the attempt and keeps lease, clock and candidate.
LEMMA ProjectionEnds ==
  ASSUME NEW v \in Records, NEW st \in Active \cup Terminal, NEW r \in Reasons,
         NEW bad \in BOOLEAN, NEW remote \in BOOLEAN, NEW allow \in BOOLEAN
  PROVE  LET w == Projection(v, st, r, bad, remote, allow)
         IN EndOf(v, w, st, r) /\ w.remote = remote
BY DEF Records, Projection, EndOf, SameLease, SameRun

\* Replacing a field that no end speaks of.
LEMMA EndKept ==
  ASSUME NEW v \in Records, NEW w \in Records, NEW st, NEW r, EndOf(v, w, st, r), NEW b
  PROVE  /\ EndOf(v, [w EXCEPT !.resume = b], st, r)
         /\ EndOf(v, [w EXCEPT !.remote = b], st, r)
         /\ [w EXCEPT !.resume = b].remote = w.remote
BY DEF Records, EndOf, SameLease, SameRun

\* How the controller ends an attempt on its own paths.
LEMMA OwnedEnds ==
  ASSUME NEW v \in Records, NEW b \in BOOLEAN
  PROVE  /\ OwnedEnd(v, Owned(v, b)) /\ (v.cancel => Owned(v, b).remote = b)
         /\ OwnedEnd(v, OwnedUnscanned(v)) /\ OwnedUnscanned(v).remote = v.cancel
         /\ OwnedEnd(v, [OwnedUnscanned(v) EXCEPT !.remote = FALSE])
<1>1. v.cancel \in BOOLEAN
  BY DEF Records
<1>2. /\ {"failed", "cancelled"} \subseteq Active \cup Terminal
      /\ {"unavailable", "cancelled"} \subseteq Reasons
  BY DEF Active, Terminal, Reasons
<1>3. OwnedEnd(v, Owned(v, b)) /\ (v.cancel => Owned(v, b).remote = b)
  <2>1. CASE v.cancel
    <3>1. Owned(v, b) = Projection(v, "cancelled", "cancelled", FALSE, b, TRUE)
      BY <2>1 DEF Owned
    <3> DEFINE w == Projection(v, "cancelled", "cancelled", FALSE, b, TRUE)
    <3>2. EndOf(v, w, "cancelled", "cancelled") /\ w.remote = b
      BY <1>2, ProjectionEnds, ZenonT(30)
    <3> HIDE DEF w
    <3>3. Owned(v, b) = w
      BY <3>1 DEF w
    <3> QED
      BY <2>1, <3>2, <3>3 DEF OwnedEnd
  <2>2. CASE ~v.cancel
    <3>1. Owned(v, b) = Projection(v, "failed", "unavailable", TRUE, FALSE, FALSE)
      BY <2>2 DEF Owned
    <3>2. EndOf(v, Owned(v, b), "failed", "unavailable")
      BY <1>2, <3>1, ProjectionEnds, ZenonT(30)
    <3> QED
      BY <2>2, <3>2 DEF OwnedEnd
  <2> QED
    BY <1>1, <2>1, <2>2
<1> DEFINE st == IF v.cancel THEN "cancelled" ELSE "failed"
           r == IF v.cancel THEN "cancelled" ELSE "unavailable"
           u == Projection(v, st, r, FALSE, v.cancel, FALSE)
<1>4. st \in Active \cup Terminal /\ r \in Reasons
  BY <1>1, <1>2
<1>5. OwnedUnscanned(v) = [u EXCEPT !.resume = FALSE]
  BY DEF OwnedUnscanned
<1>6. /\ v.cancel => st = "cancelled" /\ r = "cancelled"
      /\ ~v.cancel => st = "failed" /\ r = "unavailable"
  OBVIOUS
<1> HIDE DEF st, r
<1>7. u \in Records /\ EndOf(v, u, st, r) /\ u.remote = v.cancel
  BY <1>1, <1>4, ProjectionType, ProjectionEnds, ZenonT(30)
<1> HIDE DEF u
<1>8. /\ OwnedUnscanned(v) \in Records /\ EndOf(v, OwnedUnscanned(v), st, r)
      /\ OwnedUnscanned(v).remote = v.cancel
  <2> DEFINE x == [u EXCEPT !.resume = FALSE]
  <2>1. x \in Records
    BY <1>7, FlagType
  <2>2. EndOf(v, x, st, r) /\ x.remote = u.remote
    BY <1>7, EndKept
  <2> HIDE DEF x
  <2>3. OwnedUnscanned(v) = x
    BY <1>5 DEF x
  <2> QED
    BY <1>7, <2>1, <2>2, <2>3
<1>9. EndOf(v, [OwnedUnscanned(v) EXCEPT !.remote = FALSE], st, r)
  BY <1>8, EndKept
<1>10. \A w : EndOf(v, w, st, r) => OwnedEnd(v, w)
  BY <1>6 DEF OwnedEnd
<1> QED
  BY <1>3, <1>8, <1>9, <1>10

\* What the next attempt starts from: a continuation keeps the candidate.
LEMMA NextAttemptEffect ==
  ASSUME NEW v \in Records, NEW o \in Origins, v.attempt < MaxCycles
  PROVE  LET w == NextAttempt(v, o) IN
         /\ w.attempt = v.attempt + 1 /\ w.base = v.elapsed /\ w.elapsed = v.elapsed
         /\ w.hard = Lower(ProviderMax(v), v.elapsed + HardSeconds)
         /\ w.spent = v.spent /\ w.checked = v.checked
         /\ w.status = "queued" /\ w.reason = "none" /\ ~w.cancel /\ ~w.started
         /\ ~w.verifying
         /\ o = "continue" => SameCandidate(v, w)
         /\ o # "continue" => w.report = 0
BY DEF NextAttempt, Fresh, SameCandidate

\* What the controller publishes for a finding.
LEMMA PublishedEffect ==
  ASSUME TypeOK, NEW f \in FindingSet
  PROVE  LET w == Published(f)
             keep == f.report = 0 /\ s.origin = "continue" /\ s.report # 0 IN
         /\ SameLease(s, w) /\ SameRun(s, w) /\ w.cancel = s.cancel
         /\ w.status = Status(f.reason) /\ w.reason = f.reason
         /\ w.report = IF keep THEN s.report ELSE f.report
         /\ w.tree = IF ctl.snap # NoTree THEN ctl.snap ELSE IF keep THEN s.tree ELSE NoTree
         /\ w.avail => ~f.bad
         /\ f.reason \in {"cancelled", "interrupted"} => w.remote
BY DEF Published, TypeOK, Records, SameLease, SameRun

\* The end of the checks charges their time and leaves the rest alone.
LEMMA ChargedEffect ==
  ASSUME TypeOK
  PROVE  /\ SameCandidate(s, Charged) /\ SameEnd(s, Charged) /\ ~Charged.verifying
         /\ Charged.attempt = s.attempt /\ Charged.base = s.base /\ Charged.hard = s.hard
         /\ Charged.checked = s.checked /\ Charged.started = s.started
         /\ Charged.elapsed = s.elapsed
BY DEF Charged, TypeOK, Records, SameCandidate, SameEnd

Unmoved(v, w) ==
    SameLease(v, w) /\ SameCandidate(v, w) /\ SameEnd(v, w) /\ SameRun(v, w)

\* The steps that replace a few fields of the record.
LEMMA WriteEffects ==
  ASSUME TypeOK
  PROVE  /\ Claim /\ ~s.cancel => Unmoved(s, s')
         /\ Launch /\ ~s.cancel =>
              /\ SameLease(s, s') /\ SameCandidate(s, s') /\ s'.reason = s.reason
              /\ s'.cancel = s.cancel /\ s'.status = "running" /\ s'.remote = s.remote
              /\ s'.elapsed = s.elapsed /\ s'.verifying = s.verifying
         /\ LaunchFails =>
              /\ SameLease(s, s') /\ SameCandidate(s, s') /\ SameRun(s, s')
              /\ s'.reason = s.reason /\ s'.cancel = s.cancel /\ s'.status = "running"
              /\ s'.remote = s.remote
         /\ Freeze =>
              /\ SameLease(s, s') /\ SameCandidate(s, s') /\ SameEnd(s, s')
              /\ ~s'.started /\ s'.verifying = s.verifying
              /\ s'.elapsed = Upper(ctl.end, s.elapsed)
         /\ Progress \/ Notice =>
              /\ SameLease(s, s') /\ SameCandidate(s, s') /\ SameEnd(s, s')
              /\ s'.started = s.started /\ s'.verifying = s.verifying
         /\ Tick \/ Finalize => Unmoved(s, s')
         /\ Cancel =>
              /\ SameLease(s, s') /\ SameCandidate(s, s') /\ SameRun(s, s')
              /\ s'.status = "cancel-requested" /\ s'.cancel /\ s'.reason = s.reason
              /\ s'.remote = s.remote
         /\ StartChecks =>
              /\ SameCandidate(s, s') /\ SameEnd(s, s') /\ s'.attempt = s.attempt
              /\ s'.base = s.base /\ s'.hard = s.hard /\ s'.spent = s.spent
              /\ s'.started = s.started /\ s'.elapsed = s.elapsed /\ s'.verifying
              /\ s'.checked = s.attempt
<1> USE DEF Unmoved, SameLease, SameCandidate, SameEnd, SameRun
<1>1. s \in Records
  BY DEF TypeOK
<1>2. Claim /\ ~s.cancel => Unmoved(s, s')
  BY <1>1 DEF Claim, Records
<1>3. Launch /\ ~s.cancel =>
        /\ SameLease(s, s') /\ SameCandidate(s, s') /\ s'.reason = s.reason
        /\ s'.cancel = s.cancel /\ s'.status = "running" /\ s'.remote = s.remote
        /\ s'.elapsed = s.elapsed /\ s'.verifying = s.verifying
  BY <1>1, ZenonT(30) DEF Launch, Records
<1>4. LaunchFails =>
        /\ SameLease(s, s') /\ SameCandidate(s, s') /\ SameRun(s, s')
        /\ s'.reason = s.reason /\ s'.cancel = s.cancel /\ s'.status = "running"
        /\ s'.remote = s.remote
  BY <1>1 DEF LaunchFails, Records
<1>5. Freeze =>
        /\ SameLease(s, s') /\ SameCandidate(s, s') /\ SameEnd(s, s')
        /\ ~s'.started /\ s'.verifying = s.verifying
        /\ s'.elapsed = Upper(ctl.end, s.elapsed)
  BY <1>1 DEF Freeze, Records
<1>6. Progress \/ Notice =>
        /\ SameLease(s, s') /\ SameCandidate(s, s') /\ SameEnd(s, s')
        /\ s'.started = s.started /\ s'.verifying = s.verifying
  <2>1. CASE s' = s
    BY <2>1
  <2>2. CASE s' = [s EXCEPT !.elapsed = s.base + clock]
    BY <1>1, <2>2 DEF Records
  <2>3. ASSUME NEW c, NEW d,
               s' = [s EXCEPT !.progress = "fresh", !.elapsed = s.base + clock,
                              !.conv = c, !.resume = d]
        PROVE  /\ SameLease(s, s') /\ SameCandidate(s, s') /\ SameEnd(s, s')
               /\ s'.started = s.started /\ s'.verifying = s.verifying
    BY <1>1, <2>3 DEF Records
  <2> QED
    BY <2>1, <2>2, <2>3 DEF Progress, Notice, Note
<1>7. Tick \/ Finalize => Unmoved(s, s')
  BY <1>1, ZenonT(30) DEF Tick, Finalize, Records
<1>8. Cancel =>
        /\ SameLease(s, s') /\ SameCandidate(s, s') /\ SameRun(s, s')
        /\ s'.status = "cancel-requested" /\ s'.cancel /\ s'.reason = s.reason
        /\ s'.remote = s.remote
  BY <1>1 DEF Cancel, Records
<1>9. StartChecks =>
        /\ SameCandidate(s, s') /\ SameEnd(s, s') /\ s'.attempt = s.attempt
        /\ s'.base = s.base /\ s'.hard = s.hard /\ s'.spent = s.spent
        /\ s'.started = s.started /\ s'.elapsed = s.elapsed /\ s'.verifying
        /\ s'.checked = s.attempt
  BY <1>1 DEF StartChecks, Records
<1> HIDE DEF Unmoved, SameLease, SameCandidate, SameEnd, SameRun
<1> QED
  BY <1>2, <1>3, <1>4, <1>5, <1>6, <1>7, <1>8, <1>9

\* An extension moves the lease and nothing else.
LEMMA ExtendEffect ==
  ASSUME TypeOK, NEW t, Extend(t)
  PROVE  /\ SameCandidate(s, s') /\ SameEnd(s, s') /\ SameRun(s, s')
         /\ s'.attempt = s.attempt /\ s'.base = s.base /\ s'.spent = s.spent
         /\ s'.checked = s.checked /\ s'.hard = s.hard + t
BY DEF Extend, TypeOK, Records, SameCandidate, SameEnd, SameRun

\* The steps that change the controller and keep it.
LEMMA ControllerEffects ==
  ASSUME TypeOK
  PROVE  /\ \A pc : Goto(pc) => ctl'.pc = pc /\ SameFound(ctl, ctl')
         /\ \A pc, f : Take(pc, f) =>
              /\ ctl'.pc = pc /\ ctl'.reason = f.reason /\ ctl'.report = f.report
              /\ ctl'.snap = ctl.snap
         /\ \A pc, r : Outcome(pc, r) =>
              /\ ctl'.pc = pc /\ ctl'.reason = r /\ ctl'.report = ctl.report
              /\ ctl'.snap = ctl.snap
         /\ Behind => ctl'.pc = ctl.pc /\ SameFound(ctl, ctl')
         /\ Progress \/ Notice \/ Signal => ctl'.pc = ctl.pc /\ SameFound(ctl, ctl')
         /\ Reap => ctl'.pc = "freeze" /\ SameFound(ctl, ctl')
         /\ Freeze =>
              /\ ctl'.pc = "observe" /\ ctl'.report = ctl.report /\ ctl'.snap = ctl.snap
         /\ NoLaunch =>
              /\ ctl'.pc = "observe" /\ ctl'.report = ctl.report /\ ctl'.snap = ctl.snap
              /\ ctl'.reason \in {"unavailable", "preflight", "failed", "interrupted"}
         /\ Reconcile =>
              /\ ctl'.pc = "publish" /\ ctl'.report = ctl.report
              /\ ctl'.reason = ctl.reason
              /\ ctl'.snap \in IF ctl.report = 0 THEN {NoTree} ELSE {wt, NoTree}
<1> USE DEF SameFound
<1>1. ctl \in Controls
  BY DEF TypeOK, Controls
<1>2. \A pc : Goto(pc) => ctl'.pc = pc /\ SameFound(ctl, ctl')
  BY <1>1 DEF Goto, Controls
<1>3. \A pc, f : Take(pc, f) =>
        /\ ctl'.pc = pc /\ ctl'.reason = f.reason /\ ctl'.report = f.report
        /\ ctl'.snap = ctl.snap
  BY <1>1 DEF Take, Controls
<1>4. \A pc, r : Outcome(pc, r) =>
        /\ ctl'.pc = pc /\ ctl'.reason = r /\ ctl'.report = ctl.report
        /\ ctl'.snap = ctl.snap
  BY <1>1 DEF Outcome, Controls
<1>5. Behind => ctl'.pc = ctl.pc /\ SameFound(ctl, ctl')
  BY <1>1 DEF Behind, Controls
<1>6. Progress \/ Notice \/ Signal => ctl'.pc = ctl.pc /\ SameFound(ctl, ctl')
  BY <1>1 DEF Progress, Notice, Note, Signal, Controls
<1>7. Reap => ctl'.pc = "freeze" /\ SameFound(ctl, ctl')
  BY <1>1 DEF Reap, Controls
<1>8. Freeze =>
        /\ ctl'.pc = "observe" /\ ctl'.report = ctl.report /\ ctl'.snap = ctl.snap
  BY <1>1 DEF Freeze, Controls
<1>9. NoLaunch =>
        /\ ctl'.pc = "observe" /\ ctl'.report = ctl.report /\ ctl'.snap = ctl.snap
        /\ ctl'.reason \in {"unavailable", "preflight", "failed", "interrupted"}
  BY <1>1 DEF NoLaunch, Outcome, Controls
<1>10. Reconcile =>
        /\ ctl'.pc = "publish" /\ ctl'.report = ctl.report
        /\ ctl'.reason = ctl.reason
        /\ ctl'.snap \in IF ctl.report = 0 THEN {NoTree} ELSE {wt, NoTree}
  BY <1>1 DEF Reconcile, Controls
<1> HIDE DEF SameFound
<1> QED
  BY <1>2, <1>3, <1>4, <1>5, <1>6, <1>7, <1>8, <1>9, <1>10

\* The steps that end an attempt without a finding of the controller.
LEMMA EndEffects ==
  ASSUME TypeOK
  PROVE  /\ QueuedSignal =>
              \/ s' = s
              \/ /\ s.status = "queued" /\ s'.remote = TRUE
                 /\ \/ EndOf(s, s', "failed", "interrupted")
                    \/ EndOf(s, s', "cancelled", "interrupted")
         /\ StartFailure =>
              \/ s' = s
              \/ s.status \in Active /\ EndOf(s, s', "failed", "unavailable")
         /\ Orphan => EndOf(s, s', "orphaned", "unavailable")
         /\ (Claim /\ s.cancel) \/ BindFails => OwnedEnd(s, s')
         /\ Recover =>
              /\ SameLease(s, s') /\ s'.report = s.report /\ s'.tree = s.tree
              /\ s'.cancel = s.cancel /\ ~s'.started /\ s'.verifying = s.verifying
              /\ s.cancel => s'.status = "cancelled" /\ s'.reason = "cancelled"
                             /\ s'.remote = TRUE
              /\ ~s.cancel => s'.status = "failed" /\ s'.reason = "unavailable"
<1>1. s \in Records /\ clock \in Nat /\ ctl.end \in Nat
  BY DEF TypeOK
<1>2. {"failed", "cancelled", "orphaned"} \subseteq Active \cup Terminal
      /\ {"interrupted", "unavailable", "cancelled"} \subseteq Reasons
  BY DEF Active, Terminal, Reasons
<1>3. ASSUME QueuedSignal
      PROVE  \/ s' = s
             \/ /\ s.status = "queued" /\ s'.remote = TRUE
                /\ \/ EndOf(s, s', "failed", "interrupted")
                   \/ EndOf(s, s', "cancelled", "interrupted")
  <2> DEFINE f == Projection(s, "failed", "interrupted", FALSE, TRUE, TRUE)
             c == Projection(s, "cancelled", "interrupted", FALSE, TRUE, TRUE)
  <2>1. s' = s \/ (s.status = "queued" /\ s' \in {f, c})
    BY <1>3 DEF QueuedSignal
  <2>2. EndOf(s, f, "failed", "interrupted") /\ f.remote = TRUE
    BY <1>1, <1>2, ProjectionEnds
  <2>3. EndOf(s, c, "cancelled", "interrupted") /\ c.remote = TRUE
    BY <1>1, <1>2, ProjectionEnds
  <2> HIDE DEF f, c
  <2> QED
    BY <2>1, <2>2, <2>3
<1>4. ASSUME StartFailure
      PROVE  \/ s' = s
             \/ s.status \in Active /\ EndOf(s, s', "failed", "unavailable")
  <2> DEFINE f == Projection(s, "failed", "unavailable", FALSE, FALSE, TRUE)
  <2>1. s' = s \/ (s.status \in Active /\ s' = f)
    BY <1>1, <1>4, RecordNumbers DEF StartFailure
  <2>2. EndOf(s, f, "failed", "unavailable")
    BY <1>1, <1>2, ProjectionEnds
  <2> HIDE DEF f
  <2> QED
    BY <2>1, <2>2
<1>5. ASSUME Orphan PROVE EndOf(s, s', "orphaned", "unavailable")
  BY <1>1, <1>2, <1>5, ProjectionEnds DEF Orphan
<1>6. ASSUME (Claim /\ s.cancel) \/ BindFails PROVE OwnedEnd(s, s')
  <2>1. s' \in {Owned(s, FALSE), [OwnedUnscanned(s) EXCEPT !.remote = FALSE]}
    BY <1>6 DEF Claim, BindFails
  <2> QED
    BY <1>1, <2>1, OwnedEnds
<1>7. ASSUME Recover
      PROVE  /\ SameLease(s, s') /\ s'.report = s.report /\ s'.tree = s.tree
             /\ s'.cancel = s.cancel /\ ~s'.started /\ s'.verifying = s.verifying
             /\ s.cancel => s'.status = "cancelled" /\ s'.reason = "cancelled"
                            /\ s'.remote = TRUE
             /\ ~s.cancel => s'.status = "failed" /\ s'.reason = "unavailable"
  <2> DEFINE n == IF ctl.pc \in {"monitor", "reap"} THEN Upper(s.elapsed, s.base + clock)
                  ELSE Upper(s.elapsed, ctl.end)
             v == [s EXCEPT !.started = FALSE, !.elapsed = n]
  <2>1. s.base + clock \in Nat /\ s.elapsed \in Nat
    BY <1>1, RecordNumbers
  <2>2. n \in Nat
    BY <1>1, <2>1, LimitType
  <2>3. s' \in {Owned(v, TRUE), OwnedUnscanned(v)}
    BY <1>7 DEF Recover
  <2> HIDE DEF n
  <2>4. v \in Records
    BY <1>1, <2>2, StoppedType
  <2>5. /\ SameLease(s, v) /\ v.report = s.report /\ v.tree = s.tree
        /\ v.cancel = s.cancel /\ ~v.started /\ v.verifying = s.verifying
    BY <1>1 DEF Records, SameLease
  <2> HIDE DEF v
  <2>6. OwnedEnd(v, s') /\ (v.cancel => s'.remote = TRUE)
    <3>1. CASE s' = Owned(v, TRUE)
      BY <2>4, <3>1, OwnedEnds
    <3>2. CASE s' = OwnedUnscanned(v)
      <4>1. v.cancel \in BOOLEAN
        BY <2>4 DEF Records
      <4> QED
        BY <2>4, <3>2, <4>1, OwnedEnds
    <3> QED
      BY <2>3, <3>1, <3>2
  <2> QED
    BY <2>5, <2>6 DEF OwnedEnd, EndOf, SameLease, SameRun
<1> QED
  BY <1>3, <1>4, <1>5, <1>6, <1>7

-----------------------------------------------------------------------------
(* The inductive invariant *)

Before == {"claim", "bind", "launch"}

\* Who holds the lifecycle lock, and what the record says meanwhile.
LockInv ==
    /\ spawner = "created" => ctl.pc = "none" /\ ~checker /\ s.status \in Active
    /\ checker => s.verifying /\ ctl.pc = "none"
    /\ s.verifying => s.status \in {"succeeded", "failed"}
    /\ ctl.pc \notin {"none", "exit"} => s.status \in Active
    /\ spawner = "created" \/ ctl.pc \in Before => ~popen /\ ~s.started
    /\ ctl.pc \in Watching => popen

\* Which provider may be alive, and who watches it: all but the strays belong to
\* the current attempt, and that one is watched, or its record active or orphaned.
OneLive ==
    live \ strays # {} =>
        /\ live \ strays = {s.attempt}
        /\ \/ s.status = "orphaned"
           \/ /\ s.status \in Active
              /\ ctl.pc \in {"monitor", "reap"} \/ (ctl.pc = "none" /\ spawner = "idle")

\* When the provider of the current attempt may be alive, and what the record
\* says of the attempt if it is over.
AliveEnd ==
    Alive(s.attempt) =>
        /\ spawner # "created" /\ ctl.pc \in {"none", "monitor", "reap", "exit"}
        /\ s.status \in {"succeeded", "failed", "cancelled"} =>
             s.reason \in {"unavailable", "cancelled"}

LiveInv == live \subseteq 1..s.attempt /\ OneLive /\ AliveEnd

\* Every step keeps LockInv: the lifecycle lock has one holder at a time.
LEMMA LockNext == ASSUME TypeOK, LockInv, Next PROVE LockInv'
<1> USE DEF LockInv, Before, Unmoved, SameLease, SameEnd, SameRun
<1>1. s \in Records /\ ctl \in Controls
  BY DEF TypeOK, Controls
<1>2. /\ Active = {"queued", "running", "cancel-requested"}
      /\ Watching = {"monitor", "reap", "freeze"}
      /\ Finishing = {"observe", "complete", "reconcile", "publish"}
  BY DEF Active, Watching, Finishing
<1>3. CASE \E o \in Origins : Create(o)
  <2>1. PICK o \in Origins : Create(o)
    BY <1>3
  <2>2. s.attempt < MaxCycles
    BY <2>1 DEF Create, Eligible, Origins, ResumeEligible, RestartGuard, ContinueFacts
  <2>3. s'.status = "queued" /\ ~s'.started /\ ~s'.verifying
    BY <1>1, <2>1, <2>2, NextAttemptEffect DEF Create
  <2> QED
    BY <1>2, <2>1, <2>3 DEF Create, LockFree
<1>4. CASE QueuedSignal
  BY <1>2, <1>4, EndEffects DEF QueuedSignal, EndOf, ghosts
<1>5. CASE StartController
  <2>1. Blank(ctl', "claim")
    BY <1>5, BlankController DEF StartController
  <2> QED
    BY <1>2, <1>5, <2>1 DEF StartController, Blank, ghosts
<1>6. CASE AbandonStart \/ HandshakeDone \/ ControllerLost \/ HandshakeTimeout
  BY <1>2, <1>6 DEF AbandonStart, HandshakeDone, ControllerLost, HandshakeTimeout, ghosts
<1>7. CASE Exit \/ Die \/ Kill
  <2>1. Blank(ctl', "none")
    BY <1>7, BlankController DEF Exit, Die, Kill, NoController
  <2> QED
    BY <1>2, <1>7, <2>1 DEF Exit, Die, Kill, Blank, ghosts
<1>8. CASE StartFailure
  BY <1>2, <1>8, EndEffects DEF StartFailure, LockFree, EndOf, ghosts
<1>9. CASE Orphan
  BY <1>2, <1>9, EndEffects DEF Orphan, LockFree, EndOf, ghosts
<1>10. CASE Claim
  <2>1. CASE s.cancel
    BY <1>2, <1>10, <2>1, EndEffects, BlankController
       DEF Claim, At, OwnedEnd, EndOf, Blank, ghosts
  <2>2. CASE ~s.cancel
    BY <1>2, <1>10, <2>2, WriteEffects, ControllerEffects DEF Claim, At, ghosts
  <2> QED
    BY <2>1, <2>2
<1>11. CASE Bind
  BY <1>2, <1>11, ControllerEffects DEF Bind, At, ghosts
<1>12. CASE BindFails
  <2>1. Blank(ctl', "exit") /\ At("bind") /\ UNCHANGED <<spawner, checker, popen>>
    BY <1>12, BlankController DEF BindFails, ghosts
  <2>2. SameRun(s, s')
    BY <1>12, EndEffects DEF OwnedEnd, EndOf
  <2> QED
    BY <1>2, <2>1, <2>2 DEF At, Blank
<1>13. CASE NoLaunch
  BY <1>2, <1>13, ControllerEffects DEF NoLaunch, At, ghosts
<1>14. CASE Launch
  <2>1. CASE s.cancel
    BY <1>2, <1>14, <2>1, ControllerEffects DEF Launch, At
  <2>2. CASE ~s.cancel
    BY <1>2, <1>14, <2>2, WriteEffects, ControllerEffects DEF Launch, At
  <2> QED
    BY <2>1, <2>2
<1>15. CASE LaunchFails
  BY <1>2, <1>15, WriteEffects, ControllerEffects DEF LaunchFails, At, ghosts
<1>16. CASE Poll
  <2>1. ctl'.pc \in {"monitor", "reap"}
    BY <1>1, <1>16, ControllerEffects DEF Poll, At, Controls
  <2> QED
    BY <1>2, <1>16, <2>1 DEF Poll, At, ghosts
<1>17. CASE IdleTimeout \/ StreamsEnd \/ Reap
  <2>1. ctl.pc \in {"monitor", "reap"} /\ UNCHANGED <<s, spawner, checker, popen>>
    BY <1>17 DEF IdleTimeout, StreamsEnd, Reap, At, ghosts
  <2>2. ctl'.pc \in {"reap", "freeze"}
    BY <1>17, ControllerEffects DEF IdleTimeout, StreamsEnd
  <2> QED
    BY <1>2, <2>1, <2>2
<1>18. CASE Progress \/ Notice
  <2>1. UNCHANGED <<spawner, checker, popen>> /\ At("monitor")
    BY <1>18 DEF Progress, Notice, Note, ghosts
  <2> QED
    BY <1>2, <1>18, <2>1, WriteEffects, ControllerEffects DEF At
<1>19. CASE Freeze
  BY <1>2, <1>19, WriteEffects, ControllerEffects DEF Freeze, At, ghosts
<1>20. CASE Observe \/ ObserveCancel \/ Reconcile
  <2>1. ctl'.pc \in Finishing
    BY <1>2, <1>20, ControllerEffects DEF Observe, ObserveCancel, Reconcile
  <2>2. ctl.pc \in Finishing /\ UNCHANGED <<s, spawner, checker, popen>>
    BY <1>2, <1>20 DEF Observe, ObserveCancel, Reconcile, At, ghosts
  <2> QED
    BY <1>2, <2>1, <2>2
<1>21. CASE Publish
  <2>1. SameRun(s, s')
    BY <1>21, ClassifiedType, PublishedEffect DEF Publish
  <2> QED
    BY <1>2, <1>21, <2>1, BlankController DEF Publish, At, Blank, ghosts
<1>22. CASE Recover
  BY <1>2, <1>22, EndEffects, BlankController DEF Recover, Blank
<1>23. CASE Signal
  BY <1>2, <1>23, ControllerEffects DEF Signal, ghosts
<1>24. CASE \E n \in Attempts : Write(n) \/ ProviderExits(n)
  BY <1>24 DEF Write, ProviderExits, ghosts
<1>25. CASE Tick \/ Finalize
  BY <1>2, <1>25, WriteEffects DEF Tick, Finalize, ghosts
<1>26. CASE Cancel
  BY <1>2, <1>26, WriteEffects, ControllerEffects DEF Cancel, SameFound, ghosts
<1>27. CASE \E t \in 1..MaxSeconds : Extend(t)
  BY <1>2, <1>27, ExtendEffect, ControllerEffects DEF Extend, SameFound, ghosts
<1>28. CASE StartChecks
  BY <1>2, <1>28, WriteEffects DEF StartChecks, LockFree
<1>29. CASE EndChecks \/ RecoverChecks
  BY <1>2, <1>29, ChargedEffect DEF EndChecks, RecoverChecks, LockFree, ghosts
<1>30. CASE CheckerDies
  BY <1>2, <1>30 DEF CheckerDies, ghosts
<1> QED
  BY <1>3, <1>4, <1>5, <1>6, <1>7, <1>8, <1>9, <1>10, <1>11, <1>12, <1>13, <1>14, <1>15,
     <1>16, <1>17, <1>18, <1>19, <1>20, <1>21, <1>22, <1>23, <1>24, <1>25, <1>26, <1>27,
     <1>28, <1>29, <1>30
     DEF Next, SpawnerStep, ControllerStep, Provider, Commands, Faults

\* Every step keeps OneLive: a provider that lives is watched, or its record is active
\* or orphaned, or a failure left it behind.
LEMMA OneLiveNext == ASSUME TypeOK, LockInv, OneLive, Next PROVE OneLive'
<1> USE DEF LockInv, OneLive, Before, Unmoved, SameLease, SameEnd, SameRun
<1>1. s \in Records /\ ctl \in Controls
  BY DEF TypeOK, Controls
<1>2. /\ Active = {"queued", "running", "cancel-requested"}
      /\ Watching = {"monitor", "reap", "freeze"}
      /\ Finishing = {"observe", "complete", "reconcile", "publish"}
  BY DEF Active, Watching, Finishing
<1>3. CASE \E o \in Origins : Create(o)
  <2>1. PICK o \in Origins : Create(o)
    BY <1>3
  <2>2. s.status \notin Active \cup {"orphaned"}
    BY <1>1, <1>2, <2>1
       DEF Create, Eligible, Origins, ResumeEligible, RestartGuard, ContinueFacts, Records,
           Terminal
  <2> QED
    BY <2>1, <2>2 DEF Create
<1>4. CASE QueuedSignal
  BY <1>2, <1>4 DEF QueuedSignal, ghosts
<1>5. CASE StartController
  BY <1>2, <1>5 DEF StartController, ghosts
<1>6. CASE AbandonStart \/ HandshakeDone \/ ControllerLost \/ HandshakeTimeout
  <2>1. UNCHANGED <<s, ctl, live, strays>> /\ spawner # "idle" /\ spawner' # "created"
    BY <1>6 DEF AbandonStart, HandshakeDone, ControllerLost, HandshakeTimeout, ghosts
  <2> QED
    BY <1>2, <2>1
<1>7. CASE Exit \/ Die
  <2>1. Blank(ctl', "none") /\ UNCHANGED <<s, live, strays>>
    BY <1>7, BlankController DEF Exit, Die, NoController, ghosts
  <2>2. ctl.pc \in {"claim", "bind", "launch", "exit"} \cup Finishing
    BY <1>7 DEF Exit, Die, At
  <2> QED
    BY <1>2, <2>1, <2>2 DEF Blank
<1>8. CASE StartFailure
  BY <1>2, <1>8, EndEffects DEF StartFailure, LockFree, EndOf, ghosts
<1>9. CASE Orphan
  BY <1>2, <1>9, EndEffects DEF Orphan, EndOf, ghosts
<1>10. CASE ctl.pc \in {"claim", "bind", "launch"} /\ UNCHANGED <<live, strays>>
  BY <1>2, <1>10
<1>11. CASE Launch
  <2>1. live \ strays = {} /\ UNCHANGED strays
    BY <1>2, <1>11 DEF Launch, At
  <2>2. CASE s.cancel
    BY <1>11, <2>1, <2>2 DEF Launch
  <2>3. CASE ~s.cancel
    <3>1. live' \ strays' \subseteq {s.attempt}
      BY <1>11, <2>1, <2>3 DEF Launch
    <3>2. s'.attempt = s.attempt /\ s'.status \in Active /\ ctl'.pc = "monitor"
      BY <1>2, <1>11, <2>3, WriteEffects, ControllerEffects DEF Launch
    <3> QED
      BY <3>1, <3>2
  <2> QED
    BY <2>2, <2>3
<1>12. CASE Poll \/ IdleTimeout \/ StreamsEnd
  <2>1. ctl'.pc \in {"monitor", "reap"} /\ UNCHANGED <<s, live, strays>> /\ At("monitor")
    BY <1>1, <1>12, ControllerEffects
       DEF Poll, IdleTimeout, StreamsEnd, At, Controls, ghosts
  <2> QED
    BY <1>2, <2>1 DEF At
<1>13. CASE Reap \/ Recover
  <2>1. live' \ strays' \subseteq (live \ strays) \ {s.attempt}
    BY <1>13 DEF Reap, Recover
  <2> QED
    BY <2>1
<1>14. CASE Progress \/ Notice
  <2>1. UNCHANGED <<live, strays>> /\ At("monitor")
    BY <1>14 DEF Progress, Notice, Note, ghosts
  <2> QED
    BY <1>2, <1>14, <2>1, WriteEffects, ControllerEffects DEF At
<1>15. CASE ctl.pc \in Finishing \cup {"freeze"} /\ UNCHANGED <<live, strays>>
  BY <1>2, <1>15
<1>16. CASE Signal
  BY <1>2, <1>16, ControllerEffects DEF Signal, ghosts
<1>17. CASE \E n \in Attempts : Write(n) \/ ProviderExits(n)
  <2>1. live' \ strays' \subseteq live \ strays /\ UNCHANGED <<s, ctl, spawner>>
    BY <1>17 DEF Write, ProviderExits, ghosts
  <2> QED
    BY <2>1
<1>18. CASE Tick \/ Finalize
  BY <1>2, <1>18, WriteEffects DEF Tick, Finalize, ghosts
<1>19. CASE Cancel
  BY <1>2, <1>19, WriteEffects, ControllerEffects DEF Cancel, ghosts
<1>20. CASE \E t \in 1..MaxSeconds : Extend(t)
  BY <1>2, <1>20, ExtendEffect, ControllerEffects DEF Extend, ghosts
<1>21. CASE StartChecks
  BY <1>2, <1>21, WriteEffects DEF StartChecks
<1>22. CASE EndChecks \/ RecoverChecks
  BY <1>2, <1>22, ChargedEffect DEF EndChecks, RecoverChecks, ghosts
<1>23. CASE CheckerDies
  BY <1>23 DEF CheckerDies, ghosts
<1>24. CASE Kill
  <2>1. Blank(ctl', "none") /\ UNCHANGED <<s, live, spawner>>
    BY <1>24, BlankController DEF Kill, NoController
  <2>2. CASE spawner = "idle"
    BY <1>2, <1>24, <2>1, <2>2 DEF Kill, Blank
  <2>3. CASE spawner # "idle"
    <3>1. live' \ strays' \subseteq (live \ strays) \ {s.attempt}
      BY <1>24, <2>1, <2>3 DEF Kill
    <3> QED
      BY <3>1
  <2> QED
    BY <2>2, <2>3
<1> QED
  BY <1>2, <1>3, <1>4, <1>5, <1>6, <1>7, <1>8, <1>9, <1>10, <1>11, <1>12, <1>13, <1>14,
     <1>15, <1>16, <1>17, <1>18, <1>19, <1>20, <1>21, <1>22, <1>23, <1>24
     DEF Next, SpawnerStep, ControllerStep, Provider, Commands, Faults, Claim, Bind,
         BindFails, NoLaunch, LaunchFails, Freeze, Observe, ObserveCancel, Reconcile, Publish,
         At, ghosts

\* Which providers a step adds: the one it launches.  An attempt is the last or the
\* next one.
LEMMA LiveStep ==
  ASSUME TypeOK, Next
  PROVE  /\ ~Launch => live' \subseteq live
         /\ Launch => live' \subseteq live \cup {s.attempt}
         /\ \/ s'.attempt = s.attempt
            \/ s'.attempt = s.attempt + 1 /\ spawner' = "created" /\ UNCHANGED live
<1> USE DEF Unmoved, SameLease
<1>1. s \in Records
  BY DEF TypeOK
<1>2. CASE \E o \in Origins : Create(o)
  <2>1. PICK o \in Origins : Create(o)
    BY <1>2
  <2>2. s.attempt < MaxCycles
    BY <2>1 DEF Create, Eligible, Origins, ResumeEligible, RestartGuard, ContinueFacts
  <2>3. s'.attempt = s.attempt + 1 /\ spawner' = "created" /\ UNCHANGED live
    BY <1>1, <2>1, <2>2, NextAttemptEffect DEF Create
  <2> QED
    BY <2>3
<1>3. CASE UNCHANGED <<s, live>>
  BY <1>3
<1>4. CASE Launch
  BY <1>4, WriteEffects DEF Launch
<1>5. CASE Reap \/ \E n \in Attempts : ProviderExits(n)
  BY <1>5 DEF Reap, ProviderExits
<1>6. CASE Recover
  BY <1>6, EndEffects DEF Recover
<1>7. CASE Publish
  <2>1. s'.attempt = s.attempt
    BY <1>7, ClassifiedType, PublishedEffect DEF Publish
  <2> QED
    BY <1>7, <2>1 DEF Publish
<1>8. CASE QueuedSignal \/ StartFailure \/ Orphan
  <2>1. s'.attempt = s.attempt
    BY <1>8, EndEffects DEF EndOf
  <2> QED
    BY <1>8, <2>1 DEF QueuedSignal, StartFailure, Orphan
<1>9. CASE Claim \/ BindFails
  <2>1. s'.attempt = s.attempt
    <3>1. CASE Claim /\ ~s.cancel
      BY <3>1, WriteEffects
    <3>2. CASE (Claim /\ s.cancel) \/ BindFails
      <4>1. CASE s.cancel
        BY <3>2, <4>1, EndEffects DEF OwnedEnd, EndOf
      <4>2. CASE ~s.cancel
        BY <3>2, <4>2, EndEffects DEF OwnedEnd, EndOf
      <4> QED
        BY <4>1, <4>2
    <3> QED
      BY <1>9, <3>1, <3>2
  <2> QED
    BY <1>9, <2>1 DEF Claim, BindFails
<1>10. CASE LaunchFails \/ Freeze \/ Progress \/ Notice \/ Tick \/ Finalize \/ Cancel
            \/ StartChecks
  <2>1. s'.attempt = s.attempt
    BY <1>10, WriteEffects
  <2>2. UNCHANGED live
    BY <1>10 DEF LaunchFails, Freeze, Progress, Notice, Note, Tick, Finalize, Cancel,
                 StartChecks
  <2> QED
    BY <2>1, <2>2
<1>11. CASE \E t \in 1..MaxSeconds : Extend(t)
  BY <1>11, ExtendEffect DEF Extend
<1>12. CASE EndChecks \/ RecoverChecks
  BY <1>12, ChargedEffect DEF EndChecks, RecoverChecks
<1> QED
  BY <1>2, <1>3, <1>4, <1>5, <1>6, <1>7, <1>8, <1>9, <1>10, <1>11, <1>12
     DEF Next, SpawnerStep, ControllerStep, Provider, Commands, Faults, StartController,
         HandshakeDone, ControllerLost, Bind, NoLaunch, Poll, Observe, ObserveCancel,
         Reconcile, Exit, IdleTimeout, StreamsEnd, Write, AbandonStart, HandshakeTimeout,
         Die, Kill, Signal, CheckerDies

\* Every step keeps AliveEnd: the record of an attempt whose provider may be alive
\* does not say how it ended.
LEMMA AliveEndNext ==
  ASSUME TypeOK, LockInv, live \subseteq 1..s.attempt, AliveEnd, Next PROVE AliveEnd'
<1> USE DEF LockInv, AliveEnd, Alive, Before, Unmoved, SameLease, SameEnd
<1>1. s \in Records /\ ctl \in Controls /\ s.attempt \in Nat
  BY RecordNumbers DEF TypeOK, Controls
<1>2. /\ Active = {"queued", "running", "cancel-requested"}
      /\ Watching = {"monitor", "reap", "freeze"}
      /\ Finishing = {"observe", "complete", "reconcile", "publish"}
  BY DEF Active, Watching, Finishing
<1>3. CASE s'.attempt # s.attempt
  <2>1. s'.attempt = s.attempt + 1 /\ UNCHANGED live
    BY <1>3, LiveStep
  <2> QED
    BY <1>1, <2>1
<1> SUFFICES ASSUME s'.attempt = s.attempt PROVE AliveEnd'
  BY <1>3
<1>4. CASE ~Launch /\ ~Alive(s.attempt)
  BY <1>4, LiveStep
<1>5. CASE \E o \in Origins : Create(o)
  <2>1. PICK o \in Origins : Create(o)
    BY <1>5
  <2>2. s.attempt < MaxCycles
    BY <2>1 DEF Create, Eligible, Origins, ResumeEligible, RestartGuard, ContinueFacts
  <2>3. s'.attempt = s.attempt + 1
    BY <1>1, <2>1, <2>2, NextAttemptEffect DEF Create
  <2> QED
    BY <1>1, <2>3
<1>6. CASE Launch
  <2>1. s.status \in Active /\ ctl.pc = "launch" /\ ctl.pc \notin {"none", "monitor", "reap", "exit"}
    BY <1>6 DEF Launch, At
  <2>2. CASE s.cancel
    BY <1>6, <2>1, <2>2 DEF Launch
  <2>3. CASE ~s.cancel
    <3>1. ctl'.pc = "monitor" /\ s'.status = "running" /\ UNCHANGED spawner
      BY <1>6, <2>3, WriteEffects, ControllerEffects DEF Launch
    <3> QED
      BY <2>1, <3>1
  <2> QED
    BY <2>2, <2>3
<1> SUFFICES ASSUME Alive(s.attempt) PROVE AliveEnd'
  BY <1>4, <1>6
<1>7. spawner # "created" /\ ctl.pc \in {"none", "monitor", "reap", "exit"}
  OBVIOUS
<1>8. CASE HandshakeDone \/ ControllerLost \/ AbandonStart \/ HandshakeTimeout
  BY <1>7, <1>8 DEF HandshakeDone, ControllerLost, AbandonStart, HandshakeTimeout, ghosts
<1>9. CASE StartFailure
  BY <1>2, <1>7, <1>9, EndEffects DEF StartFailure, EndOf
<1>10. CASE Orphan
  BY <1>7, <1>10, EndEffects DEF Orphan, EndOf
<1>11. CASE Exit \/ Kill \/ Die
  <2>1. ctl'.pc = "none" /\ UNCHANGED <<s, spawner>>
    BY <1>11, BlankController DEF Exit, Kill, Die, NoController, Blank
  <2> QED
    BY <1>7, <2>1
<1>12. CASE Poll \/ IdleTimeout \/ StreamsEnd
  <2>1. ctl'.pc \in {"monitor", "reap"} /\ UNCHANGED <<s, spawner>>
    BY <1>1, <1>12, ControllerEffects DEF Poll, IdleTimeout, StreamsEnd, At, Controls
  <2> QED
    BY <1>7, <2>1
<1>13. CASE Reap
  BY <1>13 DEF Reap
<1>14. CASE Progress \/ Notice \/ Signal
  <2>1. ctl'.pc = ctl.pc /\ UNCHANGED spawner
    BY <1>14, ControllerEffects DEF Progress, Notice, Note, Signal
  <2>2. s'.status = s.status /\ s'.reason = s.reason
    BY <1>14, WriteEffects DEF Signal
  <2> QED
    BY <1>7, <2>1, <2>2
<1>15. CASE Recover
  <2>1. ctl'.pc = "exit" /\ UNCHANGED spawner
    BY <1>15, BlankController DEF Recover, Blank
  <2>2. s'.reason \in {"unavailable", "cancelled"}
    BY <1>15, EndEffects
  <2> QED
    BY <1>7, <2>1, <2>2
<1>16. CASE Tick \/ Finalize \/ StartChecks
  BY <1>7, <1>16, WriteEffects DEF Tick, Finalize, StartChecks
<1>17. CASE Cancel
  BY <1>2, <1>7, <1>17, WriteEffects, ControllerEffects DEF Cancel
<1>18. CASE \E t \in 1..MaxSeconds : Extend(t)
  BY <1>7, <1>18, ExtendEffect, ControllerEffects DEF Extend
<1>19. CASE EndChecks \/ RecoverChecks
  BY <1>7, <1>19, ChargedEffect DEF EndChecks, RecoverChecks
<1>20. CASE CheckerDies \/ \E n \in Attempts : Write(n) \/ ProviderExits(n)
  BY <1>7, <1>20 DEF CheckerDies, Write, ProviderExits
<1> QED
  BY <1>2, <1>5, <1>6, <1>7, <1>8, <1>9, <1>10, <1>11, <1>12, <1>13, <1>14, <1>15, <1>16,
     <1>17, <1>18, <1>19, <1>20
     DEF Next, SpawnerStep, ControllerStep, Provider, Commands, Faults, QueuedSignal,
         StartController, Claim, Bind, BindFails, NoLaunch, LaunchFails, Freeze, Observe,
         ObserveCancel, Reconcile, Publish, At

\* Every step keeps LiveInv.
LEMMA LiveNext == ASSUME TypeOK, LockInv, LiveInv, Next PROVE LiveInv'
<1>1. s.attempt \in Nat
  BY RecordNumbers DEF TypeOK
<1>2. live' \subseteq 1..s'.attempt
  <2>1. live \subseteq 1..s.attempt
    BY DEF LiveInv
  <2>2. CASE Launch
    <3>1. s'.attempt = s.attempt /\ live' \subseteq live \cup {s.attempt}
      <4>1. UNCHANGED spawner /\ spawner # "created"
        BY <2>2 DEF Launch, LockInv, At
      <4> QED
        BY <2>2, <4>1, LiveStep
    <3>2. s.attempt \in 1..s.attempt
      BY <1>1 DEF TypeOK, Records, Attempts
    <3> QED
      BY <2>1, <3>1, <3>2
  <2>3. CASE ~Launch
    <3>1. live' \subseteq live /\ s'.attempt \in {s.attempt, s.attempt + 1}
      BY <2>3, LiveStep
    <3> QED
      BY <1>1, <2>1, <3>1
  <2> QED
    BY <2>2, <2>3
<1> QED
  BY <1>2, OneLiveNext, AliveEndNext DEF LiveInv

-----------------------------------------------------------------------------

\* What the controller has found, when it is used.
LEMMA FindingEffects ==
  ASSUME TypeOK
  PROVE  /\ \A f \in Findings(ctl.reason) :
              /\ f.report # 0 =>
                   f.report = s.attempt /\ ctl.reason \in {"none", "deadline", "idle"}
              /\ f.reason \in {"none", "deadline"} => f.reason = ctl.reason
         /\ \A f \in Cleaned :
              /\ f.report # 0 => f.report = ctl.report
              /\ f.reason \in {"none", "deadline"} => f.reason = ctl.reason
         /\ s.cancel => Classified.report = 0 /\ Classified.reason = "cancelled"
         /\ ~s.cancel =>
              /\ Classified.report = ctl.report
              /\ ctl.report # 0 /\ ctl.snap = NoTree => Classified.bad
              /\ Classified.reason \in {ctl.reason, "unavailable"}
<1>1. ASSUME NEW f \in Findings(ctl.reason)
      PROVE  /\ f.report # 0 =>
                  f.report = s.attempt /\ ctl.reason \in {"none", "deadline", "idle"}
             /\ f.reason \in {"none", "deadline"} => f.reason = ctl.reason
  <2>1. CASE ctl.reason \notin {"none", "deadline", "idle"}
    BY <1>1, <2>1 DEF Findings, Found
  <2>2. CASE ctl.reason \in {"none", "deadline", "idle"}
    BY <1>1, <2>2 DEF Findings, Found, Sources
  <2> QED
    BY <2>1, <2>2
<1>2. ASSUME NEW f \in Cleaned
      PROVE  /\ f.report # 0 => f.report = ctl.report
             /\ f.reason \in {"none", "deadline"} => f.reason = ctl.reason
  BY <1>2 DEF Cleaned, Completed, Found, Dropped
<1>3. s.cancel => Classified.report = 0 /\ Classified.reason = "cancelled"
  BY DEF Classified, Found, Dropped
<1>4. ~s.cancel =>
        /\ Classified.report = ctl.report
        /\ ctl.report # 0 /\ ctl.snap = NoTree => Classified.bad
        /\ Classified.reason \in {ctl.reason, "unavailable"}
  BY DEF Classified, Found, Dropped
<1> QED
  BY <1>1, <1>2, <1>3, <1>4

\* The candidate of the record.
RecordInv ==
    /\ s.report <= s.attempt
    /\ s.status \in Active => s.report # s.attempt /\ s.reason = "none"
    /\ s.status \in Active /\ s.report # 0 /\ strays = {} => s.tree = left[s.report]
    /\ CandidateBound

\* The report on its way to become the candidate, and its worktree, which no
\* provider writes unless one was left behind.
ReportInv ==
    /\ ctl.report # 0 =>
         ctl.report = s.attempt /\ popen /\ ctl.pc \in {"complete", "reconcile", "publish"}
    /\ ctl.snap # NoTree => ctl.pc = "publish" /\ ctl.report # 0
    /\ ctl.snap # NoTree /\ strays = {} => ctl.snap = wt
    /\ ctl.pc \in Finishing \cup {"freeze"} /\ popen /\ strays = {} => left[s.attempt] = wt
    /\ ctl.pc = "observe" /\ ctl.reason \in {"none", "deadline", "idle"} => popen

\* Steps that leave the candidate alone.
LEMMA RecordKept ==
  ASSUME RecordInv, UNCHANGED left, strays \subseteq strays', s'.attempt = s.attempt,
         s'.report = s.report, s'.tree = s.tree,
         s'.status \in Active => s.status \in Active /\ s'.reason = s.reason,
         s.status \in Active \/ (s'.status = s.status /\ s'.avail = s.avail)
  PROVE  RecordInv'
BY DEF RecordInv, CandidateBound

\* Steps that leave the report alone, and steps that have none.
LEMMA ReportKept ==
  ASSUME ReportInv, UNCHANGED <<wt, left, popen>>, strays \subseteq strays',
         s'.attempt = s.attempt,
         ctl'.pc = ctl.pc, SameFound(ctl, ctl')
  PROVE  ReportInv'
BY DEF ReportInv, SameFound

\* A controller without a report, outside the steps that have one.
LEMMA ReportNone ==
  ASSUME ctl'.report = 0, ctl'.snap = NoTree,
         ctl'.pc \notin Finishing \cup {"freeze"}
  PROVE  ReportInv'
BY DEF ReportInv, Finishing

\* No step before the end of the streams holds a report.
LEMMA ReportEarly ==
  ASSUME ReportInv, ctl.pc \notin {"complete", "reconcile", "publish"}
  PROVE  ctl.report = 0 /\ ctl.snap = NoTree
BY DEF ReportInv

\* Every step keeps RecordInv: a candidate keeps the worktree of its own provider.
LEMMA RecordNext ==
  ASSUME TypeOK, LockInv, RecordInv, ReportInv, Next PROVE RecordInv'
<1> USE DEF Unmoved, SameLease, SameEnd, SameRun, SameCandidate
<1>1. s \in Records /\ s.attempt \in Nat /\ s.report \in Candidates
  BY RecordNumbers DEF TypeOK
<1>2. Active = {"queued", "running", "cancel-requested"}
  BY DEF Active
<1>3. CASE \E o \in Origins : Create(o)
  <2>1. PICK o \in Origins : Create(o)
    BY <1>3
  <2>2. s.attempt < MaxCycles
    BY <2>1 DEF Create, Eligible, Origins, ResumeEligible, RestartGuard, ContinueFacts
  <2>3. /\ s'.attempt = s.attempt + 1 /\ s'.status = "queued" /\ s'.reason = "none"
        /\ o = "continue" => SameCandidate(s, s')
        /\ o # "continue" => s'.report = 0
    BY <1>1, <2>1, <2>2, NextAttemptEffect DEF Create
  <2>4. CASE o = "continue"
    <3>1. s.avail /\ s.status \in {"succeeded", "failed"} /\ s.report # 0
      BY <2>1, <2>4 DEF Create, Eligible, ContinueFacts, Reviewable
    <3>2. strays = {} => s.tree = left[s.report]
      BY <3>1 DEF RecordInv, CandidateBound
    <3>3. s.report \in Attempts
      BY <1>1, <3>1, DispatchAssumption DEF Candidates, Attempts
    <3>4. left'[s.report] = left[s.report] /\ UNCHANGED strays
      BY <2>1, <2>3, <2>4, <3>3 DEF Create
    <3>5. s.report <= s.attempt + 1 /\ s.report # s.attempt + 1
      BY <1>1, DispatchAssumption DEF RecordInv, Candidates
    <3> QED
      BY <2>3, <2>4, <3>2, <3>4, <3>5 DEF RecordInv, CandidateBound
  <2>5. CASE o # "continue"
    BY <1>1, <2>3, <2>5 DEF RecordInv, CandidateBound
  <2> QED
    BY <2>4, <2>5
<1>4. CASE QueuedSignal
  BY <1>2, <1>4, EndEffects, RecordKept DEF QueuedSignal, EndOf, ghosts
<1>5. CASE StartFailure
  BY <1>2, <1>5, EndEffects, RecordKept DEF StartFailure, EndOf, ghosts
<1>6. CASE Orphan
  BY <1>2, <1>6, EndEffects, RecordKept DEF Orphan, EndOf, ghosts
<1>7. CASE Claim
  <2>1. s.status \in Active
    BY <1>7 DEF LockInv, Claim, At
  <2>2. UNCHANGED <<left, strays>>
    BY <1>7 DEF Claim, ghosts
  <2>3. CASE s.cancel
    BY <1>2, <1>7, <2>1, <2>2, <2>3, EndEffects, RecordKept DEF OwnedEnd, EndOf
  <2>4. CASE ~s.cancel
    BY <1>7, <2>1, <2>2, <2>4, WriteEffects, RecordKept
  <2> QED
    BY <2>3, <2>4
<1>8. CASE BindFails
  <2>1. s.status \in Active
    BY <1>8 DEF LockInv, BindFails, At
  <2>2. UNCHANGED <<left, strays>>
    BY <1>8 DEF BindFails, ghosts
  <2>3. /\ s'.attempt = s.attempt /\ s'.report = s.report /\ s'.tree = s.tree
        /\ s'.status \in {"cancelled", "failed"}
    <3>1. CASE s.cancel
      BY <1>8, <3>1, EndEffects DEF OwnedEnd, EndOf
    <3>2. CASE ~s.cancel
      BY <1>8, <3>2, EndEffects DEF OwnedEnd, EndOf
    <3> QED
      BY <3>1, <3>2
  <2> QED
    BY <1>2, <2>1, <2>2, <2>3, RecordKept
<1>9. CASE Launch
  <2>1. s.status \in Active
    BY <1>9 DEF LockInv, Launch, At
  <2>2. CASE s.cancel
    BY <1>9, <2>2, RecordKept DEF Launch
  <2>3. CASE ~s.cancel
    BY <1>9, <2>1, <2>3, WriteEffects, RecordKept DEF Launch
  <2> QED
    BY <2>2, <2>3
<1>10. CASE LaunchFails
  <2>1. s.status \in Active
    BY <1>10 DEF LockInv, LaunchFails, At
  <2> QED
    BY <1>10, <2>1, WriteEffects, RecordKept DEF LaunchFails, ghosts
<1>11. CASE Progress \/ Notice
  <2>1. UNCHANGED <<left, strays>>
    BY <1>11 DEF Progress, Notice, Note, ghosts
  <2> QED
    BY <1>11, <2>1, WriteEffects, RecordKept
<1>12. CASE Freeze
  BY <1>12, WriteEffects, RecordKept DEF Freeze, ghosts
<1>13. CASE Reap
  <2>1. /\ UNCHANGED <<s, strays>> /\ s.status \in Active
        /\ left' = [left EXCEPT ![s.attempt] = wt]
    BY <1>13 DEF LockInv, Reap, At
  <2>2. s.report # s.attempt
    BY <2>1 DEF RecordInv
  <2>3. s.report # 0 => left'[s.report] = left[s.report]
    <3>1. s.report # 0 => s.report \in Attempts
      BY <1>1, DispatchAssumption DEF Candidates, Attempts
    <3> QED
      BY <2>1, <2>2, <3>1 DEF TypeOK
  <2> QED
    BY <2>1, <2>3 DEF RecordInv, CandidateBound
<1>14. CASE Recover
  <2>1. s.status \in Active
    BY <1>14 DEF LockInv, Recover, Watching, Finishing
  <2>2. s.report # s.attempt
    BY <2>1 DEF RecordInv
  <2>3. s.report # 0 => left'[s.report] = left[s.report]
    <3>1. s.report # 0 => s.report \in Attempts
      BY <1>1, DispatchAssumption DEF Candidates, Attempts
    <3>2. left' = [left EXCEPT ![s.attempt] = NoTree]
      BY <1>14 DEF Recover
    <3> QED
      BY <2>2, <3>1, <3>2 DEF TypeOK
  <2>4. /\ s'.attempt = s.attempt /\ s'.report = s.report /\ s'.tree = s.tree
        /\ s'.status \in {"cancelled", "failed"}
    BY <1>14, EndEffects
  <2>5. strays \subseteq strays'
    BY <1>14 DEF Recover
  <2> QED
    BY <1>2, <2>1, <2>3, <2>4, <2>5 DEF RecordInv, CandidateBound
<1>15. CASE Publish
  <2> DEFINE f == Classified
             keep == f.report = 0 /\ s.origin = "continue" /\ s.report # 0
  <2>1. /\ s'.attempt = s.attempt /\ s'.status = Status(f.reason)
        /\ s'.report = IF keep THEN s.report ELSE f.report
        /\ s'.tree = IF ctl.snap # NoTree THEN ctl.snap
                     ELSE IF keep THEN s.tree ELSE NoTree
        /\ s'.avail => ~f.bad
    BY <1>15, ClassifiedType, PublishedEffect DEF Publish
  <2>2. /\ s.cancel => f.report = 0 /\ f.reason = "cancelled"
        /\ ~s.cancel => f.report = ctl.report
        /\ ~s.cancel /\ ctl.report # 0 /\ ctl.snap = NoTree => f.bad
    BY FindingEffects
  <2>3. /\ s.status \in Active /\ At("publish") /\ UNCHANGED <<wt, left, popen, strays>>
    BY <1>15 DEF LockInv, Publish, At, ghosts
  <2>4. s'.status \notin Active /\ (s.cancel => s'.status = "cancelled")
    BY <1>2, <2>1, <2>2 DEF Status
  <2>5. s'.report <= s'.attempt
    BY <1>1, <2>1, <2>2 DEF RecordInv, ReportInv
  <2>6. ASSUME s'.report # 0, s'.avail, s'.status # "cancelled", strays = {}
        PROVE  s'.tree = left'[s'.report]
    <3>1. ~s.cancel /\ f.report = ctl.report /\ ~f.bad
      BY <2>1, <2>2, <2>4, <2>6
    <3>2. CASE keep
      <4>1. ctl.snap = NoTree
        BY <3>1, <3>2 DEF ReportInv
      <4> QED
        BY <2>1, <2>3, <2>6, <3>2, <4>1 DEF RecordInv
    <3>3. CASE ~keep
      <4>1. ctl.report # 0 /\ ctl.report = s'.report /\ ctl.snap # NoTree
        BY <2>1, <2>2, <2>6, <3>1, <3>3
      <4>2. ctl.report = s.attempt /\ popen /\ ctl.snap = wt /\ left[s.attempt] = wt
        BY <2>3, <2>6, <4>1 DEF ReportInv, Finishing, At
      <4> QED
        BY <2>1, <2>3, <4>1, <4>2
    <3> QED
      BY <3>2, <3>3
  <2> QED
    BY <2>3, <2>4, <2>5, <2>6 DEF RecordInv, CandidateBound
<1>16. CASE Tick \/ Finalize
  BY <1>16, WriteEffects, RecordKept DEF Tick, Finalize, ghosts
<1>17. CASE Cancel
  BY <1>17, WriteEffects, RecordKept DEF Cancel, ghosts
<1>18. CASE \E t \in 1..MaxSeconds : Extend(t)
  BY <1>18, ExtendEffect, RecordKept DEF Extend, ghosts
<1>19. CASE StartChecks
  BY <1>19, WriteEffects, RecordKept DEF StartChecks
<1>20. CASE EndChecks \/ RecoverChecks
  BY <1>20, ChargedEffect, RecordKept DEF EndChecks, RecoverChecks, ghosts
<1>21. CASE UNCHANGED <<s, left>> /\ strays \subseteq strays'
  BY <1>21, RecordKept
<1> QED
  BY <1>3, <1>4, <1>5, <1>6, <1>7, <1>8, <1>9, <1>10, <1>11, <1>12, <1>13, <1>14, <1>15,
     <1>16, <1>17, <1>18, <1>19, <1>20, <1>21
     DEF Next, SpawnerStep, ControllerStep, Provider, Commands, Faults, ghosts,
         StartController, HandshakeDone, ControllerLost, Bind, NoLaunch, Poll, Observe,
         ObserveCancel, Reconcile, Exit, IdleTimeout, StreamsEnd, Write, ProviderExits,
         AbandonStart, HandshakeTimeout, Die, Kill, Signal, CheckerDies

\* Every step keeps ReportInv: while a report is on its way nobody writes the worktree.
LEMMA ReportNext ==
  ASSUME TypeOK, LockInv, LiveInv, ReportInv, Next PROVE ReportInv'
<1> USE DEF Unmoved, SameLease, Blank
<1>1. s \in Records /\ s.attempt \in Attempts /\ left \in [Attempts -> Trees]
  BY RecordNumbers DEF TypeOK
<1>2. Finishing = {"observe", "complete", "reconcile", "publish"}
  BY DEF Finishing
<1>3. CASE \E o \in Origins : Create(o)
  <2>1. UNCHANGED ctl /\ At("none")
    BY <1>3 DEF Create, LockFree, At
  <2> QED
    BY <1>2, <2>1, ReportEarly, ReportNone DEF At
<1>4. CASE StartController
  BY <1>2, <1>4, BlankController, ReportNone DEF StartController
<1>5. CASE BindFails \/ Publish \/ Exit \/ Recover \/ Die \/ Kill
  <2>1. Blank(ctl', "none") \/ Blank(ctl', "exit")
    BY <1>5, BlankController
       DEF BindFails, Publish, Exit, Recover, Die, Kill, NoController
  <2> QED
    BY <1>2, <2>1, ReportNone
<1>6. CASE Claim
  <2>1. CASE s.cancel
    BY <1>2, <1>6, <2>1, BlankController, ReportNone DEF Claim
  <2>2. CASE ~s.cancel
    BY <1>2, <1>6, <2>2, ControllerEffects, ReportEarly, ReportNone DEF Claim, At, SameFound
  <2> QED
    BY <2>1, <2>2
<1>7. CASE Bind
  BY <1>2, <1>7, ControllerEffects, ReportEarly, ReportNone DEF Bind, At, SameFound
<1>8. CASE NoLaunch \/ LaunchFails
  <2>1. /\ At("launch") /\ UNCHANGED popen /\ ctl'.pc = "observe"
        /\ ctl'.report = ctl.report /\ ctl'.snap = ctl.snap
        /\ ctl'.reason \notin {"none", "deadline", "idle"}
    <3>1. CASE NoLaunch
      BY <3>1, ControllerEffects DEF NoLaunch, ghosts
    <3>2. CASE LaunchFails
      BY <3>2, ControllerEffects DEF LaunchFails, ghosts
    <3> QED
      BY <1>8, <3>1, <3>2
  <2>2. ctl.report = 0 /\ ctl.snap = NoTree /\ ~popen
    BY <2>1, ReportEarly DEF At, LockInv, Before
  <2> QED
    BY <2>1, <2>2 DEF ReportInv
<1>9. CASE Launch
  <2>1. ctl.report = 0 /\ ctl.snap = NoTree /\ ~popen
    BY <1>9, ReportEarly DEF Launch, At, LockInv, Before
  <2>2. CASE s.cancel
    <3>1. /\ UNCHANGED popen /\ ctl'.pc = "observe" /\ ctl'.reason = "cancelled"
          /\ ctl'.report = ctl.report /\ ctl'.snap = ctl.snap
      BY <1>9, <2>2, ControllerEffects DEF Launch
    <3> QED
      BY <2>1, <3>1 DEF ReportInv
  <2>3. CASE ~s.cancel
    BY <1>2, <1>9, <2>1, <2>3, ControllerEffects, ReportNone DEF Launch, SameFound
  <2> QED
    BY <2>2, <2>3
<1>10. CASE Poll \/ IdleTimeout \/ StreamsEnd
  <2>1. ctl.report = 0 /\ ctl.snap = NoTree /\ At("monitor")
    BY <1>10, ReportEarly DEF Poll, IdleTimeout, StreamsEnd, At
  <2>2. ctl'.report = 0 /\ ctl'.snap = NoTree /\ ctl'.pc \in {"monitor", "reap"}
    <3>1. CASE ctl' = [ctl EXCEPT !.behind = 0]
      BY <2>1, <3>1 DEF TypeOK, At
    <3>2. CASE Outcome("reap", Decision) \/ Outcome("reap", "idle")
               \/ Outcome("reap", "none") \/ Outcome("reap", "failed")
      BY <2>1, <3>2, ControllerEffects
    <3>3. CASE Take("reap", Found("unavailable", 0, "none", TRUE))
      BY <2>1, <3>3, ControllerEffects DEF Found
    <3> QED
      BY <1>10, <3>1, <3>2, <3>3 DEF Poll, IdleTimeout, StreamsEnd
  <2> QED
    BY <1>2, <2>2, ReportNone
<1>11. CASE Progress \/ Notice
  <2>1. UNCHANGED <<wt, left, popen, strays>>
    BY <1>11 DEF Progress, Notice, Note, ghosts
  <2> QED
    BY <1>11, <2>1, WriteEffects, ControllerEffects, ReportKept
<1>12. CASE Reap
  <2>1. /\ UNCHANGED <<s, wt>> /\ left' = [left EXCEPT ![s.attempt] = wt]
        /\ ctl'.pc = "freeze" /\ SameFound(ctl, ctl')
    BY <1>12, ControllerEffects DEF Reap
  <2>2. ctl.report = 0 /\ ctl.snap = NoTree
    BY <1>12, ReportEarly DEF Reap, At
  <2>3. left'[s.attempt] = wt
    BY <1>1, <2>1
  <2> QED
    BY <2>1, <2>2, <2>3 DEF ReportInv, SameFound
<1>13. CASE Freeze
  <2>1. /\ At("freeze") /\ UNCHANGED <<wt, left, popen, strays>> /\ s'.attempt = s.attempt
        /\ ctl'.pc = "observe" /\ ctl'.report = ctl.report /\ ctl'.snap = ctl.snap
    BY <1>13, WriteEffects, ControllerEffects DEF Freeze, ghosts
  <2>2. ctl.report = 0 /\ ctl.snap = NoTree
    BY <2>1, ReportEarly DEF At
  <2>3. popen
    BY <2>1 DEF LockInv, At, Watching
  <2> QED
    BY <2>1, <2>2, <2>3 DEF ReportInv, At
<1>14. CASE Observe
  <2>1. PICK f \in Findings(ctl.reason) : Take("complete", f)
    BY <1>14 DEF Observe
  <2>2. At("observe") /\ UNCHANGED <<s, wt, left, popen, strays>>
    BY <1>14 DEF Observe, ghosts
  <2>3. ctl.report = 0 /\ ctl.snap = NoTree
    BY <2>2, ReportEarly DEF At
  <2>4. ctl'.pc = "complete" /\ ctl'.report = f.report /\ ctl'.snap = NoTree
    BY <2>1, <2>3, ControllerEffects
  <2>5. f.report # 0 => f.report = s.attempt /\ popen
    BY <2>1, <2>2, FindingEffects DEF ReportInv, At
  <2> QED
    BY <1>2, <2>2, <2>4, <2>5 DEF ReportInv, At
<1>15. CASE ObserveCancel
  <2>1. PICK f \in Cleaned :
          Take("reconcile", IF s.cancel THEN Dropped("cancelled") ELSE f)
    BY <1>15 DEF ObserveCancel
  <2>2. At("complete") /\ UNCHANGED <<s, wt, left, popen, strays>>
    BY <1>15 DEF ObserveCancel, ghosts
  <2>3. /\ ctl'.pc = "reconcile" /\ ctl'.snap = ctl.snap
        /\ ctl'.report # 0 => ctl'.report = ctl.report
    BY <2>1, ControllerEffects, FindingEffects DEF Dropped, Found
  <2> QED
    BY <1>2, <2>2, <2>3 DEF ReportInv, At
<1>16. CASE Reconcile
  <2>1. At("reconcile") /\ UNCHANGED <<s, wt, left, popen, strays>>
    BY <1>16 DEF Reconcile, ghosts
  <2>2. /\ ctl'.pc = "publish" /\ ctl'.report = ctl.report
        /\ ctl'.snap \in IF ctl.report = 0 THEN {NoTree} ELSE {wt, NoTree}
    BY <1>16, ControllerEffects
  <2> QED
    BY <1>2, <2>1, <2>2 DEF ReportInv, At
<1>17. CASE Signal
  BY <1>17, ControllerEffects, ReportKept DEF Signal, ghosts
<1>18. CASE \E n \in Attempts : Write(n)
  <2>1. /\ live # {} /\ UNCHANGED <<s, ctl, left, popen, strays>>
    BY <1>18 DEF Write, Alive, ghosts
  <2>2. CASE strays = {}
    <3>1. ctl.pc \notin Finishing \cup {"freeze"}
      BY <1>2, <2>1, <2>2 DEF LiveInv, OneLive, LockInv, Active
    <3> QED
      BY <1>2, <2>1, <3>1, ReportEarly, ReportNone
  <2>3. CASE strays # {}
    BY <2>1, <2>3 DEF ReportInv
  <2> QED
    BY <2>2, <2>3
<1>19. CASE Cancel
  BY <1>19, WriteEffects, ControllerEffects, ReportKept DEF Cancel, ghosts
<1>20. CASE \E t \in 1..MaxSeconds : Extend(t)
  BY <1>20, ExtendEffect, ControllerEffects, ReportKept DEF Extend, ghosts
<1>21. CASE UNCHANGED <<ctl, wt, left, popen, strays>> /\ s'.attempt = s.attempt
  BY <1>21, ReportKept DEF SameFound
<1>22. CASE QueuedSignal \/ StartFailure \/ Orphan
  <2>1. s'.attempt = s.attempt
    BY <1>22, EndEffects DEF EndOf
  <2> QED
    BY <1>21, <1>22, <2>1 DEF QueuedSignal, StartFailure, Orphan, ghosts
<1>23. CASE Tick \/ Finalize \/ StartChecks \/ EndChecks \/ RecoverChecks
  <2>1. s'.attempt = s.attempt
    BY <1>23, WriteEffects, ChargedEffect DEF EndChecks, RecoverChecks
  <2> QED
    BY <1>21, <1>23, <2>1
       DEF Tick, Finalize, StartChecks, EndChecks, RecoverChecks, ghosts
<1> QED
  BY <1>3, <1>4, <1>5, <1>6, <1>7, <1>8, <1>9, <1>10, <1>11, <1>12, <1>13, <1>14, <1>15,
     <1>16, <1>17, <1>18, <1>19, <1>20, <1>21, <1>22, <1>23
     DEF Next, SpawnerStep, ControllerStep, Provider, Commands, Faults, ghosts,
         HandshakeDone, ControllerLost, ProviderExits, AbandonStart, HandshakeTimeout,
         CheckerDies

-----------------------------------------------------------------------------

\* The lease, and what a deadline means.
LeaseInv ==
    /\ LeaseInBudget
    /\ ctl.pc \in Finishing => ~s.started
    /\ ctl.pc \in Finishing /\ ctl.reason = "deadline" => s.elapsed >= s.hard
    /\ ctl.pc \in Finishing /\ ctl.reason = "none" => s.elapsed < s.hard \/ s.cancel
    /\ DeadlineTrue

\* Every step keeps LeaseInv: a deadline is judged by the lease of the record.
LEMMA LeaseNext ==
  ASSUME TypeOK, LockInv, RecordInv, LeaseInv, Next PROVE LeaseInv'
<1> USE DEF Unmoved, SameLease, SameEnd, SameRun, SameFound, Blank, LeaseInv, LeaseInBudget,
            DeadlineTrue
<1>1. /\ s \in Records /\ s.elapsed \in Nat /\ s.hard \in Nat /\ s.spent \in Nat
      /\ s.base \in Nat /\ MaxSeconds \in Nat /\ HardSeconds \in Nat \ {0}
  BY RecordNumbers, DispatchAssumption DEF TypeOK
<1>2. /\ Active = {"queued", "running", "cancel-requested"}
      /\ Finishing = {"observe", "complete", "reconcile", "publish"}
  BY DEF Active, Finishing
<1>3. CASE \E o \in Origins : Create(o)
  <2>1. PICK o \in Origins : Create(o)
    BY <1>3
  <2>2. s.attempt < MaxCycles /\ s.elapsed < ProviderMax(s)
    BY <2>1 DEF Create, Eligible, Origins, ResumeEligible, RestartGuard, ContinueFacts
  <2>3. /\ s'.status = "queued" /\ s'.reason = "none" /\ s'.base = s.elapsed
        /\ s'.spent = s.spent /\ s'.hard = Lower(ProviderMax(s), s.elapsed + HardSeconds)
    BY <1>1, <2>1, <2>2, NextAttemptEffect DEF Create
  <2>4. s'.base < s'.hard /\ s'.hard + s'.spent <= MaxSeconds
    BY <1>1, <2>2, <2>3 DEF Lower, Upper, ProviderMax
  <2>5. UNCHANGED ctl /\ At("none")
    BY <2>1 DEF Create, LockFree, At
  <2> QED
    BY <1>2, <2>3, <2>4, <2>5 DEF At
<1>4. CASE QueuedSignal
  <2>1. UNCHANGED ctl /\ At("none")
    BY <1>4 DEF QueuedSignal, LockInv, At
  <2> QED
    BY <1>2, <1>4, <2>1, EndEffects DEF EndOf, At
<1>5. CASE StartFailure \/ Orphan
  <2>1. UNCHANGED ctl /\ At("none")
    BY <1>5 DEF StartFailure, Orphan, LockFree, At
  <2> QED
    BY <1>2, <1>5, <2>1, EndEffects DEF EndOf, At
<1>6. CASE StartController
  BY <1>2, <1>6, BlankController DEF StartController
<1>7. CASE Exit \/ Die \/ Kill
  BY <1>2, <1>7, BlankController DEF Exit, Die, Kill, NoController
<1>8. CASE BindFails \/ (Claim /\ s.cancel)
  <2>1. ctl'.pc = "exit"
    BY <1>8, BlankController DEF BindFails, Claim
  <2>2. s'.status \in {"cancelled", "failed"} /\ s'.reason # "deadline"
    BY <1>8, EndEffects DEF OwnedEnd, EndOf
  <2> QED
    BY <1>2, <2>1, <2>2
<1>9. CASE Claim /\ ~s.cancel
  BY <1>2, <1>9, WriteEffects, ControllerEffects DEF Claim
<1>10. CASE Bind
  BY <1>2, <1>10, ControllerEffects DEF Bind
<1>11. CASE NoLaunch
  BY <1>2, <1>11, ControllerEffects DEF NoLaunch, At, LockInv, Before
<1>12. CASE Launch
  <2>1. CASE s.cancel
    BY <1>2, <1>12, <2>1, ControllerEffects DEF Launch, At, LockInv, Before
  <2>2. CASE ~s.cancel
    <3>1. s.status \in Active
      BY <1>12 DEF Launch, At, LockInv
    <3> QED
      BY <1>2, <1>12, <2>2, <3>1, WriteEffects, ControllerEffects DEF Launch, RecordInv
  <2> QED
    BY <2>1, <2>2
<1>13. CASE LaunchFails
  <2>1. s.status \in Active /\ ~s.started /\ s.reason = "none"
    BY <1>13 DEF LaunchFails, At, LockInv, Before, RecordInv
  <2> QED
    BY <1>2, <1>13, <2>1, WriteEffects, ControllerEffects DEF LaunchFails
<1>14. CASE Poll \/ IdleTimeout \/ StreamsEnd
  <2>1. UNCHANGED s
    BY <1>14 DEF Poll, IdleTimeout, StreamsEnd
  <2>2. ctl'.pc \notin Finishing
    <3>1. CASE ctl' = [ctl EXCEPT !.behind = 0] /\ At("monitor")
      BY <1>2, <3>1 DEF TypeOK, At
    <3>2. CASE ctl'.pc = "reap"
      BY <1>2, <3>2
    <3> QED
      BY <1>14, <3>1, <3>2, ControllerEffects DEF Poll, IdleTimeout, StreamsEnd
  <2> QED
    BY <1>2, <2>1, <2>2
<1>15. CASE Progress \/ Notice
  <2>1. At("monitor")
    BY <1>15 DEF Progress, Notice, Note
  <2>2. s.status \in Active /\ s.reason = "none"
    BY <2>1 DEF At, LockInv, RecordInv
  <2> QED
    BY <1>2, <1>15, <2>1, <2>2, WriteEffects, ControllerEffects DEF At
<1>16. CASE Reap
  BY <1>2, <1>16, ControllerEffects DEF Reap
<1>17. CASE Freeze
  <2> DEFINE e == Upper(ctl.end, s.elapsed)
             late == ~s.cancel /\ e >= Lower(s.hard, ProviderMax(s))
  <2>1. s.status \in Active /\ s.reason = "none"
    BY <1>17 DEF Freeze, At, LockInv, RecordInv
  <2>2. Lower(s.hard, ProviderMax(s)) = s.hard
    BY <1>1, <2>1 DEF Lower, Upper, ProviderMax
  <2>3. ctl'.reason = IF ctl.reason \notin {"none", "deadline"} THEN ctl.reason
                      ELSE IF late THEN "deadline" ELSE "none"
    BY <1>17 DEF Freeze, TypeOK
  <2>4. e \in Nat
    BY <1>1 DEF TypeOK, Upper
  <2>5. /\ ctl'.reason = "deadline" => e >= s.hard
        /\ ctl'.reason = "none" => e < s.hard \/ s.cancel
    BY <1>1, <2>2, <2>3, <2>4
  <2>6. s'.elapsed = e
    BY <1>17, WriteEffects
  <2> HIDE DEF e
  <2> QED
    BY <1>2, <1>17, <2>1, <2>5, <2>6, WriteEffects
<1>18. CASE Observe
  <2>1. PICK f \in Findings(ctl.reason) : Take("complete", f)
    BY <1>18 DEF Observe
  <2>2. At("observe") /\ UNCHANGED s
    BY <1>18 DEF Observe
  <2>3. ctl'.reason \in {"none", "deadline"} => ctl'.reason = ctl.reason
    BY <2>1, ControllerEffects, FindingEffects
  <2> QED
    BY <1>2, <2>2, <2>3 DEF At
<1>19. CASE ObserveCancel
  <2>1. PICK f \in Cleaned :
          Take("reconcile", IF s.cancel THEN Dropped("cancelled") ELSE f)
    BY <1>19 DEF ObserveCancel
  <2>2. At("complete") /\ UNCHANGED s
    BY <1>19 DEF ObserveCancel
  <2>3. ctl'.reason \in {"none", "deadline"} => ctl'.reason = ctl.reason
    BY <2>1, ControllerEffects, FindingEffects DEF Dropped, Found
  <2> QED
    BY <1>2, <2>2, <2>3 DEF At
<1>20. CASE Reconcile
  BY <1>2, <1>20, ControllerEffects DEF Reconcile, At
<1>21. CASE Publish
  <2> DEFINE f == Classified
  <2>1. /\ SameLease(s, s') /\ SameRun(s, s') /\ s'.status = Status(f.reason)
        /\ s'.reason = f.reason
    BY <1>21, ClassifiedType, PublishedEffect DEF Publish
  <2>2. /\ s.cancel => f.reason = "cancelled"
        /\ ~s.cancel => f.reason \in {ctl.reason, "unavailable"}
    BY FindingEffects
  <2>3. At("publish") /\ ctl'.pc = "exit"
    BY <1>21, BlankController DEF Publish
  <2>4. s'.status \notin Active /\ (s'.status = "succeeded" => f.reason = "none")
    BY <1>2, <2>1 DEF Status
  <2>5. f.reason = "deadline" => s.elapsed >= s.hard
    BY <1>2, <2>2, <2>3 DEF At
  <2>6. f.reason = "none" => s.elapsed < s.hard
    BY <1>2, <2>2, <2>3 DEF At
  <2> HIDE DEF f
  <2> QED
    BY <1>2, <2>1, <2>3, <2>4, <2>5, <2>6
<1>22. CASE Recover
  <2>1. ctl'.pc = "exit"
    BY <1>22, BlankController DEF Recover
  <2>2. s'.status \in {"cancelled", "failed"} /\ s'.reason # "deadline"
    BY <1>22, EndEffects
  <2> QED
    BY <1>2, <2>1, <2>2
<1>23. CASE Signal
  BY <1>23, ControllerEffects DEF Signal
<1>24. CASE Tick \/ Finalize
  BY <1>24, WriteEffects DEF Tick, Finalize
<1>25. CASE Cancel
  <2>1. s.status \in Active /\ s.reason = "none"
    BY <1>25 DEF Cancel, RecordInv
  <2> QED
    BY <1>2, <1>25, <2>1, WriteEffects, ControllerEffects DEF Cancel
<1>26. CASE \E t \in 1..MaxSeconds : Extend(t)
  <2>1. PICK t \in 1..MaxSeconds : Extend(t)
    BY <1>26
  <2>2. /\ s.status \in Active /\ s.started /\ s.hard + t <= ProviderMax(s)
        /\ UNCHANGED spawner /\ Behind
    BY <2>1 DEF Extend, ExtendEligible
  <2>3. /\ SameEnd(s, s') /\ SameRun(s, s') /\ s'.base = s.base /\ s'.spent = s.spent
        /\ s'.hard = s.hard + t
    BY <2>1, ExtendEffect
  <2>4. s'.base < s'.hard /\ s'.hard + s'.spent <= MaxSeconds
    BY <1>1, <2>1, <2>2, <2>3 DEF ProviderMax, Upper
  <2>5. ctl'.pc = ctl.pc /\ ctl.pc \notin Finishing
    BY <2>2, ControllerEffects
  <2>6. s.reason = "none"
    BY <2>2 DEF RecordInv
  <2> QED
    BY <1>2, <2>2, <2>3, <2>4, <2>5, <2>6
<1>27. CASE StartChecks
  BY <1>27, WriteEffects DEF StartChecks
<1>28. CASE EndChecks \/ RecoverChecks
  <2>1. s.status \notin Active /\ UNCHANGED ctl
    BY <1>2, <1>28 DEF EndChecks, RecoverChecks, LockInv
  <2> QED
    BY <1>28, <2>1, ChargedEffect DEF EndChecks, RecoverChecks
<1>29. CASE UNCHANGED <<s, ctl>>
  BY <1>29
<1> QED
  BY <1>3, <1>4, <1>5, <1>6, <1>7, <1>8, <1>9, <1>10, <1>11, <1>12, <1>13, <1>14, <1>15,
     <1>16, <1>17, <1>18, <1>19, <1>20, <1>21, <1>22, <1>23, <1>24, <1>25, <1>26, <1>27,
     <1>28, <1>29
     DEF Next, SpawnerStep, ControllerStep, Provider, Commands, Faults, HandshakeDone,
         ControllerLost, Write, ProviderExits, AbandonStart, HandshakeTimeout, CheckerDies

-----------------------------------------------------------------------------

\* What an ended attempt says, and how often its checks ran.
ChecksInv == \A n \in Attempts : ran[n] <= 1 /\ (n > s.checked => ran[n] = 0)
EndInv == CancelWins /\ RemoteHonest

\* Every step keeps ChecksInv: the action of a candidate is spent before its checks.
LEMMA ChecksNext == ASSUME TypeOK, ChecksInv, Next PROVE ChecksInv'
<1>1. /\ s \in Records /\ s.attempt \in Attempts /\ s.checked \in Candidates
      /\ ran \in [Attempts -> Nat] /\ Attempts \subseteq Nat
      /\ s.attempt \in Nat /\ s.checked \in Nat
  BY RecordNumbers, DispatchAssumption DEF TypeOK, Attempts, Candidates
<1>2. CASE UNCHANGED ran /\ s'.checked = s.checked
  BY <1>2 DEF ChecksInv
<1>3. CASE StartChecks
  <2>1. s.checked < s.attempt /\ ran' = [ran EXCEPT ![s.attempt] = @ + 1]
    BY <1>3 DEF StartChecks
  <2>2. s'.checked = s.attempt
    BY <1>3, WriteEffects
  <2>3. ran[s.attempt] = 0
    BY <1>1, <2>1 DEF ChecksInv
  <2>4. ran'[s.attempt] = 1
    BY <1>1, <2>1, <2>3
  <2>5. ASSUME NEW n \in Attempts, n # s.attempt
        PROVE  ran'[n] <= 1 /\ (n > s'.checked => ran'[n] = 0)
    <3>1. ran'[n] = ran[n]
      BY <1>1, <2>1, <2>5
    <3>2. n > s'.checked => n > s.checked
      BY <1>1, <2>1, <2>2, <2>5
    <3> QED
      BY <2>5, <3>1, <3>2 DEF ChecksInv
  <2>6. ~(s.attempt > s'.checked)
    BY <1>1, <2>2
  <2> QED
    BY <2>4, <2>5, <2>6 DEF ChecksInv
<1>4. CASE \E o \in Origins : Create(o)
  <2>1. PICK o \in Origins : Create(o)
    BY <1>4
  <2>2. s.attempt < MaxCycles
    BY <2>1 DEF Create, Eligible, Origins, ResumeEligible, RestartGuard, ContinueFacts
  <2> QED
    BY <1>1, <1>2, <2>1, <2>2, NextAttemptEffect DEF Create
<1>5. CASE QueuedSignal \/ StartFailure \/ Orphan
  BY <1>2, <1>5, EndEffects
     DEF QueuedSignal, StartFailure, Orphan, EndOf, SameLease, ghosts
<1>6. CASE Claim \/ BindFails
  BY <1>2, <1>6, EndEffects, WriteEffects
     DEF Claim, BindFails, OwnedEnd, EndOf, Unmoved, SameLease, ghosts
<1>7. CASE Recover
  BY <1>2, <1>7, EndEffects DEF Recover, SameLease
<1>8. CASE Publish
  BY <1>2, <1>8, ClassifiedType, PublishedEffect DEF Publish, SameLease, ghosts
<1>9. CASE EndChecks \/ RecoverChecks
  BY <1>2, <1>9, ChargedEffect DEF EndChecks, RecoverChecks, ghosts
<1>10. CASE Launch
  BY <1>2, <1>10, WriteEffects DEF Launch, SameLease
<1>11. CASE \E t \in 1..MaxSeconds : Extend(t)
  BY <1>2, <1>11, ExtendEffect DEF Extend, ghosts
<1>12. CASE LaunchFails \/ Freeze \/ Progress \/ Notice \/ Tick \/ Finalize \/ Cancel
  <2>1. UNCHANGED ran
    BY <1>12 DEF LaunchFails, Freeze, Progress, Notice, Note, Tick, Finalize, Cancel, ghosts
  <2>2. s'.checked = s.checked
    BY <1>12, WriteEffects DEF Unmoved, SameLease
  <2> QED
    BY <1>2, <2>1, <2>2
<1>13. CASE UNCHANGED <<s, ran>>
  BY <1>2, <1>13
<1> QED
  BY <1>3, <1>4, <1>5, <1>6, <1>7, <1>8, <1>9, <1>10, <1>11, <1>12, <1>13
     DEF Next, SpawnerStep, ControllerStep, Provider, Commands, Faults, ghosts,
         StartController, HandshakeDone, ControllerLost, Bind, NoLaunch, Poll, Reap, Observe,
         ObserveCancel, Reconcile, Exit, IdleTimeout, StreamsEnd, Write, ProviderExits,
         AbandonStart, HandshakeTimeout, Die, Kill, Signal, CheckerDies

\* Steps that do not end an attempt.
LEMMA EndKeeps ==
  ASSUME EndInv, s'.cancel = s.cancel, s'.report = s.report, s'.attempt = s.attempt,
         \/ SameEnd(s, s') /\ UNCHANGED popen
         \/ s'.status \notin {"succeeded", "cancelled"}
  PROVE  EndInv'
BY DEF EndInv, CancelWins, RemoteHonest, SameEnd

\* Every step keeps EndInv: a cancellation that was approved shows in the end.
LEMMA EndNext == ASSUME TypeOK, LockInv, RecordInv, EndInv, Next PROVE EndInv'
<1> USE DEF Unmoved, SameLease, SameCandidate, SameRun
<1>1. s \in Records /\ s.attempt \in Attempts /\ s.attempt # 0
  BY RecordNumbers, DispatchAssumption DEF TypeOK, Attempts
<1>2. CASE \E o \in Origins : Create(o)
  <2>1. PICK o \in Origins : Create(o)
    BY <1>2
  <2>2. s.attempt < MaxCycles
    BY <2>1 DEF Create, Eligible, Origins, ResumeEligible, RestartGuard, ContinueFacts
  <2>3. s'.status = "queued" /\ ~s'.cancel
    BY <1>1, <2>1, <2>2, NextAttemptEffect DEF Create
  <2> QED
    BY <2>3 DEF EndInv, CancelWins, RemoteHonest
<1>3. CASE QueuedSignal
  <2>1. UNCHANGED popen
    BY <1>3 DEF QueuedSignal, ghosts
  <2>2. CASE s' = s
    BY <2>1, <2>2, EndKeeps DEF SameEnd
  <2>3. CASE s' # s
    BY <1>3, <2>3, EndEffects DEF EndOf, EndInv, CancelWins, RemoteHonest
  <2> QED
    BY <2>2, <2>3
<1>4. CASE StartFailure \/ Orphan
  <2>1. UNCHANGED popen
    BY <1>4 DEF StartFailure, Orphan, ghosts
  <2>2. CASE s' = s
    BY <2>1, <2>2, EndKeeps DEF SameEnd
  <2>3. CASE s' # s
    BY <1>4, <2>3, EndEffects, EndKeeps DEF EndOf
  <2> QED
    BY <2>2, <2>3
<1>5. CASE BindFails \/ (Claim /\ s.cancel)
  <2>1. ~popen' /\ s.status \in Active
    <3>1. ctl.pc \in {"claim", "bind"} /\ UNCHANGED popen
      BY <1>5 DEF BindFails, Claim, At, ghosts
    <3> QED
      BY <3>1 DEF LockInv, Before
  <2>2. s.report # s.attempt
    BY <2>1 DEF RecordInv
  <2> QED
    BY <1>5, <2>1, <2>2, EndEffects DEF OwnedEnd, EndOf, EndInv, CancelWins, RemoteHonest
<1>6. CASE Claim /\ ~s.cancel
  BY <1>6, WriteEffects, EndKeeps DEF Claim, SameEnd, ghosts
<1>7. CASE Launch
  <2>1. CASE s.cancel
    BY <1>7, <2>1, EndKeeps DEF Launch, SameEnd
  <2>2. CASE ~s.cancel
    BY <1>7, <2>2, WriteEffects, EndKeeps
  <2> QED
    BY <2>1, <2>2
<1>8. CASE LaunchFails
  BY <1>8, WriteEffects, EndKeeps
<1>9. CASE Progress \/ Notice \/ Freeze \/ Tick \/ Finalize
  <2>1. UNCHANGED popen
    BY <1>9 DEF Progress, Notice, Note, Freeze, Tick, Finalize, ghosts
  <2> QED
    BY <1>9, <2>1, WriteEffects, EndKeeps DEF SameEnd
<1>10. CASE Cancel
  <2>1. s.report # s.attempt
    BY <1>10 DEF Cancel, RecordInv
  <2> QED
    BY <1>10, <2>1, WriteEffects DEF EndInv, CancelWins, RemoteHonest
<1>11. CASE \E t \in 1..MaxSeconds : Extend(t)
  BY <1>11, ExtendEffect, EndKeeps DEF Extend, SameEnd, ghosts
<1>12. CASE StartChecks
  BY <1>12, WriteEffects, EndKeeps DEF StartChecks, SameEnd
<1>13. CASE EndChecks \/ RecoverChecks
  BY <1>13, ChargedEffect, EndKeeps DEF EndChecks, RecoverChecks, SameEnd, ghosts
<1>14. CASE Recover
  <2>1. s.status \in Active
    BY <1>14 DEF Recover, LockInv, Watching, Finishing
  <2>2. s.report # s.attempt
    BY <2>1 DEF RecordInv
  <2>3. s.cancel \in BOOLEAN
    BY <1>1 DEF Records
  <2> QED
    BY <1>14, <2>2, <2>3, EndEffects DEF EndInv, CancelWins, RemoteHonest
<1>15. CASE Publish
  <2> DEFINE f == Classified
             keep == f.report = 0 /\ s.origin = "continue" /\ s.report # 0
  <2>1. /\ s'.attempt = s.attempt /\ s'.cancel = s.cancel
        /\ s'.status = Status(f.reason) /\ s'.reason = f.reason
        /\ s'.report = IF keep THEN s.report ELSE f.report
        /\ f.reason \in {"cancelled", "interrupted"} => s'.remote
    BY <1>15, ClassifiedType, PublishedEffect DEF Publish
  <2>2. s.cancel => f.report = 0 /\ f.reason = "cancelled"
    BY FindingEffects
  <2>3. s.report # s.attempt
    BY <1>15 DEF Publish, At, LockInv, Finishing, RecordInv
  <2>4. s'.cancel => s'.status = "cancelled" /\ s'.report # s'.attempt
    BY <1>1, <2>1, <2>2, <2>3 DEF Status
  <2> HIDE DEF f, keep
  <2> QED
    BY <2>1, <2>4 DEF EndInv, CancelWins, RemoteHonest
<1>16. CASE UNCHANGED <<s, popen>>
  BY <1>16, EndKeeps DEF SameEnd
<1> QED
  BY <1>2, <1>3, <1>4, <1>5, <1>6, <1>7, <1>8, <1>9, <1>10, <1>11, <1>12, <1>13, <1>14,
     <1>15, <1>16
     DEF Next, SpawnerStep, ControllerStep, Provider, Commands, Faults, ghosts,
         StartController, HandshakeDone, ControllerLost, Bind, NoLaunch, Poll, Reap, Observe,
         ObserveCancel, Reconcile, Exit, IdleTimeout, StreamsEnd, Write, ProviderExits,
         AbandonStart, HandshakeTimeout, Die, Kill, Signal, CheckerDies

-----------------------------------------------------------------------------
(* The theorems *)

IInv ==
    /\ TypeOK /\ LockInv /\ LiveInv /\ RecordInv /\ ReportInv /\ LeaseInv
    /\ ChecksInv /\ EndInv

\* The initial state satisfies the inductive invariant.
LEMMA InvInit == Init => IInv
<1> SUFFICES ASSUME Init PROVE IInv
  OBVIOUS
<1>1. TypeOK
  BY TypeInit
<1>2. /\ s.attempt = 1 /\ s.status = "queued" /\ s.reason = "none" /\ ~s.cancel
      /\ ~s.started /\ s.base = 0 /\ s.hard = HardSeconds /\ s.spent = 0 /\ s.report = 0
      /\ ~s.verifying /\ s.checked = 0
  BY DEF Init, Fresh
<1>3. ctl.pc = "none" /\ ctl.report = 0 /\ ctl.snap = NoTree
  BY DEF Init, NoController, Controller
<1>4. LockInv /\ LiveInv
  BY <1>2, <1>3 DEF Init, LockInv, LiveInv, OneLive, AliveEnd, Alive, Active, Watching, Before
<1>5. RecordInv /\ ReportInv
  BY <1>2, <1>3 DEF RecordInv, ReportInv, CandidateBound, Finishing
<1>6. LeaseInv
  BY <1>2, <1>3, DispatchAssumption
     DEF LeaseInv, LeaseInBudget, DeadlineTrue, Finishing
<1>7. ChecksInv /\ EndInv
  BY <1>2 DEF Init, ChecksInv, EndInv, CancelWins, RemoteHonest
<1> QED
  BY <1>1, <1>4, <1>5, <1>6, <1>7 DEF IInv

\* Every step keeps the inductive invariant.
LEMMA InvNext == IInv /\ [Next]_vars => IInv'
<1>1. ASSUME IInv, Next PROVE IInv'
  <2>1. TypeOK'
    BY <1>1, TypeNext DEF IInv
  <2> QED
    BY <1>1, <2>1, LockNext, LiveNext, RecordNext, ReportNext, LeaseNext, ChecksNext, EndNext
       DEF IInv
<1>2. ASSUME IInv, UNCHANGED vars PROVE IInv'
  BY <1>2
     DEF IInv, vars, TypeOK, LockInv, LiveInv, OneLive, AliveEnd, Alive, RecordInv,
         CandidateBound, ReportInv,
         LeaseInv, LeaseInBudget, DeadlineTrue, ChecksInv, EndInv, CancelWins, RemoteHonest
<1> QED
  BY <1>1, <1>2

\* The inductive invariant holds in every reachable state.
THEOREM Invariance == Spec => []IInv
BY InvInit, InvNext, PTL DEF Spec

\* An approved cancellation is never overtaken by a success, nor by a report that
\* becomes the candidate (request_cancel against the controller's publication).
THEOREM CancelAlwaysWins == Spec => []CancelWins
<1>1. IInv => CancelWins
  BY DEF IInv, EndInv
<1> QED
  BY <1>1, Invariance, PTL

\* A record that offers another launch has no provider left, and two providers are
\* never alive together (lifecycle lock, reaping, orphaned records), those left
\* behind by the two failures that `strays' names excepted; and a record that says
\* how its provider ended never has it alive.
THEOREM AlwaysReaped == Spec => []Reaped
<1>1. IInv => Reaped
  <2> SUFFICES ASSUME IInv PROVE Reaped
    OBVIOUS
  <2>1. s.status \in {"succeeded", "failed", "cancelled"} =>
          /\ live \subseteq strays
          /\ s.reason \notin {"unavailable", "cancelled"} => ~Alive(s.attempt)
    BY DEF IInv, LiveInv, OneLive, AliveEnd, Active
  <2>2. Cardinality(live \ strays) <= 1
    <3>1. CASE live \ strays = {}
      BY <3>1, FS_EmptySet
    <3>2. CASE live \ strays = {s.attempt}
      <4>1. Cardinality({s.attempt}) = 1
        BY FS_Singleton
      <4> QED
        BY <3>2, <4>1
    <3> QED
      BY <3>1, <3>2 DEF IInv, LiveInv, OneLive
  <2> QED
    BY <2>1, <2>2 DEF Reaped
<1> QED
  BY <1>1, Invariance, PTL

\* A candidate that can be reviewed is bound to the worktree that its own provider
\* left, for every end but a cancellation (_bound_current_candidate).
THEOREM CandidateAlwaysBound == Spec => []CandidateBound
<1>1. IInv => CandidateBound
  BY DEF IInv, RecordInv
<1> QED
  BY <1>1, Invariance, PTL

\* A deadline is recorded only when the run time reached the lease, extensions
\* included, and a success only when it did not.
THEOREM DeadlinesTrue == Spec => []DeadlineTrue
<1>1. IInv => DeadlineTrue
  BY DEF IInv, LeaseInv
<1> QED
  BY <1>1, Invariance, PTL

\* No lease reaches beyond the budget of the job, however attempts, extensions and
\* checks alternate (_provider_max_seconds).
THEOREM LeaseAlwaysInBudget == Spec => []LeaseInBudget
<1>1. IInv => LeaseInBudget
  BY DEF IInv, LeaseInv
<1> QED
  BY <1>1, Invariance, PTL

\* The checks of a candidate run once, whatever is killed while they run.
THEOREM ChecksRunOnce == Spec => []ChecksOnce
<1>1. IInv => ChecksOnce
  BY DEF IInv, ChecksInv, ChecksOnce
<1> QED
  BY <1>1, Invariance, PTL

\* A local cancellation of a launched provider is marked as unknown at the remote.
THEOREM RemoteAlwaysHonest == Spec => []RemoteHonest
<1>1. IInv => RemoteHonest
  BY DEF IInv, EndInv
<1> QED
  BY <1>1, Invariance, PTL

Final ==
    s.status \in Terminal /\ s'.attempt = s.attempt =>
      /\ s'.status = s.status /\ s'.report = s.report /\ s'.tree = s.tree
      /\ s'.avail = s.avail /\ s.decided => s'.decided

\* A step from a terminal record keeps it, or starts the next attempt.
LEMMA FinalStep == ASSUME TypeOK, LockInv, Next PROVE Final
<1> USE DEF Final
<1>1. s \in Records /\ (s.status \in Terminal => s.status \notin Active)
  BY DEF TypeOK, Active, Terminal
<1>2. CASE s.status \notin Terminal \/ UNCHANGED s
  BY <1>2
<1>3. CASE \E o \in Origins : Create(o)
  <2>1. PICK o \in Origins : Create(o)
    BY <1>3
  <2>2. s.attempt < MaxCycles /\ s.attempt \in Nat
    BY <1>1, <2>1, RecordNumbers
       DEF Create, Eligible, Origins, ResumeEligible, RestartGuard, ContinueFacts
  <2>3. s'.attempt = s.attempt + 1
    BY <1>1, <2>1, <2>2, NextAttemptEffect DEF Create
  <2> QED
    BY <2>2, <2>3
<1>4. CASE QueuedSignal \/ Orphan \/ Cancel
  BY <1>1, <1>2, <1>4 DEF QueuedSignal, Orphan, Cancel, LockInv
<1>5. CASE StartFailure
  BY <1>2, <1>5 DEF StartFailure
<1>6. CASE \E t \in 1..MaxSeconds : Extend(t)
  BY <1>1, <1>2, <1>6 DEF Extend, ExtendEligible
<1>7. CASE ctl.pc \notin {"none", "exit"}
  BY <1>1, <1>2, <1>7 DEF LockInv
<1>8. CASE Tick
  BY <1>2, <1>8 DEF Tick, Running, Terminal
<1>9. CASE Finalize
  BY <1>1, <1>9 DEF Finalize, Records
<1>10. CASE StartChecks
  BY <1>1, <1>10 DEF StartChecks, Records
<1>11. CASE EndChecks \/ RecoverChecks
  <2>1. Charged.decided = s.decided
    BY <1>1 DEF Charged, Records
  <2> QED
    BY <1>11, <2>1, ChargedEffect DEF EndChecks, RecoverChecks, SameCandidate, SameEnd
<1> QED
  BY <1>2, <1>3, <1>4, <1>5, <1>6, <1>7, <1>8, <1>9, <1>10, <1>11
     DEF Next, SpawnerStep, ControllerStep, Provider, Commands, Faults, StartController,
         HandshakeDone, ControllerLost, Claim, Bind, BindFails, NoLaunch, Launch, Poll,
         Reap, Freeze, Observe, ObserveCancel, Reconcile, Publish, Exit, Progress, Notice,
         Note, IdleTimeout, StreamsEnd, Write, ProviderExits, AbandonStart, HandshakeTimeout,
         LaunchFails, Recover, Die, Kill, Signal, CheckerDies, Watching, Finishing, At

\* No late writer changes what a terminal record says.
THEOREM TerminalAlwaysStays == Spec => TerminalStays
<1>1. IInv /\ [Next]_vars => [Final]_vars
  BY FinalStep DEF IInv
<1> QED
  BY <1>1, Invariance, PTL DEF Spec, TerminalStays, Final

\* A candidate offered for review is what the record says of it.
THEOREM CandidateAlwaysTrue == Spec => []CandidateTrue
BY CancelAlwaysWins, CandidateAlwaysBound, RemoteAlwaysHonest, PTL DEF CandidateTrue

\* Leases, deadlines and checks keep the budget of the job.
THEOREM BudgetAlwaysKept == Spec => []BudgetKept
BY DeadlinesTrue, LeaseAlwaysInBudget, ChecksRunOnce, PTL DEF BudgetKept

-----------------------------------------------------------------------------
(* No record that is written is refused (validate_state).                     *)

\* What the controller has found has a source, and only a failed binding is bad.
FoundInv ==
    /\ ctl.report # 0 <=> ctl.source # "none"
    /\ ctl.bad => ctl.reason = "unavailable"
    /\ ctl.pc \in {"none", "exit", "monitor"} \cup Before => ~ctl.bad

\* A finding that may be published.
Tidy(f) == (f.report # 0 <=> f.source # "none") /\ (f.bad => f.reason = "unavailable")

\* What the reaped streams hold, the cleanup leaves and the record lets stand is tidy.
LEMMA FindingsTidy ==
  ASSUME TypeOK, FoundInv
  PROVE  /\ \A f \in Findings(ctl.reason) : Tidy(f)
         /\ \A f \in Cleaned : Tidy(f)
         /\ Tidy(Classified) /\ \A r : Tidy(Dropped(r))
<1>1. s.attempt # 0
  BY DispatchAssumption DEF TypeOK, Records, Attempts
<1>2. ASSUME NEW f \in Findings(ctl.reason) PROVE Tidy(f)
  <2>1. CASE ctl.reason \notin {"none", "deadline", "idle"}
    BY <1>2, <2>1 DEF Findings, Found, Tidy, FoundInv
  <2>2. CASE ctl.reason \in {"none", "deadline", "idle"}
    BY <1>1, <1>2, <2>2 DEF Findings, Found, Sources, Tidy
  <2> QED
    BY <2>1, <2>2
<1>3. \A f \in Cleaned : Tidy(f)
  BY DEF Cleaned, Completed, Found, Dropped, Tidy, FoundInv
<1>4. Tidy(Classified)
  BY DEF Classified, Found, Dropped, Tidy, FoundInv
<1>5. \A r : Tidy(Dropped(r))
  BY DEF Dropped, Found, Tidy
<1> QED
  BY <1>2, <1>3, <1>4, <1>5

\* Every step keeps FoundInv.
LEMMA FoundNext == ASSUME TypeOK, FoundInv, Next PROVE FoundInv'
<1> DEFINE Same == ctl'.report = ctl.report /\ ctl'.source = ctl.source /\ ctl'.bad = ctl.bad
<1>1. ctl \in Controls
  BY DEF TypeOK, Controls
<1>2. ASSUME Same, ctl'.reason = ctl.reason, ctl'.pc = ctl.pc PROVE FoundInv'
  BY <1>2 DEF FoundInv
<1>3. ASSUME NEW pc, ctl' = Controller(pc) PROVE FoundInv'
  BY <1>3 DEF Controller, FoundInv
<1>4. ASSUME NEW pc, NEW f, Tidy(f), Take(pc, f), pc \in {"reap", "complete", "reconcile"}
      PROVE  FoundInv'
  <2>1. ctl'.pc = pc /\ ctl'.report = f.report /\ ctl'.source = f.source
        /\ ctl'.bad = f.bad /\ ctl'.reason = f.reason
    BY <1>1, <1>4 DEF Take, Controls
  <2> QED
    BY <1>4, <2>1 DEF Tidy, FoundInv, Before
<1>5. ASSUME NEW pc, NEW r, Outcome(pc, r), ctl.pc \in {"monitor"} \cup Before
      PROVE  FoundInv'
  <2>1. Same
    BY <1>1, <1>5 DEF Outcome, Controls
  <2> QED
    BY <1>5, <2>1 DEF FoundInv
<1>6. CASE Bind \/ (\E pc : Goto(pc) /\ ctl.pc \in Before)
  <2>1. Same /\ ctl'.reason = ctl.reason /\ ~ctl.bad
    BY <1>1, <1>6 DEF Bind, Goto, At, Before, FoundInv, Controls
  <2> QED
    BY <2>1 DEF FoundInv
<1>7. CASE NoLaunch
  <2>1. ctl.pc \in Before
    BY <1>7 DEF NoLaunch, At, Before
  <2>2. CASE Outcome("observe", "interrupted")
    BY <1>5, <2>1, <2>2
  <2>3. ASSUME NEW r \in {"unavailable", "preflight", "failed"}, NEW bad \in BOOLEAN,
               bad => r = "unavailable",
               ctl' = [ctl EXCEPT !.pc = "observe", !.reason = r, !.bad = bad]
        PROVE  FoundInv'
    BY <1>1, <2>3 DEF Controls, FoundInv, Before
  <2> QED
    BY <1>7, <2>2, <2>3 DEF NoLaunch
<1>8. CASE Launch \/ LaunchFails \/ Claim
  <2>1. ctl.pc \in Before
    BY <1>8 DEF Launch, LaunchFails, Claim, At, Before
  <2>2. \/ Outcome("observe", "cancelled") \/ Outcome("observe", "failed")
        \/ Goto("monitor") \/ Goto("bind") \/ ctl' = Controller("exit")
    BY <1>8 DEF Launch, LaunchFails, Claim
  <2> QED
    BY <1>3, <1>5, <1>6, <2>1, <2>2
<1>9. CASE Poll
  <2>1. ctl' = [ctl EXCEPT !.behind = 0] \/ Outcome("reap", Decision)
    BY <1>9 DEF Poll
  <2>2. CASE ctl' = [ctl EXCEPT !.behind = 0]
    BY <1>1, <1>2, <2>2 DEF Controls
  <2> QED
    BY <1>5, <1>9, <2>1, <2>2 DEF Poll, At
<1>10. CASE IdleTimeout
  BY <1>5, <1>10 DEF IdleTimeout, At
<1>11. CASE StreamsEnd
  <2>1. Tidy(Found("unavailable", 0, "none", TRUE))
    BY DEF Tidy, Found
  <2> QED
    BY <1>4, <1>5, <1>11, <2>1 DEF StreamsEnd, At
<1>12. CASE Reap
  BY <1>1, <1>12 DEF Reap, Controls, FoundInv, Before
<1>13. CASE Freeze
  <2>1. Same /\ ctl'.pc = "observe"
    BY <1>1, <1>13 DEF Freeze, Controls
  <2>2. ctl.reason \notin {"none", "deadline"} => ctl'.reason = ctl.reason
    BY <1>1, <1>13 DEF Freeze, Controls
  <2> QED
    BY <2>1, <2>2 DEF FoundInv, Before
<1>14. CASE Observe
  BY <1>4, <1>14, FindingsTidy DEF Observe
<1>15. CASE ObserveCancel
  BY <1>4, <1>15, FindingsTidy DEF ObserveCancel
<1>16. CASE Reconcile
  BY <1>1, <1>16 DEF Reconcile, Controls, FoundInv, Before
<1>17. CASE StartController \/ BindFails \/ Publish \/ Exit \/ Recover \/ Die \/ Kill
  BY <1>3, <1>17 DEF StartController, BindFails, Publish, Exit, Recover, Die, Kill,
     NoController
<1>18. CASE Progress \/ Notice \/ Signal \/ Cancel \/ (\E t \in 1..MaxSeconds : Extend(t))
  <2>1. Same /\ ctl'.reason = ctl.reason /\ ctl'.pc = ctl.pc
    BY <1>1, <1>18 DEF Progress, Notice, Note, Signal, Cancel, Extend, Behind, Controls
  <2> QED
    BY <1>2, <2>1
<1>19. CASE UNCHANGED ctl
  BY <1>2, <1>19
<1> QED
  BY <1>6, <1>7, <1>8, <1>9, <1>10, <1>11, <1>12, <1>13, <1>14, <1>15, <1>16, <1>17,
     <1>18, <1>19
     DEF Next, SpawnerStep, ControllerStep, Provider, Commands, Faults, HandshakeDone,
         ControllerLost, Write, ProviderExits, AbandonStart, HandshakeTimeout,
         CheckerDies, Create,
         QueuedSignal, StartFailure, Tick, Finalize, Orphan, StartChecks, EndChecks,
         RecoverChecks

\* What validate_state compares.
SameOffer(v, w) ==
    /\ w.report = v.report /\ w.source = v.source /\ w.avail = v.avail
    /\ w.attempt = v.attempt /\ w.checked = v.checked
    /\ w.cont = v.cont /\ w.decided = v.decided /\ w.verifying = v.verifying
Accepted(v) == CandidateAccepted(v) /\ ChecksAccepted(v)

\* Writes that touch none of it,
LEMMA OfferKept ==
  ASSUME NEW v, NEW w, Accepted(v), SameOffer(v, w),
         w.status = v.status, w.reason = v.reason, w.resume = v.resume
  PROVE  Accepted(w)
BY DEF Accepted, CandidateAccepted, ChecksAccepted, SameOffer

\* and writes that move an active record to an active one.
LEMMA ActiveKept ==
  ASSUME NEW v, NEW w, Accepted(v), SameOffer(v, w),
         v.status \in Active, w.status \in Active
  PROVE  Accepted(w)
BY DEF Accepted, CandidateAccepted, ChecksAccepted, SameOffer, Active, Decisive

\* The end that a projection records is accepted, if only a failure is bad.
LEMMA ProjectionAccepted ==
  ASSUME NEW v \in Records, v.report # 0 <=> v.source # "none",
         v.checked <= v.attempt, ~v.verifying,
         NEW st \in Terminal, NEW r, NEW bad \in BOOLEAN, NEW remote, NEW allow,
         bad => st = "failed" /\ r = "unavailable"
  PROVE  Accepted(Projection(v, st, r, bad, remote, allow))
<1> DEFINE w == Projection(v, st, r, bad, remote, allow)
<1>1. /\ w.report = v.report /\ w.source = v.source /\ w.attempt = v.attempt
      /\ w.checked = v.checked /\ w.verifying = v.verifying /\ w.status = st
      /\ w.reason = r /\ w.decided = FALSE
  BY DEF Projection, Records
<1>2. w.avail <=> v.report # 0 /\ ~bad
  BY DEF Projection, Records
<1>3. w.resume => v.report = 0 /\ st = "failed"
  BY DEF Projection, Records
<1>4. w.cont => /\ ~bad /\ v.report # 0 /\ v.source # "cancelled"
                /\ v.attempt < MaxCycles /\ st = "failed"
  BY DEF Projection, Records
<1> HIDE DEF w
<1>5. CandidateAccepted(w)
  BY <1>1, <1>2, <1>3, <1>4 DEF CandidateAccepted, Decisive
<1>6. ChecksAccepted(w)
  BY <1>1 DEF ChecksAccepted
<1> QED
  BY <1>5, <1>6 DEF Accepted, w

\* So is what the controller publishes on its own paths.
LEMMA OwnedAccepted ==
  ASSUME NEW v \in Records, v.report # 0 <=> v.source # "none",
         v.checked <= v.attempt, ~v.verifying, NEW b
  PROVE  /\ Accepted(Owned(v, b)) /\ Accepted(OwnedUnscanned(v))
         /\ Accepted([OwnedUnscanned(v) EXCEPT !.remote = FALSE])
<1>1. {"failed", "cancelled"} \subseteq Terminal /\ v.cancel \in BOOLEAN
  BY DEF Terminal, Records
<1>2. Accepted(Owned(v, b))
  BY <1>1, ProjectionAccepted DEF Owned
<1> DEFINE st == IF v.cancel THEN "cancelled" ELSE "failed"
           r == IF v.cancel THEN "cancelled" ELSE "unavailable"
           u == Projection(v, st, r, FALSE, v.cancel, FALSE)
           x == [u EXCEPT !.resume = FALSE]
           y == [x EXCEPT !.remote = FALSE]
<1>3. st \in Terminal /\ st \in Active \cup Terminal /\ r \in Reasons
  BY <1>1 DEF Reasons
<1>4. OwnedUnscanned(v) = x
  BY DEF OwnedUnscanned
<1> HIDE DEF st, r
<1>5. Accepted(u) /\ u \in Records
  BY <1>1, <1>3, ProjectionAccepted, ProjectionType
<1> HIDE DEF u
<1>6. x \in Records /\ SameOffer(u, x) /\ x.status = u.status /\ x.reason = u.reason
      /\ ~x.resume
  <2>1. x \in Records
    BY <1>5, FlagType
  <2>2. SameOffer(u, x) /\ x.status = u.status /\ x.reason = u.reason /\ ~x.resume
    BY <1>5 DEF Records, SameOffer
  <2> QED
    BY <2>1, <2>2
<1>7. Accepted(x)
  BY <1>5, <1>6 DEF Accepted, CandidateAccepted, ChecksAccepted, SameOffer
<1> HIDE DEF x
<1>8. SameOffer(x, y) /\ y.status = x.status /\ y.reason = x.reason /\ y.resume = x.resume
  BY <1>6 DEF Records, SameOffer
<1>9. Accepted(y)
  BY <1>7, <1>8, OfferKept
<1> QED
  BY <1>2, <1>4, <1>7, <1>9

\* The record of the next attempt is accepted.
LEMMA NextAttemptAccepted ==
  ASSUME NEW v \in Records, NEW o \in Origins, v.attempt < MaxCycles, Accepted(v),
         o = "continue" => v.avail
  PROVE  Accepted(NextAttempt(v, o))
<1> DEFINE w == NextAttempt(v, o)
<1>1. /\ w.attempt = v.attempt + 1 /\ w.checked = v.checked /\ w.status = "queued"
      /\ w.cont = FALSE /\ w.decided = FALSE /\ w.verifying = FALSE
  BY DEF NextAttempt, Fresh
<1>2. IF o = "continue"
      THEN w.report = v.report /\ w.source = v.source /\ w.avail = v.avail
      ELSE w.report = 0 /\ w.source = "none" /\ w.avail = FALSE
  BY DEF NextAttempt, Fresh
<1>3. v.checked <= w.attempt
  BY <1>1, RecordNumbers DEF Accepted, ChecksAccepted, Records, Candidates, Attempts
<1> HIDE DEF w
<1>4. CandidateAccepted(w)
  BY <1>1, <1>2 DEF Accepted, CandidateAccepted
<1>5. ChecksAccepted(w)
  BY <1>1, <1>3 DEF ChecksAccepted
<1> QED
  BY <1>4, <1>5 DEF Accepted, w

\* What the controller publishes for a tidy finding is accepted.
LEMMA PublishedAccepted ==
  ASSUME TypeOK, Accepted(s), ~s.verifying, NEW f \in FindingSet, Tidy(f)
  PROVE  Accepted(Published(f))
<1> DEFINE w == Published(f)
           keep == f.report = 0 /\ s.origin = "continue" /\ s.report # 0
<1>0. s \in Records
  BY DEF TypeOK
<1>1. /\ w.status = Status(f.reason) /\ w.reason = f.reason /\ w.decided = FALSE
      /\ w.attempt = s.attempt /\ w.checked = s.checked /\ w.verifying = s.verifying
      /\ w.report = IF keep THEN s.report ELSE f.report
      /\ w.source = IF keep THEN s.source ELSE f.source
  BY <1>0 DEF Published, Records
<1>2. w.avail <=> w.report # 0 /\ ~f.bad
  BY <1>0 DEF Published, Records
<1>3. w.resume => w.report = 0
  BY <1>0 DEF Published, Records
<1>4. w.cont => /\ w.avail /\ w.status \in {"succeeded", "failed"}
                /\ w.source # "cancelled" /\ s.attempt < MaxCycles
  BY <1>0 DEF Published, Records
<1>5. w.report # 0 <=> w.source # "none"
  BY <1>1 DEF Accepted, CandidateAccepted, Tidy
<1>6. w.status # "orphaned" /\ (f.bad => w.status = "failed" /\ w.reason = "unavailable")
  BY <1>1 DEF Status, Tidy
<1>7. f.bad \in BOOLEAN
  BY DEF FindingSet
<1> HIDE DEF w
<1>8. CandidateAccepted(w)
  BY <1>1, <1>2, <1>3, <1>4, <1>5, <1>6, <1>7 DEF CandidateAccepted, Decisive
<1>9. ChecksAccepted(w)
  BY <1>1 DEF Accepted, ChecksAccepted
<1> QED
  BY <1>8, <1>9 DEF Accepted, w

\* The end of the checks is accepted, and offers a continuation of what can be reviewed.
LEMMA ChargedAccepted ==
  ASSUME TypeOK, Accepted(s), s.verifying PROVE Accepted(Charged)
<1> DEFINE v == [s EXCEPT !.verifying = FALSE, !.spent = s.spent + Lower(clock, Remaining(s))]
           w == [v EXCEPT !.cont = ContinueFacts(v)]
<1>1. s \in Records
  BY DEF TypeOK
<1>2. /\ v.report = s.report /\ v.source = s.source /\ v.avail = s.avail
      /\ v.attempt = s.attempt /\ v.checked = s.checked /\ v.decided = s.decided
      /\ v.verifying = FALSE /\ v.status = s.status /\ v.reason = s.reason
      /\ v.resume = s.resume
  BY <1>1 DEF Records
<1>3. /\ w.report = v.report /\ w.source = v.source /\ w.avail = v.avail
      /\ w.attempt = v.attempt /\ w.checked = v.checked /\ w.decided = v.decided
      /\ w.verifying = v.verifying /\ w.status = v.status /\ w.reason = v.reason
      /\ w.resume = v.resume /\ w.cont = ContinueFacts(v)
  BY <1>1 DEF Records
<1>4. Charged = w
  BY DEF Charged
<1> HIDE DEF v
<1>5. ContinueFacts(v) =>
        /\ v.avail /\ v.source # "cancelled" /\ v.attempt < MaxCycles
        /\ v.status \in Decisive /\ ~v.decided
  BY DEF ContinueFacts, Reviewable, Decisive
<1> HIDE DEF w
<1>6. CandidateAccepted(w) /\ ChecksAccepted(w)
  BY <1>2, <1>3, <1>5 DEF Accepted, CandidateAccepted, ChecksAccepted
<1> QED
  BY <1>4, <1>6 DEF Accepted

\* Every step writes a record that is accepted.
LEMMA AcceptedNext ==
  ASSUME TypeOK, LockInv, FoundInv, Accepted(s), Next PROVE Accepted(s')
<1>1. /\ s \in Records /\ ctl \in Controls
      /\ s.report # 0 <=> s.source # "none"
      /\ s.checked <= s.attempt
      /\ s.status \in Active => ~s.verifying
  BY DEF TypeOK, Controls, Accepted, CandidateAccepted, ChecksAccepted, LockInv, Active
<1>2. {"failed", "cancelled", "orphaned"} \subseteq Terminal
      /\ Active = {"queued", "running", "cancel-requested"}
  BY DEF Terminal, Active
<1>3. CASE \E o \in Origins : Create(o)
  <2>1. PICK o \in Origins : Create(o)
    BY <1>3
  <2>2. s.attempt < MaxCycles
    BY <2>1 DEF Create, Eligible, Origins, ResumeEligible, RestartGuard, ContinueFacts
  <2>3. o = "continue" => s.avail
    BY <2>1 DEF Create, Eligible, ContinueFacts, Reviewable
  <2>4. s' = NextAttempt(s, o)
    BY <2>1 DEF Create
  <2> QED
    BY <1>1, <2>2, <2>3, <2>4, NextAttemptAccepted
<1>4. CASE QueuedSignal
  <2>1. s' = s \/ \E st \in {"failed", "cancelled"} :
                     /\ s.status \in Active
                     /\ s' = Projection(s, st, "interrupted", FALSE, TRUE, TRUE)
    BY <1>2, <1>4 DEF QueuedSignal
  <2> QED
    BY <1>1, <1>2, <2>1, ProjectionAccepted
<1>5. CASE StartFailure
  <2>1. s' = s \/ /\ s.status \notin Terminal
                  /\ s' = Projection(s, "failed", "unavailable", FALSE, FALSE, TRUE)
    BY <1>5 DEF StartFailure
  <2>2. s.status \notin Terminal => s.status \in Active
    BY <1>1 DEF Records
  <2> QED
    BY <1>1, <1>2, <2>1, <2>2, ProjectionAccepted
<1>6. CASE Orphan
  <2>1. s.status \in Active /\ s' = Projection(s, "orphaned", "unavailable", FALSE, FALSE, TRUE)
    BY <1>6 DEF Orphan
  <2> QED
    BY <1>1, <1>2, <2>1, ProjectionAccepted
<1>7. CASE Claim \/ BindFails
  <2>1. s.status \in Active
    BY <1>7 DEF LockInv, Claim, BindFails, At
  <2>2. \/ s' = Owned(s, FALSE) \/ s' = [OwnedUnscanned(s) EXCEPT !.remote = FALSE]
        \/ s' = [s EXCEPT !.pid = TRUE]
    BY <1>7 DEF Claim, BindFails
  <2>3. CASE s' = [s EXCEPT !.pid = TRUE]
    <3>1. SameOffer(s, s') /\ s'.status = s.status
      BY <1>1, <2>3 DEF Records, SameOffer
    <3> QED
      BY <2>1, <3>1, ActiveKept
  <2> QED
    BY <1>1, <2>1, <2>2, <2>3, OwnedAccepted
<1>8. CASE Launch \/ LaunchFails \/ Progress \/ Notice \/ Freeze
  <2>1. s.status \in Active
    BY <1>8 DEF LockInv, Launch, LaunchFails, Progress, Notice, Note, Freeze, At
  <2>2. SameOffer(s, s') /\ s'.status \in {s.status, "running"}
    <3>1. CASE Launch \/ LaunchFails
      BY <1>1, <3>1 DEF Launch, LaunchFails, Records, SameOffer
    <3>2. CASE Freeze
      BY <1>1, <3>2 DEF Freeze, Records, SameOffer
    <3>3. CASE Notice
      BY <1>1, <3>3 DEF Notice, Note, Records, SameOffer
    <3>4. CASE Progress
      BY <1>1, <3>4 DEF Progress, Note, Records, SameOffer
    <3> QED
      BY <1>8, <3>1, <3>2, <3>3, <3>4
  <2> QED
    BY <1>2, <2>1, <2>2, ActiveKept
<1>9. CASE Recover
  <2> DEFINE n == IF ctl.pc \in {"monitor", "reap"} THEN Upper(s.elapsed, s.base + clock)
                  ELSE Upper(s.elapsed, ctl.end)
             v == [s EXCEPT !.started = FALSE, !.elapsed = n]
  <2>1. s.status \in Active
    BY <1>9 DEF LockInv, Recover, Watching, Finishing
  <2>2. n \in Nat
    <3>1. s.base + clock \in Nat /\ s.elapsed \in Nat /\ ctl.end \in Nat
      BY <1>1, RecordNumbers DEF TypeOK
    <3> QED
      BY <3>1, LimitType
  <2>3. s' \in {Owned(v, TRUE), OwnedUnscanned(v)}
    BY <1>9 DEF Recover
  <2> HIDE DEF n
  <2>4. v \in Records
    BY <1>1, <2>2, StoppedType
  <2>5. v.report = s.report /\ v.source = s.source /\ v.checked = s.checked
        /\ v.attempt = s.attempt /\ v.verifying = s.verifying
    BY <1>1 DEF Records
  <2> HIDE DEF v
  <2> QED
    BY <1>1, <2>1, <2>3, <2>4, <2>5, OwnedAccepted
<1>10. CASE Publish
  <2>1. s.status \in Active /\ s' = Published(Classified)
    BY <1>10 DEF LockInv, Publish, At
  <2> QED
    BY <1>1, <2>1, ClassifiedType, FindingsTidy, PublishedAccepted
<1>11. CASE Tick \/ (\E t \in 1..MaxSeconds : Extend(t))
  <2>1. /\ SameOffer(s, s') /\ s'.status = s.status /\ s'.reason = s.reason
        /\ s'.resume = s.resume
    BY <1>1, <1>11 DEF Tick, Extend, Records, SameOffer
  <2> QED
    BY <2>1, OfferKept
<1>12. CASE Cancel
  <2>1. SameOffer(s, s') /\ s.status \in Active /\ s'.status = "cancel-requested"
    BY <1>1, <1>12 DEF Cancel, Records, SameOffer
  <2> QED
    BY <1>2, <2>1, ActiveKept
<1>13. CASE Finalize
  <2>1. /\ s.avail /\ s.status # "orphaned" /\ ~s.verifying
        /\ s'.report = s.report /\ s'.source = s.source /\ s'.avail = s.avail
        /\ s'.attempt = s.attempt /\ s'.checked = s.checked /\ s'.verifying = s.verifying
        /\ s'.status = s.status /\ s'.reason = s.reason /\ s'.cont = FALSE
    BY <1>1, <1>13 DEF Finalize, Reviewable, Records
  <2> QED
    BY <1>1, <2>1 DEF Accepted, CandidateAccepted, ChecksAccepted
<1>14. CASE StartChecks
  <2>1. /\ s.avail /\ s.status \in Decisive /\ ~s.decided
        /\ s'.report = s.report /\ s'.source = s.source /\ s'.avail = s.avail
        /\ s'.attempt = s.attempt /\ s'.checked = s.attempt
        /\ s'.status = s.status /\ s'.reason = s.reason /\ s'.cont = FALSE
        /\ s'.decided = s.decided /\ s'.resume = s.resume
    BY <1>1, <1>14 DEF StartChecks, Reviewable, Records, Decisive
  <2>2. s.attempt <= s.attempt
    BY <1>1, RecordNumbers
  <2> QED
    BY <1>1, <2>1, <2>2 DEF Accepted, CandidateAccepted, ChecksAccepted, Decisive
<1>15. CASE EndChecks \/ RecoverChecks
  BY <1>15, ChargedAccepted DEF EndChecks, RecoverChecks
<1>16. CASE UNCHANGED s
  BY <1>16
<1> QED
  BY <1>3, <1>4, <1>5, <1>6, <1>7, <1>8, <1>9, <1>10, <1>11, <1>12, <1>13, <1>14, <1>15,
     <1>16
     DEF Next, SpawnerStep, ControllerStep, Provider, Commands, Faults, ghosts,
         StartController, HandshakeDone, ControllerLost, Bind, NoLaunch, Poll, Reap, Observe,
         ObserveCancel, Reconcile, Exit, IdleTimeout, StreamsEnd, Write, ProviderExits,
         AbandonStart, HandshakeTimeout, Die, Kill, Signal, CheckerDies

\* No process is refused its own write, and none leaves a record that cannot be read.
THEOREM RecordsAreAccepted == Spec => []StateAccepted
<1> DEFINE AInv == IInv /\ FoundInv /\ Accepted(s)
<1>1. Init => AInv
  <2> SUFFICES ASSUME Init PROVE AInv
    OBVIOUS
  <2>1. /\ s.report = 0 /\ s.source = "none" /\ s.avail = FALSE /\ s.cont = FALSE
        /\ s.status = "queued" /\ s.checked = 0 /\ s.attempt = 1 /\ s.verifying = FALSE
    BY DEF Init, Fresh
  <2>2. Accepted(s)
    BY <2>1 DEF Accepted, CandidateAccepted, ChecksAccepted
  <2>3. FoundInv
    BY DEF Init, NoController, Controller, FoundInv
  <2> QED
    BY <2>2, <2>3, InvInit
<1>2. AInv /\ [Next]_vars => AInv'
  <2>1. ASSUME AInv, Next PROVE AInv'
    BY <2>1, InvNext, FoundNext, AcceptedNext DEF IInv
  <2>2. ASSUME AInv, UNCHANGED vars PROVE AInv'
    <3>1. UNCHANGED <<s, ctl>>
      BY <2>2 DEF vars
    <3> QED
      BY <2>2, <3>1, InvNext DEF FoundInv
  <2> QED
    BY <2>1, <2>2
<1>3. AInv => StateAccepted
  BY DEF Accepted, StateAccepted
<1> QED
  BY <1>1, <1>2, <1>3, PTL DEF Spec

\* The record can be relied on: it can be read, and what it says of the candidate is so.
THEOREM RecordIsTrue == Spec => []RecordTrue
BY CandidateAlwaysTrue, RecordsAreAccepted, PTL DEF RecordTrue
=============================================================================
