SPECIFICATION Spec
CONSTANTS
  Read = {r, w}
  Named = {r}
  Write = {w}
  Outside = {o}
  Bodies = {b1, b2}
  Absent = Absent
  Link = Link
  Repairs = "yes"
  MaxCycles = 2
  MaxTouches = 1
  MaxChanges = 1
SYMMETRY Symmetry
INVARIANTS TypeOK SentIsRecorded StageAccounted QuietCandidate LaunchAsRecorded
PROPERTIES OthersKept
CHECK_DEADLOCK FALSE
