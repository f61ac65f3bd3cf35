SPECIFICATION Spec
CONSTANTS
  Runs = {p1, p2, p3}
  NoRun = NoRun
  Tasks = {t1, t2}
  NoTask = NoTask
  MaxContent = 1
  MaxCalls = 3
  MaxEdits = 1
  MaxKills = 1
SYMMETRY Symmetry
INVARIANTS TypeOK LaunchExact
PROPERTIES RollbackExact
CHECK_DEADLOCK FALSE
