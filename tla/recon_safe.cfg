CONSTANTS
  d = d
  e = e
  f = f
  g = g
  c1 = c1
  c2 = c2
  foreign = foreign
  Path = {d, e, f}
  Anc <- DeepAnc
  Content = {c1, c2, foreign}
  Foreign = foreign
  MaxCalls = 3
  MaxCrashes = 2
  MaxFaults = 1
  MaxDrifts = 1
SPECIFICATION Spec
SYMMETRY Contents
INVARIANTS TypeOK Recoverable RollbackResumes
PROPERTIES ImplementsAtomicTree ForeignPreserved
CHECK_DEADLOCK FALSE
