CONSTANTS
  d = d
  e = e
  f = f
  g = g
  c1 = c1
  c2 = c2
  foreign = foreign
  Path = {d, f, g}
  Anc <- WideAnc
  Content = {c1, c2, foreign}
  Foreign = foreign
  MaxCalls = 2
  MaxCrashes = 1
  MaxFaults = 0
  MaxDrifts = 0
SPECIFICATION Spec
INVARIANT DecidedRecovers
CHECK_DEADLOCK FALSE
