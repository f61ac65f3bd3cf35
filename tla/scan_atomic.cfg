SPECIFICATION Spec
CONSTANTS
  Top = {t1}
  Sub = {s1}
  Bodies = {b1, b2}
  Absent = Absent
  MaxEdits = 3
SYMMETRY Symmetry
INVARIANTS TypeOK ScanAtomic RefusedOnlyIfEdited
CHECK_DEADLOCK FALSE
