SPECIFICATION Spec
CONSTANTS
  Slot = {boot, s1, s2}
  Nil = Nil
  Boot = boot
  Pids = {i1, i2, i3, i4}
  MaxWait = 1
  MaxBroken = 1
  MaxReads = 0
  MaxChanges = 1
  ReadsApart = TRUE
INVARIANTS PidsOutlive
SYMMETRY Symmetry
CHECK_DEADLOCK FALSE
