SPECIFICATION Spec
CONSTANTS
  Slot = {boot, s1, s2}
  Nil = Nil
  Boot = boot
  Pids = {i1, i2, i3}
  MaxWait = 1
  MaxBroken = 1
  MaxReads = 2
  MaxChanges = 1
  ReadsApart = TRUE
INVARIANTS Consistent NchildExact SleepsForReason PidsCounted
SYMMETRY Symmetry
CHECK_DEADLOCK FALSE
