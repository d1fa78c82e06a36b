SPECIFICATION SpecRfork
CONSTANTS
  Proc = {p1, p2, p3}
  Tags = {t1}
  Rgrps = {g1, g2}
  Nil = Nil
  Cancelled = Cancelled
INVARIANTS UnlockHeld
CHECK_DEADLOCK FALSE
