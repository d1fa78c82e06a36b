SPECIFICATION FairSpec
CONSTANTS
  Proc = {p1, p2, p3}
  Tags = {t1, t2}
  Rgrps = {g1}
  Nil = Nil
  Cancelled = Cancelled
INVARIANTS Consistent ReadiedOnce
PROPERTIES MeetingSpec Awakened
CHECK_DEADLOCK FALSE
