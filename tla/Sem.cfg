SPECIFICATION FairSpec
CONSTANTS
  Proc = {p1, p2, p3}
  Addrs = {a1}
  Kinds = {"noblock", "timed"}
  MaxValue = 2
  MaxDelta = 2
  Nil = Nil
INVARIANTS Consistent PhoresAlive NoneStranded
PROPERTIES CountingSpec Served
CHECK_DEADLOCK FALSE
