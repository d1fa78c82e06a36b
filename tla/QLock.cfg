SPECIFICATION FairSpec
CONSTANTS
  Proc = {p1, p2, p3}
  QLocks = {q1}
  Nil = Nil
INVARIANTS QLockConsistent MutualExclusion LockedIsOwned ReadiedOnce
PROPERTIES FifoSpec Granted
