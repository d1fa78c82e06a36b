SPECIFICATION Spec
CONSTANTS
  Proc = {p1, p2, p3}
  Tags = {t1, t2, t3, t4}
  Nil = Nil
INVARIANTS Consistent NoUnexpected GateNotLost
PROPERTIES RpcSpec
SYMMETRY Symmetry
CHECK_DEADLOCK FALSE
