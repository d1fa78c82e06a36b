SPECIFICATION RWFairSpec
CONSTANTS
  Proc = {p1, p2, p3, p4}
  Nil = Nil
INVARIANTS Consistent Exclusion
PROPERTIES NoBarging RWGranted
