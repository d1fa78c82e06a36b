SPECIFICATION Spec
CONSTANTS
  Cpu = {c1, c2}
  Sleepers = {p1}
  Samplers = {s1}
  Edfs = {e1}
  Rendez = {r1, r2}
  Nil = Nil
SYMMETRY Symmetry
INVARIANTS Consistent TimeoutAhead ActiveInside ExpelledUnarmed
CHECK_DEADLOCK FALSE
