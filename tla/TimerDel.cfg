SPECIFICATION Spec
CONSTANTS
  Cpu = {c1, c2}
  Sleepers = {p1}
  Samplers = {}
  Edfs = {}
  Rendez = {r1, r2}
  Nil = Nil
INVARIANTS TimerdelWaits
CHECK_DEADLOCK FALSE
