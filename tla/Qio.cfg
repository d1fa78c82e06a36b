SPECIFICATION Spec
CONSTANTS
  Readers = {r1, r2}
  Writers = {w1, w2}
  Others = {o1}
  Limits = {0, 1}
  inilim = 1
INVARIANTS Consistent ReaderAwake WriterAwake Bounded
SYMMETRY Symmetry
CHECK_DEADLOCK FALSE
