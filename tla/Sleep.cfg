SPECIFICATION FairSpec
CONSTANTS
  Proc = {p1, p2}
  Intr = {i1}
  Rendez = {r1, r2}
  Nil = Nil
INVARIANTS Consistent WakeupNotLost NoteNotLost
PROPERTIES Awakened InterruptEnds
