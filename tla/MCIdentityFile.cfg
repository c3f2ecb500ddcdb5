\* Two processes that run keygen again and again, after one another and at once.
CONSTANTS
  Procs = {p1, p2}
  Keys = {k1, k2, k3, k4}
  Passes = {w1, w2}
  Plain = Plain
  Stray = Stray
  Blend = Blend
  Garbage = Garbage
  Missing = Missing
  Absent = Absent
  None = None
SPECIFICATION Spec
INVARIANTS TypeOK KeptUnlessRaced LoadIsGenerated
PROPERTY NeverOverwritten
