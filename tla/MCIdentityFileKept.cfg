\* Two runs of keygen at once: the second overwrites what the first announced.
CONSTANTS
  Procs = {p1, p2}
  Keys = {k1, k2}
  Passes = {w1, w2}
  Plain = Plain
  Stray = Stray
  Blend = Blend
  Garbage = Garbage
  Missing = Missing
  Absent = Absent
  None = None
SPECIFICATION Spec
INVARIANT ReportedIsKept
SYMMETRY Symmetry
