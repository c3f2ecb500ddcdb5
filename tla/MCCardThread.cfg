\* One card thread, two clones of its handle.
CONSTANTS
  i1 = i1
  i2 = i2
  a = a
  b = b
  Instances = {i1}
  Callers = {a, b}
  Host <- MCOneHost
  Keys = {k1, k2}
  Blank = Blank
  None = None
  MaxRequests = 3
  MaxEvents = 3
SPECIFICATION Spec
INVARIANTS TypeOK RequestConserved PinVerifiedOnce DeadConnectionShed ProvisionAtMostOnce
CHECK_DEADLOCK FALSE
SYMMETRY CallerSymmetry
