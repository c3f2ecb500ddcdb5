\* Two processes sharing one card: the second one's open() re-locks the first.
CONSTANTS
  i1 = i1
  i2 = i2
  a = a
  b = b
  Instances = {i1, i2}
  Callers = {a, b}
  Host <- MCTwoHosts
  Keys = {k1, k2}
  Blank = Blank
  None = None
  MaxRequests = 3
  MaxEvents = 1
SPECIFICATION Spec
INVARIANT PinVerifiedOnce
CHECK_DEADLOCK FALSE
SYMMETRY KeySymmetry
