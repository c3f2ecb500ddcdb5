\* Two processes, each with a thread and a handle of its own, share one card
\* that is removed, swapped and reset.
CONSTANTS
  i1 = i1
  i2 = i2
  a = a
  b = b
  Instances = {i1, i2}
  Callers = {a, b}
  Host <- MCTwoHosts
  Keys = {k1}
  Blank = Blank
  None = None
  MaxRequests = 2
  MaxEvents = 2
SPECIFICATION FairSpec
INVARIANTS RequestConserved DeadConnectionShed ProvisionAtMostOnce
PROPERTIES EveryRequestAnswered ThreadReturns
CHECK_DEADLOCK FALSE
