\* A Client is dropped while a Requests made of it survives.
CONSTANTS
  poll = poll
  watch = watch
  Handles = {h1, h2}
  Calls = {poll, watch}
  Kinds <- MCKinds
  Parked = {poll}
  MaxChunks = 1
  None = None
SPECIFICATION FairSpec
PROPERTY RequestsHoldNothing
CHECK_DEADLOCK FALSE
