\* A long poll, a stream or a datagram reader that may wait for ever, and a
\* call beside it on the same connection.
CONSTANTS
  poll = poll
  watch = watch
  Handles = {h1, h2}
  Calls = {poll, watch}
  Kinds <- MCKinds
  Parked = {poll}
  MaxChunks = 1
  None = None
SPECIFICATION FairSpec
INVARIANTS TypeOK OkIsComplete StreamMeansReceived FailureIsExternal
PROPERTIES ImplementsExchange NobodyHangs LastHandleCloses
CHECK_DEADLOCK FALSE
