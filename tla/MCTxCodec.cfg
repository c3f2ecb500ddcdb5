\* Batches up to two operations, within and beyond every bound, and what the
\* network can make of their encodings.
CONSTANTS
  Base = 6
  Width = 2
  KeyLen = 1
  SigLen = 1
  NotText = {5}
  MAX_OPS = 2
  MAX_DETAIL = 1
  MAX_STR = 1
  MAX_PAYLOAD = 2
  Signed <- MCSigned
  Foreign <- MCForeign
SPECIFICATION Spec
INVARIANTS TypeOK DecodedIsSent SignatureFitsOne Canonical AcceptedIsShort
CHECK_DEADLOCK FALSE
