\* Retries: one card client runs the flow twice against one server, with empty
\* and oversized batches, lost answers, crashes and a card that is swapped.
CONSTANTS
  card = card
  soft = soft
  s1 = s1
  s2 = s2
  k1 = k1
  k2 = k2
  ks = ks
  None = None
  Clients = {card}
  Yubi = {card}
  Servers = {s1}
  Nonces = {n1, n2, n3}
  Batches <- MCBatches
  Keys = {k1, k2, ks}
  SoftKey <- MCNoSoftKey
  CardKeys = {k1, k2}
  Admins <- MCAdmins
  MaxOps = 1
  MaxRuns = 2
SPECIFICATION FairSpec
INVARIANTS OkMeansApplied FreshNoncePerSignature
PROPERTY RunsReturn
