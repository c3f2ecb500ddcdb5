\* Safety of the signing flow: a card client and a software client, two
\* servers, two challenges each, one run of the flow per client.
CONSTANTS
  card = card
  soft = soft
  s1 = s1
  s2 = s2
  k1 = k1
  k2 = k2
  ks = ks
  None = None
  Clients = {card, soft}
  Yubi = {card}
  Servers = {s1, s2}
  Nonces = {n1, n2}
  Batches <- MCSmallBatches
  Keys = {k1, k2, ks}
  SoftKey <- MCSoftKey
  CardKeys = {k1, k2}
  Admins <- MCAdmins
  MaxOps = 1
  MaxRuns = 1
SPECIFICATION Spec
INVARIANTS TypeOK AppliedWasApproved SignatureAppliedOnce OkMeansApplied
PROPERTY ImplementsAuthority
