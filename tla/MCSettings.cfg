\* Processes that load, set and run commands while the config is edited.
CONSTANTS
  Procs = {p1, p2}
  home = home
  vault = vault
  Paths = {home, vault}
  Default = home
  Keys = {k1, k2}
  Versions = {0, 4, 5}
  SquicOwn = 4
  Files <- MCFiles
  None = None
SPECIFICATION Spec
INVARIANTS TypeOK PubkeyFindsKeygen EnvelopeAsConfigured
SYMMETRY Symmetry
