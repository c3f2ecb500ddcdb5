\* A config that exists and cannot be parsed counts as none.
CONSTANTS
  Procs = {p1}
  home = home
  vault = vault
  Paths = {home, vault}
  Default = home
  Keys = {k1, k2}
  Versions = {0, 4, 5}
  SquicOwn = 4
  Files <- MCFiles
  None = None
SPECIFICATION Spec
INVARIANT ConfigHonoured
SYMMETRY Symmetry
