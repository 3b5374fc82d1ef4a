SPECIFICATION Spec
CONSTANTS
  h1 = h1  h2 = h2
  p1 = p1  p2 = p2
  None = None
  Handlers = {h1, h2}
  Projects = {p1, p2}
  Together = {{"key", "part"}}
  MaxMinted = 7
  MaxLost = 2
  MaxCut = 1
SYMMETRY Symmetry
INVARIANTS
  TypeOK
  KeepsKey
  KeepsPart
