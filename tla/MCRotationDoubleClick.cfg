SPECIFICATION Spec
CONSTANTS
  h1 = h1  h2 = h2
  p1 = p1  p2 = p2
  None = None
  Handlers = {h1, h2}
  Projects = {p1}
  Together = {{"part"}}
  MaxMinted = 6
  MaxLost = 0
  MaxCut = 0
SYMMETRY Symmetry
INVARIANTS
  NothingThrownAway
