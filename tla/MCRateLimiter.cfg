SPECIFICATION Spec
CONSTANTS
  u1 = u1  u2 = u2
  g1 = g1  g2 = g2
  None = None
  Users = {u1}
  Goroutines = {g1, g2}
  Burst = 2
  TTL = 3
  SweepEvery = 1
  MaxHold = 1
  MaxDelay = 1
  MaxTime = 8
SYMMETRY Symmetry
INVARIANTS
  TypeOK
  WindowBound
  VisitorsAreRecent
  HolderDecides
PROPERTIES
  ImplementsBuckets
