SPECIFICATION Spec
CONSTANTS
  w1 = w1  w2 = w2
  alice = alice  bob = bob
  a1 = a1  a2 = a2
  c1 = c1  c2 = c2
  s1 = s1  s2 = s2
  d1 = d1  d2 = d2  d3 = d3
  i1 = i1  i2 = i2
  k1 = k1  k2 = k2
  None = None
  Ops = {"createV2", "registerV2", "revoke"}
  Workers = {w1}
  Subjects = {alice}
  Addresses = {a1}
  Chains = {c1}
  SignerIds = {s1}
  DeviceIds = {d1, d2}
  AccountIds = {i1}
  Keys = {k1}
  MaxFaults = 0
  MaxCrashes = 1
  MaxInterventions = 0
INVARIANTS
  RefusesOnlyLegacyStores
