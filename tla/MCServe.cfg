SPECIFICATION Spec
CONSTANTS
  w1 = w1  w2 = w2
  alice = alice  bob = bob
  a1 = a1  a2 = a2
  c1 = c1  c2 = c2
  s1 = s1  s2 = s2
  d1 = d1  d2 = d2  d3 = d3
  i1 = i1  i2 = i2
  k1 = k1  k2 = k2
  None = None
  Ops = {"createV2", "import", "registerV2", "createDevice", "recoverV2", "init", "primary", "getDevice", "revoke", "listV1", "listAccounts", "getSigner", "migrated"}
  Workers = {w1, w2}
  Subjects = {alice, bob}
  Addresses = {a1, a2}
  Chains = {c1}
  SignerIds = {s1, s2}
  DeviceIds = {d1, d2}
  AccountIds = {i1, i2}
  Keys = {k1}
  MaxFaults = 0
  MaxCrashes = 0
  MaxInterventions = 1
SYMMETRY Symmetry
INVARIANTS
  ServedShareIsOwn
  RevokedStaysHidden
  ListsOwnDevices
PROPERTIES
  FoundIsServed
