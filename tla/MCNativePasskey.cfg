SPECIFICATION Spec
CONSTANTS
  h1 = h1  h2 = h2
  alice = alice  bob = bob
  native = native  moved1 = moved1  moved2 = moved2
  former1 = former1  former2 = former2
  None = None
  Handlers = {h1, h2}
  Users = {alice}
  Accounts = {native, moved1}
  Owner <- Owners
  Former <- FormerUsers
  MaxFrames = 1
INVARIANTS
  OwnerIsPrompted
