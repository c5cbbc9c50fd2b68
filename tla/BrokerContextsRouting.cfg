SPECIFICATION MCSpec
CONSTANTS
  Kinects = {k1, k2}
  Aliased = {}
  Clients = {c1}
  Sdk = sdk
  None = none
  MaxEvents = 1
  MaxFaults = 1
INVARIANTS
  ExactRouting
