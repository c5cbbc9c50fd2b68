SPECIFICATION MCSpec
CONSTANTS
  Kinects = {k1, k2}
  Aliased = {}
  Clients = {c1, c2}
  Sdk = sdk
  None = none
  MaxEvents = 1
  MaxFaults = 1
SYMMETRY Symm
INVARIANTS
  CommittedOnce
  TravelAlone
  TiltVisible
