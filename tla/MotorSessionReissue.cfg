SPECIFICATION Spec
CONSTANTS
  Clients = {c1}
  Sdk = sdk
  NoThread = none
  Angles <- MCAngles
  MaxGen = 1
  MaxPolls = 2
INVARIANTS
  AtMostOneTravel
