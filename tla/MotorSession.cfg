SPECIFICATION Spec
CONSTANTS
  Clients = {c1, c2}
  Sdk = sdk
  NoThread = none
  Angles <- MCAngles
  MaxGen = 2
  MaxPolls = 2
SYMMETRY Symm
INVARIANTS
  TiltOwnerVisible
  CompletedIsLast
  CompletedTiltSucceeds
  VerifiedIsOwnMove
  PrimedBeforeTraffic
  SilentKnownTravel
