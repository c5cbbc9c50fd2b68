SPECIFICATION FairSpec
CONSTANTS
  Conns = {c1, c2}
  Pids = {}
  NoPid = nopid
  Masks <- TwoColours
  Faulty <- StopFault
PROPERTIES
  DemandServed
  LostLeaseEnds
