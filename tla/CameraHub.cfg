SPECIFICATION Spec
CONSTANTS
  Conns = {c1, c2}
  Pids = {p1}
  NoPid = nopid
  Masks <- AllMasks
  Faulty <- EngineFaults
SYMMETRY Symm
INVARIANTS
  UsersAreLeases
  LostLeaseIsTold
  Arbitrated
PROPERTIES
  RefusalChangesNothing
