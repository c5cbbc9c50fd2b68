CONSTANTS
  Conns = {c1, c2}
  Pids = {p0}
  NoPid = nopid
  Masks <- MCMasks
  kMaxQueuedFramesPerClient = 1
  MaxFrames = 2
  HqFails = TRUE
  Demands <- MCDemands
  MaxChanges = 2
  MaxFaults = 1
  Late = FALSE
  WorkerFrames = 4
  Ids = {i1}
  Paths = {p1, p2}
  None = none
  Grace = 2
  MaxEvents = 4
  NodeFaults = 2
SPECIFICATION MCSpec
CHECK_DEADLOCK FALSE
INVARIANTS
  LeasesAndThreads
  Arbitrated
  FramesOfOneMode
PROPERTIES
  ModeSetWhileStopped
  EnginesFollowDemand
  TakesNewest
  GraceIsKept
  Converges
