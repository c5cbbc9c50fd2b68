SPECIFICATION FairSpec
CONSTANTS
  Listeners = {l1, l2}
  Clients = {c1, c2, c3}
  MaxClients = 2
  Guarded = TRUE
  Main = Main
  Nobody = Nobody
INVARIANTS
  CountIsThreads
  NoneAfterExit
PROPERTIES
  SignalEnds
  DrainSpec
CHECK_DEADLOCK FALSE
