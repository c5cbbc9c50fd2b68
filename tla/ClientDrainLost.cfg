SPECIFICATION FairSpec
CONSTANTS
  Listeners = {l1}
  Clients = {c1, c2, c3}
  MaxClients = 2
  Guarded = FALSE
  Main = Main
  Nobody = Nobody
PROPERTY SignalEnds
CHECK_DEADLOCK FALSE
