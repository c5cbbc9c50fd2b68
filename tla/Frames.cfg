SPECIFICATION MCSpec
CONSTANTS
  Packets = 4
  Modulus = 5
  MaxLoss = 2
  Stall = 11
  MaxPackets = 12
  MaxRestarts = 1
  Clients = {c1, c2}
  Pids = {p1, p2}
  Requests <- MCRequests
  Limit = 2
  MaxFrames = 3
  MaxTime = 1
SYMMETRY Symm
INVARIANTS
  WholeUnlessFlagged
  NoForeignPixels
  Resynchronises

  
  
CHECK_DEADLOCK FALSE
