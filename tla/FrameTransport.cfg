SPECIFICATION Spec
CONSTANTS
  Readers = {r1}
  Workers = {"rgb", "hq"}
  SizesOf <- MCSizesOf
  Vga = 1
  Hq = 2
  Parts = {"nv12"}
  MaxSeq <- MCMaxSeq
  MaxFrames = 3
  MaxOpens = 2
  NoFrame = NoFrame
  NoJob = NoJob
INVARIANTS
  OfflineBetweenSessions
PROPERTIES
  ReadsAreFrames
CHECK_DEADLOCK FALSE
