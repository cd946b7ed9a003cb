\* One slow browser on one stream, long enough for several drops.
SPECIFICATION BrowserSpec
CONSTANTS
  Viewers = {v1}
  Keys = {k1}
  Streams = {s1}
  None = None
  RingSize = 1
  MinCapacity = 1
  Headroom = 1
  Buffer = 1
  MaxRecords = 5
  Payload = "activity"
SYMMETRY Symmetry
CHECK_DEADLOCK FALSE
INVARIANTS
  GapIsAnnounced
