\* internal/activity: every interleaving of two viewers, two upstreams.
SPECIFICATION Spec
CONSTANTS
  Viewers = {v1, v2}
  Keys = {k1}
  Streams = {s1, s2}
  None = None
  RingSize = 1
  MinCapacity = 1
  Headroom = 1
  Buffer = 1
  MaxRecords = 3
  Payload = "activity"
SYMMETRY Symmetry
CHECK_DEADLOCK FALSE
PROPERTY ClosedByOwnCause
