\* internal/metrics: the same sharing for samples, two request keys.
SPECIFICATION FairSpec
CONSTANTS
  Viewers = {v1, v2}
  Keys = {k1, k2}
  Streams = {s1, s2}
  None = None
  RingSize = 1
  MinCapacity = 1
  Headroom = 1
  Buffer = 1
  MaxRecords = 1
  Payload = "metric"
CHECK_DEADLOCK FALSE
PROPERTIES
  ResponseEnds
  KeepsPromise
